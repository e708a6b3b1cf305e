----------------------------- MODULE KafkaProducer -----------------------------
(***************************************************************************)
(* The producer the requests of one API process share: startup, send and   *)
(* shutdown of app/integrations/kafka.py on one event loop, a step per     *)
(* await.  lifespan starts it once before the first request is served; a   *)
(* send that finds no producer starts one itself, while other requests run *)
(* between its awaits.                                                     *)
(*                                                                         *)
(* Every task makes at most one AIOKafkaProducer, so the object is named   *)
(* by the task that made it.  at[t] is the await the task is at:           *)
(*   "idle"      not called yet                                            *)
(*   "start"     producer.start(), of the object the task made             *)
(*   "admin"     looking for the topic, and creating it                    *)
(*   "wait"      send_and_wait, the message not yet accepted by the object *)
(*   "sent"      send_and_wait, the message in the hands of the object     *)
(*   "returned", "raised"   how the call ended                             *)
(***************************************************************************)
EXTENDS Naturals, Sequences

CONSTANTS
  Requests,      \* the calls of send, one request each
  Boot,          \* the task of lifespan
  NoProducer,    \* None
  Failures,      \* what may go wrong, a subset of AllFailures
  MaxLog         \* bound: a delivery is repeated only while the log is
                 \* shorter than this

\* "connect": start() raises KafkaConnectionError or times out.
\* "other": start() raises anything else, which startup does not catch.
AllFailures == {"connect", "other", "admin", "send", "resend", "crash"}

ASSUME BootAssumption == Boot \notin Requests
ASSUME NoProducerAssumption == NoProducer \notin Requests \cup {Boot}
ASSUME FailuresAssumption == Failures \subseteq AllFailures

Tasks == Requests \cup {Boot}

VARIABLES
  ref,       \* self._producer
  object,    \* the state of each AIOKafkaProducer
  at,        \* the await of each task
  via,       \* the object a send waits for
  held,      \* the messages held by a started object
  log        \* the topic

vars == <<ref, object, at, via, held, log>>

ObjectStates == {"none", "starting", "started", "failed"}

Awaits == {"idle", "start", "admin", "wait", "sent", "returned", "raised"}

Fresh == [t \in Tasks |-> "none"]

Init == /\ ref = NoProducer
        /\ object = Fresh
        /\ at = [t \in Tasks |-> "idle"]
        /\ via = [r \in Requests |-> NoProducer]
        /\ held = {} /\ log = << >>

\* lifespan has yielded: requests are served.
Serving == at[Boot] = "returned"

MayFail(failure) == failure \in Failures

Become(t, next) == at' = [at EXCEPT ![t] = next]

-------------------------------------------------------------------------------
\* Mutant of Startup: the object is published when it has started.
StartupUnpublished(t) == /\ object' = [object EXCEPT ![t] = "starting"]
                         /\ Become(t, "start")
                         /\ UNCHANGED <<ref, via, held, log>>

\* Lines 22-26: the object is published, then start() is awaited.
Startup(t) == /\ ref' = t
              /\ object' = [object EXCEPT ![t] = "starting"]
              /\ Become(t, "start")
              /\ UNCHANGED <<via, held, log>>

\* Lines 58-59: send_and_wait of the object self._producer names.
Await(r, p) == via' = [via EXCEPT ![r] = p] /\ Become(r, "wait")

BootStarts == at[Boot] = "idle" /\ Startup(Boot)

\* Lines 51-53: a request calls send.
Send(r) == /\ Serving /\ at[r] = "idle"
           /\ \/ ref = NoProducer /\ Startup(r)
              \/ /\ ref # NoProducer /\ Await(r, ref)
                 /\ UNCHANGED <<ref, object, held, log>>

StartSucceeds(t) == /\ at[t] = "start"
                    /\ object' = [object EXCEPT ![t] = "started"]
                    /\ Become(t, "admin")
                    /\ UNCHANGED <<ref, via, held, log>>

\* Mutant of Started: send does not test self._producer again.
StartedUnchecked(t) ==
  IF t = Boot THEN at' = [at EXCEPT ![Boot] = "returned"] /\ UNCHANGED via
  ELSE Await(t, ref')

\* startup has returned: lifespan goes on, and send tests self._producer again
\* (line 54) and raises when there is none.
Started(t) == IF t = Boot THEN at' = [at EXCEPT ![Boot] = "returned"] /\ UNCHANGED via
              ELSE IF ref' = NoProducer THEN Become(t, "raised") /\ UNCHANGED via
              ELSE Await(t, ref')

\* Mutant of StartFails: the object that did not start is left in place.
StartFailsKept(t) == /\ MayFail("connect")
                     /\ at[t] = "start"
                     /\ object' = [object EXCEPT ![t] = "failed"]
                     /\ UNCHANGED ref
                     /\ Started(t)
                     /\ UNCHANGED <<held, log>>

\* Lines 27-30: whatever object it names, self._producer is cleared.
StartFails(t) == /\ MayFail("connect")
                 /\ at[t] = "start"
                 /\ object' = [object EXCEPT ![t] = "failed"]
                 /\ ref' = NoProducer
                 /\ Started(t)
                 /\ UNCHANGED <<held, log>>

\* The process ends and the container is started again: the producer, what it
\* holds and the requests in flight are gone.
InFlight(t) == at[t] \in {"start", "admin", "wait", "sent"}

Restart == /\ ref' = NoProducer /\ object' = Fresh /\ held' = {}
           /\ at' = [t \in Tasks |-> IF t = Boot THEN "idle"
                                     ELSE IF InFlight(t) THEN "raised" ELSE at[t]]
           /\ via' = [r \in Requests |-> NoProducer]
           /\ UNCHANGED log

\* startup has raised: the request is answered with an error; from lifespan
\* it ends the process.
StartupRaises(t) == \/ t = Boot /\ Restart
                    \/ /\ t # Boot /\ Become(t, "raised")
                       /\ UNCHANGED <<ref, object, via, held, log>>

\* Line 27 does not catch it: self._producer still names the object.
StartRaises(t) == /\ MayFail("other") /\ at[t] = "start"
                  /\ \/ t = Boot /\ Restart
                     \/ /\ t # Boot /\ Become(t, "raised")
                        /\ object' = [object EXCEPT ![t] = "failed"]
                        /\ UNCHANGED <<ref, via, held, log>>

\* Lines 32-48.
TopicReady(t) == /\ at[t] = "admin"
                 /\ UNCHANGED ref
                 /\ Started(t)
                 /\ UNCHANGED <<object, held, log>>

AdminFails(t) == MayFail("admin") /\ at[t] = "admin" /\ StartupRaises(t)

-------------------------------------------------------------------------------
\* An object that has started takes the message.
HandOver(r) == /\ at[r] = "wait" /\ object[via[r]] = "started"
               /\ held' = held \cup {r}
               /\ Become(r, "sent")
               /\ UNCHANGED <<ref, object, via, log>>

\* The broker appends it; when the answer is lost the object sends it again.
Deliver(r) == /\ r \in held
              /\ log' = Append(log, r)
              /\ held' = held \ {r}
              /\ UNCHANGED <<ref, object, at, via>>

DeliverUnanswered(r) == /\ MayFail("resend") /\ Len(log) < MaxLog
                        /\ r \in held
                        /\ log' = Append(log, r)
                        /\ UNCHANGED <<ref, object, at, via, held>>

Return(r) == /\ at[r] = "sent" /\ r \notin held
             /\ Become(r, "returned")
             /\ UNCHANGED <<ref, object, via, held, log>>

\* Mutant of SendTimeout: only the answer of the broker is awaited with a
\* timeout, not the object.
SendTimeoutSentOnly(r) == /\ MayFail("send") /\ at[r] = "sent"
                          /\ Become(r, "raised")
                          /\ UNCHANGED <<ref, object, via, held, log>>

\* Mutant of SendTimeout: the timeout is logged and counted, not raised.
SendTimeoutLogged(r) == /\ \/ at[r] = "wait" /\ object[via[r]] = "failed"
                           \/ MayFail("send") /\ at[r] \in {"wait", "sent"}
                        /\ Become(r, "returned")
                        /\ UNCHANGED <<ref, object, via, held, log>>

\* Lines 57-65: SERVICE_TIMEOUT has passed.  For who waits for an object that
\* failed to start nothing else can happen.
SendTimeout(r) == /\ \/ at[r] = "wait" /\ object[via[r]] = "failed"
                     \/ MayFail("send") /\ at[r] \in {"wait", "sent"}
                  /\ Become(r, "raised")
                  /\ UNCHANGED <<ref, object, via, held, log>>

\* The object gives the message up and fails the future of who waits for it.
Drop(r) == /\ MayFail("send") /\ r \in held
           /\ held' = held \ {r}
           /\ at' = [at EXCEPT ![r] = IF @ = "sent" THEN "raised" ELSE @]
           /\ UNCHANGED <<ref, object, via, log>>

\* The server has finished its requests and leaves lifespan, which stops the
\* producer when there is one; stop() waits for what it holds.
Shutdown == /\ Serving /\ held = {}
            /\ \A r \in Requests : ~InFlight(r)
            /\ Restart

Crash == MayFail("crash") /\ at[Boot] # "idle" /\ Restart

-------------------------------------------------------------------------------
StartStep(t) == \/ StartSucceeds(t) \/ StartFails(t) \/ StartRaises(t)
                \/ TopicReady(t) \/ AdminFails(t)

SendStep(r) == HandOver(r) \/ Return(r) \/ SendTimeout(r)

Next == \/ BootStarts \/ Shutdown \/ Crash
        \/ \E t \in Tasks : StartStep(t)
        \/ \E r \in Requests : \/ Send(r) \/ SendStep(r) \/ Deliver(r)
                               \/ DeliverUnanswered(r) \/ Drop(r)

Spec == Init /\ [][Next]_vars

-------------------------------------------------------------------------------
TypeOK == /\ ref \in Tasks \cup {NoProducer}
          /\ object \in [Tasks -> ObjectStates]
          /\ at \in [Tasks -> Awaits]
          /\ via \in [Requests -> Tasks \cup {NoProducer}]
          /\ held \subseteq Requests
          /\ log \in Seq(Requests)
          /\ \A r \in Requests : at[r] \in {"wait", "sent"} => via[r] \in Tasks

Alive(p) == object[p] \in {"starting", "started"}

\* However many requests find no producer, and whatever becomes of the start,
\* one object at a time talks to the broker, and once it has started it is the
\* one self._producer names: nobody else's failure clears it (line 29), and
\* shutdown does not leave it behind.
OneProducer == /\ \A p, q \in Tasks : Alive(p) /\ Alive(q) => p = q
               /\ \A p \in Tasks : object[p] = "started" => ref = p

\* A start that fails in the ways startup catches (lines 27-30) leaves no dead
\* object behind for later requests to wait for, whoever runs between its awaits:
\* self._producer names one only after an exception that startup lets through,
\* and of that the request that made the object has been answered.
NoDeadProducer ==
  ref # NoProducer /\ ~Alive(ref) => MayFail("other") /\ at[ref] = "raised"

\* What the properties rest on: the parts of an inductive invariant.

StageMatchesObject ==
  \A t \in Tasks : /\ at[t] = "start" => object[t] = "starting"
                   /\ at[t] = "admin" => object[t] = "started"

\* The object is published before the first await of startup, so that nobody
\* else starts one in the meantime.
AliveIsReferred == \A p \in Tasks : Alive(p) => ref = p

NothingBeforeBoot == at[Boot] = "idle" => ref = NoProducer

Logged(r) == \E i \in 1..Len(log) : log[i] = r

SentIsHeldOrLogged == \A r \in Requests : at[r] = "sent" => r \in held \/ Logged(r)

IInv == /\ TypeOK /\ StageMatchesObject /\ AliveIsReferred /\ NothingBeforeBoot
        /\ NoDeadProducer /\ SentIsHeldOrLogged

\* The requests get what send promises, whatever happens to the object that
\* is shared.  Until its message is in the hands of an object a call is idle.
CallOf(stage) == CASE stage = "sent" -> "waiting"
                   [] stage \in {"returned", "raised"} -> stage
                   [] OTHER -> "idle"

Contract == INSTANCE Publication
              WITH call <- [r \in Requests |-> CallOf(at[r])]

PublicationSpec == Contract!Spec

-------------------------------------------------------------------------------
\* Each await of startup and send is under wait_for, the event loop resumes the
\* task, and a started object keeps delivering what it holds.
Fairness == /\ \A t \in Tasks : WF_vars(StartStep(t))
            /\ \A r \in Requests : WF_vars(SendStep(r)) /\ WF_vars(Deliver(r))

FairSpec == Spec /\ Fairness

\* Every call of send ends, also one that waits for an object which somebody
\* else is starting and which never will be started.
EveryCallEnds ==
  \A r \in Requests : at[r] # "idle" ~> at[r] \in {"returned", "raised"}
===============================================================================
