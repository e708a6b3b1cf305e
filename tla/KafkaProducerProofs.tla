-------------------------- MODULE KafkaProducerProofs --------------------------
(***************************************************************************)
(* The safety of KafkaProducer for any requests, failures and bounds, and  *)
(* that it implements Publication.                                         *)
(***************************************************************************)
EXTENDS KafkaProducer, TLAPS

-------------------------------------------------------------------------------
\* The invariant.

LEMMA InitInvariant == Init => IInv
BY BootAssumption, NoProducerAssumption
   DEF Init, IInv, TypeOK, StageMatchesObject, AliveIsReferred, NothingBeforeBoot,
       NoDeadProducer, SentIsHeldOrLogged, Alive, Fresh, Tasks, ObjectStates, Awaits

LEMMA RestartInvariant == ASSUME IInv, Restart PROVE IInv'
BY BootAssumption, NoProducerAssumption
   DEF Restart, IInv, TypeOK, StageMatchesObject, AliveIsReferred, NothingBeforeBoot,
       NoDeadProducer, SentIsHeldOrLogged, Alive, Fresh, Tasks, ObjectStates, Awaits, InFlight,
       Logged

\* The object is published at once: nobody else has one alive.
LEMMA StartupInvariant ==
  ASSUME IInv, NEW t \in Tasks, t = Boot \/ Serving, ref = NoProducer, Startup(t)
  PROVE  IInv'
<1>1. TypeOK /\ AliveIsReferred /\ StageMatchesObject /\ SentIsHeldOrLogged
  BY DEF IInv
<1>2. /\ ref' = t /\ object' = [object EXCEPT ![t] = "starting"]
      /\ at' = [at EXCEPT ![t] = "start"] /\ UNCHANGED <<via, held, log>>
  BY DEF Startup, Become
<1>3. TypeOK'
  BY <1>1, <1>2 DEF TypeOK, Tasks, ObjectStates, Awaits
<1>4. \A p \in Tasks : ~Alive(p)
  BY <1>1, NoProducerAssumption DEF AliveIsReferred, Tasks
<1>5. StageMatchesObject'
  BY <1>1, <1>2 DEF StageMatchesObject, TypeOK, Tasks
<1>6. AliveIsReferred' /\ NoDeadProducer'
  BY <1>1, <1>2, <1>4 DEF AliveIsReferred, NoDeadProducer, Alive, TypeOK
<1>7. NothingBeforeBoot'
  BY <1>1, <1>2 DEF NothingBeforeBoot, Serving, TypeOK, Tasks
<1>8. SentIsHeldOrLogged'
  BY <1>1, <1>2 DEF SentIsHeldOrLogged, TypeOK, Tasks, Logged
<1>9. QED
  BY <1>3, <1>5, <1>6, <1>7, <1>8 DEF IInv

\* A task that is starting its object, or looking for the topic with it, is the
\* one self._producer names.
LEMMA StarterIsReferred ==
  ASSUME IInv, NEW t \in Tasks, at[t] \in {"start", "admin"}
  PROVE  ref = t /\ Alive(t)
BY DEF IInv, StageMatchesObject, AliveIsReferred, Alive

\* A task whose startup raises leaves self._producer as it was.
LEMMA RaiseInvariant ==
  ASSUME IInv, NEW t \in Tasks, t # Boot, at' = [at EXCEPT ![t] = "raised"],
         ref = t \/ object' = object,
         object' = object \/ (MayFail("other") /\ object' = [object EXCEPT ![t] = "failed"]),
         UNCHANGED <<ref, via, held, log>>
  PROVE  IInv'
<1>1. TypeOK /\ AliveIsReferred /\ StageMatchesObject /\ SentIsHeldOrLogged
      /\ NothingBeforeBoot /\ NoDeadProducer
  BY DEF IInv
<1>2. TypeOK'
  BY <1>1 DEF TypeOK, Tasks, ObjectStates, Awaits
<1>3. StageMatchesObject'
  BY <1>1 DEF StageMatchesObject, TypeOK
<1>4. AliveIsReferred'
  BY <1>1 DEF AliveIsReferred, Alive, TypeOK
<1>5. NoDeadProducer'
  BY <1>1 DEF NoDeadProducer, Alive, TypeOK
<1>6. NothingBeforeBoot' /\ SentIsHeldOrLogged'
  BY <1>1 DEF NothingBeforeBoot, SentIsHeldOrLogged, Logged, TypeOK, Tasks
<1>7. QED
  BY <1>2, <1>3, <1>4, <1>5, <1>6 DEF IInv

LEMMA StartSucceedsInvariant ==
  ASSUME IInv, NEW t \in Tasks, StartSucceeds(t)
  PROVE  IInv'
<1>1. TypeOK /\ AliveIsReferred /\ StageMatchesObject /\ SentIsHeldOrLogged
      /\ NothingBeforeBoot /\ NoDeadProducer
  BY DEF IInv
<1>2. /\ at[t] = "start" /\ object' = [object EXCEPT ![t] = "started"]
      /\ at' = [at EXCEPT ![t] = "admin"] /\ UNCHANGED <<ref, via, held, log>>
  BY DEF StartSucceeds, Become
<1>3. ref = t
  BY <1>2, StarterIsReferred
<1>4. TypeOK'
  BY <1>1, <1>2 DEF TypeOK, Tasks, ObjectStates, Awaits
<1>5. StageMatchesObject' /\ AliveIsReferred' /\ NoDeadProducer'
  BY <1>1, <1>2, <1>3 DEF StageMatchesObject, AliveIsReferred, NoDeadProducer, Alive, TypeOK
<1>6. NothingBeforeBoot' /\ SentIsHeldOrLogged'
  BY <1>1, <1>2 DEF NothingBeforeBoot, SentIsHeldOrLogged, Logged, TypeOK, Tasks
<1>7. QED
  BY <1>4, <1>5, <1>6 DEF IInv

\* The failure of a start clears what the same task has published.
LEMMA StartFailsInvariant ==
  ASSUME IInv, NEW t \in Tasks, StartFails(t)
  PROVE  IInv'
<1>1. TypeOK /\ AliveIsReferred /\ StageMatchesObject /\ SentIsHeldOrLogged
  BY DEF IInv
<1>2. /\ at[t] = "start" /\ object' = [object EXCEPT ![t] = "failed"]
      /\ ref' = NoProducer /\ UNCHANGED <<via, held, log>>
      /\ at' = [at EXCEPT ![t] = IF t = Boot THEN "returned" ELSE "raised"]
  BY DEF StartFails, Started, Become
<1>3. ref = t
  BY <1>2, StarterIsReferred
<1>4. TypeOK'
  BY <1>1, <1>2 DEF TypeOK, Tasks, ObjectStates, Awaits
<1>5. StageMatchesObject'
  BY <1>1, <1>2 DEF StageMatchesObject, TypeOK
<1>6. AliveIsReferred' /\ NoDeadProducer' /\ NothingBeforeBoot'
  BY <1>1, <1>2, <1>3 DEF AliveIsReferred, NoDeadProducer, NothingBeforeBoot, Alive, TypeOK
<1>7. SentIsHeldOrLogged'
  BY <1>1, <1>2 DEF SentIsHeldOrLogged, Logged, TypeOK, Tasks
<1>8. QED
  BY <1>4, <1>5, <1>6, <1>7 DEF IInv

\* A task that waits for an object from now on.
LEMMA AwaitInvariant ==
  ASSUME IInv, NEW r \in Requests, ref \in Tasks, at[r] # "raised" \/ ref # r,
         at' = [at EXCEPT ![r] = "wait"], via' = [via EXCEPT ![r] = ref],
         ref = r => Alive(r),
         UNCHANGED <<ref, object, held, log>>
  PROVE  IInv'
<1>1. TypeOK /\ AliveIsReferred /\ StageMatchesObject /\ SentIsHeldOrLogged
      /\ NothingBeforeBoot /\ NoDeadProducer
  BY DEF IInv
<1>2. r \in Tasks /\ r # Boot
  BY BootAssumption DEF Tasks
<1>3. TypeOK'
  BY <1>1, <1>2 DEF TypeOK, ObjectStates, Awaits
<1>4. StageMatchesObject' /\ AliveIsReferred'
  BY <1>1, <1>2 DEF StageMatchesObject, AliveIsReferred, Alive, TypeOK
<1>5. NoDeadProducer'
  BY <1>1, <1>2 DEF NoDeadProducer, Alive, TypeOK
<1>6. NothingBeforeBoot' /\ SentIsHeldOrLogged'
  BY <1>1, <1>2 DEF NothingBeforeBoot, SentIsHeldOrLogged, Logged, TypeOK, Tasks
<1>7. QED
  BY <1>3, <1>4, <1>5, <1>6 DEF IInv

LEMMA TopicReadyInvariant ==
  ASSUME IInv, NEW t \in Tasks, TopicReady(t)
  PROVE  IInv'
<1>1. TypeOK /\ AliveIsReferred /\ StageMatchesObject /\ SentIsHeldOrLogged
      /\ NothingBeforeBoot /\ NoDeadProducer
  BY DEF IInv
<1>2. at[t] = "admin" /\ UNCHANGED <<ref, object, held, log>> /\ Started(t)
  BY DEF TopicReady
<1>3. ref = t /\ Alive(t) /\ ref # NoProducer
  BY <1>2, StarterIsReferred, NoProducerAssumption DEF Tasks
<1>4. CASE t = Boot
  <2>1. at' = [at EXCEPT ![Boot] = "returned"] /\ UNCHANGED via
    BY <1>2, <1>4 DEF Started
  <2>2. TypeOK'
    BY <1>1, <1>2, <2>1 DEF TypeOK, Tasks, ObjectStates, Awaits
  <2>3. StageMatchesObject' /\ AliveIsReferred' /\ NoDeadProducer'
    BY <1>1, <1>2, <1>3, <2>1
       DEF StageMatchesObject, AliveIsReferred, NoDeadProducer, Alive, TypeOK
  <2>4. NothingBeforeBoot' /\ SentIsHeldOrLogged'
    BY <1>1, <1>2, <2>1, BootAssumption
       DEF NothingBeforeBoot, SentIsHeldOrLogged, Logged, TypeOK, Tasks
  <2>5. QED
    BY <2>2, <2>3, <2>4 DEF IInv
<1>5. CASE t # Boot
  <2>1. at' = [at EXCEPT ![t] = "wait"] /\ via' = [via EXCEPT ![t] = ref]
    BY <1>2, <1>3, <1>5 DEF Started, Await, Become
  <2>2. QED
    BY <1>2, <1>3, <1>5, <2>1, AwaitInvariant DEF Tasks
<1>6. QED
  BY <1>4, <1>5

LEMMA StartStepInvariant ==
  ASSUME IInv, NEW t \in Tasks, StartStep(t)
  PROVE  IInv'
<1>1. CASE StartRaises(t)
  BY <1>1, RestartInvariant, RaiseInvariant, StarterIsReferred DEF StartRaises, Become
<1>2. CASE AdminFails(t)
  BY <1>2, RestartInvariant, RaiseInvariant DEF AdminFails, StartupRaises, Become
<1>3. QED
  BY <1>1, <1>2, StartSucceedsInvariant, StartFailsInvariant, TopicReadyInvariant
     DEF StartStep

\* A step of sends that wait, or of the object that serves them: neither the
\* objects nor the starts are touched.
LEMMA FlightInvariant ==
  ASSUME IInv, UNCHANGED <<ref, object, via>>,
         at' \in [Tasks -> Awaits],
         \A t \in Tasks : \/ at'[t] = at[t]
                          \/ /\ t \in Requests /\ at[t] \in {"wait", "sent"}
                             /\ at'[t] \in {"sent", "returned", "raised"},
         held' \subseteq Requests, log' \in Seq(Requests), SentIsHeldOrLogged'
  PROVE  IInv'
<1>1. TypeOK /\ AliveIsReferred /\ StageMatchesObject /\ NothingBeforeBoot /\ NoDeadProducer
  BY DEF IInv
<1>2. TypeOK'
  <2>1. \A r \in Requests : at'[r] \in {"wait", "sent"} => via'[r] \in Tasks
    BY <1>1 DEF TypeOK, Tasks
  <2>2. QED
    BY <1>1, <2>1 DEF TypeOK
<1>3. StageMatchesObject' /\ AliveIsReferred'
  BY <1>1 DEF StageMatchesObject, AliveIsReferred, Alive
<1>4. NoDeadProducer' /\ NothingBeforeBoot'
  BY <1>1 DEF NoDeadProducer, NothingBeforeBoot, Alive, TypeOK, Tasks
<1>5. QED
  BY <1>2, <1>3, <1>4 DEF IInv

LEMMA DeliveryIsLogged ==
  ASSUME log \in Seq(Requests), NEW r \in Requests, log' = Append(log, r)
  PROVE  /\ log' \in Seq(Requests)
         /\ \A q \in Requests : Logged(q) => Logged(q)'
         /\ Logged(r)'
<1>1. Len(log') = Len(log) + 1 /\ log'[Len(log) + 1] = r
      /\ \A i \in 1..Len(log) : log'[i] = log[i]
  OBVIOUS
<1>2. QED
  BY <1>1 DEF Logged

LEMMA FlightStepInvariant ==
  ASSUME IInv, NEW r \in Requests,
         SendStep(r) \/ Deliver(r) \/ DeliverUnanswered(r) \/ Drop(r)
  PROVE  IInv'
<1>1. TypeOK /\ SentIsHeldOrLogged /\ r \in Tasks
  BY DEF IInv, Tasks
<1>2. ref' = ref /\ object' = object /\ via' = via
  BY DEF SendStep, HandOver, Return, SendTimeout, Deliver, DeliverUnanswered, Drop
<1>3. CASE SendStep(r)
  <2>1. /\ at[r] \in {"wait", "sent"} /\ log' = log
        /\ \/ at' = [at EXCEPT ![r] = "sent"] /\ held' = held \cup {r}
           \/ at' = [at EXCEPT ![r] = "returned"] /\ held' = held
           \/ at' = [at EXCEPT ![r] = "raised"] /\ held' = held
    BY <1>3 DEF SendStep, HandOver, Return, SendTimeout, Become
  <2>2. SentIsHeldOrLogged' /\ held' \subseteq Requests
    BY <1>1, <2>1 DEF SentIsHeldOrLogged, Logged, TypeOK, Tasks
  <2>3. /\ at' \in [Tasks -> Awaits]
        /\ \A t \in Tasks : \/ at'[t] = at[t]
                            \/ /\ t \in Requests /\ at[t] \in {"wait", "sent"}
                               /\ at'[t] \in {"sent", "returned", "raised"}
    BY <1>1, <2>1 DEF TypeOK, Awaits
  <2>4. log' \in Seq(Requests)
    BY <1>1, <2>1 DEF TypeOK
  <2>5. QED
    BY <1>2, <2>2, <2>3, <2>4, FlightInvariant
<1>4. CASE Deliver(r) \/ DeliverUnanswered(r)
  <2>1. at' = at /\ log' = Append(log, r) /\ (held' = held \/ held' = held \ {r})
    BY <1>4 DEF Deliver, DeliverUnanswered
  <2>2. log' \in Seq(Requests) /\ Logged(r)' /\ \A q \in Requests : Logged(q) => Logged(q)'
    BY <1>1, <2>1, DeliveryIsLogged DEF TypeOK
  <2>3. SentIsHeldOrLogged' /\ held' \subseteq Requests
    BY <1>1, <2>1, <2>2 DEF SentIsHeldOrLogged, TypeOK
  <2>4. at' \in [Tasks -> Awaits]
    BY <1>1, <2>1 DEF TypeOK
  <2>5. QED
    BY <1>2, <2>1, <2>2, <2>3, <2>4, FlightInvariant
<1>5. CASE Drop(r)
  <2>1. /\ held' = held \ {r} /\ log' = log
        /\ at' = [at EXCEPT ![r] = IF @ = "sent" THEN "raised" ELSE @]
    BY <1>5 DEF Drop
  <2>2. SentIsHeldOrLogged' /\ held' \subseteq Requests
    BY <1>1, <2>1 DEF SentIsHeldOrLogged, Logged, TypeOK, Tasks
  <2>3. /\ at' \in [Tasks -> Awaits]
        /\ \A t \in Tasks : \/ at'[t] = at[t]
                            \/ /\ t \in Requests /\ at[t] \in {"wait", "sent"}
                               /\ at'[t] \in {"sent", "returned", "raised"}
    BY <1>1, <2>1 DEF TypeOK, Awaits
  <2>4. log' \in Seq(Requests)
    BY <1>1, <2>1 DEF TypeOK
  <2>5. QED
    BY <1>2, <2>2, <2>3, <2>4, FlightInvariant
<1>6. QED
  BY <1>3, <1>4, <1>5

LEMMA CallInvariant == ASSUME IInv, NEW r \in Requests, Send(r) PROVE IInv'
<1>1. Serving /\ at[r] = "idle" /\ r \in Tasks
  BY DEF Send, Tasks
<1>2. CASE ref = NoProducer
  BY <1>1, <1>2, StartupInvariant DEF Send
<1>3. CASE ref # NoProducer
  <2>1. /\ at' = [at EXCEPT ![r] = "wait"] /\ via' = [via EXCEPT ![r] = ref]
        /\ UNCHANGED <<ref, object, held, log>>
    BY <1>3 DEF Send, Await, Become
  <2>2. ref \in Tasks /\ (ref = r => Alive(r))
    BY <1>1, <1>3 DEF IInv, TypeOK, NoDeadProducer
  <2>3. QED
    BY <1>1, <2>1, <2>2, AwaitInvariant
<1>4. QED
  BY <1>2, <1>3

LEMMA NextInvariant == IInv /\ [Next]_vars => IInv'
<1> SUFFICES ASSUME IInv, [Next]_vars PROVE IInv'
  OBVIOUS
<1>1. CASE BootStarts
  <2>1. ref = NoProducer /\ Boot \in Tasks /\ Startup(Boot)
    BY <1>1 DEF BootStarts, IInv, NothingBeforeBoot, Tasks
  <2>2. QED
    BY <2>1, StartupInvariant
<1>2. CASE Shutdown \/ Crash
  BY <1>2, RestartInvariant DEF Shutdown, Crash
<1>3. CASE UNCHANGED vars
  BY <1>3 DEF vars, IInv, TypeOK, StageMatchesObject, AliveIsReferred, NothingBeforeBoot,
       NoDeadProducer, SentIsHeldOrLogged, Alive, Logged
<1>4. QED
  BY <1>1, <1>2, <1>3, StartStepInvariant, CallInvariant, FlightStepInvariant DEF Next

THEOREM Invariance == Spec => []IInv
BY InitInvariant, NextInvariant, PTL DEF Spec

-------------------------------------------------------------------------------
\* What the invariant says of the code.

\* Every variable keeps its type, and a send that waits waits for an object.
THEOREM TypeCorrect == Spec => []TypeOK
<1>1. IInv => TypeOK
  BY DEF IInv
<1>2. QED
  BY <1>1, Invariance, PTL

\* However many requests find no producer, at most one object is starting or
\* started, and a started one is the one self._producer names.
THEOREM OneProducerAtATime == Spec => []OneProducer
<1>1. IInv => OneProducer
  BY DEF IInv, AliveIsReferred, OneProducer, Alive
<1>2. QED
  BY <1>1, Invariance, PTL

\* A dead object is only left in place by an exception that startup does not
\* catch, and the request that made it has raised.
THEOREM DeadProducerIsReported == Spec => []NoDeadProducer
<1>1. IInv => NoDeadProducer
  BY DEF IInv
<1>2. QED
  BY <1>1, Invariance, PTL

-------------------------------------------------------------------------------
\* KafkaProducer implements Publication.

LEMMA InitContract == Init => Contract!Init
BY DEF Init, Contract!Init, CallOf, Tasks

\* A call that neither ends nor hands its message over stays idle.
LEMMA IdleContract ==
  ASSUME IInv, NEW t \in Tasks, NEW next \in Awaits, at' = [at EXCEPT ![t] = next],
         t = Boot \/ CallOf(at[t]) = CallOf(next), UNCHANGED <<held, log>>
  PROVE  [Contract!Next]_(Contract!publicationVars)
<1>1. \A r \in Requests : CallOf(at'[r]) = CallOf(at[r])
  BY BootAssumption DEF IInv, TypeOK, Tasks
<1>2. QED
  BY <1>1 DEF Contract!publicationVars

\* A call that raises before its message was handed over.
LEMMA RefuseContract ==
  ASSUME IInv, NEW r \in Requests, CallOf(at[r]) = "idle", at' = [at EXCEPT ![r] = "raised"],
         UNCHANGED <<held, log>>
  PROVE  [Contract!Next]_(Contract!publicationVars)
<1>1. \A q \in Requests : at'[q] = IF q = r THEN "raised" ELSE at[q]
  BY DEF IInv, TypeOK, Tasks
<1>2. CallOf("raised") = "raised"
  BY DEF CallOf
<1>3. \A q \in Requests : CallOf(at'[q]) = IF q = r THEN "raised" ELSE CallOf(at[q])
  BY <1>1, <1>2
<1>4. Contract!Refuse(r)
  BY <1>3 DEF Contract!Refuse, Contract!End
<1>5. QED
  BY <1>4 DEF Contract!Next

\* The process ends, with whatever the producer holds and the calls in flight.
LEMMA RestartContract == ASSUME IInv, Restart PROVE [Contract!Next]_(Contract!publicationVars)
<1>1. \A r \in Requests : at'[r] = IF InFlight(r) THEN "raised" ELSE at[r]
  BY BootAssumption DEF Restart, Tasks
<1>2. \A r \in Requests : at[r] \in Awaits
  BY DEF IInv, TypeOK, Tasks
<1>3. Contract!Crash
  BY <1>1, <1>2 DEF Restart, Contract!Crash, Contract!Calls, CallOf, InFlight, Awaits
<1>4. QED
  BY <1>3 DEF Contract!Next

LEMMA StartStepContract ==
  ASSUME IInv, NEW t \in Tasks, StartStep(t)
  PROVE  [Contract!Next]_(Contract!publicationVars)
<1>1. t = Boot \/ t \in Requests
  BY DEF Tasks
<1>2. CASE Restart
  BY <1>2, RestartContract
<1>3. CASE t = Boot /\ ~Restart
  <2>1. /\ UNCHANGED <<held, log>>
        /\ \/ at' = [at EXCEPT ![t] = "admin"]
           \/ at' = [at EXCEPT ![t] = "returned"]
    BY <1>3 DEF StartStep, StartSucceeds, StartFails, StartRaises, TopicReady, AdminFails,
         StartupRaises, Started, Become
  <2>2. QED
    BY <1>3, <2>1, IdleContract DEF Awaits
<1>4. CASE t # Boot
  <2>1. /\ at[t] \in {"start", "admin"} /\ UNCHANGED <<held, log>>
        /\ \/ at' = [at EXCEPT ![t] = "admin"]
           \/ at' = [at EXCEPT ![t] = "wait"]
           \/ at' = [at EXCEPT ![t] = "raised"]
    BY <1>4 DEF StartStep, StartSucceeds, StartFails, StartRaises, TopicReady, AdminFails,
         StartupRaises, Started, Become, Await
  <2>2. QED
    BY <1>1, <1>4, <2>1, IdleContract, RefuseContract DEF CallOf, Awaits
<1>5. QED
  BY <1>2, <1>3, <1>4

LEMMA FlightContract ==
  ASSUME IInv, NEW r \in Requests,
         SendStep(r) \/ Deliver(r) \/ DeliverUnanswered(r) \/ Drop(r)
  PROVE  [Contract!Next]_(Contract!publicationVars)
<1>1. at \in [Tasks -> Awaits] /\ Requests \subseteq Tasks
  BY DEF IInv, TypeOK, Tasks
<1>2. CASE HandOver(r)
  <2>1. Contract!HandOver(r)
    BY <1>1, <1>2 DEF HandOver, Become, Contract!HandOver, Contract!End, CallOf
  <2>2. QED
    BY <2>1 DEF Contract!Next
<1>3. CASE Return(r)
  <2>1. Logged(r)
    BY <1>3 DEF Return, IInv, SentIsHeldOrLogged
  <2>2. Contract!Return(r)
    BY <1>1, <1>3, <2>1 DEF Return, Become, Contract!Return, Contract!End, CallOf, Logged
  <2>3. QED
    BY <2>2 DEF Contract!Next
<1>4. CASE SendTimeout(r)
  <2>1. CASE at[r] = "wait"
    BY <1>4, <2>1, RefuseContract DEF SendTimeout, Become, CallOf
  <2>2. CASE at[r] = "sent"
    <3>1. Contract!GiveUp(r)
      BY <1>1, <1>4, <2>2 DEF SendTimeout, Become, Contract!GiveUp, Contract!End, CallOf
    <3>2. QED
      BY <3>1 DEF Contract!Next
  <2>3. QED
    BY <1>4, <2>1, <2>2 DEF SendTimeout
<1>5. CASE Deliver(r) \/ DeliverUnanswered(r)
  <2>1. Contract!Deliver(r)
    BY <1>5 DEF Deliver, DeliverUnanswered, Contract!Deliver
  <2>2. QED
    BY <2>1 DEF Contract!Next
<1>6. CASE Drop(r)
  <2>1. Contract!Drop(r)
    BY <1>1, <1>6 DEF Drop, Contract!Drop, CallOf, Awaits
  <2>2. QED
    BY <2>1 DEF Contract!Next
<1>7. QED
  BY <1>2, <1>3, <1>4, <1>5, <1>6 DEF SendStep

\* What send promises holds whatever becomes of the shared producer.
THEOREM RefinesPublication == Spec => PublicationSpec
<1>1. IInv /\ [Next]_vars => [Contract!Next]_(Contract!publicationVars)
  <2> SUFFICES ASSUME IInv, [Next]_vars PROVE [Contract!Next]_(Contract!publicationVars)
    OBVIOUS
  <2>1. CASE UNCHANGED vars
    BY <2>1 DEF vars, Contract!publicationVars
  <2>2. CASE BootStarts
    BY <2>2, IdleContract DEF BootStarts, Startup, Become, Tasks, Awaits
  <2>3. CASE Shutdown \/ Crash
    BY <2>3, RestartContract DEF Shutdown, Crash
  <2>4. ASSUME NEW r \in Requests, Send(r)
        PROVE  [Contract!Next]_(Contract!publicationVars)
    <3>1. /\ at[r] = "idle" /\ UNCHANGED <<held, log>>
          /\ \/ at' = [at EXCEPT ![r] = "start"]
             \/ at' = [at EXCEPT ![r] = "wait"]
      BY <2>4 DEF Send, Startup, Await, Become
    <3>2. QED
      BY <3>1, IdleContract DEF CallOf, Tasks, Awaits
  <2>5. QED
    BY <2>1, <2>2, <2>3, <2>4, StartStepContract, FlightContract DEF Next
<1>2. QED
  BY <1>1, InitContract, Invariance, PTL
  DEF Spec, PublicationSpec, Contract!Spec
===============================================================================
