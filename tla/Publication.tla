------------------------------ MODULE Publication ------------------------------
(***************************************************************************)
(* What KafkaProducer.send promises to whoever awaits it.  A call that     *)
(* returns has put its message in the log.  A call that raises promises    *)
(* nothing: its message may have been appended, may still be, or may never *)
(* be.  Nothing else puts a message in the log, nothing takes one out, and *)
(* a message that was handed over may be appended more than once.          *)
(***************************************************************************)
EXTENDS Naturals, Sequences

CONSTANT Requests   \* one call of send each, named like the message it sends

VARIABLES
  call,   \* "idle", "waiting" for the broker, "returned" or "raised"
  held,   \* the messages the producer holds
  log     \* the topic

publicationVars == <<call, held, log>>

Calls == {"idle", "waiting", "returned", "raised"}

Init == /\ call = [r \in Requests |-> "idle"]
        /\ held = {} /\ log = << >>

End(r, outcome) == call' = [call EXCEPT ![r] = outcome]

\* The call fails before its message was handed over.
Refuse(r) == call[r] = "idle" /\ End(r, "raised") /\ UNCHANGED <<held, log>>

HandOver(r) == /\ call[r] = "idle" /\ End(r, "waiting")
               /\ held' = held \cup {r} /\ UNCHANGED log

Deliver(r) == /\ r \in held /\ log' = Append(log, r)
              /\ held' \in {held, held \ {r}}
              /\ UNCHANGED call

Return(r) == /\ call[r] = "waiting"
             /\ r \notin held
             /\ \E i \in 1..Len(log) : log[i] = r
             /\ End(r, "returned")
             /\ UNCHANGED <<held, log>>

\* The caller stops waiting; the message is still held.
GiveUp(r) == call[r] = "waiting" /\ End(r, "raised") /\ UNCHANGED <<held, log>>

Drop(r) == /\ r \in held /\ held' = held \ {r}
           /\ call' = [call EXCEPT ![r] = IF @ = "waiting" THEN "raised" ELSE @]
           /\ UNCHANGED log

\* The process of the callers ends.
Crash == /\ held' = {}
         /\ call' \in [Requests -> Calls]
         /\ \A r \in Requests :
              \/ call'[r] = call[r] /\ call[r] # "waiting"
              \/ call'[r] = "raised" /\ call[r] \in {"idle", "waiting"}
         /\ UNCHANGED log

Next == \/ Crash
        \/ \E r \in Requests : \/ Refuse(r) \/ HandOver(r) \/ Deliver(r)
                               \/ Return(r) \/ GiveUp(r) \/ Drop(r)

Spec == Init /\ [][Next]_publicationVars
===============================================================================
