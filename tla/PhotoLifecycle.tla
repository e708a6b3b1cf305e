---------------------------- MODULE PhotoLifecycle ----------------------------
(***************************************************************************)
(* What the service promises about one row of the table photos, whoever    *)
(* writes it and whatever fails: the status column (PhotoStatuses in       *)
(* app/database/models.py) only moves forward, an attempt is counted when  *)
(* and only when the photo is claimed, and the row of photo_analysis       *)
(* appears in the same step that makes the photo done.  A done or failed   *)
(* photo never changes again.                                              *)
(***************************************************************************)
EXTENDS Naturals

CONSTANT Photos         \* the photos ever uploaded

VARIABLES status,       \* photos.status, "none" while the row does not exist
          attempts,     \* photos.attempts
          analysis      \* the photos that have a row in photo_analysis

lifecycleVars == <<status, attempts, analysis>>

Statuses == {"none", "uploading", "pending", "processing", "done", "failed"}

Init == /\ status = [p \in Photos |-> "none"]
        /\ attempts = [p \in Photos |-> 0]
        /\ analysis = {}

Move(p, from, to) == /\ status[p] = from
                     /\ status' = [status EXCEPT ![p] = to]

Create(p)  == Move(p, "none", "uploading")    /\ UNCHANGED <<attempts, analysis>>
Stored(p)  == Move(p, "uploading", "pending") /\ UNCHANGED <<attempts, analysis>>
Claimed(p) == /\ Move(p, "pending", "processing")
              /\ attempts' = [attempts EXCEPT ![p] = @ + 1]
              /\ UNCHANGED analysis
Finished(p) == /\ Move(p, "processing", "done")
               /\ p \notin analysis
               /\ analysis' = analysis \cup {p}
               /\ UNCHANGED attempts
Failed(p)  == Move(p, "processing", "failed") /\ UNCHANGED <<attempts, analysis>>

Next == \E p \in Photos : \/ Create(p) \/ Stored(p)
                          \/ Claimed(p) \/ Finished(p) \/ Failed(p)

Spec == Init /\ [][Next]_lifecycleVars
===============================================================================
