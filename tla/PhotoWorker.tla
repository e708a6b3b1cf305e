----------------------------- MODULE PhotoWorker ------------------------------
(***************************************************************************)
(* The workers: run_worker (worker/consumer.py) and process_message        *)
(* (worker/processor.py).  Every worker is a member of the consumer group  *)
(* photo-worker-group; the topic has one partition, so at most one of them *)
(* owns it at a time, but a worker that lost the partition in the middle   *)
(* of a message goes on with that message.                                 *)
(*                                                                         *)
(* pc[w] is the call worker w makes next:                                  *)
(*   "stopped"  the process does not run                                   *)
(*   "idle"     in the async for, waiting for a message                    *)
(*   "lookup"   get_photo_by_string_id                                     *)
(*   "claim"    claim_photo                                                *)
(*   "read"     minio_client.read                                          *)
(*   "analyze"  a call of the analyzer, after tries[w] failed ones         *)
(*   "giveup"   update_status(failed): no answer from the analyzer         *)
(*   "preview"  hashes, preview and minio_client.upload                    *)
(*   "save"     save_analysis_and_finish                                   *)
(*   "group"    the identity and duplicate checks                          *)
(*   "handle"   the except clause of process_message                       *)
(*   "commit"   consumer.commit() after process_message returned           *)
(*   "recommit" consumer.commit() in the except clause of run_worker       *)
(*   "broken"   stopped by an exception, sleeping before the next start    *)
(***************************************************************************)
EXTENDS PhotoStore

CONSTANTS
  Workers,       \* the worker processes
  NoWorker,      \* nobody owns the partition
  NoPhoto,       \* the worker has no message at hand
  MaxTries,      \* calls of the analyzer: len(RETRY_DELAYS) + 1, 5 in the code
  MaxRetries,    \* MAX_RETRIES, 5 in the code
  MaxIncidents   \* bound on rebalances, SIGTERMs and crashes of workers

ASSUME WorkerAssumption == /\ NoWorker \notin Workers
                           /\ NoPhoto \notin Photos
                           /\ MaxTries \in Nat \ {0}
                           /\ MaxRetries \in Nat /\ MaxRetries > 1
                           /\ MaxIncidents \in Nat

VARIABLES
  pc, msg,       \* the next call of each worker and the message it works on
  tries,         \* failed calls of the analyzer for that message
  att,           \* what claim_photo returned for that message, 0 before
  shutdown,      \* shutdown_event, set by SIGTERM and SIGINT
  owner,         \* the worker the group coordinator gave the partition to
  position,      \* messages the owner has fetched in its assignment
  committed,     \* the committed offset of the group
  incidents      \* rebalances, SIGTERMs and crashes so far

processVars == <<pc, msg, tries, att, shutdown>>
groupVars   == <<owner, position, committed>>
workerVars  == <<processVars, groupVars, incidents>>

Labels == {"stopped", "idle", "lookup", "claim", "read", "analyze", "giveup",
           "preview", "save", "group", "handle", "commit", "recommit", "broken"}

WorkerInit == /\ pc = [w \in Workers |-> "stopped"]
              /\ msg = [w \in Workers |-> NoPhoto]
              /\ tries = [w \in Workers |-> 0]
              /\ att = [w \in Workers |-> 0]
              /\ shutdown = [w \in Workers |-> FALSE]
              /\ owner = NoWorker /\ position = 0 /\ committed = 0
              /\ incidents = 0

WorkerTypeOK == /\ pc \in [Workers -> Labels]
                /\ msg \in [Workers -> Photos \cup {NoPhoto}]
                /\ tries \in [Workers -> Nat]
                /\ att \in [Workers -> Nat]
                /\ shutdown \in [Workers -> BOOLEAN]
                /\ owner \in Workers \cup {NoWorker}
                /\ position \in Nat /\ committed \in Nat
                /\ incidents \in Nat

\* In the group: the process runs and its consumer is started.
Member(w) == pc[w] \notin {"stopped", "broken"}

\* Has a message at hand.
Busy(w) == Member(w) /\ pc[w] # "idle"

At(w, from) == pc[w] = from

Goto(w, to) == pc' = [pc EXCEPT ![w] = to]

\* The locals of one turn of the async for go out of scope.
Forget(w) == /\ msg' = [msg EXCEPT ![w] = NoPhoto]
             /\ tries' = [tries EXCEPT ![w] = 0]
             /\ att' = [att EXCEPT ![w] = 0]

\* A member leaves: the next owner resumes at the committed offset.
Leave(w) == /\ owner' = IF owner = w THEN NoWorker ELSE owner
            /\ position' = IF owner = w THEN committed ELSE position
            /\ UNCHANGED committed

\* A step of a worker that is about one message and touches no other worker.
Step(w, from, to) == /\ At(w, from)
                     /\ Goto(w, to)
                     /\ UNCHANGED <<msg, shutdown, groupVars, incidents, topic>>

-------------------------------------------------------------------------------
\* The process, its membership and the partition.

\* consumer.start() of a new process.
Start(w) == /\ At(w, "stopped")
            /\ Goto(w, "idle")
            /\ UNCHANGED <<storeVars, msg, tries, att, shutdown, groupVars, incidents>>

\* Mutant of Assign: the new owner resumes one message too early.
AssignOneBack(w) == /\ owner = NoWorker
                    /\ Member(w)
                    /\ owner' = w
                    /\ position' = committed - 1
                    /\ UNCHANGED <<storeVars, processVars, committed, incidents>>

\* Mutant of Assign: auto_offset_reset="latest" and no committed offset.
AssignLatest(w) == /\ owner = NoWorker
                   /\ Member(w)
                   /\ owner' = w
                   /\ position' = IF committed = 0 THEN Len(topic) ELSE committed
                   /\ UNCHANGED <<storeVars, processVars, committed, incidents>>

\* The coordinator gives the free partition to a member, which resumes at the
\* committed offset, or with auto_offset_reset="earliest" at the first record.
Assign(w) == /\ owner = NoWorker
             /\ Member(w)
             /\ owner' = w
             /\ position' = committed
             /\ UNCHANGED <<storeVars, processVars, committed, incidents>>

Incident(fault) == /\ MayFail(fault)
                   /\ incidents < MaxIncidents
                   /\ incidents' = incidents + 1

\* The coordinator moves the partition while its owner lives: a member joined,
\* or the owner was slower than max.poll.interval.
Rebalance(w) == /\ owner # NoWorker
                /\ Member(w)
                /\ Incident("rebalance")
                /\ owner' = w
                /\ position' = committed
                /\ UNCHANGED <<storeVars, processVars, committed>>

Sigterm(w) == /\ ~At(w, "stopped") /\ ~shutdown[w]
              /\ Incident("sigterm")
              /\ shutdown' = [shutdown EXCEPT ![w] = TRUE]
              /\ UNCHANGED <<storeVars, pc, msg, tries, att, groupVars>>

Crash(w) == /\ ~At(w, "stopped")
            /\ Incident("crash")
            /\ Goto(w, "stopped")
            /\ Forget(w)
            /\ shutdown' = [shutdown EXCEPT ![w] = FALSE]
            /\ Leave(w)
            /\ UNCHANGED storeVars

\* Lines 33-35 of consumer.py after the sleep: leave the loop, or start again.
Reconnect(w) == /\ At(w, "broken")
                /\ Goto(w, IF shutdown[w] THEN "stopped" ELSE "idle")
                /\ shutdown' = [shutdown EXCEPT ![w] = FALSE]
                /\ UNCHANGED <<storeVars, msg, tries, att, groupVars, incidents>>

\* Mutant of Fetch: the message that meets the shutdown is committed.
FetchCommitsOnShutdown(w) ==
  /\ At(w, "idle") /\ owner = w
  /\ position < Len(topic)
  /\ IF shutdown[w]
     THEN /\ Goto(w, "stopped")
          /\ shutdown' = [shutdown EXCEPT ![w] = FALSE]
          /\ owner' = NoWorker
          /\ position' = position + 1 /\ committed' = position + 1
          /\ UNCHANGED msg
     ELSE /\ Goto(w, "lookup")
          /\ msg' = [msg EXCEPT ![w] = topic[position + 1]]
          /\ position' = position + 1
          /\ UNCHANGED <<shutdown, owner, committed>>
  /\ UNCHANGED <<storeVars, tries, att, incidents>>

\* Lines 39-41: shutdown_event is looked at only when a message has arrived.
\* The break stops the consumer without committing that message.
Fetch(w) ==
  /\ At(w, "idle") /\ owner = w
  /\ position < Len(topic)
  /\ IF shutdown[w]
     THEN /\ Goto(w, "stopped")
          /\ shutdown' = [shutdown EXCEPT ![w] = FALSE]
          /\ Leave(w)
          /\ UNCHANGED msg
     ELSE /\ Goto(w, "lookup")
          /\ msg' = [msg EXCEPT ![w] = topic[position + 1]]
          /\ position' = position + 1
          /\ UNCHANGED <<shutdown, owner, committed>>
  /\ UNCHANGED <<storeVars, tries, att, incidents>>

-------------------------------------------------------------------------------
\* process_message.  What it raises before the try ends up in run_worker.  A
\* photo without a row raises too; a missing original raises inside the try.

Lookup(w) == /\ \/ Step(w, "lookup", IF status[msg[w]] = "none" THEN "recommit" ELSE "claim")
                \/ Step(w, "lookup", "recommit") /\ MayFail("db")
             /\ UNCHANGED <<rows, blobs, tries, att>>

\* claim_photo: whoever finds the row pending owns the photo from here on.
Claim(w) ==
  /\ \/ /\ Step(w, "claim", "read")
        /\ Claimable(msg[w]) /\ ClaimRow(msg[w])
        /\ att' = [att EXCEPT ![w] = attempts[msg[w]] + 1]
     \/ /\ Step(w, "claim", "commit")
        /\ ~Claimable(msg[w]) /\ UNCHANGED <<rows, att>>
     \/ /\ Step(w, "claim", "recommit") /\ MayFail("db")
        /\ (Claimable(msg[w]) /\ ClaimRow(msg[w])) \/ UNCHANGED rows
        /\ UNCHANGED att
  /\ UNCHANGED <<blobs, tries>>

Read(w) == /\ \/ Step(w, "read", IF msg[w] \in originals THEN "analyze" ELSE "handle")
              \/ Step(w, "read", "handle") /\ MayFail("minio")
           /\ UNCHANGED <<rows, blobs, tries, att>>

\* grpc_client.analyze raises: no answer in time, an error, or no URL.
CallFails == MayFail("analyzer")

\* Mutant of Analyze: no answer from the analyzer is not reported as failed.
AnalyzeForgetsFailure(w) ==
  /\ \/ Step(w, "analyze", "preview") /\ UNCHANGED tries
     \/ /\ CallFails
        /\ tries' = [tries EXCEPT ![w] = @ + 1]
        /\ Step(w, "analyze", IF tries[w] + 1 < MaxTries THEN "analyze" ELSE "commit")
  /\ UNCHANGED <<rows, blobs, att>>

\* _call_analyzer_with_retry: one call, and the loop around it.
Analyze(w) ==
  /\ \/ Step(w, "analyze", "preview") /\ UNCHANGED tries
     \/ /\ CallFails
        /\ tries' = [tries EXCEPT ![w] = @ + 1]
        /\ Step(w, "analyze", IF tries[w] + 1 < MaxTries THEN "analyze" ELSE "giveup")
  /\ UNCHANGED <<rows, blobs, att>>

\* Lines 94-101.  The update is inside the try.
GiveUp(w) ==
  /\ \/ /\ Step(w, "giveup", "commit")
        /\ SetStatusAndAttempts(msg[w], "failed", att[w])
     \/ /\ Step(w, "giveup", "handle") /\ MayFail("db")
        /\ SetStatusAndAttempts(msg[w], "failed", att[w]) \/ UNCHANGED rows
  /\ UNCHANGED <<blobs, tries, att>>

\* minio_client.upload.
UploadPreview(p) == previews' = previews \cup {p}

\* Mutant of Preview: a failed upload of the preview is only logged.
PreviewUnchecked(w) ==
  /\ Step(w, "preview", "save")
  /\ \/ UploadPreview(msg[w])
     \/ MayFail("minio") /\ UNCHANGED previews
  /\ UNCHANGED <<rows, originals, tries, att>>

\* Lines 103-108.  "minio" also stands for an image Pillow cannot convert.
Preview(w) ==
  /\ \/ Step(w, "preview", "save") /\ UploadPreview(msg[w])
     \/ /\ Step(w, "preview", "handle") /\ MayFail("minio")
        /\ UploadPreview(msg[w]) \/ UNCHANGED previews
  /\ UNCHANGED <<rows, originals, tries, att>>

\* Lines 112-126.  A second analysis row of the same photo violates the
\* primary key, and the whole transaction is rolled back.
Save(w) ==
  /\ \/ /\ Step(w, "save", "group")
        /\ msg[w] \notin analysis /\ SaveAnalysisAndFinish(msg[w])
     \/ /\ Step(w, "save", "handle")
        /\ msg[w] \in analysis \/ MayFail("db")
        /\ (msg[w] \notin analysis /\ SaveAnalysisAndFinish(msg[w])) \/ UNCHANGED rows
  /\ UNCHANGED <<blobs, tries, att>>

\* Lines 130-138: the group columns are PhotoGroups' matter; whatever the two
\* checks raise is swallowed.
Group(w) == /\ Step(w, "group", "commit")
            /\ UNCHANGED <<rows, blobs, tries, att>>

\* Mutant of Exhausted: every exception makes the photo failed.
ExhaustedAtOnce(w) == att[w] >= 1

\* Lines 140-150.  A photo is claimed once, so that MAX_RETRIES is never met
\* and the row stays in processing.
Exhausted(w) == att[w] >= MaxRetries

HandleError(w) ==
  /\ IF Exhausted(w)
     THEN \/ /\ Step(w, "handle", "commit")
             /\ SetStatusAndAttempts(msg[w], "failed", att[w])
          \/ /\ Step(w, "handle", "recommit") /\ MayFail("db")
             /\ SetStatusAndAttempts(msg[w], "failed", att[w]) \/ UNCHANGED rows
     ELSE Step(w, "handle", "commit") /\ UNCHANGED rows
  /\ UNCHANGED <<blobs, tries, att>>

-------------------------------------------------------------------------------
\* consumer.commit() commits the position of the partitions the consumer owns
\* now, not the message just processed: without the partition it does nothing.
CommitPosition(w) == committed' = IF owner = w THEN position ELSE committed

\* Lines 53-54.  A commit that raises is caught, and tried once more.
Commit(w) ==
  /\ At(w, "commit")
  /\ \/ CommitPosition(w) /\ Goto(w, "idle") /\ Forget(w)
     \/ /\ MayFail("commit") /\ (CommitPosition(w) \/ UNCHANGED committed)
        /\ Goto(w, "recommit") /\ UNCHANGED <<msg, tries, att>>
  /\ UNCHANGED <<storeVars, shutdown, owner, position, incidents>>

\* Lines 55-59.  What this one raises leaves the async for, and the finally
\* clause stops the consumer.
Recommit(w) ==
  /\ At(w, "recommit")
  /\ Forget(w)
  /\ \/ CommitPosition(w) /\ Goto(w, "idle") /\ UNCHANGED <<owner, position>>
     \/ /\ MayFail("commit") /\ (CommitPosition(w) \/ UNCHANGED committed)
        /\ Goto(w, "broken")
        /\ owner' = IF owner = w THEN NoWorker ELSE owner
        /\ position' = IF owner = w THEN committed' ELSE position
  /\ UNCHANGED <<storeVars, shutdown, incidents>>

-------------------------------------------------------------------------------
ProcessStep(w) == \/ Lookup(w) \/ Claim(w) \/ Read(w) \/ Analyze(w) \/ GiveUp(w)
                  \/ Preview(w) \/ Save(w) \/ Group(w) \/ HandleError(w)

\* What the process of w does by itself.
RunStep(w) == Fetch(w) \/ ProcessStep(w) \/ Commit(w) \/ Recommit(w)

\* What is done to it.
EnvironmentStep(w) == \/ Start(w) \/ Assign(w) \/ Rebalance(w) \/ Sigterm(w)
                      \/ Crash(w) \/ Reconnect(w)

WorkerStep(w) == RunStep(w) \/ EnvironmentStep(w)
===============================================================================
