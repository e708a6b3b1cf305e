---------------------------- MODULE PhotoPipeline -----------------------------
(***************************************************************************)
(* The path of a photo from POST /v1/photos to its analysis: the API       *)
(* process (PhotoUpload) and the workers (PhotoWorker) over the store they *)
(* share (PhotoStore).                                                     *)
(***************************************************************************)
EXTENDS PhotoUpload, PhotoWorker

vars == <<storeVars, uploadVars, workerVars>>

Init == StoreInit /\ UploadInit /\ WorkerInit

Next == \/ /\ \/ ApiCrash
              \/ \E p \in Photos : UploadStep(p)
           /\ UNCHANGED workerVars
        \/ /\ \E w \in Workers : WorkerStep(w)
           /\ UNCHANGED uploadVars

Spec == Init /\ [][Next]_vars

-------------------------------------------------------------------------------
TypeOK == StoreTypeOK /\ UploadTypeOK /\ WorkerTypeOK

\* The photos the log holds at or after offset i.
QueuedAfter(i) == {topic[j] : j \in {k \in 1..Len(topic) : k > i}}
Queued == QueuedAfter(0)

\* Between claim_photo and the end of process_message.
InClaim(w) == pc[w] \in {"read", "analyze", "giveup", "preview", "save",
                         "group", "handle"}

\* A message never runs ahead of the upload: whatever is in the log or in the
\* producer has a row that is past uploading and an original in the bucket, so
\* that "not found in DB" (processor.py:78-79) and a read of a missing object
\* cannot happen, whichever call of the handler failed or timed out.
Ready(p) == status[p] \notin {"none", "uploading"} /\ p \in originals

QueuedIsReady == \A p \in Queued \cup outbox : Ready(p)

\* The atomic UPDATE of claim_photo is what keeps two workers off one photo:
\* a message can be delivered twice, or fetched again by the next owner while
\* the first worker is still busy with it.
ClaimExclusive ==
  \A v, w \in Workers : InClaim(v) /\ InClaim(w) /\ v # w => msg[v] # msg[w]

\* A claimed photo is at the mercy of its worker alone: nobody else moves its
\* row while the worker reads, waits for the analyzer and uploads the preview.
ClaimKeepsRow ==
  \A w \in Workers :
    /\ pc[w] \in {"read", "analyze", "giveup", "preview", "save"} =>
         status[msg[w]] = "processing" /\ attempts[msg[w]] = att[w]
    /\ pc[w] = "group" => status[msg[w]] = "done"

\* A reader of the API that sees done finds the analysis and a preview that
\* can be downloaded, and an analysis is never shown for another status.
DoneIffAnalysed ==
  \A p \in Photos : /\ (status[p] = "done") <=> (p \in analysis)
                    /\ (p \in analysis) <=> (p \in previewKey)
                    /\ (p \in previewKey) => (p \in previews)

\* A 202 means the message is in the log, whatever became of the answers of
\* the broker.
AcceptedIsQueued == \A p \in Photos : request[p] = "accepted" => p \in Queued

\* At least once: the offset is committed only past photos that some worker
\* has claimed.  The claim, not the analysis, is what is guaranteed; an error
\* of the database before the claim breaks even that (see PendingIsQueued).
CommittedWasClaimed ==
  "db" \notin Faults =>
    \A i \in 1..committed : status[topic[i]] # "pending"

\* The rows refine the life cycle every reader of the table relies on.
Lifecycle == INSTANCE PhotoLifecycle
LifecycleSpec == Lifecycle!Spec

\* create_photo gets from the producer what KafkaProducer promises: the part of
\* a request that publishes, with the producer and the log, implements send.
CallOf(stage) == CASE stage = "sent"     -> "waiting"
                   [] stage = "accepted" -> "returned"
                   [] stage = "error"    -> "raised"
                   [] OTHER              -> "idle"

Contract == INSTANCE Publication
              WITH Requests <- Photos,
                   call <- [p \in Photos |-> CallOf(request[p])],
                   held <- outbox, log <- topic

PublicationSpec == Contract!Spec

-------------------------------------------------------------------------------
\* What the properties above rest on: the parts of an inductive invariant.

\* A worker has a photo at hand exactly while it is between two fetches.
HoldsMessage == \A w \in Workers : msg[w] \in Photos <=> Busy(w)

\* The stage of a request bounds what the stores hold of its photo.
StageMatchesStore ==
  \A p \in Photos :
    /\ request[p] \in {"new", "create", "refused"} => status[p] = "none"
    /\ request[p] \in {"put", "mark"} => status[p] = "uploading"
    /\ request[p] = "mark" => p \in originals
    /\ request[p] \in {"send", "sent", "accepted"} => Ready(p)

WorkedOnIsReady == \A w \in Workers : Busy(w) => Ready(msg[w])

\* One attempt is all a photo ever gets: nobody returns it to pending.
Attempted(p) == status[p] \in {"processing", "done", "failed"}

AttemptedOnce == \A p \in Photos : attempts[p] = IF Attempted(p) THEN 1 ELSE 0

ClaimerSawOne == \A w \in Workers : InClaim(w) => att[w] = 1 /\ Attempted(msg[w])

SavesUploadedPreview == \A w \in Workers : pc[w] = "save" => msg[w] \in previews

\* A request waiting for an answer that nobody will give again was delivered.
SentIsHeldOrQueued ==
  \A p \in Photos : request[p] = "sent" => p \in outbox \/ p \in Queued

OffsetsOrdered == /\ committed <= position /\ position <= Len(topic)
                  /\ owner = NoWorker => position = committed

\* Everything the owner fetched has been claimed, save the message it has not
\* come to claim yet.
FetchedWasClaimed ==
  "db" \notin Faults =>
    \A i \in 1..position :
      \/ status[topic[i]] # "pending"
      \/ /\ i = position /\ owner \in Workers
         /\ pc[owner] \in {"lookup", "claim"} /\ msg[owner] = topic[i]

ReadyInv == HoldsMessage /\ StageMatchesStore /\ WorkedOnIsReady /\ QueuedIsReady

ClaimInv == /\ AttemptedOnce /\ ClaimerSawOne /\ ClaimExclusive /\ ClaimKeepsRow

DoneInv == DoneIffAnalysed /\ SavesUploadedPreview

QueueInv == AcceptedIsQueued /\ SentIsHeldOrQueued

OffsetInv == OffsetsOrdered /\ FetchedWasClaimed /\ CommittedWasClaimed

IInv == TypeOK /\ ReadyInv /\ ClaimInv /\ DoneInv /\ QueueInv /\ OffsetInv

-------------------------------------------------------------------------------
\* The table of statuses of docs/src/api.md:287-293.

\* api.md:290, "uploaded, waiting to be processed": a message about it is on
\* its way, in the log, or at hand of a worker that has not claimed it yet.
PendingIsQueued ==
  \A p \in Photos : status[p] = "pending" =>
    \/ request[p] = "send"
    \/ p \in outbox \cup QueuedAfter(committed)

\* api.md:291, "actively processed by a worker".
ProcessingIsWorkedOn ==
  \A p \in Photos : status[p] = "processing" =>
    \E w \in Workers : InClaim(w) /\ msg[w] = p

\* What the two lines above need of the environment, and what they rest on.

UploadsComplete == Faults \cap {"db", "send", "api"} = {}

PendingIsKnown ==
  UploadsComplete => \A p \in Photos : status[p] = "pending" =>
    request[p] = "send" \/ p \in outbox \cup Queued

WorkersComplete == Faults \cap {"db", "minio", "crash"} = {}

ClaimedIsWorkedOn ==
  WorkersComplete => /\ \A w \in Workers : pc[w] # "handle"
                     /\ ProcessingIsWorkedOn

-------------------------------------------------------------------------------
\* The scheduling the deployment gives: the event loop runs the handler of a
\* request and the loop of a worker, the producer delivers what it holds, a
\* stopped worker is started again (restart: unless-stopped) and a partition
\* without an owner is assigned.  Nothing is assumed of a worker whose consumer
\* has been stopped by an exception.
Fairness ==
  /\ \A p \in Photos : /\ WF_vars(HandlerStep(p) /\ UNCHANGED workerVars)
                       /\ WF_vars(Deliver(p) /\ UNCHANGED workerVars)
  /\ \A w \in Workers : /\ WF_vars(RunStep(w) /\ UNCHANGED uploadVars)
                        /\ WF_vars(Start(w) /\ UNCHANGED uploadVars)
  /\ WF_vars(\E w \in Workers : Assign(w) /\ UNCHANGED uploadVars)

FairSpec == Spec /\ Fairness

Resolved(p) == status[p] \in {"done", "failed"}

\* Every photo answered with 202 is eventually done or failed: through lost
\* and repeated deliveries, an analyzer that fails, partitions that move in
\* the middle of a message and workers that are told to stop.
AcceptedIsResolved == \A p \in Photos : request[p] = "accepted" ~> Resolved(p)

\* And the group catches up with the log: no message stays uncommitted.
LogIsDrained == []<>(committed = Len(topic))
===============================================================================
