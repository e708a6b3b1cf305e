------------------------- MODULE PhotoPipelineProofs --------------------------
(***************************************************************************)
(* The safety of PhotoPipeline for any photos, any workers, any set of     *)
(* faults and any bounds.  The inductive invariant IInv is proved in       *)
(* layers, each of which may use the layers before it.                     *)
(***************************************************************************)
EXTENDS PhotoPipeline, TLAPS

-------------------------------------------------------------------------------
\* The types.

LEMMA InitType == Init => TypeOK /\ HoldsMessage
BY FaultsAssumption, WorkerAssumption
   DEF Init, StoreInit, UploadInit, WorkerInit, TypeOK, StoreTypeOK, UploadTypeOK,
       WorkerTypeOK, Statuses, Stages, Labels, HoldsMessage, Busy, Member

\* Steps of the API process and of the producer.
LEMMA UploadType ==
  ASSUME TypeOK, NEW p \in Photos, UploadStep(p), UNCHANGED workerVars
  PROVE  TypeOK'
<1> USE DEF TypeOK, StoreTypeOK, UploadTypeOK, WorkerTypeOK, workerVars, processVars,
            groupVars, Statuses, Stages, Labels, storeVars, rows, blobs, uploadVars, Proceed
<1>1. CASE Refuse(p)
  BY <1>1 DEF Refuse
<1>2. CASE Validate(p)
  BY <1>2 DEF Validate
<1>3. CASE CreateRow(p)
  BY <1>3 DEF CreateRow, InsertRow
<1>4. CASE PutOriginal(p)
  BY <1>4 DEF PutOriginal
<1>5. CASE MarkPending(p)
  BY <1>5 DEF MarkPending, SetStatus
<1>6. CASE Send(p)
  BY <1>6 DEF Send
<1>7. CASE Accept(p)
  BY <1>7 DEF Accept
<1>8. CASE Deliver(p)
  BY <1>8 DEF Deliver
<1>9. CASE LatePut(p)
  BY <1>9 DEF LatePut
<1>10. CASE SendWithoutProducer(p)
  BY <1>10 DEF SendWithoutProducer
<1>11. CASE DeliverUnanswered(p)
  BY <1>11 DEF DeliverUnanswered
<1>12. CASE SendTimeout(p)
  BY <1>12 DEF SendTimeout
<1>13. CASE DropMessage(p)
  BY <1>13 DEF DropMessage
<1> QED
  BY <1>1, <1>2, <1>3, <1>4, <1>5, <1>6, <1>7, <1>8, <1>9, <1>10, <1>11, <1>12, <1>13
     DEF UploadStep, HandlerStep

LEMMA ApiCrashType == ASSUME TypeOK, ApiCrash, UNCHANGED workerVars PROVE TypeOK'
BY DEF TypeOK, StoreTypeOK, UploadTypeOK, WorkerTypeOK, workerVars, processVars,
       groupVars, Stages, storeVars, rows, blobs, ApiCrash, InFlight

\* A step about the message at hand keeps the worker busy with it.
BusyLabels == Labels \ {"stopped", "broken", "idle"}

LEMMA StepType ==
  ASSUME TypeOK, HoldsMessage, NEW w \in Workers,
         NEW from \in BusyLabels, NEW to \in BusyLabels, Step(w, from, to)
  PROVE  /\ msg[w] \in Photos
         /\ pc' \in [Workers -> Labels]
         /\ UNCHANGED <<msg, shutdown, owner, position, committed, incidents, topic>>
         /\ HoldsMessage'
<1>1. pc[w] = from /\ pc' = [pc EXCEPT ![w] = to]
  BY DEF Step, At, Goto
<1>2. pc \in [Workers -> Labels] /\ to \in Labels
  BY DEF TypeOK, WorkerTypeOK, BusyLabels
<1>3. pc' \in [Workers -> Labels]
  BY <1>1, <1>2
<1>4. UNCHANGED <<msg, shutdown, owner, position, committed, incidents, topic>>
  BY DEF Step, groupVars
<1>5. \A v \in Workers : Busy(v)' <=> Busy(v)
  BY <1>1, <1>2 DEF Busy, Member, BusyLabels
<1>6. msg[w] \in Photos
  BY <1>1 DEF HoldsMessage, Busy, Member, BusyLabels
<1>7. QED
  BY <1>3, <1>4, <1>5, <1>6 DEF HoldsMessage

\* Steps of a worker and of its environment.
LEMMA WorkerType ==
  ASSUME TypeOK, HoldsMessage, NEW w \in Workers, WorkerStep(w), UNCHANGED uploadVars
  PROVE  TypeOK' /\ HoldsMessage'
<1> USE WorkerAssumption
        DEF TypeOK, StoreTypeOK, UploadTypeOK, WorkerTypeOK, processVars, groupVars,
            Statuses, storeVars, rows, blobs, uploadVars, At, Goto, Forget
<1>1. CASE Start(w)
  BY <1>1 DEF Start, HoldsMessage, Busy, Member, Labels
<1>2. CASE Assign(w)
  BY <1>2 DEF Assign, HoldsMessage, Busy, Member
<1>3. CASE Rebalance(w)
  BY <1>3 DEF Rebalance, Incident, HoldsMessage, Busy, Member
<1>4. CASE Sigterm(w)
  BY <1>4 DEF Sigterm, Incident, HoldsMessage, Busy, Member
<1>5. CASE Crash(w)
  BY <1>5 DEF Crash, Incident, Leave, HoldsMessage, Busy, Member, Labels
<1>6. CASE Reconnect(w)
  BY <1>6 DEF Reconnect, HoldsMessage, Busy, Member, Labels
<1>7. CASE Fetch(w)
  <2>1. topic[position + 1] \in Photos
    BY <1>7 DEF Fetch
  <2>2. CASE shutdown[w]
    BY <1>7, <2>2 DEF Fetch, Leave, HoldsMessage, Busy, Member, Labels
  <2>3. CASE ~shutdown[w]
    <3>1. /\ pc[w] = "idle" /\ pc' = [pc EXCEPT ![w] = "lookup"]
          /\ msg' = [msg EXCEPT ![w] = topic[position + 1]]
          /\ position' = position + 1
          /\ UNCHANGED <<shutdown, owner, committed, storeVars, tries, att, incidents>>
      BY <1>7, <2>3 DEF Fetch
    <3>2. HoldsMessage'
      BY <2>1, <3>1 DEF HoldsMessage, Busy, Member, Labels
    <3>3. QED
      BY <2>1, <3>1, <3>2 DEF Labels
  <2>4. QED
    BY <2>2, <2>3
<1>8. CASE ProcessStep(w)
  <2> HIDE DEF TypeOK, StoreTypeOK, UploadTypeOK, WorkerTypeOK
  <2>1. ASSUME NEW from \in BusyLabels, NEW to \in BusyLabels, Step(w, from, to),
               status' \in [Photos -> Statuses], attempts' \in [Photos -> Nat],
               previewKey' \subseteq Photos, analysis' \subseteq Photos,
               originals' \subseteq Photos, previews' \subseteq Photos,
               tries' \in [Workers -> Nat], att' \in [Workers -> Nat]
        PROVE  TypeOK' /\ HoldsMessage'
    <3>1. /\ pc' \in [Workers -> Labels]
          /\ UNCHANGED <<msg, shutdown, owner, position, committed, incidents, topic>>
          /\ HoldsMessage'
      BY <2>1, StepType
    <3>2. QED
      BY <2>1, <3>1 DEF TypeOK, StoreTypeOK, UploadTypeOK, WorkerTypeOK
  <2>2. /\ status \in [Photos -> Statuses] /\ attempts \in [Photos -> Nat]
        /\ previewKey \subseteq Photos /\ analysis \subseteq Photos
        /\ originals \subseteq Photos /\ previews \subseteq Photos
        /\ tries \in [Workers -> Nat] /\ att \in [Workers -> Nat]
    BY DEF TypeOK, StoreTypeOK, WorkerTypeOK
  <2>3. \A from, to \in BusyLabels : Step(w, from, to) => msg[w] \in Photos
    BY StepType
  <2> USE DEF BusyLabels, Labels
  <2>4. CASE Lookup(w)
    BY <2>1, <2>2, <2>4 DEF Lookup
  <2>5. CASE Claim(w)
    BY <2>1, <2>2, <2>3, <2>5 DEF Claim, ClaimRow
  <2>6. CASE Read(w)
    BY <2>1, <2>2, <2>6 DEF Read
  <2>7. CASE Analyze(w)
    BY <2>1, <2>2, <2>7 DEF Analyze
  <2>8. CASE GiveUp(w)
    BY <2>1, <2>2, <2>3, <2>8 DEF GiveUp, SetStatusAndAttempts
  <2>9. CASE Preview(w)
    BY <2>1, <2>2, <2>3, <2>9 DEF Preview, UploadPreview
  <2>10. CASE Save(w)
    BY <2>1, <2>2, <2>3, <2>10 DEF Save, SaveAnalysisAndFinish
  <2>11. CASE Group(w)
    BY <2>1, <2>2, <2>11 DEF Group
  <2>12. CASE HandleError(w)
    BY <2>1, <2>2, <2>3, <2>12 DEF HandleError, SetStatusAndAttempts
  <2>13. QED
    BY <1>8, <2>4, <2>5, <2>6, <2>7, <2>8, <2>9, <2>10, <2>11, <2>12 DEF ProcessStep
<1>9. CASE Commit(w)
  <2>1. committed' \in Nat
    BY <1>9 DEF Commit, CommitPosition
  <2>2. CASE pc' = [pc EXCEPT ![w] = "idle"] /\ Forget(w)
    BY <1>9, <2>1, <2>2 DEF Commit, HoldsMessage, Busy, Member, Labels
  <2>3. CASE pc' = [pc EXCEPT ![w] = "recommit"] /\ UNCHANGED <<msg, tries, att>>
    BY <1>9, <2>1, <2>3 DEF Commit, HoldsMessage, Busy, Member, Labels
  <2>4. QED
    BY <1>9, <2>2, <2>3 DEF Commit
<1>10. CASE Recommit(w)
  <2>1. /\ pc[w] = "recommit" /\ pc' \in {[pc EXCEPT ![w] = "idle"], [pc EXCEPT ![w] = "broken"]}
        /\ msg' = [msg EXCEPT ![w] = NoPhoto]
    BY <1>10 DEF Recommit
  <2>2. pc' \in [Workers -> Labels] /\ msg' \in [Workers -> Photos \cup {NoPhoto}]
    BY <2>1 DEF Labels
  <2>3. HoldsMessage'
    BY <2>1 DEF HoldsMessage, Busy, Member
  <2>4. committed' \in Nat
    BY <1>10 DEF Recommit, CommitPosition
  <2>5. position' \in Nat /\ owner' \in Workers \cup {NoWorker}
    BY <1>10, <2>4 DEF Recommit
  <2>6. QED
    BY <1>10, <2>2, <2>3, <2>4, <2>5 DEF Recommit
<1> HIDE DEF TypeOK
<1> QED
  BY <1>1, <1>2, <1>3, <1>4, <1>5, <1>6, <1>7, <1>8, <1>9, <1>10
     DEF WorkerStep, RunStep, EnvironmentStep

THEOREM TypeCorrect == Spec => []TypeOK
<1>1. TypeOK /\ HoldsMessage /\ [Next]_vars => TypeOK' /\ HoldsMessage'
  <2> SUFFICES ASSUME TypeOK, HoldsMessage, [Next]_vars PROVE TypeOK' /\ HoldsMessage'
    OBVIOUS
  <2>1. UNCHANGED workerVars => HoldsMessage'
    BY DEF workerVars, processVars, HoldsMessage, Busy, Member
  <2>2. ASSUME NEW p \in Photos, UploadStep(p), UNCHANGED workerVars
        PROVE  TypeOK' /\ HoldsMessage'
    BY <2>1, <2>2, UploadType
  <2>3. CASE ApiCrash /\ UNCHANGED workerVars
    BY <2>1, <2>3, ApiCrashType
  <2>4. ASSUME NEW w \in Workers, WorkerStep(w), UNCHANGED uploadVars
        PROVE  TypeOK' /\ HoldsMessage'
    BY <2>4, WorkerType
  <2>5. CASE UNCHANGED vars
    BY <2>1, <2>5 DEF vars, storeVars, rows, blobs, uploadVars, workerVars, processVars,
                groupVars, TypeOK, StoreTypeOK, UploadTypeOK, WorkerTypeOK
  <2>6. QED
    BY <2>2, <2>3, <2>4, <2>5 DEF Next
<1>2. QED
  BY <1>1, InitType, PTL DEF Spec

-------------------------------------------------------------------------------
\* What a step of a worker can touch, and what the log holds.

\* A worker writes one row at most, that of the photo at hand, and touches the
\* locals of no other worker.
LEMMA WorkerFrame ==
  ASSUME TypeOK, HoldsMessage, NEW w \in Workers, WorkerStep(w)
  PROVE  /\ UNCHANGED <<originals, topic>>
         /\ \A p \in Photos : status'[p] # status[p] =>
               Busy(w) /\ p = msg[w] /\ status'[p] \in {"processing", "done", "failed"}
         /\ \A v \in Workers \ {w} : pc'[v] = pc[v] /\ msg'[v] = msg[v] /\ att'[v] = att[v]
<1>1. TypeOK /\ HoldsMessage /\ WorkerStep(w)
  OBVIOUS
<1> USE DEF storeVars, rows, blobs, processVars, groupVars, At, Goto, Forget
<1>2. CASE EnvironmentStep(w)
  BY <1>2 DEF EnvironmentStep, Start, Assign, Rebalance, Sigterm, Crash, Reconnect, TypeOK,
              WorkerTypeOK
<1>3. CASE Fetch(w) \/ Commit(w) \/ Recommit(w)
  BY <1>3 DEF Fetch, Commit, Recommit, TypeOK, WorkerTypeOK
<1>4. CASE ProcessStep(w)
  <2>1. PICK from \in BusyLabels, to \in BusyLabels : Step(w, from, to)
    BY <1>4 DEF ProcessStep, Lookup, Claim, Read, Analyze, GiveUp, Preview, UploadPreview, Save, Group,
                HandleError, BusyLabels, Labels
  <2>2. /\ msg[w] \in Photos /\ UNCHANGED <<msg, topic>>
        /\ pc' = [pc EXCEPT ![w] = to] /\ Busy(w)
    BY <2>1, StepType DEF Step, HoldsMessage
  <2>3. \A v \in Workers \ {w} : pc'[v] = pc[v] /\ msg'[v] = msg[v]
    BY <2>2 DEF TypeOK, WorkerTypeOK
  <2>4. /\ UNCHANGED originals
        /\ att' = att \/ att' = [att EXCEPT ![w] = attempts[msg[w]] + 1]
        /\ status' = status
           \/ \E s \in {"processing", "done", "failed"} : status' = [status EXCEPT ![msg[w]] = s]
    BY <1>4 DEF ProcessStep, Lookup, Claim, Read, Analyze, GiveUp, Preview, UploadPreview, Save, Group,
                HandleError, ClaimRow, SetStatusAndAttempts, SaveAnalysisAndFinish
  <2>5. QED
    BY <2>2, <2>3, <2>4 DEF TypeOK, StoreTypeOK, WorkerTypeOK
<1>5. QED
  BY <1>1, <1>2, <1>3, <1>4 DEF WorkerStep, RunStep

\* A request creates one row and makes it pending, and touches nothing else of it.
LEMMA UploadFrame ==
  ASSUME TypeOK, NEW p \in Photos, UploadStep(p)
  PROVE  /\ originals \subseteq originals'
         /\ UNCHANGED <<attempts, previewKey, analysis, previews>>
         /\ \A q \in Photos : status'[q] # status[q] =>
               /\ q = p
               /\ \/ request[p] = "create" /\ status'[p] = "uploading"
                  \/ request[p] = "mark" /\ status'[p] = "pending"
         /\ \A q \in Photos \ {p} : request'[q] = request[q]
BY DEF UploadStep, HandlerStep, Refuse, Validate, CreateRow, InsertRow, PutOriginal,
   MarkPending, SetStatus, Send, Accept, Deliver, LatePut, SendWithoutProducer,
   DeliverUnanswered, SendTimeout, DropMessage, Proceed, storeVars, rows, blobs, uploadVars,
   TypeOK, StoreTypeOK, UploadTypeOK

LEMMA QueuedMeaning ==
  ASSUME TypeOK
  PROVE  /\ Queued \subseteq Photos
         /\ \A p : p \in Queued <=> \E i \in 1..Len(topic) : topic[i] = p
BY DEF Queued, QueuedAfter, TypeOK, StoreTypeOK

LEMMA QueuedAppend ==
  ASSUME TypeOK, NEW p \in Photos, topic' = Append(topic, p)
  PROVE  Queued' = Queued \cup {p}
<1>1. /\ topic \in Seq(Photos) /\ Len(topic) \in Nat /\ Len(topic') = Len(topic) + 1
      /\ topic'[Len(topic) + 1] = p
      /\ \A i \in 1..Len(topic) : topic'[i] = topic[i]
  BY DEF TypeOK, StoreTypeOK
<1>2. ASSUME NEW q PROVE q \in Queued' <=> q \in Queued \cup {p}
  <2>1. q \in Queued <=> \E i \in 1..Len(topic) : topic[i] = q
    BY QueuedMeaning
  <2>2. q \in Queued' <=> \E i \in 1..Len(topic') : topic'[i] = q
    BY <1>1 DEF Queued, QueuedAfter
  <2>3. QED
    BY <1>1, <2>1, <2>2
<1>3. QED
  BY <1>2

LEMMA QueuedKept == UNCHANGED topic => Queued' = Queued
BY DEF Queued, QueuedAfter

-------------------------------------------------------------------------------
\* First layer: a message never runs ahead of the upload.

LEMMA InitReady == Init => ReadyInv
<1> SUFFICES ASSUME Init PROVE ReadyInv
  OBVIOUS
<1>1. Queued = {}
  BY DEF Init, StoreInit, Queued, QueuedAfter
<1>2. HoldsMessage
  BY InitType
<1>3. QED
  BY <1>1, <1>2 DEF Init, StoreInit, UploadInit, WorkerInit, ReadyInv, StageMatchesStore,
     WorkedOnIsReady, QueuedIsReady, Busy, Member

\* What a ready photo needs to stay ready.
LEMMA ReadyKept ==
  ASSUME NEW q, Ready(q), originals \subseteq originals',
         status'[q] = status[q] \/ status'[q] \in {"pending", "processing", "done", "failed"}
  PROVE  Ready(q)'
BY DEF Ready

LEMMA UploadReady ==
  ASSUME TypeOK, ReadyInv, NEW p \in Photos, UploadStep(p), UNCHANGED workerVars
  PROVE  ReadyInv'
<1> USE DEF ReadyInv
<1>1. HoldsMessage'
  BY DEF workerVars, processVars, HoldsMessage, Busy, Member
<1>2. /\ originals \subseteq originals'
      /\ \A q \in Photos : status'[q] # status[q] =>
            /\ q = p
            /\ \/ request[p] = "create" /\ status'[p] = "uploading"
               \/ request[p] = "mark" /\ status'[p] = "pending"
      /\ \A q \in Photos \ {p} : request'[q] = request[q]
  BY UploadFrame
<1>3. \A q \in Photos : Ready(q) => Ready(q)'
  <2>1. \A q \in Photos : Ready(q) /\ status'[q] # status[q] => status'[q] = "pending"
    BY <1>2 DEF StageMatchesStore, Ready
  <2>2. QED
    BY <1>2, <2>1, ReadyKept
<1>4. WorkedOnIsReady'
  BY <1>3 DEF workerVars, processVars, HoldsMessage, WorkedOnIsReady, Busy, Member
<1>5. StageMatchesStore'
  <2>1. \A q \in Photos \ {p} : status'[q] = status[q] /\ request'[q] = request[q]
    BY <1>2
  <2>2. /\ request'[p] \in {"new", "create", "refused"} => status'[p] = "none"
        /\ request'[p] \in {"put", "mark"} => status'[p] = "uploading"
        /\ request'[p] = "mark" => p \in originals'
        /\ request'[p] \in {"send", "sent", "accepted"} => Ready(p)'
    BY <1>2, <1>3
    DEF UploadStep, HandlerStep, Refuse, Validate, CreateRow, InsertRow, PutOriginal,
     MarkPending, SetStatus, Send, Accept, Deliver, LatePut, SendWithoutProducer,
     DeliverUnanswered, SendTimeout, DropMessage, Proceed, storeVars, rows, blobs, uploadVars,
     TypeOK, StoreTypeOK, UploadTypeOK, StageMatchesStore, Ready, Stages
  <2>3. QED
    BY <1>2, <1>3, <2>1, <2>2 DEF StageMatchesStore
<1>6. QueuedIsReady'
  <2>1. outbox' \subseteq outbox \cup {p} /\ (p \in outbox' => Ready(p))
    BY DEF UploadStep, HandlerStep, Refuse, Validate, CreateRow, PutOriginal,
     MarkPending, Send, Accept, Deliver, LatePut, SendWithoutProducer,
     DeliverUnanswered, SendTimeout, DropMessage, Proceed, storeVars, uploadVars,
     StageMatchesStore, QueuedIsReady
  <2>2. UNCHANGED topic \/ (p \in outbox /\ topic' = Append(topic, p))
    BY DEF UploadStep, HandlerStep, Refuse, Validate, CreateRow, PutOriginal,
     MarkPending, Send, Accept, Deliver, LatePut, SendWithoutProducer,
     DeliverUnanswered, SendTimeout, DropMessage, storeVars
  <2>3. Queued' \subseteq Queued \cup {p} /\ (p \in Queued' => Ready(p))
    BY <2>2, QueuedAppend, QueuedKept DEF QueuedIsReady
  <2>4. Queued \subseteq Photos /\ outbox \subseteq Photos
    BY QueuedMeaning DEF TypeOK, UploadTypeOK
  <2>5. QED
    BY <1>3, <2>1, <2>3, <2>4 DEF QueuedIsReady
<1>7. QED
  BY <1>1, <1>4, <1>5, <1>6

LEMMA ApiCrashReady ==
  ASSUME TypeOK, ReadyInv, ApiCrash, UNCHANGED workerVars
  PROVE  ReadyInv'
<1>1. UNCHANGED storeVars /\ outbox' = {}
      /\ \A p \in Photos : request'[p] = request[p] \/ request'[p] = "error"
  BY DEF ApiCrash
<1>2. QED
  BY <1>1, QueuedKept DEF storeVars, rows, blobs, workerVars, processVars, ReadyInv, Ready,
     StageMatchesStore, WorkedOnIsReady, QueuedIsReady, HoldsMessage, Busy, Member

LEMMA WorkerReady ==
  ASSUME TypeOK, ReadyInv, NEW w \in Workers, WorkerStep(w), UNCHANGED uploadVars
  PROVE  ReadyInv'
<1> USE DEF ReadyInv
<1>1. HoldsMessage'
  BY WorkerType
<1>2. /\ UNCHANGED <<originals, topic>>
      /\ \A p \in Photos : status'[p] # status[p] =>
            Ready(p) /\ status'[p] \in {"processing", "done", "failed"}
  BY WorkerFrame DEF WorkedOnIsReady
<1>3. \A p \in Photos : Ready(p) => Ready(p)'
  BY <1>2, ReadyKept
<1>4. StageMatchesStore'
  BY <1>2, <1>3 DEF StageMatchesStore, Ready, uploadVars
<1>5. QueuedIsReady'
  <2>1. Queued \subseteq Photos /\ outbox \subseteq Photos
    BY QueuedMeaning DEF TypeOK, UploadTypeOK
  <2>2. QED
    BY <1>2, <1>3, <2>1, QueuedKept DEF QueuedIsReady, uploadVars
<1>6. ASSUME NEW v \in Workers, Busy(v)' PROVE Ready(msg[v])'
  <2>1. msg'[v] \in Photos
    BY <1>1, <1>6 DEF HoldsMessage
  <2>2. CASE msg'[v] = msg[v]
    BY <1>3, <2>1, <2>2 DEF HoldsMessage, WorkedOnIsReady
  <2>3. CASE msg'[v] # msg[v]
    <3>1. v = w
      BY <2>3, WorkerFrame
    <3>2. position < Len(topic) /\ msg'[w] = topic[position + 1]
      BY <2>1, <2>3, <3>1, WorkerAssumption
      DEF WorkerStep, RunStep, EnvironmentStep, ProcessStep, Start, Assign, Rebalance, Sigterm,
          Crash, Reconnect, Fetch, Commit, Recommit, Lookup, Claim, Read, Analyze, GiveUp,
          Preview, UploadPreview, Save, Group, HandleError, Step, Forget, processVars, TypeOK, WorkerTypeOK
    <3>3. msg'[w] \in Queued
      <4>1. position + 1 \in 1..Len(topic)
        BY <3>2 DEF TypeOK, WorkerTypeOK, StoreTypeOK
      <4>2. QED
        BY <3>2, <4>1, QueuedMeaning
    <3>4. QED
      BY <1>3, <2>1, <3>1, <3>3 DEF QueuedIsReady
  <2>4. QED
    BY <2>2, <2>3
<1>7. QED
  BY <1>1, <1>4, <1>5, <1>6 DEF WorkedOnIsReady

-------------------------------------------------------------------------------
\* Second layer: one worker at a time, and one attempt.

LEMMA InitClaim == Init => ClaimInv
BY DEF Init, StoreInit, WorkerInit, ClaimInv, AttemptedOnce, ClaimerSawOne, ClaimExclusive,
   ClaimKeepsRow, Attempted, InClaim

\* A photo under a claim has a row, and its name is a photo.
LEMMA ClaimedPhoto ==
  ASSUME HoldsMessage, NEW w \in Workers, InClaim(w)
  PROVE  msg[w] \in Photos
BY DEF HoldsMessage, Busy, Member, InClaim

LEMMA UploadClaim ==
  ASSUME TypeOK, ReadyInv, ClaimInv, NEW p \in Photos, UploadStep(p), UNCHANGED workerVars
  PROVE  ClaimInv'
<1>1. \A q \in Photos : status'[q] # status[q] => ~Attempted(q) /\ ~Attempted(q)'
  BY UploadFrame DEF ReadyInv, StageMatchesStore, Attempted
<1>2. UNCHANGED <<attempts, pc, msg, att>>
  BY UploadFrame DEF workerVars, processVars
<1>3. \A w \in Workers : InClaim(w) => msg[w] \in Photos /\ status'[msg[w]] = status[msg[w]]
  BY <1>1, ClaimedPhoto DEF ReadyInv, ClaimInv, ClaimerSawOne
<1>4. AttemptedOnce'
  BY <1>1, <1>2 DEF ClaimInv, AttemptedOnce, Attempted
<1>5. QED
  BY <1>2, <1>3, <1>4 DEF ClaimInv, ClaimerSawOne, ClaimExclusive, ClaimKeepsRow, InClaim,
     Attempted

LEMMA RowsKeptClaim ==
  ASSUME ClaimInv, UNCHANGED <<status, attempts>>,
         \A w \in Workers : InClaim(w)' =>
            /\ InClaim(w) /\ msg'[w] = msg[w] /\ att'[w] = att[w]
            /\ pc'[w] \in {"read", "analyze", "giveup", "preview", "save"} =>
                  pc[w] \in {"read", "analyze", "giveup", "preview", "save"}
            /\ pc'[w] = "group" => pc[w] = "group"
  PROVE  ClaimInv'
BY DEF ClaimInv, AttemptedOnce, ClaimerSawOne, ClaimExclusive, ClaimKeepsRow, InClaim, Attempted

LEMMA RowChangedClaim ==
  ASSUME TypeOK, HoldsMessage, ClaimInv, NEW w \in Workers, NEW m \in Photos,
         NEW s \in {"processing", "done", "failed"},
         status' = [status EXCEPT ![m] = s], attempts' = [attempts EXCEPT ![m] = 1],
         \A v \in Workers \ {w} : InClaim(v) => msg[v] # m,
         \A v \in Workers \ {w} : pc'[v] = pc[v] /\ msg'[v] = msg[v] /\ att'[v] = att[v],
         InClaim(w)' =>
            /\ msg'[w] = m /\ att'[w] = 1
            /\ pc'[w] \in {"read", "analyze", "giveup", "preview", "save"} => s = "processing"
            /\ pc'[w] = "group" => s = "done"
  PROVE  ClaimInv'
<1>1. AttemptedOnce'
  BY DEF TypeOK, StoreTypeOK, ClaimInv, AttemptedOnce, Attempted
<1>2. \A v \in Workers \ {w} : InClaim(v)' =>
         /\ InClaim(v) /\ msg'[v] \in Photos /\ msg'[v] # m
         /\ status'[msg'[v]] = status[msg[v]] /\ attempts'[msg'[v]] = attempts[msg[v]]
  <2>1. \A v \in Workers \ {w} : InClaim(v)' => InClaim(v)
    BY DEF InClaim
  <2>2. QED
    BY <2>1, ClaimedPhoto DEF TypeOK, StoreTypeOK
<1>3. status'[m] = s /\ attempts'[m] = 1
  BY DEF TypeOK, StoreTypeOK
<1>4. ClaimExclusive'
  BY <1>2 DEF ClaimInv, ClaimExclusive
<1>5. ClaimerSawOne'
  BY <1>2, <1>3 DEF ClaimInv, ClaimerSawOne, Attempted
<1>6. ClaimKeepsRow'
  BY <1>2, <1>3 DEF ClaimInv, ClaimKeepsRow, InClaim
<1>7. QED
  BY <1>1, <1>4, <1>5, <1>6 DEF ClaimInv

LEMMA WorkerClaim ==
  ASSUME TypeOK, ReadyInv, ClaimInv, NEW w \in Workers, WorkerStep(w)
  PROVE  ClaimInv'
<1>1. HoldsMessage
  BY DEF ReadyInv
<1>2. \A v \in Workers \ {w} : pc'[v] = pc[v] /\ msg'[v] = msg[v] /\ att'[v] = att[v]
  BY <1>1, WorkerFrame
<1>3. CASE EnvironmentStep(w) \/ Fetch(w) \/ Commit(w) \/ Recommit(w)
  <2>1. /\ UNCHANGED <<status, attempts>>
        /\ InClaim(w)' => pc'[w] = pc[w] /\ msg'[w] = msg[w] /\ att'[w] = att[w]
    BY <1>3 DEF EnvironmentStep, Start, Assign, Rebalance, Sigterm, Crash, Reconnect, Fetch,
       Commit, Recommit, storeVars, rows, processVars, Goto, Forget, InClaim, TypeOK, WorkerTypeOK
  <2>2. QED
    BY <1>2, <2>1, RowsKeptClaim DEF InClaim
<1>4. CASE Lookup(w) \/ Read(w) \/ Analyze(w) \/ Preview(w) \/ Group(w)
  <2>1. /\ UNCHANGED <<status, attempts, msg, att>>
        /\ InClaim(w)' => InClaim(w)
        /\ InClaim(w)' => pc'[w] # "group"
        /\ pc'[w] \in {"read", "analyze", "giveup", "preview", "save"} =>
                  pc[w] \in {"read", "analyze", "giveup", "preview", "save"}
    BY <1>4 DEF Lookup, Read, Analyze, Preview, UploadPreview, Group, Step, At, Goto, rows, InClaim,
       TypeOK, WorkerTypeOK
  <2>2. QED
    BY <1>2, <2>1, RowsKeptClaim DEF InClaim
<1>5. CASE HandleError(w)
  <2>1. pc[w] = "handle" /\ ~Exhausted(w)
    BY <1>5, WorkerAssumption
    DEF HandleError, Step, At, ClaimInv, ClaimerSawOne, InClaim, Exhausted
  <2>2. UNCHANGED <<status, attempts, msg, att>> /\ pc' = [pc EXCEPT ![w] = "commit"]
    BY <1>5, <2>1 DEF HandleError, Step, Goto, rows
  <2>3. QED
    BY <1>2, <2>2, RowsKeptClaim DEF InClaim, TypeOK, WorkerTypeOK
<1>6. CASE Claim(w)
  <2>1. pc[w] = "claim" /\ msg[w] \in Photos /\ UNCHANGED msg
    BY <1>1, <1>6 DEF Claim, Step, At, HoldsMessage, Busy, Member
  <2>2. CASE /\ Claimable(msg[w]) /\ ClaimRow(msg[w])
             /\ \/ Step(w, "claim", "read") /\ att' = [att EXCEPT ![w] = attempts[msg[w]] + 1]
                \/ Step(w, "claim", "recommit") /\ UNCHANGED att
    <3>1. status[msg[w]] = "pending" /\ attempts[msg[w]] = 0
      BY <2>1, <2>2 DEF Claimable, ClaimInv, AttemptedOnce, Attempted
    <3>2. \A v \in Workers : InClaim(v) => msg[v] # msg[w]
      BY <3>1 DEF ClaimInv, ClaimerSawOne, Attempted
    <3>3. /\ status' = [status EXCEPT ![msg[w]] = "processing"]
          /\ attempts' = [attempts EXCEPT ![msg[w]] = 1]
      BY <2>2, <3>1 DEF ClaimRow
    <3>4. InClaim(w)' => pc'[w] = "read" /\ att'[w] = 1
      BY <2>2, <3>1 DEF Step, Goto, InClaim, TypeOK, WorkerTypeOK
    <3>5. QED
      BY <1>1, <1>2, <2>1, <3>2, <3>3, <3>4, RowChangedClaim
  <2>3. CASE UNCHANGED <<status, attempts, att>> /\ pc'[w] \in {"commit", "recommit"}
    BY <1>2, <2>1, <2>3, RowsKeptClaim DEF InClaim
  <2>4. QED
    BY <1>6, <2>2, <2>3 DEF Claim, Step, Goto, rows, TypeOK, WorkerTypeOK
<1>7. CASE GiveUp(w)
  <2>1. /\ pc[w] = "giveup" /\ msg[w] \in Photos /\ att[w] = 1 /\ UNCHANGED <<msg, att>>
        /\ pc'[w] \in {"commit", "handle"}
    BY <1>1, <1>7 DEF GiveUp, Step, At, Goto, HoldsMessage, Busy, Member, TypeOK, WorkerTypeOK,
       ClaimInv, ClaimerSawOne, InClaim
  <2>2. CASE SetStatusAndAttempts(msg[w], "failed", att[w])
    <3>1. \A v \in Workers \ {w} : InClaim(v) => msg[v] # msg[w]
      BY <2>1 DEF ClaimInv, ClaimExclusive, InClaim
    <3>2. QED
      BY <1>1, <1>2, <2>1, <2>2, <3>1, RowChangedClaim DEF SetStatusAndAttempts
  <2>3. CASE UNCHANGED rows
    BY <1>2, <2>1, <2>3, RowsKeptClaim DEF rows, InClaim
  <2>4. QED
    BY <1>7, <2>2, <2>3 DEF GiveUp
<1>8. CASE Save(w)
  <2>1. /\ pc[w] = "save" /\ msg[w] \in Photos /\ att[w] = 1 /\ UNCHANGED <<msg, att>>
        /\ attempts[msg[w]] = 1
    BY <1>1, <1>8 DEF Save, Step, At, HoldsMessage, Busy, Member,
       ClaimInv, ClaimerSawOne, ClaimKeepsRow, InClaim
  <2>2. CASE SaveAnalysisAndFinish(msg[w]) /\ pc'[w] \in {"group", "handle"}
    <3>1. \A v \in Workers \ {w} : InClaim(v) => msg[v] # msg[w]
      BY <2>1 DEF ClaimInv, ClaimExclusive, InClaim
    <3>2. attempts' = [attempts EXCEPT ![msg[w]] = 1]
      BY <2>1, <2>2 DEF SaveAnalysisAndFinish, TypeOK, StoreTypeOK
    <3>3. QED
      BY <1>1, <1>2, <2>1, <2>2, <3>1, <3>2, RowChangedClaim DEF SaveAnalysisAndFinish
  <2>3. CASE UNCHANGED rows /\ pc'[w] = "handle"
    BY <1>2, <2>1, <2>3, RowsKeptClaim DEF rows, InClaim
  <2>4. QED
    BY <1>8, <2>2, <2>3 DEF Save, Step, Goto, TypeOK, WorkerTypeOK
<1>9. QED
  BY <1>3, <1>4, <1>5, <1>6, <1>7, <1>8 DEF WorkerStep, RunStep, ProcessStep

-------------------------------------------------------------------------------
\* Third layer: done, the analysis and the preview come together.

LEMMA InitDone == Init => DoneInv
BY DEF Init, StoreInit, WorkerInit, DoneInv, DoneIffAnalysed, SavesUploadedPreview

LEMMA UploadDone ==
  ASSUME TypeOK, ReadyInv, DoneInv, NEW p \in Photos, UploadStep(p), UNCHANGED workerVars
  PROVE  DoneInv'
<1>1. \A q \in Photos : status'[q] # status[q] => status[q] # "done" /\ status'[q] # "done"
  BY UploadFrame DEF ReadyInv, StageMatchesStore
<1>2. UNCHANGED <<analysis, previewKey, previews, pc, msg>>
  BY UploadFrame DEF workerVars, processVars
<1>3. QED
  BY <1>1, <1>2 DEF DoneInv, DoneIffAnalysed, SavesUploadedPreview

LEMMA WorkerDone ==
  ASSUME TypeOK, ReadyInv, ClaimInv, DoneInv, NEW w \in Workers, WorkerStep(w)
  PROVE  DoneInv'
<1>1. HoldsMessage
  BY DEF ReadyInv
<1>2. \A v \in Workers \ {w} : pc'[v] = pc[v] /\ msg'[v] = msg[v]
  BY <1>1, WorkerFrame
<1>3. CASE \/ EnvironmentStep(w) \/ Fetch(w) \/ Commit(w) \/ Recommit(w)
           \/ Lookup(w) \/ Read(w) \/ Analyze(w) \/ Group(w)
  <2>1. UNCHANGED <<rows, previews>> /\ (pc'[w] = "save" => pc[w] = "save" /\ msg'[w] = msg[w])
    BY <1>3 DEF EnvironmentStep, Start, Assign, Rebalance, Sigterm, Crash, Reconnect, Fetch,
       Commit, Recommit, Lookup, Read, Analyze, Group, Step, At, Goto, Forget, storeVars, rows,
       blobs, processVars, TypeOK, WorkerTypeOK
  <2>2. QED
    BY <1>2, <2>1 DEF DoneInv, DoneIffAnalysed, SavesUploadedPreview, rows
<1>4. CASE Preview(w)
  <2>1. /\ UNCHANGED <<rows, msg>> /\ previews \subseteq previews'
        /\ pc'[w] = "save" => msg[w] \in previews'
    BY <1>4 DEF Preview, UploadPreview, Step, Goto, TypeOK, WorkerTypeOK
  <2>2. QED
    BY <1>2, <2>1 DEF DoneInv, DoneIffAnalysed, SavesUploadedPreview, rows
<1>5. CASE Claim(w) \/ GiveUp(w) \/ HandleError(w)
  <2>1. UNCHANGED <<analysis, previewKey, previews>> /\ pc'[w] # "save"
    BY <1>5 DEF Claim, GiveUp, HandleError, ClaimRow, SetStatusAndAttempts, Step, Goto, rows,
       blobs, TypeOK, WorkerTypeOK
  <2>2. \A q \in Photos : status'[q] # status[q] => status[q] # "done" /\ status'[q] # "done"
    <3>1. CASE Claim(w)
      BY <3>1 DEF Claim, Claimable, ClaimRow, rows, TypeOK, StoreTypeOK
    <3>2. CASE GiveUp(w)
      BY <3>2 DEF GiveUp, SetStatusAndAttempts, Step, At, rows, TypeOK, StoreTypeOK, ClaimInv,
         ClaimKeepsRow
    <3>3. CASE HandleError(w)
      BY <3>3, WorkerAssumption DEF HandleError, Step, At, Exhausted, rows, ClaimInv,
         ClaimerSawOne, InClaim
    <3>4. QED
      BY <1>5, <3>1, <3>2, <3>3
  <2>3. QED
    BY <1>2, <2>1, <2>2 DEF DoneInv, DoneIffAnalysed, SavesUploadedPreview
<1>6. CASE Save(w)
  <2>1. msg[w] \in Photos /\ msg[w] \in previews
    BY <1>1, <1>6 DEF Save, Step, At, HoldsMessage, Busy, Member, DoneInv, SavesUploadedPreview
  <2>2. UNCHANGED previews /\ pc'[w] # "save"
    BY <1>6 DEF Save, Step, Goto, blobs, TypeOK, WorkerTypeOK
  <2>3. CASE SaveAnalysisAndFinish(msg[w])
    BY <1>2, <2>1, <2>2, <2>3 DEF SaveAnalysisAndFinish, DoneInv, DoneIffAnalysed,
       SavesUploadedPreview, TypeOK, StoreTypeOK
  <2>4. CASE UNCHANGED rows
    BY <1>2, <2>2, <2>4 DEF DoneInv, DoneIffAnalysed, SavesUploadedPreview, rows
  <2>5. QED
    BY <1>6, <2>3, <2>4 DEF Save
<1>7. QED
  BY <1>3, <1>4, <1>5, <1>6 DEF WorkerStep, RunStep, ProcessStep

-------------------------------------------------------------------------------
\* Fourth layer: what was accepted is in the log.

LEMMA InitQueue == Init => QueueInv
BY DEF Init, UploadInit, QueueInv, AcceptedIsQueued, SentIsHeldOrQueued

LEMMA UploadQueue ==
  ASSUME TypeOK, QueueInv, NEW p \in Photos, UploadStep(p)
  PROVE  QueueInv'
<1>1. UNCHANGED topic \/ topic' = Append(topic, p)
  BY DEF UploadStep, HandlerStep, Refuse, Validate, CreateRow, PutOriginal, MarkPending, Send,
     Accept, Deliver, LatePut, SendWithoutProducer, DeliverUnanswered, SendTimeout, DropMessage,
     storeVars
<1>2. Queued \subseteq Queued' /\ (topic' = Append(topic, p) => p \in Queued')
  BY <1>1, QueuedAppend, QueuedKept
<1>3. \A q \in Photos \ {p} : request'[q] = request[q] /\ (q \in outbox => q \in outbox')
  BY UploadFrame DEF UploadStep, HandlerStep, Refuse, Validate, CreateRow, PutOriginal,
     MarkPending, Send, Accept, Deliver, LatePut, SendWithoutProducer, DeliverUnanswered,
     SendTimeout, DropMessage, uploadVars
<1>4. /\ request'[p] = "accepted" =>
           request[p] = "accepted" \/ (request[p] = "sent" /\ p \notin outbox)
      /\ request'[p] = "sent" =>
           p \in outbox' \/ topic' = Append(topic, p) \/ (request[p] = "sent" /\ p \notin outbox)
  BY DEF UploadStep, HandlerStep, Refuse, Validate, CreateRow, PutOriginal, MarkPending, Send,
     Accept, Deliver, LatePut, SendWithoutProducer, DeliverUnanswered, SendTimeout, DropMessage,
     Proceed, uploadVars, TypeOK, UploadTypeOK
<1>5. QED
  BY <1>2, <1>3, <1>4 DEF QueueInv, AcceptedIsQueued, SentIsHeldOrQueued

LEMMA ApiCrashQueue ==
  ASSUME TypeOK, QueueInv, ApiCrash
  PROVE  QueueInv'
BY QueuedKept DEF ApiCrash, InFlight, storeVars, TypeOK, UploadTypeOK, QueueInv,
   AcceptedIsQueued, SentIsHeldOrQueued

LEMMA WorkerQueue ==
  ASSUME TypeOK, HoldsMessage, QueueInv, NEW w \in Workers, WorkerStep(w), UNCHANGED uploadVars
  PROVE  QueueInv'
BY WorkerFrame, QueuedKept DEF uploadVars, QueueInv, AcceptedIsQueued, SentIsHeldOrQueued

-------------------------------------------------------------------------------
\* Fifth layer: the committed offset follows the claims.

LEMMA InitOffset == Init => OffsetInv
BY DEF Init, StoreInit, WorkerInit, OffsetInv, OffsetsOrdered, FetchedWasClaimed,
   CommittedWasClaimed

\* A photo of the log that is not pending never becomes pending again.
LEMMA UploadOffset ==
  ASSUME TypeOK, ReadyInv, OffsetInv, NEW p \in Photos, UploadStep(p), UNCHANGED workerVars
  PROVE  OffsetInv'
<1>1. UNCHANGED topic \/ topic' = Append(topic, p)
  BY DEF UploadStep, HandlerStep, Refuse, Validate, CreateRow, PutOriginal, MarkPending, Send,
     Accept, Deliver, LatePut, SendWithoutProducer, DeliverUnanswered, SendTimeout, DropMessage,
     storeVars
<1>2. /\ Len(topic) \in Nat /\ Len(topic) <= Len(topic')
      /\ \A i \in 1..Len(topic) : topic'[i] = topic[i] /\ topic[i] \in Photos
  BY <1>1 DEF TypeOK, StoreTypeOK
<1>3. \A i \in 1..Len(topic) : status'[topic[i]] = status[topic[i]]
  <2>1. \A q \in Queued : status'[q] = status[q]
    BY UploadFrame, QueuedMeaning DEF ReadyInv, QueuedIsReady, Ready, StageMatchesStore
  <2>2. QED
    BY <2>1, QueuedMeaning
<1>4. UNCHANGED <<pc, msg, owner, position, committed>>
  BY DEF workerVars, processVars, groupVars
<1>5. position \in Nat /\ committed \in Nat /\ committed <= position /\ position <= Len(topic)
  BY DEF TypeOK, WorkerTypeOK, OffsetInv, OffsetsOrdered
<1>6. \A i \in 1..position : topic'[i] = topic[i] /\ status'[topic[i]] = status[topic[i]]
  BY <1>2, <1>3, <1>5
<1>7. OffsetsOrdered'
  BY <1>2, <1>4, <1>5 DEF OffsetInv, OffsetsOrdered, TypeOK, StoreTypeOK
<1>8. FetchedWasClaimed'
  BY <1>4, <1>6 DEF OffsetInv, FetchedWasClaimed
<1>9. CommittedWasClaimed'
  BY <1>4, <1>5, <1>6 DEF OffsetInv, CommittedWasClaimed
<1>10. QED
  BY <1>7, <1>8, <1>9 DEF OffsetInv

LEMMA ApiCrashOffset ==
  ASSUME OffsetInv, ApiCrash, UNCHANGED workerVars
  PROVE  OffsetInv'
BY DEF ApiCrash, storeVars, rows, workerVars, processVars, groupVars, OffsetInv, OffsetsOrdered,
   FetchedWasClaimed, CommittedWasClaimed

LEMMA WorkerOffset ==
  ASSUME TypeOK, HoldsMessage, WorkedOnIsReady, OffsetInv, NEW w \in Workers,
         WorkerStep(w), TypeOK'
  PROVE  OffsetInv'
<1> USE DEF OffsetInv
<1>1. /\ position \in Nat /\ committed \in Nat /\ Len(topic) \in Nat /\ UNCHANGED topic
      /\ committed <= position /\ position <= Len(topic)
      /\ \A i \in 1..position : topic[i] \in Photos
  <2>1. /\ position \in Nat /\ committed \in Nat /\ topic \in Seq(Photos)
        /\ committed <= position /\ position <= Len(topic)
    BY DEF TypeOK, StoreTypeOK, WorkerTypeOK, OffsetsOrdered
  <2>2. UNCHANGED topic
    BY WorkerFrame
  <2>3. QED
    BY <2>1, <2>2
<1>2. \A i \in 1..position : status[topic[i]] # "pending" => status'[topic[i]] # "pending"
  BY <1>1, WorkerFrame
<1>3. \A v \in Workers \ {w} : pc'[v] = pc[v] /\ msg'[v] = msg[v]
  BY WorkerFrame
\* The partition is given to a new owner or to nobody.
<1>4. CASE UNCHANGED committed /\ position' = committed
  BY <1>1, <1>2, <1>4 DEF OffsetsOrdered, FetchedWasClaimed, CommittedWasClaimed
\* The offsets stay, and the owner is not about to claim or still is.
<1>5. CASE /\ UNCHANGED <<owner, position, committed>>
           /\ owner = w => \/ pc[w] \notin {"lookup", "claim"}
                           \/ "db" \in Faults
                           \/ pc'[w] \in {"lookup", "claim"} /\ UNCHANGED msg
                           \/ status'[msg[w]] # "pending"
  <2>1. OffsetsOrdered' /\ CommittedWasClaimed'
    BY <1>1, <1>2, <1>5 DEF OffsetsOrdered, CommittedWasClaimed
  <2>2. CASE owner = w
    BY <1>1, <1>2, <1>5, <2>1, <2>2 DEF FetchedWasClaimed
  <2>3. CASE owner # w
    BY <1>1, <1>2, <1>3, <1>5, <2>1, <2>3 DEF FetchedWasClaimed
  <2>4. QED
    BY <2>1, <2>2, <2>3
\* The owner commits.
<1>6. CASE Commit(w) \/ Recommit(w)
  <2>1. /\ UNCHANGED rows /\ pc[w] \in {"commit", "recommit"}
        /\ UNCHANGED committed \/ (owner = w /\ committed' = position)
        /\ \/ UNCHANGED <<owner, position>>
           \/ owner = w /\ owner' = NoWorker /\ position' = committed'
    BY <1>6 DEF Commit, Recommit, CommitPosition, At, storeVars
  <2>2. OffsetsOrdered'
    BY <1>1, <2>1, WorkerAssumption DEF OffsetsOrdered, TypeOK, WorkerTypeOK
  <2>3. CommittedWasClaimed'
    BY <1>1, <1>2, <2>1 DEF CommittedWasClaimed, FetchedWasClaimed
  <2>4. CASE UNCHANGED <<owner, position>> /\ owner = w
    BY <1>1, <1>2, <2>1, <2>2, <2>3, <2>4 DEF FetchedWasClaimed
  <2>5. CASE UNCHANGED <<owner, position>> /\ owner # w
    BY <1>1, <1>2, <1>3, <2>1, <2>2, <2>3, <2>5 DEF FetchedWasClaimed
  <2>6. CASE position' = committed'
    BY <1>1, <2>2, <2>3, <2>6 DEF FetchedWasClaimed, CommittedWasClaimed
  <2>7. QED
    BY <2>1, <2>2, <2>3, <2>4, <2>5, <2>6
\* The owner takes the next message.
<1>7. CASE Fetch(w) /\ ~shutdown[w]
  <2>1. /\ owner = w /\ pc[w] = "idle" /\ position < Len(topic)
        /\ UNCHANGED <<owner, committed>> /\ position' = position + 1
        /\ pc'[w] = "lookup" /\ msg'[w] = topic[position + 1]
    BY <1>7 DEF Fetch, At, Goto, TypeOK, WorkerTypeOK
  <2>2. OffsetsOrdered' /\ CommittedWasClaimed'
    BY <1>1, <1>2, <2>1, WorkerAssumption DEF OffsetsOrdered, CommittedWasClaimed
  <2>3. ASSUME "db" \notin Faults, NEW i \in 1..position
        PROVE  status'[topic[i]] # "pending"
    BY <1>1, <1>2, <2>1, <2>3 DEF FetchedWasClaimed
  <2>4. FetchedWasClaimed'
    BY <1>1, <2>1, <2>3 DEF FetchedWasClaimed
  <2>5. QED
    BY <2>2, <2>4
<1>8. CASE Fetch(w) /\ shutdown[w]
  BY <1>4, <1>8 DEF Fetch, Leave
<1>9. CASE EnvironmentStep(w)
  <2>1. CASE Assign(w) \/ Rebalance(w)
    BY <1>4, <2>1 DEF Assign, Rebalance
  <2>2. CASE Crash(w) /\ owner = w
    BY <1>4, <2>2 DEF Crash, Leave
  <2>3. CASE Crash(w) /\ owner # w
    BY <1>5, <2>3 DEF Crash, Leave
  <2>4. CASE Start(w) \/ Reconnect(w) \/ Sigterm(w)
    BY <1>5, <2>4 DEF Start, Reconnect, Sigterm, At, groupVars
  <2>5. QED
    BY <1>9, <2>1, <2>2, <2>3, <2>4 DEF EnvironmentStep
<1>10. CASE ProcessStep(w)
  <2>1. UNCHANGED <<owner, position, committed, msg>>
    BY <1>10 DEF ProcessStep, Lookup, Claim, Read, Analyze, GiveUp, Preview, UploadPreview, Save, Group,
       HandleError, Step, groupVars
  <2>2. CASE Lookup(w)
    <3>1. pc[w] = "lookup" /\ status[msg[w]] # "none"
      BY <2>2 DEF Lookup, Step, At, WorkedOnIsReady, Ready, Busy, Member
    <3>2. "db" \in Faults \/ pc'[w] = "claim"
      BY <2>2, <3>1 DEF Lookup, Step, Goto, MayFail, TypeOK, WorkerTypeOK
    <3>3. QED
      BY <1>5, <2>1, <3>2
  <2>3. CASE Claim(w)
    <3>1. msg[w] \in Photos
      BY <2>3 DEF Claim, Step, At, HoldsMessage, Busy, Member
    <3>2. "db" \in Faults \/ status'[msg[w]] # "pending"
      BY <2>3, <3>1 DEF Claim, Claimable, ClaimRow, rows, MayFail, TypeOK, StoreTypeOK
    <3>3. QED
      BY <1>5, <2>1, <3>2
  <2>4. CASE pc[w] \notin {"lookup", "claim"}
    BY <1>5, <2>1, <2>4
  <2>5. QED
    BY <1>10, <2>2, <2>3, <2>4 DEF ProcessStep, Read, Analyze, GiveUp, Preview, UploadPreview, Save, Group,
       HandleError, Step, At
<1>11. QED
  BY <1>6, <1>7, <1>8, <1>9, <1>10 DEF WorkerStep, RunStep

-------------------------------------------------------------------------------
\* The whole invariant.

LEMMA StutterInvariant == IInv /\ UNCHANGED vars => IInv'
<1> SUFFICES ASSUME IInv, UNCHANGED vars PROVE IInv'
  OBVIOUS
<1>1. /\ UNCHANGED <<status, attempts, previewKey, analysis, originals, previews, topic>>
      /\ UNCHANGED <<request, putting, outbox>>
      /\ UNCHANGED <<pc, msg, tries, att, shutdown, owner, position, committed, incidents>>
  BY DEF vars, storeVars, rows, blobs, uploadVars, workerVars, processVars, groupVars
<1>2. TypeOK'
  BY <1>1 DEF IInv, TypeOK, StoreTypeOK, UploadTypeOK, WorkerTypeOK
<1>3. ReadyInv'
  BY <1>1, QueuedKept DEF IInv, ReadyInv, HoldsMessage, StageMatchesStore, WorkedOnIsReady,
     QueuedIsReady, Ready, Busy, Member
<1>4. ClaimInv' /\ DoneInv'
  BY <1>1 DEF IInv, ClaimInv, AttemptedOnce, ClaimerSawOne, ClaimExclusive, ClaimKeepsRow,
     Attempted, InClaim, DoneInv, DoneIffAnalysed, SavesUploadedPreview
<1>5. QueueInv' /\ OffsetInv'
  BY <1>1, QueuedKept DEF IInv, QueueInv, AcceptedIsQueued, SentIsHeldOrQueued, OffsetInv,
     OffsetsOrdered, FetchedWasClaimed, CommittedWasClaimed
<1>6. QED
  BY <1>2, <1>3, <1>4, <1>5 DEF IInv

LEMMA NextInvariant == IInv /\ [Next]_vars => IInv'
<1> SUFFICES ASSUME IInv, [Next]_vars PROVE IInv'
  OBVIOUS
<1> USE DEF IInv
<1>1. ASSUME NEW p \in Photos, UploadStep(p), UNCHANGED workerVars PROVE IInv'
  <2>1. UNCHANGED <<pc, msg, att>>
    BY <1>1 DEF workerVars, processVars
  <2>2. QED
    BY <1>1, UploadType, UploadReady, UploadClaim, UploadDone, UploadQueue, UploadOffset
<1>2. CASE ApiCrash /\ UNCHANGED workerVars
  <2>1. ClaimInv' /\ DoneInv'
    BY <1>2 DEF ApiCrash, storeVars, rows, blobs, workerVars, processVars, ClaimInv,
       AttemptedOnce, ClaimerSawOne, ClaimExclusive, ClaimKeepsRow, Attempted, InClaim,
       DoneInv, DoneIffAnalysed, SavesUploadedPreview
  <2>2. QED
    BY <1>2, <2>1, ApiCrashType, ApiCrashReady, ApiCrashQueue, ApiCrashOffset
<1>3. ASSUME NEW w \in Workers, WorkerStep(w), UNCHANGED uploadVars PROVE IInv'
  <2>1. HoldsMessage /\ WorkedOnIsReady
    BY DEF ReadyInv
  <2>2. TypeOK'
    BY <1>3, <2>1, WorkerType
  <2>3. QED
    BY <1>3, <2>1, <2>2, WorkerReady, WorkerClaim, WorkerDone, WorkerQueue, WorkerOffset
<1>4. QED
  BY <1>1, <1>2, <1>3, StutterInvariant DEF Next

THEOREM Invariance == Spec => []IInv
<1>1. Init => IInv
  BY InitType, InitReady, InitClaim, InitDone, InitQueue, InitOffset DEF IInv
<1>2. QED
  BY <1>1, NextInvariant, PTL DEF Spec

-------------------------------------------------------------------------------
\* What the invariant says of the code.

\* A message in the log or in the producer has a row past uploading and an
\* original in the bucket: the worker never looks up a photo that is not there.
THEOREM MessagesAreReady == Spec => []QueuedIsReady
<1>1. IInv => QueuedIsReady
  BY DEF IInv, ReadyInv
<1>2. QED
  BY <1>1, Invariance, PTL

\* claim_photo gives a photo to one worker at a time, whatever the deliveries,
\* the rebalances and the crashes.
THEOREM OneWorkerPerPhoto == Spec => []ClaimExclusive
<1>1. IInv => ClaimExclusive
  BY DEF IInv, ClaimInv
<1>2. QED
  BY <1>1, Invariance, PTL

\* Nobody else writes the row of a photo while its worker is at it.
THEOREM ClaimProtectsRow == Spec => []ClaimKeepsRow
<1>1. IInv => ClaimKeepsRow
  BY DEF IInv, ClaimInv
<1>2. QED
  BY <1>1, Invariance, PTL

\* done, the analysis row, the preview key and the preview come together.
THEOREM DoneIsComplete == Spec => []DoneIffAnalysed
<1>1. IInv => DoneIffAnalysed
  BY DEF IInv, DoneInv
<1>2. QED
  BY <1>1, Invariance, PTL

\* A 202 is never given for a photo whose message is not in the log.
THEOREM AcceptedReachesLog == Spec => []AcceptedIsQueued
<1>1. IInv => AcceptedIsQueued
  BY DEF IInv, QueueInv
<1>2. QED
  BY <1>1, Invariance, PTL

\* Unless the database raises, the offset is committed past claimed photos only.
THEOREM AtLeastOnce == Spec => []CommittedWasClaimed
<1>1. IInv => CommittedWasClaimed
  BY DEF IInv, OffsetInv
<1>2. QED
  BY <1>1, Invariance, PTL

-------------------------------------------------------------------------------
\* The rows implement the life cycle: each write of the two programs is one of
\* its steps, or leaves status, attempts and analysis as they are.

LEMMA InitLifecycle == Init => Lifecycle!Init
BY DEF Init, StoreInit, Lifecycle!Init

LEMMA UploadLifecycle ==
  ASSUME IInv, NEW p \in Photos, UploadStep(p)
  PROVE  [Lifecycle!Next]_<<status, attempts, analysis>>
<1>1. UNCHANGED <<attempts, analysis>>
  BY UploadFrame DEF IInv
<1>2. \/ UNCHANGED status
      \/ request[p] = "create" /\ status' = [status EXCEPT ![p] = "uploading"]
      \/ request[p] = "mark" /\ status' = [status EXCEPT ![p] = "pending"]
  BY DEF UploadStep, HandlerStep, Refuse, Validate, CreateRow, InsertRow, PutOriginal,
     MarkPending, SetStatus, Send, Accept, Deliver, LatePut, SendWithoutProducer,
     DeliverUnanswered, SendTimeout, DropMessage, Proceed, storeVars, rows
<1>3. /\ request[p] = "create" => status[p] = "none"
      /\ request[p] = "mark" => status[p] = "uploading"
  BY DEF IInv, ReadyInv, StageMatchesStore
<1>4. QED
  BY <1>1, <1>2, <1>3 DEF Lifecycle!Next, Lifecycle!Create, Lifecycle!Stored, Lifecycle!Move

LEMMA WorkerLifecycle ==
  ASSUME IInv, NEW w \in Workers, WorkerStep(w)
  PROVE  [Lifecycle!Next]_<<status, attempts, analysis>>
<1>1. ClaimInv /\ HoldsMessage /\ TypeOK
  BY DEF IInv, ReadyInv
<1> USE DEF Lifecycle!Next, Lifecycle!Move
<1>2. CASE UNCHANGED rows
  BY <1>2 DEF rows
<1>3. CASE Claim(w)
  <2>1. msg[w] \in Photos
    BY <1>1, <1>3 DEF Claim, Step, At, HoldsMessage, Busy, Member
  <2>2. CASE Claimable(msg[w]) /\ ClaimRow(msg[w])
    BY <2>1, <2>2 DEF Claimable, ClaimRow, Lifecycle!Claimed
  <2>3. QED
    BY <1>2, <1>3, <2>2 DEF Claim, rows
<1>4. CASE GiveUp(w)
  <2>1. /\ msg[w] \in Photos /\ status[msg[w]] = "processing" /\ attempts[msg[w]] = att[w]
    BY <1>1, <1>4 DEF GiveUp, Step, At, HoldsMessage, Busy, Member, ClaimInv, ClaimKeepsRow
  <2>2. CASE SetStatusAndAttempts(msg[w], "failed", att[w])
    <3>1. UNCHANGED attempts
      BY <1>1, <2>1, <2>2 DEF SetStatusAndAttempts, TypeOK, StoreTypeOK
    <3>2. QED
      BY <2>1, <2>2, <3>1 DEF SetStatusAndAttempts, Lifecycle!Failed
  <2>3. QED
    BY <1>2, <1>4, <2>2 DEF GiveUp
<1>5. CASE Save(w)
  <2>1. msg[w] \in Photos /\ status[msg[w]] = "processing"
    BY <1>1, <1>5 DEF Save, Step, At, HoldsMessage, Busy, Member, ClaimInv, ClaimKeepsRow
  <2>2. CASE msg[w] \notin analysis /\ SaveAnalysisAndFinish(msg[w])
    BY <2>1, <2>2 DEF SaveAnalysisAndFinish, Lifecycle!Finished
  <2>3. QED
    BY <1>2, <1>5, <2>2 DEF Save
<1>6. CASE HandleError(w)
  <2>1. ~Exhausted(w)
    BY <1>1, <1>6, WorkerAssumption
    DEF HandleError, Step, At, ClaimInv, ClaimerSawOne, InClaim, Exhausted
  <2>2. QED
    BY <1>2, <1>6, <2>1 DEF HandleError
<1>7. CASE Lookup(w) \/ Read(w) \/ Analyze(w) \/ Preview(w) \/ Group(w)
  BY <1>2, <1>7 DEF Lookup, Read, Analyze, Preview, UploadPreview, Group
<1>8. CASE EnvironmentStep(w) \/ Fetch(w) \/ Commit(w) \/ Recommit(w)
  BY <1>2, <1>8 DEF EnvironmentStep, Start, Assign, Rebalance, Sigterm, Crash, Reconnect, Fetch,
       Commit, Recommit, storeVars
<1>9. QED
  BY <1>3, <1>4, <1>5, <1>6, <1>7, <1>8 DEF WorkerStep, RunStep, ProcessStep

THEOREM RefinesLifecycle == Spec => LifecycleSpec
<1>1. IInv /\ [Next]_vars => [Lifecycle!Next]_<<status, attempts, analysis>>
  <2>1. UNCHANGED vars \/ ApiCrash => UNCHANGED <<status, attempts, analysis>>
    BY DEF vars, storeVars, rows, ApiCrash
  <2>2. QED
    BY <2>1, UploadLifecycle, WorkerLifecycle DEF Next
<1>2. QED
  BY <1>1, InitLifecycle, Invariance, PTL
  DEF Spec, LifecycleSpec, Lifecycle!Spec, Lifecycle!lifecycleVars

-------------------------------------------------------------------------------
\* The publishing part of create_photo, the producer and the log implement
\* Publication.

LEMMA InitContract == Init => Contract!Init
BY DEF Init, StoreInit, UploadInit, Contract!Init, CallOf

\* A stage that says nothing about the call of send.
LEMMA IdleContract ==
  ASSUME IInv, NEW p \in Photos, NEW to \in Stages, request' = [request EXCEPT ![p] = to],
         CallOf(request[p]) = "idle", CallOf(to) \in {"idle", "raised"},
         UNCHANGED <<outbox, topic>>
  PROVE  [Contract!Next]_(Contract!publicationVars)
<1>1. \A q \in Photos : CallOf(request'[q]) = IF q = p THEN CallOf(to) ELSE CallOf(request[q])
  BY DEF IInv, TypeOK, UploadTypeOK
<1>2. CASE CallOf(to) = "idle"
  BY <1>1, <1>2 DEF Contract!publicationVars
<1>3. CASE CallOf(to) = "raised"
  <2>1. Contract!Refuse(p)
    BY <1>1, <1>3 DEF Contract!Refuse, Contract!End
  <2>2. QED
    BY <2>1 DEF Contract!Next
<1>4. QED
  BY <1>2, <1>3

LEMMA UploadContract ==
  ASSUME IInv, NEW p \in Photos, UploadStep(p)
  PROVE  [Contract!Next]_(Contract!publicationVars)
<1>1. request \in [Photos -> Stages]
  BY DEF IInv, TypeOK, UploadTypeOK
<1>2. CASE \/ Refuse(p) \/ Validate(p) \/ CreateRow(p) \/ PutOriginal(p) \/ MarkPending(p)
           \/ SendWithoutProducer(p)
  <2>1. /\ request[p] \in {"new", "create", "put", "mark", "send"}
        /\ UNCHANGED <<outbox, topic>>
        /\ \E to \in {"refused", "create", "put", "mark", "send", "error"} :
             request' = [request EXCEPT ![p] = to]
    BY <1>2 DEF Refuse, Validate, CreateRow, PutOriginal, MarkPending, SendWithoutProducer,
         Proceed, storeVars
  <2>2. QED
    BY <2>1, IdleContract DEF CallOf, Stages
<1>3. CASE Send(p)
  <2>1. Contract!HandOver(p)
    BY <1>1, <1>3 DEF Send, Proceed, storeVars, Contract!HandOver, Contract!End, CallOf
  <2>2. QED
    BY <2>1 DEF Contract!Next
<1>4. CASE Accept(p)
  <2>1. request[p] = "sent" /\ p \notin outbox
    BY <1>4 DEF Accept, Proceed
  <2>2. \E i \in 1..Len(topic) : topic[i] = p
    BY <2>1, QueuedMeaning DEF IInv, QueueInv, SentIsHeldOrQueued
  <2>3. Contract!Return(p)
    BY <1>1, <1>4, <2>1, <2>2
       DEF Accept, Proceed, storeVars, Contract!Return, Contract!End, CallOf
  <2>4. QED
    BY <2>3 DEF Contract!Next
<1>5. CASE SendTimeout(p)
  <2>1. Contract!GiveUp(p)
    BY <1>1, <1>5 DEF SendTimeout, Proceed, storeVars, Contract!GiveUp, Contract!End, CallOf
  <2>2. QED
    BY <2>1 DEF Contract!Next
<1>6. CASE Deliver(p) \/ DeliverUnanswered(p)
  <2>1. Contract!Deliver(p)
    BY <1>6 DEF Deliver, DeliverUnanswered, uploadVars, Contract!Deliver
  <2>2. QED
    BY <2>1 DEF Contract!Next
<1>7. CASE DropMessage(p)
  <2>1. Contract!Drop(p)
    BY <1>1, <1>7 DEF DropMessage, storeVars, Contract!Drop, CallOf, Stages
  <2>2. QED
    BY <2>1 DEF Contract!Next
<1>8. CASE LatePut(p)
  BY <1>8 DEF LatePut, Contract!publicationVars
<1>9. QED
  BY <1>2, <1>3, <1>4, <1>5, <1>6, <1>7, <1>8 DEF UploadStep, HandlerStep

LEMMA ApiCrashContract ==
  ASSUME IInv, ApiCrash PROVE [Contract!Next]_(Contract!publicationVars)
<1>1. request \in [Photos -> Stages]
  BY DEF IInv, TypeOK, UploadTypeOK
<1>2. Contract!Crash
  BY <1>1 DEF ApiCrash, InFlight, storeVars, Stages, CallOf, Contract!Crash, Contract!Calls
<1>3. QED
  BY <1>2 DEF Contract!Next

THEOREM RefinesPublication == Spec => PublicationSpec
<1>1. IInv /\ [Next]_vars => [Contract!Next]_(Contract!publicationVars)
  <2> SUFFICES ASSUME IInv, [Next]_vars PROVE [Contract!Next]_(Contract!publicationVars)
    OBVIOUS
  <2>1. CASE UNCHANGED <<uploadVars, topic>>
    BY <2>1 DEF uploadVars, Contract!publicationVars
  <2>2. ASSUME NEW w \in Workers, WorkerStep(w) PROVE UNCHANGED topic
    BY <2>2, WorkerFrame DEF IInv, ReadyInv
  <2>3. UNCHANGED vars => UNCHANGED <<uploadVars, topic>>
    BY DEF vars, storeVars
  <2>4. QED
    BY <2>1, <2>2, <2>3, UploadContract, ApiCrashContract DEF Next
<1>2. QED
  BY <1>1, InitContract, Invariance, PTL
  DEF Spec, PublicationSpec, Contract!Spec

-------------------------------------------------------------------------------
\* The lines of the status table, as far as they are true.

LEMMA PendingUpload ==
  ASSUME IInv, PendingIsKnown, NEW p \in Photos, UploadStep(p), UploadsComplete
  PROVE  PendingIsKnown'
<1>1. TypeOK /\ request \in [Photos -> Stages] /\ outbox \subseteq Photos
  BY DEF IInv, TypeOK, UploadTypeOK
<1>2. ~MayFail("db") /\ ~MayFail("send")
  BY DEF UploadsComplete, MayFail
<1>3. \A q \in Photos : status'[q] = "pending" =>
        \/ status[q] = "pending"
        \/ q = p /\ request[p] = "mark"
  BY <1>1, UploadFrame
<1>4. ASSUME NEW q \in Photos, status[q] = "pending" \/ (q = p /\ request[p] = "mark"),
             status'[q] = "pending"
      PROVE  request'[q] = "send" \/ q \in outbox' \/ q \in Queued'
  <2>1. CASE Deliver(p) \/ DeliverUnanswered(p)
    <3>1. request' = request /\ Queued' = Queued \cup {p} /\ outbox \ {p} \subseteq outbox'
      BY <1>1, <2>1, QueuedAppend DEF Deliver, DeliverUnanswered, uploadVars
    <3>2. status'[q] = status[q]
      BY <2>1 DEF Deliver, DeliverUnanswered, rows
    <3>3. QED
      BY <1>4, <3>1, <3>2 DEF PendingIsKnown, UploadsComplete
  <2>2. CASE ~(Deliver(p) \/ DeliverUnanswered(p))
    <3>1. /\ UNCHANGED topic
          /\ \/ request' = request /\ outbox' = outbox /\ status' = status
             \/ request[p] \notin {"send", "mark"} /\ outbox' = outbox
                /\ \E to \in Stages : request' = [request EXCEPT ![p] = to]
             \/ request[p] = "mark" /\ outbox' = outbox
                /\ request' = [request EXCEPT ![p] = "send"]
             \/ outbox' = outbox \cup {p} /\ request' = [request EXCEPT ![p] = "sent"]
      BY <1>2, <2>2 DEF UploadStep, HandlerStep, Refuse, Validate, CreateRow, PutOriginal,
         MarkPending, Send, Accept, LatePut, SendWithoutProducer, SendTimeout, DropMessage,
         Proceed, Stages, storeVars, rows
    <3>2. Queued' = Queued
      BY <3>1, QueuedKept
    <3>3. status[q] = "pending" => request[q] = "send" \/ q \in outbox \/ q \in Queued
      BY DEF PendingIsKnown, UploadsComplete
    <3>4. QED
      BY <1>1, <1>4, <3>1, <3>2, <3>3
  <2>3. QED
    BY <2>1, <2>2
<1>5. ASSUME NEW q \in Photos, status'[q] = "pending"
      PROVE  request'[q] = "send" \/ q \in outbox' \/ q \in Queued'
  BY <1>3, <1>4, <1>5
<1>6. QED
  BY <1>5 DEF PendingIsKnown

LEMMA PendingNext == IInv /\ PendingIsKnown /\ [Next]_vars => PendingIsKnown'
<1> SUFFICES ASSUME IInv, PendingIsKnown, [Next]_vars, UploadsComplete PROVE PendingIsKnown'
  BY DEF PendingIsKnown, UploadsComplete
<1>1. CASE UNCHANGED vars
  BY <1>1 DEF vars, storeVars, rows, uploadVars, PendingIsKnown, Queued, QueuedAfter
<1>2. ASSUME NEW w \in Workers, WorkerStep(w), UNCHANGED uploadVars
      PROVE  PendingIsKnown'
  <2>1. UNCHANGED topic /\ \A p \in Photos : status'[p] = "pending" => status[p] = "pending"
    BY <1>2, WorkerFrame DEF IInv, ReadyInv
  <2>2. Queued' = Queued
    BY <2>1, QueuedKept
  <2>3. QED
    BY <1>2, <2>1, <2>2 DEF PendingIsKnown, uploadVars
<1>3. ~ApiCrash
  BY DEF ApiCrash, MayFail, UploadsComplete
<1>4. QED
  BY <1>1, <1>2, <1>3, PendingUpload DEF Next

\* A pending photo has a message to come, as long as no upload fails in its
\* second half (api.md:290).
THEOREM PendingHasMessage == Spec => [](UploadsComplete => PendingIsQueued)
<1>1. Init => PendingIsKnown
  BY DEF Init, StoreInit, PendingIsKnown
<1>2. IInv /\ PendingIsKnown => (UploadsComplete => PendingIsQueued)
  <2> SUFFICES ASSUME IInv, PendingIsKnown, UploadsComplete, NEW p \in Photos,
                      status[p] = "pending", p \in Queued
               PROVE  p \in QueuedAfter(committed)
    BY DEF PendingIsQueued, PendingIsKnown
  <2>1. TypeOK /\ committed \in Nat /\ CommittedWasClaimed
    BY DEF IInv, TypeOK, WorkerTypeOK, OffsetInv
  <2>2. PICK i \in 1..Len(topic) : topic[i] = p
    BY <2>1, QueuedMeaning
  <2>3. "db" \notin Faults
    BY DEF UploadsComplete
  <2>4. ~(i \in 1..committed)
    BY <2>1, <2>2, <2>3 DEF CommittedWasClaimed
  <2>5. i > committed
    BY <2>1, <2>2, <2>4 DEF TypeOK, StoreTypeOK
  <2>6. QED
    BY <2>2, <2>5 DEF QueuedAfter
<1>3. QED
  BY <1>1, <1>2, PendingNext, Invariance, PTL DEF Spec

\* A worker whose calls succeed leaves its photo done or failed.
LEMMA ClaimedWorker ==
  ASSUME IInv, ClaimedIsWorkedOn, WorkersComplete, NEW w \in Workers, WorkerStep(w)
  PROVE  ClaimedIsWorkedOn'
<1>1. /\ TypeOK /\ HoldsMessage /\ ClaimKeepsRow /\ WorkedOnIsReady /\ DoneIffAnalysed
      /\ pc \in [Workers -> Labels] /\ status \in [Photos -> Statuses]
      /\ msg \in [Workers -> Photos \cup {NoPhoto}]
  BY DEF IInv, ReadyInv, ClaimInv, DoneInv, TypeOK, StoreTypeOK, WorkerTypeOK
<1>2. ~MayFail("db") /\ ~MayFail("minio") /\ ~MayFail("crash")
  BY DEF WorkersComplete, MayFail
<1>3. (\A v \in Workers : pc[v] # "handle") /\ ProcessingIsWorkedOn
  BY DEF ClaimedIsWorkedOn, WorkersComplete
<1>4. \A v \in Workers \ {w} : pc'[v] = pc[v] /\ msg'[v] = msg[v]
  BY <1>1, WorkerFrame
<1>5. \A p \in Photos : status'[p] # status[p] => Busy(w) /\ p = msg[w]
  BY <1>1, WorkerFrame
<1>6. /\ pc'[w] # "handle"
      /\ InClaim(w) => \/ InClaim(w)' /\ msg'[w] = msg[w]
                       \/ status'[msg[w]] # "processing"
      /\ Busy(w) /\ status[msg[w]] # "processing" /\ status'[msg[w]] = "processing" =>
           InClaim(w)' /\ msg'[w] = msg[w]
  <2>1. CASE ProcessStep(w)
    <3>1. msg[w] \in Photos /\ msg' = msg /\ msg[w] \in originals
      <4>1. Busy(w)
        BY <2>1 DEF ProcessStep, Lookup, Claim, Read, Analyze, GiveUp, Preview, Save, Group,
                    HandleError, Step, At, Busy, Member
      <4>2. msg' = msg
        BY <2>1 DEF ProcessStep, Lookup, Claim, Read, Analyze, GiveUp, Preview, Save, Group,
                    HandleError, Step
      <4>3. QED
        BY <1>1, <4>1, <4>2 DEF HoldsMessage, WorkedOnIsReady, Ready
    <3>2. CASE Lookup(w)
      BY <1>1, <1>2, <3>1, <3>2 DEF Lookup, Step, At, Goto, InClaim, rows
    <3>3. CASE Claim(w)
      BY <1>1, <1>2, <3>1, <3>3 DEF Claim, Step, At, Goto, InClaim, rows
    <3>4. CASE Read(w)
      BY <1>1, <1>2, <3>1, <3>4 DEF Read, Step, At, Goto, InClaim, rows
    <3>5. CASE Analyze(w)
      BY <1>1, <1>2, <3>1, <3>5 DEF Analyze, Step, At, Goto, InClaim, rows
    <3>6. CASE GiveUp(w)
      BY <1>1, <1>2, <3>1, <3>6 DEF GiveUp, SetStatusAndAttempts, Step, At, Goto, InClaim, rows
    <3>7. CASE Preview(w)
      BY <1>1, <1>2, <3>1, <3>7 DEF Preview, Step, At, Goto, InClaim, rows
    <3>8. CASE Save(w)
      <4>1. At(w, "save") /\ msg[w] \notin analysis
        BY <1>1, <3>1, <3>8 DEF Save, Step, At, ClaimKeepsRow, DoneIffAnalysed
      <4>2. Step(w, "save", "group") /\ SaveAnalysisAndFinish(msg[w])
        BY <1>2, <3>8, <4>1 DEF Save
      <4>3. QED
        BY <1>1, <3>1, <4>2 DEF SaveAnalysisAndFinish, Step, At, Goto, InClaim
    <3>9. CASE Group(w)
      BY <1>1, <1>2, <3>1, <3>9 DEF Group, Step, At, Goto, InClaim, rows, ClaimKeepsRow
    <3>10. ~HandleError(w)
      BY <1>3 DEF HandleError, Step, At
    <3>11. QED
      BY <2>1, <3>2, <3>3, <3>4, <3>5, <3>6, <3>7, <3>8, <3>9, <3>10 DEF ProcessStep
  <2>2. CASE Fetch(w) \/ Commit(w) \/ Recommit(w)
    BY <1>1, <2>2 DEF Fetch, Commit, Recommit, Forget, At, Goto, InClaim, storeVars, rows
  <2>3. CASE EnvironmentStep(w)
    BY <1>1, <1>2, <1>3, <2>3 DEF EnvironmentStep, Start, Assign, Rebalance, Sigterm, Crash,
       Reconnect, Incident, At, Goto, InClaim, processVars, storeVars, rows
  <2>4. QED
    BY <2>1, <2>2, <2>3 DEF WorkerStep, RunStep
<1>7. ASSUME NEW p \in Photos, status'[p] = "processing"
      PROVE  \E v \in Workers : InClaim(v)' /\ msg'[v] = p
  <2>1. CASE status[p] = "processing"
    <3>1. PICK v \in Workers : InClaim(v) /\ msg[v] = p
      BY <1>3, <2>1 DEF ProcessingIsWorkedOn
    <3>2. QED
      BY <1>4, <1>6, <1>7, <3>1 DEF InClaim
  <2>2. CASE status[p] # "processing"
    BY <1>5, <1>6, <1>7, <2>2
  <2>3. QED
    BY <2>1, <2>2
<1>8. QED
  BY <1>3, <1>4, <1>6, <1>7 DEF ClaimedIsWorkedOn, ProcessingIsWorkedOn

LEMMA ClaimedNext == IInv /\ ClaimedIsWorkedOn /\ [Next]_vars => ClaimedIsWorkedOn'
<1> SUFFICES ASSUME IInv, ClaimedIsWorkedOn, [Next]_vars, WorkersComplete
             PROVE  ClaimedIsWorkedOn'
  BY DEF ClaimedIsWorkedOn, WorkersComplete
<1>1. ASSUME UNCHANGED workerVars,
             \A p \in Photos : status'[p] = "processing" => status[p] = "processing"
      PROVE  ClaimedIsWorkedOn'
  BY <1>1 DEF ClaimedIsWorkedOn, ProcessingIsWorkedOn, InClaim, workerVars, processVars
<1>2. UNCHANGED vars \/ ApiCrash => status' = status
  BY DEF vars, storeVars, rows, ApiCrash
<1>3. \A p \in Photos : UploadStep(p) =>
        \A q \in Photos : status'[q] = "processing" => status[q] = "processing"
  BY UploadFrame DEF IInv
<1>4. QED
  BY <1>1, <1>2, <1>3, ClaimedWorker DEF Next, vars

\* A photo in processing has a worker at it, as long as nothing raises after
\* the claim (api.md:291).
THEOREM ProcessingHasWorker == Spec => [](WorkersComplete => ProcessingIsWorkedOn)
<1>1. Init => ClaimedIsWorkedOn
  BY DEF Init, StoreInit, WorkerInit, ClaimedIsWorkedOn, ProcessingIsWorkedOn
<1>2. ClaimedIsWorkedOn => (WorkersComplete => ProcessingIsWorkedOn)
  BY DEF ClaimedIsWorkedOn
<1>3. QED
  BY <1>1, <1>2, ClaimedNext, Invariance, PTL DEF Spec
===============================================================================
