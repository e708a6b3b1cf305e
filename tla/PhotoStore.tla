------------------------------ MODULE PhotoStore ------------------------------
(***************************************************************************)
(* The state the API process and the workers share: the rows of PostgreSQL *)
(* (tables photos and photo_analysis), the objects in the MinIO bucket and *)
(* the Kafka topic photo-uploaded, with the writes the two programs issue  *)
(* against them.                                                           *)
(*                                                                         *)
(* A photo stands for its row, its object key and its message: photo_id    *)
(* and object_key are drawn from a fresh uuid (photos_service.py:50-51)    *)
(* and appear together wherever they travel.  photo_analysis carries no    *)
(* data here: PhotoGroups models the hashes.                               *)
(*                                                                         *)
(* Each write is one transaction, and its caller sees one of three         *)
(* outcomes: it was committed and the call returned; it was not, and the   *)
(* call raised; or it was committed and the call raised all the same,      *)
(* because the connection broke or the refresh that follows failed.        *)
(***************************************************************************)
EXTENDS Naturals, Sequences

CONSTANTS
  Photos,      \* one element per upload; the row exists once created
  Faults       \* the faults the environment may inject, a set of strings

VARIABLES
  status,      \* photos.status of every row, "none" when there is no row
  attempts,    \* photos.attempts
  previewKey,  \* the photos whose preview_key column is set
  analysis,    \* the photos that have a row in photo_analysis
  originals,   \* the photos whose original is in the bucket
  previews,    \* the photos whose preview is in the bucket
  topic        \* the log of topic photo-uploaded: its only partition, never cut

rows  == <<status, attempts, previewKey, analysis>>
blobs == <<originals, previews>>
storeVars == <<rows, blobs, topic>>

AllFaults == {"db", "minio", "analyzer", "send", "resend", "commit",
              "rebalance", "sigterm", "crash", "api"}

ASSUME FaultsAssumption == Faults \subseteq AllFaults

Statuses == {"none", "uploading", "pending", "processing", "done", "failed"}

\* Calls of this kind may raise.
MayFail(fault) == fault \in Faults

StoreInit == /\ status = [p \in Photos |-> "none"]
             /\ attempts = [p \in Photos |-> 0]
             /\ previewKey = {} /\ analysis = {}
             /\ originals = {} /\ previews = {}
             /\ topic = <<>>

StoreTypeOK == /\ status \in [Photos -> Statuses]
               /\ attempts \in [Photos -> Nat]
               /\ previewKey \subseteq Photos /\ analysis \subseteq Photos
               /\ originals \subseteq Photos /\ previews \subseteq Photos
               /\ topic \in Seq(Photos)

-------------------------------------------------------------------------------
\* PhotoDatabase.create: INSERT with status uploading and attempts 0.
InsertRow(p) == /\ status' = [status EXCEPT ![p] = "uploading"]
                /\ UNCHANGED <<attempts, previewKey, analysis>>

\* PhotoDatabase.update_status: UPDATE by primary key, whatever the row held.
SetStatus(p, s) == /\ status' = [status EXCEPT ![p] = s]
                   /\ UNCHANGED <<attempts, previewKey, analysis>>

\* worker/database.update_status: the status and the attempt it was given.
SetStatusAndAttempts(p, s, n) == /\ status' = [status EXCEPT ![p] = s]
                                 /\ attempts' = [attempts EXCEPT ![p] = n]
                                 /\ UNCHANGED <<previewKey, analysis>>

\* Mutant of Claimable: a photo left in processing may be claimed once more.
ClaimableAgain(p) == status[p] \in {"pending", "processing"}

\* Mutant of ClaimRow: the attempt is not counted.
ClaimRowUncounted(p) == /\ status' = [status EXCEPT ![p] = "processing"]
                        /\ UNCHANGED <<attempts, previewKey, analysis>>

\* claim_photo: UPDATE ... WHERE id = :id AND status = 'pending'.
Claimable(p) == status[p] = "pending"

ClaimRow(p) == /\ status' = [status EXCEPT ![p] = "processing"]
               /\ attempts' = [attempts EXCEPT ![p] = @ + 1]
               /\ UNCHANGED <<previewKey, analysis>>

\* save_analysis_and_finish: the analysis row, whose primary key is the photo,
\* the status and the preview key in one transaction.
SaveAnalysisAndFinish(p) == /\ analysis' = analysis \cup {p}
                            /\ status' = [status EXCEPT ![p] = "done"]
                            /\ previewKey' = previewKey \cup {p}
                            /\ UNCHANGED attempts
===============================================================================
