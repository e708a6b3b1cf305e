----------------------------- MODULE MetricsScrape -----------------------------
(***************************************************************************)
(* GET /metrics against the life of the photos.  get_db_metrics_text asks  *)
(* PostgreSQL for each number with a SELECT of its own, and at the default *)
(* isolation level (read committed) each SELECT sees the rows of its own   *)
(* moment: uploads, claims and ends of analyses come in between.  The rows *)
(* move by the steps of PhotoLifecycle, which PhotoPipeline implements.    *)
(*                                                                         *)
(* The buckets of the histogram come from one SELECT over the rows it      *)
(* counts; only their number, tot, is kept.  Of the counters the process   *)
(* keeps itself only photos_uploaded_total is here: the answer has it      *)
(* twice, once from app/core/metrics.py and once from the table.           *)
(***************************************************************************)
EXTENDS Integers, Sequences, FiniteSets

CONSTANT Photos   \* the photos ever uploaded

ASSUME PhotosAssumption == IsFiniteSet(Photos)

VARIABLES
  status, attempts, analysis,   \* the rows, as in PhotoLifecycle
  counted,   \* the uploads the process has counted since it started
  over,      \* the uploads whose handler has ended, or was cut off
  step,      \* what the scrape reads next, 0 between two scrapes
  sample,    \* what this scrape has read
  answer,    \* the samples of the last scrape that was answered
  waiting,   \* the photos that had the worker still ahead when it began
  ended      \* the photos that were done or failed when it began

rowVars == <<status, attempts, analysis>>
processVars == <<counted, over>>
scrapeVars == <<step, sample, answer, waiting, ended>>
vars == <<rowVars, processVars, scrapeVars>>

Rows == INSTANCE PhotoLifecycle

Numbers == {"uploaded", "total", "done", "failed", "pending", "processing", "attempts", "durations"}

\* Mutant of Selects: the gauges of the queue in the order of their names.
SelectsQueueLast == <<"uploaded", "total", "done", "failed", "attempts", "durations", "processing", "pending">>

\* Mutant of Selects: the attempts before the photos they are compared with.
SelectsAttemptsFirst == <<"uploaded", "total", "attempts", "done", "failed", "pending", "processing", "durations">>

\* Mutant of Selects: the histogram, the dearest of them, first.
SelectsHistogramFirst == <<"uploaded", "durations", "total", "done", "failed", "pending", "processing", "attempts">>

\* Mutant of Selects: the counters of the process after those of the table.
SelectsProcessLast == <<"total", "done", "failed", "pending", "processing", "attempts", "durations", "uploaded">>

\* What is read, in this order: the counters of the process, then the SELECTs.
Selects == <<"uploaded", "total", "done", "failed", "pending", "processing", "attempts", "durations">>

Zero == [q \in Numbers |-> 0]

With(s) == {p \in Photos : status[p] = s}

Unfinished == With("pending") \cup With("processing")

Finished == With("done") \cup With("failed")

\* The attempts at the photos of S, those of each photo numbered.
AttemptsAt(S) == UNION {{p} \X (1..attempts[p]) : p \in S}

\* Mutant of Attempts: without the COALESCE, SUM over no rows is NULL, which -1
\* stands for.
AttemptsOrNull(S) == IF S = {} THEN -1 ELSE Cardinality(AttemptsAt(S))

\* The sum of the column attempts over the photos of S.
Attempts(S) == Cardinality(AttemptsAt(S))

\* The uploads q counts.
Having(q) == CASE q = "uploaded"  -> counted
               [] q = "total"     -> Photos \ With("none")
               [] q = "durations" -> With("done") \cap analysis
               [] OTHER           -> With(q)

\* Mutant of Count: the sum of the attempts lacks its WHERE.
CountEveryAttempt(q) == IF q = "attempts" THEN Attempts(Photos)
                        ELSE Cardinality(Having(q))

\* What q is when it is read now.
Count(q) == IF q = "attempts" THEN Attempts(Finished) ELSE Cardinality(Having(q))

Init == /\ Rows!Init
        /\ counted = {} /\ over = {}
        /\ step = 0 /\ sample = Zero /\ answer = Zero
        /\ waiting = {} /\ ended = {}

Write == Rows!Next /\ UNCHANGED <<processVars, scrapeVars>>

\* create_photo counts the upload after its message was sent.
CountUpload(p) == /\ status[p] \notin {"none", "uploading"} /\ p \notin over
                  /\ counted' = counted \cup {p} /\ over' = over \cup {p}
                  /\ UNCHANGED <<rowVars, scrapeVars>>

\* It raised before, or after the row was written by a call that raised.
UploadRaises(p) == /\ status[p] # "none" /\ p \notin over
                   /\ over' = over \cup {p}
                   /\ UNCHANGED <<rowVars, counted, scrapeVars>>

Begin == /\ step = 0
         /\ step' = 1
         /\ waiting' = Unfinished /\ ended' = Finished
         /\ UNCHANGED <<rowVars, processVars, sample, answer>>

Select == /\ step \in 1..Len(Selects)
          /\ sample' = [sample EXCEPT ![Selects[step]] = Count(Selects[step])]
          /\ step' = step + 1
          /\ UNCHANGED <<rowVars, processVars, answer, waiting, ended>>

\* The request is over, and what it has read is gone.
End == step' = 0 /\ sample' = Zero /\ waiting' = {} /\ ended' = {}

Answer == /\ step = Len(Selects) + 1
          /\ answer' = sample
          /\ End
          /\ UNCHANGED <<rowVars, processVars>>

\* Mutant of Fail: what was read so far is answered.
FailHalfAnswered == /\ step \in 1..Len(Selects)
                    /\ answer' = sample
                    /\ End
                    /\ UNCHANGED <<rowVars, processVars>>

\* A SELECT raises: the whole scrape is answered with an error.
Fail == /\ step \in 2..Len(Selects)
        /\ End
        /\ UNCHANGED <<rowVars, processVars, answer>>

\* The API process is started again: what it counted, the uploads it was at
\* and the scrape are gone.
Restart == /\ counted' = {}
           /\ over' = over \cup (Photos \ With("none"))
           /\ End
           /\ UNCHANGED <<rowVars, answer>>

Next == \/ Write \/ Begin \/ Select \/ Answer \/ Fail \/ Restart
        \/ \E p \in Photos : CountUpload(p) \/ UploadRaises(p)

Spec == Init /\ [][Next]_vars

-------------------------------------------------------------------------------
TypeOK == /\ status \in [Photos -> Rows!Statuses]
          /\ attempts \in [Photos -> Nat] /\ analysis \subseteq Photos
          /\ counted \subseteq over /\ over \subseteq Photos
          /\ step \in 0..(Len(Selects) + 1)
          /\ sample \in [Numbers -> Nat] /\ answer \in [Numbers -> Nat]
          /\ waiting \subseteq Photos /\ ended \subseteq Finished

\* SELECT q of this scrape has returned.
Asked(q) == \E i \in 1..(step - 1) : Selects[i] = q

\* docs/src/metrics.md:76-105 calls these counters and a histogram: from one
\* answer to the next they never fall, although rows are updated in place and
\* scrapes fail half way.
Rising == {"total", "done", "failed", "durations"}

CountersNeverFall == [][\A q \in Rising : answer'[q] >= answer[q]]_vars

\* analyzer_grpc_errors_total is never negative: every photo counted as done or
\* failed is in the sum of the attempts, whoever finishes in between.
AttemptsCoverFinished ==
  Asked("attempts") => sample["attempts"] >= sample["done"] + sample["failed"]

\* Nor does it count anything but the photos that were finished behind the back
\* of the scrape: it is 0 whenever no photo was.
ErrorsAreOvertakers ==
  Asked("attempts") => sample["attempts"] - (sample["done"] + sample["failed"])
                         <= Cardinality(Finished \ ended)

\* Of the two samples of photos_uploaded_total in one answer the one of the
\* process is never ahead of the one of the table, whatever is uploaded while
\* the scrape goes on.
ProcessCounterCovered == Asked("total") => sample["uploaded"] <= sample["total"]

\* The histogram of an answer holds every photo the answer counts as done.
HistogramCoversDone == Asked("durations") => sample["durations"] >= sample["done"]

\* consumer_lag misses nobody: a photo claimed in the middle of the scrape is
\* counted before the claim or after it.  (It may be counted twice.)
LagMissesNobody ==
  Asked("pending") /\ Asked("processing") =>
    sample["pending"] + sample["processing"] >= Cardinality(waiting \cap Unfinished)

\* What these rest on: the parts of an inductive invariant.

RowsInv == /\ status \in [Photos -> Rows!Statuses]
           /\ With("done") \subseteq analysis
           /\ counted \subseteq Photos \ With("none")

\* Nobody whom the scrape waits for goes back in the queue.
WaitingInv ==
  /\ waiting \subseteq Photos
  /\ \A p \in waiting : status[p] \notin {"none", "uploading"}
  /\ Asked("pending") => sample["pending"] >= Cardinality(waiting \cap With("pending"))

\* Last answer, this scrape, and the table as it is now, in this order.
RisingInv ==
  \A q \in Rising : /\ answer[q] <= Count(q)
                    /\ Asked(q) => /\ answer[q] <= sample[q]
                                   /\ sample[q] <= Count(q)

\* A photo is claimed once, before it is finished.
AttemptedOnce ==
  attempts = [p \in Photos |-> IF status[p] \in {"processing", "done", "failed"} THEN 1 ELSE 0]

\* Who was finished when the scrape began is in what it has read.
EndedInv ==
  /\ ended \subseteq Finished
  /\ \A q \in {"done", "failed"} : Asked(q) => sample[q] >= Cardinality(ended \cap With(q))

ScrapeInv == /\ step \in 0..(Len(Selects) + 1)
             /\ sample \in [Numbers -> Nat] /\ answer \in [Numbers -> Nat]
             /\ Asked("uploaded") => sample["uploaded"] <= Count("total")

IInv == /\ RowsInv /\ AttemptedOnce /\ WaitingInv /\ EndedInv /\ RisingInv /\ ScrapeInv
        /\ AttemptsCoverFinished /\ ErrorsAreOvertakers
        /\ HistogramCoversDone /\ LagMissesNobody /\ ProcessCounterCovered

\* docs/src/metrics.md:114-116: analyzer_grpc_errors_total "reflects the number
\* of superfluous attempts", those that came on top of the first of a photo.
Superfluous == Attempts(Photos) - Cardinality({p \in Photos : attempts[p] > 0})

ErrorsAreRetries == answer["attempts"] - (answer["done"] + answer["failed"]) <= Superfluous
===============================================================================
