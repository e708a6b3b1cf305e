-------------------------- MODULE MetricsScrapeProofs --------------------------
(***************************************************************************)
(* What an answer of GET /metrics guarantees for any number of photos.     *)
(* A photo is claimed once, so that the sum of the attempts is one more    *)
(* number of photos.                                                       *)
(***************************************************************************)
EXTENDS MetricsScrape, FiniteSetTheorems, TLAPS

-------------------------------------------------------------------------------
\* Counting.

LEMMA Counting ==
  ASSUME NEW T \in SUBSET Photos, NEW S \in SUBSET T
  PROVE  /\ Cardinality(S) \in Nat /\ Cardinality(T) \in Nat
         /\ Cardinality(S) <= Cardinality(T)
<1>1. IsFiniteSet(T)
  BY PhotosAssumption, FS_Subset
<1>2. QED
  BY <1>1, FS_Subset, FS_CardinalityType

LEMMA CountingUnion ==
  ASSUME NEW S \in SUBSET Photos, NEW T \in SUBSET Photos
  PROVE  Cardinality(S \cup T) <= Cardinality(S) + Cardinality(T)
<1>1. IsFiniteSet(S) /\ IsFiniteSet(T) /\ IsFiniteSet(S \cap T)
  BY PhotosAssumption, FS_Subset
<1>2. Cardinality(S \cap T) \in Nat /\ Cardinality(S) \in Nat /\ Cardinality(T) \in Nat
  BY <1>1, FS_CardinalityType
<1>3. Cardinality(S \cup T) = Cardinality(S) + Cardinality(T) - Cardinality(S \cap T)
  BY <1>1, FS_Union
<1>4. QED
  BY <1>2, <1>3

\* A set and another one apart from it.
LEMMA CountingDisjoint ==
  ASSUME NEW S \in SUBSET Photos, NEW T \in SUBSET Photos, S \cap T = {}
  PROVE  Cardinality(S \cup T) = Cardinality(S) + Cardinality(T)
<1>1. IsFiniteSet(S) /\ IsFiniteSet(T)
  BY PhotosAssumption, FS_Subset
<1>2. Cardinality(S \cap T) = 0
  BY FS_EmptySet
<1>3. Cardinality(S) \in Nat /\ Cardinality(T) \in Nat
  BY <1>1, FS_CardinalityType
<1>4. Cardinality(S \cup T) = Cardinality(S) + Cardinality(T) - Cardinality(S \cap T)
  BY <1>1, FS_Union
<1>5. QED
  BY <1>2, <1>3, <1>4

LEMMA WithIsSubset == \A s : With(s) \in SUBSET Photos
BY DEF With

LEMMA CountMeaning ==
  /\ Count("uploaded") = Cardinality(counted)
  /\ Count("total") = Cardinality(Photos \ With("none"))
  /\ Count("durations") = Cardinality(With("done") \cap analysis)
  /\ Count("done") = Cardinality(With("done"))
  /\ Count("failed") = Cardinality(With("failed"))
  /\ Count("pending") = Cardinality(With("pending"))
  /\ Count("processing") = Cardinality(With("processing"))
BY DEF Count, Having

-------------------------------------------------------------------------------
\* The sum of the attempts.

LEMMA AttemptsAtAreFinite ==
  ASSUME attempts \in [Photos -> Nat], NEW S \in SUBSET Photos
  PROVE  IsFiniteSet(AttemptsAt(S))
<1> DEFINE f == [p \in S |-> {p} \X (1..attempts[p])]
           T == {f[p] : p \in S}
<1>1. IsFiniteSet(S)
  BY PhotosAssumption, FS_Subset
<1>2. f \in Surjection(S, T)
  BY DEF Surjection
<1>3. IsFiniteSet(T)
  BY <1>1, <1>2, FS_Surjection
<1>4. \A p \in S : IsFiniteSet(f[p])
  <2> SUFFICES ASSUME NEW p \in S PROVE IsFiniteSet({p} \X (1..attempts[p]))
    OBVIOUS
  <2>1. attempts[p] \in Int
    OBVIOUS
  <2>2. IsFiniteSet(1..attempts[p])
    BY <2>1, FS_Interval
  <2>3. IsFiniteSet({p})
    BY FS_Singleton
  <2>4. QED
    BY <2>2, <2>3, FS_Product
<1>5. AttemptsAt(S) = UNION T
  BY DEF AttemptsAt
<1>6. \A A \in T : IsFiniteSet(A)
  BY <1>4
<1> HIDE DEF T
<1>7. IsFiniteSet(UNION T)
  BY <1>3, <1>6, FS_UNION
<1>8. QED
  BY <1>5, <1>7

\* Attempts is SUM(attempts): it is 0 over no row, and one more row adds its
\* attempts to it.
LEMMA AttemptsIsTheSum ==
  ASSUME attempts \in [Photos -> Nat], NEW S \in SUBSET Photos
  PROVE  /\ Attempts(S) \in Nat
         /\ Attempts({}) = 0
         /\ \A p \in Photos \ S : Attempts(S \cup {p}) = Attempts(S) + attempts[p]
<1>1. IsFiniteSet(AttemptsAt(S)) /\ Attempts(S) \in Nat
  BY AttemptsAtAreFinite, FS_CardinalityType DEF Attempts
<1>2. Attempts({}) = 0
  <2>1. AttemptsAt({}) = {}
    BY DEF AttemptsAt
  <2>2. QED
    BY <2>1, FS_EmptySet DEF Attempts
<1>3. ASSUME NEW p \in Photos \ S
      PROVE  Attempts(S \cup {p}) = Attempts(S) + attempts[p]
  <2> DEFINE A == {p} \X (1..attempts[p])
  <2>1. attempts[p] \in Nat
    OBVIOUS
  <2>2. IsFiniteSet({p}) /\ Cardinality({p}) = 1
    BY FS_Singleton
  <2>3. IsFiniteSet(1..attempts[p]) /\ Cardinality(1..attempts[p]) = attempts[p]
    BY <2>1, FS_Interval
  <2>4. IsFiniteSet(A) /\ Cardinality(A) = attempts[p]
    <3>1. IsFiniteSet(A) /\ Cardinality(A) = Cardinality({p}) * Cardinality(1..attempts[p])
      BY <2>2, <2>3, FS_Product
    <3>2. Cardinality(A) = 1 * attempts[p]
      BY <2>2, <2>3, <3>1
    <3>3. QED
      BY <2>1, <3>1, <3>2
  <2>5. AttemptsAt(S \cup {p}) = AttemptsAt(S) \cup A /\ AttemptsAt(S) \cap A = {}
    BY <1>3 DEF AttemptsAt
  <2>6. Cardinality(AttemptsAt(S) \cap A) = 0
    BY <2>5, FS_EmptySet
  <2> HIDE DEF A
  <2>7. Cardinality(AttemptsAt(S) \cup A) =
          Cardinality(AttemptsAt(S)) + Cardinality(A) - Cardinality(AttemptsAt(S) \cap A)
    BY <1>1, <2>4, FS_Union
  <2>8. Cardinality(AttemptsAt(S)) \in Nat /\ Cardinality(A) \in Nat
    BY <1>1, <2>4, FS_CardinalityType
  <2>9. Cardinality(AttemptsAt(S) \cup A) = Cardinality(AttemptsAt(S)) + attempts[p]
    BY <2>4, <2>6, <2>7, <2>8
  <2>10. QED
    BY <2>5, <2>9 DEF Attempts
<1>4. QED
  BY <1>1, <1>2, <1>3

LEMMA FinishedMeaning ==
  /\ Finished \in SUBSET Photos
  /\ With("done") \cap With("failed") = {}
  /\ Cardinality(Finished) = Cardinality(With("done")) + Cardinality(With("failed"))
  /\ Cardinality(Finished) \in Nat
<1>1. With("done") \cap With("failed") = {} /\ Finished \in SUBSET Photos
  BY DEF With, Finished
<1>2. QED
  BY <1>1, WithIsSubset, Counting, CountingDisjoint DEF Finished

LEMMA AttemptsType == ASSUME AttemptedOnce PROVE attempts \in [Photos -> Nat]
BY DEF AttemptedOnce

\* Every photo that is finished was claimed once.
LEMMA AttemptsOfFinished ==
  ASSUME AttemptedOnce
  PROVE  Count("attempts") = Cardinality(Finished) /\ Count("attempts") \in Nat
<1> DEFINE f == [p \in Finished |-> <<p, 1>>]
<1>1. \A p \in Finished : p \in Photos /\ attempts[p] = 1
  BY DEF AttemptedOnce, Finished, With
<1>2. AttemptsAt(Finished) = {<<p, 1>> : p \in Finished}
  BY <1>1 DEF AttemptsAt
<1>3. f \in Surjection(Finished, AttemptsAt(Finished))
  BY <1>2 DEF Surjection
<1>4. f \in Injection(Finished, AttemptsAt(Finished))
  BY <1>2 DEF Injection, IsInjective
<1>5. IsFiniteSet(Finished)
  BY PhotosAssumption, FinishedMeaning, FS_Subset
<1>6. Cardinality(AttemptsAt(Finished)) = Cardinality(Finished)
  BY <1>3, <1>4, <1>5, FS_Surjection
<1>7. QED
  BY <1>6, FinishedMeaning DEF Count, Attempts

LEMMA CountType ==
  ASSUME RowsInv, AttemptedOnce, NEW q \in Numbers PROVE Count(q) \in Nat
BY CountMeaning, AttemptsOfFinished, WithIsSubset, Counting DEF Numbers, RowsInv

-------------------------------------------------------------------------------

\* The order in which the numbers are read.
LEMMA AskedMeaning ==
  ASSUME step \in 0..(Len(Selects) + 1)
  PROVE  /\ Len(Selects) = 8
         /\ Asked("uploaded") <=> step > 1
         /\ Asked("total") <=> step > 2
         /\ Asked("done") <=> step > 3
         /\ Asked("failed") <=> step > 4
         /\ Asked("pending") <=> step > 5
         /\ Asked("processing") <=> step > 6
         /\ Asked("attempts") <=> step > 7
         /\ Asked("durations") <=> step > 8
BY DEF Asked, Selects

LEMMA AllAsked ==
  ASSUME ScrapeInv, step = Len(Selects) + 1 PROVE \A q \in Rising : Asked(q)
<1>1. Len(Selects) = 8
  BY DEF Selects
<1>2. step = 9 /\ step \in 0..(Len(Selects) + 1)
  BY <1>1
<1>3. Asked("total") /\ Asked("done") /\ Asked("failed") /\ Asked("durations")
  BY <1>2, AskedMeaning
<1>4. QED
  BY <1>3 DEF Rising

-------------------------------------------------------------------------------
\* The rows move forward.

Forward ==
  /\ With("none")' \subseteq With("none")
  /\ \A q \in {"done", "failed"} : With(q) \subseteq With(q)'
  /\ \A p \in Photos : status[p] \notin {"none", "uploading"} =>
       /\ status'[p] \notin {"none", "uploading"}
       /\ status'[p] = "pending" => status[p] = "pending"
       /\ status'[p] \in {"pending", "processing"} => status[p] \in {"pending", "processing"}

LEMMA WriteForward ==
  ASSUME RowsInv, AttemptedOnce, Rows!Next, UNCHANGED processVars
  PROVE  RowsInv' /\ AttemptedOnce' /\ Forward
<1>1. PICK p \in Photos : \/ Rows!Create(p) \/ Rows!Stored(p) \/ Rows!Claimed(p)
                          \/ Rows!Finished(p) \/ Rows!Failed(p)
  BY DEF Rows!Next
<1>2. /\ \/ status[p] = "none" /\ status' = [status EXCEPT ![p] = "uploading"]
         \/ status[p] = "uploading" /\ status' = [status EXCEPT ![p] = "pending"]
         \/ status[p] = "pending" /\ status' = [status EXCEPT ![p] = "processing"]
         \/ /\ status[p] = "processing"
            /\ status' = [status EXCEPT ![p] = "done"] /\ p \in analysis'
         \/ status[p] = "processing" /\ status' = [status EXCEPT ![p] = "failed"]
      /\ analysis \subseteq analysis'
  BY <1>1 DEF Rows!Create, Rows!Stored, Rows!Claimed, Rows!Finished, Rows!Failed, Rows!Move
<1>3. counted' = counted
  BY DEF processVars
<1>4. Forward
  BY <1>2 DEF Forward, RowsInv, With, Rows!Statuses
<1>5. status' \in [Photos -> Rows!Statuses]
  BY <1>2 DEF RowsInv, Rows!Statuses
<1>6. With("done")' \subseteq analysis'
  BY <1>2 DEF RowsInv, With
<1>7. counted' \subseteq Photos \ With("none")'
  BY <1>3, <1>4 DEF RowsInv, Forward
<1>8. \/ /\ status[p] \in {"none", "uploading"} /\ status'[p] \in {"uploading", "pending"}
         /\ attempts' = attempts
      \/ /\ status[p] = "pending" /\ status'[p] = "processing"
         /\ attempts' = [attempts EXCEPT ![p] = @ + 1]
      \/ /\ status[p] = "processing" /\ status'[p] \in {"done", "failed"}
         /\ attempts' = attempts
  BY <1>1 DEF Rows!Create, Rows!Stored, Rows!Claimed, Rows!Finished, Rows!Failed, Rows!Move, RowsInv
<1>9. \A q \in Photos \ {p} : status'[q] = status[q]
  BY <1>2 DEF RowsInv
<1>10. AttemptedOnce'
  BY <1>8, <1>9 DEF AttemptedOnce
<1>11. QED
  BY <1>4, <1>5, <1>6, <1>7, <1>10 DEF RowsInv

\* What the table counts only grows.
LEMMA RisingCounts ==
  ASSUME RowsInv, RowsInv', Forward, NEW q \in Rising
  PROVE  Count(q) \in Nat /\ Count(q)' \in Nat /\ Count(q) <= Count(q)'
<1>1. With("done") \cap analysis = With("done") /\ (With("done") \cap analysis)' = With("done")'
  BY DEF RowsInv
<1>2. /\ Photos \ With("none") \subseteq Photos \ With("none")'
      /\ With("done") \subseteq With("done")' /\ With("failed") \subseteq With("failed")'
  BY DEF Forward
<1>3. With("done")' \subseteq Photos /\ With("failed")' \subseteq Photos
  BY DEF With
<1>4. /\ Count("total")' = Cardinality(Photos \ With("none")')
      /\ Count("durations")' = Cardinality((With("done") \cap analysis)')
      /\ Count("done")' = Cardinality(With("done")')
      /\ Count("failed")' = Cardinality(With("failed")')
  BY DEF Count, Having
<1>5. CASE q = "total"
  BY <1>2, <1>4, <1>5, CountMeaning, Counting
<1>6. CASE q = "done" \/ q = "durations"
  BY <1>1, <1>2, <1>3, <1>4, <1>6, CountMeaning, Counting
<1>7. CASE q = "failed"
  BY <1>2, <1>3, <1>4, <1>7, CountMeaning, Counting
<1>8. QED
  BY <1>5, <1>6, <1>7 DEF Rising

LEMMA SameRows ==
  ASSUME RowsInv, AttemptedOnce, UNCHANGED rowVars, counted' \subseteq Photos \ With("none")
  PROVE  RowsInv' /\ AttemptedOnce' /\ Forward
BY DEF RowsInv, AttemptedOnce, rowVars, With, Forward

\* Whoever was finished when the scrape began still is, in the same way.
LEMMA EndedStays ==
  ASSUME ended \subseteq Finished, Forward
  PROVE  /\ ended \subseteq Finished' /\ Finished \subseteq Finished'
         /\ \A q \in {"done", "failed"} : ended \cap With(q)' = ended \cap With(q)
<1>1. Finished \subseteq Finished'
  BY DEF Forward, Finished
<1>2. With("done")' \cap With("failed")' = {}
  BY DEF With
<1>3. QED
  BY <1>1, <1>2 DEF Forward, Finished

\* Rows or counters move, and the scrape does not.
LEMMA RowStep ==
  ASSUME IInv, RowsInv', AttemptedOnce', Forward, UNCHANGED scrapeVars
  PROVE  IInv'
<1> USE DEF scrapeVars
<1>1. RowsInv /\ AttemptedOnce /\ WaitingInv /\ EndedInv /\ RisingInv /\ ScrapeInv
      /\ AttemptsCoverFinished /\ ErrorsAreOvertakers
      /\ HistogramCoversDone /\ LagMissesNobody /\ ProcessCounterCovered
  BY DEF IInv
<1>2. \A q : Asked(q)' <=> Asked(q)
  BY DEF Asked
<1>3. RisingInv'
  <2>1. ASSUME NEW q \in Rising
        PROVE  /\ answer'[q] <= Count(q)'
               /\ Asked(q) => answer'[q] <= sample'[q] /\ sample'[q] <= Count(q)'
    <3>1. Count(q) \in Nat /\ Count(q)' \in Nat /\ Count(q) <= Count(q)'
      BY <1>1, RisingCounts
    <3>2. sample[q] \in Nat /\ answer[q] \in Nat
      BY <1>1 DEF ScrapeInv, Numbers, Rising
    <3>3. QED
      BY <1>1, <3>1, <3>2 DEF RisingInv
  <2>2. QED
    BY <1>2, <2>1 DEF RisingInv
<1>4. ScrapeInv'
  <2>1. Count("total") \in Nat /\ Count("total")' \in Nat /\ Count("total") <= Count("total")'
    BY <1>1, RisingCounts DEF Rising
  <2>2. sample["uploaded"] \in Nat
    BY <1>1 DEF ScrapeInv, Numbers
  <2>3. QED
    BY <1>1, <1>2, <2>1, <2>2 DEF ScrapeInv
<1>5. /\ waiting \subseteq Photos
      /\ (waiting \cap With("pending"))' \subseteq waiting \cap With("pending")
      /\ (waiting \cap Unfinished)' \subseteq waiting \cap Unfinished
      /\ \A p \in waiting : status'[p] \notin {"none", "uploading"}
  BY <1>1 DEF WaitingInv, Forward, With, Unfinished
<1>6. /\ Cardinality((waiting \cap With("pending"))') <= Cardinality(waiting \cap With("pending"))
      /\ Cardinality((waiting \cap Unfinished)') <= Cardinality(waiting \cap Unfinished)
      /\ Cardinality(waiting \cap With("pending")) \in Nat
      /\ Cardinality(waiting \cap Unfinished) \in Nat
      /\ Cardinality((waiting \cap With("pending"))') \in Nat
      /\ Cardinality((waiting \cap Unfinished)') \in Nat
  <2>1. waiting \cap With("pending") \in SUBSET Photos /\ waiting \cap Unfinished \in SUBSET Photos
    BY <1>5
  <2>2. QED
    BY <1>5, <2>1, Counting
<1>7. sample["pending"] \in Nat /\ sample["processing"] \in Nat
  BY <1>1 DEF ScrapeInv, Numbers
<1>8. WaitingInv'
  BY <1>1, <1>2, <1>5, <1>6, <1>7 DEF WaitingInv
<1>9. LagMissesNobody'
  BY <1>1, <1>2, <1>6, <1>7 DEF LagMissesNobody
<1>10. HistogramCoversDone' /\ ProcessCounterCovered' /\ AttemptsCoverFinished'
  BY <1>1, <1>2 DEF HistogramCoversDone, ProcessCounterCovered, AttemptsCoverFinished
<1>11. EndedInv'
  BY <1>1, <1>2, EndedStays DEF EndedInv
<1>12. ErrorsAreOvertakers'
  <2>1. /\ Finished \ ended \in SUBSET (Finished' \ ended)
        /\ Finished' \ ended \in SUBSET Photos
    BY <1>1, EndedStays DEF EndedInv, Finished, With
  <2>2. /\ Cardinality(Finished \ ended) <= Cardinality(Finished' \ ended)
        /\ Cardinality(Finished \ ended) \in Nat /\ Cardinality(Finished' \ ended) \in Nat
    BY <2>1, Counting
  <2>3. sample["attempts"] \in Nat /\ sample["done"] \in Nat /\ sample["failed"] \in Nat
    BY <1>1 DEF ScrapeInv, Numbers
  <2>4. QED
    BY <1>1, <1>2, <2>2, <2>3 DEF ErrorsAreOvertakers
<1>13. QED
  BY <1>3, <1>4, <1>8, <1>9, <1>10, <1>11, <1>12 DEF IInv

\* A scrape that has read nothing has promised nothing.
LEMMA IdleScrape ==
  ASSUME RowsInv', AttemptedOnce', step' \in {0, 1},
         waiting' \subseteq Unfinished', ended' \subseteq Finished',
         sample' \in [Numbers -> Nat], answer' \in [Numbers -> Nat],
         \A q \in Rising : answer'[q] <= Count(q)'
  PROVE  IInv'
<1>1. step' \in 0..(Len(Selects) + 1) /\ \A q : ~Asked(q)'
  <2>1. Len(Selects) = 8
    BY DEF Selects
  <2>2. \A i : i \notin 1..(step' - 1)
    OBVIOUS
  <2>3. \A q : ~Asked(q)'
    BY <2>2 DEF Asked
  <2>4. step' \in 0..(Len(Selects) + 1)
    BY <2>1
  <2>5. QED
    BY <2>3, <2>4
<1>2. waiting' \subseteq Photos /\ \A p \in waiting' : status'[p] \notin {"none", "uploading"}
  BY DEF Unfinished, With
<1>3. ScrapeInv'
  BY <1>1 DEF ScrapeInv
<1>4. WaitingInv' /\ EndedInv' /\ RisingInv'
  BY <1>1, <1>2 DEF WaitingInv, EndedInv, RisingInv
<1>5. HistogramCoversDone' /\ LagMissesNobody' /\ ProcessCounterCovered'
      /\ AttemptsCoverFinished' /\ ErrorsAreOvertakers'
  BY <1>1 DEF HistogramCoversDone, LagMissesNobody, ProcessCounterCovered,
              AttemptsCoverFinished, ErrorsAreOvertakers
<1>6. QED
  BY <1>3, <1>4, <1>5 DEF IInv

LEMMA InitInvariant == Init => IInv
<1> SUFFICES ASSUME Init PROVE IInv
  OBVIOUS
<1>1. /\ status = [p \in Photos |-> "none"] /\ attempts = [p \in Photos |-> 0]
      /\ analysis = {} /\ counted = {}
      /\ step = 0 /\ sample = Zero /\ answer = Zero /\ waiting = {} /\ ended = {}
  BY DEF Init, Rows!Init
<1>2. RowsInv /\ AttemptedOnce
  BY <1>1 DEF RowsInv, AttemptedOnce, With, Rows!Statuses
<1>3. step \in 0..(Len(Selects) + 1) /\ \A q : ~Asked(q)
  BY <1>1 DEF Asked, Selects
<1>4. ScrapeInv
  BY <1>1, <1>3 DEF ScrapeInv, Zero
<1>5. \A q \in Rising : answer[q] = 0 /\ Count(q) \in Nat
  BY <1>1, <1>2, CountType DEF Zero, Rising, Numbers
<1>6. RisingInv
  BY <1>3, <1>5 DEF RisingInv
<1>7. WaitingInv /\ EndedInv
  BY <1>1, <1>3 DEF WaitingInv, EndedInv
<1>8. QED
  BY <1>2, <1>3, <1>4, <1>6, <1>7
     DEF IInv, HistogramCoversDone, LagMissesNobody, ProcessCounterCovered,
         AttemptsCoverFinished, ErrorsAreOvertakers

LEMMA BeginStep == ASSUME IInv, Begin PROVE IInv'
<1>1. /\ step' = 1 /\ waiting' = Unfinished /\ ended' = Finished
      /\ UNCHANGED <<rowVars, processVars, sample, answer>>
      /\ RowsInv /\ AttemptedOnce /\ RisingInv /\ ScrapeInv
  BY DEF Begin, IInv
<1>2. RowsInv' /\ AttemptedOnce' /\ Unfinished' = Unfinished /\ Finished' = Finished
  BY <1>1 DEF RowsInv, AttemptedOnce, Unfinished, Finished, With, rowVars, processVars
<1>3. \A q \in Rising : Count(q)' = Count(q)
  BY <1>1 DEF Count, Having, With, Rising, rowVars, processVars
<1>4. QED
  BY <1>1, <1>2, <1>3, IdleScrape DEF RisingInv, ScrapeInv

\* The scrape ends, with an answer that is at least the last one.
LEMMA EndStep ==
  ASSUME IInv, End, RowsInv', AttemptedOnce', UNCHANGED rowVars,
         answer' = answer \/ (answer' = sample /\ \A q \in Rising : Asked(q))
  PROVE  IInv'
<1>1. RowsInv /\ RisingInv /\ ScrapeInv
  BY DEF IInv
<1>2. step' = 0 /\ sample' = Zero /\ waiting' = {} /\ ended' = {}
  BY DEF End
<1>3. \A q \in Rising : Count(q)' = Count(q)
  BY DEF Rising, Count, Having, With, rowVars
<1>4. \A q \in Rising : answer'[q] <= Count(q)'
  BY <1>1, <1>3 DEF RisingInv
<1>5. answer' \in [Numbers -> Nat] /\ sample' \in [Numbers -> Nat]
  BY <1>1, <1>2 DEF ScrapeInv, Zero
<1>6. QED
  BY <1>2, <1>4, <1>5, IdleScrape

\* A SELECT adds its number to those that were read, once.
LEMMA SelectReads ==
  ASSUME step \in 1..Len(Selects), step' = step + 1
  PROVE  /\ Selects[step] \in Numbers
         /\ \A q \in Numbers : Asked(q)' <=> Asked(q) \/ q = Selects[step]
         /\ \A q \in Numbers : Asked(q) => q # Selects[step]
<1>1. step \in 1..8 /\ Len(Selects) = 8
  BY DEF Selects
<1>2. Selects[step] \in Numbers
  BY <1>1 DEF Selects, Numbers
<1>3. \A i, j \in 1..8 : i # j => Selects[i] # Selects[j]
  BY DEF Selects
<1>4. \A q : Asked(q)' <=> Asked(q) \/ q = Selects[step]
  BY <1>1 DEF Asked
<1>5. \A q : Asked(q) => q # Selects[step]
  BY <1>1, <1>3 DEF Asked
<1>6. QED
  BY <1>2, <1>4, <1>5

LEMMA SelectStep == ASSUME IInv, Select PROVE IInv'
<1>1. RowsInv /\ AttemptedOnce /\ WaitingInv /\ EndedInv /\ RisingInv /\ ScrapeInv
      /\ AttemptsCoverFinished /\ ErrorsAreOvertakers
      /\ HistogramCoversDone /\ LagMissesNobody /\ ProcessCounterCovered
  BY DEF IInv
<1> DEFINE r == Selects[step]
<1>2. /\ step \in 1..Len(Selects) /\ step' = step + 1
      /\ sample' = [sample EXCEPT ![r] = Count(r)]
      /\ UNCHANGED <<rowVars, processVars, answer, waiting, ended>>
  BY DEF Select
<1>3. /\ r \in Numbers
      /\ \A q \in Numbers : Asked(q)' <=> Asked(q) \/ q = r
      /\ \A q \in Numbers : Asked(q) => q # r
  BY <1>2, SelectReads
<1>4. \A q \in Numbers : sample'[q] = IF q = r THEN Count(q) ELSE sample[q]
  BY <1>1, <1>2, <1>3 DEF ScrapeInv
<1>5. \A q \in Numbers :
        Count(q) \in Nat /\ Count(q)' = Count(q) /\ sample[q] \in Nat /\ sample'[q] \in Nat
  <2>1. \A q \in Numbers : Count(q)' = Count(q)
    BY <1>2 DEF Count, Having, Attempts, AttemptsAt, Finished, With, rowVars, processVars
  <2>2. QED
    BY <1>1, <1>4, <2>1, CountType DEF ScrapeInv
<1> HIDE DEF r
<1>6. /\ RowsInv' /\ AttemptedOnce' /\ Unfinished' = Unfinished /\ Finished' = Finished
      /\ \A s : With(s)' = With(s)
  BY <1>1, <1>2 DEF RowsInv, AttemptedOnce, Unfinished, Finished, With, rowVars, processVars
<1>7. RisingInv'
  <2> SUFFICES ASSUME NEW q \in Rising
               PROVE  /\ answer'[q] <= Count(q)'
                      /\ Asked(q)' => /\ answer'[q] <= sample'[q]
                                      /\ sample'[q] <= Count(q)'
    BY DEF RisingInv
  <2>1. q \in Numbers
    BY DEF Rising, Numbers
  <2>2. /\ answer[q] <= Count(q)
        /\ Asked(q) => (answer[q] <= sample[q] /\ sample[q] <= Count(q))
    BY <1>1 DEF RisingInv
  <2>3. Count(q) \in Nat /\ Count(q)' = Count(q) /\ answer'[q] = answer[q]
    BY <1>2, <1>5, <2>1
  <2>4. sample'[q] = IF q = r THEN Count(q) ELSE sample[q]
    BY <1>4, <2>1
  <2>5. Asked(q)' <=> Asked(q) \/ q = r
    BY <1>3, <2>1
  <2>6. QED
    BY <2>2, <2>3, <2>4, <2>5
<1>8. ScrapeInv'
  <2>1. step' \in 0..(Len(Selects) + 1) /\ answer' \in [Numbers -> Nat]
    BY <1>1, <1>2 DEF ScrapeInv, Selects
  <2>2. Count("uploaded") <= Count("total")
    BY <1>1, Counting, CountMeaning DEF RowsInv
  <2>3. Asked("uploaded")' => sample'["uploaded"] <= Count("total")'
    BY <1>1, <1>3, <1>4, <1>5, <2>2 DEF ScrapeInv, Numbers
  <2>4. sample' \in [Numbers -> Nat]
    BY <1>1, <1>2, <1>3, <1>5 DEF ScrapeInv
  <2>5. QED
    BY <2>1, <2>3, <2>4 DEF ScrapeInv
<1>9. waiting' = waiting /\ waiting \subseteq Photos
      /\ \A p \in waiting : status'[p] \notin {"none", "uploading"}
  BY <1>1, <1>2 DEF WaitingInv, rowVars
<1>10. \A s : /\ Cardinality(waiting \cap With(s)) \in Nat
              /\ Cardinality(waiting \cap With(s)) <= Cardinality(With(s))
  BY WithIsSubset, Counting
<1>11. /\ Count("pending") = Cardinality(With("pending"))
       /\ Count("processing") = Cardinality(With("processing"))
  BY CountMeaning
<1>12. Asked("pending")' => sample'["pending"] >= Cardinality(waiting \cap With("pending"))
  BY <1>1, <1>3, <1>4, <1>5, <1>10, <1>11 DEF WaitingInv, Numbers
<1>13. WaitingInv'
  BY <1>6, <1>9, <1>12 DEF WaitingInv
<1>14. LagMissesNobody'
  <2>1. SUFFICES ASSUME Asked("pending")', Asked("processing")'
                 PROVE  sample'["pending"] + sample'["processing"]
                          >= Cardinality(waiting \cap Unfinished)
    BY <1>6, <1>9 DEF LagMissesNobody
  <2>2. "pending" \in Numbers /\ "processing" \in Numbers
    BY DEF Numbers
  <2>3. CASE r = "processing"
    <3>1. sample'["processing"] >= Cardinality(waiting \cap With("processing"))
      BY <1>4, <1>5, <1>10, <1>11, <2>2, <2>3
    <3>2. waiting \cap Unfinished =
            (waiting \cap With("pending")) \cup (waiting \cap With("processing"))
      BY DEF Unfinished
    <3>3. Cardinality(waiting \cap Unfinished) <=
            Cardinality(waiting \cap With("pending")) + Cardinality(waiting \cap With("processing"))
      <4>1. waiting \cap With("pending") \in SUBSET Photos
            /\ waiting \cap With("processing") \in SUBSET Photos
        BY <1>9
      <4>2. QED
        BY <3>2, <4>1, CountingUnion
    <3>4. Cardinality(waiting \cap Unfinished) \in Nat
      BY <1>9, Counting
    <3>5. QED
      BY <1>5, <1>10, <1>12, <2>1, <2>2, <3>1, <3>3, <3>4
  <2>4. CASE r # "processing"
    <3>1. Asked("processing")
      BY <1>3, <2>1, <2>2, <2>4
    <3>2. step > 6 /\ Asked("pending")
      BY <1>1, <3>1, AskedMeaning DEF ScrapeInv
    <3>3. r # "pending"
      BY <1>3, <2>2, <3>2
    <3>4. QED
      BY <1>1, <1>4, <2>2, <2>4, <3>1, <3>2, <3>3 DEF LagMissesNobody
  <2>5. QED
    BY <2>3, <2>4
<1>15. HistogramCoversDone'
  <2>1. Asked("durations")' => r = "durations"
    <3>1. step \in 1..8 /\ step \in 0..(Len(Selects) + 1)
      BY <1>2 DEF Selects
    <3>2. ~Asked("durations") /\ "durations" \in Numbers
      BY <3>1, AskedMeaning DEF Numbers
    <3>3. QED
      BY <1>3, <3>2
  <2>2. r = "durations" => Asked("done")
    <3>1. step \in 1..8
      BY <1>2 DEF Selects
    <3>2. r = "durations" => step = 8
      BY <3>1 DEF r, Selects
    <3>3. QED
      BY <1>1, <3>1, <3>2, AskedMeaning DEF ScrapeInv
  <2>3. Count("durations") = Count("done")
    <3>1. With("done") \cap analysis = With("done")
      BY <1>1 DEF RowsInv
    <3>2. QED
      BY <3>1, CountMeaning
  <2>4. QED
    BY <1>1, <1>3, <1>4, <1>5, <2>1, <2>2, <2>3
       DEF HistogramCoversDone, RisingInv, Rising, Numbers
<1>16. ProcessCounterCovered'
  <2>1. CASE r = "total"
    <3>1. Asked("uploaded")
      <4>1. step \in 1..8
        BY <1>2 DEF Selects
      <4>2. step = 2
        BY <2>1, <4>1 DEF r, Selects
      <4>3. QED
        BY <1>1, <4>2, AskedMeaning DEF ScrapeInv
    <3>2. QED
      BY <1>1, <1>4, <2>1, <3>1 DEF ProcessCounterCovered, ScrapeInv, Numbers
  <2>2. CASE r # "total"
    <3>1. Asked("total")' => Asked("total") /\ Asked("uploaded")
      BY <1>1, <1>3, <2>2, AskedMeaning DEF ScrapeInv, Numbers
    <3>2. QED
      BY <1>1, <1>3, <1>4, <2>2, <3>1 DEF ProcessCounterCovered, Numbers
  <2>3. QED
    BY <2>1, <2>2
<1>17. EndedInv'
  <2>1. \A s : /\ Cardinality(ended \cap With(s)) \in Nat
               /\ Cardinality(ended \cap With(s)) <= Cardinality(With(s))
    BY WithIsSubset, Counting
  <2>2. /\ Count("done") = Cardinality(With("done"))
        /\ Count("failed") = Cardinality(With("failed"))
    BY CountMeaning
  <2>3. ASSUME NEW q \in {"done", "failed"}, Asked(q)'
        PROVE  sample'[q] >= Cardinality(ended \cap With(q))
    BY <1>1, <1>3, <1>4, <1>5, <2>1, <2>2, <2>3 DEF EndedInv, Numbers
  <2>4. QED
    BY <1>1, <1>2, <1>6, <2>3 DEF EndedInv
<1>18. AttemptsCoverFinished' /\ ErrorsAreOvertakers'
  <2>1. "attempts" \in Numbers /\ "done" \in Numbers /\ "failed" \in Numbers
    BY DEF Numbers
  <2>2. CASE r = "attempts"
    <3>1. Asked("done") /\ Asked("failed")
      <4>1. step \in 1..8
        BY <1>2 DEF Selects
      <4>2. step = 7
        BY <2>2, <4>1 DEF r, Selects
      <4>3. QED
        BY <1>1, <4>2, AskedMeaning DEF ScrapeInv
    <3>2. sample'["done"] = sample["done"] /\ sample'["failed"] = sample["failed"]
      BY <1>4, <2>1, <2>2
    <3>3. sample'["attempts"] = Cardinality(Finished)
      BY <1>1, <1>4, <2>1, <2>2, AttemptsOfFinished
    <3>4. sample["done"] + sample["failed"] <= Cardinality(Finished)
      <4>1. sample["done"] <= Count("done") /\ sample["failed"] <= Count("failed")
        BY <1>1, <3>1 DEF RisingInv, Rising
      <4>2. Count("done") + Count("failed") = Cardinality(Finished)
        BY FinishedMeaning, CountMeaning
      <4>3. QED
        BY <1>5, <2>1, <4>1, <4>2
    <3>5. sample["done"] + sample["failed"] >= Cardinality(ended)
      <4>1. /\ ended \cap With("done") \in SUBSET Photos
            /\ ended \cap With("failed") \in SUBSET Photos
            /\ ended = (ended \cap With("done")) \cup (ended \cap With("failed"))
        BY <1>1 DEF EndedInv, Finished, With
      <4>2. Cardinality(ended) <=
              Cardinality(ended \cap With("done")) + Cardinality(ended \cap With("failed"))
        BY <4>1, CountingUnion
      <4>3. /\ sample["done"] >= Cardinality(ended \cap With("done"))
            /\ sample["failed"] >= Cardinality(ended \cap With("failed"))
        BY <1>1, <3>1 DEF EndedInv
      <4>4. /\ Cardinality(ended \cap With("done")) \in Nat
            /\ Cardinality(ended \cap With("failed")) \in Nat
            /\ Cardinality(ended) \in Nat
        BY <1>1, <4>1, FinishedMeaning, Counting DEF EndedInv
      <4>5. QED
        BY <1>5, <2>1, <4>2, <4>3, <4>4
    <3>6. Cardinality(Finished) = Cardinality(ended) + Cardinality(Finished \ ended)
      <4>1. /\ ended \in SUBSET Photos /\ Finished \ ended \in SUBSET Photos
            /\ ended \cap (Finished \ ended) = {}
            /\ Finished = ended \cup (Finished \ ended)
        BY <1>1, FinishedMeaning DEF EndedInv
      <4>2. QED
        BY <4>1, CountingDisjoint
    <3>7. Cardinality(ended) \in Nat /\ Cardinality(Finished \ ended) \in Nat
      BY <1>1, FinishedMeaning, Counting DEF EndedInv
    <3>8. QED
      BY <1>2, <1>5, <1>6, <2>1, <3>2, <3>3, <3>4, <3>5, <3>6, <3>7
         DEF AttemptsCoverFinished, ErrorsAreOvertakers
  <2>3. CASE r # "attempts"
    <3>1. Asked("attempts")' => Asked("attempts") /\ Asked("done") /\ Asked("failed")
      BY <1>1, <1>3, <2>1, <2>3, AskedMeaning DEF ScrapeInv
    <3>2. Asked("attempts")' => \A q \in {"attempts", "done", "failed"} : sample'[q] = sample[q]
      BY <1>3, <1>4, <2>1, <3>1
    <3>3. QED
      BY <1>1, <1>2, <1>6, <3>1, <3>2 DEF AttemptsCoverFinished, ErrorsAreOvertakers
  <2>4. QED
    BY <2>2, <2>3
<1>19. QED
  BY <1>6, <1>7, <1>8, <1>13, <1>14, <1>15, <1>16, <1>17, <1>18 DEF IInv

LEMMA NextInvariant == IInv /\ [Next]_vars => IInv'
<1> SUFFICES ASSUME IInv, [Next]_vars PROVE IInv'
  OBVIOUS
<1>1. RowsInv /\ AttemptedOnce /\ ScrapeInv
  BY DEF IInv
<1>2. CASE Write
  BY <1>1, <1>2, WriteForward, RowStep DEF Write
<1>3. CASE UNCHANGED vars \/ \E p \in Photos : CountUpload(p) \/ UploadRaises(p)
  <2>1. /\ UNCHANGED scrapeVars /\ UNCHANGED rowVars
        /\ counted' \subseteq Photos \ With("none")
    BY <1>1, <1>3 DEF vars, processVars, CountUpload, UploadRaises, RowsInv, With
  <2>2. QED
    BY <1>1, <2>1, SameRows, RowStep
<1>4. CASE Answer
  <2>1. \A q \in Rising : Asked(q)
    BY <1>1, <1>4, AllAsked DEF Answer
  <2>2. QED
    BY <1>1, <1>4, <2>1, SameRows, EndStep DEF Answer, processVars, RowsInv
<1>5. CASE Fail \/ Restart
  BY <1>1, <1>5, SameRows, EndStep DEF Fail, Restart, processVars, RowsInv
<1>6. QED
  BY <1>2, <1>3, <1>4, <1>5, BeginStep, SelectStep DEF Next

THEOREM Invariance == Spec => []IInv
BY InitInvariant, NextInvariant, PTL DEF Spec

-------------------------------------------------------------------------------
\* What the invariant says of an answer.

\* Every variable keeps its type: no number of an answer is negative or missing.
THEOREM TypeCorrect == Spec => []TypeOK
<1> DEFINE Sets == analysis \subseteq Photos /\ counted \subseteq over /\ over \subseteq Photos
<1>1. Init => Sets
  BY DEF Init, Rows!Init
<1>2. Sets /\ [Next]_vars => Sets'
  <2> SUFFICES ASSUME Sets, [Next]_vars PROVE Sets'
    OBVIOUS
  <2>1. CASE Write
    <3>1. analysis' \subseteq Photos
      BY <2>1 DEF Write, Rows!Next, Rows!Create, Rows!Stored, Rows!Claimed, Rows!Finished, Rows!Failed
    <3>2. QED
      BY <2>1, <3>1 DEF Write, processVars
  <2>2. CASE \E p \in Photos : CountUpload(p) \/ UploadRaises(p)
    BY <2>2 DEF CountUpload, UploadRaises, rowVars
  <2>3. CASE UNCHANGED vars \/ Begin \/ Select \/ Answer \/ Fail \/ Restart
    BY <2>3 DEF vars, Begin, Select, Answer, Fail, Restart, rowVars, processVars
  <2>4. QED
    BY <2>1, <2>2, <2>3 DEF Next
<1>3. Sets /\ IInv => TypeOK
  BY AttemptsType DEF IInv, RowsInv, WaitingInv, EndedInv, ScrapeInv, TypeOK
<1>4. QED
  BY <1>1, <1>2, <1>3, Invariance, PTL DEF Spec

\* analyzer_grpc_errors_total is never negative: every photo counted as done or
\* failed is in the sum of the attempts that is read after it.
THEOREM ErrorsAreNotNegative == Spec => []AttemptsCoverFinished
<1>1. IInv => AttemptsCoverFinished
  BY DEF IInv
<1>2. QED
  BY <1>1, Invariance, PTL

\* It counts nothing but the photos that were finished while the scrape was
\* under way.
THEOREM ErrorsComeFromTheRace == Spec => []ErrorsAreOvertakers
<1>1. IInv => ErrorsAreOvertakers
  BY DEF IInv
<1>2. QED
  BY <1>1, Invariance, PTL

\* No photo that had the worker ahead of it when the scrape began, and still
\* has, is missing from consumer_lag.
THEOREM LagIsComplete == Spec => []LagMissesNobody
<1>1. IInv => LagMissesNobody
  BY DEF IInv
<1>2. QED
  BY <1>1, Invariance, PTL

\* The histogram of an answer counts every photo the answer counts as done.
THEOREM HistogramIsComplete == Spec => []HistogramCoversDone
<1>1. IInv => HistogramCoversDone
  BY DEF IInv
<1>2. QED
  BY <1>1, Invariance, PTL

\* Of the two samples of photos_uploaded_total the one of the process is never
\* the larger.
THEOREM ProcessCounterIsCovered == Spec => []ProcessCounterCovered
<1>1. IInv => ProcessCounterCovered
  BY DEF IInv
<1>2. QED
  BY <1>1, Invariance, PTL

\* From one answer to the next no counter falls.
THEOREM CountersRise == Spec => CountersNeverFall
<1>1. IInv /\ [Next]_vars => \A q \in Rising : answer'[q] >= answer[q]
  <2> SUFFICES ASSUME IInv, [Next]_vars, NEW q \in Rising PROVE answer'[q] >= answer[q]
    OBVIOUS
  <2>1. RisingInv /\ ScrapeInv /\ answer[q] \in Nat
    BY DEF IInv, ScrapeInv, Rising, Numbers
  <2>2. CASE Answer
    <3>1. Asked(q)
      BY <2>1, <2>2, AllAsked DEF Answer
    <3>2. sample[q] \in Nat
      BY <2>1 DEF ScrapeInv, Rising, Numbers
    <3>3. QED
      BY <2>1, <2>2, <3>1, <3>2 DEF Answer, RisingInv
  <2>3. CASE ~Answer
    <3>1. answer' = answer
      BY <2>3 DEF Next, vars, scrapeVars, Write, Begin, Select, Fail, Restart, CountUpload, UploadRaises
    <3>2. QED
      BY <2>1, <3>1
  <2>4. QED
    BY <2>2, <2>3
<1>2. QED
  BY <1>1, Invariance, PTL DEF Spec, CountersNeverFall
===============================================================================
