----------------------------- MODULE PhotoGroups ------------------------------
(***************************************************************************)
(* The identity and duplicate groups: what process_message does after a    *)
(* photo is done (worker/processor.py:130-138), _check_photo_identity,     *)
(* _check_photo_duplicates and the queries under them.  Each query is a    *)
(* transaction of its own, so that two workers, errors of the database and *)
(* crashes come between finding a match, creating a group and assigning    *)
(* the two photos.                                                         *)
(*                                                                         *)
(* An image stands for its bytes and for its SHA-256: equal bytes, equal   *)
(* images.  A perceptual hash is the set of its bits that are 1.  NULL, as *)
(* the owner of an anonymous photo, is one more owner: the queries compare *)
(* owners with = or with IS NULL.                                          *)
(*                                                                         *)
(* pc[w] is the query worker w makes next in the check kind[w]:            *)
(*   "idle"   busy with the part of a photo PhotoWorker is about           *)
(*   "find"   find_matching_identity_photo, find_matching_duplicate_photo  *)
(*   "create" create_group: the match other[w] was in no group             *)
(*   "other"  assign_..._group of other[w] to the new group                *)
(*   "self"   assign_..._group of photo[w]                                 *)
(***************************************************************************)
EXTENDS Integers, SequencesExt

CONSTANTS
  Photos,      \* one element per upload
  Workers,     \* the worker processes
  Owners,      \* values of owner_data_token, NULL among them
  Images,      \* the different files that may be uploaded
  Bits,        \* positions of a perceptual hash, 64 in the code
  Hash,        \* photo_analysis.perceptual_hash of each image
  Hashable,    \* the images hasher.perceptual has a hash for
  Parsable,    \* the images whose stored hash is a hexadecimal number
  Threshold,   \* 20 in the code (processor.py:60)
  NoPhoto,
  NotSaved,    \* no row in photo_analysis
  Faults       \* the faults the environment may inject

\* The stored hash is "phash or analysis.perceptual_hash": for an image that is
\* not hashable it is the analyzer's, which may be an empty string.
ASSUME GroupsAssumption ==
  /\ Hash \in [Images -> SUBSET Bits] /\ IsFiniteSet(Bits)
  /\ Hashable \subseteq Parsable /\ Parsable \subseteq Images
  /\ Threshold \in Nat
  /\ NoPhoto \notin Photos
  /\ NotSaved \notin [owner : Owners, image : Images]
  /\ Faults \subseteq {"db", "crash"}

VARIABLES
  saved,     \* owner and image of the photos that have a row in photo_analysis
  group,     \* identity_photo_group_id and duplicate_group_id, 0 for NULL
  groups,    \* the table groups: kind, owner, image of the hash; ids from 1
  pc, kind,  \* the next query of each worker, and the check it belongs to
  photo,     \* the photo the worker has just saved
  other,     \* the match it found
  target,    \* the group it is about to assign
  leftOut    \* history: the photos in no group of a kind whose check of it was
             \* ended by an exception, which process_message logs, or a crash

rowVars == <<saved, group, groups>>
jobVars == <<pc, kind, photo, other, target>>
vars == <<rowVars, jobVars, leftOut>>

Kinds == {"identity", "duplicate"}

Init == /\ saved = [p \in Photos |-> NotSaved]
        /\ group = [k \in Kinds |-> [p \in Photos |-> 0]]
        /\ groups = <<>>
        /\ pc = [w \in Workers |-> "idle"]
        /\ kind = [w \in Workers |-> "identity"]
        /\ photo = [w \in Workers |-> NoPhoto]
        /\ other = [w \in Workers |-> NoPhoto]
        /\ target = [w \in Workers |-> 0]
        /\ leftOut = [k \in Kinds |-> {}]

MayFail(fault) == fault \in Faults

IsSaved(p) == saved[p] # NotSaved

Hashed(p) == saved[p].image \in Hashable

Distance(g, h) == Cardinality((g \ h) \cup (h \ g))

Apart(p, q) == Distance(Hash[saved[p].image], Hash[saved[q].image])

-------------------------------------------------------------------------------
\* Mutant of Candidates: the owners are not compared.
CandidatesOfAnybody(p) == {q \in Photos \ {p} : IsSaved(q)}

\* Mutant of Candidates: the photos other workers are at are left to them.
CandidatesAtRest(p) ==
  {q \in Photos \ {p} : /\ IsSaved(q) /\ saved[q].owner = saved[p].owner
                        /\ \A w \in Workers : photo[w] # q}

\* Mutant of Candidates: exclude_photo_id is forgotten.
CandidatesWithItself(p) == {q \in Photos : IsSaved(q) /\ saved[q].owner = saved[p].owner}

\* The rows both queries look at: the other analysed photos of the owner.
Candidates(p) ==
  {q \in Photos \ {p} : IsSaved(q) /\ saved[q].owner = saved[p].owner}

\* LIMIT 1 without an order: any of them.
Identical(p) == {q \in Candidates(p) : saved[q].image = saved[p].image}

\* int(hash_str, 16) raises on the first row that holds no hexadecimal number.
Comparable(p) == \A q \in Candidates(p) : saved[q].image \in Parsable

\* Mutant of Near: the search starts from threshold + 2.
NearOffByOne(p, q) == Apart(p, q) <= Threshold + 1

\* best_dist starts from threshold + 1, and a row must be nearer than that.
Near(p, q) == Apart(p, q) <= Threshold

\* Mutant of FirstNearest: best_dist is not updated, so that the last near row
\* is taken.
FirstNearestStale(p, rows) ==
  LET best[i \in 0..Len(rows)] ==
        IF i = 0 THEN [dist |-> Threshold + 1, row |-> NoPhoto]
        ELSE IF Apart(p, rows[i]) < best[i - 1].dist
             THEN [dist |-> best[i - 1].dist, row |-> rows[i]]
             ELSE best[i - 1]
  IN best[Len(rows)].row

\* The loop over the rows the database has returned: the best of the first i.
FirstNearest(p, rows) ==
  LET best[i \in 0..Len(rows)] ==
        IF i = 0 THEN [dist |-> Threshold + 1, row |-> NoPhoto]
        ELSE IF Apart(p, rows[i]) < best[i - 1].dist
             THEN [dist |-> Apart(p, rows[i]), row |-> rows[i]]
             ELSE best[i - 1]
  IN best[Len(rows)].row

\* What it finds, in whatever order the rows come: NearestIsFound.
Nearest(p) == {q \in Candidates(p) :
                 /\ Near(p, q)
                 /\ \A r \in Candidates(p) : Apart(p, q) <= Apart(p, r)}

Matches(k, p) == IF k = "identity" THEN Identical(p) ELSE Nearest(p)

\* The query raises by itself.
Raises(k, p) == k = "duplicate" /\ ~Comparable(p)

-------------------------------------------------------------------------------
At(w, from) == pc[w] = from

Goto(w, to) == /\ pc' = [pc EXCEPT ![w] = to]
               /\ UNCHANGED <<kind, photo>>

Idle(w) == /\ pc' = [pc EXCEPT ![w] = "idle"]
           /\ kind' = [kind EXCEPT ![w] = "identity"]
           /\ photo' = [photo EXCEPT ![w] = NoPhoto]

Forget(w) == /\ other' = [other EXCEPT ![w] = NoPhoto]
             /\ target' = [target EXCEPT ![w] = 0]

\* A check is over, by itself or by an exception: the duplicates come after
\* the identity, and only for a photo that has a hash.
EndCheck(w) ==
  /\ Forget(w)
  /\ IF kind[w] = "identity" /\ Hashed(photo[w])
     THEN /\ pc' = [pc EXCEPT ![w] = "find"]
          /\ kind' = [kind EXCEPT ![w] = "duplicate"]
          /\ UNCHANGED photo
     ELSE Idle(w)

\* The checks of the kinds ks of photo p end early; who gets a group, even later
\* by the check of another photo, is not left out.
CutShort(p, ks) ==
  leftOut' = [k \in Kinds |-> {q \in Photos : /\ q \in leftOut[k] \/ (q = p /\ k \in ks)
                                            /\ group'[k][q] = 0}]

\* A call raises: process_message logs it and goes on (lines 131-138).
CheckRaises(w) == EndCheck(w) /\ CutShort(photo[w], {kind[w]})

\* The call's transaction was committed or not.
CallFails(w) == MayFail("db") /\ CheckRaises(w)

\* save_analysis_and_finish.  A photo is saved once, by the one worker that
\* has claimed it (PhotoPipeline: ClaimExclusive, LifecycleSpec).
Save(w) ==
  /\ At(w, "idle")
  /\ \E p \in Photos, o \in Owners, i \in Images :
       /\ ~IsSaved(p)
       /\ saved' = [saved EXCEPT ![p] = [owner |-> o, image |-> i]]
       /\ photo' = [photo EXCEPT ![w] = p]
  /\ pc' = [pc EXCEPT ![w] = "find"]
  /\ UNCHANGED <<group, groups, kind, other, target, leftOut>>

\* Mutant of Find: the group the match is in is not looked at.
FindIgnoresGroup(w) ==
  /\ At(w, "find")
  /\ UNCHANGED rowVars
  /\ \/ /\ ~Raises(kind[w], photo[w])
        /\ \E q \in Matches(kind[w], photo[w]) :
             /\ Goto(w, "create")
             /\ other' = [other EXCEPT ![w] = q]
             /\ UNCHANGED <<target, leftOut>>
     \/ /\ ~Raises(kind[w], photo[w]) /\ Matches(kind[w], photo[w]) = {}
        /\ EndCheck(w)
        /\ UNCHANGED leftOut
     \/ Raises(kind[w], photo[w]) /\ CheckRaises(w)
     \/ CallFails(w)

Find(w) ==
  /\ At(w, "find")
  /\ UNCHANGED rowVars
  /\ \/ /\ ~Raises(kind[w], photo[w])
        /\ \E q \in Matches(kind[w], photo[w]) :
             /\ Goto(w, IF group[kind[w]][q] = 0 THEN "create" ELSE "self")
             /\ other' = [other EXCEPT ![w] = q]
             /\ target' = [target EXCEPT ![w] = group[kind[w]][q]]
             /\ UNCHANGED leftOut
     \/ /\ ~Raises(kind[w], photo[w]) /\ Matches(kind[w], photo[w]) = {}
        /\ EndCheck(w)
        /\ UNCHANGED leftOut
     \/ Raises(kind[w], photo[w]) /\ CheckRaises(w)
     \/ CallFails(w)

InsertGroup(w) ==
  groups' = Append(groups, [kind |-> kind[w], owner |-> saved[photo[w]].owner,
                            image |-> saved[photo[w]].image])

\* Mutant of Create: the id is returned and the INSERT is not committed.
CreateUncommitted(w) ==
  /\ At(w, "create")
  /\ Goto(w, "other")
  /\ target' = [target EXCEPT ![w] = Len(groups) + 1]
  /\ UNCHANGED <<saved, group, groups, other, leftOut>>

\* Mutant of Create: the match is left where it is.
CreateForSelf(w) ==
  /\ At(w, "create")
  /\ InsertGroup(w) /\ Goto(w, "self")
  /\ target' = [target EXCEPT ![w] = Len(groups) + 1]
  /\ UNCHANGED <<saved, group, other, leftOut>>

\* create_group: the new id comes from the refresh after the commit.
Create(w) ==
  /\ At(w, "create")
  /\ UNCHANGED <<saved, group>>
  /\ \/ /\ InsertGroup(w) /\ Goto(w, "other")
        /\ target' = [target EXCEPT ![w] = Len(groups) + 1]
        /\ UNCHANGED <<other, leftOut>>
     \/ (InsertGroup(w) \/ UNCHANGED groups) /\ CallFails(w)

\* assign_identity_group, assign_duplicate_group: UPDATE by primary key,
\* whatever group the photo was in.
SetGroup(w, p) == group' = [group EXCEPT ![kind[w]][p] = target[w]]

AssignOther(w) ==
  /\ At(w, "other")
  /\ UNCHANGED <<saved, groups>>
  /\ \/ /\ SetGroup(w, other[w]) /\ Goto(w, "self")
        /\ CutShort(photo[w], {})
        /\ UNCHANGED <<other, target>>
     \/ (SetGroup(w, other[w]) \/ UNCHANGED group) /\ CallFails(w)

AssignSelf(w) ==
  /\ At(w, "self")
  /\ UNCHANGED <<saved, groups>>
  /\ \/ SetGroup(w, photo[w]) /\ EndCheck(w) /\ CutShort(photo[w], {})
     \/ (SetGroup(w, photo[w]) \/ UNCHANGED group) /\ CallFails(w)

\* The process dies: the photo is done, and nobody comes back to its groups.
Crash(w) == /\ MayFail("crash")
            /\ ~At(w, "idle")
            /\ UNCHANGED rowVars
            /\ Idle(w) /\ Forget(w)
            /\ CutShort(photo[w], IF kind[w] = "identity" THEN Kinds ELSE {"duplicate"})

Next == \E w \in Workers : \/ Save(w) \/ Find(w) \/ Create(w)
                           \/ AssignOther(w) \/ AssignSelf(w) \/ Crash(w)

Spec == Init /\ [][Next]_vars

-------------------------------------------------------------------------------
\* The group columns are foreign keys into groups.
TypeOK ==
  /\ saved \in [Photos -> [owner : Owners, image : Images] \cup {NotSaved}]
  /\ groups \in Seq([kind : Kinds, owner : Owners, image : Images])
  /\ group \in [Kinds -> [Photos -> 0..Len(groups)]]
  /\ pc \in [Workers -> {"idle", "find", "create", "other", "self"}]
  /\ kind \in [Workers -> Kinds]
  /\ photo \in [Workers -> Photos \cup {NoPhoto}]
  /\ other \in [Workers -> Photos \cup {NoPhoto}]
  /\ target \in [Workers -> 0..Len(groups)]
  /\ leftOut \in [Kinds -> SUBSET Photos]

\* Row p belongs in group g of kind k.
Fits(k, p, g) == /\ groups[g].kind = k
                 /\ IsSaved(p) /\ groups[g].owner = saved[p].owner
                 /\ k = "identity" => groups[g].image = saved[p].image

\* Whatever fails and whoever races, a photo is only ever put in a group of
\* its kind and of its owner, and in an identity group only with its own
\* bytes: no owner sees a photo of somebody else through a group.
GroupsAreHomogeneous ==
  \A k \in Kinds, p \in Photos : group[k][p] # 0 => Fits(k, p, group[k][p])

\* A photo of the same owner in S near p, the threshold itself included as in
\* worker/database.py:127; one of the two was the one checked.
HasNear(p, S) == \E q \in S \ {p} :
                   /\ IsSaved(q) /\ saved[q].owner = saved[p].owner
                   /\ Hashed(p) \/ Hashed(q)
                   /\ Apart(p, q) <= Threshold

\* No photo is in a duplicate group unless its owner has one that looks like it.
DuplicatesAreNear ==
  \A p \in Photos : group["duplicate"][p] # 0 => HasNear(p, Photos)

-------------------------------------------------------------------------------
\* What the two rest on: the parts of an inductive invariant.  A worker that is
\* in a check has saved its photo, and never checks duplicates without a hash.
ChecksSavedPhoto ==
  \A w \in Workers :
    IF pc[w] = "idle"
    THEN kind[w] = "identity"
    ELSE /\ photo[w] \in Photos /\ IsSaved(photo[w])
         /\ kind[w] = "duplicate" => Hashed(photo[w])

\* Two analysed photos of one owner that may share a group of kind k.
Alike(k, p, q) == /\ IsSaved(q) /\ saved[q].owner = saved[p].owner
                  /\ IF k = "identity" THEN saved[q].image = saved[p].image
                                       ELSE Near(p, q)

\* What was found stays true, however old it is.
MatchIsAlike ==
  \A w \in Workers : pc[w] \in {"create", "other", "self"} =>
    other[w] \in Photos \ {photo[w]} /\ Alike(kind[w], photo[w], other[w])

TargetFits ==
  \A w \in Workers : pc[w] \in {"other", "self"} =>
    target[w] # 0 /\ Fits(kind[w], photo[w], target[w])

IInv == /\ TypeOK
        /\ ChecksSavedPhoto /\ MatchIsAlike /\ TargetFits
        /\ GroupsAreHomogeneous /\ DuplicatesAreNear

-------------------------------------------------------------------------------
\* What one worker and a database that answers give, between two photos.
Quiet == \A w \in Workers : At(w, "idle")

Members(k, g) == {p \in Photos : group[k][p] = g}

\* docs/src/architecture.md:187: "exact match of SHA256 -> common identity
\* group".
IdenticalShareGroup ==
  Quiet => \A p, q \in Photos :
             IsSaved(p) /\ IsSaved(q) /\ p # q /\ saved[p] = saved[q] =>
               group["identity"][p] # 0 /\ group["identity"][p] = group["identity"][q]

\* docs/src/architecture.md:188: "perceptual hash with a Hamming distance < 20
\* -> common duplicate group".
DuplicatesShareGroup ==
  Quiet => \A p, q \in Photos :
             /\ IsSaved(p) /\ IsSaved(q) /\ p # q /\ saved[p].owner = saved[q].owner
             /\ Hashed(p) /\ Hashed(q) /\ Apart(p, q) < Threshold
             => group["duplicate"][p] # 0 /\ group["duplicate"][p] = group["duplicate"][q]

\* Every row of groups is a group: two photos or more, and in a duplicate
\* group each of them near another one of the same group, however the chain
\* has grown away from the hash it was created with.
GroupsHoldTogether ==
  Quiet => \A g \in 1..Len(groups) :
             LET k == groups[g].kind IN
             /\ Cardinality(Members(k, g)) >= 2
             /\ k = "duplicate" => \A p \in Members(k, g) : HasNear(p, Members(k, g))

\* The query has no ORDER BY.  Over all orders of its rows the loop finds the
\* nearest photos, each of them in some order and nothing else in any, and no
\* photo only when none is within the threshold, the threshold itself included
\* (database.py:127).  docs/src/architecture.md:144 and :188 leave it out, with
\* "distance<20": at 20 the code finds a duplicate and the text does not.
NearestIsFound ==
  \A w \in Workers :
    At(w, "find") /\ kind[w] = "duplicate" /\ ~Raises(kind[w], photo[w]) =>
      {FirstNearest(photo[w], rows) : rows \in SetToSeqs(Candidates(photo[w]))}
        = IF Nearest(photo[w]) = {} THEN {NoPhoto} ELSE Nearest(photo[w])

\* A worker has yet to finish the check of photo p that sets group[k][p].
BeingChecked(k, p) ==
  \E w \in Workers : ~At(w, "idle") /\ photo[w] = p /\ kind[w] \in {k, "identity"}

\* Two workers never miss each other's photo: of two photos of one owner that
\* the queries of worker/database.py:88-139 match, the same bytes or two hashes
\* within the threshold or at it, one is in a group or is being checked, unless
\* a check of one of them was cut short.  The checks may come between each
\* other's transactions in any way.
SimilarAreNoticed ==
  \A k \in Kinds, p, q \in Photos :
    /\ p # q /\ IsSaved(p) /\ Alike(k, p, q)
    /\ k = "duplicate" => Hashed(p) /\ Hashed(q)
    => \/ group[k][p] # 0 \/ group[k][q] # 0
       \/ BeingChecked(k, p) \/ BeingChecked(k, q)
       \/ p \in leftOut[k] \/ q \in leftOut[k]

\* A photo that is in a group stays in it: the match of a later photo is only
\* moved when it had no group.
GroupsAreStable ==
  [][\A k \in Kinds, p \in Photos : group[k][p] # 0 => group'[k][p] = group[k][p]]_vars
===============================================================================
