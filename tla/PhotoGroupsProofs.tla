-------------------------- MODULE PhotoGroupsProofs ---------------------------
(***************************************************************************)
(* Proofs about PhotoGroups, for any number of photos, workers, owners and *)
(* images, any threshold and any faults.                                   *)
(***************************************************************************)
EXTENDS PhotoGroups, TLAPS

USE GroupsAssumption

\* The Hamming distance does not depend on the side it is measured from.
LEMMA NearSymmetric ==
  ASSUME NEW p \in Photos, NEW q \in Photos, Near(p, q)
  PROVE  Near(q, p)
<1> DEFINE g == Hash[saved[p].image]
           h == Hash[saved[q].image]
<1>1. (g \ h) \cup (h \ g) = (h \ g) \cup (g \ h)
  OBVIOUS
<1>2. Distance(g, h) = Distance(h, g)
  BY <1>1 DEF Distance
<1>3. QED
  BY <1>2 DEF Near, Apart

LEMMA InitInvariant == Init => IInv
<1> SUFFICES ASSUME Init PROVE IInv
  OBVIOUS
<1>1. TypeOK
  BY DEF Init, TypeOK, Kinds
<1>2. ChecksSavedPhoto /\ MatchIsAlike /\ TargetFits
  BY DEF Init, ChecksSavedPhoto, MatchIsAlike, TargetFits
<1>3. GroupsAreHomogeneous /\ DuplicatesAreNear
  BY DEF Init, GroupsAreHomogeneous, DuplicatesAreNear, Kinds
<1>4. QED
  BY <1>1, <1>2, <1>3 DEF IInv

-------------------------------------------------------------------------------
\* Frames.

\* The end of a check, of its worker w.
LEMMA CheckEnds ==
  ASSUME TypeOK, NEW w \in Workers, EndCheck(w) \/ (Idle(w) /\ Forget(w))
  PROVE  /\ pc' \in [Workers -> {"idle", "find", "create", "other", "self"}]
         /\ kind' \in [Workers -> Kinds]
         /\ photo' \in [Workers -> Photos \cup {NoPhoto}]
         /\ other' \in [Workers -> Photos \cup {NoPhoto}]
         /\ target' \in [Workers -> 0..Len(groups)]
         /\ \/ pc'[w] = "idle" /\ kind'[w] = "identity"
            \/ /\ pc'[w] = "find" /\ photo'[w] = photo[w]
               /\ kind'[w] = "duplicate" /\ Hashed(photo[w])
         /\ \A v \in Workers \ {w} :
              /\ pc'[v] = pc[v] /\ kind'[v] = kind[v] /\ photo'[v] = photo[v]
              /\ other'[v] = other[v] /\ target'[v] = target[v]
<1>1. /\ Len(groups) \in Nat
      /\ pc \in [Workers -> {"idle", "find", "create", "other", "self"}]
      /\ kind \in [Workers -> Kinds] /\ photo \in [Workers -> Photos \cup {NoPhoto}]
      /\ other \in [Workers -> Photos \cup {NoPhoto}] /\ target \in [Workers -> 0..Len(groups)]
  BY DEF TypeOK
<1>2. Forget(w)
  BY DEF EndCheck
<1>3. /\ other' \in [Workers -> Photos \cup {NoPhoto}]
      /\ target' \in [Workers -> 0..Len(groups)]
      /\ \A v \in Workers \ {w} : other'[v] = other[v] /\ target'[v] = target[v]
  BY <1>1, <1>2 DEF Forget
<1>4. CASE Idle(w)
  BY <1>1, <1>3, <1>4 DEF Idle, Kinds
<1>5. CASE ~Idle(w)
  BY <1>1, <1>3, <1>5 DEF EndCheck, Kinds
<1>6. QED
  BY <1>4, <1>5

LEMMA LeftOutType ==
  ASSUME TypeOK, NEW w \in Workers,
         Find(w) \/ Create(w) \/ AssignOther(w) \/ AssignSelf(w) \/ Crash(w)
  PROVE  leftOut' \in [Kinds -> SUBSET Photos]
<1>1. ASSUME NEW p, NEW ks, CutShort(p, ks) PROVE leftOut' \in [Kinds -> SUBSET Photos]
  BY <1>1 DEF CutShort
<1>2. UNCHANGED leftOut \/ \E p, ks : CutShort(p, ks)
  BY DEF Find, Create, AssignOther, AssignSelf, Crash, CallFails, CheckRaises
<1>3. QED
  BY <1>1, <1>2 DEF TypeOK

\* What the invariant says of the job of one worker.
Job(w) ==
  /\ pc[w] = "idle" => kind[w] = "identity"
  /\ pc[w] # "idle" => /\ photo[w] \in Photos /\ IsSaved(photo[w])
                       /\ kind[w] = "duplicate" => Hashed(photo[w])
  /\ pc[w] \in {"create", "other", "self"} =>
       other[w] \in Photos \ {photo[w]} /\ Alike(kind[w], photo[w], other[w])
  /\ pc[w] \in {"other", "self"} =>
       target[w] # 0 /\ Fits(kind[w], photo[w], target[w])

LEMMA JobsMeaning ==
  IInv <=> /\ TypeOK /\ \A w \in Workers : Job(w)
           /\ GroupsAreHomogeneous /\ DuplicatesAreNear
BY DEF IInv, Job, ChecksSavedPhoto, MatchIsAlike, TargetFits

\* Rows are only added, to photo_analysis and to groups.
RowsKept == /\ \A p \in Photos : IsSaved(p) => saved'[p] = saved[p]
            /\ Len(groups) <= Len(groups')
            /\ \A g \in 1..Len(groups) : groups'[g] = groups[g]

\* So that whatever was true of a photo, of two or of a group stays true.
LEMMA FactsStay ==
  ASSUME TypeOK, TypeOK', RowsKept
  PROVE  /\ \A p \in Photos : IsSaved(p) => IsSaved(p)' /\ (Hashed(p) <=> Hashed(p)')
         /\ \A p \in Photos, q \in Photos :
              IsSaved(p) /\ IsSaved(q) => (Near(p, q) <=> Near(p, q)')
         /\ \A k \in Kinds, p \in Photos, q \in Photos :
              IsSaved(p) /\ Alike(k, p, q) => Alike(k, p, q)'
         /\ \A k \in Kinds, p \in Photos, g \in 1..Len(groups) :
              Fits(k, p, g) => Fits(k, p, g)'
         /\ \A p \in Photos : IsSaved(p) /\ HasNear(p, Photos) => HasNear(p, Photos)'
<1>1. \A p \in Photos : IsSaved(p) => IsSaved(p)' /\ (Hashed(p) <=> Hashed(p)')
  BY DEF RowsKept, IsSaved, Hashed
<1>2. \A p \in Photos, q \in Photos :
        IsSaved(p) /\ IsSaved(q) => (Near(p, q) <=> Near(p, q)')
  BY DEF RowsKept, Near, Apart
<1>3. \A k \in Kinds, p \in Photos, q \in Photos :
        IsSaved(p) /\ Alike(k, p, q) => Alike(k, p, q)'
  BY <1>1, <1>2 DEF RowsKept, Alike
<1>4. \A k \in Kinds, p \in Photos, g \in 1..Len(groups) :
        Fits(k, p, g) => Fits(k, p, g)'
  BY <1>1 DEF RowsKept, Fits
<1>5. \A p \in Photos : IsSaved(p) /\ HasNear(p, Photos) => HasNear(p, Photos)'
  BY <1>1, <1>2 DEF RowsKept, HasNear, Near
<1>6. QED
  BY <1>1, <1>2, <1>3, <1>4, <1>5

\* The jobs of the other workers are as sound as before.
LEMMA OtherJobs ==
  ASSUME IInv, TypeOK', RowsKept, NEW v \in Workers,
         pc'[v] = pc[v], kind'[v] = kind[v], photo'[v] = photo[v],
         other'[v] = other[v], target'[v] = target[v]
  PROVE  Job(v)'
<1>1. TypeOK /\ Job(v)
  BY JobsMeaning
<1>2. kind[v] \in Kinds /\ target[v] \in 0..Len(groups) /\ Len(groups) \in Nat
  BY <1>1 DEF TypeOK
<1>3. pc'[v] # "idle" => /\ photo'[v] \in Photos /\ IsSaved(photo[v]) /\ IsSaved(photo[v])'
                         /\ (Hashed(photo[v]) <=> Hashed(photo[v])')
                         /\ kind[v] = "duplicate" => Hashed(photo[v])
  BY <1>1, FactsStay DEF Job
<1>4. pc'[v] \in {"create", "other", "self"} =>
        other[v] \in Photos \ {photo[v]} /\ Alike(kind[v], photo[v], other[v])'
  BY <1>1, <1>2, <1>3, FactsStay DEF Job
<1>5. pc'[v] \in {"other", "self"} =>
        target[v] # 0 /\ Fits(kind[v], photo[v], target[v])'
  <2> SUFFICES ASSUME pc'[v] \in {"other", "self"}
               PROVE  target[v] # 0 /\ Fits(kind[v], photo[v], target[v])'
    OBVIOUS
  <2>1. target[v] \in 1..Len(groups) /\ Fits(kind[v], photo[v], target[v])
    BY <1>1, <1>2 DEF Job
  <2>2. QED
    BY <1>1, <1>2, <1>3, <2>1, FactsStay
<1>6. pc'[v] = "idle" => kind'[v] = "identity"
  BY <1>1 DEF Job
<1>7. QED
  BY <1>3, <1>4, <1>5, <1>6 DEF Job, IsSaved, Hashed, Alike, Near, Apart, Fits

LEMMA JobsPreserved ==
  ASSUME IInv, NEW w \in Workers, TypeOK', RowsKept, Job(w)',
         GroupsAreHomogeneous', DuplicatesAreNear',
         \A v \in Workers \ {w} :
           /\ pc'[v] = pc[v] /\ kind'[v] = kind[v] /\ photo'[v] = photo[v]
           /\ other'[v] = other[v] /\ target'[v] = target[v]
  PROVE  IInv'
<1>1. \A v \in Workers : Job(v)'
  BY OtherJobs
<1>2. ChecksSavedPhoto' /\ MatchIsAlike' /\ TargetFits'
  BY <1>1 DEF Job, ChecksSavedPhoto, MatchIsAlike, TargetFits
<1>3. QED
  BY <1>2 DEF IInv

\* The group columns when no photo changes its group.
LEMMA GroupsStay ==
  ASSUME IInv, TypeOK', RowsKept, UNCHANGED group
  PROVE  GroupsAreHomogeneous' /\ DuplicatesAreNear'
<1>1. TypeOK /\ GroupsAreHomogeneous /\ DuplicatesAreNear
  BY DEF IInv
<1>2. ASSUME NEW k \in Kinds, NEW p \in Photos, group'[k][p] # 0
      PROVE  Fits(k, p, group[k][p])' /\ IsSaved(p)
  <2>1. group[k][p] \in 1..Len(groups)
    BY <1>1, <1>2 DEF TypeOK
  <2>2. Fits(k, p, group[k][p])
    BY <1>1, <1>2 DEF GroupsAreHomogeneous
  <2>3. Fits(k, p, group[k][p])'
    <3> DEFINE g == group[k][p]
    <3>1. Fits(k, p, g)'
      BY <1>1, <2>1, <2>2, FactsStay
    <3>2. QED
      BY <3>1 DEF Fits, IsSaved
  <2>4. QED
    BY <2>2, <2>3 DEF Fits
<1>3. GroupsAreHomogeneous'
  BY <1>2 DEF GroupsAreHomogeneous
<1>4. DuplicatesAreNear'
  BY <1>1, <1>2, FactsStay DEF DuplicatesAreNear, Kinds
<1>5. QED
  BY <1>3, <1>4

\* The group columns when one photo is put in a group it belongs in.
LEMMA GroupsJoined ==
  ASSUME IInv, TypeOK', UNCHANGED <<saved, groups>>,
         NEW k \in Kinds, NEW p \in Photos, NEW g \in 1..Len(groups),
         group' = [group EXCEPT ![k][p] = g],
         Fits(k, p, g), k = "duplicate" => HasNear(p, Photos)
  PROVE  GroupsAreHomogeneous' /\ DuplicatesAreNear'
<1>1. TypeOK /\ GroupsAreHomogeneous /\ DuplicatesAreNear
  BY DEF IInv
<1>2. \A j \in Kinds, q \in Photos :
        group'[j][q] = IF j = k /\ q = p THEN g ELSE group[j][q]
  BY <1>1 DEF TypeOK
<1>3. \A j \in Kinds, q \in Photos : \A h : Fits(j, q, h)' <=> Fits(j, q, h)
  BY DEF Fits, IsSaved
<1>4. \A q \in Photos : HasNear(q, Photos)' <=> HasNear(q, Photos)
  BY DEF HasNear, IsSaved, Hashed, Near, Apart
<1>5. \A j \in Kinds, q \in Photos : group'[j][q] # 0 => Fits(j, q, group'[j][q])
  BY <1>1, <1>2 DEF GroupsAreHomogeneous
<1>6. GroupsAreHomogeneous'
  BY <1>5 DEF GroupsAreHomogeneous, Fits, IsSaved
<1>7. DuplicatesAreNear'
  BY <1>1, <1>2, <1>4 DEF DuplicatesAreNear, Kinds
<1>8. QED
  BY <1>6, <1>7

-------------------------------------------------------------------------------
\* The actions.

LEMMA SaveInvariant ==
  ASSUME IInv, NEW w \in Workers, Save(w)
  PROVE  IInv'
<1>1. TypeOK
  BY DEF IInv
<1>2. PICK p \in Photos, o \in Owners, i \in Images :
        /\ ~IsSaved(p)
        /\ saved' = [saved EXCEPT ![p] = [owner |-> o, image |-> i]]
        /\ photo' = [photo EXCEPT ![w] = p]
  BY DEF Save
<1>3. TypeOK'
  BY <1>1, <1>2 DEF Save, TypeOK
<1>4. RowsKept
  BY <1>1, <1>2 DEF Save, RowsKept, IsSaved, TypeOK
<1>5. Job(w)'
  <2>1. pc'[w] = "find" /\ kind'[w] = kind[w] /\ photo'[w] = p /\ IsSaved(p)'
    BY <1>1, <1>2 DEF Save, TypeOK, IsSaved
  <2>2. kind'[w] = "identity"
    BY <2>1, JobsMeaning DEF Job, Save, At
  <2>3. QED
    BY <2>1, <2>2 DEF Job
<1>6. \A v \in Workers \ {w} :
        /\ pc'[v] = pc[v] /\ kind'[v] = kind[v] /\ photo'[v] = photo[v]
        /\ other'[v] = other[v] /\ target'[v] = target[v]
  BY <1>1, <1>2 DEF Save, TypeOK
<1>7. UNCHANGED group
  BY DEF Save
<1>8. QED
  BY <1>3, <1>4, <1>5, <1>6, <1>7, GroupsStay, JobsPreserved

\* A check that ends, with a group inserted and left alone or with nothing.
LEMMA EndInvariant ==
  ASSUME IInv, NEW w \in Workers, EndCheck(w) \/ (Idle(w) /\ Forget(w)),
         ~At(w, "idle"), UNCHANGED saved, TypeOK', RowsKept,
         GroupsAreHomogeneous', DuplicatesAreNear'
  PROVE  IInv'
<1>1. TypeOK /\ Job(w)
  BY JobsMeaning
<1>2. \/ pc'[w] = "idle" /\ kind'[w] = "identity"
      \/ /\ pc'[w] = "find" /\ photo'[w] = photo[w]
         /\ kind'[w] = "duplicate" /\ Hashed(photo[w])
  BY <1>1, CheckEnds
<1>3. Job(w)'
  BY <1>1, <1>2 DEF Job, At, IsSaved, Hashed
<1>4. QED
  BY <1>1, <1>3, CheckEnds, JobsPreserved

LEMMA FindInvariant ==
  ASSUME IInv, NEW w \in Workers, Find(w)
  PROVE  IInv'
<1>1. TypeOK /\ Job(w) /\ UNCHANGED rowVars
  BY JobsMeaning DEF Find
<1>2. RowsKept
  BY <1>1 DEF RowsKept, rowVars, TypeOK
<1>3. CASE EndCheck(w)
  <2>1. TypeOK'
    BY <1>1, <1>3, CheckEnds, LeftOutType DEF TypeOK, rowVars
  <2>2. QED
    BY <1>1, <1>2, <1>3, <2>1, GroupsStay, EndInvariant DEF Find, At, rowVars
<1>4. CASE ~EndCheck(w)
  <2>1. PICK q \in Matches(kind[w], photo[w]) :
          /\ Goto(w, IF group[kind[w]][q] = 0 THEN "create" ELSE "self")
          /\ other' = [other EXCEPT ![w] = q]
          /\ target' = [target EXCEPT ![w] = group[kind[w]][q]]
    BY <1>4 DEF Find, CallFails, CheckRaises
  <2>2. pc[w] = "find" /\ kind[w] \in Kinds /\ photo[w] \in Photos /\ IsSaved(photo[w])
    BY <1>1 DEF Find, At, Job, TypeOK
  <2>3. q \in Photos \ {photo[w]} /\ Alike(kind[w], photo[w], q)
    BY DEF Matches, Identical, Nearest, Candidates, Alike
  <2>4. group[kind[w]][q] \in 0..Len(groups)
    BY <1>1, <2>2, <2>3 DEF TypeOK
  <2>5. TypeOK'
    BY <1>1, <2>1, <2>3, <2>4, LeftOutType DEF TypeOK, rowVars, Goto
  <2>6. \A v \in Workers \ {w} :
          /\ pc'[v] = pc[v] /\ kind'[v] = kind[v] /\ photo'[v] = photo[v]
          /\ other'[v] = other[v] /\ target'[v] = target[v]
    BY <1>1, <2>1 DEF TypeOK, Goto
  <2>7. /\ pc'[w] = IF group[kind[w]][q] = 0 THEN "create" ELSE "self"
        /\ kind'[w] = kind[w] /\ photo'[w] = photo[w]
        /\ other'[w] = q /\ target'[w] = group[kind[w]][q]
    BY <1>1, <2>1 DEF TypeOK, Goto
  <2>8. target'[w] # 0 => Fits(kind[w], photo[w], target'[w])
    BY <2>2, <2>3, <2>7 DEF IInv, GroupsAreHomogeneous, Fits, Alike
  <2>9. Job(w)'
    BY <1>1, <2>2, <2>3, <2>7, <2>8
       DEF Job, rowVars, IsSaved, Hashed, Alike, Near, Apart, Fits
  <2>10. QED
    BY <1>1, <1>2, <2>5, <2>6, <2>9, GroupsStay, JobsPreserved DEF rowVars
<1>5. QED
  BY <1>3, <1>4

LEMMA CreateInvariant ==
  ASSUME IInv, NEW w \in Workers, Create(w)
  PROVE  IInv'
<1>1. TypeOK /\ Job(w) /\ UNCHANGED <<saved, group>> /\ pc[w] = "create"
  BY JobsMeaning DEF Create, At
<1>2. /\ kind[w] \in Kinds /\ photo[w] \in Photos /\ IsSaved(photo[w])
      /\ saved[photo[w]] \in [owner : Owners, image : Images]
  BY <1>1 DEF Job, TypeOK, IsSaved
<1>3. InsertGroup(w) \/ UNCHANGED groups
  BY DEF Create
<1>4. ASSUME InsertGroup(w)
      PROVE  /\ groups' \in Seq([kind : Kinds, owner : Owners, image : Images])
             /\ Len(groups) \in Nat /\ Len(groups') = Len(groups) + 1
             /\ \A g \in 1..Len(groups) : groups'[g] = groups[g]
             /\ groups'[Len(groups) + 1] =
                  [kind |-> kind[w], owner |-> saved[photo[w]].owner,
                   image |-> saved[photo[w]].image]
  BY <1>1, <1>2, <1>4 DEF InsertGroup, TypeOK
<1>5. RowsKept
  <2>1. CASE InsertGroup(w)
    BY <1>1, <1>4, <2>1 DEF RowsKept
  <2>2. CASE UNCHANGED groups
    BY <1>1, <2>2 DEF RowsKept, TypeOK
  <2>3. QED
    BY <1>3, <2>1, <2>2
<1>6. /\ groups' \in Seq([kind : Kinds, owner : Owners, image : Images])
      /\ Len(groups) \in Nat /\ Len(groups') \in Nat /\ Len(groups) <= Len(groups')
  BY <1>1, <1>3, <1>4 DEF TypeOK
<1>7. 0..Len(groups) \subseteq 0..Len(groups')
  BY <1>6
<1>8. group' \in [Kinds -> [Photos -> 0..Len(groups')]]
  BY <1>1, <1>7 DEF TypeOK
<1>9. CASE EndCheck(w)
  <2>1. target' \in [Workers -> 0..Len(groups')]
    BY <1>1, <1>7, <1>9, CheckEnds
  <2>2. TypeOK'
    BY <1>1, <1>6, <1>8, <1>9, <2>1, CheckEnds, LeftOutType DEF TypeOK
  <2>3. QED
    BY <1>1, <1>5, <1>9, <2>2, GroupsStay, EndInvariant DEF At
<1>10. CASE ~EndCheck(w)
  <2>1. /\ InsertGroup(w) /\ Goto(w, "other") /\ UNCHANGED other
        /\ target' = [target EXCEPT ![w] = Len(groups) + 1]
    BY <1>10 DEF Create, CallFails, CheckRaises
  <2>2. target' \in [Workers -> 0..Len(groups')]
    BY <1>1, <1>4, <1>7, <2>1 DEF TypeOK
  <2>3. TypeOK'
    BY <1>1, <1>6, <1>8, <2>1, <2>2, LeftOutType DEF TypeOK, Goto
  <2>4. \A v \in Workers \ {w} :
          /\ pc'[v] = pc[v] /\ kind'[v] = kind[v] /\ photo'[v] = photo[v]
          /\ other'[v] = other[v] /\ target'[v] = target[v]
    BY <1>1, <2>1 DEF TypeOK, Goto
  <2>5. /\ pc'[w] = "other" /\ kind'[w] = kind[w] /\ photo'[w] = photo[w]
        /\ other'[w] = other[w] /\ target'[w] = Len(groups) + 1 /\ target'[w] # 0
    BY <1>1, <1>6, <2>1 DEF TypeOK, Goto
  <2>6. Fits(kind[w], photo[w], target[w])'
    BY <1>1, <1>2, <1>4, <2>1, <2>5 DEF Fits, IsSaved
  <2>7. Job(w)'
    BY <1>1, <1>2, <2>5, <2>6 DEF Job, IsSaved, Hashed, Alike, Near, Apart, Fits
  <2>8. QED
    BY <1>1, <1>5, <2>3, <2>4, <2>7, GroupsStay, JobsPreserved
<1>11. QED
  BY <1>9, <1>10

\* What both assignments have in common: the group and one of its two photos.
LEMMA Assignable ==
  ASSUME IInv, NEW w \in Workers, pc[w] \in {"other", "self"}
  PROVE  /\ TypeOK /\ Job(w) /\ kind[w] \in Kinds
         /\ photo[w] \in Photos /\ other[w] \in Photos \ {photo[w]}
         /\ target[w] \in 1..Len(groups)
         /\ \A p \in {photo[w], other[w]} :
              /\ Fits(kind[w], p, target[w])
              /\ kind[w] = "duplicate" => HasNear(p, Photos)
<1>1. TypeOK /\ Job(w)
  BY JobsMeaning
<1>2. /\ kind[w] \in Kinds /\ target[w] \in 0..Len(groups) /\ Len(groups) \in Nat
  BY <1>1 DEF TypeOK
<1>3. /\ photo[w] \in Photos /\ IsSaved(photo[w])
      /\ kind[w] = "duplicate" => Hashed(photo[w])
      /\ other[w] \in Photos \ {photo[w]} /\ Alike(kind[w], photo[w], other[w])
      /\ target[w] # 0 /\ Fits(kind[w], photo[w], target[w])
  BY <1>1 DEF Job
<1>4. target[w] \in 1..Len(groups)
  BY <1>2, <1>3
<1>5. Fits(kind[w], other[w], target[w])
  BY <1>3 DEF Fits, Alike
<1>6. ASSUME kind[w] = "duplicate"
      PROVE  HasNear(photo[w], Photos) /\ HasNear(other[w], Photos)
  <2>1. /\ Near(photo[w], other[w]) /\ Hashed(photo[w])
        /\ IsSaved(other[w]) /\ saved[other[w]].owner = saved[photo[w]].owner
    BY <1>3, <1>6 DEF Alike
  <2>2. Near(other[w], photo[w])
    BY <1>3, <2>1, NearSymmetric
  <2>3. HasNear(photo[w], Photos)
    BY <1>3, <2>1 DEF HasNear, Near
  <2>4. HasNear(other[w], Photos)
    BY <1>3, <2>1, <2>2 DEF HasNear, Near
  <2>5. QED
    BY <2>3, <2>4
<1>7. QED
  BY <1>1, <1>2, <1>3, <1>4, <1>5, <1>6

LEMMA AssignInvariant ==
  ASSUME IInv, NEW w \in Workers, AssignOther(w) \/ AssignSelf(w)
  PROVE  IInv'
<1>1. /\ pc[w] \in {"other", "self"} /\ UNCHANGED <<saved, groups>>
      /\ UNCHANGED group \/ \E p \in {photo[w], other[w]} : SetGroup(w, p)
  BY DEF AssignOther, AssignSelf, At
<1>2. TypeOK /\ Job(w)
  BY JobsMeaning
<1>3. RowsKept
  BY <1>1, <1>2 DEF RowsKept, TypeOK
<1>4. group' \in [Kinds -> [Photos -> 0..Len(groups)]]
  <2>1. group \in [Kinds -> [Photos -> 0..Len(groups)]] /\ Len(groups) \in Nat
    BY <1>2 DEF TypeOK
  <2>2. kind[w] \in Kinds /\ target[w] \in 0..Len(groups)
    BY <1>2 DEF TypeOK
  <2>3. ASSUME NEW p, SetGroup(w, p)
        PROVE  group' \in [Kinds -> [Photos -> 0..Len(groups)]]
    <3> DEFINE f == [group[kind[w]] EXCEPT ![p] = target[w]]
    <3>1. f \in [Photos -> 0..Len(groups)]
      BY <2>1, <2>2
    <3>2. group' = [group EXCEPT ![kind[w]] = f]
      BY <2>3 DEF SetGroup
    <3>3. QED
      BY <2>1, <2>2, <3>1, <3>2
  <2>4. QED
    BY <1>1, <2>1, <2>3
<1>5. CASE EndCheck(w)
  <2>1. TypeOK'
    BY <1>1, <1>2, <1>4, <1>5, CheckEnds, LeftOutType DEF TypeOK
  <2>2. GroupsAreHomogeneous' /\ DuplicatesAreNear'
    BY <1>1, <1>3, <2>1, Assignable, GroupsStay, GroupsJoined DEF SetGroup
  <2>3. QED
    BY <1>1, <1>3, <1>5, <2>1, <2>2, EndInvariant DEF At
<1>6. CASE ~EndCheck(w)
  <2>1. /\ pc[w] = "other" /\ SetGroup(w, other[w])
        /\ Goto(w, "self") /\ UNCHANGED <<other, target>>
    BY <1>6 DEF AssignOther, AssignSelf, At, CallFails, CheckRaises
  <2>2. TypeOK'
    BY <1>1, <1>2, <1>4, <2>1, LeftOutType DEF TypeOK, Goto
  <2>3. GroupsAreHomogeneous' /\ DuplicatesAreNear'
    BY <1>1, <1>3, <2>2, Assignable, GroupsStay, GroupsJoined DEF SetGroup
  <2>4. \A v \in Workers \ {w} :
          /\ pc'[v] = pc[v] /\ kind'[v] = kind[v] /\ photo'[v] = photo[v]
          /\ other'[v] = other[v] /\ target'[v] = target[v]
    BY <1>2, <2>1 DEF TypeOK, Goto
  <2>5. Job(w)'
    BY <1>1, <1>2, <2>1 DEF TypeOK, Goto, Job, IsSaved, Hashed, Alike, Near, Apart, Fits
  <2>6. QED
    BY <1>3, <2>2, <2>3, <2>4, <2>5, JobsPreserved
<1>7. QED
  BY <1>5, <1>6

LEMMA CrashInvariant ==
  ASSUME IInv, NEW w \in Workers, Crash(w)
  PROVE  IInv'
<1>1. TypeOK /\ UNCHANGED rowVars /\ Idle(w) /\ Forget(w) /\ ~At(w, "idle")
  BY DEF Crash, IInv
<1>2. TypeOK' /\ RowsKept
  BY <1>1, CheckEnds, LeftOutType DEF TypeOK, rowVars, RowsKept
<1>3. QED
  BY <1>1, <1>2, GroupsStay, EndInvariant DEF rowVars

LEMMA StutterInvariant == IInv /\ UNCHANGED vars => IInv'
<1> SUFFICES ASSUME IInv, UNCHANGED vars PROVE IInv'
  OBVIOUS
<1>1. UNCHANGED <<rowVars, jobVars, leftOut>>
  BY DEF vars
<1>2. TypeOK'
  BY <1>1 DEF rowVars, jobVars, IInv, TypeOK
<1>3. ChecksSavedPhoto' /\ MatchIsAlike' /\ TargetFits'
  BY <1>1 DEF rowVars, jobVars, IInv, ChecksSavedPhoto, MatchIsAlike, TargetFits, IsSaved,
     Hashed, Alike, Near, Apart, Fits
<1>4. GroupsAreHomogeneous' /\ DuplicatesAreNear'
  BY <1>1 DEF rowVars, IInv, GroupsAreHomogeneous, DuplicatesAreNear, Fits, IsSaved,
     HasNear, Hashed, Near, Apart
<1>5. QED
  BY <1>2, <1>3, <1>4 DEF IInv

-------------------------------------------------------------------------------
\* The theorems.

\* IInv is an invariant: through every step of _check_photo_identity and
\* _check_photo_duplicates, what a worker found and what it is about to assign
\* stay right, however old they are.
THEOREM Invariance == Spec => []IInv
<1>1. IInv /\ [Next]_vars => IInv'
  BY SaveInvariant, FindInvariant, CreateInvariant, AssignInvariant, CrashInvariant,
     StutterInvariant DEF Next
<1>2. QED
  BY <1>1, InitInvariant, PTL DEF Spec

\* Every variable keeps its type; the group columns always refer to a group.
THEOREM TypeCorrect == Spec => []TypeOK
<1>1. IInv => TypeOK
  BY DEF IInv
<1>2. QED
  BY <1>1, Invariance, PTL

\* find_matching_identity_photo, find_matching_duplicate_photo and the assigns
\* never put a photo in a group of another owner, kind or content.
THEOREM GroupsFit == Spec => []GroupsAreHomogeneous
<1>1. IInv => GroupsAreHomogeneous
  BY DEF IInv
<1>2. QED
  BY <1>1, Invariance, PTL

\* find_matching_duplicate_photo: a photo in a duplicate group looks like some
\* other photo of its owner.
THEOREM DuplicatesLookAlike == Spec => []DuplicatesAreNear
<1>1. IInv => DuplicatesAreNear
  BY DEF IInv
<1>2. QED
  BY <1>1, Invariance, PTL
===============================================================================
