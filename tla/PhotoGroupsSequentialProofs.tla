---------------------- MODULE PhotoGroupsSequentialProofs ----------------------
(***************************************************************************)
(* What one worker gives: proofs about PhotoGroups when Workers has one    *)
(* element, for any photos, owners, images and hashes.  With two workers   *)
(* neither theorem holds.                                                  *)
(***************************************************************************)
EXTENDS PhotoGroupsProofs, FiniteSetTheorems

\* The photo at hand is in no group of the checks ahead of it, and a match for
\* which a group is made is in none.
Ungrouped(w) ==
  /\ pc[w] # "idle" => group[kind[w]][photo[w]] = 0 /\ group["duplicate"][photo[w]] = 0
  /\ pc[w] \in {"create", "other"} => group[kind[w]][other[w]] = 0

\* What an action of the only worker does to the photo at hand and to groups.
LEMMA EndedCheck ==
  ASSUME TypeOK, NEW w \in Workers, EndCheck(w) \/ (Idle(w) /\ Forget(w))
  PROVE  \/ pc'[w] = "idle"
         \/ /\ pc'[w] = "find" /\ photo'[w] = photo[w]
            /\ kind[w] = "identity" /\ kind'[w] = "duplicate"
<1>1. /\ pc \in [Workers -> {"idle", "find", "create", "other", "self"}]
      /\ kind \in [Workers -> Kinds] /\ photo \in [Workers -> Photos \cup {NoPhoto}]
  BY DEF TypeOK
<1>2. CASE Idle(w)
  BY <1>1, <1>2 DEF Idle
<1>3. CASE ~Idle(w)
  BY <1>1, <1>3 DEF EndCheck
<1>4. QED
  BY <1>2, <1>3

LEMMA GroupSet ==
  ASSUME TypeOK, NEW w \in Workers, NEW p \in Photos, SetGroup(w, p)
  PROVE  \A k \in Kinds, q \in Photos :
           group'[k][q] = IF k = kind[w] /\ q = p THEN target[w] ELSE group[k][q]
BY DEF TypeOK, SetGroup

\* A check that goes on: the worker, its photo and its check stay what they are.
LEMMA GoesOn ==
  ASSUME TypeOK, NEW w \in Workers, NEW to, Goto(w, to)
  PROVE  pc'[w] = to /\ kind'[w] = kind[w] /\ photo'[w] = photo[w]
BY DEF TypeOK, Goto

LEMMA UngroupedStep ==
  ASSUME NEW w, Workers = {w}, IInv, Ungrouped(w), Next
  PROVE  /\ Ungrouped(w)'
         /\ \A k \in Kinds, p \in Photos : group[k][p] # 0 => group'[k][p] = group[k][p]
<1>1. w \in Workers /\ TypeOK /\ Job(w) /\ GroupsAreHomogeneous
  BY JobsMeaning
<1>2. /\ kind[w] \in Kinds /\ "duplicate" \in Kinds /\ "identity" \in Kinds
      /\ pc[w] \in {"idle", "find", "create", "other", "self"}
  BY <1>1 DEF TypeOK, Kinds
<1>3. CASE Save(w)
  <2>1. PICK p \in Photos : /\ ~IsSaved(p)
                            /\ photo' = [photo EXCEPT ![w] = p]
    BY <1>3 DEF Save
  <2>2. photo'[w] = p /\ pc'[w] = "find" /\ group' = group /\ kind'[w] = kind[w]
    BY <1>1, <1>3, <2>1 DEF Save, TypeOK
  <2>3. \A k \in Kinds : group[k][p] = 0
    BY <1>1, <2>1 DEF GroupsAreHomogeneous, Fits
  <2>4. QED
    BY <1>2, <2>2, <2>3 DEF Ungrouped
<1>4. CASE Find(w)
  <2>1. group' = group /\ pc[w] = "find"
    BY <1>4 DEF Find, rowVars, At
  <2>2. CASE EndCheck(w)
    BY <1>1, <1>2, <2>1, <2>2, EndedCheck DEF Ungrouped
  <2>3. CASE ~EndCheck(w)
    <3>1. PICK q \in Matches(kind[w], photo[w]) :
            /\ Goto(w, IF group[kind[w]][q] = 0 THEN "create" ELSE "self")
            /\ other' = [other EXCEPT ![w] = q]
      BY <1>4, <2>3 DEF Find, CallFails, CheckRaises
    <3>2. other'[w] = q
      BY <1>1, <3>1 DEF TypeOK
    <3>3. /\ pc'[w] = IF group[kind[w]][q] = 0 THEN "create" ELSE "self"
          /\ kind'[w] = kind[w] /\ photo'[w] = photo[w]
      BY <1>1, <3>1, GoesOn
    <3>4. QED
      BY <2>1, <3>2, <3>3 DEF Ungrouped
  <2>4. QED
    BY <2>2, <2>3
<1>5. CASE Create(w)
  <2>1. group' = group /\ pc[w] = "create"
    BY <1>5 DEF Create, At
  <2>2. CASE EndCheck(w)
    BY <1>1, <1>2, <2>1, <2>2, EndedCheck DEF Ungrouped
  <2>3. CASE ~EndCheck(w)
    <3>1. Goto(w, "other") /\ other' = other
      BY <1>5, <2>3 DEF Create, CallFails, CheckRaises
    <3>2. pc'[w] = "other" /\ kind'[w] = kind[w] /\ photo'[w] = photo[w]
      BY <1>1, <3>1, GoesOn
    <3>3. QED
      BY <2>1, <3>1, <3>2 DEF Ungrouped
  <2>4. QED
    BY <2>2, <2>3
<1>6. CASE AssignOther(w)
  <2>1. /\ pc[w] = "other" /\ photo[w] \in Photos /\ other[w] \in Photos \ {photo[w]}
        /\ group[kind[w]][other[w]] = 0
        /\ group[kind[w]][photo[w]] = 0 /\ group["duplicate"][photo[w]] = 0
    BY <1>1, <1>6 DEF AssignOther, At, Job, Ungrouped
  <2>2. group' = group \/ SetGroup(w, other[w])
    BY <1>6 DEF AssignOther
  <2>3. /\ \A k \in Kinds, p \in Photos : group[k][p] # 0 => group'[k][p] = group[k][p]
        /\ \A k \in Kinds : group'[k][photo[w]] = group[k][photo[w]]
    BY <1>1, <2>1, <2>2, GroupSet
  <2>4. CASE EndCheck(w)
    BY <1>1, <1>2, <2>1, <2>3, <2>4, EndedCheck DEF Ungrouped
  <2>5. CASE ~EndCheck(w)
    <3>1. pc'[w] = "self" /\ kind'[w] = kind[w] /\ photo'[w] = photo[w]
      BY <1>1, <1>6, <2>5, GoesOn DEF AssignOther, CallFails, CheckRaises
    <3>2. QED
      BY <1>2, <2>1, <2>3, <3>1 DEF Ungrouped
  <2>6. QED
    BY <2>4, <2>5
<1>7. CASE AssignSelf(w)
  <2>1. /\ pc[w] = "self" /\ photo[w] \in Photos
        /\ group[kind[w]][photo[w]] = 0 /\ group["duplicate"][photo[w]] = 0
    BY <1>1, <1>7 DEF AssignSelf, At, Job, Ungrouped
  <2>2. group' = group \/ SetGroup(w, photo[w])
    BY <1>7 DEF AssignSelf
  <2>3. \A k \in Kinds, p \in Photos :
          group'[k][p] = group[k][p] \/ (k = kind[w] /\ p = photo[w])
    BY <1>1, <2>1, <2>2, GroupSet
  <2>4. EndCheck(w)
    BY <1>7 DEF AssignSelf, CallFails, CheckRaises
  <2>5. Ungrouped(w)'
    BY <1>1, <1>2, <2>1, <2>3, <2>4, EndedCheck DEF Ungrouped
  <2>6. QED
    BY <2>1, <2>3, <2>5
<1>8. CASE Crash(w)
  <2>1. pc'[w] = "idle" /\ group' = group
    BY <1>1, <1>8 DEF Crash, Idle, rowVars, TypeOK
  <2>2. QED
    BY <2>1 DEF Ungrouped
<1>9. QED
  BY <1>3, <1>4, <1>5, <1>6, <1>7, <1>8 DEF Next

LEMMA UngroupedInvariant ==
  ASSUME NEW w, Workers = {w}
  PROVE  Spec => [](IInv /\ Ungrouped(w))
<1>1. Init => Ungrouped(w)
  BY DEF Init, Ungrouped
<1>2. IInv /\ Ungrouped(w) /\ [Next]_vars => Ungrouped(w)'
  <2>1. IInv /\ Ungrouped(w) /\ Next => Ungrouped(w)'
    BY UngroupedStep
  <2>2. Ungrouped(w) /\ UNCHANGED vars => Ungrouped(w)'
    BY DEF Ungrouped, vars, rowVars, jobVars
  <2>3. QED
    BY <2>1, <2>2
<1>3. QED
  BY <1>1, <1>2, Invariance, PTL DEF Spec

\* With one worker a photo that is in a group stays in it, whatever fails:
\* _check_photo_identity and _check_photo_duplicates only assign photos that
\* have no group.
THEOREM GroupsStayWhole ==
  ASSUME NEW w, Workers = {w} PROVE Spec => GroupsAreStable
<1>1. IInv /\ Ungrouped(w) /\ [Next]_vars =>
        \A k \in Kinds, p \in Photos : group[k][p] # 0 => group'[k][p] = group[k][p]
  <2>1. UNCHANGED vars => group' = group
    BY DEF vars, rowVars
  <2>2. QED
    BY <2>1, UngroupedStep
<1>2. QED
  BY <1>1, UngroupedInvariant, PTL DEF Spec, GroupsAreStable

-------------------------------------------------------------------------------
\* Identical photos, when no call fails either.

\* Equal photos in S are in one identity group.
Together(S) ==
  \A p \in S, q \in S :
    IsSaved(p) /\ IsSaved(q) /\ p # q /\ saved[p] = saved[q] =>
      group["identity"][p] # 0 /\ group["identity"][p] = group["identity"][q]

\* All are, but for the one whose identity is being checked; it is about to
\* join the group its match is in.
AllTogether(w) ==
  IF pc[w] = "idle" \/ kind[w] = "duplicate"
  THEN Together(Photos)
  ELSE /\ Together(Photos \ {photo[w]})
       /\ pc[w] = "self" => target[w] = group["identity"][other[w]]

\* A step that leaves the rows and the check of the worker alone.
LEMMA SameCheck ==
  ASSUME NEW w, AllTogether(w), saved' = saved, group'["identity"] = group["identity"],
         kind'[w] = kind[w], photo'[w] = photo[w], pc[w] # "idle",
         pc'[w] # "self", pc'[w] # "idle"
  PROVE  AllTogether(w)'
BY DEF AllTogether, Together, IsSaved

\* When the identity has been checked all are together.
LEMMA AfterIdentity ==
  ASSUME NEW w, IInv, Workers = {w}, EndCheck(w), Together(Photos)'
  PROVE  AllTogether(w)'
<1>1. TypeOK /\ w \in Workers
  BY DEF IInv
<1>2. pc'[w] = "idle" \/ kind'[w] = "duplicate"
  BY <1>1, EndedCheck
<1>3. QED
  BY <1>2 DEF AllTogether

LEMMA TogetherStep ==
  ASSUME NEW w, Workers = {w}, Faults = {}, IInv, Ungrouped(w), AllTogether(w), Next
  PROVE  AllTogether(w)'
<1>1. w \in Workers /\ TypeOK /\ Job(w)
  BY JobsMeaning
<1>2. /\ kind[w] \in Kinds /\ "identity" \in Kinds
      /\ kind[w] = "identity" \/ kind[w] = "duplicate"
  BY <1>1 DEF TypeOK, Kinds
<1>3. \A fault : ~MayFail(fault)
  BY DEF MayFail
<1>4. CASE Save(w)
  <2>1. PICK p \in Photos, o \in Owners, i \in Images :
          /\ saved' = [saved EXCEPT ![p] = [owner |-> o, image |-> i]]
          /\ photo' = [photo EXCEPT ![w] = p]
    BY <1>4 DEF Save
  <2>2. /\ photo'[w] = p /\ pc'[w] = "find" /\ group' = group /\ kind'[w] = "identity"
        /\ pc[w] = "idle" /\ \A q \in Photos \ {p} : saved'[q] = saved[q]
    BY <1>1, <1>4, <2>1 DEF Save, At, Job, TypeOK
  <2>3. Together(Photos)
    BY <2>2 DEF AllTogether
  <2>4. Together(Photos \ {p})'
    BY <2>2, <2>3 DEF Together, IsSaved
  <2>5. QED
    BY <2>2, <2>4 DEF AllTogether
<1>5. CASE Find(w)
  <2>1. saved' = saved /\ group' = group /\ pc[w] = "find"
        /\ photo[w] \in Photos /\ IsSaved(photo[w])
    BY <1>1, <1>5 DEF Find, rowVars, At, Job
  <2>2. CASE EndCheck(w) /\ ~\E q \in Matches(kind[w], photo[w]) : ~Raises(kind[w], photo[w])
    <3>1. Together(Photos)
      <4>1. CASE kind[w] = "duplicate"
        BY <4>1 DEF AllTogether
      <4>2. CASE kind[w] = "identity"
        <5>1. Identical(photo[w]) = {}
          BY <2>2, <4>2 DEF Matches, Raises
        <5>2. \A q \in Photos \ {photo[w]} : IsSaved(q) => saved[q] # saved[photo[w]]
          BY <5>1 DEF Identical, Candidates
        <5>3. Together(Photos \ {photo[w]})
          BY <2>1, <4>2 DEF AllTogether
        <5>4. QED
          BY <2>1, <5>2, <5>3 DEF Together
      <4>3. QED
        BY <1>2, <4>1, <4>2
    <3>2. Together(Photos)'
      BY <2>1, <3>1 DEF Together, IsSaved
    <3>3. QED
      BY <2>2, <3>2, AfterIdentity
  <2>3. CASE ~(EndCheck(w) /\ ~\E q \in Matches(kind[w], photo[w]) : ~Raises(kind[w], photo[w]))
    <3>1. PICK q \in Matches(kind[w], photo[w]) :
            /\ Goto(w, IF group[kind[w]][q] = 0 THEN "create" ELSE "self")
            /\ other' = [other EXCEPT ![w] = q]
            /\ target' = [target EXCEPT ![w] = group[kind[w]][q]]
      BY <1>3, <1>5, <2>3 DEF Find, CallFails, CheckRaises
    <3>2. other'[w] = q /\ target'[w] = group[kind[w]][q]
      BY <1>1, <3>1 DEF TypeOK
    <3>3. /\ pc'[w] \in {"create", "self"}
          /\ kind'[w] = kind[w] /\ photo'[w] = photo[w]
      BY <1>1, <3>1, GoesOn
    <3>4. Together(Photos \ {photo[w]})' <=> Together(Photos \ {photo[w]})
      BY <2>1, <3>3 DEF Together, IsSaved
    <3>5. Together(Photos)' <=> Together(Photos)
      BY <2>1 DEF Together, IsSaved
    <3>6. QED
      BY <1>2, <2>1, <3>2, <3>3, <3>4, <3>5 DEF AllTogether
  <2>4. QED
    BY <2>2, <2>3
<1>6. CASE Create(w)
  <2>1. /\ saved' = saved /\ group' = group /\ pc[w] = "create"
        /\ Goto(w, "other")
    BY <1>3, <1>6 DEF Create, At, CallFails, CheckRaises
  <2>2. pc'[w] = "other" /\ kind'[w] = kind[w] /\ photo'[w] = photo[w]
    BY <1>1, <2>1, GoesOn
  <2>3. QED
    BY <2>1, <2>2, SameCheck
<1>7. CASE AssignOther(w)
  <2>1. /\ saved' = saved /\ pc[w] = "other" /\ SetGroup(w, other[w])
        /\ Goto(w, "self") /\ other' = other /\ target' = target
        /\ other[w] \in Photos \ {photo[w]} /\ group[kind[w]][other[w]] = 0
    BY <1>1, <1>3, <1>7 DEF AssignOther, At, Job, Ungrouped, CallFails, CheckRaises
  <2>2. pc'[w] = "self" /\ kind'[w] = kind[w] /\ photo'[w] = photo[w]
    BY <1>1, <2>1, GoesOn
  <2>3. \A k \in Kinds, q \in Photos :
          group'[k][q] = IF k = kind[w] /\ q = other[w] THEN target[w] ELSE group[k][q]
    BY <1>1, <2>1, GroupSet
  <2>4. CASE kind[w] = "duplicate"
    <3>1. Together(Photos)
      BY <2>4 DEF AllTogether
    <3>2. \A q \in Photos : group'["identity"][q] = group["identity"][q]
      BY <1>2, <2>3, <2>4
    <3>3. Together(Photos)'
      BY <2>1, <3>1, <3>2 DEF Together, IsSaved
    <3>4. QED
      BY <2>2, <2>4, <3>3 DEF AllTogether
  <2>5. CASE kind[w] = "identity"
    <3>1. Together(Photos \ {photo[w]})
      BY <2>1, <2>5 DEF AllTogether
    <3>2. \A q \in Photos \ {photo[w]} :
            IsSaved(q) /\ q # other[w] /\ IsSaved(other[w]) => saved[q] # saved[other[w]]
      BY <2>1, <2>5, <3>1 DEF Together
    <3>3. \A q \in Photos \ {other[w]} : group'["identity"][q] = group["identity"][q]
      BY <1>2, <2>3
    <3>4. Together(Photos \ {photo[w]})'
      BY <2>1, <2>2, <3>1, <3>2, <3>3 DEF Together, IsSaved
    <3>5. target'[w] = group'["identity"][other'[w]]
      BY <1>2, <2>1, <2>3, <2>5
    <3>6. QED
      BY <2>2, <2>5, <3>4, <3>5 DEF AllTogether
  <2>6. QED
    BY <1>2, <2>4, <2>5
<1>8. CASE AssignSelf(w)
  <2>1. /\ saved' = saved /\ pc[w] = "self" /\ SetGroup(w, photo[w]) /\ EndCheck(w)
        /\ photo[w] \in Photos /\ IsSaved(photo[w]) /\ target[w] # 0
        /\ other[w] \in Photos \ {photo[w]} /\ Alike(kind[w], photo[w], other[w])
    BY <1>1, <1>3, <1>8 DEF AssignSelf, At, Job, CallFails, CheckRaises
  <2>2. \A k \in Kinds, q \in Photos :
          group'[k][q] = IF k = kind[w] /\ q = photo[w] THEN target[w] ELSE group[k][q]
    BY <1>1, <2>1, GroupSet
  <2>3. CASE kind[w] = "duplicate"
    <3>1. Together(Photos)
      BY <2>3 DEF AllTogether
    <3>2. \A q \in Photos : group'["identity"][q] = group["identity"][q]
      BY <1>2, <2>2, <2>3
    <3>3. Together(Photos)'
      BY <2>1, <3>1, <3>2 DEF Together, IsSaved
    <3>4. QED
      BY <2>1, <3>3, AfterIdentity
  <2>4. CASE kind[w] = "identity"
    <3>1. Together(Photos \ {photo[w]}) /\ target[w] = group["identity"][other[w]]
      BY <2>1, <2>4 DEF AllTogether
    <3>2. IsSaved(other[w]) /\ saved[other[w]] = saved[photo[w]]
      <4>1. /\ IsSaved(other[w]) /\ saved[other[w]].owner = saved[photo[w]].owner
            /\ saved[other[w]].image = saved[photo[w]].image
        BY <2>1, <2>4 DEF Alike
      <4>2. \A q \in Photos : IsSaved(q) => saved[q] \in [owner : Owners, image : Images]
        BY <1>1 DEF TypeOK, IsSaved
      <4>3. QED
        BY <2>1, <4>1, <4>2
    <3>3. \A q \in Photos \ {photo[w]} :
            /\ group'["identity"][q] = group["identity"][q]
            /\ IsSaved(q) /\ saved[q] = saved[photo[w]] => group["identity"][q] = target[w]
      BY <1>2, <2>1, <2>2, <3>1, <3>2 DEF Together
    <3>4. group'["identity"][photo[w]] = target[w]
      BY <1>2, <2>1, <2>2, <2>4
    <3>5. Together(Photos)'
      BY <2>1, <3>1, <3>3, <3>4 DEF Together, IsSaved
    <3>6. QED
      BY <2>1, <3>5, AfterIdentity
  <2>5. QED
    BY <1>2, <2>3, <2>4
<1>9. CASE Crash(w)
  BY <1>3, <1>9 DEF Crash
<1>10. QED
  BY <1>4, <1>5, <1>6, <1>7, <1>8, <1>9 DEF Next

\* docs/src/architecture.md:187, for one worker and calls that do not fail: all
\* analysed photos of one owner with equal bytes are in one identity group.
THEOREM IdenticalTogether ==
  ASSUME NEW w, Workers = {w}, Faults = {} PROVE Spec => []IdenticalShareGroup
<1>1. Init => AllTogether(w)
  BY DEF Init, AllTogether, Together, IsSaved
<1>2. IInv /\ Ungrouped(w) /\ AllTogether(w) /\ [Next]_vars => AllTogether(w)'
  <2>1. AllTogether(w) /\ UNCHANGED vars => AllTogether(w)'
    BY DEF AllTogether, Together, IsSaved, vars, rowVars, jobVars
  <2>2. QED
    BY <2>1, TogetherStep
<1>3. AllTogether(w) => IdenticalShareGroup
  BY DEF AllTogether, Together, IdenticalShareGroup, Quiet, At
<1>4. QED
  BY <1>1, <1>2, <1>3, UngroupedInvariant, PTL DEF Spec

-------------------------------------------------------------------------------
\* Every row of groups is a group, when no call fails.

\* Each photo of duplicate group g, but x, is near another one of the group.
NearInside(g, x) ==
  groups[g].kind = "duplicate" =>
    \A p \in Members("duplicate", g) \ {x} : HasNear(p, Members("duplicate", g))

Held(g) == /\ \E p \in Photos, q \in Photos :
                p # q /\ {p, q} \subseteq Members(groups[g].kind, g)
           /\ NearInside(g, NoPhoto)

\* All groups hold together, but for the one the worker has made and is filling.
AllHeld(w) ==
  /\ \A g \in 1..Len(groups) : Held(g) \/ (pc[w] \in {"other", "self"} /\ g = target[w])
  /\ pc[w] = "other" => Members(kind[w], target[w]) = {}
  /\ pc[w] = "self" => group[kind[w]][other[w]] = target[w] /\ NearInside(target[w], other[w])

LEMMA GroupKind == ASSUME TypeOK, NEW g \in 1..Len(groups) PROVE groups[g].kind \in Kinds
<1>1. groups \in Seq([kind : Kinds, owner : Owners, image : Images])
  BY DEF TypeOK
<1>2. groups[g] \in [kind : Kinds, owner : Owners, image : Images]
  <2>1. ASSUME NEW S, NEW s \in Seq(S), NEW i \in 1..Len(s) PROVE s[i] \in S
    OBVIOUS
  <2>2. QED
    BY <1>1, <2>1
<1>3. QED
  BY <1>2

\* A member is a photo, and has a row.
LEMMA MembersAreSaved ==
  ASSUME IInv, NEW k \in Kinds, NEW g \in 1..Len(groups), NEW p \in Members(k, g)
  PROVE  p \in Photos /\ IsSaved(p) /\ p # NoPhoto /\ groups[g].kind = k
<1>1. p \in Photos /\ group[k][p] = g /\ g # 0
  BY DEF Members
<1>2. Fits(k, p, g)
  BY <1>1 DEF IInv, GroupsAreHomogeneous
<1>3. p # NoPhoto
  BY <1>1, GroupsAssumption
<1>4. QED
  BY <1>1, <1>2, <1>3 DEF Fits

LEMMA HeldIsNear ==
  ASSUME IInv, NEW g \in 1..Len(groups), NEW x, Held(g) PROVE NearInside(g, x)
<1>1. "duplicate" \in Kinds
  BY DEF Kinds
<1>2. \A p \in Members("duplicate", g) : p # NoPhoto
  BY <1>1, MembersAreSaved
<1>3. QED
  BY <1>2 DEF Held, NearInside

\* A group whose rows stay what they are, and that nobody joins, is as before.
LEMMA GroupUntouched ==
  ASSUME IInv, NEW g \in 1..Len(groups), NEW x, groups'[g] = groups[g],
         \A k \in Kinds : Members(k, g)' = Members(k, g),
         \A p \in Photos : IsSaved(p) => saved'[p] = saved[p]
  PROVE  (Held(g) => Held(g)') /\ (NearInside(g, x) => NearInside(g, x)')
<1>1. "duplicate" \in Kinds /\ TypeOK
  BY DEF Kinds, IInv
<1>2. groups[g].kind \in Kinds
  BY <1>1, GroupKind
<1>3. ASSUME NEW y, NearInside(g, y) PROVE NearInside(g, y)'
  <2> DEFINE M == Members("duplicate", g)
  <2>1. M' = M
    BY <1>1
  <2>2. \A p \in M : p \in Photos /\ IsSaved(p) /\ saved'[p] = saved[p]
    BY <1>1, MembersAreSaved
  <2>3. ASSUME NEW p \in M, HasNear(p, M) PROVE HasNear(p, M)'
    <3>1. PICK q \in M \ {p} : /\ IsSaved(q) /\ saved[q].owner = saved[p].owner
                               /\ Hashed(p) \/ Hashed(q)
                               /\ Apart(p, q) <= Threshold
      BY <2>3 DEF HasNear
    <3>2. saved'[p] = saved[p] /\ saved'[q] = saved[q]
      BY <2>2, <3>1
    <3>3. QED
      BY <2>1, <3>1, <3>2 DEF HasNear, IsSaved, Hashed, Apart
  <2>4. QED
    BY <1>3, <2>1, <2>3 DEF NearInside
<1>4. ASSUME Held(g) PROVE Held(g)'
  BY <1>2, <1>3, <1>4 DEF Held
<1>5. QED
  BY <1>3, <1>4

\* A step that moves no photo from its group, adds no group to the table and
\* leaves the worker in no assignment.
LEMMA GroupsUntouched ==
  ASSUME NEW w, Workers = {w}, IInv, AllHeld(w), UNCHANGED <<group, groups>>,
         \A p \in Photos : IsSaved(p) => saved'[p] = saved[p],
         pc[w] \notin {"other", "self"}, pc'[w] \notin {"other", "self"}
  PROVE  AllHeld(w)'
<1>1. \A g : \A k \in Kinds : Members(k, g)' = Members(k, g)
  BY DEF Members
<1>2. \A g \in 1..Len(groups) : Held(g) /\ Held(g)'
  BY <1>1, GroupUntouched DEF AllHeld
<1>3. QED
  BY <1>2 DEF AllHeld

\* Photo p, which was in no group, joins the group of the worker.
LEMMA OneJoins ==
  ASSUME IInv, NEW w \in Workers, NEW p \in Photos, SetGroup(w, p),
         group[kind[w]][p] = 0, target[w] \in 1..Len(groups),
         saved' = saved, groups' = groups
  PROVE  /\ {q \in Photos : group'[kind[w]][q] = target[w]}
               = Members(kind[w], target[w]) \cup {p}
         /\ \A g \in 1..Len(groups) \ {target[w]} : Held(g) => Held(g)'
<1>1. TypeOK /\ kind[w] \in Kinds
  BY DEF IInv, TypeOK
<1>2. \A k \in Kinds, q \in Photos :
        group'[k][q] = IF k = kind[w] /\ q = p THEN target[w] ELSE group[k][q]
  BY <1>1, GroupSet
<1>3. {q \in Photos : group'[kind[w]][q] = target[w]} = Members(kind[w], target[w]) \cup {p}
  BY <1>1, <1>2 DEF Members
<1>4. ASSUME NEW g \in 1..Len(groups) \ {target[w]}, NEW k \in Kinds
      PROVE  Members(k, g)' = Members(k, g)
  BY <1>1, <1>2, <1>4 DEF Members
<1>5. \A g \in 1..Len(groups) \ {target[w]} : Held(g) => Held(g)'
  BY <1>4, GroupUntouched
<1>6. QED
  BY <1>3, <1>5

LEMMA HeldStep ==
  ASSUME NEW w, Workers = {w}, Faults = {}, IInv, Ungrouped(w), AllHeld(w), Next
  PROVE  AllHeld(w)'
<1>1. w \in Workers /\ TypeOK /\ Job(w)
  BY JobsMeaning
<1>2. kind[w] \in Kinds /\ Len(groups) \in Nat
  BY <1>1 DEF TypeOK
<1>3. \A fault : ~MayFail(fault)
  BY DEF MayFail
<1>4. CASE Save(w)
  <2>1. PICK p \in Photos, o \in Owners, i \in Images :
          /\ ~IsSaved(p)
          /\ saved' = [saved EXCEPT ![p] = [owner |-> o, image |-> i]]
    BY <1>4 DEF Save
  <2>2. \A q \in Photos : IsSaved(q) => saved'[q] = saved[q]
    BY <1>1, <2>1 DEF TypeOK
  <2>3. pc[w] = "idle" /\ pc'[w] = "find" /\ UNCHANGED <<group, groups>>
    BY <1>1, <1>4 DEF Save, At, TypeOK
  <2>4. QED
    BY <2>2, <2>3, GroupsUntouched
<1>5. CASE Find(w)
  <2>1. saved' = saved /\ group' = group /\ groups' = groups /\ pc[w] = "find"
    BY <1>5 DEF Find, rowVars, At
  <2>2. CASE pc'[w] # "self"
    <3>1. pc'[w] # "other"
      <4>1. CASE EndCheck(w)
        BY <1>1, <4>1, EndedCheck
      <4>2. CASE ~EndCheck(w)
        BY <1>1, <1>5, <4>2, GoesOn DEF Find, CallFails, CheckRaises
      <4>3. QED
        BY <4>1, <4>2
    <3>2. QED
      BY <2>1, <2>2, <3>1, GroupsUntouched
  <2>3. CASE pc'[w] = "self"
    <3>1. ~EndCheck(w)
      BY <1>1, <2>3, EndedCheck
    <3>2. PICK q \in Matches(kind[w], photo[w]) :
            /\ Goto(w, IF group[kind[w]][q] = 0 THEN "create" ELSE "self")
            /\ other' = [other EXCEPT ![w] = q]
            /\ target' = [target EXCEPT ![w] = group[kind[w]][q]]
      BY <1>5, <3>1 DEF Find, CallFails, CheckRaises
    <3>3. /\ other'[w] = q /\ target'[w] = group[kind[w]][q] /\ kind'[w] = kind[w]
          /\ group[kind[w]][q] # 0 /\ q \in Photos
      <4>1. /\ pc'[w] = IF group[kind[w]][q] = 0 THEN "create" ELSE "self"
            /\ kind'[w] = kind[w]
        BY <1>1, <3>2, GoesOn
      <4>2. other'[w] = q /\ target'[w] = group[kind[w]][q]
        BY <1>1, <3>2 DEF TypeOK
      <4>3. q \in Photos
        BY DEF Matches, Identical, Nearest, Candidates
      <4>4. QED
        BY <2>3, <4>1, <4>2, <4>3
    <3>4. target'[w] \in 1..Len(groups)
      BY <1>1, <1>2, <3>3 DEF TypeOK
    <3>5. \A g : \A k \in Kinds : Members(k, g)' = Members(k, g)
      BY <2>1 DEF Members
    <3>6. \A g \in 1..Len(groups) : Held(g) /\ Held(g)'
      BY <2>1, <3>5, GroupUntouched DEF AllHeld
    <3>7. NearInside(target[w], other[w])'
      <4>1. PICK g \in 1..Len(groups) : g = target'[w]
        BY <3>4
      <4>2. NearInside(g, q)
        BY <3>6, HeldIsNear
      <4>3. NearInside(g, q)'
        BY <2>1, <3>5, <4>2, GroupUntouched
      <4>4. QED
        BY <3>3, <4>1, <4>3 DEF NearInside
    <3>8. QED
      BY <2>1, <2>3, <3>3, <3>6, <3>7 DEF AllHeld
  <2>4. QED
    BY <2>2, <2>3
<1>6. CASE Create(w)
  <2>1. /\ saved' = saved /\ group' = group /\ pc[w] = "create"
        /\ InsertGroup(w) /\ Goto(w, "other")
        /\ target' = [target EXCEPT ![w] = Len(groups) + 1]
    BY <1>3, <1>6 DEF Create, At, CallFails, CheckRaises
  <2>2. pc'[w] = "other" /\ kind'[w] = kind[w]
    BY <1>1, <2>1, GoesOn
  <2>3. target'[w] = Len(groups) + 1
    BY <1>1, <2>1 DEF TypeOK
  <2>4. Len(groups') = Len(groups) + 1 /\ \A g \in 1..Len(groups) : groups'[g] = groups[g]
    <3>1. PICK x : groups' = Append(groups, x)
      BY <2>1 DEF InsertGroup
    <3>2. groups \in Seq([kind : Kinds, owner : Owners, image : Images])
      BY <1>1 DEF TypeOK
    <3>3. QED
      BY <3>1, <3>2
  <2>5. \A g : \A k \in Kinds : Members(k, g)' = Members(k, g)
    BY <2>1 DEF Members
  <2>6. \A g \in 1..Len(groups) : Held(g)'
    BY <2>1, <2>4, <2>5, GroupUntouched DEF AllHeld
  <2>7. Members(kind[w], Len(groups) + 1) = {}
    BY <1>1, <1>2 DEF Members, TypeOK
  <2>8. Members(kind[w], target[w])' = {}
    BY <1>2, <2>1, <2>2, <2>3, <2>7 DEF Members
  <2>9. QED
    BY <1>2, <2>2, <2>3, <2>4, <2>6, <2>8 DEF AllHeld
<1>7. CASE AssignOther(w)
  <2>1. /\ saved' = saved /\ groups' = groups /\ pc[w] = "other" /\ SetGroup(w, other[w])
        /\ Goto(w, "self") /\ other' = other /\ target' = target
        /\ group[kind[w]][other[w]] = 0
    BY <1>1, <1>3, <1>7 DEF AssignOther, At, Ungrouped, CallFails, CheckRaises
  <2>2. other[w] \in Photos /\ target[w] \in 1..Len(groups)
        /\ groups[target[w]].kind = kind[w]
    BY <1>1, <2>1, Assignable DEF Fits
  <2>3. pc'[w] = "self" /\ kind'[w] = kind[w]
    BY <1>1, <2>1, GoesOn
  <2>4. /\ {p \in Photos : group'[kind[w]][p] = target[w]}
             = Members(kind[w], target[w]) \cup {other[w]}
        /\ \A g \in 1..Len(groups) \ {target[w]} : Held(g) => Held(g)'
    BY <1>1, <2>1, <2>2, OneJoins
  <2>5. \A g \in 1..Len(groups) : Held(g)' \/ g = target[w]
    BY <2>4 DEF AllHeld
  <2>6. {p \in Photos : group'[kind[w]][p] = target[w]} = {other[w]}
    BY <2>1, <2>4 DEF AllHeld
  <2>7. group'[kind[w]][other[w]] = target[w]
    BY <2>6
  <2>8. NearInside(target[w], other[w])'
    BY <2>1, <2>2, <2>6 DEF NearInside, Members
  <2>9. QED
    BY <2>1, <2>3, <2>5, <2>7, <2>8 DEF AllHeld
<1>8. CASE AssignSelf(w)
  <2>1. /\ saved' = saved /\ groups' = groups /\ pc[w] = "self" /\ SetGroup(w, photo[w])
        /\ EndCheck(w) /\ group[kind[w]][photo[w]] = 0
    BY <1>3, <1>8 DEF AssignSelf, At, Ungrouped, CallFails, CheckRaises
  <2>2. /\ photo[w] \in Photos /\ target[w] \in 1..Len(groups)
        /\ groups[target[w]].kind = kind[w] /\ IsSaved(photo[w])
    BY <1>1, <2>1, Assignable DEF Fits
  <2>3. /\ other[w] \in Photos \ {photo[w]} /\ Alike(kind[w], photo[w], other[w])
        /\ kind[w] = "duplicate" => Hashed(photo[w])
    BY <1>1, <2>1 DEF Job
  <2>4. pc'[w] \notin {"other", "self"}
    BY <1>1, <2>1, EndedCheck
  <2> PICK M : M = {p \in Photos : group'[kind[w]][p] = target[w]}
    OBVIOUS
  <2>5. /\ M = Members(kind[w], target[w]) \cup {photo[w]}
        /\ \A g \in 1..Len(groups) \ {target[w]} : Held(g) => Held(g)'
    BY <1>1, <2>1, <2>2, OneJoins
  <2>6. /\ NearInside(target[w], other[w])
        /\ other[w] \in Members(kind[w], target[w])
    BY <2>1, <2>3 DEF AllHeld, Members
  <2>7. {photo[w], other[w]} \subseteq M
    BY <2>5, <2>6
  <2>8. ASSUME kind[w] = "duplicate" PROVE \A p \in M : HasNear(p, M)
    <3>1. /\ Near(photo[w], other[w]) /\ Hashed(photo[w])
          /\ IsSaved(other[w]) /\ saved[other[w]].owner = saved[photo[w]].owner
      BY <2>3, <2>8 DEF Alike
    <3>2. Near(other[w], photo[w])
      BY <2>2, <2>3, <3>1, NearSymmetric
    <3>3. HasNear(photo[w], M)
      BY <2>3, <2>7, <3>1 DEF HasNear, Near
    <3>4. HasNear(other[w], M)
      BY <2>2, <2>3, <2>7, <3>1, <3>2 DEF HasNear, Near
    <3>5. \A p \in Members(kind[w], target[w]) \ {other[w]} : HasNear(p, M)
      BY <2>2, <2>5, <2>6, <2>8 DEF NearInside, HasNear
    <3>6. QED
      BY <2>5, <3>3, <3>4, <3>5
  <2>9. PICK g \in 1..Len(groups) : g = target[w]
    BY <2>2
  <2>10. PICK k \in Kinds : k = kind[w]
    BY <1>2
  <2>11. Members(k, g)' = M
    BY <2>9, <2>10 DEF Members
  <2>12. Held(g)'
    <3>1. \A p \in M : HasNear(p, M)' <=> HasNear(p, M)
      BY <2>1 DEF HasNear, IsSaved, Hashed, Apart
    <3>2. groups'[g].kind = k
      BY <2>1, <2>2, <2>9, <2>10
    <3>3. NearInside(g, NoPhoto)'
      <4> SUFFICES ASSUME k = "duplicate"
                   PROVE  \A p \in Members(k, g)' : HasNear(p, Members(k, g))'
        BY <3>2 DEF NearInside
      <4>1. \A p \in M : HasNear(p, M)
        BY <2>8, <2>10
      <4>2. QED
        BY <2>11, <3>1, <4>1 DEF HasNear
    <3>4. photo[w] \in Photos /\ other[w] \in Photos /\ photo[w] # other[w]
      BY <2>2, <2>3
    <3>5. QED
      BY <2>7, <2>11, <3>2, <3>3, <3>4 DEF Held
  <2>13. \A h \in 1..Len(groups) : Held(h)'
    BY <2>5, <2>9, <2>12 DEF AllHeld
  <2>14. QED
    BY <2>1, <2>4, <2>13 DEF AllHeld
<1>9. CASE Crash(w)
  BY <1>3, <1>9 DEF Crash
<1>10. QED
  BY <1>4, <1>5, <1>6, <1>7, <1>8, <1>9 DEF Next

\* For one worker and calls that do not fail, every row of groups has two photos
\* or more, and a photo of a duplicate group has a near one in the same group.
THEOREM GroupsHold ==
  ASSUME NEW w, Workers = {w}, Faults = {}, IsFiniteSet(Photos)
  PROVE  Spec => []GroupsHoldTogether
<1>1. Init => AllHeld(w)
  BY DEF Init, AllHeld
<1>2. IInv /\ Ungrouped(w) /\ AllHeld(w) /\ [Next]_vars => AllHeld(w)'
  <2>1. AllHeld(w) /\ UNCHANGED vars => AllHeld(w)'
    BY DEF AllHeld, Held, NearInside, Members, HasNear, IsSaved, Hashed, Apart,
           vars, rowVars, jobVars
  <2>2. QED
    BY <2>1, HeldStep
<1>3. IInv /\ AllHeld(w) => GroupsHoldTogether
  <2> SUFFICES ASSUME IInv, AllHeld(w), Quiet, NEW g \in 1..Len(groups)
               PROVE  /\ Cardinality(Members(groups[g].kind, g)) >= 2
                      /\ groups[g].kind = "duplicate" =>
                           \A p \in Members(groups[g].kind, g) :
                             HasNear(p, Members(groups[g].kind, g))
    BY DEF GroupsHoldTogether
  <2>1. Held(g)
    BY DEF AllHeld, Quiet, At
  <2> DEFINE M == Members(groups[g].kind, g)
  <2>2. Cardinality(M) >= 2
    <3>1. PICK p \in Photos, q \in Photos : p # q /\ {p, q} \subseteq M
      BY <2>1 DEF Held
    <3>2. IsFiniteSet(M)
      BY FS_Subset DEF Members
    <3>3. Cardinality({p, q}) = 2
      <4>1. Cardinality({p}) = 1 /\ IsFiniteSet({p})
        BY FS_Singleton
      <4>2. Cardinality({p} \cup {q}) = Cardinality({p}) + 1
        BY <3>1, <4>1, FS_AddElement
      <4>3. {p, q} = {p} \cup {q}
        OBVIOUS
      <4>4. Cardinality({p, q}) = Cardinality({p}) + 1
        BY <4>2, <4>3
      <4>5. QED
        BY <4>1, <4>4
    <3>4. Cardinality({p, q}) <= Cardinality(M) /\ Cardinality(M) \in Nat
      BY <3>1, <3>2, FS_Subset, FS_CardinalityType
    <3>5. QED
      BY <3>3, <3>4
  <2>3. groups[g].kind = "duplicate" => \A p \in M : HasNear(p, M)
    <3>1. groups[g].kind \in Kinds
      BY GroupKind DEF IInv
    <3>2. \A p \in M : p # NoPhoto
      BY <3>1, MembersAreSaved
    <3>3. QED
      BY <2>1, <3>2 DEF Held, NearInside
  <2>4. QED
    BY <2>2, <2>3
<1>4. QED
  BY <1>1, <1>2, <1>3, UngroupedInvariant, PTL DEF Spec
===============================================================================
