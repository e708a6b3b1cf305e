--------------------------- MODULE PhotoViewsProofs ---------------------------
(***************************************************************************)
(* What the API shows of the groups, for any readers, owners, images and   *)
(* faults: the access rules of photos and of groups agree, because a photo *)
(* and its groups have one owner.                                          *)
(***************************************************************************)
EXTENDS PhotoViews, PhotoGroupsProofs

\* A list holds nothing that the single read would refuse.
LEMMA ListedIsReadable ==
  ASSUME NEW reader \in Owners
  PROVE  /\ \A p \in Photos : ListsPhoto(reader, p) => OpensPhoto(reader, p)
         /\ \A g \in 1..Len(groups) : ListsGroup(reader, g) => OpensGroup(reader, g)
BY DEF ListsPhoto, OpensPhoto, PhotoIsPrivate, ListsGroup, OpensGroup, GroupIsPrivate

\* What PhotoGroups says of the groups is all a link needs.
LEMMA HomogeneousLinksResolve == TypeOK /\ GroupsAreHomogeneous => LinksResolve
<1> SUFFICES ASSUME TypeOK, GroupsAreHomogeneous PROVE LinksResolve
  OBVIOUS
<1>1. ASSUME NEW p \in Photos, NEW k \in Kinds, group[k][p] # 0
      PROVE  LinkLeads(p, group[k][p]) /\ groups[group[k][p]].kind = k
  <2> DEFINE g == group[k][p]
  <2>1. groups[g].kind = k /\ groups[g].owner = saved[p].owner
    BY <1>1 DEF GroupsAreHomogeneous, Fits
  <2>2. p \in GroupPhotos(g)
    BY <2>1 DEF GroupPhotos, Members
  <2>3. QED
    BY <2>1, <2>2 DEF LinkLeads, OpensPhoto, OpensGroup, ListsPhoto, ListsGroup,
                      PhotoIsPrivate, GroupIsPrivate
<1>2. \A p \in Photos : \A g \in ShownGroups(p) : LinkLeads(p, g)
  BY <1>1 DEF ShownGroups
<1>3. QED
  BY <1>1, <1>2, ListedIsReadable DEF LinksResolve, ShownGroup

\* Whatever the workers do to the groups, every group id a photo is shown with
\* can be opened by whoever can open the photo, and shows it; a group shows no
\* photo its reader may not open.
THEOREM LinksAlwaysResolve == Spec => []LinksResolve
<1>1. IInv => LinksResolve
  BY HomogeneousLinksResolve DEF IInv
<1>2. QED
  BY <1>1, Invariance, PTL
===============================================================================
