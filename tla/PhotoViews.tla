------------------------------ MODULE PhotoViews ------------------------------
(***************************************************************************)
(* What the API shows of the analysed photos and of their groups: the      *)
(* lists and the single reads of photos_service.py and groups_service.py,  *)
(* with the access rules of PhotoDatabase and GroupDatabase.  The reads    *)
(* change nothing, so that they are operators on the states of PhotoGroups,*)
(* in the middle of any check of any worker.                               *)
(*                                                                         *)
(* A reader is the owner token get_current_user gives: the subject of a    *)
(* JWT that verifies and has not expired, and None, here Anonymous, for    *)
(* every other request.                                                    *)
(***************************************************************************)
EXTENDS PhotoGroups

CONSTANTS
  Anonymous,   \* no owner token, NULL in the rows
  Quality      \* quality_metric of each image, max(0, 255 - blur score)

ASSUME ViewsAssumption == Anonymous \in Owners /\ Quality \in [Images -> Nat]

\* is_private, as create_photo and create_group write it.
PhotoIsPrivate(p) == saved[p].owner # Anonymous
GroupIsPrivate(g) == groups[g].owner # Anonymous

\* PhotoDatabase.list: the reader's own photos, or the public ones.
ListsPhoto(reader, p) ==
  IF reader # Anonymous THEN saved[p].owner = reader ELSE ~PhotoIsPrivate(p)

\* GroupDatabase.list_groups.
ListsGroup(reader, g) ==
  IF reader # Anonymous THEN groups[g].owner = reader ELSE ~GroupIsPrivate(g)

\* PhotoDatabase.get_photo_by_id; AccessDeniedError otherwise.
OpensPhoto(reader, p) == ~(PhotoIsPrivate(p) /\ saved[p].owner # reader)

\* GroupDatabase.get_group_by_id.
OpensGroup(reader, g) == ~(GroupIsPrivate(g) /\ groups[g].owner # reader)

\* The group ids list_photos shows with photo p.
ShownGroups(p) == {group[k][p] : k \in Kinds} \ {0}

\* Those of get_photo_by_id, each under the name of its kind.
ShownGroup(k, p) == group[k][p]

\* Mutant of GroupPhotos: identity_photos, whatever the group is.
GroupPhotosOfOneKind(g) == Members("identity", g)

\* The photos shown in group g: the relationship its is_identity_group selects.
GroupPhotos(g) == Members(groups[g].kind, g)

QualityOf(p) == Quality[saved[p].image]

\* get_group_by_id, lines 33-45: the running maximum over the rows in order.
BestQuality(s) ==
  LET best[i \in 0..Len(s)] ==
        IF i = 0 THEN -1
        ELSE IF QualityOf(s[i]) > best[i - 1] THEN QualityOf(s[i]) ELSE best[i - 1]
  IN best[Len(s)]

\* Mutant of BestPhotos: the loop that marks goes on after the first.
BestPhotosAll(s) == {i \in DOMAIN s : QualityOf(s[i]) = BestQuality(s)}

\* Lines 47-50: the positions marked is_best.
BestPhotos(s) == {i \in DOMAIN s : /\ QualityOf(s[i]) = BestQuality(s)
                                   /\ \A j \in 1..(i - 1) : QualityOf(s[j]) # BestQuality(s)}

-------------------------------------------------------------------------------
\* A group id shown with photo p leads to group g, which shows the photo.
LinkLeads(p, g) ==
  /\ p \in GroupPhotos(g)
  /\ \A reader \in Owners : /\ OpensPhoto(reader, p) <=> OpensGroup(reader, g)
                            /\ ListsPhoto(reader, p) <=> ListsGroup(reader, g)

\* Every group id a photo is shown with leads to a group that shows the photo,
\* is of the kind it is named for and is open to, or listed for, whoever the
\* photo is; and no list names what its reader may not open.  No link of an
\* answer ends in ACCESS_DENIED, and no group shows a photo its reader may not
\* open, however the workers race and fail.
LinksResolve ==
  /\ \A p \in Photos : \A g \in ShownGroups(p) : LinkLeads(p, g)
  /\ \A p \in Photos, k \in Kinds :
       ShownGroup(k, p) # 0 => groups[ShownGroup(k, p)].kind = k
  /\ \A reader \in Owners :
       /\ \A p \in Photos : IsSaved(p) /\ ListsPhoto(reader, p) => OpensPhoto(reader, p)
       /\ \A g \in 1..Len(groups) : ListsGroup(reader, g) => OpensGroup(reader, g)

\* In whatever order the photos of a group come, exactly one is marked is_best
\* and none is better, although identical photos have the same quality.
OneBestPhoto ==
  \A g \in 1..Len(groups) :
    GroupPhotos(g) # {} =>
      \A s \in SetToSeqs(GroupPhotos(g)) :
        \E i \in DOMAIN s : /\ BestPhotos(s) = {i}
                            /\ \A j \in DOMAIN s : QualityOf(s[j]) <= QualityOf(s[i])
===============================================================================
