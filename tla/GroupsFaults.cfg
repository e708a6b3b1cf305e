\* Two workers, two owners, every fault, images with and without a hash.
SPECIFICATION Spec
CONSTANTS
  a = a  b = b  c = c  d = d  e = e
  p1 = p1  p2 = p2  p3 = p3
  w1 = w1  w2 = w2
  anon = anon  o1 = o1
  Photos = {p1, p2, p3}
  Workers = {w1, w2}
  Owners = {anon, o1}
  Anonymous = anon
  Images = {a, b, d, e}
  Bits <- MCBits
  Hash <- MCHash
  Quality <- MCQuality
  Hashable <- MCHashable
  Parsable <- MCParsable
  Threshold = 2
  NoPhoto = NoPhoto
  NotSaved = NotSaved
  Faults = {"db", "crash"}
SYMMETRY MCSymmetry
INVARIANTS TypeOK GroupsAreHomogeneous DuplicatesAreNear SimilarAreNoticed LinksResolve
CHECK_DEADLOCK FALSE
