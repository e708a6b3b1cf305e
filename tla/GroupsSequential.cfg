\* One worker and a database that answers, five photos.
SPECIFICATION Spec
CONSTANTS
  a = a  b = b  c = c  d = d  e = e
  p1 = p1  p2 = p2  p3 = p3  p4 = p4  p5 = p5
  w1 = w1
  anon = anon  o1 = o1
  Photos = {p1, p2, p3, p4, p5}
  Workers = {w1}
  Owners = {anon, o1}
  Anonymous = anon
  Images = {a, b, c, d}
  Bits <- MCBits
  Hash <- MCHash
  Quality <- MCQuality
  Hashable <- MCHashable
  Parsable <- MCParsable
  Threshold = 2
  NoPhoto = NoPhoto
  NotSaved = NotSaved
  Faults = {}
SYMMETRY MCSymmetry
INVARIANTS IdenticalShareGroup GroupsHoldTogether NearestIsFound OneBestPhoto
PROPERTIES GroupsAreStable
CHECK_DEADLOCK FALSE
