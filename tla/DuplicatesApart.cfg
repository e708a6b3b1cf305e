\* One worker, no faults, three photos of which one is near both others.
SPECIFICATION Spec
CONSTANTS
  a = a  b = b  c = c  d = d  e = e
  p1 = p1  p2 = p2  p3 = p3
  w1 = w1
  anon = anon
  Photos = {p1, p2, p3}
  Workers = {w1}
  Owners = {anon}
  Anonymous = anon
  Images = {a, b, c}
  Bits <- MCBits
  Hash <- MCHash
  Quality <- MCQuality
  Hashable <- MCHashable
  Parsable <- MCParsable
  Threshold = 3
  NoPhoto = NoPhoto
  NotSaved = NotSaved
  Faults = {}
SYMMETRY MCSymmetry
INVARIANTS DuplicatesShareGroup
CHECK_DEADLOCK FALSE
