\* Two workers finish identical photos at the same time.
SPECIFICATION Spec
CONSTANTS
  a = a  b = b  c = c  d = d  e = e
  p1 = p1  p2 = p2  p3 = p3
  w1 = w1  w2 = w2
  anon = anon
  Photos = {p1, p2, p3}
  Workers = {w1, w2}
  Owners = {anon}
  Anonymous = anon
  Images = {a}
  Bits <- MCBits
  Hash <- MCHash
  Quality <- MCQuality
  Hashable <- MCHashable
  Parsable <- MCParsable
  Threshold = 2
  NoPhoto = NoPhoto
  NotSaved = NotSaved
  Faults = {}
SYMMETRY MCSymmetry
INVARIANTS IdenticalShareGroup
CHECK_DEADLOCK FALSE
