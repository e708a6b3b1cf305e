\* Scrapes of two photos, which may fail at any SELECT.
SPECIFICATION Spec
CONSTANTS
  p1 = p1  p2 = p2
  Photos = {p1, p2}
SYMMETRY MCSymmetry
INVARIANTS TypeOK AttemptsCoverFinished ErrorsAreOvertakers HistogramCoversDone LagMissesNobody ProcessCounterCovered
PROPERTIES CountersNeverFall
