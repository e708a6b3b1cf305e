\* An exception after the claim leaves the row in processing.
SPECIFICATION Spec
CONSTANTS
  p1 = p1
  w1 = w1
  Photos = {p1}
  Workers = {w1}
  NoWorker = NoWorker
  NoPhoto = NoPhoto
  Faults = {"minio"}
  MaxTries = 1
  MaxRetries = 5
  MaxIncidents = 0
  MaxResend = 1
SYMMETRY MCSymmetry
INVARIANTS ProcessingIsWorkedOn
CHECK_DEADLOCK FALSE
