\* Two photos in the log, every fault of the consumer group and crashes of workers;
\* the database and the producer answer.
SPECIFICATION Spec
CONSTANTS
  p1 = p1
  p2 = p2
  w1 = w1
  w2 = w2
  Photos = {p1, p2}
  Workers = {w1, w2}
  NoWorker = NoWorker
  NoPhoto = NoPhoto
  Faults = {"minio", "resend", "commit", "rebalance", "sigterm", "crash"}
  MaxTries = 1
  MaxRetries = 5
  MaxIncidents = 1
  MaxResend = 2
SYMMETRY MCSymmetry
INVARIANTS CommittedWasClaimed PendingIsQueued
CHECK_DEADLOCK FALSE
