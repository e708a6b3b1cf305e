\* Every fault, two of the worker incidents, one photo.
SPECIFICATION Spec
CONSTANTS
  p1 = p1
  w1 = w1
  w2 = w2
  Photos = {p1}
  Workers = {w1, w2}
  NoWorker = NoWorker
  NoPhoto = NoPhoto
  Faults = {"db", "minio", "analyzer", "send", "resend", "commit", "rebalance", "sigterm", "crash", "api"}
  MaxTries = 2
  MaxRetries = 5
  MaxIncidents = 2
  MaxResend = 3
SYMMETRY MCSymmetry
INVARIANTS TypeOK QueuedIsReady ClaimExclusive ClaimKeepsRow DoneIffAnalysed AcceptedIsQueued
PROPERTIES LifecycleSpec PublicationSpec
CHECK_DEADLOCK FALSE
