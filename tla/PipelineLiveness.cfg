\* Accepted photos are resolved and the log is drained; processing ones are worked on.
SPECIFICATION FairSpec
CONSTANTS
  p1 = p1
  p2 = p2
  w1 = w1
  w2 = w2
  Photos = {p1, p2}
  Workers = {w1, w2}
  NoWorker = NoWorker
  NoPhoto = NoPhoto
  Faults = {"analyzer", "send", "resend", "rebalance", "sigterm"}
  MaxTries = 2
  MaxRetries = 5
  MaxIncidents = 1
  MaxResend = 1
INVARIANTS ProcessingIsWorkedOn
PROPERTIES AcceptedIsResolved LogIsDrained
CHECK_DEADLOCK FALSE
