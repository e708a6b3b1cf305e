\* Three requests that share a producer, every failure.
SPECIFICATION FairSpec
CONSTANTS
  r1 = r1  r2 = r2  r3 = r3
  boot = boot  none = none
  Requests = {r1, r2, r3}
  Boot = boot
  NoProducer = none
  Failures = {"connect", "other", "admin", "send", "resend", "crash"}
  MaxLog = 2
INVARIANTS TypeOK OneProducer NoDeadProducer
PROPERTIES PublicationSpec EveryCallEnds
