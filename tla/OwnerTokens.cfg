\* Two devices of one user and one of another log in, the database fails and
\* the process crashes.
SPECIFICATION FairSpec
CONSTANTS
  l1 = l1  l2 = l2  l3 = l3
  u1 = u1  u2 = u2
  Users = {u1, u2}
  Logins = {l1, l2, l3}
  UserOf <- MCUserOf
  Faults = {"db", "crash"}
  Ttl = 0
  MaxClock = 1
INVARIANTS TypeOK RecognisedHasRow
PROPERTIES RetriedLoginSucceeds
CHECK_DEADLOCK FALSE
