SPECIFICATION FairSpec
CONSTANTS
  Receivers = {r1, r2, r3}
  Digests = {d1, d2}
  Garbage = Garbage
  Files = 1
  None = None
INVARIANTS TypeOK OnlyVerified CleanReturn
PROPERTIES PublishedStays LookupKept ImplementsStore LockWaitEnds
CHECK_DEADLOCK FALSE
