SPECIFICATION FairSpec
CONSTANTS
  a1 = a1
  a2 = a2
  a3 = a3
  replica1 = replica1
  replica2 = replica2
  Attempts <- MCAttempts
  OwnerOf <- MCOwnerOf
  TTL = 2
  MaxToken = 3
  SlowRenew = FALSE
  NoLease = NoLease
  Nobody = Nobody
INVARIANTS
  AtMostOneLiveHolder
PROPERTIES
  LiveLeaseOnlyEndsByItsHolder
  
  DeadHolderIsReplaced
CHECK_DEADLOCK FALSE
