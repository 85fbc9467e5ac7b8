SPECIFICATION FairSpec
CONSTANTS
  c1 = c1
  c2 = c2
  c3 = c3
  CPU <- Two
  Insns = {"inc", "xchg", "lock inc", "lock xchg"}
  Modulus = 3
  CanFault = TRUE
CHECK_DEADLOCK FALSE
INVARIANTS ExclusiveUnlessRaced LockedIsAtomic
PROPERTIES LockReleased
