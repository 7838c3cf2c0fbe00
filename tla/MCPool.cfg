SPECIFICATION FairSpec
CONSTANTS
  alice = alice
  Keys <- MCKeys
  t1 = t1
  t2 = t2
  Tasks <- MCTasks
  SelfLogin = {2}
  MaxPools = 2
  MaxQueued = 2
  None = None
INVARIANTS TypeOK OneClientPerAccount HeldByOne RepliesAreOwn
PROPERTIES LentAlive CheckoutReturns IsLock
