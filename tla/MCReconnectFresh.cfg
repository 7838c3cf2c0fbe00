SPECIFICATION Spec
CONSTANTS
  FirstMail = {1, 2, 3}
  Batches <- MCBatches
  MaxRetries = 1
  MaxCalls = 4
INVARIANTS FreshMeansNoLoss
