SPECIFICATION FairSpec
CONSTANTS
  FirstMail = {1, 2}
  Batches <- MCBatches
  MaxRetries = 1
  MaxCalls = 3
INVARIANTS TypeOK
PROPERTIES OutcomeIsTruthful QuitRemovesConfirmed RefusalIsFinal CallsEnd
