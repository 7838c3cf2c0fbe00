SPECIFICATION FairSpec
CONSTANTS
  Msgs = {1, 2, 3}
  NoMsg = NoMsg
  BadInput = BadInput
  Pipe = Pipe
  Content <- MCContent
  Window = 2
  SendRoom = 2
  IdLists <- MCIdLists
  MaxBatches = 2
INVARIANTS TypeOK InOrder FlushHasRoom ResultsInPlace
PROPERTIES IsOneByOne BatchEnds
