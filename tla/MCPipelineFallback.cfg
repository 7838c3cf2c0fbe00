SPECIFICATION Spec
CONSTANTS
  Msgs = {1, 2, 3}
  NoMsg = NoMsg
  BadInput = BadInput
  Pipe = Pipe
  Content <- MCContent
  Window = 2
  SendRoom = 2
  IdLists <- MCRetrLists
  MaxBatches = 1
INVARIANTS RetrManyInOrder
