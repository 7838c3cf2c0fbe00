SPECIFICATION FairSpec
CONSTANTS
  Msgs = {1, 2}
  NoMsg = NoMsg
  BadInput = BadInput
  Pipe = Pipe
  Content <- MCContent
  Calls = {"LOGIN", "STAT", "RETR", "LIST", "QUIT"}
  MaxCommands = 4
INVARIANTS TypeOK OneOutstanding NoForeignLine RetrievedWhole SessionAgrees
PROPERTIES NoSuccessOnceClosed CallReturns
