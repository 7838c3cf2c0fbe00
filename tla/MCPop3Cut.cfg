SPECIFICATION Spec
CONSTANTS
  Msgs = {1, 2}
  NoMsg = NoMsg
  BadInput = BadInput
  Pipe = Pipe
  Content <- MCContent
  Calls = {"LOGIN", "RETR"}
  MaxCommands = 5
INVARIANTS RetrIsComplete
