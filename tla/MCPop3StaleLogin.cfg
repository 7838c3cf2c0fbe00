SPECIFICATION Spec
CONSTANTS
  Msgs = {1, 2}
  NoMsg = NoMsg
  BadInput = BadInput
  Pipe = Pipe
  Content <- MCContent
  Calls = {"LOGIN"}
  MaxCommands = 5
INVARIANTS AuthenticatedMeansAccepted
