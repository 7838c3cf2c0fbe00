SPECIFICATION Spec
CONSTANTS
  Msgs = {1, 2}
  NoMsg = NoMsg
  BadInput = BadInput
  Pipe = Pipe
  Content <- MCContent
  Calls = {"APOP", "DELE", "RSET", "QUIT"}
  MaxCommands = 5
INVARIANTS QuitCommits OnlyQuitExpunges
PROPERTIES IsTransaction
