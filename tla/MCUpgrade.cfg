SPECIFICATION FairSpec
CONSTANT MaxCommands = 3
INVARIANTS TypeOK NothingCarriedOver RepliesAreOwn ConnectIsAuthenticated NoSecondLogin
PROPERTIES SecretsStayPrivate FailedUpgradeIsFinal CallReturns
