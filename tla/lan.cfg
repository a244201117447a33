SPECIFICATION FairSpec
CONSTANT MaxClients = 2
INVARIANTS LanIsFree
PROPERTIES UiRunsAgain
CHECK_DEADLOCK FALSE
