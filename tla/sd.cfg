SPECIFICATION FairSpec
CONSTANT MaxRestarts = 1
INVARIANTS PermitIsOwed
PROPERTIES PermitComesBack
CHECK_DEADLOCK TRUE
