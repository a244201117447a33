SPECIFICATION Spec
CONSTANT MaxRestarts = 0
INVARIANTS OneUser
CHECK_DEADLOCK TRUE
