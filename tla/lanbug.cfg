\* TLC finds the promise of the comment at main.c:336 broken.
SPECIFICATION Spec
CONSTANT MaxClients = 1
INVARIANTS OneAfterAnother
CHECK_DEADLOCK FALSE
