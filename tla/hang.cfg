\* TLC finds the promise of the comment at esp32wroom.c:792 broken.
SPECIFICATION FairSpec
CONSTANTS
  MaxMails = 0
  MaxFaults = 0
  MaxRestarts = 1
  Recipients = 1
  Packets = 1
  PagePackets = 1
  CanSend = {TRUE}
  Faults = {"silence"}
PROPERTIES RestartedWhenSilent
CHECK_DEADLOCK FALSE
