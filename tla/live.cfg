SPECIFICATION FairSpec
CONSTANTS
  MaxMails = 1
  MaxFaults = 1
  MaxRestarts = 0
  Recipients = 0
  Packets = 1
  PagePackets = 0
  CanSend = {TRUE}
  Faults = {"uart"}
INVARIANTS NoWaitInVain
PROPERTIES    ReceptionRecovers
CHECK_DEADLOCK FALSE
