SPECIFICATION Spec
CONSTANTS
  MaxMails = 1
  MaxFaults = 1
  MaxRestarts = 1
  Recipients = 1
  Packets = 1
  PagePackets = 2
  CanSend = {TRUE, FALSE}
  Faults = {"silence", "error", "uart", "uartInit", "torn", "overrun"}
INVARIANTS SuccessMeansAccepted ModeMatchesMail
CHECK_DEADLOCK FALSE
