SPECIFICATION Spec
CONSTANTS
  MaxMails = 2
  MaxFaults = 0
  MaxRestarts = 0
  Recipients = 1
  Packets = 1
  PagePackets = 1
  CanSend = {TRUE}
  Faults = {}
INVARIANTS TypeOK SuccessMeansAccepted ModeMatchesMail OneRequestPerMail
CHECK_DEADLOCK TRUE
PROPERTIES MailStepsAreJobSteps
