CONSTANTS
  Requests = {"unconfirmed", "confirmed", "JOIN", "TXCW", "LINK_CHECK"}
  AckTrials = {3}
  JoinTrials = {3}
  NbTrials = 3
  ChannelsNbRep = 1
  MAX_ACK_RETRIES = 1
  SendOutcomes = {"now", "later", "length"}
  RadioPreempts = FALSE
  TxTimeouts = TRUE
  LateWindow = FALSE
  Overlap = TRUE
  MaxUpLinkCounter = 3
  Commands = {"enable", "disable", "confirmed", "unconfirmed", "wave", "link", "rejoin"}
SPECIFICATION AppSpec
INVARIANTS AppTypeOK AwakeUntilRejoin WaitsForConfirm Attended
PROPERTIES SessionHeld
CHECK_DEADLOCK FALSE
