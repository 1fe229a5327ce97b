CONSTANTS
  Requests = {"unconfirmed", "confirmed", "JOIN", "TXCW"}
  AckTrials = {3}
  JoinTrials = {3}
  NbTrials = 3
  ChannelsNbRep = 1
  MAX_ACK_RETRIES = 1
  SendOutcomes = {"now"}
  RadioPreempts = FALSE
  TxTimeouts = TRUE
  LateWindow = FALSE
  Overlap = TRUE
  MaxUpLinkCounter = 3
  Commands = {"enable", "disable", "confirmed", "unconfirmed", "wave", "rejoin"}
SPECIFICATION AppSpec
INVARIANTS Awake
CHECK_DEADLOCK FALSE
