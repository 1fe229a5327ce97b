CONSTANTS
  Requests = {"confirmed", "JOIN"}
  AckTrials = {1, 3}
  JoinTrials = {1}
  ChannelsNbRep = 2
  MAX_ACK_RETRIES = 1
  SendOutcomes = {"now", "later"}
  RadioPreempts = TRUE
  TxTimeouts = FALSE
  LateWindow = FALSE
  Overlap = FALSE
  MaxUpLinkCounter = 1
SPECIFICATION Spec
PROPERTIES Confirmed
