CONSTANTS
  Requests = {"unconfirmed", "confirmed", "proprietary", "JOIN", "LINK_CHECK", "TXCW"}
  AckTrials = {1, 3}
  JoinTrials = {1, 2}
  ChannelsNbRep = 2
  MAX_ACK_RETRIES = 1
  SendOutcomes = {"now", "later", "length"}
  RadioPreempts = FALSE
  TxTimeouts = FALSE
  LateWindow = FALSE
  Overlap = FALSE
  MaxUpLinkCounter = 3
SPECIFICATION Spec
INVARIANTS TypeOK Attended TrialsBounded CounterFresh ConfirmsAtRest JoinedIfConfirmed NothingForgotten
PROPERTIES SessionKept Confirmed
