CONSTANTS
  Ids = {0, 1}
  Defaults = {0}
  MAX_DATARATE = 1
  DR_5 = 1
  ADR_ACK_LIMIT = 2
  ADR_ACK_DELAY = 2
  Answers = {"RX_PARAM_SETUP_ANS", "DEV_STATUS_ANS"}
  MaxAnswers = 2
  MaxLength = 6
  MaxFOpts = 2
  Sizes = {1, 4}
  MaxPayload <- MCMaxPayload
  Unacked = FALSE
SPECIFICATION Spec
INVARIANTS TypeOK BufferKept AnswersSent LoopEnds HeardAgain
\* A frame that is put off and then too long is never confirmed (cycle "lost").
CHECK_DEADLOCK FALSE
