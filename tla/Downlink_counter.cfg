CONSTANTS
  FCntMod = 4
  MAX_FCNT_GAP = 2
  MaxDown = 6
SPECIFICATION FairSpec
INVARIANTS TypeOK AckTruthful
PROPERTIES ServiceSpec Acknowledged
