SPECIFICATION Spec
CONSTANTS
  Radix = 4
  LowLen = 1
  Configs <- MCConfigs
  Damages = {"int", "huge", "text", "null", "trade"}
  MaxDefects = 2
  Words <- MCWords
  Events <- MCEvents
INVARIANTS
  
  WholeFramesSurvive
  AnswerExact
  ResolutionsAgree
CHECK_DEADLOCK FALSE
