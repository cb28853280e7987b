SPECIFICATION FairSpec
CONSTANTS
  Limit <- MCLimit
  Entry <- MCEntry
  UI_MODIFY_LEN = 2
  ModifyList <- MCModifyList
  UI_PARAM_MAX_PAGE = 2
INVARIANTS
  NoRemnants
PROPERTIES
  ScreenCatchesUp
