SPECIFICATION FairSpec
CONSTANTS
  Letters = {1, 2, 3}
  Symbols = {4}
  NonASCII = {5}
  Lower <- MCLower
  Dicts <- MCDicts
  Texts <- MCTexts
INVARIANTS TypeOK FailureLinks InBounds MasksOnlyHits
PROPERTIES HasBlackWordExact MasksAllUnlessNested Ends
CHECK_DEADLOCK FALSE
