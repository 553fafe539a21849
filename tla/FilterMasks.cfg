SPECIFICATION Spec
CONSTANTS
  Letters = {1, 2, 3}
  Symbols = {4}
  NonASCII = {5}
  Lower <- MCLower
  Dicts <- MCDicts
  Texts <- MCTexts
PROPERTIES FilterMasks
CHECK_DEADLOCK FALSE
