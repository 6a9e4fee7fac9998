SPECIFICATION Spec
CONSTANTS
  Texts <- MCTexts
  Parts <- MCParts
  Targets <- MCTargets
  SmallString = 7
INVARIANT ResultInErrorCode
CHECK_DEADLOCK FALSE
