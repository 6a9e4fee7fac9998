SPECIFICATION Spec
CONSTANTS
  Texts <- MCTexts
  Parts <- MCParts
  Targets <- MCTargets
  SmallString = 7
INVARIANTS
  TypeOK
  AcceptedIffWellFormed
  AccessorsMatchText
  ComponentsRoundTrip
  LengthsAgree
CHECK_DEADLOCK FALSE
