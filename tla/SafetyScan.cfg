SPECIFICATION Spec
CONSTANTS
  MaxTokens = 7
INVARIANTS TypeOK FoundIffAttached
