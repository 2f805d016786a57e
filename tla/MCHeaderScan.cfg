SPECIFICATION Spec
CONSTANTS
  NoUrl = NoUrl
  NoEndpoint = NoEndpoint
  NoDoc = NoDoc
  Docs <- MCDocs
  MaxTokens = 7
INVARIANTS TypeOK FindsHeader
PROPERTIES RefusesOnlyDebris
