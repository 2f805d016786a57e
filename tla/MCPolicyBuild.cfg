CONSTANTS
  Members = {"app", "util"}
  Dependencies = {"dep"}
  Paths <- MCPaths
  Sources <- MCSources
  Setups <- MCSetups
  DeniedLints <- MCDenied
SPECIFICATION Spec
INVARIANTS
  TypeOK
  NoExemptionShips
  BlameDeserved
PROPERTIES
  GateSpec
  BuildEnds
