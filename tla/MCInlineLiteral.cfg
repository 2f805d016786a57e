CONSTANTS
  Names <- MCNames
  Crates <- MCCrates
  NoAttribute = NoAttribute
SPECIFICATION Spec
INVARIANTS
  TypeOK
  RegistrationOrderIrrelevant
  AttributeDataSilent
  NestedStringsReported
  MagicNumbersReported
  CastsTransparent
  OneReportPerConstant
