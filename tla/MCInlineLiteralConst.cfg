CONSTANTS
  Names <- MCNames
  Crates <- MCCrates
  NoAttribute = NoAttribute
SPECIFICATION Spec
INVARIANT NamingSitesExempt
