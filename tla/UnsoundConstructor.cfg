SPECIFICATION Spec
CONSTANTS
  Types = {t1, t2}
  MaxNodes = 3
INVARIANTS TypeOK SitesStandAlone NoFalseFinding
