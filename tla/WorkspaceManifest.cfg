SPECIFICATION Spec
CONSTANTS
  Depth = 2
INVARIANTS TypeOK ReportsGoverning
PROPERTIES Terminates
