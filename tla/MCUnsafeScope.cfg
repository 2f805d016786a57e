SPECIFICATION Spec
CONSTANTS
  Bodies <- MCBodies
INVARIANTS TypeOK NothingHidden NoFalseAlarm
