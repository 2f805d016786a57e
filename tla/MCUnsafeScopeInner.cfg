SPECIFICATION Spec
CONSTANTS
  Bodies <- MCBodies
INVARIANTS InnerBlocksCovered
