SPECIFICATION Spec
CONSTANTS
  a = a
  b = b
INVARIANTS SingleWriter 
 
