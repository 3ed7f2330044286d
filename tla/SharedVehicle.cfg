SPECIFICATION Spec
CONSTANTS
    Readers = {r1, r2}
    FirstMessages <- MCFirstMessages
    MaxVersion = 2
  
PROPERTY NeverBack
SYMMETRY MCSymmetry
CHECK_DEADLOCK FALSE
