\* Three sales and two imports of the same legacy invoice, first use of both sequences.
SPECIFICATION Spec
CONSTANTS
  Sales = {a1, a2, a3}
  Imports = {i1, i2}
  Keys = {k1}
  Existing = 0
  None = None
  KeyOf <- MCKeyOf
SYMMETRY Symmetry
INVARIANTS
  ConsecutivesDistinct
  NoGaps
  
PROPERTIES
  RegisterKept
