SPECIFICATION BuffersSpec
CONSTANTS
  Values = {a, b}
  NONE = NONE
  MaxCapacity = 4
  Item = z
  MaxControl = 6
  MinControls = {0, 2, 5}
INVARIANTS
  Consistent
PROPERTIES
  ImplementsList
  KeepsIterators
  KeepsMinimum
SYMMETRY
  Symmetry
VIEW
  View
