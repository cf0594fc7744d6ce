\* Two lists, something of two places they may share, and a value.
CONSTANTS
  List = {l1, l2}
  Pair = {p1}
  Leaf = {x}
  Nobody = Nobody
  MaxItems = 2
  Fits <- TreeFits
SPECIFICATION Spec
SYMMETRY Symmetry
INVARIANTS
  TypeOK
  ParentIsHome
  SoleHome
\* A program that has dropped every reference to objects in a cycle has
\* nothing left to call, and nothing frees them.
CHECK_DEADLOCK FALSE
