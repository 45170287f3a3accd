SPECIFICATION Spec
CONSTANT MaxByte = 3
INVARIANTS
  NeverTorn
  ZeroIsSmall
PROPERTY Returns
