SPECIFICATION Spec
CONSTANTS
  Attempt = {x1, x2}
  Name = {n1, n2}
  Ip = {i1}
  MaxPair = 2
  MaxIp = 3
  Window = 2
  x1 = x1
  x2 = x2
  n1 = n1
  n2 = n2
  i1 = i1
SYMMETRY Symmetry
INVARIANTS OvershootBounded OnlyRecentFailuresCount
PROPERTY OnlySuccessForgives
