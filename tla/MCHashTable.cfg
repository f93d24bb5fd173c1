SPECIFICATION Spec
CONSTANTS
  k1 = k1
  k2 = k2
  k3 = k3
  k4 = k4
  Keys = {k1, k2, k3, k4}
  Values = {live, dead}
  Lapsed = {dead}
  Absent = Absent
  Hash <- MCHash
  InitialSize = 2
  Sample = 2
INVARIANTS TypeOK Placed LoadBounded NoDanglingPointer SweptClean
PROPERTY ImplementsMap
