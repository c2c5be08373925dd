SPECIFICATION Spec
CONSTANTS
  a = a
  b = b
  m = m
  Client = {a, b}
  Mutator = {m}
  Ttl = 1
SYMMETRY Symm
INVARIANTS ServedIsRecent MutationIsSeen
