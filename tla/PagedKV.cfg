\* Three blocks of two cells, two sequences, a fork: the pool runs out in an append.
SPECIFICATION Spec
CONSTANTS
  b1 = b1
  b2 = b2
  b3 = b3
  s1 = s1
  s2 = s2
  f1 = f1
  t1 = t1
  t2 = t2
  Blank = Blank
  Blocks = {b1, b2, b3}
  SeqIds = {s1, s2}
  Forks = {f1}
  Tokens = {t1, t2}
  BlockSize = 2
  MaxAppend = 3
  MaxInitial = 1
  MaxForgotten = 1
SYMMETRY Symmetric
INVARIANTS
  TypeOK
  FreeOrReferenced
  ReferencesAreExact
PROPERTIES
  ImplementsSequences
CHECK_DEADLOCK FALSE
