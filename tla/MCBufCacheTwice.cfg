CONSTANTS
  p1 = p1
  p2 = p2
  b1 = b1
  b2 = b2
  b3 = b3
  s1 = s1
  s2 = s2
  large = large
  NONE = NONE
  Proc = {p1, p2}
  Buf = {b1, b2, b3}
  Pages <- Bufpages
  Block = {s1, s2, large}
  SizeOf <- Sizes
  MaxVersion <- Versions
SPECIFICATION Spec
SYMMETRY Symmetry
INVARIANT OneBufferPerBlock
