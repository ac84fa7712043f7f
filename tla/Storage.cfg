SPECIFICATION Spec
CONSTANTS
  Posts = {p1, p2}
  Keys = {k1, k2}
  Rows = {m1, m2, m3}
  Hashes = {h1, h2}
  Sizes <- SignedSizes
  Limit = 1
  Api = {a1, a2}
  None = None
SYMMETRY Interchangeable
INVARIANT TypeOK
INVARIANT UsageIsRight
INVARIANT MediaDistinct
INVARIANT MissingObjectExplained
PROPERTY ImplementsLedger
VIEW Seen
CONSTRAINT Few
