SPECIFICATION Spec
CONSTANTS
  Workers = {w1, w2}
  Pages = {g1, g2}
  PostingIds = {x1, x2}
  ApiProcesses = 1
  NoPostingId = NoPostingId
  NoPage = NoPage
VIEW Ranked
SYMMETRY Interchangeable
INVARIANT TypeOK
INVARIANT BoundedOvertaking
INVARIANT SerialTurns
