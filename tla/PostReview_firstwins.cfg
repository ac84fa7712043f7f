CONSTANTS
  g1 = g1
  NoProcess = NoProcess
  NoPost = NoPost
  Posts = {p1}
  Pages = {g1}
  PageOf <- OnePage
  Api = {a1, a2}
  PatchTargets = {}
  MaxEdits = 0
  MaxLost = 0
SPECIFICATION Spec
PROPERTIES
  FirstActionWins
