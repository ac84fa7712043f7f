CONSTANTS
  g1 = g1
  NoProcess = NoProcess
  NoPost = NoPost
  Posts = {p1}
  Pages = {g1}
  PageOf <- OnePage
  Api = {a1, a2}
  PatchTargets = {"draft", "queued", "pending_approval"}
  MaxEdits = 2
  MaxLost = 1
SPECIFICATION FairSpec
INVARIANTS
  TypeOK
  OneReviewPerRound
  NoUnwantedCopy
PROPERTIES
  SerialReviewIsFinal
  SubmitFollowsGate
  RequestsFinish
