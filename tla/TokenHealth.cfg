CONSTANTS
  NoBatch = NoBatch
  NoState = NoState
  NoPage = NoPage
  Pages = {g1}
  Batches = {b1}
  States = {s1}
  Api = {a1, a2}
  PatchTargets = {"paused"}
  Granted = {"fresh", "expiring"}
  MaxEdits = 1
  Workers = {w1, w2}
  MaxMessages = 1
  MaxOutages = 1
  MaxFaults = 2
SPECIFICATION FairSpec
INVARIANTS
  TypeOK
  PagesHaveBatches
  StateUsedOnce
  SetUpByOperator
  AlarmHasCause
  ExpiryIsAlerted
PROPERTIES
  HealedByEditor
  DeadTokenIsNoticed
