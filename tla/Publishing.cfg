CONSTANTS
  fb = fb
  ig = ig
  x1 = x1
  x2 = x2
  NoWorker = NoWorker
  NoMessage = NoMessage
  NoPostingId = NoPostingId
  Posts = {p1}
  Workers = {w1, w2}
  Pages = {fb}
  FacebookPages = {fb}
  PostingIds = {x1}
  PageOf <- AllOnFacebook
  Assigned <- OneAssigned
  ClientErrors = {"meta_timeout", "token_expired", "posting_id_revoked", "media_rejected"}
  PatchTargets = {"queued", "published", "publishing"}
  MaxReclaims = 3
  MaxRetries = 1
  MaxSends = 2
  MaxRequeues = 1
  MaxFaults = 2
SPECIFICATION FairSpec
INVARIANTS
  TypeOK
  CopiesAccountedFor
  AtMostOncePerQueueing
  NoSilentLoss
PROPERTIES
  PipelineChangesAreLegal
  ImplementsLedger
  Drains
  SentPostSettles
