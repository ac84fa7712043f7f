---------------------------- MODULE Publishing ----------------------------
(***************************************************************************)
(* The publish pipeline: app/tasks/publishing.py run by Celery workers     *)
(* against Postgres, Redis and the Meta Graph API, with the API requests   *)
(* and token updates that touch the same rows.                             *)
(*                                                                         *)
(* publish_post_impl is ONE database transaction: the claiming UPDATE, the *)
(* reads, the call to Meta and the UPDATE of the outcome.  The variables   *)
(* status, started and reclaims are the COMMITTED columns of posts; what a *)
(* worker has written and not committed is implied by its pc, and the row  *)
(* lock it holds meanwhile is lock.  An exception rolls all of it back,    *)
(* and that includes the failed_temporary a temporary error has written.   *)
(***************************************************************************)
EXTENDS Naturals, PostStatus

CONSTANTS
  Posts, Pages, PostingIds, Workers,
  PageOf,        \* the page of a post
  FacebookPages, \* the pages published to with thread comments
  Assigned,      \* the posting IDs assigned to a page
  ClientErrors,  \* the errors the Meta client may raise
  PatchTargets,  \* the statuses an editor's PATCH sets
  MaxRetries,    \* max_retries of publish_post
  MaxReclaims,   \* the 3 of reclaim_orphans
  MaxSends,      \* bound: messages sent for a post from outside the task
  MaxRequeues,   \* bound: status changes of a post by an editor
  MaxFaults,     \* bound: crashes, time limits and unhandled exceptions
  NoWorker, NoMessage, NoPostingId

\* MetaTimeout, TransientMetaError and RateLimited: retried by Celery.
Temporary == {"meta_timeout", "transient", "rate_limited"}

\* Every class of app/services/meta/errors.py.
MetaErrors == Temporary \cup {"token_expired", "posting_id_revoked", "media_rejected"}

Tries == 0 .. MaxRetries

\* A message of the publish queue: the post, and how often it was retried.
Messages == Posts \X Tries

InTransaction == {"load", "pick", "call", "record"}

PCs == {"idle", "claim", "ack"} \cup InTransaction

ASSUME PublishingConstants ==
  /\ PageOf \in [Posts -> Pages]
  /\ FacebookPages \subseteq Pages
  /\ Assigned \in [Pages -> SUBSET PostingIds]
  /\ ClientErrors \subseteq MetaErrors
  /\ PatchTargets \subseteq Statuses
  /\ MaxRetries \in Nat /\ MaxReclaims \in Nat
  /\ MaxSends \in Nat /\ MaxRequeues \in Nat /\ MaxFaults \in Nat
  /\ NoWorker \notin Workers
  /\ NoMessage \notin Messages
  /\ NoPostingId \notin PostingIds

VARIABLES
  status,    \* posts.status
  started,   \* posts.publishing_started_at is not NULL
  reclaims,  \* posts.reclaim_count
  lock,      \* the worker whose transaction holds the row of a post
  token,     \* pages.encrypted_access_token is not NULL
  retired,   \* the posting IDs with status 'retired'
  queue,     \* the broker's messages, as a bag
  pc,        \* where a worker stands in the task
  msg,       \* the unacknowledged message a worker holds
  picked,    \* the posting ID it chose
  reply,     \* what the Meta client returned or raised
  live,      \* whether Meta accepted the post in this transaction
  meta,      \* the copies of a post that are live on the platform
  recorded,  \* history: publishes committed with their platform post id
  orphaned,  \* history: copies whose transaction did not record them
  sent,      \* history: messages sent from outside the task
  requeues,  \* history: status changes by an editor
  dropped,   \* history: messages given up with the post not settled
  faults     \* history: crashes and aborts so far

rows == <<status, started, reclaims, lock>>
environment == <<token, retired>>
transaction == <<picked, reply, live>>
platform == <<meta, recorded, orphaned>>
history == <<sent, requeues, dropped, faults>>
vars == <<rows, environment, queue, pc, msg, transaction, platform, history>>

-----------------------------------------------------------------------------
TypeOK ==
  /\ status \in [Posts -> Statuses]
  /\ started \in [Posts -> BOOLEAN]
  /\ reclaims \in [Posts -> Nat]
  /\ lock \in [Posts -> Workers \cup {NoWorker}]
  /\ token \in [Pages -> BOOLEAN]
  /\ retired \in SUBSET PostingIds
  /\ queue \in [Messages -> Nat]
  /\ pc \in [Workers -> PCs]
  /\ msg \in [Workers -> Messages \cup {NoMessage}]
  /\ picked \in [Workers -> PostingIds \cup {NoPostingId}]
  /\ reply \in [Workers -> MetaErrors \cup {"none", "ok"}]
  /\ live \in [Workers -> BOOLEAN]
  /\ meta \in [Posts -> Nat]
  /\ recorded \in [Posts -> Nat]
  /\ orphaned \in [Posts -> Nat]
  /\ sent \in [Posts -> Nat]
  /\ requeues \in [Posts -> Nat]
  /\ dropped \in [Posts -> Nat]
  /\ faults \in Nat

Init ==
  /\ status = [p \in Posts |-> "queued"]
  /\ started = [p \in Posts |-> FALSE]
  /\ reclaims = [p \in Posts |-> 0]
  /\ lock = [p \in Posts |-> NoWorker]
  /\ token \in [Pages -> BOOLEAN]
  /\ retired = {}
  /\ queue = [m \in Messages |-> 0]
  /\ pc = [w \in Workers |-> "idle"]
  /\ msg = [w \in Workers |-> NoMessage]
  /\ picked = [w \in Workers |-> NoPostingId]
  /\ reply = [w \in Workers |-> "none"]
  /\ live = [w \in Workers |-> FALSE]
  /\ meta = [p \in Posts |-> 0]
  /\ recorded = [p \in Posts |-> 0]
  /\ orphaned = [p \in Posts |-> 0]
  /\ sent = [p \in Posts |-> 0]
  /\ requeues = [p \in Posts |-> 0]
  /\ dropped = [p \in Posts |-> 0]
  /\ faults = 0

-----------------------------------------------------------------------------
Job(w) == msg[w][1]

Unlocked(p) == lock[p] = NoWorker

Candidates(p) == Assigned[PageOf[p]] \ retired

\* The posting ID and the answer of Meta are locals of publish_post_impl.
ForgetLocals(w) ==
  /\ picked' = [picked EXCEPT ![w] = NoPostingId]
  /\ reply' = [reply EXCEPT ![w] = "none"]
  /\ live' = [live EXCEPT ![w] = FALSE]

\* Bug seeded: the connection is never closed.
ReleaseRow_Leak(w) == w \in Workers /\ lock' = lock

ReleaseRow(w) ==
  lock' = [p \in Posts |-> IF lock[p] = w THEN NoWorker ELSE lock[p]]

\* A copy Meta accepted and this transaction will not record is orphaned.
OrphanCopy(w) ==
  orphaned' = IF pc[w] = "record" /\ live[w]
              THEN [orphaned EXCEPT ![Job(w)] = @ + 1] ELSE orphaned

\* Leaving the "with conn" block normally: the row gets its outcome.
Commit(w, outcome) ==
  /\ status' = [status EXCEPT ![Job(w)] = outcome]
  /\ started' = [started EXCEPT ![Job(w)] = FALSE]
  /\ ReleaseRow(w)
  /\ pc' = [pc EXCEPT ![w] = "ack"]
  /\ ForgetLocals(w)
  /\ UNCHANGED <<reclaims, queue, msg, token, meta, history>>

\* Leaving it by an exception: the row is again what it was.
Rollback(w) ==
  /\ ReleaseRow(w)
  /\ OrphanCopy(w)
  /\ ForgetLocals(w)
  /\ UNCHANGED <<status, started, reclaims, environment, meta, recorded, sent, requeues>>

-----------------------------------------------------------------------------
\* publish_post.delay or send_task from outside the task: the scheduler that
\* turns due posts into messages, and the replay of a dead letter.
Send(p) ==
  /\ sent[p] < MaxSends
  /\ sent' = [sent EXCEPT ![p] = @ + 1]
  /\ queue' = [queue EXCEPT ![<<p, 0>>] = @ + 1]
  /\ UNCHANGED <<rows, environment, pc, msg, transaction, platform, requeues, dropped, faults>>

Receive(w) ==
  /\ pc[w] = "idle"
  /\ \E m \in Messages :
       /\ queue[m] > 0
       /\ queue' = [queue EXCEPT ![m] = @ - 1]
       /\ msg' = [msg EXCEPT ![w] = m]
  /\ pc' = [pc EXCEPT ![w] = "claim"]
  /\ UNCHANGED <<rows, environment, transaction, platform, history>>

\* Bug seeded: the row is claimed without a lock, as by a SELECT.
Claim_NoLock(w) ==
  /\ pc[w] = "claim"
  /\ status[Job(w)] \in Claimable
  /\ pc' = [pc EXCEPT ![w] = "load"]
  /\ UNCHANGED <<rows, environment, queue, msg, transaction, platform, history>>

\* Bug seeded: the WHERE clause of the claim forgets the status.
Claim_AnyStatus(w) ==
  /\ pc[w] = "claim"
  /\ Unlocked(Job(w))
  /\ lock' = [lock EXCEPT ![Job(w)] = w]
  /\ pc' = [pc EXCEPT ![w] = "load"]
  /\ UNCHANGED <<status, started, reclaims, environment, queue, msg, transaction, platform, history>>

\* The UPDATE waits for the row lock and looks at the status again.
Claim(w) ==
  /\ pc[w] = "claim"
  /\ status[Job(w)] \in Claimable
  /\ Unlocked(Job(w))
  /\ lock' = [lock EXCEPT ![Job(w)] = w]
  /\ pc' = [pc EXCEPT ![w] = "load"]
  /\ UNCHANGED <<status, started, reclaims, environment, queue, msg, transaction, platform, history>>

\* The UPDATE matches no committed row: publish_skipped, without any wait.
Skip(w) ==
  /\ pc[w] = "claim"
  /\ status[Job(w)] \notin Claimable
  /\ pc' = [pc EXCEPT ![w] = "ack"]
  /\ UNCHANGED <<rows, environment, queue, msg, transaction, platform, history>>

LoadPage(w) ==
  /\ pc[w] = "load"
  /\ token[PageOf[Job(w)]]
  /\ pc' = [pc EXCEPT ![w] = "pick"]
  /\ UNCHANGED <<rows, environment, queue, msg, transaction, platform, history>>

NoToken(w) ==
  /\ pc[w] = "load"
  /\ ~token[PageOf[Job(w)]]
  /\ Commit(w, "failed_needs_editing")
  /\ UNCHANGED <<retired, recorded, orphaned>>

\* Bug seeded: nobody checks that there is a candidate.
PickPostingId_Unchecked(w) ==
  /\ pc[w] = "pick"
  /\ \E x \in Candidates(Job(w)) \cup {NoPostingId} : picked' = [picked EXCEPT ![w] = x]
  /\ pc' = [pc EXCEPT ![w] = "call"]
  /\ UNCHANGED <<rows, environment, queue, msg, reply, live, platform, history>>

\* Any active candidate: which one is the round robin's choice.
PickPostingId(w) ==
  /\ pc[w] = "pick"
  /\ \E x \in Candidates(Job(w)) : picked' = [picked EXCEPT ![w] = x]
  /\ pc' = [pc EXCEPT ![w] = "call"]
  /\ UNCHANGED <<rows, environment, queue, msg, reply, live, platform, history>>

NoCandidate(w) ==
  /\ pc[w] = "pick"
  /\ Candidates(Job(w)) = {}
  /\ Commit(w, "paused")
  /\ UNCHANGED <<retired, recorded, orphaned>>

MetaAccepts(w) ==
  /\ pc[w] = "call"
  /\ pc' = [pc EXCEPT ![w] = "record"]
  /\ reply' = [reply EXCEPT ![w] = "ok"]
  /\ live' = [live EXCEPT ![w] = TRUE]
  /\ meta' = [meta EXCEPT ![Job(w)] = @ + 1]
  /\ UNCHANGED <<rows, environment, queue, msg, picked, recorded, orphaned, history>>

MetaRefuses(w) ==
  /\ pc[w] = "call"
  /\ pc' = [pc EXCEPT ![w] = "record"]
  /\ \E e \in ClientErrors : reply' = [reply EXCEPT ![w] = e]
  /\ UNCHANGED <<rows, environment, queue, msg, picked, live, platform, history>>

\* Meta has the post and the client raises all the same: the answer to the last
\* request timed out, or, on a Facebook page, a thread comment failed.
MetaAcceptsThenFails(w) ==
  /\ pc[w] = "call"
  /\ pc' = [pc EXCEPT ![w] = "record"]
  /\ \E e \in ClientErrors :
       /\ e = "meta_timeout" \/ PageOf[Job(w)] \in FacebookPages
       /\ reply' = [reply EXCEPT ![w] = e]
  /\ live' = [live EXCEPT ![w] = TRUE]
  /\ meta' = [meta EXCEPT ![Job(w)] = @ + 1]
  /\ UNCHANGED <<rows, environment, queue, msg, picked, recorded, orphaned, history>>

\* Bug seeded: the outcome is not written to the row.
RecordPublished_NoStatus(w) ==
  /\ pc[w] = "record" /\ reply[w] = "ok"
  /\ recorded' = [recorded EXCEPT ![Job(w)] = @ + 1]
  /\ Commit(w, status[Job(w)])
  /\ UNCHANGED <<retired, orphaned>>

RecordPublished(w) ==
  /\ pc[w] = "record" /\ reply[w] = "ok"
  /\ recorded' = [recorded EXCEPT ![Job(w)] = @ + 1]
  /\ Commit(w, "published")
  /\ UNCHANGED <<retired, orphaned>>

RecordTokenExpired(w) ==
  /\ pc[w] = "record" /\ reply[w] = "token_expired"
  /\ OrphanCopy(w)
  /\ Commit(w, "reconnect_required")
  /\ UNCHANGED <<retired, recorded>>

RecordRevoked(w) ==
  /\ pc[w] = "record" /\ reply[w] = "posting_id_revoked"
  /\ retired' = retired \cup {picked[w]}
  /\ OrphanCopy(w)
  /\ Commit(w, "paused")
  /\ UNCHANGED recorded

RecordMediaRejected(w) ==
  /\ pc[w] = "record" /\ reply[w] = "media_rejected"
  /\ OrphanCopy(w)
  /\ Commit(w, "failed_needs_editing")
  /\ UNCHANGED <<retired, recorded>>

\* Bug seeded: the temporary failure is committed before the raise.
RetryTask_Commits(w) ==
  /\ pc[w] = "record" /\ reply[w] \in Temporary
  /\ msg[w][2] < MaxRetries
  /\ status' = [status EXCEPT ![Job(w)] = "failed_temporary"]
  /\ ReleaseRow(w) /\ OrphanCopy(w) /\ ForgetLocals(w)
  /\ queue' = [queue EXCEPT ![<<Job(w), msg[w][2] + 1>>] = @ + 1]
  /\ pc' = [pc EXCEPT ![w] = "ack"]
  /\ UNCHANGED <<started, reclaims, environment, msg, meta, recorded, history>>

\* The raise rolls the transaction back; Celery sends the retry, then acks.
RetryTask(w) ==
  /\ pc[w] = "record" /\ reply[w] \in Temporary
  /\ msg[w][2] < MaxRetries
  /\ Rollback(w)
  /\ queue' = [queue EXCEPT ![<<Job(w), msg[w][2] + 1>>] = @ + 1]
  /\ pc' = [pc EXCEPT ![w] = "ack"]
  /\ UNCHANGED <<msg, dropped, faults>>

GiveUp(w) ==
  /\ pc[w] = "record" /\ reply[w] \in Temporary
  /\ msg[w][2] = MaxRetries
  /\ Rollback(w)
  /\ dropped' = [dropped EXCEPT ![Job(w)] = @ + 1]
  /\ pc' = [pc EXCEPT ![w] = "ack"]
  /\ UNCHANGED <<queue, msg, faults>>

\* acks_late: the message leaves the broker after the task returned.
Ack(w) ==
  /\ pc[w] = "ack"
  /\ pc' = [pc EXCEPT ![w] = "idle"]
  /\ msg' = [msg EXCEPT ![w] = NoMessage]
  /\ UNCHANGED <<rows, environment, queue, transaction, platform, history>>

\* An exception outside autoretry_for, or a time limit: the database rolls
\* back and Celery acknowledges the message as failed.
Abort(w) ==
  /\ faults < MaxFaults
  /\ pc[w] \in InTransaction \cup {"claim"}
  /\ Rollback(w)
  /\ dropped' = [dropped EXCEPT ![Job(w)] = @ + 1]
  /\ pc' = [pc EXCEPT ![w] = "ack"]
  /\ faults' = faults + 1
  /\ UNCHANGED <<queue, msg>>

\* Bug seeded: without reject_on_worker_lost the message dies with the process.
Crash_MessageLost(w) ==
  /\ faults < MaxFaults
  /\ pc[w] # "idle"
  /\ Rollback(w)
  /\ pc' = [pc EXCEPT ![w] = "idle"]
  /\ msg' = [msg EXCEPT ![w] = NoMessage]
  /\ faults' = faults + 1
  /\ UNCHANGED <<queue, dropped>>

\* reject_on_worker_lost: the process dies, its transaction is rolled back and
\* the message it had not acknowledged is delivered again.
Crash(w) ==
  /\ faults < MaxFaults
  /\ pc[w] # "idle"
  /\ Rollback(w)
  /\ queue' = [queue EXCEPT ![msg[w]] = @ + 1]
  /\ pc' = [pc EXCEPT ![w] = "idle"]
  /\ msg' = [msg EXCEPT ![w] = NoMessage]
  /\ faults' = faults + 1
  /\ UNCHANGED dropped

-----------------------------------------------------------------------------
\* The rows the sweep selects: those among them that are five minutes old.
Orphans == {p \in Posts : status[p] = "publishing" /\ started[p] /\ Unlocked(p)}

ReclaimOrphans ==
  /\ \E old \in SUBSET Orphans :
       /\ status' = [p \in Posts |-> IF p \notin old THEN status[p]
                                     ELSE IF reclaims[p] >= MaxReclaims THEN "failed_temporary"
                                     ELSE "queued"]
       /\ reclaims' = [p \in Posts |-> IF p \in old THEN reclaims[p] + 1 ELSE reclaims[p]]
       /\ started' = [p \in Posts |-> p \notin old /\ started[p]]
       /\ queue' = [m \in Messages |->
                      IF m[2] = 0 /\ m[1] \in old /\ reclaims[m[1]] + 1 < MaxReclaims
                      THEN queue[m] + 1 ELSE queue[m]]
  /\ UNCHANGED <<lock, environment, pc, msg, transaction, platform, history>>

\* POST /posts/{id}/retry.
RetryPost(p) ==
  /\ requeues[p] < MaxRequeues
  /\ Unlocked(p)
  /\ status[p] \in Retryable
  /\ status' = [status EXCEPT ![p] = "queued"]
  /\ requeues' = [requeues EXCEPT ![p] = @ + 1]
  /\ UNCHANGED <<started, reclaims, lock, environment, queue, pc, msg, transaction,
                 platform, sent, dropped, faults>>

\* PATCH /posts/{id} with a status: no guard on the present one.
PatchStatus(p, s) ==
  /\ requeues[p] < MaxRequeues
  /\ Unlocked(p)
  /\ status' = [status EXCEPT ![p] = s]
  /\ requeues' = [requeues EXCEPT ![p] = @ + 1]
  /\ UNCHANGED <<started, reclaims, lock, environment, queue, pc, msg, transaction,
                 platform, sent, dropped, faults>>

RetirePostingId(x) ==
  /\ x \notin retired
  /\ retired' = retired \cup {x}
  /\ UNCHANGED <<rows, token, queue, pc, msg, transaction, platform, history>>

\* The OAuth callback stores a page token; no code path removes one.
ConnectPage(g) ==
  /\ token' = [token EXCEPT ![g] = TRUE]
  /\ UNCHANGED <<rows, retired, queue, pc, msg, transaction, platform, history>>

-----------------------------------------------------------------------------
WorkerStep(w) ==
  \/ Receive(w) \/ Claim(w) \/ Skip(w)
  \/ LoadPage(w) \/ NoToken(w) \/ PickPostingId(w) \/ NoCandidate(w)
  \/ MetaAccepts(w) \/ MetaRefuses(w) \/ MetaAcceptsThenFails(w)
  \/ RecordPublished(w) \/ RecordTokenExpired(w) \/ RecordRevoked(w)
  \/ RecordMediaRejected(w) \/ RetryTask(w) \/ GiveUp(w) \/ Ack(w)

Next ==
  \/ \E w \in Workers : WorkerStep(w) \/ Abort(w) \/ Crash(w)
  \/ \E p \in Posts : Send(p) \/ RetryPost(p)
  \/ \E p \in Posts, s \in PatchTargets : PatchStatus(p, s)
  \/ \E x \in PostingIds : RetirePostingId(x)
  \/ \E g \in Pages : ConnectPage(g)
  \/ ReclaimOrphans

Spec == Init /\ [][Next]_vars

\* A worker that can go on does: the requests to Meta time out and a Celery
\* child is replaced when it dies.  Editors, faults and sweeps owe nothing.
FairSpec == Spec /\ \A w \in Workers : WF_vars(WorkerStep(w))

-----------------------------------------------------------------------------
\* No two transactions are ever at work on one post, whatever the number of
\* messages for it: the claiming UPDATE keeps its row lock until the outcome
\* is committed (_claim and the "with conn" of publish_post_impl).
SingleFlight ==
  \A v, w \in Workers :
    v # w /\ pc[v] \in InTransaction /\ pc[w] \in InTransaction => Job(v) # Job(w)

\* The copy a transaction has put on the platform and not yet recorded.
Unrecorded(p) ==
  IF \E w \in Workers : pc[w] = "record" /\ live[w] /\ Job(w) = p THEN 1 ELSE 0

\* Every copy on the platform is recorded in its row, or known to have been
\* orphaned by a rollback or an error after acceptance, or about to be
\* recorded: no interleaving of workers records one twice or forgets one.
CopiesAccountedFor ==
  \A p \in Posts : meta[p] = recorded[p] + orphaned[p] + Unrecorded(p)

\* A post is live once for each time it was queued, plus the copies orphaned
\* by an error or a crash after Meta accepted: repeated messages, redelivery
\* and retries alone never duplicate a post.
AtMostOncePerQueueing ==
  \A p \in Posts : meta[p] <= 1 + requeues[p] + orphaned[p]

\* The sweep reclaim_orphans never finds a row: no committed row carries
\* 'publishing' with a publishing_started_at, as every commit of the task
\* clears the column and a crash rolls the claim back.
SweepFindsNothing == Orphans = {}

\* 'failed_temporary' and 'publishing' are never committed by the task: the
\* raise after a temporary error rolls back the status it had just written.
TransientStatusesStayInside ==
  \A p \in Posts : status[p] \in {"failed_temporary", "publishing"} => requeues[p] > 0

\* What the pipeline commits of a post is a legal change, or the two of a claim
\* and its outcome, which one transaction writes: whatever an editor has made of
\* the row while the task was at work, and although no code consults the table.
\* (LEGAL_TRANSITIONS of state_machine.py.)
PipelineChangesAreLegal ==
  [][\A p \in Posts :
       status'[p] # status[p] /\ requeues'[p] = requeues[p] =>
         \/ CanTransition(status[p], status'[p])
         \/ CanTransition(status[p], "publishing") /\ CanTransition("publishing", status'[p])]_vars

\* A message for p is in the broker or in the hands of a worker still at it.
Pending(p) ==
  \/ \E m \in Messages : m[1] = p /\ queue[m] > 0
  \/ \E w \in Workers : pc[w] \in InTransaction \cup {"claim"} /\ Job(w) = p

\* A post that was sent and still waits to be published has a message under
\* way, unless the task gave it up or an editor queued it again: acks_late and
\* reject_on_worker_lost lose no post, and neither does the skip of a claim.
NoSilentLoss ==
  \A p \in Posts :
    status[p] \in Claimable /\ sent[p] > 0 /\ dropped[p] = 0 /\ requeues[p] = 0 => Pending(p)

\* A published post stays published and no copy is added, but by an editor:
\* a late or repeated task never publishes over it or changes its status.
PublishedIsFinal ==
  [][\A p \in Posts :
       status[p] = "published" =>
         /\ meta'[p] = meta[p]
         /\ status'[p] = "published" \/ requeues'[p] > requeues[p]]_vars

\* The workers come to rest with an empty queue: no message is retried or
\* redelivered for ever, and no claim waits for ever for a row lock.
Drains ==
  <>[]((\A m \in Messages : queue[m] = 0) /\ (\A w \in Workers : pc[w] = "idle"))

\* A queued post that was sent is published, paused or left to an editor, and
\* never waits for ever in a status a worker would take: whatever crashes, errors
\* and retries come, unless its message was given up or an editor moved the row.
SentPostSettles ==
  \A p \in Posts :
    sent[p] > 0 /\ status[p] = "queued"
      ~> \/ status[p] \notin Claimable
         \/ dropped[p] > 0
         \/ requeues[p] > 0

-----------------------------------------------------------------------------
\* The ledger counts a copy when its fate is known: recorded or orphaned.
Ledger == INSTANCE PostLedger
  WITH copies <- [p \in Posts |-> recorded[p] + orphaned[p]],
       lost <- orphaned, edits <- requeues

\* Seen from outside, the whole task is one step: the pipeline of workers,
\* messages, locks and rollbacks implements the ledger.
ImplementsLedger == Ledger!Spec

=============================================================================
