------------------------- MODULE Publishing_proofs -------------------------
(***************************************************************************)
(* Proofs about the publish pipeline, for any number of posts, workers,    *)
(* pages and posting IDs and any value of the bounds.                      *)
(***************************************************************************)
EXTENDS Publishing, TLAPS

USE DEF vars, rows, environment, transaction, platform, history

\* What a worker knows at each point of the task.
Locals ==
  \A w \in Workers :
    /\ pc[w] # "idle" => msg[w] \in Messages
    /\ pc[w] \in {"call", "record"} => picked[w] \in PostingIds
    /\ live[w] => pc[w] = "record"
    /\ pc[w] = "record" /\ reply[w] = "ok" => live[w]

\* A worker with a message in hand works on a post of the system.
LEMMA JobTyped ==
  ASSUME TypeOK, Locals, NEW w \in Workers, pc[w] # "idle"
  PROVE  Job(w) \in Posts /\ msg[w][2] \in Tries
BY DEF Locals, Job, Messages

\* One more copy, record or count for a post is a natural number again.
LEMMA Increment ==
  ASSUME NEW f \in [Posts -> Nat], NEW p \in Posts
  PROVE  [f EXCEPT ![p] = @ + 1] \in [Posts -> Nat]
OBVIOUS

\* What ends a transaction writes values of the right types.
LEMMA CommitTypes ==
  ASSUME TypeOK, Locals, NEW w \in Workers, pc[w] # "idle",
         NEW s \in Statuses, Commit(w, s)
  PROVE  /\ status' \in [Posts -> Statuses]
         /\ started' \in [Posts -> BOOLEAN]
         /\ lock' \in [Posts -> Workers \cup {NoWorker}]
         /\ picked' \in [Workers -> PostingIds \cup {NoPostingId}]
         /\ reply' \in [Workers -> MetaErrors \cup {"none", "ok"}]
         /\ live' \in [Workers -> BOOLEAN]
         /\ pc' \in [Workers -> PCs]
         /\ Locals'
         /\ UNCHANGED <<reclaims, queue, msg, token, meta, history>>
BY DEF TypeOK, Locals, Commit, ReleaseRow, ForgetLocals, PCs

\* So does what ends a transaction by an exception.
LEMMA RollbackTypes ==
  ASSUME TypeOK, Locals, NEW w \in Workers, pc[w] # "idle", Rollback(w)
  PROVE  /\ lock' \in [Posts -> Workers \cup {NoWorker}]
         /\ picked' \in [Workers -> PostingIds \cup {NoPostingId}]
         /\ reply' \in [Workers -> MetaErrors \cup {"none", "ok"}]
         /\ live' \in [Workers -> BOOLEAN]
         /\ \A v \in Workers : picked'[v] = IF v = w THEN NoPostingId ELSE picked[v]
         /\ \A v \in Workers : live'[v] = (v # w /\ live[v])
         /\ \A v \in Workers : reply'[v] = IF v = w THEN "none" ELSE reply[v]
         /\ orphaned' \in [Posts -> Nat]
         /\ UNCHANGED <<status, started, reclaims, environment, meta, recorded, sent, requeues>>
<1>1. [orphaned EXCEPT ![Job(w)] = @ + 1] \in [Posts -> Nat]
  BY JobTyped, Increment DEF TypeOK
<1> QED
  BY <1>1 DEF TypeOK, Rollback, OrphanCopy, ReleaseRow, ForgetLocals

\* Counting an orphaned copy gives a natural number for every post.
LEMMA OrphanTypes ==
  ASSUME TypeOK, Locals, NEW w \in Workers, pc[w] # "idle", OrphanCopy(w)
  PROVE  orphaned' \in [Posts -> Nat]
<1>1. [orphaned EXCEPT ![Job(w)] = @ + 1] \in [Posts -> Nat]
  BY JobTyped, Increment DEF TypeOK
<1> QED
  BY <1>1 DEF TypeOK, OrphanCopy

\* Every step keeps the variables in their types.
LEMMA TypeStep == TypeOK /\ Locals /\ [Next]_vars => TypeOK' /\ Locals'
<1> DEFINE Types == TypeOK /\ Locals
<1> SUFFICES ASSUME Types, [Next]_vars PROVE Types'
  OBVIOUS
<1> USE PublishingConstants DEF TypeOK, Locals, PCs, InTransaction, Statuses, MetaErrors, Temporary, Messages, Tries
<1>1. ASSUME NEW w \in Workers, Receive(w) PROVE Types'
  BY <1>1 DEF Receive
<1>2. ASSUME NEW w \in Workers, Claim(w) PROVE Types'
  BY <1>2, JobTyped DEF Claim, Unlocked
<1>3. ASSUME NEW w \in Workers, Skip(w) PROVE Types'
  BY <1>3 DEF Skip
<1>4. ASSUME NEW w \in Workers, LoadPage(w) PROVE Types'
  BY <1>4 DEF LoadPage
<1>5. ASSUME NEW w \in Workers, NoToken(w) PROVE Types'
  BY <1>5, CommitTypes DEF NoToken
<1>6. ASSUME NEW w \in Workers, PickPostingId(w) PROVE Types'
  BY <1>6 DEF PickPostingId, Candidates, Job
<1>7. ASSUME NEW w \in Workers, NoCandidate(w) PROVE Types'
  BY <1>7, CommitTypes DEF NoCandidate
<1>8. ASSUME NEW w \in Workers, MetaAccepts(w) PROVE Types'
  BY <1>8, JobTyped DEF MetaAccepts
<1>9. ASSUME NEW w \in Workers, MetaRefuses(w) PROVE Types'
  BY <1>9 DEF MetaRefuses
<1>10. ASSUME NEW w \in Workers, MetaAcceptsThenFails(w) PROVE Types'
  BY <1>10, JobTyped DEF MetaAcceptsThenFails
<1>11. ASSUME NEW w \in Workers, RecordPublished(w) PROVE Types'
  BY <1>11, CommitTypes, JobTyped DEF RecordPublished
<1>12. ASSUME NEW w \in Workers, RecordTokenExpired(w) PROVE Types'
  BY <1>12, CommitTypes, OrphanTypes DEF RecordTokenExpired
<1>13. ASSUME NEW w \in Workers, RecordRevoked(w) PROVE Types'
  BY <1>13, CommitTypes, OrphanTypes DEF RecordRevoked
<1>14. ASSUME NEW w \in Workers, RecordMediaRejected(w) PROVE Types'
  BY <1>14, CommitTypes, OrphanTypes DEF RecordMediaRejected
<1>15. ASSUME NEW w \in Workers, RetryTask(w) PROVE Types'
  BY <1>15, RollbackTypes, JobTyped DEF RetryTask
<1>16. ASSUME NEW w \in Workers, GiveUp(w) PROVE Types'
  BY <1>16, RollbackTypes, JobTyped DEF GiveUp
<1>17. ASSUME NEW w \in Workers, Ack(w) PROVE Types'
  BY <1>17 DEF Ack
<1>18. ASSUME NEW w \in Workers, Abort(w) PROVE Types'
  BY <1>18, RollbackTypes, JobTyped DEF Abort
<1>19. ASSUME NEW w \in Workers, Crash(w) PROVE Types'
  BY <1>19, RollbackTypes, JobTyped DEF Crash
<1>20. ASSUME NEW p \in Posts, Send(p) PROVE Types'
  BY <1>20 DEF Send
<1>21. ASSUME NEW p \in Posts, RetryPost(p) PROVE Types'
  BY <1>21 DEF RetryPost
<1>22. ASSUME NEW p \in Posts, NEW s \in PatchTargets, PatchStatus(p, s) PROVE Types'
  BY <1>22 DEF PatchStatus
<1>23. ASSUME NEW x \in PostingIds, RetirePostingId(x) PROVE Types'
  BY <1>23 DEF RetirePostingId
<1>24. ASSUME NEW g \in Pages, ConnectPage(g) PROVE Types'
  BY <1>24 DEF ConnectPage
<1>25. CASE ReclaimOrphans
  BY <1>25 DEF ReclaimOrphans
<1>26. CASE UNCHANGED vars
  BY <1>26
<1> QED
  BY <1>1, <1>2, <1>3, <1>4, <1>5, <1>6, <1>7, <1>8, <1>9, <1>10, <1>11, <1>12, <1>13, <1>14, <1>15, <1>16, <1>17, <1>18, <1>19, <1>20, <1>21, <1>22, <1>23, <1>24, <1>25, <1>26
  DEF Next, WorkerStep

\* The variables of the pipeline keep their types.
THEOREM TypeCorrect == Spec => []TypeOK
<1>1. Init => TypeOK /\ Locals
  BY PublishingConstants DEF Init, TypeOK, Locals, Statuses, PCs
<1> QED
  BY <1>1, TypeStep, PTL DEF Spec

-----------------------------------------------------------------------------
\* A row is locked exactly by the worker whose transaction is at work on it.
LockOwner ==
  \A p \in Posts, w \in Workers :
    lock[p] = w <=> pc[w] \in InTransaction /\ Job(w) = p

\* Nobody else can settle or move the post of a transaction.
LockedWaits == \A p \in Posts : lock[p] # NoWorker => status[p] \in Claimable

NeverStarted == \A p \in Posts : started[p] = FALSE

\* A post is recorded, or can still be, once for each time it was queued.
Quota ==
  \A p \in Posts :
    recorded[p] + (IF status[p] \in Claimable THEN 1 ELSE 0) <= 1 + requeues[p]

\* Unrecorded(p) read off the worker that holds the lock of p.
Held(p) ==
  IF lock[p] # NoWorker /\ pc[lock[p]] = "record" /\ live[lock[p]] THEN 1 ELSE 0

HeldAccountedFor == \A p \in Posts : meta[p] = recorded[p] + orphaned[p] + Held(p)

IInv ==
  /\ TypeOK /\ Locals
  /\ LockOwner /\ LockedWaits /\ NeverStarted
  /\ HeldAccountedFor /\ Quota /\ TransientStatusesStayInside

\* What the locks look like after a transaction ended, and what the
\* accounting of the other posts keeps of it.
LEMMA EndOfTransaction ==
  ASSUME TypeOK, Locals, LockOwner, NEW w \in Workers, pc[w] # "idle", ReleaseRow(w),
         NEW q \in PCs \ InTransaction, pc' = [pc EXCEPT ![w] = q],
         \A v \in Workers : v # w => msg'[v] = msg[v],
         \A v \in Workers : live'[v] = (v # w /\ live[v])
  PROVE  /\ LockOwner'
         /\ \A p \in Posts : lock'[p] # NoWorker => lock[p] # NoWorker /\ lock[p] # w
         /\ \A p \in Posts : Held(p)' = IF lock[p] = w THEN 0 ELSE Held(p)
<1>1. \A p \in Posts : lock'[p] = IF lock[p] = w THEN NoWorker ELSE lock[p]
  BY DEF ReleaseRow
<1>2. \A v \in Workers : v # w => pc'[v] = pc[v]
  BY DEF TypeOK
<1>3. pc'[w] = q
  BY DEF TypeOK
<1>4. LockOwner'
  BY <1>1, <1>2, <1>3, PublishingConstants DEF LockOwner, Job, TypeOK
<1>5. \A p \in Posts : Held(p)' = IF lock[p] = w THEN 0 ELSE Held(p)
  BY <1>1, <1>2, <1>3, PublishingConstants DEF Held, TypeOK
<1> QED
  BY <1>1, <1>4, <1>5

\* A commit settles the post of the transaction and unlocks it.
LEMMA CommitStep ==
  ASSUME IInv, NEW w \in Workers, pc[w] \in InTransaction,
         NEW s \in Statuses \ (Claimable \cup {"publishing"}), Commit(w, s)
  PROVE  /\ LockOwner' /\ LockedWaits' /\ NeverStarted' /\ TransientStatusesStayInside'
         /\ Job(w) \in Posts /\ lock[Job(w)] = w /\ status[Job(w)] \in Claimable
         /\ \A p \in Posts : status'[p] = IF p = Job(w) THEN s ELSE status[p]
         /\ \A p \in Posts : Held(p)' = IF p = Job(w) THEN 0 ELSE Held(p)
<1>1. Job(w) \in Posts /\ pc[w] # "idle"
  BY JobTyped DEF IInv, InTransaction
<1>2. lock[Job(w)] = w /\ status[Job(w)] \in Claimable
  BY <1>1, PublishingConstants DEF IInv, LockOwner, LockedWaits
<1>3. /\ \A v \in Workers : live'[v] = (v # w /\ live[v])
      /\ msg' = msg /\ requeues' = requeues
  BY DEF Commit, ForgetLocals, IInv, TypeOK
<1>4. "ack" \in PCs \ InTransaction
  BY DEF PCs, InTransaction
<1>5. ReleaseRow(w) /\ pc' = [pc EXCEPT ![w] = "ack"]
  BY DEF Commit
<1>6. /\ LockOwner'
      /\ \A p \in Posts : lock'[p] # NoWorker => lock[p] # NoWorker /\ lock[p] # w
      /\ \A p \in Posts : Held(p)' = IF lock[p] = w THEN 0 ELSE Held(p)
  BY <1>1, <1>3, <1>4, <1>5, EndOfTransaction DEF IInv
<1>7. \A p \in Posts : lock[p] = w <=> p = Job(w)
  BY <1>2 DEF IInv, LockOwner
<1>8. /\ \A p \in Posts : status'[p] = IF p = Job(w) THEN s ELSE status[p]
      /\ \A p \in Posts : started'[p] = FALSE
  BY DEF Commit, IInv, TypeOK, NeverStarted
<1> QED
  BY <1>1, <1>2, <1>3, <1>6, <1>7, <1>8
  DEF IInv, LockedWaits, NeverStarted, TransientStatusesStayInside, Claimable

\* A rollback leaves the row as it was and orphans the copy it would have recorded.
LEMMA RollbackStep ==
  ASSUME IInv, NEW w \in Workers, pc[w] # "idle", Rollback(w),
         NEW q \in PCs \ InTransaction, pc' = [pc EXCEPT ![w] = q],
         \A v \in Workers : v # w => msg'[v] = msg[v]
  PROVE  /\ LockOwner' /\ LockedWaits' /\ NeverStarted' /\ TransientStatusesStayInside'
         /\ HeldAccountedFor' /\ Quota'
<1>1. Job(w) \in Posts
  BY JobTyped DEF IInv
<1>2. /\ \A v \in Workers : live'[v] = (v # w /\ live[v])
      /\ ReleaseRow(w) /\ OrphanCopy(w)
      /\ UNCHANGED <<status, started, meta, recorded, requeues>>
  BY DEF Rollback, ForgetLocals, IInv, TypeOK
<1>3. /\ LockOwner'
      /\ \A p \in Posts : lock'[p] # NoWorker => lock[p] # NoWorker /\ lock[p] # w
      /\ \A p \in Posts : Held(p)' = IF lock[p] = w THEN 0 ELSE Held(p)
  BY <1>2, EndOfTransaction DEF IInv
<1>4. \A p \in Posts : orphaned'[p] = IF lock[p] = w THEN orphaned[p] + Held(p) ELSE orphaned[p]
  <2>1. \A p \in Posts : lock[p] = w <=> pc[w] \in InTransaction /\ p = Job(w)
    BY DEF IInv, LockOwner
  <2>2. CASE pc[w] = "record" /\ live[w]
    BY <1>1, <1>2, <2>1, <2>2, PublishingConstants DEF OrphanCopy, Held, InTransaction, IInv, TypeOK
  <2>3. CASE ~(pc[w] = "record" /\ live[w])
    BY <1>2, <2>1, <2>3, PublishingConstants DEF OrphanCopy, Held, IInv, TypeOK
  <2> QED
    BY <2>2, <2>3
<1>5. HeldAccountedFor'
  BY <1>2, <1>3, <1>4 DEF HeldAccountedFor, Held, IInv, TypeOK
<1> QED
  BY <1>2, <1>3, <1>5 DEF IInv, LockedWaits, NeverStarted, TransientStatusesStayInside, Quota

\* A step that keeps the rows, the locks and the platform, and every worker on
\* its side of the transaction, keeps the invariant.
LEMMA QuietStep ==
  ASSUME IInv, UNCHANGED <<rows, platform, requeues, live>>,
         \A v \in Workers :
           /\ pc'[v] \in InTransaction <=> pc[v] \in InTransaction
           /\ pc[v] \in InTransaction => msg'[v] = msg[v]
           /\ live[v] => (pc'[v] = "record" <=> pc[v] = "record")
  PROVE  /\ LockOwner' /\ LockedWaits' /\ NeverStarted' /\ TransientStatusesStayInside'
         /\ HeldAccountedFor' /\ Quota'
<1>1. LockOwner'
  BY DEF IInv, LockOwner, Job
<1>2. \A p \in Posts : Held(p)' = Held(p)
  BY DEF IInv, TypeOK, Held
<1> QED
  BY <1>1, <1>2 DEF IInv, LockedWaits, NeverStarted, TransientStatusesStayInside, HeldAccountedFor, Quota

\* Every action of the pipeline preserves the inductive invariant: the holder of
\* a row lock is the one worker inside a transaction for the row's post.
LEMMA InvariantStep == IInv /\ [Next]_vars => IInv'
<1> DEFINE Rest == /\ LockOwner /\ LockedWaits /\ NeverStarted
                   /\ TransientStatusesStayInside /\ HeldAccountedFor /\ Quota
<1> SUFFICES ASSUME IInv, [Next]_vars PROVE Rest'
  BY TypeStep DEF IInv
<1>a. TypeOK /\ Locals
  BY DEF IInv
<1>1. ASSUME NEW w \in Workers, Receive(w) PROVE Rest'
  BY <1>1, <1>a, QuietStep DEF Receive, TypeOK, Locals, InTransaction
<1>2. ASSUME NEW w \in Workers, Skip(w) PROVE Rest'
  BY <1>2, <1>a, QuietStep DEF Skip, TypeOK, Locals, InTransaction
<1>3. ASSUME NEW w \in Workers, LoadPage(w) PROVE Rest'
  BY <1>3, <1>a, QuietStep DEF LoadPage, TypeOK, Locals, InTransaction
<1>4. ASSUME NEW w \in Workers, PickPostingId(w) PROVE Rest'
  BY <1>4, <1>a, QuietStep DEF PickPostingId, TypeOK, Locals, InTransaction
<1>5. ASSUME NEW w \in Workers, MetaRefuses(w) PROVE Rest'
  BY <1>5, <1>a, QuietStep DEF MetaRefuses, TypeOK, Locals, InTransaction
<1>6. ASSUME NEW w \in Workers, Ack(w) PROVE Rest'
  BY <1>6, <1>a, QuietStep DEF Ack, TypeOK, Locals, InTransaction
<1>7. ASSUME NEW p \in Posts, Send(p) PROVE Rest'
  BY <1>7, QuietStep DEF Send
<1>8. ASSUME NEW x \in PostingIds, RetirePostingId(x) PROVE Rest'
  BY <1>8, QuietStep DEF RetirePostingId
<1>9. ASSUME NEW g \in Pages, ConnectPage(g) PROVE Rest'
  BY <1>9, QuietStep DEF ConnectPage
<1>10. CASE UNCHANGED vars
  BY <1>10, QuietStep
<1>11. ASSUME NEW w \in Workers, Claim(w) PROVE Rest'
  <2>1. Job(w) \in Posts
    BY <1>11, <1>a, JobTyped DEF Claim
  <2>2. LockOwner'
    BY <1>11, <1>a, <2>1, PublishingConstants DEF IInv, LockOwner, Claim, Unlocked, Job, TypeOK, InTransaction
  <2>3. LockedWaits'
    BY <1>11, <1>a, <2>1 DEF IInv, LockedWaits, Claim, TypeOK
  <2>4. \A p \in Posts : Held(p)' = Held(p)
    BY <1>11, <1>a, <2>1, PublishingConstants DEF Held, Claim, Unlocked, TypeOK, Locals
  <2> QED
    BY <1>11, <2>2, <2>3, <2>4 DEF IInv, NeverStarted, TransientStatusesStayInside, HeldAccountedFor, Quota, Claim
<1>12. ASSUME NEW w \in Workers, MetaAccepts(w) PROVE Rest'
  <2>1. Job(w) \in Posts /\ lock[Job(w)] = w
    BY <1>12, <1>a, JobTyped DEF MetaAccepts, IInv, LockOwner, InTransaction
  <2>2. LockOwner'
    BY <1>12, <1>a DEF IInv, LockOwner, MetaAccepts, Job, TypeOK, InTransaction
  <2>3. \A p \in Posts : Held(p)' = IF p = Job(w) THEN 1 ELSE Held(p)
    BY <1>12, <1>a, <2>1, PublishingConstants DEF Held, MetaAccepts, TypeOK, IInv, LockOwner
  <2>4. Held(Job(w)) = 0
    BY <1>12, <2>1 DEF Held, MetaAccepts
  <2>5. HeldAccountedFor'
    BY <1>12, <1>a, <2>1, <2>3, <2>4 DEF HeldAccountedFor, IInv, MetaAccepts, TypeOK
  <2> QED
    BY <1>12, <2>2, <2>5 DEF IInv, LockedWaits, NeverStarted, TransientStatusesStayInside, Quota, MetaAccepts
<1>13. ASSUME NEW w \in Workers, MetaAcceptsThenFails(w) PROVE Rest'
  <2>1. Job(w) \in Posts /\ lock[Job(w)] = w
    BY <1>13, <1>a, JobTyped DEF MetaAcceptsThenFails, IInv, LockOwner, InTransaction
  <2>2. LockOwner'
    BY <1>13, <1>a DEF IInv, LockOwner, MetaAcceptsThenFails, Job, TypeOK, InTransaction
  <2>3. \A p \in Posts : Held(p)' = IF p = Job(w) THEN 1 ELSE Held(p)
    BY <1>13, <1>a, <2>1, PublishingConstants DEF Held, MetaAcceptsThenFails, TypeOK, IInv, LockOwner
  <2>4. Held(Job(w)) = 0
    BY <1>13, <2>1 DEF Held, MetaAcceptsThenFails
  <2>5. HeldAccountedFor'
    BY <1>13, <1>a, <2>1, <2>3, <2>4 DEF HeldAccountedFor, IInv, MetaAcceptsThenFails, TypeOK
  <2> QED
    BY <1>13, <2>2, <2>5 DEF IInv, LockedWaits, NeverStarted, TransientStatusesStayInside, Quota, MetaAcceptsThenFails
<1>14. ASSUME NEW w \in Workers, RecordPublished(w) PROVE Rest'
  <2>1. Commit(w, "published") /\ pc[w] \in InTransaction
    BY <1>14 DEF RecordPublished, InTransaction
  <2>2. /\ LockOwner' /\ LockedWaits' /\ NeverStarted' /\ TransientStatusesStayInside'
        /\ Job(w) \in Posts /\ lock[Job(w)] = w /\ status[Job(w)] \in Claimable
        /\ \A p \in Posts : status'[p] = IF p = Job(w) THEN "published" ELSE status[p]
        /\ \A p \in Posts : Held(p)' = IF p = Job(w) THEN 0 ELSE Held(p)
    BY <2>1, CommitStep DEF Statuses, Claimable
  <2>3. /\ \A p \in Posts : recorded'[p] = IF p = Job(w) THEN recorded[p] + 1 ELSE recorded[p]
        /\ UNCHANGED <<meta, orphaned, requeues>>
    BY <1>14, <1>a, <2>1, <2>2 DEF RecordPublished, Commit, TypeOK
  <2>4. Held(Job(w)) = 1
    BY <1>14, <1>a, <2>2, PublishingConstants DEF Held, RecordPublished, Locals
  <2>5. HeldAccountedFor'
    BY <1>a, <2>2, <2>3, <2>4 DEF HeldAccountedFor, IInv, TypeOK, Held
  <2>6. Quota'
    BY <1>a, <2>2, <2>3 DEF Quota, IInv, TypeOK, Claimable
  <2> QED
    BY <2>2, <2>5, <2>6
<1>15. ASSUME NEW w \in Workers, NoToken(w) PROVE Rest'
  <2>1. Commit(w, "failed_needs_editing") /\ pc[w] \in InTransaction
    BY <1>15 DEF NoToken, InTransaction
  <2>2. /\ LockOwner' /\ LockedWaits' /\ NeverStarted' /\ TransientStatusesStayInside'
        /\ Job(w) \in Posts /\ lock[Job(w)] = w
        /\ \A p \in Posts : status'[p] = IF p = Job(w) THEN "failed_needs_editing" ELSE status[p]
        /\ \A p \in Posts : Held(p)' = IF p = Job(w) THEN 0 ELSE Held(p)
    BY <2>1, CommitStep DEF Statuses, Claimable
  <2>3. UNCHANGED <<meta, recorded, orphaned, requeues>>
    BY <1>15, <2>1 DEF NoToken, Commit
  <2>4. Held(Job(w)) = 0
    BY <1>15, <2>2 DEF Held, NoToken
  <2>5. HeldAccountedFor'
    BY <1>a, <2>2, <2>3, <2>4 DEF HeldAccountedFor, IInv, TypeOK
  <2>6. Quota'
    BY <1>a, <2>2, <2>3 DEF Quota, IInv, TypeOK, Claimable
  <2> QED
    BY <2>2, <2>5, <2>6
<1>16. ASSUME NEW w \in Workers, NoCandidate(w) PROVE Rest'
  <2>1. Commit(w, "paused") /\ pc[w] \in InTransaction
    BY <1>16 DEF NoCandidate, InTransaction
  <2>2. /\ LockOwner' /\ LockedWaits' /\ NeverStarted' /\ TransientStatusesStayInside'
        /\ Job(w) \in Posts /\ lock[Job(w)] = w
        /\ \A p \in Posts : status'[p] = IF p = Job(w) THEN "paused" ELSE status[p]
        /\ \A p \in Posts : Held(p)' = IF p = Job(w) THEN 0 ELSE Held(p)
    BY <2>1, CommitStep DEF Statuses, Claimable
  <2>3. UNCHANGED <<meta, recorded, orphaned, requeues>>
    BY <1>16, <2>1 DEF NoCandidate, Commit
  <2>4. Held(Job(w)) = 0
    BY <1>16, <2>2 DEF Held, NoCandidate
  <2>5. HeldAccountedFor'
    BY <1>a, <2>2, <2>3, <2>4 DEF HeldAccountedFor, IInv, TypeOK
  <2>6. Quota'
    BY <1>a, <2>2, <2>3 DEF Quota, IInv, TypeOK, Claimable
  <2> QED
    BY <2>2, <2>5, <2>6
<1>17. ASSUME NEW w \in Workers, RecordTokenExpired(w) PROVE Rest'
  <2>1. Commit(w, "reconnect_required") /\ pc[w] \in InTransaction
    BY <1>17 DEF RecordTokenExpired, InTransaction
  <2>2. /\ LockOwner' /\ LockedWaits' /\ NeverStarted' /\ TransientStatusesStayInside'
        /\ Job(w) \in Posts /\ lock[Job(w)] = w
        /\ \A p \in Posts : status'[p] = IF p = Job(w) THEN "reconnect_required" ELSE status[p]
        /\ \A p \in Posts : Held(p)' = IF p = Job(w) THEN 0 ELSE Held(p)
    BY <2>1, CommitStep DEF Statuses, Claimable
  <2>3. UNCHANGED <<meta, recorded, requeues>> /\ OrphanCopy(w) /\ pc[w] = "record"
    BY <1>17, <2>1 DEF RecordTokenExpired, Commit
  <2>4. \A p \in Posts :
          orphaned'[p] = IF p = Job(w) THEN orphaned[p] + Held(p) ELSE orphaned[p]
    BY <1>a, <2>2, <2>3, PublishingConstants DEF OrphanCopy, Held, TypeOK
  <2>5. HeldAccountedFor'
    BY <1>a, <2>2, <2>3, <2>4 DEF HeldAccountedFor, IInv, TypeOK, Held
  <2>6. Quota'
    BY <1>a, <2>2, <2>3 DEF Quota, IInv, TypeOK, Claimable
  <2> QED
    BY <2>2, <2>5, <2>6
<1>18. ASSUME NEW w \in Workers, RecordRevoked(w) PROVE Rest'
  <2>1. Commit(w, "paused") /\ pc[w] \in InTransaction
    BY <1>18 DEF RecordRevoked, InTransaction
  <2>2. /\ LockOwner' /\ LockedWaits' /\ NeverStarted' /\ TransientStatusesStayInside'
        /\ Job(w) \in Posts /\ lock[Job(w)] = w
        /\ \A p \in Posts : status'[p] = IF p = Job(w) THEN "paused" ELSE status[p]
        /\ \A p \in Posts : Held(p)' = IF p = Job(w) THEN 0 ELSE Held(p)
    BY <2>1, CommitStep DEF Statuses, Claimable
  <2>3. UNCHANGED <<meta, recorded, requeues>> /\ OrphanCopy(w) /\ pc[w] = "record"
    BY <1>18, <2>1 DEF RecordRevoked, Commit
  <2>4. \A p \in Posts :
          orphaned'[p] = IF p = Job(w) THEN orphaned[p] + Held(p) ELSE orphaned[p]
    BY <1>a, <2>2, <2>3, PublishingConstants DEF OrphanCopy, Held, TypeOK
  <2>5. HeldAccountedFor'
    BY <1>a, <2>2, <2>3, <2>4 DEF HeldAccountedFor, IInv, TypeOK, Held
  <2>6. Quota'
    BY <1>a, <2>2, <2>3 DEF Quota, IInv, TypeOK, Claimable
  <2> QED
    BY <2>2, <2>5, <2>6
<1>19. ASSUME NEW w \in Workers, RecordMediaRejected(w) PROVE Rest'
  <2>1. Commit(w, "failed_needs_editing") /\ pc[w] \in InTransaction
    BY <1>19 DEF RecordMediaRejected, InTransaction
  <2>2. /\ LockOwner' /\ LockedWaits' /\ NeverStarted' /\ TransientStatusesStayInside'
        /\ Job(w) \in Posts /\ lock[Job(w)] = w
        /\ \A p \in Posts : status'[p] = IF p = Job(w) THEN "failed_needs_editing" ELSE status[p]
        /\ \A p \in Posts : Held(p)' = IF p = Job(w) THEN 0 ELSE Held(p)
    BY <2>1, CommitStep DEF Statuses, Claimable
  <2>3. UNCHANGED <<meta, recorded, requeues>> /\ OrphanCopy(w) /\ pc[w] = "record"
    BY <1>19, <2>1 DEF RecordMediaRejected, Commit
  <2>4. \A p \in Posts :
          orphaned'[p] = IF p = Job(w) THEN orphaned[p] + Held(p) ELSE orphaned[p]
    BY <1>a, <2>2, <2>3, PublishingConstants DEF OrphanCopy, Held, TypeOK
  <2>5. HeldAccountedFor'
    BY <1>a, <2>2, <2>3, <2>4 DEF HeldAccountedFor, IInv, TypeOK, Held
  <2>6. Quota'
    BY <1>a, <2>2, <2>3 DEF Quota, IInv, TypeOK, Claimable
  <2> QED
    BY <2>2, <2>5, <2>6
<1>20. ASSUME NEW w \in Workers, RetryTask(w) PROVE Rest'
  <2>1. pc[w] # "idle" /\ Rollback(w) /\ pc' = [pc EXCEPT ![w] = "ack"] /\ msg' = msg
    BY <1>20 DEF RetryTask
  <2> QED
    BY <2>1, RollbackStep DEF PCs, InTransaction
<1>21. ASSUME NEW w \in Workers, GiveUp(w) PROVE Rest'
  <2>1. pc[w] # "idle" /\ Rollback(w) /\ pc' = [pc EXCEPT ![w] = "ack"] /\ msg' = msg
    BY <1>21 DEF GiveUp
  <2> QED
    BY <2>1, RollbackStep DEF PCs, InTransaction
<1>22. ASSUME NEW w \in Workers, Abort(w) PROVE Rest'
  <2>1. pc[w] # "idle" /\ Rollback(w) /\ pc' = [pc EXCEPT ![w] = "ack"] /\ msg' = msg
    BY <1>22 DEF Abort, InTransaction
  <2> QED
    BY <2>1, RollbackStep DEF PCs, InTransaction
<1>23. ASSUME NEW w \in Workers, Crash(w) PROVE Rest'
  <2>1. pc[w] # "idle" /\ Rollback(w) /\ pc' = [pc EXCEPT ![w] = "idle"]
    BY <1>23 DEF Crash
  <2>2. \A v \in Workers : v # w => msg'[v] = msg[v]
    BY <1>23, <1>a DEF Crash, TypeOK
  <2> QED
    BY <2>1, <2>2, RollbackStep DEF PCs, InTransaction
<1>24. ASSUME NEW p \in Posts, RetryPost(p) PROVE Rest'
  <2>1. \A r \in Posts : lock[r] # NoWorker => r # p
    BY <1>24 DEF RetryPost, Unlocked
  <2>2. /\ \A r \in Posts : r # p => status'[r] = status[r] /\ requeues'[r] = requeues[r]
        /\ requeues'[p] = requeues[p] + 1
        /\ UNCHANGED <<started, lock, pc, msg, live, platform>>
    BY <1>24, <1>a DEF RetryPost, TypeOK
  <2>3. LockOwner' /\ \A r \in Posts : Held(r)' = Held(r)
    BY <2>2 DEF IInv, LockOwner, Job, Held
  <2>4. Quota' /\ TransientStatusesStayInside'
    BY <1>a, <2>2 DEF IInv, Quota, TransientStatusesStayInside, TypeOK
  <2> QED
    BY <2>1, <2>2, <2>3, <2>4 DEF IInv, LockedWaits, NeverStarted, HeldAccountedFor
<1>25. ASSUME NEW p \in Posts, NEW s \in PatchTargets, PatchStatus(p, s) PROVE Rest'
  <2>1. \A r \in Posts : lock[r] # NoWorker => r # p
    BY <1>25 DEF PatchStatus, Unlocked
  <2>2. /\ \A r \in Posts : r # p => status'[r] = status[r] /\ requeues'[r] = requeues[r]
        /\ requeues'[p] = requeues[p] + 1
        /\ UNCHANGED <<started, lock, pc, msg, live, platform>>
    BY <1>25, <1>a DEF PatchStatus, TypeOK
  <2>3. LockOwner' /\ \A r \in Posts : Held(r)' = Held(r)
    BY <2>2 DEF IInv, LockOwner, Job, Held
  <2>4. Quota' /\ TransientStatusesStayInside'
    BY <1>a, <2>2 DEF IInv, Quota, TransientStatusesStayInside, TypeOK
  <2> QED
    BY <2>1, <2>2, <2>3, <2>4 DEF IInv, LockedWaits, NeverStarted, HeldAccountedFor
<1>26. CASE ReclaimOrphans
  <2>1. Orphans = {}
    BY DEF IInv, NeverStarted, Orphans
  <2>2. status' = status /\ started' = started
    BY <1>26, <1>a, <2>1 DEF ReclaimOrphans, TypeOK
  <2>3. LockOwner' /\ \A p \in Posts : Held(p)' = Held(p)
    BY <1>26 DEF ReclaimOrphans, IInv, LockOwner, Job, Held
  <2> QED
    BY <1>26, <2>2, <2>3 DEF ReclaimOrphans, IInv, LockedWaits, NeverStarted,
       TransientStatusesStayInside, HeldAccountedFor, Quota
<1> QED
  BY <1>1, <1>2, <1>3, <1>4, <1>5, <1>6, <1>7, <1>8, <1>9, <1>10, <1>11, <1>12, <1>13, <1>14, <1>15, <1>16, <1>17, <1>18, <1>19, <1>20, <1>21, <1>22, <1>23, <1>24, <1>25, <1>26
  DEF Next, WorkerStep

\* The invariant holds when the queue is empty and nobody works.
LEMMA InvariantInit == Init => IInv
<1> SUFFICES ASSUME Init PROVE IInv
  OBVIOUS
<1>1. TypeOK /\ Locals
  BY PublishingConstants DEF Init, TypeOK, Locals, Statuses, PCs
<1>2. LockOwner /\ LockedWaits
  BY PublishingConstants DEF Init, LockOwner, LockedWaits, InTransaction
<1>3. NeverStarted /\ TransientStatusesStayInside
  BY DEF Init, NeverStarted, TransientStatusesStayInside
<1>4. HeldAccountedFor /\ Quota
  BY DEF Init, HeldAccountedFor, Held, Quota, Claimable
<1> QED
  BY <1>1, <1>2, <1>3, <1>4 DEF IInv

\* The lock discipline and the accounting of copies hold for ever.
THEOREM Invariance == Spec => []IInv
BY InvariantInit, InvariantStep, PTL DEF Spec

-----------------------------------------------------------------------------
\* Under the lock discipline the holder of a row's lock is the only worker
\* that may have an unrecorded copy of the post.
LEMMA UnrecordedIsHeld ==
  ASSUME TypeOK, LockOwner
  PROVE  \A p \in Posts : Unrecorded(p) = Held(p)
BY PublishingConstants DEF Unrecorded, Held, TypeOK, LockOwner, InTransaction

\* Two workers are never inside the transactions of the same post.
THEOREM OneTransactionPerPost == Spec => []SingleFlight
<1>1. IInv => SingleFlight
  BY JobTyped DEF IInv, LockOwner, SingleFlight, InTransaction
<1> QED
  BY <1>1, Invariance, PTL

\* Copies on the platform are recorded, orphaned or about to be recorded.
THEOREM EveryCopyAccountedFor == Spec => []CopiesAccountedFor
<1>1. IInv => CopiesAccountedFor
  BY UnrecordedIsHeld DEF IInv, CopiesAccountedFor, HeldAccountedFor
<1> QED
  BY <1>1, Invariance, PTL

\* Only an error or a crash after Meta accepted, or an editor, duplicates a post.
THEOREM NoDuplicateWithoutLoss == Spec => []AtMostOncePerQueueing
<1>1. IInv => AtMostOncePerQueueing
  <2> SUFFICES ASSUME IInv, NEW p \in Posts
               PROVE  meta[p] <= 1 + requeues[p] + orphaned[p]
    BY DEF AtMostOncePerQueueing
  <2>1. /\ meta[p] = recorded[p] + orphaned[p] + Held(p)
        /\ recorded[p] + (IF status[p] \in Claimable THEN 1 ELSE 0) <= 1 + requeues[p]
        /\ recorded[p] \in Nat /\ orphaned[p] \in Nat /\ requeues[p] \in Nat
    BY DEF IInv, HeldAccountedFor, Quota, TypeOK
  <2>2. CASE Held(p) = 0
    BY <2>1, <2>2
  <2>3. CASE Held(p) = 1 /\ status[p] \in Claimable
    BY <2>1, <2>3
  <2> QED
    BY <2>2, <2>3 DEF Held, IInv, LockedWaits
<1> QED
  BY <1>1, Invariance, PTL

\* The orphan sweep has nothing to reclaim in any reachable state.
THEOREM SweepIsIdle == Spec => []SweepFindsNothing
<1>1. IInv => SweepFindsNothing
  BY DEF IInv, NeverStarted, SweepFindsNothing, Orphans
<1> QED
  BY <1>1, Invariance, PTL

\* The statuses of a transaction under way are never committed by the task.
THEOREM TransientStatusesNeverCommitted == Spec => []TransientStatusesStayInside
<1>1. IInv => TransientStatusesStayInside
  BY DEF IInv
<1> QED
  BY <1>1, Invariance, PTL

\* What a step does to the ledger: nothing, or the step of one post.  Copies
\* are added to the platform only while the post waits.
LedgerStep ==
  \/ /\ UNCHANGED <<status, requeues, recorded, orphaned>>
     /\ \A p \in Posts : meta'[p] # meta[p] => status[p] \in Claimable
  \/ meta' = meta /\ \E p \in Posts :
       Ledger!Publish(p) \/ Ledger!Block(p) \/ Ledger!Lose(p) \/ Ledger!Edit(p)

\* Recording or orphaning one copy of a post adds one to the ledger's copies of it.
LEMMA OneMoreCopy ==
  ASSUME IInv, NEW p \in Posts,
         \/ recorded' = [recorded EXCEPT ![p] = @ + 1] /\ orphaned' = orphaned
         \/ recorded' = recorded /\ orphaned' = [orphaned EXCEPT ![p] = @ + 1]
  PROVE  [r \in Posts |-> recorded'[r] + orphaned'[r]]
           = [[r \in Posts |-> recorded[r] + orphaned[r]] EXCEPT ![p] = @ + 1]
<1>1. \A r \in Posts : recorded[r] \in Nat /\ orphaned[r] \in Nat
  BY DEF IInv, TypeOK
<1>2. \A r \in Posts :
        recorded'[r] + orphaned'[r] = recorded[r] + orphaned[r] + (IF r = p THEN 1 ELSE 0)
  BY <1>1 DEF IInv, TypeOK
<1> DEFINE copies == [r \in Posts |-> recorded[r] + orphaned[r]]
<1>3. [copies EXCEPT ![p] = @ + 1]
        = [r \in Posts |-> IF r = p THEN copies[p] + 1 ELSE copies[r]]
  OBVIOUS
<1>4. \A r \in Posts : copies[r] = recorded[r] + orphaned[r] /\ copies[r] \in Nat
  BY <1>1
<1>5. \A r \in Posts :
        recorded'[r] + orphaned'[r] = IF r = p THEN copies[p] + 1 ELSE copies[r]
  BY <1>1, <1>2, <1>4
<1> HIDE DEF copies
<1>6. [r \in Posts |-> recorded'[r] + orphaned'[r]] = [copies EXCEPT ![p] = @ + 1]
  BY <1>3, <1>5
<1> QED
  BY <1>6 DEF copies

\* A copy orphaned while its post waits is a Lose step of the ledger.
LEMMA OrphanLoses ==
  ASSUME IInv, NEW w \in Workers, NEW p \in Posts, Job(w) = p, OrphanCopy(w),
         pc[w] = "record" /\ live[w], status[p] \in Claimable,
         \E s \in Ledger!Blocked \cup {status[p]} : status' = [status EXCEPT ![p] = s],
         UNCHANGED <<meta, recorded, requeues>>
  PROVE  LedgerStep
<1>1. orphaned' = [orphaned EXCEPT ![p] = @ + 1]
  BY DEF OrphanCopy
<1>2. Ledger!Lose(p)
  BY <1>1, OneMoreCopy DEF Ledger!Lose, Ledger!Waiting, Ledger!Claimable, Claimable
<1> QED
  BY <1>2 DEF LedgerStep

\* An error outcome is one Block step of the ledger, or a Lose step if Meta has a copy.
LEMMA CommitBlocks ==
  ASSUME IInv, NEW w \in Workers, pc[w] \in InTransaction, NEW s \in Ledger!Blocked,
         Commit(w, s), OrphanCopy(w) \/ (orphaned' = orphaned /\ pc[w] # "record"),
         recorded' = recorded
  PROVE  LedgerStep
<1>1. Job(w) \in Posts /\ status[Job(w)] \in Claimable
  BY CommitStep DEF Ledger!Blocked, Statuses, Claimable
<1>2. PICK p \in Posts : p = Job(w)
  BY <1>1
<1>3. status' = [status EXCEPT ![p] = s] /\ UNCHANGED <<meta, requeues>>
  BY <1>2 DEF Commit
<1>4. CASE pc[w] = "record" /\ live[w]
  BY <1>1, <1>2, <1>3, <1>4, OrphanLoses
<1>5. CASE ~(pc[w] = "record" /\ live[w])
  <2>1. orphaned' = orphaned
    BY <1>5 DEF OrphanCopy
  <2>2. Ledger!Block(p)
    BY <1>1, <1>2, <1>3, <2>1 DEF Ledger!Block, Ledger!Waiting, Ledger!Claimable, Claimable
  <2> QED
    BY <1>3, <2>2 DEF LedgerStep
<1> QED
  BY <1>4, <1>5

\* A rollback is a Lose step of the ledger, or no step at all.
LEMMA RollbackLoses ==
  ASSUME IInv, NEW w \in Workers, pc[w] # "idle", Rollback(w)
  PROVE  LedgerStep
<1>1. OrphanCopy(w) /\ UNCHANGED <<status, meta, recorded, requeues>>
  BY DEF Rollback
<1>2. CASE pc[w] = "record" /\ live[w]
  <2>1. Job(w) \in Posts /\ status[Job(w)] \in Claimable
    BY <1>2, JobTyped, PublishingConstants DEF IInv, LockOwner, LockedWaits, InTransaction
  <2>2. PICK p \in Posts : p = Job(w)
    BY <2>1
  <2>3. status' = [status EXCEPT ![p] = status[p]]
    BY <1>1, <2>2 DEF IInv, TypeOK
  <2> QED
    BY <1>1, <1>2, <2>1, <2>2, <2>3, OrphanLoses
<1>3. CASE ~(pc[w] = "record" /\ live[w])
  BY <1>1, <1>3 DEF OrphanCopy, LedgerStep
<1> QED
  BY <1>2, <1>3

\* Every step of the pipeline is a step of the ledger or a stutter.
LEMMA StepsOnLedger == IInv /\ [Next]_vars => LedgerStep
<1> SUFFICES ASSUME IInv, [Next]_vars PROVE LedgerStep
  OBVIOUS
<1>1. ASSUME NEW w \in Workers,
             Receive(w) \/ Claim(w) \/ Skip(w) \/ LoadPage(w) \/ PickPostingId(w)
               \/ MetaRefuses(w) \/ Ack(w)
      PROVE  LedgerStep
  BY <1>1 DEF LedgerStep, Receive, Claim, Skip, LoadPage, PickPostingId, MetaRefuses, Ack
<1>2. CASE (\E p \in Posts : Send(p)) \/ (\E x \in PostingIds : RetirePostingId(x))
           \/ (\E g \in Pages : ConnectPage(g)) \/ UNCHANGED vars
  BY <1>2 DEF LedgerStep, Send, RetirePostingId, ConnectPage
<1>3. ASSUME NEW w \in Workers, MetaAccepts(w) \/ MetaAcceptsThenFails(w) PROVE LedgerStep
  <2>1. Job(w) \in Posts /\ status[Job(w)] \in Claimable
    BY <1>3, JobTyped, PublishingConstants
    DEF MetaAccepts, MetaAcceptsThenFails, IInv, LockOwner, LockedWaits, InTransaction
  <2>2. \A p \in Posts : p # Job(w) => meta'[p] = meta[p]
    BY <1>3 DEF MetaAccepts, MetaAcceptsThenFails, IInv, TypeOK
  <2> QED
    BY <1>3, <2>1, <2>2 DEF LedgerStep, MetaAccepts, MetaAcceptsThenFails
<1>4. ASSUME NEW w \in Workers, RecordPublished(w) PROVE LedgerStep
  <2>1. Commit(w, "published") /\ pc[w] \in InTransaction
    BY <1>4 DEF RecordPublished, InTransaction
  <2>2. Job(w) \in Posts /\ status[Job(w)] \in Claimable
    BY <2>1, CommitStep DEF Statuses, Claimable
  <2>3. PICK p \in Posts : p = Job(w)
    BY <2>2
  <2>4. /\ status' = [status EXCEPT ![p] = "published"]
        /\ recorded' = [recorded EXCEPT ![p] = @ + 1]
        /\ UNCHANGED <<meta, orphaned, requeues>>
    BY <1>4, <2>1, <2>3 DEF RecordPublished, Commit
  <2>5. Ledger!Publish(p)
    BY <2>2, <2>3, <2>4, OneMoreCopy DEF Ledger!Publish, Ledger!Waiting, Ledger!Claimable, Claimable
  <2> QED
    BY <2>4, <2>5 DEF LedgerStep
<1>5. ASSUME NEW w \in Workers, NoToken(w) \/ NoCandidate(w) PROVE LedgerStep
  BY <1>5, CommitBlocks DEF NoToken, NoCandidate, InTransaction, Ledger!Blocked
<1>6. ASSUME NEW w \in Workers,
             RecordTokenExpired(w) \/ RecordRevoked(w) \/ RecordMediaRejected(w)
      PROVE  LedgerStep
  BY <1>6, CommitBlocks
  DEF RecordTokenExpired, RecordRevoked, RecordMediaRejected, InTransaction, Ledger!Blocked
<1>7. ASSUME NEW w \in Workers, RetryTask(w) \/ GiveUp(w) \/ Abort(w) \/ Crash(w)
      PROVE  LedgerStep
  BY <1>7, RollbackLoses DEF RetryTask, GiveUp, Abort, Crash, InTransaction
<1>8. ASSUME NEW p \in Posts, RetryPost(p) \/ \E s \in PatchTargets : PatchStatus(p, s)
      PROVE  LedgerStep
  <2>1. Ledger!Edit(p) /\ meta' = meta
    BY <1>8, PublishingConstants DEF RetryPost, PatchStatus, Ledger!Edit, Ledger!Statuses, Statuses
  <2> QED
    BY <2>1 DEF LedgerStep
<1>9. CASE ReclaimOrphans
  <2>1. Orphans = {}
    BY DEF IInv, NeverStarted, Orphans
  <2>2. status' = status
    BY <1>9, <2>1 DEF ReclaimOrphans, IInv, TypeOK
  <2> QED
    BY <1>9, <2>2 DEF ReclaimOrphans, LedgerStep
<1> QED
  BY <1>1, <1>2, <1>3, <1>4, <1>5, <1>6, <1>7, <1>8, <1>9 DEF Next, WorkerStep

\* A published post is left alone by every task, for any interleaving.
THEOREM PublishedStaysPublished == Spec => PublishedIsFinal
<1>1. IInv /\ [Next]_vars =>
        [\A p \in Posts : status[p] = "published" =>
           /\ meta'[p] = meta[p]
           /\ status'[p] = "published" \/ requeues'[p] > requeues[p]]_vars
  <2> SUFFICES ASSUME IInv, [Next]_vars, NEW p \in Posts, status[p] = "published"
               PROVE  /\ meta'[p] = meta[p]
                      /\ status'[p] = "published" \/ requeues'[p] > requeues[p]
    OBVIOUS
  <2>1. LedgerStep
    BY StepsOnLedger
  <2>2. CASE UNCHANGED status /\ \A r \in Posts : meta'[r] # meta[r] => status[r] \in Claimable
    BY <2>2 DEF Claimable
  <2>3. ASSUME NEW r \in Posts, meta' = meta,
               Ledger!Publish(r) \/ Ledger!Block(r) \/ Ledger!Lose(r)
        PROVE  status'[p] = "published"
    BY <2>3 DEF Ledger!Publish, Ledger!Block, Ledger!Lose, Ledger!Waiting, Ledger!Claimable, Claimable, IInv, TypeOK
  <2>4. ASSUME NEW r \in Posts, Ledger!Edit(r)
        PROVE  status'[p] = "published" \/ requeues'[p] > requeues[p]
    BY <2>4 DEF Ledger!Edit, IInv, TypeOK
  <2> QED
    BY <2>1, <2>2, <2>3, <2>4 DEF LedgerStep
<1> QED
  BY <1>1, Invariance, PTL DEF Spec, PublishedIsFinal

\* No status change of the pipeline leaves the life cycle, for any interleaving.
THEOREM PipelineStaysLegal == Spec => PipelineChangesAreLegal
<1>1. IInv /\ [Next]_vars =>
        [\A p \in Posts : status'[p] # status[p] /\ requeues'[p] = requeues[p] =>
           \/ CanTransition(status[p], status'[p])
           \/ CanTransition(status[p], "publishing") /\ CanTransition("publishing", status'[p])]_vars
  <2> SUFFICES ASSUME IInv, [Next]_vars, NEW p \in Posts,
                      status'[p] # status[p], requeues'[p] = requeues[p]
               PROVE  \/ CanTransition(status[p], status'[p])
                      \/ /\ CanTransition(status[p], "publishing")
                         /\ CanTransition("publishing", status'[p])
    OBVIOUS
  <2>1. LedgerStep
    BY StepsOnLedger
  <2>2. PICK r \in Posts :
          Ledger!Publish(r) \/ Ledger!Block(r) \/ Ledger!Lose(r) \/ Ledger!Edit(r)
    BY <2>1 DEF LedgerStep
  <2>3. ~Ledger!Edit(r)
    BY <2>2 DEF Ledger!Edit, IInv, TypeOK
  <2>4. status[p] \in Claimable /\ status'[p] \in Ledger!Blocked \cup {"published"}
    BY <2>2, <2>3
    DEF Ledger!Publish, Ledger!Block, Ledger!Lose, Ledger!Waiting, Ledger!Claimable, Claimable,
        IInv, TypeOK
  <2> QED
    BY <2>4 DEF CanTransition, LegalTransitions, Claimable, Ledger!Blocked
<1> QED
  BY <1>1, Invariance, PTL DEF Spec, PipelineChangesAreLegal

\* The pipeline implements the ledger, for any number of workers and messages.
THEOREM PipelineImplementsLedger == Spec => ImplementsLedger
<1>1. Init => Ledger!Init
  BY DEF Init, Ledger!Init
<1>2. IInv /\ [Next]_vars => [Ledger!Next]_(Ledger!ledger)
  <2> SUFFICES ASSUME IInv, [Next]_vars PROVE [Ledger!Next]_(Ledger!ledger)
    OBVIOUS
  <2>1. LedgerStep
    BY StepsOnLedger
  <2> QED
    BY <2>1 DEF LedgerStep, Ledger!Next, Ledger!ledger
<1> QED
  BY <1>1, <1>2, Invariance, PTL DEF Spec, ImplementsLedger, Ledger!Spec

-----------------------------------------------------------------------------
\* NoSilentLoss is inductive: each step that takes a message from the broker
\* or from a worker settles its post, counts it as dropped or passes it on.
Unsettled(p) == status[p] \in Claimable /\ sent[p] > 0 /\ dropped[p] = 0 /\ requeues[p] = 0

Busy(w) == pc[w] \in InTransaction \cup {"claim"}

\* No step leaves a sent post waiting without a message or a worker on it: every
\* consumed message ends in a settled row, a retry, a redelivery or a counted drop.
LEMMA NoSilentLossStep == IInv /\ NoSilentLoss /\ [Next]_vars => NoSilentLoss'
<1> SUFFICES ASSUME IInv, NoSilentLoss, [Next]_vars, NEW p \in Posts, Unsettled(p)'
             PROVE  Pending(p)'
  BY DEF NoSilentLoss, Unsettled
<1>a. TypeOK /\ Locals
  BY DEF IInv
<1>b. Unsettled(p) => Pending(p)
  BY DEF NoSilentLoss, Unsettled
<1> USE DEF Busy, InTransaction, Unsettled
<1>1. ASSUME NEW w \in Workers, Receive(w) PROVE Pending(p)'
  <2>1. Pending(p)
    BY <1>1, <1>b DEF Receive
  <2>2. PICK m \in Messages :
          queue[m] > 0 /\ queue' = [queue EXCEPT ![m] = @ - 1] /\ msg' = [msg EXCEPT ![w] = m]
    BY <1>1 DEF Receive
  <2>3. CASE m[1] = p
    BY <1>1, <1>a, <2>2, <2>3 DEF Receive, Pending, Job, TypeOK
  <2>4. CASE m[1] # p
    BY <1>1, <1>a, <2>1, <2>2, <2>4 DEF Receive, Pending, Job, TypeOK
  <2> QED
    BY <2>3, <2>4
<1>2. ASSUME NEW w \in Workers,
             Claim(w) \/ LoadPage(w) \/ PickPostingId(w) \/ MetaAccepts(w)
               \/ MetaRefuses(w) \/ MetaAcceptsThenFails(w)
      PROVE  Pending(p)'
  <2>1. /\ pc'[w] \in InTransaction /\ pc[w] # "idle"
        /\ \A v \in Workers : v # w => pc'[v] = pc[v]
        /\ UNCHANGED <<status, queue, msg, sent, dropped, requeues>>
    BY <1>2, <1>a DEF Claim, LoadPage, PickPostingId, MetaAccepts, MetaRefuses,
       MetaAcceptsThenFails, TypeOK
  <2> QED
    BY <1>b, <2>1 DEF Pending, Job
<1>3. ASSUME NEW w \in Workers, Skip(w) \/ Ack(w) PROVE Pending(p)'
  <2>1. /\ \A v \in Workers : v # w => pc'[v] = pc[v] /\ msg'[v] = msg[v]
        /\ pc[w] = "ack" \/ (pc[w] = "claim" /\ Job(w) # p)
        /\ UNCHANGED <<status, queue, sent, dropped, requeues>>
    BY <1>3, <1>a DEF Skip, Ack, TypeOK
  <2> QED
    BY <1>b, <2>1 DEF Pending, Job
<1>4. ASSUME NEW w \in Workers, NEW s \in Statuses \ (Claimable \cup {"publishing"}),
             pc[w] \in InTransaction, Commit(w, s)
      PROVE  Pending(p)'
  <2>1. Job(w) # p
    BY <1>4, CommitStep
  <2>2. /\ \A v \in Workers : v # w => pc'[v] = pc[v]
        /\ UNCHANGED <<queue, msg, sent, dropped, requeues>>
        /\ status'[p] = status[p]
    BY <1>4, <1>a, <2>1 DEF Commit, TypeOK
  <2> QED
    BY <1>b, <2>1, <2>2 DEF Pending, Job
<1>5. ASSUME NEW w \in Workers,
             NoToken(w) \/ NoCandidate(w) \/ RecordPublished(w) \/ RecordTokenExpired(w)
               \/ RecordRevoked(w) \/ RecordMediaRejected(w)
      PROVE  Pending(p)'
  BY <1>4, <1>5 DEF NoToken, NoCandidate, RecordPublished, RecordTokenExpired, RecordRevoked,
     RecordMediaRejected, Statuses, Claimable
<1>6. ASSUME NEW w \in Workers, NEW m \in Messages, m[1] = Job(w), pc[w] # "idle",
             queue' = [queue EXCEPT ![m] = @ + 1], Rollback(w), dropped' = dropped,
             \A v \in Workers : v # w => pc'[v] = pc[v] /\ msg'[v] = msg[v]
      PROVE  Pending(p)'
  <2>1. UNCHANGED <<status, sent, requeues>>
    BY <1>6 DEF Rollback
  <2>2. /\ \A r \in Messages : queue'[r] >= queue[r]
        /\ queue'[m] > 0
    BY <1>6, <1>a DEF TypeOK
  <2>3. CASE Job(w) = p
    BY <1>6, <2>2, <2>3 DEF Pending
  <2>4. CASE Job(w) # p
    BY <1>a, <1>b, <1>6, <2>1, <2>2, <2>4 DEF Pending, Job, TypeOK
  <2> QED
    BY <2>3, <2>4
<1>7. ASSUME NEW w \in Workers, RetryTask(w) PROVE Pending(p)'
  <2>1. Job(w) \in Posts /\ msg[w][2] \in Tries
    BY <1>7, <1>a, JobTyped DEF RetryTask
  <2>2. PICK m \in Messages : m = <<Job(w), msg[w][2] + 1>>
    BY <1>7, <2>1, PublishingConstants DEF RetryTask, Messages, Tries
  <2>3. \A v \in Workers : v # w => pc'[v] = pc[v] /\ msg'[v] = msg[v]
    BY <1>7, <1>a DEF RetryTask, TypeOK
  <2>4. /\ m[1] = Job(w) /\ pc[w] # "idle" /\ Rollback(w) /\ dropped' = dropped
        /\ queue' = [queue EXCEPT ![m] = @ + 1]
    BY <1>7, <2>2 DEF RetryTask
  <2> QED
    BY <1>6, <2>3, <2>4
<1>8. ASSUME NEW w \in Workers, Crash(w) PROVE Pending(p)'
  <2>1. PICK m \in Messages : m = msg[w]
    BY <1>8, <1>a DEF Crash, Locals
  <2>2. \A v \in Workers : v # w => pc'[v] = pc[v] /\ msg'[v] = msg[v]
    BY <1>8, <1>a DEF Crash, TypeOK
  <2>3. /\ m[1] = Job(w) /\ pc[w] # "idle" /\ Rollback(w) /\ dropped' = dropped
        /\ queue' = [queue EXCEPT ![m] = @ + 1]
    BY <1>8, <2>1 DEF Crash, Job
  <2> QED
    BY <1>6, <2>2, <2>3
<1>9. ASSUME NEW w \in Workers, GiveUp(w) \/ Abort(w) PROVE Pending(p)'
  <2>1. /\ UNCHANGED <<status, queue, msg, sent, requeues>>
        /\ Job(w) \in Posts
        /\ dropped' = [dropped EXCEPT ![Job(w)] = @ + 1]
        /\ \A v \in Workers : v # w => pc'[v] = pc[v]
    BY <1>9, <1>a, JobTyped DEF GiveUp, Abort, Rollback, TypeOK
  <2>2. Job(w) # p /\ dropped[p] = 0
    BY <1>a, <2>1 DEF TypeOK
  <2> QED
    BY <1>b, <2>1, <2>2 DEF Pending, Job
<1>10. ASSUME NEW r \in Posts, Send(r) PROVE Pending(p)'
  <2>0. 0 \in Tries
    BY PublishingConstants DEF Tries
  <2>1. PICK m \in Messages : m = <<r, 0>>
    BY <2>0 DEF Messages
  <2>2. queue' = [queue EXCEPT ![m] = @ + 1] /\ UNCHANGED <<status, pc, msg, dropped, requeues>>
    BY <1>10, <2>1 DEF Send
  <2>3. (\A n \in Messages : queue'[n] >= queue[n]) /\ queue'[m] > 0
    BY <1>a, <2>2 DEF TypeOK
  <2>4. CASE r = p
    BY <2>1, <2>3, <2>4 DEF Pending
  <2>5. CASE r # p
    <3>1. sent'[p] = sent[p]
      BY <1>10, <1>a, <2>5 DEF Send, TypeOK
    <3>2. Pending(p)
      BY <1>b, <2>2, <3>1
    <3> QED
      BY <1>a, <2>2, <2>3, <3>2 DEF Pending, Job, TypeOK
  <2> QED
    BY <2>4, <2>5
<1>11. ASSUME NEW r \in Posts, RetryPost(r) \/ \E s \in PatchTargets : PatchStatus(r, s)
       PROVE  Pending(p)'
  <2>1. r # p
    BY <1>11, <1>a DEF RetryPost, PatchStatus, TypeOK
  <2>2. /\ status'[p] = status[p] /\ requeues'[p] = requeues[p]
        /\ UNCHANGED <<queue, pc, msg, sent, dropped>>
    BY <1>11, <1>a, <2>1 DEF RetryPost, PatchStatus, TypeOK
  <2> QED
    BY <1>b, <2>2 DEF Pending, Job
<1>12. CASE ReclaimOrphans
  <2>1. Orphans = {}
    BY DEF IInv, NeverStarted, Orphans
  <2>2. status' = status /\ queue' = queue
    BY <1>12, <1>a, <2>1 DEF ReclaimOrphans, TypeOK
  <2> QED
    BY <1>12, <1>b, <2>2 DEF ReclaimOrphans, Pending, Job
<1>13. CASE (\E x \in PostingIds : RetirePostingId(x)) \/ (\E g \in Pages : ConnectPage(g))
            \/ UNCHANGED vars
  BY <1>13, <1>b DEF RetirePostingId, ConnectPage, Pending, Job
<1> QED
  BY <1>1, <1>2, <1>3, <1>5, <1>7, <1>8, <1>9, <1>10, <1>11, <1>12, <1>13 DEF Next, WorkerStep

\* No post that was sent is lost: acks_late, redelivery and skipped claims
\* always leave a message or a worker behind for a post that still waits.
THEOREM NothingLostSilently == Spec => []NoSilentLoss
<1>1. Init => NoSilentLoss
  BY DEF Init, NoSilentLoss
<1> QED
  BY <1>1, NoSilentLossStep, Invariance, PTL DEF Spec

=============================================================================
