---------------------------- MODULE PostReview ----------------------------
(***************************************************************************)
(* The API handlers that move a post: app/api/posts.py and                 *)
(* app/api/approvals.py, with the publish pipeline at work on the same     *)
(* rows.  A handler never awaits, so one API process runs one request at a *)
(* time; processes run side by side when the service is replicated or      *)
(* while a new deployment replaces the old one.  A handler with several    *)
(* SQL statements is several steps; an UPDATE and the commit that follows  *)
(* it are one.                                                             *)
(*                                                                         *)
(* The pipeline is taken as its ledger (PostLedger), which Publishing      *)
(* implements: between two requests it settles, blocks or loses a copy of  *)
(* a post that waits.                                                      *)
(***************************************************************************)
EXTENDS Naturals, PostStatus

CONSTANTS
  Posts, Pages,
  PageOf,        \* the page of a post
  Api,           \* the API processes
  PatchTargets,  \* the statuses an editor's PATCH sets
  MaxEdits,      \* bound: PATCHes of the status and retries of a post
  MaxLost,       \* bound: copies of a post its row does not record
  NoProcess, NoPost

ASSUME ReviewConstants ==
  /\ PageOf \in [Posts -> Pages]
  /\ PatchTargets \subseteq Statuses
  /\ MaxEdits \in Nat /\ MaxLost \in Nat
  /\ NoProcess \notin Api
  /\ NoPost \notin Posts

VARIABLES
  status,    \* posts.status, "absent" before the INSERT, "deleted" after the DELETE
  lock,      \* the process whose transaction holds the row of a post
  gated,     \* pages.require_approval
  pc,        \* where a process stands in its handler
  post,      \* the post its request is about
  value,     \* the status the handler has read, or will write
  approvals, \* the rows of table approvals
  rounds,    \* history: how often a post became pending_approval
  copies,    \* the copies on the platform
  lost,      \* the copies its row does not record
  edits,     \* history: PATCHes of the status and retries
  overlapped \* history: a request came while another process was in a handler

handler == <<pc, post, value>>
counts == <<approvals, rounds>>
vars == <<status, lock, gated, handler, counts, copies, lost, edits, overlapped>>

RowStatuses == Statuses \cup {"absent", "deleted"}

Pipeline == INSTANCE PostLedger

TypeOK ==
  /\ status \in [Posts -> RowStatuses]
  /\ lock \in [Posts -> Api \cup {NoProcess}]
  /\ gated \in [Pages -> BOOLEAN]
  /\ pc \in [Api -> {"idle", "submit_page", "submit_write", "review"}]
  /\ post \in [Api -> Posts \cup {NoPost}]
  /\ value \in [Api -> Statuses \cup {"none"}]
  /\ approvals \in [Posts -> Nat]
  /\ rounds \in [Posts -> Nat]
  /\ copies \in [Posts -> Nat]
  /\ lost \in [Posts -> Nat]
  /\ edits \in [Posts -> Nat]
  /\ overlapped \in BOOLEAN

Init ==
  /\ status = [p \in Posts |-> "absent"]
  /\ lock = [p \in Posts |-> NoProcess]
  /\ gated \in [Pages -> BOOLEAN]
  /\ pc = [a \in Api |-> "idle"]
  /\ post = [a \in Api |-> NoPost]
  /\ value = [a \in Api |-> "none"]
  /\ approvals = [p \in Posts |-> 0]
  /\ rounds = [p \in Posts |-> 0]
  /\ copies = [p \in Posts |-> 0]
  /\ lost = [p \in Posts |-> 0]
  /\ edits = [p \in Posts |-> 0]
  /\ overlapped = FALSE

-----------------------------------------------------------------------------
Unlocked(p) == lock[p] = NoProcess

SetStatus(p, s) == status' = [status EXCEPT ![p] = s]

\* A request begins at a process: does it find another one under way?
Note(a) == overlapped' = (overlapped \/ \E b \in Api \ {a} : pc[b] # "idle")

\* The response is sent: the process takes the next request.
Done(a) ==
  /\ pc' = [pc EXCEPT ![a] = "idle"]
  /\ post' = [post EXCEPT ![a] = NoPost]
  /\ value' = [value EXCEPT ![a] = "none"]

\* A handler whose one statement is guarded by the status it finds under the
\* row lock.  When the guard fails it answers 404 and changes nothing.
OneStatement(a, p, from, to) ==
  /\ pc[a] = "idle"
  /\ Note(a)
  /\ Unlocked(p)
  /\ status[p] \in from
  /\ SetStatus(p, to)
  /\ UNCHANGED <<lock, gated, handler, approvals, copies, lost>>

CreatePost(a, p) ==
  OneStatement(a, p, {"absent"}, "draft") /\ UNCHANGED <<rounds, edits>>

SchedulePost(a, p) ==
  OneStatement(a, p, Schedulable, "queued") /\ UNCHANGED <<rounds, edits>>

DeletePost(a, p) ==
  OneStatement(a, p, Deletable, "deleted") /\ UNCHANGED <<rounds, edits>>

RetryPost(a, p) ==
  /\ edits[p] < MaxEdits
  /\ OneStatement(a, p, Retryable, "queued")
  /\ edits' = [edits EXCEPT ![p] = @ + 1]
  /\ UNCHANGED rounds

\* PATCH /posts/{id}: the status is a field like any other.
PatchPost(a, p, s) ==
  /\ edits[p] < MaxEdits
  /\ OneStatement(a, p, Statuses, s)
  /\ edits' = [edits EXCEPT ![p] = @ + 1]
  /\ rounds' = IF s = "pending_approval" THEN [rounds EXCEPT ![p] = @ + 1] ELSE rounds

\* PATCH /pages/{id} of require_approval.
TogglePage(a, g) ==
  /\ pc[a] = "idle"
  /\ Note(a)
  /\ gated' = [gated EXCEPT ![g] = ~@]
  /\ UNCHANGED <<status, lock, handler, counts, copies, lost, edits>>

-----------------------------------------------------------------------------
\* submit_for_approval: SELECT the draft, without a lock,
SubmitRead(a, p) ==
  /\ pc[a] = "idle"
  /\ Note(a)
  /\ status[p] = "draft"
  /\ pc' = [pc EXCEPT ![a] = "submit_page"]
  /\ post' = [post EXCEPT ![a] = p]
  /\ UNCHANGED <<status, lock, gated, value, counts, copies, lost, edits>>

\* Bug seeded: a page without the gate leaves new_status unset.
SubmitPage_Unset(a) ==
  /\ pc[a] = "submit_page"
  /\ value' = [value EXCEPT ![a] =
                IF gated[PageOf[post[a]]] THEN "pending_approval" ELSE "none"]
  /\ pc' = [pc EXCEPT ![a] = "submit_write"]
  /\ UNCHANGED <<status, lock, gated, post, counts, copies, lost, edits, overlapped>>

\* Bug seeded: the branches of require_approval are swapped.
SubmitPage_Swapped(a) ==
  /\ pc[a] = "submit_page"
  /\ value' = [value EXCEPT ![a] =
                IF gated[PageOf[post[a]]] THEN "queued" ELSE "pending_approval"]
  /\ pc' = [pc EXCEPT ![a] = "submit_write"]
  /\ UNCHANGED <<status, lock, gated, post, counts, copies, lost, edits, overlapped>>

\* SELECT the page,
SubmitPage(a) ==
  /\ pc[a] = "submit_page"
  /\ value' = [value EXCEPT ![a] =
                IF gated[PageOf[post[a]]] THEN "pending_approval" ELSE "queued"]
  /\ pc' = [pc EXCEPT ![a] = "submit_write"]
  /\ UNCHANGED <<status, lock, gated, post, counts, copies, lost, edits, overlapped>>

\* and UPDATE the post by its id alone.
SubmitWrite(a) ==
  /\ pc[a] = "submit_write"
  /\ Unlocked(post[a])
  /\ status[post[a]] # "deleted"
  /\ SetStatus(post[a], value[a])
  /\ rounds' = IF value[a] = "pending_approval"
               THEN [rounds EXCEPT ![post[a]] = @ + 1] ELSE rounds
  /\ Done(a)
  /\ UNCHANGED <<lock, gated, approvals, copies, lost, edits, overlapped>>

\* The UPDATE returns no row, and the handler fails on it.
SubmitVanished(a) ==
  /\ pc[a] = "submit_write"
  /\ status[post[a]] = "deleted"
  /\ Done(a)
  /\ UNCHANGED <<status, lock, gated, counts, copies, lost, edits, overlapped>>

-----------------------------------------------------------------------------
\* Bug seeded: the SELECT does not lock the row.
ReviewLock_NoForUpdate(a, p) ==
  /\ pc[a] = "idle"
  /\ Note(a)
  /\ status[p] \in Statuses
  /\ pc' = [pc EXCEPT ![a] = "review"]
  /\ post' = [post EXCEPT ![a] = p]
  /\ value' = [value EXCEPT ![a] = status[p]]
  /\ UNCHANGED <<status, lock, gated, counts, copies, lost, edits>>

\* create_approval: SELECT the status FOR UPDATE,
ReviewLock(a, p) ==
  /\ pc[a] = "idle"
  /\ Note(a)
  /\ Unlocked(p)
  /\ status[p] \in Statuses
  /\ lock' = [lock EXCEPT ![p] = a]
  /\ pc' = [pc EXCEPT ![a] = "review"]
  /\ post' = [post EXCEPT ![a] = p]
  /\ value' = [value EXCEPT ![a] = status[p]]
  /\ UNCHANGED <<status, gated, counts, copies, lost, edits>>

\* Bug seeded: the connection of a request answered 409 is never given back.
ReviewConflict_Leak(a) ==
  /\ pc[a] = "review"
  /\ value[a] # "pending_approval"
  /\ Done(a)
  /\ UNCHANGED <<status, lock, gated, counts, copies, lost, edits, overlapped>>

\* "Already reviewed by ...": 409, and the rollback releases the row;
ReviewConflict(a) ==
  /\ pc[a] = "review"
  /\ value[a] # "pending_approval"
  /\ lock' = [lock EXCEPT ![post[a]] = NoProcess]
  /\ Done(a)
  /\ UNCHANGED <<status, gated, counts, copies, lost, edits, overlapped>>

\* or UPDATE the post and INSERT the approval.
Review(a) ==
  /\ pc[a] = "review"
  /\ value[a] = "pending_approval"
  /\ \E s \in {"queued", "rejected", "changes_requested"} : SetStatus(post[a], s)
  /\ approvals' = [approvals EXCEPT ![post[a]] = @ + 1]
  /\ lock' = [lock EXCEPT ![post[a]] = NoProcess]
  /\ Done(a)
  /\ UNCHANGED <<gated, rounds, copies, lost, edits, overlapped>>

-----------------------------------------------------------------------------
\* The publish pipeline; its claiming UPDATE waits for the row lock.
Pipe(p) ==
  /\ Unlocked(p)
  /\ \/ Pipeline!Publish(p)
     \/ Pipeline!Block(p)
     \/ lost[p] < MaxLost /\ Pipeline!Lose(p)
  /\ UNCHANGED <<lock, gated, handler, counts, overlapped>>

Finish(a) == SubmitPage(a) \/ SubmitWrite(a) \/ SubmitVanished(a)
               \/ ReviewConflict(a) \/ Review(a)

Next ==
  \/ \E a \in Api, p \in Posts :
       \/ CreatePost(a, p) \/ SchedulePost(a, p) \/ DeletePost(a, p) \/ RetryPost(a, p)
       \/ SubmitRead(a, p) \/ ReviewLock(a, p)
  \/ \E a \in Api, p \in Posts, s \in PatchTargets : PatchPost(a, p, s)
  \/ \E a \in Api, g \in Pages : TogglePage(a, g)
  \/ \E a \in Api : Finish(a)
  \/ \E p \in Posts : Pipe(p)

Spec == Init /\ [][Next]_vars

\* A handler that has begun goes on, and Postgres queues the transactions that
\* wait for a row: none is overtaken for ever.  Nobody owes a request.
FairSpec == Spec /\ \A a \in Api : SF_vars(Finish(a))

-----------------------------------------------------------------------------
\* Whatever the number of reviewers, processes and resubmissions, a post has at
\* most one approval for each time it became pending_approval: the FOR UPDATE
\* of create_approval makes every later reviewer see the first decision.
OneReviewPerRound ==
  \A p \in Posts : approvals[p] <= rounds[p]

\* A copy that is neither the first, nor lost, nor asked for by an editor's
\* PATCH or retry: unless requests overlap, none of their sequences makes one.
NoUnwantedCopy ==
  ~overlapped => \A p \in Posts : copies[p] <= 1 + edits[p] + lost[p]

\* A review decision is the last word until an editor acts: a rejected post
\* moves only by DELETE or PATCH, and never by a submission read before.
\* ("Race condition guard: first action wins.")
FirstActionWins ==
  [][\A p \in Posts :
       status[p] = "rejected" =>
         status'[p] \in {"rejected", "deleted"} \/ edits'[p] > edits[p]]_vars

\* The same, as far as the code keeps it: while no two requests have overlapped.
SerialReviewIsFinal ==
  [][\A p \in Posts :
       status[p] = "rejected" /\ ~overlapped' =>
         status'[p] \in {"rejected", "deleted"} \/ edits'[p] > edits[p]]_vars

\* While no two requests have overlapped, submit_for_approval moves a draft and
\* nothing else, and through the gate its page has when the row is written, with
\* the pipeline and every other request at work on the same rows.
\* ("Submit a draft for approval (status: draft -> pending_approval).")
SubmitFollowsGate ==
  [][\A a \in Api :
       pc[a] = "submit_write" /\ status' # status /\ pc'[a] = "idle" /\ ~overlapped' =>
         /\ status[post[a]] = "draft"
         /\ (status'[post[a]] = "pending_approval" <=> gated[PageOf[post[a]]])]_vars

\* Every request is answered: no handler waits for ever for a row.
RequestsFinish == \A a \in Api : pc[a] # "idle" ~> pc[a] = "idle"

===========================================================================
