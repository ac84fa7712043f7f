----------------------------- MODULE Rotation -----------------------------
(***************************************************************************)
(* The rotation of posting IDs: pick_round_robin of                        *)
(* app/services/publishing/rotation.py as app/tasks/publishing.py uses it, *)
(* and the requests of app/api/posting_ids.py that change its candidates.  *)
(*                                                                         *)
(* The task reads last_used_at, publishes for minutes and then writes      *)
(* now(), which in Postgres is the time its transaction began.  Publishing *)
(* picks any active candidate; this module has the timestamps that decide  *)
(* which one, and nothing of what becomes of the post.                     *)
(***************************************************************************)
EXTENDS Naturals, FiniteSets

CONSTANTS
  Workers, Pages, PostingIds,
  ApiProcesses,  \* how many requests are handled at a time
  NoPostingId, NoPage

ASSUME RotationConstants ==
  /\ IsFiniteSet(Workers)
  /\ NoPostingId \notin PostingIds
  /\ NoPage \notin Pages
  /\ ApiProcesses \in Nat \ {0}

VARIABLES
  idStatus,    \* posting_ids.status, "absent" before the INSERT
  lastUsed,    \* posting_ids.last_used_at, 0 for NULL
  assigned,    \* rows of page_posting_id_assignments
  assigning,   \* assign_to_page between its check and its INSERT
  clock,       \* the time the last transaction began
  pc,          \* where a worker stands in publish_post_impl
  page,        \* the page of its post
  began,       \* now() of its transaction
  candidates,  \* the active candidates it loaded
  pick,        \* the posting ID it picked
  passes,      \* history: passes[x][y] is how often y was published when x was
               \* a candidate, since x was last published
  overlapped   \* history: two transactions have been open at once

worker == <<pc, page, began, candidates, pick>>
history == <<passes, overlapped>>
vars == <<idStatus, lastUsed, assigned, assigning, clock, worker, history>>

Registered == {x \in PostingIds : idStatus[x] # "absent"}

\* The committed rows are well formed: an assignment and a use refer to a
\* posting ID that exists, and no time lies ahead of the clock.
TypeOK ==
  /\ idStatus \in [PostingIds -> {"absent", "active", "retired"}]
  /\ clock \in Nat
  /\ lastUsed \in [PostingIds -> Nat] /\ \A x \in PostingIds : lastUsed[x] <= clock
  /\ assigned \subseteq Pages \X Registered
  /\ assigning \subseteq Pages \X Registered
  /\ pc \in [Workers -> {"idle", "pick", "call"}]
  /\ page \in [Workers -> Pages \cup {NoPage}]
  /\ began \in [Workers -> Nat] /\ \A w \in Workers : began[w] <= clock
  /\ candidates \in [Workers -> SUBSET Registered]
  /\ pick \in [Workers -> PostingIds \cup {NoPostingId}]
  /\ passes \in [PostingIds -> [PostingIds -> Nat]]
  /\ overlapped \in BOOLEAN

Init ==
  /\ idStatus \in [PostingIds -> {"absent", "active"}]
  /\ lastUsed = [x \in PostingIds |-> 0]
  /\ assigned = {}
  /\ assigning = {}
  /\ clock = 0
  /\ pc = [w \in Workers |-> "idle"]
  /\ page = [w \in Workers |-> NoPage]
  /\ began = [w \in Workers |-> 0]
  /\ candidates = [w \in Workers |-> {}]
  /\ pick = [w \in Workers |-> NoPostingId]
  /\ passes = [x \in PostingIds |-> [y \in PostingIds |-> 0]]
  /\ overlapped = FALSE

-----------------------------------------------------------------------------
Active(g) == {x \in PostingIds : idStatus[x] = "active" /\ <<g, x>> \in assigned}

\* Bug seeded: an ID that was never used sorts after those that were.
Oldest_NullsLast(C) ==
  {x \in C : \A y \in C : \/ lastUsed[y] = 0
                          \/ lastUsed[x] # 0 /\ lastUsed[x] <= lastUsed[y]}

\* Bug seeded: descending order.
Oldest_Descending(C) == {x \in C : \A y \in C : lastUsed[y] <= lastUsed[x]}

\* pick_round_robin: the candidate used longest ago, one that was never used
\* first.  Between equals the order of the rows decides, which is none.
Oldest(C) == {x \in C : \A y \in C : lastUsed[x] <= lastUsed[y]}

\* The transaction ends and the worker takes its next message.
EndTransaction(w) ==
  /\ pc' = [pc EXCEPT ![w] = "idle"]
  /\ page' = [page EXCEPT ![w] = NoPage]
  /\ began' = [began EXCEPT ![w] = 0]
  /\ candidates' = [candidates EXCEPT ![w] = {}]
  /\ pick' = [pick EXCEPT ![w] = NoPostingId]

\* The claim of a post of page g is the first statement of a transaction.
Begin(w, g) ==
  /\ pc[w] = "idle"
  /\ clock' = clock + 1
  /\ pc' = [pc EXCEPT ![w] = "pick"]
  /\ page' = [page EXCEPT ![w] = g]
  /\ began' = [began EXCEPT ![w] = clock + 1]
  /\ overlapped' = (overlapped \/ \E v \in Workers : pc[v] # "idle")
  /\ UNCHANGED <<idStatus, lastUsed, assigned, assigning, candidates, pick, passes>>

Pick(w, x) ==
  /\ pc[w] = "pick"
  /\ x \in Oldest(Active(page[w]))
  /\ pc' = [pc EXCEPT ![w] = "call"]
  /\ candidates' = [candidates EXCEPT ![w] = Active(page[w])]
  /\ pick' = [pick EXCEPT ![w] = x]
  /\ UNCHANGED <<idStatus, lastUsed, assigned, assigning, clock, page, began, history>>

\* No candidate is active: the post is paused.
Pause(w) ==
  /\ pc[w] = "pick"
  /\ Active(page[w]) = {}
  /\ EndTransaction(w)
  /\ UNCHANGED <<idStatus, lastUsed, assigned, assigning, clock, history>>

\* x has been published for w: it is overtaken by nobody, and overtakes the
\* other candidates once more.
CountPasses(w, x) ==
  passes' = [y \in PostingIds |->
               IF y = x THEN [z \in PostingIds |-> 0]
               ELSE IF y \in candidates[w] THEN [passes[y] EXCEPT ![x] = @ + 1]
               ELSE passes[y]]

\* Bug seeded: only the assignment's last_used_at is written.
RecordUse_AssignmentOnly(w) ==
  /\ pc[w] = "call"
  /\ CountPasses(w, pick[w])
  /\ EndTransaction(w)
  /\ UNCHANGED <<idStatus, lastUsed, assigned, assigning, clock, overlapped>>

\* Meta took the post: last_used_at = now() and the commit.
RecordUse(w) ==
  /\ pc[w] = "call"
  /\ lastUsed' = [lastUsed EXCEPT ![pick[w]] = began[w]]
  /\ CountPasses(w, pick[w])
  /\ EndTransaction(w)
  /\ UNCHANGED <<idStatus, assigned, assigning, clock, overlapped>>

\* Every other outcome, a crash and a page without a token among them, writes
\* nothing the rotation reads,
NoUse(w) ==
  /\ pc[w] # "idle"
  /\ EndTransaction(w)
  /\ UNCHANGED <<idStatus, lastUsed, assigned, assigning, clock, history>>

\* but PostingIDRevoked retires the ID.
Revoked(w) ==
  /\ pc[w] = "call"
  /\ idStatus' = [idStatus EXCEPT ![pick[w]] = "retired"]
  /\ EndTransaction(w)
  /\ UNCHANGED <<lastUsed, assigned, assigning, clock, history>>

-----------------------------------------------------------------------------
\* POST /posting-ids, and the upsert of an OAuth callback that finds no row.
CreatePostingId(x) ==
  /\ idStatus[x] = "absent"
  /\ idStatus' = [idStatus EXCEPT ![x] = "active"]
  /\ UNCHANGED <<lastUsed, assigned, assigning, clock, worker, history>>

RetirePostingId(x) ==
  /\ idStatus[x] = "active"
  /\ idStatus' = [idStatus EXCEPT ![x] = "retired"]
  /\ UNCHANGED <<lastUsed, assigned, assigning, clock, worker, history>>

\* Bug seeded: the SELECT of the active posting ID is left out.
AssignCheck_Skipped(g, x) ==
  /\ Cardinality(assigning) < ApiProcesses
  /\ assigning' = assigning \cup {<<g, x>>}
  /\ UNCHANGED <<idStatus, lastUsed, assigned, clock, worker, history>>

\* assign_to_page: SELECT the active posting ID,
AssignCheck(g, x) ==
  /\ Cardinality(assigning) < ApiProcesses
  /\ idStatus[x] = "active"
  /\ assigning' = assigning \cup {<<g, x>>}
  /\ UNCHANGED <<idStatus, lastUsed, assigned, clock, worker, history>>

\* and INSERT, or do nothing on conflict: it may be retired by now.
AssignInsert(g, x) ==
  /\ <<g, x>> \in assigning
  /\ assigning' = assigning \ {<<g, x>>}
  /\ assigned' = assigned \cup {<<g, x>>}
  /\ UNCHANGED <<idStatus, lastUsed, clock, worker, history>>

Unassign(g, x) ==
  /\ <<g, x>> \in assigned
  /\ assigned' = assigned \ {<<g, x>>}
  /\ UNCHANGED <<idStatus, lastUsed, assigning, clock, worker, history>>

Next ==
  \/ \E w \in Workers :
       \/ \E g \in Pages : Begin(w, g)
       \/ \E x \in PostingIds : Pick(w, x)
       \/ Pause(w) \/ RecordUse(w) \/ NoUse(w) \/ Revoked(w)
  \/ \E x \in PostingIds :
       \/ CreatePostingId(x) \/ RetirePostingId(x)
       \/ \E g \in Pages : AssignCheck(g, x) \/ AssignInsert(g, x) \/ Unassign(g, x)

\* Overtaking is bounded.  However the transactions overlap, while x stays a
\* candidate y is published at most as often as one round of all workers for
\* each worker: a transaction that began before x was last published may set
\* last_used_at of y back, once, and each time all workers may pick y again
\* before one of them has recorded it.
BoundedOvertaking ==
  \A x, y \in PostingIds : passes[x][y] <= Cardinality(Workers) * Cardinality(Workers)

\* With no two transactions open at once the rotation is exact: a candidate
\* is passed over by another one at most once between its turns, whatever is
\* registered, assigned or retired meanwhile, and on whatever pages.
SerialTurns ==
  ~overlapped => \A x, y \in PostingIds : passes[x][y] <= 1

Spec == Init /\ [][Next]_vars

=============================================================================
