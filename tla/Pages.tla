------------------------------- MODULE Pages -------------------------------
(***************************************************************************)
(* The pages of an organization and the batches that hold them:            *)
(* app/api/batches.py, app/api/pages.py and app/api/oauth.py.              *)
(*                                                                         *)
(* A handler never awaits, so one API process runs one request at a time.  *)
(* The requests whose outcome one guarded statement decides are one step:  *)
(* no page is ever deleted, and the foreign key of batch_id decides again  *)
(* what the SELECT before the INSERT or UPDATE has decided.  The OAuth     *)
(* callback reads and deletes its state token in Redis, talks to Meta and  *)
(* then writes the pages in one transaction: four steps.                   *)
(*                                                                         *)
(* The name of a batch matters once: the callback puts new pages into the  *)
(* batch named 'Unassigned', which it creates when there is none.          *)
(***************************************************************************)
EXTENDS Naturals, FiniteSets

CONSTANTS
  Pages, Batches,
  States,        \* the OAuth state tokens
  Api,           \* the API processes
  PatchTargets,  \* the statuses an editor's PATCH sets
  Granted,       \* how long the expires_at of a granted token is ahead
  MaxEdits,      \* bound: PATCHes of the status of a page
  NoBatch, NoState

PageStatuses ==
  {"ready", "needs_setup", "paused", "inactive", "token_expired", "token_expiring"}

\* A page's token: NULL, or its expires_at more or less than 7 days ahead, or
\* dead: refused by Meta, or encrypted with another key, which comes to the same.
TokenConditions == {"none", "fresh", "expiring", "dead"}

ASSUME PagesConstants ==
  /\ PatchTargets \subseteq PageStatuses
  /\ Granted \subseteq {"fresh", "expiring"}
  /\ MaxEdits \in Nat
  /\ IsFiniteSet(Api)
  /\ NoBatch \notin Batches
  /\ NoState \notin States

VARIABLES
  batches,    \* the rows of table batches
  unassigned, \* the batch named 'Unassigned'
  batchOf,    \* pages.batch_id, NoBatch before the INSERT
  status,     \* pages.status
  active,     \* pages.is_active
  token,      \* pages.encrypted_access_token and token_expires_at
  oauth,      \* the state tokens in Redis
  pc,         \* where a process stands in the OAuth callback
  held,       \* the state token its request carries
  edits,      \* history: PATCHes of a page's status
  placed,     \* history: the page was put into a batch by bulk_connect
  exchanges,  \* history: callbacks a state token let through to Meta
  overlapped  \* history: a callback came while another process was in one

pageRows == <<batchOf, status, active, token>>
requests == <<oauth, pc, held, exchanges, overlapped>>
pagesVars == <<batches, unassigned, pageRows, requests, edits, placed>>

PagesTypeOK ==
  /\ batches \in SUBSET Batches
  /\ unassigned \in batches \cup {NoBatch}
  /\ batchOf \in [Pages -> Batches \cup {NoBatch}]
  /\ status \in [Pages -> PageStatuses]
  /\ active \in [Pages -> BOOLEAN]
  /\ token \in [Pages -> TokenConditions]
  /\ oauth \in [States -> {"unissued", "issued", "gone"}]
  /\ pc \in [Api -> {"idle", "delete", "exchange", "store"}]
  /\ held \in [Api -> States \cup {NoState}]
  /\ edits \in [Pages -> Nat]
  /\ placed \in [Pages -> BOOLEAN]
  /\ exchanges \in [States -> Nat]
  /\ overlapped \in BOOLEAN

PagesInit ==
  /\ batches = {}
  /\ unassigned = NoBatch
  /\ batchOf = [g \in Pages |-> NoBatch]
  /\ status = [g \in Pages |-> "needs_setup"]
  /\ active = [g \in Pages |-> TRUE]
  /\ token = [g \in Pages |-> "none"]
  /\ oauth = [s \in States |-> "unissued"]
  /\ pc = [a \in Api |-> "idle"]
  /\ held = [a \in Api |-> NoState]
  /\ edits = [g \in Pages |-> 0]
  /\ placed = [g \in Pages |-> FALSE]
  /\ exchanges = [s \in States |-> 0]
  /\ overlapped = FALSE

Exists(g) == batchOf[g] # NoBatch

Idle(a) == pc[a] = "idle"

-----------------------------------------------------------------------------
\* POST /batches: the name is unique in the organization.
CreateBatch(a, b) ==
  /\ Idle(a)
  /\ b \notin batches
  /\ batches' = batches \cup {b}
  /\ \/ unassigned' = unassigned
     \/ unassigned = NoBatch /\ unassigned' = b
  /\ UNCHANGED <<pageRows, requests, edits, placed>>

\* PATCH /batches/{id} of the name: away from 'Unassigned', or to it.
RenameBatch(a, b) ==
  /\ Idle(a)
  /\ b \in batches
  /\ \/ unassigned = b /\ unassigned' = NoBatch
     \/ unassigned = NoBatch /\ unassigned' = b
  /\ UNCHANGED <<batches, pageRows, requests, edits, placed>>

\* Bug seeded: the foreign key lets a batch of inactive pages go.
DeleteBatch_TriggerOnly(a, b) ==
  /\ Idle(a)
  /\ b \in batches
  /\ \A g \in Pages : batchOf[g] = b => ~active[g]
  /\ batches' = batches \ {b}
  /\ unassigned' = IF unassigned = b THEN NoBatch ELSE unassigned
  /\ UNCHANGED <<pageRows, requests, edits, placed>>

\* The trigger check_batch_deletable refuses a batch with active pages or with
\* posts under way on its pages (409), and the foreign key of pages refuses one
\* that has any page left, whose posts are then no matter.
BatchDeletable(b) == \A g \in Pages : batchOf[g] # b

\* DELETE /batches/{id}.
DeleteBatch(a, b) ==
  /\ Idle(a)
  /\ b \in batches
  /\ BatchDeletable(b)
  /\ batches' = batches \ {b}
  /\ unassigned' = IF unassigned = b THEN NoBatch ELSE unassigned
  /\ UNCHANGED <<pageRows, requests, edits, placed>>

-----------------------------------------------------------------------------
\* POST /pages: a page without a token, to be set up.
CreatePage(a, g, b) ==
  /\ Idle(a)
  /\ b \in batches
  /\ ~Exists(g)
  /\ batchOf' = [batchOf EXCEPT ![g] = b]
  /\ status' = [status EXCEPT ![g] = "needs_setup"]
  /\ UNCHANGED <<batches, unassigned, active, token, requests, edits, placed>>

\* Bug seeded: every page with a token is made ready.
BulkConnect_AnyStatus(a, gs, b) ==
  /\ Idle(a)
  /\ b \in batches
  /\ \A g \in gs : Exists(g)
  /\ batchOf' = [g \in Pages |-> IF g \in gs THEN b ELSE batchOf[g]]
  /\ status' = [g \in Pages |->
                  IF g \in gs /\ token[g] # "none" THEN "ready" ELSE status[g]]
  /\ placed' = [g \in Pages |-> placed[g] \/ g \in gs]
  /\ UNCHANGED <<batches, unassigned, active, token, requests, edits>>

\* POST /pages/bulk-connect: every page has to exist, or none is moved; those
\* to be set up become ready if they have a token.
BulkConnect(a, gs, b) ==
  /\ Idle(a)
  /\ b \in batches
  /\ \A g \in gs : Exists(g)
  /\ batchOf' = [g \in Pages |-> IF g \in gs THEN b ELSE batchOf[g]]
  /\ status' = [g \in Pages |->
                  IF g \in gs /\ token[g] # "none" /\ status[g] = "needs_setup"
                  THEN "ready" ELSE status[g]]
  /\ placed' = [g \in Pages |-> placed[g] \/ g \in gs]
  /\ UNCHANGED <<batches, unassigned, active, token, requests, edits>>

\* PATCH /pages/{id}: the status, is_active and the batch are fields like any
\* other; a PATCH of several is one after the other.
PatchStatus(a, g, s) ==
  /\ Idle(a)
  /\ Exists(g)
  /\ edits[g] < MaxEdits
  /\ status' = [status EXCEPT ![g] = s]
  /\ edits' = [edits EXCEPT ![g] = @ + 1]
  /\ UNCHANGED <<batches, unassigned, batchOf, active, token, requests, placed>>

PatchActive(a, g) ==
  /\ Idle(a)
  /\ Exists(g)
  /\ active' = [active EXCEPT ![g] = ~@]
  /\ UNCHANGED <<batches, unassigned, batchOf, status, token, requests, edits, placed>>

PatchBatch(a, g, b) ==
  /\ Idle(a)
  /\ Exists(g)
  /\ b \in batches
  /\ batchOf' = [batchOf EXCEPT ![g] = b]
  /\ UNCHANGED <<batches, unassigned, status, active, token, requests, edits, placed>>

-----------------------------------------------------------------------------
\* oauth_start: SETEX of a new state token.
IssueState(a, s) ==
  /\ Idle(a)
  /\ oauth[s] = "unissued"
  /\ oauth' = [oauth EXCEPT ![s] = "issued"]
  /\ UNCHANGED <<batches, unassigned, pageRows, pc, held, exchanges, overlapped, edits, placed>>

\* Ten minutes later Redis drops it.
ExpireState(s) ==
  /\ oauth[s] = "issued"
  /\ oauth' = [oauth EXCEPT ![s] = "gone"]
  /\ UNCHANGED <<batches, unassigned, pageRows, pc, held, exchanges, overlapped, edits, placed>>

\* oauth_callback: GET the state token; without one the answer is 403.
CallbackGet(a, s) ==
  /\ Idle(a)
  /\ oauth[s] = "issued"
  /\ overlapped' = (overlapped \/ \E b \in Api \ {a} : ~Idle(b))
  /\ pc' = [pc EXCEPT ![a] = "delete"]
  /\ held' = [held EXCEPT ![a] = s]
  /\ UNCHANGED <<batches, unassigned, pageRows, oauth, exchanges, edits, placed>>

\* Bug seeded: the state token stays in Redis.
CallbackDelete_Kept(a) ==
  /\ pc[a] = "delete"
  /\ pc' = [pc EXCEPT ![a] = "exchange"]
  /\ exchanges' = [exchanges EXCEPT ![held[a]] = @ + 1]
  /\ UNCHANGED <<batches, unassigned, pageRows, oauth, held, overlapped, edits, placed>>

\* DELETE it, and go on if it was issued to this user,
CallbackDelete(a) ==
  /\ pc[a] = "delete"
  /\ oauth' = [oauth EXCEPT ![held[a]] = "gone"]
  /\ pc' = [pc EXCEPT ![a] = "exchange"]
  /\ exchanges' = [exchanges EXCEPT ![held[a]] = @ + 1]
  /\ UNCHANGED <<batches, unassigned, pageRows, held, overlapped, edits, placed>>

\* or answer 403 with the state token spent;
CallbackForeign(a) ==
  /\ pc[a] = "delete"
  /\ oauth' = [oauth EXCEPT ![held[a]] = "gone"]
  /\ pc' = [pc EXCEPT ![a] = "idle"]
  /\ held' = [held EXCEPT ![a] = NoState]
  /\ UNCHANGED <<batches, unassigned, pageRows, exchanges, overlapped, edits, placed>>

\* exchange the code for tokens at Meta;
CallbackExchange(a) ==
  /\ pc[a] = "exchange"
  /\ pc' = [pc EXCEPT ![a] = "store"]
  /\ UNCHANGED <<batches, unassigned, pageRows, oauth, held, exchanges, overlapped, edits, placed>>

\* answer 502 when Meta fails, or 500 with all of the transaction rolled back;
CallbackFails(a) ==
  /\ pc[a] \in {"exchange", "store"}
  /\ pc' = [pc EXCEPT ![a] = "idle"]
  /\ held' = [held EXCEPT ![a] = NoState]
  /\ UNCHANGED <<batches, unassigned, pageRows, oauth, exchanges, overlapped, edits, placed>>

\* and write all its pages in one transaction: a new page is to be set up in
\* 'Unassigned', a known one gets the new token and keeps status and batch.
CallbackStore(a, gs, c) ==
  /\ pc[a] = "store"
  /\ \E b \in Batches :
       /\ IF unassigned = NoBatch THEN b \notin batches ELSE b = unassigned
       /\ batches' = batches \cup {b}
       /\ unassigned' = b
       /\ batchOf' = [g \in Pages |-> IF g \in gs /\ ~Exists(g) THEN b ELSE batchOf[g]]
  /\ token' = [g \in Pages |-> IF g \in gs THEN c ELSE token[g]]
  /\ pc' = [pc EXCEPT ![a] = "idle"]
  /\ held' = [held EXCEPT ![a] = NoState]
  /\ UNCHANGED <<status, active, oauth, exchanges, overlapped, edits, placed>>

\* Time passes, Meta withdraws a token, the encryption key is replaced.
TokenAges(g) ==
  /\ token[g] \in {"fresh", "expiring"}
  /\ \E c \in {"expiring", "dead"} \ {token[g]} :
       token' = [token EXCEPT ![g] = c]
  /\ UNCHANGED <<batches, unassigned, batchOf, status, active, requests, edits, placed>>

-----------------------------------------------------------------------------
PagesNext ==
  \/ \E a \in Api, b \in Batches :
       CreateBatch(a, b) \/ RenameBatch(a, b) \/ DeleteBatch(a, b)
  \/ \E a \in Api, g \in Pages, b \in Batches : CreatePage(a, g, b) \/ PatchBatch(a, g, b)
  \/ \E a \in Api, gs \in (SUBSET Pages) \ {{}}, b \in Batches : BulkConnect(a, gs, b)
  \/ \E a \in Api, g \in Pages, s \in PatchTargets : PatchStatus(a, g, s)
  \/ \E a \in Api, g \in Pages : PatchActive(a, g)
  \/ \E a \in Api, s \in States : IssueState(a, s) \/ CallbackGet(a, s)
  \/ \E s \in States : ExpireState(s)
  \/ \E a \in Api :
       CallbackDelete(a) \/ CallbackForeign(a) \/ CallbackExchange(a) \/ CallbackFails(a)
  \/ \E a \in Api, gs \in SUBSET Pages, c \in Granted : CallbackStore(a, gs, c)
  \/ \E g \in Pages : TokenAges(g)

-----------------------------------------------------------------------------
\* Every page is in a batch that exists, active or not, however batches are
\* created, renamed and deleted while pages are created, moved and connected.
\* (pages.batch_id REFERENCES batches ON DELETE RESTRICT.)
PagesHaveBatches == \A g \in Pages : Exists(g) => batchOf[g] \in batches

\* A state token lets one callback through to Meta, or where callbacks are at
\* work at once as many as may have found it before the first deleted it: no
\* more than there are processes, however often the redirect is repeated.
StateUsedOnce ==
  \A s \in States : exchanges[s] <= IF overlapped THEN Cardinality(Api) ELSE 1

===========================================================================
