------------------------------ MODULE Invites ------------------------------
(***************************************************************************)
(* The invite links of app/api/team.py.  create_invite and resend_invite   *)
(* are transactions of two writes: the UPDATE that invalidates, which      *)
(* locks the rows it takes, and the INSERT of the fresh link with the      *)
(* commit.  accept_invite reads the link without a lock and then updates   *)
(* it by its id alone.  Between the two steps of a handler only another    *)
(* API process can act.  Accepting makes nobody a member: that is left to  *)
(* the Clerk webhooks (Membership).                                        *)
(***************************************************************************)
EXTENDS Naturals, FiniteSets, Permissions

CONSTANTS
  Invites, Emails,
  Api,           \* the API processes
  Requesters,    \* the sets of roles requests come with
  MaxRevived,    \* bound: resends of a link that is not pending
  NoEmail

ASSUME InvitesConstants ==
  /\ Requesters \subseteq SUBSET Roles
  /\ MaxRevived \in Nat
  /\ IsFiniteSet(Api)
  /\ NoEmail \notin Emails

VARIABLES
  link,       \* invite_links.status, "absent" before the INSERT
  to,         \* invite_links.email
  expired,    \* expires_at has passed; the status stays as it is
  pc,         \* where a process stands in its handler
  taken,      \* the rows its transaction has locked, or the link it accepts
  address,    \* the email its new link is for
  revived,    \* history: resends of a link that was not pending, per email
  accepted,   \* history: how often a link was accepted
  overlapped  \* history: a request came while another process was in a handler

vars == <<link, to, expired, pc, taken, address, revived, accepted, overlapped>>

LinkStatuses == {"pending", "accepted", "invalidated"}

TypeOK ==
  /\ link \in [Invites -> LinkStatuses \cup {"absent"}]
  /\ to \in [Invites -> Emails \cup {NoEmail}]
  /\ \A i \in Invites : link[i] # "absent" <=> to[i] \in Emails
  /\ expired \in [Invites -> BOOLEAN]
  /\ pc \in [Api -> {"idle", "insert", "accept"}]
  /\ taken \in [Api -> SUBSET Invites]
  /\ address \in [Api -> Emails \cup {NoEmail}]
  /\ revived \in [Emails -> Nat]
  /\ accepted \in [Invites -> Nat]
  /\ overlapped \in BOOLEAN

Init ==
  /\ link = [i \in Invites |-> "absent"]
  /\ to = [i \in Invites |-> NoEmail]
  /\ expired = [i \in Invites |-> FALSE]
  /\ pc = [a \in Api |-> "idle"]
  /\ taken = [a \in Api |-> {}]
  /\ address = [a \in Api |-> NoEmail]
  /\ revived = [e \in Emails |-> 0]
  /\ accepted = [i \in Invites |-> 0]
  /\ overlapped = FALSE

-----------------------------------------------------------------------------
\* A request begins, unless its requester lacks the permission (403).
Begin(a, next, is, e) ==
  /\ pc[a] = "idle"
  /\ pc' = [pc EXCEPT ![a] = next]
  /\ taken' = [taken EXCEPT ![a] = is]
  /\ address' = [address EXCEPT ![a] = e]
  /\ overlapped' = (overlapped \/ \E b \in Api \ {a} : pc[b] # "idle")

Done(a) ==
  /\ pc' = [pc EXCEPT ![a] = "idle"]
  /\ taken' = [taken EXCEPT ![a] = {}]
  /\ address' = [address EXCEPT ![a] = NoEmail]
  /\ UNCHANGED overlapped

Permitted(p) == \E roles \in Requesters : HasPermission(roles, p)

\* The rows another transaction has updated and not committed.
Locked(a) == UNION {taken[b] : b \in {c \in Api \ {a} : pc[c] = "insert"}}

PendingFor(e) == {i \in Invites : link[i] = "pending" /\ to[i] = e}

\* Bug seeded: the UPDATE invalidates the links that have not expired.
CreateInvite_Unexpired(a, e) ==
  /\ Permitted("invite_manager")
  /\ PendingFor(e) \cap Locked(a) = {}
  /\ Begin(a, "insert", {i \in PendingFor(e) : ~expired[i]}, e)
  /\ UNCHANGED <<link, to, expired, revived, accepted>>

\* create_invite: UPDATE the pending links of the email, after waiting for the
\* rows another transaction holds.  A link that one has inserted and not yet
\* committed is not seen.
CreateInvite(a, e) ==
  /\ Permitted("invite_manager")
  /\ PendingFor(e) \cap Locked(a) = {}
  /\ Begin(a, "insert", PendingFor(e), e)
  /\ UNCHANGED <<link, to, expired, revived, accepted>>

\* resend_invite: SELECT the link in any status, and UPDATE it by its id.
ResendInvite(a, i) ==
  /\ Permitted("manage_team")
  /\ link[i] # "absent"
  /\ i \notin Locked(a)
  /\ link[i] = "pending" \/ revived[to[i]] < MaxRevived
  /\ revived' = [revived EXCEPT ![to[i]] = IF link[i] = "pending" THEN @ ELSE @ + 1]
  /\ Begin(a, "insert", {i}, to[i])
  /\ UNCHANGED <<link, to, expired, accepted>>

\* Bug seeded: the fresh link has no address.
InsertLink_NoEmail(a, i) ==
  /\ pc[a] = "insert"
  /\ link[i] = "absent"
  /\ link' = [j \in Invites |->
                IF j = i THEN "pending" ELSE IF j \in taken[a] THEN "invalidated" ELSE link[j]]
  /\ Done(a)
  /\ UNCHANGED <<to, expired, revived, accepted>>

\* Both then INSERT a fresh link, and commit.
InsertLink(a, i) ==
  /\ pc[a] = "insert"
  /\ link[i] = "absent"
  /\ link' = [j \in Invites |->
                IF j = i THEN "pending" ELSE IF j \in taken[a] THEN "invalidated" ELSE link[j]]
  /\ to' = [to EXCEPT ![i] = address[a]]
  /\ Done(a)
  /\ UNCHANGED <<expired, revived, accepted>>

\* The transaction fails, and all of it is rolled back.
InsertFails(a) ==
  /\ pc[a] = "insert"
  /\ Done(a)
  /\ UNCHANGED <<link, to, expired, revived, accepted>>

\* Bug seeded: the link is looked up by its token and its date alone.
AcceptRead_AnyStatus(a, i) ==
  /\ link[i] # "absent" /\ ~expired[i]
  /\ Begin(a, "accept", {i}, NoEmail)
  /\ UNCHANGED <<link, to, expired, revived, accepted>>

\* accept_invite: SELECT the link if it is pending and has not expired (404);
AcceptRead(a, i) ==
  /\ link[i] = "pending" /\ ~expired[i]
  /\ Begin(a, "accept", {i}, NoEmail)
  /\ UNCHANGED <<link, to, expired, revived, accepted>>

\* UPDATE it by its id, after waiting for the row, and whatever it has become.
AcceptWrite(a) ==
  /\ pc[a] = "accept"
  /\ \A i \in taken[a] : i \notin Locked(a)
  /\ link' = [i \in Invites |-> IF i \in taken[a] THEN "accepted" ELSE link[i]]
  /\ accepted' = [i \in Invites |-> IF i \in taken[a] THEN accepted[i] + 1 ELSE accepted[i]]
  /\ Done(a)
  /\ UNCHANGED <<to, expired, revived>>

\* Seven days pass.
Expire(i) ==
  /\ link[i] = "pending" /\ ~expired[i]
  /\ expired' = [expired EXCEPT ![i] = TRUE]
  /\ UNCHANGED <<link, to, pc, taken, address, revived, accepted, overlapped>>

Next ==
  \/ \E a \in Api, e \in Emails : CreateInvite(a, e)
  \/ \E a \in Api, i \in Invites : ResendInvite(a, i) \/ InsertLink(a, i) \/ AcceptRead(a, i)
  \/ \E a \in Api : InsertFails(a) \/ AcceptWrite(a)
  \/ \E i \in Invites : Expire(i)

Spec == Init /\ [][Next]_vars

-----------------------------------------------------------------------------
\* An email has one pending link, and one more for each time a link was resent
\* that was no longer pending, unless requests overlapped.  ("Invalidate any
\* existing pending invites for this email".)
OnePendingInvite ==
  ~overlapped => \A e \in Emails : Cardinality(PendingFor(e)) <= 1 + revived[e]

\* A link is good once: it is accepted after it was, or after a fresh link took
\* its place, only where requests overlapped; and even then by no more requests
\* than may have read it while it was pending, one for each process.
LinkIsSpent ==
  [][\A i \in Invites :
       accepted'[i] # accepted[i] =>
         /\ link[i] \in {"accepted", "invalidated"} => overlapped'
         /\ accepted'[i] <= Cardinality(Api)]_vars

===========================================================================
