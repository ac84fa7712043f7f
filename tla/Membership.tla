----------------------------- MODULE Membership -----------------------------
(***************************************************************************)
(* Who belongs to an organization: the tables users and team_members under *)
(* the Clerk webhooks (app/api/webhooks.py) and the team API               *)
(* (app/api/team.py), with the checks of app/core/permissions.py.          *)
(*                                                                         *)
(* Clerk sends one event for each change and sends it again until it is    *)
(* answered 2xx: an event may come late, after a later one, or twice.  A   *)
(* handler is one transaction, and so one step.  The events of one user in *)
(* one organization are numbered; organization.created is not, and may be  *)
(* late as well.  Profile fields and the names of organizations are left   *)
(* out, and with them user.updated and organization.updated.               *)
(***************************************************************************)
EXTENDS Naturals, FiniteSets, Permissions

CONSTANTS
  Users, Orgs,
  ClerkRoles,   \* the roles of Clerk: "org:admin", "org:member"
  EditedRoles,  \* the roles an editor's PATCH gives
  MaxJoins,     \* bound: how often a user joins an organization
  MaxRepeats,   \* bound: events delivered twice
  MaxPatches,   \* bound: PATCHes and removals of a member
  NoOrg

MemberStatuses == {"active", "pending", "removed"}

ASSUME MembershipConstants ==
  /\ ClerkRoles \subseteq {"org:admin", "org:member"}
  /\ EditedRoles \subseteq Roles
  /\ MaxJoins \in Nat /\ MaxRepeats \in Nat /\ MaxPatches \in Nat
  /\ NoOrg \notin Orgs

VARIABLES
  clerkOrgs, \* the organizations in Clerk
  belongs,   \* whether a user is a member in Clerk
  deleted,   \* whether a user was deleted in Clerk
  events,    \* the events Clerk has not seen answered
  orgs,      \* the rows of table organizations
  home,      \* users.org_id, NoOrg before the INSERT
  enabled,   \* users.is_active
  member,    \* team_members.status, "absent" before the INSERT
  roles,     \* team_members.roles
  numbered,  \* history: the events sent for a user in an organization
  taken,     \* history: the number of the event delivered last
  late,      \* history: an event came out of its order
  strayed,   \* history: a membership came before its organization
  repeats,   \* history: events delivered twice
  patches    \* history: PATCHes and removals of a member

clerk == <<clerkOrgs, belongs, deleted, numbered>>
rows == <<orgs, home, enabled, member, roles>>
deliveries == <<events, taken, late, strayed, repeats>>
teamVars == <<clerk, rows, deliveries, patches>>

Pairs == Users \X Orgs

MembershipEvents ==
  [type : {"joined"}, who : Pairs, role : ClerkRoles, number : Nat]
    \cup [type : {"left"}, who : Pairs, number : Nat]

Events ==
  MembershipEvents \cup [type : {"org_created"}, org : Orgs] \cup [type : {"user_deleted"}, user : Users]

TeamTypeOK ==
  /\ clerkOrgs \in SUBSET Orgs
  /\ belongs \in [Pairs -> BOOLEAN]
  /\ deleted \in [Users -> BOOLEAN]
  /\ numbered \in [Pairs -> Nat]
  /\ events \in SUBSET Events
  /\ orgs \in SUBSET clerkOrgs
  /\ home \in [Users -> orgs \cup {NoOrg}]
  /\ enabled \in [Users -> BOOLEAN]
  /\ member \in [Pairs -> MemberStatuses \cup {"absent"}]
  /\ roles \in [Pairs -> SUBSET Roles]
  /\ taken \in [Pairs -> Nat]
  /\ late \in [Pairs -> BOOLEAN]
  /\ strayed \in [Pairs -> BOOLEAN]
  /\ repeats \in Nat
  /\ patches \in [Pairs -> Nat]

TeamInit ==
  /\ clerkOrgs = {}
  /\ belongs = [m \in Pairs |-> FALSE]
  /\ deleted = [u \in Users |-> FALSE]
  /\ numbered = [m \in Pairs |-> 0]
  /\ events = {}
  /\ orgs = {}
  /\ home = [u \in Users |-> NoOrg]
  /\ enabled = [u \in Users |-> TRUE]
  /\ member = [m \in Pairs |-> "absent"]
  /\ roles = [m \in Pairs |-> {}]
  /\ taken = [m \in Pairs |-> 0]
  /\ late = [m \in Pairs |-> FALSE]
  /\ strayed = [m \in Pairs |-> FALSE]
  /\ repeats = 0
  /\ patches = [m \in Pairs |-> 0]

-----------------------------------------------------------------------------
\* What happens in Clerk, and the event it sends.
ClerkCreatesOrg(o) ==
  /\ o \notin clerkOrgs
  /\ clerkOrgs' = clerkOrgs \cup {o}
  /\ events' = events \cup {[type |-> "org_created", org |-> o]}
  /\ UNCHANGED <<belongs, deleted, numbered, rows, taken, late, strayed, repeats, patches>>

ClerkJoin(m, r) ==
  /\ m[2] \in clerkOrgs
  /\ ~belongs[m] /\ ~deleted[m[1]]
  /\ numbered[m] < 2 * MaxJoins
  /\ belongs' = [belongs EXCEPT ![m] = TRUE]
  /\ numbered' = [numbered EXCEPT ![m] = @ + 1]
  /\ events' = events \cup
       {[type |-> "joined", who |-> m, role |-> r, number |-> numbered[m] + 1]}
  /\ UNCHANGED <<clerkOrgs, deleted, rows, taken, late, strayed, repeats, patches>>

ClerkLeave(m) ==
  /\ belongs[m]
  /\ belongs' = [belongs EXCEPT ![m] = FALSE]
  /\ numbered' = [numbered EXCEPT ![m] = @ + 1]
  /\ events' = events \cup {[type |-> "left", who |-> m, number |-> numbered[m] + 1]}
  /\ UNCHANGED <<clerkOrgs, deleted, rows, taken, late, strayed, repeats, patches>>

\* A user is deleted who belongs to no organization any more.
ClerkDeletes(u) ==
  /\ ~deleted[u]
  /\ \A o \in Orgs : ~belongs[<<u, o>>]
  /\ deleted' = [deleted EXCEPT ![u] = TRUE]
  /\ events' = events \cup {[type |-> "user_deleted", user |-> u]}
  /\ UNCHANGED <<clerkOrgs, belongs, numbered, rows, taken, late, strayed, repeats, patches>>

-----------------------------------------------------------------------------
\* The answer reaches Clerk, or the event is sent once more.
Answer(e) ==
  \/ events' = events \ {e} /\ UNCHANGED repeats
  \/ repeats < MaxRepeats /\ repeats' = repeats + 1 /\ UNCHANGED events

\* An event of m is delivered: is it the last one again, or the one after it?
Taken(m, n) ==
  /\ taken' = [taken EXCEPT ![m] = n]
  /\ late' = [late EXCEPT ![m] = @ \/ n \notin {taken[m], taken[m] + 1}]

\* organization.created: an upsert.
OrgCreated(e) ==
  /\ e.type = "org_created"
  /\ Answer(e)
  /\ orgs' = orgs \cup {e.org}
  /\ UNCHANGED <<clerk, home, enabled, member, roles, taken, late, strayed, patches>>

\* organizationMembership.created for an organization that has no row: the
\* handler returns, and the event is answered ok.
JoinedUnknownOrg(e) ==
  /\ e.type = "joined"
  /\ e.who[2] \notin orgs
  /\ Answer(e)
  /\ Taken(e.who, e.number)
  /\ strayed' = [strayed EXCEPT ![e.who] = TRUE]
  /\ UNCHANGED <<clerk, rows, patches>>

\* Bug seeded: the insert of the team member sets the status on conflict.
Joined_Reactivates(e) ==
  /\ e.type = "joined"
  /\ e.who[2] \in orgs
  /\ Answer(e)
  /\ Taken(e.who, e.number)
  /\ home' = [home EXCEPT ![e.who[1]] = e.who[2]]
  /\ member' = [member EXCEPT ![e.who] = "active"]
  /\ roles' = [roles EXCEPT ![e.who] =
                 IF e.role = "org:admin" THEN {"owner"} ELSE {"publisher"}]
  /\ UNCHANGED <<clerk, orgs, enabled, strayed, patches>>

\* Bug seeded: the organization of the event is not looked up.
Joined_UncheckedOrg(e) ==
  /\ e.type = "joined"
  /\ Answer(e)
  /\ Taken(e.who, e.number)
  /\ home' = [home EXCEPT ![e.who[1]] = e.who[2]]
  /\ UNCHANGED <<clerk, orgs, enabled, member, roles, strayed, patches>>

\* organizationMembership.created: upsert the user, who moves to the new
\* organization, and insert the team member unless there is one.
Joined(e) ==
  /\ e.type = "joined"
  /\ e.who[2] \in orgs
  /\ Answer(e)
  /\ Taken(e.who, e.number)
  /\ home' = [home EXCEPT ![e.who[1]] = e.who[2]]
  /\ IF member[e.who] = "absent"
     THEN /\ member' = [member EXCEPT ![e.who] = "active"]
          /\ roles' = [roles EXCEPT ![e.who] =
                         IF e.role = "org:admin" THEN {"owner"} ELSE {"publisher"}]
     ELSE UNCHANGED <<member, roles>>
  /\ UNCHANGED <<clerk, orgs, enabled, strayed, patches>>

\* Bug seeded: the removal looks for the user's organization of today.
Left_HomeOnly(e) ==
  /\ e.type = "left"
  /\ Answer(e)
  /\ Taken(e.who, e.number)
  /\ member' = [member EXCEPT ![e.who] =
                  IF home[e.who[1]] = e.who[2] /\ @ # "absent" THEN "removed" ELSE @]
  /\ UNCHANGED <<clerk, orgs, home, enabled, roles, strayed, patches>>

\* organizationMembership.deleted: an UPDATE that may find no row.
Left(e) ==
  /\ e.type = "left"
  /\ Answer(e)
  /\ Taken(e.who, e.number)
  /\ member' = [member EXCEPT ![e.who] = IF @ = "absent" THEN @ ELSE "removed"]
  /\ UNCHANGED <<clerk, orgs, home, enabled, roles, strayed, patches>>

\* user.deleted: is_active, which nothing reads.
UserDeleted(e) ==
  /\ e.type = "user_deleted"
  /\ Answer(e)
  /\ enabled' = [enabled EXCEPT ![e.user] = IF home[e.user] = NoOrg THEN @ ELSE FALSE]
  /\ UNCHANGED <<clerk, orgs, home, member, roles, taken, late, strayed, patches>>

Deliver(e) ==
  OrgCreated(e) \/ JoinedUnknownOrg(e) \/ Joined(e) \/ Left(e) \/ UserDeleted(e)

-----------------------------------------------------------------------------
\* get_user_roles_and_batches: the roles count in the user's organization of
\* today, and while the member is active.
RolesOf(u, o) ==
  IF home[u] = o /\ member[<<u, o>>] = "active" THEN roles[<<u, o>>] ELSE {}

\* require_permission.
Allowed(u, o, p) == HasPermission(RolesOf(u, o), p)

\* remove_member: whatever the status was.
RemoveMember(u, m) ==
  /\ Allowed(u, m[2], "manage_team")
  /\ member[m] # "absent"
  /\ patches[m] < MaxPatches
  /\ member' = [member EXCEPT ![m] = "removed"]
  /\ patches' = [patches EXCEPT ![m] = @ + 1]
  /\ UNCHANGED <<clerk, orgs, home, enabled, roles, deliveries>>

\* update_member: the status or the roles.
PatchMember(u, m) ==
  /\ Allowed(u, m[2], "manage_team")
  /\ member[m] # "absent"
  /\ patches[m] < MaxPatches
  /\ \/ /\ \E s \in MemberStatuses : member' = [member EXCEPT ![m] = s]
        /\ UNCHANGED roles
     \/ /\ \E r \in EditedRoles : roles' = [roles EXCEPT ![m] = {r}]
        /\ UNCHANGED member
  /\ patches' = [patches EXCEPT ![m] = @ + 1]
  /\ UNCHANGED <<clerk, orgs, home, enabled, deliveries>>

TeamNext ==
  \/ \E o \in Orgs : ClerkCreatesOrg(o)
  \/ \E m \in Pairs : ClerkLeave(m) \/ \E r \in ClerkRoles : ClerkJoin(m, r)
  \/ \E u \in Users : ClerkDeletes(u)
  \/ \E e \in events : Deliver(e)
  \/ \E u \in Users, m \in Pairs : RemoveMember(u, m) \/ PatchMember(u, m)

TeamSpec == TeamInit /\ [][TeamNext]_teamVars

\* Clerk sends an event until it is answered.
TeamFairSpec == TeamSpec /\ WF_teamVars(\E e \in events : Deliver(e))

-----------------------------------------------------------------------------
InFlight(m) == \E e \in events : e.type \in {"joined", "left"} /\ e.who = m

\* When nothing is under way for a member, the team is what Clerk says it is:
\* active if and only if a member there.  The exceptions are the ones the code
\* makes: events out of order, a membership before its organization, a second
\* joining, and the team API.  A user who joins another organization meanwhile,
\* or whose events come twice in order, is none.
TeamFollowsClerk ==
  \A m \in Pairs :
    ~InFlight(m) /\ ~late[m] /\ ~strayed[m] /\ patches[m] = 0 /\ numbered[m] <= 2 =>
      (member[m] = "active" <=> belongs[m])

\* A member who was removed, by Clerk or by the team API, is not admitted again
\* by any late or repeated event, only by an editor's PATCH.
RemovedStaysRemoved ==
  [][\A m \in Pairs :
       member[m] = "removed" => member'[m] = "removed" \/ patches'[m] > patches[m]]_teamVars

\* A user who joins an organization, and stays, gets a team member.  ("When a
\* user joins an org, create/link their user record and team_member.")
JoiningAdmits ==
  \A m \in Pairs : belongs[m] ~> member[m] # "absent" \/ ~belongs[m]

=============================================================================
