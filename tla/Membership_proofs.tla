-------------------------- MODULE Membership_proofs --------------------------
(***************************************************************************)
(* Proofs about Membership, for any users, organizations and roles and any *)
(* bounds: its types, that the team follows Clerk, and that a member who   *)
(* was removed is not admitted again by an event.                          *)
(***************************************************************************)
EXTENDS Membership, TLAPS

\* An organization that is announced exists in Clerk.
AnnouncedExists == \A e \in events : e.type = "org_created" => e.org \in clerkOrgs

\* The events of a member in Clerk are numbered from 1: the first is a joining,
\* the second a leaving, and none has a number that was not given out.
Numbering ==
  \A e \in events : e.type \in {"joined", "left"} =>
    /\ e.number \in 1 .. numbered[e.who]
    /\ e.number = 1 => e.type = "joined"
    /\ e.number = 2 => e.type = "left"

\* Up to the second event the number says whether a user is a member in Clerk.
Belonging ==
  \A m \in Pairs :
    /\ numbered[m] = 0 => ~belongs[m]
    /\ numbered[m] = 1 => belongs[m]
    /\ numbered[m] = 2 => ~belongs[m]

\* While no event has come out of order, those after the last are in flight.
InFlightInOrder ==
  \A m \in Pairs : ~late[m] =>
    /\ taken[m] <= numbered[m]
    /\ \A k \in (taken[m] + 1) .. numbered[m] :
         \E e \in events : e.type \in {"joined", "left"} /\ e.who = m /\ e.number = k

\* What the events delivered in order have made of the team member.
StatusInOrder ==
  \A m \in Pairs : ~late[m] /\ ~strayed[m] /\ patches[m] = 0 =>
    /\ taken[m] = 0 => member[m] = "absent"
    /\ taken[m] = 1 => member[m] = "active"
    /\ taken[m] = 2 => member[m] = "removed"

IInv ==
  TeamTypeOK /\ AnnouncedExists /\ Numbering /\ Belonging /\ InFlightInOrder /\ StatusInOrder

\* The fields an event has, by its type.
LEMMA EventFields ==
  ASSUME NEW e \in Events
  PROVE  /\ e.type \in {"joined", "left"} => e.who \in Pairs /\ e.number \in Nat
         /\ e.type = "joined" => e.role \in ClerkRoles
         /\ e.type = "org_created" => e.org \in Orgs
         /\ e.type = "user_deleted" => e.user \in Users
BY DEF Events, MembershipEvents

\* Nothing is there at the start.
LEMMA TeamStarts == TeamInit => IInv
BY DEF TeamInit, IInv, TeamTypeOK, AnnouncedExists, Numbering, Belonging, InFlightInOrder,
       StatusInOrder

\* Every step keeps the types.
LEMMA TeamTypes ==
  TeamTypeOK /\ AnnouncedExists /\ [TeamNext]_teamVars => TeamTypeOK' /\ AnnouncedExists'
<1> SUFFICES ASSUME TeamTypeOK, AnnouncedExists, [TeamNext]_teamVars
             PROVE  TeamTypeOK' /\ AnnouncedExists'
  OBVIOUS
<1> USE MembershipConstants DEF TeamTypeOK, AnnouncedExists
<1>1. ASSUME NEW o \in Orgs, ClerkCreatesOrg(o) PROVE TeamTypeOK' /\ AnnouncedExists'
  BY <1>1 DEF ClerkCreatesOrg, Events, rows
<1>2. ASSUME NEW m \in Pairs, NEW r \in ClerkRoles, ClerkJoin(m, r)
      PROVE  TeamTypeOK' /\ AnnouncedExists'
  <2>1. [type |-> "joined", who |-> m, role |-> r, number |-> numbered[m] + 1] \in Events
    BY DEF Events, MembershipEvents
  <2>2. QED
    BY <1>2, <2>1 DEF ClerkJoin, rows
<1>3. ASSUME NEW m \in Pairs, ClerkLeave(m) PROVE TeamTypeOK' /\ AnnouncedExists'
  <2>1. [type |-> "left", who |-> m, number |-> numbered[m] + 1] \in Events
    BY DEF Events, MembershipEvents
  <2>2. QED
    BY <1>3, <2>1 DEF ClerkLeave, rows
<1>4. ASSUME NEW u \in Users, ClerkDeletes(u) PROVE TeamTypeOK' /\ AnnouncedExists'
  BY <1>4 DEF ClerkDeletes, Events, rows
<1>5. ASSUME NEW e \in events, Deliver(e) PROVE TeamTypeOK' /\ AnnouncedExists'
  <2>1. /\ e \in Events
        /\ events' \subseteq events
        /\ repeats' \in Nat
    <3>1. Answer(e)
      BY <1>5 DEF Deliver, OrgCreated, JoinedUnknownOrg, Joined, Left, UserDeleted
    <3>2. QED
      BY <3>1 DEF Answer
  <2>2. CASE OrgCreated(e)
    BY <2>1, <2>2 DEF OrgCreated, clerk
  <2>3. CASE JoinedUnknownOrg(e)
    BY <2>1, <2>3, EventFields DEF JoinedUnknownOrg, Taken, clerk, rows
  <2>4. CASE Joined(e)
    <3>1. /\ e.who \in Pairs /\ e.number \in Nat
          /\ e.who[1] \in Users /\ e.who[2] \in orgs
      BY <2>1, <2>4, EventFields DEF Joined, Pairs
    <3>2. home' \in [Users -> orgs' \cup {NoOrg}]
      BY <2>4, <3>1 DEF Joined
    <3>3. member' \in [Pairs -> MemberStatuses \cup {"absent"}]
      BY <2>4, <3>1 DEF Joined, MemberStatuses
    <3>4. roles' \in [Pairs -> SUBSET Roles]
      BY <2>4, <3>1 DEF Joined, Roles
    <3>5. taken' \in [Pairs -> Nat] /\ late' \in [Pairs -> BOOLEAN]
      BY <2>4, <3>1 DEF Joined, Taken
    <3>6. QED
      BY <2>1, <2>4, <3>2, <3>3, <3>4, <3>5 DEF Joined, clerk
  <2>5. CASE Left(e)
    BY <2>1, <2>5, EventFields DEF Left, Taken, MemberStatuses, clerk
  <2>6. CASE UserDeleted(e)
    BY <2>1, <2>6, EventFields DEF UserDeleted, clerk
  <2>7. QED
    BY <1>5, <2>2, <2>3, <2>4, <2>5, <2>6 DEF Deliver
<1>6. ASSUME NEW u \in Users, NEW m \in Pairs, RemoveMember(u, m)
      PROVE  TeamTypeOK' /\ AnnouncedExists'
  BY <1>6 DEF RemoveMember, MemberStatuses, clerk, deliveries
<1>7. ASSUME NEW u \in Users, NEW m \in Pairs, PatchMember(u, m)
      PROVE  TeamTypeOK' /\ AnnouncedExists'
  <2>1. roles' \in [Pairs -> SUBSET Roles] /\ member' \in [Pairs -> MemberStatuses \cup {"absent"}]
    BY <1>7 DEF PatchMember
  <2>2. QED
    BY <1>7, <2>1 DEF PatchMember, clerk, deliveries
<1>8. CASE UNCHANGED teamVars
  BY <1>8 DEF teamVars, clerk, rows, deliveries
<1>9. QED
  BY <1>1, <1>2, <1>3, <1>4, <1>5, <1>6, <1>7, <1>8 DEF TeamNext

\* The events of a member keep their numbers, whatever is sent and delivered.
LEMMA NumbersStay ==
  IInv /\ [TeamNext]_teamVars => Numbering' /\ Belonging'
<1> SUFFICES ASSUME IInv, [TeamNext]_teamVars PROVE Numbering' /\ Belonging'
  OBVIOUS
<1> USE MembershipConstants DEF IInv, TeamTypeOK, Numbering, Belonging
<1>1. ASSUME NEW o \in Orgs, ClerkCreatesOrg(o) PROVE Numbering' /\ Belonging'
  BY <1>1 DEF ClerkCreatesOrg
<1>2. ASSUME NEW m \in Pairs, NEW r \in ClerkRoles, ClerkJoin(m, r)
      PROVE  Numbering' /\ Belonging'
  <2>1. /\ numbered'[m] = numbered[m] + 1 /\ numbered[m] \in Nat
        /\ \A n \in Pairs \ {m} : numbered'[n] = numbered[n]
    BY <1>2 DEF ClerkJoin
  <2>2. Belonging'
    BY <1>2, <2>1 DEF ClerkJoin
  <2>3. ASSUME NEW e \in events', e.type \in {"joined", "left"}
        PROVE  /\ e.number \in 1 .. numbered'[e.who]
               /\ e.number = 1 => e.type = "joined"
               /\ e.number = 2 => e.type = "left"
    <3>1. CASE e \in events
      <4>1. e.who \in Pairs
        BY <2>3, <3>1, EventFields
      <4>2. QED
        BY <2>1, <2>3, <3>1, <4>1
    <3>2. CASE e \notin events
      <4>1. e.type = "joined" /\ e.who = m /\ e.number = numbered[m] + 1
        BY <1>2, <3>2 DEF ClerkJoin
      <4>2. numbered[m] # 1
        BY <1>2 DEF ClerkJoin
      <4>3. QED
        BY <2>1, <4>1, <4>2
    <3>3. QED
      BY <3>1, <3>2
  <2>4. QED
    BY <2>2, <2>3
<1>3. ASSUME NEW m \in Pairs, ClerkLeave(m) PROVE Numbering' /\ Belonging'
  <2>1. /\ numbered'[m] = numbered[m] + 1 /\ numbered[m] \in Nat
        /\ \A n \in Pairs \ {m} : numbered'[n] = numbered[n]
    BY <1>3 DEF ClerkLeave
  <2>2. Belonging'
    BY <1>3, <2>1 DEF ClerkLeave
  <2>3. ASSUME NEW e \in events', e.type \in {"joined", "left"}
        PROVE  /\ e.number \in 1 .. numbered'[e.who]
               /\ e.number = 1 => e.type = "joined"
               /\ e.number = 2 => e.type = "left"
    <3>1. CASE e \in events
      <4>1. e.who \in Pairs
        BY <2>3, <3>1, EventFields
      <4>2. QED
        BY <2>1, <2>3, <3>1, <4>1
    <3>2. CASE e \notin events
      <4>1. e.type = "left" /\ e.who = m /\ e.number = numbered[m] + 1
        BY <1>3, <3>2 DEF ClerkLeave
      <4>2. numbered[m] # 0
        BY <1>3 DEF ClerkLeave
      <4>3. QED
        BY <2>1, <4>1, <4>2
    <3>3. QED
      BY <3>1, <3>2
  <2>4. QED
    BY <2>2, <2>3
<1>4. ASSUME NEW u \in Users, ClerkDeletes(u) PROVE Numbering' /\ Belonging'
  BY <1>4 DEF ClerkDeletes
<1>5. ASSUME NEW e \in events, Deliver(e) PROVE Numbering' /\ Belonging'
  <2>1. events' \subseteq events
    <3>1. Answer(e)
      BY <1>5 DEF Deliver, OrgCreated, JoinedUnknownOrg, Joined, Left, UserDeleted
    <3>2. QED
      BY <3>1 DEF Answer
  <2>2. UNCHANGED <<numbered, belongs>>
    BY <1>5 DEF Deliver, OrgCreated, JoinedUnknownOrg, Joined, Left, UserDeleted, clerk
  <2>3. QED
    BY <2>1, <2>2
<1>6. ASSUME NEW u \in Users, NEW m \in Pairs, RemoveMember(u, m) \/ PatchMember(u, m)
      PROVE  Numbering' /\ Belonging'
  BY <1>6 DEF RemoveMember, PatchMember, clerk, deliveries
<1>7. CASE UNCHANGED teamVars
  BY <1>7 DEF teamVars, clerk, deliveries
<1>8. QED
  BY <1>1, <1>2, <1>3, <1>4, <1>5, <1>6, <1>7 DEF TeamNext

\* An event that is delivered takes no other event of its member away.
LEMMA OthersStayInFlight ==
  ASSUME IInv, NEW e \in events, Deliver(e), NEW m \in Pairs, ~late'[m]
  PROVE  /\ taken'[m] <= numbered'[m]
         /\ \A k \in (taken'[m] + 1) .. numbered'[m] :
              \E f \in events' : f.type \in {"joined", "left"} /\ f.who = m /\ f.number = k
<1> USE DEF IInv, TeamTypeOK, InFlightInOrder, Numbering
<1>1. numbered' = numbered
  BY DEF Deliver, OrgCreated, JoinedUnknownOrg, Joined, Left, UserDeleted, clerk
<1>2. events' = events \/ events' = events \ {e}
  <2>1. Answer(e)
    BY DEF Deliver, OrgCreated, JoinedUnknownOrg, Joined, Left, UserDeleted
  <2>2. QED
    BY <2>1 DEF Answer
<1>3. CASE e.type \in {"joined", "left"} /\ e.who = m
  <2>1. Taken(m, e.number)
    BY <1>3 DEF Deliver, OrgCreated, JoinedUnknownOrg, Joined, Left, UserDeleted
  <2>2. /\ taken'[m] = e.number /\ ~late[m]
        /\ e.number \in {taken[m], taken[m] + 1}
    <3>1. taken'[m] = e.number
      BY <2>1 DEF Taken
    <3>2. late'[m] = (late[m] \/ e.number \notin {taken[m], taken[m] + 1})
      BY <2>1 DEF Taken
    <3>3. QED
      BY <3>1, <3>2
  <2>3. e.number <= numbered[m] /\ e.number \in Nat /\ taken[m] \in Nat /\ numbered[m] \in Nat
    BY <1>3
  <2>4. ASSUME NEW k \in (taken'[m] + 1) .. numbered'[m]
        PROVE  \E f \in events' : f.type \in {"joined", "left"} /\ f.who = m /\ f.number = k
    <3>1. k \in (taken[m] + 1) .. numbered[m] /\ k # e.number
      BY <1>1, <2>2, <2>3, <2>4
    <3>2. PICK f \in events : f.type \in {"joined", "left"} /\ f.who = m /\ f.number = k
      BY <2>2, <3>1
    <3>3. f \in events'
      BY <1>2, <3>1, <3>2
    <3>4. QED
      BY <3>2, <3>3
  <2>5. QED
    BY <1>1, <2>2, <2>3, <2>4
<1>4. CASE ~(e.type \in {"joined", "left"} /\ e.who = m)
  <2>1. taken'[m] = taken[m] /\ late'[m] = late[m]
    <3>1. CASE e.type \in {"joined", "left"}
      <4>1. Taken(e.who, e.number)
        BY <3>1 DEF Deliver, OrgCreated, JoinedUnknownOrg, Joined, Left, UserDeleted
      <4>2. QED
        BY <1>4, <3>1, <4>1 DEF Taken
    <3>2. CASE e.type \notin {"joined", "left"}
      BY <3>2 DEF Deliver, OrgCreated, JoinedUnknownOrg, Joined, Left, UserDeleted
    <3>3. QED
      BY <3>1, <3>2
  <2>2. QED
    BY <1>1, <1>2, <1>4, <2>1
<1>5. QED
  BY <1>3, <1>4

\* The events that are not delivered yet, and have to be, are in flight.
LEMMA FlightStays == IInv /\ [TeamNext]_teamVars => InFlightInOrder'
<1> SUFFICES ASSUME IInv, [TeamNext]_teamVars PROVE InFlightInOrder'
  OBVIOUS
<1> USE DEF IInv, TeamTypeOK, InFlightInOrder
<1>1. ASSUME NEW m \in Pairs, NEW t \in {"joined", "left"}, NEW e,
             e.type = t, e.who = m, e.number = numbered[m] + 1,
             numbered' = [numbered EXCEPT ![m] = @ + 1],
             events' = events \cup {e}, UNCHANGED <<taken, late>>
      PROVE  InFlightInOrder'
  <2> SUFFICES ASSUME NEW n \in Pairs, ~late[n]
               PROVE  /\ taken[n] <= numbered'[n]
                      /\ \A k \in (taken[n] + 1) .. numbered'[n] :
                           \E f \in events' :
                             f.type \in {"joined", "left"} /\ f.who = n /\ f.number = k
    BY <1>1
  <2>1. CASE n = m
    <3>1. numbered'[m] = numbered[m] + 1 /\ numbered[m] \in Nat /\ taken[m] \in Nat
      BY <1>1
    <3>2. ASSUME NEW k \in (taken[n] + 1) .. numbered'[n]
          PROVE  \E f \in events' : f.type \in {"joined", "left"} /\ f.who = n /\ f.number = k
      <4>1. CASE k = numbered[m] + 1
        BY <1>1, <2>1, <4>1
      <4>2. CASE k # numbered[m] + 1
        <5>1. k \in (taken[n] + 1) .. numbered[n]
          BY <2>1, <3>1, <3>2, <4>2
        <5>2. QED
          BY <1>1, <5>1
      <4>3. QED
        BY <4>1, <4>2
    <3>3. QED
      BY <2>1, <3>1, <3>2
  <2>2. CASE n # m
    BY <1>1, <2>2
  <2>3. QED
    BY <2>1, <2>2
<1>2. ASSUME NEW m \in Pairs, NEW r \in ClerkRoles, ClerkJoin(m, r) PROVE InFlightInOrder'
  BY <1>1, <1>2 DEF ClerkJoin
<1>3. ASSUME NEW m \in Pairs, ClerkLeave(m) PROVE InFlightInOrder'
  BY <1>1, <1>3 DEF ClerkLeave
<1>4. ASSUME NEW e \in events, Deliver(e) PROVE InFlightInOrder'
  BY <1>4, OthersStayInFlight
<1>5. ASSUME events \subseteq events', UNCHANGED <<numbered, taken, late>>
      PROVE  InFlightInOrder'
  BY <1>5
<1>6. ASSUME NEW o \in Orgs, ClerkCreatesOrg(o) PROVE InFlightInOrder'
  BY <1>5, <1>6 DEF ClerkCreatesOrg
<1>7. ASSUME NEW u \in Users, ClerkDeletes(u) PROVE InFlightInOrder'
  BY <1>5, <1>7 DEF ClerkDeletes
<1>8. ASSUME NEW u \in Users, NEW m \in Pairs, RemoveMember(u, m) \/ PatchMember(u, m)
      PROVE  InFlightInOrder'
  BY <1>5, <1>8 DEF RemoveMember, PatchMember, clerk, deliveries
<1>9. CASE UNCHANGED teamVars
  BY <1>5, <1>9 DEF teamVars, clerk, deliveries
<1>10. QED
  BY <1>2, <1>3, <1>4, <1>6, <1>7, <1>8, <1>9 DEF TeamNext

\* The status of a member follows the events delivered in order.
LEMMA StatusFollows == IInv /\ [TeamNext]_teamVars => StatusInOrder'
<1> SUFFICES ASSUME IInv, [TeamNext]_teamVars PROVE StatusInOrder'
  OBVIOUS
<1> USE MembershipConstants DEF IInv, TeamTypeOK, StatusInOrder
<1>1. ASSUME UNCHANGED <<member, taken, late, strayed, patches>> PROVE StatusInOrder'
  BY <1>1
<1>2. ASSUME NEW e \in events, Deliver(e) PROVE StatusInOrder'
  <2>1. /\ e.type \in {"joined", "left"} => e.who \in Pairs /\ e.number \in Nat
        /\ e.type = "joined" => e.number # 2 /\ e.number # 0
        /\ e.type = "left" => e.number # 1 /\ e.number # 0
    BY EventFields DEF Numbering
  <2>2. CASE OrgCreated(e)
    BY <1>1, <2>2 DEF OrgCreated
  <2>3. CASE UserDeleted(e)
    BY <1>1, <2>3 DEF UserDeleted
  <2>4. CASE JoinedUnknownOrg(e)
    BY <2>1, <2>4 DEF JoinedUnknownOrg, Taken, rows
  <2>5. CASE Joined(e)
    <3> SUFFICES ASSUME NEW m \in Pairs, ~late'[m] /\ ~strayed'[m] /\ patches'[m] = 0
                 PROVE  /\ taken'[m] = 0 => member'[m] = "absent"
                        /\ taken'[m] = 1 => member'[m] = "active"
                        /\ taken'[m] = 2 => member'[m] = "removed"
      OBVIOUS
    <3>1. CASE m # e.who
      BY <2>1, <2>5, <3>1 DEF Joined, Taken
    <3>2. CASE m = e.who
      <4>1. /\ taken'[m] = e.number /\ ~late[m] /\ ~strayed[m] /\ patches[m] = 0
            /\ e.number \in {taken[m], taken[m] + 1} /\ taken[m] \in Nat
        BY <2>1, <2>5, <3>2 DEF Joined, Taken
      <4>2. member[m] = "absent" => member'[m] = "active"
        BY <2>1, <2>5, <3>2 DEF Joined
      <4>3. member[m] # "absent" => member'[m] = member[m]
        BY <2>1, <2>5, <3>2 DEF Joined
      <4>4. e.type = "joined"
        BY <2>5 DEF Joined
      <4>5. QED
        BY <2>1, <4>1, <4>2, <4>3, <4>4
    <3>3. QED
      BY <3>1, <3>2
  <2>6. CASE Left(e)
    <3> SUFFICES ASSUME NEW m \in Pairs, ~late'[m] /\ ~strayed'[m] /\ patches'[m] = 0
                 PROVE  /\ taken'[m] = 0 => member'[m] = "absent"
                        /\ taken'[m] = 1 => member'[m] = "active"
                        /\ taken'[m] = 2 => member'[m] = "removed"
      OBVIOUS
    <3>1. CASE m # e.who
      BY <2>1, <2>6, <3>1 DEF Left, Taken
    <3>2. CASE m = e.who
      <4>1. /\ taken'[m] = e.number /\ ~late[m] /\ ~strayed[m] /\ patches[m] = 0
            /\ e.number \in {taken[m], taken[m] + 1} /\ taken[m] \in Nat
        BY <2>1, <2>6, <3>2 DEF Left, Taken
      <4>2. member'[m] = IF member[m] = "absent" THEN "absent" ELSE "removed"
        BY <2>1, <2>6, <3>2 DEF Left
      <4>3. e.type = "left"
        BY <2>6 DEF Left
      <4>4. QED
        BY <2>1, <4>1, <4>2, <4>3
    <3>3. QED
      BY <3>1, <3>2
  <2>7. QED
    BY <1>2, <2>2, <2>3, <2>4, <2>5, <2>6 DEF Deliver
<1>3. ASSUME NEW u \in Users, NEW m \in Pairs, RemoveMember(u, m) \/ PatchMember(u, m)
      PROVE  StatusInOrder'
  <2>1. /\ patches' = [patches EXCEPT ![m] = @ + 1]
        /\ UNCHANGED <<taken, late, strayed>>
        /\ \A n \in Pairs \ {m} : member'[n] = member[n]
    BY <1>3 DEF RemoveMember, PatchMember, deliveries
  <2>2. QED
    BY <2>1
<1>4. CASE UNCHANGED teamVars
  BY <1>1, <1>4 DEF teamVars, rows, deliveries
<1>5. ASSUME NEW m \in Pairs, ClerkLeave(m) \/ \E r \in ClerkRoles : ClerkJoin(m, r)
      PROVE  StatusInOrder'
  BY <1>1, <1>5 DEF ClerkLeave, ClerkJoin, rows
<1>6. ASSUME NEW o \in Orgs, ClerkCreatesOrg(o) PROVE StatusInOrder'
  BY <1>1, <1>6 DEF ClerkCreatesOrg, rows
<1>7. ASSUME NEW u \in Users, ClerkDeletes(u) PROVE StatusInOrder'
  BY <1>1, <1>7 DEF ClerkDeletes, rows
<1>8. QED
  BY <1>2, <1>3, <1>4, <1>5, <1>6, <1>7 DEF TeamNext

\* Every step keeps the invariant.
LEMMA TeamInductive == IInv /\ [TeamNext]_teamVars => IInv'
BY TeamTypes, NumbersStay, FlightStays, StatusFollows DEF IInv

\* Every variable of the team keeps its type, and users are in organizations
\* that have a row.
THEOREM TeamTypeCorrect == TeamSpec => []TeamTypeOK
<1>1. TeamInit => IInv
  BY TeamStarts
<1>2. IInv /\ [TeamNext]_teamVars => IInv'
  BY TeamInductive
<1>3. IInv => TeamTypeOK
  BY DEF IInv
<1>4. QED
  BY <1>1, <1>2, <1>3, PTL DEF TeamSpec

\* When nothing is under way for a member, and no event came out of order or
\* before its organization, and the team API left it alone, the member is
\* active if and only if a member in Clerk.
THEOREM TeamFollows == TeamSpec => []TeamFollowsClerk
<1>1. IInv => TeamFollowsClerk
  <2> SUFFICES ASSUME IInv, NEW m \in Pairs,
                      ~InFlight(m) /\ ~late[m] /\ ~strayed[m] /\ patches[m] = 0,
                      numbered[m] <= 2
               PROVE  member[m] = "active" <=> belongs[m]
    BY DEF TeamFollowsClerk
  <2>1. taken[m] \in Nat /\ numbered[m] \in Nat
    BY DEF IInv, TeamTypeOK
  <2>2. taken[m] = numbered[m]
    BY <2>1 DEF IInv, InFlightInOrder, InFlight
  <2>3. QED
    BY <2>1, <2>2 DEF IInv, StatusInOrder, Belonging
<1>2. QED
  BY <1>1, TeamStarts, TeamInductive, PTL DEF TeamSpec

\* Only an editor's PATCH admits a removed member again.
THEOREM RemovedAreNotReadmitted == TeamSpec => RemovedStaysRemoved
<1>1. IInv /\ [TeamNext]_teamVars =>
        [\A m \in Pairs :
           member[m] = "removed" => member'[m] = "removed" \/ patches'[m] > patches[m]]_teamVars
  <2> SUFFICES ASSUME IInv, TeamNext, NEW m \in Pairs, member[m] = "removed"
               PROVE  member'[m] = "removed" \/ patches'[m] > patches[m]
    BY DEF teamVars
  <2> USE DEF IInv, TeamTypeOK
  <2>1. ASSUME NEW e \in events, Deliver(e) PROVE member'[m] = "removed"
    BY <2>1 DEF Deliver, OrgCreated, JoinedUnknownOrg, Joined, Left, UserDeleted, rows
  <2>2. ASSUME NEW u \in Users, NEW n \in Pairs, RemoveMember(u, n) \/ PatchMember(u, n)
        PROVE  member'[m] = "removed" \/ patches'[m] > patches[m]
    <3>1. /\ patches' = [patches EXCEPT ![n] = @ + 1]
          /\ \A k \in Pairs \ {n} : member'[k] = member[k]
      BY <2>2 DEF RemoveMember, PatchMember
    <3>2. QED
      BY <3>1
  <2>3. CASE UNCHANGED member
    BY <2>3
  <2>4. QED
    BY <2>1, <2>2, <2>3 DEF TeamNext, ClerkCreatesOrg, ClerkJoin, ClerkLeave, ClerkDeletes, rows
<1>2. QED
  BY <1>1, TeamStarts, TeamInductive, PTL DEF TeamSpec, RemovedStaysRemoved

=============================================================================
