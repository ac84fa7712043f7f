---------------------------- MODULE Invites_proofs ----------------------------
(***************************************************************************)
(* Proofs about Invites, for any links, emails, API processes and          *)
(* requesters: its types, that a link is good once, and that an email has  *)
(* one pending link, while requests do not overlap.                        *)
(***************************************************************************)
EXTENDS Invites, FiniteSetTheorems, TLAPS

\* A process that inserts has the address of a link, and the links a handler is
\* about exist.
Addressed ==
  \A a \in Api :
    /\ pc[a] = "insert" => address[a] \in Emails
    /\ \A i \in taken[a] : link[i] # "absent"

\* While requests have not overlapped, one process is in a handler at most.
OneBusy == ~overlapped => \A a, b \in Api : pc[a] # "idle" /\ pc[b] # "idle" => a = b

\* Nobody else touches the link a process is about to accept.
AcceptsPending ==
  ~overlapped => \A a \in Api : pc[a] = "accept" => \A i \in taken[a] : link[i] = "pending"

\* The pending links an INSERT adds to: those of its address it did not
\* invalidate.
Left(a) == PendingFor(address[a]) \ taken[a]

\* The links are finitely many, and there is room for one more of an address
\* before it is inserted.
RoomForOne ==
  /\ \A e \in Emails : IsFiniteSet(PendingFor(e))
  /\ ~overlapped => \A a \in Api :
       pc[a] = "insert" => Cardinality(Left(a)) <= revived[address[a]]

\* The requests that have read a link and not accepted it yet.
Readers(i) == {a \in Api : pc[a] = "accept" /\ i \in taken[a]}

\* They and those that have accepted it are no more than there are processes: a
\* link that was accepted once is read no more.
Accepts ==
  \A i \in Invites :
    /\ link[i] \in {"absent", "pending"} => accepted[i] = 0
    /\ accepted[i] + Cardinality(Readers(i)) <= Cardinality(Api)

IInv == TypeOK /\ Addressed /\ OneBusy /\ AcceptsPending /\ RoomForOne /\ OnePendingInvite /\ Accepts

\* The readers are finitely many.
LEMMA ReadersAreFew ==
  ASSUME NEW P \in SUBSET Api
  PROVE  /\ IsFiniteSet(P) /\ Cardinality(P) \in Nat /\ Cardinality(Api) \in Nat
         /\ Cardinality(P) <= Cardinality(Api)
         /\ \A Q \in SUBSET P : Cardinality(Q) \in Nat /\ Cardinality(Q) <= Cardinality(P)
<1>1. IsFiniteSet(P) /\ Cardinality(P) <= Cardinality(Api)
  BY InvitesConstants, FS_Subset
<1>2. \A Q \in SUBSET P : IsFiniteSet(Q) /\ Cardinality(Q) <= Cardinality(P)
  BY <1>1, FS_Subset
<1>3. QED
  BY <1>1, <1>2, InvitesConstants, FS_CardinalityType

\* There is no link and no request at the start.
LEMMA InvitesStart == Init => IInv
<1> SUFFICES ASSUME Init PROVE IInv
  OBVIOUS
<1> USE InvitesConstants DEF Init
<1>1. TypeOK
  BY DEF TypeOK
<1>2. Addressed /\ OneBusy /\ AcceptsPending
  BY DEF Addressed, OneBusy, AcceptsPending
<1>3. \A e \in Emails : PendingFor(e) = {}
  BY DEF PendingFor
<1>4. RoomForOne
  BY <1>3, FS_EmptySet DEF RoomForOne
<1>5. OnePendingInvite
  <2> SUFFICES ASSUME NEW e \in Emails PROVE Cardinality(PendingFor(e)) <= 1 + revived[e]
    BY DEF OnePendingInvite
  <2>1. Cardinality(PendingFor(e)) = 0
    BY <1>3, FS_EmptySet
  <2>2. revived[e] = 0
    OBVIOUS
  <2>3. QED
    BY <2>1, <2>2
<1>6. Accepts
  <2> SUFFICES ASSUME NEW i \in Invites
               PROVE  accepted[i] = 0 /\ accepted[i] + Cardinality(Readers(i)) <= Cardinality(Api)
    BY DEF Accepts
  <2>1. Readers(i) \in SUBSET Api
    BY DEF Readers
  <2>2. QED
    BY <2>1, ReadersAreFew
<1>7. QED
  BY <1>1, <1>2, <1>4, <1>5, <1>6 DEF IInv

\* Every step keeps the types.
LEMMA InvitesTypes == TypeOK /\ Addressed /\ [Next]_vars => TypeOK' /\ Addressed'
<1> SUFFICES ASSUME TypeOK, Addressed, [Next]_vars PROVE TypeOK' /\ Addressed'
  OBVIOUS
<1> USE InvitesConstants DEF TypeOK, Addressed, LinkStatuses
<1>1. ASSUME NEW a \in Api, NEW e \in Emails, CreateInvite(a, e) PROVE TypeOK' /\ Addressed'
  BY <1>1 DEF CreateInvite, Begin, PendingFor
<1>2. ASSUME NEW a \in Api, NEW i \in Invites, ResendInvite(a, i) PROVE TypeOK' /\ Addressed'
  <2>1. to[i] \in Emails
    BY <1>2 DEF ResendInvite
  <2>2. revived' \in [Emails -> Nat]
    BY <1>2, <2>1 DEF ResendInvite
  <2>3. QED
    BY <1>2, <2>1, <2>2 DEF ResendInvite, Begin
<1>3. ASSUME NEW a \in Api, NEW i \in Invites, InsertLink(a, i) PROVE TypeOK' /\ Addressed'
  <2>1. address[a] \in Emails
    BY <1>3 DEF InsertLink
  <2>2. link' \in [Invites -> LinkStatuses \cup {"absent"}] /\ to' \in [Invites -> Emails \cup {NoEmail}]
    BY <1>3 DEF InsertLink
  <2>3. \A j \in Invites : link'[j] # "absent" <=> to'[j] \in Emails
    <3> SUFFICES ASSUME NEW j \in Invites PROVE link'[j] # "absent" <=> to'[j] \in Emails
      OBVIOUS
    <3>1. CASE j = i
      BY <1>3, <2>1, <3>1 DEF InsertLink
    <3>2. CASE j # i
      <4>1. to'[j] = to[j]
        BY <1>3, <3>2 DEF InsertLink
      <4>2. link'[j] = IF j \in taken[a] THEN "invalidated" ELSE link[j]
        BY <1>3, <3>2 DEF InsertLink
      <4>3. QED
        BY <4>1, <4>2
    <3>3. QED
      BY <3>1, <3>2
  <2>4. QED
    BY <1>3, <2>2, <2>3 DEF InsertLink, Done
<1>4. ASSUME NEW a \in Api, NEW i \in Invites, AcceptRead(a, i) PROVE TypeOK' /\ Addressed'
  BY <1>4 DEF AcceptRead, Begin
<1>5. ASSUME NEW a \in Api, InsertFails(a) PROVE TypeOK' /\ Addressed'
  BY <1>5 DEF InsertFails, Done
<1>6. ASSUME NEW a \in Api, AcceptWrite(a) PROVE TypeOK' /\ Addressed'
  BY <1>6 DEF AcceptWrite, Done
<1>7. ASSUME NEW i \in Invites, Expire(i) PROVE TypeOK' /\ Addressed'
  BY <1>7 DEF Expire
<1>8. CASE UNCHANGED vars
  BY <1>8 DEF vars
<1>9. QED
  BY <1>1, <1>2, <1>3, <1>4, <1>5, <1>6, <1>7, <1>8 DEF Next

\* While requests do not overlap, a process that is in a handler is alone, and
\* the link it accepts stays as it read it.
LEMMA Alone == IInv /\ [Next]_vars => OneBusy' /\ AcceptsPending'
<1> SUFFICES ASSUME IInv, [Next]_vars PROVE OneBusy' /\ AcceptsPending'
  OBVIOUS
<1> USE DEF IInv, TypeOK, OneBusy, AcceptsPending
<1>1. ASSUME NEW a \in Api, NEW next \in {"insert", "accept"}, NEW is, NEW e,
             Begin(a, next, is, e), UNCHANGED link,
             next = "accept" => \A i \in is : link[i] = "pending"
      PROVE  OneBusy' /\ AcceptsPending'
  BY <1>1 DEF Begin
<1>2. ASSUME NEW a \in Api, Done(a), pc[a] # "idle"
      PROVE  OneBusy' /\ AcceptsPending'
  BY <1>2 DEF Done
<1>3. ASSUME NEW a \in Api, NEW e \in Emails, CreateInvite(a, e)
      PROVE  OneBusy' /\ AcceptsPending'
  BY <1>1, <1>3 DEF CreateInvite
<1>4. ASSUME NEW a \in Api, NEW i \in Invites, ResendInvite(a, i)
      PROVE  OneBusy' /\ AcceptsPending'
  BY <1>1, <1>4 DEF ResendInvite
<1>5. ASSUME NEW a \in Api, NEW i \in Invites, AcceptRead(a, i)
      PROVE  OneBusy' /\ AcceptsPending'
  BY <1>1, <1>5 DEF AcceptRead
<1>6. ASSUME NEW a \in Api, InsertFails(a) \/ AcceptWrite(a) \/ \E i \in Invites : InsertLink(a, i)
      PROVE  OneBusy' /\ AcceptsPending'
  BY <1>2, <1>6 DEF InsertFails, AcceptWrite, InsertLink
<1>7. ASSUME NEW i \in Invites, Expire(i) PROVE OneBusy' /\ AcceptsPending'
  BY <1>7 DEF Expire
<1>8. CASE UNCHANGED vars
  BY <1>8 DEF vars
<1>9. QED
  BY <1>3, <1>4, <1>5, <1>6, <1>7, <1>8 DEF Next

\* Fewer pending links leave as much room.
LEMMA FewerPending ==
  ASSUME NEW S, NEW T, IsFiniteSet(S), T \subseteq S
  PROVE  IsFiniteSet(T) /\ Cardinality(T) <= Cardinality(S)
         /\ Cardinality(T) \in Nat /\ Cardinality(S) \in Nat
BY FS_Subset, FS_CardinalityType

\* A step that adds no pending link and no INSERT keeps the room.
LEMMA RoomStays ==
  ASSUME IInv, \A e \in Emails : PendingFor(e)' \subseteq PendingFor(e),
         UNCHANGED revived, overlapped => overlapped',
         \A a \in Api : pc'[a] = "insert" =>
           pc[a] = "insert" /\ address'[a] = address[a] /\ taken'[a] = taken[a]
  PROVE  RoomForOne' /\ OnePendingInvite'
<1> USE DEF IInv, TypeOK
<1>1. \A e \in Emails : IsFiniteSet(PendingFor(e))'
  BY FewerPending DEF RoomForOne
<1>2. ASSUME ~overlapped', NEW e \in Emails
      PROVE  Cardinality(PendingFor(e))' <= 1 + revived'[e]
  <2>1. Cardinality(PendingFor(e))' <= Cardinality(PendingFor(e))
        /\ Cardinality(PendingFor(e))' \in Nat /\ Cardinality(PendingFor(e)) \in Nat
    BY FewerPending DEF RoomForOne
  <2>2. Cardinality(PendingFor(e)) <= 1 + revived[e] /\ revived[e] \in Nat
    BY <1>2 DEF OnePendingInvite
  <2>3. QED
    BY <2>1, <2>2
<1>3. ASSUME ~overlapped', NEW a \in Api, pc'[a] = "insert"
      PROVE  Cardinality(Left(a))' <= revived'[address'[a]]
  <2>1. address[a] \in Emails
    BY <1>3 DEF Addressed
  <2>2. Left(a)' \subseteq Left(a) /\ IsFiniteSet(Left(a))
    BY <1>3, <2>1, FewerPending DEF Left, RoomForOne
  <2>3. Cardinality(Left(a))' <= Cardinality(Left(a))
        /\ Cardinality(Left(a))' \in Nat /\ Cardinality(Left(a)) \in Nat
    BY <2>2, FewerPending
  <2>4. Cardinality(Left(a)) <= revived[address[a]] /\ revived[address[a]] \in Nat
    BY <1>3, <2>1 DEF RoomForOne
  <2>5. QED
    BY <1>3, <2>3, <2>4
<1>4. QED
  BY <1>1, <1>2, <1>3 DEF RoomForOne, OnePendingInvite

\* A handler that begins with room for the link it will insert.
LEMMA RoomMade ==
  ASSUME IInv, NEW a \in Api, NEW is, NEW e \in Emails, Begin(a, "insert", is, e),
         UNCHANGED <<link, to>>, revived' \in [Emails -> Nat],
         \A f \in Emails : revived[f] <= revived'[f],
         Cardinality(PendingFor(e) \ is) <= revived'[e]
  PROVE  RoomForOne' /\ OnePendingInvite'
<1> USE DEF IInv, TypeOK
<1>1. \A f \in Emails : PendingFor(f)' = PendingFor(f)
  BY DEF PendingFor
<1>2. \A f \in Emails : IsFiniteSet(PendingFor(f))'
  BY <1>1 DEF RoomForOne
<1>3. ~overlapped' => ~overlapped /\ \A b \in Api : pc'[b] # "idle" => b = a
  BY DEF Begin
<1>4. ASSUME ~overlapped', NEW f \in Emails
      PROVE  Cardinality(PendingFor(f))' <= 1 + revived'[f]
  <2>1. Cardinality(PendingFor(f)) <= 1 + revived[f]
    BY <1>3, <1>4 DEF OnePendingInvite
  <2>2. Cardinality(PendingFor(f)) \in Nat /\ revived[f] \in Nat /\ revived'[f] \in Nat
    BY FS_CardinalityType DEF RoomForOne
  <2>3. Cardinality(PendingFor(f))' = Cardinality(PendingFor(f))
    BY <1>1
  <2>4. QED
    BY <2>1, <2>2, <2>3
<1>5. ASSUME ~overlapped', NEW b \in Api, pc'[b] = "insert"
      PROVE  Cardinality(Left(b))' <= revived'[address'[b]]
  <2>1. b = a /\ address'[b] = e /\ taken'[b] = is
    BY <1>3, <1>5 DEF Begin
  <2>2. Left(b)' = PendingFor(e) \ is
    BY <1>1, <2>1 DEF Left, PendingFor
  <2>3. QED
    BY <2>1, <2>2
<1>6. QED
  BY <1>2, <1>4, <1>5 DEF RoomForOne, OnePendingInvite

\* Every step leaves an email one pending link, and one for each resend of a
\* link that was not pending.
LEMMA RoomKept == IInv /\ [Next]_vars => RoomForOne' /\ OnePendingInvite'
<1> SUFFICES ASSUME IInv, [Next]_vars PROVE RoomForOne' /\ OnePendingInvite'
  OBVIOUS
<1> USE DEF IInv, TypeOK
<1>1. ASSUME NEW a \in Api, NEW e \in Emails, CreateInvite(a, e)
      PROVE  RoomForOne' /\ OnePendingInvite'
  <2>1. PendingFor(e) \ PendingFor(e) = {}
    OBVIOUS
  <2>2. Cardinality(PendingFor(e) \ PendingFor(e)) <= revived'[e]
    <3>1. Cardinality(PendingFor(e) \ PendingFor(e)) = 0
      BY <2>1, FS_EmptySet
    <3>2. revived'[e] = revived[e] /\ revived[e] \in Nat
      BY <1>1 DEF CreateInvite
    <3>3. QED
      BY <3>1, <3>2
  <2>3. QED
    BY <1>1, <2>2, RoomMade DEF CreateInvite
<1>2. ASSUME NEW a \in Api, NEW i \in Invites, ResendInvite(a, i)
      PROVE  RoomForOne' /\ OnePendingInvite'
  <2>1. to[i] \in Emails
    BY <1>2 DEF ResendInvite
  <2>2. /\ revived' \in [Emails -> Nat]
        /\ \A f \in Emails : revived[f] <= revived'[f]
    BY <1>2, <2>1 DEF ResendInvite
  <2>3. CASE ~overlapped
    <3>1. /\ Cardinality(PendingFor(to[i])) <= 1 + revived[to[i]]
          /\ IsFiniteSet(PendingFor(to[i]))
          /\ Cardinality(PendingFor(to[i])) \in Nat
          /\ revived[to[i]] \in Nat
      BY <2>1, <2>3, FS_CardinalityType DEF OnePendingInvite, RoomForOne
    <3>2. Cardinality(PendingFor(to[i]) \ {i}) =
            IF i \in PendingFor(to[i]) THEN Cardinality(PendingFor(to[i])) - 1
            ELSE Cardinality(PendingFor(to[i]))
      BY <3>1, FS_RemoveElement
    <3>3. i \in PendingFor(to[i]) <=> link[i] = "pending"
      BY DEF PendingFor
    <3>4. revived'[to[i]] = IF link[i] = "pending" THEN revived[to[i]] ELSE revived[to[i]] + 1
      BY <1>2, <2>1 DEF ResendInvite
    <3>5. Cardinality(PendingFor(to[i]) \ {i}) <= revived'[to[i]]
      BY <3>1, <3>2, <3>3, <3>4
    <3>6. QED
      BY <1>2, <2>1, <2>2, <3>5, RoomMade DEF ResendInvite
  <2>4. CASE overlapped
    <3>1. overlapped' /\ \A f \in Emails : PendingFor(f)' = PendingFor(f)
      BY <1>2, <2>4 DEF ResendInvite, Begin, PendingFor
    <3>2. QED
      BY <3>1 DEF RoomForOne, OnePendingInvite
  <2>5. QED
    BY <2>3, <2>4
<1>3. ASSUME NEW a \in Api, NEW i \in Invites, InsertLink(a, i)
      PROVE  RoomForOne' /\ OnePendingInvite'
  <2>1. PICK d \in Emails : d = address[a] /\ pc[a] = "insert" /\ link[i] = "absent"
    BY <1>3 DEF InsertLink, Addressed
  <2>2. i \notin taken[a] /\ \A e \in Emails : i \notin PendingFor(e)
    BY <2>1 DEF Addressed, PendingFor
  <2>3. PendingFor(d)' = Left(a) \cup {i}
    BY <1>3, <2>1, <2>2 DEF InsertLink, PendingFor, Left
  <2>4. \A e \in Emails \ {d} : PendingFor(e)' \subseteq PendingFor(e)
    BY <1>3, <2>1, <2>2 DEF InsertLink, PendingFor
  <2>5. /\ IsFiniteSet(Left(a))
        /\ Cardinality(Left(a)) \in Nat
    BY <2>1, FewerPending DEF Left, RoomForOne
  <2>6. /\ IsFiniteSet(PendingFor(d)')
        /\ Cardinality(PendingFor(d)') <= Cardinality(Left(a)) + 1
        /\ Cardinality(PendingFor(d)') \in Nat
    <3>1. /\ IsFiniteSet(Left(a) \cup {i})
          /\ Cardinality(Left(a) \cup {i}) =
               IF i \in Left(a) THEN Cardinality(Left(a)) ELSE Cardinality(Left(a)) + 1
      BY <2>5, FS_AddElement
    <3>2. Cardinality(Left(a) \cup {i}) \in Nat
          /\ Cardinality(Left(a) \cup {i}) <= Cardinality(Left(a)) + 1
      BY <2>5, <3>1
    <3>3. QED
      BY <2>3, <3>1, <3>2
  <2>7. \A e \in Emails : IsFiniteSet(PendingFor(e)')
    BY <2>4, <2>6, FewerPending DEF RoomForOne
  <2>8. overlapped' = overlapped /\ revived' = revived /\ pc'[a] = "idle"
    BY <1>3 DEF InsertLink, Done
  <2>9. ASSUME ~overlapped, NEW e \in Emails PROVE Cardinality(PendingFor(e)') <= 1 + revived[e]
    <3>1. CASE e = d
      <4>1. Cardinality(Left(a)) <= revived[e] /\ revived[e] \in Nat
        BY <2>1, <2>9, <3>1 DEF RoomForOne
      <4>2. QED
        BY <2>5, <2>6, <3>1, <4>1
    <3>2. CASE e # d
      <4>1. /\ Cardinality(PendingFor(e)') <= Cardinality(PendingFor(e))
            /\ Cardinality(PendingFor(e)') \in Nat /\ Cardinality(PendingFor(e)) \in Nat
        BY <2>4, <3>2, FewerPending DEF RoomForOne
      <4>2. Cardinality(PendingFor(e)) <= 1 + revived[e] /\ revived[e] \in Nat
        BY <2>9 DEF OnePendingInvite
      <4>3. QED
        BY <4>1, <4>2
    <3>3. QED
      BY <3>1, <3>2
  <2>10. ASSUME ~overlapped, NEW b \in Api PROVE pc'[b] # "insert"
    <3>1. pc[b] # "idle" => b = a
      BY <2>1, <2>10 DEF OneBusy
    <3>2. QED
      BY <1>3, <3>1 DEF InsertLink, Done
  <2>11. QED
    BY <2>7, <2>8, <2>9, <2>10 DEF RoomForOne, OnePendingInvite
<1>4. ASSUME NEW a \in Api, NEW i \in Invites, AcceptRead(a, i)
      PROVE  RoomForOne' /\ OnePendingInvite'
  BY <1>4, RoomStays DEF AcceptRead, Begin, PendingFor
<1>5. ASSUME NEW a \in Api, InsertFails(a) PROVE RoomForOne' /\ OnePendingInvite'
  BY <1>5, RoomStays DEF InsertFails, Done, PendingFor
<1>6. ASSUME NEW a \in Api, AcceptWrite(a) PROVE RoomForOne' /\ OnePendingInvite'
  BY <1>6, RoomStays DEF AcceptWrite, Done, PendingFor
<1>7. ASSUME NEW i \in Invites, Expire(i) PROVE RoomForOne' /\ OnePendingInvite'
  BY <1>7, RoomStays DEF Expire, PendingFor
<1>8. CASE UNCHANGED vars
  BY <1>8, RoomStays DEF vars, PendingFor
<1>9. QED
  BY <1>1, <1>2, <1>3, <1>4, <1>5, <1>6, <1>7, <1>8 DEF Next

\* A step that lets nobody read or accept a link, nor takes one back, keeps the
\* count of those that have.
LEMMA AcceptsStay ==
  ASSUME IInv, UNCHANGED accepted,
         \A i \in Invites : link'[i] \in {"absent", "pending"} => link[i] \in {"absent", "pending"},
         \A a \in Api : pc'[a] = "accept" => pc[a] = "accept" /\ taken'[a] = taken[a]
  PROVE  Accepts'
<1> SUFFICES ASSUME NEW i \in Invites
             PROVE  accepted[i] + Cardinality(Readers(i)') <= Cardinality(Api)
  BY DEF IInv, Accepts
<1>1. Readers(i)' \in SUBSET Readers(i) /\ Readers(i) \in SUBSET Api
  BY DEF Readers
<1>2. accepted[i] \in Nat /\ accepted[i] + Cardinality(Readers(i)) <= Cardinality(Api)
  BY DEF IInv, TypeOK, Accepts
<1>3. QED
  BY <1>1, <1>2, ReadersAreFew

\* A link is read when it is pending and nobody has accepted it, and one that is
\* accepted is so by one of its readers.
LEMMA AcceptsKept == IInv /\ [Next]_vars => Accepts'
<1> SUFFICES ASSUME IInv, [Next]_vars PROVE Accepts'
  OBVIOUS
<1>0. TypeOK /\ Addressed /\ Accepts
  BY DEF IInv
<1>1. ASSUME NEW a \in Api, \/ \E e \in Emails : CreateInvite(a, e)
                           \/ \E i \in Invites : ResendInvite(a, i)
      PROVE  Accepts'
  BY <1>0, <1>1, AcceptsStay DEF TypeOK, CreateInvite, ResendInvite, Begin
<1>2. ASSUME NEW a \in Api, NEW i \in Invites, InsertLink(a, i) PROVE Accepts'
  BY <1>0, <1>2, AcceptsStay DEF TypeOK, InsertLink, Done
<1>3. ASSUME NEW a \in Api, InsertFails(a) PROVE Accepts'
  BY <1>0, <1>3, AcceptsStay DEF TypeOK, InsertFails, Done
<1>4. ASSUME NEW a \in Api, NEW i \in Invites, AcceptRead(a, i) PROVE Accepts'
  <2> SUFFICES ASSUME NEW j \in Invites
               PROVE  accepted[j] + Cardinality(Readers(j)') <= Cardinality(Api)
    BY <1>0, <1>4 DEF Accepts, AcceptRead
  <2>1. Readers(j)' \in SUBSET Api /\ Readers(j) \in SUBSET Api
    BY DEF Readers
  <2>2. CASE j = i
    <3>1. accepted[j] = 0
      BY <1>0, <1>4, <2>2 DEF Accepts, AcceptRead
    <3>2. QED
      BY <2>1, <3>1, ReadersAreFew
  <2>3. CASE j # i
    <3>1. Readers(j)' \in SUBSET Readers(j)
      BY <1>0, <1>4, <2>3 DEF TypeOK, AcceptRead, Begin, Readers
    <3>2. accepted[j] \in Nat /\ accepted[j] + Cardinality(Readers(j)) <= Cardinality(Api)
      BY <1>0 DEF TypeOK, Accepts
    <3>3. QED
      BY <2>1, <3>1, <3>2, ReadersAreFew
  <2>4. QED
    BY <2>2, <2>3
<1>5. ASSUME NEW a \in Api, AcceptWrite(a) PROVE Accepts'
  <2> SUFFICES ASSUME NEW j \in Invites
               PROVE  /\ link'[j] \in {"absent", "pending"} => accepted'[j] = 0
                      /\ accepted'[j] + Cardinality(Readers(j)') <= Cardinality(Api)
    BY DEF Accepts
  <2>1. /\ pc[a] = "accept" /\ pc' = [pc EXCEPT ![a] = "idle"]
        /\ taken' = [taken EXCEPT ![a] = {}]
        /\ link'[j] = IF j \in taken[a] THEN "accepted" ELSE link[j]
        /\ accepted'[j] = IF j \in taken[a] THEN accepted[j] + 1 ELSE accepted[j]
    BY <1>5 DEF AcceptWrite, Done
  <2>2. accepted[j] \in Nat /\ accepted[j] + Cardinality(Readers(j)) <= Cardinality(Api)
    BY <1>0 DEF TypeOK, Accepts
  <2>3. Readers(j) \in SUBSET Api
    BY DEF Readers
  <2>4. link'[j] \in {"absent", "pending"} => accepted'[j] = 0
    BY <1>0, <2>1 DEF Accepts
  <2>5. CASE j \in taken[a]
    <3>1. a \in Readers(j) /\ Readers(j)' = Readers(j) \ {a}
      BY <1>0, <2>1, <2>5 DEF TypeOK, Readers
    <3>2. Cardinality(Readers(j)') = Cardinality(Readers(j)) - 1
      BY <2>3, <3>1, ReadersAreFew, FS_RemoveElement
    <3>3. QED
      BY <2>1, <2>2, <2>3, <2>4, <2>5, <3>2, ReadersAreFew
  <2>6. CASE j \notin taken[a]
    <3>1. Readers(j)' \in SUBSET Readers(j)
      BY <1>0, <2>1 DEF TypeOK, Readers
    <3>2. QED
      BY <2>1, <2>2, <2>3, <2>4, <2>6, <3>1, ReadersAreFew
  <2>7. QED
    BY <2>5, <2>6
<1>6. ASSUME NEW i \in Invites, Expire(i) PROVE Accepts'
  BY <1>6, AcceptsStay DEF Expire
<1>7. CASE UNCHANGED vars
  BY <1>7, AcceptsStay DEF vars
<1>8. QED
  BY <1>1, <1>2, <1>3, <1>4, <1>5, <1>6, <1>7 DEF Next

\* Every step keeps the invariant.
LEMMA InvitesInductive == IInv /\ [Next]_vars => IInv'
BY InvitesTypes, Alone, RoomKept, AcceptsKept DEF IInv

\* Every variable keeps its type, and a link has an address.
THEOREM InvitesTypeCorrect == Spec => []TypeOK
<1>1. IInv => TypeOK
  BY DEF IInv
<1>2. QED
  BY <1>1, InvitesStart, InvitesInductive, PTL DEF Spec

\* An email has one pending link, and one more for each resend of a link that
\* was not pending, while requests do not overlap.
THEOREM OnePending == Spec => []OnePendingInvite
<1>1. IInv => OnePendingInvite
  BY DEF IInv
<1>2. QED
  BY <1>1, InvitesStart, InvitesInductive, PTL DEF Spec

\* A link is accepted again only where requests overlapped, and no more often
\* than there are processes.
THEOREM LinksAreSpent == Spec => LinkIsSpent
<1>1. ASSUME IInv, IInv', [Next]_vars
      PROVE  [\A i \in Invites :
                accepted'[i] # accepted[i] =>
                  /\ link[i] \in {"accepted", "invalidated"} => overlapped'
                  /\ accepted'[i] <= Cardinality(Api)]_vars
  <2> SUFFICES ASSUME Next, NEW i \in Invites, accepted'[i] # accepted[i]
               PROVE  /\ link[i] \in {"accepted", "invalidated"} => overlapped'
                      /\ accepted'[i] <= Cardinality(Api)
    BY <1>1 DEF vars
  <2>1. ASSUME NEW a \in Api, AcceptWrite(a), link[i] \in {"accepted", "invalidated"} PROVE overlapped'
    <3>1. overlapped' = overlapped /\ pc[a] = "accept" /\ i \in taken[a]
      BY <2>1 DEF AcceptWrite, Done
    <3>2. QED
      BY <1>1, <2>1, <3>1 DEF IInv, AcceptsPending
  <2>2. \E a \in Api : AcceptWrite(a)
    BY DEF Next, CreateInvite, ResendInvite, InsertLink, InsertFails, AcceptRead, Expire
  <2>3. accepted'[i] <= Cardinality(Api)
    <3>1. accepted'[i] \in Nat /\ accepted'[i] + Cardinality(Readers(i)') <= Cardinality(Api)
      BY <1>1 DEF IInv, TypeOK, Accepts
    <3>2. Readers(i)' \in SUBSET Api
      BY DEF Readers
    <3>3. QED
      BY <3>1, <3>2, ReadersAreFew
  <2>4. QED
    BY <2>1, <2>2, <2>3
<1>2. QED
  BY <1>1, InvitesStart, InvitesInductive, PTL DEF Spec, LinkIsSpent

=============================================================================
