--------------------------- MODULE Refresh_proofs ---------------------------
(***************************************************************************)
(* Proofs about EventBus and Refresh, for any clients, pages and workers   *)
(* and any bounds: what a stream has of the events of its organization,    *)
(* and that the figures of the pages stay in order.                        *)
(***************************************************************************)
EXTENDS Refresh, TLAPS

-----------------------------------------------------------------------------
(***************************************************************************)
(* Sequences of numbers.                                                   *)
(***************************************************************************)

LEMMA HeadMoves ==
  ASSUME NEW s \in Seq(Nat), NEW t \in Seq(Nat), t # <<>>
  PROVE  /\ Append(s, Head(t)) \o Tail(t) = s \o t
         /\ Append(s, Head(t)) \in Seq(Nat) /\ Tail(t) \in Seq(Nat)
         /\ Len(Tail(t)) <= Len(t)
OBVIOUS

LEMMA AppendKeepsOrder ==
  ASSUME NEW s \in Seq(Nat), InOrder(s), NEW n \in Nat, \A i \in 1 .. Len(s) : s[i] < n
  PROVE  InOrder(Append(s, n)) /\ \A i \in 1 .. Len(Append(s, n)) : Append(s, n)[i] <= n
BY DEF InOrder

LEMMA AppendToSecond ==
  ASSUME NEW s \in Seq(Nat), NEW t \in Seq(Nat), NEW n \in Nat
  PROVE  s \o Append(t, n) = Append(s \o t, n)
OBVIOUS

LEMMA Joined ==
  ASSUME NEW s \in Seq(Nat), NEW t \in Seq(Nat)
  PROVE  s \o t \in Seq(Nat)
OBVIOUS

LEMMA ItemsOf ==
  ASSUME NEW s \in Seq(Nat), NEW i \in 1 .. Len(s)
  PROVE  s[i] \in Nat
OBVIOUS

LEMMA AppendElements ==
  ASSUME NEW s \in Seq(Nat), NEW n \in Nat
  PROVE  Elements(Append(s, n)) = Elements(s) \cup {n}
<1> DEFINE t == Append(s, n)
<1>1. /\ Len(t) = Len(s) + 1 /\ t[Len(s) + 1] = n
      /\ \A i \in 1 .. Len(s) : t[i] = s[i]
      /\ Len(s) \in Nat
  OBVIOUS
<1> HIDE DEF t
<1>2. \A i \in 1 .. Len(t) : i \in 1 .. Len(s) \/ i = Len(s) + 1
  BY <1>1
<1>3. \A i \in 1 .. Len(s) : i \in 1 .. Len(t)
  BY <1>1
<1>4. Len(s) + 1 \in 1 .. Len(t)
  BY <1>1
<1>5. Elements(t) = Elements(s) \cup {n}
  BY <1>1, <1>2, <1>3, <1>4 DEF Elements
<1>6. QED
  BY <1>5 DEF t

LEMMA HeadElement ==
  ASSUME NEW t \in Seq(Nat), t # <<>>
  PROVE  Head(t) \in Nat /\ Elements(t) = {Head(t)} \cup Elements(Tail(t))
BY DEF Elements

-----------------------------------------------------------------------------
(***************************************************************************)
(* The bus.                                                                *)
(***************************************************************************)

\* The events of a client, those it was sent and those that wait.
Line(c) == received[c] \o inbox[c]

\* The events of its organization published where it listens.
AtSource(c) == published[<<StreamSource, OrgOf[c]>>]

\* A client's events are in order and none is from the future; a stream that
\* has not subscribed has none; one that has accounts for all of them.
Streamed(c) ==
  /\ InOrder(Line(c))
  /\ \A i \in 1 .. Len(Line(c)) : Line(c)[i] <= AtSource(c)
  /\ since[c] <= AtSource(c)
  /\ stream[c] = "none" => ~subscribed[c] /\ received[c] = <<>> /\ inbox[c] = <<>> /\ missed[c] = {}
  /\ subscribed[c] =>
       Elements(received[c]) \cup Elements(inbox[c]) \cup missed[c] = (since[c] + 1) .. AtSource(c)

BusInv == BusTypeOK /\ \A c \in Clients : Streamed(c)

LEMMA SourceTypes ==
  ASSUME BusTypeOK, NEW c \in Clients
  PROVE  AtSource(c) \in Nat /\ <<StreamSource, OrgOf[c]>> \in (Processes \X Keys) \X Orgs
BY BusConstants DEF BusTypeOK, AtSource, StreamSource, Processes, Keys

LEMMA BusStart == BusInit => BusInv
<1> SUFFICES ASSUME BusInit PROVE BusInv
  OBVIOUS
<1>1. BusTypeOK
  BY BusConstants DEF BusInit, BusTypeOK
<1>2. ASSUME NEW c \in Clients PROVE Streamed(c)
  <2>1. /\ received[c] = <<>> /\ inbox[c] = <<>> /\ missed[c] = {} /\ ~subscribed[c]
        /\ since[c] = 0
    BY DEF BusInit
  <2>2. Line(c) = <<>>
    BY <2>1 DEF Line
  <2>3. AtSource(c) \in Nat
    BY <1>1, SourceTypes
  <2>4. AtSource(c) = 0
    BY SourceTypes, <1>1 DEF BusInit, AtSource
  <2>5. QED
    BY <2>1, <2>2, <2>3, <2>4 DEF Streamed, InOrder, Elements
<1>3. QED
  BY <1>1, <1>2 DEF BusInv

\* An event goes to the end of every queue of its key that has room, and leaves
\* every other stream as it is.
LEMMA PublishKeeps ==
  ASSUME BusInv, NEW src \in Processes \X Keys, NEW o \in Orgs, Publish(src, o)
  PROVE  BusInv'
<1> DEFINE n == published[<<src, o>>] + 1
           full(c) == ~(Len(inbox[c]) < QueueSize)
<1>1. /\ published' = [published EXCEPT ![<<src, o>>] = n]
      /\ inbox' = [c \in Clients |->
           IF c \in Subscribers(src, o) /\ ~full(c) THEN Append(inbox[c], n) ELSE inbox[c]]
      /\ missed' = [c \in Clients |->
           IF c \in Subscribers(src, o) /\ full(c) THEN missed[c] \cup {n} ELSE missed[c]]
      /\ UNCHANGED <<stream, present, subscribed, received, since>>
  BY DEF Publish
<1>2. n \in Nat
  BY DEF BusInv, BusTypeOK
<1> HIDE DEF n
<1>3. inbox' \in [Clients -> Seq(Nat)] /\ \A c \in Clients : Len(inbox'[c]) <= QueueSize
  <2>1. \A c \in Clients : inbox[c] \in Seq(Nat) /\ Len(inbox[c]) <= QueueSize
    BY DEF BusInv, BusTypeOK
  <2>2. ASSUME NEW c \in Clients
        PROVE  inbox'[c] \in Seq(Nat) /\ Len(inbox'[c]) <= QueueSize
    BY <1>1, <1>2, <2>1, BusConstants
  <2>3. QED
    BY <1>1, <2>2
<1>4. missed' \in [Clients -> SUBSET Nat] /\ published' \in [(Processes \X Keys) \X Orgs -> Nat]
  BY <1>1, <1>2 DEF BusInv, BusTypeOK
<1>5. BusTypeOK'
  BY <1>1, <1>3, <1>4 DEF BusInv, BusTypeOK
<1>6. ASSUME NEW c \in Clients PROVE Streamed(c)'
  <2>1. /\ received[c] \in Seq(Nat) /\ inbox[c] \in Seq(Nat) /\ since[c] \in Nat
        /\ AtSource(c) \in Nat /\ Streamed(c)
        /\ since[c] <= AtSource(c)
    BY SourceTypes DEF BusInv, BusTypeOK, Streamed
  <2>2. Line(c) \in Seq(Nat) /\ \A i \in 1 .. Len(Line(c)) : Line(c)[i] \in Nat
    BY <2>1, Joined, ItemsOf DEF Line
  <2>3. AtSource(c)' = IF <<StreamSource, OrgOf[c]>> = <<src, o>> THEN n ELSE AtSource(c)
    BY <1>1, SourceTypes DEF AtSource, BusInv, BusTypeOK
  <2>4. <<StreamSource, OrgOf[c]>> = <<src, o>> => n = AtSource(c) + 1
    BY DEF n, AtSource
  <2>5. CASE c \in Subscribers(src, o) /\ ~full(c)
    <3>1. /\ <<StreamSource, OrgOf[c]>> = <<src, o>> /\ subscribed[c]
          /\ n = AtSource(c) + 1 /\ AtSource(c)' = n
      BY <2>3, <2>4, <2>5 DEF Subscribers
    <3>2. inbox'[c] = Append(inbox[c], n) /\ missed'[c] = missed[c]
      BY <1>1, <2>5
    <3>3. Line(c)' = Append(Line(c), n)
      <4>1. Line(c)' = received[c] \o Append(inbox[c], n)
        BY <1>1, <3>2 DEF Line
      <4>2. QED
        BY <1>2, <2>1, <4>1, AppendToSecond DEF Line
    <3>4. \A i \in 1 .. Len(Line(c)) : Line(c)[i] < n
      BY <2>1, <2>2, <3>1 DEF Streamed
    <3>5. InOrder(Line(c)') /\ \A i \in 1 .. Len(Line(c)') : Line(c)'[i] <= n
      BY <1>2, <2>1, <2>2, <3>3, <3>4, AppendKeepsOrder DEF Streamed
    <3>6. Elements(inbox'[c]) = Elements(inbox[c]) \cup {n}
      BY <1>2, <2>1, <3>2, AppendElements
    <3>7. (since[c] + 1) .. n = ((since[c] + 1) .. AtSource(c)) \cup {n}
      BY <2>1, <3>1
    <3>8. Elements(received[c]) \cup Elements(inbox'[c]) \cup missed[c] = (since[c] + 1) .. n
      BY <2>1, <3>1, <3>6, <3>7 DEF Streamed
    <3>9. stream[c] # "none"
      BY <2>1, <3>1 DEF Streamed
    <3>10. since[c] <= n
      BY <2>1, <3>1
    <3>11. QED
      BY <1>1, <3>1, <3>2, <3>5, <3>8, <3>9, <3>10 DEF Streamed, InOrder
  <2>6. CASE c \in Subscribers(src, o) /\ full(c)
    <3>1. /\ <<StreamSource, OrgOf[c]>> = <<src, o>> /\ subscribed[c]
          /\ n = AtSource(c) + 1 /\ AtSource(c)' = n
      BY <2>3, <2>4, <2>6 DEF Subscribers
    <3>2. inbox'[c] = inbox[c] /\ missed'[c] = missed[c] \cup {n} /\ Line(c)' = Line(c)
      BY <1>1, <2>6 DEF Line
    <3>3. \A i \in 1 .. Len(Line(c)) : Line(c)[i] <= n
      BY <2>1, <2>2, <3>1 DEF Streamed
    <3>4. (since[c] + 1) .. n = ((since[c] + 1) .. AtSource(c)) \cup {n}
      BY <2>1, <3>1
    <3>5. Elements(received[c]) \cup Elements(inbox[c]) \cup missed'[c] = (since[c] + 1) .. n
      BY <2>1, <3>1, <3>2, <3>4 DEF Streamed
    <3>6. stream[c] # "none"
      BY <2>1, <3>1 DEF Streamed
    <3>7. QED
      BY <1>1, <2>1, <3>1, <3>2, <3>3, <3>5, <3>6 DEF Streamed
  <2>7. CASE c \notin Subscribers(src, o)
    <3>1. inbox'[c] = inbox[c] /\ missed'[c] = missed[c] /\ Line(c)' = Line(c)
      BY <1>1, <2>7 DEF Line
    <3>2. AtSource(c)' >= AtSource(c) /\ AtSource(c)' \in Nat
      BY <1>2, <2>1, <2>3, <2>4
    <3>3. subscribed[c] => AtSource(c)' = AtSource(c)
      BY <2>3, <2>7 DEF Subscribers
    <3>4. \A i \in 1 .. Len(Line(c)) : Line(c)[i] <= AtSource(c)'
      BY <2>1, <2>2, <3>2 DEF Streamed
    <3>5. since[c] <= AtSource(c)'
      BY <2>1, <3>2
    <3>6. QED
      BY <1>1, <2>1, <3>1, <3>3, <3>4, <3>5 DEF Streamed
  <2>8. QED
    BY <2>5, <2>6, <2>7
<1>7. QED
  BY <1>5, <1>6 DEF BusInv

\* A stream subscribes with nothing in its hands.
LEMMA SubscribeKeeps ==
  ASSUME BusInv, NEW c \in Clients, Subscribe(c)
  PROVE  BusInv'
<1>1. /\ UNCHANGED <<present, inbox, received, missed, published>>
      /\ stream[c] = "none" /\ stream' = [stream EXCEPT ![c] = "subscribed"]
      /\ subscribed' = [subscribed EXCEPT ![c] = TRUE]
      /\ since' = [since EXCEPT ![c] = AtSource(c)]
  BY DEF Subscribe, AtSource
<1>2. AtSource(c) \in Nat
  BY SourceTypes DEF BusInv
<1>3. BusTypeOK'
  BY <1>1, <1>2 DEF BusInv, BusTypeOK
<1>4. \A d \in Clients : Line(d)' = Line(d) /\ AtSource(d)' = AtSource(d)
  BY <1>1 DEF Line, AtSource
<1>5. ASSUME NEW d \in Clients, d # c PROVE Streamed(d)'
  BY <1>1, <1>4, <1>5 DEF BusInv, BusTypeOK, Streamed
<1>6. Streamed(c)'
  <2>1. received[c] = <<>> /\ inbox[c] = <<>> /\ missed[c] = {}
    BY <1>1 DEF BusInv, Streamed
  <2>2. Elements(<<>>) = {} /\ (AtSource(c) + 1) .. AtSource(c) = {}
    BY <1>2 DEF Elements
  <2>3. stream'[c] = "subscribed" /\ since'[c] = AtSource(c)
    BY <1>1 DEF BusInv, BusTypeOK
  <2>4. QED
    BY <1>1, <1>2, <1>4, <2>1, <2>2, <2>3 DEF BusInv, Streamed
<1>7. QED
  BY <1>3, <1>5, <1>6 DEF BusInv

\* An event leaves the queue for the client.
LEMMA YieldKeeps ==
  ASSUME BusInv, NEW c \in Clients, Yield(c), inbox[c] # <<>>,
         inbox' = [inbox EXCEPT ![c] = Tail(@)],
         received' = [received EXCEPT ![c] = Append(@, Head(inbox[c]))]
  PROVE  BusInv'
<1>1. /\ UNCHANGED <<present, subscribed, missed, since, published>>
      /\ stream[c] = "wait" /\ stream' = [stream EXCEPT ![c] = "check"]
  BY DEF Yield
<1>2. received[c] \in Seq(Nat) /\ inbox[c] \in Seq(Nat) /\ Len(inbox[c]) <= QueueSize
  BY DEF BusInv, BusTypeOK
<1>3. /\ inbox'[c] = Tail(inbox[c]) /\ received'[c] = Append(received[c], Head(inbox[c]))
      /\ \A d \in Clients : d # c => inbox'[d] = inbox[d] /\ received'[d] = received[d]
  BY DEF BusInv, BusTypeOK
<1>4. /\ inbox'[c] \in Seq(Nat) /\ received'[c] \in Seq(Nat)
      /\ Len(inbox'[c]) <= Len(inbox[c])
      /\ Line(c)' = Line(c)
  BY <1>2, <1>3, HeadMoves DEF Line
<1>5. BusTypeOK'
  <2>1. inbox' \in [Clients -> Seq(Nat)] /\ received' \in [Clients -> Seq(Nat)]
    BY <1>3, <1>4 DEF BusInv, BusTypeOK
  <2>2. \A d \in Clients : Len(inbox'[d]) <= QueueSize
    <3>1. Len(inbox'[c]) <= QueueSize
      BY <1>2, <1>4, BusConstants
    <3>2. QED
      BY <1>3, <3>1 DEF BusInv, BusTypeOK
  <2>3. stream' \in [Clients -> {"none", "subscribed", "check", "wait", "closed", "dropped"}]
    BY <1>1 DEF BusInv, BusTypeOK
  <2>4. QED
    BY <1>1, <2>1, <2>2, <2>3 DEF BusInv, BusTypeOK
<1>6. \A d \in Clients : AtSource(d)' = AtSource(d)
  BY <1>1 DEF AtSource
<1>7. ASSUME NEW d \in Clients, d # c PROVE Streamed(d)'
  <2>1. Line(d)' = Line(d) /\ stream'[d] = stream[d]
    BY <1>1, <1>3, <1>7 DEF Line, BusInv, BusTypeOK
  <2>2. QED
    BY <1>1, <1>3, <1>6, <1>7, <2>1 DEF BusInv, Streamed
<1>8. Streamed(c)'
  <2>1. Elements(received'[c]) \cup Elements(inbox'[c]) = Elements(received[c]) \cup Elements(inbox[c])
    BY <1>2, <1>3, HeadElement, AppendElements
  <2>2. stream'[c] = "check"
    BY <1>1 DEF BusInv, BusTypeOK
  <2>3. QED
    BY <1>1, <1>4, <1>6, <2>1, <2>2 DEF BusInv, Streamed
<1>9. QED
  BY <1>5, <1>7, <1>8 DEF BusInv

\* The other steps of a stream, and of its client, touch no event.
LEMMA StreamMovesOn ==
  ASSUME BusInv, NEW c \in Clients,
         \/ Hello(c) \/ NeverBegun(c) \/ Check(c) \/ Close(c) \/ Leave(c)
         \/ Yield(c) /\ UNCHANGED <<inbox, received>>
  PROVE  BusInv'
<1>1. /\ UNCHANGED <<inbox, received, missed, since, published>>
      /\ stream' \in [Clients -> {"none", "subscribed", "check", "wait", "closed", "dropped"}]
      /\ \A d \in Clients : stream'[d] = "none" => stream[d] = "none"
  BY DEF Hello, NeverBegun, Check, Close, Leave, Yield, BusInv, BusTypeOK
<1>2. /\ present' \in [Clients -> BOOLEAN] /\ subscribed' \in [Clients -> BOOLEAN]
      /\ \A d \in Clients : subscribed'[d] => subscribed[d]
  BY DEF Hello, NeverBegun, Check, Close, Leave, Yield, BusInv, BusTypeOK
<1>3. BusTypeOK'
  BY <1>1, <1>2 DEF BusInv, BusTypeOK
<1>4. ASSUME NEW d \in Clients PROVE Streamed(d)'
  <2>1. Line(d)' = Line(d) /\ AtSource(d)' = AtSource(d)
    BY <1>1 DEF Line, AtSource
  <2>2. QED
    BY <1>1, <1>2, <2>1 DEF BusInv, Streamed
<1>5. QED
  BY <1>3, <1>4 DEF BusInv

LEMMA BusStep == BusInv /\ [BusNext]_busVars => BusInv'
<1> SUFFICES ASSUME BusInv, [BusNext]_busVars PROVE BusInv'
  OBVIOUS
<1>1. ASSUME NEW o \in Orgs, PublishHere(o) PROVE BusInv'
  BY <1>1, PublishKeeps DEF PublishHere, StreamSource, Processes, Keys
<1>2. ASSUME NEW c \in Clients, Subscribe(c) PROVE BusInv'
  BY <1>2, SubscribeKeeps
<1>3. ASSUME NEW c \in Clients, Leave(c) \/ NeverBegun(c) \/ Serve(c) PROVE BusInv'
  <2>1. CASE Yield(c)
    BY <2>1, YieldKeeps, StreamMovesOn DEF Yield
  <2>2. CASE ~Yield(c)
    BY <1>3, <2>2, StreamMovesOn DEF Serve
  <2>3. QED
    BY <2>1, <2>2
<1>4. CASE UNCHANGED busVars
  BY <1>4 DEF busVars, streams, BusInv, BusTypeOK, Streamed, Line, AtSource
<1>5. QED
  BY <1>1, <1>2, <1>3, <1>4 DEF BusNext

LEMMA BusGivesEvents == BusInv => EventsAccountedFor
BY DEF BusInv, Streamed, Line, AtSource, EventsAccountedFor

\* A stream gets all events of its source, in order and once, or they found its
\* queue full: for the bus alone, and for the bus the refreshes publish on.
THEOREM StreamsMissNothingElse == BusSpec => []EventsAccountedFor
<1>1. QED
  BY BusStart, BusStep, BusGivesEvents, PTL DEF BusSpec

-----------------------------------------------------------------------------
(***************************************************************************)
(* The refreshes.                                                          *)
(***************************************************************************)

\* A day is the ticks between its first one and that of the next day.
LEMMA DayBounds ==
  ASSUME NEW t \in Nat
  PROVE  /\ DayOf(t) \in Nat
         /\ TicksPerDay * DayOf(t) <= t /\ t <= TicksPerDay * (DayOf(t) + 1) - 1
         /\ TicksPerDay * (DayOf(t) + 1) \in Nat
BY RefreshConstants DEF DayOf

LEMMA LaterIsNoEarlierDay ==
  ASSUME NEW t \in Nat, NEW u \in Nat, t <= u
  PROVE  DayOf(t) <= DayOf(u)
BY RefreshConstants DEF DayOf

LEMMA Multiples ==
  ASSUME NEW k \in Nat, NEW a \in Nat, NEW b \in Nat, a <= b
  PROVE  k * a \in Nat /\ k * b \in Nat /\ k * a <= k * b /\ k * (a + 1) = k * a + k
OBVIOUS

LEMMA EndOfDay ==
  ASSUME NEW t \in Nat, NEW d \in Nat, d < DayOf(t)
  PROVE  LET e == TicksPerDay * (d + 1) - 1 IN e \in Nat /\ e <= t /\ DayOf(e) = d
<1> DEFINE k == TicksPerDay
           e == k * (d + 1) - 1
<1>1. k \in Nat \ {0} /\ d + 1 \in Nat /\ d + 1 <= DayOf(t) /\ DayOf(t) \in Nat
  BY RefreshConstants, DayBounds
<1>2. k * (d + 1) <= k * DayOf(t) /\ k * DayOf(t) \in Nat /\ k * DayOf(t) <= t
  BY <1>1, Multiples, DayBounds
<1>3. k * (d + 1) = k * d + k /\ k * d \in Nat
  BY <1>1, Multiples
<1> HIDE DEF k
<1>4. e \in Nat /\ k * d <= e /\ e < k * (d + 1) /\ e <= t
  BY <1>1, <1>2, <1>3
<1> HIDE DEF e
<1>5. DayOf(e) = d
  BY <1>1, <1>4 DEF DayOf, k
<1>6. QED
  BY <1>4, <1>5 DEF e, k

\* A worker with a refresh that may still be stored.
Storing(w, m) == job[w] = m /\ work[w] \in {"ask", "store"}

\* No worker's day is ahead; figures to be stored, and stored ones, are of
\* their day and not from the future.
Dated ==
  /\ \A w \in Workers : work[w] \in {"ask", "store"} => day[w] <= DayOf(time)
  /\ \A w \in Workers : work[w] = "store" => DayOf(figure[w]) = day[w] /\ figure[w] <= time
  /\ \A m \in Messages, d \in Days :
       rows[m][d] <= time /\ (rows[m][d] # None => DayOf(rows[m][d]) = d)

\* Unless they crowded, one worker at most is at a refresh, and the figures it
\* has are no older than those of the row.
TakenInTurn ==
  \A m \in Messages : ~crowded[m] =>
    /\ \A v, w \in Workers : Storing(v, m) /\ Storing(w, m) => v = w
    /\ \A w \in Workers : Storing(w, m) /\ work[w] = "store" => rows[m][day[w]] <= figure[w]

RefreshInv == TypeOK /\ BusInv /\ Dated /\ TakenInTurn

LEMMA RefreshStart == Init => RefreshInv
<1> SUFFICES ASSUME Init PROVE RefreshInv
  OBVIOUS
<1>1. BusInv
  BY BusStart DEF Init
<1>2. 0 \in Days /\ 0 \in 0 .. MaxTime /\ 0 \in 0 .. MaxFaults
  BY RefreshConstants, DayBounds DEF Days
<1>3. TypeOK
  BY <1>1, <1>2 DEF Init, TypeOK, BusInv, None
<1>4. Dated
  BY DEF Init, Dated, None
<1>5. TakenInTurn
  BY DEF Init, TakenInTurn, Storing
<1>6. QED
  BY <1>1, <1>3, <1>4, <1>5 DEF RefreshInv

LEMMA TimeTypes ==
  ASSUME TypeOK
  PROVE  /\ time \in Nat /\ DayOf(time) \in Days
         /\ \A w \in Workers : day[w] \in Nat /\ figure[w] \in Nat
         /\ \A m \in Messages, d \in Days : rows[m][d] \in Nat
<1>1. time \in Nat /\ MaxTime \in Nat /\ time <= MaxTime
  BY RefreshConstants DEF TypeOK
<1>2. DayOf(time) \in Nat /\ DayOf(MaxTime) \in Nat /\ DayOf(time) <= DayOf(MaxTime)
  BY <1>1, DayBounds, LaterIsNoEarlierDay
<1>3. DayOf(time) \in Days /\ \A d \in Days : d \in Nat
  BY <1>2 DEF Days
<1>4. ASSUME NEW w \in Workers PROVE day[w] \in Nat /\ figure[w] \in Nat
  <2>1. day[w] \in Days /\ figure[w] \in 0 .. MaxTime
    BY DEF TypeOK
  <2>2. QED
    BY <1>1, <1>3, <2>1
<1>5. ASSUME NEW m \in Messages, NEW d \in Days PROVE rows[m][d] \in Nat
  <2>1. rows[m][d] \in 0 .. MaxTime
    BY DEF TypeOK
  <2>2. QED
    BY <1>1, <2>1
<1>6. QED
  BY <1>1, <1>3, <1>4, <1>5

\* Time passes, and pages are due.
LEMMA BeatKeeps ==
  ASSUME RefreshInv, Beat
  PROVE  RefreshInv'
<1> USE DEF RefreshInv
<1>1. /\ UNCHANGED <<busVars, work, job, day, figure, rows, faults, crowded>>
      /\ time < MaxTime /\ time' = time + 1
  BY DEF Beat
<1>2. queue' \in [Messages -> Nat]
  BY DEF Beat, TypeOK
<1>3. BusInv'
  BY <1>1, BusStep
<1>4. time \in Nat /\ time' \in 0 .. MaxTime
  BY <1>1, RefreshConstants DEF TypeOK
<1>5. TypeOK'
  BY <1>1, <1>2, <1>3, <1>4 DEF TypeOK, BusInv
<1>6. Dated'
  <2>1. DayOf(time) <= DayOf(time') /\ DayOf(time) \in Nat /\ DayOf(time') \in Nat
    BY <1>1, <1>4, LaterIsNoEarlierDay, DayBounds
  <2>2. QED
    BY <1>1, <1>4, <2>1, TimeTypes DEF Dated
<1>7. TakenInTurn'
  BY <1>1 DEF TakenInTurn, Storing
<1>8. QED
  BY <1>3, <1>5, <1>6, <1>7

\* A message is taken alone, or the refresh is crowded.
LEMMA TakeKeeps ==
  ASSUME RefreshInv, NEW w \in Workers, NEW m \in Messages, Take(w, m) \/ TakeUnconnected(w, m)
  PROVE  RefreshInv'
<1> USE DEF RefreshInv
<1>1. /\ UNCHANGED <<busVars, time, figure, rows, faults>>
      /\ work[w] = "idle" /\ queue[m] > 0
      /\ queue' = [queue EXCEPT ![m] = @ - 1]
      /\ job' = [job EXCEPT ![w] = m]
  BY DEF Take, TakeUnconnected
<1>2. /\ work' \in [Workers -> {"idle", "ask", "store", "emit"}]
      /\ day' \in [Workers -> Days]
      /\ work'[w] \in {"ask", "emit"} /\ (work'[w] = "ask" => day'[w] = DayOf(time))
      /\ \A v \in Workers : v # w => work'[v] = work[v] /\ day'[v] = day[v]
  <2>1. DayOf(time) \in Days
    BY TimeTypes
  <2>2. /\ work \in [Workers -> {"idle", "ask", "store", "emit"}]
        /\ day \in [Workers -> Days]
    BY DEF TypeOK
  <2>3. CASE Take(w, m)
    BY <2>1, <2>2, <2>3 DEF Take
  <2>4. CASE TakeUnconnected(w, m)
    BY <2>2, <2>4 DEF TakeUnconnected
  <2>5. QED
    BY <2>3, <2>4
<1>3. /\ crowded' \in [Messages -> BOOLEAN]
      /\ \A n \in Messages : crowded[n] => crowded'[n]
      /\ work'[w] = "ask" => crowded'[m] \/ \A v \in Workers : job[v] # m
  <2>1. CASE Take(w, m)
    <3>1. crowded' = [crowded EXCEPT ![m] = @ \/ \E v \in Workers : job[v] = m]
      BY <2>1 DEF Take
    <3>2. \A n \in Messages :
            crowded'[n] = IF n = m THEN crowded[m] \/ \E v \in Workers : job[v] = m ELSE crowded[n]
      BY <3>1, Zenon DEF TypeOK
    <3>3. crowded' \in [Messages -> BOOLEAN]
      BY <3>1 DEF TypeOK
    <3>4. QED
      BY <3>2, <3>3
  <2>2. CASE TakeUnconnected(w, m)
    BY <1>1, <2>2 DEF TakeUnconnected, TypeOK
  <2>3. QED
    BY <2>1, <2>2
<1>4. /\ queue' \in [Messages -> Nat]
      /\ job' \in [Workers -> Messages \cup {NoMessage}] /\ job'[w] = m
      /\ \A v \in Workers : v # w => job'[v] = job[v]
  BY <1>1 DEF TypeOK
<1>5. BusInv'
  BY <1>1, BusStep
<1>6. TypeOK'
  BY <1>1, <1>2, <1>3, <1>4, <1>5, RefreshConstants DEF TypeOK, BusInv
<1>7. Dated'
  BY <1>1, <1>2, TimeTypes DEF Dated, Days
<1>8. TakenInTurn'
  <2> SUFFICES ASSUME NEW n \in Messages, ~crowded'[n]
               PROVE  /\ \A u, v \in Workers : Storing(u, n)' /\ Storing(v, n)' => u = v
                      /\ \A v \in Workers : Storing(v, n)' /\ work'[v] = "store" =>
                           rows[n][day'[v]] <= figure[v]
    BY <1>1 DEF TakenInTurn
  <2>1. \A v \in Workers : v # w /\ Storing(v, n)' => Storing(v, n)
    BY <1>2, <1>4 DEF Storing
  <2>2. Storing(w, n)' => n = m /\ \A v \in Workers : ~Storing(v, n)
    BY <1>2, <1>3, <1>4 DEF Storing
  <2>3. QED
    BY <1>2, <1>3, <2>1, <2>2 DEF TakenInTurn
<1>9. QED
  BY <1>5, <1>6, <1>7, <1>8

\* The answer is of the day that was asked for, and no older than the row.
LEMMA AskKeeps ==
  ASSUME RefreshInv, NEW w \in Workers, Ask(w)
  PROVE  RefreshInv'
<1> USE DEF RefreshInv
<1> DEFINE f == IF DayOf(time) = day[w] THEN time ELSE TicksPerDay * (day[w] + 1) - 1
<1>1. /\ UNCHANGED <<busVars, time, queue, job, day, rows, faults, crowded>>
      /\ work[w] = "ask" /\ work' = [work EXCEPT ![w] = "store"]
      /\ figure' = [figure EXCEPT ![w] = f]
  BY DEF Ask
<1>2. day[w] <= DayOf(time) /\ day[w] \in Nat /\ time \in Nat /\ DayOf(time) \in Nat
  BY <1>1, TimeTypes, DayBounds DEF Dated
<1>3. f \in Nat /\ f <= time /\ DayOf(f) = day[w]
  BY <1>2, EndOfDay
<1>4. \A m \in Messages : rows[m][day[w]] <= f
  <2> SUFFICES ASSUME NEW m \in Messages PROVE rows[m][day[w]] <= f
    OBVIOUS
  <2>1. /\ day[w] \in Days /\ rows[m][day[w]] \in Nat /\ rows[m][day[w]] <= time
        /\ rows[m][day[w]] # 0 => DayOf(rows[m][day[w]]) = day[w]
    BY TimeTypes DEF Dated, None, TypeOK
  <2>2. CASE DayOf(time) = day[w]
    BY <2>1, <2>2
  <2>3. CASE DayOf(time) # day[w] /\ rows[m][day[w]] # 0
    BY <2>1, <2>3, DayBounds
  <2>4. QED
    BY <1>3, <2>1, <2>2, <2>3
<1> HIDE DEF f
<1>5. /\ work' \in [Workers -> {"idle", "ask", "store", "emit"}] /\ work'[w] = "store"
      /\ \A v \in Workers : v # w => work'[v] = work[v] /\ figure'[v] = figure[v]
      /\ figure'[w] = f
  BY <1>1 DEF TypeOK
<1>6. figure' \in [Workers -> 0 .. MaxTime]
  <2>1. f \in 0 .. MaxTime
    BY <1>3, RefreshConstants DEF TypeOK
  <2>2. QED
    BY <1>1, <2>1 DEF TypeOK
<1>7. BusInv'
  BY <1>1, BusStep
<1>8. TypeOK'
  BY <1>1, <1>5, <1>6, <1>7, RefreshConstants DEF TypeOK, BusInv
<1>9. Dated'
  BY <1>1, <1>3, <1>5 DEF Dated
<1>10. TakenInTurn'
  <2>1. \A v \in Workers, m \in Messages : Storing(v, m)' => Storing(v, m)
    BY <1>1, <1>5 DEF Storing
  <2>2. QED
    BY <1>1, <1>4, <1>5, <2>1 DEF TakenInTurn
<1>11. QED
  BY <1>7, <1>8, <1>9, <1>10

\* The row of the refresh, of its day, is the one that is written.
LEMMA UpsertKeeps ==
  ASSUME RefreshInv, NEW w \in Workers, Upsert(w)
  PROVE  /\ RefreshInv'
         /\ \A m \in Messages, d \in Days :
              rows'[m][d] # rows[m][d] =>
                DayOf(rows'[m][d]) = d /\ (rows'[m][d] < rows[m][d] => crowded[m])
<1> USE DEF RefreshInv
<1>1. /\ UNCHANGED <<busVars, time, queue, job, day, figure, faults, crowded>>
      /\ work[w] = "store" /\ work' = [work EXCEPT ![w] = "emit"]
      /\ rows' = [rows EXCEPT ![job[w]][day[w]] = figure[w]]
  BY DEF Upsert
<1>2. PICK m \in Messages : job[w] = m
  BY <1>1 DEF TypeOK
<1>3. /\ day[w] \in Days /\ figure[w] \in 0 .. MaxTime
      /\ DayOf(figure[w]) = day[w] /\ figure[w] <= time
  BY <1>1 DEF TypeOK, Dated
<1>4. /\ rows'[m][day[w]] = figure[w]
      /\ \A n \in Messages, d \in Days :
           n # m \/ d # day[w] => rows'[n][d] = rows[n][d]
  BY <1>1, <1>2, <1>3 DEF TypeOK
<1>5. rows' \in [Messages -> [Days -> 0 .. MaxTime]]
  BY <1>1, <1>2, <1>3 DEF TypeOK
<1>6. /\ work' \in [Workers -> {"idle", "ask", "store", "emit"}]
      /\ work'[w] = "emit" /\ \A v \in Workers : v # w => work'[v] = work[v]
  BY <1>1 DEF TypeOK
<1>7. BusInv'
  BY <1>1, BusStep
<1>8. TypeOK'
  BY <1>1, <1>2, <1>5, <1>6, <1>7, RefreshConstants DEF TypeOK, BusInv
<1>9. Dated'
  <2>1. \A n \in Messages, d \in Days :
          rows'[n][d] <= time /\ (rows'[n][d] # None => DayOf(rows'[n][d]) = d)
    BY <1>3, <1>4 DEF Dated
  <2>2. QED
    BY <1>1, <1>6, <2>1 DEF Dated
<1>10. ~crowded[m] => /\ \A v \in Workers : Storing(v, m) => v = w
                      /\ rows[m][day[w]] <= figure[w]
  BY <1>1, <1>2 DEF TakenInTurn, Storing
<1>11. TakenInTurn'
  <2> SUFFICES ASSUME NEW n \in Messages, ~crowded[n]
               PROVE  /\ \A u, v \in Workers : Storing(u, n)' /\ Storing(v, n)' => u = v
                      /\ \A v \in Workers : Storing(v, n)' /\ work'[v] = "store" =>
                           rows'[n][day[v]] <= figure[v]
    BY <1>1 DEF TakenInTurn
  <2>1. \A v \in Workers : Storing(v, n)' => Storing(v, n) /\ v # w /\ work'[v] = work[v]
    BY <1>1, <1>6 DEF Storing
  <2>2. \A v \in Workers : Storing(v, n)' => n # m
    BY <1>10, <2>1
  <2>3. \A v \in Workers : day[v] \in Days
    BY DEF TypeOK
  <2>4. QED
    BY <1>4, <2>1, <2>2, <2>3 DEF TakenInTurn
<1>12. ASSUME NEW n \in Messages, NEW d \in Days, rows'[n][d] # rows[n][d]
       PROVE  DayOf(rows'[n][d]) = d /\ (rows'[n][d] < rows[n][d] => crowded[n])
  <2>1. n = m /\ d = day[w] /\ rows'[n][d] = figure[w]
    BY <1>4, <1>12
  <2>2. rows[m][day[w]] \in Nat /\ figure[w] \in Nat
    BY <1>3, TimeTypes
  <2>3. QED
    BY <1>3, <1>10, <2>1, <2>2
<1>13. QED
  BY <1>7, <1>8, <1>9, <1>11, <1>12

\* A refresh that stores nothing more crowds nobody: no figures, the event, a
\* failure or a crash.
LEMMA RefreshEnds ==
  ASSUME RefreshInv, NEW w \in Workers, AskNothing(w) \/ Emit(w) \/ Fail(w) \/ Crash(w)
  PROVE  RefreshInv'
<1> USE DEF RefreshInv
<1>1. /\ UNCHANGED <<time, rows, crowded>>
      /\ work[w] # "idle"
      /\ work'[w] \in {"idle", "emit"}
      /\ work'[w] = "emit" => job'[w] = job[w]
      /\ work'[w] = "idle" => job'[w] = NoMessage
      /\ \A v \in Workers : v # w =>
           work'[v] = work[v] /\ job'[v] = job[v] /\ day'[v] = day[v] /\ figure'[v] = figure[v]
  BY DEF AskNothing, Emit, Fail, Crash, TaskEnds, TypeOK
<1>2. /\ work' \in [Workers -> {"idle", "ask", "store", "emit"}]
      /\ job' \in [Workers -> Messages \cup {NoMessage}]
      /\ day' \in [Workers -> Days]
      /\ figure' \in [Workers -> 0 .. MaxTime]
  <2>1. 0 \in Days /\ 0 \in 0 .. MaxTime
    BY RefreshConstants, DayBounds DEF Days
  <2>2. /\ work \in [Workers -> {"idle", "ask", "store", "emit"}]
        /\ job \in [Workers -> Messages \cup {NoMessage}]
        /\ day \in [Workers -> Days] /\ figure \in [Workers -> 0 .. MaxTime]
    BY DEF TypeOK
  <2>3. CASE TaskEnds(w)
    BY <2>1, <2>2, <2>3 DEF TaskEnds
  <2>4. CASE AskNothing(w)
    BY <2>2, <2>4 DEF AskNothing
  <2>5. QED
    BY <2>3, <2>4 DEF Emit, Fail, Crash
<1>3. PICK m \in Messages : job[w] = m
  BY <1>1 DEF TypeOK
<1>4. queue' \in [Messages -> Nat] /\ faults' \in 0 .. MaxFaults
  BY <1>3, RefreshConstants DEF AskNothing, Emit, Fail, Crash, TypeOK
<1>5. BusInv'
  <2>1. CASE Emit(w)
    <3>1. m[2] \in Pages
      BY DEF Messages
    <3>2. PageOrg[m[2]] \in Orgs /\ <<"worker", "uuid">> \in Processes \X Keys
      BY <3>1, RefreshConstants DEF Processes, Keys
    <3>3. QED
      BY <1>3, <2>1, <3>2, PublishKeeps DEF Emit
  <2>2. CASE ~Emit(w)
    BY <2>2, BusStep DEF AskNothing, Fail, Crash
  <2>3. QED
    BY <2>1, <2>2
<1>6. TypeOK'
  BY <1>1, <1>2, <1>4, <1>5 DEF TypeOK, BusInv
<1>7. \A v \in Workers : work'[v] \in {"ask", "store"} => v # w
  BY <1>1
<1>8. Dated'
  BY <1>1, <1>7 DEF Dated
<1>9. TakenInTurn'
  BY <1>1, <1>7 DEF TakenInTurn, Storing
<1>10. QED
  BY <1>5, <1>6, <1>8, <1>9

LEMMA StreamsLeaveRefreshes ==
  ASSUME RefreshInv, [BusNext]_busVars, UNCHANGED tasks
  PROVE  RefreshInv'
<1>1. BusInv'
  BY BusStep DEF RefreshInv
<1>2. UNCHANGED <<time, queue, work, job, day, figure, rows, faults, crowded>>
  BY DEF tasks
<1>3. TypeOK'
  BY <1>1, <1>2 DEF RefreshInv, BusInv, TypeOK
<1>4. (Dated /\ TakenInTurn)'
  BY <1>2 DEF RefreshInv, Dated, TakenInTurn, Storing
<1>5. QED
  BY <1>1, <1>3, <1>4 DEF RefreshInv

LEMMA RefreshStep == RefreshInv /\ [Next]_vars => RefreshInv'
<1> SUFFICES ASSUME RefreshInv, [Next]_vars PROVE RefreshInv'
  OBVIOUS
<1>1. CASE Beat
  BY <1>1, BeatKeeps
<1>2. CASE \E w \in Workers : Work(w) \/ Fail(w) \/ Crash(w)
  BY <1>2, TakeKeeps, AskKeeps, UpsertKeeps, RefreshEnds DEF Work, StoreInsights, StoreRevenue
<1>3. CASE (BusNext /\ UNCHANGED tasks) \/ UNCHANGED vars
  BY <1>3, StreamsLeaveRefreshes DEF vars
<1>4. QED
  BY <1>1, <1>2, <1>3 DEF Next

LEMMA RefreshInvariant == Spec => []RefreshInv
BY RefreshStart, RefreshStep, PTL DEF Spec

\* The types of the streams, the workers and the rows.
THEOREM RefreshTypeCorrect == Spec => []TypeOK
<1>1. RefreshInv => TypeOK
  BY DEF RefreshInv
<1>2. QED
  BY <1>1, RefreshInvariant, PTL

\* What the tasks publish takes nothing from a stream, and gives it nothing.
THEOREM StreamsKeepTheirEvents == Spec => []EventsAccountedFor
<1>1. RefreshInv => EventsAccountedFor
  BY BusGivesEvents DEF RefreshInv
<1>2. QED
  BY <1>1, RefreshInvariant, PTL

\* A row changes to figures of its own day, and to older ones only where two
\* workers were at the refresh at once.
THEOREM FiguresAreInOrder == Spec => FiguresStayInOrder
<1>1. ASSUME RefreshInv, [Next]_vars
      PROVE  [\A m \in Messages, d \in Days :
                rows'[m][d] # rows[m][d] =>
                  /\ DayOf(rows'[m][d]) = d
                  /\ rows'[m][d] < rows[m][d] => crowded[m]]_vars
  <2> SUFFICES ASSUME Next, NEW m \in Messages, NEW d \in Days, rows'[m][d] # rows[m][d]
               PROVE  DayOf(rows'[m][d]) = d /\ (rows'[m][d] < rows[m][d] => crowded[m])
    BY <1>1
  <2>1. PICK w \in Workers : Upsert(w)
    <3>1. rows' # rows
      OBVIOUS
    <3>2. QED
      BY <3>1 DEF Next, Beat, Work, Take, TakeUnconnected, Ask, AskNothing, StoreInsights,
                  StoreRevenue, Emit, Fail, Crash, tasks
  <2>2. QED
    BY <1>1, <2>1, UpsertKeeps
<1>2. QED
  BY <1>1, RefreshInvariant, PTL DEF Spec, FiguresStayInOrder

=============================================================================
