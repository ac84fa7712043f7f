------------------------- MODULE TokenHealth_proofs -------------------------
(***************************************************************************)
(* Proofs about Pages and TokenHealth, for any pages, batches, state       *)
(* tokens, processes and workers and any bounds: the types, that pages     *)
(* keep their batches, that a state token is used once, who makes a page   *)
(* ready, what an alarm has for a cause and that it is sent.               *)
(***************************************************************************)
EXTENDS TokenHealth, TLAPS, FiniteSetTheorems

-----------------------------------------------------------------------------
(***************************************************************************)
(* The pages, whatever the workers do.                                     *)
(***************************************************************************)

\* A process in a callback holds a state token.
Holding == \A a \in Api : pc[a] # "idle" => held[a] \in States

\* A page that is not there yet has no token and its default status.
NotThereYet == \A g \in Pages : ~Exists(g) => token[g] = "none" /\ status[g] = "needs_setup"

\* A state token that is not spent has let nobody through.
Unspent == \A s \in States : oauth[s] # "gone" => exchanges[s] = 0

\* While callbacks do not overlap, the one that is about to delete its state
\* token is alone, and the token has let nobody through.
AloneInCallback ==
  ~overlapped =>
    /\ \A a, b \in Api : pc[a] # "idle" /\ pc[b] # "idle" => a = b
    /\ \A a \in Api : pc[a] = "delete" => exchanges[held[a]] = 0

\* The callbacks that have found a state token and not deleted it yet.
Finders(s) == {a \in Api : pc[a] = "delete" /\ held[a] = s}

\* They and those it has let through are no more than there are processes: a
\* token that has let one through is found no more.
Room ==
  \A s \in States :
    exchanges[s] + Cardinality(Finders(s)) <= Cardinality(Api)

PagesInv ==
  /\ PagesTypeOK /\ Holding /\ NotThereYet
  /\ PagesHaveBatches
  /\ Unspent /\ AloneInCallback /\ Room /\ StateUsedOnce

\* They are finitely many,
LEMMA FindersAreFew ==
  ASSUME NEW s
  PROVE  /\ IsFiniteSet(Finders(s)) /\ Cardinality(Finders(s)) \in Nat /\ Cardinality(Api) \in Nat
         /\ \A P \in SUBSET Api : Cardinality(P) \in Nat /\ Cardinality(P) <= Cardinality(Api)
         /\ \A P \in SUBSET Finders(s) : Cardinality(P) \in Nat /\ Cardinality(P) <= Cardinality(Finders(s))
<1>1. IsFiniteSet(Api) /\ Finders(s) \subseteq Api
  BY PagesConstants DEF Finders
<1>2. IsFiniteSet(Finders(s))
  BY <1>1, FS_Subset
<1>3. \A P \in SUBSET Api : IsFiniteSet(P) /\ Cardinality(P) <= Cardinality(Api)
  BY <1>1, FS_Subset
<1>4. \A P \in SUBSET Finders(s) : Cardinality(P) <= Cardinality(Finders(s))
  BY <1>2, FS_Subset
<1>5. \A P \in SUBSET Api : Cardinality(P) \in Nat
  BY <1>3, FS_CardinalityType
<1>6. QED
  BY <1>1, <1>2, <1>3, <1>4, <1>5

\* so a token has let no more through than there are processes,
LEMMA RoomBounds ==
  ASSUME PagesTypeOK, Room, NEW s \in States
  PROVE  exchanges[s] <= Cardinality(Api)
<1>1. exchanges[s] \in Nat /\ exchanges[s] + Cardinality(Finders(s)) <= Cardinality(Api)
  BY DEF PagesTypeOK, Room
<1>2. QED
  BY <1>1, FindersAreFew

\* before and after a step,
LEMMA RoomStillBounds ==
  ASSUME PagesTypeOK', Room', NEW s \in States
  PROVE  exchanges'[s] <= Cardinality(Api)
<1>1. exchanges'[s] \in Nat /\ exchanges'[s] + Cardinality(Finders(s)') <= Cardinality(Api)
  BY DEF PagesTypeOK, Room
<1>2. Finders(s)' \in SUBSET Api
  BY DEF Finders
<1>3. QED
  BY <1>1, <1>2, FindersAreFew

\* and there is room as long as no callback finds a token or is let through.
LEMMA RoomKept ==
  ASSUME PagesTypeOK, Room, UNCHANGED exchanges,
         \A a \in Api : pc'[a] = "delete" => pc[a] = "delete" /\ held'[a] = held[a]
  PROVE  Room'
<1> SUFFICES ASSUME NEW s \in States
             PROVE  exchanges[s] + Cardinality(Finders(s)') <= Cardinality(Api)
  BY DEF Room
<1>1. Finders(s)' \in SUBSET Finders(s)
  BY DEF Finders
<1>2. exchanges[s] \in Nat /\ exchanges[s] + Cardinality(Finders(s)) <= Cardinality(Api)
  BY DEF PagesTypeOK, Room
<1>3. Cardinality(Finders(s)') \in Nat /\ Cardinality(Finders(s)') <= Cardinality(Finders(s))
  BY <1>1, FindersAreFew
<1>4. QED
  BY <1>2, <1>3, FindersAreFew

LEMMA PagesStart == PagesInit => PagesInv
<1> SUFFICES ASSUME PagesInit PROVE PagesInv
  OBVIOUS
<1>1. batchOf \in [Pages -> Batches \cup {NoBatch}] /\ held \in [Api -> States \cup {NoState}]
  BY DEF PagesInit
<1>2. PagesTypeOK
  BY <1>1 DEF PagesInit, PagesTypeOK, PageStatuses, TokenConditions
<1>3. Holding /\ NotThereYet /\ PagesHaveBatches
  BY DEF PagesInit, Holding, NotThereYet, PagesHaveBatches, Exists
<1>4. Unspent /\ AloneInCallback
  BY DEF PagesInit, Unspent, AloneInCallback
<1>5. Room
  <2> SUFFICES ASSUME NEW s \in States
               PROVE  exchanges[s] + Cardinality(Finders(s)) <= Cardinality(Api)
    BY DEF Room
  <2>1. exchanges[s] = 0 /\ Finders(s) \in SUBSET Api
    BY DEF PagesInit, Finders
  <2>2. QED
    BY <2>1, FindersAreFew
<1>6. StateUsedOnce
  <2>1. \A s \in States : exchanges[s] = 0 /\ exchanges[s] <= Cardinality(Api)
    BY <1>2, <1>5, RoomBounds DEF PagesInit
  <2>2. QED
    BY <2>1 DEF StateUsedOnce
<1>7. QED
  BY <1>2, <1>3, <1>4, <1>5, <1>6 DEF PagesInv

\* The requests about batches keep the invariant: only an empty batch goes.
LEMMA BatchRequests ==
  ASSUME PagesInv, NEW a \in Api, NEW b \in Batches,
         CreateBatch(a, b) \/ RenameBatch(a, b) \/ DeleteBatch(a, b)
  PROVE  PagesInv'
<1> USE DEF PagesInv, pageRows, requests
<1>1. UNCHANGED <<batchOf, status, active, token, oauth, pc, held, exchanges, overlapped, edits, placed>>
  BY DEF CreateBatch, RenameBatch, DeleteBatch
<1>2. batches' \in SUBSET Batches /\ unassigned' \in batches' \cup {NoBatch}
  BY PagesConstants DEF PagesTypeOK, CreateBatch, RenameBatch, DeleteBatch
<1>3. PagesTypeOK'
  BY <1>1, <1>2 DEF PagesTypeOK
<1>4. PagesHaveBatches'
  BY <1>1 DEF PagesHaveBatches, Exists, CreateBatch, RenameBatch, DeleteBatch, BatchDeletable
<1>5. (Holding /\ NotThereYet /\ Unspent /\ AloneInCallback /\ StateUsedOnce)'
  BY <1>1 DEF Holding, NotThereYet, Unspent, AloneInCallback, StateUsedOnce, Exists
<1>6. Room'
  BY <1>1, RoomKept
<1>7. QED
  BY <1>3, <1>4, <1>5, <1>6

\* The requests about pages keep it: a page is put into a batch that is there.
LEMMA PageRequests ==
  ASSUME PagesInv,
         \/ \E a \in Api, g \in Pages, b \in Batches : CreatePage(a, g, b) \/ PatchBatch(a, g, b)
         \/ \E a \in Api, gs \in SUBSET Pages, b \in Batches : BulkConnect(a, gs, b)
         \/ \E a \in Api, g \in Pages, s \in PatchTargets : PatchStatus(a, g, s)
         \/ \E a \in Api, g \in Pages : PatchActive(a, g)
         \/ \E g \in Pages : TokenAges(g)
  PROVE  PagesInv'
<1> USE PagesConstants DEF PagesInv, PagesTypeOK, PagesHaveBatches, NotThereYet, Exists, requests
<1>1. /\ UNCHANGED <<batches, unassigned, oauth, pc, held, exchanges, overlapped>>
      /\ (Holding /\ Unspent /\ AloneInCallback /\ StateUsedOnce)'
  BY DEF CreatePage, PatchBatch, BulkConnect, PatchStatus, PatchActive, TokenAges,
         Holding, Unspent, AloneInCallback, StateUsedOnce
<1>2. ASSUME NEW a \in Api, NEW g \in Pages, NEW b \in Batches, CreatePage(a, g, b)
      PROVE  (PagesTypeOK /\ PagesHaveBatches /\ NotThereYet)'
  BY <1>1, <1>2 DEF CreatePage, PageStatuses
<1>3. ASSUME NEW a \in Api, NEW g \in Pages, NEW b \in Batches, PatchBatch(a, g, b)
      PROVE  (PagesTypeOK /\ PagesHaveBatches /\ NotThereYet)'
  BY <1>1, <1>3 DEF PatchBatch
<1>4. ASSUME NEW a \in Api, NEW gs \in SUBSET Pages, NEW b \in Batches, BulkConnect(a, gs, b)
      PROVE  (PagesTypeOK /\ PagesHaveBatches /\ NotThereYet)'
  BY <1>1, <1>4 DEF BulkConnect, PageStatuses
<1>5. ASSUME NEW a \in Api, NEW g \in Pages, NEW s \in PatchTargets, PatchStatus(a, g, s)
      PROVE  (PagesTypeOK /\ PagesHaveBatches /\ NotThereYet)'
  BY <1>1, <1>5 DEF PatchStatus
<1>6. ASSUME NEW a \in Api, NEW g \in Pages, PatchActive(a, g)
      PROVE  (PagesTypeOK /\ PagesHaveBatches /\ NotThereYet)'
  BY <1>1, <1>6 DEF PatchActive
<1>7. ASSUME NEW g \in Pages, TokenAges(g)
      PROVE  (PagesTypeOK /\ PagesHaveBatches /\ NotThereYet)'
  BY <1>1, <1>7 DEF TokenAges, TokenConditions
<1>8. Room'
  BY <1>1, RoomKept
<1>9. QED
  BY <1>1, <1>2, <1>3, <1>4, <1>5, <1>6, <1>7, <1>8

\* The state tokens keep it: they are issued once, and run out.
LEMMA StateTokens ==
  ASSUME PagesInv, NEW s \in States,
         (\E a \in Api : IssueState(a, s)) \/ ExpireState(s)
  PROVE  PagesInv'
<1> USE DEF PagesInv, pageRows
<1>1. UNCHANGED <<batches, unassigned, batchOf, status, active, token, pc, held, exchanges,
                  overlapped, edits, placed>>
  BY DEF IssueState, ExpireState
<1>2. oauth' \in [States -> {"unissued", "issued", "gone"}]
  BY DEF PagesTypeOK, IssueState, ExpireState
<1>3. PagesTypeOK'
  BY <1>1, <1>2 DEF PagesTypeOK
<1>4. Unspent'
  BY <1>1 DEF PagesTypeOK, Unspent, IssueState, ExpireState
<1>5. (Holding /\ NotThereYet /\ PagesHaveBatches /\ AloneInCallback /\ StateUsedOnce)'
  BY <1>1 DEF Holding, NotThereYet, PagesHaveBatches, AloneInCallback, StateUsedOnce, Exists
<1>6. Room'
  BY <1>1, RoomKept
<1>7. QED
  BY <1>3, <1>4, <1>5, <1>6

\* A callback that finds its state token and no other callback is alone with it.
LEMMA CallbackBegins ==
  ASSUME PagesInv, NEW a \in Api, NEW s \in States, CallbackGet(a, s)
  PROVE  PagesInv'
<1> USE DEF PagesInv, pageRows, Idle
<1>1. UNCHANGED <<batches, unassigned, batchOf, status, active, token, oauth, exchanges, edits,
                  placed>>
  BY DEF CallbackGet
<1>2. /\ pc' \in [Api -> {"idle", "delete", "exchange", "store"}]
      /\ held' \in [Api -> States \cup {NoState}]
      /\ overlapped' \in BOOLEAN
  BY DEF PagesTypeOK, CallbackGet
<1>3. PagesTypeOK'
  BY <1>1, <1>2 DEF PagesTypeOK
<1>4. Holding'
  BY DEF Holding, PagesTypeOK, CallbackGet
<1>5. AloneInCallback'
  <2> SUFFICES ASSUME ~overlapped'
               PROVE  /\ \A b, c \in Api : pc'[b] # "idle" /\ pc'[c] # "idle" => b = c
                      /\ \A b \in Api : pc'[b] = "delete" => exchanges'[held'[b]] = 0
    BY DEF AloneInCallback
  <2>1. \A b \in Api : b # a => pc'[b] = "idle"
    BY DEF CallbackGet, PagesTypeOK
  <2>2. held'[a] = s /\ exchanges'[s] = 0
    BY <1>1 DEF CallbackGet, PagesTypeOK, Unspent
  <2>3. QED
    BY <2>1, <2>2
<1>6. Room'
  <2> SUFFICES ASSUME NEW t \in States
               PROVE  exchanges[t] + Cardinality(Finders(t)') <= Cardinality(Api)
    BY <1>1 DEF Room
  <2>1. CASE t = s
    <3>1. exchanges[t] = 0 /\ Finders(t)' \in SUBSET Api
      BY <2>1 DEF CallbackGet, Unspent, Finders
    <3>2. QED
      BY <3>1, FindersAreFew
  <2>2. CASE t # s
    <3>1. Finders(t)' \in SUBSET Finders(t)
      BY <2>2 DEF CallbackGet, PagesTypeOK, Finders
    <3>2. exchanges[t] \in Nat /\ exchanges[t] + Cardinality(Finders(t)) <= Cardinality(Api)
      BY DEF PagesTypeOK, Room
    <3>3. Cardinality(Finders(t)') \in Nat /\ Cardinality(Finders(t)') <= Cardinality(Finders(t))
      BY <3>1, FindersAreFew
    <3>4. QED
      BY <3>2, <3>3, FindersAreFew
  <2>3. QED
    BY <2>1, <2>2
<1>7. StateUsedOnce'
  <2>1. overlapped => overlapped'
    BY DEF CallbackGet, PagesTypeOK
  <2>2. \A t \in States : exchanges[t] <= Cardinality(Api)
    BY RoomBounds
  <2>3. QED
    BY <1>1, <2>1, <2>2 DEF StateUsedOnce
<1>8. (NotThereYet /\ PagesHaveBatches /\ Unspent)'
  BY <1>1 DEF NotThereYet, PagesHaveBatches, Unspent, Exists
<1>9. QED
  BY <1>3, <1>4, <1>5, <1>6, <1>7, <1>8

\* A callback that is let through spends its state token.
LEMMA CallbackSpends ==
  ASSUME PagesInv, NEW a \in Api, CallbackDelete(a)
  PROVE  PagesInv'
<1> USE DEF PagesInv, pageRows
<1>1. UNCHANGED <<batches, unassigned, batchOf, status, active, token, held, overlapped, edits,
                  placed>>
  BY DEF CallbackDelete
<1>2. PICK s \in States : held[a] = s
  BY DEF Holding, CallbackDelete
<1>3. /\ oauth' = [oauth EXCEPT ![s] = "gone"]
      /\ exchanges' = [exchanges EXCEPT ![s] = @ + 1]
      /\ pc' = [pc EXCEPT ![a] = "exchange"]
      /\ pc[a] = "delete"
  BY <1>2 DEF CallbackDelete
<1>4. /\ oauth' \in [States -> {"unissued", "issued", "gone"}]
      /\ exchanges' \in [States -> Nat]
      /\ pc' \in [Api -> {"idle", "delete", "exchange", "store"}]
  BY <1>3 DEF PagesTypeOK
<1>5. PagesTypeOK'
  BY <1>1, <1>4 DEF PagesTypeOK
<1>6. Holding'
  BY <1>1, <1>3 DEF Holding, PagesTypeOK
<1>7. Unspent'
  BY <1>3 DEF Unspent, PagesTypeOK
<1>8. AloneInCallback'
  <2> SUFFICES ASSUME ~overlapped
               PROVE  /\ \A b, c \in Api : pc'[b] # "idle" /\ pc'[c] # "idle" => b = c
                      /\ \A b \in Api : pc'[b] # "delete"
    BY <1>1 DEF AloneInCallback
  <2>1. \A b, c \in Api : pc[b] # "idle" /\ pc[c] # "idle" => b = c
    BY DEF AloneInCallback
  <2>2. QED
    BY <1>3, <2>1 DEF PagesTypeOK
<1>9. Room'
  <2> SUFFICES ASSUME NEW t \in States
               PROVE  exchanges'[t] + Cardinality(Finders(t)') <= Cardinality(Api)
    BY DEF Room
  <2>1. exchanges[t] \in Nat /\ exchanges[t] + Cardinality(Finders(t)) <= Cardinality(Api)
    BY DEF PagesTypeOK, Room
  <2>2. CASE t = s
    <3>1. a \in Finders(t) /\ Finders(t)' = Finders(t) \ {a} /\ exchanges'[t] = exchanges[t] + 1
      BY <1>1, <1>2, <1>3, <2>2 DEF PagesTypeOK, Finders
    <3>2. Cardinality(Finders(t)') = Cardinality(Finders(t)) - 1
      BY <3>1, FindersAreFew, FS_RemoveElement
    <3>3. QED
      BY <2>1, <3>1, <3>2, FindersAreFew
  <2>3. CASE t # s
    <3>1. Finders(t)' \in SUBSET Finders(t) /\ exchanges'[t] = exchanges[t]
      BY <1>1, <1>3, <2>3 DEF PagesTypeOK, Finders
    <3>2. Cardinality(Finders(t)') \in Nat /\ Cardinality(Finders(t)') <= Cardinality(Finders(t))
      BY <3>1, FindersAreFew
    <3>3. QED
      BY <2>1, <3>1, <3>2, FindersAreFew
  <2>4. QED
    BY <2>2, <2>3
<1>10. StateUsedOnce'
  <2>1. ~overlapped => exchanges[s] = 0
    BY <1>2, <1>3 DEF AloneInCallback
  <2>2. \A t \in States : exchanges'[t] <= Cardinality(Api)
    BY <1>5, <1>9, RoomStillBounds
  <2>3. \A t \in States : exchanges'[t] = IF t = s THEN exchanges[t] + 1 ELSE exchanges[t]
    BY <1>3 DEF PagesTypeOK
  <2>4. QED
    BY <1>1, <2>1, <2>2, <2>3 DEF StateUsedOnce
<1>11. (NotThereYet /\ PagesHaveBatches)'
  BY <1>1 DEF NotThereYet, PagesHaveBatches, Exists
<1>12. QED
  BY <1>5, <1>6, <1>7, <1>8, <1>9, <1>10, <1>11

\* The other steps of a callback that leave the pages alone.
LEMMA CallbackMovesOn ==
  ASSUME PagesInv, NEW a \in Api,
         CallbackForeign(a) \/ CallbackExchange(a) \/ CallbackFails(a)
  PROVE  PagesInv'
<1> USE DEF PagesInv, pageRows
<1>1. UNCHANGED <<batches, unassigned, batchOf, status, active, token, exchanges, overlapped,
                  edits, placed>>
  BY DEF CallbackForeign, CallbackExchange, CallbackFails
<1>2. /\ oauth' \in [States -> {"unissued", "issued", "gone"}]
      /\ \A s \in States : oauth'[s] # "gone" => oauth[s] # "gone"
  BY DEF PagesTypeOK, CallbackForeign, CallbackExchange, CallbackFails
<1>3. /\ pc' \in [Api -> {"idle", "delete", "exchange", "store"}]
      /\ pc[a] # "idle" /\ pc'[a] # "delete"
      /\ \A b \in Api : b # a => pc'[b] = pc[b]
  BY DEF PagesTypeOK, CallbackForeign, CallbackExchange, CallbackFails
<1>4. /\ held' \in [Api -> States \cup {NoState}]
      /\ \A b \in Api : b # a => held'[b] = held[b]
      /\ pc'[a] # "idle" => held'[a] = held[a]
  BY DEF PagesTypeOK, CallbackForeign, CallbackExchange, CallbackFails
<1>5. PagesTypeOK'
  BY <1>1, <1>2, <1>3, <1>4 DEF PagesTypeOK
<1>6. Holding'
  BY <1>3, <1>4 DEF Holding
<1>7. Unspent'
  BY <1>1, <1>2 DEF Unspent
<1>8. AloneInCallback'
  BY <1>1, <1>3, <1>4 DEF AloneInCallback
<1>9. (NotThereYet /\ PagesHaveBatches /\ StateUsedOnce)'
  BY <1>1 DEF NotThereYet, PagesHaveBatches, StateUsedOnce, Exists
<1>10. Room'
  BY <1>1, <1>3, <1>4, RoomKept
<1>11. QED
  BY <1>5, <1>6, <1>7, <1>8, <1>9, <1>10

\* The transaction of a callback: new pages go into a batch that is there.
LEMMA CallbackStores ==
  ASSUME PagesInv, NEW a \in Api, NEW gs \in SUBSET Pages, NEW c \in Granted,
         CallbackStore(a, gs, c)
  PROVE  PagesInv'
<1> USE DEF PagesInv
<1>1. UNCHANGED <<status, active, oauth, exchanges, overlapped, edits, placed>>
  BY DEF CallbackStore
<1>2. PICK b \in Batches :
        /\ batches' = batches \cup {b} /\ unassigned' = b
        /\ batchOf' = [g \in Pages |-> IF g \in gs /\ ~Exists(g) THEN b ELSE batchOf[g]]
  BY DEF CallbackStore
<1>3. /\ token' = [g \in Pages |-> IF g \in gs THEN c ELSE token[g]]
      /\ pc[a] # "idle" /\ pc' = [pc EXCEPT ![a] = "idle"]
      /\ held' = [held EXCEPT ![a] = NoState]
  BY DEF CallbackStore
<1>4. batches' \in SUBSET Batches /\ unassigned' \in batches' \cup {NoBatch}
  BY <1>2 DEF PagesTypeOK
<1>5. batchOf' \in [Pages -> Batches \cup {NoBatch}]
  BY <1>2 DEF PagesTypeOK
<1>6. token' \in [Pages -> TokenConditions]
  BY <1>3, PagesConstants DEF PagesTypeOK, TokenConditions
<1>7. /\ pc' \in [Api -> {"idle", "delete", "exchange", "store"}]
      /\ held' \in [Api -> States \cup {NoState}]
  BY <1>3 DEF PagesTypeOK
<1>8. PagesTypeOK'
  BY <1>1, <1>4, <1>5, <1>6, <1>7 DEF PagesTypeOK
<1>9. Holding'
  BY <1>3 DEF Holding, PagesTypeOK
<1>10. NotThereYet'
  <2> SUFFICES ASSUME NEW g \in Pages, batchOf'[g] = NoBatch
               PROVE  token'[g] = "none" /\ status'[g] = "needs_setup"
    BY DEF NotThereYet, Exists
  <2>1. g \notin gs /\ ~Exists(g)
    BY <1>2, PagesConstants DEF Exists
  <2>2. QED
    BY <1>1, <1>3, <2>1 DEF NotThereYet
<1>11. PagesHaveBatches'
  BY <1>2 DEF PagesHaveBatches, Exists
<1>12. AloneInCallback'
  BY <1>1, <1>3 DEF AloneInCallback, PagesTypeOK
<1>13. (Unspent /\ StateUsedOnce)'
  BY <1>1 DEF Unspent, StateUsedOnce
<1>14. Room'
  BY <1>1, <1>3, RoomKept DEF PagesTypeOK
<1>15. QED
  BY <1>8, <1>9, <1>10, <1>11, <1>12, <1>13, <1>14

LEMMA PagesInvariant == ASSUME PagesInv, PagesNext PROVE PagesInv'
<1>1. CASE \E a \in Api, b \in Batches :
             CreateBatch(a, b) \/ RenameBatch(a, b) \/ DeleteBatch(a, b)
  BY <1>1, BatchRequests
<1>2. CASE \/ \E a \in Api, g \in Pages, b \in Batches : CreatePage(a, g, b) \/ PatchBatch(a, g, b)
           \/ \E a \in Api, gs \in (SUBSET Pages) \ {{}}, b \in Batches : BulkConnect(a, gs, b)
           \/ \E a \in Api, g \in Pages, s \in PatchTargets : PatchStatus(a, g, s)
           \/ \E a \in Api, g \in Pages : PatchActive(a, g)
           \/ \E g \in Pages : TokenAges(g)
  BY <1>2, PageRequests
<1>3. CASE \/ \E a \in Api, s \in States : IssueState(a, s)
           \/ \E s \in States : ExpireState(s)
  BY <1>3, StateTokens
<1>4. CASE \E a \in Api, s \in States : CallbackGet(a, s)
  BY <1>4, CallbackBegins
<1>5. CASE \E a \in Api : CallbackDelete(a)
  BY <1>5, CallbackSpends
<1>6. CASE \E a \in Api : CallbackForeign(a) \/ CallbackExchange(a) \/ CallbackFails(a)
  BY <1>6, CallbackMovesOn
<1>7. CASE \E a \in Api, gs \in SUBSET Pages, c \in Granted : CallbackStore(a, gs, c)
  BY <1>7, CallbackStores
<1>8. QED
  BY <1>1, <1>2, <1>3, <1>4, <1>5, <1>6, <1>7 DEF PagesNext

\* What a request, a callback or the passing of time does to a page: its status
\* changes by an editor's hand, or bulk_connect makes it ready.
LEMMA PagesStep ==
  ASSUME PagesInv, PagesNext, NEW g \in Pages
  PROVE  /\ edits'[g] \in Nat /\ edits'[g] >= edits[g]
         /\ placed[g] => placed'[g]
         /\ token[g] # "none" => token'[g] # "none"
         /\ \/ status'[g] = status[g]
            \/ edits'[g] > edits[g]
            \/ /\ status[g] = "needs_setup" /\ status'[g] = "ready"
               /\ placed'[g] /\ token'[g] # "none"
<1> USE PagesConstants DEF PagesInv, PagesTypeOK, pageRows
<1>1. CASE \E a \in Api, b \in Batches :
             CreateBatch(a, b) \/ RenameBatch(a, b) \/ DeleteBatch(a, b)
  BY <1>1 DEF CreateBatch, RenameBatch, DeleteBatch
<1>2. CASE \E a \in Api, h \in Pages, b \in Batches : CreatePage(a, h, b)
  BY <1>2 DEF CreatePage, NotThereYet
<1>3. CASE \E a \in Api, h \in Pages, b \in Batches : PatchBatch(a, h, b)
  BY <1>3 DEF PatchBatch
<1>4. CASE \E a \in Api, gs \in (SUBSET Pages) \ {{}}, b \in Batches : BulkConnect(a, gs, b)
  <2>1. PICK gs \in SUBSET Pages :
          /\ UNCHANGED <<token, edits>>
          /\ placed' = [h \in Pages |-> placed[h] \/ h \in gs]
          /\ status' = [h \in Pages |->
                          IF h \in gs /\ token[h] # "none" /\ status[h] = "needs_setup"
                          THEN "ready" ELSE status[h]]
    BY <1>4 DEF BulkConnect
  <2>2. placed'[g] <=> placed[g] \/ g \in gs
    BY <2>1, Zenon
  <2>3. edits'[g] \in Nat /\ edits'[g] >= edits[g] /\ token'[g] = token[g]
    BY <2>1
  <2>4. \/ status'[g] = status[g]
        \/ g \in gs /\ token[g] # "none" /\ status[g] = "needs_setup" /\ status'[g] = "ready"
    BY <2>1
  <2>5. QED
    BY <2>2, <2>3, <2>4
<1>5. CASE \E a \in Api, h \in Pages, s \in PatchTargets : PatchStatus(a, h, s)
  BY <1>5 DEF PatchStatus
<1>6. CASE \E a \in Api, h \in Pages : PatchActive(a, h)
  BY <1>6 DEF PatchActive
<1>7. CASE \/ \E a \in Api, s \in States : IssueState(a, s) \/ CallbackGet(a, s)
           \/ \E s \in States : ExpireState(s)
           \/ \E a \in Api :
                CallbackDelete(a) \/ CallbackForeign(a) \/ CallbackExchange(a) \/ CallbackFails(a)
  BY <1>7 DEF IssueState, CallbackGet, ExpireState, CallbackDelete, CallbackForeign,
              CallbackExchange, CallbackFails
<1>8. CASE \E a \in Api, gs \in SUBSET Pages, c \in Granted : CallbackStore(a, gs, c)
  BY <1>8 DEF CallbackStore
<1>9. CASE \E h \in Pages : TokenAges(h)
  BY <1>9 DEF TokenAges
<1>10. QED
  BY <1>1, <1>2, <1>3, <1>4, <1>5, <1>6, <1>7, <1>8, <1>9 DEF PagesNext

-----------------------------------------------------------------------------
(***************************************************************************)
(* The workers.                                                            *)
(***************************************************************************)

\* A page in the queue or with a worker has a token, and an operator has set it
\* up: the sweep took it for its status, and nothing takes either away.
Enqueued ==
  \A g \in Pages :
    queue[g] > 0 \/ (\E w \in Workers : job[w] = g) =>
      token[g] # "none" /\ (placed[g] \/ edits[g] > 0)

\* The worker's page will be reported expired, as far as it knows.
WillAlert(w) == work[w] = "ping" \/ (work[w] = "alert" /\ verdict[w] = "token_expired")

\* ExpiryIsAlerted, of workers that can still send the alert: one that has
\* found the page to be expiring will not.
Alerting ==
  \A g \in Pages :
    status[g] = "token_expired" /\ Unedited(g) =>
      \/ alerted[g] \/ cut[g]
      \/ queue[g] > 0
      \/ \E w \in Workers : job[w] = g /\ WillAlert(w)

HealthInv ==
  /\ TypeOK /\ PagesInv
  /\ Enqueued /\ SetUpByOperator
  /\ AlarmHasCause /\ Alerting

LEMMA HealthStart == Init => HealthInv
<1> SUFFICES ASSUME Init PROVE HealthInv
  OBVIOUS
<1>1. PagesInv
  BY PagesStart DEF Init
<1>2. job \in [Workers -> Pages \cup {NoPage}] /\ \A w \in Workers : job[w] \notin Pages
  BY HealthConstants DEF Init
<1>3. TypeOK
  BY <1>1, <1>2 DEF Init, TypeOK, PagesInv, PageStatuses, TokenConditions
<1>4. \A g \in Pages : status[g] = "needs_setup"
  BY DEF Init, PagesInit
<1>5. SetUpByOperator /\ AlarmHasCause /\ Alerting
  BY <1>4 DEF SetUpByOperator, AlarmHasCause, Alerting, Pinged
<1>6. Enqueued
  BY <1>2 DEF Init, Enqueued
<1>7. QED
  BY <1>1, <1>3, <1>5, <1>6 DEF HealthInv

\* What the pages keep among themselves is kept when the pages are left alone.
LEMMA PagesLeftAlone == ASSUME PagesInv, UNCHANGED pagesVars PROVE PagesInv'
<1>1. Room'
  BY RoomKept DEF PagesInv, pagesVars, requests
<1>2. QED
  BY <1>1 DEF PagesInv, pagesVars, pageRows, requests, PagesTypeOK, Holding, NotThereYet,
              PagesHaveBatches, Unspent, AloneInCallback, StateUsedOnce, Exists

\* Requests, callbacks and time keep what the workers rely on.
LEMMA PagesUnderWork ==
  ASSUME HealthInv, PagesNext, UNCHANGED <<workers, healthHistory>>
  PROVE  HealthInv'
<1> USE DEF HealthInv, workers, healthHistory
<1>1. PagesInv'
  BY PagesInvariant
<1>2. TypeOK'
  BY <1>1 DEF TypeOK, PagesInv
<1>3. \A g \in Pages : edits[g] \in Nat /\ edits'[g] \in Nat
  BY <1>1 DEF PagesInv, PagesTypeOK
<1>4. Enqueued'
  BY <1>3, PagesStep DEF Enqueued
<1>5. SetUpByOperator'
  <2> SUFFICES ASSUME NEW g \in Pages, status'[g] \in Pinged, edits'[g] = 0
               PROVE  placed'[g] /\ token'[g] # "none"
    BY DEF SetUpByOperator, Unedited, Pinged
  <2>1. edits[g] = 0
    BY <1>3, PagesStep
  <2>2. QED
    BY <1>3, <2>1, PagesStep DEF SetUpByOperator, Unedited
<1>6. \A g \in Pages : status'[g] = "token_expired" /\ edits'[g] = 0 =>
                         status[g] = "token_expired" /\ edits[g] = 0
  BY <1>3, PagesStep
<1>7. AlarmHasCause'
  BY <1>6 DEF AlarmHasCause, Unedited
<1>8. Alerting'
  BY <1>6 DEF Alerting, Unedited, WillAlert
<1>9. QED
  BY <1>1, <1>2, <1>4, <1>5, <1>7, <1>8

\* The sweep takes pages that an operator has set up.
LEMMA SweepKeeps ==
  ASSUME HealthInv, NEW h \in Pages, Sweep(h)
  PROVE  HealthInv'
<1> USE DEF HealthInv, Sweep, healthHistory
<1>1. PagesInv'
  BY PagesLeftAlone
<1>2. queue' \in [Pages -> Nat] /\ \A g \in Pages : queue[g] > 0 => queue'[g] > 0
  BY DEF TypeOK
<1>3. TypeOK'
  BY <1>1, <1>2 DEF TypeOK, PagesInv
<1>4. UNCHANGED <<token, placed, edits, status>>
  BY DEF pagesVars, pageRows
<1>5. Enqueued'
  <2>1. token[h] # "none" /\ (placed[h] \/ edits[h] > 0)
    BY DEF SetUpByOperator, Unedited, PagesInv, PagesTypeOK
  <2>2. \A g \in Pages : g # h => queue'[g] = queue[g]
    BY DEF TypeOK
  <2>3. QED
    BY <1>4, <2>1, <2>2 DEF Enqueued
<1>6. (SetUpByOperator /\ AlarmHasCause)'
  BY <1>4 DEF SetUpByOperator, AlarmHasCause, Unedited
<1>7. Alerting'
  BY <1>2, <1>4 DEF Alerting, Unedited, WillAlert
<1>8. QED
  BY <1>1, <1>3, <1>5, <1>6, <1>7

\* A message that leaves the queue is with a worker.
LEMMA PingReadKeeps ==
  ASSUME HealthInv, NEW w \in Workers, NEW h \in Pages, PingRead(w, h)
  PROVE  HealthInv'
<1> USE DEF HealthInv, PingRead, healthHistory
<1>1. PagesInv'
  BY PagesLeftAlone
<1>2. /\ queue' \in [Pages -> Nat] /\ queue[h] > 0
      /\ \A g \in Pages : queue'[g] > 0 => queue[g] > 0
      /\ \A g \in Pages : g # h => queue'[g] = queue[g]
  BY DEF TypeOK
<1>3. /\ work'[w] = "ping" /\ job'[w] = h
      /\ \A u \in Workers : u # w => work'[u] = work[u] /\ job'[u] = job[u]
      /\ work[w] = "idle" /\ job[w] \notin Pages
  BY DEF TypeOK
<1>4. /\ work' \in [Workers -> {"idle", "ping", "alert"}]
      /\ job' \in [Workers -> Pages \cup {NoPage}]
      /\ seen' \in [Workers -> TokenConditions]
  BY DEF TypeOK, PagesInv, PagesTypeOK
<1>5. TypeOK'
  BY <1>1, <1>2, <1>3, <1>4 DEF TypeOK, PagesInv
<1>6. UNCHANGED <<token, placed, edits, status>>
  BY DEF pagesVars, pageRows
<1>7. Enqueued'
  BY <1>2, <1>3, <1>6 DEF Enqueued
<1>8. (SetUpByOperator /\ AlarmHasCause)'
  BY <1>6 DEF SetUpByOperator, AlarmHasCause, Unedited
<1>9. Alerting'
  <2> SUFFICES ASSUME NEW g \in Pages, status[g] = "token_expired", Unedited(g)
               PROVE  \/ alerted[g] \/ cut[g] \/ queue'[g] > 0
                      \/ \E u \in Workers : job'[u] = g /\ WillAlert(u)'
    BY <1>6 DEF Alerting, Unedited
  <2>1. CASE g = h
    BY <1>3, <2>1 DEF WillAlert
  <2>2. CASE g # h
    BY <1>2, <1>3, <2>2 DEF Alerting, WillAlert
  <2>3. QED
    BY <2>1, <2>2
<1>10. QED
  BY <1>1, <1>5, <1>7, <1>8, <1>9

\* A ping writes the status of its own page, with a cause where the page is
\* marked expired, and goes on to alert.
LEMMA WriteKeeps ==
  ASSUME HealthInv, NEW w \in Workers, PingWrite(w) \/ PingOutage(w)
  PROVE  HealthInv'
<1> USE DEF HealthInv
<1>1. PICK h \in Pages : job[w] = h
  BY DEF TypeOK, PingWrite, PingOutage
<1>2. PICK v \in PageStatuses :
        /\ WriteVerdict(w, v)
        /\ v = "token_expired" => cause'[h] = TRUE
  <2>1. CASE PingWrite(w)
    <3>1. Verdict(seen[w]) \in PageStatuses
      BY DEF Verdict, PageStatuses
    <3>2. Verdict(seen[w]) = "token_expired" => seen[w] \notin {"fresh", "expiring"}
      BY DEF Verdict
    <3>3. seen[w] \notin {"fresh", "expiring"} => cause'[h] = TRUE
      BY <1>1, <2>1 DEF PingWrite, TypeOK
    <3>4. QED
      BY <2>1, <3>1, <3>2, <3>3 DEF PingWrite
  <2>2. CASE PingOutage(w)
    <3>1. cause'[h] = TRUE
      BY <1>1, <2>2 DEF PingOutage, TypeOK
    <3>2. WriteVerdict(w, "token_expired")
      BY <2>2 DEF PingOutage
    <3>3. "token_expired" \in PageStatuses
      BY DEF PageStatuses
    <3>4. QED
      BY <3>1, <3>2, <3>3
  <2>3. QED
    BY <2>1, <2>2
<1>3. /\ cause' \in [Pages -> BOOLEAN] /\ outages' \in Nat
      /\ \A g \in Pages : cause[g] => cause'[g]
  <2>1. cause \in [Pages -> BOOLEAN] /\ outages \in Nat
    BY DEF TypeOK
  <2>2. outages' \in Nat
    BY <2>1 DEF PingWrite, PingOutage
  <2>3. PICK bad \in BOOLEAN : cause' = [cause EXCEPT ![h] = @ \/ bad]
    <3>1. CASE PingWrite(w)
      BY <1>1, <3>1 DEF PingWrite
    <3>2. CASE PingOutage(w)
      BY <1>1, <2>1, <3>2 DEF PingOutage
    <3>3. QED
      BY <3>1, <3>2
  <2>4. \A g \in Pages : cause'[g] = IF g = h THEN cause[g] \/ bad ELSE cause[g]
    BY <2>1, <2>3, Zenon
  <2>5. QED
    BY <2>1, <2>2, <2>3, <2>4
<1>4. /\ UNCHANGED <<batches, unassigned, batchOf, active, token, requests, edits, placed>>
      /\ UNCHANGED <<queue, faults>>
      /\ status' = [status EXCEPT ![h] = v]
      /\ alerted' = [alerted EXCEPT ![h] = @ /\ status[h] = v]
      /\ cut' = [cut EXCEPT ![h] = FALSE]
  BY <1>1, <1>2 DEF WriteVerdict
<1>5. /\ status' \in [Pages -> PageStatuses]
      /\ alerted' \in [Pages -> BOOLEAN] /\ cut' \in [Pages -> BOOLEAN]
      /\ status'[h] = v
      /\ \A g \in Pages : g # h => status'[g] = status[g] /\ alerted'[g] = alerted[g] /\ cut'[g] = cut[g]
  BY <1>4 DEF TypeOK, PagesTypeOK
<1>6. /\ work' \in [Workers -> {"idle", "ping", "alert"}]
      /\ job' \in [Workers -> Pages \cup {NoPage}]
      /\ \A u \in Workers : job'[u] = job[u] \/ job'[u] \notin Pages
      /\ \A u \in Workers : work'[u] # "idle" <=> job'[u] \in Pages
  BY <1>1, <1>2, HealthConstants DEF WriteVerdict, TaskEnds, TypeOK
<1>7. seen' \in [Workers -> TokenConditions] /\ verdict' \in [Workers -> PageStatuses]
  BY <1>2 DEF WriteVerdict, TaskEnds, TypeOK, TokenConditions, PageStatuses
<1>8. \A u \in Workers : u # w => work'[u] = work[u] /\ job'[u] = job[u] /\ verdict'[u] = verdict[u]
  BY <1>2 DEF WriteVerdict, TaskEnds, TypeOK
<1>9. v # "ready" => work'[w] = "alert" /\ job'[w] = h /\ verdict'[w] = v
  BY <1>1, <1>2 DEF WriteVerdict, TypeOK
<1>10. PagesTypeOK'
  BY <1>4, <1>5 DEF PagesInv, PagesTypeOK, requests
<1>11. TypeOK'
  BY <1>3, <1>4, <1>5, <1>6, <1>7, <1>10 DEF TypeOK
<1>12. token[h] # "none" /\ (placed[h] \/ edits[h] > 0)
  BY <1>1 DEF Enqueued
<1>13. PagesInv'
  <2>1. NotThereYet'
    BY <1>4, <1>5, <1>12 DEF PagesInv, NotThereYet, Exists
  <2>2. (Holding /\ PagesHaveBatches /\ Unspent /\ AloneInCallback /\ StateUsedOnce)'
    BY <1>4 DEF PagesInv, Holding, PagesHaveBatches, Unspent, AloneInCallback, StateUsedOnce,
                Exists, requests
  <2>3. Room'
    BY <1>4, RoomKept DEF PagesInv, requests
  <2>4. QED
    BY <1>10, <2>1, <2>2, <2>3 DEF PagesInv
<1>14. Enqueued'
  BY <1>4, <1>6 DEF Enqueued
<1>15. SetUpByOperator'
  BY <1>4, <1>5, <1>12 DEF SetUpByOperator, Unedited
<1>16. AlarmHasCause'
  BY <1>2, <1>3, <1>4, <1>5 DEF AlarmHasCause, Unedited
<1>17. Alerting'
  <2> SUFFICES ASSUME NEW g \in Pages, status'[g] = "token_expired", edits[g] = 0
               PROVE  \/ alerted'[g] \/ cut'[g] \/ queue[g] > 0
                      \/ \E u \in Workers : job'[u] = g /\ WillAlert(u)'
    BY <1>4 DEF Alerting, Unedited
  <2>1. CASE g = h
    BY <1>5, <1>9, <2>1 DEF WillAlert
  <2>2. CASE g # h
    BY <1>1, <1>5, <1>8, <2>2 DEF Alerting, WillAlert, Unedited
  <2>3. QED
    BY <2>1, <2>2
<1>18. QED
  BY <1>11, <1>13, <1>14, <1>15, <1>16, <1>17

\* A task ends with the alert, without it, or with the message back in the
\* queue; one that owed an alert leaves one of the three behind.
LEMMA EndKeeps ==
  ASSUME HealthInv, NEW w \in Workers, Alert(w) \/ AlertCut(w) \/ PingFails(w) \/ Crash(w)
  PROVE  HealthInv'
<1> USE DEF HealthInv
<1>1. PICK h \in Pages : job[w] = h
  BY DEF TypeOK, Alert, AlertCut, PingFails, Crash
<1>2. TaskEnds(w) /\ UNCHANGED <<pagesVars, outages, cause>>
  BY DEF Alert, AlertCut, PingFails, Crash
<1>3. PagesInv'
  BY <1>2, PagesLeftAlone
<1>4. UNCHANGED <<token, placed, edits, status>>
  BY <1>2 DEF pagesVars, pageRows
<1>5. /\ work' \in [Workers -> {"idle", "ping", "alert"}]
      /\ job' \in [Workers -> Pages \cup {NoPage}]
      /\ seen' \in [Workers -> TokenConditions] /\ verdict' \in [Workers -> PageStatuses]
      /\ work'[w] = "idle" /\ job'[w] \notin Pages
      /\ \A u \in Workers : u # w => work'[u] = work[u] /\ job'[u] = job[u] /\ verdict'[u] = verdict[u]
  BY <1>2, HealthConstants DEF TypeOK, TaskEnds, TokenConditions, PageStatuses
<1>6. /\ queue' \in [Pages -> Nat] /\ faults' \in Nat
      /\ alerted' \in [Pages -> BOOLEAN] /\ cut' \in [Pages -> BOOLEAN]
      /\ \A g \in Pages : g # h => queue'[g] = queue[g]
      /\ \A g \in Pages : queue[g] > 0 => queue'[g] > 0
      /\ \A g \in Pages : (alerted[g] => alerted'[g]) /\ (cut[g] => cut'[g])
      /\ status[h] = "token_expired" /\ WillAlert(w) => alerted'[h] \/ cut'[h] \/ queue'[h] > 0
  <2> USE <1>1 DEF TypeOK
  <2>1. CASE Alert(w)
    <3>1. /\ UNCHANGED <<queue, faults, cut>>
          /\ alerted' = [alerted EXCEPT ![h] = @ \/ verdict[w] = "token_expired"]
          /\ work[w] = "alert"
      BY <2>1 DEF Alert
    <3>2. alerted' \in [Pages -> BOOLEAN]
      BY <3>1
    <3>3. \A g \in Pages :
            alerted'[g] = IF g = h THEN alerted[g] \/ verdict[w] = "token_expired" ELSE alerted[g]
      BY <3>1, Zenon
    <3>4. QED
      BY <3>1, <3>2, <3>3 DEF WillAlert
  <2>2. CASE AlertCut(w)
    <3>1. /\ UNCHANGED <<queue, alerted>> /\ faults' = faults + 1
          /\ cut' = [cut EXCEPT ![h] = TRUE]
      BY <2>2 DEF AlertCut
    <3>2. QED
      BY <3>1
  <2>3. CASE Crash(w)
    <3>1. /\ UNCHANGED <<alerted, cut>> /\ faults' = faults + 1
          /\ queue' = [queue EXCEPT ![h] = @ + 1]
      BY <2>3 DEF Crash
    <3>2. QED
      BY <3>1
  <2>4. CASE PingFails(w)
    <3>1. /\ UNCHANGED <<queue, alerted>> /\ faults' = faults + 1
          /\ cut' = [cut EXCEPT ![h] = @ \/ (status[h] = "token_expired" /\ ~alerted[h])]
      BY <2>4 DEF PingFails
    <3>2. cut' \in [Pages -> BOOLEAN]
      BY <3>1
    <3>3. \A g \in Pages :
            cut'[g] = IF g = h THEN cut[g] \/ (status[h] = "token_expired" /\ ~alerted[h]) ELSE cut[g]
      BY <3>1, Zenon
    <3>4. \A g \in Pages : cut[g] => cut'[g]
      BY <3>3, Zenon
    <3>5. status[h] = "token_expired" => alerted[h] \/ cut'[h]
      BY <3>3, Zenon
    <3>6. QED
      BY <3>1, <3>2, <3>4, <3>5
  <2>5. QED
    BY <2>1, <2>2, <2>3, <2>4
<1>7. TypeOK'
  BY <1>2, <1>3, <1>5, <1>6 DEF TypeOK, PagesInv
<1>8. Enqueued'
  BY <1>1, <1>4, <1>5, <1>6 DEF Enqueued
<1>9. (SetUpByOperator /\ AlarmHasCause)'
  BY <1>2, <1>4 DEF SetUpByOperator, AlarmHasCause, Unedited
<1>10. Alerting'
  <2> SUFFICES ASSUME NEW g \in Pages, status[g] = "token_expired", edits[g] = 0
               PROVE  \/ alerted'[g] \/ cut'[g] \/ queue'[g] > 0
                      \/ \E u \in Workers : job'[u] = g /\ WillAlert(u)'
    BY <1>4 DEF Alerting, Unedited
  <2>1. \/ alerted[g] \/ cut[g] \/ queue[g] > 0
        \/ \E u \in Workers : job[u] = g /\ WillAlert(u)
    BY DEF Alerting, Unedited
  <2>2. QED
    BY <1>1, <1>5, <1>6, <2>1 DEF WillAlert
<1>11. QED
  BY <1>3, <1>7, <1>8, <1>9, <1>10

LEMMA HealthStep == HealthInv /\ [Next]_vars => HealthInv'
<1> SUFFICES ASSUME HealthInv, [Next]_vars PROVE HealthInv'
  OBVIOUS
<1>1. CASE PagesNext /\ UNCHANGED <<workers, healthHistory>>
  BY <1>1, PagesUnderWork
<1>2. CASE \E g \in Pages : Sweep(g)
  BY <1>2, SweepKeeps
<1>3. CASE \E w \in Workers, g \in Pages : PingRead(w, g)
  BY <1>3, PingReadKeeps
<1>4. CASE \E w \in Workers : PingWrite(w) \/ PingOutage(w)
  BY <1>4, WriteKeeps
<1>5. CASE \E w \in Workers : Alert(w) \/ AlertCut(w) \/ PingFails(w) \/ Crash(w)
  BY <1>5, EndKeeps
<1>6. CASE UNCHANGED vars
  <2>1. PagesInv'
    BY <1>6, PagesLeftAlone DEF HealthInv, vars
  <2>2. UNCHANGED <<pagesVars, workers, healthHistory>>
    BY <1>6 DEF vars
  <2>3. UNCHANGED <<token, placed, edits, status>>
    BY <2>2 DEF pagesVars, pageRows
  <2>4. TypeOK'
    BY <2>1, <2>2 DEF HealthInv, TypeOK, PagesInv, workers, healthHistory
  <2>5. (Enqueued /\ SetUpByOperator /\ AlarmHasCause /\ Alerting)'
    BY <2>2, <2>3 DEF HealthInv, Enqueued, SetUpByOperator, AlarmHasCause, Alerting, Unedited,
                      WillAlert, workers, healthHistory
  <2>6. QED
    BY <2>1, <2>4, <2>5 DEF HealthInv
<1>7. QED
  BY <1>1, <1>2, <1>3, <1>4, <1>5, <1>6 DEF Next, Work

LEMMA HealthInvariant == Spec => []HealthInv
<1>1. QED
  BY HealthStart, HealthStep, PTL DEF Spec

-----------------------------------------------------------------------------
\* The types of the pages, the batches, the state tokens and the workers.
THEOREM TypeCorrect == Spec => []TypeOK
<1>1. HealthInv => TypeOK
  BY DEF HealthInv
<1>2. QED
  BY <1>1, HealthInvariant, PTL

\* Every page is in a batch that exists, whatever is deleted meanwhile.
THEOREM NoPageIsOrphaned == Spec => []PagesHaveBatches
<1>1. HealthInv => PagesHaveBatches
  BY DEF HealthInv, PagesInv
<1>2. QED
  BY <1>1, HealthInvariant, PTL

\* Callbacks that do not overlap use a state token once.
THEOREM StateTokensAreSpent == Spec => []StateUsedOnce
<1>1. HealthInv => StateUsedOnce
  BY DEF HealthInv, PagesInv
<1>2. QED
  BY <1>1, HealthInvariant, PTL

\* No ping makes a page ready that nobody has set up.
THEOREM OperatorsSetUpPages == Spec => []SetUpByOperator
<1>1. HealthInv => SetUpByOperator
  BY DEF HealthInv
<1>2. QED
  BY <1>1, HealthInvariant, PTL

\* A page is marked expired for a bad token or an outage, and for nothing else.
THEOREM AlarmsHaveCauses == Spec => []AlarmHasCause
<1>1. HealthInv => AlarmHasCause
  BY DEF HealthInv
<1>2. QED
  BY <1>1, HealthInvariant, PTL

\* An expired page was alerted or will be, through crashes and redeliveries.
THEOREM ExpiriesAreAlerted == Spec => []ExpiryIsAlerted
<1>1. HealthInv => ExpiryIsAlerted
  BY DEF HealthInv, Alerting, ExpiryIsAlerted, WillAlert
<1>2. QED
  BY <1>1, HealthInvariant, PTL

\* Only an editor heals an expired page that no ping is at work on.
THEOREM EditorsHealPages == Spec => HealedByEditor
<1>1. ASSUME HealthInv, [Next]_vars
      PROVE  [\A g \in Pages :
                status[g] = "token_expired" /\ queue[g] = 0 /\ (\A w \in Workers : job[w] # g) =>
                  status'[g] = "token_expired" \/ edits'[g] > edits[g]]_vars
  <2> SUFFICES ASSUME Next, NEW g \in Pages, status[g] = "token_expired",
                      \A w \in Workers : job[w] # g
               PROVE  status'[g] = "token_expired" \/ edits'[g] > edits[g]
    BY <1>1
  <2>1. CASE PagesNext
    BY <1>1, <2>1, PagesStep DEF HealthInv
  <2>2. CASE \/ \E h \in Pages : Sweep(h)
             \/ \E w \in Workers : \/ \E h \in Pages : PingRead(w, h)
                                   \/ Alert(w) \/ AlertCut(w) \/ PingFails(w) \/ Crash(w)
    BY <2>2 DEF Sweep, PingRead, Alert, AlertCut, PingFails, Crash, pagesVars, pageRows
  <2>3. ASSUME NEW w \in Workers, PingWrite(w) \/ PingOutage(w)
        PROVE  status'[g] = status[g]
    <3>1. PICK v : status' = [status EXCEPT ![job[w]] = v]
      BY <2>3 DEF PingWrite, PingOutage, WriteVerdict
    <3>2. QED
      BY <1>1, <3>1 DEF HealthInv, PagesInv, PagesTypeOK
  <2>4. QED
    BY <2>1, <2>2, <2>3 DEF Next, Work
<1>2. QED
  BY <1>1, HealthInvariant, PTL DEF Spec, HealedByEditor

=============================================================================
