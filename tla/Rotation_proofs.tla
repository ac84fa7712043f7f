-------------------------- MODULE Rotation_proofs --------------------------
(***************************************************************************)
(* Proofs about Rotation, for any workers, pages and posting IDs: its      *)
(* types, that the rotation is exact while transactions do not overlap,    *)
(* and how often an ID can be passed over when they do.                    *)
(***************************************************************************)
EXTENDS Rotation, TLAPS, FiniteSetTheorems

\* A worker that publishes does so with one of the candidates it loaded.
PickedCandidate ==
  \A w \in Workers : pc[w] = "call" => pick[w] \in candidates[w]

TypeInv == TypeOK /\ PickedCandidate

\* The initial states have their types.
LEMMA TypeInit == Init => TypeInv
<1> SUFFICES ASSUME Init PROVE TypeInv
  OBVIOUS
<1>1. passes \in [PostingIds -> [PostingIds -> Nat]]
  BY DEF Init
<1>2. /\ idStatus \in [PostingIds -> {"absent", "active", "retired"}]
      /\ clock \in Nat
      /\ lastUsed \in [PostingIds -> Nat] /\ \A x \in PostingIds : lastUsed[x] <= clock
      /\ began \in [Workers -> Nat] /\ \A w \in Workers : began[w] <= clock
  BY DEF Init
<1>3. /\ assigned \subseteq Pages \X Registered
      /\ assigning \subseteq Pages \X Registered
      /\ candidates \in [Workers -> SUBSET Registered]
  BY DEF Init
<1>4. /\ pc \in [Workers -> {"idle", "pick", "call"}]
      /\ page \in [Workers -> Pages \cup {NoPage}]
      /\ pick \in [Workers -> PostingIds \cup {NoPostingId}]
      /\ overlapped \in BOOLEAN
      /\ PickedCandidate
  BY DEF Init, PickedCandidate
<1>5. QED
  BY <1>1, <1>2, <1>3, <1>4 DEF TypeInv, TypeOK

\* Every step of the workers and of the requests keeps the types.
LEMMA TypeNext == TypeInv /\ [Next]_vars => TypeInv'
<1> SUFFICES ASSUME TypeInv, [Next]_vars PROVE TypeInv'
  OBVIOUS
<1> USE RotationConstants DEF TypeInv, TypeOK, PickedCandidate, Registered
<1>1. ASSUME NEW w \in Workers, NEW g \in Pages, Begin(w, g) PROVE TypeInv'
  BY <1>1 DEF Begin
<1>2. ASSUME NEW w \in Workers, NEW x \in PostingIds, Pick(w, x) PROVE TypeInv'
  <2>1. /\ page[w] \in Pages \cup {NoPage}
        /\ Active(page[w]) \subseteq Registered
        /\ x \in Active(page[w])
    BY <1>2 DEF Pick, Active, Oldest
  <2>2. candidates' \in [Workers -> SUBSET Registered]
    BY <1>2, <2>1 DEF Pick
  <2>3. Registered' = Registered
    BY <1>2 DEF Pick
  <2>4. PickedCandidate'
    BY <1>2, <2>1 DEF Pick
  <2>5. pc' \in [Workers -> {"idle", "pick", "call"}] /\ pick' \in [Workers -> PostingIds \cup {NoPostingId}]
    BY <1>2 DEF Pick
  <2>6. UNCHANGED <<idStatus, lastUsed, assigned, assigning, clock, page, began, passes, overlapped>>
    BY <1>2 DEF Pick, history
  <2>7. TypeOK'
    BY <2>2, <2>3, <2>5, <2>6
  <2>8. QED
    BY <2>4, <2>7
<1>3. ASSUME NEW w \in Workers, Pause(w) PROVE TypeInv'
  BY <1>3 DEF Pause, EndTransaction, history
<1>4. ASSUME NEW w \in Workers, RecordUse(w) PROVE TypeInv'
  <2>1. pick[w] \in PostingIds
    BY <1>4 DEF RecordUse
  <2>2. passes' \in [PostingIds -> [PostingIds -> Nat]]
    BY <1>4, <2>1 DEF RecordUse, CountPasses
  <2>3. lastUsed' \in [PostingIds -> Nat] /\ \A x \in PostingIds : lastUsed'[x] <= clock'
    BY <1>4, <2>1 DEF RecordUse
  <2>4. QED
    BY <1>4, <2>2, <2>3 DEF RecordUse, EndTransaction
<1>5. ASSUME NEW w \in Workers, NoUse(w) PROVE TypeInv'
  BY <1>5 DEF NoUse, EndTransaction, history
<1>6. ASSUME NEW w \in Workers, Revoked(w) PROVE TypeInv'
  <2>1. pick[w] \in PostingIds
    BY <1>6 DEF Revoked
  <2>2. idStatus' \in [PostingIds -> {"absent", "active", "retired"}] /\ Registered' = Registered
    BY <1>6, <2>1 DEF Revoked
  <2>3. QED
    BY <1>6, <2>2 DEF Revoked, EndTransaction, history
<1>7. ASSUME NEW x \in PostingIds, CreatePostingId(x) \/ RetirePostingId(x) PROVE TypeInv'
  <2>1. idStatus' \in [PostingIds -> {"absent", "active", "retired"}] /\ Registered \subseteq Registered'
    BY <1>7 DEF CreatePostingId, RetirePostingId
  <2>2. QED
    BY <1>7, <2>1 DEF CreatePostingId, RetirePostingId, worker, history
<1>8. ASSUME NEW x \in PostingIds, NEW g \in Pages,
             AssignCheck(g, x) \/ AssignInsert(g, x) \/ Unassign(g, x)
      PROVE TypeInv'
  BY <1>8 DEF AssignCheck, AssignInsert, Unassign, worker, history
<1>9. CASE UNCHANGED vars
  BY <1>9 DEF vars, worker, history
<1>10. QED
  BY <1>1, <1>2, <1>3, <1>4, <1>5, <1>6, <1>7, <1>8, <1>9 DEF Next

\* The variables of the rotation keep their types: no assignment or use
\* refers to a posting ID that does not exist, and no time lies in the future.
THEOREM RotationTypes == Spec => []TypeOK
<1>1. Init => TypeInv
  BY TypeInit
<1>2. TypeInv /\ [Next]_vars => TypeInv'
  BY TypeNext
<1>3. TypeInv => TypeOK
  BY DEF TypeInv
<1>4. QED
  BY <1>1, <1>2, <1>3, PTL DEF Spec

-----------------------------------------------------------------------------
\* Until transactions overlap, at most one is open, it began after every use
\* recorded so far, and what it picked was used no later than its rivals.
OneAtATime ==
  \A v, w \in Workers : pc[v] # "idle" /\ pc[w] # "idle" => v = w

BeganLast ==
  \A w \in Workers : pc[w] # "idle" => \A x \in PostingIds : lastUsed[x] < began[w]

PickedOldest ==
  \A w \in Workers : pc[w] = "call" =>
    \A y \in candidates[w] : lastUsed[pick[w]] <= lastUsed[y]

\* A candidate that was passed over has been used less recently.
PassedIsOlder ==
  \A x, y \in PostingIds :
    passes[x][y] = 0 \/ (passes[x][y] = 1 /\ lastUsed[x] < lastUsed[y])

Serial == OneAtATime /\ BeganLast /\ PickedOldest /\ PassedIsOlder

SerialInv == TypeInv /\ (~overlapped => Serial)

\* The initial states satisfy the invariant of serial runs.
LEMMA SerialInit == Init => SerialInv
<1> SUFFICES ASSUME Init PROVE SerialInv
  OBVIOUS
<1>1. OneAtATime /\ BeganLast /\ PickedOldest
  BY DEF Init, OneAtATime, BeganLast, PickedOldest
<1>2. PassedIsOlder
  BY DEF Init, PassedIsOlder
<1>3. QED
  BY <1>1, <1>2, TypeInit DEF SerialInv, Serial

\* Every step keeps the invariant of serial runs.
LEMMA SerialNext == SerialInv /\ [Next]_vars => SerialInv'
<1> SUFFICES ASSUME SerialInv, [Next]_vars, ~overlapped' PROVE Serial'
  BY TypeNext DEF SerialInv
<1>0. TypeInv /\ TypeInv' /\ ~overlapped /\ Serial
  <2>1. TypeInv'
    BY TypeNext DEF SerialInv
  <2>2. overlapped => overlapped'
    BY DEF SerialInv, TypeInv, TypeOK, Next, vars, worker, history, Begin, Pick, Pause, RecordUse, NoUse,
           Revoked, CreatePostingId, RetirePostingId, AssignCheck, AssignInsert, Unassign
  <2>3. QED
    BY <2>1, <2>2 DEF SerialInv
<1> USE <1>0 DEF TypeInv, TypeOK, PickedCandidate, Serial, OneAtATime, BeganLast, PickedOldest, PassedIsOlder
<1>1. ASSUME NEW w \in Workers, NEW g \in Pages, Begin(w, g) PROVE Serial'
  <2>1. \A v \in Workers : pc[v] = "idle"
    BY <1>1 DEF Begin
  <2>2. OneAtATime' /\ PickedOldest' /\ PassedIsOlder'
    BY <1>1, <2>1 DEF Begin
  <2>3. BeganLast'
    BY <1>1, <2>1 DEF Begin
  <2>4. QED
    BY <2>2, <2>3
<1>2. ASSUME NEW w \in Workers, NEW x \in PostingIds, Pick(w, x) PROVE Serial'
  <2>1. OneAtATime' /\ BeganLast' /\ PassedIsOlder'
    BY <1>2 DEF Pick, history
  <2>2. PickedOldest'
    BY <1>2 DEF Pick, history, Oldest
  <2>3. QED
    BY <2>1, <2>2
<1>3. ASSUME NEW w \in Workers, Pause(w) \/ NoUse(w) \/ Revoked(w) PROVE Serial'
  <2>1. UNCHANGED <<lastUsed, passes>> /\ EndTransaction(w)
    BY <1>3 DEF Pause, NoUse, Revoked, history
  <2>2. OneAtATime' /\ BeganLast' /\ PassedIsOlder'
    BY <2>1 DEF EndTransaction
  <2>3. PickedOldest'
    BY <2>1 DEF EndTransaction
  <2>4. QED
    BY <2>2, <2>3
<1>4. ASSUME NEW w \in Workers, RecordUse(w) PROVE Serial'
  <2> DEFINE x == pick[w]
  <2>1. /\ x \in PostingIds
        /\ lastUsed' = [lastUsed EXCEPT ![x] = began[w]]
        /\ \A y \in PostingIds : lastUsed[y] < began[w]
        /\ \A y \in candidates[w] : lastUsed[x] <= lastUsed[y]
    BY <1>4 DEF RecordUse, Registered
  <2>2. \A v \in Workers : pc'[v] = "idle"
    BY <1>4 DEF RecordUse, EndTransaction
  <2>3. ASSUME NEW y \in PostingIds, NEW z \in PostingIds
        PROVE passes'[y][z] = 0 \/ (passes'[y][z] = 1 /\ lastUsed'[y] < lastUsed'[z])
    <3>1. CASE y = x
      BY <1>4, <2>1, <3>1 DEF RecordUse, CountPasses
    <3>2. CASE y # x /\ y \in candidates[w] /\ z = x
      <4>1. passes[y][x] = 0
        BY <2>1, <3>2
      <4>2. QED
        BY <1>4, <2>1, <3>2, <4>1 DEF RecordUse, CountPasses
    <3>3. CASE y # x /\ ~(y \in candidates[w] /\ z = x)
      <4>1. passes'[y][z] = passes[y][z]
        BY <1>4, <2>1, <3>3 DEF RecordUse, CountPasses
      <4>2. lastUsed'[y] = lastUsed[y] /\ lastUsed[z] <= lastUsed'[z]
        BY <2>1, <3>3
      <4>3. QED
        BY <4>1, <4>2
    <3>4. QED
      BY <3>1, <3>2, <3>3
  <2>4. PassedIsOlder'
    BY <2>3
  <2>5. QED
    BY <2>2, <2>4
<1>5. ASSUME NEW x \in PostingIds, CreatePostingId(x) \/ RetirePostingId(x) PROVE Serial'
  BY <1>5 DEF CreatePostingId, RetirePostingId, worker, history
<1>6. ASSUME NEW x \in PostingIds, NEW g \in Pages,
             AssignCheck(g, x) \/ AssignInsert(g, x) \/ Unassign(g, x)
      PROVE Serial'
  BY <1>6 DEF AssignCheck, AssignInsert, Unassign, worker, history
<1>7. CASE UNCHANGED vars
  BY <1>7 DEF vars, worker, history
<1>8. QED
  BY <1>1, <1>2, <1>3, <1>4, <1>5, <1>6, <1>7 DEF Next

\* While no two transactions have been open at once, a candidate is passed
\* over by another at most once between its turns.
THEOREM RotationIsExact == Spec => []SerialTurns
<1>1. Init => SerialInv
  BY SerialInit
<1>2. SerialInv /\ [Next]_vars => SerialInv'
  BY SerialNext
<1>3. SerialInv => SerialTurns
  BY DEF SerialInv, TypeInv, TypeOK, Serial, PassedIsOlder, SerialTurns
<1>4. QED
  BY <1>1, <1>2, <1>3, PTL DEF Spec

-----------------------------------------------------------------------------
W == Cardinality(Workers)

\* The transactions that began no later than the last recorded use of x: only
\* they can set the time of another ID back behind that of x.
Old(x) == {w \in Workers : pc[w] # "idle" /\ began[w] <= lastUsed[x]}

\* The transactions that picked y and will pass x over when they record it.
Callers(x, y) == {w \in Workers : pc[w] = "call" /\ pick[w] = y /\ x \in candidates[w]}

\* How often y can still be recorded before x: while y was used later than x no
\* worker picks it, and those that did record it once; each old transaction may
\* set its time back, after which every worker can pick it again.
Budget(x, y) ==
  IF lastUsed[y] <= lastUsed[x]
  THEN W * (Cardinality(Old(x)) + 1)
  ELSE Cardinality(Callers(x, y)) + W * Cardinality(Old(x))

WithinBudget ==
  \A x, y \in PostingIds : x # y => passes[x][y] + Budget(x, y) <= W * W

NeverPassesItself == \A x \in PostingIds : passes[x][x] = 0

BudgetInv == TypeInv /\ WithinBudget /\ NeverPassesItself

\* Arithmetic of the budget.
LEMMA Rounds ==
  /\ W \in Nat /\ W * W \in Nat /\ W <= W * W
  /\ \A a \in Nat : W * a \in Nat /\ W * (a + 1) = W * a + W
  /\ \A a, b \in Nat : a <= b => W * a <= W * b
  /\ \A a \in Nat : a < W => W * a + W <= W * W
<1>1. W \in Nat
  BY FS_CardinalityType, RotationConstants DEF W
<1> HIDE DEF W
<1>2. \A c, a, b \in Nat : /\ c * a \in Nat /\ c * (a + 1) = c * a + c
                           /\ a <= b => c * a <= c * b
  BY SMT
<1>3. W * W \in Nat /\ W <= W * W
  <2>1. CASE W = 0
    BY <2>1
  <2>2. CASE W # 0
    <3>1. W - 1 \in Nat /\ (W - 1) + 1 = W
      BY <1>1, <2>2
    <3>2. W * W = W * (W - 1) + W /\ W * (W - 1) \in Nat
      BY <1>1, <1>2, <3>1
    <3>3. QED
      BY <1>1, <3>2
  <2>3. QED
    BY <2>1, <2>2
<1>4. ASSUME NEW a \in Nat, a < W PROVE W * a + W <= W * W
  <2>1. a + 1 \in Nat /\ a + 1 <= W
    BY <1>1, <1>4
  <2>2. QED
    BY <1>1, <1>2, <2>1
<1>5. QED
  BY <1>1, <1>2, <1>3, <1>4

\* The sets of workers are finite, and one without some worker is smaller.
LEMMA WorkersBound ==
  ASSUME NEW A \in SUBSET Workers
  PROVE  /\ IsFiniteSet(A) /\ Cardinality(A) \in Nat /\ Cardinality(A) <= W
         /\ \A B \in SUBSET A : Cardinality(B) \in Nat /\ Cardinality(B) <= Cardinality(A)
         /\ \A w \in A : Cardinality(A \ {w}) = Cardinality(A) - 1
<1>1. IsFiniteSet(A) /\ Cardinality(A) <= W
  BY FS_Subset, RotationConstants DEF W
<1>2. \A B \in SUBSET A : IsFiniteSet(B) /\ Cardinality(B) <= Cardinality(A)
  BY <1>1, FS_Subset
<1>3. QED
  BY <1>1, <1>2, FS_CardinalityType, FS_RemoveElement

\* A step that moves no time and no count, and adds neither an old transaction
\* nor a caller, keeps the budget.
LEMMA QuietStep ==
  ASSUME TypeInv, TypeInv', NEW x \in PostingIds, NEW y \in PostingIds,
         passes[x][y] + Budget(x, y) <= W * W,
         passes'[x][y] = passes[x][y],
         lastUsed'[x] = lastUsed[x], lastUsed'[y] = lastUsed[y],
         Old(x)' \subseteq Old(x),
         lastUsed[y] <= lastUsed[x] \/ Callers(x, y)' \subseteq Callers(x, y)
  PROVE  (passes[x][y] + Budget(x, y) <= W * W)'
<1> DEFINE o == Cardinality(Old(x))
           p == Cardinality(Old(x)')
           c == Cardinality(Callers(x, y))
           d == Cardinality(Callers(x, y)')
           n == passes[x][y]
<1>1. Old(x) \subseteq Workers /\ Callers(x, y) \subseteq Workers /\ Callers(x, y)' \subseteq Workers
  BY DEF Old, Callers
<1>2. o \in Nat /\ p \in Nat /\ p <= o /\ c \in Nat /\ d \in Nat
  BY <1>1, WorkersBound
<1>3. lastUsed[y] <= lastUsed[x] \/ d <= c
  BY <1>1, WorkersBound
<1>4. n \in Nat
  BY DEF TypeInv, TypeOK
<1>5. n + (IF lastUsed[y] <= lastUsed[x] THEN W * (o + 1) ELSE c + W * o) <= W * W
  BY DEF Budget
<1>6. p + 1 \in Nat /\ o + 1 \in Nat /\ p + 1 <= o + 1
  BY <1>2
<1>7. /\ W * p \in Nat /\ W * o \in Nat /\ W * p <= W * o
      /\ W * (p + 1) \in Nat /\ W * (o + 1) \in Nat /\ W * (p + 1) <= W * (o + 1)
      /\ W * W \in Nat
  BY <1>2, <1>6, Rounds
<1>8. n + (IF lastUsed[y] <= lastUsed[x] THEN W * (p + 1) ELSE d + W * p) <= W * W
  <2> HIDE DEF n, o, p, c, d
  <2> QED BY <1>3, <1>4, <1>5, <1>7, <1>2
<1>9. Budget(x, y)' = IF lastUsed[y] <= lastUsed[x] THEN W * (p + 1) ELSE d + W * p
  BY DEF Budget, W
<1>10. QED
  BY <1>8, <1>9

\* When z is published, its own count starts again: one of the workers is idle
\* now, so the others have at most a round each.
LEMMA RecordsItself ==
  ASSUME TypeInv, TypeInv', NEW w \in Workers, RecordUse(w),
         NEW z \in PostingIds, pick[w] = z, NEW y \in PostingIds, y # z
  PROVE  (passes[z][y] + Budget(z, y) <= W * W)'
<1> DEFINE p == Cardinality(Old(z)')
           d == Cardinality(Callers(z, y)')
<1>1. passes'[z][y] = 0
  BY DEF RecordUse, CountPasses
<1>2. Old(z)' \subseteq Workers \ {w} /\ Callers(z, y)' \subseteq Workers
  BY DEF RecordUse, EndTransaction, TypeInv, TypeOK, Old, Callers
<1>3. p \in Nat /\ d \in Nat /\ d <= W /\ p <= W - 1
  <2>1. Workers \ {w} \in SUBSET Workers /\ Cardinality(Workers \ {w}) = W - 1
    BY WorkersBound DEF W
  <2>2. QED
    BY <1>2, <2>1, WorkersBound
<1>4. p < W /\ W \in Nat
  BY <1>3, Rounds
<1>5. /\ W * p \in Nat /\ W * W \in Nat
      /\ W * (p + 1) = W * p + W /\ W * p + W <= W * W
  BY <1>3, <1>4, Rounds
<1>6. Budget(z, y)' \in {W * (p + 1), d + W * p}
  BY DEF Budget, W
<1>7. 0 + Budget(z, y)' <= W * W
  <2> HIDE DEF p, d
  <2> QED BY <1>3, <1>4, <1>5, <1>6
<1>8. QED
  BY <1>1, <1>7

\* When z is published and x may have been passed over, the budget of x pays
\* for it: with an old transaction, or with a caller.
LEMMA RecordsAnother ==
  ASSUME TypeInv, TypeInv', NEW w \in Workers, RecordUse(w),
         NEW z \in PostingIds, pick[w] = z, NEW x \in PostingIds, x # z,
         passes[x][z] + Budget(x, z) <= W * W
  PROVE  (passes[x][z] + Budget(x, z) <= W * W)'
<1> DEFINE o == Cardinality(Old(x))
           p == Cardinality(Old(x)')
           c == Cardinality(Callers(x, z))
           d == Cardinality(Callers(x, z)')
           n == passes[x][z]
<1>1. /\ pc[w] = "call" /\ pc' = [pc EXCEPT ![w] = "idle"] /\ began' = [began EXCEPT ![w] = 0]
      /\ pick' = [pick EXCEPT ![w] = NoPostingId] /\ candidates' = [candidates EXCEPT ![w] = {}]
      /\ lastUsed' = [lastUsed EXCEPT ![z] = began[w]]
  BY DEF RecordUse, EndTransaction
<1>2. /\ pc \in [Workers -> {"idle", "pick", "call"}] /\ began \in [Workers -> Nat]
      /\ pick \in [Workers -> PostingIds \cup {NoPostingId}] /\ candidates \in [Workers -> SUBSET Registered]
      /\ lastUsed \in [PostingIds -> Nat] /\ n \in Nat
  BY DEF TypeInv, TypeOK
<1>3. passes'[x][z] = IF x \in candidates[w] THEN n + 1 ELSE n
  BY DEF RecordUse, CountPasses, TypeInv, TypeOK
<1>4. lastUsed'[x] = lastUsed[x] /\ lastUsed'[z] = began[w]
  BY <1>1, <1>2
<1>5. Old(x)' = Old(x) \ {w} /\ Callers(x, z)' = Callers(x, z) \ {w}
  BY <1>1, <1>2, <1>4 DEF Old, Callers
<1>6. (w \in Old(x) <=> began[w] <= lastUsed[x]) /\ (w \in Callers(x, z) <=> x \in candidates[w])
  BY <1>1 DEF Old, Callers
<1>7. Old(x) \subseteq Workers /\ Callers(x, z) \subseteq Workers /\ Callers(x, z) \ {w} \subseteq Workers \ {w}
  BY DEF Old, Callers
<1>8. /\ o \in Nat /\ c \in Nat /\ d \in Nat /\ d <= c /\ d <= W - 1
      /\ w \in Old(x) => p = o - 1 /\ o # 0
      /\ w \notin Old(x) => p = o
      /\ w \in Callers(x, z) => d = c - 1
  <2>1. Cardinality(Workers \ {w}) = W - 1
    BY WorkersBound DEF W
  <2>2. o \in Nat /\ c \in Nat /\ d \in Nat /\ d <= c /\ d <= W - 1
    BY <1>5, <1>7, <2>1, WorkersBound
  <2>3. w \in Old(x) => p = o - 1 /\ o # 0
    <3>1. w \in Old(x) => p = o - 1 /\ p \in Nat
      BY <1>5, <1>7, WorkersBound
    <3>2. QED
      BY <2>2, <3>1
  <2>4. w \notin Old(x) => p = o
    <3>1. w \notin Old(x) => Old(x) \ {w} = Old(x)
      OBVIOUS
    <3>2. QED
      BY <1>5, <3>1
  <2>5. w \in Callers(x, z) => d = c - 1
    BY <1>5, <1>7, WorkersBound
  <2>6. QED
    BY <2>2, <2>3, <2>4, <2>5
<1>9. n + (IF lastUsed[z] <= lastUsed[x] THEN W * (o + 1) ELSE c + W * o) <= W * W
  BY DEF Budget
<1>10. Budget(x, z)' = IF began[w] <= lastUsed[x] THEN W * (p + 1) ELSE d + W * p
  BY <1>4 DEF Budget, W
<1>11. /\ W \in Nat /\ W * W \in Nat /\ W * o \in Nat
       /\ W * (o + 1) = W * o + W
  BY <1>8, Rounds
<1>12. CASE began[w] <= lastUsed[x]
  <2>1. p + 1 = o /\ W >= 1
    BY <1>6, <1>8, <1>11, <1>12
  <2>2. Budget(x, z)' = W * o
    BY <1>10, <1>12, <2>1
  <2>3. x \in candidates[w] => c >= 1
    BY <1>6, <1>8
  <2> DEFINE A == W * o
             m == passes'[x][z]
             B == Budget(x, z)'
  <2>4. m + B <= W * W
    <3> HIDE DEF n, o, c, d, p, A, m
    <3>1. /\ A \in Nat /\ B = A /\ m = IF x \in candidates[w] THEN n + 1 ELSE n
          /\ n + (IF lastUsed[z] <= lastUsed[x] THEN A + W ELSE c + A) <= W * W
      BY <1>3, <1>9, <1>11, <2>2 DEF A, m
    <3>2. QED
      BY <1>2, <1>8, <1>11, <2>1, <2>3, <3>1
  <2>5. QED
    BY <2>4
<1>13. CASE ~(began[w] <= lastUsed[x])
  <2>1. p = o /\ (x \in candidates[w] => d + 1 = c) /\ d + 1 <= W
    BY <1>6, <1>8, <1>11, <1>13
  <2>2. Budget(x, z)' = d + W * o
    BY <1>10, <1>13, <2>1
  <2> DEFINE A == W * o
             m == passes'[x][z]
             B == Budget(x, z)'
  <2>3. m + B <= W * W
    <3> HIDE DEF n, o, c, d, p, A, m
    <3>1. /\ A \in Nat /\ B = d + A /\ m = IF x \in candidates[w] THEN n + 1 ELSE n
          /\ n + (IF lastUsed[z] <= lastUsed[x] THEN A + W ELSE c + A) <= W * W
      BY <1>3, <1>9, <1>11, <2>2 DEF A, m
    <3>2. QED
      BY <1>2, <1>8, <1>11, <2>1, <3>1
  <2>4. QED
    BY <2>3
<1>14. QED
  BY <1>12, <1>13

\* Nothing has been passed over at the start, and each worker makes one round.
LEMMA BudgetInit == Init => BudgetInv
<1> SUFFICES ASSUME Init PROVE BudgetInv
  OBVIOUS
<1>1. ASSUME NEW x \in PostingIds, NEW y \in PostingIds
      PROVE  passes[x][y] = 0 /\ passes[x][y] + Budget(x, y) <= W * W
  <2>1. Old(x) = {} /\ lastUsed[y] <= lastUsed[x] /\ passes[x][y] = 0
    BY DEF Init, Old
  <2>2. Budget(x, y) = W * (0 + 1)
    BY <2>1, FS_EmptySet DEF Budget
  <2>3. W * 0 = 0 /\ W * (0 + 1) = W * 0 + W /\ W \in Nat /\ W <= W * W
    BY Rounds
  <2>4. QED
    BY <2>1, <2>2, <2>3
<1>2. QED
  BY <1>1, TypeInit DEF BudgetInv, WithinBudget, NeverPassesItself

\* Every step keeps the budget: to begin and to pick spend nothing, and a use that
\* is recorded what it uses up.
LEMMA BudgetNext == BudgetInv /\ [Next]_vars => BudgetInv'
<1> SUFFICES ASSUME BudgetInv, [Next]_vars PROVE WithinBudget' /\ NeverPassesItself'
  BY TypeNext DEF BudgetInv
<1>1. TypeInv /\ TypeInv' /\ WithinBudget /\ NeverPassesItself
  BY TypeNext DEF BudgetInv
<1>2. /\ clock \in Nat /\ began \in [Workers -> Nat] /\ pc \in [Workers -> {"idle", "pick", "call"}]
      /\ pick \in [Workers -> PostingIds \cup {NoPostingId}]
      /\ candidates \in [Workers -> SUBSET Registered]
      /\ lastUsed \in [PostingIds -> Nat] /\ \A x \in PostingIds : lastUsed[x] <= clock
      /\ passes \in [PostingIds -> [PostingIds -> Nat]]
      /\ \A w \in Workers : pc[w] = "call" => pick[w] \in PostingIds
  BY <1>1 DEF TypeInv, TypeOK, PickedCandidate, Registered
<1>3. ASSUME UNCHANGED <<passes, lastUsed>>,
             \A x, y \in PostingIds :
               /\ Old(x)' \subseteq Old(x)
               /\ lastUsed[y] <= lastUsed[x] \/ Callers(x, y)' \subseteq Callers(x, y)
      PROVE  WithinBudget' /\ NeverPassesItself'
  <2>1. NeverPassesItself'
    BY <1>1, <1>3 DEF NeverPassesItself
  <2>2. ASSUME NEW x \in PostingIds, NEW y \in PostingIds, x # y
        PROVE  (passes[x][y] + Budget(x, y) <= W * W)'
    <3>1. passes[x][y] + Budget(x, y) <= W * W
      BY <1>1, <2>2 DEF WithinBudget
    <3>2. QED
      BY <1>1, <1>3, <3>1, QuietStep
  <2>3. QED
    BY <2>1, <2>2 DEF WithinBudget
<1>4. ASSUME NEW w \in Workers, NEW g \in Pages, Begin(w, g) PROVE WithinBudget' /\ NeverPassesItself'
  <2>1. UNCHANGED <<passes, lastUsed>>
    BY <1>4 DEF Begin
  <2>2. ASSUME NEW x \in PostingIds, NEW y \in PostingIds
        PROVE  Old(x)' \subseteq Old(x) /\ Callers(x, y)' \subseteq Callers(x, y)
    <3>1. ~(clock + 1 <= lastUsed[x])
      BY <1>2
    <3>2. QED
      BY <1>2, <1>4, <3>1 DEF Begin, Old, Callers
  <2>3. QED
    BY <1>3, <2>1, <2>2
<1>5. ASSUME NEW w \in Workers, NEW z \in PostingIds, Pick(w, z) PROVE WithinBudget' /\ NeverPassesItself'
  <2>1. UNCHANGED <<passes, lastUsed>>
    BY <1>5 DEF Pick, history
  <2>2. ASSUME NEW x \in PostingIds, NEW y \in PostingIds
        PROVE  /\ Old(x)' \subseteq Old(x)
               /\ lastUsed[y] <= lastUsed[x] \/ Callers(x, y)' \subseteq Callers(x, y)
    <3>1. Old(x)' \subseteq Old(x)
      BY <1>2, <1>5 DEF Pick, Old
    <3>2. CASE y = z /\ x \in Active(page[w])
      BY <1>5, <3>1, <3>2 DEF Pick, Oldest
    <3>3. CASE ~(y = z /\ x \in Active(page[w]))
      BY <1>2, <1>5, <3>1, <3>3 DEF Pick, Callers
    <3>4. QED
      BY <3>2, <3>3
  <2>3. QED
    BY <1>3, <2>1, <2>2
<1>6. ASSUME NEW w \in Workers, Pause(w) \/ NoUse(w) \/ Revoked(w) PROVE WithinBudget' /\ NeverPassesItself'
  <2>1. UNCHANGED <<passes, lastUsed>> /\ EndTransaction(w)
    BY <1>6 DEF Pause, NoUse, Revoked, history
  <2>2. \A x, y \in PostingIds : Old(x)' \subseteq Old(x) /\ Callers(x, y)' \subseteq Callers(x, y)
    BY <1>2, <2>1 DEF EndTransaction, Old, Callers
  <2>3. QED
    BY <1>3, <2>1, <2>2
<1>7. ASSUME NEW w \in Workers, RecordUse(w) PROVE WithinBudget' /\ NeverPassesItself'
  <2> DEFINE z == pick[w]
  <2>1. z \in PostingIds
    BY <1>2, <1>7 DEF RecordUse
  <2>2. NeverPassesItself'
    BY <1>1, <1>2, <1>7, <2>1 DEF RecordUse, CountPasses, NeverPassesItself
  <2>3. ASSUME NEW x \in PostingIds, NEW y \in PostingIds, x # y
        PROVE  (passes[x][y] + Budget(x, y) <= W * W)'
    <3>1. passes[x][y] + Budget(x, y) <= W * W
      BY <1>1, <2>3 DEF WithinBudget
    <3>2. CASE x = z
      BY <1>1, <1>7, <2>3, <3>2, RecordsItself
    <3>3. CASE x # z /\ y = z
      BY <1>1, <1>7, <3>1, <3>3, RecordsAnother
    <3>4. CASE x # z /\ y # z
      <4>1. passes'[x][y] = passes[x][y]
        BY <1>2, <1>7, <2>1, <3>4 DEF RecordUse, CountPasses
      <4>2. lastUsed'[x] = lastUsed[x] /\ lastUsed'[y] = lastUsed[y]
        BY <1>2, <1>7, <3>4 DEF RecordUse
      <4>3. Old(x)' \subseteq Old(x) /\ Callers(x, y)' \subseteq Callers(x, y)
        BY <1>2, <1>7, <4>2 DEF RecordUse, EndTransaction, Old, Callers
      <4>4. QED
        BY <1>1, <3>1, <4>1, <4>2, <4>3, QuietStep
    <3>5. QED
      BY <3>2, <3>3, <3>4
  <2>4. QED
    BY <2>2, <2>3 DEF WithinBudget
<1>8. CASE UNCHANGED <<passes, lastUsed, worker>>
  BY <1>3, <1>8 DEF worker, Old, Callers
<1>9. QED
  BY <1>4, <1>5, <1>6, <1>7, <1>8
  DEF Next, vars, history, CreatePostingId, RetirePostingId, AssignCheck, AssignInsert, Unassign

\* However transactions overlap, while x stays a candidate y is published at
\* most as often as one round of all workers for each worker.
THEOREM OvertakingIsBounded == Spec => []BoundedOvertaking
<1>1. Init => BudgetInv
  BY BudgetInit
<1>2. BudgetInv /\ [Next]_vars => BudgetInv'
  BY BudgetNext
<1>3. BudgetInv => BoundedOvertaking
  <2>1. SUFFICES ASSUME BudgetInv, NEW x \in PostingIds, NEW y \in PostingIds
                 PROVE  passes[x][y] <= W * W
    BY DEF BoundedOvertaking, W
  <2>2. CASE x = y
    BY <2>1, <2>2, Rounds DEF BudgetInv, NeverPassesItself
  <2>3. CASE x # y
    <3>1. Cardinality(Old(x)) \in Nat /\ Cardinality(Callers(x, y)) \in Nat
      <4>1. Old(x) \subseteq Workers /\ Callers(x, y) \subseteq Workers
        BY DEF Old, Callers
      <4>2. QED
        BY <4>1, WorkersBound
    <3>2. Budget(x, y) \in Nat
      <4>1. W * Cardinality(Old(x)) \in Nat /\ W * (Cardinality(Old(x)) + 1) \in Nat
        BY <3>1, Rounds
      <4>2. QED
        BY <3>1, <4>1 DEF Budget
    <3>3. passes[x][y] \in Nat /\ passes[x][y] + Budget(x, y) <= W * W
      BY <2>1, <2>3 DEF BudgetInv, WithinBudget, TypeInv, TypeOK
    <3>4. W * W \in Nat
      BY Rounds
    <3>5. QED
      BY <3>2, <3>3, <3>4
  <2>4. QED
    BY <2>2, <2>3
<1>4. QED
  BY <1>1, <1>2, <1>3, PTL DEF Spec

=============================================================================
