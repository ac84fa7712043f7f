--------------------------- MODULE Storage_proofs ---------------------------
(***************************************************************************)
(* Proofs about Storage, for any posts, keys, rows, hashes, sizes and API  *)
(* processes: its types, why a media row can lack its object, what the     *)
(* usage counts, when two media can have one content or one place, and     *)
(* that Storage implements StorageLedger.                                  *)
(***************************************************************************)
EXTENDS Storage, TLAPS, FiniteSetTheorems, FunctionTheorems

\* Induction over the parts of a finite set, for a set of parts: the library's
\* theorem takes a predicate as its parameter.
LEMMA SetInduction ==
  ASSUME NEW S, IsFiniteSet(S), NEW G,
         \A T \in SUBSET S : (\A x \in T : T \ {x} \in G) => T \in G
  PROVE  SUBSET S \subseteq G
<1> DEFINE R == StrictSubsetOrdering(S)
           B == (SUBSET S) \ G
<1>1. IsWellFoundedOn(R, SUBSET S)
  BY FS_StrictSubsetOrderingWellFounded, FS_FiniteSubsetsOfFinite
<1>2. SUFFICES ASSUME B # {} PROVE FALSE
  OBVIOUS
<1>3. PICK T \in B : \A U \in B : <<U, T>> \notin R
  <2>1. B \subseteq SUBSET S
    OBVIOUS
  <2> HIDE DEF R, B
  <2> QED BY <1>1, <1>2, <2>1, WFMin
<1>4. ASSUME NEW x \in T PROVE T \ {x} \in G
  <2>1. <<T \ {x}, T>> \in R
    BY <1>3, <1>4 DEF StrictSubsetOrdering
  <2> HIDE DEF R
  <2> QED BY <1>3, <2>1
<1>5. QED
  BY <1>3, <1>4

\* A set of naturals that is not empty has an element whose predecessor is not in
\* it.
LEMMA LeastNumber ==
  ASSUME NEW B, B \subseteq Nat, B # {}
  PROVE  \E n \in B : n - 1 \notin B
<1>1. PICK n \in B : \A m \in B : <<m, n>> \notin OpToRel(<, Nat)
  BY NatLessThanWellFounded, WFMin
<1>2. ASSUME n - 1 \in B PROVE FALSE
  <2>1. <<n - 1, n>> \in Nat \X Nat /\ n - 1 < n
    BY <1>2
  <2>2. <<n - 1, n>> \in OpToRel(<, Nat)
    BY <2>1 DEF OpToRel
  <2>3. QED
    BY <1>1, <1>2, <2>2
<1>3. QED
  BY <1>1, <1>2

-----------------------------------------------------------------------------
\* Sums over sets. The fold of the community modules is the value, at S, of a
\* function g on the subsets of S that satisfies Sums(f, S, g): it takes the
\* elements in the order in which CHOOSE picks them.
Chosen(T) == CHOOSE x \in T : TRUE

Summed(f, T, g) == IF T = {} THEN 0 ELSE f[Chosen(T)] + g[T \ {Chosen(T)}]

Sums(f, S, g) == g = [T \in SUBSET S |-> Summed(f, T, g)]

\* The sum of f over S.
Total(f, S) == MapThenSumSet(LAMBDA x : f[x], S)

\* The total is the value of the solution that CHOOSE picks.
LEMMA TotalIsChosen ==
  ASSUME NEW f, NEW S
  PROVE  Total(f, S) = (CHOOSE g : Sums(f, S, g))[S]
BY DEF Total, Sums, Summed, Chosen, MapThenSumSet, MapThenFoldSet

\* There is a solution on the subsets of at most n elements for every n:
\* otherwise one on those of n - 1 elements would extend to the least n without.
LEMMA SumsExist ==
  ASSUME NEW f, NEW S, IsFiniteSet(S)
  PROVE  \E g : Sums(f, S, g)
<1> DEFINE
  Upto(n) == {T \in SUBSET S : Cardinality(T) <= n}
  Solves(g, n) == g = [T \in Upto(n) |-> Summed(f, T, g)]
  B == {n \in Nat : ~ \E g : Solves(g, n)}
<1>1. ASSUME NEW T \in SUBSET S
      PROVE  /\ Cardinality(T) \in Nat /\ Cardinality(T) <= Cardinality(S)
             /\ T # {} => /\ Chosen(T) \in T
                          /\ T \ {Chosen(T)} \in SUBSET S
                          /\ Cardinality(T \ {Chosen(T)}) = Cardinality(T) - 1
             /\ Cardinality(T) = 0 => T = {}
  <2>1. IsFiniteSet(T) /\ Cardinality(T) \in Nat /\ Cardinality(T) <= Cardinality(S)
    BY FS_Subset, FS_CardinalityType
  <2>2. T # {} => Chosen(T) \in T
    BY DEF Chosen
  <2>3. QED
    BY <2>1, <2>2, FS_RemoveElement, FS_EmptySet
<1>2. B = {}
  <2>1. SUFFICES ASSUME NEW n \in B, n - 1 \notin B PROVE FALSE
    BY LeastNumber
  <2>2. n # 0
    <3> DEFINE z == [T \in Upto(0) |-> 0]
    <3>1. ASSUME NEW T \in Upto(0) PROVE T = {}
      <4>1. Cardinality(T) \in Nat /\ Cardinality(T) <= 0
        BY <1>1
      <4>2. Cardinality(T) = 0
        BY <4>1
      <4>3. QED
        BY <4>2, <1>1
    <3>2. \A T \in Upto(0) : Summed(f, T, z) = 0
      <4> HIDE DEF z, Upto
      <4> QED BY <3>1 DEF Summed
    <3>3. Solves(z, 0)
      <4> HIDE DEF Upto
      <4> QED BY <3>2
    <3>4. QED
      <4> HIDE DEF z, Solves
      <4> QED BY <2>1, <3>3
  <2>3. PICK g : Solves(g, n - 1)
    <3>1. n - 1 \in Nat
      BY <2>1, <2>2
    <3>2. QED
      <4> HIDE DEF Solves
      <4> QED BY <2>1, <3>1
  <2> DEFINE h == [T \in Upto(n) |-> IF T \in Upto(n - 1) THEN g[T] ELSE Summed(f, T, g)]
  <2>4. ASSUME NEW T \in Upto(n), T # {} PROVE h[T \ {Chosen(T)}] = g[T \ {Chosen(T)}]
    <3>1. T \ {Chosen(T)} \in Upto(n - 1) /\ T \ {Chosen(T)} \in Upto(n)
      BY <2>1, <2>4, <1>1
    <3>2. QED
      <4> HIDE DEF Upto
      <4> QED BY <3>1
  <2>5. ASSUME NEW T \in Upto(n) PROVE h[T] = Summed(f, T, h)
    <3>1. Summed(f, T, h) = Summed(f, T, g)
      <4> HIDE DEF h
      <4> QED BY <2>4 DEF Summed
    <3>2. T \in Upto(n - 1) => g[T] = Summed(f, T, g)
      <4> HIDE DEF Upto
      <4> QED BY <2>3
    <3>3. QED
      BY <3>1, <3>2
  <2>6. Solves(h, n)
    <3>1. h = [T \in Upto(n) |-> h[T]]
      OBVIOUS
    <3>2. QED
      <4> HIDE DEF h, Upto
      <4> QED BY <3>1, <2>5
  <2>7. QED
    <3> HIDE DEF h, Solves
    <3> QED BY <2>1, <2>6
<1>3. PICK g : Solves(g, Cardinality(S))
  <2>1. Cardinality(S) \in Nat
    BY FS_CardinalityType
  <2>2. QED
    BY <1>2, <2>1
<1>4. Upto(Cardinality(S)) = SUBSET S
  BY <1>1
<1>5. QED
  <2> HIDE DEF Upto
  <2> QED BY <1>3, <1>4 DEF Sums

\* Two solutions agree on the sets on which the functions do.
LEMMA SumsAgree ==
  ASSUME NEW f, NEW S, NEW g, Sums(f, S, g),
         NEW e, NEW R, NEW h, Sums(e, R, h),
         NEW T, IsFiniteSet(T), T \subseteq S, T \subseteq R,
         \A x \in T : f[x] = e[x]
  PROVE  g[T] = h[T]
<1> DEFINE G == {U \in SUBSET T : g[U] = h[U]}
<1>1. ASSUME NEW U \in SUBSET T, \A x \in U : U \ {x} \in G PROVE U \in G
  <2>1. g[U] = Summed(f, U, g) /\ h[U] = Summed(e, U, h)
    BY DEF Sums
  <2>2. U # {} => Chosen(U) \in U
    BY DEF Chosen
  <2>3. QED
    BY <1>1, <2>1, <2>2 DEF Summed
<1>2. SUBSET T \subseteq G
  <2> HIDE DEF G
  <2> QED BY <1>1, SetInduction
<1>3. QED
  BY <1>2

\* The total is the value of any solution.
LEMMA TotalIs ==
  ASSUME NEW f, NEW S, IsFiniteSet(S), NEW g, Sums(f, S, g), NEW T \in SUBSET S
  PROVE  Total(f, T) = g[T]
<1>1. IsFiniteSet(T)
  BY FS_Subset
<1> DEFINE k == CHOOSE k : Sums(f, T, k)
<1>2. Sums(f, T, k)
  BY <1>1, SumsExist
<1>3. Total(f, T) = k[T]
  BY TotalIsChosen
<1>4. QED
  <2> HIDE DEF k
  <2> QED BY <1>1, <1>2, <1>3, SumsAgree

\* The total depends on the values of the function on the set alone,
LEMMA TotalSame ==
  ASSUME NEW f, NEW e, NEW S, IsFiniteSet(S), \A x \in S : f[x] = e[x]
  PROVE  Total(f, S) = Total(e, S)
<1>1. PICK g : Sums(f, S, g)
  BY SumsExist
<1>2. PICK h : Sums(e, S, h)
  BY SumsExist
<1>3. QED
  BY <1>1, <1>2, TotalIs, SumsAgree

\* is 0 for the empty set,
LEMMA TotalEmpty == ASSUME NEW f PROVE Total(f, {}) = 0
<1>1. PICK g : Sums(f, {}, g)
  BY SumsExist, FS_EmptySet
<1>2. g[{}] = 0
  BY <1>1 DEF Sums, Summed
<1>3. QED
  BY <1>1, <1>2, TotalIs, FS_EmptySet

\* and takes one element after the other.
LEMMA TotalStep ==
  ASSUME NEW f, NEW S, IsFiniteSet(S), S # {}
  PROVE  /\ Chosen(S) \in S
         /\ Total(f, S) = f[Chosen(S)] + Total(f, S \ {Chosen(S)})
<1>1. PICK g : Sums(f, S, g)
  BY SumsExist
<1>2. Chosen(S) \in S
  BY DEF Chosen
<1>3. Total(f, S) = g[S] /\ Total(f, S \ {Chosen(S)}) = g[S \ {Chosen(S)}]
  BY <1>1, TotalIs
<1>4. g[S] = Summed(f, S, g)
  BY <1>1 DEF Sums
<1>5. QED
  BY <1>2, <1>3, <1>4 DEF Summed
\* A total of integers is an integer,
LEMMA TotalInt ==
  ASSUME NEW f, NEW S, IsFiniteSet(S), \A x \in S : f[x] \in Int
  PROVE  Total(f, S) \in Int
<1> DEFINE G == {T \in SUBSET S : Total(f, T) \in Int}
<1>1. ASSUME NEW T \in SUBSET S, \A x \in T : T \ {x} \in G PROVE T \in G
  <2>1. CASE T = {}
    BY <2>1, TotalEmpty
  <2>2. CASE T # {}
    <3>1. IsFiniteSet(T)
      BY FS_Subset
    <3>2. /\ Chosen(T) \in T
          /\ Total(f, T) = f[Chosen(T)] + Total(f, T \ {Chosen(T)})
      BY <2>2, <3>1, TotalStep
    <3>3. QED
      BY <1>1, <3>2
  <2>3. QED
    BY <2>1, <2>2
<1>2. SUBSET S \subseteq G
  <2> HIDE DEF G
  <2> QED BY <1>1, SetInduction
<1>3. QED
  BY <1>2

\* and a natural if all its parts are.
LEMMA TotalNat ==
  ASSUME NEW f, NEW S, IsFiniteSet(S), \A x \in S : f[x] \in Nat
  PROVE  Total(f, S) \in Nat
<1> DEFINE G == {T \in SUBSET S : Total(f, T) \in Nat}
<1>1. ASSUME NEW T \in SUBSET S, \A x \in T : T \ {x} \in G PROVE T \in G
  <2>1. CASE T = {}
    BY <2>1, TotalEmpty
  <2>2. CASE T # {}
    <3>1. IsFiniteSet(T)
      BY FS_Subset
    <3>2. /\ Chosen(T) \in T
          /\ Total(f, T) = f[Chosen(T)] + Total(f, T \ {Chosen(T)})
      BY <2>2, <3>1, TotalStep
    <3>3. QED
      BY <1>1, <3>2
  <2>3. QED
    BY <2>1, <2>2
<1>2. SUBSET S \subseteq G
  <2> HIDE DEF G
  <2> QED BY <1>1, SetInduction
<1>3. QED
  BY <1>2

\* Any element can be taken first,
LEMMA TotalRemove ==
  ASSUME NEW f, NEW S, IsFiniteSet(S), \A x \in S : f[x] \in Int, NEW x \in S
  PROVE  Total(f, S) = f[x] + Total(f, S \ {x})
<1> DEFINE G == {T \in SUBSET S : \A y \in T : Total(f, T) = f[y] + Total(f, T \ {y})}
<1>1. ASSUME NEW T \in SUBSET S, \A y \in T : T \ {y} \in G, NEW y \in T
      PROVE  Total(f, T) = f[y] + Total(f, T \ {y})
  <2> DEFINE c == Chosen(T)
  <2>1. \A U \in SUBSET T : IsFiniteSet(U) /\ Total(f, U) \in Int
    BY FS_Subset, TotalInt
  <2>2. c \in T /\ Total(f, T) = f[c] + Total(f, T \ {c})
    BY <1>1, <2>1, TotalStep
  <2>3. CASE c = y
    BY <2>2, <2>3
  <2>4. CASE c # y
    <3>1. Total(f, T \ {c}) = f[y] + Total(f, T \ {c, y})
      <4>1. y \in T \ {c} /\ (T \ {c}) \ {y} = T \ {c, y}
        BY <2>4
      <4> HIDE DEF c
      <4> QED BY <1>1, <2>2, <4>1
    <3>2. Total(f, T \ {y}) = f[c] + Total(f, T \ {c, y})
      <4>1. c \in T \ {y} /\ (T \ {y}) \ {c} = T \ {c, y}
        BY <2>2, <2>4
      <4> HIDE DEF c
      <4> QED BY <1>1, <4>1
    <3>3. f[c] \in Int /\ f[y] \in Int /\ Total(f, T \ {c, y}) \in Int
      BY <2>1, <2>2
    <3> HIDE DEF c
    <3> QED BY <2>2, <3>1, <3>2, <3>3
  <2>5. QED
    BY <2>3, <2>4
<1>2. SUBSET S \subseteq G
  <2>1. \A T \in SUBSET S : (\A y \in T : T \ {y} \in G) => T \in G
    BY <1>1
  <2> HIDE DEF G
  <2> QED BY <2>1, SetInduction
<1>3. QED
  BY <1>2

\* another one adds its value,
LEMMA TotalAdd ==
  ASSUME NEW f, NEW S, IsFiniteSet(S), NEW x, x \notin S, \A y \in S \cup {x} : f[y] \in Int
  PROVE  Total(f, S \cup {x}) = Total(f, S) + f[x]
<1>1. IsFiniteSet(S \cup {x}) /\ (S \cup {x}) \ {x} = S
  BY FS_AddElement
<1>2. Total(f, S) \in Int /\ f[x] \in Int
  BY TotalInt
<1>3. Total(f, S \cup {x}) = f[x] + Total(f, S)
  BY <1>1, TotalRemove
<1>4. QED
  BY <1>2, <1>3

\* and a part and the rest have the total of the whole.
LEMMA TotalSplit ==
  ASSUME NEW f, NEW S, IsFiniteSet(S), \A x \in S : f[x] \in Int, NEW P \in SUBSET S
  PROVE  Total(f, S) = Total(f, S \ P) + Total(f, P)
<1> DEFINE G == {T \in SUBSET P : Total(f, S) = Total(f, S \ T) + Total(f, T)}
<1>1. ASSUME NEW T \in SUBSET P, \A x \in T : T \ {x} \in G PROVE T \in G
  <2>1. \A U \in SUBSET S : IsFiniteSet(U) /\ Total(f, U) \in Int
    BY FS_Subset, TotalInt
  <2>2. CASE T = {}
    <3>1. S \ T = S
      BY <2>2
    <3>2. QED
      BY <2>1, <2>2, <3>1, TotalEmpty
  <2>3. CASE T # {}
    <3>1. PICK x \in T : TRUE
      BY <2>3
    <3>2. Total(f, S) = Total(f, S \ (T \ {x})) + Total(f, T \ {x})
      BY <1>1
    <3>3. Total(f, T) = f[x] + Total(f, T \ {x})
      BY <2>1, TotalRemove
    <3>4. Total(f, S \ (T \ {x})) = f[x] + Total(f, S \ T)
      <4>1. x \in S \ (T \ {x}) /\ (S \ (T \ {x})) \ {x} = S \ T
        OBVIOUS
      <4>2. QED
        BY <2>1, <4>1, TotalRemove
    <3>5. /\ f[x] \in Int /\ Total(f, S \ T) \in Int
          /\ Total(f, T \ {x}) \in Int
      BY <2>1
    <3>6. QED
      BY <3>2, <3>3, <3>4, <3>5
  <2>4. QED
    BY <2>2, <2>3
<1>2. SUBSET P \subseteq G
  <2>1. IsFiniteSet(P)
    BY FS_Subset
  <2> HIDE DEF G
  <2> QED BY <1>1, <2>1, SetInduction
<1>3. QED
  BY <1>2
\* A finite set of naturals has its maximum.
LEMMA MaxOfNaturals ==
  ASSUME NEW S, IsFiniteSet(S), S # {}, S \subseteq Nat
  PROVE  Max(S) \in S /\ \A n \in S : n <= Max(S)
<1> DEFINE G == {T \in SUBSET S : T # {} => \E x \in T : \A y \in T : x >= y}
<1>1. ASSUME NEW T \in SUBSET S, \A x \in T : T \ {x} \in G, T # {}
      PROVE  \E x \in T : \A y \in T : x >= y
  <2>1. PICK x \in T : TRUE
    BY <1>1
  <2>2. CASE T = {x}
    BY <2>2
  <2>3. CASE T # {x}
    <3>1. PICK z \in T \ {x} : \A y \in T \ {x} : z >= y
      BY <1>1, <2>1, <2>3
    <3>2. z \in Nat /\ x \in Nat /\ \A y \in T : y \in Nat
      OBVIOUS
    <3>3. CASE z >= x
      BY <3>1, <3>3
    <3>4. CASE x > z
      BY <3>1, <3>2, <3>4
    <3>5. QED
      BY <3>2, <3>3, <3>4
  <2>4. QED
    BY <2>2, <2>3
<1>2. SUBSET S \subseteq G
  <2>1. \A T \in SUBSET S : (\A x \in T : T \ {x} \in G) => T \in G
    BY <1>1
  <2> HIDE DEF G
  <2> QED BY <2>1, SetInduction
<1>3. PICK x \in S : \A y \in S : x >= y
  BY <1>2
<1>4. Max(S) \in S /\ \A y \in S : Max(S) >= y
  BY <1>3 DEF Max
<1>5. QED
  BY <1>4
-----------------------------------------------------------------------------
\* A request has named its row, and a row that is still to be inserted is in
\* the hands of one request.
Requests ==
  \A a \in Api :
    /\ pc[a] # "idle" => row[a] \in Rows /\ key[row[a]] # None
    /\ pc[a] \in Confirming =>
         /\ row[a] \notin media
         /\ \A b \in Api : b # a /\ pc[b] # "idle" => row[b] # row[a]

\* A row that has its key has the size it was confirmed with.
Sized == \A m \in Rows : key[m] # None => size[m] \in Sizes

\* The row that shares the key of one without an object is not one still to be
\* inserted: such a row can be withdrawn, and its key with it.
Explained ==
  \A m \in media : key[m] \notin bucket =>
    \/ m \in early \/ m \in cut
    \/ \E a \in Api : pc[a] = "delete_row" /\ row[a] = m
    \/ \E n \in Rows \ {m} :
         key[n] = key[m] /\ \A a \in Api : pc[a] \in Confirming => row[a] # n

\* A medium that has what a confirmation checked for was inserted beside it.
Checked ==
  \A a \in Api, n \in media :
    /\ pc[a] \in Confirming /\ hash[n] = hash[row[a]] => n \in beside[row[a]]
    /\ pc[a] = "confirm_write" /\ postOf[n] = postOf[row[a]] /\ order[n] = order[row[a]]
       => n \in beside[row[a]]

\* A request that deletes a row finds it unless another was deleting it.
RowThere == ~contended => \A a \in Api : pc[a] \in Deleting => row[a] \in media

\* No size that counts, or may still be taken off, is negative until one is
\* inserted.
Signs ==
  ~credited =>
    /\ leaked >= 0
    /\ \A m \in media : size[m] >= 0
    /\ \A a \in Api : pc[a] \in Deleting => size[row[a]] >= 0

Types == TypeOK /\ IsFiniteSet(media)

\* All but the sums.
Inv == Types /\ Requests /\ Sized /\ Explained /\ Checked /\ MediaDistinct /\ RowThere /\ Signs

\* There is nothing in store at the start, and no request.
LEMMA InvInit == Init => Inv
<1> SUFFICES ASSUME Init PROVE Inv
  OBVIOUS
<1>1. Types
  <2>1. media = {} /\ IsFiniteSet(media)
    BY FS_EmptySet DEF Init
  <2>2. TypeOK
    <3>1. /\ key \in [Rows -> Keys \cup {None}] /\ size \in [Rows -> Sizes \cup {0}]
          /\ hash \in [Rows -> Hashes \cup {None}] /\ postOf \in [Rows -> Posts \cup {None}]
          /\ order \in [Rows -> Nat] /\ beside \in [Rows -> SUBSET Rows]
      BY DEF Init
    <3>2. pc \in [Api -> {"idle"} \cup Confirming \cup Deleting] /\ row \in [Api -> Rows \cup {None}]
      BY DEF Init
    <3>3. used \in Int /\ leaked \in Int
      BY DEF Init
    <3>4. /\ posts \subseteq Posts /\ issued \subseteq Keys /\ bucket \subseteq issued
          /\ early \subseteq Rows /\ cut \subseteq Rows
          /\ media \subseteq {m \in Rows : key[m] \in Keys /\ postOf[m] \in posts}
      BY DEF Init
    <3>5. credited \in BOOLEAN /\ contended \in BOOLEAN
      BY DEF Init
    <3>6. QED
      BY <3>1, <3>2, <3>3, <3>4, <3>5 DEF TypeOK
  <2>3. QED
    BY <2>1, <2>2 DEF Types
<1>2. Requests /\ Sized /\ Explained /\ Checked /\ MediaDistinct /\ RowThere /\ Signs
  BY DEF Init, Requests, Sized, Explained, Checked, MediaDistinct, RowThere, Signs, Confirming, Deleting
<1>3. QED
  BY <1>1, <1>2 DEF Inv

\* The sort orders of a post's media have a highest one.
LEMMA OrderIsNatural ==
  ASSUME Types, NEW p
  PROVE  /\ NextOrder(p) \in Nat
         /\ \A n \in MediaOf(p) : order[n] < NextOrder(p)
<1> DEFINE O == {order[n] : n \in MediaOf(p)}
<1>1. CASE MediaOf(p) = {}
  BY <1>1 DEF NextOrder
<1>2. CASE MediaOf(p) # {}
  <2> DEFINE g == [n \in MediaOf(p) |-> order[n]]
  <2>1. IsFiniteSet(MediaOf(p)) /\ MediaOf(p) \subseteq Rows
    BY FS_Subset DEF Types, TypeOK, MediaOf
  <2>2. g \in [MediaOf(p) -> O] /\ \A t \in O : \E n \in MediaOf(p) : g[n] = t
    OBVIOUS
  <2>3. g \in Surjection(MediaOf(p), O)
    BY <2>2 DEF Surjection
  <2>4. IsFiniteSet(O)
    BY <2>1, <2>3, FS_Surjection
  <2>5. O \subseteq Nat /\ O # {}
    BY <1>2, <2>1 DEF Types, TypeOK
  <2>6. Max(O) \in O /\ \A n \in O : n <= Max(O)
    <3> HIDE DEF O
    <3> QED BY <2>4, <2>5, MaxOfNaturals
  <2>7. NextOrder(p) = Max(O) + 1
    BY <1>2 DEF NextOrder
  <2>8. Max(O) \in Nat /\ \A n \in MediaOf(p) : order[n] \in O /\ order[n] \in Nat
    BY <2>5, <2>6
  <2>9. QED
    <3> HIDE DEF O
    <3> QED BY <2>6, <2>7, <2>8
<1>3. QED
  BY <1>1, <1>2

\* The sizes of all rows, and the bytes of any media, are integers.
LEMMA SizesAreIntegers ==
  ASSUME Types
  PROVE  /\ \A m \in Rows : size[m] \in Int
         /\ \A M \in SUBSET media : IsFiniteSet(M) /\ Total(size, M) \in Int
<1> USE DEF Types, TypeOK
<1>1. \A m \in Rows : size[m] \in Int
  BY StorageConstants
<1>2. ASSUME NEW M \in SUBSET media PROVE IsFiniteSet(M) /\ Total(size, M) \in Int
  <2>1. IsFiniteSet(M) /\ \A m \in M : size[m] \in Int
    BY <1>1, FS_Subset
  <2>2. QED
    BY <2>1, TotalInt
<1>3. QED
  BY <1>1, <1>2

\* What an INSERT is remembered by is of the right type.
LEMMA NotesTypes ==
  ASSUME TypeOK, NEW m \in Rows, NoteInsert(m)
  PROVE  /\ credited' \in BOOLEAN /\ early' \subseteq Rows
         /\ beside' \in [Rows -> SUBSET Rows]
         /\ UNCHANGED <<leaked, contended, cut>>
<1>1. credited' \in BOOLEAN /\ early' \subseteq Rows /\ UNCHANGED <<leaked, contended, cut>>
  BY DEF TypeOK, NoteInsert
<1>2. beside' \in [Rows -> SUBSET Rows]
  BY DEF TypeOK, NoteInsert
<1>3. QED
  BY <1>1, <1>2

\* A withdrawn row has the columns it had at first, and was not inserted.
LEMMA WithdrawTypes ==
  ASSUME TypeOK, NEW m \in Rows, m \notin media, Withdraw(m)
  PROVE  /\ key' \in [Rows -> Keys \cup {None}] /\ size' \in [Rows -> Sizes \cup {0}]
         /\ hash' \in [Rows -> Hashes \cup {None}] /\ postOf' \in [Rows -> Posts \cup {None}]
         /\ order' \in [Rows -> Nat] /\ beside' \in [Rows -> SUBSET Rows]
         /\ media \subseteq {n \in Rows : key'[n] \in Keys /\ postOf'[n] \in posts}
<1>1. /\ key' \in [Rows -> Keys \cup {None}] /\ size' \in [Rows -> Sizes \cup {0}]
      /\ hash' \in [Rows -> Hashes \cup {None}] /\ postOf' \in [Rows -> Posts \cup {None}]
      /\ order' \in [Rows -> Nat] /\ beside' \in [Rows -> SUBSET Rows]
  BY DEF TypeOK, Withdraw
<1>2. \A n \in media : n \in Rows /\ key'[n] = key[n] /\ postOf'[n] = postOf[n]
  BY DEF TypeOK, Withdraw
<1>3. QED
  BY <1>1, <1>2 DEF TypeOK

\* Every step keeps the types.
LEMMA TypesNext == Types /\ Requests /\ [Next]_vars => Types'
<1> SUFFICES ASSUME Types, Requests, [Next]_vars PROVE Types'
  OBVIOUS
<1>0. TypeOK /\ IsFiniteSet(media)
  BY DEF Types
<1> USE StorageConstants DEF Types, Confirming, Deleting
<1>1. ASSUME NEW a \in Api, NEW k \in Keys, NEW s \in Sizes, GetPresignedUrl(a, k, s) PROVE Types'
  BY <1>0, <1>1 DEF TypeOK, GetPresignedUrl, columns, request, history
<1>2. ASSUME NEW k \in Keys, PutObject(k) PROVE Types'
  BY <1>0, <1>2 DEF TypeOK, PutObject, columns, request, history
<1>3. ASSUME NEW a \in Api, NEW m \in Rows, NEW p \in Posts, NEW k \in Keys, NEW h \in Hashes, NEW s \in Sizes,
             ConfirmCheck(a, m, p, k, h, s)
      PROVE  Types'
  BY <1>0, <1>3 DEF TypeOK, ConfirmCheck, history
<1>4. ASSUME NEW a \in Api, ConfirmOrder(a) PROVE Types'
  <2>1. row[a] \in Rows /\ NextOrder(postOf[row[a]]) \in Nat
    BY <1>4, OrderIsNatural DEF ConfirmOrder, Requests
  <2>2. QED
    BY <1>0, <1>4, <2>1 DEF TypeOK, ConfirmOrder, Proceed, history
<1>5. ASSUME NEW a \in Api, ConfirmWrite(a) PROVE Types'
  <2>1. row[a] \in Rows /\ key[row[a]] \in Keys /\ size[row[a]] \in Int
    BY <1>0, <1>5, SizesAreIntegers DEF TypeOK, ConfirmWrite, Requests
  <2>2. /\ credited' \in BOOLEAN /\ early' \subseteq Rows
        /\ beside' \in [Rows -> SUBSET Rows]
        /\ UNCHANGED <<leaked, contended, cut>>
    BY <1>0, <1>5, <2>1, NotesTypes DEF ConfirmWrite
  <2>3. IsFiniteSet(media')
    BY <1>0, <1>5, FS_AddElement DEF ConfirmWrite
  <2>4. TypeOK'
    BY <1>0, <1>5, <2>1, <2>2 DEF TypeOK, ConfirmWrite, Respond, columns
  <2>5. QED
    BY <2>3, <2>4
<1>6. ASSUME NEW a \in Api, ConfirmPostGone(a) \/ ConfirmCut(a) PROVE Types'
  <2>1. row[a] \in Rows /\ row[a] \notin media /\ Withdraw(row[a])
    BY <1>6 DEF ConfirmPostGone, ConfirmCut, Requests
  <2>2. /\ key' \in [Rows -> Keys \cup {None}] /\ size' \in [Rows -> Sizes \cup {0}]
        /\ hash' \in [Rows -> Hashes \cup {None}] /\ postOf' \in [Rows -> Posts \cup {None}]
        /\ order' \in [Rows -> Nat] /\ beside' \in [Rows -> SUBSET Rows]
        /\ media \subseteq {n \in Rows : key'[n] \in Keys /\ postOf'[n] \in posts}
    BY <1>0, <2>1, WithdrawTypes
  <2>3. /\ UNCHANGED <<posts, used, issued, bucket, media, leaked, credited, contended, early, cut>>
        /\ Respond(a)
    BY <1>6 DEF ConfirmPostGone, ConfirmCut
  <2>4. QED
    BY <1>0, <2>2, <2>3 DEF TypeOK, Respond
<1>7. ASSUME NEW a \in Api, NEW m \in Rows, DeleteRead(a, m) PROVE Types'
  BY <1>0, <1>7 DEF TypeOK, DeleteRead, columns, history
<1>8. ASSUME NEW a \in Api, DeleteObject(a) PROVE Types'
  BY <1>0, <1>8 DEF TypeOK, DeleteObject, Proceed, columns, history
<1>9. ASSUME NEW a \in Api, DeleteRow(a) PROVE Types'
  <2>1. row[a] \in Rows /\ size[row[a]] \in Int
    BY <1>9, SizesAreIntegers DEF DeleteRow, Requests
  <2>2. Lowered(size[row[a]]) \in Int
    BY <1>0, <2>1 DEF TypeOK, Lowered
  <2>3. IsFiniteSet(media')
    BY <1>0, <1>9, FS_RemoveElement DEF DeleteRow
  <2>4. contended' \in BOOLEAN
    BY <1>0, <1>9 DEF TypeOK, DeleteRow, Contend
  <2>5. TypeOK'
    BY <1>0, <1>9, <2>1, <2>2, <2>4 DEF TypeOK, DeleteRow, Respond, columns
  <2>6. QED
    BY <2>3, <2>5
<1>10. ASSUME NEW a \in Api, NEW p \in Posts, DeletePost(a, p) PROVE Types'
  <2>1. MediaOf(p) \subseteq media /\ IsFiniteSet(media')
    BY <1>0, <1>10, FS_Subset DEF MediaOf, DeletePost
  <2>2. Bytes(MediaOf(p)) = Total(size, MediaOf(p))
    BY DEF Bytes, Total, MapThenSumSet, MapThenFoldSet
  <2>3. Bytes(MediaOf(p)) \in Int
    BY <2>1, <2>2, SizesAreIntegers
  <2>4. contended' \in BOOLEAN
    BY <1>0, <1>10 DEF TypeOK, DeletePost, Contend
  <2>5. TypeOK'
    BY <1>0, <1>10, <2>1, <2>3, <2>4 DEF TypeOK, DeletePost, MediaOf, columns, request
  <2>6. QED
    BY <2>1, <2>5
<1>11. ASSUME NEW a \in Api, DeleteCut(a) PROVE Types'
  BY <1>0, <1>11 DEF TypeOK, DeleteCut, Respond, columns, Requests
<1>12. CASE UNCHANGED vars
  BY <1>0, <1>12 DEF TypeOK, vars, columns, request, history
<1>13. QED
  BY <1>1, <1>2, <1>3, <1>4, <1>5, <1>6, <1>7, <1>8, <1>9, <1>10, <1>11, <1>12
  DEF Next, Serve, Confirm, QuotaExceeded, ConfirmRefused, NotFound

-----------------------------------------------------------------------------
\* What a step does to a row that a request, or a table, holds.  A confirmation
\* names a row that nobody holds,
LEMMA NamesNewRow ==
  ASSUME Inv, NEW a \in Api, NEW m \in Rows, key[m] = None
  PROVE  m \notin media /\ \A b \in Api : pc[b] # "idle" => row[b] # m
BY StorageConstants DEF Inv, Types, TypeOK, Requests

\* and one that comes to nothing withdraws a row that nobody else does.
LEMMA WithdrawsOwnRow ==
  ASSUME Inv, NEW a \in Api, ConfirmPostGone(a) \/ ConfirmCut(a)
  PROVE  /\ row[a] \in Rows /\ row[a] \notin media
         /\ \A b \in Api \ {a} : pc[b] # "idle" => row[b] # row[a]
         /\ \A n \in Rows \ {row[a]} :
              /\ key'[n] = key[n] /\ size'[n] = size[n] /\ hash'[n] = hash[n]
              /\ postOf'[n] = postOf[n] /\ order'[n] = order[n] /\ beside'[n] = beside[n]
         /\ key'[row[a]] = None
         /\ pc' = [pc EXCEPT ![a] = "idle"] /\ row' = [row EXCEPT ![a] = None]
         /\ UNCHANGED <<bucket, media, leaked, credited, contended, early, cut, used>>
<1>1. pc[a] \in Confirming /\ pc[a] # "idle" /\ Withdraw(row[a]) /\ Respond(a)
      /\ UNCHANGED <<bucket, media, leaked, credited, contended, early, cut, used>>
  BY DEF ConfirmPostGone, ConfirmCut, Confirming
<1>2. /\ row[a] \in Rows /\ row[a] \notin media
      /\ \A b \in Api \ {a} : pc[b] # "idle" => row[b] # row[a]
  BY <1>1 DEF Inv, Requests
<1>3. TypeOK
  BY DEF Inv, Types
<1>4. /\ \A n \in Rows \ {row[a]} :
           /\ key'[n] = key[n] /\ size'[n] = size[n] /\ hash'[n] = hash[n]
           /\ postOf'[n] = postOf[n] /\ order'[n] = order[n] /\ beside'[n] = beside[n]
      /\ key'[row[a]] = None
  BY <1>1, <1>2, <1>3 DEF TypeOK, Withdraw
<1>5. QED
  BY <1>1, <1>2, <1>4 DEF Respond

\* Every step keeps the rows of the requests, and the sizes of the rows.
LEMMA RequestsNext == Inv /\ [Next]_vars => Requests' /\ Sized'
<1> SUFFICES ASSUME Inv, [Next]_vars PROVE Requests' /\ Sized'
  OBVIOUS
<1>0. TypeOK /\ Requests /\ Sized
  BY DEF Inv, Types
<1> USE StorageConstants DEF Confirming, Deleting
<1>1. CASE UNCHANGED <<pc, row, media, key, size>>
  BY <1>0, <1>1 DEF Requests, Sized
<1>2. ASSUME NEW a \in Api, NEW m \in Rows, NEW p \in Posts, NEW k \in Keys, NEW h \in Hashes, NEW s \in Sizes,
             ConfirmCheck(a, m, p, k, h, s)
      PROVE  Requests' /\ Sized'
  <2>1. m \notin media /\ \A b \in Api : pc[b] # "idle" => row[b] # m
    BY <1>2, NamesNewRow DEF ConfirmCheck
  <2>2. Sized'
    BY <1>0, <1>2 DEF TypeOK, Sized, ConfirmCheck
  <2>3. Requests'
    BY <1>0, <1>2, <2>1 DEF TypeOK, Requests, ConfirmCheck
  <2>4. QED
    BY <2>2, <2>3
<1>3. ASSUME NEW a \in Api, ConfirmOrder(a) \/ DeleteObject(a) PROVE Requests' /\ Sized'
  BY <1>0, <1>3 DEF TypeOK, Requests, Sized, ConfirmOrder, DeleteObject, Proceed, columns
<1>4. ASSUME NEW a \in Api, ConfirmWrite(a) PROVE Requests' /\ Sized'
  BY <1>0, <1>4 DEF TypeOK, Requests, Sized, ConfirmWrite, Respond, columns
<1>5. ASSUME NEW a \in Api, ConfirmPostGone(a) \/ ConfirmCut(a) PROVE Requests' /\ Sized'
  BY <1>0, <1>5, WithdrawsOwnRow DEF TypeOK, Requests, Sized
<1>6. ASSUME NEW a \in Api, NEW m \in Rows, DeleteRead(a, m) PROVE Requests' /\ Sized'
  BY <1>0, <1>6 DEF TypeOK, Requests, Sized, DeleteRead, columns
<1>7. ASSUME NEW a \in Api, DeleteRow(a) \/ DeleteCut(a) PROVE Requests' /\ Sized'
  BY <1>0, <1>7 DEF TypeOK, Requests, Sized, DeleteRow, DeleteCut, Respond, columns
<1>8. ASSUME NEW a \in Api, NEW p \in Posts, DeletePost(a, p) PROVE Requests' /\ Sized'
  BY <1>0, <1>8 DEF Requests, Sized, DeletePost, request, columns
<1>9. QED
  BY <1>1, <1>2, <1>3, <1>4, <1>5, <1>6, <1>7, <1>8
  DEF Next, Serve, Confirm, GetPresignedUrl, QuotaExceeded, PutObject, ConfirmRefused, NotFound, vars, columns, request

\* Every step keeps the explanations of missing objects: the deletion of an
\* object leaves behind a row that is being deleted, or one that shares a key.
LEMMA ExplainedNext == Inv /\ [Next]_vars => Explained'
<1> SUFFICES ASSUME Inv, [Next]_vars PROVE Explained'
  OBVIOUS
<1>0. TypeOK /\ Requests /\ Explained
  BY DEF Inv, Types
<1> USE StorageConstants DEF Confirming, Deleting
<1>1. CASE UNCHANGED <<pc, row, media, key, bucket, early, cut>>
  BY <1>0, <1>1 DEF Explained
<1>2. ASSUME NEW k \in Keys, PutObject(k) PROVE Explained'
  BY <1>0, <1>2 DEF Explained, PutObject, request, columns, history
<1>3. ASSUME NEW a \in Api, NEW m \in Rows, NEW p \in Posts, NEW k \in Keys, NEW h \in Hashes, NEW s \in Sizes,
             ConfirmCheck(a, m, p, k, h, s)
      PROVE  Explained'
  <2>1. m \notin media /\ \A n \in media : key[n] # None
    BY <1>0, <1>3, NamesNewRow DEF ConfirmCheck, TypeOK
  <2>2. QED
    BY <1>0, <1>3, <2>1 DEF TypeOK, Explained, ConfirmCheck, history
<1>4. ASSUME NEW a \in Api, ConfirmOrder(a) PROVE Explained'
  BY <1>0, <1>4 DEF TypeOK, Explained, ConfirmOrder, Proceed, history
<1>5. ASSUME NEW a \in Api, ConfirmWrite(a) PROVE Explained'
  BY <1>0, <1>5 DEF TypeOK, Explained, ConfirmWrite, NoteInsert, Respond, columns
<1>6. ASSUME NEW a \in Api, ConfirmPostGone(a) \/ ConfirmCut(a) PROVE Explained'
  <2>1. pc[a] \in Confirming /\ media \subseteq Rows
    BY <1>0, <1>6 DEF ConfirmPostGone, ConfirmCut, TypeOK
  <2>2. QED
    BY <1>0, <1>6, <2>1, WithdrawsOwnRow DEF TypeOK, Explained
<1>7. ASSUME NEW a \in Api, NEW m \in Rows, DeleteRead(a, m) PROVE Explained'
  BY <1>0, <1>7 DEF TypeOK, Explained, DeleteRead, columns, history
<1>8. ASSUME NEW a \in Api, DeleteObject(a) PROVE Explained'
  <2>1. row[a] \in Rows /\ \A b \in Api : pc[b] \in Confirming => row[b] # row[a]
    BY <1>0, <1>8 DEF DeleteObject, Requests
  <2>2. QED
    BY <1>0, <1>8, <2>1 DEF TypeOK, Explained, DeleteObject, Proceed, columns, history
<1>9. ASSUME NEW a \in Api, DeleteRow(a) PROVE Explained'
  BY <1>0, <1>9 DEF TypeOK, Explained, DeleteRow, Respond, columns
<1>10. ASSUME NEW a \in Api, DeleteCut(a) PROVE Explained'
  BY <1>0, <1>10 DEF TypeOK, Explained, DeleteCut, Respond, columns
<1>11. ASSUME NEW a \in Api, NEW p \in Posts, DeletePost(a, p) PROVE Explained'
  BY <1>0, <1>11 DEF Explained, DeletePost, request, columns
<1>12. QED
  BY <1>1, <1>2, <1>3, <1>4, <1>5, <1>6, <1>7, <1>8, <1>9, <1>10, <1>11
  DEF Next, Serve, Confirm, GetPresignedUrl, QuotaExceeded, ConfirmRefused, NotFound, vars, columns, request, history

\* A row that is inserted is noted by the confirmations that are at work.
LEMMA NotesInsert ==
  ASSUME Inv, NEW m \in Rows, NoteInsert(m)
  PROVE  /\ \A n \in Rows : beside[n] \subseteq beside'[n]
         /\ \A b \in Api : pc[b] \in Confirming => m \in beside'[row[b]]
BY DEF Inv, Types, TypeOK, Requests, NoteInsert, Confirming

\* Every step keeps what the confirmations have checked, but for rows inserted
\* beside them, and so the media distinct.
LEMMA DistinctNext == Inv /\ [Next]_vars => Checked' /\ MediaDistinct'
<1> SUFFICES ASSUME Inv, [Next]_vars PROVE Checked' /\ MediaDistinct'
  OBVIOUS
<1>0. TypeOK /\ Requests /\ Checked /\ MediaDistinct
  BY DEF Inv, Types
<1> USE StorageConstants DEF Confirming, Deleting
<1>1. CASE UNCHANGED <<pc, row, media, hash, postOf, order, beside>>
  BY <1>0, <1>1 DEF Checked, MediaDistinct
<1>2. ASSUME NEW a \in Api, NEW m \in Rows, NEW p \in Posts, NEW k \in Keys, NEW h \in Hashes, NEW s \in Sizes,
             ConfirmCheck(a, m, p, k, h, s)
      PROVE  Checked' /\ MediaDistinct'
  <2>1. m \notin media /\ media \subseteq Rows /\ \A b \in Api : pc[b] # "idle" => row[b] # m
    BY <1>0, <1>2, NamesNewRow DEF ConfirmCheck, TypeOK
  <2>2. \A n \in media : hash[n] # h
    BY <1>2 DEF ConfirmCheck, IsDuplicate
  <2>3. Checked'
    BY <1>0, <1>2, <2>1, <2>2 DEF TypeOK, Requests, Checked, ConfirmCheck, history
  <2>4. MediaDistinct'
    BY <1>0, <1>2, <2>1 DEF TypeOK, MediaDistinct, ConfirmCheck, history
  <2>5. QED
    BY <2>3, <2>4
<1>3. ASSUME NEW a \in Api, ConfirmOrder(a) PROVE Checked' /\ MediaDistinct'
  <2> DEFINE m == row[a]
             o == NextOrder(postOf[row[a]])
  <2>1. m \in Rows /\ m \notin media /\ \A b \in Api : b # a /\ pc[b] # "idle" => row[b] # m
    BY <1>0, <1>3 DEF ConfirmOrder, Requests
  <2>2. \A n \in media : n \in Rows /\ (postOf[n] = postOf[m] => order[n] # o)
    BY <1>0, <1>3, OrderIsNatural DEF Inv, TypeOK, MediaOf
  <2>3. /\ order' = [order EXCEPT ![m] = o] /\ pc' = [pc EXCEPT ![a] = "confirm_write"]
        /\ pc[a] = "confirm_order"
        /\ UNCHANGED <<row, media, hash, postOf, beside>>
    BY <1>3 DEF ConfirmOrder, Proceed, history
  <2> HIDE DEF o
  <2>4. Checked'
    BY <1>0, <2>1, <2>2, <2>3 DEF TypeOK, Requests, Checked
  <2>5. MediaDistinct'
    BY <1>0, <2>1, <2>2, <2>3 DEF TypeOK, MediaDistinct
  <2>6. QED
    BY <2>4, <2>5
<1>4. ASSUME NEW a \in Api, ConfirmWrite(a) PROVE Checked' /\ MediaDistinct'
  <2>1. row[a] \in Rows /\ row[a] \notin media /\ media \subseteq Rows
    BY <1>0, <1>4 DEF ConfirmWrite, Requests, TypeOK
  <2>2. /\ \A n \in Rows : beside[n] \subseteq beside'[n]
        /\ \A b \in Api : pc[b] \in Confirming => row[a] \in beside'[row[b]]
    BY <1>4, <2>1, NotesInsert DEF ConfirmWrite
  <2>3. /\ media' = media \cup {row[a]} /\ pc[a] = "confirm_write"
        /\ pc' = [pc EXCEPT ![a] = "idle"] /\ row' = [row EXCEPT ![a] = None]
        /\ UNCHANGED <<hash, postOf, order>>
    BY <1>4 DEF ConfirmWrite, Respond, columns
  <2>4. Checked'
    BY <1>0, <2>1, <2>2, <2>3 DEF TypeOK, Requests, Checked
  <2>5. \A n \in media : hash[n] = hash[row[a]] \/ (postOf[n] = postOf[row[a]] /\ order[n] = order[row[a]])
          => n \in beside'[row[a]]
    BY <1>0, <2>1, <2>2, <2>3 DEF Checked
  <2>6. MediaDistinct'
    BY <1>0, <2>1, <2>2, <2>3, <2>5 DEF MediaDistinct
  <2>7. QED
    BY <2>4, <2>6
<1>5. ASSUME NEW a \in Api, ConfirmPostGone(a) \/ ConfirmCut(a) PROVE Checked' /\ MediaDistinct'
  <2>1. media \subseteq Rows /\ \A b \in Api : pc[b] # "idle" => row[b] \in Rows
    BY <1>0 DEF TypeOK, Requests
  <2>2. Checked'
    BY <1>0, <1>5, <2>1, WithdrawsOwnRow DEF TypeOK, Checked
  <2>3. MediaDistinct'
    BY <1>0, <1>5, <2>1, WithdrawsOwnRow DEF TypeOK, MediaDistinct
  <2>4. QED
    BY <2>2, <2>3
<1>6. ASSUME NEW a \in Api, NEW m \in Rows, DeleteRead(a, m) PROVE Checked' /\ MediaDistinct'
  BY <1>0, <1>6 DEF TypeOK, Checked, MediaDistinct, DeleteRead, columns, history
<1>7. ASSUME NEW a \in Api, DeleteObject(a) PROVE Checked' /\ MediaDistinct'
  BY <1>0, <1>7 DEF TypeOK, Checked, MediaDistinct, DeleteObject, Proceed, columns, history
<1>8. ASSUME NEW a \in Api, DeleteRow(a) \/ DeleteCut(a) PROVE Checked' /\ MediaDistinct'
  BY <1>0, <1>8 DEF TypeOK, Checked, MediaDistinct, DeleteRow, DeleteCut, Respond, columns
<1>9. ASSUME NEW a \in Api, NEW p \in Posts, DeletePost(a, p) PROVE Checked' /\ MediaDistinct'
  BY <1>0, <1>9 DEF Checked, MediaDistinct, DeletePost, request, columns
<1>10. QED
  BY <1>1, <1>2, <1>3, <1>4, <1>5, <1>6, <1>7, <1>8, <1>9
  DEF Next, Serve, Confirm, GetPresignedUrl, QuotaExceeded, PutObject, ConfirmRefused, NotFound, vars, columns, request,
      history

\* Every step keeps the rows of uncontended deletions.
LEMMA RowThereNext == Inv /\ [Next]_vars => RowThere'
<1> SUFFICES ASSUME Inv, [Next]_vars PROVE RowThere'
  OBVIOUS
<1>0. TypeOK /\ Requests /\ RowThere
  BY DEF Inv, Types
<1> USE DEF Confirming, Deleting
<1>1. CASE UNCHANGED <<pc, row, media, contended>>
  BY <1>0, <1>1 DEF RowThere
<1>2. ASSUME NEW a \in Api, NEW m \in Rows, NEW p \in Posts, NEW k \in Keys, NEW h \in Hashes, NEW s \in Sizes,
             ConfirmCheck(a, m, p, k, h, s)
      PROVE  RowThere'
  BY <1>0, <1>2 DEF TypeOK, RowThere, ConfirmCheck, history
<1>3. ASSUME NEW a \in Api, ConfirmOrder(a) \/ DeleteObject(a) PROVE RowThere'
  BY <1>0, <1>3 DEF TypeOK, RowThere, ConfirmOrder, DeleteObject, Proceed, history
<1>4. ASSUME NEW a \in Api, ConfirmWrite(a) PROVE RowThere'
  BY <1>0, <1>4 DEF TypeOK, RowThere, ConfirmWrite, NoteInsert, Respond
<1>5. ASSUME NEW a \in Api, ConfirmPostGone(a) \/ ConfirmCut(a) PROVE RowThere'
  BY <1>0, <1>5, WithdrawsOwnRow DEF TypeOK, RowThere
<1>6. ASSUME NEW a \in Api, NEW m \in Rows, DeleteRead(a, m) PROVE RowThere'
  BY <1>0, <1>6 DEF TypeOK, RowThere, DeleteRead, history
<1>7. ASSUME NEW a \in Api, DeleteRow(a) PROVE RowThere'
  BY <1>0, <1>7 DEF TypeOK, RowThere, DeleteRow, Contend, Respond
<1>8. ASSUME NEW a \in Api, DeleteCut(a) PROVE RowThere'
  BY <1>0, <1>8 DEF TypeOK, RowThere, DeleteCut, Respond
<1>9. ASSUME NEW a \in Api, NEW p \in Posts, DeletePost(a, p) PROVE RowThere'
  BY <1>0, <1>9 DEF RowThere, DeletePost, Contend, request
<1>10. QED
  BY <1>1, <1>2, <1>3, <1>4, <1>5, <1>6, <1>7, <1>8, <1>9
  DEF Next, Serve, Confirm, GetPresignedUrl, QuotaExceeded, PutObject, ConfirmRefused, NotFound, vars, request, history

\* Every step keeps the signs: a negative size comes in with an INSERT.
LEMMA SignsNext == Inv /\ [Next]_vars => Signs'
<1> SUFFICES ASSUME Inv, [Next]_vars PROVE Signs'
  OBVIOUS
<1>0. Types /\ TypeOK /\ Requests /\ Signs /\ \A m \in Rows : size[m] \in Int
  BY SizesAreIntegers DEF Inv, Types
<1> USE DEF Confirming, Deleting
<1>1. CASE UNCHANGED <<pc, row, media, size, leaked, credited>>
  BY <1>0, <1>1 DEF Signs
<1>2. ASSUME NEW a \in Api, NEW m \in Rows, NEW p \in Posts, NEW k \in Keys, NEW h \in Hashes, NEW s \in Sizes,
             ConfirmCheck(a, m, p, k, h, s)
      PROVE  Signs'
  <2>1. m \notin media /\ media \subseteq Rows /\ \A b \in Api : pc[b] # "idle" => row[b] # m
    BY <1>0, <1>2, NamesNewRow DEF ConfirmCheck, TypeOK
  <2>2. QED
    BY <1>0, <1>2, <2>1 DEF TypeOK, Requests, Signs, ConfirmCheck, history
<1>3. ASSUME NEW a \in Api, ConfirmOrder(a) \/ DeleteObject(a) PROVE Signs'
  BY <1>0, <1>3 DEF TypeOK, Signs, ConfirmOrder, DeleteObject, Proceed, history, columns
<1>4. ASSUME NEW a \in Api, ConfirmWrite(a) PROVE Signs'
  <2>1. row[a] \in Rows /\ size[row[a]] \in Int
    BY <1>0, <1>4 DEF ConfirmWrite, Requests
  <2>2. /\ media' = media \cup {row[a]} /\ UNCHANGED <<size, leaked>>
        /\ pc' = [pc EXCEPT ![a] = "idle"] /\ row' = [row EXCEPT ![a] = None]
        /\ ~credited' => ~credited /\ ~(size[row[a]] < 0)
    BY <1>4 DEF ConfirmWrite, NoteInsert, Respond, columns
  <2>3. QED
    BY <1>0, <2>1, <2>2 DEF TypeOK, Signs
<1>5. ASSUME NEW a \in Api, ConfirmPostGone(a) \/ ConfirmCut(a) PROVE Signs'
  <2>1. media \subseteq Rows /\ \A b \in Api : pc[b] # "idle" => row[b] \in Rows
    BY <1>0 DEF TypeOK, Requests
  <2>2. QED
    BY <1>0, <1>5, <2>1, WithdrawsOwnRow DEF TypeOK, Signs
<1>6. ASSUME NEW a \in Api, NEW m \in Rows, DeleteRead(a, m) PROVE Signs'
  BY <1>0, <1>6 DEF TypeOK, Signs, DeleteRead, history, columns
<1>7. ASSUME NEW a \in Api, DeleteRow(a) \/ DeleteCut(a) PROVE Signs'
  BY <1>0, <1>7 DEF TypeOK, Signs, DeleteRow, DeleteCut, Respond, columns
<1>8. ASSUME NEW a \in Api, NEW p \in Posts, DeletePost(a, p) PROVE Signs'
  <2>1. Bytes(MediaOf(p)) = Total(size, MediaOf(p))
    BY DEF Bytes, Total, MapThenSumSet, MapThenFoldSet
  <2>2. MediaOf(p) \subseteq media /\ IsFiniteSet(MediaOf(p))
    BY <1>0, FS_Subset DEF Types, MediaOf
  <2>3. ASSUME ~credited PROVE Total(size, MediaOf(p)) >= 0
    <3>1. \A m \in MediaOf(p) : size[m] \in Nat
      BY <1>0, <2>2, <2>3 DEF TypeOK, Signs
    <3>2. Total(size, MediaOf(p)) \in Nat
      BY <2>2, <3>1, TotalNat
    <3>3. QED
      BY <3>2
  <2>4. Total(size, MediaOf(p)) \in Int /\ leaked \in Int
    BY <1>0, <2>2, SizesAreIntegers DEF TypeOK
  <2>5. /\ media' \subseteq media /\ leaked' = leaked + Total(size, MediaOf(p))
        /\ UNCHANGED <<size, pc, row, credited>>
    BY <1>8, <2>1 DEF DeletePost, request, columns
  <2>6. QED
    BY <1>0, <2>3, <2>4, <2>5 DEF Signs
<1>9. QED
  BY <1>1, <1>2, <1>3, <1>4, <1>5, <1>6, <1>7, <1>8
  DEF Next, Serve, Confirm, GetPresignedUrl, QuotaExceeded, PutObject, ConfirmRefused, NotFound, vars, request, history,
      columns

\* Every step keeps all of it.
LEMMA InvNext == Inv /\ [Next]_vars => Inv'
BY TypesNext, RequestsNext, ExplainedNext, DistinctNext, RowThereNext, SignsNext DEF Inv

\* So all of it always holds.
LEMMA InvAlways == Spec => []Inv
BY InvInit, InvNext, PTL DEF Spec

\* The variables of the storage keep their types: a media row belongs to a
\* post that exists.
THEOREM StorageTypes == Spec => []TypeOK
<1>1. Inv => TypeOK
  BY DEF Inv, Types
<1>2. QED
  BY <1>1, InvAlways, PTL

\* A media row that was inserted with its object there lacks it only while it
\* is being deleted, after such a deletion was cut off, or where the key is
\* another row's as well.
THEOREM MissingObjectsExplained == Spec => []MissingObjectExplained
<1>1. Inv => MissingObjectExplained
  BY DEF Inv, Explained, MissingObjectExplained
<1>2. QED
  BY <1>1, InvAlways, PTL

\* Two media have one content, or one place in a post, only if one of them was
\* inserted between the check and the INSERT of the other.
THEOREM MediaAreDistinct == Spec => []MediaDistinct
<1>1. Inv => MediaDistinct
  BY DEF Inv
<1>2. QED
  BY <1>1, InvAlways, PTL

-----------------------------------------------------------------------------
\* The bytes that are kept: those of the media, and those that went with their
\* posts.
Kept == Total(size, media) + leaked

Numbers == <<used, Kept>>

\* The sums in the model are totals, before and after a step.
LEMMA SumsAreTotals ==
  /\ Bytes(media) = Total(size, media)
  /\ Bytes(media)' = Total(size', media')
BY DEF Bytes, Total, MapThenSumSet, MapThenFoldSet

\* What the steps do to the bytes that are kept: an INSERT adds the size of its
\* row,
LEMMA Confirms ==
  ASSUME Inv, NEW a \in Api, ConfirmWrite(a)
  PROVE  size[row[a]] \in Sizes /\ used' = used + size[row[a]] /\ Kept' = Kept + size[row[a]]
<1> DEFINE m == row[a]
<1>1. m \in Rows /\ m \notin media /\ key[m] # None
  BY DEF Inv, Requests, ConfirmWrite, Confirming
<1>2. Types /\ media \subseteq Rows /\ leaked \in Int
  BY DEF Inv, Types, TypeOK
<1>3. media' = media \cup {m} /\ used' = used + size[m] /\ UNCHANGED <<size, leaked>>
  BY DEF ConfirmWrite, NoteInsert, columns
<1> HIDE DEF m
<1>4. IsFiniteSet(media) /\ \A n \in media \cup {m} : size[n] \in Int
  BY <1>1, <1>2, SizesAreIntegers DEF Types
<1>5. Total(size, media \cup {m}) = Total(size, media) + size[m]
  BY <1>1, <1>4, TotalAdd
<1>6. Total(size, media) \in Int /\ size[m] \in Int
  BY <1>4, TotalInt
<1>7. size[m] \in Sizes
  BY <1>1 DEF Inv, Sized
<1>8. QED
  BY <1>2, <1>3, <1>5, <1>6, <1>7 DEF Kept, m

\* the deletion of a row that is still there takes it off,
LEMMA Removes ==
  ASSUME Inv, NEW a \in Api, DeleteRow(a)
  PROVE  /\ size[row[a]] \in Sizes /\ used' = Lowered(size[row[a]])
         /\ Kept' = IF row[a] \in media THEN Kept - size[row[a]] ELSE Kept
         /\ row[a] \notin media => contended /\ contended'
<1> DEFINE m == row[a]
<1>1. /\ m \in Rows /\ key[m] # None
      /\ m \notin media => contended
  BY DEF Inv, Requests, RowThere, DeleteRow, Deleting
<1>2. Types /\ media \subseteq Rows /\ leaked \in Int
  BY DEF Inv, Types, TypeOK
<1>3. /\ media' = media \ {m} /\ used' = Lowered(size[m]) /\ UNCHANGED <<size, leaked>>
      /\ contended => contended'
  BY DEF DeleteRow, columns
<1> HIDE DEF m
<1>4. IsFiniteSet(media) /\ \A n \in media : size[n] \in Int
  BY <1>2, SizesAreIntegers DEF Types
<1>5. size[m] \in Sizes
  BY <1>1 DEF Inv, Sized
<1>6. CASE m \in media
  <2>1. Total(size, media) = size[m] + Total(size, media \ {m})
    BY <1>4, <1>6, TotalRemove
  <2>2. Total(size, media \ {m}) \in Int /\ size[m] \in Int
    BY <1>2, <1>4, <1>6, SizesAreIntegers
  <2>3. QED
    BY <1>2, <1>3, <1>5, <1>6, <2>1, <2>2 DEF Kept, m
<1>7. CASE m \notin media
  <2>1. media \ {m} = media
    BY <1>7
  <2>2. QED
    BY <1>1, <1>3, <1>5, <1>7, <2>1 DEF Kept, m
<1>8. QED
  BY <1>6, <1>7

\* and that of a post moves the bytes of its media to those that leaked.
LEMMA Leaks ==
  ASSUME Inv, NEW a \in Api, NEW p \in Posts, DeletePost(a, p)
  PROVE  UNCHANGED Numbers
<1>1. /\ media' = media \ MediaOf(p) /\ UNCHANGED <<size, used>>
      /\ leaked' = leaked + Total(size, MediaOf(p))
  <2>1. Bytes(MediaOf(p)) = Total(size, MediaOf(p))
    BY DEF Bytes, Total, MapThenSumSet, MapThenFoldSet
  <2>2. QED
    BY <2>1 DEF DeletePost, columns
<1>2. Types /\ media \subseteq Rows /\ leaked \in Int /\ MediaOf(p) \in SUBSET media
  BY DEF Inv, Types, TypeOK, MediaOf
<1>3. IsFiniteSet(media) /\ \A n \in media : size[n] \in Int
  BY <1>2, SizesAreIntegers DEF Types
<1>4. Total(size, media) = Total(size, media \ MediaOf(p)) + Total(size, MediaOf(p))
  BY <1>2, <1>3, TotalSplit
<1>5. Total(size, media \ MediaOf(p)) \in Int /\ Total(size, MediaOf(p)) \in Int
  BY <1>2, SizesAreIntegers
<1>6. QED
  BY <1>1, <1>2, <1>4, <1>5 DEF Kept, Numbers

\* A row that is named or withdrawn is none of the media.
LEMMA KeptElsewhere ==
  ASSUME Inv, \A n \in media : size'[n] = size[n], UNCHANGED <<used, media, leaked>>
  PROVE  UNCHANGED Numbers
<1>1. Total(size', media) = Total(size, media)
  BY TotalSame DEF Inv, Types
<1>2. QED
  BY <1>1 DEF Numbers, Kept

\* The steps of the ledger, and those that change no number.
Moves ==
  \/ \E s \in Sizes :
       \/ Kept' = Kept + s /\ used' = used + s
       \/ Kept' = Kept - s /\ used' = Lowered(s)
       \/ contended' /\ used' = Lowered(s) /\ UNCHANGED Kept
  \/ UNCHANGED Numbers

\* Every step of the storage is one of these.
LEMMA StepsOnLedger == Inv /\ [Next]_vars => Moves /\ contended' \in {contended, TRUE}
<1> SUFFICES ASSUME Inv, [Next]_vars PROVE Moves /\ contended' \in {contended, TRUE}
  OBVIOUS
<1>0. TypeOK /\ TypeOK' /\ Requests
  BY InvNext DEF Inv, Types
<1>1. CASE UNCHANGED <<used, size, media, leaked>> /\ UNCHANGED contended
  BY <1>1, KeptElsewhere DEF Moves
<1>2. ASSUME NEW a \in Api, NEW m \in Rows, NEW p \in Posts, NEW k \in Keys, NEW h \in Hashes, NEW s \in Sizes,
             ConfirmCheck(a, m, p, k, h, s)
      PROVE  Moves /\ contended' \in {contended, TRUE}
  <2>1. m \notin media /\ media \subseteq Rows
    BY <1>0, <1>2, NamesNewRow DEF ConfirmCheck, TypeOK
  <2>2. \A n \in media : size'[n] = size[n]
    BY <1>0, <1>2, <2>1 DEF TypeOK, ConfirmCheck
  <2>3. QED
    BY <1>2, <2>2, KeptElsewhere DEF ConfirmCheck, history, Moves
<1>3. ASSUME NEW a \in Api, ConfirmPostGone(a) \/ ConfirmCut(a) PROVE Moves /\ contended' \in {contended, TRUE}
  <2>1. media \subseteq Rows
    BY <1>0 DEF TypeOK
  <2>2. (\A n \in media : size'[n] = size[n]) /\ UNCHANGED <<used, media, leaked, contended>>
    BY <1>3, <2>1, WithdrawsOwnRow
  <2>3. QED
    BY <2>2, KeptElsewhere DEF Moves
<1>4. ASSUME NEW a \in Api, ConfirmWrite(a) PROVE Moves /\ contended' \in {contended, TRUE}
  <2>1. UNCHANGED contended
    BY <1>4 DEF ConfirmWrite, NoteInsert
  <2>2. QED
    BY <1>4, <2>1, Confirms DEF Moves
<1>5. ASSUME NEW a \in Api, DeleteRow(a) PROVE Moves /\ contended' \in {contended, TRUE}
  <2>1. contended' \in {contended, TRUE}
    BY <1>0, <1>5 DEF TypeOK, DeleteRow, Contend
  <2>2. Moves
    BY <1>5, Removes DEF Moves
  <2>3. QED
    BY <2>1, <2>2
<1>6. ASSUME NEW a \in Api, NEW p \in Posts, DeletePost(a, p) PROVE Moves /\ contended' \in {contended, TRUE}
  <2>1. contended' \in {contended, TRUE}
    BY <1>0, <1>6 DEF TypeOK, DeletePost, Contend
  <2>2. QED
    BY <1>6, <2>1, Leaks DEF Moves
<1>7. QED
  BY <1>1, <1>2, <1>3, <1>4, <1>5, <1>6
  DEF Next, Serve, Confirm, GetPresignedUrl, QuotaExceeded, PutObject, ConfirmRefused, ConfirmOrder, DeleteRead,
      DeleteObject, DeleteCut, NotFound, vars, columns, history

\* The storage implements its ledger.
THEOREM StorageImplementsLedger == Spec => ImplementsLedger
<1>1. Init => Ledger!Init
  <2> SUFFICES ASSUME Init PROVE Ledger!Init
    OBVIOUS
  <2>1. media = {} /\ used = 0 /\ leaked = 0 /\ contended = FALSE
    BY DEF Init
  <2>2. Bytes(media) = 0
    BY <2>1, SumsAreTotals, TotalEmpty
  <2>3. QED
    BY <2>1, <2>2 DEF Ledger!Init
<1>2. Inv /\ [Next]_vars => [Ledger!Next]_(Ledger!ledger)
  <2>1. Bytes(media) + leaked = Kept /\ (Bytes(media) + leaked)' = Kept'
    BY SumsAreTotals DEF Kept
  <2>2. QED
    BY <2>1, StepsOnLedger DEF Moves, Numbers, Lowered, Ledger!Next, Ledger!Step, Ledger!numbers, Ledger!Keep,
      Ledger!Remove, Ledger!RemoveAgain, Ledger!TakeOff
<1>3. QED
  BY <1>1, <1>2, InvInit, InvNext, PTL DEF Spec, ImplementsLedger, Ledger!Spec

-----------------------------------------------------------------------------
\* The usage against what is kept.
Balanced ==
  /\ ~contended => used >= Kept
  /\ ~credited => used <= Kept

\* The balance is even at the start.
LEMMA BalanceInit == Init => Balanced
<1> SUFFICES ASSUME Init PROVE Balanced
  OBVIOUS
<1>1. media = {} /\ used = 0 /\ leaked = 0
  BY DEF Init
<1>2. Kept = 0
  BY <1>1, TotalEmpty DEF Kept
<1>3. QED
  BY <1>1, <1>2 DEF Balanced

\* What is kept is an integer, and not negative as long as no size was.
NumbersType == Kept \in Int /\ used \in Int /\ (~credited => Kept >= 0)

\* That follows from the types of the rows and the signs of their sizes.
LEMMA KeptIsInteger == Inv => NumbersType
<1> SUFFICES ASSUME Inv PROVE NumbersType
  OBVIOUS
<1>1. Types /\ used \in Int /\ leaked \in Int /\ media \subseteq Rows /\ IsFiniteSet(media)
  BY DEF Inv, Types, TypeOK
<1>2. Total(size, media) \in Int /\ \A m \in Rows : size[m] \in Int
  BY <1>1, SizesAreIntegers
<1>3. ASSUME ~credited PROVE Total(size, media) >= 0 /\ leaked >= 0
  <2>1. leaked >= 0 /\ \A m \in media : size[m] \in Nat
    BY <1>1, <1>2, <1>3 DEF Inv, Signs
  <2>2. Total(size, media) \in Nat
    BY <1>1, <2>1, TotalNat
  <2>3. QED
    BY <2>1, <2>2
<1>4. QED
  BY <1>1, <1>2, <1>3 DEF Kept, NumbersType

\* The same after a step.
LEMMA KeptStaysInteger == Inv' => NumbersType'
BY KeptIsInteger, PTL

\* Every step keeps the balance.
LEMMA BalanceNext == Inv /\ Balanced /\ [Next]_vars => Balanced'
<1> SUFFICES ASSUME Inv, Balanced, [Next]_vars PROVE Balanced'
  OBVIOUS
<1>1. Kept \in Int /\ used \in Int /\ Kept' \in Int /\ used' \in Int /\ (~credited' => Kept' >= 0)
  BY InvNext, KeptIsInteger, KeptStaysInteger DEF NumbersType
<1>2. (contended => contended') /\ (credited => credited')
  <2>1. CASE UNCHANGED <<contended, credited>>
    BY <2>1
  <2>2. ASSUME NEW a \in Api, ConfirmWrite(a) PROVE (contended => contended') /\ (credited => credited')
    BY <2>2 DEF ConfirmWrite, NoteInsert
  <2>3. ASSUME NEW a \in Api, DeleteRow(a) PROVE (contended => contended') /\ (credited => credited')
    BY <2>3 DEF DeleteRow
  <2>4. ASSUME NEW a \in Api, NEW p \in Posts, DeletePost(a, p)
        PROVE  (contended => contended') /\ (credited => credited')
    BY <2>4 DEF DeletePost
  <2>5. QED
    BY <2>1, <2>2, <2>3, <2>4
    DEF Next, Serve, Confirm, GetPresignedUrl, QuotaExceeded, PutObject, ConfirmCheck, ConfirmRefused, ConfirmOrder,
        ConfirmPostGone, ConfirmCut, DeleteRead, DeleteObject, DeleteCut, NotFound, vars, history
<1>3. CASE UNCHANGED Numbers
  BY <1>2, <1>3 DEF Numbers, Balanced
<1>4. ASSUME NEW a \in Api, ConfirmWrite(a) PROVE Balanced'
  <2>1. size[row[a]] \in Int /\ used' = used + size[row[a]] /\ Kept' = Kept + size[row[a]]
    BY <1>4, Confirms, StorageConstants
  <2>2. QED
    BY <1>1, <1>2, <2>1 DEF Balanced
<1>5. ASSUME NEW a \in Api, DeleteRow(a) PROVE Balanced'
  <2> DEFINE s == size[row[a]]
  <2>1. /\ s \in Int /\ used' = Lowered(s)
        /\ Kept' = IF row[a] \in media THEN Kept - s ELSE Kept
        /\ row[a] \notin media => contended'
    BY <1>5, Removes, StorageConstants
  <2>2. ~credited => s >= 0
    BY <1>5 DEF Inv, Signs, DeleteRow, Deleting
  <2> HIDE DEF s
  <2>3. ~contended' => used' >= Kept'
    BY <1>1, <1>2, <2>1 DEF Balanced, Lowered
  <2>4. ~credited' => used' <= Kept'
    BY <1>1, <1>2, <2>1, <2>2 DEF Balanced, Lowered
  <2>5. QED
    BY <2>3, <2>4 DEF Balanced
<1>6. ASSUME Next PROVE Balanced' \/ UNCHANGED Numbers
  <2>1. TypeOK /\ media \subseteq Rows
    BY DEF Inv, Types, TypeOK
  <2>2. ASSUME NEW a \in Api, NEW m \in Rows, NEW p \in Posts, NEW k \in Keys, NEW h \in Hashes, NEW s \in Sizes,
               ConfirmCheck(a, m, p, k, h, s)
        PROVE  UNCHANGED Numbers
    <3>1. m \notin media
      BY <2>2, NamesNewRow DEF ConfirmCheck
    <3>2. \A n \in media : size'[n] = size[n]
      BY <2>1, <2>2, <3>1 DEF TypeOK, ConfirmCheck
    <3>3. QED
      BY <2>2, <3>2, KeptElsewhere DEF ConfirmCheck, history
  <2>3. ASSUME NEW a \in Api, ConfirmPostGone(a) \/ ConfirmCut(a) PROVE UNCHANGED Numbers
    BY <2>1, <2>3, WithdrawsOwnRow, KeptElsewhere
  <2>4. ASSUME UNCHANGED <<used, size, media, leaked>> PROVE UNCHANGED Numbers
    BY <2>4, KeptElsewhere
  <2>5. QED
    BY <1>4, <1>5, <1>6, <2>2, <2>3, <2>4, Leaks
    DEF Next, Serve, Confirm, GetPresignedUrl, QuotaExceeded, PutObject, ConfirmRefused, ConfirmOrder, DeleteRead,
        DeleteObject, DeleteCut, NotFound, vars, columns, history
<1>7. CASE UNCHANGED vars
  BY <1>3, <1>7, KeptElsewhere DEF vars, columns, history
<1>8. QED
  BY <1>3, <1>6, <1>7

\* The usage counts the media that exist and those that went with their posts:
\* never less unless two requests were deleting one row, and never more unless
\* a file of negative size was confirmed.
THEOREM UsageIsCounted == Spec => []UsageIsRight
<1>1. Balanced => UsageIsRight
  BY SumsAreTotals DEF Balanced, Kept, UsageIsRight
<1>2. QED
  BY <1>1, InvInit, InvNext, BalanceInit, BalanceNext, PTL DEF Spec

=============================================================================
