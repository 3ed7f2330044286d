------------------------------ MODULE CaveProofs -----------------------------
(***************************************************************************)
(* What the world of the CAVE server keeps under calls of its operations   *)
(* in any order, and what the server's threads keep that call them, for    *)
(* any connections, ids, clients and messages, however long the queues.    *)
(***************************************************************************)
EXTENDS CaveServer, CaveWorldCalls, FiniteSetTheorems, TLAPS

-----------------------------------------------------------------------------
(* Finite sets                                                             *)

(* The least of a set of numbers.                                          *)
LEMMA MinOfSet ==
  ASSUME NEW S \in SUBSET Nat, S # {}
  PROVE  Min(S) \in S /\ \A k \in S : Min(S) <= k
  <1> DEFINE R == {ss \in Nat \X Nat : ss[1] < ss[2]}
  <1>1. IsWellFoundedOn(R, Nat)
    BY NatLessThanWellFounded, Zenon DEF OpToRel
  <1>2. \A x, y \in Nat : y < x => <<y, x>> \in R
    OBVIOUS
  <1> HIDE DEF R
  <1>3. PICK m \in S : \A j \in S : ~ (<<j, m>> \in R)
    BY <1>1, WFMin
  <1>4. \A j \in S : m <= j
    <2>1. \A j \in S : m \in Nat /\ j \in Nat /\ ~(j < m)
      BY <1>2, <1>3
    <2>2. QED
      BY <2>1
  <1>5. QED
    BY <1>4 DEF Min

(* Of finite sets, one is smallest: there is no other inside it.           *)
LEMMA SmallestSet ==
  ASSUME NEW F, F # {}, \A S \in F : IsFiniteSet(S)
  PROVE  \E S \in F : \A T \in F : T \subseteq S => T = S
  <1> DEFINE U == UNION F
             R == StrictSubsetOrdering(U)
  <1>1. IsWellFoundedOn(R, FiniteSubsetsOf(U))
    BY FS_StrictSubsetOrderingWellFounded
  <1>2. F \subseteq FiniteSubsetsOf(U)
    BY DEF FiniteSubsetsOf
  <1>3. \A S, T \in F : T \subseteq S /\ T # S => <<T, S>> \in R
    BY DEF StrictSubsetOrdering
  <1> HIDE DEF R, U
  <1>4. PICK S \in F : \A T \in F : ~ (<<T, S>> \in R)
    BY <1>1, <1>2, WFMin
  <1>5. QED
    BY <1>3, <1>4

(* Keys are ordered as pairs of numbers are.                               *)
LEMMA LessOrders ==
  /\ \A a \in Keys : a = <<a[1], a[2]>> /\ a[1] \in Connections /\ a[2] \in Ids /\ ~Less(a, a)
  /\ \A a, b \in Keys : a = b \/ Less(a, b) \/ Less(b, a)
  /\ \A a, b \in Keys : ~(Less(a, b) /\ Less(b, a))
  /\ \A a, b, c \in Keys : Less(a, b) /\ Less(b, c) => Less(a, c)
  <1>1. \A a \in Keys : a = <<a[1], a[2]>> /\ a[1] \in Connections /\ a[2] \in Ids
    BY DEF Keys
  <1>2. \A a \in Keys : a[1] \in Nat /\ a[2] \in Nat
    BY <1>1, WorldAssumption
  <1>3. \A a, b \in Keys : a[1] = b[1] /\ a[2] = b[2] => a = b
    BY <1>1
  <1>4. \A a, b \in Keys : a = b \/ Less(a, b) \/ Less(b, a)
    BY <1>2, <1>3 DEF Less
  <1>5. QED
    BY <1>1, <1>2, <1>4 DEF Less

(* Every finite set of them has a greatest and a least.                    *)
LEMMA Extremes ==
  ASSUME NEW S \in SUBSET Keys, IsFiniteSet(S), S # {}
  PROVE  /\ Greatest(S) \in S /\ \A j \in S \ {Greatest(S)} : Less(j, Greatest(S))
         /\ Least(S) \in S /\ \A j \in S \ {Least(S)} : Less(Least(S), j)
  <1> DEFINE HasBoth(T) == /\ \E k \in T : \A j \in T \ {k} : Less(j, k)
                           /\ \E k \in T : \A j \in T \ {k} : Less(k, j)
             F == {T \in SUBSET S : T # {} /\ ~HasBoth(T)}
  <1>f. \A T : T \in F <=> T \subseteq S /\ T # {} /\ ~HasBoth(T)
    OBVIOUS
  <1> HIDE DEF F
  <1>1. HasBoth(S)
    <2> SUFFICES ASSUME ~HasBoth(S) PROVE FALSE
      OBVIOUS
    <2>1. F # {} /\ \A T \in F : IsFiniteSet(T)
      BY <1>f, FS_Subset
    <2>2. PICK T \in F : \A V \in F : V \subseteq T => V = T
      BY <2>1, SmallestSet
    <2>3. PICK x \in T : TRUE
      BY <1>f
    <2>4. CASE T = {x}
      BY <1>f, <2>4
    <2>5. CASE T # {x}
      <3>1. HasBoth(T \ {x})
        <4>1. T \ {x} # {} /\ T \ {x} \subseteq S /\ T \ {x} # T
          BY <1>f, <2>3, <2>5
        <4>2. T \ {x} \notin F
          BY <2>2, <4>1
        <4>3. QED
          BY <1>f, <4>1, <4>2
      <3>2. PICK g \in T \ {x} : \A j \in T \ {x, g} : Less(j, g)
        BY <3>1
      <3>3. PICK l \in T \ {x} : \A j \in T \ {x, l} : Less(l, j)
        BY <3>1
      <3>4. T \subseteq Keys
        BY <1>f
      <3>5. \E k \in T : \A j \in T \ {k} : Less(j, k)
        BY <2>3, <3>2, <3>4, LessOrders
      <3>6. \E k \in T : \A j \in T \ {k} : Less(k, j)
        BY <2>3, <3>3, <3>4, LessOrders
      <3>7. QED
        BY <1>f, <3>5, <3>6
    <2>6. QED
      BY <2>4, <2>5
  <1>2. QED
    BY <1>1 DEF Greatest, Least

-----------------------------------------------------------------------------
(* Iterators                                                               *)

(* A node with a left child is not alone in its tree.                      *)
LEMMA ShapesAre ==
  ASSUME NEW K \in SUBSET Keys, IsFiniteSet(K), NEW key \in K,
         NEW leftChild \in Shapes(K) \cup InsertShapes(K, key)
  PROVE  leftChild \in BOOLEAN /\ (leftChild => Cardinality(K) >= 2)
  <1>1. Cardinality(K) \in Nat /\ Cardinality(K) # 0
    BY FS_CardinalityType, FS_EmptySet
  <1>2. Shapes(K) \subseteq BOOLEAN
    BY DEF Shapes
  <1>3. {After(key, K) = {Greatest(K)}} \subseteq BOOLEAN
    OBVIOUS
  <1>4. InsertShapes(K, key) \subseteq BOOLEAN
    BY <1>2, <1>3 DEF InsertShapes
  <1>5. ASSUME Cardinality(K) = 1 PROVE Shapes(K) = {FALSE} /\ InsertShapes(K, key) = {FALSE}
    BY <1>5 DEF Shapes, InsertShapes
  <1>6. leftChild \in BOOLEAN /\ (Cardinality(K) = 1 => ~leftChild)
    BY <1>2, <1>4, <1>5
  <1>7. QED
    BY <1>1, <1>6

(* operator-- stays in the map.  From a key it goes to a smaller one, if   *)
(* there is one, and off the map or nowhere from the least.                *)
LEMMA PrevIs ==
  ASSUME NEW K \in SUBSET Keys, IsFiniteSet(K), K # {}, NEW it \in K \cup {End}, NEW leftChild
  PROVE  /\ Prev(it, K, leftChild) \in K \cup {End}
         /\ it \in K /\ Prev(it, K, leftChild) \in K /\ Cardinality(K) > 2
               => Less(Prev(it, K, leftChild), it)
  <1>1. End \notin K
    BY IteratorAssumption
  <1>2. CASE it = End
    BY <1>1, <1>2, Extremes DEF Prev
  <1>3. CASE it \in K /\ Before(it, K) # {}
    <2>1. Greatest(Before(it, K)) \in Before(it, K)
      <3>1. Before(it, K) \subseteq K
        BY DEF Before
      <3>2. IsFiniteSet(Before(it, K)) /\ Before(it, K) \in SUBSET Keys
        BY <3>1, FS_Subset
      <3>3. QED
        BY <1>3, <3>2, Extremes
    <2>2. Prev(it, K, leftChild) = Greatest(Before(it, K))
      BY <1>1, <1>3 DEF Prev
    <2>3. QED
      BY <2>1, <2>2 DEF Before
  <1>4. CASE it \in K /\ Before(it, K) = {}
    <2>1. Cardinality(K) \in Nat
      BY FS_CardinalityType
    <2>2. Prev(it, K, leftChild) = IF Cardinality(K) <= 2 /\ ~leftChild THEN it ELSE End
      BY <1>1, <1>4 DEF Prev
    <2>3. QED
      BY <1>1, <1>4, <2>1, <2>2
  <1>5. QED
    BY <1>2, <1>3, <1>4

(* So does operator++, which goes from a key to a greater one, or off the  *)
(* map.                                                                    *)
LEMMA NextIs ==
  ASSUME NEW K \in SUBSET Keys, IsFiniteSet(K), K # {}, NEW it \in K \cup {End},
         NEW leftChild \in BOOLEAN, leftChild => Cardinality(K) >= 2
  PROVE  /\ Next_(it, K, leftChild) \in K \cup {End}
         /\ it \in K /\ Next_(it, K, leftChild) \in K => Less(it, Next_(it, K, leftChild))
  <1>1. End \notin K
    BY IteratorAssumption
  <1>2. CASE it = End
    <2>1. Greatest(K) \in K /\ \A j \in K \ {Greatest(K)} : Less(j, Greatest(K))
      BY Extremes
    <2>2. ASSUME leftChild PROVE Greatest(Before(Greatest(K), K)) \in K
      <3>1. K # {Greatest(K)}
        BY <2>2, FS_Singleton
      <3>2. Before(Greatest(K), K) # {} /\ Before(Greatest(K), K) \subseteq K
        BY <2>1, <3>1 DEF Before
      <3>3. IsFiniteSet(Before(Greatest(K), K)) /\ Before(Greatest(K), K) \in SUBSET Keys
        BY <3>2, FS_Subset
      <3>4. QED
        BY <3>2, <3>3, Extremes
    <2>3. Next_(it, K, leftChild) = IF leftChild THEN Greatest(Before(Greatest(K), K))
                                                ELSE Greatest(K)
      BY <1>2 DEF Next_
    <2>4. QED
      BY <1>1, <1>2, <2>1, <2>2, <2>3
  <1>3. CASE it \in K /\ After(it, K) # {}
    <2>1. Least(After(it, K)) \in After(it, K)
      <3>1. After(it, K) \subseteq K
        BY DEF After
      <3>2. IsFiniteSet(After(it, K)) /\ After(it, K) \in SUBSET Keys
        BY <3>1, FS_Subset
      <3>3. QED
        BY <1>3, <3>2, Extremes
    <2>2. Next_(it, K, leftChild) = Least(After(it, K))
      BY <1>1, <1>3 DEF Next_
    <2>3. QED
      BY <2>1, <2>2 DEF After
  <1>4. CASE it \in K /\ After(it, K) = {}
    BY <1>1, <1>4 DEF Next_
  <1>5. QED
    BY <1>2, <1>3, <1>4

(* A path goes on from step to step, and stays where the steps lead.       *)
LEMMA PathIs ==
  ASSUME NEW X, NEW step \in [X -> X], NEW it \in X, NEW K, IsFiniteSet(K)
  PROVE  /\ Path(step, it, K) \in [0 .. Cardinality(K) + 1 -> X]
         /\ Path(step, it, K)[0] = it
         /\ \A n \in 1 .. Cardinality(K) + 1 :
               Path(step, it, K)[n] = step[Path(step, it, K)[n - 1]]
  <1> DEFINE Goes(f, m) == f = [n \in 0..m |-> IF n = 0 THEN it ELSE step[f[n - 1]]]
             Short == {m \in Nat : ~\E f \in [0..m -> X] : Goes(f, m)}
  <1>1. Short = {}
    <2> SUFFICES ASSUME Short # {} PROVE FALSE
      OBVIOUS
    <2> DEFINE m == Min(Short)
    <2>1. m \in Nat /\ m \in Short /\ \A k \in Short : m <= k
      BY MinOfSet
    <2> HIDE DEF m
    <2>2. CASE m = 0
      <3> DEFINE f == [n \in 0..0 |-> it]
      <3>1. f \in [0..0 -> X] /\ Goes(f, 0)
        OBVIOUS
      <3>2. QED
        BY <2>1, <2>2, <3>1
    <2>3. CASE m # 0
      <3>1. m - 1 \in Nat /\ m - 1 \notin Short
        <4> HIDE DEF Short
        <4>1. m - 1 \in Nat /\ ~(m <= m - 1)
          BY <2>1, <2>3
        <4>2. QED
          BY <2>1, <4>1
      <3>2. PICK g \in [0..(m - 1) -> X] : Goes(g, m - 1)
        BY <3>1
      <3> DEFINE f == [n \in 0..m |-> IF n < m THEN g[n] ELSE step[g[m - 1]]]
      <3>3. f \in [0..m -> X]
        BY <2>1, <2>3, <3>1
      <3>4. ASSUME NEW n \in 0..m PROVE f[n] = IF n = 0 THEN it ELSE step[f[n - 1]]
        <4>1. n < m => g[n] = IF n = 0 THEN it ELSE step[g[n - 1]]
          BY <2>1, <3>2
        <4>2. QED
          BY <2>1, <2>3, <4>1
      <3>5. Goes(f, m)
        BY <3>3, <3>4
      <3>6. QED
        BY <2>1, <3>3, <3>5
    <2>4. QED
      BY <2>2, <2>3
  <1>2. Cardinality(K) + 1 \in Nat
    BY FS_CardinalityType
  <1>3. PICK f \in [0 .. Cardinality(K) + 1 -> X] : Goes(f, Cardinality(K) + 1)
    BY <1>1, <1>2
  <1>4. Goes(Path(step, it, K), Cardinality(K) + 1)
    BY <1>3, Zenon DEF Path
  <1> DEFINE p == Path(step, it, K)
             S == {n \in 0 .. Cardinality(K) + 1 : p[n] \notin X}
  <1>5. p = [n \in 0 .. Cardinality(K) + 1 |-> p[n]]
    BY <1>4
  <1>6. /\ p[0] = it
        /\ \A n \in 1 .. Cardinality(K) + 1 : p[n] = step[p[n - 1]]
    BY <1>2, <1>4
  <1> HIDE DEF p
  <1>7. S = {}
    <2> SUFFICES ASSUME S # {} PROVE FALSE
      OBVIOUS
    <2> DEFINE m == Min(S)
    <2>1. m \in S /\ \A k \in S : m <= k
      <3>1. S \in SUBSET Nat
        BY <1>2
      <3>2. QED
        BY <3>1, MinOfSet
    <2> HIDE DEF m
    <2>2. m # 0
      BY <1>6, <2>1
    <2>3. m - 1 \in 0 .. Cardinality(K) + 1 /\ m - 1 \notin S /\ m \in 1 .. Cardinality(K) + 1
      BY <1>2, <2>1, <2>2
    <2>4. p[m] \in X
      BY <1>6, <2>3
    <2>5. QED
      BY <2>1, <2>4
  <1>8. p \in [0 .. Cardinality(K) + 1 -> X]
    BY <1>5, <1>7
  <1>9. QED
    BY <1>6, <1>8 DEF p

(* No path is longer than a set from which every step takes something.     *)
LEMMA PathEnds ==
  ASSUME NEW K, IsFiniteSet(K), NEW ahead \in [0 .. Cardinality(K) + 1 -> SUBSET K],
         \A n \in 1 .. Cardinality(K) + 1 : ahead[n] \subseteq ahead[n - 1] /\ ahead[n] # ahead[n - 1]
  PROVE  FALSE
  <1> DEFINE c == Cardinality(K)
             m == [n \in 0 .. c + 1 |-> Cardinality(ahead[n])]
             S == {n \in 0 .. c + 1 : ~(m[n] + n <= c)}
  <1>1. c \in Nat
    BY FS_CardinalityType
  <1>2. \A n \in 0 .. c + 1 : IsFiniteSet(ahead[n]) /\ m[n] \in Nat /\ m[n] <= c
    <2> SUFFICES ASSUME NEW n \in 0 .. c + 1
                 PROVE  IsFiniteSet(ahead[n]) /\ m[n] \in Nat /\ m[n] <= c
      OBVIOUS
    <2>1. ahead[n] \in SUBSET K
      OBVIOUS
    <2>2. QED
      BY <2>1, FS_Subset, FS_CardinalityType
  <1>3. \A n \in 1 .. c + 1 : m[n] < m[n - 1]
    <2> SUFFICES ASSUME NEW n \in 1 .. c + 1 PROVE m[n] < m[n - 1]
      OBVIOUS
    <2>1. n \in 0 .. c + 1 /\ n - 1 \in 0 .. c + 1
      BY <1>1
    <2>2. m[n] <= m[n - 1] /\ m[n] # m[n - 1]
      BY <1>2, <2>1, FS_Subset
    <2>3. QED
      BY <1>2, <2>1, <2>2
  <1> HIDE DEF m, c
  <1>4. S # {} /\ S \in SUBSET Nat
    <2>1. c + 1 \in 0 .. c + 1 /\ 0 \in 0 .. c + 1
      BY <1>1
    <2>2. c + 1 \in S
      BY <1>1, <1>2, <2>1
    <2>3. QED
      BY <1>1, <2>2
  <1> DEFINE k == Min(S)
  <1>5. k \in S /\ \A j \in S : k <= j
    BY <1>4, MinOfSet
  <1> HIDE DEF k
  <1>6. k # 0
    BY <1>2, <1>5
  <1>7. k - 1 \in 0 .. c + 1 /\ k - 1 \notin S /\ k \in 1 .. c + 1
    BY <1>1, <1>5, <1>6
  <1>8. m[k - 1] + (k - 1) <= c /\ m[k] < m[k - 1] /\ m[k] \in Nat /\ m[k - 1] \in Nat
    BY <1>2, <1>3, <1>5, <1>7
  <1>9. QED
    BY <1>1, <1>5, <1>7, <1>8

(* A loop over a path ends where the path leaves the connection's          *)
(* elements, and does not end if it never does.                            *)
LEMMA StopIs ==
  ASSUME NEW K \in SUBSET Keys, IsFiniteSet(K), NEW c,
         NEW curr \in [0 .. Cardinality(K) + 1 -> K \cup {End}]
  PROVE  /\ Stop(curr, c, K) \in K \cup {End, Hang}
         /\ Stop(curr, c, K) = Hang
               => \A n \in 0 .. Cardinality(K) + 1 : ConnectionAt(curr[n], K) = c
  <1> DEFINE stops == {n \in DOMAIN curr : ConnectionAt(curr[n], K) # c}
  <1>1. Cardinality(K) \in Nat
    BY FS_CardinalityType
  <1>2. Hang \notin K \cup {End}
    BY IteratorAssumption
  <1>3. CASE stops = {}
    BY <1>3 DEF Stop
  <1>4. CASE stops # {}
    <2>1. stops \in SUBSET Nat
      BY <1>1
    <2>2. Min(stops) \in stops
      BY <1>4, <2>1, MinOfSet
    <2>3. Stop(curr, c, K) = curr[Min(stops)]
      BY <1>4 DEF Stop
    <2>4. QED
      BY <1>2, <2>2, <2>3
  <1>5. QED
    BY <1>3, <1>4

(* while (curr->first.first == c) curr--: it stops in the map, unless the  *)
(* number of elements it reads at end() is that of the connection, or it   *)
(* stays at a begin() that is the root.                                    *)
LEMMA WalkBackIs ==
  ASSUME NEW K \in SUBSET Keys, IsFiniteSet(K), K # {}, NEW it \in K \cup {End}, NEW c,
         NEW leftChild \in BOOLEAN
  PROVE  /\ WalkBack(it, c, K, leftChild) \in K \cup {End, Hang}
         /\ WalkBack(it, c, K, leftChild) = Hang
               => \/ Cardinality(K) = c
                  \/ (Cardinality(K) <= 2 /\ it \in K /\ it[1] = c)
  <1> DEFINE step == Steps(Prev, K, leftChild)
             curr == Path(step, it, K)
             n0 == Cardinality(K)
  <1>1. n0 \in Nat /\ End \notin K
    BY FS_CardinalityType, IteratorAssumption
  <1>2. step \in [K \cup {End} -> K \cup {End}] /\ \A i \in K \cup {End} : step[i] = Prev(i, K, leftChild)
    <2>1. step = [i \in K \cup {End} |-> Prev(i, K, leftChild)]
      BY DEF Steps
    <2> HIDE DEF step
    <2>2. QED
      BY <2>1, PrevIs
  <1> HIDE DEF step
  <1>3. /\ curr \in [0 .. n0 + 1 -> K \cup {End}] /\ curr[0] = it
        /\ \A n \in 1 .. n0 + 1 : curr[n] = Prev(curr[n - 1], K, leftChild)
    <2>1. /\ curr \in [0 .. n0 + 1 -> K \cup {End}] /\ curr[0] = it
          /\ \A n \in 1 .. n0 + 1 : curr[n] = step[curr[n - 1]]
      <3> DEFINE X == K \cup {End}
      <3>1. step \in [X -> X] /\ it \in X
        BY <1>2
      <3> HIDE DEF X
      <3>2. curr \in [0 .. n0 + 1 -> X]
        BY <3>1, PathIs
      <3>3. curr[0] = it
        BY <3>1, PathIs
      <3>4. \A n \in 1 .. n0 + 1 : curr[n] = step[curr[n - 1]]
        BY <3>1, PathIs
      <3>5. QED
        BY <3>2, <3>3, <3>4 DEF X
    <2> HIDE DEF curr
    <2>2. \A n \in 1 .. n0 + 1 : n - 1 \in 0 .. n0 + 1
      BY <1>1
    <2>3. QED
      BY <1>2, <2>1, <2>2
  <1>4. WalkBack(it, c, K, leftChild) = Stop(curr, c, K)
    BY DEF WalkBack, step
  <1> HIDE DEF curr
  <1>5. ASSUME \A n \in 0 .. n0 + 1 : ConnectionAt(curr[n], K) = c, n0 # c
        PROVE  n0 <= 2 /\ it \in K /\ it[1] = c
    <2>1. \A n \in 0 .. n0 + 1 : curr[n] \in K
      BY <1>3, <1>5 DEF ConnectionAt
    <2>2. it \in K /\ it[1] = c
      <3>1. 0 \in 0 .. n0 + 1
        BY <1>1
      <3>2. QED
        BY <1>1, <1>3, <1>5, <2>1, <3>1 DEF ConnectionAt
    <2>3. ASSUME n0 > 2 PROVE FALSE
      <3> DEFINE ahead == [n \in 0 .. n0 + 1 |-> Before(curr[n], K)]
      <3>1. ahead \in [0 .. n0 + 1 -> SUBSET K]
        BY DEF Before
      <3>2. ASSUME NEW n \in 1 .. n0 + 1
            PROVE  ahead[n] \subseteq ahead[n - 1] /\ ahead[n] # ahead[n - 1]
        <4>1. n - 1 \in 0 .. n0 + 1 /\ n \in 0 .. n0 + 1
          BY <1>1
        <4>2. curr[n] \in K /\ curr[n - 1] \in K /\ Less(curr[n], curr[n - 1])
          BY <1>3, <2>1, <2>3, <4>1, PrevIs
        <4>3. Before(curr[n], K) \subseteq Before(curr[n - 1], K)
          BY <4>2, LessOrders DEF Before
        <4>4. curr[n] \in Before(curr[n - 1], K) /\ curr[n] \notin Before(curr[n], K)
          BY <4>2, LessOrders DEF Before
        <4>5. QED
          BY <4>1, <4>3, <4>4
      <3> HIDE DEF ahead
      <3>3. QED
        BY <3>1, <3>2, PathEnds
    <2>4. QED
      BY <1>1, <2>2, <2>3
  <1>6. QED
    BY <1>3, <1>4, <1>5, StopIs
(* while (curr->first.first == c) curr++: the same, but that operator++    *)
(* stays nowhere.                                                          *)
LEMMA WalkAheadIs ==
  ASSUME NEW K \in SUBSET Keys, IsFiniteSet(K), K # {}, NEW it \in K \cup {End}, NEW c,
         NEW leftChild \in BOOLEAN, leftChild => Cardinality(K) >= 2
  PROVE  /\ WalkAhead(it, c, K, leftChild) \in K \cup {End, Hang}
         /\ WalkAhead(it, c, K, leftChild) = Hang
               => Cardinality(K) = c
  <1> DEFINE step == Steps(Next_, K, leftChild)
             curr == Path(step, it, K)
             n0 == Cardinality(K)
  <1>1. n0 \in Nat /\ End \notin K
    BY FS_CardinalityType, IteratorAssumption
  <1>2. step \in [K \cup {End} -> K \cup {End}] /\ \A i \in K \cup {End} : step[i] = Next_(i, K, leftChild)
    <2>1. step = [i \in K \cup {End} |-> Next_(i, K, leftChild)]
      BY DEF Steps
    <2> HIDE DEF step
    <2>2. QED
      BY <2>1, NextIs
  <1> HIDE DEF step
  <1>3. /\ curr \in [0 .. n0 + 1 -> K \cup {End}] /\ curr[0] = it
        /\ \A n \in 1 .. n0 + 1 : curr[n] = Next_(curr[n - 1], K, leftChild)
    <2>1. /\ curr \in [0 .. n0 + 1 -> K \cup {End}] /\ curr[0] = it
          /\ \A n \in 1 .. n0 + 1 : curr[n] = step[curr[n - 1]]
      <3> DEFINE X == K \cup {End}
      <3>1. step \in [X -> X] /\ it \in X
        BY <1>2
      <3> HIDE DEF X
      <3>2. curr \in [0 .. n0 + 1 -> X]
        BY <3>1, PathIs
      <3>3. curr[0] = it
        BY <3>1, PathIs
      <3>4. \A n \in 1 .. n0 + 1 : curr[n] = step[curr[n - 1]]
        BY <3>1, PathIs
      <3>5. QED
        BY <3>2, <3>3, <3>4 DEF X
    <2> HIDE DEF curr
    <2>2. \A n \in 1 .. n0 + 1 : n - 1 \in 0 .. n0 + 1
      BY <1>1
    <2>3. QED
      BY <1>2, <2>1, <2>2
  <1>4. WalkAhead(it, c, K, leftChild) = Stop(curr, c, K)
    BY DEF WalkAhead, step
  <1> HIDE DEF curr
  <1>5. ASSUME \A n \in 0 .. n0 + 1 : ConnectionAt(curr[n], K) = c, n0 # c
        PROVE  FALSE
    <2>1. \A n \in 0 .. n0 + 1 : curr[n] \in K
      BY <1>3, <1>5 DEF ConnectionAt
    <2> DEFINE ahead == [n \in 0 .. n0 + 1 |-> After(curr[n], K)]
    <2>2. ahead \in [0 .. n0 + 1 -> SUBSET K]
      BY DEF After
    <2>3. ASSUME NEW n \in 1 .. n0 + 1
          PROVE  ahead[n] \subseteq ahead[n - 1] /\ ahead[n] # ahead[n - 1]
      <3>1. n - 1 \in 0 .. n0 + 1 /\ n \in 0 .. n0 + 1
        BY <1>1
      <3>2. curr[n] \in K /\ curr[n - 1] \in K /\ Less(curr[n - 1], curr[n])
        BY <1>3, <2>1, <3>1, NextIs
      <3>3. After(curr[n], K) \subseteq After(curr[n - 1], K)
        BY <3>2, LessOrders DEF After
      <3>4. curr[n] \in After(curr[n - 1], K) /\ curr[n] \notin After(curr[n], K)
        BY <3>2, LessOrders DEF After
      <3>5. QED
        BY <3>1, <3>3, <3>4
    <2> HIDE DEF ahead
    <2>4. QED
      BY <2>2, <2>3, PathEnds
  <1>6. QED
    BY <1>3, <1>4, <1>5, StopIs

-----------------------------------------------------------------------------
(* Sums: what SumFunction adds up does not depend on the order             *)

Picked(s) == CHOOSE x \in s : TRUE

(* The sums over all the subsets of S that the fold goes by.               *)
Sums(f, S) == CHOOSE sum : sum = [s \in SUBSET S |->
                                    IF s = {} THEN 0 ELSE f[Picked(s)] + sum[s \ {Picked(s)}]]

AddsUp(sum, f, S) == sum = [s \in SUBSET S |->
                              IF s = {} THEN 0 ELSE f[Picked(s)] + sum[s \ {Picked(s)}]]

(* SumFunction, by which TotalsAgree adds the counts, is such a sum.       *)
LEMMA SumFunctionIs ==
  ASSUME NEW f
  PROVE  SumFunction(f) = Sums(f, DOMAIN f)[DOMAIN f]
  BY Zenon DEF SumFunction, SumFunctionOnSet, FoldFunctionOnSet, MapThenFoldSet, Sums, Picked

(* The fold picks one that is left.                                        *)
LEMMA PickedIs == \A s : s # {} => Picked(s) \in s
  BY DEF Picked

(* What adds up over a set adds up over what is inside it.                 *)
LEMMA SumsAreUnique ==
  ASSUME NEW f, NEW S, IsFiniteSet(S), NEW T \in SUBSET S,
         NEW g, AddsUp(g, f, S), NEW h, AddsUp(h, f, T)
  PROVE  \A s \in SUBSET T : g[s] = h[s]
  <1> DEFINE F == {s \in SUBSET T : g[s] # h[s]}
  <1>1. ASSUME NEW s \in F, \A t \in F : t \subseteq s => t = s PROVE FALSE
    <2>1. s \in SUBSET T /\ s \in SUBSET S
      OBVIOUS
    <2>2. CASE s = {}
      BY <2>1, <2>2 DEF AddsUp
    <2>3. CASE s # {}
      <3> DEFINE t == s \ {Picked(s)}
      <3>1. t \in SUBSET T /\ t \subseteq s /\ t # s
        BY <2>1, <2>3, PickedIs
      <3>2. g[t] = h[t]
        BY <1>1, <3>1
      <3>3. g[s] = f[Picked(s)] + g[t] /\ h[s] = f[Picked(s)] + h[t]
        BY <2>1, <2>3 DEF AddsUp
      <3>4. QED
        BY <3>2, <3>3
    <2>4. QED
      BY <2>2, <2>3
  <1>2. \A s \in F : IsFiniteSet(s)
    BY FS_Subset
  <1>3. F = {}
    <2> HIDE DEF F
    <2>1. QED
      BY <1>1, <1>2, SmallestSet
  <1>4. QED
    BY <1>3

(* Over a finite set, something does.                                      *)
LEMMA SumsAddUp ==
  ASSUME NEW f, NEW S, IsFiniteSet(S)
  PROVE  AddsUp(Sums(f, S), f, S)
  <1> SUFFICES \E g : AddsUp(g, f, S)
    BY DEF Sums, AddsUp
  <1> DEFINE Has(T) == \E g : AddsUp(g, f, T)
             F == {T \in SUBSET S : ~Has(T)}
  <1>1. ASSUME NEW T \in F, \A V \in F : V \subseteq T => V = T PROVE FALSE
    <2> DEFINE Rest(s) == s \ {Picked(s)}
               g == [s \in SUBSET T |-> IF s = {} THEN 0
                                        ELSE f[Picked(s)] + Sums(f, Rest(s))[Rest(s)]]
    <2>1. ASSUME NEW V \in SUBSET T, V # T PROVE AddsUp(Sums(f, V), f, V) /\ IsFiniteSet(V)
      <3>1. Has(V)
        BY <1>1, <2>1
      <3>2. QED
        BY <3>1, FS_Subset DEF Sums, AddsUp
    <2>2. ASSUME NEW s \in SUBSET T, s # {}
          PROVE  g[Rest(s)] = Sums(f, Rest(s))[Rest(s)]
      <3> DEFINE u == Rest(s)
      <3>1. u \in SUBSET T /\ u # T
        BY <2>2, PickedIs
      <3>2. AddsUp(Sums(f, u), f, u) /\ IsFiniteSet(u)
        BY <2>1, <3>1
      <3> HIDE DEF u
      <3>3. ASSUME u = {} PROVE g[u] = Sums(f, u)[u]
        BY <3>1, <3>2, <3>3 DEF AddsUp
      <3>4. ASSUME u # {} PROVE g[u] = Sums(f, u)[u]
        <4>1. Rest(u) \in SUBSET T /\ Rest(u) # T /\ Rest(u) \in SUBSET u
          BY <3>1, <3>4, PickedIs
        <4>2. AddsUp(Sums(f, Rest(u)), f, Rest(u))
          BY <2>1, <4>1
        <4>3. Sums(f, u)[Rest(u)] = Sums(f, Rest(u))[Rest(u)]
          <5> DEFINE v == Rest(u)
          <5>1. AddsUp(Sums(f, v), f, v) /\ v \in SUBSET u
            BY <4>1, <4>2
          <5> HIDE DEF v
          <5>2. \A w \in SUBSET v : Sums(f, u)[w] = Sums(f, v)[w]
            BY <3>2, <5>1, SumsAreUnique
          <5>3. Sums(f, u)[v] = Sums(f, v)[v]
            BY <5>2
          <5>4. QED
            BY <5>3 DEF v
        <4>4. Sums(f, u)[u] = f[Picked(u)] + Sums(f, u)[Rest(u)]
          BY <3>2, <3>4 DEF AddsUp
        <4>5. g[u] = f[Picked(u)] + Sums(f, Rest(u))[Rest(u)]
          BY <3>1, <3>4
        <4>6. QED
          BY <4>3, <4>4, <4>5
      <3>5. QED
        BY <3>3, <3>4 DEF u
    <2>3. AddsUp(g, f, T)
      <3>1. \A s \in SUBSET T : g[s] = IF s = {} THEN 0 ELSE f[Picked(s)] + g[s \ {Picked(s)}]
        BY <2>2
      <3> HIDE DEF Rest
      <3>2. g = [s \in SUBSET T |-> g[s]]
        OBVIOUS
      <3> HIDE DEF g
      <3>3. QED
        BY <3>1, <3>2 DEF AddsUp
    <2>4. QED
      BY <1>1, <2>3
  <1>2. \A T \in F : IsFiniteSet(T)
    BY FS_Subset
  <1>3. F = {}
    <2> HIDE DEF F
    <2>1. QED
      BY <1>1, <1>2, SmallestSet
  <1>4. QED
    BY <1>3

Sum(f, S) == Sums(f, S)[S]

(* One summand is picked, and the rest added up.                           *)
LEMMA SumPicks ==
  ASSUME NEW f, NEW S, IsFiniteSet(S)
  PROVE  Sum(f, S) = IF S = {} THEN 0 ELSE f[Picked(S)] + Sum(f, S \ {Picked(S)})
  <1>1. AddsUp(Sums(f, S), f, S)
    BY SumsAddUp
  <1>2. CASE S = {}
    BY <1>1, <1>2 DEF AddsUp, Sum
  <1>3. CASE S # {}
    <2> DEFINE T == S \ {Picked(S)}
    <2>1. T \in SUBSET S /\ IsFiniteSet(T)
      BY FS_Subset
    <2>2. Sum(f, S) = f[Picked(S)] + Sums(f, S)[T]
      BY <1>1, <1>3 DEF AddsUp, Sum
    <2> HIDE DEF T
    <2>3. AddsUp(Sums(f, T), f, T)
      BY <2>1, SumsAddUp
    <2>4. Sums(f, S)[T] = Sums(f, T)[T]
      <3>1. T \in SUBSET S /\ T \in SUBSET T
        BY <2>1
      <3>2. \A s \in SUBSET T : Sums(f, S)[s] = Sums(f, T)[s]
        BY <1>1, <2>3, <3>1, SumsAreUnique
      <3>3. QED
        BY <3>1, <3>2
    <2>5. Sum(f, S) = f[Picked(S)] + Sum(f, T)
      BY <2>2, <2>4 DEF Sum
    <2>6. QED
      BY <1>3, <2>5 DEF T
  <1>4. QED
    BY <1>2, <1>3

(* The sum of numbers is a number, the same for functions that agree.      *)
LEMMA SumIsNumber ==
  ASSUME NEW S, IsFiniteSet(S), NEW f, NEW g, \A x \in S : f[x] \in Int /\ f[x] = g[x]
  PROVE  Sum(f, S) \in Int /\ Sum(f, S) = Sum(g, S)
  <1> DEFINE Good(T) == Sum(f, T) \in Int /\ Sum(f, T) = Sum(g, T)
             F == {T \in SUBSET S : ~Good(T)}
  <1>1. \A T \in F : T \subseteq S /\ ~Good(T) /\ IsFiniteSet(T)
    BY FS_Subset
  <1>2. \A T : T \subseteq S /\ T \notin F => Good(T)
    OBVIOUS
  <1> HIDE DEF F
  <1>3. ASSUME NEW T \in F, \A V \in F : V \subseteq T => V = T PROVE FALSE
    <2>1. CASE T = {}
      <3>1. Sum(f, T) = 0 /\ Sum(g, T) = 0
        BY <1>1, <2>1, SumPicks
      <3>2. QED
        BY <1>1, <3>1
    <2>2. CASE T # {}
      <3> DEFINE V == T \ {Picked(T)}
      <3>1. V \subseteq S /\ V \subseteq T /\ V # T /\ Picked(T) \in S
        BY <1>1, <2>2, PickedIs
      <3>2. Good(V)
        BY <1>2, <1>3, <3>1
      <3>3. Sum(f, T) = f[Picked(T)] + Sum(f, V) /\ Sum(g, T) = g[Picked(T)] + Sum(g, V)
        BY <1>1, <2>2, SumPicks
      <3> HIDE DEF V
      <3>4. Good(T)
        BY <3>1, <3>2, <3>3
      <3>5. QED
        BY <1>1, <3>4
    <2>3. QED
      BY <2>1, <2>2
  <1>4. F = {}
    BY <1>1, <1>3, SmallestSet
  <1>5. QED
    BY <1>2, <1>4

(* Any summand may be picked.                                              *)
LEMMA SumInAnyOrder ==
  ASSUME NEW S, IsFiniteSet(S), NEW f, \A x \in S : f[x] \in Int, NEW x \in S
  PROVE  Sum(f, S) = f[x] + Sum(f, S \ {x})
  <1> DEFINE Good(T) == \A y \in T : Sum(f, T) = f[y] + Sum(f, T \ {y})
             F == {T \in SUBSET S : ~Good(T)}
  <1>1. \A T \in F : T \subseteq S /\ ~Good(T) /\ IsFiniteSet(T)
    BY FS_Subset
  <1>2. \A T : T \subseteq S /\ T \notin F => Good(T)
    OBVIOUS
  <1> HIDE DEF F
  <1>3. ASSUME NEW T \in F, \A V \in F : V \subseteq T => V = T PROVE FALSE
    <2>1. PICK y \in T : Sum(f, T) # f[y] + Sum(f, T \ {y})
      BY <1>1
    <2> DEFINE z == Picked(T)
    <2>2. Sum(f, T) = f[z] + Sum(f, T \ {z}) /\ z \in T
      BY <1>1, <2>1, SumPicks, PickedIs
    <2> HIDE DEF z
    <2>3. z # y
      BY <2>1, <2>2
    <2>4. Good(T \ {z}) /\ Good(T \ {y})
      <3>1. ASSUME NEW v \in T PROVE Good(T \ {v})
        <4>1. T \ {v} \subseteq S /\ T \ {v} \subseteq T /\ T \ {v} # T
          BY <1>1
        <4>2. QED
          BY <1>2, <1>3, <4>1
      <3>2. QED
        BY <2>1, <2>2, <3>1
    <2>5. Sum(f, T \ {z}) = f[y] + Sum(f, (T \ {z}) \ {y})
      BY <2>1, <2>3, <2>4
    <2>6. Sum(f, T \ {y}) = f[z] + Sum(f, (T \ {y}) \ {z})
      BY <2>2, <2>3, <2>4
    <2>7. (T \ {z}) \ {y} = (T \ {y}) \ {z}
      OBVIOUS
    <2>8. f[y] \in Int /\ f[z] \in Int
      BY <1>1, <2>2
    <2>9. PICK V : V = (T \ {y}) \ {z}
      OBVIOUS
    <2>10. Sum(f, V) \in Int
      <3>1. V \subseteq S /\ IsFiniteSet(V)
        BY <1>1, <2>9, FS_Subset
      <3>2. QED
        BY <3>1, SumIsNumber
    <2>11. Sum(f, T \ {z}) = f[y] + Sum(f, V) /\ Sum(f, T \ {y}) = f[z] + Sum(f, V)
      BY <2>5, <2>6, <2>7, <2>9
    <2>12. QED
      BY <2>1, <2>2, <2>8, <2>10, <2>11
  <1>4. F = {}
    BY <1>1, <1>3, SmallestSet
  <1>5. QED
    BY <1>2, <1>4

(* So a change of one summand changes the sum by as much,                  *)
LEMMA SumChanges ==
  ASSUME NEW S, IsFiniteSet(S), NEW f \in [S -> Int], NEW g \in [S -> Int], NEW c \in S,
         \A x \in S \ {c} : g[x] = f[x]
  PROVE  SumFunction(f) \in Int /\ SumFunction(g) = SumFunction(f) + (g[c] - f[c])
  <1>1. SumFunction(f) = Sum(f, S) /\ SumFunction(g) = Sum(g, S)
    BY SumFunctionIs DEF Sum
  <1> DEFINE T == S \ {c}
  <1>2. IsFiniteSet(T) /\ T \subseteq S
    BY FS_Subset
  <1>3. Sum(f, S) = f[c] + Sum(f, T) /\ Sum(g, S) = g[c] + Sum(g, T)
    BY SumInAnyOrder
  <1>4. \A x \in T : f[x] \in Int /\ f[x] = g[x]
    OBVIOUS
  <1> HIDE DEF T
  <1>5. Sum(f, T) \in Int /\ Sum(f, T) = Sum(g, T)
    BY <1>2, <1>4, SumIsNumber
  <1>6. QED
    BY <1>1, <1>3, <1>5

(* and one more that is 0 does not.                                        *)
LEMMA SumGrowsByNothing ==
  ASSUME NEW S, IsFiniteSet(S), NEW f \in [S -> Int], NEW c, c \notin S,
         NEW g \in [S \cup {c} -> Int], g[c] = 0, \A x \in S : g[x] = f[x]
  PROVE  SumFunction(g) = SumFunction(f)
  <1>1. SumFunction(f) = Sum(f, S) /\ SumFunction(g) = Sum(g, S \cup {c})
    BY SumFunctionIs DEF Sum
  <1>2. IsFiniteSet(S \cup {c}) /\ (S \cup {c}) \ {c} = S
    BY FS_AddElement
  <1>3. Sum(g, S \cup {c}) = g[c] + Sum(g, S)
    <2> DEFINE T == S \cup {c}
    <2>1. IsFiniteSet(T) /\ c \in T /\ T \ {c} = S /\ \A x \in T : g[x] \in Int
      BY <1>2
    <2> HIDE DEF T
    <2>2. Sum(g, T) = g[c] + Sum(g, T \ {c})
      BY <2>1, SumInAnyOrder
    <2>3. QED
      BY <2>1, <2>2 DEF T
  <1>4. \A x \in S : f[x] \in Int /\ f[x] = g[x]
    OBVIOUS
  <1>5. Sum(f, S) \in Int /\ Sum(f, S) = Sum(g, S)
    BY <1>4, SumIsNumber
  <1>6. QED
    BY <1>1, <1>3, <1>5

-----------------------------------------------------------------------------
(* The world                                                               *)

(* The iterators of a profile are in the map, at its end, or freed.        *)
InMap == DOMAIN elements \cup {End, Freed}

WorldInv ==
    /\ WorldTypeOK /\ WaitingOrBound
    /\ IsFiniteSet(DOMAIN elements) /\ IsFiniteSet(DOMAIN endpoints)
    /\ endpoints \in [DOMAIN endpoints -> Profiles]
    /\ \A c \in DOMAIN endpoints : endpoints[c].first \in InMap /\ endpoints[c].last \in InMap

(* What every operation but the removals does to the counts.               *)
CountsKept == /\ CountsMatchElements => CountsMatchElements'
              /\ TotalsAgree => TotalsAgree'

USE DEF Iterators

Counts == [c \in DOMAIN endpoints |-> endpoints[c].count]

(* The counts of the profiles are numbers, and can be summed.              *)
LEMMA CountsAre ==
  ASSUME WorldInv
  PROVE  Counts \in [DOMAIN endpoints -> Int] /\ \A c \in DOMAIN endpoints : Counts[c] = endpoints[c].count
  BY DEF WorldInv, Profiles, Counts

(* A world in which nobody is registered has all of it.                    *)
LEMMA WorldInvInit == WorldInit => WorldInv /\ CountsMatchElements /\ TotalsAgree
  <1> SUFFICES ASSUME WorldInit PROVE WorldInv /\ CountsMatchElements /\ TotalsAgree
    OBVIOUS
  <1>1. DOMAIN endpoints = {} /\ DOMAIN elements = {} /\ registered = {} /\ status = "running"
        /\ endpoints = [c \in {} |-> endpoints[c]]
    BY DEF WorldInit
  <1>2. WorldInv
    BY <1>1, FS_EmptySet DEF WorldInv, WorldTypeOK, WaitingOrBound
  <1>3. CountsMatchElements
    BY <1>1 DEF CountsMatchElements
  <1>4. TotalsAgree
    <2>1. DOMAIN Counts = {}
      BY <1>1 DEF Counts
    <2>2. SumFunction(Counts) = Sum(Counts, {})
      BY <2>1, SumFunctionIs DEF Sum
    <2>3. Sum(Counts, {}) = 0
      BY FS_EmptySet, SumPicks
    <2>4. QED
      BY <1>1, <2>2, <2>3, FS_EmptySet DEF TotalsAgree, Counts
  <1>5. QED
    BY <1>2, <1>3, <1>4

(* A number waits for its endpoint.                                        *)
LEMMA NumberKeeps ==
  ASSUME WorldInv, NEW c \in Connections, RegisterConnectionNumber(c)
  PROVE  WorldInv' /\ CountsKept /\ UNCHANGED <<endpoints, elements, status>>
  <1>1. registered' \subseteq Connections /\ registered' \cap DOMAIN endpoints = {}
        /\ UNCHANGED <<endpoints, elements, status>>
    BY DEF RegisterConnectionNumber, WorldInv, WorldTypeOK, WaitingOrBound
  <1>2. QED
    BY <1>1 DEF WorldInv, WorldTypeOK, WaitingOrBound, InMap, CountsKept, CountsMatchElements,
                TotalsAgree, Owned

(* An endpoint is bound to a number that waits, and owns nothing.          *)
LEMMA EndpointKeeps ==
  ASSUME WorldInv, NEW c \in registered, NEW a \in Addresses,
         CanRegisterEndpoint(c), RegisterEndpoint(a, c)
  PROVE  /\ WorldInv' /\ CountsKept /\ UNCHANGED <<elements, status>>
         /\ registered' = registered \ {c} /\ DOMAIN endpoints' = DOMAIN endpoints \cup {c}
  <1> DEFINE new == [endpoint |-> a, count |-> 0, first |-> End, last |-> End]
             S == DOMAIN endpoints
  <1>1. c \notin S /\ registered' = registered \ {c} /\ UNCHANGED <<elements, status>>
    BY DEF RegisterEndpoint, CanRegisterEndpoint
  <1>2. endpoints' = [d \in S \cup {c} |-> IF d = c THEN new ELSE endpoints[d]]
    BY DEF RegisterEndpoint, With
  <1>3. DOMAIN endpoints' = S \cup {c} /\ endpoints'[c] = new
        /\ \A d \in S : endpoints'[d] = endpoints[d]
    BY <1>1, <1>2
  <1>4. new \in Profiles
    BY DEF Profiles
  <1>5. endpoints' \in [DOMAIN endpoints' -> Profiles] /\ IsFiniteSet(DOMAIN endpoints')
    <2>1. endpoints' \in [S \cup {c} -> Profiles]
      BY <1>2, <1>3, <1>4 DEF WorldInv
    <2>2. QED
      BY <1>3, <2>1, FS_AddElement DEF WorldInv
  <1>6. WorldInv'
    <2>1. DOMAIN endpoints' \subseteq Connections /\ registered' \subseteq Connections
          /\ registered' \cap DOMAIN endpoints' = {}
      BY <1>1, <1>3 DEF WorldInv, WorldTypeOK, WaitingOrBound
    <2>2. \A d \in DOMAIN endpoints' :
             endpoints'[d] \in Profiles /\ endpoints'[d].first \in InMap /\ endpoints'[d].last \in InMap
      BY <1>3, <1>5 DEF WorldInv, InMap
    <2>3. InMap' = InMap
      BY <1>1 DEF InMap
    <2>4. QED
      BY <1>1, <1>5, <2>1, <2>2, <2>3 DEF WorldInv, WorldTypeOK, WaitingOrBound
  <1>7. CountsMatchElements => CountsMatchElements'
    <2> SUFFICES ASSUME CountsMatchElements PROVE CountsMatchElements'
      OBVIOUS
    <2>1. \A d : Owned(d)' = Owned(d)
      BY <1>1 DEF Owned
    <2>2. Owned(c) = {}
      BY <1>1 DEF CountsMatchElements, Owned
    <2>3. endpoints'[c].count = Cardinality(Owned(c))
      BY <1>3, <2>2, FS_EmptySet
    <2>4. QED
      BY <1>1, <1>3, <2>1, <2>3 DEF CountsMatchElements
  <1>8. TotalsAgree => TotalsAgree'
    <2>1. Counts \in [S -> Int] /\ \A d \in S : Counts[d] = endpoints[d].count
      BY CountsAre
    <2>2. Counts' \in [S \cup {c} -> Int] /\ \A d \in S \cup {c} : Counts'[d] = endpoints'[d].count
      BY <1>3, <1>5 DEF Counts, Profiles
    <2>3. Counts'[c] = 0 /\ \A d \in S : Counts'[d] = Counts[d]
      BY <1>3, <2>1, <2>2
    <2>4. IsFiniteSet(S)
      BY DEF WorldInv
    <2>5. SumFunction(Counts') = SumFunction(Counts)
      <3>1. PICK T, f, g : T = S /\ f = Counts /\ g = Counts'
        OBVIOUS
      <3>2. f \in [T -> Int] /\ g \in [T \cup {c} -> Int] /\ c \notin T /\ IsFiniteSet(T)
            /\ g[c] = 0 /\ \A d \in T : g[d] = f[d]
        BY <1>1, <2>1, <2>2, <2>3, <2>4, <3>1
      <3>3. SumFunction(g) = SumFunction(f)
        BY <3>2, SumGrowsByNothing
      <3>4. QED
        BY <3>1, <3>3
    <2>6. QED
      BY <1>1, <2>5 DEF TotalsAgree, Counts
  <1>9. QED
    BY <1>1, <1>3, <1>6, <1>7, <1>8 DEF CountsKept

(* When one profile counts more or less, the total changes by as much.     *)
LEMMA TotalsMove ==
  ASSUME WorldInv, NEW c \in DOMAIN endpoints,
         endpoints' \in [DOMAIN endpoints -> Profiles],
         \A d \in DOMAIN endpoints \ {c} : endpoints'[d].count = endpoints[d].count,
         Cardinality(DOMAIN elements')
             = Cardinality(DOMAIN elements) + (endpoints'[c].count - endpoints[c].count)
  PROVE  TotalsAgree => TotalsAgree'
  <1>1. PICK S, f, g : S = DOMAIN endpoints /\ f = Counts /\ g = Counts'
    OBVIOUS
  <1>2. IsFiniteSet(S) /\ c \in S
    BY <1>1 DEF WorldInv
  <1>3. f \in [S -> Int] /\ g \in [S -> Int]
    BY <1>1 DEF Counts, WorldInv, Profiles
  <1>4. \A d \in S \ {c} : g[d] = f[d]
    BY <1>1 DEF Counts
  <1>5. SumFunction(g) = SumFunction(f) + (g[c] - f[c])
    BY <1>2, <1>3, <1>4, SumChanges
  <1>6. g[c] = endpoints'[c].count /\ f[c] = endpoints[c].count
    BY <1>1 DEF Counts
  <1>7. QED
    BY <1>1, <1>5, <1>6 DEF TotalsAgree, Counts

(* An update of an element that is there changes its value.                *)
LEMMA OverwriteKeeps ==
  ASSUME WorldInv, NEW m \in Messages, NEW key \in DOMAIN elements, Overwrite(m, key)
  PROVE  WorldInv' /\ CountsKept /\ status' = status /\ DOMAIN elements' = DOMAIN elements
  <1>1. UNCHANGED <<registered, endpoints, status>>
    BY DEF Overwrite
  <1>2. DOMAIN elements' = DOMAIN elements
    BY DEF Overwrite
  <1>3. \A k \in DOMAIN elements' : elements'[k] \in Messages
    BY DEF Overwrite, WorldInv, WorldTypeOK
  <1>4. \A d : Owned(d)' = Owned(d)
    BY <1>2 DEF Owned
  <1>5. WorldInv'
    BY <1>1, <1>2, <1>3 DEF WorldInv, WorldTypeOK, WaitingOrBound, InMap
  <1>6. CountsKept
    BY <1>1, <1>2, <1>4 DEF CountsKept, CountsMatchElements, TotalsAgree
  <1>7. QED
    BY <1>1, <1>2, <1>5, <1>6

Recounts(c, more, K) ==
    \E first \in K \cup {End, Freed}, last \in K \cup {End, Freed} :
        endpoints' = Counted(c, more, first, last)

(* What Insert does to a profile: one element more, and its iterators      *)
(* point into the map that has the element.                                *)
LEMMA InsertIs ==
  ASSUME WorldInv, NEW m \in Messages, NEW c \in DOMAIN endpoints, NEW key \in Keys,
         key[1] = c, key \notin DOMAIN elements, Insert(m, c, key)
  PROVE  /\ Recounts(c, 1, DOMAIN elements \cup {key})
         /\ status' \in {status, "hung", "undefined"}
         /\ status' # status /\ status' = "hung" =>
               LET K == DOMAIN elements \cup {key}
               IN  \/ Cardinality(K) = c
                   \/ (Cardinality(K) <= 2 /\ endpoints[c].first \in K /\ endpoints[c].first[1] = c)
  <1>1. PICK K, first, last : /\ K = DOMAIN elements \cup {key}
                              /\ first = endpoints[c].first /\ last = endpoints[c].last
    OBVIOUS
  <1>2. first \in InMap /\ last \in InMap
    BY <1>1 DEF WorldInv
  <1>3. InMap \subseteq K \cup {End, Freed}
    BY <1>1 DEF InMap
  <1>4. K \in SUBSET Keys /\ IsFiniteSet(K) /\ K # {} /\ key \in K
    BY <1>1, FS_AddElement DEF WorldInv, WorldTypeOK
  <1> DEFINE back(leftChild) == WalkBack(first, c, K, leftChild)
             ahead(leftChild) == WalkAhead(last, c, K, leftChild)
  <1>5. IF Freed \in {first, last}
          THEN status' = "undefined" /\ endpoints' = Counted(c, 1, first, last)
          ELSE \E leftChild \in InsertShapes(K, key) :
                 IF Hang \in {back(leftChild), ahead(leftChild)}
                   THEN status' = "hung" /\ endpoints' = Counted(c, 1, first, last)
                   ELSE /\ endpoints' = Counted(c, 1, Next_(back(leftChild), K, leftChild),
                                                      Prev(ahead(leftChild), K, leftChild))
                        /\ UNCHANGED status
    BY <1>1 DEF Insert
  <1>6. CASE Freed \in {first, last}
    BY <1>1, <1>2, <1>3, <1>5, <1>6 DEF Recounts
  <1>7. CASE Freed \notin {first, last}
    <2>1. PICK leftChild \in InsertShapes(K, key) :
             IF Hang \in {back(leftChild), ahead(leftChild)}
               THEN status' = "hung" /\ endpoints' = Counted(c, 1, first, last)
               ELSE /\ endpoints' = Counted(c, 1, Next_(back(leftChild), K, leftChild),
                                                  Prev(ahead(leftChild), K, leftChild))
                    /\ UNCHANGED status
      BY <1>5, <1>7
    <2>2. first \in K \cup {End} /\ last \in K \cup {End}
      BY <1>2, <1>3, <1>7
    <2>3. leftChild \in BOOLEAN /\ (leftChild => Cardinality(K) >= 2)
      BY <1>4, ShapesAre
    <2>4. PICK b, a : b = back(leftChild) /\ a = ahead(leftChild)
      OBVIOUS
    <2>5. /\ b \in K \cup {End, Hang}
          /\ b = Hang => Cardinality(K) = c \/ (Cardinality(K) <= 2 /\ first \in K /\ first[1] = c)
      BY <1>4, <2>2, <2>3, <2>4, WalkBackIs
    <2>6. a \in K \cup {End, Hang} /\ (a = Hang => Cardinality(K) = c)
      BY <1>4, <2>2, <2>3, <2>4, WalkAheadIs
    <2>7. CASE Hang \in {a, b}
      <3>1. status' = "hung" /\ endpoints' = Counted(c, 1, first, last)
        BY <2>1, <2>4, <2>7
      <3>2. Cardinality(K) = c \/ (Cardinality(K) <= 2 /\ first \in K /\ first[1] = c)
        BY <2>5, <2>6, <2>7
      <3>3. QED
        BY <1>1, <2>2, <3>1, <3>2 DEF Recounts
    <2>8. CASE Hang \notin {a, b}
      <3>1. endpoints' = Counted(c, 1, Next_(b, K, leftChild), Prev(a, K, leftChild)) /\ UNCHANGED status
        BY <2>1, <2>4, <2>8
      <3>2. a \in K \cup {End} /\ b \in K \cup {End}
        BY <2>5, <2>6, <2>8
      <3>3. Next_(b, K, leftChild) \in K \cup {End} /\ Prev(a, K, leftChild) \in K \cup {End}
        BY <1>4, <2>3, <3>2, NextIs, PrevIs
      <3>4. QED
        BY <1>1, <3>1, <3>3 DEF Recounts
    <2>9. QED
      BY <2>7, <2>8
  <1>8. QED
    BY <1>6, <1>7

(* So an insertion keeps the counts with the elements; and if it does not  *)
(* return, that is for one of the two reasons.                             *)
LEMMA InsertKeeps ==
  ASSUME WorldInv, status = "running", NEW m \in Messages, NEW c \in DOMAIN endpoints,
         NEW key \in Keys, key[1] = c, key \notin DOMAIN elements, Insert(m, c, key)
  PROVE  /\ WorldInv' /\ CountsKept
         /\ DOMAIN elements' = DOMAIN elements \cup {key} /\ DOMAIN endpoints' = DOMAIN endpoints
         /\ HangsAtTheCountOrTheRoot'
  <1> DEFINE S == DOMAIN endpoints
             L == DOMAIN elements \cup {key}
  <1>1. PICK first \in L \cup {End, Freed}, last \in L \cup {End, Freed} :
           endpoints' = Counted(c, 1, first, last)
    <2>1. Recounts(c, 1, DOMAIN elements \cup {key})
      BY InsertIs
    <2>2. QED
      BY <2>1 DEF Recounts
  <1>2. elements' = [k \in L |-> IF k = key THEN m ELSE elements[k]] /\ registered' = registered
    BY DEF Insert, With
  <1>3. DOMAIN elements' = L /\ \A k \in L : elements'[k] \in Messages
    BY <1>2 DEF WorldInv, WorldTypeOK
  <1>4. endpoints[c] \in Profiles /\ endpoints \in [S -> Profiles] /\ IsFiniteSet(S)
    BY DEF WorldInv
  <1>5. endpoints' = [endpoints EXCEPT ![c] = [endpoint |-> endpoints[c].endpoint,
             count |-> endpoints[c].count + 1, first |-> first, last |-> last]]
    BY <1>1 DEF Counted
  <1>6. /\ \A d \in S \ {c} : endpoints'[d] = endpoints[d]
        /\ endpoints'[c].first = first /\ endpoints'[c].last = last
        /\ endpoints'[c].count = endpoints[c].count + 1
        /\ endpoints[c].count \in Int
    BY <1>4, <1>5 DEF Profiles
  <1>7. endpoints' \in [S -> Profiles] /\ DOMAIN endpoints' = S
    <2>1. L \subseteq Keys
      BY DEF WorldInv, WorldTypeOK
    <2>2. [endpoint |-> endpoints[c].endpoint, count |-> endpoints[c].count + 1,
           first |-> first, last |-> last] \in Profiles
      BY <1>4, <2>1 DEF Profiles
    <2>3. QED
      BY <1>4, <1>5, <2>2
  <1>8. IsFiniteSet(L) /\ Cardinality(L) = Cardinality(DOMAIN elements) + 1
        /\ Cardinality(DOMAIN elements) \in Nat
    BY FS_AddElement, FS_CardinalityType DEF WorldInv
  <1>9. WorldInv'
    <2>1. \A d \in S : endpoints'[d].first \in L \cup {End, Freed}
                       /\ endpoints'[d].last \in L \cup {End, Freed}
      BY <1>6 DEF WorldInv, InMap
    <2>2. status' \in {"running", "hung", "undefined"}
      BY InsertIs
    <2>3. WorldTypeOK' /\ WaitingOrBound'
      BY <1>2, <1>3, <1>7, <2>2 DEF WorldInv, WorldTypeOK, WaitingOrBound
    <2>4. QED
      BY <1>3, <1>4, <1>7, <1>8, <2>1, <2>3 DEF WorldInv, InMap
  <1>10. CountsMatchElements => CountsMatchElements'
    <2> SUFFICES ASSUME CountsMatchElements PROVE CountsMatchElements'
      OBVIOUS
    <2>1. \A d \in S \ {c} : Owned(d)' = Owned(d)
      BY <1>3 DEF Owned
    <2>2. Owned(c)' = Owned(c) \cup {key} /\ key \notin Owned(c)
      BY <1>3 DEF Owned
    <2>3. IsFiniteSet(Owned(c))
      BY FS_Subset DEF Owned, WorldInv
    <2>4. Cardinality(Owned(c)') = Cardinality(Owned(c)) + 1
      BY <2>2, <2>3, FS_AddElement
    <2>5. \A d \in S : endpoints'[d].count = Cardinality(Owned(d)')
      BY <1>6, <2>1, <2>4 DEF CountsMatchElements
    <2>6. QED
      BY <1>3, <1>7, <2>5 DEF CountsMatchElements
  <1>11. TotalsAgree => TotalsAgree'
    <2>1. \A d \in S \ {c} : endpoints'[d].count = endpoints[d].count
      BY <1>6
    <2>2. Cardinality(DOMAIN elements')
             = Cardinality(DOMAIN elements) + (endpoints'[c].count - endpoints[c].count)
      BY <1>3, <1>6, <1>8
    <2>3. QED
      BY <1>7, <2>1, <2>2, TotalsMove
  <1>12. HangsAtTheCountOrTheRoot'
    <2> SUFFICES ASSUME status' = "hung" PROVE HangsAtTheCountOrTheRoot'
      BY DEF HangsAtTheCountOrTheRoot
    <2>1. CASE Cardinality(L) = c
      BY <1>3, <1>7, <2>1 DEF HangsAtTheCountOrTheRoot
    <2>2. CASE Cardinality(L) <= 2 /\ endpoints[c].first \in L /\ endpoints[c].first[1] = c
      <3>1. PICK f : f = endpoints[c].first
        OBVIOUS
      <3>2. f \in L /\ f[1] = c /\ f \in InMap
        BY <2>2, <3>1 DEF WorldInv
      <3>3. f \in DOMAIN elements
        <4>1. L \subseteq Keys
          BY DEF WorldInv, WorldTypeOK
        <4>2. QED
          BY <3>2, <4>1, IteratorAssumption DEF InMap
      <3>4. DOMAIN elements = {f}
        <4>1. Cardinality(DOMAIN elements) <= 1
          BY <1>8, <2>2
        <4>2. Cardinality({f}) = 1 /\ {f} \subseteq DOMAIN elements /\ IsFiniteSet(DOMAIN elements)
          BY <3>3, FS_Singleton DEF WorldInv
        <4>3. Cardinality(DOMAIN elements) = 1
          BY <1>8, <4>1, <4>2, FS_Subset
        <4>4. QED
          BY <4>2, <4>3, FS_Subset
      <3>5. Owned(c)' = L /\ Cardinality(L) = 2
        <4>1. Cardinality({f}) = 1
          BY FS_Singleton
        <4>2. QED
          BY <1>3, <1>8, <3>2, <3>4, <4>1 DEF Owned
      <3>6. QED
        BY <1>3, <1>7, <3>5 DEF HangsAtTheCountOrTheRoot
    <2>3. Cardinality(L) = c
          \/ (Cardinality(L) <= 2 /\ endpoints[c].first \in L /\ endpoints[c].first[1] = c)
      BY InsertIs
    <2>4. QED
      BY <2>1, <2>2, <2>3
  <1>13. QED
    BY <1>3, <1>7, <1>9, <1>10, <1>11, <1>12 DEF CountsKept

(* What an erasure leaves: iterators into the map, or freed ones.          *)
LEMMA EraseKeeps ==
  ASSUME WorldInv, NEW D \in SUBSET (DOMAIN endpoints), NEW P \in [D -> Profiles],
         \A d \in D : P[d].first \in InMap /\ P[d].last \in InMap,
         NEW gone \in SUBSET (DOMAIN elements), Erase(gone, P), UNCHANGED <<registered, status>>
  PROVE  /\ WorldInv'
         /\ DOMAIN elements' = DOMAIN elements \ gone
         /\ endpoints' \in [D -> Profiles] /\ \A d \in D : endpoints'[d].count = P[d].count
  <1> DEFINE Kept(it) == IF it \in gone THEN Freed ELSE it
             L == DOMAIN elements \ gone
  <1>1. elements' = [k \in L |-> elements[k]]
    BY DEF Erase
  <1>2. endpoints' = [d \in D |-> [P[d] EXCEPT !.first = Kept(@), !.last = Kept(@)]]
    BY DEF Erase
  <1>3. DOMAIN elements' = L /\ \A k \in L : elements'[k] \in Messages
    BY <1>1 DEF WorldInv, WorldTypeOK
  <1>4. \A it \in InMap : Kept(it) \in L \cup {End, Freed}
    BY DEF InMap
  <1>5. L \cup {End, Freed} \subseteq Iterators
    BY DEF WorldInv, WorldTypeOK
  <1> HIDE DEF Kept
  <1>6. ASSUME NEW d \in D
        PROVE  /\ endpoints'[d] \in Profiles /\ endpoints'[d].count = P[d].count
               /\ endpoints'[d].first \in L \cup {End, Freed}
               /\ endpoints'[d].last \in L \cup {End, Freed}
    <2>1. PICK p \in Profiles : p = P[d]
      OBVIOUS
    <2>2. endpoints'[d] = [p EXCEPT !.first = Kept(p.first), !.last = Kept(p.last)]
      BY <1>2, <2>1
    <2>3. PICK a, b : a = Kept(p.first) /\ b = Kept(p.last)
      OBVIOUS
    <2>4. a \in L \cup {End, Freed} /\ b \in L \cup {End, Freed}
      BY <1>4, <2>1, <2>3
    <2>5. a \in Iterators /\ b \in Iterators
      BY <1>5, <2>4
    <2>6. endpoints'[d] = [p EXCEPT !.first = a, !.last = b]
      BY <2>2, <2>3
    <2> HIDE DEF L
    <2>7. QED
      BY <2>1, <2>4, <2>5, <2>6 DEF Profiles
  <1>7. endpoints' \in [D -> Profiles]
    BY <1>2, <1>6
  <1>8. IsFiniteSet(L) /\ IsFiniteSet(D)
    BY FS_Subset DEF WorldInv
  <1>9. WorldInv'
    <2>1. WorldTypeOK' /\ WaitingOrBound'
      BY <1>3, <1>6, <1>7 DEF WorldInv, WorldTypeOK, WaitingOrBound
    <2>2. QED
      BY <1>3, <1>6, <1>7, <1>8, <2>1 DEF WorldInv, InMap
  <1>10. QED
    BY <1>3, <1>6, <1>7, <1>9

(* Where an operation goes wrong before it changes anything, all is kept.  *)
LEMMA NothingChanges ==
  ASSUME WorldInv, UNCHANGED <<registered, endpoints, elements>>,
         status' \in {"running", "hung", "undefined"}
  PROVE  /\ WorldInv' /\ CountsKept
         /\ DOMAIN elements' = DOMAIN elements /\ DOMAIN endpoints' = DOMAIN endpoints
         /\ status' # "hung" => HangsAtTheCountOrTheRoot'
  <1>1. WorldInv'
    BY DEF WorldInv, WorldTypeOK, WaitingOrBound, InMap
  <1>2. CountsKept
    BY DEF CountsKept, CountsMatchElements, TotalsAgree, Owned
  <1>3. QED
    BY <1>1, <1>2 DEF HangsAtTheCountOrTheRoot

(* removeElement takes one element out and counts one down, whichever.     *)
LEMMA RemoveElementKeeps ==
  ASSUME WorldInv, status = "running", NEW c \in DOMAIN endpoints, NEW id \in Ids,
         <<c, id>> \in DOMAIN elements, RemoveElement(id, c)
  PROVE  WorldInv' /\ (TotalsAgree => TotalsAgree') /\ status' # "hung"
  <1> DEFINE K == DOMAIN elements
             key == <<c, id>>
             profile == endpoints[c]
             mess(leftChild) == IF key = profile.last THEN Prev(key, K, leftChild) ELSE key
             last(leftChild) == IF key = profile.last THEN mess(leftChild) ELSE profile.last
             first(leftChild) == IF mess(leftChild) = profile.first /\ mess(leftChild) # End
                                   THEN Next_(mess(leftChild), K, leftChild) ELSE profile.first
  <1>1. PICK leftChild \in Shapes(K) :
           IF mess(leftChild) = End
             THEN status' = "undefined" /\ UNCHANGED <<registered, endpoints, elements>>
             ELSE /\ Erase({mess(leftChild)}, Counted(c, -1, first(leftChild), last(leftChild)))
                  /\ UNCHANGED <<registered, status>>
    BY DEF RemoveElement
  <1>2. K \in SUBSET Keys /\ IsFiniteSet(K) /\ K # {} /\ key \in K /\ End \notin K
    BY IteratorAssumption DEF WorldInv, WorldTypeOK
  <1>3. leftChild \in BOOLEAN /\ (leftChild => Cardinality(K) >= 2)
    <2>1. leftChild \in Shapes(K) \cup InsertShapes(K, key)
      OBVIOUS
    <2> HIDE DEF K, key
    <2>2. QED
      BY <1>2, <2>1, ShapesAre
  <1>4. PICK m, l, f : m = mess(leftChild) /\ l = last(leftChild) /\ f = first(leftChild)
    OBVIOUS
  <1>5. profile \in Profiles /\ profile.first \in InMap /\ profile.last \in InMap
        /\ endpoints \in [DOMAIN endpoints -> Profiles]
    BY DEF WorldInv
  <1>6. m \in K \cup {End}
    <2>1. Prev(key, K, leftChild) \in K \cup {End}
      <3> HIDE DEF K, key
      <3>1. QED
        BY <1>2, PrevIs
    <2>2. QED
      BY <1>2, <1>4, <2>1
  <1>7. CASE m = End
    <2>1. status' = "undefined" /\ UNCHANGED <<registered, endpoints, elements>>
      BY <1>1, <1>4, <1>7
    <2>2. QED
      BY <2>1, NothingChanges DEF CountsKept
  <1>8. CASE m # End
    <2>1. Erase({m}, Counted(c, -1, f, l)) /\ UNCHANGED <<registered, status>>
      BY <1>1, <1>4, <1>8
    <2>2. m \in K
      BY <1>6, <1>8
    <2>3. f \in InMap /\ l \in InMap
      <3>1. Next_(m, K, leftChild) \in K \cup {End}
        <4> HIDE DEF K
        <4>1. QED
          BY <1>2, <1>3, <2>2, NextIs
      <3>2. K \cup {End} \subseteq InMap
        BY DEF InMap
      <3>3. QED
        BY <1>4, <1>5, <2>2, <3>1, <3>2
    <2>4. PICK P : P = Counted(c, -1, f, l)
      OBVIOUS
    <2>5. P = [endpoints EXCEPT ![c] = [endpoint |-> endpoints[c].endpoint,
                  count |-> endpoints[c].count + (-1), first |-> f, last |-> l]]
      BY <2>4 DEF Counted
    <2>6. [endpoint |-> endpoints[c].endpoint, count |-> endpoints[c].count + (-1),
           first |-> f, last |-> l] \in Profiles
      <3>1. InMap \subseteq Iterators
        BY <1>2 DEF InMap
      <3>2. QED
        BY <1>5, <2>3, <3>1 DEF Profiles
    <2>7. P \in [DOMAIN endpoints -> Profiles]
      BY <1>5, <2>5, <2>6
    <2>8. \A d \in DOMAIN endpoints : P[d].first \in InMap /\ P[d].last \in InMap
      BY <2>3, <2>5 DEF WorldInv
    <2>9. P[c].count = endpoints[c].count - 1 /\ endpoints[c].count \in Int
          /\ \A d \in DOMAIN endpoints \ {c} : P[d].count = endpoints[d].count
      BY <1>5, <2>5 DEF Profiles
    <2>10. /\ WorldInv'
           /\ DOMAIN elements' = K \ {m}
           /\ endpoints' \in [DOMAIN endpoints -> Profiles]
           /\ \A d \in DOMAIN endpoints : endpoints'[d].count = P[d].count
      <3>1. Erase({m}, P) /\ {m} \in SUBSET (DOMAIN elements)
        BY <2>1, <2>2, <2>4
      <3>2. DOMAIN endpoints \in SUBSET (DOMAIN endpoints)
        OBVIOUS
      <3>3. QED
        BY <2>1, <2>7, <2>8, <3>1, <3>2, EraseKeeps
    <2>11. Cardinality(DOMAIN elements') = Cardinality(DOMAIN elements) - 1
           /\ Cardinality(DOMAIN elements) \in Nat
      BY <1>2, <2>2, <2>10, FS_RemoveElement, FS_CardinalityType
    <2>12. /\ \A d \in DOMAIN endpoints \ {c} : endpoints'[d].count = endpoints[d].count
           /\ Cardinality(DOMAIN elements')
                = Cardinality(DOMAIN elements) + (endpoints'[c].count - endpoints[c].count)
      BY <2>9, <2>10, <2>11
    <2>13. TotalsAgree => TotalsAgree'
      BY <2>10, <2>12, TotalsMove
    <2>14. QED
      BY <2>1, <2>10, <2>13
  <1>9. QED
    BY <1>7, <1>8

(* removeConnection may take any range of elements, and leaves the rest of *)
(* the world in order.                                                     *)
LEMMA RemoveConnectionKeeps ==
  ASSUME WorldInv, status = "running", NEW c \in DOMAIN endpoints, RemoveConnection(c)
  PROVE  WorldInv'
  <1> DEFINE D == DOMAIN endpoints \ {c}
             others == [d \in D |-> endpoints[d]]
             profile == endpoints[c]
             Erased == \E gone \in SUBSET (DOMAIN elements) : Erase(gone, others) /\ UNCHANGED status
             Stuck == UNCHANGED <<endpoints, elements>> /\ status' \in {"undefined", "hung"}
             finish(leftChild) == Next_(profile.last, DOMAIN elements, leftChild)
             range(leftChild) ==
                 {k \in DOMAIN elements : /\ k = profile.first \/ Less(profile.first, k)
                                          /\ finish(leftChild) = End \/ Less(k, finish(leftChild))}
  <1>1. UNCHANGED registered
    BY DEF RemoveConnection
  <1>2. Erased \/ Stuck
    <2>1. \/ Stuck
          \/ \E leftChild \in Shapes(DOMAIN elements) :
                \/ Stuck
                \/ Erase({}, others) /\ UNCHANGED status
                \/ Erase(range(leftChild), others) /\ UNCHANGED status
      BY DEF RemoveConnection
    <2>2. {} \in SUBSET (DOMAIN elements)
          /\ \A leftChild : range(leftChild) \in SUBSET (DOMAIN elements)
      OBVIOUS
    <2> HIDE DEF range, others
    <2>3. QED
      BY <2>1, <2>2
  <1>3. CASE Erased
    <2>1. PICK gone \in SUBSET (DOMAIN elements) : Erase(gone, others) /\ UNCHANGED status
      BY <1>3
    <2>2. others \in [D -> Profiles] /\ D \in SUBSET (DOMAIN endpoints)
          /\ \A d \in D : others[d].first \in InMap /\ others[d].last \in InMap
      BY DEF WorldInv
    <2> HIDE DEF others, D
    <2>3. QED
      BY <1>1, <2>1, <2>2, EraseKeeps
  <1>4. CASE Stuck
    BY <1>1, <1>4, NothingChanges
  <1>5. QED
    BY <1>2, <1>3, <1>4

(* An update, of an element that is there or of a new one.                 *)
LEMMA UpdateKeeps ==
  ASSUME WorldInv, status = "running", NEW m \in Messages, NEW c \in DOMAIN endpoints,
         NEW id \in Ids, UpdateElement(m, c, id)
  PROVE  /\ WorldInv' /\ CountsKept /\ HangsAtTheCountOrTheRoot'
         /\ DOMAIN endpoints' = DOMAIN endpoints
         /\ DOMAIN elements' = DOMAIN elements \cup {<<c, id>>}
  <1>1. PICK key : key = <<c, id>>
    OBVIOUS
  <1>2. key \in Keys /\ key[1] = c
    BY <1>1 DEF Keys, WorldInv, WorldTypeOK
  <1>3. CASE key \in DOMAIN elements
    <2>1. Overwrite(m, key)
      BY <1>1, <1>3 DEF UpdateElement
    <2>2. endpoints' = endpoints
      BY <2>1 DEF Overwrite
    <2>3. WorldInv' /\ CountsKept /\ status' = status /\ DOMAIN elements' = DOMAIN elements
      BY <1>3, <2>1, OverwriteKeeps
    <2>4. QED
      BY <1>1, <1>3, <2>2, <2>3 DEF HangsAtTheCountOrTheRoot
  <1>4. CASE key \notin DOMAIN elements
    <2>1. Insert(m, c, key)
      BY <1>1, <1>4 DEF UpdateElement
    <2>2. QED
      BY <1>1, <1>2, <1>4, <2>1, InsertKeeps
  <1>5. QED
    BY <1>3, <1>4

-----------------------------------------------------------------------------
(* Calls of the world's operations in any order                            *)

CallsInv ==
    /\ WorldInv
    /\ removals \in Seq({"element", "connection"})
    /\ removals = <<>> => CountsMatchElements
    /\ ~Removed("connection") => TotalsAgree /\ HangsAtTheCountOrTheRoot

(* Before the first call.                                                  *)
LEMMA CallsInvInit == CallsInit => CallsInv
  <1> SUFFICES ASSUME CallsInit PROVE CallsInv
    OBVIOUS
  <1>1. WorldInv /\ CountsMatchElements /\ TotalsAgree
    BY WorldInvInit DEF CallsInit
  <1>2. HangsAtTheCountOrTheRoot
    BY DEF CallsInit, WorldInit, HangsAtTheCountOrTheRoot
  <1>3. QED
    BY <1>1, <1>2 DEF CallsInit, CallsInv

(* A removal stays on record.                                              *)
LEMMA RemovalsStay ==
  ASSUME removals \in Seq({"element", "connection"}), NEW kind \in {"element", "connection"},
         removals' = Append(removals, kind)
  PROVE  /\ removals' \in Seq({"element", "connection"}) /\ removals' # <<>>
         /\ Removed("connection")' <=> Removed("connection") \/ kind = "connection"
  <1>1. DOMAIN removals = 1 .. Len(removals) /\ DOMAIN removals' = 1 .. Len(removals) + 1
        /\ Len(removals) \in Nat
    OBVIOUS
  <1>2. \A i \in DOMAIN removals : removals'[i] = removals[i]
    OBVIOUS
  <1>3. removals'[Len(removals) + 1] = kind
    OBVIOUS
  <1>4. removals' \in Seq({"element", "connection"}) /\ removals' # <<>>
    OBVIOUS
  <1>5. QED
    BY <1>1, <1>2, <1>3, <1>4 DEF Removed

(* Each call of the world keeps its invariant; one that does not return    *)
(* leaves the world as it was, in one of the two ways.                     *)
LEMMA CallsInvNext == CallsInv /\ [CallsNext]_callsVars => CallsInv'
  <1> SUFFICES ASSUME CallsInv, [CallsNext]_callsVars PROVE CallsInv'
    OBVIOUS
  <1> USE DEF CallsInv
  <1>1. CASE UNCHANGED callsVars
    BY <1>1 DEF callsVars, worldVars, WorldInv, WorldTypeOK, WaitingOrBound, InMap,
                CountsMatchElements, TotalsAgree, Owned, HangsAtTheCountOrTheRoot, Removed
  <1>2. ASSUME CallsNext PROVE CallsInv'
    <2>1. status = "running"
      BY <1>2 DEF CallsNext
    <2>2. ASSUME WorldInv', CountsKept, HangsAtTheCountOrTheRoot', UNCHANGED removals
          PROVE  CallsInv'
      BY <2>2 DEF CountsKept, Removed
    <2>3. CASE Registration /\ UNCHANGED removals
      <3>1. CASE \E c \in Connections : RegisterConnectionNumber(c)
        <4>1. WorldInv' /\ CountsKept /\ UNCHANGED status
          BY <3>1, NumberKeeps
        <4>2. QED
          BY <2>1, <2>2, <2>3, <4>1 DEF HangsAtTheCountOrTheRoot
      <3>2. CASE \E c \in Connections, a \in Addresses : RegisterEndpoint(a, c)
        <4>1. PICK c \in Connections, a \in Addresses : RegisterEndpoint(a, c)
          BY <3>2
        <4>2. WorldInv' /\ CountsKept /\ UNCHANGED status
          <5>1. CASE CanRegisterEndpoint(c)
            BY <4>1, <5>1, EndpointKeeps DEF CanRegisterEndpoint
          <5>2. CASE ~CanRegisterEndpoint(c)
            <6>1. UNCHANGED worldVars
              BY <4>1, <5>2 DEF RegisterEndpoint
            <6>2. QED
              BY <2>1, <6>1, NothingChanges DEF worldVars
          <5>3. QED
            BY <5>1, <5>2
        <4>3. QED
          BY <2>1, <2>2, <2>3, <4>2 DEF HangsAtTheCountOrTheRoot
      <3>3. QED
        BY <2>3, <3>1, <3>2 DEF Registration
    <2>4. CASE Update /\ UNCHANGED removals
      <3>1. PICK c \in DOMAIN endpoints, id \in Ids, m \in Messages : UpdateElement(m, c, id)
        BY <2>4 DEF Update
      <3>2. WorldInv' /\ CountsKept /\ HangsAtTheCountOrTheRoot'
        BY <2>1, <3>1, UpdateKeeps
      <3>3. QED
        BY <2>2, <2>4, <3>2
    <2>5. CASE RemoveElementCall
      <3>1. PICK c \in DOMAIN endpoints, id \in Ids :
               <<c, id>> \in DOMAIN elements /\ RemoveElement(id, c)
        BY <2>5 DEF RemoveElementCall
      <3>2. WorldInv' /\ (TotalsAgree => TotalsAgree') /\ status' # "hung"
        BY <2>1, <3>1, RemoveElementKeeps
      <3>3. /\ removals' \in Seq({"element", "connection"}) /\ removals' # <<>>
            /\ Removed("connection")' <=> Removed("connection")
        BY <2>5, RemovalsStay DEF RemoveElementCall
      <3>4. HangsAtTheCountOrTheRoot'
        BY <3>2 DEF HangsAtTheCountOrTheRoot
      <3>5. QED
        BY <3>2, <3>3, <3>4
    <2>6. CASE RemoveConnectionCall
      <3>1. PICK c \in DOMAIN endpoints : RemoveConnection(c)
        BY <2>6 DEF RemoveConnectionCall
      <3>2. WorldInv'
        BY <2>1, <3>1, RemoveConnectionKeeps
      <3>3. removals' \in Seq({"element", "connection"}) /\ removals' # <<>>
            /\ Removed("connection")'
        BY <2>6, RemovalsStay DEF RemoveConnectionCall
      <3>4. QED
        BY <3>2, <3>3
    <2>7. QED
      BY <1>2, <2>3, <2>4, <2>5, <2>6 DEF CallsNext, ServerCall
  <1>3. QED
    BY <1>1, <1>2

(* Types, one place for a number, and counts that agree with the elements  *)
(* as long as they can, whatever is called.                                *)
THEOREM CountsKeptByCalls == CallsSpec => []CountsAgree
  <1>1. CallsInv => CountsAgree
    BY DEF CallsInv, WorldInv, CountsAgree
  <1>2. QED
    BY <1>1, CallsInvInit, CallsInvNext, PTL DEF CallsSpec

(* Until a connection is removed, an update that does not return found the *)
(* number of elements to be a connection's, or was a connection's second   *)
(* element in a world with no other.                                       *)
THEOREM HangsForTwoReasons == CallsSpec => []HangsUntilAConnectionGoes
  <1>1. CallsInv => HangsUntilAConnectionGoes
    BY DEF CallsInv, HangsUntilAConnectionGoes
  <1>2. QED
    BY <1>1, CallsInvInit, CallsInvNext, PTL DEF CallsSpec

-----------------------------------------------------------------------------
(* The server                                                              *)

FrameRead == frame.endpoint \in Clients /\ frame.cn \in Connections /\ frame.id \in Ids

(* Whoever reads a message has one, and whoever reads the worker's         *)
(* variables finds that the worker has written them.  What they hold comes *)
(* from the worker's message, unless the worker is between taking that up  *)
(* and looking for its profile.                                            *)
FrameInv ==
    /\ worker \in {"read", "verify", "dispatch"} => message \in Messages
    /\ main \in {"verify", "update"} => closure \in Messages
    /\ worker = "read" => frame.endpoint \in Clients
    /\ \/ FrameRead
       \/ /\ worker \in {"pop", "read"} /\ main = "idle"
          /\ \A i \in DOMAIN worldQueue : worldQueue[i].call = "number"
    /\ frame.profile \in DOMAIN endpoints \cup {NoProfile}
    /\ worker # "read" /\ message # NoMessage => frame.cn = message.cn /\ frame.id = message.id
    /\ worker \notin {"read", "verify"} => frame.profile \in {frame.cn, NoProfile}

(* A number that was issued is in one place, any other in none.            *)
Place(n) ==
    IF n < connectionCount
      THEN \/ n \notin registered /\ n \notin DOMAIN endpoints /\ \E i : Queued(n) = {i}
           \/ n \in registered /\ n \notin DOMAIN endpoints /\ Queued(n) = {}
           \/ n \notin registered /\ n \in DOMAIN endpoints /\ Queued(n) = {}
      ELSE n \notin registered /\ n \notin DOMAIN endpoints /\ Queued(n) = {}

(* The client has its number before the acceptor counts it.                *)
GivenInv ==
    /\ acceptor = "enqueue" => connectionCount \in Connections
    /\ \A c \in Clients : number[c] # NoNumber =>
          number[c] < connectionCount \/ (number[c] = connectionCount /\ acceptor = "enqueue")
    /\ \A a, b \in Clients : number[a] = number[b] /\ number[a] # NoNumber => a = b

ServerInv ==
    /\ TypeOK /\ WorldInv
    /\ FrameInv
    /\ GivenInv
    /\ \A n \in Connections : Place(n)
    /\ CountsMatchElements
    /\ HangsAtTheCountOrTheRoot

Closures == [call : {"number"}, cn : Connections]
              \cup [call : {"handshake", "update"}, message : Messages]

(* The main thread takes the oldest closure,                               *)
LEMMA Taken ==
  ASSUME ServerInv, worldQueue # <<>>
  PROVE  /\ Head(worldQueue) \in Closures /\ 1 \in DOMAIN worldQueue
         /\ worldQueue[1] = Head(worldQueue)
         /\ Head(worldQueue).call = "number" => Head(worldQueue).cn \in Connections
         /\ Head(worldQueue).call # "number" => Head(worldQueue).message \in Messages /\ FrameRead
  <1>1. worldQueue \in Seq(Closures)
    BY DEF ServerInv, TypeOK, Closures
  <1>2. Head(worldQueue) \in Closures /\ 1 \in DOMAIN worldQueue /\ worldQueue[1] = Head(worldQueue)
    BY <1>1
  <1>3. Head(worldQueue).call # "number" => FrameRead
    BY <1>2 DEF ServerInv, FrameInv
  <1>4. QED
    BY <1>2, <1>3 DEF Closures

(* and the others move up;                                                 *)
LEMMA TailQueue ==
  ASSUME ServerInv, worldQueue # <<>>, worldQueue' = Tail(worldQueue)
  PROVE  /\ worldQueue' \in Seq(Closures)
         /\ \A i \in DOMAIN worldQueue' : i + 1 \in DOMAIN worldQueue /\ worldQueue'[i] = worldQueue[i + 1]
         /\ \A i \in DOMAIN worldQueue : i # 1 => i - 1 \in DOMAIN worldQueue'
         /\ \A i \in DOMAIN worldQueue \cup DOMAIN worldQueue' : i \in Nat /\ i # 0
         /\ (\A i \in DOMAIN worldQueue : worldQueue[i].call = "number")
               => \A i \in DOMAIN worldQueue' : worldQueue'[i].call = "number"
  <1>1. worldQueue \in Seq(Closures)
    BY DEF ServerInv, TypeOK, Closures
  <1>2. DOMAIN worldQueue = 1 .. Len(worldQueue) /\ DOMAIN worldQueue' = 1 .. Len(worldQueue) - 1
        /\ Len(worldQueue) \in Nat
    BY <1>1
  <1>3. worldQueue' \in Seq(Closures) /\ \A i \in DOMAIN worldQueue' : worldQueue'[i] = worldQueue[i + 1]
    BY <1>1
  <1>4. QED
    BY <1>2, <1>3

(* a new one goes to the end.                                              *)
LEMMA PushQueue ==
  ASSUME ServerInv, NEW e \in Closures, worldQueue' = Append(worldQueue, e)
  PROVE  /\ worldQueue' \in Seq(Closures)
         /\ Len(worldQueue) + 1 \notin DOMAIN worldQueue
         /\ DOMAIN worldQueue' = DOMAIN worldQueue \cup {Len(worldQueue) + 1}
         /\ worldQueue'[Len(worldQueue) + 1] = e
         /\ \A i \in DOMAIN worldQueue : worldQueue'[i] = worldQueue[i]
  <1>1. worldQueue \in Seq(Closures)
    BY DEF ServerInv, TypeOK, Closures
  <1>2. DOMAIN worldQueue = 1 .. Len(worldQueue) /\ DOMAIN worldQueue' = 1 .. Len(worldQueue) + 1
        /\ Len(worldQueue) \in Nat
    BY <1>1
  <1>3. /\ worldQueue' \in Seq(Closures) /\ worldQueue'[Len(worldQueue) + 1] = e
        /\ \A i \in DOMAIN worldQueue : worldQueue'[i] = worldQueue[i]
    BY <1>1
  <1>4. QED
    BY <1>2, <1>3

(* All that the server does to its world: it registers numbers and         *)
(* endpoints, and updates elements of an endpoint it has bound.            *)
WorldStep ==
    \/ UNCHANGED <<registered, endpoints, elements>> /\ status' \in {"running", "undefined"}
    \/ \E c \in Connections : RegisterConnectionNumber(c)
    \/ \E c \in registered, a \in Addresses : CanRegisterEndpoint(c) /\ RegisterEndpoint(a, c)
    \/ \E m \in Messages, c \in DOMAIN endpoints, id \in Ids : UpdateElement(m, c, id)

(* What an update does that reads the worker's variables                   *)
LEMMA ThroughFrame ==
  ASSUME ServerInv, status = "running", NEW m \in Messages, FrameRead, UpdateThroughFrame(m)
  PROVE  \/ UNCHANGED <<registered, endpoints, elements>> /\ status' = "undefined"
         \/ frame.profile \in DOMAIN endpoints /\ frame.id \in Ids
            /\ UpdateElement(m, frame.profile, frame.id)
  BY DEF UpdateThroughFrame, ServerInv, FrameInv, FrameRead

(* Whatever thread takes a step of the server, the world sees one of its own*)
(* operations or nothing.                                                  *)
LEMMA WorldSteps ==
  ASSUME ServerInv, Next
  PROVE  WorldStep
  <1>1. status = "running"
    BY DEF Next
  <1>2. ASSUME UNCHANGED worldVars PROVE WorldStep
    BY <1>1, <1>2 DEF WorldStep, worldVars
  <1>3. CASE Acceptor \/ Network \/ Listener \/ Worker \/ Sender
    <2>1. UNCHANGED worldVars
      BY <1>3 DEF Acceptor, AcceptorSend, AcceptorEnqueue, Network, ClientSend, Lose, Listener,
            Listen, Worker, WorkerPop, WorkerRead, WorkerVerify, WorkerDispatch, WorkerReply, Sender
    <2>2. QED
      BY <1>2, <2>1
  <1>4. CASE MainNumber
    BY <1>4, Taken DEF MainNumber, WorldStep
  <1>5. CASE MainHandshake
    <2>1. FrameRead /\ RegisterEndpoint(frame.endpoint, frame.cn)
      BY <1>5, Taken DEF MainHandshake
    <2>2. CASE CanRegisterEndpoint(frame.cn)
      <3>1. frame.cn \in registered /\ frame.endpoint \in Addresses
        BY <2>1, <2>2, ServerAssumption DEF CanRegisterEndpoint, FrameRead
      <3>2. QED
        BY <2>1, <2>2, <3>1 DEF WorldStep
    <2>3. CASE ~CanRegisterEndpoint(frame.cn)
      BY <1>2, <2>1, <2>3 DEF RegisterEndpoint
    <2>4. QED
      BY <2>2, <2>3
  <1>6. CASE MainVerify
    BY <1>2, <1>6 DEF MainVerify
  <1>7. CASE MainHandshakeUpdate
    <2>1. closure \in Messages /\ FrameRead /\ UpdateThroughFrame(closure)
      BY <1>7 DEF MainHandshakeUpdate, ServerInv, FrameInv
    <2>2. QED
      BY <1>1, <2>1, ThroughFrame DEF WorldStep
  <1>8. CASE MainUpdate
    <2>1. PICK m : m = Head(worldQueue).message
      OBVIOUS
    <2>2. m \in Messages /\ FrameRead /\ UpdateThroughFrame(m)
      BY <1>8, <2>1, Taken DEF MainUpdate
    <2>3. QED
      BY <1>1, <2>2, ThroughFrame DEF WorldStep
  <1>9. QED
    BY <1>3, <1>4, <1>5, <1>6, <1>7, <1>8 DEF Next, Main

(* So the server keeps what its world keeps.                               *)
LEMMA ServerKeepsWorld ==
  ASSUME ServerInv, Next
  PROVE  /\ WorldInv' /\ CountsMatchElements' /\ HangsAtTheCountOrTheRoot'
         /\ DOMAIN endpoints \subseteq DOMAIN endpoints'
  <1>1. status = "running" /\ WorldInv /\ CountsMatchElements
    BY DEF Next, ServerInv
  <1>2. CASE UNCHANGED <<registered, endpoints, elements>> /\ status' \in {"running", "undefined"}
    BY <1>1, <1>2, NothingChanges DEF CountsKept
  <1>3. CASE \E c \in Connections : RegisterConnectionNumber(c)
    BY <1>1, <1>3, NumberKeeps DEF CountsKept, HangsAtTheCountOrTheRoot
  <1>4. CASE \E c \in registered, a \in Addresses : CanRegisterEndpoint(c) /\ RegisterEndpoint(a, c)
    BY <1>1, <1>4, EndpointKeeps DEF CountsKept, HangsAtTheCountOrTheRoot
  <1>5. CASE \E m \in Messages, c \in DOMAIN endpoints, id \in Ids : UpdateElement(m, c, id)
    BY <1>1, <1>5, UpdateKeeps DEF CountsKept
  <1>6. QED
    BY <1>2, <1>3, <1>4, <1>5, WorldSteps DEF WorldStep

(* Types: what every thread hands on.                                      *)
LEMMA TypeKept ==
  ASSUME ServerInv, Next
  PROVE  TypeOK'
  <1>0. WorldTypeOK' /\ DOMAIN endpoints \subseteq DOMAIN endpoints'
    BY ServerKeepsWorld DEF WorldInv
  <1>t. TypeOK /\ worldQueue \in Seq(Closures) /\ FrameInv /\ WorldTypeOK
    BY DEF ServerInv, TypeOK, Closures
  <1>q. ASSUME worldQueue' \in Seq(Closures),
               number' \in [Clients -> Connections \cup {NoNumber}], connectionCount' \in Nat,
               acceptor' \in {"accept", "enqueue"}, UNCHANGED <<network, workerVars, frame, main, closure>>
        PROVE  TypeOK'
    BY <1>0, <1>t, <1>q DEF TypeOK, Closures, workerVars
  <1>1. ASSUME NEW c \in Clients, AcceptorSend(c) PROVE TypeOK'
    <2>1. number' \in [Clients -> Connections \cup {NoNumber}]
      BY <1>t, <1>1 DEF AcceptorSend, TypeOK
    <2>2. QED
      BY <1>q, <1>t, <1>1, <2>1 DEF AcceptorSend, TypeOK
  <1>2. CASE AcceptorEnqueue
    <2>1. PICK e : e = [call |-> "number", cn |-> connectionCount]
      OBVIOUS
    <2>2. e \in Closures /\ worldQueue' = Append(worldQueue, e)
      BY <1>2, <2>1 DEF AcceptorEnqueue, Push, ServerInv, GivenInv, Closures
    <2>3. worldQueue' \in Seq(Closures)
      BY <2>2, PushQueue
    <2>4. QED
      BY <1>q, <1>t, <1>2, <2>3 DEF AcceptorEnqueue, TypeOK
  <1>3. ASSUME NEW c \in Clients, NEW id \in Ids, ClientSend(c, id) PROVE TypeOK'
    <2>1. number[c] \in Connections
      BY <1>t, <1>3 DEF ClientSend, TypeOK
    <2>2. [type |-> "vehicle", cn |-> number[c], id |-> id] \in Messages
      BY <2>1, ServerAssumption
    <2>3. network' \subseteq Datagrams
      BY <1>t, <1>3, <2>2 DEF ClientSend, TypeOK, Datagrams
    <2>4. QED
      BY <1>0, <1>t, <1>3, <2>3 DEF ClientSend, TypeOK, workerVars
  <1>4. ASSUME NEW d \in network, Lose(d) PROVE TypeOK'
    <2>1. network' \subseteq Datagrams
      BY <1>t, <1>4 DEF Lose, TypeOK
    <2>2. QED
      BY <1>0, <1>t, <1>4, <2>1 DEF Lose, TypeOK, workerVars
  <1>5. ASSUME NEW d \in network, Listen(d) PROVE TypeOK'
    <2>1. network' \subseteq Datagrams /\ receiveQueue' \in Seq(Datagrams)
      BY <1>t, <1>5 DEF Listen, TypeOK
    <2>2. QED
      BY <1>0, <1>t, <1>5, <2>1 DEF Listen, TypeOK
  <1>6. CASE WorkerPop
    <2>1. Head(receiveQueue) \in Datagrams /\ receiveQueue' \in Seq(Datagrams)
      BY <1>t, <1>6 DEF WorkerPop, TypeOK
    <2>2. PICK e, m : e = Head(receiveQueue).endpoint /\ m = Head(receiveQueue).message
      OBVIOUS
    <2>3. e \in Clients /\ m \in Messages
      BY <2>1, <2>2 DEF Datagrams
    <2>4. frame' = [frame EXCEPT !.endpoint = e] /\ message' = m /\ worker' = "read"
      BY <1>6, <2>2 DEF WorkerPop
    <2>5. frame' \in [endpoint : Clients \cup {NoProfile}, cn : Nat, id : Nat,
                      profile : Connections \cup {NoProfile}]
      BY <1>t, <2>3, <2>4 DEF TypeOK
    <2>6. QED
      BY <1>0, <1>t, <1>6, <2>1, <2>3, <2>4, <2>5 DEF WorkerPop, TypeOK, netVars
  <1>7. CASE WorkerRead
    <2>1. message.cn \in Nat /\ message.id \in Nat
      BY <1>t, <1>7, ServerAssumption, WorldAssumption DEF WorkerRead, FrameInv
    <2>2. frame' \in [endpoint : Clients \cup {NoProfile}, cn : Nat, id : Nat,
                      profile : Connections \cup {NoProfile}]
      BY <1>t, <1>7, <2>1 DEF WorkerRead, TypeOK
    <2>3. QED
      BY <1>0, <1>t, <1>7, <2>2 DEF WorkerRead, TypeOK, netVars
  <1>8. CASE WorkerVerify \/ MainVerify
    <2>1. Profile \in Connections \cup {NoProfile}
      BY <1>t DEF Profile, VerifyConnection, WorldTypeOK
    <2>2. frame' = [frame EXCEPT !.profile = Profile]
      BY <1>8 DEF WorkerVerify, MainVerify
    <2>3. frame' \in [endpoint : Clients \cup {NoProfile}, cn : Nat, id : Nat,
                      profile : Connections \cup {NoProfile}]
      BY <1>t, <2>1, <2>2 DEF TypeOK
    <2>4. UNCHANGED <<netVars, receiveQueue, message, sendQueue, worldQueue, closure>>
      BY <1>8 DEF WorkerVerify, MainVerify, workerVars
    <2>5. worker' \in {"pop", "read", "verify", "dispatch", "reply"} /\ main' \in {"idle", "verify", "update"}
      BY <1>t, <1>8 DEF WorkerVerify, MainVerify, workerVars, TypeOK
    <2>6. QED
      BY <1>0, <1>t, <2>3, <2>4, <2>5 DEF TypeOK, netVars
  <1>9. CASE WorkerDispatch
    <2>1. PICK e : e = [call |-> IF frame.profile = NoProfile THEN "handshake" ELSE "update",
                        message |-> message]
      OBVIOUS
    <2>2. message \in Messages
      BY <1>t, <1>9 DEF WorkerDispatch, FrameInv
    <2>3. e \in Closures /\ worldQueue' = Append(worldQueue, e)
      BY <1>9, <2>1, <2>2 DEF WorkerDispatch, Push, Closures
    <2>4. worldQueue' \in Seq(Closures)
      BY <2>3, PushQueue
    <2>5. QED
      BY <1>0, <1>t, <1>9, <2>4 DEF WorkerDispatch, TypeOK, netVars, Closures
  <1>10. CASE WorkerReply
    <2>1. frame.endpoint \in Clients
      BY <1>t, <1>10 DEF WorkerReply, FrameInv, FrameRead
    <2>2. sendQueue' \in Seq(Clients)
      BY <1>t, <1>10, <2>1 DEF WorkerReply, TypeOK
    <2>3. QED
      BY <1>0, <1>t, <1>10, <2>2 DEF WorkerReply, TypeOK, netVars
  <1>11. CASE Sender
    <2>1. sendQueue' \in Seq(Clients)
      BY <1>t, <1>11 DEF Sender, TypeOK
    <2>2. QED
      BY <1>0, <1>t, <1>11, <2>1 DEF Sender, TypeOK, netVars
  <1>12. CASE MainNumber \/ MainHandshake \/ MainUpdate
    <2>1. worldQueue' \in Seq(Closures)
      BY <1>12, TailQueue DEF MainNumber, MainHandshake, MainUpdate
    <2>2. main' \in {"idle", "verify", "update"}
      BY <1>t, <1>12 DEF MainNumber, MainHandshake, MainUpdate, TypeOK
    <2>3. closure' \in Messages \cup {NoMessage}
      BY <1>t, <1>12, Taken DEF MainNumber, MainHandshake, MainUpdate, TypeOK
    <2>4. UNCHANGED <<netVars, workerVars, frame>>
      BY <1>12 DEF MainNumber, MainHandshake, MainUpdate
    <2>5. QED
      BY <1>0, <1>t, <2>1, <2>2, <2>3, <2>4 DEF TypeOK, netVars, workerVars, Closures
  <1>13. CASE MainHandshakeUpdate
    BY <1>0, <1>t, <1>13 DEF MainHandshakeUpdate, TypeOK, netVars, workerVars
  <1>14. QED
    BY <1>1, <1>2, <1>3, <1>4, <1>5, <1>6, <1>7, <1>8, <1>9, <1>10, <1>11, <1>12, <1>13
       DEF Next, Acceptor, Network, Listener, Worker, Main

(* Two threads write the worker's variables, and a third part reads them:  *)
(* what they hold stays in order.                                          *)
LEMMA FrameKept ==
  ASSUME ServerInv, Next
  PROVE  FrameInv'
  <1>0. TypeOK' /\ DOMAIN endpoints \subseteq DOMAIN endpoints'
    BY TypeKept, ServerKeepsWorld
  <1>t. TypeOK /\ FrameInv
    BY DEF ServerInv
  <1>1. ASSUME UNCHANGED <<worker, message, frame, main, closure>>,
               (\A i \in DOMAIN worldQueue : worldQueue[i].call = "number")
                  => \A i \in DOMAIN worldQueue' : worldQueue'[i].call = "number"
        PROVE  FrameInv'
    BY <1>0, <1>t, <1>1 DEF FrameInv, FrameRead
  <1>2. CASE (\E c \in Clients : AcceptorSend(c)) \/ Network \/ Listener \/ Sender
    <2>1. UNCHANGED <<worker, message, frame, main, closure, worldQueue>>
      BY <1>2 DEF AcceptorSend, Network, ClientSend, Lose, Listener, Listen, Sender, workerVars
    <2>2. QED
      BY <1>1, <2>1
  <1>3. CASE AcceptorEnqueue
    <2>1. PICK e : e = [call |-> "number", cn |-> connectionCount]
      OBVIOUS
    <2>2. e \in Closures /\ worldQueue' = Append(worldQueue, e)
      BY <1>3, <2>1 DEF AcceptorEnqueue, Push, ServerInv, GivenInv, Closures
    <2>3. UNCHANGED <<worker, message, frame, main, closure>>
      BY <1>3 DEF AcceptorEnqueue, workerVars
    <2>4. e.call = "number"
      BY <2>1
    <2>5. QED
      BY <1>1, <2>2, <2>3, <2>4, PushQueue
  <1>4. CASE WorkerPop
    <2>1. Head(receiveQueue) \in Datagrams
      BY <1>t, <1>4 DEF WorkerPop, TypeOK
    <2>2. PICK e, m : e = Head(receiveQueue).endpoint /\ m = Head(receiveQueue).message
      OBVIOUS
    <2>3. e \in Clients /\ m \in Messages
      BY <2>1, <2>2 DEF Datagrams
    <2>4. /\ frame' = [frame EXCEPT !.endpoint = e] /\ message' = m
          /\ worker = "pop" /\ worker' = "read" /\ UNCHANGED <<worldVars, worldQueue, main, closure>>
      BY <1>4, <2>2 DEF WorkerPop
    <2>5. frame'.endpoint = e /\ frame'.cn = frame.cn /\ frame'.id = frame.id /\ frame'.profile = frame.profile
      BY <1>t, <2>4 DEF TypeOK
    <2>6. QED
      BY <1>t, <2>3, <2>4, <2>5 DEF FrameInv, FrameRead, worldVars
  <1>5. CASE WorkerRead
    <2>1. message \in Messages /\ frame.endpoint \in Clients
      BY <1>t, <1>5 DEF WorkerRead, FrameInv
    <2>2. message.cn \in Connections /\ message.id \in Ids
      BY <2>1, ServerAssumption
    <2>3. /\ frame'.endpoint = frame.endpoint /\ frame'.profile = frame.profile
          /\ frame'.cn = message.cn /\ frame'.id = message.id
      BY <1>t, <1>5 DEF WorkerRead, TypeOK
    <2>4. worker' = "verify" /\ UNCHANGED <<worldVars, message, main, closure>>
      BY <1>5 DEF WorkerRead
    <2>5. QED
      BY <1>t, <2>1, <2>2, <2>3, <2>4 DEF FrameInv, FrameRead, worldVars
  <1>6. CASE WorkerVerify \/ MainVerify
    <2>1. FrameRead
      BY <1>t, <1>6 DEF WorkerVerify, MainVerify, FrameInv
    <2>2. frame' = [frame EXCEPT !.profile = Profile]
      BY <1>6 DEF WorkerVerify, MainVerify
    <2>3. /\ frame'.endpoint = frame.endpoint /\ frame'.profile = Profile
          /\ frame'.cn = frame.cn /\ frame'.id = frame.id
      BY <1>t, <2>2 DEF TypeOK
    <2>4. Profile \in DOMAIN endpoints \cup {NoProfile} /\ Profile \in {frame.cn, NoProfile}
      BY DEF Profile, VerifyConnection
    <2>5. CASE WorkerVerify
      <3>1. worker = "verify" /\ worker' = "dispatch" /\ UNCHANGED <<worldVars, message, main, closure>>
        BY <2>5 DEF WorkerVerify
      <3>2. QED
        BY <1>t, <2>1, <2>3, <2>4, <3>1 DEF FrameInv, FrameRead, worldVars
    <2>6. CASE MainVerify
      <3>1. main = "verify" /\ UNCHANGED <<worldVars, worker, message, closure>>
        BY <2>6 DEF MainVerify, workerVars
      <3>2. QED
        BY <1>t, <2>1, <2>3, <2>4, <3>1 DEF FrameInv, FrameRead, worldVars
    <2>7. QED
      BY <1>6, <2>5, <2>6
  <1>7. CASE WorkerDispatch \/ WorkerReply
    <2>1. FrameRead /\ worker \in {"dispatch", "reply"} /\ worker' \in {"reply", "pop"}
          /\ UNCHANGED <<worldVars, message, frame, main, closure>>
      BY <1>t, <1>7 DEF WorkerDispatch, WorkerReply, FrameInv
    <2>2. QED
      BY <1>t, <2>1 DEF FrameInv, FrameRead, worldVars
  <1>8. CASE MainNumber
    <2>1. UNCHANGED <<worker, message, frame, main, closure>>
      BY <1>8 DEF MainNumber, workerVars
    <2>2. QED
      BY <1>1, <1>8, <2>1, TailQueue DEF MainNumber
  <1>9. CASE MainHandshake \/ MainUpdate
    <2>1. FrameRead /\ Head(worldQueue).message \in Messages
      BY <1>9, Taken DEF MainHandshake, MainUpdate
    <2>2. UNCHANGED <<worker, message, frame>> /\ (main' # "idle" => closure' \in Messages)
      BY <1>t, <1>9, <2>1 DEF MainHandshake, MainUpdate, workerVars, FrameInv, TypeOK
    <2>3. QED
      BY <1>0, <1>t, <2>1, <2>2 DEF FrameInv, FrameRead
  <1>10. CASE MainHandshakeUpdate
    <2>1. FrameRead /\ UNCHANGED <<worker, message, frame, closure>> /\ main' = "idle"
      BY <1>t, <1>10 DEF MainHandshakeUpdate, workerVars, FrameInv
    <2>2. QED
      BY <1>0, <1>t, <2>1 DEF FrameInv, FrameRead
  <1>11. QED
    BY <1>2, <1>3, <1>4, <1>5, <1>6, <1>7, <1>8, <1>9, <1>10 DEF Next, Acceptor, Worker, Main

(* A client has a number of its own.                                       *)
LEMMA GivenKept ==
  ASSUME ServerInv, Next
  PROVE  GivenInv'
  <1>t. TypeOK /\ GivenInv
    BY DEF ServerInv
  <1>n. \A c \in Clients : number[c] # NoNumber => number[c] \in Nat
    BY <1>t, WorldAssumption DEF TypeOK
  <1>1. ASSUME NEW c \in Clients, AcceptorSend(c) PROVE GivenInv'
    <2>1. /\ acceptor = "accept" /\ acceptor' = "enqueue" /\ connectionCount \in Connections
          /\ number' = [number EXCEPT ![c] = connectionCount] /\ connectionCount' = connectionCount
      BY <1>1 DEF AcceptorSend
    <2>2. \A a \in Clients : number'[a] = IF a = c THEN connectionCount ELSE number[a]
      BY <1>t, <2>1 DEF TypeOK
    <2>3. \A a \in Clients : number[a] # NoNumber => number[a] < connectionCount
      BY <1>t, <2>1 DEF GivenInv
    <2>4. \A a \in Clients : number[a] # connectionCount
      <3> SUFFICES ASSUME NEW a \in Clients, number[a] = connectionCount PROVE FALSE
        OBVIOUS
      <3>1. number[a] # NoNumber
        BY <2>1, ServerAssumption
      <3>2. QED
        BY <1>n, <2>3, <3>1
    <2>5. \A a, b \in Clients : number'[a] = number'[b] /\ number'[a] # NoNumber => a = b
      BY <1>t, <2>2, <2>4 DEF GivenInv
    <2>6. QED
      BY <2>1, <2>2, <2>3, <2>5 DEF GivenInv
  <1>2. CASE AcceptorEnqueue
    <2>1. acceptor = "enqueue" /\ acceptor' = "accept" /\ connectionCount' = connectionCount + 1
          /\ number' = number
      BY <1>2 DEF AcceptorEnqueue
    <2>2. connectionCount \in Nat
      BY <1>t DEF TypeOK
    <2>3. \A c \in Clients : number[c] # NoNumber => number[c] < connectionCount + 1
      BY <1>n, <1>t, <2>2 DEF GivenInv
    <2>4. QED
      BY <1>t, <2>1, <2>3 DEF GivenInv
  <1>3. CASE Network \/ Listener \/ Worker \/ Sender \/ Main
    <2>1. UNCHANGED <<number, connectionCount, acceptor>>
      BY <1>3 DEF Network, ClientSend, Lose, Listener, Listen, Worker, WorkerPop, WorkerRead,
            WorkerVerify, WorkerDispatch, WorkerReply, Sender, Main, MainNumber, MainHandshake,
            MainVerify, MainHandshakeUpdate, MainUpdate, netVars
    <2>2. QED
      BY <1>t, <2>1 DEF GivenInv
  <1>4. QED
    BY <1>1, <1>2, <1>3 DEF Next, Acceptor

(* Whether a closure hands on the number n, as the queue moves.            *)
LEMMA QueuedMoves ==
  ASSUME ServerInv, NEW n, worldQueue # <<>>, worldQueue' = Tail(worldQueue)
  PROVE  /\ Queued(n) = {} => Queued(n)' = {}
         /\ \A i : Queued(n) = {i} =>
               IF Head(worldQueue).call = "number" /\ Head(worldQueue).cn = n
                 THEN Queued(n)' = {} ELSE Queued(n)' = {i - 1}
  <1>1. /\ \A i \in DOMAIN worldQueue' : i + 1 \in DOMAIN worldQueue /\ worldQueue'[i] = worldQueue[i + 1]
        /\ \A i \in DOMAIN worldQueue : i # 1 => i - 1 \in DOMAIN worldQueue'
        /\ \A i \in DOMAIN worldQueue \cup DOMAIN worldQueue' : i \in Nat /\ i # 0
    BY TailQueue
  <1>2. 1 \in DOMAIN worldQueue /\ worldQueue[1] = Head(worldQueue)
    BY Taken
  <1>3. \A i \in Queued(n)' : i + 1 \in Queued(n) /\ i \in Nat /\ i # 0
    BY <1>1 DEF Queued
  <1>4. ASSUME NEW i \in Queued(n), i # 1 PROVE i - 1 \in Queued(n)'
    <2>1. i - 1 \in DOMAIN worldQueue' /\ i \in Nat
      BY <1>1, <1>4 DEF Queued
    <2>2. worldQueue'[i - 1] = worldQueue[i]
      BY <1>1, <2>1
    <2>3. QED
      BY <2>1, <2>2 DEF Queued
  <1>5. 1 \in Queued(n) <=> Head(worldQueue).call = "number" /\ Head(worldQueue).cn = n
    BY <1>2 DEF Queued
  <1>6. \A i \in Queued(n) : i \in Nat
    BY <1>1 DEF Queued
  <1>7. PICK Q, Q1 : Q = Queued(n) /\ Q1 = Queued(n)'
    OBVIOUS
  <1>8. ASSUME NEW i, Q = {i}
        PROVE  IF Head(worldQueue).call = "number" /\ Head(worldQueue).cn = n
                 THEN Q1 = {} ELSE Q1 = {i - 1}
    <2>1. i \in Nat /\ \A j \in Q1 : j + 1 = i /\ j \in Nat /\ j # 0
      BY <1>3, <1>6, <1>7, <1>8
    <2>2. CASE i = 1
      <3>1. Q1 = {}
        BY <2>1, <2>2
      <3>2. QED
        BY <1>5, <1>7, <1>8, <2>2, <3>1
    <2>3. CASE i # 1
      <3>1. i - 1 \in Q1 /\ \A j \in Q1 : j = i - 1
        BY <1>4, <1>7, <1>8, <2>1, <2>3
      <3>2. Q1 = {i - 1}
        BY <3>1
      <3>3. QED
        BY <1>5, <1>7, <1>8, <2>3, <3>2
    <2>4. QED
      BY <2>2, <2>3
  <1>9. QED
    BY <1>3, <1>7, <1>8

(* A closure pushed is one more place of its number, if it registers one.  *)
LEMMA QueuedPushed ==
  ASSUME ServerInv, NEW n, NEW e \in Closures, worldQueue' = Append(worldQueue, e)
  PROVE  Queued(n)' = IF e.call = "number" /\ e.cn = n
                        THEN Queued(n) \cup {Len(worldQueue) + 1} ELSE Queued(n)
  <1>1. PICK l : l = Len(worldQueue) + 1
    OBVIOUS
  <1>2. /\ l \notin DOMAIN worldQueue /\ DOMAIN worldQueue' = DOMAIN worldQueue \cup {l}
        /\ worldQueue'[l] = e /\ \A i \in DOMAIN worldQueue : worldQueue'[i] = worldQueue[i]
    BY <1>1, PushQueue
  <1>3. QED
    BY <1>1, <1>2 DEF Queued

(* A number stays where it is or goes on, and is never in two places.      *)
LEMMA PlacesKept ==
  ASSUME ServerInv, Next, NEW n \in Connections
  PROVE  Place(n)'
  <1>t. TypeOK /\ GivenInv /\ Place(n) /\ n \in Nat /\ connectionCount \in Nat
    BY WorldAssumption DEF ServerInv, TypeOK
  <1>1. ASSUME UNCHANGED <<registered, connectionCount>>, DOMAIN endpoints' = DOMAIN endpoints,
               \/ UNCHANGED worldQueue
               \/ \E e \in Closures : e.call # "number" /\ worldQueue' = Append(worldQueue, e)
               \/ /\ worldQueue # <<>> /\ worldQueue' = Tail(worldQueue)
                  /\ Head(worldQueue).call # "number"
        PROVE  Place(n)'
    <2>1. /\ Queued(n) = {} => Queued(n)' = {}
          /\ (\E i : Queued(n) = {i}) => \E i : Queued(n)' = {i}
      <3>1. CASE UNCHANGED worldQueue
        BY <3>1 DEF Queued
      <3>2. CASE \E e \in Closures : e.call # "number" /\ worldQueue' = Append(worldQueue, e)
        <4>1. Queued(n)' = Queued(n)
          BY <3>2, QueuedPushed
        <4>2. QED
          BY <4>1
      <3>3. CASE worldQueue # <<>> /\ worldQueue' = Tail(worldQueue) /\ Head(worldQueue).call # "number"
        BY <3>3, QueuedMoves
      <3>4. QED
        BY <1>1, <3>1, <3>2, <3>3
    <2>2. QED
      BY <1>1, <1>t, <2>1 DEF Place
  <1>2. CASE (\E c \in Clients : AcceptorSend(c)) \/ Network \/ Listener \/ Sender
    <2>1. UNCHANGED <<registered, connectionCount, endpoints, worldQueue>>
      BY <1>2 DEF AcceptorSend, Network, ClientSend, Lose, Listener, Listen, Sender, netVars, worldVars
    <2>2. QED
      BY <1>1, <2>1
  <1>3. CASE AcceptorEnqueue
    <2>1. PICK e : e = [call |-> "number", cn |-> connectionCount]
      OBVIOUS
    <2>2. e \in Closures /\ worldQueue' = Append(worldQueue, e)
      BY <1>3, <2>1 DEF AcceptorEnqueue, Push, ServerInv, GivenInv, Closures
    <2>3. Queued(n)' = IF n = connectionCount THEN Queued(n) \cup {Len(worldQueue) + 1} ELSE Queued(n)
      BY <2>1, <2>2, QueuedPushed
    <2>4. connectionCount' = connectionCount + 1 /\ UNCHANGED <<registered, endpoints>>
      BY <1>3 DEF AcceptorEnqueue, worldVars
    <2>5. CASE n = connectionCount
      <3>1. Queued(n)' = {Len(worldQueue) + 1} /\ n \notin registered /\ n \notin DOMAIN endpoints
        BY <1>t, <2>3, <2>5 DEF Place
      <3>2. n < connectionCount'
        BY <1>t, <2>4, <2>5
      <3>3. \E i : Queued(n)' = {i}
        BY <3>1, Zenon
      <3>4. QED
        BY <2>4, <3>1, <3>2, <3>3 DEF Place
    <2>6. CASE n # connectionCount
      <3>1. n < connectionCount + 1 <=> n < connectionCount
        BY <1>t, <2>6
      <3>2. QED
        BY <1>t, <2>3, <2>4, <2>6, <3>1 DEF Place
    <2>7. QED
      BY <2>5, <2>6
  <1>4. CASE Worker
    <2>1. CASE WorkerDispatch
      <3>1. PICK e : e = [call |-> IF frame.profile = NoProfile THEN "handshake" ELSE "update",
                          message |-> message]
        OBVIOUS
      <3>2. e \in Closures /\ e.call # "number" /\ worldQueue' = Append(worldQueue, e)
        BY <2>1, <3>1 DEF WorkerDispatch, Push, Closures, ServerInv, FrameInv
      <3>3. UNCHANGED <<registered, connectionCount, endpoints>>
        BY <2>1 DEF WorkerDispatch, worldVars, netVars
      <3>4. QED
        BY <1>1, <3>2, <3>3
    <2>2. CASE WorkerPop \/ WorkerRead \/ WorkerVerify \/ WorkerReply
      <3>1. UNCHANGED <<registered, connectionCount, endpoints, worldQueue>>
        BY <2>2 DEF WorkerPop, WorkerRead, WorkerVerify, WorkerReply, worldVars, netVars
      <3>2. QED
        BY <1>1, <3>1
    <2>3. QED
      BY <1>4, <2>1, <2>2 DEF Worker
  <1>5. CASE MainNumber
    <2>1. PICK c \in Connections : c = Head(worldQueue).cn
      BY <1>5, Taken DEF MainNumber
    <2>2. /\ worldQueue # <<>> /\ worldQueue' = Tail(worldQueue) /\ Head(worldQueue).call = "number"
          /\ UNCHANGED <<connectionCount, endpoints>>
          /\ registered' = IF c \in DOMAIN endpoints THEN registered ELSE registered \cup {c}
      BY <1>5, <2>1 DEF MainNumber, RegisterConnectionNumber, netVars
    <2>3. CASE n = c
      <3>1. 1 \in Queued(n)
        BY <2>1, <2>2, <2>3, Taken DEF Queued
      <3>2. n < connectionCount /\ n \notin registered /\ n \notin DOMAIN endpoints
            /\ \E i : Queued(n) = {i}
        BY <1>t, <3>1 DEF Place
      <3>3. Queued(n)' = {}
        BY <2>1, <2>2, <2>3, <3>2, QueuedMoves
      <3>4. QED
        BY <2>2, <2>3, <3>2, <3>3 DEF Place
    <2>4. CASE n # c
      <3>1. /\ Queued(n) = {} => Queued(n)' = {}
            /\ (\E i : Queued(n) = {i}) => \E i : Queued(n)' = {i}
        BY <2>1, <2>2, <2>4, QueuedMoves
      <3>2. QED
        BY <1>t, <2>2, <2>4, <3>1 DEF Place
    <2>5. QED
      BY <2>3, <2>4
  <1>6. CASE MainHandshake
    <2>1. /\ worldQueue # <<>> /\ worldQueue' = Tail(worldQueue) /\ Head(worldQueue).call # "number"
          /\ connectionCount' = connectionCount
      BY <1>6 DEF MainHandshake, netVars
    <2>2. PICK c, a : c = frame.cn /\ a = frame.endpoint
      OBVIOUS
    <2>3. RegisterEndpoint(a, c)
      BY <1>6, <2>2 DEF MainHandshake
    <2>4. CASE ~CanRegisterEndpoint(c)
      <3>1. UNCHANGED <<registered, endpoints>>
        BY <2>3, <2>4 DEF RegisterEndpoint, worldVars
      <3>2. QED
        BY <1>1, <2>1, <3>1
    <2>5. CASE CanRegisterEndpoint(c)
      <3>1. c \in registered
        BY <2>5 DEF CanRegisterEndpoint
      <3>2. a \in Addresses
        BY <1>6, <2>1, <2>2, Taken, ServerAssumption DEF FrameRead
      <3>3. registered' = registered \ {c} /\ DOMAIN endpoints' = DOMAIN endpoints \cup {c}
        BY <2>3, <2>5, <3>1, <3>2, EndpointKeeps DEF ServerInv
      <3>4. /\ Queued(n) = {} => Queued(n)' = {}
            /\ (\E i : Queued(n) = {i}) => \E i : Queued(n)' = {i}
        BY <2>1, QueuedMoves
      <3>5. QED
        BY <1>t, <2>1, <3>1, <3>3, <3>4 DEF Place
    <2>6. QED
      BY <2>4, <2>5
  <1>7. CASE MainVerify
    <2>1. UNCHANGED <<registered, connectionCount, endpoints, worldQueue>>
      BY <1>7 DEF MainVerify, worldVars, netVars
    <2>2. QED
      BY <1>1, <2>1
  <1>8. CASE MainHandshakeUpdate \/ MainUpdate
    <2>1. PICK m \in Messages : UpdateThroughFrame(m) /\ FrameRead
      BY <1>8, Taken DEF MainHandshakeUpdate, MainUpdate, ServerInv, FrameInv
    <2>2. registered' = registered /\ DOMAIN endpoints' = DOMAIN endpoints
      <3>1. status = "running" /\ WorldInv
        BY DEF Next, ServerInv
      <3>2. CASE UNCHANGED <<registered, endpoints, elements>>
        BY <3>2
      <3>3. CASE frame.profile \in DOMAIN endpoints /\ frame.id \in Ids
                 /\ UpdateElement(m, frame.profile, frame.id)
        <4>1. registered' = registered
          BY <3>3 DEF UpdateElement, Overwrite, Insert
        <4>2. QED
          BY <3>1, <3>3, <4>1, UpdateKeeps
      <3>4. QED
        BY <2>1, <3>1, <3>2, <3>3, ThroughFrame
    <2>3. /\ connectionCount' = connectionCount
          /\ \/ UNCHANGED worldQueue
             \/ /\ worldQueue # <<>> /\ worldQueue' = Tail(worldQueue)
                /\ Head(worldQueue).call # "number"
      BY <1>8 DEF MainHandshakeUpdate, MainUpdate, netVars
    <2>4. QED
      BY <1>1, <2>2, <2>3
  <1>9. QED
    BY <1>2, <1>3, <1>4, <1>5, <1>6, <1>7, <1>8 DEF Next, Acceptor, Main

(* The server before its threads begin.                                    *)
LEMMA ServerInvInit == Init => ServerInv
  <1> SUFFICES ASSUME Init PROVE ServerInv
    OBVIOUS
  <1>1. WorldInv /\ CountsMatchElements /\ HangsAtTheCountOrTheRoot
    BY WorldInvInit DEF Init, HangsAtTheCountOrTheRoot, WorldInit
  <1>2. TypeOK
    BY <1>1 DEF Init, TypeOK, WorldInv
  <1>3. FrameInv
    BY DEF Init, FrameInv
  <1>4. GivenInv
    BY DEF Init, GivenInv
  <1>5. ASSUME NEW n \in Connections PROVE Place(n)
    <2>1. n \in Nat /\ connectionCount = 0 /\ registered = {} /\ DOMAIN endpoints = {}
          /\ DOMAIN worldQueue = {}
      BY WorldAssumption DEF Init, WorldInit
    <2>2. QED
      BY <2>1 DEF Place, Queued
  <1>6. QED
    BY <1>1, <1>2, <1>3, <1>4, <1>5 DEF ServerInv

(* Every step of every thread keeps the invariant.                         *)
LEMMA ServerInvNext == ServerInv /\ [Next]_serverVars => ServerInv'
  <1> SUFFICES ASSUME ServerInv, [Next]_serverVars PROVE ServerInv'
    OBVIOUS
  <1>1. CASE Next
    <2>1. TypeOK' /\ FrameInv' /\ GivenInv' /\ \A n \in Connections : Place(n)'
      BY <1>1, TypeKept, FrameKept, GivenKept, PlacesKept
    <2>2. WorldInv' /\ CountsMatchElements' /\ HangsAtTheCountOrTheRoot'
      BY <1>1, ServerKeepsWorld
    <2>3. QED
      BY <2>1, <2>2 DEF ServerInv
  <1>2. CASE UNCHANGED serverVars
    <2>1. UNCHANGED <<registered, endpoints, elements, status>>
          /\ UNCHANGED <<number, connectionCount, acceptor, network>>
          /\ UNCHANGED <<receiveQueue, worker, message, sendQueue>>
          /\ UNCHANGED <<frame, worldQueue, main, closure>>
      BY <1>2 DEF serverVars, worldVars, netVars, workerVars
    <2>2. WorldInv' /\ CountsMatchElements' /\ HangsAtTheCountOrTheRoot' /\ TypeOK'
      <3>1. WorldTypeOK' /\ WaitingOrBound'
        BY <2>1 DEF ServerInv, WorldInv, WorldTypeOK, WaitingOrBound
      <3>2. WorldInv'
        BY <2>1, <3>1 DEF ServerInv, WorldInv, InMap
      <3>3. CountsMatchElements' /\ HangsAtTheCountOrTheRoot'
        BY <2>1 DEF ServerInv, CountsMatchElements, Owned, HangsAtTheCountOrTheRoot
      <3>4. TypeOK'
        BY <2>1, <3>1 DEF ServerInv, TypeOK
      <3>5. QED
        BY <3>2, <3>3, <3>4
    <2>3. FrameInv' /\ GivenInv' /\ \A n \in Connections : Place(n)'
      BY <2>1 DEF ServerInv, FrameInv, FrameRead, GivenInv, Place, Queued
    <2>4. QED
      BY <2>2, <2>3 DEF ServerInv
  <1>3. QED
    BY <1>1, <1>2

(* The invariant of the server.                                            *)
LEMMA ServerInvariance == Spec => []ServerInv
  BY ServerInvInit, ServerInvNext, PTL DEF Spec

(* A connection number is given to one client, and is in exactly one place *)
(* on its way from the acceptor to the world.                              *)
THEOREM NumbersHandedOn == Spec => []NumberHandedOnOnce
  <1>1. ASSUME ServerInv, NEW n \in Connections
        PROVE  Cardinality(Queued(n)) + (IF n \in registered THEN 1 ELSE 0)
                  + (IF n \in DOMAIN endpoints THEN 1 ELSE 0)
                  = IF n < connectionCount THEN 1 ELSE 0
    <2>1. Place(n)
      BY <1>1 DEF ServerInv
    <2>2. Queued(n) = {} => Cardinality(Queued(n)) = 0
      BY FS_EmptySet
    <2>3. (\E i : Queued(n) = {i}) => Cardinality(Queued(n)) = 1
      BY FS_Singleton
    <2>4. CASE n < connectionCount
      <3>1. CASE \E i : Queued(n) = {i}
        BY <2>1, <2>3, <2>4, <3>1 DEF Place
      <3>2. CASE Queued(n) = {}
        BY <2>1, <2>2, <2>4, <3>2 DEF Place
      <3>3. QED
        BY <2>1, <2>4, <3>1, <3>2 DEF Place
    <2>5. CASE ~(n < connectionCount)
      BY <2>1, <2>2, <2>5 DEF Place
    <2>6. QED
      BY <2>4, <2>5
  <1>2. ServerInv => NumberHandedOnOnce
    BY <1>1 DEF ServerInv, GivenInv, NumberHandedOnOnce
  <1>3. QED
    BY <1>2, ServerInvariance, PTL

(* In the server, which removes nothing, every profile counts the elements *)
(* it owns, and the main thread hangs in updateElement for two reasons     *)
(* only.                                                                   *)
THEOREM ServerCounts == Spec => [](CountsMatchElements /\ HangsAtTheCountOrTheRoot)
  <1>1. ServerInv => CountsMatchElements /\ HangsAtTheCountOrTheRoot
    BY DEF ServerInv
  <1>2. QED
    BY <1>1, ServerInvariance, PTL

(* An update changes the element that the worker's variables name, and no  *)
(* other.                                                                  *)
LEMMA UpdateChanges ==
  ASSUME ServerInv, Next, NEW k \in DOMAIN elements',
         k \notin DOMAIN elements \/ elements'[k] # elements[k]
  PROVE  k = <<frame.profile, frame.id>> /\ elements'[k] \in Messages /\ frame.profile # NoProfile
  <1>1. status = "running"
    BY DEF Next
  <1>2. ~ UNCHANGED elements
    OBVIOUS
  <1>3. MainHandshakeUpdate \/ MainUpdate
    BY <1>2 DEF Next, Acceptor, AcceptorSend, AcceptorEnqueue, Network, ClientSend, Lose, Listener,
            Listen, Worker, WorkerPop, WorkerRead, WorkerVerify, WorkerDispatch, WorkerReply, Sender,
            Main, MainNumber, RegisterConnectionNumber, MainHandshake, RegisterEndpoint, MainVerify,
            worldVars
  <1>4. PICK m \in Messages : UpdateThroughFrame(m) /\ FrameRead
    BY <1>3, Taken DEF MainHandshakeUpdate, MainUpdate, ServerInv, FrameInv
  <1>5. PICK c, key : c = frame.profile /\ key = <<frame.profile, frame.id>>
    OBVIOUS
  <1>6. c \in DOMAIN endpoints /\ UpdateElement(m, c, frame.id)
    BY <1>1, <1>2, <1>4, <1>5, ThroughFrame
  <1>7. Overwrite(m, key) \/ Insert(m, c, key)
    BY <1>5, <1>6 DEF UpdateElement
  <1>8. k = key /\ elements'[k] \in Messages
    <2>1. CASE Overwrite(m, key)
      BY <1>4, <2>1 DEF Overwrite, ServerInv, WorldInv, WorldTypeOK
    <2>2. CASE Insert(m, c, key)
      BY <1>4, <2>2 DEF Insert, With
    <2>3. QED
      BY <1>7, <2>1, <2>2
  <1>9. frame.profile # NoProfile
    BY <1>5, <1>6, ServerAssumption DEF ServerInv, WorldInv, WorldTypeOK
  <1>10. QED
    BY <1>5, <1>8, <1>9

(* An element gets another connection's message only if the worker has     *)
(* taken up a datagram since the closure was made.                         *)
THEOREM ForeignOnlyFromAhead == Spec => ForeignOnlyFromAnIterationAhead
  <1> DEFINE Step ==
        \A k \in DOMAIN elements' :
           /\ k \notin DOMAIN elements \/ elements'[k] # elements[k]
           /\ elements'[k].cn # k[1]
           => worker \in {"read", "verify"} \/ message # elements'[k]
  <1>1. ASSUME ServerInv, Next PROVE Step
    <2> SUFFICES ASSUME NEW k \in DOMAIN elements',
                        k \notin DOMAIN elements \/ elements'[k] # elements[k],
                        elements'[k].cn # k[1],
                        worker \notin {"read", "verify"}, message = elements'[k]
                 PROVE  FALSE
      OBVIOUS
    <2>1. k = <<frame.profile, frame.id>> /\ elements'[k] \in Messages /\ frame.profile # NoProfile
      BY <1>1, UpdateChanges
    <2>2. message # NoMessage
      BY <2>1, ServerAssumption
    <2>3. frame.cn = message.cn /\ frame.profile \in {frame.cn, NoProfile}
      BY <1>1, <2>2 DEF ServerInv, FrameInv
    <2>4. QED
      BY <2>1, <2>3
  <1>2. ServerInv /\ [Next]_serverVars => [Step]_serverVars
    BY <1>1
  <1>3. QED
    BY <1>2, ServerInvariance, PTL DEF Spec, ForeignOnlyFromAnIterationAhead

(* The server uses the world by its operations only, and an endpoint is    *)
(* bound to a number once.                                                 *)
THEOREM OnlyCallsTheWorld == Spec => [][WorldStep]_worldVars
  <1>1. ServerInv /\ [Next]_serverVars => [WorldStep]_worldVars
    BY WorldSteps DEF serverVars
  <1>2. QED
    BY <1>1, ServerInvariance, PTL DEF Spec
=============================================================================
