------------------------ MODULE MessageObjectProofs -------------------------
(***************************************************************************)
(* What holds of the generated messages for any number of them, of cells,   *)
(* strings and elements, through any sequence of their operations: each     *)
(* object has one owner, an absent field reads as its default, the size     *)
(* computed is the size written, and a message behaves as a value.          *)
(*                                                                         *)
(* Neither of the first two is inductive.  A setter that finds its string   *)
(* or sub-message kept since a clear takes what is in it for the default,   *)
(* and a repeated field hands out again the elements beyond those in use:   *)
(* so IInv says what is in the cells and elements that nobody reads now     *)
(* (CleanHeap, Reads), for objects of the type only (IsMessage), and that   *)
(* messages and caller keep apart (Apart).  The operations are described by *)
(* lemmas about the pair of an object and the heap, whatever else owns      *)
(* cells there (Owns), the steps of the specification are put together from *)
(* those.                                                                  *)
(*                                                                         *)
(* The refinement has the same two levels: what has_ and the getters show   *)
(* after an operation on one pair, then that the other messages show what   *)
(* they did (OthersSame), so that each call is one of MessageValue.         *)
(***************************************************************************)
EXTENDS MessageObject, FiniteSetTheorems, SequenceTheorems, NaturalsInduction, WellFoundedInduction, TLAPS

-----------------------------------------------------------------------------
(* Counting and folding                                                    *)

(* The least of a set of numbers.                                         *)
LEMMA LeastOfSet ==
  ASSUME NEW S \in SUBSET Nat, S # {}
  PROVE  \E m \in S : \A k \in S : m <= k
  <1> DEFINE R == {ss \in Nat \X Nat : ss[1] < ss[2]}
  <1>1. IsWellFoundedOn(R, Nat)
    BY NatLessThanWellFounded, Zenon DEF OpToRel
  <1>2. \A x, y \in Nat : y < x => <<y, x>> \in R
    OBVIOUS
  <1> HIDE DEF R
  <1>3. PICK m \in S : \A j \in S : ~ (<<j, m>> \in R)
    BY <1>1, WFMin
  <1>4. \A j \in S : m <= j
    <2>1. \A j \in S : m \in Nat /\ j \in Nat /\ ~(j < m)
      BY <1>2, <1>3
    <2>2. QED
      BY <2>1
  <1>5. QED
    BY <1>4

(* What holds of 0, and of k when it holds of k - 1, holds up to n.        *)
LEMMA UpTo ==
  ASSUME NEW n \in Nat, NEW S, 0 \in S, \A k \in 1..n : k - 1 \in S => k \in S
  PROVE  \A k \in 0..n : k \in S
  <1> DEFINE B == {k \in 0..n : k \notin S}
  <1> SUFFICES ASSUME B # {} PROVE FALSE
    OBVIOUS
  <1>1. PICK m \in B : \A k \in B : m <= k
    <2>1. B \in SUBSET Nat
      OBVIOUS
    <2> HIDE DEF B
    <2>2. QED
      BY <2>1, LeastOfSet
  <1>2. m \in 1..n /\ m - 1 \in 0..n /\ ~(m <= m - 1) /\ m \notin S
    OBVIOUS
  <1>3. QED
    BY <1>1, <1>2

(* The greatest of 1 .. k is k.                                            *)
LEMMA SegmentIs ==
  ASSUME NEW n \in Nat, NEW k \in 1..n
  PROVE  /\ 1..k \in SUBSET (1..n) /\ 1..k # {} /\ Max(1..k) = k
         /\ (1..k) \ {k} = 1..(k - 1)
  <1>1. k \in 1..k /\ \A j \in 1..k : k >= j /\ j \in 1..n
    OBVIOUS
  <1>2. \A x \in 1..k : (\A j \in 1..k : x >= j) => x = k
    BY <1>1
  <1>3. Max(1..k) = k
    BY <1>1, <1>2 DEF Max
  <1>4. QED
    BY <1>1, <1>3

(* A fold of a function over w exists, as one over its sets of places.     *)
IsFold(g, F, x, w) == \A S \in SUBSET (1..Len(w)) :
    g[S] = IF S = {} THEN x ELSE F[<<g[S \ {Max(S)}], w[Max(S)]>>]

(* There is a function that folds w so.                                    *)
LEMMA FoldExists ==
  ASSUME NEW X, NEW T, NEW F \in [X \X T -> X], NEW x \in X, NEW w \in Seq(T)
  PROVE  \E g \in [SUBSET (1..Len(w)) -> X] : IsFold(g, F, x, w)
  <1> DEFINE Fold(g, n) == \A S \in SUBSET (1..n) :
                g[S] = IF S = {} THEN x ELSE F[<<g[S \ {Max(S)}], w[Max(S)]>>]
             D == {n \in Nat : \E g \in [SUBSET (1..n) -> X] : Fold(g, n)}
  <1>1. Len(w) \in Nat /\ DOMAIN w = 1..Len(w)
    OBVIOUS
  <1>2. 0 \in D
    <2> DEFINE g == [S \in SUBSET (1..0) |-> x]
    <2>1. \A S \in SUBSET (1..0) : S = {}
      OBVIOUS
    <2>2. Fold(g, 0)
      BY <2>1
    <2>3. QED
      BY <2>2
  <1>3. ASSUME NEW n \in 1..Len(w), n - 1 \in D PROVE n \in D
    <2>1. PICK g \in [SUBSET (1..(n - 1)) -> X] : Fold(g, n - 1)
      BY <1>3
    <2> DEFINE f == [S \in SUBSET (1..n) |->
                        IF n \in S THEN F[<<g[S \ {n}], w[n]>>] ELSE g[S]]
    <2>2. \A S \in SUBSET (1..n) : n \in S => Max(S) = n /\ S \ {n} \in SUBSET (1..(n - 1))
      <3> SUFFICES ASSUME NEW S \in SUBSET (1..n), n \in S
                   PROVE  Max(S) = n /\ S \ {n} \in SUBSET (1..(n - 1))
        OBVIOUS
      <3>1. \A j \in S : n >= j
        OBVIOUS
      <3>2. \A y \in S : (\A j \in S : y >= j) => y = n
        OBVIOUS
      <3>3. Max(S) = n
        BY <3>1, <3>2 DEF Max
      <3>4. QED
        BY <3>3
    <2>3. \A S \in SUBSET (1..n) : n \notin S => S \in SUBSET (1..(n - 1)) /\ S \ {Max(S)} \in SUBSET (1..(n - 1))
      <3>1. \A j \in 1..n : j # n => j \in 1..(n - 1)
        OBVIOUS
      <3>2. QED
        BY <3>1
    <2>4. ASSUME NEW S \in SUBSET (1..n)
          PROVE  f[S] = IF S = {} THEN x ELSE F[<<f[S \ {Max(S)}], w[Max(S)]>>]
      <3>1. CASE n \in S
        <4>1. f[S] = F[<<g[S \ {n}], w[n]>>]
          BY <3>1
        <4>2. f[S \ {n}] = g[S \ {n}]
          BY <3>1
        <4>3. QED
          BY <2>2, <3>1, <4>1, <4>2
      <3>2. CASE n \notin S
        <4>1. f[S] = g[S] /\ (S # {} => f[S \ {Max(S)}] = g[S \ {Max(S)}])
          BY <3>2
        <4>2. g[S] = IF S = {} THEN x ELSE F[<<g[S \ {Max(S)}], w[Max(S)]>>]
          BY <2>1, <2>3, <3>2
        <4>3. QED
          BY <4>1, <4>2
      <3>3. QED
        BY <3>1, <3>2
    <2>5. ASSUME NEW S \in SUBSET (1..n) PROVE f[S] \in X
      <3>1. n \in S => g[S \ {n}] \in X /\ w[n] \in T
        BY <2>2
      <3>2. n \in S => f[S] = F[<<g[S \ {n}], w[n]>>]
        OBVIOUS
      <3>3. n \notin S => f[S] = g[S] /\ g[S] \in X
        BY <2>3
      <3>4. QED
        BY <3>1, <3>2, <3>3
    <2>6. f \in [SUBSET (1..n) -> X]
      BY <2>5
    <2>7. Fold(f, n)
      BY <2>4
    <2>8. n \in Nat
      BY <1>1
    <2> HIDE DEF f, Fold
    <2>9. QED
      BY <2>6, <2>7, <2>8
  <1> HIDE DEF D
  <1>4. Len(w) \in D
    <2>1. \A k \in 0..Len(w) : k \in D
      BY <1>1, <1>2, <1>3, UpTo
    <2>2. QED
      BY <1>1, <2>1
  <1>5. QED
    BY <1>1, <1>4 DEF D, IsFold

(* The greatest of a set of places is one of them.                         *)
LEMMA MaxOfPlaces ==
  ASSUME NEW n \in Nat, NEW S \in SUBSET (1..n), S # {}
  PROVE  Max(S) \in 1..n /\ S \ {Max(S)} \in SUBSET (1..n)
  <1> DEFINE B == {n - j : j \in S}
  <1>1. B \in SUBSET Nat /\ B # {}
    <2>1. \A j \in S : n - j \in Nat
      OBVIOUS
    <2>2. QED
      BY <2>1
  <1>2. PICK b \in B : \A k \in B : b <= k
    <2> HIDE DEF B
    <2>1. QED
      BY <1>1, LeastOfSet
  <1>3. PICK m \in S : b = n - m
    OBVIOUS
  <1>4. \A j \in S : m >= j
    <2> TAKE j \in S
    <2>1. n - j \in B
      OBVIOUS
    <2>2. n - m <= n - j
      BY <1>2, <1>3, <2>1
    <2>3. m \in Int /\ j \in Int /\ n \in Int
      OBVIOUS
    <2> HIDE DEF B
    <2>4. QED
      BY <2>2, <2>3
  <1>5. QED
    BY <1>4 DEF Max

(* Such a fold goes through the places from the first to the last.  f is   *)
(* only known to fold what is in X.                                        *)
Goes(f, X, F, x, w) ==
    /\ f[{}] = x
    /\ \A S \in SUBSET (1..Len(w)) : S # {} /\ f[S \ {Max(S)}] \in X =>
          f[S] = F[<<f[S \ {Max(S)}], w[Max(S)]>>]

(* a goes from x through the places of w to the result.                    *)
IsRun(a, F, x, w, result) ==
    /\ a[0] = x /\ a[Len(w)] = result
    /\ \A k \in 1..Len(w) : a[k] = F[<<a[k - 1], w[k]>>]

(* A function that folds so goes through w place by place.                 *)
LEMMA FoldGoes ==
  ASSUME NEW X, NEW T, NEW F \in [X \X T -> X], NEW x \in X, NEW w \in Seq(T), NEW f,
         Goes(f, X, F, x, w)
  PROVE  \E a \in [0..Len(w) -> X] : IsRun(a, F, x, w, f[1..Len(w)])
  <1> DEFINE S == {k \in 0..Len(w) : f[1..k] \in X}
             a == [k \in 0..Len(w) |-> f[1..k]]
  <1>1. Len(w) \in Nat /\ 1..0 = {} /\ \A k \in 1..Len(w) : w[k] \in T
    OBVIOUS
  <1>2. ASSUME NEW k \in 1..Len(w), f[1..(k - 1)] \in X
        PROVE  f[1..k] = F[<<f[1..(k - 1)], w[k]>>]
    <2>1. 1..k \in SUBSET (1..Len(w)) /\ 1..k # {} /\ Max(1..k) = k /\ (1..k) \ {k} = 1..(k - 1)
      BY <1>1, SegmentIs
    <2>2. QED
      BY <1>2, <2>1 DEF Goes
  <1>3. \A k \in 0..Len(w) : k \in S
    <2>1. 0 \in S
      BY <1>1 DEF Goes
    <2>2. ASSUME NEW k \in 1..Len(w), k - 1 \in S PROVE k \in S
      <3>1. f[1..k] = F[<<f[1..(k - 1)], w[k]>>] /\ f[1..(k - 1)] \in X
        BY <1>2, <2>2
      <3>2. k \in 0..Len(w) /\ w[k] \in T
        BY <1>1
      <3>3. QED
        BY <3>1, <3>2
    <2> HIDE DEF S
    <2>3. QED
      BY <1>1, <2>1, <2>2, UpTo
  <1>4. a \in [0..Len(w) -> X]
    BY <1>3
  <1>5. a[0] = x /\ a[Len(w)] = f[1..Len(w)]
    BY <1>1 DEF Goes
  <1>6. ASSUME NEW k \in 1..Len(w) PROVE a[k] = F[<<a[k - 1], w[k]>>]
    <2>1. k \in 0..Len(w) /\ k - 1 \in 0..Len(w)
      BY <1>1
    <2>2. QED
      BY <1>2, <1>3, <2>1
  <1> HIDE DEF a
  <1>7. QED
    BY <1>4, <1>5, <1>6 DEF IsRun

(* No prover can be given an operator to put into a lemma, so each of the  *)
(* model's folds has one.                                                  *)

(* A sub-message, an element and a message are parsed field by field.      *)
LeafParseRun(x, w, a) ==
    /\ a[0] = x /\ a[Len(w)] = LeafParse(x, w)
    /\ \A k \in 1..Len(w) : a[k] = LeafSet(a[k - 1], w[k][1], w[k][2])

(* LeafParse sets one field after the other.                               *)
LEMMA LeafParseFolds ==
  ASSUME NEW X, NEW T, NEW x \in X, NEW w \in Seq(T),
         \A a \in X, t \in T : LeafSet(a, t[1], t[2]) \in X
  PROVE  \E a \in [0..Len(w) -> X] : LeafParseRun(x, w, a)
  <1> DEFINE step(a, t) == LeafSet(a, t[1], t[2])
             F == [p \in X \X T |-> step(p[1], p[2])]
             Fold(g) == g = [S \in SUBSET (DOMAIN w) |->
                                IF S = {} THEN x ELSE step(g[S \ {Max(S)}], w[Max(S)])]
             f == CHOOSE f : Fold(f)
  <1>1. LeafParse(x, w) = f[DOMAIN w]
    BY DEF FoldLeft, MapThenFoldSet, LeafParse
  <1>2. x \in X /\ w \in Seq(T) /\ \A a \in X, t \in T : step(a, t) \in X
    OBVIOUS
  <1> HIDE DEF step
  <1>3. F \in [X \X T -> X] /\ \A a \in X, t \in T : F[<<a, t>>] = step(a, t)
    BY <1>2
  <1> HIDE DEF F
  <1>4. DOMAIN w = 1..Len(w) /\ \A k \in 1..Len(w) : w[k] \in T
    BY <1>2
  <1>5. \A S \in SUBSET (1..Len(w)) : S # {} => Max(S) \in 1..Len(w) /\ S \ {Max(S)} \in SUBSET (1..Len(w))
    <2>1. Len(w) \in Nat
      BY <1>2
    <2>2. QED
      BY <2>1, MaxOfPlaces
  <1>6. PICK g \in [SUBSET (1..Len(w)) -> X] : IsFold(g, F, x, w)
    <2>1. F \in [X \X T -> X] /\ x \in X /\ w \in Seq(T)
      BY <1>2, <1>3
    <2>2. QED
      BY <2>1, FoldExists
  <1>7. Fold(g)
    <2>1. \A S \in SUBSET (1..Len(w)) : S # {} =>
             F[<<g[S \ {Max(S)}], w[Max(S)]>>] = step(g[S \ {Max(S)}], w[Max(S)])
      BY <1>3, <1>4, <1>5
    <2>2. g = [S \in SUBSET (1..Len(w)) |-> g[S]]
      OBVIOUS
    <2>3. QED
      BY <1>4, <1>6, <2>1, <2>2 DEF IsFold
  <1>8. Fold(f)
    BY <1>7, Zenon
  <1> HIDE DEF f
  <1>9. Goes(f, X, F, x, w)
    <2>1. \A S \in SUBSET (1..Len(w)) :
             f[S] = IF S = {} THEN x ELSE step(f[S \ {Max(S)}], w[Max(S)])
      BY <1>4, <1>8
    <2>2. QED
      BY <1>3, <1>4, <1>5, <2>1 DEF Goes
  <1>10. PICK a \in [0..Len(w) -> X] : IsRun(a, F, x, w, f[1..Len(w)])
    <2>1. F \in [X \X T -> X] /\ x \in X /\ w \in Seq(T)
      BY <1>2, <1>3
    <2>2. QED
      BY <1>9, <2>1, FoldGoes
  <1>11. ASSUME NEW k \in 1..Len(w) PROVE a[k] = step(a[k - 1], w[k])
    <2>1. k - 1 \in 0..Len(w)
      BY <1>2
    <2>2. QED
      BY <1>3, <1>4, <1>10, <2>1 DEF IsRun
  <1>12. a[0] = x /\ a[Len(w)] = LeafParse(x, w)
    BY <1>1, <1>4, <1>10 DEF IsRun
  <1>13. QED
    BY <1>11, <1>12 DEF step, LeafParseRun

(* PhoneParse sets one field after the other.                              *)
LEMMA PhoneParseFolds ==
  ASSUME NEW X, NEW T, NEW x \in X, NEW w \in Seq(T),
         \A a \in X, t \in T : (IF t[1] = "number" THEN PhoneSetNumber(a, t[2]) ELSE PhoneSetType(a, t[2])) \in X
  PROVE  \E a \in [0..Len(w) -> X] :
            /\ a[0] = x /\ a[Len(w)] = PhoneParse(x, w)
            /\ \A k \in 1..Len(w) : a[k] = (IF w[k][1] = "number" THEN PhoneSetNumber(a[k - 1], w[k][2]) ELSE PhoneSetType(a[k - 1], w[k][2]))
  <1> DEFINE step(a, t) == (IF t[1] = "number" THEN PhoneSetNumber(a, t[2]) ELSE PhoneSetType(a, t[2]))
             F == [p \in X \X T |-> step(p[1], p[2])]
             Fold(g) == g = [S \in SUBSET (DOMAIN w) |->
                                IF S = {} THEN x ELSE step(g[S \ {Max(S)}], w[Max(S)])]
             f == CHOOSE f : Fold(f)
  <1>1. PhoneParse(x, w) = f[DOMAIN w]
    BY DEF FoldLeft, MapThenFoldSet, PhoneParse
  <1>2. x \in X /\ w \in Seq(T) /\ \A a \in X, t \in T : step(a, t) \in X
    OBVIOUS
  <1> HIDE DEF step
  <1>3. F \in [X \X T -> X] /\ \A a \in X, t \in T : F[<<a, t>>] = step(a, t)
    BY <1>2
  <1> HIDE DEF F
  <1>4. DOMAIN w = 1..Len(w) /\ \A k \in 1..Len(w) : w[k] \in T
    BY <1>2
  <1>5. \A S \in SUBSET (1..Len(w)) : S # {} => Max(S) \in 1..Len(w) /\ S \ {Max(S)} \in SUBSET (1..Len(w))
    <2>1. Len(w) \in Nat
      BY <1>2
    <2>2. QED
      BY <2>1, MaxOfPlaces
  <1>6. PICK g \in [SUBSET (1..Len(w)) -> X] : IsFold(g, F, x, w)
    <2>1. F \in [X \X T -> X] /\ x \in X /\ w \in Seq(T)
      BY <1>2, <1>3
    <2>2. QED
      BY <2>1, FoldExists
  <1>7. Fold(g)
    <2>1. \A S \in SUBSET (1..Len(w)) : S # {} =>
             F[<<g[S \ {Max(S)}], w[Max(S)]>>] = step(g[S \ {Max(S)}], w[Max(S)])
      BY <1>3, <1>4, <1>5
    <2>2. g = [S \in SUBSET (1..Len(w)) |-> g[S]]
      OBVIOUS
    <2>3. QED
      BY <1>4, <1>6, <2>1, <2>2 DEF IsFold
  <1>8. Fold(f)
    BY <1>7, Zenon
  <1> HIDE DEF f
  <1>9. Goes(f, X, F, x, w)
    <2>1. \A S \in SUBSET (1..Len(w)) :
             f[S] = IF S = {} THEN x ELSE step(f[S \ {Max(S)}], w[Max(S)])
      BY <1>4, <1>8
    <2>2. QED
      BY <1>3, <1>4, <1>5, <2>1 DEF Goes
  <1>10. PICK a \in [0..Len(w) -> X] : IsRun(a, F, x, w, f[1..Len(w)])
    <2>1. F \in [X \X T -> X] /\ x \in X /\ w \in Seq(T)
      BY <1>2, <1>3
    <2>2. QED
      BY <1>9, <2>1, FoldGoes
  <1>11. ASSUME NEW k \in 1..Len(w) PROVE a[k] = step(a[k - 1], w[k])
    <2>1. k - 1 \in 0..Len(w)
      BY <1>2
    <2>2. QED
      BY <1>3, <1>4, <1>10, <2>1 DEF IsRun
  <1>12. a[0] = x /\ a[Len(w)] = PhoneParse(x, w)
    BY <1>1, <1>4, <1>10 DEF IsRun
  <1>13. QED
    BY <1>11, <1>12 DEF step

(* A message is parsed field by field.                                     *)
LEMMA ParseFolds ==
  ASSUME NEW X, NEW T, NEW x \in X, NEW w \in Seq(T),
         \A a \in X, t \in T : ParseField(a, t) \in X
  PROVE  \E a \in [0..Len(w) -> X] :
            /\ a[0] = x /\ a[Len(w)] = MergePartialFromCodedStream(x, w)
            /\ \A k \in 1..Len(w) : a[k] = ParseField(a[k - 1], w[k])
  <1> DEFINE step(a, t) == ParseField(a, t)
             F == [p \in X \X T |-> step(p[1], p[2])]
             Fold(g) == g = [S \in SUBSET (DOMAIN w) |->
                                IF S = {} THEN x ELSE step(g[S \ {Max(S)}], w[Max(S)])]
             f == CHOOSE f : Fold(f)
  <1>1. MergePartialFromCodedStream(x, w) = f[DOMAIN w]
    BY DEF FoldLeft, MapThenFoldSet, MergePartialFromCodedStream
  <1>2. x \in X /\ w \in Seq(T) /\ \A a \in X, t \in T : step(a, t) \in X
    OBVIOUS
  <1> HIDE DEF step
  <1>3. F \in [X \X T -> X] /\ \A a \in X, t \in T : F[<<a, t>>] = step(a, t)
    BY <1>2
  <1> HIDE DEF F
  <1>4. DOMAIN w = 1..Len(w) /\ \A k \in 1..Len(w) : w[k] \in T
    BY <1>2
  <1>5. \A S \in SUBSET (1..Len(w)) : S # {} => Max(S) \in 1..Len(w) /\ S \ {Max(S)} \in SUBSET (1..Len(w))
    <2>1. Len(w) \in Nat
      BY <1>2
    <2>2. QED
      BY <2>1, MaxOfPlaces
  <1>6. PICK g \in [SUBSET (1..Len(w)) -> X] : IsFold(g, F, x, w)
    <2>1. F \in [X \X T -> X] /\ x \in X /\ w \in Seq(T)
      BY <1>2, <1>3
    <2>2. QED
      BY <2>1, FoldExists
  <1>7. Fold(g)
    <2>1. \A S \in SUBSET (1..Len(w)) : S # {} =>
             F[<<g[S \ {Max(S)}], w[Max(S)]>>] = step(g[S \ {Max(S)}], w[Max(S)])
      BY <1>3, <1>4, <1>5
    <2>2. g = [S \in SUBSET (1..Len(w)) |-> g[S]]
      OBVIOUS
    <2>3. QED
      BY <1>4, <1>6, <2>1, <2>2 DEF IsFold
  <1>8. Fold(f)
    BY <1>7, Zenon
  <1> HIDE DEF f
  <1>9. Goes(f, X, F, x, w)
    <2>1. \A S \in SUBSET (1..Len(w)) :
             f[S] = IF S = {} THEN x ELSE step(f[S \ {Max(S)}], w[Max(S)])
      BY <1>4, <1>8
    <2>2. QED
      BY <1>3, <1>4, <1>5, <2>1 DEF Goes
  <1>10. PICK a \in [0..Len(w) -> X] : IsRun(a, F, x, w, f[1..Len(w)])
    <2>1. F \in [X \X T -> X] /\ x \in X /\ w \in Seq(T)
      BY <1>2, <1>3
    <2>2. QED
      BY <1>9, <2>1, FoldGoes
  <1>11. ASSUME NEW k \in 1..Len(w) PROVE a[k] = step(a[k - 1], w[k])
    <2>1. k - 1 \in 0..Len(w)
      BY <1>2
    <2>2. QED
      BY <1>3, <1>4, <1>10, <2>1 DEF IsRun
  <1>12. a[0] = x /\ a[Len(w)] = MergePartialFromCodedStream(x, w)
    BY <1>1, <1>4, <1>10 DEF IsRun
  <1>13. QED
    BY <1>11, <1>12 DEF step

(* The fields of a sub-message are written in their order.                 *)
LeafRun(l, a) ==
    /\ a[0] = <<>> /\ a[Len(LeafOrder)] = LeafSerialize(l)
    /\ \A k \in 1..Len(LeafOrder) :
          a[k] = (IF LeafOrder[k] \in l.has
                  THEN Append(a[k - 1], <<LeafOrder[k], l.v[LeafOrder[k]]>>) ELSE a[k - 1])

(* LeafSerialize appends one field after the other.                        *)
LEMMA LeafSerializeFolds ==
  ASSUME NEW l, NEW X, <<>> \in X,
         \A a \in X, t \in LeafFields : (IF t \in l.has THEN Append(a, <<t, l.v[t]>>) ELSE a) \in X
  PROVE  \E a \in [0..Len(LeafOrder) -> X] : LeafRun(l, a)
  <1> DEFINE x == <<>>
             w == LeafOrder
             T == LeafFields
             step(a, t) == (IF t \in l.has THEN Append(a, <<t, l.v[t]>>) ELSE a)
             F == [p \in X \X T |-> step(p[1], p[2])]
             Fold(g) == g = [S \in SUBSET (DOMAIN w) |->
                                IF S = {} THEN x ELSE step(g[S \ {Max(S)}], w[Max(S)])]
             f == CHOOSE f : Fold(f)
  <1>1. LeafSerialize(l) = f[DOMAIN w]
    BY DEF FoldLeft, MapThenFoldSet, LeafSerialize
  <1>2. x \in X /\ w \in Seq(T) /\ \A a \in X, t \in T : step(a, t) \in X
    BY ValueAssumption
  <1> HIDE DEF step, x, w, T
  <1>3. F \in [X \X T -> X] /\ \A a \in X, t \in T : F[<<a, t>>] = step(a, t)
    BY <1>2
  <1> HIDE DEF F
  <1>4. DOMAIN w = 1..Len(w) /\ \A k \in 1..Len(w) : w[k] \in T
    BY <1>2
  <1>5. \A S \in SUBSET (1..Len(w)) : S # {} => Max(S) \in 1..Len(w) /\ S \ {Max(S)} \in SUBSET (1..Len(w))
    <2>1. Len(w) \in Nat
      BY <1>2
    <2>2. QED
      BY <2>1, MaxOfPlaces
  <1>6. PICK g \in [SUBSET (1..Len(w)) -> X] : IsFold(g, F, x, w)
    <2>1. F \in [X \X T -> X] /\ x \in X /\ w \in Seq(T)
      BY <1>2, <1>3
    <2>2. QED
      BY <2>1, FoldExists
  <1>7. Fold(g)
    <2>1. \A S \in SUBSET (1..Len(w)) : S # {} =>
             F[<<g[S \ {Max(S)}], w[Max(S)]>>] = step(g[S \ {Max(S)}], w[Max(S)])
      BY <1>3, <1>4, <1>5
    <2>2. g = [S \in SUBSET (1..Len(w)) |-> g[S]]
      OBVIOUS
    <2>3. QED
      BY <1>4, <1>6, <2>1, <2>2 DEF IsFold
  <1>8. Fold(f)
    BY <1>7, Zenon
  <1> HIDE DEF f
  <1>9. Goes(f, X, F, x, w)
    <2>1. \A S \in SUBSET (1..Len(w)) :
             f[S] = IF S = {} THEN x ELSE step(f[S \ {Max(S)}], w[Max(S)])
      BY <1>4, <1>8
    <2>2. QED
      BY <1>3, <1>4, <1>5, <2>1 DEF Goes
  <1>10. PICK a \in [0..Len(w) -> X] : IsRun(a, F, x, w, f[1..Len(w)])
    <2>1. F \in [X \X T -> X] /\ x \in X /\ w \in Seq(T)
      BY <1>2, <1>3
    <2>2. QED
      BY <1>9, <2>1, FoldGoes
  <1>11. ASSUME NEW k \in 1..Len(w) PROVE a[k] = step(a[k - 1], w[k])
    <2>1. k - 1 \in 0..Len(w)
      BY <1>2
    <2>2. QED
      BY <1>3, <1>4, <1>10, <2>1 DEF IsRun
  <1>12. a[0] = x /\ a[Len(w)] = LeafSerialize(l)
    BY <1>1, <1>4, <1>10 DEF IsRun
  <1>13. QED
    BY <1>11, <1>12 DEF step, x, w, LeafRun

(* The elements of another message are merged one after the other.         *)
MergePhones(x, w) == FoldLeft(MergePhone, x, w)

(* Merging elements adds one after the other.                              *)
LEMMA MergePhoneFolds ==
  ASSUME NEW X, NEW T, NEW x \in X, NEW w \in Seq(T),
         \A a \in X, t \in T : MergePhone(a, t) \in X
  PROVE  \E a \in [0..Len(w) -> X] :
            /\ a[0] = x /\ a[Len(w)] = MergePhones(x, w)
            /\ \A k \in 1..Len(w) : a[k] = MergePhone(a[k - 1], w[k])
  <1> DEFINE step(a, t) == MergePhone(a, t)
             F == [p \in X \X T |-> step(p[1], p[2])]
             Fold(g) == g = [S \in SUBSET (DOMAIN w) |->
                                IF S = {} THEN x ELSE step(g[S \ {Max(S)}], w[Max(S)])]
             f == CHOOSE f : Fold(f)
  <1>1. MergePhones(x, w) = f[DOMAIN w]
    BY DEF FoldLeft, MapThenFoldSet, MergePhones
  <1>2. x \in X /\ w \in Seq(T) /\ \A a \in X, t \in T : step(a, t) \in X
    OBVIOUS
  <1> HIDE DEF step
  <1>3. F \in [X \X T -> X] /\ \A a \in X, t \in T : F[<<a, t>>] = step(a, t)
    BY <1>2
  <1> HIDE DEF F
  <1>4. DOMAIN w = 1..Len(w) /\ \A k \in 1..Len(w) : w[k] \in T
    BY <1>2
  <1>5. \A S \in SUBSET (1..Len(w)) : S # {} => Max(S) \in 1..Len(w) /\ S \ {Max(S)} \in SUBSET (1..Len(w))
    <2>1. Len(w) \in Nat
      BY <1>2
    <2>2. QED
      BY <2>1, MaxOfPlaces
  <1>6. PICK g \in [SUBSET (1..Len(w)) -> X] : IsFold(g, F, x, w)
    <2>1. F \in [X \X T -> X] /\ x \in X /\ w \in Seq(T)
      BY <1>2, <1>3
    <2>2. QED
      BY <2>1, FoldExists
  <1>7. Fold(g)
    <2>1. \A S \in SUBSET (1..Len(w)) : S # {} =>
             F[<<g[S \ {Max(S)}], w[Max(S)]>>] = step(g[S \ {Max(S)}], w[Max(S)])
      BY <1>3, <1>4, <1>5
    <2>2. g = [S \in SUBSET (1..Len(w)) |-> g[S]]
      OBVIOUS
    <2>3. QED
      BY <1>4, <1>6, <2>1, <2>2 DEF IsFold
  <1>8. Fold(f)
    BY <1>7, Zenon
  <1> HIDE DEF f
  <1>9. Goes(f, X, F, x, w)
    <2>1. \A S \in SUBSET (1..Len(w)) :
             f[S] = IF S = {} THEN x ELSE step(f[S \ {Max(S)}], w[Max(S)])
      BY <1>4, <1>8
    <2>2. QED
      BY <1>3, <1>4, <1>5, <2>1 DEF Goes
  <1>10. PICK a \in [0..Len(w) -> X] : IsRun(a, F, x, w, f[1..Len(w)])
    <2>1. F \in [X \X T -> X] /\ x \in X /\ w \in Seq(T)
      BY <1>2, <1>3
    <2>2. QED
      BY <1>9, <2>1, FoldGoes
  <1>11. ASSUME NEW k \in 1..Len(w) PROVE a[k] = step(a[k - 1], w[k])
    <2>1. k - 1 \in 0..Len(w)
      BY <1>2
    <2>2. QED
      BY <1>3, <1>4, <1>10, <2>1 DEF IsRun
  <1>12. a[0] = x /\ a[Len(w)] = MergePhones(x, w)
    BY <1>1, <1>4, <1>10 DEF IsRun
  <1>13. QED
    BY <1>11, <1>12 DEF step

-----------------------------------------------------------------------------
(* What the operations keep of a message and of the heap it is on          *)

(* Sub-messages and elements whose absent fields read as their defaults.   *)
GoodLeafs == {l \in Leafs : LeafReadsDefault(l)}

(* An absent field of an element reads as its default.                     *)
PhoneReadsDefault(p) == /\ "number" \notin p.has => p.number = ""
                        /\ "type" \notin p.has => p.type = HOME

(* Elements of which that holds.                                           *)
GoodPhones == {p \in Phones : PhoneReadsDefault(p)}

(* Messages, heaps, and what an operation works on.                        *)
Objects == [has : SUBSET {"t", "s", "c", "r", "u"}, t : Numbers, s : Cells \cup {Shared},
            c : Cells \cup {Null}, r : Seq(GoodPhones), n : Nat, u : Seq({"newer"})]

Heaps == [str : [{Shared} \cup Cells -> Strings], leaf : [Cells -> GoodLeafs],
          live : SUBSET Cells]

Pairs == [o : Objects, h : Heaps]

(* The cells o owns.                                                       *)
Own(o) == {o.s, o.c} \cap Cells

(* The storage of a free cell is that of a new object.                     *)
CleanHeap(h) == /\ h.str[Shared] = ""
                /\ \A p \in Cells \ h.live : h.str[p] = "" /\ h.leaf[p] = LeafNew

(* A message of type T owns what is live on the heap, but for E.           *)
Owns(T, E, o, h) == /\ "s" \notin T => o.s = Shared
                    /\ "c" \notin T => o.c = Null
                    /\ o.s # o.c /\ o.s \notin E /\ o.c \notin E
                    /\ h.live = E \cup Own(o)

(* Each absent field reads as its default, a present one has storage of its*)
(* own, and the elements kept for reuse are cleared.                       *)
Reads(o, h) == /\ "t" \notin o.has => o.t = Default
               /\ IF "s" \in o.has THEN o.s # Shared ELSE h.str[o.s] = ""
               /\ IF "c" \in o.has THEN o.c # Null ELSE o.c # Null => h.leaf[o.c] = LeafNew
               /\ o.n <= Len(o.r)
               /\ \A i \in DOMAIN o.r : i > o.n => o.r[i].has = {}

(* All an operation expects of a message of type T on a heap where others  *)
(* own E.                                                                  *)
Good(T, E, x) == /\ x \in Pairs
                 /\ x.o.has \subseteq T
                 /\ CleanHeap(x.h)
                 /\ Owns(T, E, x.o, x.h)
                 /\ Reads(x.o, x.h)

(* What an operation leaves of the objects of others.                      *)
Frame(E, h, g) == \A p \in E : g.str[p] = h.str[p] /\ g.leaf[p] = h.leaf[p]

(* An operation from x to y leaves what the next one expects, and E alone. *)
Keeps(T, E, x, y) == Good(T, E, y) /\ Frame(E, x.h, y.h)

(* The others leave room for what a message of type T may need.            *)
Room(T, E) == /\ T \in Types /\ E \in SUBSET Cells
              /\ Cardinality(E) + Cardinality(T \cap Pointers) <= Cardinality(Cells)

(* Leaves                                                                  *)
LEMMA LeafOperations ==
  /\ LeafNew \in GoodLeafs
  /\ \A l \in GoodLeafs : LeafClear(l) = LeafNew
  /\ \A l \in GoodLeafs, f \in LeafFields, v \in Numbers : LeafSet(l, f, v) \in GoodLeafs
  /\ \A l, k \in GoodLeafs : LeafMerge(l, k) \in GoodLeafs
  <1> USE ValueAssumption
  <1>1. LeafNew \in GoodLeafs
    BY DEF LeafNew, GoodLeafs, Leafs, LeafReadsDefault
  <1>2. \A l \in GoodLeafs : LeafClear(l) = LeafNew
    <2> TAKE l \in GoodLeafs
    <2> DEFINE d == [f \in LeafFields |-> Default]
    <2>1. PICK a, b : l = [has |-> a, v |-> b]
      BY DEF GoodLeafs, Leafs
    <2>2. LeafClear(l) = [l EXCEPT !.v = d, !.has = {}] /\ LeafNew = [has |-> {}, v |-> d]
      BY DEF LeafNew, LeafClear
    <2> HIDE DEF d
    <2>3. QED
      BY <2>1, <2>2
  <1>3. \A l \in GoodLeafs, f \in LeafFields, v \in Numbers : LeafSet(l, f, v) \in GoodLeafs
    BY DEF LeafSet, GoodLeafs, Leafs, LeafReadsDefault
  <1>4. \A l, k \in GoodLeafs : LeafMerge(l, k) \in GoodLeafs
    BY DEF LeafMerge, GoodLeafs, Leafs, LeafReadsDefault
  <1>5. QED
    BY <1>1, <1>2, <1>3, <1>4

(* What is on the wire of a sub-message.                                   *)
LeafTokens == LeafFields \X Numbers

(* What is parsed is a sub-message whose absent fields read as their       *)
(* defaults.                                                               *)
LEMMA LeafParseKeeps ==
  ASSUME NEW l \in GoodLeafs, NEW w \in Seq(LeafTokens)
  PROVE  LeafParse(l, w) \in GoodLeafs
  <1>1. \A a \in GoodLeafs, t \in LeafTokens : LeafSet(a, t[1], t[2]) \in GoodLeafs
    BY LeafOperations DEF LeafTokens
  <1>2. PICK a \in [0..Len(w) -> GoodLeafs] : a[Len(w)] = LeafParse(l, w)
    BY <1>1, LeafParseFolds DEF LeafParseRun
  <1>3. QED
    BY <1>2

(* A sub-message is written as fields of a sub-message.                    *)
LEMMA LeafSerializeIs ==
  ASSUME NEW l \in GoodLeafs
  PROVE  LeafSerialize(l) \in Seq(LeafTokens)
  <1> DEFINE X == Seq(LeafTokens)
  <1>1. \A a \in X, f \in LeafFields : (IF f \in l.has THEN Append(a, <<f, l.v[f]>>) ELSE a) \in X
    BY DEF GoodLeafs, Leafs, LeafTokens
  <1>2. Len(LeafOrder) \in Nat
    <2>1. LeafOrder \in Seq(LeafFields)
      BY ValueAssumption
    <2>2. QED
      BY <2>1, LenProperties
  <1>2a. <<>> \in X
    OBVIOUS
  <1> HIDE DEF X
  <1>3. PICK a \in [0..Len(LeafOrder) -> X] : a[Len(LeafOrder)] = LeafSerialize(l)
    BY <1>1, <1>2a, LeafSerializeFolds DEF LeafRun
  <1>4. LeafSerialize(l) \in X
    BY <1>2, <1>3
  <1>5. QED
    BY <1>4 DEF X

(* Elements                                                                *)
LEMMA PhoneOperations ==
  /\ PhoneNew \in GoodPhones /\ PhoneNew.has = {}
  /\ \A p \in GoodPhones : PhoneClear(p) = PhoneNew
  /\ \A p \in GoodPhones, v \in Strings : PhoneSetNumber(p, v) \in GoodPhones
  /\ \A p \in GoodPhones, k \in PhoneTypes : PhoneSetType(p, k) \in GoodPhones
  /\ \A p, q \in GoodPhones : PhoneMerge(p, q) \in GoodPhones
  <1> USE ValueAssumption
  <1>1. PhoneNew \in GoodPhones /\ PhoneNew.has = {}
    BY DEF PhoneNew, GoodPhones, Phones, PhoneReadsDefault
  <1>2. \A p \in GoodPhones : PhoneClear(p) = PhoneNew
    <2> TAKE p \in GoodPhones
    <2>1. p = [has |-> p.has, number |-> p.number, type |-> p.type]
      BY DEF GoodPhones, Phones
    <2>2. QED
      BY <2>1 DEF PhoneNew, PhoneClear, GoodPhones, Phones, PhoneReadsDefault
  <1>3. \A p \in GoodPhones, v \in Strings : PhoneSetNumber(p, v) \in GoodPhones
    BY DEF PhoneSetNumber, GoodPhones, Phones, PhoneReadsDefault
  <1>4. \A p \in GoodPhones, k \in PhoneTypes : PhoneSetType(p, k) \in GoodPhones
    BY DEF PhoneSetType, GoodPhones, Phones, PhoneReadsDefault
  <1>5. \A p, q \in GoodPhones : PhoneMerge(p, q) \in GoodPhones
    <2> TAKE p, q \in GoodPhones
    <2>1. q.number \in Strings /\ q.type \in PhoneTypes
      BY DEF GoodPhones, Phones
    <2>2. QED
      BY <1>3, <1>4, <2>1 DEF PhoneMerge
  <1>6. QED
    BY <1>1, <1>2, <1>3, <1>4, <1>5

(* What is on the wire of an element.                                      *)
PhoneTokens == ({"number"} \X Strings) \cup ({"type"} \X PhoneTypes)

(* What is parsed is an element whose absent fields read as their defaults.*)
LEMMA PhoneParseKeeps ==
  ASSUME NEW p \in GoodPhones, NEW w \in Seq(PhoneTokens)
  PROVE  PhoneParse(p, w) \in GoodPhones
  <1>1. \A a \in GoodPhones, t \in PhoneTokens :
           (IF t[1] = "number" THEN PhoneSetNumber(a, t[2]) ELSE PhoneSetType(a, t[2])) \in GoodPhones
    BY PhoneOperations DEF PhoneTokens
  <1>2. PICK a \in [0..Len(w) -> GoodPhones] : a[Len(w)] = PhoneParse(p, w)
    BY <1>1, PhoneParseFolds
  <1>3. QED
    BY <1>2

(* An element is written as fields of an element.                          *)
LEMMA PhoneSerializeIs ==
  ASSUME NEW p \in GoodPhones
  PROVE  PhoneSerialize(p) \in Seq(PhoneTokens)
  <1>1. p.number \in Strings /\ p.type \in PhoneTypes
    BY DEF GoodPhones, Phones
  <1>2. <<"number", p.number>> \in PhoneTokens /\ <<"type", p.type>> \in PhoneTokens
    BY <1>1 DEF PhoneTokens
  <1>3. QED
    BY <1>2 DEF PhoneSerialize

-----------------------------------------------------------------------------
(* The operations on a message                                             *)

(* The shared empty string and NULL are not cells of the heap.             *)
LEMMA SharedIsNoCell == Shared \notin Cells /\ Null \notin Cells /\ Null # Shared
  BY HeapAssumption

(* A set of two.                                                           *)
LEMMA TwoElements ==
  ASSUME NEW a, NEW b, a # b
  PROVE  IsFiniteSet({a, b}) /\ Cardinality({a, b}) = 2
  <1> DEFINE S == {a}
  <1>1. IsFiniteSet(S) /\ Cardinality(S) = 1 /\ b \notin S /\ {a, b} = S \cup {b}
    BY FS_Singleton
  <1> HIDE DEF S
  <1>2. QED
    BY <1>1, FS_AddElement

(* A set grows by one element at most.                                     *)
LEMMA OneMore ==
  ASSUME NEW S, NEW p, IsFiniteSet(S)
  PROVE  /\ IsFiniteSet(S \cup {p}) /\ Cardinality(S \cup {p}) \in Nat
         /\ Cardinality(S \cup {p}) <= Cardinality(S) + 1
  <1>1. Cardinality(S) \in Nat
    BY FS_CardinalityType
  <1>2. CASE p \in S
    <2>1. S \cup {p} = S
      BY <1>2
    <2>2. IsFiniteSet(S \cup {p}) /\ Cardinality(S \cup {p}) = Cardinality(S)
      BY <2>1, Zenon
    <2>3. QED
      BY <1>1, <2>2
  <1>3. CASE p \notin S
    <2>1. IsFiniteSet(S \cup {p}) /\ Cardinality(S \cup {p}) = Cardinality(S) + 1
      BY <1>3, FS_AddElement
    <2>2. QED
      BY <1>1, <2>1
  <1>4. QED
    BY <1>2, <1>3

(* There is a free cell when a message needs one.                          *)
LEMMA AllocFinds ==
  ASSUME NEW T, NEW E, NEW x, Room(T, E), Good(T, E, x),
         \/ "s" \in T /\ x.o.s = Shared
         \/ "c" \in T /\ x.o.c = Null
  PROVE  Alloc(x.h) \in Cells \ x.h.live
  <1> DEFINE L == x.h.live
             P == T \cap Pointers
  <1>1. IsFiniteSet(Cells) /\ E \in SUBSET Cells /\ L \in SUBSET Cells /\ Cardinality(E) + Cardinality(P) <= Cardinality(Cells)
    BY HeapAssumption DEF Room, Good, Pairs, Heaps
  <1>2. IsFiniteSet(E) /\ IsFiniteSet(L) /\ Cardinality(E) \in Nat /\ Cardinality(L) \in Nat /\ Cardinality(Cells) \in Nat
    BY <1>1, FS_Subset, FS_CardinalityType
  <1>3. Cardinality(L) < Cardinality(E) + Cardinality(P)
    <2>1. CASE Own(x.o) = {}
      <3>1. L = E
        BY <2>1 DEF Good, Owns
      <3>2. "s" \in P \/ "c" \in P
        BY DEF Pointers
      <3>3. IsFiniteSet(Pointers)
        BY TwoElements DEF Pointers
      <3>4. IsFiniteSet(P) /\ P # {} 
        BY <3>2, <3>3, FS_Subset
      <3>5. Cardinality(P) \in Nat /\ Cardinality(P) # 0
        BY <3>4, FS_EmptySet, FS_CardinalityType
      <3> HIDE DEF P, L
      <3>6. QED
        BY <1>2, <3>1, <3>5
    <2>2. CASE Own(x.o) # {}
      <3>1. P = {"s", "c"}
        BY <2>2, SharedIsNoCell DEF Own, Good, Owns, Pointers, Pairs, Objects
      <3>2. Cardinality(P) = 2
        BY <3>1, TwoElements
      <3>3. PICK p : L \subseteq E \cup {p}
        <4>1. Own(x.o) \subseteq {x.o.s} \/ Own(x.o) \subseteq {x.o.c}
          BY SharedIsNoCell DEF Own
        <4>2. QED
          BY <4>1 DEF Good, Owns
      <3>4. Cardinality(E \cup {p}) <= Cardinality(E) + 1 /\ IsFiniteSet(E \cup {p}) /\ Cardinality(E \cup {p}) \in Nat
        BY <1>2, OneMore
      <3>5. Cardinality(L) <= Cardinality(E \cup {p})
        BY <3>3, <3>4, FS_Subset
      <3> HIDE DEF P, L
      <3>6. QED
        BY <1>2, <3>2, <3>4, <3>5
    <2>3. QED
      BY <2>1, <2>2
  <1>4. IsFiniteSet(P) /\ Cardinality(P) \in Nat
    <2>1. IsFiniteSet(Pointers)
      BY TwoElements DEF Pointers
    <2>2. QED
      BY <2>1, FS_Subset, FS_CardinalityType
  <1>5. L # Cells
    <2> HIDE DEF P, L
    <2>1. QED
      BY <1>1, <1>2, <1>3, <1>4
  <1>6. \E p \in Cells : p \notin x.h.live
    BY <1>1, <1>5
  <1>7. QED
    BY <1>6 DEF Alloc

(* The parts of what an operation works on.                                *)
LEMMA PartsOf ==
  ASSUME NEW T, NEW E, NEW x, Good(T, E, x)
  PROVE  /\ x \in Pairs /\ x.o \in Objects /\ x.h \in Heaps /\ x = [o |-> x.o, h |-> x.h]
         /\ E \subseteq Cells
  BY DEF Good, Pairs, Owns, Heaps

(* To keep what is expected, part by part.                                 *)
LEMMA GoodOf ==
  ASSUME NEW T, NEW E, NEW x, NEW y, NEW o \in Objects, NEW h \in Heaps,
         y = [o |-> o, h |-> h],
         o.has \subseteq T, CleanHeap(h), Owns(T, E, o, h), Reads(o, h), Frame(E, x.h, h)
  PROVE  Keeps(T, E, x, y)
  BY DEF Keeps, Good, Pairs

(* What two operations keep, one after the other, they keep together.      *)
LEMMA KeepsMore ==
  ASSUME NEW T, NEW E, NEW x, NEW y, NEW z, Keeps(T, E, x, y), Keeps(T, E, y, z)
  PROVE  Keeps(T, E, x, z)
  BY DEF Keeps, Frame

(* set_ of a number.                                                       *)
LEMMA SetScalarKeeps ==
  ASSUME NEW T, NEW E, NEW x, Good(T, E, x), "t" \in T, NEW v \in Numbers
  PROVE  Keeps(T, E, x, SetScalar(x, v))
  BY DEF SetScalar, Keeps, Good, Pairs, Objects, Owns, Own, Reads, Frame

(* clear_ of a number.                                                     *)
LEMMA ClearScalarKeeps ==
  ASSUME NEW T, NEW E, NEW x, Good(T, E, x)
  PROVE  Keeps(T, E, x, ClearScalar(x))
  BY ValueAssumption DEF ClearScalar, Keeps, Good, Pairs, Objects, Owns, Own, Reads, Frame

(* set_ of a string, in the cell it has or in a new one.                   *)
LEMMA SetStringKeeps ==
  ASSUME NEW T, NEW E, NEW x, Room(T, E), Good(T, E, x), "s" \in T, NEW v \in Strings
  PROVE  Keeps(T, E, x, SetString(x, v))
  <1>1. PICK o \in Objects, h \in Heaps : o = x.o /\ h = x.h /\ x = [o |-> o, h |-> h]
    BY PartsOf
  <1>2. /\ E \subseteq Cells /\ x \in Pairs
        /\ o.has \subseteq T /\ CleanHeap(h) /\ Owns(T, E, o, h) /\ Reads(o, h)
    BY <1>1, PartsOf DEF Good
  <1>3. PICK p \in Cells : /\ p = IF o.s = Shared THEN Alloc(h) ELSE o.s
                           /\ p \notin E /\ p # o.c /\ Own(o) \cup {p} = {p, o.c} \cap Cells
    <2>1. CASE o.s = Shared
      <3>1. Alloc(h) \in Cells \ h.live
        BY <1>1, <2>1, AllocFinds
      <3>2. QED
        BY <1>2, <2>1, <3>1, SharedIsNoCell DEF Owns, Own, Objects
    <2>2. CASE o.s # Shared
      BY <1>2, <2>2, SharedIsNoCell DEF Owns, Own, Objects
    <2>3. QED
      BY <2>1, <2>2
  <1> DEFINE q == [o EXCEPT !.has = @ \cup {"s"}, !.s = p]
             g == [h EXCEPT !.live = @ \cup {p}, !.str[p] = v]
  <1>4. SetString(x, v) = [o |-> q, h |-> g]
    <2>1. MutableString(x) = [o |-> q, h |-> [h EXCEPT !.live = @ \cup {p}]]
      <3>1. MutableString(x) = [x EXCEPT !.o.has = @ \cup {"s"}, !.o.s = p, !.h.live = @ \cup {p}]
        BY <1>1, <1>3 DEF MutableString
      <3>2. QED
        BY <1>1, <1>2, <3>1 DEF Pairs
    <2> DEFINE z == MutableString(x)
               g0 == [h EXCEPT !.live = @ \cup {p}]
    <2>2. q \in Objects /\ q.s = p /\ g0 \in Heaps /\ g = [g0 EXCEPT !.str[p] = v]
      BY DEF Objects, Heaps
    <2>3. z = [o |-> q, h |-> g0]
      BY <2>1
    <2>4. SetString(x, v) = [z EXCEPT !.h.str[z.o.s] = v]
      BY DEF SetString
    <2> HIDE DEF z, q, g0, g
    <2>5. z \in Pairs /\ z.o = q /\ z.h = g0
      BY <2>2, <2>3 DEF Pairs
    <2>6. SetString(x, v) = [o |-> z.o, h |-> [z.h EXCEPT !.str[p] = v]]
      BY <2>2, <2>4, <2>5 DEF Pairs
    <2>7. QED
      BY <2>2, <2>5, <2>6
  <1>5. /\ q \in Objects /\ q.has = o.has \cup {"s"} /\ q.s = p
        /\ q.t = o.t /\ q.c = o.c /\ q.r = o.r /\ q.n = o.n
    BY DEF Objects
  <1>6. /\ g \in Heaps /\ g.live = h.live \cup {p}
        /\ g.leaf = h.leaf /\ g.str = [h.str EXCEPT ![p] = v]
    BY DEF Heaps
  <1>7. h.str \in [{Shared} \cup Cells -> Strings]
    BY DEF Heaps
  <1> HIDE DEF q, g
  <1>8. CleanHeap(g)
    BY <1>2, <1>3, <1>6, <1>7, SharedIsNoCell DEF CleanHeap
  <1>9. Owns(T, E, q, g)
    BY <1>2, <1>3, <1>5, <1>6 DEF Owns, Own
  <1>10. Reads(q, g)
    BY <1>2, <1>3, <1>5, <1>6, <1>7, SharedIsNoCell DEF Reads
  <1>11. Frame(E, x.h, g)
    BY <1>1, <1>2, <1>3, <1>6, <1>7 DEF Frame
  <1>12. QED
    BY <1>2, <1>4, <1>5, <1>6, <1>8, <1>9, <1>10, <1>11, GoodOf

(* The string is emptied where it is, unless it is the shared one.         *)
LEMMA EmptyOwnStringKeeps ==
  ASSUME NEW T, NEW E, NEW x, Good(T, E, x)
  PROVE  /\ Keeps(T, E, x, EmptyOwnString(x))
         /\ EmptyOwnString(x).o = x.o /\ EmptyOwnString(x).h.str[x.o.s] = ""
         /\ EmptyOwnString(x).h.leaf = x.h.leaf
  <1>1. PICK o \in Objects, h \in Heaps : o = x.o /\ h = x.h /\ x = [o |-> o, h |-> h]
    BY PartsOf
  <1>2. /\ E \subseteq Cells /\ x \in Pairs
        /\ o.has \subseteq T /\ CleanHeap(h) /\ Owns(T, E, o, h) /\ Reads(o, h)
    BY <1>1, PartsOf DEF Good
  <1>3. CASE o.s = Shared
    BY <1>1, <1>2, <1>3 DEF EmptyOwnString, CleanHeap, Keeps, Frame
  <1>4. CASE o.s # Shared
    <2> DEFINE g == [h EXCEPT !.str[o.s] = ""]
    <2>1. o.s \in Cells /\ o.s \notin E /\ o.s \in h.live
      BY <1>2, <1>4 DEF Owns, Own, Objects
    <2>2. EmptyOwnString(x) = [o |-> o, h |-> g]
      <3>1. EmptyOwnString(x) = [x EXCEPT !.h.str[o.s] = ""]
        BY <1>1, <1>4 DEF EmptyOwnString
      <3>2. QED
        BY <1>1, <1>2, <3>1 DEF Pairs
    <2>3. /\ g \in Heaps /\ g.live = h.live /\ g.leaf = h.leaf
          /\ g.str = [h.str EXCEPT ![o.s] = ""] /\ h.str \in [{Shared} \cup Cells -> Strings]
      BY ValueAssumption DEF Heaps
    <2> HIDE DEF g
    <2>4. CleanHeap(g)
      BY <1>2, <2>1, <2>3, SharedIsNoCell DEF CleanHeap
    <2>5. Owns(T, E, o, g)
      BY <1>2, <2>3 DEF Owns
    <2>6. Reads(o, g)
      BY <1>2, <2>1, <2>3 DEF Reads
    <2>7. Frame(E, x.h, g)
      BY <1>1, <1>2, <2>1, <2>3 DEF Frame
    <2>8. Keeps(T, E, x, EmptyOwnString(x))
      BY <1>2, <2>2, <2>3, <2>4, <2>5, <2>6, <2>7, GoodOf
    <2>9. EmptyOwnString(x).o = o /\ EmptyOwnString(x).h = g
      BY <2>2
    <2>10. g.str[o.s] = ""
      BY <2>1, <2>3
    <2>11. QED
      BY <1>1, <2>3, <2>8, <2>9, <2>10
  <1>5. QED
    BY <1>3, <1>4

(* clear_ of a string keeps its cell.                                      *)
LEMMA ClearStringKeeps ==
  ASSUME NEW T, NEW E, NEW x, Good(T, E, x)
  PROVE  Keeps(T, E, x, ClearString(x))
  <1> DEFINE e == EmptyOwnString(x)
  <1>1. Keeps(T, E, x, e) /\ e.o = x.o /\ e.h.str[x.o.s] = "" /\ Good(T, E, e)
    BY EmptyOwnStringKeeps DEF Keeps
  <1>2. ClearString(x) = [e EXCEPT !.o.has = @ \ {"s"}]
    BY DEF ClearString
  <1> HIDE DEF e
  <1>3. PICK o \in Objects, h \in Heaps : o = e.o /\ h = e.h /\ e = [o |-> o, h |-> h]
    BY <1>1, PartsOf
  <1>4. /\ E \subseteq Cells /\ e \in Pairs
        /\ o.has \subseteq T /\ CleanHeap(h) /\ Owns(T, E, o, h) /\ Reads(o, h)
    BY <1>1, <1>3, PartsOf DEF Good
  <1> DEFINE q == [o EXCEPT !.has = @ \ {"s"}]
  <1>5. ClearString(x) = [o |-> q, h |-> h]
    BY <1>2, <1>3, <1>4 DEF Pairs
  <1>6. /\ q.has = o.has \ {"s"} /\ q.s = o.s
        /\ q.t = o.t /\ q.c = o.c /\ q.r = o.r /\ q.n = o.n
    BY DEF Objects
  <1>6a. q \in Objects
    <2>1. o.has \ {"s"} \in SUBSET {"t", "s", "c", "r", "u"}
      BY DEF Objects
    <2>2. QED
      BY <2>1 DEF Objects
  <1> HIDE DEF q
  <1>7. Owns(T, E, q, h) /\ Reads(q, h) /\ q.has \subseteq T
    <2>1. Own(q) = Own(o)
      BY <1>6 DEF Own
    <2>2. Owns(T, E, q, h)
      BY <1>4, <1>6, <2>1 DEF Owns
    <2>3. Reads(q, h)
      BY <1>1, <1>3, <1>4, <1>6 DEF Reads
    <2>4. QED
      BY <1>4, <1>6, <2>2, <2>3
  <1>8. Frame(E, x.h, h)
    BY <1>1, <1>3 DEF Keeps
  <1>9. QED
    BY <1>4, <1>5, <1>6, <1>6a, <1>7, <1>8, GoodOf

(* mutable_ gives a cell that is the message's own, cleared if it is new.  *)
LEMMA MutableSubIs ==
  ASSUME NEW T, NEW E, NEW x, Room(T, E), Good(T, E, x), "c" \in T
  PROVE  LET y == MutableSub(x) IN
         /\ Keeps(T, E, x, y)
         /\ y.o.c \in Cells \ E /\ "c" \in y.o.has
         /\ y.h.leaf = x.h.leaf
         /\ x.o.c = Null => y.h.leaf[y.o.c] = LeafNew
  <1>1. PICK o \in Objects, h \in Heaps : o = x.o /\ h = x.h /\ x = [o |-> o, h |-> h]
    BY PartsOf
  <1>2. /\ E \subseteq Cells /\ x \in Pairs
        /\ o.has \subseteq T /\ CleanHeap(h) /\ Owns(T, E, o, h) /\ Reads(o, h)
    BY <1>1, PartsOf DEF Good
  <1>3. PICK p \in Cells : /\ p = IF o.c = Null THEN Alloc(h) ELSE o.c
                           /\ p \notin E /\ p # o.s /\ Own(o) \cup {p} = {p, o.s} \cap Cells
                           /\ o.c = Null => p \notin h.live
    <2>1. CASE o.c = Null
      <3>1. Alloc(h) \in Cells \ h.live
        BY <1>1, <2>1, AllocFinds
      <3>2. QED
        BY <1>2, <2>1, <3>1, SharedIsNoCell DEF Owns, Own, Objects
    <2>2. CASE o.c # Null
      BY <1>2, <2>2, SharedIsNoCell DEF Owns, Own, Objects
    <2>3. QED
      BY <2>1, <2>2
  <1> DEFINE q == [o EXCEPT !.has = @ \cup {"c"}, !.c = p]
             g == [h EXCEPT !.live = @ \cup {p}]
  <1>4. MutableSub(x) = [o |-> q, h |-> g]
    <2>1. MutableSub(x) = [x EXCEPT !.o.has = @ \cup {"c"}, !.o.c = p, !.h.live = @ \cup {p}]
      BY <1>1, <1>3 DEF MutableSub
    <2>2. QED
      BY <1>1, <1>2, <2>1 DEF Pairs
  <1>5. /\ q \in Objects /\ q.has = o.has \cup {"c"} /\ q.c = p
        /\ q.t = o.t /\ q.s = o.s /\ q.r = o.r /\ q.n = o.n
    BY DEF Objects
  <1>6. g \in Heaps /\ g.live = h.live \cup {p} /\ g.leaf = h.leaf /\ g.str = h.str
    BY DEF Heaps
  <1> HIDE DEF q, g
  <1>7. CleanHeap(g)
    BY <1>2, <1>3, <1>6 DEF CleanHeap
  <1>8. Owns(T, E, q, g)
    BY <1>2, <1>3, <1>5, <1>6 DEF Owns, Own
  <1>9. Reads(q, g)
    BY <1>2, <1>3, <1>5, <1>6, SharedIsNoCell DEF Reads
  <1>10. Frame(E, x.h, g)
    BY <1>1, <1>6 DEF Frame
  <1>11. Keeps(T, E, x, MutableSub(x))
    BY <1>2, <1>4, <1>5, <1>6, <1>7, <1>8, <1>9, <1>10, GoodOf
  <1>12. o.c = Null => g.leaf[p] = LeafNew
    BY <1>2, <1>3, <1>6 DEF CleanHeap
  <1>13. QED
    BY <1>1, <1>3, <1>4, <1>5, <1>6, <1>11, <1>12

(* A sub-message that is present may hold anything.                        *)
WithSub(x, l) == [x EXCEPT !.h.leaf[x.o.c] = l]

(* A sub-message may become any other in its cell.                         *)
LEMMA SubBecomes ==
  ASSUME NEW T, NEW E, NEW x, Good(T, E, x), x.o.c \in Cells, "c" \in x.o.has, NEW l \in GoodLeafs
  PROVE  Keeps(T, E, x, WithSub(x, l))
  <1>1. PICK o \in Objects, h \in Heaps : o = x.o /\ h = x.h /\ x = [o |-> o, h |-> h]
    BY PartsOf
  <1>2. /\ E \subseteq Cells /\ x \in Pairs
        /\ o.has \subseteq T /\ CleanHeap(h) /\ Owns(T, E, o, h) /\ Reads(o, h)
    BY <1>1, PartsOf DEF Good
  <1> DEFINE g == [h EXCEPT !.leaf[o.c] = l]
  <1>3. WithSub(x, l) = [o |-> o, h |-> g]
    BY <1>1, <1>2 DEF Pairs, WithSub
  <1>4. /\ g \in Heaps /\ g.live = h.live /\ g.str = h.str
        /\ g.leaf = [h.leaf EXCEPT ![o.c] = l] /\ h.leaf \in [Cells -> GoodLeafs]
    BY DEF Heaps
  <1> HIDE DEF g
  <1>5. o.c \in h.live /\ o.c \notin E /\ "c" \in o.has /\ o.c \in Cells
    BY <1>1, <1>2 DEF Owns, Own
  <1>6. CleanHeap(g) /\ Frame(E, x.h, g)
    BY <1>1, <1>2, <1>4, <1>5 DEF CleanHeap, Frame
  <1>6a. Owns(T, E, o, g)
    BY <1>2, <1>4 DEF Owns
  <1>6b. Reads(o, g)
    BY <1>2, <1>4, <1>5 DEF Reads
  <1>7. QED
    BY <1>2, <1>3, <1>4, <1>6, <1>6a, <1>6b, GoodOf

(* A sub-message is cleared where it is.                                   *)
LEMMA EmptySubKeeps ==
  ASSUME NEW T, NEW E, NEW x, Good(T, E, x)
  PROVE  /\ Keeps(T, E, x, EmptySub(x))
         /\ EmptySub(x).o = x.o /\ EmptySub(x).h.str = x.h.str
         /\ x.o.c # Null => EmptySub(x).h.leaf[x.o.c] = LeafNew
  <1>1. PICK o \in Objects, h \in Heaps : o = x.o /\ h = x.h /\ x = [o |-> o, h |-> h]
    BY PartsOf
  <1>2. /\ E \subseteq Cells /\ x \in Pairs
        /\ o.has \subseteq T /\ CleanHeap(h) /\ Owns(T, E, o, h) /\ Reads(o, h)
    BY <1>1, PartsOf DEF Good
  <1>3. CASE o.c = Null
    BY <1>1, <1>3 DEF EmptySub, Keeps, Frame
  <1>4. CASE o.c # Null
    <2> DEFINE g == [h EXCEPT !.leaf[o.c] = LeafNew]
    <2>1. o.c \in Cells /\ o.c \notin E /\ o.c \in h.live /\ h.leaf[o.c] \in GoodLeafs
      BY <1>2, <1>4 DEF Owns, Own, Objects, Heaps
    <2>2. EmptySub(x) = [o |-> o, h |-> g]
      <3>1. LeafClear(h.leaf[o.c]) = LeafNew
        BY <2>1, LeafOperations
      <3>2. EmptySub(x) = [x EXCEPT !.h.leaf[o.c] = LeafNew]
        BY <1>1, <1>4, <3>1 DEF EmptySub
      <3>3. QED
        BY <1>1, <1>2, <3>2 DEF Pairs
    <2>3. /\ g \in Heaps /\ g.live = h.live /\ g.str = h.str
          /\ g.leaf = [h.leaf EXCEPT ![o.c] = LeafNew] /\ h.leaf \in [Cells -> GoodLeafs]
      BY LeafOperations DEF Heaps
    <2> HIDE DEF g
    <2>4. CleanHeap(g) /\ Frame(E, x.h, g)
      BY <1>1, <1>2, <2>1, <2>3 DEF CleanHeap, Frame
    <2>4a. Owns(T, E, o, g)
      BY <1>2, <2>3 DEF Owns
    <2>4b. Reads(o, g)
      BY <1>2, <2>1, <2>3 DEF Reads
    <2>5. Keeps(T, E, x, EmptySub(x))
      BY <1>2, <2>2, <2>3, <2>4, <2>4a, <2>4b, GoodOf
    <2>6. EmptySub(x).o = o /\ EmptySub(x).h = g /\ g.leaf[o.c] = LeafNew
      BY <2>1, <2>2, <2>3
    <2>7. QED
      BY <1>1, <2>3, <2>5, <2>6
  <1>5. QED
    BY <1>3, <1>4

(* clear_ of a sub-message keeps its cell.                                 *)
LEMMA ClearSubKeeps ==
  ASSUME NEW T, NEW E, NEW x, Good(T, E, x)
  PROVE  Keeps(T, E, x, ClearSub(x))
  <1> DEFINE e == EmptySub(x)
  <1>1. Keeps(T, E, x, e) /\ e.o = x.o /\ (e.o.c # Null => e.h.leaf[e.o.c] = LeafNew) /\ Good(T, E, e)
    BY EmptySubKeeps DEF Keeps
  <1>2. ClearSub(x) = [e EXCEPT !.o.has = @ \ {"c"}]
    BY DEF ClearSub
  <1> HIDE DEF e
  <1>3. PICK o \in Objects, h \in Heaps : o = e.o /\ h = e.h /\ e = [o |-> o, h |-> h]
    BY <1>1, PartsOf
  <1>4. /\ E \subseteq Cells /\ e \in Pairs
        /\ o.has \subseteq T /\ CleanHeap(h) /\ Owns(T, E, o, h) /\ Reads(o, h)
    BY <1>1, <1>3, PartsOf DEF Good
  <1> DEFINE q == [o EXCEPT !.has = @ \ {"c"}]
  <1>5. ClearSub(x) = [o |-> q, h |-> h]
    BY <1>2, <1>3, <1>4 DEF Pairs
  <1>6. /\ q \in Objects /\ q.has = o.has \ {"c"} /\ q.s = o.s
        /\ q.t = o.t /\ q.c = o.c /\ q.r = o.r /\ q.n = o.n
    BY DEF Objects
  <1> HIDE DEF q
  <1>7. Owns(T, E, q, h) /\ Reads(q, h) /\ q.has \subseteq T
    BY <1>1, <1>3, <1>4, <1>6 DEF Owns, Own, Reads
  <1>8. Frame(E, x.h, h)
    BY <1>1, <1>3 DEF Keeps
  <1>9. QED
    BY <1>4, <1>5, <1>6, <1>7, <1>8, GoodOf

(* Other elements, and other unknown fields, leave the rest alone.         *)
WithPhones(x, r, n) == [x EXCEPT !.o.r = r, !.o.n = n]

(* The elements beyond n are cleared.                                      *)
RestCleared(r, n) == \A i \in DOMAIN r : i > n => r[i].has = {}

(* The elements may become any others, if those kept for reuse are cleared.*)
LEMMA PhonesBecome ==
  ASSUME NEW T, NEW E, NEW x, Good(T, E, x), NEW r \in Seq(GoodPhones), NEW n \in Nat, n <= Len(r),
         RestCleared(r, n)
  PROVE  LET y == WithPhones(x, r, n) IN
         /\ Keeps(T, E, x, y)
         /\ y.o.n = n /\ y.o.r = r /\ y.h = x.h
         /\ y.o.has = x.o.has /\ y.o.t = x.o.t /\ y.o.s = x.o.s /\ y.o.c = x.o.c /\ y.o.u = x.o.u
  <1>1. PICK o \in Objects, h \in Heaps : o = x.o /\ h = x.h /\ x = [o |-> o, h |-> h]
    BY PartsOf
  <1>2. /\ E \subseteq Cells /\ x \in Pairs
        /\ o.has \subseteq T /\ CleanHeap(h) /\ Owns(T, E, o, h) /\ Reads(o, h)
    BY <1>1, PartsOf DEF Good
  <1> DEFINE q == [o EXCEPT !.r = r, !.n = n]
  <1>3. WithPhones(x, r, n) = [o |-> q, h |-> h]
    <2>1. WithPhones(x, r, n) = [o |-> [x.o EXCEPT !.r = r, !.n = n], h |-> x.h]
      <3>1. WithPhones(x, r, n) = [x EXCEPT !.o.r = r, !.o.n = n]
        BY DEF WithPhones
      <3>2. QED
        BY <1>2, <3>1 DEF Pairs
    <2>2. QED
      BY <1>1, <2>1
  <1>4. /\ q.has = o.has /\ q.s = o.s /\ q.t = o.t /\ q.c = o.c /\ q.r = r /\ q.n = n
        /\ q.u = o.u
    BY DEF Objects
  <1>5. q \in Objects
    BY DEF Objects
  <1> HIDE DEF q
  <1>6. Owns(T, E, q, h) /\ Reads(q, h) /\ q.has \subseteq T
    BY <1>2, <1>4 DEF Owns, Own, Reads, RestCleared
  <1>7. Frame(E, x.h, h)
    BY <1>1 DEF Frame
  <1>8. Keeps(T, E, x, WithPhones(x, r, n))
    BY <1>2, <1>3, <1>5, <1>6, <1>7, GoodOf
  <1>9. QED
    BY <1>1, <1>3, <1>4, <1>8

(* x with the unknown fields u.                                            *)
WithUnknown(x, u) == [x EXCEPT !.o.u = u]

(* The unknown fields may become any others.                               *)
LEMMA UnknownBecomes ==
  ASSUME NEW T, NEW E, NEW x, Good(T, E, x), NEW u \in Seq({"newer"})
  PROVE  LET y == WithUnknown(x, u) IN
         /\ Keeps(T, E, x, y)
         /\ y.h = x.h /\ y.o.has = x.o.has /\ y.o.t = x.o.t /\ y.o.s = x.o.s /\ y.o.c = x.o.c
         /\ y.o.r = x.o.r /\ y.o.n = x.o.n /\ y.o.u = u
  <1>1. PICK o \in Objects, h \in Heaps : o = x.o /\ h = x.h /\ x = [o |-> o, h |-> h]
    BY PartsOf
  <1>2. /\ E \subseteq Cells /\ x \in Pairs
        /\ o.has \subseteq T /\ CleanHeap(h) /\ Owns(T, E, o, h) /\ Reads(o, h)
    BY <1>1, PartsOf DEF Good
  <1> DEFINE q == [o EXCEPT !.u = u]
  <1>3. WithUnknown(x, u) = [o |-> q, h |-> h]
    BY <1>1, <1>2 DEF Pairs, WithUnknown
  <1>4. /\ q \in Objects /\ q.has = o.has /\ q.s = o.s
        /\ q.t = o.t /\ q.c = o.c /\ q.r = o.r /\ q.n = o.n /\ q.u = u
    BY DEF Objects
  <1> HIDE DEF q
  <1>5. Owns(T, E, q, h) /\ Reads(q, h) /\ q.has \subseteq T
    BY <1>2, <1>4 DEF Owns, Own, Reads
  <1>6. Frame(E, x.h, h)
    BY <1>1 DEF Frame
  <1>7. Keeps(T, E, x, WithUnknown(x, u))
    BY <1>2, <1>3, <1>4, <1>5, <1>6, GoodOf
  <1>8. WithUnknown(x, u).o = q /\ WithUnknown(x, u).h = h
    BY <1>3
  <1>9. QED
    BY <1>1, <1>4, <1>7, <1>8

(* x with p as its element i.                                              *)
WithElement(x, i, p) == [x EXCEPT !.o.r[i] = p]

(* An element in use may become any other.                                 *)
LEMMA ElementBecomes ==
  ASSUME NEW T, NEW E, NEW x, Good(T, E, x), NEW i \in 1..x.o.n, NEW p \in GoodPhones
  PROVE  LET y == WithElement(x, i, p) IN
         /\ Keeps(T, E, x, y)
         /\ y.o.n = x.o.n /\ y.o.r = [x.o.r EXCEPT ![i] = p]
         /\ y.h = x.h /\ y.o.has = x.o.has /\ y.o.t = x.o.t /\ y.o.s = x.o.s /\ y.o.c = x.o.c /\ y.o.u = x.o.u
  <1> DEFINE r == [x.o.r EXCEPT ![i] = p]
             n == x.o.n
  <1>1. x.o.r \in Seq(GoodPhones) /\ x.o.n \in Nat /\ x \in Pairs /\ x.o \in Objects /\ n <= Len(x.o.r)
    BY PartsOf DEF Objects, Good, Reads
  <1>2. i \in 1..Len(x.o.r)
    BY <1>1
  <1>3. r \in Seq(GoodPhones) /\ Len(r) = Len(x.o.r)
    BY <1>1
  <1>4. RestCleared(r, n)
    <2>1. \A j \in DOMAIN x.o.r : j > n => x.o.r[j].has = {}
      BY DEF Good, Reads
    <2>2. ASSUME NEW j \in DOMAIN r, j > n PROVE r[j].has = {}
      <3>1. r[j] = x.o.r[j] /\ j \in DOMAIN x.o.r
        BY <1>1, <2>2
      <3>2. QED
        BY <2>1, <2>2, <3>1
    <2>3. QED
      BY <2>2 DEF RestCleared
  <1>5. WithElement(x, i, p) = WithPhones(x, r, n)
    BY <1>1 DEF Pairs, Objects, WithElement, WithPhones
  <1>6. n \in Nat /\ n <= Len(r)
    BY <1>1, <1>3
  <1> HIDE DEF r, n
  <1>7. LET y == WithPhones(x, r, n) IN
        /\ Keeps(T, E, x, y) /\ y.o.n = n /\ y.o.r = r
        /\ y.h = x.h /\ y.o.has = x.o.has /\ y.o.t = x.o.t /\ y.o.s = x.o.s /\ y.o.c = x.o.c /\ y.o.u = x.o.u
    BY <1>3, <1>4, <1>6, PhonesBecome
  <1>8. QED
    BY <1>5, <1>7 DEF r, n

(* add_ gives an element that is cleared, kept or new, behind those in use.*)
LEMMA AddPhoneIs ==
  ASSUME NEW T, NEW E, NEW x, Good(T, E, x)
  PROVE  LET y == AddPhone(x) IN
         /\ Keeps(T, E, x, y)
         /\ y.o.n = x.o.n + 1 /\ y.o.n \in 1..Len(y.o.r)
         /\ y.o.r[y.o.n] = PhoneNew
         /\ \A i \in 1..x.o.n : y.o.r[i] = x.o.r[i]
         /\ y.h = x.h /\ y.o.has = x.o.has /\ y.o.t = x.o.t /\ y.o.s = x.o.s /\ y.o.c = x.o.c /\ y.o.u = x.o.u
  <1> DEFINE n == x.o.n + 1
             r == IF x.o.n < Len(x.o.r) THEN x.o.r ELSE Append(x.o.r, PhoneNew)
             y == AddPhone(x)
  <1>1. x.o.r \in Seq(GoodPhones) /\ x.o.n \in Nat /\ x.o.n <= Len(x.o.r) /\ x \in Pairs /\ x.o \in Objects
    BY PartsOf DEF Objects, Good, Reads
  <1>2. y = WithPhones(x, r, n)
    BY DEF AddPhone, WithPhones
  <1>3. PhoneNew \in GoodPhones /\ PhoneNew.has = {}
    BY PhoneOperations
  <1>4. r \in Seq(GoodPhones) /\ n \in 1..Len(r) /\ n \in Nat /\ n <= Len(r)
    BY <1>1, <1>3
  <1>4a. \A i \in DOMAIN x.o.r : i \in Nat /\ (i > x.o.n => x.o.r[i].has = {})
    <2>1. \A i \in DOMAIN x.o.r : i \in Nat
      BY <1>1
    <2>2. QED
      BY <2>1 DEF Good, Reads
  <1>5. RestCleared(r, n)
    <2>1. ASSUME NEW i \in DOMAIN r, i > n PROVE r[i].has = {}
      <3>1. x.o.n < Len(x.o.r) => i > x.o.n
        BY <1>1, <1>4a, <2>1
      <3>2. ~ (x.o.n < Len(x.o.r)) => i \in 1..Len(r) /\ Len(r) = n
        BY <1>1
      <3>3. QED
        BY <1>4, <1>4a, <2>1, <3>1, <3>2
    <2> HIDE DEF r, n
    <2>2. QED
      BY <2>1 DEF RestCleared
  <1>6. r[n] = PhoneNew
    <2>1. CASE x.o.n < Len(x.o.r)
      <3>1. r[n] = x.o.r[n] /\ n \in DOMAIN x.o.r /\ n > x.o.n
        BY <1>1, <2>1
      <3>2. r[n] \in GoodPhones /\ r[n].has = {}
        BY <1>1, <1>4a, <3>1
      <3> HIDE DEF r, n
      <3>3. PICK a, b, c : r[n] = [has |-> a, number |-> b, type |-> c]
        BY <3>2 DEF GoodPhones, Phones
      <3>4. QED
        BY <3>2, <3>3 DEF GoodPhones, PhoneReadsDefault, PhoneNew
    <2>2. CASE ~(x.o.n < Len(x.o.r))
      BY <1>1, <2>2
    <2>3. QED
      BY <2>1, <2>2
  <1>7. \A i \in 1..x.o.n : r[i] = x.o.r[i]
    BY <1>1
  <1> HIDE DEF r, n
  <1>8. /\ Keeps(T, E, x, y) /\ y.o.n = n /\ y.o.r = r
        /\ y.h = x.h /\ y.o.has = x.o.has /\ y.o.t = x.o.t /\ y.o.s = x.o.s /\ y.o.c = x.o.c /\ y.o.u = x.o.u
    BY <1>2, <1>4, <1>5, PhonesBecome
  <1>9. QED
    BY <1>4, <1>6, <1>7, <1>8 DEF n

(* clear_ of the elements clears and keeps all of them.                    *)
LEMMA ClearPhonesIs ==
  ASSUME NEW T, NEW E, NEW x, Good(T, E, x)
  PROVE  LET y == ClearPhones(x) IN
         /\ Keeps(T, E, x, y)
         /\ y.o.n = 0 /\ (\A i \in DOMAIN y.o.r : y.o.r[i].has = {}) /\ y.h = x.h
         /\ y.o.has = x.o.has /\ y.o.t = x.o.t /\ y.o.s = x.o.s /\ y.o.c = x.o.c /\ y.o.u = x.o.u
  <1> DEFINE n == 0
             r == [i \in DOMAIN x.o.r |-> IF i <= x.o.n THEN PhoneClear(x.o.r[i]) ELSE x.o.r[i]]
             y == ClearPhones(x)
  <1>1. x.o.r \in Seq(GoodPhones) /\ x.o.n \in Nat /\ x.o.n <= Len(x.o.r) /\ x \in Pairs /\ x.o \in Objects
    BY PartsOf DEF Objects, Good, Reads
  <1>2. y = WithPhones(x, r, n)
    BY DEF ClearPhones, WithPhones
  <1>3. \A i \in 1..Len(x.o.r) : x.o.r[i] \in GoodPhones
    BY <1>1
  <1>4. \A i \in DOMAIN x.o.r : r[i] \in GoodPhones /\ r[i].has = {}
    <2> TAKE i \in DOMAIN x.o.r
    <2>1. x.o.r[i] \in GoodPhones /\ PhoneClear(x.o.r[i]) = PhoneNew /\ PhoneNew \in GoodPhones /\ PhoneNew.has = {}
      BY <1>1, <1>3, PhoneOperations
    <2>2. i > x.o.n => x.o.r[i].has = {}
      BY DEF Good, Reads
    <2>3. i \in Int
      BY <1>1
    <2>4. x.o.n \in Int
      BY <1>1 DEF Objects
    <2>5. r[i] = IF i <= x.o.n THEN PhoneClear(x.o.r[i]) ELSE x.o.r[i]
      OBVIOUS
    <2> HIDE DEF r
    <2>6. QED
      BY <2>1, <2>2, <2>3, <2>4, <2>5
  <1>5. r \in Seq(GoodPhones) /\ DOMAIN r = DOMAIN x.o.r
    <2>1. r = [i \in DOMAIN x.o.r |-> r[i]]
      OBVIOUS
    <2> HIDE DEF r
    <2>2. r \in [1..Len(x.o.r) -> GoodPhones] /\ Len(x.o.r) \in Nat
      BY <1>1, <1>4, <2>1
    <2>3. QED
      BY <1>1, <2>1, <2>2
  <1>6. n \in Nat /\ n <= Len(r) /\ RestCleared(r, n)
    <2>1. Len(r) \in Nat
      BY <1>5
    <2> HIDE DEF r
    <2>2. QED
      BY <1>4, <1>5, <2>1 DEF RestCleared
  <1> HIDE DEF r, n
  <1>7. /\ Keeps(T, E, x, y)
        /\ y.o.n = n /\ y.o.r = r /\ y.h = x.h
        /\ y.o.has = x.o.has /\ y.o.t = x.o.t /\ y.o.s = x.o.s /\ y.o.c = x.o.c /\ y.o.u = x.o.u
    BY <1>2, <1>5, <1>6, PhonesBecome
  <1>8. QED
    BY <1>4, <1>5, <1>7 DEF n

(* An element merged is one added.                                         *)
LEMMA MergePhoneKeeps ==
  ASSUME NEW T, NEW E, NEW x, Good(T, E, x), NEW p \in GoodPhones
  PROVE  Keeps(T, E, x, MergePhone(x, p))
  <1> DEFINE y == AddPhone(x)
             q == PhoneMerge(y.o.r[y.o.n], p)
  <1>1. Keeps(T, E, x, y) /\ Good(T, E, y) /\ y.o.n \in 1..Len(y.o.r) /\ y.o.r[y.o.n] = PhoneNew
    BY AddPhoneIs DEF Keeps
  <1>2. q \in GoodPhones
    BY <1>1, PhoneOperations
  <1>3. MergePhone(x, p) = WithElement(y, y.o.n, q)
    BY DEF MergePhone, WithElement
  <1>4. y.o.n \in 1..y.o.n
    <2> HIDE DEF y
    <2>1. y.o.r \in Seq(GoodPhones)
      BY <1>1, PartsOf DEF Objects
    <2>2. QED
      BY <1>1, <2>1
  <1> HIDE DEF y, q
  <1>5. Keeps(T, E, y, WithElement(y, y.o.n, q))
    BY <1>1, <1>2, <1>4, ElementBecomes
  <1>6. QED
    BY <1>1, <1>3, <1>5, KeepsMore

(* Clear                                                                   *)
LEMMA ClearKeeps ==
  ASSUME NEW T, NEW E, NEW x, Good(T, E, x)
  PROVE  /\ Keeps(T, E, x, Clear(x))
         /\ Clear(x).o.has = {} /\ Clear(x).o.n = 0 /\ Clear(x).o.u = <<>>
  <1> DEFINE a0 == IF "s" \in x.o.has THEN EmptyOwnString(x) ELSE x
             a == IF x.o.has \cap Chunk0 = {} THEN x ELSE [a0 EXCEPT !.o.t = Default]
             b == IF x.o.has \cap Chunk1 = {} THEN a ELSE EmptySub(a)
             c == ClearPhones(b)
  <1>1. Keeps(T, E, x, x)
    BY DEF Keeps, Frame
  <1>2. Keeps(T, E, x, a0) /\ a0.o = x.o /\ a0.h.str[a0.o.s] = "" 
    <2>1. CASE "s" \in x.o.has
      <3>1. a0 = EmptyOwnString(x)
        BY <2>1
      <3>2. /\ Keeps(T, E, x, EmptyOwnString(x)) /\ EmptyOwnString(x).o = x.o
            /\ EmptyOwnString(x).h.str[x.o.s] = ""
        BY EmptyOwnStringKeeps
      <3> HIDE DEF a0, a, b, c
      <3>3. QED
        BY <3>1, <3>2
    <2>2. CASE "s" \notin x.o.has
      <3>1. a0 = x /\ x.h.str[x.o.s] = ""
        BY <2>2 DEF Good, Reads
      <3> HIDE DEF a0
      <3>2. QED
        BY <1>1, <3>1
    <2>3. QED
      BY <2>1, <2>2
  <1>3. /\ Keeps(T, E, x, a) /\ a.o.has = x.o.has /\ a.o.t = Default /\ a.o.c = x.o.c
        /\ a.h.str[a.o.s] = ""
    <2>1. CASE x.o.has \cap Chunk0 = {}
      BY <1>1, <2>1 DEF Chunk0, Good, Reads
    <2>2. CASE x.o.has \cap Chunk0 # {}
      <3>1. a = [a0 EXCEPT !.o.t = Default] /\ Good(T, E, a0)
        BY <1>2, <2>2 DEF Keeps
      <3> HIDE DEF a, a0
      <3>2. PICK o \in Objects, h \in Heaps : o = a0.o /\ h = a0.h /\ a0 = [o |-> o, h |-> h]
        BY <3>1, PartsOf
      <3>3. /\ E \subseteq Cells /\ a0 \in Pairs
            /\ o.has \subseteq T /\ CleanHeap(h) /\ Owns(T, E, o, h) /\ Reads(o, h)
        BY <3>1, <3>2, PartsOf DEF Good
      <3> DEFINE q == [o EXCEPT !.t = Default]
      <3>4. a = [o |-> q, h |-> h]
        BY <3>1, <3>2, <3>3 DEF Pairs
      <3>5. /\ q \in Objects /\ q.has = o.has /\ q.s = o.s
            /\ q.t = Default /\ q.c = o.c /\ q.r = o.r /\ q.n = o.n
        BY ValueAssumption DEF Objects
      <3> HIDE DEF q
      <3>6. Owns(T, E, q, h) /\ Reads(q, h) /\ q.has \subseteq T
        BY <3>3, <3>5 DEF Owns, Own, Reads
      <3>7. Frame(E, x.h, h)
        BY <1>2, <3>2 DEF Keeps
      <3>8. Keeps(T, E, x, a)
        BY <3>3, <3>4, <3>5, <3>6, <3>7, GoodOf
      <3>9. QED
        BY <1>2, <3>2, <3>4, <3>5, <3>8
    <2>3. QED
      BY <2>1, <2>2
  <1> HIDE DEF a
  <1>4. /\ Keeps(T, E, x, b) /\ b.o = a.o /\ b.h.str = a.h.str
        /\ b.o.c # Null => b.h.leaf[b.o.c] = LeafNew
    <2>1. Good(T, E, a)
      BY <1>3 DEF Keeps
    <2>2. CASE x.o.has \cap Chunk1 = {}
      BY <1>3, <2>1, <2>2 DEF Chunk1, Good, Reads
    <2>3. CASE x.o.has \cap Chunk1 # {}
      <3>1. Keeps(T, E, x, b)
        BY <1>3, <2>1, <2>3, EmptySubKeeps, KeepsMore
      <3>2. QED
        BY <2>1, <2>3, <3>1, EmptySubKeeps
    <2>4. QED
      BY <2>2, <2>3
  <1> HIDE DEF b
  <1>5. /\ Keeps(T, E, x, c) /\ Good(T, E, c)
        /\ c.o.n = 0 /\ (\A i \in DOMAIN c.o.r : c.o.r[i].has = {}) /\ c.h = b.h
        /\ c.o.t = b.o.t /\ c.o.s = b.o.s /\ c.o.c = b.o.c
    <2>1. Good(T, E, b)
      BY <1>4 DEF Keeps
    <2>2. Keeps(T, E, b, c)
      BY <2>1, ClearPhonesIs
    <2>3. Keeps(T, E, x, c)
      BY <1>4, <2>2, KeepsMore
    <2>4. QED
      BY <2>1, <2>3, ClearPhonesIs DEF Keeps
  <1>6. Clear(x) = [c EXCEPT !.o.has = {}, !.o.u = <<>>]
    BY DEF Clear, a, b
  <1> HIDE DEF c
  <1>7. PICK o \in Objects, h \in Heaps : o = c.o /\ h = c.h /\ c = [o |-> o, h |-> h]
    BY <1>5, PartsOf
  <1>8. /\ E \subseteq Cells /\ c \in Pairs
        /\ o.has \subseteq T /\ CleanHeap(h) /\ Owns(T, E, o, h) /\ Reads(o, h)
    BY <1>5, <1>7, PartsOf DEF Good
  <1> DEFINE q == [o EXCEPT !.has = {}, !.u = <<>>]
  <1>9. Clear(x) = [o |-> q, h |-> h]
    BY <1>6, <1>7, <1>8 DEF Pairs
  <1>10. /\ q \in Objects /\ q.has = {} /\ q.s = o.s /\ q.u = <<>>
         /\ q.t = o.t /\ q.c = o.c /\ q.r = o.r /\ q.n = o.n
    <2>1. <<>> \in Seq({"newer"})
      OBVIOUS
    <2>2. QED
      BY <2>1 DEF Objects
  <1> HIDE DEF q
  <1>11. Owns(T, E, q, h) /\ q.has \subseteq T
    BY <1>8, <1>10 DEF Owns, Own
  <1>12. Reads(q, h)
    BY <1>3, <1>4, <1>5, <1>7, <1>8, <1>10 DEF Reads
  <1>13. Frame(E, x.h, h)
    BY <1>5, <1>7 DEF Keeps
  <1>14. Keeps(T, E, x, Clear(x))
    BY <1>8, <1>9, <1>10, <1>11, <1>12, <1>13, GoodOf
  <1>15. QED
    BY <1>5, <1>7, <1>9, <1>10, <1>14

-----------------------------------------------------------------------------
(* Messages from messages and from the wire                                *)

(* What a message may be merged from: another message, whose string is     *)
(* read where it is.                                                       *)
Source(T, h, from) == /\ from \in Objects /\ from.has \subseteq T /\ from.n <= Len(from.r)
                      /\ from.s \in {Shared} \cup Cells

(* The elements in use are the first n.                                    *)
LEMMA PhonesOfIs ==
  ASSUME NEW o \in Objects, o.n <= Len(o.r)
  PROVE  PhonesOf(o) \in Seq(GoodPhones) /\ Len(PhonesOf(o)) = o.n
         /\ \A i \in 1..o.n : PhonesOf(o)[i] = o.r[i]
  <1>1. o.r \in Seq(GoodPhones) /\ o.n \in Nat
    BY DEF Objects
  <1>2. QED
    BY <1>1 DEF PhonesOf

(* Merging elements keeps what the operations expect.                      *)
LEMMA MergePhonesKeeps ==
  ASSUME NEW T, NEW E, NEW x, Good(T, E, x), NEW w \in Seq(GoodPhones)
  PROVE  Keeps(T, E, x, MergePhones(x, w))
  <1> DEFINE X == {y \in Pairs : Keeps(T, E, x, y)}
  <1>1. x \in X
    BY DEF Keeps, Frame, Good
  <1>2. \A a \in X, p \in GoodPhones : MergePhone(a, p) \in X
    <2> TAKE a \in X, p \in GoodPhones
    <2>1. Keeps(T, E, x, a) /\ Good(T, E, a)
      BY DEF Keeps
    <2>2. Keeps(T, E, a, MergePhone(a, p))
      BY <2>1, MergePhoneKeeps
    <2>3. Keeps(T, E, x, MergePhone(a, p))
      BY <2>1, <2>2, KeepsMore
    <2>4. QED
      BY <2>3 DEF Keeps, Good
  <1>3. \A y \in X : Keeps(T, E, x, y)
    OBVIOUS
  <1>4. Len(w) \in Nat
    OBVIOUS
  <1> HIDE DEF X
  <1>5. PICK a \in [0..Len(w) -> X] : a[Len(w)] = MergePhones(x, w)
    BY <1>1, <1>2, MergePhoneFolds
  <1>6. MergePhones(x, w) \in X
    BY <1>4, <1>5
  <1>7. QED
    BY <1>3, <1>6

(* MergeFrom keeps it, whatever message of the type it is given.           *)
LEMMA MergeFromKeeps ==
  ASSUME NEW T, NEW E, NEW x, Room(T, E), Good(T, E, x), NEW from, Source(T, x.h, from)
  PROVE  Keeps(T, E, x, MergeFrom(x, from))
  <1> DEFINE a == MergePhones(x, PhonesOf(from))
             b == IF "t" \in from.has THEN SetScalar(a, from.t) ELSE a
             c == IF "s" \in from.has THEN SetString(b, x.h.str[from.s]) ELSE b
             y == MutableSub(c)
             d == IF "c" \in from.has
                  THEN WithSub(y, LeafMerge(y.h.leaf[y.o.c], GetSub(from, x.h))) ELSE c
  <1>1. /\ from \in Objects /\ from.has \subseteq T /\ from.t \in Numbers /\ from.u \in Seq({"newer"})
        /\ x.h.str[from.s] \in Strings /\ GetSub(from, x.h) \in GoodLeafs
    <2>1. x.h \in Heaps
      BY PartsOf
    <2>2. from.s \in {Shared} \cup Cells /\ from.c \in Cells \cup {Null}
      BY DEF Source, Objects
    <2>3. x.h.str[from.s] \in Strings
      BY <2>1, <2>2 DEF Heaps
    <2>4. GetSub(from, x.h) \in GoodLeafs
      BY <2>1, <2>2, LeafOperations DEF GetSub, Heaps
    <2>5. QED
      BY <2>3, <2>4 DEF Source, Objects
  <1>2. Keeps(T, E, x, a) /\ Good(T, E, a)
    <2>1. PhonesOf(from) \in Seq(GoodPhones)
      BY PhonesOfIs DEF Source
    <2>2. Keeps(T, E, x, a)
      BY <2>1, MergePhonesKeeps
    <2>3. QED
      BY <2>2 DEF Keeps
  <1> HIDE DEF a
  <1>3. Keeps(T, E, x, b) /\ Good(T, E, b)
    <2>1. CASE "t" \in from.has
      <3>1. Keeps(T, E, a, b)
        BY <1>1, <1>2, <2>1, SetScalarKeeps
      <3>2. Keeps(T, E, x, b)
        BY <1>2, <3>1, KeepsMore
      <3>3. QED
        BY <3>2 DEF Keeps
    <2>2. CASE "t" \notin from.has
      BY <1>2, <2>2
    <2>3. QED
      BY <2>1, <2>2
  <1> HIDE DEF b
  <1>4. Keeps(T, E, x, c) /\ Good(T, E, c)
    <2>1. CASE "s" \in from.has
      <3>1. Keeps(T, E, b, c)
        BY <1>1, <1>3, <2>1, SetStringKeeps
      <3>2. Keeps(T, E, x, c)
        BY <1>3, <3>1, KeepsMore
      <3>3. QED
        BY <3>2 DEF Keeps
    <2>2. CASE "s" \notin from.has
      BY <1>3, <2>2
    <2>3. QED
      BY <2>1, <2>2
  <1> HIDE DEF c
  <1>5. Keeps(T, E, x, d) /\ Good(T, E, d)
    <2>1. CASE "c" \in from.has
      <3>1. Keeps(T, E, c, y) /\ Good(T, E, y) /\ y.o.c \in Cells /\ "c" \in y.o.has
        BY <1>1, <1>4, <2>1, MutableSubIs DEF Keeps
      <3>2. y.h.leaf[y.o.c] \in GoodLeafs
        BY <3>1, PartsOf DEF Heaps
      <3>3. LeafMerge(y.h.leaf[y.o.c], GetSub(from, x.h)) \in GoodLeafs
        BY <1>1, <3>2, LeafOperations
      <3> HIDE DEF y
      <3>4. Keeps(T, E, y, d)
        BY <2>1, <3>1, <3>3, SubBecomes
      <3>5. Keeps(T, E, x, d)
        BY <1>4, <3>1, <3>4, KeepsMore
      <3>6. QED
        BY <3>5 DEF Keeps
    <2>2. CASE "c" \notin from.has
      BY <1>4, <2>2
    <2>3. QED
      BY <2>1, <2>2
  <1>6. MergeFrom(x, from) = WithUnknown(d, d.o.u \o from.u)
    <2>1. MergeFrom(x, from) = [d EXCEPT !.o.u = d.o.u \o from.u]
      BY DEF MergeFrom, MergePhones, WithSub, a, b, c
    <2>2. QED
      BY <2>1 DEF WithUnknown
  <1> HIDE DEF d
  <1>7. d.o.u \o from.u \in Seq({"newer"})
    <2>1. d.o.u \in Seq({"newer"})
      BY <1>5, PartsOf DEF Objects
    <2>2. QED
      BY <1>1, <2>1
  <1>8. Keeps(T, E, d, MergeFrom(x, from))
    <2>1. Keeps(T, E, d, WithUnknown(d, d.o.u \o from.u))
      BY <1>5, <1>7, UnknownBecomes
    <2>2. QED
      BY <1>6, <2>1
  <1>9. QED
    BY <1>5, <1>8, KeepsMore

(* What is on the wire of a message of type T.                             *)
Tokens(T) == ((T \cap {"t"}) \X Numbers) \cup ((T \cap {"s"}) \X Strings)
             \cup ((T \cap {"c"}) \X Seq(LeafTokens)) \cup ({"r"} \X Seq(PhoneTokens))
             \cup ({"u"} \X {"newer"})

(* Parsing a sub-message keeps it.                                         *)
LEMMA ParseSubKeeps ==
  ASSUME NEW T, NEW E, NEW x, Room(T, E), Good(T, E, x), "c" \in T, NEW w \in Seq(LeafTokens)
  PROVE  Keeps(T, E, x, ParseSub(x, w))
  <1> DEFINE y == MutableSub(x)
             l == LeafParse(y.h.leaf[y.o.c], w)
  <1>1. Keeps(T, E, x, y) /\ Good(T, E, y) /\ y.o.c \in Cells /\ "c" \in y.o.has
    BY MutableSubIs DEF Keeps
  <1>2. ParseSub(x, w) = WithSub(y, l)
    BY DEF ParseSub, WithSub
  <1> HIDE DEF y
  <1>3. y.h.leaf[y.o.c] \in GoodLeafs
    BY <1>1, PartsOf DEF Heaps
  <1>4. l \in GoodLeafs
    BY <1>3, LeafParseKeeps
  <1> HIDE DEF l
  <1>5. Keeps(T, E, y, WithSub(y, l))
    BY <1>1, <1>4, SubBecomes
  <1>6. QED
    BY <1>1, <1>2, <1>5, KeepsMore

(* Parsing an element keeps it.                                            *)
LEMMA ParsePhoneKeeps ==
  ASSUME NEW T, NEW E, NEW x, Good(T, E, x), NEW w \in Seq(PhoneTokens)
  PROVE  Keeps(T, E, x, ParsePhone(x, w))
  <1> DEFINE y == AddPhone(x)
             q == PhoneParse(y.o.r[y.o.n], w)
  <1>1. Keeps(T, E, x, y) /\ Good(T, E, y) /\ y.o.n \in 1..Len(y.o.r) /\ y.o.r[y.o.n] = PhoneNew
    BY AddPhoneIs DEF Keeps
  <1>2. q \in GoodPhones
    BY <1>1, PhoneOperations, PhoneParseKeeps
  <1>3. ParsePhone(x, w) = WithElement(y, y.o.n, q)
    BY DEF ParsePhone, WithElement
  <1>4. y.o.n \in 1..y.o.n
    <2> HIDE DEF y
    <2>1. y.o.r \in Seq(GoodPhones)
      BY <1>1, PartsOf DEF Objects
    <2>2. QED
      BY <1>1, <2>1
  <1> HIDE DEF y, q
  <1>5. Keeps(T, E, y, WithElement(y, y.o.n, q))
    BY <1>1, <1>2, <1>4, ElementBecomes
  <1>6. QED
    BY <1>1, <1>3, <1>5, KeepsMore

(* An unknown field is kept for the next peer.                             *)
LEMMA ParseUnknownKeeps ==
  ASSUME NEW T, NEW E, NEW x, Good(T, E, x), NEW v \in {"newer"}
  PROVE  Keeps(T, E, x, ParseUnknown(x, v))
  <1> DEFINE u == Append(x.o.u, v)
  <1>1. x.o.u \in Seq({"newer"})
    BY PartsOf DEF Objects
  <1>2. u \in Seq({"newer"})
    BY <1>1
  <1>3. ParseUnknown(x, v) = WithUnknown(x, u)
    BY DEF ParseUnknown, WithUnknown
  <1> HIDE DEF u
  <1>4. QED
    BY <1>2, <1>3, UnknownBecomes

(* Parsing any field of the type keeps it.                                 *)
LEMMA ParseFieldKeeps ==
  ASSUME NEW T, NEW E, NEW x, Room(T, E), Good(T, E, x), NEW token \in Tokens(T)
  PROVE  Keeps(T, E, x, ParseField(x, token))
  <1>1. CASE token \in (T \cap {"t"}) \X Numbers
    <2>1. token[1] = "t" /\ "t" \in T /\ token[2] \in Numbers
      BY <1>1
    <2>2. ParseField(x, token) = SetScalar(x, token[2])
      BY <2>1 DEF ParseField
    <2>3. QED
      BY <2>1, <2>2, SetScalarKeeps
  <1>2. CASE token \in (T \cap {"s"}) \X Strings
    <2>1. token[1] = "s" /\ "s" \in T /\ token[2] \in Strings
      BY <1>2
    <2>2. ParseField(x, token) = SetString(x, token[2])
      BY <2>1 DEF ParseField
    <2>3. QED
      BY <2>1, <2>2, SetStringKeeps
  <1>3. CASE token \in (T \cap {"c"}) \X Seq(LeafTokens)
    <2>1. token[1] = "c" /\ "c" \in T /\ token[2] \in Seq(LeafTokens)
      BY <1>3
    <2>2. ParseField(x, token) = ParseSub(x, token[2])
      BY <2>1 DEF ParseField
    <2>3. QED
      BY <2>1, <2>2, ParseSubKeeps
  <1>4. CASE token \in {"r"} \X Seq(PhoneTokens)
    <2>1. token[1] = "r" /\ token[2] \in Seq(PhoneTokens)
      BY <1>4
    <2>2. ParseField(x, token) = ParsePhone(x, token[2])
      BY <2>1 DEF ParseField
    <2>3. QED
      BY <2>1, <2>2, ParsePhoneKeeps
  <1>5. CASE token \in {"u"} \X {"newer"}
    <2>1. token[1] = "u" /\ token[2] \in {"newer"}
      BY <1>5
    <2>2. ParseField(x, token) = ParseUnknown(x, token[2])
      BY <2>1 DEF ParseField
    <2>3. QED
      BY <2>1, <2>2, ParseUnknownKeeps
  <1>6. QED
    BY <1>1, <1>2, <1>3, <1>4, <1>5 DEF Tokens

(* Parsing any wire of the type keeps it.                                  *)
LEMMA ParseKeeps ==
  ASSUME NEW T, NEW E, NEW x, Room(T, E), Good(T, E, x), NEW w \in Seq(Tokens(T))
  PROVE  Keeps(T, E, x, MergePartialFromCodedStream(x, w))
  <1> DEFINE X == {y \in Pairs : Keeps(T, E, x, y)}
             K == Tokens(T)
  <1>1. x \in X
    BY DEF Keeps, Frame, Good
  <1>2. \A a \in X, t \in K : ParseField(a, t) \in X
    <2> TAKE a \in X, t \in K
    <2>1. Keeps(T, E, x, a) /\ Good(T, E, a)
      BY DEF Keeps
    <2>2. Keeps(T, E, a, ParseField(a, t))
      BY <2>1, ParseFieldKeeps
    <2>3. Keeps(T, E, x, ParseField(a, t))
      BY <2>1, <2>2, KeepsMore
    <2>4. QED
      BY <2>3 DEF Keeps, Good
  <1>3. \A y \in X : Keeps(T, E, x, y)
    OBVIOUS
  <1>4. Len(w) \in Nat /\ w \in Seq(K)
    OBVIOUS
  <1> HIDE DEF X, K
  <1>5. PICK a \in [0..Len(w) -> X] : a[Len(w)] = MergePartialFromCodedStream(x, w)
    BY <1>1, <1>2, <1>4, ParseFolds
  <1>6. MergePartialFromCodedStream(x, w) \in X
    BY <1>4, <1>5
  <1>7. QED
    BY <1>3, <1>6

(* So does a field in which the stream ends.                               *)
LEMMA ParseCutFieldKeeps ==
  ASSUME NEW T, NEW E, NEW x, Room(T, E), Good(T, E, x), NEW token \in Tokens(T), NEW j \in Nat,
         token[1] \in {"c", "r"} => j < Len(token[2])
  PROVE  Keeps(T, E, x, ParseCutField(x, token, j))
  <1>1. CASE token[1] = "s"
    <2>1. "s" \in T /\ "" \in Strings
      BY <1>1, ValueAssumption DEF Tokens
    <2>2. QED
      BY <1>1, <2>1, SetStringKeeps DEF ParseCutField
  <1>2. CASE token[1] \in {"c", "r"}
    <2> DEFINE w == SubSeq(token[2], 1, j)
    <2>1. \/ token[1] = "c" /\ "c" \in T /\ token[2] \in Seq(LeafTokens)
          \/ token[1] = "r" /\ token[2] \in Seq(PhoneTokens)
      BY <1>2 DEF Tokens
    <2>2. \/ token[1] = "c" /\ "c" \in T /\ w \in Seq(LeafTokens)
          \/ token[1] = "r" /\ w \in Seq(PhoneTokens)
      BY <1>2, <2>1
    <2> HIDE DEF w
    <2>3. <<token[1], w>> \in Tokens(T)
      BY <2>2 DEF Tokens
    <2>4. ParseCutField(x, token, j) = ParseField(x, <<token[1], w>>)
      BY <1>2 DEF ParseCutField, w
    <2>5. QED
      BY <2>3, <2>4, ParseFieldKeeps
  <1>3. CASE token[1] \notin {"s", "c", "r"}
    <2>1. ParseCutField(x, token, j) = x
      BY <1>3 DEF ParseCutField
    <2>2. QED
      BY <2>1 DEF Keeps, Frame
  <1>4. QED
    BY <1>1, <1>2, <1>3

(* The parts of a message's wire.                                          *)
WireT(o) == IF "t" \in o.has THEN <<<<"t", o.t>>>> ELSE <<>>
(* The parts of the string, the elements and the unknown fields.           *)
WireS(o, h) == IF "s" \in o.has THEN <<<<"s", h.str[o.s]>>>> ELSE <<>>
WireR(o) == [i \in 1..o.n |-> <<"r", PhoneSerialize(o.r[i])>>]
WireU(o) == [i \in DOMAIN o.u |-> <<"u", o.u[i]>>]

(* A message's wire is of its type, part by part.                          *)
LEMMA WireParts ==
  ASSUME NEW T, NEW o \in Objects, NEW h \in Heaps, o.has \subseteq T, o.n <= Len(o.r)
  PROVE  /\ WireT(o) \in Seq(Tokens(T)) /\ WireS(o, h) \in Seq(Tokens(T))
         /\ SerializeSub(o, h) \in Seq(Tokens(T)) /\ GetSub(o, h) \in GoodLeafs
         /\ WireR(o) \in Seq(Tokens(T)) /\ Len(WireR(o)) = o.n
         /\ WireU(o) \in Seq(Tokens(T)) /\ Len(WireU(o)) = Len(o.u)
         /\ Serialize(o, h) = WireT(o) \o WireS(o, h) \o SerializeSub(o, h) \o WireR(o) \o WireU(o)
  <1> DEFINE K == Tokens(T)
  <1>1. /\ o.t \in Numbers /\ o.s \in {Shared} \cup Cells /\ o.c \in Cells \cup {Null}
        /\ o.r \in Seq(GoodPhones) /\ o.n \in Nat /\ o.u \in Seq({"newer"})
    BY DEF Objects
  <1>2. WireT(o) \in Seq(K)
    <2>1. "t" \in o.has => <<"t", o.t>> \in K
      BY <1>1 DEF Tokens
    <2> HIDE DEF K
    <2>2. QED
      BY <2>1 DEF WireT
  <1>3. WireS(o, h) \in Seq(K)
    <2>1. h.str[o.s] \in Strings
      BY <1>1 DEF Heaps
    <2>2. "s" \in o.has => <<"s", h.str[o.s]>> \in K
      BY <2>1 DEF Tokens
    <2> HIDE DEF K
    <2>3. QED
      BY <2>2 DEF WireS
  <1>4. SerializeSub(o, h) \in Seq(K) /\ GetSub(o, h) \in GoodLeafs
    <2>1. GetSub(o, h) \in GoodLeafs
      BY <1>1, LeafOperations DEF GetSub, Heaps
    <2>2. LeafSerialize(GetSub(o, h)) \in Seq(LeafTokens)
      BY <2>1, LeafSerializeIs
    <2>3. "c" \in o.has => <<"c", LeafSerialize(GetSub(o, h))>> \in K
      BY <2>2 DEF Tokens
    <2> HIDE DEF K
    <2>4. QED
      BY <2>1, <2>3 DEF SerializeSub
  <1>5. WireR(o) \in Seq(K) /\ Len(WireR(o)) = o.n
    <2>1. \A i \in 1..o.n : o.r[i] \in GoodPhones
      BY <1>1
    <2>2. \A i \in 1..o.n : PhoneSerialize(o.r[i]) \in Seq(PhoneTokens)
      BY <2>1, PhoneSerializeIs
    <2>3. \A i \in 1..o.n : <<"r", PhoneSerialize(o.r[i])>> \in K
      BY <2>2 DEF Tokens
    <2> HIDE DEF K
    <2>4. QED
      BY <1>1, <2>3 DEF WireR
  <1>6. WireU(o) \in Seq(K) /\ Len(WireU(o)) = Len(o.u)
    <2>1. DOMAIN o.u = 1..Len(o.u) /\ Len(o.u) \in Nat /\ \A i \in 1..Len(o.u) : o.u[i] \in {"newer"}
      BY <1>1
    <2>2. \A i \in 1..Len(o.u) : <<"u", o.u[i]>> \in K
      BY <2>1 DEF Tokens
    <2> HIDE DEF K
    <2>3. QED
      BY <2>1, <2>2 DEF WireU
  <1>7. Serialize(o, h) = WireT(o) \o WireS(o, h) \o SerializeSub(o, h) \o WireR(o) \o WireU(o)
    BY DEF Serialize, WireT, WireS, WireR, WireU
  <1> HIDE DEF K
  <1>8. QED
    BY <1>2, <1>3, <1>4, <1>5, <1>6, <1>7 DEF K

(* What is written is of the message's type.                               *)
LEMMA SerializeIs ==
  ASSUME NEW T, NEW o \in Objects, NEW h \in Heaps, o.has \subseteq T, o.n <= Len(o.r)
  PROVE  Serialize(o, h) \in Seq(Tokens(T))
  <1> DEFINE K == Tokens(T)
             t == WireT(o)
             s == WireS(o, h)
             c == SerializeSub(o, h)
             r == WireR(o)
             u == WireU(o)
  <1>1. /\ t \in Seq(K) /\ s \in Seq(K) /\ c \in Seq(K) /\ r \in Seq(K) /\ u \in Seq(K)
        /\ Serialize(o, h) = t \o s \o c \o r \o u
    BY WireParts
  <1> HIDE DEF K, t, s, c, r, u
  <1>2. t \o s \in Seq(K)
    BY <1>1
  <1>3. t \o s \o c \in Seq(K)
    BY <1>1, <1>2
  <1>4. t \o s \o c \o r \in Seq(K)
    BY <1>1, <1>3
  <1>5. QED
    BY <1>1, <1>4 DEF K

-----------------------------------------------------------------------------
(* All messages and the caller on one heap                                 *)

(* What the caller owns, and what others than m own.                       *)
HeldCells == {held["s"], held["c"]} \cap Cells

Elsewhere(m) == HeldCells \cup UNION {Own(obj[n]) : n \in Messages \ {m}}

(* A message of type T.                                                    *)
IsMessage(T, o, h) == /\ o.has \subseteq T
                      /\ "s" \notin T => o.s = Shared
                      /\ "c" \notin T => o.c = Null
                      /\ Reads(o, h)

(* What is read where a field is absent is there before the field is: in   *)
(* the free cells, in the elements beyond those in use, in the strings and *)
(* sub-messages that are kept.                                             *)
TypesOf == /\ type \in Types /\ held \in [Pointers -> Cells \cup {Null}]
           /\ obj \in [Messages -> Objects] /\ heap \in Heaps

(* No two owners have a cell in common, and every live cell has one.       *)
Apart == /\ \A m \in Messages : obj[m].s # obj[m].c /\ Own(obj[m]) \cap HeldCells = {}
         /\ \A m, n \in Messages : m # n => Own(obj[m]) \cap Own(obj[n]) = {}
         /\ held["s"] = held["c"] => held["s"] = Null
         /\ \A k \in Pointers : k \notin type => held[k] = Null
         /\ heap.live = HeldCells \cup UNION {Own(obj[n]) : n \in Messages}

(* The inductive invariant.                                                *)
IInv == /\ TypesOf
        /\ CleanHeap(heap)
        /\ \A m \in Messages : IsMessage(type, obj[m], heap)
        /\ Apart

(* The cells the caller holds.                                             *)
LEMMA HeldIs ==
  \A p : p \in HeldCells <=> p \in Cells /\ (p = held["s"] \/ p = held["c"])
  BY DEF HeldCells

(* The cells of others are the caller's and the other messages'.           *)
LEMMA ElsewhereIs ==
  ASSUME NEW m \in Messages
  PROVE  /\ HeldCells \subseteq Elsewhere(m) /\ Elsewhere(m) \subseteq Cells
         /\ \A n \in Messages : n # m => Own(obj[n]) \subseteq Elsewhere(m)
         /\ \A p \in Elsewhere(m) : p \in HeldCells \/ \E n \in Messages : n # m /\ p \in Own(obj[n])
  BY DEF Elsewhere, HeldCells, Own

(* A message and what is owned elsewhere.                                  *)
LEMMA InvGood ==
  ASSUME IInv, NEW m \in Messages
  PROVE  Good(type, Elsewhere(m), At(m))
  <1> DEFINE E == Elsewhere(m)
  <1>1. At(m) = [o |-> obj[m], h |-> heap] /\ obj[m] \in Objects /\ heap \in Heaps
    BY DEF At, IInv, TypesOf
  <1>2. At(m) \in Pairs /\ At(m).o = obj[m] /\ At(m).h = heap
    BY <1>1 DEF Pairs
  <1>3. obj[m].s \notin E /\ obj[m].c \notin E
    <2>1. Own(obj[m]) \cap E = {}
      BY ElsewhereIs DEF IInv, Apart
    <2>2. E \subseteq Cells
      BY ElsewhereIs
    <2> HIDE DEF E
    <2>3. QED
      BY <2>1, <2>2 DEF Own
  <1>4. heap.live = E \cup Own(obj[m])
    <2>1. heap.live = HeldCells \cup UNION {Own(obj[n]) : n \in Messages}
      BY DEF IInv, Apart
    <2>2. QED
      BY <2>1 DEF Elsewhere
  <1>5. Owns(type, E, obj[m], heap)
    BY <1>3, <1>4 DEF Owns, IInv, Apart, IsMessage
  <1> HIDE DEF E
  <1>6. QED
    BY <1>2, <1>5 DEF Good, IInv, IsMessage, E

(* The heap has room for what m lacks.                                     *)
LEMMA InvRoom ==
  ASSUME IInv, NEW m \in Messages
  PROVE  Room(type, Elsewhere(m))
  <1> DEFINE E == Elsewhere(m)
             P == type \cap Pointers
             f == [d \in Messages \X P |-> IF d[1] = m THEN held[d[2]]
                                           ELSE IF d[2] = "s" THEN obj[d[1]].s ELSE obj[d[1]].c]
             D == {d \in Messages \X P : f[d] \in E}
             g == [d \in D |-> f[d]]
  <1>1. E \in SUBSET Cells /\ type \in Types
    BY ElsewhereIs DEF IInv, TypesOf
  <1>2. IsFiniteSet(Messages) /\ IsFiniteSet(Cells)
        /\ (Cardinality(Messages) + 1) * Cardinality(P) <= Cardinality(Cells)
    BY <1>1, HeapAssumption
  <1>3. IsFiniteSet(P)
    <2>1. IsFiniteSet(Pointers) /\ P \in SUBSET Pointers
      BY TwoElements DEF Pointers
    <2> HIDE DEF P
    <2>2. QED
      BY <2>1, FS_Subset
  <1>4. \A p \in E : \E d \in D : g[d] = p
    <2> TAKE p \in E
    <2>1. CASE p \in HeldCells
      <3>1. PICK k \in Pointers : p = held[k] /\ p \in Cells
        BY <2>1, HeldIs DEF Pointers
      <3>2. k \in P
        <4>1. p # Null
          BY <3>1, SharedIsNoCell
        <4>2. QED
          BY <3>1, <4>1 DEF IInv, Apart
      <3> DEFINE d == <<m, k>>
      <3>3. d \in Messages \X P /\ d[1] = m /\ d[2] = k
        BY <3>2
      <3>4. f[d] = p
        BY <3>1, <3>3
      <3> HIDE DEF f, d, E
      <3>5. d \in D
        BY <3>3, <3>4
      <3>6. QED
        BY <3>4, <3>5
    <2>2. ASSUME NEW n \in Messages, n # m, p \in Own(obj[n]) PROVE \E d \in D : g[d] = p
      <3>1. PICK k \in Pointers : p \in Cells /\ p = IF k = "s" THEN obj[n].s ELSE obj[n].c
        BY <2>2 DEF Own, Pointers
      <3>2. k \in P
        BY <3>1, SharedIsNoCell DEF IInv, IsMessage, Pointers
      <3> DEFINE d == <<n, k>>
      <3>3. d \in Messages \X P /\ d[1] = n /\ d[2] = k
        BY <3>2
      <3>4. f[d] = p
        BY <2>2, <3>1, <3>3
      <3> HIDE DEF f, d, E
      <3>5. d \in D
        BY <3>3, <3>4
      <3>6. QED
        BY <3>4, <3>5
    <2>3. QED
      BY <2>1, <2>2, ElsewhereIs
  <1>5. IsFiniteSet(Messages \X P) /\ Cardinality(Messages \X P) = Cardinality(Messages) * Cardinality(P)
    <2> HIDE DEF P
    <2>1. QED
      BY <1>2, <1>3, FS_Product
  <1>6. D \in SUBSET (Messages \X P)
    OBVIOUS
  <1>7. g \in Surjection(D, E)
    <2>1. g \in [D -> E]
      <3> HIDE DEF f, E, P
      <3>1. QED
        OBVIOUS
    <2> HIDE DEF D, g, E
    <2>2. QED
      BY <1>4, <2>1, Zenon DEF Surjection
  <1> HIDE DEF P, E, D, f, g
  <1>8. IsFiniteSet(D) /\ Cardinality(D) <= Cardinality(Messages \X P)
    BY <1>5, <1>6, FS_Subset
  <1>9. IsFiniteSet(E) /\ Cardinality(E) <= Cardinality(D)
    BY <1>7, <1>8, FS_Surjection
  <1>10. Cardinality(Messages) \in Nat /\ Cardinality(P) \in Nat /\ Cardinality(E) \in Nat
         /\ Cardinality(D) \in Nat /\ Cardinality(Cells) \in Nat
    BY <1>2, <1>3, <1>8, <1>9, FS_CardinalityType
  <1>11. Cardinality(E) + Cardinality(P) <= Cardinality(Cells)
    <2>1. \A a, b \in Nat : (a + 1) * b = a * b + b /\ a * b \in Nat
      OBVIOUS
    <2>2. QED
      BY <1>2, <1>5, <1>8, <1>9, <1>10, <2>1
  <1>12. QED
    BY <1>1, <1>11 DEF Room, E, P

(* A call on one message leaves the others and the caller what they have.  *)
LEMMA UpdateKeeps ==
  ASSUME IInv, NEW m \in Messages, NEW x, Keeps(type, Elsewhere(m), At(m), x), Update(m, x)
  PROVE  IInv'
  <1> DEFINE E == Elsewhere(m)
  <1>1. /\ Good(type, E, x) /\ x \in Pairs /\ x.o \in Objects /\ x.h \in Heaps
        /\ Frame(E, heap, x.h)
    BY PartsOf DEF Keeps, At
  <1>2. /\ obj' = [obj EXCEPT ![m] = x.o] /\ heap' = x.h /\ type' = type /\ held' = held
    BY DEF Update, Store
  <1>3. TypesOf
    BY DEF IInv
  <1>4. TypesOf'
    BY <1>1, <1>2, <1>3 DEF TypesOf
  <1>5. obj'[m] = x.o /\ \A n \in Messages : n # m => obj'[n] = obj[n]
    BY <1>2, <1>3 DEF TypesOf
  <1>6. HeldCells' = HeldCells
    BY <1>2 DEF HeldCells
  <1>7. CleanHeap(heap')
    BY <1>1, <1>2 DEF Good
  <1>8. Owns(type, E, x.o, x.h) /\ x.o.has \subseteq type /\ Reads(x.o, x.h) /\ CleanHeap(x.h)
    BY <1>1 DEF Good
  <1>9. /\ HeldCells \subseteq E /\ E \subseteq Cells
        /\ \A n \in Messages : n # m => Own(obj[n]) \subseteq E
    BY ElsewhereIs
  <1> HIDE DEF E
  <1>10. ASSUME NEW n \in Messages PROVE IsMessage(type', obj'[n], heap')
    <2>1. CASE n = m
      BY <1>2, <1>5, <1>8, <2>1 DEF IsMessage, Owns
    <2>2. CASE n # m
      <3>1. IsMessage(type, obj[n], heap) /\ obj[n] \in Objects /\ CleanHeap(heap)
        BY <1>3 DEF IInv, TypesOf
      <3>2. Own(obj[n]) \subseteq E
        BY <1>9, <2>2
      <3>3. obj[n].s \in Cells \cup {Shared} /\ obj[n].c \in Cells \cup {Null}
        BY <3>1 DEF Objects
      <3>4. x.h.str[obj[n].s] = heap.str[obj[n].s]
        BY <1>1, <1>8, <3>1, <3>2, <3>3 DEF Frame, Own, CleanHeap
      <3>5. obj[n].c # Null => x.h.leaf[obj[n].c] = heap.leaf[obj[n].c]
        BY <1>1, <3>2, <3>3 DEF Frame, Own
      <3>6. Reads(obj[n], x.h)
        BY <3>1, <3>4, <3>5 DEF IsMessage, Reads
      <3>7. QED
        BY <1>2, <1>5, <2>2, <3>1, <3>6 DEF IsMessage
    <2>3. QED
      BY <2>1, <2>2
  <1>11. Apart'
    <2>1. Apart
      BY DEF IInv
    <2>2. Own(x.o) \cap E = {} /\ x.o.s # x.o.c
      BY <1>8 DEF Owns, Own
    <2>3. \A n \in Messages : obj'[n].s # obj'[n].c /\ Own(obj'[n]) \cap HeldCells = {}
      BY <1>5, <1>9, <2>1, <2>2 DEF Apart
    <2>4. \A n, k \in Messages : n # k => Own(obj'[n]) \cap Own(obj'[k]) = {}
      <3> SUFFICES ASSUME NEW n \in Messages, NEW k \in Messages, n # k
                   PROVE  Own(obj'[n]) \cap Own(obj'[k]) = {}
        OBVIOUS
      <3>1. CASE n # m /\ k # m
        BY <1>5, <2>1, <3>1 DEF Apart
      <3>2. CASE n = m
        BY <1>5, <1>9, <2>2, <3>2
      <3>3. CASE k = m
        BY <1>5, <1>9, <2>2, <3>3
      <3>4. QED
        BY <3>1, <3>2, <3>3
    <2>5. heap'.live = HeldCells \cup UNION {Own(obj'[n]) : n \in Messages}
      <3>1. heap'.live = E \cup Own(x.o)
        BY <1>2, <1>8 DEF Owns
      <3>2. E = HeldCells \cup UNION {Own(obj[n]) : n \in Messages \ {m}}
        BY DEF E, Elsewhere
      <3>3. UNION {Own(obj'[n]) : n \in Messages} = Own(x.o) \cup UNION {Own(obj[n]) : n \in Messages \ {m}}
        BY <1>5
      <3>4. QED
        BY <3>1, <3>2, <3>3
    <2>6. QED
      BY <1>2, <1>6, <2>1, <2>3, <2>4, <2>5 DEF Apart
  <1>12. QED
    BY <1>4, <1>7, <1>10, <1>11 DEF IInv

-----------------------------------------------------------------------------
(* The calls                                                               *)

(* What the invariant says of one message.                                 *)
LEMMA MessageParts ==
  ASSUME IInv, NEW m \in Messages
  PROVE  /\ At(m).o = obj[m] /\ At(m).h = heap
         /\ obj[m] \in Objects /\ heap \in Heaps
         /\ obj[m].has \subseteq type /\ obj[m].n <= Len(obj[m].r)
         /\ obj[m].n \in Nat /\ obj[m].r \in Seq(GoodPhones)
         /\ obj[m].s \in {Shared} \cup Cells /\ obj[m].c \in Cells \cup {Null}
         /\ \A h : Source(type, h, obj[m])
  <1>1. obj[m] \in Objects /\ heap \in Heaps /\ IsMessage(type, obj[m], heap)
    BY DEF IInv, TypesOf
  <1>2. /\ obj[m].n \in Nat /\ obj[m].r \in Seq(GoodPhones)
        /\ obj[m].s \in {Shared} \cup Cells /\ obj[m].c \in Cells \cup {Null}
    BY <1>1 DEF Objects
  <1>3. QED
    BY <1>1, <1>2 DEF At, IsMessage, Reads, Source

(* The calls on a number.                                                  *)
LEMMA ScalarCallsKeep ==
  ASSUME IInv, NEW m \in Messages, ScalarCalls(m)
  PROVE  IInv'
  <1>1. Good(type, Elsewhere(m), At(m))
    BY InvGood
  <1>2. CASE \E v \in Numbers : Update(m, SetScalar(At(m), v))
    <2>1. PICK v \in Numbers : Update(m, SetScalar(At(m), v))
      BY <1>2
    <2>2. Keeps(type, Elsewhere(m), At(m), SetScalar(At(m), v))
      BY <1>1, SetScalarKeeps DEF ScalarCalls
    <2>3. QED
      BY <2>1, <2>2, UpdateKeeps
  <1>3. CASE Update(m, ClearScalar(At(m)))
    BY <1>1, <1>3, ClearScalarKeeps, UpdateKeeps
  <1>4. QED
    BY <1>2, <1>3 DEF ScalarCalls

(* One cell is freed.                                                      *)
LEMMA DeleteIs ==
  ASSUME NEW h \in Heaps, NEW p \in Cells
  PROVE  LET g == Delete(h, p) IN
         /\ g \in Heaps /\ g.live = h.live \ {p}
         /\ g.str[Shared] = h.str[Shared]
         /\ \A q \in Cells : q # p => g.str[q] = h.str[q] /\ g.leaf[q] = h.leaf[q]
         /\ g.str[p] = "" /\ g.leaf[p] = LeafNew
  <1> DEFINE g == Delete(h, p)
  <1>1. g = [h EXCEPT !.live = @ \ {p}, !.str[p] = "", !.leaf[p] = LeafNew]
    BY DEF Delete
  <1> HIDE DEF g
  <1>2. /\ g \in Heaps /\ g.live = h.live \ {p}
        /\ g.str = [h.str EXCEPT ![p] = ""] /\ g.leaf = [h.leaf EXCEPT ![p] = LeafNew]
        /\ h.str \in [{Shared} \cup Cells -> Strings] /\ h.leaf \in [Cells -> GoodLeafs]
    BY <1>1, LeafOperations, ValueAssumption DEF Heaps
  <1>3. /\ g.str[Shared] = h.str[Shared]
        /\ \A q \in Cells : q # p => g.str[q] = h.str[q] /\ g.leaf[q] = h.leaf[q]
        /\ g.str[p] = "" /\ g.leaf[p] = LeafNew
    BY <1>2, SharedIsNoCell
  <1>4. QED
    BY <1>2, <1>3 DEF g

(* A deleted cell is as a new one.                                         *)
LEMMA DeleteClean ==
  ASSUME NEW h \in Heaps, NEW p \in Cells, CleanHeap(h)
  PROVE  CleanHeap(Delete(h, p))
  <1> DEFINE g == Delete(h, p)
  <1>1. /\ g.live = h.live \ {p} /\ g.str[Shared] = h.str[Shared]
        /\ \A q \in Cells : q # p => g.str[q] = h.str[q] /\ g.leaf[q] = h.leaf[q]
        /\ g.str[p] = "" /\ g.leaf[p] = LeafNew
    BY DeleteIs
  <1> HIDE DEF g
  <1>2. CleanHeap(g)
    BY <1>1 DEF CleanHeap
  <1>3. QED
    BY <1>2 DEF g

(* A message reads the same on a heap that differs where it owns nothing.  *)
LEMMA ReadsSame ==
  ASSUME NEW o \in Objects, NEW h, NEW g, Reads(o, h), h.str[Shared] = g.str[Shared],
         \A p \in Own(o) : g.str[p] = h.str[p] /\ g.leaf[p] = h.leaf[p]
  PROVE  Reads(o, g)
  <1>1. o.s \in Cells \cup {Shared} /\ o.c \in Cells \cup {Null}
    BY DEF Objects
  <1>2. g.str[o.s] = h.str[o.s] /\ (o.c # Null => g.leaf[o.c] = h.leaf[o.c])
    BY <1>1 DEF Own
  <1>3. QED
    BY <1>2 DEF Reads

(* A message and the caller exchange or delete what they own.              *)
LEMMA Exchange ==
  ASSUME IInv, NEW m \in Messages, NEW q \in Objects,
         type' = type, obj' = [obj EXCEPT ![m] = q], heap' \in Heaps,
         held' \in [Pointers -> Cells \cup {Null}],
         held'["s"] = held'["c"] => held'["s"] = Null,
         \A k \in Pointers : k \notin type => held'[k] = Null,
         CleanHeap(heap'), IsMessage(type, q, heap'),
         q.s # q.c, Own(q) \cap HeldCells' = {},
         Own(q) \cup HeldCells' \subseteq Own(obj[m]) \cup HeldCells,
         heap'.live = heap.live \ ((Own(obj[m]) \cup HeldCells) \ (Own(q) \cup HeldCells')),
         \A p \in Cells \ (Own(obj[m]) \cup HeldCells) :
            heap'.str[p] = heap.str[p] /\ heap'.leaf[p] = heap.leaf[p]
  PROVE  IInv'
  <1>1. TypesOf /\ CleanHeap(heap) /\ Apart
    BY DEF IInv
  <1>2. obj'[m] = q /\ \A n \in Messages : n # m => obj'[n] = obj[n]
    BY <1>1 DEF TypesOf
  <1>3. TypesOf'
    BY <1>1 DEF TypesOf
  <1>4. \A n \in Messages : n # m => Own(obj[n]) \cap (Own(obj[m]) \cup HeldCells) = {} /\ Own(obj[n]) \subseteq Cells
    BY <1>1 DEF Apart, Own
  <1>5. \A n \in Messages : IsMessage(type', obj'[n], heap')
    <2> TAKE n \in Messages
    <2>1. CASE n = m
      BY <1>2, <2>1
    <2>2. CASE n # m
      <3>1. IsMessage(type, obj[n], heap) /\ obj[n] \in Objects
        BY <1>1 DEF IInv, TypesOf
      <3>2. \A p \in Own(obj[n]) : heap'.str[p] = heap.str[p] /\ heap'.leaf[p] = heap.leaf[p]
        BY <1>4, <2>2
      <3>3. Reads(obj[n], heap')
        <4>1. Reads(obj[n], heap) /\ heap.str[Shared] = heap'.str[Shared]
          BY <1>1, <3>1 DEF IsMessage, CleanHeap
        <4>2. QED
          BY <3>1, <3>2, <4>1, ReadsSame
      <3>4. QED
        BY <1>2, <2>2, <3>1, <3>3 DEF IsMessage
    <2>3. QED
      BY <2>1, <2>2
  <1>6. \A n \in Messages : obj'[n].s # obj'[n].c /\ Own(obj'[n]) \cap HeldCells' = {}
    <2> TAKE n \in Messages
    <2>1. CASE n = m
      BY <1>2, <2>1
    <2>2. CASE n # m
      <3>1. Own(obj[n]) \cap HeldCells' = {} /\ obj[n].s # obj[n].c
        BY <1>1, <1>4, <2>2 DEF Apart
      <3>2. QED
        BY <1>2, <2>2, <3>1
    <2>3. QED
      BY <2>1, <2>2
  <1>7. \A n, k \in Messages : n # k => Own(obj'[n]) \cap Own(obj'[k]) = {}
    <2> SUFFICES ASSUME NEW n \in Messages, NEW k \in Messages, n # k
                 PROVE  Own(obj'[n]) \cap Own(obj'[k]) = {}
      OBVIOUS
    <2>1. CASE n # m /\ k # m
      BY <1>1, <1>2, <2>1 DEF Apart
    <2>2. CASE n = m
      BY <1>2, <1>4, <2>2
    <2>3. CASE k = m
      BY <1>2, <1>4, <2>3
    <2>4. QED
      BY <2>1, <2>2, <2>3
  <1>8. heap'.live = HeldCells' \cup UNION {Own(obj'[n]) : n \in Messages}
    <2> DEFINE R == UNION {Own(obj[n]) : n \in Messages \ {m}}
    <2>1. heap.live = HeldCells \cup Own(obj[m]) \cup R
      BY <1>1 DEF Apart
    <2>2. UNION {Own(obj'[n]) : n \in Messages} = Own(q) \cup R
      BY <1>2
    <2>3. R \cap (Own(obj[m]) \cup HeldCells) = {}
      BY <1>4
    <2> HIDE DEF R
    <2>4. QED
      BY <2>1, <2>2, <2>3
  <1>9. Apart'
    BY <1>6, <1>7, <1>8 DEF Apart
  <1>10. QED
    BY <1>3, <1>5, <1>9 DEF IInv

(* release_ of a string moves its cell to the caller.                      *)
LEMMA ReleaseStringKeeps ==
  ASSUME IInv, NEW m \in Messages, "s" \in type, ReleaseString(m)
  PROVE  IInv'
  <1> DEFINE q == [obj[m] EXCEPT !.has = @ \ {"s"}, !.s = Shared]
  <1>1. /\ held["s"] = Null /\ type' = type /\ heap' = heap
        /\ held' = [held EXCEPT !["s"] = IF obj[m].s = Shared THEN Null ELSE obj[m].s]
        /\ obj' = [obj EXCEPT ![m] = q]
    BY DEF ReleaseString
  <1>2. TypesOf /\ obj[m] \in Objects /\ CleanHeap(heap) /\ IsMessage(type, obj[m], heap) /\ Apart
    BY DEF IInv, TypesOf
  <1>3. /\ q \in Objects /\ q.has = obj[m].has \ {"s"} /\ q.s = Shared /\ q.c = obj[m].c
        /\ q.t = obj[m].t /\ q.r = obj[m].r /\ q.n = obj[m].n
    BY <1>2 DEF Objects
  <1>4. /\ obj[m].s \in Cells \cup {Shared} /\ obj[m].c \in Cells \cup {Null}
        /\ Own(obj[m]) \cap HeldCells = {} /\ obj[m].s # obj[m].c
    BY <1>2 DEF Objects, Apart
  <1> HIDE DEF q
  <1>5. held'["c"] = held["c"] /\ held'["s"] = IF obj[m].s = Shared THEN Null ELSE obj[m].s
    BY <1>1, <1>2 DEF TypesOf, Pointers
  <1>6. held' \in [Pointers -> Cells \cup {Null}]
    BY <1>1, <1>2, <1>4 DEF TypesOf
  <1>7. IsMessage(type, q, heap)
    BY <1>2, <1>3, SharedIsNoCell DEF IsMessage, Reads, CleanHeap
  <1>8. HeldCells' = HeldCells \cup ({obj[m].s} \cap Cells)
    BY <1>1, <1>4, <1>5, SharedIsNoCell DEF HeldCells
  <1>9. Own(q) = Own(obj[m]) \ {obj[m].s} /\ q.s # q.c
    BY <1>3, <1>4, SharedIsNoCell DEF Own
  <1>10. {obj[m].s} \cap Cells \subseteq Own(obj[m])
    BY DEF Own
  <1>11. held'["s"] = held'["c"] => held'["s"] = Null
    BY <1>4, <1>5, SharedIsNoCell DEF HeldCells, Own
  <1>12. \A k \in Pointers : k \notin type => held'[k] = Null
    BY <1>2, <1>5 DEF Apart, Pointers
  <1>13. /\ Own(q) \cap HeldCells' = {}
         /\ Own(q) \cup HeldCells' = Own(obj[m]) \cup HeldCells
    <2> DEFINE H == HeldCells
               G == HeldCells'
               A == Own(obj[m])
               B == Own(q)
               a == {obj[m].s} \cap Cells
    <2>1. A \cap H = {} /\ G = H \cup a /\ a \subseteq A /\ B = A \ a
      <3>1. A \subseteq Cells
        BY DEF Own
      <3>2. QED
        BY <1>4, <1>8, <1>9, <1>10, <3>1
    <2> HIDE DEF H, G, A, B, a
    <2>2. B \cap G = {} /\ B \cup G = A \cup H
      BY <2>1
    <2>3. QED
      BY <2>2 DEF H, G, A, B
  <1>14. QED
    BY <1>1, <1>2, <1>3, <1>6, <1>7, <1>9, <1>11, <1>12, <1>13, Exchange DEF TypesOf

(* release_ of a sub-message does the same.                                *)
LEMMA ReleaseSubKeeps ==
  ASSUME IInv, NEW m \in Messages, "c" \in type, ReleaseSub(m)
  PROVE  IInv'
  <1> DEFINE q == [obj[m] EXCEPT !.has = @ \ {"c"}, !.c = Null]
  <1>1. /\ held["c"] = Null /\ type' = type /\ heap' = heap
        /\ held' = [held EXCEPT !["c"] = obj[m].c]
        /\ obj' = [obj EXCEPT ![m] = q]
    BY DEF ReleaseSub
  <1>2. TypesOf /\ obj[m] \in Objects /\ CleanHeap(heap) /\ IsMessage(type, obj[m], heap) /\ Apart
    BY DEF IInv, TypesOf
  <1>3. /\ q \in Objects /\ q.has = obj[m].has \ {"c"} /\ q.c = Null /\ q.s = obj[m].s
        /\ q.t = obj[m].t /\ q.r = obj[m].r /\ q.n = obj[m].n
    BY <1>2 DEF Objects
  <1>4. /\ obj[m].s \in Cells \cup {Shared} /\ obj[m].c \in Cells \cup {Null}
        /\ Own(obj[m]) \cap HeldCells = {} /\ obj[m].s # obj[m].c
    BY <1>2 DEF Objects, Apart
  <1> HIDE DEF q
  <1>5. held'["s"] = held["s"] /\ held'["c"] = obj[m].c
    BY <1>1, <1>2 DEF TypesOf, Pointers
  <1>6. held' \in [Pointers -> Cells \cup {Null}]
    BY <1>1, <1>2, <1>4 DEF TypesOf
  <1>7. IsMessage(type, q, heap)
    BY <1>2, <1>3, SharedIsNoCell DEF IsMessage, Reads, CleanHeap
  <1>8. HeldCells' = HeldCells \cup ({obj[m].c} \cap Cells)
    BY <1>1, <1>4, <1>5, SharedIsNoCell DEF HeldCells
  <1>9. Own(q) = Own(obj[m]) \ {obj[m].c} /\ q.s # q.c
    BY <1>3, <1>4, SharedIsNoCell DEF Own
  <1>10. {obj[m].c} \cap Cells \subseteq Own(obj[m])
    BY DEF Own
  <1>11. held'["s"] = held'["c"] => held'["s"] = Null
    BY <1>4, <1>5, SharedIsNoCell DEF HeldCells, Own
  <1>12. \A k \in Pointers : k \notin type => held'[k] = Null
    BY <1>2, <1>5 DEF Apart, Pointers
  <1>13. /\ Own(q) \cap HeldCells' = {}
         /\ Own(q) \cup HeldCells' = Own(obj[m]) \cup HeldCells
    <2> DEFINE H == HeldCells
               G == HeldCells'
               A == Own(obj[m])
               B == Own(q)
               a == {obj[m].c} \cap Cells
    <2>1. A \cap H = {} /\ G = H \cup a /\ a \subseteq A /\ B = A \ a
      <3>1. A \subseteq Cells
        BY DEF Own
      <3>2. QED
        BY <1>4, <1>8, <1>9, <1>10, <3>1
    <2> HIDE DEF H, G, A, B, a
    <2>2. B \cap G = {} /\ B \cup G = A \cup H
      BY <2>1
    <2>3. QED
      BY <2>2 DEF H, G, A, B
  <1>14. QED
    BY <1>1, <1>2, <1>3, <1>6, <1>7, <1>9, <1>11, <1>12, <1>13, Exchange DEF TypesOf

(* set_allocated_ of a string deletes the cell that was there and takes the*)
(* caller's.                                                               *)
LEMMA SetAllocatedStringKeeps ==
  ASSUME IInv, NEW m \in Messages, "s" \in type, SetAllocatedString(m)
  PROVE  IInv'
  <1> DEFINE a == obj[m].s
             b == held["s"]
             q == [obj[m] EXCEPT !.has = IF b # Null THEN @ \cup {"s"} ELSE @ \ {"s"},
                                 !.s = IF b # Null THEN b ELSE Shared]
  <1>1. /\ type' = type
        /\ heap' = IF a # Shared THEN Delete(heap, a) ELSE heap
        /\ held' = [held EXCEPT !["s"] = Null]
        /\ obj' = [obj EXCEPT ![m] = q]
    BY DEF SetAllocatedString
  <1>2. TypesOf /\ obj[m] \in Objects /\ heap \in Heaps /\ CleanHeap(heap) /\ IsMessage(type, obj[m], heap) /\ Apart
    BY DEF IInv, TypesOf
  <1>3. b \in Cells \cup {Null}
    BY <1>2 DEF TypesOf, Pointers
  <1>4. /\ a \in Cells \cup {Shared} /\ obj[m].c \in Cells \cup {Null}
        /\ Own(obj[m]) \cap HeldCells = {} /\ a # obj[m].c
    BY <1>2 DEF Objects, Apart
  <1>5. /\ q \in Objects /\ q.has = IF b # Null THEN obj[m].has \cup {"s"} ELSE obj[m].has \ {"s"}
        /\ q.s = IF b # Null THEN b ELSE Shared
        /\ q.c = obj[m].c /\ q.t = obj[m].t /\ q.r = obj[m].r /\ q.n = obj[m].n
    <2>1. (IF b # Null THEN b ELSE Shared) \in Cells \cup {Shared}
      BY <1>3
    <2> DEFINE hs == IF b # Null THEN obj[m].has \cup {"s"} ELSE obj[m].has \ {"s"}
               p == IF b # Null THEN b ELSE Shared
    <2>2. hs \in SUBSET {"t", "s", "c", "r", "u"} /\ q = [obj[m] EXCEPT !.has = hs, !.s = p]
      BY <1>2 DEF Objects
    <2> HIDE DEF hs, p, q
    <2>3. q \in Objects /\ q.has = hs /\ q.s = p /\ q.c = obj[m].c /\ q.t = obj[m].t /\ q.r = obj[m].r /\ q.n = obj[m].n
      BY <1>2, <2>1, <2>2 DEF Objects, p
    <2>4. QED
      BY <2>3 DEF hs, p
  <1> HIDE DEF q
  <1>6. held'["c"] = held["c"] /\ held'["s"] = Null /\ held' \in [Pointers -> Cells \cup {Null}]
    BY <1>1, <1>2 DEF TypesOf, Pointers
  <1>7. /\ heap' \in Heaps /\ CleanHeap(heap') /\ heap'.live = heap.live \ ({a} \cap Cells)
        /\ \A p \in Cells : p # a => heap'.str[p] = heap.str[p] /\ heap'.leaf[p] = heap.leaf[p]
    <2>1. CASE a = Shared
      <3>1. heap' = heap /\ {a} \cap Cells = {}
        BY <1>1, <2>1, SharedIsNoCell
      <3>2. QED
        BY <1>2, <3>1
    <2>2. CASE a # Shared
      <3>1. a \in Cells /\ heap' = Delete(heap, a)
        BY <1>1, <1>4, <2>2
      <3> HIDE DEF a
      <3>2. CleanHeap(heap')
        <4>1. CleanHeap(Delete(heap, a))
          BY <1>2, <3>1, DeleteClean
        <4>2. QED
          BY <3>1, <4>1
      <3>3. /\ heap' \in Heaps /\ heap'.live = heap.live \ {a}
            /\ heap'.str[Shared] = heap.str[Shared]
            /\ \A p \in Cells : p # a => heap'.str[p] = heap.str[p] /\ heap'.leaf[p] = heap.leaf[p]
        BY <1>2, <3>1, DeleteIs, ZenonT(60)
      <3>4. QED
        BY <3>1, <3>2, <3>3
    <2>3. QED
      BY <2>1, <2>2
  <1>8. HeldCells' = HeldCells \ {b}
    BY <1>2, <1>3, <1>6, SharedIsNoCell DEF HeldCells, Apart
  <1>9. Own(q) = (Own(obj[m]) \ {a}) \cup ({b} \cap Cells) /\ q.s # q.c
    BY <1>3, <1>4, <1>5, SharedIsNoCell DEF Own, HeldCells
  <1>10. {a} \cap Cells \subseteq Own(obj[m]) /\ {b} \cap Cells \subseteq HeldCells
    BY DEF Own, HeldCells
  <1>11. IsMessage(type, q, heap')
    <2>1. q.has \subseteq type /\ ("s" \notin type => q.s = Shared) /\ ("c" \notin type => q.c = Null)
      BY <1>2, <1>5 DEF IsMessage
    <2>2. IF "s" \in q.has THEN q.s # Shared ELSE heap'.str[q.s] = ""
      <3>1. CASE b # Null
        BY <1>3, <1>5, <3>1, SharedIsNoCell
      <3>2. CASE b = Null
        BY <1>5, <1>7, <3>2 DEF CleanHeap
      <3>3. QED
        BY <3>1, <3>2
    <2>3. obj[m].c # Null => heap'.leaf[obj[m].c] = heap.leaf[obj[m].c]
      BY <1>4, <1>7
    <2>4. Reads(q, heap')
      BY <1>2, <1>5, <2>2, <2>3 DEF IsMessage, Reads
    <2>5. QED
      BY <2>1, <2>4 DEF IsMessage
  <1>12. \A k \in Pointers : k \notin type => held'[k] = Null
    BY <1>2, <1>6 DEF Apart, Pointers
  <1>13. held'["s"] = held'["c"] => held'["s"] = Null
    BY <1>6
  <1>14. /\ Own(q) \cap HeldCells' = {}
         /\ Own(q) \cup HeldCells' \subseteq Own(obj[m]) \cup HeldCells
         /\ heap.live \ ({a} \cap Cells) = heap.live \ ((Own(obj[m]) \cup HeldCells) \ (Own(q) \cup HeldCells'))
    <2> HIDE DEF a, b
    <2>1. HeldCells \subseteq Cells /\ Own(obj[m]) \subseteq Cells
      BY DEF HeldCells, Own
    <2>2. QED
      BY <1>4, <1>8, <1>9, <1>10, <2>1
  <1>15. \A p \in Cells \ (Own(obj[m]) \cup HeldCells) :
            heap'.str[p] = heap.str[p] /\ heap'.leaf[p] = heap.leaf[p]
    BY <1>7, <1>10
  <1>16. QED
    BY <1>1, <1>5, <1>6, <1>7, <1>9, <1>11, <1>12, <1>13, <1>14, <1>15, Exchange

(* set_allocated_ of a sub-message does the same.                          *)
LEMMA SetAllocatedSubKeeps ==
  ASSUME IInv, NEW m \in Messages, "c" \in type, SetAllocatedSub(m)
  PROVE  IInv'
  <1> DEFINE a == obj[m].c
             b == held["c"]
             q == [obj[m] EXCEPT !.has = IF b # Null THEN @ \cup {"c"} ELSE @ \ {"c"}, !.c = b]
  <1>1. /\ type' = type
        /\ heap' = IF a # Null THEN Delete(heap, a) ELSE heap
        /\ held' = [held EXCEPT !["c"] = Null]
        /\ obj' = [obj EXCEPT ![m] = q]
    BY DEF SetAllocatedSub
  <1>2. TypesOf /\ obj[m] \in Objects /\ heap \in Heaps /\ CleanHeap(heap) /\ IsMessage(type, obj[m], heap) /\ Apart
    BY DEF IInv, TypesOf
  <1>3. b \in Cells \cup {Null}
    BY <1>2 DEF TypesOf, Pointers
  <1>4. /\ a \in Cells \cup {Null} /\ obj[m].s \in Cells \cup {Shared}
        /\ Own(obj[m]) \cap HeldCells = {} /\ a # obj[m].s
    BY <1>2 DEF Objects, Apart
  <1>5. /\ q \in Objects /\ q.has = IF b # Null THEN obj[m].has \cup {"c"} ELSE obj[m].has \ {"c"}
        /\ q.c = b
        /\ q.s = obj[m].s /\ q.t = obj[m].t /\ q.r = obj[m].r /\ q.n = obj[m].n
    <2> DEFINE hs == IF b # Null THEN obj[m].has \cup {"c"} ELSE obj[m].has \ {"c"}
    <2>1. hs \in SUBSET {"t", "s", "c", "r", "u"} /\ q = [obj[m] EXCEPT !.has = hs, !.c = b]
      BY <1>2 DEF Objects
    <2> HIDE DEF hs, q, b
    <2>2. q \in Objects /\ q.has = hs /\ q.c = b /\ q.s = obj[m].s /\ q.t = obj[m].t /\ q.r = obj[m].r /\ q.n = obj[m].n
      BY <1>2, <1>3, <2>1 DEF Objects
    <2>3. QED
      BY <2>2 DEF hs
  <1> HIDE DEF q
  <1>6. held'["s"] = held["s"] /\ held'["c"] = Null /\ held' \in [Pointers -> Cells \cup {Null}]
    BY <1>1, <1>2 DEF TypesOf, Pointers
  <1>7. /\ heap' \in Heaps /\ CleanHeap(heap') /\ heap'.live = heap.live \ ({a} \cap Cells)
        /\ heap'.str[Shared] = heap.str[Shared]
        /\ \A p \in Cells : p # a => heap'.str[p] = heap.str[p] /\ heap'.leaf[p] = heap.leaf[p]
    <2>1. CASE a = Null
      <3>1. heap' = heap /\ {a} \cap Cells = {}
        BY <1>1, <2>1, SharedIsNoCell
      <3>2. QED
        BY <1>2, <3>1
    <2>2. CASE a # Null
      <3>1. a \in Cells /\ heap' = Delete(heap, a)
        BY <1>1, <1>4, <2>2
      <3> HIDE DEF a
      <3>2. CleanHeap(heap')
        <4>1. CleanHeap(Delete(heap, a))
          BY <1>2, <3>1, DeleteClean
        <4>2. QED
          BY <3>1, <4>1
      <3>3. /\ heap' \in Heaps /\ heap'.live = heap.live \ {a}
            /\ heap'.str[Shared] = heap.str[Shared]
            /\ \A p \in Cells : p # a => heap'.str[p] = heap.str[p] /\ heap'.leaf[p] = heap.leaf[p]
        BY <1>2, <3>1, DeleteIs, ZenonT(60)
      <3>4. QED
        BY <3>1, <3>2, <3>3
    <2>3. QED
      BY <2>1, <2>2
  <1>8. HeldCells' = HeldCells \ {b}
    BY <1>2, <1>3, <1>6, SharedIsNoCell DEF HeldCells, Apart
  <1>9. Own(q) = (Own(obj[m]) \ {a}) \cup ({b} \cap Cells) /\ q.s # q.c
    BY <1>3, <1>4, <1>5, SharedIsNoCell DEF Own, HeldCells
  <1>10. {a} \cap Cells \subseteq Own(obj[m]) /\ {b} \cap Cells \subseteq HeldCells
    BY DEF Own, HeldCells
  <1>11. IsMessage(type, q, heap')
    <2>1. q.has \subseteq type /\ ("s" \notin type => q.s = Shared) /\ ("c" \notin type => q.c = Null)
      BY <1>2, <1>5 DEF IsMessage, Apart, Pointers
    <2>2. heap'.str[obj[m].s] = heap.str[obj[m].s]
      BY <1>4, <1>7
    <2>3. "c" \in q.has <=> q.c # Null
      BY <1>5
    <2>4. \A k \in {"t", "s"} : k \in q.has <=> k \in obj[m].has
      BY <1>5
    <2>5. Reads(q, heap')
      BY <1>2, <1>5, <2>2, <2>3, <2>4 DEF IsMessage, Reads
    <2>6. QED
      BY <2>1, <2>5 DEF IsMessage
  <1>12. \A k \in Pointers : k \notin type => held'[k] = Null
    BY <1>2, <1>6 DEF Apart, Pointers
  <1>13. held'["s"] = held'["c"] => held'["s"] = Null
    BY <1>6
  <1>14. /\ Own(q) \cap HeldCells' = {}
         /\ Own(q) \cup HeldCells' \subseteq Own(obj[m]) \cup HeldCells
         /\ heap.live \ ({a} \cap Cells) = heap.live \ ((Own(obj[m]) \cup HeldCells) \ (Own(q) \cup HeldCells'))
    <2> HIDE DEF a, b
    <2>1. HeldCells \subseteq Cells /\ Own(obj[m]) \subseteq Cells
      BY DEF HeldCells, Own
    <2>2. QED
      BY <1>4, <1>8, <1>9, <1>10, <2>1
  <1>15. \A p \in Cells \ (Own(obj[m]) \cup HeldCells) :
            heap'.str[p] = heap.str[p] /\ heap'.leaf[p] = heap.leaf[p]
    BY <1>7, <1>10
  <1>16. QED
    BY <1>1, <1>5, <1>6, <1>7, <1>9, <1>11, <1>12, <1>13, <1>14, <1>15, Exchange

(* The calls on a string.                                                  *)
LEMMA StringCallsKeep ==
  ASSUME IInv, NEW m \in Messages, StringCalls(m)
  PROVE  IInv'
  <1>1. Good(type, Elsewhere(m), At(m)) /\ Room(type, Elsewhere(m)) /\ "s" \in type
    BY InvGood, InvRoom DEF StringCalls
  <1>2. CASE \E v \in Strings : Update(m, SetString(At(m), v))
    <2>1. PICK v \in Strings : Update(m, SetString(At(m), v))
      BY <1>2
    <2>2. Keeps(type, Elsewhere(m), At(m), SetString(At(m), v))
      BY <1>1, SetStringKeeps
    <2>3. QED
      BY <2>1, <2>2, UpdateKeeps
  <1>3. CASE Update(m, ClearString(At(m)))
    BY <1>1, <1>3, ClearStringKeeps, UpdateKeeps
  <1>4. CASE ReleaseString(m)
    BY <1>1, <1>4, ReleaseStringKeeps
  <1>5. CASE SetAllocatedString(m)
    BY <1>1, <1>5, SetAllocatedStringKeeps
  <1>6. QED
    BY <1>2, <1>3, <1>4, <1>5 DEF StringCalls

(* mutable_ and a setter through the pointer.                              *)
LEMMA SetThroughSubKeeps ==
  ASSUME IInv, NEW m \in Messages, "c" \in type, SetThroughSub(m)
  PROVE  IInv'
  <1> DEFINE x == At(m)
             y == MutableSub(x)
             E == Elsewhere(m)
  <1>1. Good(type, E, x) /\ Room(type, E)
    BY InvGood, InvRoom
  <1>2. PICK f \in LeafFields, v \in Numbers : Update(m, WithSub(y, LeafSet(y.h.leaf[y.o.c], f, v)))
    BY DEF SetThroughSub, WithSub
  <1> HIDE DEF x, E
  <1>3. Keeps(type, E, x, y) /\ Good(type, E, y) /\ y.o.c \in Cells /\ "c" \in y.o.has
    BY <1>1, MutableSubIs DEF Keeps
  <1>4. y.h.leaf[y.o.c] \in GoodLeafs
    BY <1>3, PartsOf DEF Heaps
  <1> HIDE DEF y
  <1> DEFINE l == LeafSet(y.h.leaf[y.o.c], f, v)
  <1>5. l \in GoodLeafs
    BY <1>4, LeafOperations
  <1>6. Update(m, WithSub(y, l))
    BY <1>2 DEF y
  <1> HIDE DEF l
  <1>7. Keeps(type, E, y, WithSub(y, l))
    BY <1>3, <1>5, SubBecomes
  <1>8. Keeps(type, E, x, WithSub(y, l))
    BY <1>3, <1>7, KeepsMore
  <1>9. QED
    BY <1>6, <1>8, UpdateKeeps DEF E, x

(* The calls on a sub-message.                                             *)
LEMMA SubCallsKeep ==
  ASSUME IInv, NEW m \in Messages, SubCalls(m)
  PROVE  IInv'
  <1>1. Good(type, Elsewhere(m), At(m)) /\ "c" \in type
    BY InvGood DEF SubCalls
  <1>2. CASE SetThroughSub(m)
    BY <1>1, <1>2, SetThroughSubKeeps
  <1>3. CASE Update(m, ClearSub(At(m)))
    BY <1>1, <1>3, ClearSubKeeps, UpdateKeeps
  <1>4. CASE ReleaseSub(m)
    BY <1>1, <1>4, ReleaseSubKeeps
  <1>5. CASE SetAllocatedSub(m)
    BY <1>1, <1>5, SetAllocatedSubKeeps
  <1>6. QED
    BY <1>2, <1>3, <1>4, <1>5 DEF SubCalls

(* The calls on the elements.                                              *)
LEMMA PhoneCallsKeep ==
  ASSUME IInv, NEW m \in Messages, PhoneCalls(m)
  PROVE  IInv'
  <1>1. Good(type, Elsewhere(m), At(m))
    BY InvGood
  <1>2. CASE Update(m, AddPhone(At(m)))
    BY <1>1, <1>2, AddPhoneIs, UpdateKeeps
  <1>3. CASE Update(m, ClearPhones(At(m)))
    BY <1>1, <1>3, ClearPhonesIs, UpdateKeeps
  <1>4. ASSUME NEW i \in 1..obj[m].n,
               NEW p \in {PhoneSetNumber(obj[m].r[i], v) : v \in Strings}
                         \cup {PhoneSetType(obj[m].r[i], k) : k \in PhoneTypes}
                         \cup {PhoneClear(obj[m].r[i])},
               Update(m, [At(m) EXCEPT !.o.r[i] = p])
        PROVE  IInv'
    <2>1. /\ obj[m].n \in Nat /\ obj[m].n <= Len(obj[m].r) /\ obj[m].r \in Seq(GoodPhones)
          /\ At(m).o = obj[m]
      BY MessageParts
    <2>2. obj[m].r[i] \in GoodPhones
      BY <2>1
    <2>3. p \in GoodPhones
      BY <2>2, PhoneOperations
    <2>4. Update(m, WithElement(At(m), i, p))
      BY <1>4 DEF WithElement
    <2>5. Keeps(type, Elsewhere(m), At(m), WithElement(At(m), i, p))
      BY <1>1, <2>1, <2>3, ElementBecomes
    <2>6. QED
      BY <2>4, <2>5, UpdateKeeps
  <1>5. QED
    BY <1>2, <1>3, <1>4 DEF PhoneCalls

(* The caller deletes what he holds.                                       *)
LEMMA DeleteHeldKeeps ==
  ASSUME IInv, NEW k \in Pointers, DeleteHeld(k)
  PROVE  IInv'
  <1> DEFINE p == held[k]
  <1>1. /\ p # Null /\ type' = type /\ obj' = obj
        /\ heap' = Delete(heap, p) /\ held' = [held EXCEPT ![k] = Null]
    BY DEF DeleteHeld
  <1>2. TypesOf /\ CleanHeap(heap) /\ Apart /\ heap \in Heaps
    BY DEF IInv, TypesOf
  <1>3. p \in Cells /\ p \in HeldCells
    BY <1>1, <1>2, HeldIs DEF TypesOf, Pointers
  <1>4. /\ held'[k] = Null /\ (\A j \in Pointers : j # k => held'[j] = held[j])
        /\ held' \in [Pointers -> Cells \cup {Null}]
    BY <1>1, <1>2 DEF TypesOf
  <1>5. HeldCells' = HeldCells \ {p}
    BY <1>2, <1>3, <1>4, SharedIsNoCell DEF HeldCells, Apart, Pointers
  <1> HIDE DEF p
  <1>6. /\ heap' \in Heaps /\ CleanHeap(heap') /\ heap'.live = heap.live \ {p}
        /\ \A q \in Cells : q # p => heap'.str[q] = heap.str[q] /\ heap'.leaf[q] = heap.leaf[q]
        /\ heap'.str[Shared] = heap.str[Shared]
    <2>1. CleanHeap(heap')
      BY <1>1, <1>2, <1>3, DeleteClean
    <2>2. QED
      BY <1>1, <1>2, <1>3, <2>1, DeleteIs, ZenonT(60)
  <1>7. \A n \in Messages : Own(obj[n]) \cap HeldCells = {} /\ Own(obj[n]) \subseteq Cells
    BY <1>2 DEF Apart, Own
  <1>8. ASSUME NEW n \in Messages PROVE IsMessage(type', obj'[n], heap')
    <2>1. IsMessage(type, obj[n], heap) /\ obj[n] \in Objects
      BY <1>2 DEF IInv, TypesOf
    <2>2. \A q \in Own(obj[n]) : heap'.str[q] = heap.str[q] /\ heap'.leaf[q] = heap.leaf[q]
      BY <1>3, <1>6, <1>7
    <2>3. Reads(obj[n], heap) /\ heap.str[Shared] = heap'.str[Shared]
      BY <1>6, <2>1 DEF IsMessage
    <2>4. Reads(obj[n], heap')
      BY <2>1, <2>2, <2>3, ReadsSame
    <2>5. QED
      BY <1>1, <2>1, <2>4 DEF IsMessage
  <1>9. Apart'
    <2>1. heap'.live = HeldCells' \cup UNION {Own(obj[n]) : n \in Messages}
      <3> DEFINE R == UNION {Own(obj[n]) : n \in Messages}
      <3>1. heap.live = HeldCells \cup R /\ p \notin R
        BY <1>2, <1>3, <1>7 DEF Apart
      <3> HIDE DEF R
      <3>2. heap'.live = HeldCells' \cup R
        BY <1>5, <1>6, <3>1
      <3>3. QED
        BY <3>2 DEF R
    <2>2. \A n \in Messages : obj[n].s # obj[n].c /\ Own(obj[n]) \cap HeldCells' = {}
      BY <1>2, <1>5, <1>7 DEF Apart
    <2>3. held'["s"] = held'["c"] => held'["s"] = Null
      BY <1>2, <1>4 DEF Apart, Pointers
    <2>4. \A j \in Pointers : j \notin type' => held'[j] = Null
      BY <1>1, <1>2, <1>4 DEF Apart
    <2>5. QED
      BY <1>1, <1>2, <2>1, <2>2, <2>3, <2>4 DEF Apart
  <1>10. TypesOf'
    BY <1>1, <1>2, <1>4, <1>6 DEF TypesOf
  <1>11. QED
    BY <1>6, <1>8, <1>9, <1>10 DEF IInv

(* Swap exchanges the cells of two messages.                               *)
LEMMA SwapKeeps ==
  ASSUME IInv, NEW m \in Messages, NEW o \in Messages, Swap(m, o)
  PROVE  IInv'
  <1>1. /\ obj' = [obj EXCEPT ![m] = obj[o], ![o] = obj[m]]
        /\ type' = type /\ heap' = heap /\ held' = held
    BY DEF Swap
  <1>2. TypesOf /\ CleanHeap(heap) /\ Apart
    BY DEF IInv
  <1> DEFINE s == [n \in Messages |-> IF n = m THEN o ELSE IF n = o THEN m ELSE n]
  <1>3. /\ \A n \in Messages : s[n] \in Messages /\ s[s[n]] = n /\ obj'[n] = obj[s[n]]
        /\ \A n, k \in Messages : n # k => s[n] # s[k]
    BY <1>1, <1>2 DEF TypesOf
  <1> HIDE DEF s
  <1>4. TypesOf'
    BY <1>1, <1>2 DEF TypesOf
  <1>5. HeldCells' = HeldCells
    BY <1>1 DEF HeldCells
  <1>6. UNION {Own(obj'[n]) : n \in Messages} = UNION {Own(obj[n]) : n \in Messages}
    BY <1>3
  <1>7. \A n \in Messages : obj'[n].s # obj'[n].c /\ Own(obj'[n]) \cap HeldCells = {}
    BY <1>2, <1>3 DEF Apart
  <1>8. \A n, k \in Messages : n # k => Own(obj'[n]) \cap Own(obj'[k]) = {}
    BY <1>2, <1>3 DEF Apart
  <1>9. Apart'
    BY <1>1, <1>2, <1>5, <1>6, <1>7, <1>8 DEF Apart
  <1>10. \A n \in Messages : IsMessage(type', obj'[n], heap')
    <2>1. \A n \in Messages : IsMessage(type, obj[n], heap)
      BY DEF IInv
    <2> TAKE n \in Messages
    <2>2. IsMessage(type, obj[s[n]], heap) /\ obj'[n] = obj[s[n]]
      BY <1>3, <2>1
    <2>3. QED
      BY <1>1, <2>2
  <1>11. QED
    BY <1>1, <1>2, <1>4, <1>9, <1>10 DEF IInv

(* A message that goes out of scope leaves its place to an empty one.      *)
LEMMA NewMessageKeeps ==
  ASSUME NEW T, NEW E, NEW x, Good(T, E, x)
  PROVE  Keeps(T, E, x, [o |-> SharedCtor, h |-> SharedDtor(x)])
  <1>1. PICK o \in Objects, h \in Heaps : o = x.o /\ h = x.h /\ x = [o |-> o, h |-> h]
    BY PartsOf
  <1>2. /\ E \subseteq Cells /\ CleanHeap(h) /\ Owns(T, E, o, h)
    BY <1>1, PartsOf DEF Good
  <1>3. /\ o.s \in Cells \cup {Shared} /\ o.c \in Cells \cup {Null} /\ o.s # o.c
        /\ o.s \notin E /\ o.c \notin E /\ h.live = E \cup Own(o)
    BY <1>2 DEF Objects, Owns
  <1> DEFINE g == IF o.s # Shared THEN Delete(h, o.s) ELSE h
             k == IF o.c # Null THEN Delete(g, o.c) ELSE g
  <1>4. SharedDtor(x) = k
    BY <1>1 DEF SharedDtor
  <1>5. /\ g \in Heaps /\ CleanHeap(g) /\ g.live = h.live \ ({o.s} \cap Cells)
        /\ \A p \in Cells : p # o.s => g.str[p] = h.str[p] /\ g.leaf[p] = h.leaf[p]
    <2>1. CASE o.s = Shared
      <3>1. g = h /\ {o.s} \cap Cells = {}
        BY <2>1, SharedIsNoCell
      <3>2. QED
        BY <1>2, <3>1
    <2>2. CASE o.s # Shared
      <3>1. o.s \in Cells /\ g = Delete(h, o.s)
        BY <1>3, <2>2
      <3> HIDE DEF g
      <3>2. CleanHeap(g)
        <4>1. CleanHeap(Delete(h, o.s))
          BY <1>2, <3>1, DeleteClean
        <4>2. QED
          BY <3>1, <4>1
      <3>3. /\ g \in Heaps /\ g.live = h.live \ {o.s}
            /\ \A p \in Cells : p # o.s => g.str[p] = h.str[p] /\ g.leaf[p] = h.leaf[p]
        BY <3>1, DeleteIs, ZenonT(60)
      <3>4. QED
        BY <3>1, <3>2, <3>3
    <2>3. QED
      BY <2>1, <2>2
  <1> HIDE DEF g
  <1>6. /\ k \in Heaps /\ CleanHeap(k) /\ k.live = g.live \ ({o.c} \cap Cells)
        /\ \A p \in Cells : p # o.c => k.str[p] = g.str[p] /\ k.leaf[p] = g.leaf[p]
    <2>1. CASE o.c = Null
      <3>1. k = g /\ {o.c} \cap Cells = {}
        BY <2>1, SharedIsNoCell
      <3>2. QED
        BY <1>5, <3>1
    <2>2. CASE o.c # Null
      <3>1. o.c \in Cells /\ k = Delete(g, o.c)
        BY <1>3, <2>2
      <3> HIDE DEF k
      <3>a. g \in Heaps /\ CleanHeap(g)
        BY <1>5
      <3>2. CleanHeap(k) /\ k \in Heaps /\ k.live = g.live \ {o.c}
        BY <3>a, <3>1, DeleteIs, DeleteClean
      <3>3. \A p \in Cells : p # o.c => k.str[p] = g.str[p] /\ k.leaf[p] = g.leaf[p]
        <4> DEFINE c == o.c
        <4>1. c \in Cells /\ k = Delete(g, c)
          BY <3>1
        <4> HIDE DEF c
        <4>2. \A p \in Cells : p # c => k.str[p] = g.str[p] /\ k.leaf[p] = g.leaf[p]
          <5>1. \A p \in Cells : p # c => Delete(g, c).str[p] = g.str[p] /\ Delete(g, c).leaf[p] = g.leaf[p]
            BY <3>a, <4>1, DeleteIs
          <5>2. QED
            BY <4>1, <5>1
        <4>3. QED
          BY <4>2 DEF c
      <3>4. QED
        BY <3>1, <3>2, <3>3
    <2>3. QED
      BY <2>1, <2>2
  <1> HIDE DEF k
  <1>7. k.live = E
    BY <1>2, <1>3, <1>5, <1>6 DEF Own
  <1>8. Frame(E, x.h, k)
    BY <1>1, <1>2, <1>3, <1>5, <1>6 DEF Frame
  <1> DEFINE q == SharedCtor
  <1>9. /\ q \in Objects /\ q.has = {} /\ q.s = Shared /\ q.c = Null /\ q.t = Default
        /\ q.r = <<>> /\ q.n = 0
    <2>1. <<>> \in Seq({"newer"}) /\ <<>> \in Seq(GoodPhones)
      OBVIOUS
    <2>2. QED
      BY <2>1, ValueAssumption DEF SharedCtor, Objects
  <1> HIDE DEF q
  <1>10. Owns(T, E, q, k)
    BY <1>2, <1>7, <1>9, SharedIsNoCell DEF Owns, Own
  <1>11. Reads(q, k)
    <2>1. q.n <= Len(q.r) /\ DOMAIN q.r = {} /\ k.str[q.s] = ""
      <3>1. Len(<<>>) = 0 /\ DOMAIN <<>> = {}
        OBVIOUS
      <3>2. k.str[Shared] = ""
        BY <1>6 DEF CleanHeap
      <3>3. q.n <= Len(q.r) /\ DOMAIN q.r = {}
        BY <1>9, <3>1
      <3>4. QED
        BY <1>9, <3>2, <3>3
    <2>2. QED
      BY <1>9, <2>1 DEF Reads
  <1>12. [o |-> SharedCtor, h |-> SharedDtor(x)] = [o |-> q, h |-> k]
    BY <1>4 DEF q
  <1>13. q.has \subseteq T
    BY <1>9
  <1>14. QED
    BY <1>6, <1>8, <1>9, <1>10, <1>11, <1>12, <1>13, GoodOf

(* The destructor frees the cells before another message takes the place.  *)
LEMMA RenewKeeps ==
  ASSUME IInv, NEW m \in Messages, NEW o \in Messages, Renew(m, o)
  PROVE  IInv'
  <1> DEFINE x == [o |-> SharedCtor, h |-> SharedDtor(At(m))]
             E == Elsewhere(m)
  <1>1. Keeps(type, E, At(m), x) /\ Good(type, E, x)
    BY InvGood, NewMessageKeeps DEF Keeps
  <1>2. Update(m, x) \/ Update(m, MergeFrom(x, obj[o]))
    BY DEF Renew
  <1> HIDE DEF x
  <1>3. Keeps(type, E, x, MergeFrom(x, obj[o]))
    BY <1>1, InvRoom, MessageParts, MergeFromKeeps
  <1>4. Keeps(type, E, At(m), MergeFrom(x, obj[o]))
    BY <1>1, <1>3, KeepsMore
  <1>5. QED
    BY <1>1, <1>2, <1>4, UpdateKeeps

(* A message that was cleared.                                             *)
LEMMA ClearedGood ==
  ASSUME IInv, NEW m \in Messages
  PROVE  /\ Keeps(type, Elsewhere(m), At(m), Clear(At(m)))
         /\ Good(type, Elsewhere(m), Clear(At(m)))
  BY InvGood, ClearKeeps DEF Keeps

(* What a message is written to is of its type.                            *)
LEMMA WireIs ==
  ASSUME IInv, NEW o \in Messages
  PROVE  Serialize(obj[o], heap) \in Seq(Tokens(type))
  BY MessageParts, SerializeIs

(* A message parsed after it was cleared.                                  *)
LEMMA ParseFromKeeps ==
  ASSUME IInv, NEW m \in Messages, NEW o \in Messages, ParseFrom(m, o)
  PROVE  IInv'
  <1> DEFINE K == Tokens(type)
             more(newer) == IF newer THEN <<<<"u", "newer">>>> ELSE <<>>
             w(newer) == Serialize(obj[o], heap) \o more(newer)
             x == Clear(At(m))
             E == Elsewhere(m)
  <1>1. PICK newer \in BOOLEAN : Update(m, MergePartialFromCodedStream(x, w(newer)))
    BY DEF ParseFrom
  <1>2. more(newer) \in Seq(K)
    <2>1. <<"u", "newer">> \in K
      BY DEF Tokens
    <2> HIDE DEF K
    <2>2. QED
      BY <2>1
  <1>3. Serialize(obj[o], heap) \in Seq(K)
    BY WireIs
  <1> DEFINE v == w(newer)
  <1>4. v \in Seq(K) /\ Update(m, MergePartialFromCodedStream(x, v))
    <2> HIDE DEF K, more
    <2>1. v \in Seq(K)
      BY <1>2, <1>3
    <2>2. QED
      BY <1>1, <2>1
  <1>5. Keeps(type, E, At(m), x) /\ Good(type, E, x) /\ Room(type, E)
    BY ClearedGood, InvRoom
  <1> HIDE DEF v, x
  <1>6. Keeps(type, E, x, MergePartialFromCodedStream(x, v))
    BY <1>4, <1>5, ParseKeeps
  <1>7. Keeps(type, E, At(m), MergePartialFromCodedStream(x, v))
    BY <1>5, <1>6, KeepsMore
  <1>8. QED
    BY <1>4, <1>7, UpdateKeeps

(* A message parsed without a clear.                                       *)
LEMMA ParseMoreKeeps ==
  ASSUME IInv, NEW m \in Messages, NEW o \in Messages, ParseMore(m, o)
  PROVE  IInv'
  <1> DEFINE E == Elsewhere(m)
             y == MergePartialFromCodedStream(At(m), Serialize(obj[o], heap))
  <1>1. Good(type, E, At(m)) /\ Room(type, E) /\ Serialize(obj[o], heap) \in Seq(Tokens(type))
    BY InvGood, InvRoom, WireIs
  <1>2. Keeps(type, E, At(m), y)
    BY <1>1, ParseKeeps
  <1>3. Update(m, y)
    BY DEF ParseMore
  <1>4. QED
    BY <1>2, <1>3, UpdateKeeps

(* A message parsed from a stream that ends too soon.                      *)
LEMMA ParseCutKeeps ==
  ASSUME IInv, NEW m \in Messages, NEW o \in Messages, ParseCut(m, o)
  PROVE  IInv'
  <1> DEFINE K == Tokens(type)
             w == Serialize(obj[o], heap)
             x == Clear(At(m))
             E == Elsewhere(m)
  <1>1. w \in Seq(K)
    BY WireIs
  <1>2. PICK k \in DOMAIN w, j \in 0..Len(LeafOrder) :
           /\ w[k][1] \in {"c", "r"} => j < Len(w[k][2])
           /\ Update(m, ParseCutField(MergePartialFromCodedStream(x, SubSeq(w, 1, k - 1)), w[k], j))
    BY DEF ParseCut
  <1> DEFINE v == SubSeq(w, 1, k - 1)
             y == MergePartialFromCodedStream(x, v)
             z == ParseCutField(y, w[k], j)
  <1>3. v \in Seq(K) /\ w[k] \in K /\ j \in Nat
    <2> HIDE DEF w, K
    <2>1. k \in 1..Len(w) /\ Len(w) \in Nat
      BY <1>1, <1>2
    <2>2. \A i \in 1..(k - 1) : w[i] \in K
      BY <1>1, <2>1
    <2>3. j \in Nat
      <3>1. LeafOrder \in Seq(LeafFields)
        BY ValueAssumption
      <3>2. Len(LeafOrder) \in Nat
        BY <3>1, LenProperties
      <3>3. QED
        BY <1>2, <3>2
    <2>4. QED
      BY <1>1, <2>1, <2>2, <2>3
  <1>4. Keeps(type, E, At(m), x) /\ Good(type, E, x) /\ Room(type, E)
    BY ClearedGood, InvRoom
  <1>5. (w[k][1] \in {"c", "r"} => j < Len(w[k][2])) /\ Update(m, z)
    BY <1>2
  <1> DEFINE token == w[k]
  <1> HIDE DEF v, x, w
  <1>6. Keeps(type, E, x, y)
    BY <1>3, <1>4, ParseKeeps
  <1>7. Keeps(type, E, At(m), y) /\ Good(type, E, y)
    BY <1>4, <1>6, KeepsMore DEF Keeps
  <1>8. token \in K /\ (token[1] \in {"c", "r"} => j < Len(token[2])) /\ z = ParseCutField(y, token, j)
    BY <1>3, <1>5
  <1> HIDE DEF y, token, z
  <1>9. Keeps(type, E, y, z)
    BY <1>3, <1>4, <1>7, <1>8, ParseCutFieldKeeps
  <1>10. Keeps(type, E, At(m), z)
    BY <1>7, <1>9, KeepsMore
  <1>11. QED
    BY <1>5, <1>10, UpdateKeeps DEF z, y, token

(* MergeFrom and CopyFrom.                                                 *)
LEMMA MergeCallsKeep ==
  ASSUME IInv, NEW m \in Messages, NEW o \in Messages,
         Update(m, MergeFrom(At(m), obj[o])) \/ Update(m, CopyFrom(At(m), obj[o]))
  PROVE  IInv'
  <1> DEFINE E == Elsewhere(m)
             x == Clear(At(m))
  <1>1. Good(type, E, At(m)) /\ Room(type, E) /\ \A h : Source(type, h, obj[o])
    BY InvGood, InvRoom, MessageParts
  <1>2. Keeps(type, E, At(m), x) /\ Good(type, E, x)
    BY ClearedGood
  <1>3. Keeps(type, E, At(m), MergeFrom(At(m), obj[o]))
    BY <1>1, MergeFromKeeps
  <1>4. Keeps(type, E, At(m), CopyFrom(At(m), obj[o]))
    <2>1. CopyFrom(At(m), obj[o]) = MergeFrom(x, obj[o])
      BY DEF CopyFrom
    <2> HIDE DEF x
    <2>2. Keeps(type, E, x, MergeFrom(x, obj[o]))
      BY <1>1, <1>2, MergeFromKeeps
    <2>3. QED
      BY <1>2, <2>1, <2>2, KeepsMore
  <1>5. QED
    BY <1>3, <1>4, UpdateKeeps

(* The messages are constructed with no cell.                              *)
LEMMA IInvInit == Init => IInv
  <1> SUFFICES ASSUME Init PROVE IInv
    OBVIOUS
  <1>1. SharedCtor \in Objects
    <2>1. <<>> \in Seq({"newer"}) /\ <<>> \in Seq(GoodPhones)
      OBVIOUS
    <2>2. QED
      BY <2>1, ValueAssumption DEF SharedCtor, Objects
  <1>2. /\ SharedCtor.has = {} /\ SharedCtor.s = Shared /\ SharedCtor.c = Null
        /\ SharedCtor.t = Default /\ SharedCtor.r = <<>> /\ SharedCtor.n = 0
    BY DEF SharedCtor
  <1>3. /\ \A m \in Messages : obj[m] = SharedCtor
        /\ obj \in [Messages -> Objects] /\ type \in Types
        /\ held \in [Pointers -> Cells \cup {Null}] /\ \A k \in Pointers : held[k] = Null
    BY <1>1 DEF Init
  <1>4. /\ heap \in Heaps /\ heap.live = {}
        /\ \A p \in {Shared} \cup Cells : heap.str[p] = ""
        /\ \A p \in Cells : heap.leaf[p] = LeafNew
    BY LeafOperations, ValueAssumption DEF Init, Heaps
  <1>5. CleanHeap(heap)
    BY <1>4 DEF CleanHeap
  <1>6. \A m \in Messages : IsMessage(type, obj[m], heap) /\ Own(obj[m]) = {}
    <2> TAKE m \in Messages
    <2> DEFINE q == obj[m]
    <2>1. /\ q.has = {} /\ q.s = Shared /\ q.c = Null /\ q.t = Default
          /\ q.n <= Len(q.r) /\ DOMAIN q.r = {}
      BY <1>2, <1>3
    <2> HIDE DEF q
    <2>2. IsMessage(type, q, heap) /\ Own(q) = {}
      BY <1>4, <2>1, SharedIsNoCell DEF IsMessage, Reads, Own
    <2>3. QED
      BY <2>2 DEF q
  <1>7. HeldCells = {}
    BY <1>3, SharedIsNoCell DEF HeldCells, Pointers
  <1>8. Apart
    <2>1. \A m \in Messages : obj[m].s # obj[m].c
      BY <1>2, <1>3, SharedIsNoCell
    <2>2. UNION {Own(obj[n]) : n \in Messages} = {}
      BY <1>6
    <2>3. QED
      BY <1>3, <1>4, <1>6, <1>7, <2>1, <2>2 DEF Apart, Pointers
  <1>9. QED
    BY <1>3, <1>4, <1>5, <1>6, <1>8 DEF IInv, TypesOf

(* Every call keeps the invariant.                                         *)
LEMMA IInvStep == IInv /\ [Next]_vars => IInv'
  <1> SUFFICES ASSUME IInv, [Next]_vars PROVE IInv'
    OBVIOUS
  <1>1. CASE UNCHANGED vars
    <2>1. type' = type /\ obj' = obj /\ heap' = heap /\ held' = held
      BY <1>1 DEF vars
    <2>2. TypesOf' /\ Apart' /\ CleanHeap(heap')
      BY <2>1 DEF IInv, TypesOf, Apart, HeldCells
    <2>3. QED
      BY <2>1, <2>2 DEF IInv
  <1>2. ASSUME NEW k \in Pointers, DeleteHeld(k) PROVE IInv'
    BY <1>2, DeleteHeldKeeps
  <1>3. ASSUME NEW m \in Messages,
               ScalarCalls(m) \/ StringCalls(m) \/ SubCalls(m) \/ PhoneCalls(m)
               \/ Update(m, Clear(At(m)))
        PROVE  IInv'
    <2>1. CASE Update(m, Clear(At(m)))
      BY <2>1, ClearedGood, UpdateKeeps
    <2>2. QED
      BY <1>3, <2>1, ScalarCallsKeep, StringCallsKeep, SubCallsKeep, PhoneCallsKeep
  <1>4. ASSUME NEW m \in Messages, NEW o \in Messages \ {m},
               \/ RoomFor(m, o) /\ Update(m, MergeFrom(At(m), obj[o]))
               \/ Update(m, CopyFrom(At(m), obj[o]))
               \/ Renew(m, o) \/ Swap(m, o)
               \/ ParseFrom(m, o) \/ ParseMore(m, o) \/ ParseCut(m, o)
        PROVE  IInv'
    BY <1>4, MergeCallsKeep, RenewKeeps, SwapKeeps, ParseFromKeeps, ParseMoreKeeps, ParseCutKeeps
  <1>5. QED
    BY <1>1, <1>2, <1>3, <1>4 DEF Next

-----------------------------------------------------------------------------
(* The inductive invariant of the messages: apart from each other, and     *)
(* clean wherever nothing is read; TypeOK follows from its first part.      *)
THEOREM IInvHolds == Spec => []IInv
  <1>1. Init => IInv
    BY IInvInit
  <1>2. IInv /\ [Next]_vars => IInv'
    BY IInvStep
  <1>3. QED
    BY <1>1, <1>2, PTL DEF Spec

(* The type invariant is a part of it.                                     *)
LEMMA IInvTypeOK == IInv => TypeOK
  <1> SUFFICES ASSUME IInv PROVE TypeOK
    OBVIOUS
  <1>1. TypesOf /\ Apart
    BY DEF IInv
  <1>2. heap.live = HeldCells \cup UNION {Own(obj[n]) : n \in Messages}
    BY <1>1 DEF Apart
  <1>3. held \in [Pointers -> heap.live \cup {Null}]
    <2>1. \A k \in Pointers : held[k] \in heap.live \cup {Null}
      BY <1>1, <1>2 DEF TypesOf, HeldCells, Pointers
    <2>2. QED
      BY <1>1, <2>1 DEF TypesOf
  <1>4. \A l \in GoodLeafs : l \in Leafs
    BY DEF GoodLeafs
  <1>5. heap \in [str : [{Shared} \cup Cells -> Strings], leaf : [Cells -> Leafs], live : SUBSET Cells]
    BY <1>1, <1>4 DEF TypesOf, Heaps
  <1>6. ASSUME NEW m \in Messages
        PROVE  /\ DOMAIN obj[m] = DOMAIN SharedCtor
               /\ obj[m].has \subseteq type /\ obj[m].t \in Numbers
               /\ obj[m].s \in heap.live \cup {Shared} /\ obj[m].c \in heap.live \cup {Null}
               /\ obj[m].r \in Seq(Phones) /\ obj[m].n \in 0..Len(obj[m].r)
               /\ obj[m].u \in Seq({"newer"})
    <2>1. obj[m] \in Objects /\ IsMessage(type, obj[m], heap)
      BY <1>1 DEF TypesOf, IInv
    <2>2. Own(obj[m]) \subseteq heap.live
      BY <1>2
    <2>3. obj[m].s \in heap.live \cup {Shared} /\ obj[m].c \in heap.live \cup {Null}
      BY <2>1, <2>2 DEF Objects, Own
    <2>4. obj[m].r \in Seq(GoodPhones) /\ obj[m].n \in Nat /\ obj[m].n <= Len(obj[m].r)
      BY <2>1 DEF Objects, IsMessage, Reads
    <2>5. obj[m].r \in Seq(Phones) /\ obj[m].n \in 0..Len(obj[m].r)
      <3>1. \A p \in GoodPhones : p \in Phones
        BY DEF GoodPhones
      <3>2. QED
        BY <2>4, <3>1
    <2>6. DOMAIN obj[m] = DOMAIN SharedCtor
      BY <2>1 DEF Objects, SharedCtor
    <2>7. obj[m].has \subseteq type /\ obj[m].t \in Numbers /\ obj[m].u \in Seq({"newer"})
      BY <2>1 DEF Objects, IsMessage
    <2>8. QED
      BY <2>3, <2>5, <2>6, <2>7
  <1>7. type \in Types
    BY <1>1 DEF TypesOf
  <1>8. QED
    BY <1>3, <1>5, <1>6, <1>7 DEF TypeOK

(* One of three sets counts.                                               *)
LEMMA CountOne ==
  ASSUME NEW A, NEW B, NEW C,
         \/ (\E a : A = {a}) /\ B = {} /\ C = {}
         \/ A = {} /\ (\E b : B = {b}) /\ C = {}
         \/ A = {} /\ B = {} /\ (\E c : C = {c})
  PROVE  Cardinality(A) + Cardinality(B) + Cardinality(C) = 1
  <1>1. \A X : X = {} => Cardinality(X) = 0
    BY FS_EmptySet
  <1>2. \A X : (\E x : X = {x}) => Cardinality(X) = 1
    BY FS_Singleton
  <1>3. CASE (\E a : A = {a}) /\ B = {} /\ C = {}
    <2>1. Cardinality(A) = 1 /\ Cardinality(B) = 0 /\ Cardinality(C) = 0
      BY <1>1, <1>2, <1>3
    <2>2. QED
      BY <2>1
  <1>4. CASE A = {} /\ (\E b : B = {b}) /\ C = {}
    <2>1. Cardinality(A) = 0 /\ Cardinality(B) = 1 /\ Cardinality(C) = 0
      BY <1>1, <1>2, <1>4
    <2>2. QED
      BY <2>1
  <1>5. CASE A = {} /\ B = {} /\ (\E c : C = {c})
    <2>1. Cardinality(A) = 0 /\ Cardinality(B) = 0 /\ Cardinality(C) = 1
      BY <1>1, <1>2, <1>5
    <2>2. QED
      BY <2>1
  <1>6. QED
    BY <1>3, <1>4, <1>5

(* Nothing points to freed memory, and every object on the heap has one    *)
(* owner, a message or the caller: swaps, copies, release_, set_allocated_,*)
(* parses and destructors share none, free none twice and leak none.       *)
THEOREM SoleOwnerHolds == Spec => []SoleOwner
  <1>1. IInv => SoleOwner
    <2> SUFFICES ASSUME IInv, NEW p \in heap.live
                 PROVE  Cardinality({m \in Messages : obj[m].s = p}) + Cardinality({m \in Messages : obj[m].c = p})
                        + Cardinality({k \in Pointers : held[k] = p}) = 1
      BY IInvTypeOK DEF SoleOwner
    <2> DEFINE S == {m \in Messages : obj[m].s = p}
               C == {m \in Messages : obj[m].c = p}
               H == {k \in Pointers : held[k] = p}
    <2>1. Apart /\ TypesOf
      BY DEF IInv
    <2>2. p \in Cells
      BY <2>1 DEF TypesOf, Heaps
    <2>3. p \in HeldCells \/ \E n \in Messages : p \in Own(obj[n])
      BY <2>1 DEF Apart
    <2>4. \A m \in Messages : obj[m].s = p \/ obj[m].c = p <=> p \in Own(obj[m])
      BY <2>2 DEF Own
    <2>5. CASE p \in HeldCells
      <3>1. S = {} /\ C = {}
        BY <2>1, <2>4, <2>5 DEF Apart
      <3>2. H = {"s"} \/ H = {"c"}
        BY <2>1, <2>2, <2>5, SharedIsNoCell DEF HeldCells, Pointers, Apart
      <3> HIDE DEF S, C, H
      <3>3. Cardinality(S) + Cardinality(C) + Cardinality(H) = 1
        BY <3>1, <3>2, CountOne
      <3>4. QED
        BY <3>3 DEF S, C, H
    <2>6. ASSUME NEW n \in Messages, p \in Own(obj[n])
          PROVE  Cardinality(S) + Cardinality(C) + Cardinality(H) = 1
      <3>1. H = {}
        BY <2>1, <2>2, <2>6, HeldIs DEF Apart, Pointers
      <3>2. \A k \in Messages : k # n => obj[k].s # p /\ obj[k].c # p
        BY <2>1, <2>4, <2>6 DEF Apart
      <3>3. obj[n].s # obj[n].c
        BY <2>1 DEF Apart
      <3>4. (S = {n} /\ C = {}) \/ (S = {} /\ C = {n})
        BY <2>4, <2>6, <3>2, <3>3
      <3> HIDE DEF S, C, H
      <3>5. CASE S = {n} /\ C = {}
        BY <3>1, <3>5, CountOne
      <3>6. CASE S = {} /\ C = {n}
        BY <3>1, <3>6, CountOne
      <3>7. QED
        BY <3>4, <3>5, <3>6
    <2>7. QED
      BY <2>3, <2>5, <2>6
  <1>2. QED
    BY <1>1, IInvHolds, PTL

(* An absent field reads as its default whatever the field held before,    *)
(* and the empty string that all messages share stays empty.               *)
THEOREM AbsentIsDefaultHolds == Spec => []AbsentIsDefault
  <1>1. IInv => AbsentIsDefault
    <2> SUFFICES ASSUME IInv PROVE AbsentIsDefault
      OBVIOUS
    <2>1. heap.str[Shared] = ""
      BY DEF IInv, CleanHeap
    <2>2. \A p \in Cells : LeafReadsDefault(heap.leaf[p])
      BY DEF IInv, TypesOf, Heaps, GoodLeafs
    <2>3. ASSUME NEW m \in Messages
          PROVE  LET o == obj[m] IN
                 /\ "t" \notin o.has => o.t = Default
                 /\ "s" \notin o.has => heap.str[o.s] = ""
                 /\ IF "c" \in o.has THEN o.c # Null ELSE GetSub(o, heap) = LeafNew
                 /\ \A i \in DOMAIN o.r :
                       /\ "number" \notin o.r[i].has => o.r[i].number = ""
                       /\ "type" \notin o.r[i].has => o.r[i].type = HOME
                       /\ i > o.n => o.r[i].has = {}
      <3> DEFINE o == obj[m]
      <3>1. o \in Objects /\ Reads(o, heap)
        BY DEF IInv, TypesOf, IsMessage
      <3> HIDE DEF o
      <3>2. \A i \in DOMAIN o.r : o.r[i] \in GoodPhones
        BY <3>1 DEF Objects
      <3>3. \A i \in DOMAIN o.r : PhoneReadsDefault(o.r[i])
        BY <3>2 DEF GoodPhones
      <3>4. /\ "t" \notin o.has => o.t = Default
            /\ "s" \notin o.has => heap.str[o.s] = ""
            /\ IF "c" \in o.has THEN o.c # Null ELSE GetSub(o, heap) = LeafNew
            /\ \A i \in DOMAIN o.r : i > o.n => o.r[i].has = {}
        BY <3>1 DEF Reads, GetSub
      <3>5. QED
        BY <3>3, <3>4 DEF PhoneReadsDefault, o
    <2>4. QED
      BY <2>1, <2>2, <2>3 DEF AbsentIsDefault
  <1>2. QED
    BY <1>1, IInvHolds, PTL

-----------------------------------------------------------------------------
(* Sizes                                                                   *)

(* The size of a field.                                                    *)
TokenSize(token) == 1 + (IF token[1] \in {"c", "r"} THEN Len(token[2]) ELSE 0)

(* The size of a wire is added up field by field, that of the elements     *)
(* element by element.                                                     *)
LEMMA WireSizeFolds ==
  ASSUME NEW T, NEW w \in Seq(T), \A t \in T : t[1] \in {"c", "r"} => Len(t[2]) \in Nat
  PROVE  \E a \in [0..Len(w) -> Nat] :
            /\ a[0] = 0 /\ a[Len(w)] = WireSize(w)
            /\ \A k \in 1..Len(w) : a[k] = a[k - 1] + 1 + (IF w[k][1] \in {"c", "r"} THEN Len(w[k][2]) ELSE 0)
  <1> DEFINE step(a, t) == a + 1 + (IF t[1] \in {"c", "r"} THEN Len(t[2]) ELSE 0)
             X == Nat
             x == 0
             F == [p \in X \X T |-> step(p[1], p[2])]
             Fold(g) == g = [S \in SUBSET (DOMAIN w) |->
                                IF S = {} THEN x ELSE step(g[S \ {Max(S)}], w[Max(S)])]
             f == CHOOSE f : Fold(f)
  <1>1. WireSize(w) = f[DOMAIN w]
    BY DEF FoldLeft, MapThenFoldSet, WireSize
  <1>2. x \in X /\ w \in Seq(T) /\ \A a \in X, t \in T : step(a, t) \in X
    <2>1. ASSUME NEW a \in X, NEW t \in T PROVE step(a, t) \in X
      <3>1. CASE t[1] \in {"c", "r"}
        <4>1. Len(t[2]) \in Nat /\ step(a, t) = a + 1 + Len(t[2])
          BY <3>1, Zenon
        <4>2. PICK n \in Nat : n = Len(t[2])
          BY <4>1, Zenon
        <4>3. step(a, t) = a + 1 + n
          BY <4>1, <4>2, Zenon
        <4> HIDE DEF step
        <4>4. QED
          BY <4>3
      <3>2. CASE t[1] \notin {"c", "r"}
        <4>1. step(a, t) = a + 1 + 0
          BY <3>2, Zenon
        <4> HIDE DEF step
        <4>2. QED
          BY <4>1
      <3>3. QED
        BY <3>1, <3>2
    <2>2. QED
      BY <2>1
  <1> HIDE DEF step, X, x
  <1>3. F \in [X \X T -> X] /\ \A a \in X, t \in T : F[<<a, t>>] = step(a, t)
    BY <1>2
  <1> HIDE DEF F
  <1>4. DOMAIN w = 1..Len(w) /\ \A k \in 1..Len(w) : w[k] \in T
    BY <1>2
  <1>5. \A S \in SUBSET (1..Len(w)) : S # {} => Max(S) \in 1..Len(w) /\ S \ {Max(S)} \in SUBSET (1..Len(w))
    <2>1. Len(w) \in Nat
      BY <1>2
    <2>2. QED
      BY <2>1, MaxOfPlaces
  <1>6. PICK g \in [SUBSET (1..Len(w)) -> X] : IsFold(g, F, x, w)
    <2>1. F \in [X \X T -> X] /\ x \in X /\ w \in Seq(T)
      BY <1>2, <1>3
    <2>2. QED
      BY <2>1, FoldExists
  <1>7. Fold(g)
    <2>1. \A S \in SUBSET (1..Len(w)) : S # {} =>
             F[<<g[S \ {Max(S)}], w[Max(S)]>>] = step(g[S \ {Max(S)}], w[Max(S)])
      BY <1>3, <1>4, <1>5
    <2>2. g = [S \in SUBSET (1..Len(w)) |-> g[S]]
      OBVIOUS
    <2>3. QED
      BY <1>4, <1>6, <2>1, <2>2 DEF IsFold
  <1>8. Fold(f)
    BY <1>7, Zenon
  <1> HIDE DEF f
  <1>9. Goes(f, X, F, x, w)
    <2>1. \A S \in SUBSET (1..Len(w)) :
             f[S] = IF S = {} THEN x ELSE step(f[S \ {Max(S)}], w[Max(S)])
      BY <1>4, <1>8
    <2>2. QED
      BY <1>3, <1>4, <1>5, <2>1 DEF Goes
  <1>10. PICK a \in [0..Len(w) -> X] : IsRun(a, F, x, w, f[1..Len(w)])
    <2>1. F \in [X \X T -> X] /\ x \in X /\ w \in Seq(T)
      BY <1>2, <1>3
    <2>2. QED
      BY <1>9, <2>1, FoldGoes
  <1>11. ASSUME NEW k \in 1..Len(w) PROVE a[k] = step(a[k - 1], w[k])
    <2>1. k - 1 \in 0..Len(w)
      BY <1>2
    <2>2. QED
      BY <1>3, <1>4, <1>10, <2>1 DEF IsRun
  <1>12. a[0] = x /\ a[Len(w)] = WireSize(w)
    BY <1>1, <1>4, <1>10 DEF IsRun
  <1>13. QED
    BY <1>11, <1>12 DEF step, X, x

(* The size of the elements, as ByteSize adds it up.                       *)
PhonesSize(w) == FoldLeft(LAMBDA size, p : size + 1 + PhoneByteSize(p), 0, w)

(* It is added up element by element.                                      *)
LEMMA PhonesSizeFolds ==
  ASSUME NEW T, NEW w \in Seq(T), \A t \in T : PhoneByteSize(t) \in Nat
  PROVE  \E a \in [0..Len(w) -> Nat] :
            /\ a[0] = 0 /\ a[Len(w)] = PhonesSize(w)
            /\ \A k \in 1..Len(w) : a[k] = a[k - 1] + 1 + PhoneByteSize(w[k])
  <1> DEFINE step(a, t) == a + 1 + PhoneByteSize(t)
             X == Nat
             x == 0
             F == [p \in X \X T |-> step(p[1], p[2])]
             Fold(g) == g = [S \in SUBSET (DOMAIN w) |->
                                IF S = {} THEN x ELSE step(g[S \ {Max(S)}], w[Max(S)])]
             f == CHOOSE f : Fold(f)
  <1>1. PhonesSize(w) = f[DOMAIN w]
    BY DEF FoldLeft, MapThenFoldSet, PhonesSize
  <1>2. x \in X /\ w \in Seq(T) /\ \A a \in X, t \in T : step(a, t) \in X
    OBVIOUS
  <1> HIDE DEF step, X, x
  <1>3. F \in [X \X T -> X] /\ \A a \in X, t \in T : F[<<a, t>>] = step(a, t)
    BY <1>2
  <1> HIDE DEF F
  <1>4. DOMAIN w = 1..Len(w) /\ \A k \in 1..Len(w) : w[k] \in T
    BY <1>2
  <1>5. \A S \in SUBSET (1..Len(w)) : S # {} => Max(S) \in 1..Len(w) /\ S \ {Max(S)} \in SUBSET (1..Len(w))
    <2>1. Len(w) \in Nat
      BY <1>2
    <2>2. QED
      BY <2>1, MaxOfPlaces
  <1>6. PICK g \in [SUBSET (1..Len(w)) -> X] : IsFold(g, F, x, w)
    <2>1. F \in [X \X T -> X] /\ x \in X /\ w \in Seq(T)
      BY <1>2, <1>3
    <2>2. QED
      BY <2>1, FoldExists
  <1>7. Fold(g)
    <2>1. \A S \in SUBSET (1..Len(w)) : S # {} =>
             F[<<g[S \ {Max(S)}], w[Max(S)]>>] = step(g[S \ {Max(S)}], w[Max(S)])
      BY <1>3, <1>4, <1>5
    <2>2. g = [S \in SUBSET (1..Len(w)) |-> g[S]]
      OBVIOUS
    <2>3. QED
      BY <1>4, <1>6, <2>1, <2>2 DEF IsFold
  <1>8. Fold(f)
    BY <1>7, Zenon
  <1> HIDE DEF f
  <1>9. Goes(f, X, F, x, w)
    <2>1. \A S \in SUBSET (1..Len(w)) :
             f[S] = IF S = {} THEN x ELSE step(f[S \ {Max(S)}], w[Max(S)])
      BY <1>4, <1>8
    <2>2. QED
      BY <1>3, <1>4, <1>5, <2>1 DEF Goes
  <1>10. PICK a \in [0..Len(w) -> X] : IsRun(a, F, x, w, f[1..Len(w)])
    <2>1. F \in [X \X T -> X] /\ x \in X /\ w \in Seq(T)
      BY <1>2, <1>3
    <2>2. QED
      BY <1>9, <2>1, FoldGoes
  <1>11. ASSUME NEW k \in 1..Len(w) PROVE a[k] = step(a[k - 1], w[k])
    <2>1. k - 1 \in 0..Len(w)
      BY <1>2
    <2>2. QED
      BY <1>3, <1>4, <1>10, <2>1 DEF IsRun
  <1>12. a[0] = x /\ a[Len(w)] = PhonesSize(w)
    BY <1>1, <1>4, <1>10 DEF IsRun
  <1>13. QED
    BY <1>11, <1>12 DEF step, X, x

(* Two runs that go the same way from the same start end alike.            *)
GoAlike(n, a, b) == /\ a[0] = b[0]
                    /\ \A k \in 1..n : a[k - 1] = b[k - 1] => a[k] = b[k]

(* Runs that go alike are the same at every place.                         *)
LEMMA RunsAgree ==
  ASSUME NEW n \in Nat, NEW a, NEW b, GoAlike(n, a, b)
  PROVE  \A k \in 0..n : a[k] = b[k]
  <1> DEFINE S == {k \in 0..n : a[k] = b[k]}
  <1>1. 0 \in S /\ \A k \in 1..n : k - 1 \in S => k \in S
    BY DEF GoAlike
  <1> HIDE DEF S
  <1>2. \A k \in 0..n : k \in S
    BY <1>1, UpTo
  <1>3. QED
    BY <1>2 DEF S

(* What is written for another is counted behind it.                       *)
Sized(w) == \A k \in 1..Len(w) : w[k][1] \in {"c", "r"} => Len(w[k][2]) \in Nat

(* A sequence is one of its own elements.                                  *)
LEMMA ItsOwnRange ==
  ASSUME NEW n \in Nat, NEW w, w = [k \in 1..n |-> w[k]]
  PROVE  w \in Seq({w[k] : k \in 1..n})
  <1> DEFINE U == {w[k] : k \in 1..n}
  <1>1. \A k \in 1..n : w[k] \in U
    OBVIOUS
  <1> HIDE DEF U
  <1>2. w \in [1..n -> U]
    BY <1>1
  <1>3. w \in Seq(U)
    BY <1>2, SeqDef
  <1>4. QED
    BY <1>3 DEF U

(* The size of a wire, whatever is on it, is added up field by field.      *)
LEMMA WireSizeRuns ==
  ASSUME NEW T, NEW w \in Seq(T), Sized(w)
  PROVE  \E a \in [0..Len(w) -> Nat] :
            /\ a[0] = 0 /\ a[Len(w)] = WireSize(w)
            /\ \A k \in 1..Len(w) : a[k] = a[k - 1] + TokenSize(w[k])
  <1> DEFINE U == {w[k] : k \in 1..Len(w)}
  <1>1. Len(w) \in Nat /\ w \in Seq(U)
    <2>1. w = [k \in 1..Len(w) |-> w[k]] /\ Len(w) \in Nat
      OBVIOUS
    <2>2. QED
      BY <2>1, ItsOwnRange
  <1>2. \A t \in U : t[1] \in {"c", "r"} => Len(t[2]) \in Nat
    BY DEF Sized
  <1> HIDE DEF U
  <1>3. PICK a \in [0..Len(w) -> Nat] :
            /\ a[0] = 0 /\ a[Len(w)] = WireSize(w)
            /\ \A k \in 1..Len(w) : a[k] = a[k - 1] + 1 + (IF w[k][1] \in {"c", "r"} THEN Len(w[k][2]) ELSE 0)
    BY <1>1, <1>2, WireSizeFolds
  <1>4. ASSUME NEW k \in 1..Len(w) PROVE a[k] = a[k - 1] + TokenSize(w[k])
    <2>1. a[k - 1] \in Nat
      <3>1. k - 1 \in 0..Len(w)
        BY <1>1
      <3>2. QED
        BY <3>1, Zenon
    <2>2. a[k] = a[k - 1] + 1 + (IF w[k][1] \in {"c", "r"} THEN Len(w[k][2]) ELSE 0)
      BY <1>3
    <2>3. CASE w[k][1] \in {"c", "r"}
      <3>1. a[k] = a[k - 1] + 1 + Len(w[k][2]) /\ TokenSize(w[k]) = 1 + Len(w[k][2]) /\ Len(w[k][2]) \in Nat
        BY <2>2, <2>3, Zenon DEF TokenSize, Sized
      <3>2. PICK n \in Nat : n = Len(w[k][2])
        BY <3>1, Zenon
      <3>3. a[k] = a[k - 1] + 1 + n /\ TokenSize(w[k]) = 1 + n
        BY <3>1, <3>2, Zenon
      <3>4. QED
        BY <2>1, <3>3
    <2>4. CASE w[k][1] \notin {"c", "r"}
      <3>1. a[k] = a[k - 1] + 1 + 0 /\ TokenSize(w[k]) = 1 + 0
        BY <2>2, <2>4, Zenon DEF TokenSize
      <3>2. QED
        BY <2>1, <3>1
    <2>5. QED
      BY <2>3, <2>4
  <1>5. QED
    BY <1>3, <1>4

(* Two wires, one behind the other, are a wire.                            *)
LEMMA Joined == \A T : \A w, v \in Seq(T) : w \o v \in Seq(T)
  OBVIOUS

(* Its size is the sum of theirs.                                          *)
LEMMA WireSizeIsAdded ==
  ASSUME NEW T, NEW w \in Seq(T), NEW v \in Seq(T), Sized(w), Sized(v)
  PROVE  Sized(w \o v) /\ WireSize(w \o v) = WireSize(w) + WireSize(v) /\ WireSize(w) \in Nat
  <1>1. /\ w \o v \in Seq(T) /\ Len(w) \in Nat /\ Len(v) \in Nat /\ Len(w \o v) = Len(w) + Len(v)
        /\ \A k \in 1..Len(w) : (w \o v)[k] = w[k]
        /\ \A k \in 1..Len(v) : (w \o v)[Len(w) + k] = v[k]
    OBVIOUS
  <1>2. Sized(w \o v)
    <2>1. \A k \in 1..Len(w \o v) : k \in 1..Len(w) \/ \E i \in 1..Len(v) : k = Len(w) + i
      <3>1. \A k \in 1..Len(w \o v) : k \in 1..Len(w) \/ (k - Len(w) \in 1..Len(v) /\ k = Len(w) + (k - Len(w)))
        BY <1>1
      <3>2. QED
        BY <3>1
    <2>2. QED
      BY <1>1, <2>1 DEF Sized
  <1>3. PICK a \in [0..Len(w) -> Nat] :
            /\ a[0] = 0 /\ a[Len(w)] = WireSize(w)
            /\ \A k \in 1..Len(w) : a[k] = a[k - 1] + TokenSize(w[k])
    BY WireSizeRuns
  <1>4. PICK b \in [0..Len(v) -> Nat] :
            /\ b[0] = 0 /\ b[Len(v)] = WireSize(v)
            /\ \A k \in 1..Len(v) : b[k] = b[k - 1] + TokenSize(v[k])
    BY WireSizeRuns
  <1>5. PICK c \in [0..Len(w \o v) -> Nat] :
            /\ c[0] = 0 /\ c[Len(w \o v)] = WireSize(w \o v)
            /\ \A k \in 1..Len(w \o v) : c[k] = c[k - 1] + TokenSize((w \o v)[k])
    BY <1>1, <1>2, WireSizeRuns
  <1>6. c[Len(w)] = a[Len(w)]
    <2>1. ASSUME NEW k \in 1..Len(w), c[k - 1] = a[k - 1] PROVE c[k] = a[k]
      <3>1. k \in 1..Len(w \o v)
        BY <1>1
      <3>2. c[k] = c[k - 1] + TokenSize((w \o v)[k]) /\ a[k] = a[k - 1] + TokenSize(w[k])
        BY <1>3, <1>5, <3>1
      <3>3. QED
        BY <1>1, <2>1, <3>2
    <2>2. c[0] = a[0]
      BY <1>3, <1>5
    <2>3. \A k \in 0..Len(w) : c[k] = a[k]
      <3>1. Len(w) \in Nat
        BY <1>1
      <3>2. GoAlike(Len(w), c, a)
        BY <2>1, <2>2 DEF GoAlike
      <3>3. QED
        BY <3>1, <3>2, RunsAgree
    <2>4. QED
      BY <1>1, <2>3
  <1>7. c[Len(w) + Len(v)] = a[Len(w)] + b[Len(v)]
    <2> DEFINE d == [k \in 0..Len(v) |-> c[Len(w) + k]]
               e == [k \in 0..Len(v) |-> a[Len(w)] + b[k]]
    <2>1. ASSUME NEW k \in 1..Len(v), d[k - 1] = e[k - 1] PROVE d[k] = e[k]
      <3>1. Len(w) + k \in 1..Len(w \o v) /\ k \in 0..Len(v) /\ k - 1 \in 0..Len(v)
        BY <1>1
      <3>2. c[Len(w) + k] = c[(Len(w) + k) - 1] + TokenSize((w \o v)[Len(w) + k])
        BY <1>5, <3>1
      <3>3. (Len(w) + k) - 1 = Len(w) + (k - 1) /\ (w \o v)[Len(w) + k] = v[k]
        BY <1>1
      <3>4. c[Len(w) + (k - 1)] = a[Len(w)] + b[k - 1]
        BY <2>1, <3>1
      <3>5. b[k] = b[k - 1] + TokenSize(v[k])
        BY <1>4
      <3>6. TokenSize(v[k]) \in Nat
        BY DEF TokenSize, Sized
      <3>7. a[Len(w)] \in Nat /\ b[k - 1] \in Nat
        <4>1. Len(w) \in 0..Len(w) /\ k - 1 \in 0..Len(v)
          BY <1>1, <3>1
        <4>2. QED
          BY <4>1, Zenon
      <3>8. c[Len(w) + k] = a[Len(w)] + b[k]
        BY <3>2, <3>3, <3>4, <3>5, <3>6, <3>7
      <3>9. QED
        BY <3>1, <3>8
    <2>2. d[0] = e[0]
      <3>1. a[Len(w)] \in Nat /\ 0 \in 0..Len(v) /\ Len(w) + 0 = Len(w)
        BY <1>1, <1>3
      <3>2. QED
        BY <1>4, <1>6, <3>1
    <2> HIDE DEF d, e
    <2>3. \A k \in 0..Len(v) : d[k] = e[k]
      <3>1. Len(v) \in Nat
        BY <1>1
      <3>2. GoAlike(Len(v), d, e)
        BY <2>1, <2>2 DEF GoAlike
      <3>3. QED
        BY <3>1, <3>2, RunsAgree
    <2>4. Len(v) \in 0..Len(v)
      BY <1>1
    <2>5. QED
      BY <2>3, <2>4 DEF d, e
  <1>8. WireSize(w) \in Nat
    <2>1. Len(w) \in 0..Len(w)
      BY <1>1
    <2>2. a[Len(w)] \in Nat
      BY <2>1, Zenon
    <2>3. QED
      BY <1>3, <2>2
  <1>9. QED
    BY <1>1, <1>2, <1>3, <1>4, <1>5, <1>7, <1>8

(* Nothing has no size.                                                    *)
LEMMA EmptySize == WireSize(<<>>) = 0 /\ Sized(<<>>)
  <1>1. <<>> \in Seq(Nat) /\ Len(<<>>) = 0 /\ Sized(<<>>)
    BY EmptySeq DEF Sized
  <1>2. PICK a \in [0..Len(<<>>) -> Nat] : a[0] = 0 /\ a[Len(<<>>)] = WireSize(<<>>)
    BY <1>1, WireSizeRuns
  <1>3. QED
    BY <1>1, <1>2

(* The size of one field.                                                  *)
LEMMA OneSize ==
  ASSUME NEW token, token[1] \in {"c", "r"} => Len(token[2]) \in Nat
  PROVE  WireSize(<<token>>) = TokenSize(token) /\ Sized(<<token>>) /\ TokenSize(token) \in Nat
  <1>1. <<token>> \in Seq({token}) /\ Len(<<token>>) = 1 /\ <<token>>[1] = token
    OBVIOUS
  <1>2. Sized(<<token>>)
    BY <1>1 DEF Sized
  <1>3. PICK a \in [0..1 -> Nat] : /\ a[0] = 0 /\ a[1] = WireSize(<<token>>)
                                  /\ \A k \in 1..1 : a[k] = a[k - 1] + TokenSize(<<token>>[k])
    BY <1>1, <1>2, WireSizeRuns
  <1>4. TokenSize(token) \in Nat
    BY DEF TokenSize
  <1>5. a[1] = a[1 - 1] + TokenSize(token)
    BY <1>1, <1>3
  <1>6. QED
    BY <1>2, <1>3, <1>4, <1>5

(* A sub-message is written field by field in their order, those that are  *)
(* present and no others.                                                  *)
Done(k) == {LeafOrder[i] : i \in 1..k}

(* w has the present fields of l that are in D, each once.                 *)
WiresLeaf(l, w, D) ==
    /\ \A i \in 1..Len(w) : w[i][1] \in l.has \cap D /\ w[i] = <<w[i][1], l.v[w[i][1]]>>
    /\ \A f \in l.has \cap D : \E i \in 1..Len(w) : w[i][1] = f
    /\ IsFiniteSet(l.has \cap D) /\ Len(w) = Cardinality(l.has \cap D)

(* The order has every field once.                                         *)
LEMMA LeafOrderIs ==
  /\ LeafOrder \in Seq(LeafFields) /\ Len(LeafOrder) \in Nat
  /\ Done(0) = {} /\ Done(Len(LeafOrder)) = LeafFields
  /\ \A k \in 1..Len(LeafOrder) :
        LeafOrder[k] \in LeafFields /\ LeafOrder[k] \notin Done(k - 1) /\ Done(k) = Done(k - 1) \cup {LeafOrder[k]}
  <1>1. LeafOrder \in Seq(LeafFields) /\ \A i, j \in DOMAIN LeafOrder : LeafOrder[i] = LeafOrder[j] => i = j
    BY ValueAssumption
  <1>2. Len(LeafOrder) \in Nat /\ DOMAIN LeafOrder = 1..Len(LeafOrder)
        /\ \A k \in 1..Len(LeafOrder) : LeafOrder[k] \in LeafFields
    BY <1>1, LenProperties
  <1>3. Done(Len(LeafOrder)) = LeafFields
    BY <1>2 DEF Done, LeafFields, ToSet
  <1>4. ASSUME NEW k \in 1..Len(LeafOrder)
        PROVE  LeafOrder[k] \notin Done(k - 1) /\ Done(k) = Done(k - 1) \cup {LeafOrder[k]}
    <2>1. 1..k = (1..(k - 1)) \cup {k} /\ k \notin 1..(k - 1) /\ 1..(k - 1) \subseteq 1..Len(LeafOrder)
      BY <1>2
    <2>2. Done(k) = Done(k - 1) \cup {LeafOrder[k]}
      BY <2>1 DEF Done
    <2>3. LeafOrder[k] \notin Done(k - 1)
      BY <1>1, <1>2, <2>1 DEF Done
    <2>4. QED
      BY <2>2, <2>3
  <1>5. Done(0) = {}
    BY DEF Done
  <1>6. QED
    BY <1>1, <1>2, <1>3, <1>4, <1>5

(* LeafSerialize writes every present field once.                          *)
LEMMA LeafWires ==
  ASSUME NEW l \in GoodLeafs
  PROVE  WiresLeaf(l, LeafSerialize(l), LeafFields)
  <1> DEFINE X == Seq(LeafTokens)
             n == Len(LeafOrder)
             next(a, k) == IF LeafOrder[k] \in l.has
                           THEN Append(a[k - 1], <<LeafOrder[k], l.v[LeafOrder[k]]>>) ELSE a[k - 1]
  <1>1. \A a \in X, f \in LeafFields : (IF f \in l.has THEN Append(a, <<f, l.v[f]>>) ELSE a) \in X
    BY DEF GoodLeafs, Leafs, LeafTokens
  <1>2. n \in Nat
    BY LeafOrderIs
  <1>3. \A w \in X : Len(w) \in Nat
    OBVIOUS
  <1>3a. <<>> \in X
    OBVIOUS
  <1> HIDE DEF X
  <1>4. PICK a \in [0..n -> X] :
          /\ a[0] = <<>> /\ a[n] = LeafSerialize(l)
          /\ \A k \in 1..n : a[k] = next(a, k)
    <2>1. PICK a \in [0..Len(LeafOrder) -> X] : LeafRun(l, a)
      BY <1>1, <1>3a, LeafSerializeFolds
    <2>2. QED
      BY <2>1, Zenon DEF LeafRun
  <1> HIDE DEF n
  <1> DEFINE S == {k \in 0..n : WiresLeaf(l, a[k], Done(k))}
  <1>5. 0 \in S
    <2>1. Done(0) = {} /\ Len(a[0]) = 0 /\ 0 \in 0..n
      BY <1>2, <1>4, LeafOrderIs
    <2>2. l.has \cap Done(0) = {} /\ IsFiniteSet(l.has \cap Done(0)) /\ Cardinality(l.has \cap Done(0)) = 0
      BY <2>1, FS_EmptySet
    <2>3. QED
      BY <2>1, <2>2 DEF WiresLeaf
  <1>6. ASSUME NEW k \in 1..n, k - 1 \in S PROVE k \in S
    <2> DEFINE f == LeafOrder[k]
               D == Done(k - 1)
               w == a[k - 1]
    <2>1. k \in 0..n /\ k - 1 \in 0..n /\ WiresLeaf(l, w, D)
      BY <1>2, <1>6
    <2>2. f \notin D /\ Done(k) = D \cup {f}
      BY LeafOrderIs DEF n
    <2>3. w \in X /\ Len(w) \in Nat
      BY <1>3, <2>1
    <2>4. a[k] = IF f \in l.has THEN Append(w, <<f, l.v[f]>>) ELSE w
      BY <1>4 DEF next
    <2> HIDE DEF f, D, w
    <2>5. CASE f \notin l.has
      <3>1. l.has \cap Done(k) = l.has \cap D /\ a[k] = w
        BY <2>2, <2>4, <2>5
      <3>2. WiresLeaf(l, a[k], Done(k))
        BY <2>1, <3>1 DEF WiresLeaf
      <3>3. QED
        BY <2>1, <3>2
    <2>6. CASE f \in l.has
      <3> DEFINE v == Append(w, <<f, l.v[f]>>)
      <3>1. /\ Len(v) = Len(w) + 1 /\ v[Len(w) + 1] = <<f, l.v[f]>>
            /\ \A i \in 1..Len(w) : v[i] = w[i]
        BY <2>3 DEF X
      <3>2. \A i \in 1..Len(v) : i \in 1..Len(w) \/ i = Len(w) + 1
        BY <2>3, <3>1
      <3>3. Len(w) + 1 \in 1..Len(v) /\ 1..Len(w) \subseteq 1..Len(v)
        BY <2>3, <3>1
      <3>4. l.has \cap Done(k) = (l.has \cap D) \cup {f} /\ f \notin l.has \cap D
        BY <2>2, <2>6
      <3>5. IsFiniteSet(l.has \cap D) /\ Cardinality(l.has \cap D) = Len(w)
        BY <2>1 DEF WiresLeaf
      <3>6. IsFiniteSet(l.has \cap Done(k)) /\ Cardinality(l.has \cap Done(k)) = Len(w) + 1
        BY <3>4, <3>5, FS_AddElement
      <3>7. a[k] = v
        BY <2>4, <2>6
      <3> HIDE DEF v
      <3>8. \A i \in 1..Len(v) : v[i][1] \in l.has \cap Done(k) /\ v[i] = <<v[i][1], l.v[v[i][1]]>>
        <4>1. ASSUME NEW i \in 1..Len(w)
              PROVE  v[i][1] \in l.has \cap Done(k) /\ v[i] = <<v[i][1], l.v[v[i][1]]>>
          BY <2>1, <3>1, <3>4 DEF WiresLeaf
        <4>2. v[Len(w) + 1][1] = f /\ f \in l.has \cap Done(k)
          BY <3>1, <3>4
        <4>3. QED
          BY <3>1, <3>2, <4>1, <4>2
      <3>9. \A e \in l.has \cap Done(k) : \E i \in 1..Len(v) : v[i][1] = e
        <4>1. ASSUME NEW e \in l.has \cap D PROVE \E i \in 1..Len(v) : v[i][1] = e
          <5>1. PICK i \in 1..Len(w) : w[i][1] = e
            BY <2>1 DEF WiresLeaf
          <5>2. QED
            BY <3>1, <3>3, <5>1
        <4>2. \E i \in 1..Len(v) : v[i][1] = f
          BY <3>1, <3>3
        <4>3. QED
          BY <3>4, <4>1, <4>2
      <3>10. WiresLeaf(l, v, Done(k))
        BY <3>1, <3>6, <3>8, <3>9 DEF WiresLeaf
      <3>11. QED
        BY <2>1, <3>7, <3>10
    <2>7. QED
      BY <2>5, <2>6
  <1> HIDE DEF S
  <1>7. n \in S
    <2>1. \A k \in 0..n : k \in S
      BY <1>2, <1>5, <1>6, UpTo
    <2>2. QED
      BY <1>2, <2>1
  <1>8. WiresLeaf(l, a[n], Done(n))
    BY <1>7 DEF S
  <1>9. QED
    BY <1>4, <1>8, LeafOrderIs DEF n

(* LeafByteSize is the number of fields that are written.                  *)
LEMMA LeafSizeIs ==
  ASSUME NEW l \in GoodLeafs
  PROVE  Len(LeafSerialize(l)) = LeafByteSize(l) /\ LeafByteSize(l) \in Nat
  <1>1. l.has \cap LeafFields = l.has
    BY DEF GoodLeafs, Leafs
  <1>2. Len(LeafSerialize(l)) = Cardinality(l.has) /\ IsFiniteSet(l.has)
    BY <1>1, LeafWires DEF WiresLeaf
  <1>3. QED
    BY <1>2, FS_CardinalityType, FS_EmptySet DEF LeafByteSize

(* PhoneByteSize is the number of fields that are written.                 *)
LEMMA PhoneSizeIs ==
  ASSUME NEW p \in GoodPhones
  PROVE  Len(PhoneSerialize(p)) = PhoneByteSize(p) /\ PhoneByteSize(p) \in Nat
  <1>1. \A k : Cardinality({k}) = 1
    BY FS_Singleton
  <1>2. Cardinality({}) = 0
    BY FS_EmptySet
  <1>3. \A k : Cardinality(p.has \cap {k}) = IF k \in p.has THEN 1 ELSE 0
    <2> TAKE k
    <2>1. CASE k \in p.has
      <3>1. p.has \cap {k} = {k}
        BY <2>1
      <3>2. QED
        BY <1>1, <2>1, <3>1
    <2>2. CASE k \notin p.has
      <3>1. p.has \cap {k} = {}
        BY <2>2
      <3>2. QED
        BY <1>2, <2>2, <3>1
    <2>3. QED
      BY <2>1, <2>2
  <1>4. PhoneByteSize(p) = (IF "number" \in p.has THEN 1 ELSE 0) + (IF "type" \in p.has THEN 1 ELSE 0)
    BY <1>3 DEF PhoneByteSize
  <1>5. Len(PhoneSerialize(p)) = (IF "number" \in p.has THEN 1 ELSE 0) + (IF "type" \in p.has THEN 1 ELSE 0)
    BY DEF PhoneSerialize
  <1>6. QED
    BY <1>4, <1>5

(* The size of the sub-message's part of the wire.                         *)
LEMMA SubSizeIs ==
  ASSUME NEW o \in Objects, NEW h \in Heaps, GetSub(o, h) \in GoodLeafs
  PROVE  /\ Sized(SerializeSub(o, h))
         /\ WireSize(SerializeSub(o, h)) = IF "c" \in o.has THEN 1 + LeafByteSize(GetSub(o, h)) ELSE 0
  <1> DEFINE l == GetSub(o, h)
             token == <<"c", LeafSerialize(l)>>
  <1>1. Len(LeafSerialize(l)) = LeafByteSize(l) /\ LeafByteSize(l) \in Nat
    BY LeafSizeIs
  <1>2. CASE "c" \in o.has
    <2>1. token[1] = "c" /\ token[2] = LeafSerialize(l)
      OBVIOUS
    <2>2. SerializeSub(o, h) = <<token>>
      BY <1>2 DEF SerializeSub
    <2> HIDE DEF token
    <2>3. WireSize(<<token>>) = TokenSize(token) /\ Sized(<<token>>)
      BY <1>1, <2>1, OneSize
    <2>4. TokenSize(token) = 1 + LeafByteSize(l)
      BY <1>1, <2>1, Zenon DEF TokenSize
    <2>5. QED
      BY <1>2, <2>2, <2>3, <2>4
  <1>3. CASE "c" \notin o.has
    BY <1>3, EmptySize DEF SerializeSub
  <1>4. QED
    BY <1>2, <1>3

(* The size of the elements' part is what ByteSize adds up.                *)
LEMMA RowSizeIs ==
  ASSUME NEW o \in Objects, o.n <= Len(o.r)
  PROVE  Sized(WireR(o)) /\ WireSize(WireR(o)) = PhonesSize(PhonesOf(o)) /\ PhonesSize(PhonesOf(o)) \in Nat
  <1> DEFINE w == WireR(o)
             p == PhonesOf(o)
             T == {w[k] : k \in 1..o.n}
  <1>1. /\ o.n \in Nat /\ Len(w) = o.n /\ \A k \in 1..o.n : w[k] = <<"r", PhoneSerialize(o.r[k])>>
    BY DEF Objects, WireR
  <1>2. w \in Seq(T)
    <2>1. w = [k \in 1..o.n |-> w[k]]
      BY DEF WireR
    <2> HIDE DEF w
    <2>2. QED
      BY <1>1, <2>1, ItsOwnRange
  <1>3. p \in Seq(GoodPhones) /\ Len(p) = o.n /\ \A k \in 1..o.n : p[k] = o.r[k] /\ p[k] \in GoodPhones
    BY PhonesOfIs
  <1>4. \A k \in 1..o.n : /\ w[k][1] = "r" /\ w[k][2] = PhoneSerialize(p[k])
                          /\ Len(w[k][2]) = PhoneByteSize(p[k]) /\ PhoneByteSize(p[k]) \in Nat
    BY <1>1, <1>3, PhoneSizeIs
  <1>5. Sized(w)
    BY <1>1, <1>4 DEF Sized
  <1> HIDE DEF w, p, T
  <1>6. PICK a \in [0..Len(w) -> Nat] :
            /\ a[0] = 0 /\ a[Len(w)] = WireSize(w)
            /\ \A k \in 1..Len(w) : a[k] = a[k - 1] + TokenSize(w[k])
    BY <1>2, <1>5, WireSizeRuns
  <1>7. PICK b \in [0..Len(p) -> Nat] :
            /\ b[0] = 0 /\ b[Len(p)] = PhonesSize(p)
            /\ \A k \in 1..Len(p) : b[k] = b[k - 1] + 1 + PhoneByteSize(p[k])
    BY <1>3, PhoneSizeIs, PhonesSizeFolds
  <1>8. ASSUME NEW k \in 1..o.n, a[k - 1] = b[k - 1] PROVE a[k] = b[k]
    <2>1. TokenSize(w[k]) = 1 + PhoneByteSize(p[k])
      BY <1>4, Zenon DEF TokenSize
    <2>2. a[k] = a[k - 1] + TokenSize(w[k]) /\ b[k] = b[k - 1] + 1 + PhoneByteSize(p[k])
      BY <1>1, <1>3, <1>6, <1>7
    <2>3. b[k - 1] \in Nat /\ PhoneByteSize(p[k]) \in Nat
      <3>1. k - 1 \in 0..Len(p)
        BY <1>1, <1>3
      <3>2. QED
        BY <1>4, <3>1, Zenon
    <2>4. a[k] = b[k - 1] + (1 + PhoneByteSize(p[k]))
      BY <1>8, <2>1, <2>2, Zenon
    <2>5. PICK i \in Nat, j \in Nat : i = b[k - 1] /\ j = PhoneByteSize(p[k])
      BY <2>3, Zenon
    <2>6. a[k] = i + (1 + j) /\ b[k] = i + 1 + j
      BY <2>2, <2>4, <2>5, Zenon
    <2>7. QED
      BY <2>6
  <1>9. GoAlike(o.n, a, b)
    BY <1>6, <1>7, <1>8 DEF GoAlike
  <1>10. a[o.n] = b[o.n] /\ b[o.n] \in Nat
    <2>1. o.n \in 0..o.n /\ o.n \in 0..Len(p)
      BY <1>1, <1>3
    <2>2. \A k \in 0..o.n : a[k] = b[k]
      BY <1>1, <1>9, RunsAgree
    <2>3. QED
      BY <2>1, <2>2, Zenon
  <1>11. QED
    BY <1>1, <1>3, <1>5, <1>6, <1>7, <1>10 DEF w, p

(* The size of the unknown fields' part is their number.                   *)
LEMMA UnknownSizeIs ==
  ASSUME NEW o \in Objects
  PROVE  Sized(WireU(o)) /\ WireSize(WireU(o)) = Len(o.u) /\ Len(o.u) \in Nat
  <1> DEFINE w == WireU(o)
             T == {w[k] : k \in 1..Len(o.u)}
  <1>1. /\ Len(o.u) \in Nat /\ Len(w) = Len(o.u) /\ \A k \in 1..Len(o.u) : w[k] = <<"u", o.u[k]>>
    BY DEF Objects, WireU
  <1>2. w \in Seq(T)
    <2>1. w = [k \in 1..Len(o.u) |-> w[k]]
      <3>1. DOMAIN o.u = 1..Len(o.u)
        BY DEF Objects
      <3>2. QED
        BY <3>1 DEF WireU
    <2> HIDE DEF w
    <2>2. QED
      BY <1>1, <2>1, ItsOwnRange
  <1>3. \A k \in 1..Len(w) : w[k][1] = "u"
    BY <1>1
  <1>4. Sized(w)
    BY <1>3 DEF Sized
  <1> HIDE DEF w, T
  <1>5. PICK a \in [0..Len(w) -> Nat] :
            /\ a[0] = 0 /\ a[Len(w)] = WireSize(w)
            /\ \A k \in 1..Len(w) : a[k] = a[k - 1] + TokenSize(w[k])
    BY <1>2, <1>4, WireSizeRuns
  <1> DEFINE b == [k \in 0..Len(w) |-> k]
  <1>6. ASSUME NEW k \in 1..Len(w), a[k - 1] = b[k - 1] PROVE a[k] = b[k]
    <2>1. TokenSize(w[k]) = 1 + 0
      BY <1>3, Zenon DEF TokenSize
    <2>2. a[k] = a[k - 1] + TokenSize(w[k]) /\ k \in 0..Len(w) /\ k - 1 \in 0..Len(w)
      BY <1>1, <1>5
    <2>3. QED
      BY <1>6, <2>1, <2>2
  <1>7. GoAlike(Len(w), a, b)
    <2>1. a[0] = b[0]
      <3>1. 0 \in 0..Len(w)
        BY <1>1
      <3>2. QED
        BY <1>5, <3>1
    <2> HIDE DEF b
    <2>2. QED
      BY <1>6, <2>1 DEF GoAlike
  <1>8. a[Len(w)] = Len(w)
    <2>1. \A k \in 0..Len(w) : a[k] = b[k]
      <3> HIDE DEF b
      <3>1. QED
        BY <1>1, <1>7, RunsAgree
    <2>2. Len(w) \in 0..Len(w)
      BY <1>1
    <2>3. QED
      BY <2>1, <2>2
  <1>9. QED
    BY <1>1, <1>4, <1>5, <1>8 DEF w

(* The sizes of the parts are those that ByteSize adds.                    *)
LEMMA ByteSizeIs ==
  ASSUME NEW T, NEW o \in Objects, NEW h \in Heaps, o.has \subseteq T, o.n <= Len(o.r)
  PROVE  ByteSize(o, h) = WireSize(Serialize(o, h))
  <1> DEFINE t == WireT(o)
             s == WireS(o, h)
             c == SerializeSub(o, h)
             r == WireR(o)
             u == WireU(o)
             K == Tokens(T)
             one(k) == IF k \in o.has THEN 1 ELSE 0
             sub == IF "c" \in o.has THEN 1 + LeafByteSize(GetSub(o, h)) ELSE 0
  <1>1. /\ t \in Seq(K) /\ s \in Seq(K) /\ c \in Seq(K) /\ r \in Seq(K) /\ u \in Seq(K)
        /\ GetSub(o, h) \in GoodLeafs
        /\ Serialize(o, h) = t \o s \o c \o r \o u
    BY WireParts
  <1>2. Sized(t) /\ WireSize(t) = one("t")
    <2>1. WireSize(<<<<"t", o.t>>>>) = 1 /\ Sized(<<<<"t", o.t>>>>)
      <3>1. \A v : v[1] = "t" => v[1] \notin {"c", "r"} /\ TokenSize(v) = 1 + 0
        BY DEF TokenSize
      <3>2. <<"t", o.t>>[1] = "t"
        OBVIOUS
      <3>3. QED
        BY <3>1, <3>2, OneSize
    <2>2. QED
      BY <2>1, EmptySize DEF WireT
  <1>3. Sized(s) /\ WireSize(s) = one("s")
    <2>1. WireSize(<<<<"s", h.str[o.s]>>>>) = 1 /\ Sized(<<<<"s", h.str[o.s]>>>>)
      <3>1. \A v : v[1] = "s" => v[1] \notin {"c", "r"} /\ TokenSize(v) = 1 + 0
        BY DEF TokenSize
      <3>2. <<"s", h.str[o.s]>>[1] = "s"
        OBVIOUS
      <3>3. QED
        BY <3>1, <3>2, OneSize
    <2>2. QED
      BY <2>1, EmptySize DEF WireS
  <1>4. Sized(c) /\ WireSize(c) = sub
    BY <1>1, SubSizeIs
  <1>5. Sized(r) /\ WireSize(r) = PhonesSize(PhonesOf(o)) /\ PhonesSize(PhonesOf(o)) \in Nat
    BY RowSizeIs
  <1>6. Sized(u) /\ WireSize(u) = Len(o.u) /\ Len(o.u) \in Nat
    BY UnknownSizeIs
  <1>7. sub \in Nat /\ one("t") \in Nat /\ one("s") \in Nat
    BY <1>1, LeafSizeIs
  <1>8. ByteSize(o, h) = one("t") + one("s") + sub + PhonesSize(PhonesOf(o)) + Len(o.u)
    <2>1. \A k : Cardinality({k}) = 1 /\ Cardinality({}) = 0
      BY FS_Singleton, FS_EmptySet
    <2>2. \A k : k \in o.has => o.has \cap {k} = {k}
      OBVIOUS
    <2>3. \A k : k \notin o.has => o.has \cap {k} = {}
      OBVIOUS
    <2>4. (IF o.has \cap Chunk0 = {} THEN 0 ELSE Cardinality(o.has \cap {"t"}) + Cardinality(o.has \cap {"s"}))
          = one("t") + one("s")
      <3>1. Cardinality(o.has \cap {"t"}) = one("t") /\ Cardinality(o.has \cap {"s"}) = one("s")
        <4>1. ASSUME NEW k PROVE Cardinality(o.has \cap {k}) = one(k)
          <5>1. CASE k \in o.has
            BY <2>1, <2>2, <5>1, Zenon
          <5>2. CASE k \notin o.has
            BY <2>1, <2>3, <5>2, Zenon
          <5>3. QED
            BY <5>1, <5>2
        <4> HIDE DEF one
        <4>2. QED
          BY <4>1
      <3>2. o.has \cap Chunk0 = {} => "t" \notin o.has /\ "s" \notin o.has
        BY DEF Chunk0
      <3>3. QED
        BY <3>1, <3>2
    <2>5. (IF o.has \cap Chunk1 = {} THEN 0 ELSE 1 + LeafByteSize(GetSub(o, h))) = sub
      BY DEF Chunk1
    <2> HIDE DEF one, sub
    <2>6. ByteSize(o, h) = (one("t") + one("s")) + sub + PhonesSize(PhonesOf(o)) + Len(o.u)
      BY <2>4, <2>5, Zenon DEF ByteSize, PhonesSize
    <2>7. QED
      BY <2>6
  <1> HIDE DEF t, s, c, r, u, K, one, sub
  <1>9. t \o s \in Seq(K) /\ Sized(t \o s) /\ WireSize(t \o s) = one("t") + one("s")
    BY <1>1, <1>2, <1>3, WireSizeIsAdded
  <1>10. /\ (t \o s) \o c \in Seq(K) /\ Sized((t \o s) \o c)
         /\ WireSize((t \o s) \o c) = WireSize(t \o s) + WireSize(c)
    BY <1>1, <1>4, <1>9, WireSizeIsAdded, Joined
  <1>11. /\ ((t \o s) \o c) \o r \in Seq(K) /\ Sized(((t \o s) \o c) \o r)
         /\ WireSize(((t \o s) \o c) \o r) = WireSize((t \o s) \o c) + WireSize(r)
    BY <1>1, <1>5, <1>10, WireSizeIsAdded, Joined
  <1>12. WireSize((((t \o s) \o c) \o r) \o u) = WireSize(((t \o s) \o c) \o r) + WireSize(u)
    BY <1>1, <1>6, <1>11, WireSizeIsAdded
  <1>13. WireSize((((t \o s) \o c) \o r) \o u)
         = (one("t") + one("s")) + sub + PhonesSize(PhonesOf(o)) + Len(o.u)
    BY <1>4, <1>5, <1>6, <1>9, <1>10, <1>11, <1>12, Zenon
  <1>14. QED
    BY <1>1, <1>7, <1>8, <1>13

(* The size ByteSize() computes is the size of what is then written, for   *)
(* every message in every state: the arrays SerializeToArray fills are as  *)
(* long as they are said to be.                                            *)
THEOREM ByteSizeHolds == Spec => []ByteSizeIsWireSize
  <1>1. IInv => ByteSizeIsWireSize
    BY MessageParts, ByteSizeIs DEF ByteSizeIsWireSize
  <1>2. QED
    BY <1>1, IInvHolds, PTL

-----------------------------------------------------------------------------
(* What a message shows                                                    *)

(* What the getters of a message o on a heap h show, field by field.       *)
TValue(o) == IF "t" \in o.has THEN {o.t} ELSE {}
SValue(o, h) == IF "s" \in o.has THEN {h.str[o.s]} ELSE {}
CValue(o, h) == IF "c" \in o.has THEN {LeafValue(GetSub(o, h))} ELSE {}

(* What those of an element show.                                          *)
PhoneValue(p) == [number |-> IF "number" \in p.has THEN {p.number} ELSE {},
                  type |-> IF "type" \in p.has THEN {p.type} ELSE {}]

(* What those of the elements in use show.                                 *)
RValue(o) == [i \in 1..o.n |-> PhoneValue(o.r[i])]

(* A message of the abstract specification.                                *)
Content(t, s, c, r, u) == [t |-> t, s |-> s, c |-> c, r |-> r, u |-> u]

(* The one that o on h stands for.                                         *)
ValueOf(o, h) == Content(TValue(o), SValue(o, h), CValue(o, h), RValue(o), o.u)

(* x shows these fields.                                                   *)
Shows(x, t, s, c, r, u) == /\ TValue(x.o) = t /\ SValue(x.o, x.h) = s /\ CValue(x.o, x.h) = c
                           /\ RValue(x.o) = r /\ x.o.u = u

(* set_ shows the number, and changes no other field.                      *)
LEMMA SetScalarShows ==
  ASSUME NEW T, NEW E, NEW x, Good(T, E, x), NEW v \in Numbers,
         NEW t, NEW s, NEW c, NEW r, NEW u, Shows(x, t, s, c, r, u)
  PROVE  Shows(SetScalar(x, v), {v}, s, c, r, u)
  <1>1. PICK o \in Objects, h \in Heaps : o = x.o /\ h = x.h /\ x = [o |-> o, h |-> h]
    BY PartsOf
  <1> DEFINE q == [o EXCEPT !.has = @ \cup {"t"}, !.t = v]
  <1>2. SetScalar(x, v) = [o |-> q, h |-> h]
    <2>1. SetScalar(x, v) = [x EXCEPT !.o.has = @ \cup {"t"}, !.o.t = v]
      BY DEF SetScalar
    <2>2. QED
      BY <1>1, <2>1
  <1>3. /\ q.has = o.has \cup {"t"} /\ q.t = v /\ q.s = o.s /\ q.c = o.c
        /\ q.r = o.r /\ q.n = o.n /\ q.u = o.u
    BY DEF Objects
  <1> HIDE DEF q
  <1>4. QED
    BY <1>1, <1>2, <1>3 DEF Shows, TValue, SValue, CValue, RValue, GetSub

(* clear_ shows no number.                                                 *)
LEMMA ClearScalarShows ==
  ASSUME NEW T, NEW E, NEW x, Good(T, E, x),
         NEW t, NEW s, NEW c, NEW r, NEW u, Shows(x, t, s, c, r, u)
  PROVE  Shows(ClearScalar(x), {}, s, c, r, u)
  <1>1. PICK o \in Objects, h \in Heaps : o = x.o /\ h = x.h /\ x = [o |-> o, h |-> h]
    BY PartsOf
  <1> DEFINE q == [o EXCEPT !.t = Default, !.has = @ \ {"t"}]
  <1>2. ClearScalar(x) = [o |-> q, h |-> h]
    <2>1. ClearScalar(x) = [x EXCEPT !.o.t = Default, !.o.has = @ \ {"t"}]
      BY DEF ClearScalar
    <2>2. QED
      BY <1>1, <2>1
  <1>3. /\ q.has = o.has \ {"t"} /\ q.s = o.s /\ q.c = o.c
        /\ q.r = o.r /\ q.n = o.n /\ q.u = o.u
    BY DEF Objects
  <1> HIDE DEF q
  <1>4. QED
    BY <1>1, <1>2, <1>3 DEF Shows, TValue, SValue, CValue, RValue, GetSub

(* set_ shows the string, whether or not its cell is new.                  *)
LEMMA SetStringShows ==
  ASSUME NEW T, NEW E, NEW x, Room(T, E), Good(T, E, x), "s" \in T, NEW v \in Strings,
         NEW t, NEW s, NEW c, NEW r, NEW u, Shows(x, t, s, c, r, u)
  PROVE  Shows(SetString(x, v), t, {v}, c, r, u)
  <1>1. PICK o \in Objects, h \in Heaps : o = x.o /\ h = x.h /\ x = [o |-> o, h |-> h]
    BY PartsOf
  <1> DEFINE p == IF o.s = Shared THEN Alloc(h) ELSE o.s
             q == [o EXCEPT !.has = @ \cup {"s"}, !.s = p]
             y == MutableString(x)
  <1>2. y.o = q /\ y.h = [h EXCEPT !.live = @ \cup {p}] /\ y = [o |-> y.o, h |-> y.h]
    <2>1. x.o = o /\ x.h = h /\ x = [o |-> o, h |-> h]
      BY <1>1
    <2>2. y = [x EXCEPT !.o.has = @ \cup {"s"}, !.o.s = p, !.h.live = @ \cup {p}]
      BY <2>1 DEF MutableString
    <2>3. y = [o |-> q, h |-> [h EXCEPT !.live = @ \cup {p}]]
      <3> HIDE DEF p, y
      <3>1. QED
        BY <2>1, <2>2
    <2>4. QED
      BY <2>3
  <1>3. p \in Cells
    <2>1. CASE o.s = Shared
      <3>1. Alloc(h) \in Cells \ h.live
        BY <1>1, <2>1, PartsOf, AllocFinds DEF Good
      <3>2. QED
        BY <2>1, <3>1
    <2>2. CASE o.s # Shared
      BY <2>2 DEF Objects
    <2>3. QED
      BY <2>1, <2>2
  <1> HIDE DEF p
  <1>4. /\ q.has = o.has \cup {"s"} /\ q.s = p /\ q.t = o.t /\ q.c = o.c
        /\ q.r = o.r /\ q.n = o.n /\ q.u = o.u
    BY DEF Objects
  <1>5. /\ y.h.leaf = h.leaf /\ y.h.str = h.str /\ h.str \in [{Shared} \cup Cells -> Strings]
    BY <1>2 DEF Heaps
  <1>6. SetString(x, v) = [o |-> q, h |-> [y.h EXCEPT !.str[p] = v]]
    <2>1. SetString(x, v) = [y EXCEPT !.h.str[y.o.s] = v]
      BY DEF SetString
    <2> HIDE DEF y, q
    <2>2. QED
      BY <1>2, <1>4, <2>1
  <1>7. y.h \in Heaps
    <2>1. y.h = [h EXCEPT !.live = @ \cup {p}]
      BY <1>2
    <2> HIDE DEF y
    <2>2. QED
      BY <1>3, <2>1 DEF Heaps
  <1> DEFINE g == [y.h EXCEPT !.str[p] = v]
  <1>8. g.str[p] = v /\ g.leaf = h.leaf
    <2> HIDE DEF y
    <2>1. g.str = [y.h.str EXCEPT ![p] = v] /\ g.leaf = y.h.leaf
      BY <1>7 DEF Heaps
    <2>2. QED
      BY <1>3, <1>5, <2>1
  <1>9. SetString(x, v).o = q /\ SetString(x, v).h = g
    BY <1>6
  <1> HIDE DEF q, g, y
  <1>10. QED
    BY <1>1, <1>4, <1>8, <1>9 DEF Shows, TValue, SValue, CValue, RValue, GetSub

(* clear_ shows no string.                                                 *)
LEMMA ClearStringShows ==
  ASSUME NEW T, NEW E, NEW x, Good(T, E, x),
         NEW t, NEW s, NEW c, NEW r, NEW u, Shows(x, t, s, c, r, u)
  PROVE  Shows(ClearString(x), t, {}, c, r, u)
  <1> DEFINE e == EmptyOwnString(x)
  <1>1. Good(T, E, e) /\ e.o = x.o /\ e.h.leaf = x.h.leaf
    BY EmptyOwnStringKeeps DEF Keeps
  <1>2. ClearString(x) = [e EXCEPT !.o.has = @ \ {"s"}]
    BY DEF ClearString
  <1> HIDE DEF e
  <1>3. PICK o \in Objects, h \in Heaps : o = e.o /\ h = e.h /\ e = [o |-> o, h |-> h]
    BY <1>1, PartsOf
  <1> DEFINE q == [o EXCEPT !.has = @ \ {"s"}]
  <1>4. ClearString(x) = [o |-> q, h |-> h]
    BY <1>2, <1>3
  <1>5. /\ q.has = o.has \ {"s"} /\ q.s = o.s /\ q.t = o.t /\ q.c = o.c
        /\ q.r = o.r /\ q.n = o.n /\ q.u = o.u
    BY DEF Objects
  <1> HIDE DEF q
  <1>6. QED
    BY <1>1, <1>3, <1>4, <1>5 DEF Shows, TValue, SValue, CValue, RValue, GetSub

(* Sub-messages                                                            *)
LEMMA LeafValues ==
  /\ LeafValue(LeafNew) = MV!EmptyLeaf
  /\ \A l, k \in GoodLeafs : LeafValue(LeafMerge(l, k)) = MV!MergeLeafs(LeafValue(l), LeafValue(k))
  /\ \A l \in GoodLeafs : MV!MergeLeafs(MV!EmptyLeaf, LeafValue(l)) = LeafValue(l)
  <1>1. LeafValue(LeafNew) = MV!EmptyLeaf
    BY DEF LeafValue, LeafNew, MV!EmptyLeaf
  <1>2. ASSUME NEW l \in GoodLeafs, NEW k \in GoodLeafs
        PROVE  LeafValue(LeafMerge(l, k)) = MV!MergeLeafs(LeafValue(l), LeafValue(k))
    <2> DEFINE m == LeafMerge(l, k)
    <2>1. /\ m.has = l.has \cup k.has
          /\ \A f \in LeafFields : m.v[f] = IF f \in k.has THEN k.v[f] ELSE l.v[f]
      <3>1. CASE k.has = {}
        BY <3>1 DEF LeafMerge
      <3>2. CASE k.has # {}
        BY <3>2 DEF LeafMerge
      <3>3. QED
        BY <3>1, <3>2
    <2> HIDE DEF m
    <2>2. QED
      BY <2>1 DEF LeafValue, MV!MergeLeafs, MV!Or, m
  <1>3. ASSUME NEW l \in GoodLeafs PROVE MV!MergeLeafs(MV!EmptyLeaf, LeafValue(l)) = LeafValue(l)
    BY DEF LeafValue, MV!EmptyLeaf, MV!MergeLeafs, MV!Or
  <1>4. QED
    BY <1>1, <1>2, <1>3

(* mutable_ gives the sub-message that was shown or an empty one, and what *)
(* it becomes is shown.                                                    *)
LEMMA SubShows ==
  ASSUME NEW T, NEW E, NEW x, Room(T, E), Good(T, E, x), "c" \in T,
         NEW t, NEW s, NEW c, NEW r, NEW u, Shows(x, t, s, c, r, u)
  PROVE  LET y == MutableSub(x) IN
         /\ Keeps(T, E, x, y) /\ Good(T, E, y) /\ y.o.c \in Cells /\ "c" \in y.o.has
         /\ y.h.leaf[y.o.c] \in GoodLeafs
         /\ c = {} => y.h.leaf[y.o.c] = LeafNew
         /\ c # {} => c = {LeafValue(y.h.leaf[y.o.c])}
         /\ \A l \in GoodLeafs : Shows(WithSub(y, l), t, s, {LeafValue(l)}, r, u)
  <1> DEFINE y == MutableSub(x)
  <1>1. /\ Keeps(T, E, x, y) /\ Good(T, E, y) /\ y.o.c \in Cells /\ "c" \in y.o.has
        /\ y.h.leaf = x.h.leaf /\ (x.o.c = Null => y.h.leaf[y.o.c] = LeafNew)
    BY MutableSubIs DEF Keeps
  <1>2. PICK o \in Objects, h \in Heaps : o = x.o /\ h = x.h /\ x = [o |-> o, h |-> h]
    BY PartsOf
  <1>3. Reads(o, h)
    BY <1>2 DEF Good
  <1> DEFINE p == IF o.c = Null THEN Alloc(h) ELSE o.c
             q == [o EXCEPT !.has = @ \cup {"c"}, !.c = p]
             g == [h EXCEPT !.live = @ \cup {p}]
  <1>4. y = [o |-> q, h |-> g]
    <2>1. y = [x EXCEPT !.o.has = @ \cup {"c"}, !.o.c = p, !.h.live = @ \cup {p}]
      BY <1>2 DEF MutableSub
    <2> HIDE DEF p, y
    <2>2. QED
      BY <1>2, <2>1
  <1>5. o.c # Null => p = o.c
    OBVIOUS
  <1> HIDE DEF p
  <1>6. /\ q.c = p /\ q.has = o.has \cup {"c"} /\ q.s = o.s /\ q.t = o.t
        /\ q.r = o.r /\ q.n = o.n /\ q.u = o.u
    BY DEF Objects
  <1>7. g.str = h.str /\ g.leaf = h.leaf
    BY DEF Heaps
  <1> HIDE DEF q, g
  <1>8. y.o = q /\ y.h = g
    BY <1>4
  <1> HIDE DEF y
  <1>9. y.h.leaf[y.o.c] \in GoodLeafs /\ y.h \in Heaps
    BY <1>1, PartsOf DEF Heaps
  <1>10. c = {} => y.h.leaf[y.o.c] = LeafNew
    <2>1. c = {} => "c" \notin o.has
      BY <1>2 DEF Shows, CValue
    <2>2. ("c" \notin o.has /\ o.c # Null) => h.leaf[o.c] = LeafNew
      BY <1>3 DEF Reads
    <2>3. QED
      BY <1>1, <1>2, <1>5, <1>6, <1>8, <2>1, <2>2
  <1>11. c # {} => c = {LeafValue(y.h.leaf[y.o.c])}
    <2>1. c # {} => "c" \in o.has /\ c = {LeafValue(GetSub(o, h))}
      BY <1>2 DEF Shows, CValue
    <2>2. "c" \in o.has => GetSub(o, h) = h.leaf[o.c] /\ o.c # Null
      BY <1>3 DEF Reads, GetSub
    <2>3. QED
      BY <1>5, <1>6, <1>7, <1>8, <2>1, <2>2
  <1>12. ASSUME NEW l \in GoodLeafs PROVE Shows(WithSub(y, l), t, s, {LeafValue(l)}, r, u)
    <2> DEFINE k == [g EXCEPT !.leaf[p] = l]
               z == WithSub(y, l)
    <2>1. z.o = q /\ z.h = k
      <3>1. z = [y EXCEPT !.h.leaf[p] = l]
        BY <1>6, <1>8 DEF WithSub
      <3> HIDE DEF z
      <3>2. z.o = y.o /\ z.h = [y.h EXCEPT !.leaf[p] = l]
        BY <1>4, <3>1
      <3>3. QED
        BY <1>8, <3>2
    <2>2. k.str = h.str /\ k.leaf[p] = l
      BY <1>1, <1>6, <1>7, <1>8, <1>9 DEF Heaps
    <2>3. p # Null
      BY <1>1, <1>6, <1>8, SharedIsNoCell
    <2> HIDE DEF k, z
    <2>4. Shows(z, t, s, {LeafValue(l)}, r, u)
      BY <1>2, <1>6, <2>1, <2>2, <2>3 DEF Shows, TValue, SValue, CValue, RValue, GetSub
    <2>5. QED
      BY <2>4 DEF z
  <1>13. QED
    BY <1>1, <1>9, <1>10, <1>11, <1>12 DEF y

(* clear_ shows no sub-message.                                            *)
LEMMA ClearSubShows ==
  ASSUME NEW T, NEW E, NEW x, Good(T, E, x),
         NEW t, NEW s, NEW c, NEW r, NEW u, Shows(x, t, s, c, r, u)
  PROVE  Shows(ClearSub(x), t, s, {}, r, u)
  <1> DEFINE e == EmptySub(x)
  <1>1. Good(T, E, e) /\ e.o = x.o /\ e.h.str = x.h.str
    BY EmptySubKeeps DEF Keeps
  <1>2. ClearSub(x) = [e EXCEPT !.o.has = @ \ {"c"}]
    BY DEF ClearSub
  <1> HIDE DEF e
  <1>3. PICK o \in Objects, h \in Heaps : o = e.o /\ h = e.h /\ e = [o |-> o, h |-> h]
    BY <1>1, PartsOf
  <1> DEFINE q == [o EXCEPT !.has = @ \ {"c"}]
  <1>4. ClearSub(x) = [o |-> q, h |-> h]
    BY <1>2, <1>3
  <1>5. /\ q.has = o.has \ {"c"} /\ q.s = o.s /\ q.t = o.t /\ q.c = o.c
        /\ q.r = o.r /\ q.n = o.n /\ q.u = o.u
    BY DEF Objects
  <1> HIDE DEF q
  <1>6. QED
    BY <1>1, <1>3, <1>4, <1>5 DEF Shows, TValue, SValue, CValue, RValue, GetSub

(* Elements                                                                *)
(* A new element shows nothing, and what is merged into it is copied.      *)
LEMMA PhoneValues ==
  /\ PhoneValue(PhoneNew) = MV!EmptyPhone
  /\ \A p \in GoodPhones : PhoneMerge(PhoneNew, p) = p
  <1>1. PhoneValue(PhoneNew) = MV!EmptyPhone
    BY DEF PhoneValue, PhoneNew, MV!EmptyPhone
  <1>2. ASSUME NEW p \in GoodPhones PROVE PhoneMerge(PhoneNew, p) = p
    <2>1. PICK a \in SUBSET {"number", "type"}, b \in Strings, k \in PhoneTypes :
                p = [has |-> a, number |-> b, type |-> k]
      BY DEF GoodPhones, Phones
    <2>2. p.has = a /\ p.number = b /\ p.type = k
      BY <2>1
    <2>3. ("number" \notin a => b = "") /\ ("type" \notin a => k = HOME)
      BY <2>2, Zenon DEF GoodPhones, PhoneReadsDefault
    <2> DEFINE n == IF "number" \in a THEN PhoneSetNumber(PhoneNew, b) ELSE PhoneNew
    <2>4. n = [has |-> a \cap {"number"}, number |-> b, type |-> HOME]
      <3>1. CASE "number" \in a
        <4>1. a \cap {"number"} = {"number"} /\ {} \cup {"number"} = {"number"}
          BY <3>1
        <4>2. QED
          BY <3>1, <4>1 DEF PhoneSetNumber, PhoneNew
      <3>2. CASE "number" \notin a
        <4>1. a \cap {"number"} = {}
          BY <3>2
        <4>2. QED
          BY <2>3, <3>2, <4>1, Zenon DEF PhoneNew
      <3>3. QED
        BY <3>1, <3>2
    <2>5. PhoneMerge(PhoneNew, p) = IF "type" \in a THEN PhoneSetType(n, k) ELSE n
      BY <2>2 DEF PhoneMerge
    <2> HIDE DEF n
    <2>6. CASE "type" \in a
      <3>1. (a \cap {"number"}) \cup {"type"} = a
        BY <2>6
      <3>2. PhoneSetType(n, k) = [has |-> (a \cap {"number"}) \cup {"type"}, number |-> b, type |-> k]
        <4>1. n.has = a \cap {"number"}
          BY <2>4
        <4>2. PhoneSetType(n, k) = [[n EXCEPT !.has = n.has \cup {"type"}] EXCEPT !.type = k]
          BY DEF PhoneSetType
        <4> DEFINE hs == n.has \cup {"type"}
        <4>3. [n EXCEPT !.has = hs] = [has |-> hs, number |-> b, type |-> HOME]
          <5> HIDE DEF hs
          <5>1. QED
            BY <2>4
        <4>4. QED
          BY <4>1, <4>2, <4>3
      <3>3. QED
        BY <2>1, <2>5, <2>6, <3>1, <3>2
    <2>7. CASE "type" \notin a
      <3>1. a \cap {"number"} = a
        BY <2>7
      <3>2. QED
        BY <2>1, <2>3, <2>4, <2>5, <2>7, <3>1, Zenon
    <2>8. QED
      BY <2>6, <2>7
  <1>3. QED
    BY <1>1, <1>2

(* What an element may show.                                               *)
PhoneContents == {PhoneValue(p) : p \in GoodPhones}

(* As many elements are shown as are in use.                               *)
LEMMA RValueIs ==
  ASSUME NEW o \in Objects, o.n <= Len(o.r)
  PROVE  /\ RValue(o) \in Seq(PhoneContents) /\ Len(RValue(o)) = o.n /\ o.n \in Nat
         /\ \A i \in 1..o.n : RValue(o)[i] = PhoneValue(o.r[i])
  <1>1. o.n \in Nat /\ \A i \in 1..o.n : o.r[i] \in GoodPhones
    <2>1. o.r \in Seq(GoodPhones) /\ o.n \in Nat
      BY DEF Objects
    <2>2. QED
      BY <2>1
  <1>2. \A i \in 1..o.n : PhoneValue(o.r[i]) \in PhoneContents
    BY <1>1 DEF PhoneContents
  <1>3. QED
    BY <1>1, <1>2 DEF RValue

(* add_ shows one element more, and that one empty, whatever the element   *)
(* was used for before.                                                    *)
LEMMA AddPhoneShows ==
  ASSUME NEW T, NEW E, NEW x, Good(T, E, x),
         NEW t, NEW s, NEW c, NEW r, NEW u, Shows(x, t, s, c, r, u)
  PROVE  Shows(AddPhone(x), t, s, c, Append(r, MV!EmptyPhone), u)
  <1> DEFINE y == AddPhone(x)
  <1>1. /\ y.o.n = x.o.n + 1 /\ y.o.r[y.o.n] = PhoneNew
        /\ \A i \in 1..x.o.n : y.o.r[i] = x.o.r[i]
        /\ y.h = x.h /\ y.o.has = x.o.has /\ y.o.t = x.o.t /\ y.o.s = x.o.s /\ y.o.c = x.o.c
        /\ y.o.u = x.o.u
    BY AddPhoneIs
  <1> HIDE DEF y
  <1>2. x.o \in Objects /\ x.o.n <= Len(x.o.r)
    BY PartsOf DEF Good, Reads
  <1>3. r = RValue(x.o) /\ r \in Seq(PhoneContents) /\ Len(r) = x.o.n /\ x.o.n \in Nat
    BY <1>2, RValueIs DEF Shows
  <1>4. RValue(y.o) = Append(r, MV!EmptyPhone)
    <2> DEFINE e == MV!EmptyPhone
               z == RValue(y.o)
    <2>1. z = [i \in 1..(x.o.n + 1) |-> z[i]] /\ \A i \in 1..(x.o.n + 1) : z[i] = PhoneValue(y.o.r[i])
      BY <1>1 DEF RValue
    <2>2. ASSUME NEW i \in 1..(x.o.n + 1) PROVE z[i] = Append(r, e)[i]
      <3>1. CASE i = x.o.n + 1
        <4>1. Append(r, e)[i] = e
          BY <1>3, <3>1
        <4>2. QED
          BY <1>1, <2>1, <3>1, <4>1, PhoneValues
      <3>2. CASE i \in 1..x.o.n
        <4>1. Append(r, e)[i] = r[i]
          BY <1>3, <3>2
        <4>2. r[i] = PhoneValue(x.o.r[i])
          BY <1>2, <1>3, <3>2, RValueIs
        <4>3. QED
          BY <1>1, <2>1, <3>2, <4>1, <4>2
      <3>3. QED
        BY <1>3, <3>1, <3>2
    <2> HIDE DEF z, e
    <2>3. Append(r, e) = [i \in 1..(x.o.n + 1) |-> Append(r, e)[i]]
      BY <1>3
    <2>4. z = Append(r, e)
      BY <2>1, <2>2, <2>3
    <2>5. QED
      BY <2>4 DEF z, e
  <1>5. Shows(y, t, s, c, Append(r, MV!EmptyPhone), u)
    BY <1>1, <1>4 DEF Shows, TValue, SValue, CValue, GetSub
  <1>6. QED
    BY <1>5 DEF y

(* An element that changes is shown in its place.                          *)
LEMMA ElementShows ==
  ASSUME NEW T, NEW E, NEW x, Good(T, E, x), NEW i \in 1..x.o.n, NEW p \in GoodPhones,
         NEW t, NEW s, NEW c, NEW r, NEW u, Shows(x, t, s, c, r, u)
  PROVE  /\ Shows(WithElement(x, i, p), t, s, c, [r EXCEPT ![i] = PhoneValue(p)], u)
         /\ i \in DOMAIN r
  <1> DEFINE y == WithElement(x, i, p)
  <1>1. /\ y.o.n = x.o.n /\ y.o.r = [x.o.r EXCEPT ![i] = p]
        /\ y.h = x.h /\ y.o.has = x.o.has /\ y.o.t = x.o.t /\ y.o.s = x.o.s /\ y.o.c = x.o.c
        /\ y.o.u = x.o.u
    BY ElementBecomes
  <1> HIDE DEF y
  <1>2. x.o \in Objects /\ x.o.n <= Len(x.o.r) /\ x.o.r \in Seq(GoodPhones) /\ x.o.n \in Nat
    BY PartsOf DEF Good, Reads, Objects
  <1>3. r = RValue(x.o)
    BY DEF Shows
  <1>4. RValue(y.o) = [r EXCEPT ![i] = PhoneValue(p)]
    <2>1. \A k \in 1..x.o.n : y.o.r[k] = IF k = i THEN p ELSE x.o.r[k]
      BY <1>1, <1>2
    <2>2. QED
      BY <1>1, <1>3, <2>1 DEF RValue
  <1>5. Shows(y, t, s, c, [r EXCEPT ![i] = PhoneValue(p)], u)
    BY <1>1, <1>4 DEF Shows, TValue, SValue, CValue, GetSub
  <1>6. QED
    BY <1>3, <1>5 DEF y, RValue

(* clear_ shows no elements.                                               *)
LEMMA ClearPhonesShows ==
  ASSUME NEW T, NEW E, NEW x, Good(T, E, x),
         NEW t, NEW s, NEW c, NEW r, NEW u, Shows(x, t, s, c, r, u)
  PROVE  Shows(ClearPhones(x), t, s, c, <<>>, u)
  <1> DEFINE y == ClearPhones(x)
  <1>1. /\ y.o.n = 0 /\ y.h = x.h /\ y.o.has = x.o.has /\ y.o.t = x.o.t /\ y.o.s = x.o.s
        /\ y.o.c = x.o.c /\ y.o.u = x.o.u
    BY ClearPhonesIs
  <1> HIDE DEF y
  <1>2. RValue(y.o) = <<>>
    BY <1>1 DEF RValue
  <1>3. Shows(y, t, s, c, <<>>, u)
    BY <1>1, <1>2 DEF Shows, TValue, SValue, CValue, GetSub
  <1>4. QED
    BY <1>3 DEF y

(* A new element filled in.                                                *)
LEMMA LastReplaced ==
  ASSUME NEW S, NEW r \in Seq(S), NEW a, NEW b
  PROVE  [Append(r, a) EXCEPT ![Len(r) + 1] = b] = Append(r, b)
  <1> DEFINE n == Len(r) + 1
             x == [Append(r, a) EXCEPT ![n] = b]
             y == Append(r, b)
  <1>1. Append(r, a) = [i \in 1..n |-> Append(r, a)[i]] /\ y = [i \in 1..n |-> y[i]] /\ n \in 1..n
    <2> DEFINE U == S \cup {a, b}
    <2>1. r \in Seq(U) /\ a \in U /\ b \in U
      OBVIOUS
    <2> HIDE DEF U
    <2>2. Append(r, a) \in Seq(U) /\ Append(r, b) \in Seq(U) /\ Len(Append(r, a)) = n /\ Len(Append(r, b)) = n
          /\ Len(r) \in Nat
      BY <2>1
    <2>3. n \in 1..n /\ \A z \in Seq(U) : Len(z) = n => z = [i \in 1..n |-> z[i]]
      BY <2>2
    <2> HIDE DEF n
    <2>4. QED
      BY <2>2, <2>3, Zenon
  <1>2. \A i \in 1..n : i # n => Append(r, a)[i] = y[i]
    OBVIOUS
  <1>3. y[n] = b
    OBVIOUS
  <1> HIDE DEF n, y
  <1>4. x = [i \in 1..n |-> x[i]]
    BY <1>1
  <1>5. \A i \in 1..n : x[i] = y[i]
    BY <1>1, <1>2, <1>3
  <1> HIDE DEF x
  <1>6. x = y
    BY <1>1, <1>4, <1>5
  <1>7. QED
    BY <1>6 DEF x, y, n

(* What an added element becomes is shown behind the others.               *)
LEMMA AddedShows ==
  ASSUME NEW T, NEW E, NEW x, Good(T, E, x), NEW p \in GoodPhones,
         NEW t, NEW s, NEW c, NEW r, NEW u, Shows(x, t, s, c, r, u)
  PROVE  LET y == AddPhone(x) IN
         /\ Shows(WithElement(y, y.o.n, p), t, s, c, Append(r, PhoneValue(p)), u)
         /\ y.o.r[y.o.n] = PhoneNew
  <1> DEFINE y == AddPhone(x)
             e == MV!EmptyPhone
  <1>1. Good(T, E, y) /\ y.o.n = x.o.n + 1 /\ y.o.r[y.o.n] = PhoneNew
    BY AddPhoneIs DEF Keeps
  <1>2. Shows(y, t, s, c, Append(r, e), u)
    BY AddPhoneShows
  <1>3. r \in Seq(PhoneContents) /\ Len(r) = x.o.n /\ x.o.n \in Nat
    <2>1. x.o \in Objects /\ x.o.n <= Len(x.o.r)
      BY PartsOf DEF Good, Reads
    <2>2. QED
      BY <2>1, RValueIs DEF Shows
  <1>4. y.o.n \in 1..y.o.n
    BY <1>1, <1>3
  <1> HIDE DEF y, e
  <1>5. Shows(WithElement(y, y.o.n, p), t, s, c, [Append(r, e) EXCEPT ![y.o.n] = PhoneValue(p)], u)
    BY <1>1, <1>2, <1>4, ElementShows
  <1>6. [Append(r, e) EXCEPT ![Len(r) + 1] = PhoneValue(p)] = Append(r, PhoneValue(p))
    BY <1>3, LastReplaced
  <1>7. y.o.n = Len(r) + 1
    BY <1>1, <1>3
  <1>8. QED
    BY <1>1, <1>5, <1>6, <1>7 DEF y

(* An element merged is a copy: it is merged into a cleared one.           *)
LEMMA MergePhoneShows ==
  ASSUME NEW T, NEW E, NEW x, Good(T, E, x), NEW p \in GoodPhones,
         NEW t, NEW s, NEW c, NEW r, NEW u, Shows(x, t, s, c, r, u)
  PROVE  Shows(MergePhone(x, p), t, s, c, Append(r, PhoneValue(p)), u)
  <1> DEFINE y == AddPhone(x)
  <1>1. Shows(WithElement(y, y.o.n, p), t, s, c, Append(r, PhoneValue(p)), u) /\ y.o.r[y.o.n] = PhoneNew
    BY AddedShows
  <1>2. MergePhone(x, p) = WithElement(y, y.o.n, PhoneMerge(y.o.r[y.o.n], p))
    BY DEF MergePhone, WithElement
  <1> HIDE DEF y
  <1>3. QED
    BY <1>1, <1>2, PhoneValues

(* What is parsed from a wire, or a part of one                            *)
Heads(w, k) == {w[i][1] : i \in 1..k}

(* The kinds of the first k fields of a wire.                              *)
LEMMA HeadsGrow ==
  ASSUME NEW w, NEW n \in Nat
  PROVE  Heads(w, 0) = {} /\ \A k \in 1..n : Heads(w, k) = Heads(w, k - 1) \cup {w[k][1]}
  <1>1. Heads(w, 0) = {}
    BY DEF Heads
  <1>2. ASSUME NEW k \in 1..n PROVE Heads(w, k) = Heads(w, k - 1) \cup {w[k][1]}
    <2>1. 1..k = (1..(k - 1)) \cup {k}
      OBVIOUS
    <2>2. QED
      BY <2>1 DEF Heads
  <1>3. QED
    BY <1>1, <1>2

(* m is l with the fields D of b.                                          *)
Takes(l, b, m, D) == /\ m \in GoodLeafs /\ m.has = l.has \cup D
                     /\ \A f \in LeafFields : m.v[f] = IF f \in D THEN b.v[f] ELSE l.v[f]

(* Parsing fields of b takes them.                                         *)
LEMMA LeafParseTakes ==
  ASSUME NEW l \in GoodLeafs, NEW b \in GoodLeafs, NEW w \in Seq(LeafTokens),
         \A i \in 1..Len(w) : w[i] = <<w[i][1], b.v[w[i][1]]>>
  PROVE  Takes(l, b, LeafParse(l, w), Heads(w, Len(w)))
  <1>1. \A a \in GoodLeafs, t \in LeafTokens : LeafSet(a, t[1], t[2]) \in GoodLeafs
    BY LeafOperations DEF LeafTokens
  <1>2. PICK a \in [0..Len(w) -> GoodLeafs] :
          /\ a[0] = l /\ a[Len(w)] = LeafParse(l, w)
          /\ \A k \in 1..Len(w) : a[k] = LeafSet(a[k - 1], w[k][1], w[k][2])
    <2>1. PICK a \in [0..Len(w) -> GoodLeafs] : LeafParseRun(l, w, a)
      BY <1>1, LeafParseFolds
    <2>2. QED
      BY <2>1, Zenon DEF LeafParseRun
  <1> DEFINE n == Len(w)
             S == {k \in 0..n : Takes(l, b, a[k], Heads(w, k))}
  <1>3. n \in Nat /\ \A k \in 1..n : w[k][1] \in LeafFields
    BY DEF LeafTokens
  <1> HIDE DEF n
  <1>4. 0 \in S
    <2>1. 0 \in 0..n /\ Heads(w, 0) = {}
      BY <1>3, HeadsGrow, SMTT(30)
    <2>2. QED
      BY <1>2, <2>1 DEF Takes
  <1>5. ASSUME NEW k \in 1..n, k - 1 \in S PROVE k \in S
    <2> DEFINE m == a[k - 1]
               f == w[k][1]
               D == Heads(w, k - 1)
    <2>1. Takes(l, b, m, D) /\ k \in 0..n /\ f \in LeafFields
      BY <1>3, <1>5
    <2>2. Heads(w, k) = D \cup {f}
      BY <1>3, HeadsGrow
    <2>3. a[k] = LeafSet(m, f, b.v[f])
      <3>1. w[k] = <<f, b.v[f]>>
        BY DEF n
      <3>2. w[k][2] = b.v[f]
        BY <3>1
      <3>3. QED
        BY <1>2, <3>2 DEF n
    <2>4. a[k] \in GoodLeafs
      BY <1>2, <2>1 DEF n
    <2> HIDE DEF m, f, D
    <2>5. a[k].has = m.has \cup {f} /\ \A g \in LeafFields : a[k].v[g] = IF g = f THEN b.v[f] ELSE m.v[g]
      <3>1. m.v \in [LeafFields -> Numbers] /\ m \in [has : SUBSET LeafFields, v : [LeafFields -> Numbers]]
        BY <2>1 DEF Takes, GoodLeafs, Leafs
      <3>2. LeafSet(m, f, b.v[f]) = [m EXCEPT !.has = m.has \cup {f}, !.v = [m.v EXCEPT ![f] = b.v[f]]]
        BY <3>1 DEF LeafSet
      <3>3. a[k].has = m.has \cup {f} /\ a[k].v = [m.v EXCEPT ![f] = b.v[f]]
        BY <2>3, <3>1, <3>2
      <3>4. QED
        BY <2>1, <3>1, <3>3
    <2>6. Takes(l, b, a[k], D \cup {f})
      BY <2>1, <2>4, <2>5 DEF Takes
    <2>7. QED
      BY <2>1, <2>2, <2>6
  <1> HIDE DEF S
  <1>6. n \in S
    <2>1. \A k \in 0..n : k \in S
      BY <1>3, <1>4, <1>5, UpTo
    <2>2. QED
      BY <1>3, <2>1
  <1>7. QED
    BY <1>2, <1>6 DEF S, n

(* The same of an element.                                                 *)
IsOfPhone(p, token) == token = <<"number", p.number>> \/ token = <<"type", p.type>>

(* q has the fields D of p.                                                *)
TakesPhone(p, q, D) == /\ q \in GoodPhones /\ q.has = D
                       /\ "number" \in D => q.number = p.number
                       /\ "type" \in D => q.type = p.type

(* Parsing fields of p takes them.                                         *)
LEMMA PhoneParseTakes ==
  ASSUME NEW p \in GoodPhones, NEW w \in Seq(PhoneTokens), \A i \in 1..Len(w) : IsOfPhone(p, w[i])
  PROVE  TakesPhone(p, PhoneParse(PhoneNew, w), Heads(w, Len(w)))
  <1>1. \A a \in GoodPhones, t \in PhoneTokens :
           (IF t[1] = "number" THEN PhoneSetNumber(a, t[2]) ELSE PhoneSetType(a, t[2])) \in GoodPhones
    BY PhoneOperations DEF PhoneTokens
  <1>2. PhoneNew \in GoodPhones /\ PhoneNew.has = {}
    BY PhoneOperations
  <1>3. PICK a \in [0..Len(w) -> GoodPhones] :
          /\ a[0] = PhoneNew /\ a[Len(w)] = PhoneParse(PhoneNew, w)
          /\ \A k \in 1..Len(w) : a[k] = (IF w[k][1] = "number" THEN PhoneSetNumber(a[k - 1], w[k][2])
                                          ELSE PhoneSetType(a[k - 1], w[k][2]))
    BY <1>1, <1>2, PhoneParseFolds
  <1> DEFINE n == Len(w)
             S == {k \in 0..n : TakesPhone(p, a[k], Heads(w, k))}
  <1>4. n \in Nat
    OBVIOUS
  <1> HIDE DEF n
  <1>5. 0 \in S
    <2>1. 0 \in 0..n /\ Heads(w, 0) = {}
      BY <1>4, HeadsGrow
    <2>2. QED
      BY <1>2, <1>3, <2>1 DEF TakesPhone
  <1>6. ASSUME NEW k \in 1..n, k - 1 \in S PROVE k \in S
    <2> DEFINE m == a[k - 1]
               D == Heads(w, k - 1)
    <2>1. TakesPhone(p, m, D) /\ k \in 0..n
      BY <1>4, <1>6
    <2>2. Heads(w, k) = D \cup {w[k][1]}
      BY <1>4, HeadsGrow
    <2>3. a[k] \in GoodPhones
      BY <1>3, <2>1 DEF n
    <2>4. IsOfPhone(p, w[k]) /\ a[k] = (IF w[k][1] = "number" THEN PhoneSetNumber(m, w[k][2])
                                        ELSE PhoneSetType(m, w[k][2]))
      BY <1>3 DEF n
    <2> HIDE DEF m, D
    <2>5. PICK hs, num, typ : m = [has |-> hs, number |-> num, type |-> typ]
      BY <2>1 DEF TakesPhone, GoodPhones, Phones
    <2>6. CASE w[k] = <<"number", p.number>>
      <3>1. w[k][1] = "number" /\ w[k][2] = p.number
        BY <2>6
      <3>2. a[k] = PhoneSetNumber(m, p.number)
        BY <2>4, <3>1
      <3>3. a[k] = [has |-> hs \cup {"number"}, number |-> p.number, type |-> typ]
        BY <2>5, <3>2 DEF PhoneSetNumber
      <3>4. TakesPhone(p, a[k], D \cup {"number"})
        BY <2>1, <2>3, <2>5, <3>3 DEF TakesPhone
      <3>5. QED
        BY <2>1, <2>2, <3>1, <3>4
    <2>7. CASE w[k] = <<"type", p.type>>
      <3>1. w[k][1] = "type" /\ w[k][2] = p.type
        BY <2>7
      <3>2. a[k] = PhoneSetType(m, p.type)
        BY <2>4, <3>1
      <3>3. a[k] = [has |-> hs \cup {"type"}, number |-> num, type |-> p.type]
        BY <2>5, <3>2 DEF PhoneSetType
      <3>4. TakesPhone(p, a[k], D \cup {"type"})
        BY <2>1, <2>3, <2>5, <3>3 DEF TakesPhone
      <3>5. QED
        BY <2>1, <2>2, <3>1, <3>4
    <2>8. QED
      BY <2>4, <2>6, <2>7 DEF IsOfPhone
  <1> HIDE DEF S
  <1>7. n \in S
    <2>1. \A k \in 0..n : k \in S
      BY <1>4, <1>5, <1>6, UpTo
    <2>2. QED
      BY <1>4, <2>1
  <1>8. QED
    BY <1>3, <1>7 DEF S, n

(* A whole leaf and a whole element are read as they were.                 *)
LEMMA LeafOnTheWire ==
  ASSUME NEW b \in GoodLeafs
  PROVE  LET w == LeafSerialize(b) IN
         /\ w \in Seq(LeafTokens) /\ Len(w) \in Nat /\ Heads(w, Len(w)) = b.has
         /\ \A i \in 1..Len(w) : w[i] = <<w[i][1], b.v[w[i][1]]>> /\ w[i][1] \in b.has
  <1> DEFINE w == LeafSerialize(b)
  <1>1. w \in Seq(LeafTokens)
    BY LeafSerializeIs
  <1>2. WiresLeaf(b, w, LeafFields) /\ b.has \cap LeafFields = b.has
    BY LeafWires DEF GoodLeafs, Leafs
  <1> HIDE DEF w
  <1>3. \A i \in 1..Len(w) : w[i] = <<w[i][1], b.v[w[i][1]]>> /\ w[i][1] \in b.has
    BY <1>2 DEF WiresLeaf
  <1>4. \A f \in b.has : \E i \in 1..Len(w) : w[i][1] = f
    BY <1>2 DEF WiresLeaf
  <1>5. Heads(w, Len(w)) = b.has
    BY <1>3, <1>4 DEF Heads
  <1>6. Len(w) \in Nat
    BY <1>1
  <1>7. QED
    BY <1>1, <1>3, <1>5, <1>6 DEF w

(* An element's wire has its present fields.                               *)
LEMMA PhoneOnTheWire ==
  ASSUME NEW p \in GoodPhones
  PROVE  LET w == PhoneSerialize(p) IN
         /\ w \in Seq(PhoneTokens) /\ Len(w) \in Nat /\ Heads(w, Len(w)) = p.has
         /\ \A i \in 1..Len(w) : IsOfPhone(p, w[i]) /\ w[i][1] \in p.has
  <1> DEFINE a == <<"number", p.number>>
             b == <<"type", p.type>>
             w == PhoneSerialize(p)
  <1>1. w = (IF "number" \in p.has THEN <<a>> ELSE <<>>) \o (IF "type" \in p.has THEN <<b>> ELSE <<>>)
    BY DEF PhoneSerialize
  <1>2. a[1] = "number" /\ b[1] = "type" /\ p.has \subseteq {"number", "type"}
    BY DEF GoodPhones, Phones
  <1>3. w \in Seq(PhoneTokens)
    BY PhoneSerializeIs
  <1>4. Len(w) \in Nat
    BY <1>3
  <1>5. /\ Heads(w, Len(w)) = p.has
        /\ \A i \in 1..Len(w) : (w[i] = a \/ w[i] = b) /\ w[i][1] \in p.has
    <2> HIDE DEF a, b, w
    <2>1. CASE "number" \in p.has /\ "type" \in p.has
      <3>1. w = <<a>> \o <<b>>
        BY <1>1, <2>1, Zenon
      <3>2. Len(w) = 2 /\ w[1] = a /\ w[2] = b
        BY <3>1
      <3>3. QED
        BY <1>2, <2>1, <3>2 DEF Heads
    <2>2. CASE "number" \in p.has /\ "type" \notin p.has
      <3>1. w = <<a>>
        BY <1>1, <2>2
      <3>2. Len(w) = 1 /\ w[1] = a
        BY <3>1
      <3>3. QED
        BY <1>2, <2>2, <3>2 DEF Heads
    <2>3. CASE "number" \notin p.has /\ "type" \in p.has
      <3>1. w = <<b>>
        BY <1>1, <2>3
      <3>2. Len(w) = 1 /\ w[1] = b
        BY <3>1
      <3>3. QED
        BY <1>2, <2>3, <3>2 DEF Heads
    <2>4. CASE "number" \notin p.has /\ "type" \notin p.has
      <3>1. w = <<>>
        BY <1>1, <2>4
      <3>2. QED
        BY <1>2, <2>4, <3>1 DEF Heads
    <2>5. QED
      BY <2>1, <2>2, <2>3, <2>4
  <1>6. QED
    BY <1>3, <1>4, <1>5 DEF IsOfPhone

(* A sub-message merged, or read, into what is there.                      *)
IsUnder(l, c) == /\ l \in GoodLeafs /\ (c = {} => l = LeafNew) /\ (c # {} => c = {LeafValue(l)})

(* Merging b, or parsing all that is present of it, shows the merged value.*)
LEMMA MergedSub ==
  ASSUME NEW l, NEW c, IsUnder(l, c), NEW b \in GoodLeafs
  PROVE  /\ MV!MergeSub(c, {LeafValue(b)}) = {MV!MergeLeafs(LeafValue(l), LeafValue(b))}
         /\ LeafValue(LeafMerge(l, b)) = MV!MergeLeafs(LeafValue(l), LeafValue(b))
         /\ \A m : Takes(l, b, m, b.has) => LeafValue(m) = MV!MergeLeafs(LeafValue(l), LeafValue(b))
  <1> DEFINE v == LeafValue(b)
             x == LeafValue(l)
  <1>1. ASSUME c = {} PROVE MV!MergeSub(c, {v}) = {MV!MergeLeafs(x, v)}
    <2>1. MV!MergeSub(c, {v}) = {v}
      BY <1>1 DEF MV!MergeSub, MV!Or
    <2>2. x = MV!EmptyLeaf /\ MV!MergeLeafs(MV!EmptyLeaf, v) = v
      BY <1>1, LeafValues DEF IsUnder
    <2>3. QED
      BY <2>1, <2>2
  <1>2. ASSUME c # {} PROVE MV!MergeSub(c, {v}) = {MV!MergeLeafs(x, v)}
    <2>1. c = {x}
      BY <1>2 DEF IsUnder
    <2> HIDE DEF x, v
    <2>2. MV!MergeSub({x}, {v}) = {MV!MergeLeafs(x, v)}
      <3> DEFINE K == MV!MergeSub({x}, {v})
                 f == MV!MergeLeafs(x, v)
      <3>3. \A e : e \in K <=> e = f
        BY DEF MV!MergeSub
      <3> HIDE DEF K, f
      <3>4. K = {f}
        BY <3>3
      <3>5. QED
        BY <3>4 DEF K, f
    <2>3. QED
      BY <2>1, <2>2
  <1>3. LeafValue(LeafMerge(l, b)) = MV!MergeLeafs(x, v)
    BY LeafValues DEF IsUnder
  <1>4. ASSUME NEW m, Takes(l, b, m, b.has) PROVE LeafValue(m) = MV!MergeLeafs(x, v)
    BY <1>4 DEF Takes, LeafValue, MV!MergeLeafs, MV!Or
  <1>5. QED
    BY <1>1, <1>2, <1>3, <1>4

(* mutable_ and a merge into it.                                           *)
LEMMA MergedSubShows ==
  ASSUME NEW T, NEW E, NEW x, Room(T, E), Good(T, E, x), "c" \in T, NEW b \in GoodLeafs,
         NEW t, NEW s, NEW c, NEW r, NEW u, Shows(x, t, s, c, r, u)
  PROVE  LET y == MutableSub(x) IN
         Shows(WithSub(y, LeafMerge(y.h.leaf[y.o.c], b)), t, s, MV!MergeSub(c, {LeafValue(b)}), r, u)
  <1> DEFINE y == MutableSub(x)
             l == y.h.leaf[y.o.c]
  <1>1. IsUnder(l, c) /\ \A k \in GoodLeafs : Shows(WithSub(y, k), t, s, {LeafValue(k)}, r, u)
    BY SubShows, ZenonT(60) DEF IsUnder
  <1> HIDE DEF l
  <1>2. LeafMerge(l, b) \in GoodLeafs
    BY <1>1, LeafOperations DEF IsUnder
  <1>3. Shows(WithSub(y, LeafMerge(l, b)), t, s, {LeafValue(LeafMerge(l, b))}, r, u)
    BY <1>1, <1>2
  <1> HIDE DEF y
  <1>4. Shows(WithSub(y, LeafMerge(l, b)), t, s, MV!MergeSub(c, {LeafValue(b)}), r, u)
    BY <1>1, <1>3, MergedSub
  <1>5. QED
    BY <1>4 DEF y, l

(* A sub-message on the wire is merged into the one that is there.         *)
LEMMA ParseSubShows ==
  ASSUME NEW T, NEW E, NEW x, Room(T, E), Good(T, E, x), "c" \in T, NEW b \in GoodLeafs,
         NEW t, NEW s, NEW c, NEW r, NEW u, Shows(x, t, s, c, r, u)
  PROVE  Shows(ParseSub(x, LeafSerialize(b)), t, s, MV!MergeSub(c, {LeafValue(b)}), r, u)
  <1> DEFINE y == MutableSub(x)
             l == y.h.leaf[y.o.c]
             w == LeafSerialize(b)
             m == LeafParse(l, w)
  <1>1. IsUnder(l, c) /\ \A k \in GoodLeafs : Shows(WithSub(y, k), t, s, {LeafValue(k)}, r, u)
    BY SubShows, ZenonT(60) DEF IsUnder
  <1>2. ParseSub(x, w) = WithSub(y, m)
    BY DEF ParseSub, WithSub
  <1> HIDE DEF l, y
  <1>3. /\ w \in Seq(LeafTokens) /\ Heads(w, Len(w)) = b.has
        /\ \A i \in 1..Len(w) : w[i] = <<w[i][1], b.v[w[i][1]]>>
    BY LeafOnTheWire
  <1> HIDE DEF w
  <1>4. l \in GoodLeafs
    BY <1>1 DEF IsUnder
  <1>5. Takes(l, b, m, b.has)
    BY <1>3, <1>4, LeafParseTakes
  <1> HIDE DEF m
  <1>6. m \in GoodLeafs
    BY <1>5 DEF Takes
  <1>7. {LeafValue(m)} = MV!MergeSub(c, {LeafValue(b)})
    BY <1>1, <1>5, MergedSub
  <1>8. Shows(WithSub(y, m), t, s, {LeafValue(m)}, r, u)
    BY <1>1, <1>6
  <1>9. Shows(ParseSub(x, w), t, s, MV!MergeSub(c, {LeafValue(b)}), r, u)
    BY <1>2, <1>7, <1>8
  <1>10. QED
    BY <1>9 DEF w

(* Of a sub-message that was cut, what was read is there and no more.      *)
LEMMA ParseSubPart ==
  ASSUME NEW T, NEW E, NEW x, Room(T, E), Good(T, E, x), "c" \in T, NEW b \in GoodLeafs, NEW j \in Nat,
         NEW t, NEW s, NEW r, NEW u, Shows(x, t, s, {}, r, u), j <= Len(LeafSerialize(b))
  PROVE  \E v : /\ Shows(ParseSub(x, SubSeq(LeafSerialize(b), 1, j)), t, s, {v}, r, u)
                /\ MV!PartOfLeaf(v, LeafValue(b))
  <1> DEFINE y == MutableSub(x)
             l == y.h.leaf[y.o.c]
             w == LeafSerialize(b)
             z == SubSeq(w, 1, j)
             m == LeafParse(l, z)
  <1>1. l = LeafNew /\ \A k \in GoodLeafs : Shows(WithSub(y, k), t, s, {LeafValue(k)}, r, u)
    BY SubShows, ZenonT(60)
  <1>2. ParseSub(x, z) = WithSub(y, m)
    BY DEF ParseSub, WithSub
  <1> HIDE DEF l, y
  <1>3. /\ w \in Seq(LeafTokens) /\ Len(w) \in Nat
        /\ \A i \in 1..Len(w) : w[i] = <<w[i][1], b.v[w[i][1]]>> /\ w[i][1] \in b.has
    BY LeafOnTheWire
  <1>4. j <= Len(w)
    OBVIOUS
  <1> HIDE DEF w
  <1>5. z \in Seq(LeafTokens) /\ Len(z) = j /\ \A i \in 1..j : z[i] = w[i] /\ i \in 1..Len(w)
    BY <1>3, <1>4
  <1> HIDE DEF z
  <1>6. l \in GoodLeafs
    BY <1>1, LeafOperations
  <1>7. Takes(l, b, m, Heads(z, Len(z)))
    BY <1>3, <1>5, <1>6, LeafParseTakes
  <1>8. Heads(z, Len(z)) \subseteq b.has
    BY <1>3, <1>5 DEF Heads
  <1> HIDE DEF m
  <1>9. MV!PartOfLeaf(LeafValue(m), LeafValue(b))
    <2>1. l.has = {}
      BY <1>1 DEF LeafNew
    <2>2. QED
      BY <1>7, <1>8, <2>1 DEF MV!PartOfLeaf, LeafValue, Takes
  <1>10. Shows(ParseSub(x, z), t, s, {LeafValue(m)}, r, u)
    BY <1>1, <1>2, <1>7 DEF Takes
  <1>11. QED
    BY <1>9, <1>10 DEF z, w

(* An element on the wire is one more element.                             *)
LEMMA ParsePhoneShows ==
  ASSUME NEW T, NEW E, NEW x, Good(T, E, x), NEW w \in Seq(PhoneTokens),
         NEW t, NEW s, NEW c, NEW r, NEW u, Shows(x, t, s, c, r, u)
  PROVE  Shows(ParsePhone(x, w), t, s, c, Append(r, PhoneValue(PhoneParse(PhoneNew, w))), u)
  <1> DEFINE y == AddPhone(x)
             p == PhoneParse(PhoneNew, w)
  <1>1. p \in GoodPhones
    BY PhoneOperations, PhoneParseKeeps
  <1> HIDE DEF p
  <1>2. Shows(WithElement(y, y.o.n, p), t, s, c, Append(r, PhoneValue(p)), u) /\ y.o.r[y.o.n] = PhoneNew
    BY <1>1, AddedShows
  <1>3. ParsePhone(x, w) = WithElement(y, y.o.n, PhoneParse(y.o.r[y.o.n], w))
    BY DEF ParsePhone, WithElement
  <1> HIDE DEF y
  <1>4. QED
    BY <1>2, <1>3 DEF p

(* All fields of an element's wire give the element again, the first j a   *)
(* part of it.                                                             *)
LEMMA PhoneParseShows ==
  ASSUME NEW p \in GoodPhones
  PROVE  /\ PhoneValue(PhoneParse(PhoneNew, PhoneSerialize(p))) = PhoneValue(p)
         /\ \A j \in Nat : j <= Len(PhoneSerialize(p)) =>
               MV!PartOfPhone(PhoneValue(PhoneParse(PhoneNew, SubSeq(PhoneSerialize(p), 1, j))), PhoneValue(p))
  <1> DEFINE w == PhoneSerialize(p)
  <1>1. /\ w \in Seq(PhoneTokens) /\ Len(w) \in Nat /\ Heads(w, Len(w)) = p.has
        /\ \A i \in 1..Len(w) : IsOfPhone(p, w[i]) /\ w[i][1] \in p.has
    BY PhoneOnTheWire
  <1> HIDE DEF w
  <1>2. PhoneValue(PhoneParse(PhoneNew, w)) = PhoneValue(p)
    <2>1. TakesPhone(p, PhoneParse(PhoneNew, w), p.has)
      BY <1>1, PhoneParseTakes
    <2>2. QED
      BY <2>1 DEF TakesPhone, PhoneValue
  <1>3. ASSUME NEW j \in Nat, j <= Len(w)
        PROVE  MV!PartOfPhone(PhoneValue(PhoneParse(PhoneNew, SubSeq(w, 1, j))), PhoneValue(p))
    <2> DEFINE z == SubSeq(w, 1, j)
    <2>1. z \in Seq(PhoneTokens) /\ Len(z) = j /\ \A i \in 1..j : z[i] = w[i] /\ i \in 1..Len(w)
      BY <1>1, <1>3
    <2> HIDE DEF z
    <2>2. TakesPhone(p, PhoneParse(PhoneNew, z), Heads(z, Len(z)))
      BY <1>1, <2>1, PhoneParseTakes
    <2>3. Heads(z, Len(z)) \subseteq p.has
      BY <1>1, <2>1 DEF Heads
    <2>4. MV!PartOfPhone(PhoneValue(PhoneParse(PhoneNew, z)), PhoneValue(p))
      BY <2>2, <2>3 DEF TakesPhone, PhoneValue, MV!PartOfPhone
    <2>5. QED
      BY <2>4 DEF z
  <1>4. QED
    BY <1>2, <1>3 DEF w

(* The unknown fields are shown as they are.                               *)
LEMMA UnknownShows ==
  ASSUME NEW T, NEW E, NEW x, Good(T, E, x), NEW k \in Seq({"newer"}),
         NEW t, NEW s, NEW c, NEW r, NEW u, Shows(x, t, s, c, r, u)
  PROVE  Shows(WithUnknown(x, k), t, s, c, r, k)
  <1> DEFINE y == WithUnknown(x, k)
  <1>1. /\ y.h = x.h /\ y.o.has = x.o.has /\ y.o.t = x.o.t /\ y.o.s = x.o.s /\ y.o.c = x.o.c
        /\ y.o.r = x.o.r /\ y.o.n = x.o.n /\ y.o.u = k
    BY UnknownBecomes
  <1> HIDE DEF y
  <1>2. Shows(y, t, s, c, r, k)
    BY <1>1 DEF Shows, TValue, SValue, CValue, RValue, GetSub
  <1>3. QED
    BY <1>2 DEF y

-----------------------------------------------------------------------------
(* Messages from messages                                                  *)

(* z is p behind r.                                                        *)
IsJoined(S, r, p, z) == /\ z \in Seq(S) /\ Len(z) = Len(r) + Len(p)
                        /\ \A i \in 1..Len(r) : z[i] = r[i]
                        /\ \A i \in 1..Len(p) : z[Len(r) + i] = p[i]

(* As \o puts it there.                                                    *)
LEMMA JoinedIs ==
  ASSUME NEW S, NEW r \in Seq(S), NEW p \in Seq(S)
  PROVE  IsJoined(S, r, p, r \o p)
  <1>1. /\ r \o p \in Seq(S) /\ Len(r \o p) = Len(r) + Len(p) /\ Len(r) \in Nat /\ Len(p) \in Nat
        /\ \A i \in 1..(Len(r) + Len(p)) : (r \o p)[i] = IF i <= Len(r) THEN r[i] ELSE p[i - Len(r)]
    OBVIOUS
  <1>2. ASSUME NEW i \in 1..Len(r) PROVE (r \o p)[i] = r[i]
    OBVIOUS
  <1>3. ASSUME NEW i \in 1..Len(p) PROVE (r \o p)[Len(r) + i] = p[i]
    OBVIOUS
  <1>4. QED
    BY <1>1, <1>2, <1>3 DEF IsJoined

(* The first k elements are the first k - 1 and one more.                  *)
LEMMA OneMoreElement ==
  ASSUME NEW S, NEW r \in Seq(S), NEW v \in Seq(S), NEW k \in 1..Len(v)
  PROVE  Append(r \o SubSeq(v, 1, k - 1), v[k]) = r \o SubSeq(v, 1, k)
  <1> DEFINE p == SubSeq(v, 1, k - 1)
             q == SubSeq(v, 1, k)
             rp == r \o p
             y == Append(rp, v[k])
             z == r \o q
  <1>1. /\ p \in Seq(S) /\ Len(p) = k - 1 /\ \A i \in 1..(k - 1) : p[i] = v[i]
        /\ q \in Seq(S) /\ Len(q) = k /\ \A i \in 1..k : q[i] = v[i]
        /\ v[k] \in S /\ k \in Nat /\ k >= 1
    OBVIOUS
  <1>2. PICK m \in Nat : m = Len(r)
    OBVIOUS
  <1>0. r \in Seq(S) /\ p \in Seq(S) /\ q \in Seq(S)
    BY <1>1
  <1>m. Len(p) = k - 1 /\ Len(q) = k
    BY <1>1
  <1> HIDE DEF p, q
  <1>3. /\ rp \in Seq(S) /\ Len(rp) = m + (k - 1)
        /\ \A i \in 1..m : rp[i] = r[i]
        /\ \A i \in 1..(k - 1) : rp[m + i] = p[i]
    <2>1. IsJoined(S, r, p, rp)
      BY <1>0, JoinedIs, Zenon
    <2> HIDE DEF rp
    <2>2. QED
      BY <1>m, <1>2, <2>1, Zenon DEF IsJoined
  <1>4. /\ z \in Seq(S) /\ Len(z) = m + k
        /\ \A i \in 1..m : z[i] = r[i]
        /\ \A i \in 1..k : z[m + i] = q[i]
    <2>1. IsJoined(S, r, q, z)
      BY <1>0, JoinedIs, Zenon
    <2> HIDE DEF z
    <2>2. QED
      BY <1>m, <1>2, <2>1, Zenon DEF IsJoined
  <1> HIDE DEF rp, z
  <1>5. /\ y \in Seq(S) /\ Len(y) = m + k /\ y[m + k] = v[k]
        /\ \A i \in 1..(m + (k - 1)) : y[i] = rp[i]
    <2>1. y \in Seq(S) /\ Len(y) = Len(rp) + 1 /\ y[Len(rp) + 1] = v[k]
          /\ \A i \in 1..Len(rp) : y[i] = rp[i]
      BY <1>1, <1>3
    <2>2. (m + (k - 1)) + 1 = m + k
      BY <1>1, <1>2
    <2>3. QED
      BY <1>3, <2>1, <2>2
  <1> HIDE DEF y
  <1>6. ASSUME NEW i \in 1..(m + k) PROVE y[i] = z[i]
    <2>1. CASE i \in 1..m
      <3>1. i \in 1..(m + (k - 1))
        BY <1>1, <1>2, <2>1
      <3>2. QED
        BY <1>3, <1>4, <1>5, <2>1, <3>1
    <2>2. CASE \E e \in 1..(k - 1) : i = m + e
      <3>1. PICK e \in 1..(k - 1) : i = m + e
        BY <2>2
      <3>2. i \in 1..(m + (k - 1)) /\ e \in 1..k
        BY <1>1, <1>2, <3>1
      <3>3. y[i] = rp[i] /\ rp[m + e] = p[e] /\ z[m + e] = q[e] /\ p[e] = v[e] /\ q[e] = v[e]
        BY <1>1, <1>3, <1>4, <1>5, <3>1, <3>2
      <3>4. QED
        BY <3>1, <3>3
    <2>3. CASE i = m + k
      <3>1. k \in 1..k
        BY <1>1
      <3>2. QED
        BY <1>1, <1>4, <1>5, <2>3, <3>1
    <2>4. i \in 1..m \/ i - m \in 1..(k - 1) \/ i = m + k
      BY <1>1, <1>2
    <2>5. ASSUME i - m \in 1..(k - 1) PROVE \E e \in 1..(k - 1) : i = m + e
      <3>1. i = m + (i - m)
        BY <1>1, <1>2
      <3>2. QED
        BY <2>5, <3>1
    <2>6. QED
      BY <2>1, <2>2, <2>3, <2>4, <2>5
  <1>7. y = z
    BY <1>4, <1>5, <1>6, SeqEqual
  <1>8. QED
    BY <1>7 DEF y, z, rp, p, q

(* The first none and the first all.                                       *)
LEMMA NoneOrAll ==
  ASSUME NEW S, NEW r \in Seq(S), NEW v \in Seq(S)
  PROVE  r \o SubSeq(v, 1, 0) = r /\ SubSeq(v, 1, Len(v)) = v /\ <<>> \o v = v
  OBVIOUS

(* What a message shows of its elements and unknown fields are sequences.  *)
LEMMA ShownTypes ==
  ASSUME NEW T, NEW E, NEW x, Good(T, E, x),
         NEW t, NEW s, NEW c, NEW r, NEW u, Shows(x, t, s, c, r, u)
  PROVE  r \in Seq(PhoneContents) /\ u \in Seq({"newer"})
  <1>1. x.o \in Objects /\ x.o.n <= Len(x.o.r)
    BY PartsOf DEF Good, Reads
  <1>2. QED
    BY <1>1, RValueIs DEF Shows, Objects

(* Merged elements come behind those that are there.                       *)
LEMMA MergePhonesShows ==
  ASSUME NEW T, NEW E, NEW x, Good(T, E, x), NEW w \in Seq(GoodPhones),
         NEW t, NEW s, NEW c, NEW r, NEW u, Shows(x, t, s, c, r, u)
  PROVE  Shows(MergePhones(x, w), t, s, c, r \o [i \in 1..Len(w) |-> PhoneValue(w[i])], u)
  <1> DEFINE X == {y \in Pairs : Good(T, E, y)}
             n == Len(w)
             v == [i \in 1..n |-> PhoneValue(w[i])]
  <1>1. x \in X
    BY DEF Good
  <1>2. \A a \in X, p \in GoodPhones : MergePhone(a, p) \in X
    BY MergePhoneKeeps DEF Keeps, Good
  <1>3. n \in Nat /\ v \in Seq(PhoneContents) /\ Len(v) = n /\ \A i \in 1..n : v[i] = PhoneValue(w[i])
    BY DEF PhoneContents
  <1>4. \A y \in X : Good(T, E, y)
    OBVIOUS
  <1> HIDE DEF X
  <1>5. PICK a \in [0..Len(w) -> X] :
          /\ a[0] = x /\ a[Len(w)] = MergePhones(x, w)
          /\ \A k \in 1..Len(w) : a[k] = MergePhone(a[k - 1], w[k])
    BY <1>1, <1>2, MergePhoneFolds
  <1>6. r \in Seq(PhoneContents)
    BY ShownTypes
  <1> DEFINE S == {k \in 0..n : Shows(a[k], t, s, c, r \o SubSeq(v, 1, k), u)}
  <1> HIDE DEF v
  <1>7. 0 \in S
    BY <1>3, <1>5, <1>6, NoneOrAll
  <1>8. ASSUME NEW k \in 1..n, k - 1 \in S PROVE k \in S
    <2>1. Good(T, E, a[k - 1]) /\ w[k] \in GoodPhones /\ k \in 0..n
      <3>1. k - 1 \in 0..Len(w) /\ k \in 0..n
        BY <1>3
      <3>2. QED
        BY <1>3, <1>4, <1>5, <3>1
    <2>2. Shows(a[k - 1], t, s, c, r \o SubSeq(v, 1, k - 1), u)
      BY <1>8
    <2>3. Shows(MergePhone(a[k - 1], w[k]), t, s, c, Append(r \o SubSeq(v, 1, k - 1), PhoneValue(w[k])), u)
      BY <2>1, <2>2, MergePhoneShows
    <2>4. Append(r \o SubSeq(v, 1, k - 1), v[k]) = r \o SubSeq(v, 1, k)
      BY <1>3, <1>6, OneMoreElement
    <2>5. QED
      BY <1>3, <1>5, <2>1, <2>3, <2>4
  <1> HIDE DEF S
  <1>9. n \in S
    <2>1. \A k \in 0..n : k \in S
      BY <1>3, <1>7, <1>8, UpTo
    <2>2. QED
      BY <1>3, <2>1
  <1>10. Shows(a[n], t, s, c, r \o SubSeq(v, 1, n), u)
    BY <1>9 DEF S
  <1>11. SubSeq(v, 1, n) = v
    BY <1>3, NoneOrAll
  <1>12. QED
    BY <1>5, <1>10, <1>11 DEF v

(* y shows the fields of o merged into those given.                        *)
Merged(t, s, c, r, u, o, h, y) ==
    Shows(y, MV!Or(t, TValue(o)), MV!Or(s, SValue(o, h)), MV!MergeSub(c, CValue(o, h)),
          r \o RValue(o), u \o o.u)

(* MergeFrom merges, field by field.                                       *)
LEMMA MergeFromShows ==
  ASSUME NEW T, NEW E, NEW x, Room(T, E), Good(T, E, x), NEW from, Source(T, x.h, from),
         NEW t, NEW s, NEW c, NEW r, NEW u, Shows(x, t, s, c, r, u)
  PROVE  Merged(t, s, c, r, u, from, x.h, MergeFrom(x, from))
  <1> DEFINE a == MergePhones(x, PhonesOf(from))
             b == IF "t" \in from.has THEN SetScalar(a, from.t) ELSE a
             z == IF "s" \in from.has THEN SetString(b, x.h.str[from.s]) ELSE b
             y == MutableSub(z)
             d == IF "c" \in from.has
                  THEN WithSub(y, LeafMerge(y.h.leaf[y.o.c], GetSub(from, x.h))) ELSE z
             rr == r \o RValue(from)
             tt == MV!Or(t, TValue(from))
             ss == MV!Or(s, SValue(from, x.h))
             cc == MV!MergeSub(c, CValue(from, x.h))
  <1>1. /\ from \in Objects /\ from.has \subseteq T /\ from.t \in Numbers /\ from.u \in Seq({"newer"})
        /\ from.n <= Len(from.r) /\ x.h.str[from.s] \in Strings /\ GetSub(from, x.h) \in GoodLeafs
    <2>1. x.h \in Heaps
      BY PartsOf
    <2>2. from.s \in {Shared} \cup Cells /\ from.c \in Cells \cup {Null}
      BY DEF Source, Objects
    <2>3. x.h.str[from.s] \in Strings
      BY <2>1, <2>2 DEF Heaps
    <2>4. GetSub(from, x.h) \in GoodLeafs
      BY <2>1, <2>2, LeafOperations DEF GetSub, Heaps
    <2>5. QED
      BY <2>3, <2>4 DEF Source, Objects
  <1>2. Good(T, E, a) /\ Shows(a, t, s, c, rr, u)
    <2>1. PhonesOf(from) \in Seq(GoodPhones) /\ Len(PhonesOf(from)) = from.n
          /\ \A i \in 1..from.n : PhonesOf(from)[i] = from.r[i]
      BY <1>1, PhonesOfIs
    <2>2. [i \in 1..Len(PhonesOf(from)) |-> PhoneValue(PhonesOf(from)[i])] = RValue(from)
      BY <2>1 DEF RValue
    <2>3. QED
      BY <2>1, <2>2, MergePhonesKeeps, MergePhonesShows DEF Keeps
  <1> HIDE DEF a, rr
  <1>3. Good(T, E, b) /\ Shows(b, tt, s, c, rr, u)
    <2>1. CASE "t" \in from.has
      <3>1. Good(T, E, SetScalar(a, from.t)) /\ Shows(SetScalar(a, from.t), {from.t}, s, c, rr, u)
        BY <1>1, <1>2, <2>1, SetScalarKeeps, SetScalarShows DEF Keeps
      <3>2. tt = {from.t}
        BY <2>1 DEF TValue, MV!Or
      <3>3. QED
        BY <2>1, <3>1, <3>2
    <2>2. CASE "t" \notin from.has
      BY <1>2, <2>2 DEF TValue, MV!Or
    <2>3. QED
      BY <2>1, <2>2
  <1> HIDE DEF b, tt
  <1>4. Good(T, E, z) /\ Shows(z, tt, ss, c, rr, u)
    <2>1. CASE "s" \in from.has
      <3> DEFINE str == x.h.str[from.s]
      <3>1. Good(T, E, SetString(b, str)) /\ Shows(SetString(b, str), tt, {str}, c, rr, u)
        <4>1. str \in Strings
          BY <1>1
        <4> HIDE DEF str
        <4>2. QED
          BY <1>1, <1>3, <2>1, <4>1, SetStringKeeps, SetStringShows DEF Keeps
      <3>2. ss = {str}
        BY <2>1 DEF SValue, MV!Or
      <3>3. QED
        BY <2>1, <3>1, <3>2
    <2>2. CASE "s" \notin from.has
      BY <1>3, <2>2 DEF SValue, MV!Or
    <2>3. QED
      BY <2>1, <2>2
  <1> HIDE DEF z, ss
  <1>5. Good(T, E, d) /\ Shows(d, tt, ss, cc, rr, u)
    <2>1. CASE "c" \in from.has
      <3> DEFINE l == GetSub(from, x.h)
                 k == LeafMerge(y.h.leaf[y.o.c], l)
      <3>1. Good(T, E, y) /\ y.o.c \in Cells /\ "c" \in y.o.has
        BY <1>1, <1>4, <2>1, MutableSubIs DEF Keeps
      <3>2. y.h.leaf[y.o.c] \in GoodLeafs
        BY <3>1, PartsOf DEF Heaps
      <3>3. l \in GoodLeafs /\ k \in GoodLeafs
        BY <1>1, <3>2, LeafOperations
      <3>4. "c" \in T
        BY <1>1, <2>1
      <3>5. Shows(WithSub(y, k), tt, ss, MV!MergeSub(c, {LeafValue(l)}), rr, u)
        BY <1>4, <3>3, <3>4, MergedSubShows
      <3>6. d = WithSub(y, k) /\ cc = MV!MergeSub(c, {LeafValue(l)})
        BY <2>1 DEF CValue
      <3> HIDE DEF y, k, l, d, cc
      <3>7. Good(T, E, WithSub(y, k))
        BY <3>1, <3>3, SubBecomes DEF Keeps
      <3>8. QED
        BY <3>5, <3>6, <3>7
    <2>2. CASE "c" \notin from.has
      <3>1. cc = c
        BY <2>2 DEF CValue, MV!MergeSub, MV!Or
      <3>2. QED
        BY <1>4, <2>2, <3>1
    <2>3. QED
      BY <2>1, <2>2
  <1>6. MergeFrom(x, from) = WithUnknown(d, d.o.u \o from.u)
    <2>1. MergeFrom(x, from) = [d EXCEPT !.o.u = d.o.u \o from.u]
      BY DEF MergeFrom, MergePhones, WithSub, a, b, z
    <2>2. QED
      BY <2>1 DEF WithUnknown
  <1> HIDE DEF d, cc
  <1>7. d.o.u = u /\ d.o.u \o from.u \in Seq({"newer"})
    <2>1. d.o.u \in Seq({"newer"})
      BY <1>5, PartsOf DEF Objects
    <2>2. QED
      BY <1>1, <1>5, <2>1 DEF Shows
  <1>8. Shows(WithUnknown(d, u \o from.u), tt, ss, cc, rr, u \o from.u)
    BY <1>5, <1>7, UnknownShows
  <1>9. QED
    BY <1>6, <1>7, <1>8 DEF Merged, rr, tt, ss, cc

(* A cleared message shows nothing, though Clear skips the groups without a*)
(* presence bit.                                                           *)
LEMMA ClearShows ==
  ASSUME NEW T, NEW E, NEW x, Good(T, E, x)
  PROVE  Shows(Clear(x), {}, {}, {}, <<>>, <<>>)
  BY ClearKeeps DEF Shows, TValue, SValue, CValue, RValue

(* What is parsed                                                          *)
ParseRun(x, w, a) == /\ a[0] = x /\ a[Len(w)] = MergePartialFromCodedStream(x, w)
                     /\ \A k \in 1..Len(w) : a[k] = ParseField(a[k - 1], w[k])

(* Parsing any wire of the type goes field by field.                       *)
LEMMA ParseRuns ==
  ASSUME NEW T, NEW E, NEW x, Room(T, E), Good(T, E, x), NEW w \in Seq(Tokens(T))
  PROVE  \E a : ParseRun(x, w, a)
  <1> DEFINE X == {y \in Pairs : Good(T, E, y)}
             K == Tokens(T)
  <1>1. x \in X /\ w \in Seq(K)
    BY DEF Good
  <1>2. \A a \in X, t \in K : ParseField(a, t) \in X
    BY ParseFieldKeeps DEF Keeps, Good
  <1> HIDE DEF X, K
  <1>3. QED
    BY <1>1, <1>2, ParseFolds DEF ParseRun

(* Two wires, one behind the other, are parsed one after the other.        *)
ParsesOn(x, w, v) == MergePartialFromCodedStream(x, w \o v)
                        = MergePartialFromCodedStream(MergePartialFromCodedStream(x, w), v)

(* Parsing two wires in a row is parsing one, then the other.              *)
LEMMA ParseJoined ==
  ASSUME NEW T, NEW E, NEW x, Room(T, E), Good(T, E, x), NEW w \in Seq(Tokens(T)), NEW v \in Seq(Tokens(T))
  PROVE  ParsesOn(x, w, v)
  <1> DEFINE K == Tokens(T)
             y == MergePartialFromCodedStream(x, w)
             z == w \o v
  <1>1. IsJoined(K, w, v, z)
    BY JoinedIs
  <1>2. Good(T, E, y)
    BY ParseKeeps DEF Keeps
  <1>3. PICK m \in Nat, n \in Nat : m = Len(w) /\ n = Len(v)
    OBVIOUS
  <1>4. PICK a : ParseRun(x, w, a)
    BY ParseRuns
  <1> HIDE DEF y, z
  <1>5. PICK b : ParseRun(y, v, b)
    BY <1>2, ParseRuns
  <1>6. PICK c : ParseRun(x, z, c)
    <2>1. z \in Seq(K)
      BY <1>1 DEF IsJoined
    <2>2. QED
      BY <2>1, ParseRuns
  <1>7. Len(z) = m + n /\ (\A k \in 1..m : z[k] = w[k]) /\ (\A k \in 1..n : z[m + k] = v[k])
    BY <1>1, <1>3, Zenon DEF IsJoined
  <1>8. /\ a[0] = x /\ a[m] = y /\ \A k \in 1..m : a[k] = ParseField(a[k - 1], w[k])
        /\ b[0] = y /\ b[n] = MergePartialFromCodedStream(y, v)
        /\ \A k \in 1..n : b[k] = ParseField(b[k - 1], v[k])
        /\ c[0] = x /\ c[m + n] = MergePartialFromCodedStream(x, z)
        /\ \A k \in 1..(m + n) : c[k] = ParseField(c[k - 1], z[k])
    BY <1>3, <1>4, <1>5, <1>6, <1>7, Zenon DEF ParseRun, y
  <1>9. c[m] = y
    <2>1. GoAlike(m, c, a)
      <3>1. ASSUME NEW k \in 1..m, c[k - 1] = a[k - 1] PROVE c[k] = a[k]
        <4>1. k \in 1..(m + n)
          BY <1>3
        <4>2. QED
          BY <1>7, <1>8, <3>1, <4>1
      <3>2. QED
        BY <1>8, <3>1 DEF GoAlike
    <2>2. c[m] = a[m]
      BY <2>1, RunsAgree
    <2>3. QED
      BY <1>8, <2>2
  <1>10. c[m + n] = b[n]
    <2> DEFINE d == [k \in 0..n |-> c[m + k]]
    <2>1. ASSUME NEW k \in 1..n, d[k - 1] = b[k - 1] PROVE d[k] = b[k]
      <3>1. m + k \in 1..(m + n) /\ k \in 0..n /\ k - 1 \in 0..n /\ (m + k) - 1 = m + (k - 1)
        BY <1>3
      <3>2. d[k] = c[m + k] /\ d[k - 1] = c[m + (k - 1)]
        BY <3>1
      <3>3. c[m + k] = ParseField(c[m + (k - 1)], z[m + k])
        BY <1>8, <3>1
      <3>4. QED
        BY <1>7, <1>8, <2>1, <3>2, <3>3
    <2>2. d[0] = b[0]
      BY <1>8, <1>9
    <2>3. d[n] = c[m + n]
      OBVIOUS
    <2> HIDE DEF d
    <2>4. GoAlike(n, d, b)
      BY <2>1, <2>2 DEF GoAlike
    <2>5. d[n] = b[n]
      <3>1. \A k \in 0..n : d[k] = b[k]
        BY <2>4, RunsAgree, ZenonT(60)
      <3>2. QED
        BY <3>1
    <2>6. QED
      BY <2>3, <2>5
  <1>11. QED
    BY <1>8, <1>10 DEF y, z, ParsesOn

(* Nothing, and one field.                                                 *)
LEMMA ParseFew ==
  ASSUME NEW T, NEW E, NEW x, Room(T, E), Good(T, E, x)
  PROVE  /\ MergePartialFromCodedStream(x, <<>>) = x
         /\ \A token \in Tokens(T) : MergePartialFromCodedStream(x, <<token>>) = ParseField(x, token)
  <1>1. MergePartialFromCodedStream(x, <<>>) = x
    <2>1. <<>> \in Seq(Tokens(T)) /\ Len(<<>>) = 0
      BY EmptySeq
    <2>2. PICK a : ParseRun(x, <<>>, a)
      BY <2>1, ParseRuns
    <2>3. QED
      BY <2>1, <2>2 DEF ParseRun
  <1>2. ASSUME NEW token \in Tokens(T) PROVE MergePartialFromCodedStream(x, <<token>>) = ParseField(x, token)
    <2> DEFINE K == Tokens(T)
               w == <<token>>
    <2>1. w \in Seq(K) /\ Len(w) = 1 /\ w[1] = token
      <3>1. token \in K
        OBVIOUS
      <3> HIDE DEF K
      <3>2. QED
        BY <3>1
    <2> HIDE DEF w
    <2>2. PICK a : ParseRun(x, w, a)
      BY <2>1, ParseRuns
    <2>3. a[1] = ParseField(a[1 - 1], w[1])
      BY <2>1, <2>2 DEF ParseRun
    <2>4. QED
      BY <2>1, <2>2, <2>3 DEF ParseRun, w
  <1>3. QED
    BY <1>1, <1>2

(* One field more of a wire.                                               *)
LEMMA ParseOneMore ==
  ASSUME NEW T, NEW E, NEW x, Room(T, E), Good(T, E, x), NEW w \in Seq(Tokens(T)), NEW k \in 1..Len(w)
  PROVE  MergePartialFromCodedStream(x, SubSeq(w, 1, k))
            = ParseField(MergePartialFromCodedStream(x, SubSeq(w, 1, k - 1)), w[k])
  <1> DEFINE K == Tokens(T)
             p == SubSeq(w, 1, k - 1)
             y == MergePartialFromCodedStream(x, p)
  <1>1. p \in Seq(K) /\ w[k] \in K /\ <<w[k]>> \in Seq(K) /\ p \o <<w[k]>> = SubSeq(w, 1, k)
    <2> HIDE DEF K
    <2>1. p \in Seq(K) /\ w[k] \in K /\ <<>> \in Seq(K)
      BY EmptySeq DEF K
    <2>2. p \o <<w[k]>> = Append(p, w[k])
      BY <2>1
    <2>3. Append(<<>> \o p, w[k]) = <<>> \o SubSeq(w, 1, k)
      BY <2>1, OneMoreElement DEF K
    <2>4. <<>> \o p = p /\ <<>> \o SubSeq(w, 1, k) = SubSeq(w, 1, k)
      <3>1. SubSeq(w, 1, k) \in Seq(K)
        BY DEF K
      <3>2. QED
        BY <2>1, <3>1, NoneOrAll
    <2>5. <<w[k]>> \in Seq(K)
      BY <2>1
    <2>6. QED
      BY <2>1, <2>2, <2>3, <2>4, <2>5
  <1> HIDE DEF p
  <1>2. Good(T, E, y)
    BY <1>1, ParseKeeps DEF Keeps
  <1>3. MergePartialFromCodedStream(x, p \o <<w[k]>>) = MergePartialFromCodedStream(y, <<w[k]>>)
    <2> DEFINE v == <<w[k]>>
    <2>1. p \in Seq(Tokens(T)) /\ v \in Seq(Tokens(T))
      BY <1>1
    <2> HIDE DEF v
    <2>2. ParsesOn(x, p, v)
      BY <2>1, ParseJoined, Zenon
    <2>3. QED
      BY <2>2 DEF v, ParsesOn
  <1>4. MergePartialFromCodedStream(y, <<w[k]>>) = ParseField(y, w[k])
    BY <1>1, <1>2, ParseFew
  <1>5. QED
    BY <1>1, <1>3, <1>4 DEF p

(* What a message's wire gives, part by part.                              *)
Written(T, o, h) == o \in Objects /\ h \in Heaps /\ o.has \subseteq T /\ o.n <= Len(o.r)

(* The number on the wire takes the place of the one that is there.        *)
LEMMA ParseTShows ==
  ASSUME NEW T, NEW E, NEW x, Room(T, E), Good(T, E, x), NEW o, NEW h, Written(T, o, h),
         NEW t, NEW s, NEW c, NEW r, NEW u, Shows(x, t, s, c, r, u)
  PROVE  Shows(MergePartialFromCodedStream(x, WireT(o)), MV!Or(t, TValue(o)), s, c, r, u)
  <1>1. CASE "t" \in o.has
    <2> DEFINE token == <<"t", o.t>>
    <2>1. token[1] = "t" /\ token[2] = o.t /\ o.t \in Numbers /\ "t" \in T
      BY <1>1 DEF Written, Objects
    <2>2. token \in Tokens(T)
      BY <2>1 DEF Tokens
    <2>3. WireT(o) = <<token>>
      BY <1>1 DEF WireT
    <2> HIDE DEF token
    <2>4. ParseField(x, token) = SetScalar(x, o.t)
      BY <2>1 DEF ParseField
    <2>5. MergePartialFromCodedStream(x, WireT(o)) = SetScalar(x, o.t)
      BY <2>2, <2>3, <2>4, ParseFew
    <2>6. Shows(SetScalar(x, o.t), {o.t}, s, c, r, u)
      BY <2>1, SetScalarShows
    <2>7. MV!Or(t, TValue(o)) = {o.t}
      BY <1>1 DEF TValue, MV!Or
    <2>8. QED
      BY <2>5, <2>6, <2>7
  <1>2. CASE "t" \notin o.has
    <2>1. WireT(o) = <<>> /\ MV!Or(t, TValue(o)) = t
      BY <1>2 DEF WireT, TValue, MV!Or
    <2>2. QED
      BY <2>1, ParseFew
  <1>3. QED
    BY <1>1, <1>2

(* The string on the wire takes the place of the one that is there.        *)
LEMMA ParseSShows ==
  ASSUME NEW T, NEW E, NEW x, Room(T, E), Good(T, E, x), NEW o, NEW h, Written(T, o, h),
         NEW t, NEW s, NEW c, NEW r, NEW u, Shows(x, t, s, c, r, u)
  PROVE  Shows(MergePartialFromCodedStream(x, WireS(o, h)), t, MV!Or(s, SValue(o, h)), c, r, u)
  <1>1. CASE "s" \in o.has
    <2> DEFINE str == h.str[o.s]
               token == <<"s", str>>
    <2>1. WireS(o, h) = <<token>> /\ SValue(o, h) = {str} /\ "s" \in T
      BY <1>1 DEF WireS, SValue, Written
    <2>2. str \in Strings
      BY DEF Written, Objects, Heaps
    <2> HIDE DEF str
    <2>3. token[1] = "s" /\ token[2] = str
      OBVIOUS
    <2>4. token \in Tokens(T)
      BY <2>1, <2>2 DEF Tokens
    <2> HIDE DEF token
    <2>5. ParseField(x, token) = SetString(x, str)
      BY <2>3 DEF ParseField
    <2>6. MergePartialFromCodedStream(x, WireS(o, h)) = SetString(x, str)
      BY <2>1, <2>4, <2>5, ParseFew
    <2>7. Shows(SetString(x, str), t, {str}, c, r, u)
      BY <2>1, <2>2, SetStringShows
    <2>8. MV!Or(s, SValue(o, h)) = {str}
      BY <2>1 DEF MV!Or
    <2>9. QED
      BY <2>6, <2>7, <2>8
  <1>2. CASE "s" \notin o.has
    <2>1. WireS(o, h) = <<>> /\ MV!Or(s, SValue(o, h)) = s
      BY <1>2 DEF WireS, SValue, MV!Or
    <2>2. QED
      BY <2>1, ParseFew
  <1>3. QED
    BY <1>1, <1>2

(* What is written of a sub-message.                                       *)
LEMMA SubToken ==
  ASSUME NEW T, NEW o, NEW h, Written(T, o, h), "c" \in o.has
  PROVE  LET b == GetSub(o, h) IN
         /\ b \in GoodLeafs /\ "c" \in T /\ CValue(o, h) = {LeafValue(b)}
         /\ <<"c", LeafSerialize(b)>> \in Tokens(T)
         /\ SerializeSub(o, h) = <<<<"c", LeafSerialize(b)>>>>
  <1> DEFINE b == GetSub(o, h)
  <1>1. b \in GoodLeafs
    BY WireParts DEF Written
  <1>2. "c" \in T /\ CValue(o, h) = {LeafValue(b)} /\ SerializeSub(o, h) = <<<<"c", LeafSerialize(b)>>>>
    BY DEF Written, CValue, SerializeSub
  <1> HIDE DEF b
  <1>3. LeafSerialize(b) \in Seq(LeafTokens)
    BY <1>1, LeafSerializeIs
  <1>4. <<"c", LeafSerialize(b)>> \in Tokens(T)
    BY <1>2, <1>3 DEF Tokens
  <1>5. QED
    BY <1>1, <1>2, <1>4 DEF b

(* The sub-message on the wire is merged into the one that is there.       *)
LEMMA ParseCShows ==
  ASSUME NEW T, NEW E, NEW x, Room(T, E), Good(T, E, x), NEW o, NEW h, Written(T, o, h),
         NEW t, NEW s, NEW c, NEW r, NEW u, Shows(x, t, s, c, r, u)
  PROVE  Shows(MergePartialFromCodedStream(x, SerializeSub(o, h)), t, s, MV!MergeSub(c, CValue(o, h)), r, u)
  <1>1. CASE "c" \in o.has
    <2> DEFINE b == GetSub(o, h)
               v == LeafSerialize(b)
               token == <<"c", v>>
    <2>1. b \in GoodLeafs /\ "c" \in T /\ CValue(o, h) = {LeafValue(b)} /\ token \in Tokens(T)
          /\ SerializeSub(o, h) = <<token>>
      BY <1>1, SubToken
    <2>2. token[1] = "c" /\ token[2] = v
      OBVIOUS
    <2> HIDE DEF b, token
    <2>3. ParseField(x, token) = ParseSub(x, v)
      <3> HIDE DEF v
      <3>1. QED
        BY <2>2 DEF ParseField
    <2>4. MergePartialFromCodedStream(x, SerializeSub(o, h)) = ParseSub(x, v)
      BY <2>1, <2>3, ParseFew
    <2>5. Shows(ParseSub(x, v), t, s, MV!MergeSub(c, {LeafValue(b)}), r, u)
      BY <2>1, ParseSubShows
    <2>6. QED
      BY <2>1, <2>4, <2>5
  <1>2. CASE "c" \notin o.has
    <2>1. SerializeSub(o, h) = <<>> /\ MV!MergeSub(c, CValue(o, h)) = c
      BY <1>2 DEF SerializeSub, CValue, MV!MergeSub, MV!Or
    <2>2. QED
      BY <2>1, ParseFew
  <1>3. QED
    BY <1>1, <1>2

(* Of the elements, as many as were read.                                  *)
RowToken(T, o, i) == /\ WireR(o)[i] = <<"r", PhoneSerialize(o.r[i])>>
                     /\ o.r[i] \in GoodPhones /\ PhoneSerialize(o.r[i]) \in Seq(PhoneTokens)
                     /\ RValue(o)[i] = PhoneValue(o.r[i])

(* What is written of the elements.                                        *)
LEMMA RowTokens ==
  ASSUME NEW T, NEW o, NEW h, Written(T, o, h)
  PROVE  /\ o.n \in Nat /\ RValue(o) \in Seq(PhoneContents) /\ Len(RValue(o)) = o.n
         /\ WireR(o) \in Seq(Tokens(T)) /\ Len(WireR(o)) = o.n
         /\ \A i \in 1..o.n : RowToken(T, o, i)
  <1>1. /\ o.n \in Nat /\ RValue(o) \in Seq(PhoneContents) /\ Len(RValue(o)) = o.n
        /\ \A i \in 1..o.n : RValue(o)[i] = PhoneValue(o.r[i])
    BY RValueIs DEF Written
  <1>2. WireR(o) \in Seq(Tokens(T)) /\ Len(WireR(o)) = o.n
    BY WireParts DEF Written
  <1>3. ASSUME NEW i \in 1..o.n PROVE RowToken(T, o, i)
    <2>1. o.r[i] \in GoodPhones
      <3>1. o.r \in Seq(GoodPhones)
        BY DEF Written, Objects
      <3>2. QED
        BY <1>1, <3>1 DEF Written
    <2>2. PhoneSerialize(o.r[i]) \in Seq(PhoneTokens)
      BY <2>1, PhoneSerializeIs
    <2>3. WireR(o)[i] = <<"r", PhoneSerialize(o.r[i])>>
      BY DEF WireR
    <2>4. QED
      BY <1>1, <2>1, <2>2, <2>3 DEF RowToken
  <1>4. QED
    BY <1>1, <1>2, <1>3

(* The first k elements read come behind those that are there.             *)
LEMMA ParseRShows ==
  ASSUME NEW T, NEW E, NEW x, Room(T, E), Good(T, E, x), NEW o, NEW h, Written(T, o, h),
         NEW t, NEW s, NEW c, NEW r, NEW u, Shows(x, t, s, c, r, u)
  PROVE  \A k \in 0..o.n : Shows(MergePartialFromCodedStream(x, SubSeq(WireR(o), 1, k)),
                                 t, s, c, r \o SubSeq(RValue(o), 1, k), u)
  <1> DEFINE w == WireR(o)
             v == RValue(o)
             n == o.n
             y(k) == MergePartialFromCodedStream(x, SubSeq(w, 1, k))
             S == {k \in 0..n : Shows(y(k), t, s, c, r \o SubSeq(v, 1, k), u)}
  <1>1. /\ n \in Nat /\ v \in Seq(PhoneContents) /\ Len(v) = n
        /\ w \in Seq(Tokens(T)) /\ Len(w) = n /\ \A i \in 1..n : RowToken(T, o, i)
    BY RowTokens
  <1>2. r \in Seq(PhoneContents)
    BY ShownTypes
  <1> HIDE DEF w, v, n
  <1>3. 0 \in S
    <2>1. SubSeq(w, 1, 0) = <<>> /\ r \o SubSeq(v, 1, 0) = r
      BY <1>1, <1>2, NoneOrAll
    <2>2. y(0) = x
      BY <2>1, ParseFew
    <2> HIDE DEF y
    <2>3. Shows(y(0), t, s, c, r \o SubSeq(v, 1, 0), u)
      BY <2>1, <2>2, Zenon
    <2>4. 0 \in 0..n
      BY <1>1
    <2>5. QED
      BY <2>3, <2>4
  <1>4. ASSUME NEW k \in 1..n, k - 1 \in S PROVE k \in S
    <2> DEFINE a == y(k - 1)
               q == PhoneSerialize(o.r[k])
               p == PhoneParse(PhoneNew, q)
    <2>1. SubSeq(w, 1, k - 1) \in Seq(Tokens(T)) /\ k \in 1..Len(w) /\ k \in 0..n
      BY <1>1
    <2>2. Good(T, E, a)
      BY <2>1, ParseKeeps DEF Keeps
    <2>3. Shows(a, t, s, c, r \o SubSeq(v, 1, k - 1), u)
      BY <1>4
    <2>4. y(k) = ParseField(a, w[k])
      BY <1>1, <2>1, ParseOneMore
    <2>5. w[k] = <<"r", q>> /\ q \in Seq(PhoneTokens) /\ o.r[k] \in GoodPhones /\ v[k] = PhoneValue(o.r[k])
      BY <1>1 DEF RowToken, w, v
    <2>6. PhoneValue(p) = PhoneValue(o.r[k])
      BY <2>5, PhoneParseShows
    <2> HIDE DEF a, q, y
    <2>7. ParseField(a, w[k]) = ParsePhone(a, q)
      <3>1. w[k][1] = "r" /\ w[k][2] = q
        BY <2>5
      <3>2. QED
        BY <3>1 DEF ParseField
    <2>8. Shows(ParsePhone(a, q), t, s, c, Append(r \o SubSeq(v, 1, k - 1), PhoneValue(p)), u)
      BY <2>2, <2>3, <2>5, ParsePhoneShows
    <2>9. Append(r \o SubSeq(v, 1, k - 1), v[k]) = r \o SubSeq(v, 1, k)
      BY <1>1, <1>2, OneMoreElement
    <2> HIDE DEF p
    <2>10. Shows(y(k), t, s, c, r \o SubSeq(v, 1, k), u)
      BY <2>4, <2>5, <2>6, <2>7, <2>8, <2>9
    <2>11. QED
      BY <2>1, <2>10
  <1> HIDE DEF S
  <1>5. \A k \in 0..n : k \in S
    BY <1>1, <1>3, <1>4, UpTo
  <1>6. QED
    BY <1>5 DEF S, w, v, n

(* What is written of the unknown fields.                                  *)
LEMMA UnknownTokens ==
  ASSUME NEW T, NEW o, NEW h, Written(T, o, h)
  PROVE  /\ o.u \in Seq({"newer"}) /\ Len(o.u) \in Nat
         /\ WireU(o) \in Seq(Tokens(T)) /\ Len(WireU(o)) = Len(o.u)
         /\ \A i \in 1..Len(o.u) : WireU(o)[i] = <<"u", o.u[i]>>
  <1>1. o.u \in Seq({"newer"})
    BY DEF Written, Objects
  <1>2. WireU(o) \in Seq(Tokens(T)) /\ Len(WireU(o)) = Len(o.u)
    BY WireParts DEF Written
  <1>3. \A i \in 1..Len(o.u) : WireU(o)[i] = <<"u", o.u[i]>>
    BY <1>1 DEF WireU
  <1>4. QED
    BY <1>1, <1>2, <1>3

(* The first k unknown fields read come behind those that are there.       *)
LEMMA ParseUShows ==
  ASSUME NEW T, NEW E, NEW x, Room(T, E), Good(T, E, x), NEW o, NEW h, Written(T, o, h),
         NEW t, NEW s, NEW c, NEW r, NEW u, Shows(x, t, s, c, r, u)
  PROVE  \A k \in 0..Len(o.u) : Shows(MergePartialFromCodedStream(x, SubSeq(WireU(o), 1, k)),
                                      t, s, c, r, u \o SubSeq(o.u, 1, k))
  <1> DEFINE w == WireU(o)
             v == o.u
             n == Len(v)
             y(k) == MergePartialFromCodedStream(x, SubSeq(w, 1, k))
             S == {k \in 0..n : Shows(y(k), t, s, c, r, u \o SubSeq(v, 1, k))}
  <1>1. /\ n \in Nat /\ v \in Seq({"newer"}) /\ Len(v) = n
        /\ w \in Seq(Tokens(T)) /\ Len(w) = n /\ \A i \in 1..n : w[i] = <<"u", v[i]>>
    BY UnknownTokens
  <1>2. u \in Seq({"newer"})
    BY ShownTypes
  <1> HIDE DEF w, v, n
  <1>3. 0 \in S
    <2>1. SubSeq(w, 1, 0) = <<>> /\ u \o SubSeq(v, 1, 0) = u
      BY <1>1, <1>2, NoneOrAll
    <2>2. y(0) = x
      BY <2>1, ParseFew
    <2> HIDE DEF y
    <2>3. Shows(y(0), t, s, c, r, u \o SubSeq(v, 1, 0))
      BY <2>1, <2>2, Zenon
    <2>4. 0 \in 0..n
      BY <1>1
    <2>5. QED
      BY <2>3, <2>4
  <1>4. ASSUME NEW k \in 1..n, k - 1 \in S PROVE k \in S
    <2> DEFINE a == y(k - 1)
               e == u \o SubSeq(v, 1, k - 1)
    <2>1. SubSeq(w, 1, k - 1) \in Seq(Tokens(T)) /\ k \in 1..Len(w) /\ k \in 0..n
      BY <1>1
    <2>2. Good(T, E, a)
      BY <2>1, ParseKeeps DEF Keeps
    <2>3. Shows(a, t, s, c, r, e)
      BY <1>4
    <2>4. y(k) = ParseField(a, w[k])
      BY <1>1, <2>1, ParseOneMore
    <2>5. w[k][1] = "u" /\ w[k][2] = v[k] /\ v[k] \in {"newer"}
      BY <1>1
    <2> HIDE DEF a, y
    <2>6. ParseField(a, w[k]) = ParseUnknown(a, v[k])
      BY <2>5 DEF ParseField
    <2>7. Append(e, v[k]) = u \o SubSeq(v, 1, k)
      BY <1>1, <1>2, OneMoreElement
    <2> HIDE DEF e
    <2>8. e \in Seq({"newer"})
      BY <2>2, <2>3, ShownTypes
    <2>9. ParseUnknown(a, v[k]) = WithUnknown(a, Append(e, v[k])) /\ Append(e, v[k]) \in Seq({"newer"})
      <3>1. a.o.u = e
        BY <2>3 DEF Shows
      <3>2. Append(e, v[k]) \in Seq({"newer"})
        BY <2>5, <2>8
      <3>3. QED
        BY <3>1, <3>2 DEF ParseUnknown, WithUnknown
    <2>10. Shows(WithUnknown(a, Append(e, v[k])), t, s, c, r, Append(e, v[k]))
      BY <2>2, <2>3, <2>9, UnknownShows
    <2>11. Shows(y(k), t, s, c, r, u \o SubSeq(v, 1, k))
      BY <2>4, <2>6, <2>7, <2>9, <2>10
    <2>12. QED
      BY <2>1, <2>11
  <1> HIDE DEF S
  <1>5. \A k \in 0..n : k \in S
    BY <1>1, <1>3, <1>4, UpTo
  <1>6. QED
    BY <1>5 DEF S, w, v, n

(* Parsing a whole message merges it.                                      *)
Scalars(o, h) == WireT(o) \o WireS(o, h)
(* The wire up to the sub-message, and up to the elements.                 *)
Singular(o, h) == Scalars(o, h) \o SerializeSub(o, h)
Rows(o, h) == Singular(o, h) \o WireR(o)

(* All of these are wires of the type.                                     *)
LEMMA WireFronts ==
  ASSUME NEW T, NEW o, NEW h, Written(T, o, h)
  PROVE  /\ WireT(o) \in Seq(Tokens(T)) /\ WireS(o, h) \in Seq(Tokens(T)) /\ SerializeSub(o, h) \in Seq(Tokens(T))
         /\ WireR(o) \in Seq(Tokens(T)) /\ WireU(o) \in Seq(Tokens(T))
         /\ Scalars(o, h) \in Seq(Tokens(T)) /\ Singular(o, h) \in Seq(Tokens(T)) /\ Rows(o, h) \in Seq(Tokens(T))
         /\ Serialize(o, h) = Rows(o, h) \o WireU(o)
  <1> DEFINE K == Tokens(T)
  <1>1. /\ WireT(o) \in Seq(K) /\ WireS(o, h) \in Seq(K) /\ SerializeSub(o, h) \in Seq(K)
        /\ WireR(o) \in Seq(K) /\ WireU(o) \in Seq(K)
        /\ Serialize(o, h) = WireT(o) \o WireS(o, h) \o SerializeSub(o, h) \o WireR(o) \o WireU(o)
    BY WireParts DEF Written
  <1> HIDE DEF K
  <1>2. Scalars(o, h) \in Seq(K)
    BY <1>1, Joined DEF Scalars
  <1>3. Singular(o, h) \in Seq(K)
    BY <1>1, <1>2, Joined DEF Singular
  <1>4. Rows(o, h) \in Seq(K)
    BY <1>1, <1>3, Joined DEF Rows
  <1>5. Serialize(o, h) = Rows(o, h) \o WireU(o)
    BY <1>1 DEF Rows, Singular, Scalars
  <1>6. QED
    BY <1>1, <1>2, <1>3, <1>4, <1>5 DEF K

(* v is parsed after w, of which the operations' expectations are kept.    *)
ParsedAfter(T, E, x, w, v) == LET y == MergePartialFromCodedStream(x, w) IN
    /\ Good(T, E, y)
    /\ MergePartialFromCodedStream(x, w \o v) = MergePartialFromCodedStream(y, v)

(* The same, with what the first of them keeps.                            *)
LEMMA ParseAfter ==
  ASSUME NEW T, NEW E, NEW x, Room(T, E), Good(T, E, x), NEW w \in Seq(Tokens(T)), NEW v \in Seq(Tokens(T))
  PROVE  ParsedAfter(T, E, x, w, v)
  <1>1. Good(T, E, MergePartialFromCodedStream(x, w))
    BY ParseKeeps DEF Keeps
  <1>2. ParsesOn(x, w, v)
    BY ParseJoined
  <1>3. QED
    BY <1>1, <1>2 DEF ParsesOn, ParsedAfter

(* The number and the string.                                              *)
LEMMA ScalarsShow ==
  ASSUME NEW T, NEW E, NEW x, Room(T, E), Good(T, E, x), NEW o, NEW h, Written(T, o, h),
         NEW t, NEW s, NEW c, NEW r, NEW u, Shows(x, t, s, c, r, u)
  PROVE  Shows(MergePartialFromCodedStream(x, Scalars(o, h)), MV!Or(t, TValue(o)), MV!Or(s, SValue(o, h)), c, r, u)
  <1> DEFINE y == MergePartialFromCodedStream(x, WireT(o))
             tt == MV!Or(t, TValue(o))
             ss == MV!Or(s, SValue(o, h))
  <1>1. ParsedAfter(T, E, x, WireT(o), WireS(o, h))
    BY WireFronts, ParseAfter
  <1>2. Good(T, E, y) /\ MergePartialFromCodedStream(x, Scalars(o, h)) = MergePartialFromCodedStream(y, WireS(o, h))
    BY <1>1 DEF ParsedAfter, Scalars
  <1>3. Shows(y, tt, s, c, r, u)
    BY ParseTShows
  <1> HIDE DEF y, tt
  <1>4. Shows(MergePartialFromCodedStream(y, WireS(o, h)), tt, ss, c, r, u)
    BY <1>2, <1>3, ParseSShows
  <1>5. QED
    BY <1>2, <1>4 DEF tt

(* And the sub-message.                                                    *)
LEMMA SingularShows ==
  ASSUME NEW T, NEW E, NEW x, Room(T, E), Good(T, E, x), NEW o, NEW h, Written(T, o, h),
         NEW t, NEW s, NEW c, NEW r, NEW u, Shows(x, t, s, c, r, u)
  PROVE  Shows(MergePartialFromCodedStream(x, Singular(o, h)),
               MV!Or(t, TValue(o)), MV!Or(s, SValue(o, h)), MV!MergeSub(c, CValue(o, h)), r, u)
  <1> DEFINE y == MergePartialFromCodedStream(x, Scalars(o, h))
             tt == MV!Or(t, TValue(o))
             ss == MV!Or(s, SValue(o, h))
             cc == MV!MergeSub(c, CValue(o, h))
  <1>1. ParsedAfter(T, E, x, Scalars(o, h), SerializeSub(o, h))
    BY WireFronts, ParseAfter
  <1>2. Good(T, E, y) /\ MergePartialFromCodedStream(x, Singular(o, h)) = MergePartialFromCodedStream(y, SerializeSub(o, h))
    BY <1>1 DEF ParsedAfter, Singular
  <1>3. Shows(y, tt, ss, c, r, u)
    BY ScalarsShow
  <1> HIDE DEF y, tt, ss
  <1>4. Shows(MergePartialFromCodedStream(y, SerializeSub(o, h)), tt, ss, cc, r, u)
    BY <1>2, <1>3, ParseCShows
  <1>5. QED
    BY <1>2, <1>4 DEF tt, ss

(* And the elements.                                                       *)
LEMMA RowsShow ==
  ASSUME NEW T, NEW E, NEW x, Room(T, E), Good(T, E, x), NEW o, NEW h, Written(T, o, h),
         NEW t, NEW s, NEW c, NEW r, NEW u, Shows(x, t, s, c, r, u)
  PROVE  Shows(MergePartialFromCodedStream(x, Rows(o, h)), MV!Or(t, TValue(o)), MV!Or(s, SValue(o, h)),
               MV!MergeSub(c, CValue(o, h)), r \o RValue(o), u)
  <1> DEFINE y == MergePartialFromCodedStream(x, Singular(o, h))
             tt == MV!Or(t, TValue(o))
             ss == MV!Or(s, SValue(o, h))
             cc == MV!MergeSub(c, CValue(o, h))
             n == o.n
  <1>1. ParsedAfter(T, E, x, Singular(o, h), WireR(o))
    BY WireFronts, ParseAfter
  <1>2. Good(T, E, y) /\ MergePartialFromCodedStream(x, Rows(o, h)) = MergePartialFromCodedStream(y, WireR(o))
    BY <1>1 DEF ParsedAfter, Rows
  <1>3. Shows(y, tt, ss, cc, r, u)
    BY SingularShows
  <1> HIDE DEF y, tt, ss, cc
  <1>4. /\ n \in Nat /\ RValue(o) \in Seq(PhoneContents) /\ Len(RValue(o)) = n
        /\ WireR(o) \in Seq(Tokens(T)) /\ Len(WireR(o)) = n
    BY RowTokens
  <1>5. \A k \in 0..n : Shows(MergePartialFromCodedStream(y, SubSeq(WireR(o), 1, k)),
                              tt, ss, cc, r \o SubSeq(RValue(o), 1, k), u)
    BY <1>2, <1>3, ParseRShows
  <1> HIDE DEF n
  <1>6. SubSeq(WireR(o), 1, n) = WireR(o) /\ SubSeq(RValue(o), 1, n) = RValue(o) /\ n \in 0..n
    BY <1>4, NoneOrAll
  <1>7. Shows(MergePartialFromCodedStream(y, SubSeq(WireR(o), 1, n)), tt, ss, cc, r \o SubSeq(RValue(o), 1, n), u)
    BY <1>5, <1>6, Zenon
  <1>8. QED
    BY <1>2, <1>6, <1>7, Zenon DEF tt, ss, cc

(* And the unknown fields: a message parsed is a message merged.           *)
LEMMA ParseShows ==
  ASSUME NEW T, NEW E, NEW x, Room(T, E), Good(T, E, x), NEW o, NEW h, Written(T, o, h),
         NEW t, NEW s, NEW c, NEW r, NEW u, Shows(x, t, s, c, r, u)
  PROVE  Merged(t, s, c, r, u, o, h, MergePartialFromCodedStream(x, Serialize(o, h)))
  <1> DEFINE y == MergePartialFromCodedStream(x, Rows(o, h))
             tt == MV!Or(t, TValue(o))
             ss == MV!Or(s, SValue(o, h))
             cc == MV!MergeSub(c, CValue(o, h))
             rr == r \o RValue(o)
             n == Len(o.u)
  <1>1. ParsedAfter(T, E, x, Rows(o, h), WireU(o))
    BY WireFronts, ParseAfter
  <1>2. Good(T, E, y) /\ MergePartialFromCodedStream(x, Serialize(o, h)) = MergePartialFromCodedStream(y, WireU(o))
    BY <1>1, WireFronts DEF ParsedAfter
  <1>3. Shows(y, tt, ss, cc, rr, u)
    BY RowsShow
  <1> HIDE DEF y, tt, ss, cc, rr
  <1>4. /\ n \in Nat /\ o.u \in Seq({"newer"}) /\ Len(o.u) = n
        /\ WireU(o) \in Seq(Tokens(T)) /\ Len(WireU(o)) = n
    BY UnknownTokens
  <1>5. \A k \in 0..n : Shows(MergePartialFromCodedStream(y, SubSeq(WireU(o), 1, k)),
                              tt, ss, cc, rr, u \o SubSeq(o.u, 1, k))
    BY <1>2, <1>3, ParseUShows
  <1> HIDE DEF n
  <1>6. SubSeq(WireU(o), 1, n) = WireU(o) /\ SubSeq(o.u, 1, n) = o.u /\ n \in 0..n
    BY <1>4, NoneOrAll
  <1>7. Shows(MergePartialFromCodedStream(y, SubSeq(WireU(o), 1, n)), tt, ss, cc, rr, u \o SubSeq(o.u, 1, n))
    BY <1>5, <1>6, Zenon
  <1>8. QED
    BY <1>2, <1>6, <1>7, Zenon DEF Merged, tt, ss, cc, rr

(* ... and one field more that only newer programs know.                   *)
LEMMA ParseNewerShows ==
  ASSUME NEW T, NEW E, NEW x, Room(T, E), Good(T, E, x), NEW w \in Seq(Tokens(T)),
         NEW t, NEW s, NEW c, NEW r, NEW u, Shows(MergePartialFromCodedStream(x, w), t, s, c, r, u)
  PROVE  Shows(MergePartialFromCodedStream(x, w \o <<<<"u", "newer">>>>), t, s, c, r, Append(u, "newer"))
  <1> DEFINE token == <<"u", "newer">>
             y == MergePartialFromCodedStream(x, w)
             k == Append(u, "newer")
  <1>1. token[1] = "u" /\ token[2] = "newer" /\ token \in Tokens(T) /\ <<token>> \in Seq(Tokens(T))
    <2>1. token \in Tokens(T)
      BY DEF Tokens
    <2>2. <<token>> \in Seq(Tokens(T))
      <3> HIDE DEF token
      <3>1. QED
        BY <2>1
    <2>3. QED
      BY <2>1, <2>2
  <1> HIDE DEF token
  <1>2. ParsedAfter(T, E, x, w, <<token>>)
    BY <1>1, ParseAfter
  <1>3. Good(T, E, y) /\ MergePartialFromCodedStream(x, w \o <<token>>) = MergePartialFromCodedStream(y, <<token>>)
    BY <1>2 DEF ParsedAfter
  <1> HIDE DEF y
  <1>4. Shows(y, t, s, c, r, u)
    BY DEF y
  <1>5. MergePartialFromCodedStream(y, <<token>>) = ParseUnknown(y, "newer")
    <2>1. MergePartialFromCodedStream(y, <<token>>) = ParseField(y, token)
      BY <1>1, <1>3, ParseFew
    <2>2. QED
      BY <1>1, <2>1 DEF ParseField
  <1>6. u \in Seq({"newer"}) /\ y.o.u = u
    BY <1>3, <1>4, ShownTypes DEF Shows
  <1>7. ParseUnknown(y, "newer") = WithUnknown(y, k) /\ k \in Seq({"newer"})
    BY <1>6 DEF ParseUnknown, WithUnknown
  <1> HIDE DEF k
  <1>8. Shows(WithUnknown(y, k), t, s, c, r, k)
    BY <1>3, <1>4, <1>7, UnknownShows
  <1>9. QED
    BY <1>3, <1>5, <1>7, <1>8 DEF token, k

(* A wire that ends inside token, after the fields p.                      *)
CutAt(w, p, token) == \E k \in 1..Len(w) : p = SubSeq(w, 1, k - 1) /\ token = w[k]

(* In a wire of one field there is one place to end.                       *)
LEMMA CutOfOne ==
  ASSUME NEW e, NEW p, NEW token, CutAt(<<e>>, p, token)
  PROVE  p = <<>> /\ token = e
  <1>1. <<e>> \in Seq({e}) /\ Len(<<e>>) = 1 /\ <<e>>[1] = e
    OBVIOUS
  <1>2. p = SubSeq(<<e>>, 1, 0) /\ token = e
    BY <1>1 DEF CutAt
  <1>3. SubSeq(<<e>>, 1, 0) = <<>>
    OBVIOUS
  <1>4. QED
    BY <1>2, <1>3

(* In an empty wire there is none.                                         *)
LEMMA CutOfNone ==
  ASSUME NEW p, NEW token
  PROVE  ~CutAt(<<>>, p, token)
  BY DEF CutAt

(* The end is in w, or in v with w before it.                              *)
CutInOne(S, w, v, p, token) == CutAt(w, p, token) \/ \E q \in Seq(S) : CutAt(v, q, token) /\ p = w \o q

(* A stream of two wires ends in one of them.                              *)
LEMMA CutOfJoined ==
  ASSUME NEW S, NEW w \in Seq(S), NEW v \in Seq(S), NEW p, NEW token, CutAt(w \o v, p, token)
  PROVE  CutInOne(S, w, v, p, token)
  <1> DEFINE z == w \o v
  <1>1. IsJoined(S, w, v, z)
    BY JoinedIs
  <1>2. PICK m \in Nat, n \in Nat : m = Len(w) /\ n = Len(v)
    OBVIOUS
  <1> HIDE DEF z
  <1>3. /\ z \in Seq(S) /\ Len(z) = m + n
        /\ (\A k \in 1..m : z[k] = w[k]) /\ (\A k \in 1..n : z[m + k] = v[k])
    BY <1>1, <1>2, Zenon DEF IsJoined
  <1>4. PICK k \in 1..(m + n) : p = SubSeq(z, 1, k - 1) /\ token = z[k]
    <2>1. CutAt(z, p, token)
      BY DEF z
    <2>2. QED
      BY <1>3, <2>1 DEF CutAt
  <1>5. k \in Nat /\ k - 1 \in 0..(m + n) /\ p \in Seq(S) /\ Len(p) = k - 1 /\ \A i \in 1..(k - 1) : p[i] = z[i]
    BY <1>2, <1>3, <1>4
  <1>6. CASE k \in 1..m
    <2> DEFINE q == SubSeq(w, 1, k - 1)
    <2>1. q \in Seq(S) /\ Len(q) = k - 1 /\ \A i \in 1..(k - 1) : q[i] = w[i] /\ i \in 1..m
      BY <1>2, <1>6
    <2> HIDE DEF q
    <2>2. p = q
      BY <1>3, <1>5, <2>1, SeqEqual
    <2>3. token = w[k]
      BY <1>3, <1>4, <1>6
    <2>4. QED
      BY <1>2, <1>6, <2>2, <2>3 DEF CutInOne, CutAt, q
  <1>7. CASE k \notin 1..m
    <2>1. PICK j \in 1..n : k = m + j
      <3>1. k - m \in 1..n /\ k = m + (k - m)
        BY <1>2, <1>4, <1>7
      <3>2. QED
        BY <3>1
    <2> DEFINE q == SubSeq(v, 1, j - 1)
               y == w \o q
    <2>2. q \in Seq(S) /\ Len(q) = j - 1 /\ \A i \in 1..(j - 1) : q[i] = v[i] /\ i \in 1..n
      BY <1>2
    <2>3. token = v[j]
      BY <1>3, <1>4, <2>1
    <2>4. CutAt(v, q, token)
      BY <1>2, <2>3 DEF CutAt
    <2> HIDE DEF q
    <2>5. IsJoined(S, w, q, y)
      BY <2>2, JoinedIs
    <2> HIDE DEF y
    <2>6. /\ y \in Seq(S) /\ Len(y) = m + (j - 1)
          /\ (\A i \in 1..m : y[i] = w[i]) /\ (\A i \in 1..(j - 1) : y[m + i] = q[i])
      BY <1>2, <2>2, <2>5, Zenon DEF IsJoined
    <2>7. k - 1 = m + (j - 1)
      BY <1>2, <2>1
    <2>8. ASSUME NEW i \in 1..(k - 1) PROVE p[i] = y[i]
      <3>1. CASE i \in 1..m
        BY <1>3, <1>5, <2>6, <3>1
      <3>2. CASE i \notin 1..m
        <4>1. PICK e \in 1..(j - 1) : i = m + e
          <5>1. i - m \in 1..(j - 1) /\ i = m + (i - m)
            BY <1>2, <2>7, <3>2
          <5>2. QED
            BY <5>1
        <4>2. e \in 1..n
          BY <2>2, <4>1
        <4>3. p[i] = z[m + e] /\ z[m + e] = v[e] /\ y[m + e] = q[e] /\ q[e] = v[e]
          BY <1>3, <1>5, <2>2, <2>6, <4>1, <4>2
        <4>4. QED
          BY <4>1, <4>3
      <3>3. QED
        BY <3>1, <3>2
    <2>9. p = y
      BY <1>5, <2>6, <2>7, <2>8, SeqEqual
    <2>10. QED
      BY <2>2, <2>4, <2>9 DEF CutInOne, y
  <1>8. QED
    BY <1>6, <1>7

(* What was read of a wire cut short is a part of the message.             *)
IsPart(o, h, t, s, c, r, u) ==
    /\ t \subseteq TValue(o)
    /\ s # {} => SValue(o, h) # {}
    /\ \A k \in c : \E l \in CValue(o, h) : MV!PartOfLeaf(k, l)
    /\ Len(r) <= Len(RValue(o)) /\ \A i \in DOMAIN r : MV!PartOfPhone(r[i], RValue(o)[i])
    /\ IsPrefix(u, o.u)

(* y shows a part of o.                                                    *)
ShowsPart(y, o, h) == \E t, s, c, r, u : Shows(y, t, s, c, r, u) /\ IsPart(o, h, t, s, c, r, u)

(* The first elements and unknown fields of a message are a part of it.    *)
LEMMA PartsAreParts ==
  ASSUME NEW T, NEW o, NEW h, Written(T, o, h)
  PROVE  /\ \A k \in CValue(o, h) : MV!PartOfLeaf(k, k)
         /\ \A k \in 0..o.n : LET r == SubSeq(RValue(o), 1, k) IN
               /\ r \in Seq(PhoneContents) /\ Len(r) = k
               /\ \A i \in 1..k : r[i] = RValue(o)[i] /\ MV!PartOfPhone(r[i], RValue(o)[i])
         /\ \A k \in 0..Len(o.u) : IsPrefix(SubSeq(o.u, 1, k), o.u)
         /\ IsPrefix(<<>>, o.u) /\ Len(<<>>) <= Len(RValue(o)) /\ DOMAIN <<>> = {}
         /\ SubSeq(RValue(o), 1, o.n) = RValue(o) /\ o.n \in 0..o.n /\ Len(RValue(o)) = o.n
  <1>1. \A k \in CValue(o, h) : MV!PartOfLeaf(k, k)
    BY DEF MV!PartOfLeaf
  <1>2. o.n \in Nat /\ RValue(o) \in Seq(PhoneContents) /\ Len(RValue(o)) = o.n
    BY RowTokens
  <1>3. \A k \in 1..o.n : MV!PartOfPhone(RValue(o)[k], RValue(o)[k])
    BY DEF MV!PartOfPhone
  <1>4. ASSUME NEW k \in 0..o.n
        PROVE  LET r == SubSeq(RValue(o), 1, k) IN
               /\ r \in Seq(PhoneContents) /\ Len(r) = k
               /\ \A i \in 1..k : r[i] = RValue(o)[i] /\ MV!PartOfPhone(r[i], RValue(o)[i])
    <2> DEFINE v == RValue(o)
               r == SubSeq(v, 1, k)
    <2>1. v \in Seq(PhoneContents) /\ Len(v) = o.n
      BY <1>2
    <2> HIDE DEF v
    <2>2. r \in Seq(PhoneContents) /\ Len(r) = k /\ \A i \in 1..k : r[i] = v[i] /\ i \in 1..o.n
      BY <1>2, <2>1
    <2> HIDE DEF r
    <2>3. \A i \in 1..k : MV!PartOfPhone(r[i], v[i])
      <3>1. \A i \in 1..o.n : MV!PartOfPhone(v[i], v[i])
        BY <1>3 DEF v
      <3>2. QED
        BY <2>2, <3>1
    <2>4. QED
      BY <2>2, <2>3 DEF v, r
  <1>5. o.u \in Seq({"newer"}) /\ Len(o.u) \in Nat
    BY UnknownTokens
  <1>6. ASSUME NEW k \in 0..Len(o.u) PROVE IsPrefix(SubSeq(o.u, 1, k), o.u)
    <2> DEFINE v == o.u
               r == SubSeq(v, 1, k)
    <2>1. v \in Seq({"newer"}) /\ k \in 0..Len(v)
      BY <1>5
    <2> HIDE DEF v
    <2>2. r \in Seq({"newer"}) /\ Len(r) = k /\ Len(r) <= Len(v)
      BY <2>1
    <2>3. SubSeq(r, 1, Len(r)) = r
      BY <2>2, NoneOrAll
    <2>4. SubSeq(v, 1, Len(r)) = r
      BY <2>2
    <2> HIDE DEF r
    <2>5. IsPrefix(r, v)
      BY <2>2, <2>3, <2>4 DEF IsPrefix
    <2>6. QED
      BY <2>5 DEF r, v
  <1>7. IsPrefix(<<>>, o.u)
    <2>1. SubSeq(o.u, 1, 0) = <<>> /\ 0 \in 0..Len(o.u)
      BY <1>5
    <2>2. QED
      BY <1>6, <2>1
  <1>8. Len(<<>>) <= Len(RValue(o)) /\ DOMAIN <<>> = {}
    BY <1>2
  <1>9. SubSeq(RValue(o), 1, o.n) = RValue(o) /\ o.n \in 0..o.n
    BY <1>2, NoneOrAll
  <1>10. QED
    BY <1>1, <1>2, <1>4, <1>6, <1>7, <1>8, <1>9

(* x shows nothing.                                                        *)
IsCleared(x) == Shows(x, {}, {}, {}, <<>>, <<>>)

(* What there is when the stream ended j fields into token.                *)
Cut(x, p, token, j) == ParseCutField(MergePartialFromCodedStream(x, p), token, j)

(* The stream ends in the number.                                          *)
LEMMA CutInT ==
  ASSUME NEW T, NEW E, NEW x, Room(T, E), Good(T, E, x), NEW o, NEW h, Written(T, o, h),
         IsCleared(x), NEW p, NEW token, CutAt(WireT(o), p, token), NEW j \in Nat
  PROVE  ShowsPart(Cut(x, p, token, j), o, h)
  <1>1. CASE "t" \notin o.has
    BY <1>1, CutOfNone DEF WireT
  <1>2. CASE "t" \in o.has
    <2>1. p = <<>> /\ token = <<"t", o.t>>
      BY <1>2, CutOfOne DEF WireT
    <2>2. token[1] = "t"
      BY <2>1
    <2>3. MergePartialFromCodedStream(x, p) = x
      BY <2>1, ParseFew
    <2>4. Cut(x, p, token, j) = x
      BY <2>2, <2>3 DEF Cut, ParseCutField
    <2>5. IsPart(o, h, {}, {}, {}, <<>>, <<>>)
      BY PartsAreParts DEF IsPart
    <2>6. QED
      BY <2>4, <2>5 DEF ShowsPart, IsCleared
  <1>3. QED
    BY <1>1, <1>2

(* The stream ends in the string: its bit is set, its content empty.       *)
LEMMA CutInS ==
  ASSUME NEW T, NEW E, NEW x, Room(T, E), Good(T, E, x), NEW o, NEW h, Written(T, o, h),
         IsCleared(x), NEW p, NEW token, CutAt(WireS(o, h), p, token), NEW j \in Nat
  PROVE  ShowsPart(Cut(x, WireT(o) \o p, token, j), o, h)
  <1>1. CASE "s" \notin o.has
    BY <1>1, CutOfNone DEF WireS
  <1>2. CASE "s" \in o.has
    <2> DEFINE w == WireT(o)
               y == MergePartialFromCodedStream(x, w)
    <2>1. p = <<>> /\ token = <<"s", h.str[o.s]>>
      BY <1>2, CutOfOne DEF WireS
    <2>2. token[1] = "s"
      BY <2>1
    <2>3. w \in Seq(Tokens(T))
      BY WireFronts
    <2>4. Shows(y, TValue(o), {}, {}, <<>>, <<>>)
      <3>1. MV!Or({}, TValue(o)) = TValue(o)
        BY DEF MV!Or
      <3>2. QED
        BY <3>1, ParseTShows DEF IsCleared
    <2>5. Good(T, E, y)
      BY <2>3, ParseKeeps DEF Keeps
    <2> HIDE DEF w, y
    <2>6. w \o p = w
      BY <2>1, <2>3
    <2>7. Cut(x, w \o p, token, j) = SetString(y, "")
      BY <2>2, <2>6 DEF Cut, ParseCutField, y
    <2>8. Shows(SetString(y, ""), TValue(o), {""}, {}, <<>>, <<>>)
      <3>1. "s" \in T /\ "" \in Strings
        BY <1>2, ValueAssumption DEF Written
      <3>2. QED
        BY <2>4, <2>5, <3>1, SetStringShows
    <2>9. IsPart(o, h, TValue(o), {""}, {}, <<>>, <<>>)
      <3>1. SValue(o, h) # {}
        BY <1>2 DEF SValue
      <3>2. QED
        BY <3>1, PartsAreParts DEF IsPart
    <2>10. QED
      BY <2>7, <2>8, <2>9 DEF ShowsPart, w
  <1>3. QED
    BY <1>1, <1>2

(* The stream ends in the sub-message, of which j fields were read.        *)
LEMMA CutInC ==
  ASSUME NEW T, NEW E, NEW x, Room(T, E), Good(T, E, x), NEW o, NEW h, Written(T, o, h),
         IsCleared(x), NEW p, NEW token, CutAt(SerializeSub(o, h), p, token), NEW j \in Nat,
         token[1] \in {"c", "r"} => j < Len(token[2])
  PROVE  ShowsPart(Cut(x, Scalars(o, h) \o p, token, j), o, h)
  <1>1. CASE "c" \notin o.has
    BY <1>1, CutOfNone DEF SerializeSub
  <1>2. CASE "c" \in o.has
    <2> DEFINE w == Scalars(o, h)
               y == MergePartialFromCodedStream(x, w)
               b == GetSub(o, h)
               v == LeafSerialize(b)
               z == SubSeq(v, 1, j)
    <2>1. p = <<>> /\ token = <<"c", v>> /\ b \in GoodLeafs /\ "c" \in T /\ CValue(o, h) = {LeafValue(b)}
      <3>1. SerializeSub(o, h) = <<<<"c", v>>>> /\ b \in GoodLeafs /\ "c" \in T /\ CValue(o, h) = {LeafValue(b)}
        BY <1>2, SubToken
      <3>2. QED
        BY <3>1, CutOfOne
    <2>2. w \in Seq(Tokens(T))
      BY WireFronts
    <2>3. Shows(y, TValue(o), SValue(o, h), {}, <<>>, <<>>)
      <3>1. MV!Or({}, TValue(o)) = TValue(o) /\ MV!Or({}, SValue(o, h)) = SValue(o, h)
        BY DEF MV!Or
      <3>2. QED
        BY <3>1, ScalarsShow DEF IsCleared
    <2>4. Good(T, E, y)
      BY <2>2, ParseKeeps DEF Keeps
    <2> HIDE DEF w, y, b, v
    <2>5. token[1] = "c" /\ token[2] = v
      BY <2>1
    <2>6. w \o p = w
      BY <2>1, <2>2
    <2>7. Len(v) \in Nat /\ j <= Len(v)
      <3>1. Len(v) \in Nat
        BY <2>1, LeafOnTheWire DEF v
      <3>2. QED
        BY <2>5, <3>1
    <2>8. Cut(x, w \o p, token, j) = ParseSub(y, z)
      <3> DEFINE cut == <<"c", z>>
      <3>1. cut[1] = "c" /\ cut[2] = z
        OBVIOUS
      <3> HIDE DEF z
      <3>2. Cut(x, w \o p, token, j) = ParseField(y, cut)
        BY <2>5, <2>6 DEF Cut, ParseCutField, y, z
      <3> HIDE DEF cut
      <3>3. ParseField(y, cut) = ParseSub(y, z)
        BY <3>1 DEF ParseField
      <3>4. QED
        BY <3>2, <3>3
    <2>9. PICK e : Shows(ParseSub(y, z), TValue(o), SValue(o, h), {e}, <<>>, <<>>) /\ MV!PartOfLeaf(e, LeafValue(b))
      BY <2>1, <2>3, <2>4, <2>7, ParseSubPart DEF v
    <2>10. IsPart(o, h, TValue(o), SValue(o, h), {e}, <<>>, <<>>)
      BY <2>1, <2>9, PartsAreParts DEF IsPart
    <2>11. QED
      BY <2>8, <2>9, <2>10 DEF ShowsPart, w
  <1>3. QED
    BY <1>1, <1>2

(* The stream ends in an element, of which j fields were read.             *)
LEMMA CutInR ==
  ASSUME NEW T, NEW E, NEW x, Room(T, E), Good(T, E, x), NEW o, NEW h, Written(T, o, h),
         IsCleared(x), NEW p, NEW token, CutAt(WireR(o), p, token), NEW j \in Nat,
         token[1] \in {"c", "r"} => j < Len(token[2])
  PROVE  ShowsPart(Cut(x, Singular(o, h) \o p, token, j), o, h)
  <1> DEFINE w == Singular(o, h)
             y == MergePartialFromCodedStream(x, w)
             rr == RValue(o)
             n == o.n
             tt == TValue(o)
             ss == SValue(o, h)
             cc == CValue(o, h)
  <1>1. /\ n \in Nat /\ rr \in Seq(PhoneContents) /\ Len(rr) = n
        /\ Len(WireR(o)) = n /\ \A i \in 1..n : RowToken(T, o, i)
    BY RowTokens
  <1>2. w \in Seq(Tokens(T)) /\ WireR(o) \in Seq(Tokens(T))
    BY WireFronts
  <1>3. Shows(y, tt, ss, cc, <<>>, <<>>)
    <2>1. MV!Or({}, tt) = tt /\ MV!Or({}, ss) = ss /\ MV!MergeSub({}, cc) = cc
      BY DEF MV!Or, MV!MergeSub
    <2>2. QED
      BY <2>1, SingularShows DEF IsCleared
  <1>4. Good(T, E, y)
    BY <1>2, ParseKeeps DEF Keeps
  <1>5. PICK k \in 1..n : p = SubSeq(WireR(o), 1, k - 1) /\ token = WireR(o)[k]
    BY <1>1 DEF CutAt
  <1> DEFINE v == PhoneSerialize(o.r[k])
             z == SubSeq(v, 1, j)
             a == MergePartialFromCodedStream(y, p)
             q == SubSeq(rr, 1, k - 1)
             e == PhoneValue(PhoneParse(PhoneNew, z))
  <1>6. token = <<"r", v>> /\ o.r[k] \in GoodPhones /\ v \in Seq(PhoneTokens) /\ rr[k] = PhoneValue(o.r[k])
    BY <1>1, <1>5 DEF RowToken
  <1>7. token[1] = "r" /\ token[2] = v
    BY <1>6
  <1>8. p \in Seq(Tokens(T)) /\ k - 1 \in 0..n /\ k \in 1..n
    BY <1>1, <1>2, <1>5
  <1>9. Shows(a, tt, ss, cc, q, <<>>) /\ Good(T, E, a)
    <2>1. \A i \in 0..n : Shows(MergePartialFromCodedStream(y, SubSeq(WireR(o), 1, i)), tt, ss, cc,
                                <<>> \o SubSeq(rr, 1, i), <<>>)
      BY <1>3, <1>4, ParseRShows
    <2>2. Shows(a, tt, ss, cc, <<>> \o q, <<>>)
      BY <1>5, <1>8, <2>1
    <2>3. <<>> \o q = q
      <3> HIDE DEF rr
      <3>1. q \in Seq(PhoneContents)
        BY <1>1, <1>8
      <3>2. QED
        BY <3>1, NoneOrAll
    <2>4. Good(T, E, a)
      BY <1>4, <1>8, ParseKeeps DEF Keeps
    <2> HIDE DEF a, q
    <2>5. QED
      BY <2>2, <2>3, <2>4
  <1>10. ParsedAfter(T, E, x, w, p)
    BY <1>2, <1>8, ParseAfter
  <1>11. MergePartialFromCodedStream(x, w \o p) = a
    BY <1>10 DEF ParsedAfter
  <1>12. Len(v) \in Nat /\ j <= Len(v) /\ z \in Seq(PhoneTokens)
    <2> HIDE DEF v
    <2>1. Len(v) \in Nat /\ j <= Len(v)
      BY <1>6, <1>7
    <2>2. QED
      BY <1>6, <2>1
  <1>13. MV!PartOfPhone(e, rr[k])
    BY <1>6, <1>12, PhoneParseShows
  <1> HIDE DEF a, v, w, tt, ss, cc, y
  <1>14. Cut(x, w \o p, token, j) = ParsePhone(a, z)
    <2> DEFINE cut == <<"r", z>>
    <2>1. cut[1] = "r" /\ cut[2] = z
      OBVIOUS
    <2> HIDE DEF z
    <2>2. Cut(x, w \o p, token, j) = ParseField(a, cut)
      BY <1>7, <1>11 DEF Cut, ParseCutField, z
    <2> HIDE DEF cut
    <2>3. ParseField(a, cut) = ParsePhone(a, z)
      BY <2>1 DEF ParseField
    <2>4. QED
      BY <2>2, <2>3
  <1>15. Shows(ParsePhone(a, z), tt, ss, cc, Append(q, e), <<>>)
    BY <1>9, <1>12, ParsePhoneShows
  <1>16. IsPart(o, h, tt, ss, cc, Append(q, e), <<>>)
    <2>1. /\ q \in Seq(PhoneContents) /\ Len(q) = k - 1
          /\ \A i \in 1..(k - 1) : MV!PartOfPhone(q[i], rr[i])
      BY <1>8, PartsAreParts
    <2> HIDE DEF q, e, rr, n
    <2> DEFINE g == Append(q, e)
               U == PhoneContents \cup {e}
    <2>2. q \in Seq(U) /\ e \in U
      BY <2>1
    <2> HIDE DEF U
    <2>3. Len(g) = k /\ DOMAIN g = 1..k /\ g[k] = e /\ \A i \in 1..(k - 1) : g[i] = q[i]
      BY <1>1, <1>8, <2>1, <2>2
    <2> HIDE DEF g
    <2>4. ASSUME NEW i \in 1..k PROVE MV!PartOfPhone(g[i], rr[i])
      <3>1. i = k \/ i \in 1..(k - 1)
        BY <1>1, <1>8
      <3>2. CASE i = k
        BY <1>13, <2>3, <3>2
      <3>3. CASE i \in 1..(k - 1)
        BY <2>1, <2>3, <3>3
      <3>4. QED
        BY <3>1, <3>2, <3>3
    <2>5. Len(g) <= Len(rr)
      BY <1>1, <1>8, <2>3
    <2>6. \A f \in CValue(o, h) : MV!PartOfLeaf(f, f)
      BY PartsAreParts
    <2>7. IsPart(o, h, tt, ss, cc, g, <<>>)
      BY <2>3, <2>4, <2>5, <2>6, PartsAreParts DEF IsPart, tt, ss, cc, rr
    <2>8. QED
      BY <2>7 DEF g
  <1> HIDE DEF q, e, rr
  <1>17. ShowsPart(Cut(x, w \o p, token, j), o, h)
    BY <1>14, <1>15, <1>16 DEF ShowsPart
  <1>18. QED
    BY <1>17 DEF w

(* The stream ends in an unknown field, which is not kept.                 *)
LEMMA CutInU ==
  ASSUME NEW T, NEW E, NEW x, Room(T, E), Good(T, E, x), NEW o, NEW h, Written(T, o, h),
         IsCleared(x), NEW p, NEW token, CutAt(WireU(o), p, token), NEW j \in Nat
  PROVE  ShowsPart(Cut(x, Rows(o, h) \o p, token, j), o, h)
  <1> DEFINE w == Rows(o, h)
             y == MergePartialFromCodedStream(x, w)
             rr == RValue(o)
             n == Len(o.u)
             tt == TValue(o)
             ss == SValue(o, h)
             cc == CValue(o, h)
  <1>1. /\ n \in Nat /\ o.u \in Seq({"newer"}) /\ Len(WireU(o)) = n
        /\ \A i \in 1..n : WireU(o)[i] = <<"u", o.u[i]>>
    BY UnknownTokens
  <1>2. w \in Seq(Tokens(T)) /\ WireU(o) \in Seq(Tokens(T))
    BY WireFronts
  <1>3. Shows(y, tt, ss, cc, rr, <<>>)
    <2>1. MV!Or({}, tt) = tt /\ MV!Or({}, ss) = ss /\ MV!MergeSub({}, cc) = cc
      BY DEF MV!Or, MV!MergeSub
    <2>2. <<>> \o rr = rr
      <3>1. rr \in Seq(PhoneContents)
        BY RowTokens
      <3>2. QED
        BY <3>1, NoneOrAll
    <2>3. QED
      BY <2>1, <2>2, RowsShow DEF IsCleared
  <1>4. Good(T, E, y)
    BY <1>2, ParseKeeps DEF Keeps
  <1>5. PICK k \in 1..n : p = SubSeq(WireU(o), 1, k - 1) /\ token = WireU(o)[k]
    BY <1>1 DEF CutAt
  <1> DEFINE a == MergePartialFromCodedStream(y, p)
             q == SubSeq(o.u, 1, k - 1)
  <1>6. token[1] = "u"
    BY <1>1, <1>5
  <1>7. p \in Seq(Tokens(T)) /\ k - 1 \in 0..n
    BY <1>1, <1>2, <1>5
  <1>8. Shows(a, tt, ss, cc, rr, q)
    <2>1. \A i \in 0..n : Shows(MergePartialFromCodedStream(y, SubSeq(WireU(o), 1, i)), tt, ss, cc, rr,
                                <<>> \o SubSeq(o.u, 1, i))
      BY <1>3, <1>4, ParseUShows
    <2>2. Shows(a, tt, ss, cc, rr, <<>> \o q)
      BY <1>5, <1>7, <2>1
    <2>3. <<>> \o q = q
      <3>1. q \in Seq({"newer"})
        BY <1>1, <1>7
      <3>2. QED
        BY <3>1, NoneOrAll
    <2> HIDE DEF a, q
    <2>4. QED
      BY <2>2, <2>3
  <1>9. ParsedAfter(T, E, x, w, p)
    BY <1>2, <1>7, ParseAfter
  <1>10. MergePartialFromCodedStream(x, w \o p) = a
    BY <1>9 DEF ParsedAfter
  <1> HIDE DEF a, w, tt, ss, cc, y
  <1>11. Cut(x, w \o p, token, j) = a
    BY <1>6, <1>10 DEF Cut, ParseCutField
  <1>12. IsPart(o, h, tt, ss, cc, rr, q)
    <2>1. /\ rr \in Seq(PhoneContents) /\ Len(rr) = o.n
          /\ \A i \in 1..o.n : MV!PartOfPhone(rr[i], rr[i])
      BY RowTokens DEF MV!PartOfPhone
    <2>2. IsPrefix(q, o.u)
      BY <1>7, PartsAreParts
    <2>3. \A f \in CValue(o, h) : MV!PartOfLeaf(f, f)
      BY PartsAreParts
    <2> HIDE DEF q, rr
    <2>4. Len(rr) <= Len(rr) /\ \A i \in DOMAIN rr : MV!PartOfPhone(rr[i], rr[i])
      BY <2>1
    <2>5. QED
      BY <2>2, <2>3, <2>4 DEF IsPart, tt, ss, cc, rr
  <1> HIDE DEF q, rr
  <1>13. ShowsPart(Cut(x, w \o p, token, j), o, h)
    BY <1>8, <1>11, <1>12 DEF ShowsPart
  <1>14. QED
    BY <1>13 DEF w

(* Wherever the stream ends, what was read is a part of the message.       *)
LEMMA CutShows ==
  ASSUME NEW T, NEW E, NEW x, Room(T, E), Good(T, E, x), NEW o, NEW h, Written(T, o, h),
         IsCleared(x), NEW p, NEW token, CutAt(Serialize(o, h), p, token), NEW j \in Nat,
         token[1] \in {"c", "r"} => j < Len(token[2])
  PROVE  ShowsPart(Cut(x, p, token, j), o, h)
  <1> DEFINE K == Tokens(T)
  <1>1. /\ WireT(o) \in Seq(K) /\ WireS(o, h) \in Seq(K) /\ SerializeSub(o, h) \in Seq(K)
        /\ WireR(o) \in Seq(K) /\ WireU(o) \in Seq(K)
        /\ Scalars(o, h) \in Seq(K) /\ Singular(o, h) \in Seq(K) /\ Rows(o, h) \in Seq(K)
        /\ Serialize(o, h) = Rows(o, h) \o WireU(o)
    BY WireFronts
  <1> HIDE DEF K
  <1>2. CutInOne(K, Rows(o, h), WireU(o), p, token)
    BY <1>1, CutOfJoined
  <1>3. ASSUME CutAt(Rows(o, h), p, token) PROVE CutInOne(K, Singular(o, h), WireR(o), p, token)
    <2>1. CutAt(Singular(o, h) \o WireR(o), p, token)
      BY <1>3 DEF Rows
    <2>2. QED
      BY <1>1, <2>1, CutOfJoined
  <1>4. ASSUME CutAt(Singular(o, h), p, token) PROVE CutInOne(K, Scalars(o, h), SerializeSub(o, h), p, token)
    <2>1. CutAt(Scalars(o, h) \o SerializeSub(o, h), p, token)
      BY <1>4 DEF Singular
    <2>2. QED
      BY <1>1, <2>1, CutOfJoined
  <1>5. ASSUME CutAt(Scalars(o, h), p, token) PROVE CutInOne(K, WireT(o), WireS(o, h), p, token)
    <2>1. CutAt(WireT(o) \o WireS(o, h), p, token)
      BY <1>5 DEF Scalars
    <2>2. QED
      BY <1>1, <2>1, CutOfJoined
  <1>6. CASE CutAt(WireT(o), p, token)
    BY <1>6, CutInT
  <1>7. ASSUME NEW q, CutAt(WireS(o, h), q, token), p = WireT(o) \o q PROVE ShowsPart(Cut(x, p, token, j), o, h)
    BY <1>7, CutInS
  <1>8. ASSUME NEW q, CutAt(SerializeSub(o, h), q, token), p = Scalars(o, h) \o q PROVE ShowsPart(Cut(x, p, token, j), o, h)
    BY <1>8, CutInC
  <1>9. ASSUME NEW q, CutAt(WireR(o), q, token), p = Singular(o, h) \o q PROVE ShowsPart(Cut(x, p, token, j), o, h)
    BY <1>9, CutInR
  <1>10. ASSUME NEW q, CutAt(WireU(o), q, token), p = Rows(o, h) \o q PROVE ShowsPart(Cut(x, p, token, j), o, h)
    BY <1>10, CutInU
  <1>11. QED
    BY <1>2, <1>3, <1>4, <1>5, <1>6, <1>7, <1>8, <1>9, <1>10, Zenon DEF CutInOne

-----------------------------------------------------------------------------
(* The messages on the heap are the values they show                       *)

(* The values the refinement mapping gives the variables of MessageValue.  *)
Val == [m \in Messages |-> Value(obj[m])]
HeldString == IF held["s"] # Null THEN {heap.str[held["s"]]} ELSE {}
HeldSub == IF held["c"] # Null THEN {LeafValue(heap.leaf[held["c"]])} ELSE {}

(* Those are what m shows.                                                 *)
IsValue(m, t, s, c, r, u) == Shows(At(m), t, s, c, r, u) /\ Val[m] = Content(t, s, c, r, u)

(* The value of a message is what it shows on the heap.                    *)
LEMMA ValIs == \A m \in Messages : Val[m] = ValueOf(obj[m], heap)
  BY DEF Val, Value, ValueOf, Content, TValue, SValue, CValue, RValue, PhoneValue

(* Each message shows something.                                           *)
LEMMA InvShows ==
  ASSUME NEW m \in Messages
  PROVE  \E t, s, c, r, u : IsValue(m, t, s, c, r, u)
  <1> DEFINE t == TValue(obj[m])
             s == SValue(obj[m], heap)
             c == CValue(obj[m], heap)
             r == RValue(obj[m])
             u == obj[m].u
  <1>1. Shows(At(m), t, s, c, r, u)
    BY DEF At, Shows
  <1>2. Val[m] = Content(t, s, c, r, u)
    BY ValIs DEF ValueOf
  <1> HIDE DEF t, s, c, r, u
  <1>3. IsValue(m, t, s, c, r, u)
    BY <1>1, <1>2 DEF IsValue
  <1>4. QED
    BY <1>3

(* What a message reads as is in the cells it owns.                        *)
LEMMA SameValue ==
  ASSUME NEW o \in Objects, NEW h, NEW g, Frame(Own(o), h, g), h.str[Shared] = g.str[Shared]
  PROVE  ValueOf(o, h) = ValueOf(o, g)
  <1>1. o.s \in Cells \cup {Shared} /\ o.c \in Cells \cup {Null}
    BY DEF Objects
  <1>2. h.str[o.s] = g.str[o.s]
    BY <1>1 DEF Frame, Own
  <1>3. o.c # Null => h.leaf[o.c] = g.leaf[o.c]
    BY <1>1 DEF Frame, Own
  <1>4. GetSub(o, h) = GetSub(o, g)
    BY <1>3 DEF GetSub
  <1>5. QED
    BY <1>2, <1>4 DEF ValueOf, SValue, CValue

(* The other messages and all their cells are left alone.                  *)
OthersSame(m) == /\ \A n \in Messages : n # m => obj'[n] = obj[n]
                 /\ Frame(Elsewhere(m), heap, heap')
                 /\ heap'.str[Shared] = heap.str[Shared]

(* Then m's value is all that changes.                                     *)
LEMMA OthersShowSame ==
  ASSUME IInv, NEW m \in Messages, OthersSame(m), NEW v, ValueOf(obj'[m], heap') = v
  PROVE  Val' = [Val EXCEPT ![m] = v] /\ Val'[m] = v
  <1>1. \A n \in Messages : Val[n] = ValueOf(obj[n], heap) /\ Val'[n] = ValueOf(obj'[n], heap')
    BY DEF Val, Value, ValueOf, Content, TValue, SValue, CValue, RValue, PhoneValue
  <1>2. ASSUME NEW n \in Messages, n # m PROVE ValueOf(obj'[n], heap') = ValueOf(obj[n], heap)
    <2>1. obj[n] \in Objects /\ obj'[n] = obj[n]
      BY <1>2 DEF OthersSame, IInv, TypesOf
    <2>2. Frame(Own(obj[n]), heap, heap')
      BY <1>2, ElsewhereIs DEF OthersSame, Frame
    <2>3. QED
      BY <2>1, <2>2, SameValue DEF OthersSame
  <1>3. Val = [n \in Messages |-> Val[n]] /\ Val' = [n \in Messages |-> Val'[n]]
    BY DEF Val
  <1>4. \A n \in Messages : Val'[n] = IF n = m THEN v ELSE Val[n]
    BY <1>1, <1>2
  <1>5. QED
    BY <1>3, <1>4

(* What the caller holds.                                                  *)
LEMMA HeldSame ==
  ASSUME IInv, NEW m \in Messages, OthersSame(m)
  PROVE  /\ held'["s"] = held["s"] => HeldString' = HeldString
         /\ held'["c"] = held["c"] => HeldSub' = HeldSub
  <1>1. \A k \in Pointers : held[k] # Null => held[k] \in Elsewhere(m)
    <2>1. \A k \in Pointers : held[k] # Null => held[k] \in HeldCells
      BY HeldIs DEF IInv, TypesOf, Pointers
    <2>2. QED
      BY <2>1, ElsewhereIs
  <1>2. "s" \in Pointers /\ "c" \in Pointers
    BY DEF Pointers
  <1>3. /\ held["s"] # Null => heap'.str[held["s"]] = heap.str[held["s"]]
        /\ held["c"] # Null => heap'.leaf[held["c"]] = heap.leaf[held["c"]]
    BY <1>1, <1>2 DEF OthersSame, Frame
  <1>4. QED
    BY <1>3 DEF HeldString, HeldSub

(* A call on one message.                                                  *)
Becomes(m, v) == /\ Val' = [Val EXCEPT ![m] = v] /\ Val'[m] = v
                 /\ HeldString' = HeldString /\ HeldSub' = HeldSub

(* So it is after an operation that keeps the cells of others.             *)
LEMMA UpdateBecomes ==
  ASSUME IInv, NEW m \in Messages, NEW x, Keeps(type, Elsewhere(m), At(m), x), Update(m, x),
         NEW t, NEW s, NEW c, NEW r, NEW u, Shows(x, t, s, c, r, u)
  PROVE  Becomes(m, Content(t, s, c, r, u))
  <1>1. obj' = [obj EXCEPT ![m] = x.o] /\ heap' = x.h /\ type' = type /\ held' = held
    BY DEF Update, Store
  <1>2. obj'[m] = x.o /\ \A n \in Messages : n # m => obj'[n] = obj[n]
    BY <1>1 DEF IInv, TypesOf
  <1>3. OthersSame(m)
    <2>1. Frame(Elsewhere(m), heap, heap')
      BY <1>1 DEF Keeps, At
    <2>2. heap'.str[Shared] = heap.str[Shared]
      BY <1>1 DEF Keeps, Good, CleanHeap, IInv
    <2>3. QED
      BY <1>2, <2>1, <2>2 DEF OthersSame
  <1>4. ValueOf(obj'[m], heap') = Content(t, s, c, r, u)
    BY <1>1, <1>2 DEF ValueOf, Shows
  <1>5. Val' = [Val EXCEPT ![m] = Content(t, s, c, r, u)] /\ Val'[m] = Content(t, s, c, r, u)
    BY <1>3, <1>4, OthersShowSame
  <1>6. HeldString' = HeldString /\ HeldSub' = HeldSub
    BY <1>1, <1>3, HeldSame
  <1>7. QED
    BY <1>5, <1>6 DEF Becomes

(* This is the abstract specification's Become.                            *)
LEMMA BecomeIs ==
  ASSUME NEW m, NEW v
  PROVE  Becomes(m, v) => MV!Become(m, v)
  BY DEF Becomes, MV!Become, Val, HeldString, HeldSub

(* The fields of a message of the abstract specification.                  *)
LEMMA ContentIs ==
  ASSUME NEW t, NEW s, NEW c, NEW r, NEW u
  PROVE  LET v == Content(t, s, c, r, u) IN v.t = t /\ v.s = s /\ v.c = c /\ v.r = r /\ v.u = u
  BY DEF Content

(* The calls                                                               *)

(* The calls on a number set or clear a field.                             *)
LEMMA ScalarCallsStep ==
  ASSUME IInv, NEW m \in Messages, ScalarCalls(m)
  PROVE  MV!SetField(m) \/ MV!ClearField(m)
  <1>1. Good(type, Elsewhere(m), At(m)) /\ "t" \in type
    BY InvGood DEF ScalarCalls
  <1>2. PICK t, s, c, r, u : IsValue(m, t, s, c, r, u)
    BY InvShows
  <1>3. Shows(At(m), t, s, c, r, u) /\ Val[m] = Content(t, s, c, r, u)
    BY <1>2 DEF IsValue
  <1>4. CASE \E v \in Numbers : Update(m, SetScalar(At(m), v))
    <2>1. PICK v \in Numbers : Update(m, SetScalar(At(m), v))
      BY <1>4
    <2>2. Keeps(type, Elsewhere(m), At(m), SetScalar(At(m), v))
      BY <1>1, SetScalarKeeps
    <2>3. Shows(SetScalar(At(m), v), {v}, s, c, r, u)
      BY <1>1, <1>3, SetScalarShows
    <2>4. Becomes(m, Content({v}, s, c, r, u))
      BY <2>1, <2>2, <2>3, UpdateBecomes
    <2>5. MV!Become(m, Content({v}, s, c, r, u)) /\ Val'[m] = Content({v}, s, c, r, u)
      BY <2>4, BecomeIs DEF Becomes
    <2>6. Val'[m].t = {v} /\ {v} # {}
      BY <2>5, ContentIs
    <2>7. [Val[m] EXCEPT !.t = {v}] = Content({v}, s, c, r, u)
      BY <1>3 DEF Content
    <2>8. Val'[m].t # {} /\ MV!Become(m, [Val[m] EXCEPT !.t = Val'[m].t])
      BY <2>5, <2>6, <2>7
    <2>9. QED
      BY <2>8 DEF MV!SetField, Val
  <1>5. CASE Update(m, ClearScalar(At(m)))
    <2>1. Keeps(type, Elsewhere(m), At(m), ClearScalar(At(m)))
      BY <1>1, ClearScalarKeeps
    <2>2. Shows(ClearScalar(At(m)), {}, s, c, r, u)
      BY <1>1, <1>3, ClearScalarShows
    <2>3. Becomes(m, Content({}, s, c, r, u))
      BY <1>5, <2>1, <2>2, UpdateBecomes
    <2>4. [Val[m] EXCEPT !.t = {}] = Content({}, s, c, r, u)
      BY <1>3 DEF Content
    <2>5. MV!Become(m, [Val[m] EXCEPT !.t = {}])
      BY <2>3, <2>4, BecomeIs
    <2>6. QED
      BY <2>5 DEF MV!ClearField, Val
  <1>6. QED
    BY <1>4, <1>5 DEF ScalarCalls

(* set_ of a string sets a field.                                          *)
LEMMA SetStringStep ==
  ASSUME IInv, NEW m \in Messages, "s" \in type, NEW v \in Strings, Update(m, SetString(At(m), v))
  PROVE  MV!SetField(m)
  <1>1. Good(type, Elsewhere(m), At(m)) /\ Room(type, Elsewhere(m))
    BY InvGood, InvRoom
  <1>2. PICK t, s, c, r, u : IsValue(m, t, s, c, r, u)
    BY InvShows
  <1>3. Shows(At(m), t, s, c, r, u) /\ Val[m] = Content(t, s, c, r, u)
    BY <1>2 DEF IsValue
  <1>4. Keeps(type, Elsewhere(m), At(m), SetString(At(m), v))
    BY <1>1, SetStringKeeps
  <1>5. Shows(SetString(At(m), v), t, {v}, c, r, u)
    BY <1>1, <1>3, SetStringShows
  <1>6. Becomes(m, Content(t, {v}, c, r, u))
    BY <1>4, <1>5, UpdateBecomes
  <1>7. MV!Become(m, Content(t, {v}, c, r, u)) /\ Val'[m] = Content(t, {v}, c, r, u)
    BY <1>6, BecomeIs DEF Becomes
  <1>8. Val'[m].s = {v} /\ {v} # {}
    BY <1>7, ContentIs
  <1>9. [Val[m] EXCEPT !.s = {v}] = Content(t, {v}, c, r, u)
    BY <1>3 DEF Content
  <1>10. Val'[m].s # {} /\ MV!Become(m, [Val[m] EXCEPT !.s = Val'[m].s])
    BY <1>7, <1>8, <1>9
  <1>11. QED
    BY <1>10 DEF MV!SetField, Val

(* clear_ of a string clears a field.                                      *)
LEMMA ClearStringStep ==
  ASSUME IInv, NEW m \in Messages, Update(m, ClearString(At(m)))
  PROVE  MV!ClearField(m)
  <1>1. Good(type, Elsewhere(m), At(m))
    BY InvGood
  <1>2. PICK t, s, c, r, u : IsValue(m, t, s, c, r, u)
    BY InvShows
  <1>3. Shows(At(m), t, s, c, r, u) /\ Val[m] = Content(t, s, c, r, u)
    BY <1>2 DEF IsValue
  <1>4. Keeps(type, Elsewhere(m), At(m), ClearString(At(m)))
    BY <1>1, ClearStringKeeps
  <1>5. Shows(ClearString(At(m)), t, {}, c, r, u)
    BY <1>1, <1>3, ClearStringShows
  <1>6. Becomes(m, Content(t, {}, c, r, u))
    BY <1>4, <1>5, UpdateBecomes
  <1>7. [Val[m] EXCEPT !.s = {}] = Content(t, {}, c, r, u)
    BY <1>3 DEF Content
  <1>8. MV!Become(m, [Val[m] EXCEPT !.s = {}])
    BY <1>6, <1>7, BecomeIs
  <1>9. QED
    BY <1>8 DEF MV!ClearField, Val

(* clear_ of a sub-message clears a field.                                 *)
LEMMA ClearSubStep ==
  ASSUME IInv, NEW m \in Messages, Update(m, ClearSub(At(m)))
  PROVE  MV!ClearField(m)
  <1>1. Good(type, Elsewhere(m), At(m))
    BY InvGood
  <1>2. PICK t, s, c, r, u : IsValue(m, t, s, c, r, u)
    BY InvShows
  <1>3. Shows(At(m), t, s, c, r, u) /\ Val[m] = Content(t, s, c, r, u)
    BY <1>2 DEF IsValue
  <1>4. Keeps(type, Elsewhere(m), At(m), ClearSub(At(m)))
    BY <1>1, ClearSubKeeps
  <1>5. Shows(ClearSub(At(m)), t, s, {}, r, u)
    BY <1>1, <1>3, ClearSubShows
  <1>6. Becomes(m, Content(t, s, {}, r, u))
    BY <1>4, <1>5, UpdateBecomes
  <1>7. [Val[m] EXCEPT !.c = {}] = Content(t, s, {}, r, u)
    BY <1>3 DEF Content
  <1>8. MV!Become(m, [Val[m] EXCEPT !.c = {}])
    BY <1>6, <1>7, BecomeIs
  <1>9. QED
    BY <1>8 DEF MV!ClearField, Val

(* A field of a sub-message, set through the pointer to it.                *)
LEMMA LeafSetValue ==
  ASSUME NEW l, NEW c, IsUnder(l, c), NEW f \in LeafFields, NEW v \in Numbers
  PROVE  LET b == LeafValue(LeafSet(l, f, v)) IN MV!MergeSub(c, {b}) = {b}
  <1> DEFINE k == LeafSet(l, f, v)
             b == LeafValue(k)
             a == LeafValue(l)
  <1>1. k \in GoodLeafs
    BY LeafOperations DEF IsUnder
  <1>2. MV!MergeSub(c, {b}) = {MV!MergeLeafs(a, b)}
    <2> HIDE DEF k
    <2>1. QED
      BY <1>1, MergedSub
  <1>3. k.has = l.has \cup {f}
    BY DEF IsUnder, LeafSet, GoodLeafs, Leafs
  <1> HIDE DEF k
  <1>4. \A g \in LeafFields : b[g] = {} => a[g] = {}
    BY <1>3 DEF LeafValue
  <1>5. MV!MergeLeafs(a, b) = b
    <2>1. b = [g \in LeafFields |-> b[g]]
      BY DEF LeafValue
    <2> HIDE DEF a, b
    <2>2. \A g \in LeafFields : MV!Or(a[g], b[g]) = b[g]
      BY <1>4 DEF MV!Or
    <2>3. QED
      BY <2>1, <2>2 DEF MV!MergeLeafs
  <1>6. MV!MergeSub(c, {b}) = {b}
    BY <1>2, <1>5
  <1>7. QED
    BY <1>6 DEF k

(* mutable_ and a setter through the pointer set a field of the sub-       *)
(* message.                                                                *)
LEMMA SetThroughSubStep ==
  ASSUME IInv, NEW m \in Messages, "c" \in type, SetThroughSub(m)
  PROVE  MV!SetSub(m)
  <1> DEFINE x == At(m)
             y == MutableSub(x)
             E == Elsewhere(m)
             k == y.h.leaf[y.o.c]
  <1>1. Good(type, E, x) /\ Room(type, E)
    BY InvGood, InvRoom
  <1>2. PICK f \in LeafFields, v \in Numbers : Update(m, WithSub(y, LeafSet(k, f, v)))
    BY DEF SetThroughSub, WithSub
  <1>3. PICK t, s, c, r, u : IsValue(m, t, s, c, r, u)
    BY InvShows
  <1>4. Shows(x, t, s, c, r, u) /\ Val[m] = Content(t, s, c, r, u)
    BY <1>3 DEF IsValue
  <1> HIDE DEF x, E
  <1>5. /\ Keeps(type, E, x, y) /\ Good(type, E, y) /\ y.o.c \in Cells /\ "c" \in y.o.has
        /\ IsUnder(k, c)
        /\ \A l \in GoodLeafs : Shows(WithSub(y, l), t, s, {LeafValue(l)}, r, u)
    BY <1>1, <1>4, SubShows DEF IsUnder
  <1> HIDE DEF y, k
  <1> DEFINE l == LeafSet(k, f, v)
             b == LeafValue(l)
  <1>6. l \in GoodLeafs
    BY <1>5, LeafOperations DEF IsUnder
  <1>7. MV!MergeSub(c, {b}) = {b}
    BY <1>5, LeafSetValue
  <1>8. Update(m, WithSub(y, l))
    BY <1>2
  <1> HIDE DEF l
  <1>9. Keeps(type, E, x, WithSub(y, l))
    <2>1. Keeps(type, E, y, WithSub(y, l))
      BY <1>5, <1>6, SubBecomes
    <2>2. QED
      BY <1>5, <2>1, KeepsMore
  <1>10. Shows(WithSub(y, l), t, s, {b}, r, u)
    BY <1>5, <1>6
  <1> HIDE DEF b
  <1>11. Becomes(m, Content(t, s, {b}, r, u))
    BY <1>8, <1>9, <1>10, UpdateBecomes DEF E, x
  <1>12. MV!Become(m, Content(t, s, {b}, r, u)) /\ Val'[m] = Content(t, s, {b}, r, u)
    BY <1>11, BecomeIs DEF Becomes
  <1>13. Val'[m].c = {b} /\ Val[m].c = c
    BY <1>4, <1>12, ContentIs
  <1>14. [Val[m] EXCEPT !.c = {b}] = Content(t, s, {b}, r, u)
    BY <1>4 DEF Content
  <1>15. b \in Val'[m].c /\ MV!Become(m, [Val[m] EXCEPT !.c = MV!MergeSub(@, {b})])
    <2>1. [Val[m] EXCEPT !.c = MV!MergeSub(@, {b})] = [Val[m] EXCEPT !.c = {b}]
      BY <1>7, <1>13
    <2>2. QED
      BY <1>12, <1>13, <1>14, <2>1
  <1>16. QED
    BY <1>15 DEF MV!SetSub, Val

(* A field that is given away or taken over.                               *)
LEMMA StringReplaced ==
  ASSUME NEW o, NEW q, NEW h, NEW g,
         q.t = o.t, q.c = o.c, q.r = o.r, q.n = o.n, q.u = o.u,
         \A k \in {"t", "c"} : k \in q.has <=> k \in o.has,
         o.c # Null => g.leaf[o.c] = h.leaf[o.c],
         NEW v, SValue(q, g) = v
  PROVE  ValueOf(q, g) = [ValueOf(o, h) EXCEPT !.s = v]
  <1>1. TValue(q) = TValue(o) /\ RValue(q) = RValue(o)
    BY DEF TValue, RValue
  <1>2. CValue(q, g) = CValue(o, h)
    BY DEF CValue, GetSub
  <1>3. QED
    BY <1>1, <1>2 DEF ValueOf, Content

(* The same of a sub-message.                                              *)
LEMMA SubReplaced ==
  ASSUME NEW o, NEW q, NEW h, NEW g,
         q.t = o.t, q.s = o.s, q.r = o.r, q.n = o.n, q.u = o.u,
         \A k \in {"t", "s"} : k \in q.has <=> k \in o.has,
         g.str[o.s] = h.str[o.s],
         NEW v, CValue(q, g) = v
  PROVE  ValueOf(q, g) = [ValueOf(o, h) EXCEPT !.c = v]
  <1>1. TValue(q) = TValue(o) /\ RValue(q) = RValue(o) /\ SValue(q, g) = SValue(o, h)
    BY DEF TValue, RValue, SValue
  <1>2. QED
    BY <1>1 DEF ValueOf, Content

(* Only m's cells are deleted.                                             *)
LEMMA DeletedApart ==
  ASSUME IInv, NEW m \in Messages, NEW p \in Own(obj[m])
  PROVE  /\ Frame(Elsewhere(m), heap, Delete(heap, p))
         /\ Delete(heap, p).str[Shared] = heap.str[Shared]
         /\ \A q \in Cells : q # p => /\ Delete(heap, p).str[q] = heap.str[q]
                                      /\ Delete(heap, p).leaf[q] = heap.leaf[q]
  <1>1. p \in Cells /\ heap \in Heaps
    BY MessageParts DEF Own
  <1>2. p \notin Elsewhere(m)
    BY InvGood DEF Good, Owns, Own, At
  <1>3. Elsewhere(m) \subseteq Cells
    BY ElsewhereIs
  <1>4. QED
    BY <1>1, <1>2, <1>3, DeleteIs DEF Frame

(* release_ of a string moves its value to the caller.                     *)
LEMMA ReleaseStringStep ==
  ASSUME IInv, NEW m \in Messages, ReleaseString(m)
  PROVE  MV!ReleaseString(m)
  <1> DEFINE has == obj[m].has \ {"s"}
             q == [obj[m] EXCEPT !.has = has, !.s = Shared]
  <1>1. /\ held["s"] = Null /\ heap' = heap
        /\ held' = [held EXCEPT !["s"] = IF obj[m].s = Shared THEN Null ELSE obj[m].s]
        /\ obj' = [obj EXCEPT ![m] = q]
    BY DEF ReleaseString
  <1>2. /\ obj[m] \in Objects /\ obj[m].s \in Cells \cup {Shared} /\ obj[m].c \in Cells \cup {Null}
        /\ Reads(obj[m], heap) /\ obj \in [Messages -> Objects] /\ held \in [Pointers -> Cells \cup {Null}]
    BY DEF IInv, TypesOf, IsMessage, Objects
  <1>3. held'["c"] = held["c"] /\ held'["s"] = IF obj[m].s = Shared THEN Null ELSE obj[m].s
    BY <1>1, <1>2 DEF Pointers
  <1>4. obj'[m] = q /\ \A n \in Messages : n # m => obj'[n] = obj[n]
    BY <1>1, <1>2
  <1>5. OthersSame(m)
    BY <1>1, <1>4 DEF OthersSame, Frame
  <1>6. ValueOf(q, heap) = [Val[m] EXCEPT !.s = {}]
    <2>1. /\ q.t = obj[m].t /\ q.c = obj[m].c /\ q.r = obj[m].r /\ q.n = obj[m].n /\ q.u = obj[m].u
          /\ q.has = has
      BY <1>2 DEF Objects
    <2>2. (\A k \in {"t", "c"} : k \in q.has <=> k \in obj[m].has) /\ SValue(q, heap) = {}
      BY <2>1 DEF SValue
    <2> HIDE DEF q
    <2>3. ValueOf(q, heap) = [ValueOf(obj[m], heap) EXCEPT !.s = {}]
      BY <2>1, <2>2, StringReplaced
    <2>4. QED
      BY <2>3, ValIs
  <1> HIDE DEF q
  <1>7. Val' = [Val EXCEPT ![m] = [Val[m] EXCEPT !.s = {}]]
    BY <1>1, <1>4, <1>5, <1>6, OthersShowSame
  <1>8. HeldSub' = HeldSub
    BY <1>3, <1>5, HeldSame
  <1>9. HeldString' \in MV!Given(Val[m].s, "")
    <2>1. Val[m].s = SValue(obj[m], heap)
      <3>1. Val[m] = Content(TValue(obj[m]), SValue(obj[m], heap), CValue(obj[m], heap), RValue(obj[m]), obj[m].u)
        BY ValIs DEF ValueOf
      <3>2. QED
        BY <3>1, ContentIs
    <2>2. HeldString' = IF obj[m].s = Shared THEN {} ELSE {heap.str[obj[m].s]}
      BY <1>1, <1>2, <1>3, SharedIsNoCell DEF HeldString
    <2>3. QED
      BY <1>2, <2>1, <2>2 DEF Reads, SValue, MV!Given
  <1>10. QED
    BY <1>7, <1>8, <1>9 DEF MV!ReleaseString, Val, HeldString, HeldSub

(* set_allocated_ of a string moves the caller's value to the message.     *)
LEMMA SetAllocatedStringStep ==
  ASSUME IInv, NEW m \in Messages, SetAllocatedString(m)
  PROVE  MV!SetAllocatedString(m)
  <1> DEFINE a == obj[m].s
             b == held["s"]
             has == IF b # Null THEN obj[m].has \cup {"s"} ELSE obj[m].has \ {"s"}
             p == IF b # Null THEN b ELSE Shared
             q == [obj[m] EXCEPT !.has = has, !.s = p]
  <1>1. /\ heap' = IF a # Shared THEN Delete(heap, a) ELSE heap
        /\ held' = [held EXCEPT !["s"] = Null]
        /\ obj' = [obj EXCEPT ![m] = q]
    BY DEF SetAllocatedString
  <1>2. /\ obj[m] \in Objects /\ a \in Cells \cup {Shared} /\ obj[m].c \in Cells \cup {Null}
        /\ a # obj[m].c /\ Own(obj[m]) \cap HeldCells = {}
        /\ obj \in [Messages -> Objects] /\ held \in [Pointers -> Cells \cup {Null}] /\ b \in Cells \cup {Null}
    BY DEF IInv, TypesOf, Apart, Objects, Pointers
  <1>3. held'["c"] = held["c"] /\ held'["s"] = Null
    BY <1>1, <1>2 DEF Pointers
  <1>4. obj'[m] = q /\ \A n \in Messages : n # m => obj'[n] = obj[n]
    BY <1>1, <1>2
  <1>5. /\ OthersSame(m)
        /\ \A k \in Cells : k # a => heap'.str[k] = heap.str[k] /\ heap'.leaf[k] = heap.leaf[k]
    <2>1. CASE a = Shared
      BY <1>1, <1>4, <2>1 DEF OthersSame, Frame
    <2>2. CASE a # Shared
      <3>1. a \in Own(obj[m])
        BY <1>2, <2>2 DEF Own
      <3>2. heap' = Delete(heap, a)
        BY <1>1, <2>2
      <3> HIDE DEF a
      <3>3. QED
        BY <1>4, <3>1, <3>2, DeletedApart DEF OthersSame
    <2>3. QED
      BY <2>1, <2>2
  <1>6. ValueOf(q, heap') = [Val[m] EXCEPT !.s = HeldString]
    <2>1. /\ q.t = obj[m].t /\ q.c = obj[m].c /\ q.r = obj[m].r /\ q.n = obj[m].n /\ q.u = obj[m].u
          /\ q.has = has /\ q.s = p
      <3> HIDE DEF has, p
      <3>1. QED
        BY <1>2 DEF Objects
    <2>2. ("s" \in has <=> b # Null) /\ \A k \in {"t", "c"} : k \in has <=> k \in obj[m].has
      BY <1>2
    <2>3. SValue(q, heap') = HeldString
      <3>1. b # Null => b \in HeldCells
        BY <1>2, HeldIs
      <3>2. b # Null => b # a /\ b \in Cells /\ p = b
        BY <1>2, <3>1 DEF Own
      <3>3. b # Null => heap'.str[p] = heap.str[b]
        BY <1>5, <3>2
      <3>4. QED
        BY <2>1, <2>2, <3>3 DEF HeldString, SValue
    <2>4. obj[m].c # Null => heap'.leaf[obj[m].c] = heap.leaf[obj[m].c]
      BY <1>2, <1>5
    <2> HIDE DEF has, p, q
    <2>5. ValueOf(q, heap') = [ValueOf(obj[m], heap) EXCEPT !.s = HeldString]
      BY <2>1, <2>2, <2>3, <2>4, StringReplaced
    <2>6. QED
      BY <2>5, ValIs
  <1> HIDE DEF q
  <1>7. Val' = [Val EXCEPT ![m] = [Val[m] EXCEPT !.s = HeldString]]
    BY <1>4, <1>5, <1>6, OthersShowSame
  <1>8. HeldSub' = HeldSub
    BY <1>3, <1>5, HeldSame
  <1>9. HeldString' = {}
    BY <1>3 DEF HeldString
  <1>10. Val' = [Val EXCEPT ![m].s = HeldString]
    BY <1>7
  <1>11. QED
    BY <1>8, <1>9, <1>10 DEF MV!SetAllocatedString, Val, HeldString, HeldSub

(* release_ of a sub-message moves its value to the caller.                *)
LEMMA ReleaseSubStep ==
  ASSUME IInv, NEW m \in Messages, ReleaseSub(m)
  PROVE  MV!ReleaseSub(m)
  <1> DEFINE has == obj[m].has \ {"c"}
             q == [obj[m] EXCEPT !.has = has, !.c = Null]
  <1>1. /\ heap' = heap
        /\ held' = [held EXCEPT !["c"] = obj[m].c]
        /\ obj' = [obj EXCEPT ![m] = q]
    BY DEF ReleaseSub
  <1>2. /\ obj[m] \in Objects /\ obj[m].s \in Cells \cup {Shared} /\ obj[m].c \in Cells \cup {Null}
        /\ Reads(obj[m], heap) /\ obj \in [Messages -> Objects] /\ held \in [Pointers -> Cells \cup {Null}]
    BY DEF IInv, TypesOf, IsMessage, Objects
  <1>3. held'["s"] = held["s"] /\ held'["c"] = obj[m].c
    BY <1>1, <1>2 DEF Pointers
  <1>4. obj'[m] = q /\ \A n \in Messages : n # m => obj'[n] = obj[n]
    BY <1>1, <1>2
  <1>5. OthersSame(m)
    BY <1>1, <1>4 DEF OthersSame, Frame
  <1>6. ValueOf(q, heap) = [Val[m] EXCEPT !.c = {}]
    <2>1. /\ q.t = obj[m].t /\ q.s = obj[m].s /\ q.r = obj[m].r /\ q.n = obj[m].n /\ q.u = obj[m].u
          /\ q.has = has
      BY <1>2 DEF Objects
    <2>2. (\A k \in {"t", "s"} : k \in q.has <=> k \in obj[m].has) /\ CValue(q, heap) = {}
      BY <2>1 DEF CValue
    <2> HIDE DEF q
    <2>3. ValueOf(q, heap) = [ValueOf(obj[m], heap) EXCEPT !.c = {}]
      BY <2>1, <2>2, SubReplaced
    <2>4. QED
      BY <2>3, ValIs
  <1> HIDE DEF q
  <1>7. Val' = [Val EXCEPT ![m] = [Val[m] EXCEPT !.c = {}]]
    BY <1>1, <1>4, <1>5, <1>6, OthersShowSame
  <1>8. HeldString' = HeldString
    BY <1>3, <1>5, HeldSame
  <1>9. HeldSub' \in MV!Given(Val[m].c, MV!EmptyLeaf)
    <2>1. Val[m].c = CValue(obj[m], heap)
      <3>1. Val[m] = Content(TValue(obj[m]), SValue(obj[m], heap), CValue(obj[m], heap), RValue(obj[m]), obj[m].u)
        BY ValIs DEF ValueOf
      <3>2. QED
        BY <3>1, ContentIs
    <2>2. HeldSub' = IF obj[m].c = Null THEN {} ELSE {LeafValue(heap.leaf[obj[m].c])}
      BY <1>1, <1>3 DEF HeldSub
    <2>3. CASE "c" \in obj[m].has
      <3>1. obj[m].c # Null /\ GetSub(obj[m], heap) = heap.leaf[obj[m].c]
        BY <1>2, <2>3 DEF Reads, GetSub
      <3>2. HeldSub' = CValue(obj[m], heap)
        BY <2>2, <2>3, <3>1 DEF CValue
      <3>3. QED
        BY <2>1, <3>2 DEF MV!Given
    <2>4. CASE "c" \notin obj[m].has
      <3>1. CValue(obj[m], heap) = {} /\ obj[m].c # Null => heap.leaf[obj[m].c] = LeafNew
        BY <1>2, <2>4 DEF Reads, CValue
      <3>2. CValue(obj[m], heap) = {}
        BY <2>4 DEF CValue
      <3>3. LeafValue(LeafNew) = MV!EmptyLeaf
        BY LeafValues
      <3>4. HeldSub' = {} \/ HeldSub' = {MV!EmptyLeaf}
        BY <2>2, <3>1, <3>2, <3>3
      <3>5. QED
        BY <2>1, <3>2, <3>4 DEF MV!Given
    <2>5. QED
      BY <2>3, <2>4
  <1>10. Val' = [Val EXCEPT ![m].c = {}]
    BY <1>7
  <1>11. QED
    BY <1>8, <1>9, <1>10 DEF MV!ReleaseSub, Val, HeldString, HeldSub

(* set_allocated_ of a sub-message moves the caller's value to the message.*)
LEMMA SetAllocatedSubStep ==
  ASSUME IInv, NEW m \in Messages, SetAllocatedSub(m)
  PROVE  MV!SetAllocatedSub(m)
  <1> DEFINE a == obj[m].c
             b == held["c"]
             has == IF b # Null THEN obj[m].has \cup {"c"} ELSE obj[m].has \ {"c"}
             q == [obj[m] EXCEPT !.has = has, !.c = b]
  <1>1. /\ heap' = IF a # Null THEN Delete(heap, a) ELSE heap
        /\ held' = [held EXCEPT !["c"] = Null]
        /\ obj' = [obj EXCEPT ![m] = q]
    BY DEF SetAllocatedSub
  <1>2. /\ obj[m] \in Objects /\ a \in Cells \cup {Null} /\ obj[m].s \in Cells \cup {Shared}
        /\ a # obj[m].s /\ Own(obj[m]) \cap HeldCells = {}
        /\ obj \in [Messages -> Objects] /\ held \in [Pointers -> Cells \cup {Null}] /\ b \in Cells \cup {Null}
    BY DEF IInv, TypesOf, Apart, Objects, Pointers
  <1>3. held'["s"] = held["s"] /\ held'["c"] = Null
    BY <1>1, <1>2 DEF Pointers
  <1>4. obj'[m] = q /\ \A n \in Messages : n # m => obj'[n] = obj[n]
    BY <1>1, <1>2
  <1>5. /\ OthersSame(m)
        /\ \A k \in Cells : k # a => heap'.str[k] = heap.str[k] /\ heap'.leaf[k] = heap.leaf[k]
    <2>1. CASE a = Null
      BY <1>1, <1>4, <2>1 DEF OthersSame, Frame
    <2>2. CASE a # Null
      <3>1. a \in Own(obj[m])
        BY <1>2, <2>2 DEF Own
      <3>2. heap' = Delete(heap, a)
        BY <1>1, <2>2
      <3> HIDE DEF a
      <3>3. QED
        BY <1>4, <3>1, <3>2, DeletedApart DEF OthersSame
    <2>3. QED
      BY <2>1, <2>2
  <1>6. ValueOf(q, heap') = [Val[m] EXCEPT !.c = HeldSub]
    <2>1. /\ q.t = obj[m].t /\ q.s = obj[m].s /\ q.r = obj[m].r /\ q.n = obj[m].n /\ q.u = obj[m].u
          /\ q.has = has /\ q.c = b
      <3> HIDE DEF has, b
      <3>1. QED
        BY <1>2 DEF Objects
    <2>2. ("c" \in has <=> b # Null) /\ \A k \in {"t", "s"} : k \in has <=> k \in obj[m].has
      BY <1>2
    <2>3. CValue(q, heap') = HeldSub
      <3>1. b # Null => b \in HeldCells
        BY <1>2, HeldIs
      <3>2. b # Null => b # a /\ b \in Cells
        BY <1>2, <3>1 DEF Own
      <3>3. b # Null => heap'.leaf[b] = heap.leaf[b]
        BY <1>5, <3>2
      <3>4. QED
        BY <2>1, <2>2, <3>3 DEF HeldSub, CValue, GetSub
    <2>4. heap'.str[obj[m].s] = heap.str[obj[m].s]
      BY <1>2, <1>5 DEF OthersSame
    <2> HIDE DEF has, b, q
    <2>5. ValueOf(q, heap') = [ValueOf(obj[m], heap) EXCEPT !.c = HeldSub]
      BY <2>1, <2>2, <2>3, <2>4, SubReplaced
    <2>6. QED
      BY <2>5, ValIs
  <1> HIDE DEF q
  <1>7. Val' = [Val EXCEPT ![m] = [Val[m] EXCEPT !.c = HeldSub]]
    BY <1>4, <1>5, <1>6, OthersShowSame
  <1>8. HeldString' = HeldString
    BY <1>3, <1>5, HeldSame
  <1>9. HeldSub' = {}
    BY <1>3 DEF HeldSub
  <1>10. Val' = [Val EXCEPT ![m].c = HeldSub]
    BY <1>7
  <1>11. QED
    BY <1>8, <1>9, <1>10 DEF MV!SetAllocatedSub, Val, HeldString, HeldSub

(* What the caller deletes no message shows.                               *)
LEMMA DeleteHeldStep ==
  ASSUME IInv, NEW k \in Pointers, DeleteHeld(k)
  PROVE  MV!DeleteHeld
  <1> DEFINE p == held[k]
  <1>1. p # Null /\ heap' = Delete(heap, p) /\ held' = [held EXCEPT ![k] = Null] /\ obj' = obj
    BY DEF DeleteHeld
  <1>2. /\ heap \in Heaps /\ held \in [Pointers -> Cells \cup {Null}] /\ obj \in [Messages -> Objects]
        /\ held["s"] = held["c"] => held["s"] = Null
        /\ \A n \in Messages : Own(obj[n]) \cap HeldCells = {}
    BY DEF IInv, TypesOf, Apart
  <1>3. k = "s" \/ k = "c"
    BY DEF Pointers
  <1>4. p \in Cells /\ p \in HeldCells
    BY <1>1, <1>2, <1>3, HeldIs
  <1> HIDE DEF p
  <1>5. /\ heap'.str[Shared] = heap.str[Shared]
        /\ \A q \in Cells : q # p => heap'.str[q] = heap.str[q] /\ heap'.leaf[q] = heap.leaf[q]
    <2> DEFINE g == Delete(heap, p)
    <2>1. /\ g.str[Shared] = heap.str[Shared]
          /\ \A q \in Cells : q # p => g.str[q] = heap.str[q] /\ g.leaf[q] = heap.leaf[q]
      BY <1>2, <1>4, DeleteIs
    <2>2. heap' = g
      BY <1>1
    <2> HIDE DEF g
    <2>3. QED
      BY <2>1, <2>2
  <1>6. \A n \in Messages : Val'[n] = Val[n]
    <2> TAKE n \in Messages
    <2>1. obj[n] \in Objects /\ obj'[n] = obj[n]
      BY <1>1, <1>2
    <2>2. Frame(Own(obj[n]), heap, heap')
      BY <1>2, <1>4, <1>5 DEF Frame, Own
    <2>3. ValueOf(obj[n], heap) = ValueOf(obj'[n], heap')
      BY <1>5, <2>1, <2>2, SameValue
    <2>4. Val[n] = ValueOf(obj[n], heap) /\ Val'[n] = ValueOf(obj'[n], heap')
      BY DEF Val, Value, ValueOf, Content, TValue, SValue, CValue, RValue, PhoneValue
    <2>5. QED
      BY <2>3, <2>4
  <1>7. Val' = Val
    <2>1. Val = [n \in Messages |-> Val[n]] /\ Val' = [n \in Messages |-> Val'[n]]
      BY DEF Val
    <2>2. QED
      BY <1>6, <2>1
  <1>8. CASE k = "s"
    <2>1. held'["s"] = Null /\ held'["c"] = held["c"]
      BY <1>1, <1>2, <1>8 DEF Pointers
    <2>2. held["c"] # Null => held["c"] \in Cells /\ held["c"] # p
      BY <1>1, <1>2, <1>8 DEF Pointers, p
    <2>3. HeldString' = {} /\ HeldSub' = HeldSub
      BY <1>5, <2>1, <2>2 DEF HeldString, HeldSub
    <2>4. QED
      BY <1>7, <2>3 DEF MV!DeleteHeld, Val, HeldString, HeldSub
  <1>9. CASE k = "c"
    <2>1. held'["c"] = Null /\ held'["s"] = held["s"]
      BY <1>1, <1>2, <1>9 DEF Pointers
    <2>2. held["s"] # Null => held["s"] \in Cells /\ held["s"] # p
      BY <1>1, <1>2, <1>9 DEF Pointers, p
    <2>3. HeldSub' = {} /\ HeldString' = HeldString
      BY <1>5, <2>1, <2>2 DEF HeldString, HeldSub
    <2>4. QED
      BY <1>7, <2>3 DEF MV!DeleteHeld, Val, HeldString, HeldSub
  <1>10. QED
    BY <1>3, <1>8, <1>9

(* The calls on a string.                                                  *)
LEMMA StringCallsStep ==
  ASSUME IInv, NEW m \in Messages, StringCalls(m)
  PROVE  MV!SetField(m) \/ MV!ClearField(m) \/ MV!ReleaseString(m) \/ MV!SetAllocatedString(m)
  <1>1. CASE \E v \in Strings : Update(m, SetString(At(m), v))
    BY <1>1, SetStringStep DEF StringCalls
  <1>2. CASE Update(m, ClearString(At(m)))
    BY <1>2, ClearStringStep
  <1>3. CASE ReleaseString(m)
    BY <1>3, ReleaseStringStep
  <1>4. CASE SetAllocatedString(m)
    BY <1>4, SetAllocatedStringStep
  <1>5. QED
    BY <1>1, <1>2, <1>3, <1>4 DEF StringCalls

(* The calls on a sub-message.                                             *)
LEMMA SubCallsStep ==
  ASSUME IInv, NEW m \in Messages, SubCalls(m)
  PROVE  MV!SetSub(m) \/ MV!ClearField(m) \/ MV!ReleaseSub(m) \/ MV!SetAllocatedSub(m)
  <1>1. CASE SetThroughSub(m)
    BY <1>1, SetThroughSubStep DEF SubCalls
  <1>2. CASE Update(m, ClearSub(At(m)))
    BY <1>2, ClearSubStep
  <1>3. CASE ReleaseSub(m)
    BY <1>3, ReleaseSubStep
  <1>4. CASE SetAllocatedSub(m)
    BY <1>4, SetAllocatedSubStep
  <1>5. QED
    BY <1>1, <1>2, <1>3, <1>4 DEF SubCalls

(* An element, set or cleared in its place.                                *)
LEMMA PhoneValueOf ==
  ASSUME NEW p \in GoodPhones
  PROVE  /\ \A v : PhoneValue(PhoneSetNumber(p, v)) = [PhoneValue(p) EXCEPT !.number = {v}]
         /\ \A k : PhoneValue(PhoneSetType(p, k)) = [PhoneValue(p) EXCEPT !.type = {k}]
         /\ PhoneValue(PhoneClear(p)) = MV!EmptyPhone
  <1>1. p \in Phones
    BY DEF GoodPhones
  <1>2. ASSUME NEW v PROVE PhoneValue(PhoneSetNumber(p, v)) = [PhoneValue(p) EXCEPT !.number = {v}]
    <2> DEFINE q == PhoneSetNumber(p, v)
    <2>1. q.has = p.has \cup {"number"} /\ q.number = v /\ q.type = p.type
      BY <1>1 DEF PhoneSetNumber, Phones
    <2> HIDE DEF q
    <2>2. PhoneValue(q) = [PhoneValue(p) EXCEPT !.number = {v}]
      BY <2>1 DEF PhoneValue
    <2>3. QED
      BY <2>2 DEF q
  <1>3. ASSUME NEW k PROVE PhoneValue(PhoneSetType(p, k)) = [PhoneValue(p) EXCEPT !.type = {k}]
    <2> DEFINE q == PhoneSetType(p, k)
    <2>1. q.has = p.has \cup {"type"} /\ q.type = k /\ q.number = p.number
      BY <1>1 DEF PhoneSetType, Phones
    <2> HIDE DEF q
    <2>2. PhoneValue(q) = [PhoneValue(p) EXCEPT !.type = {k}]
      BY <2>1 DEF PhoneValue
    <2>3. QED
      BY <2>2 DEF q
  <1>4. PhoneValue(PhoneClear(p)) = MV!EmptyPhone
    BY PhoneOperations, PhoneValues
  <1>5. QED
    BY <1>2, <1>3, <1>4

(* A setter or a clear of an element changes that element.                 *)
LEMMA ElementStep ==
  ASSUME IInv, NEW m \in Messages, NEW i \in 1..obj[m].n,
         NEW p \in {PhoneSetNumber(obj[m].r[i], v) : v \in Strings}
                   \cup {PhoneSetType(obj[m].r[i], k) : k \in PhoneTypes}
                   \cup {PhoneClear(obj[m].r[i])},
         Update(m, [At(m) EXCEPT !.o.r[i] = p])
  PROVE  MV!SetPhone(m)
  <1> DEFINE e == obj[m].r[i]
             b == PhoneValue(p)
  <1>1. /\ obj[m].n \in Nat /\ obj[m].n <= Len(obj[m].r) /\ obj[m].r \in Seq(GoodPhones)
        /\ At(m).o = obj[m] /\ obj[m] \in Objects /\ Good(type, Elsewhere(m), At(m))
    BY MessageParts, InvGood
  <1>2. e \in GoodPhones
    BY <1>1
  <1>3. p \in GoodPhones
    BY <1>2, PhoneOperations
  <1>4. Update(m, WithElement(At(m), i, p))
    BY DEF WithElement
  <1>5. Keeps(type, Elsewhere(m), At(m), WithElement(At(m), i, p))
    BY <1>1, <1>3, ElementBecomes
  <1>6. PICK t, s, c, r, u : IsValue(m, t, s, c, r, u)
    BY InvShows
  <1>7. Shows(At(m), t, s, c, r, u) /\ Val[m] = Content(t, s, c, r, u)
    BY <1>6 DEF IsValue
  <1>8. Shows(WithElement(At(m), i, p), t, s, c, [r EXCEPT ![i] = b], u) /\ i \in DOMAIN r
    BY <1>1, <1>3, <1>7, ElementShows
  <1>9. r[i] = PhoneValue(e)
    <2>1. r = RValue(obj[m])
      BY <1>1, <1>7 DEF Shows
    <2>2. QED
      BY <1>1, <2>1, RValueIs
  <1>10. \/ b = [PhoneValue(e) EXCEPT !.number = b.number] /\ b.number # {}
         \/ b = [PhoneValue(e) EXCEPT !.type = b.type] /\ b.type # {}
         \/ b = MV!EmptyPhone
    <2>1. CASE \E v \in Strings : p = PhoneSetNumber(e, v)
      <3>1. PICK v \in Strings : p = PhoneSetNumber(e, v)
        BY <2>1
      <3> HIDE DEF e
      <3>2. b = [PhoneValue(e) EXCEPT !.number = {v}]
        BY <1>2, <3>1, PhoneValueOf
      <3>3. b.number = {v}
        BY <3>2 DEF PhoneValue
      <3> HIDE DEF b
      <3>4. QED
        BY <3>2, <3>3
    <2>2. CASE \E k \in PhoneTypes : p = PhoneSetType(e, k)
      <3>1. PICK k \in PhoneTypes : p = PhoneSetType(e, k)
        BY <2>2
      <3> HIDE DEF e
      <3>2. b = [PhoneValue(e) EXCEPT !.type = {k}]
        BY <1>2, <3>1, PhoneValueOf
      <3>3. b.type = {k}
        BY <3>2 DEF PhoneValue
      <3> HIDE DEF b
      <3>4. QED
        BY <3>2, <3>3
    <2>3. CASE p = PhoneClear(e)
      <3> HIDE DEF e
      <3>1. QED
        BY <1>2, <2>3, PhoneValueOf
    <2>4. QED
      BY <2>1, <2>2, <2>3
  <1> HIDE DEF e, b
  <1>11. Becomes(m, Content(t, s, c, [r EXCEPT ![i] = b], u))
    BY <1>4, <1>5, <1>8, UpdateBecomes
  <1>12. MV!Become(m, Content(t, s, c, [r EXCEPT ![i] = b], u)) /\ Val'[m] = Content(t, s, c, [r EXCEPT ![i] = b], u)
    BY <1>11, BecomeIs DEF Becomes
  <1>13. Val[m].r = r /\ Val'[m].r = [r EXCEPT ![i] = b]
    BY <1>7, <1>12 DEF Content
  <1>14. i \in DOMAIN Val[m].r \cap DOMAIN Val'[m].r /\ Val'[m].r[i] = b
    BY <1>8, <1>13
  <1>15. [Val[m] EXCEPT !.r = [r EXCEPT ![i] = b]] = Content(t, s, c, [r EXCEPT ![i] = b], u)
    BY <1>7 DEF Content
  <1>16. MV!Become(m, [Val[m] EXCEPT !.r = [r EXCEPT ![i] = b]])
    BY <1>12, <1>15
  <1>17. CASE b = [PhoneValue(e) EXCEPT !.number = b.number] /\ b.number # {}
    <2>1. [r EXCEPT ![i] = b] = [r EXCEPT ![i] = [r[i] EXCEPT !.number = b.number]]
      BY <1>9, <1>17
    <2>2. [Val[m] EXCEPT !.r[i].number = b.number] = [Val[m] EXCEPT !.r = [r EXCEPT ![i] = b]]
      BY <1>13, <2>1
    <2>3. Val'[m].r[i].number # {} /\ MV!Become(m, [Val[m] EXCEPT !.r[i].number = Val'[m].r[i].number])
      BY <1>14, <1>16, <1>17, <2>2
    <2>4. QED
      BY <1>14, <2>3 DEF MV!SetPhone, Val
  <1>18. CASE b = [PhoneValue(e) EXCEPT !.type = b.type] /\ b.type # {}
    <2>1. [r EXCEPT ![i] = b] = [r EXCEPT ![i] = [r[i] EXCEPT !.type = b.type]]
      BY <1>9, <1>18
    <2>2. [Val[m] EXCEPT !.r[i].type = b.type] = [Val[m] EXCEPT !.r = [r EXCEPT ![i] = b]]
      BY <1>13, <2>1
    <2>3. Val'[m].r[i].type # {} /\ MV!Become(m, [Val[m] EXCEPT !.r[i].type = Val'[m].r[i].type])
      BY <1>14, <1>16, <1>18, <2>2
    <2>4. QED
      BY <1>14, <2>3 DEF MV!SetPhone, Val
  <1>19. CASE b = MV!EmptyPhone
    <2>1. [Val[m] EXCEPT !.r[i] = MV!EmptyPhone] = [Val[m] EXCEPT !.r = [r EXCEPT ![i] = b]]
      BY <1>13, <1>19
    <2>2. MV!Become(m, [Val[m] EXCEPT !.r[i] = MV!EmptyPhone])
      BY <1>16, <2>1
    <2>3. QED
      BY <1>14, <2>2 DEF MV!SetPhone, Val
  <1>20. QED
    BY <1>10, <1>17, <1>18, <1>19

(* The calls on the elements.                                              *)
LEMMA PhoneCallsStep ==
  ASSUME IInv, NEW m \in Messages, PhoneCalls(m)
  PROVE  MV!AddPhone(m) \/ MV!ClearField(m) \/ MV!SetPhone(m)
  <1>1. Good(type, Elsewhere(m), At(m))
    BY InvGood
  <1>2. PICK t, s, c, r, u : IsValue(m, t, s, c, r, u)
    BY InvShows
  <1>3. Shows(At(m), t, s, c, r, u) /\ Val[m] = Content(t, s, c, r, u)
    BY <1>2 DEF IsValue
  <1>4. CASE Update(m, AddPhone(At(m)))
    <2>1. Keeps(type, Elsewhere(m), At(m), AddPhone(At(m)))
      BY <1>1, AddPhoneIs
    <2>2. Shows(AddPhone(At(m)), t, s, c, Append(r, MV!EmptyPhone), u)
      BY <1>1, <1>3, AddPhoneShows
    <2>3. Becomes(m, Content(t, s, c, Append(r, MV!EmptyPhone), u))
      BY <1>4, <2>1, <2>2, UpdateBecomes
    <2>4. [Val[m] EXCEPT !.r = Append(@, MV!EmptyPhone)] = Content(t, s, c, Append(r, MV!EmptyPhone), u)
      BY <1>3 DEF Content
    <2>5. MV!Become(m, [Val[m] EXCEPT !.r = Append(@, MV!EmptyPhone)])
      BY <2>3, <2>4, BecomeIs
    <2>6. QED
      BY <2>5 DEF MV!AddPhone, Val
  <1>5. CASE Update(m, ClearPhones(At(m)))
    <2>1. Keeps(type, Elsewhere(m), At(m), ClearPhones(At(m)))
      BY <1>1, ClearPhonesIs
    <2>2. Shows(ClearPhones(At(m)), t, s, c, <<>>, u)
      BY <1>1, <1>3, ClearPhonesShows
    <2>3. Becomes(m, Content(t, s, c, <<>>, u))
      BY <1>5, <2>1, <2>2, UpdateBecomes
    <2>4. [Val[m] EXCEPT !.r = <<>>] = Content(t, s, c, <<>>, u)
      BY <1>3 DEF Content
    <2>5. MV!Become(m, [Val[m] EXCEPT !.r = <<>>])
      BY <2>3, <2>4, BecomeIs
    <2>6. QED
      BY <2>5 DEF MV!ClearField, Val
  <1>6. ASSUME NEW i \in 1..obj[m].n,
               NEW p \in {PhoneSetNumber(obj[m].r[i], v) : v \in Strings}
                         \cup {PhoneSetType(obj[m].r[i], k) : k \in PhoneTypes}
                         \cup {PhoneClear(obj[m].r[i])},
               Update(m, [At(m) EXCEPT !.o.r[i] = p])
        PROVE  MV!SetPhone(m)
    BY <1>6, ElementStep
  <1>7. QED
    BY <1>4, <1>5, <1>6 DEF PhoneCalls

(* A message is cleared, merged into or made a copy.                       *)
LEMMA ClearedStep ==
  ASSUME IInv, NEW m \in Messages, NEW x, Keeps(type, Elsewhere(m), At(m), x), Update(m, x), IsCleared(x)
  PROVE  MV!Clear(m)
  <1>1. Becomes(m, Content({}, {}, {}, <<>>, <<>>))
    BY UpdateBecomes DEF IsCleared
  <1>2. MV!EmptyMessage = Content({}, {}, {}, <<>>, <<>>)
    BY DEF MV!EmptyMessage, Content
  <1>3. MV!Become(m, MV!EmptyMessage)
    BY <1>1, <1>2, BecomeIs
  <1>4. QED
    BY <1>3 DEF MV!Clear

(* Clear.                                                                  *)
LEMMA ClearStep ==
  ASSUME IInv, NEW m \in Messages, Update(m, Clear(At(m)))
  PROVE  MV!Clear(m)
  <1>1. IsCleared(Clear(At(m)))
    BY InvGood, ClearShows DEF IsCleared
  <1>2. QED
    BY <1>1, ClearedGood, ClearedStep

(* What was merged is the abstract specification's Merge.                  *)
LEMMA MergedStep ==
  ASSUME IInv, NEW m \in Messages, NEW o \in Messages, NEW x,
         Keeps(type, Elsewhere(m), At(m), x), Update(m, x),
         NEW t, NEW s, NEW c, NEW r, NEW u, IsValue(m, t, s, c, r, u),
         Merged(t, s, c, r, u, obj[o], heap, x)
  PROVE  MV!MergeFrom(m, o)
  <1> DEFINE a == MV!Or(t, TValue(obj[o]))
             b == MV!Or(s, SValue(obj[o], heap))
             d == MV!MergeSub(c, CValue(obj[o], heap))
             e == r \o RValue(obj[o])
             f == u \o obj[o].u
  <1>1. Shows(x, a, b, d, e, f)
    BY DEF Merged
  <1>2. Val[m] = Content(t, s, c, r, u) /\ Val[o] = ValueOf(obj[o], heap)
    BY ValIs DEF IsValue
  <1>3. MV!Merge(Val[m], Val[o]) = Content(a, b, d, e, f)
    <2>1. Val[m].t = t /\ Val[m].s = s /\ Val[m].c = c /\ Val[m].r = r /\ Val[m].u = u
      BY <1>2, ContentIs
    <2>2. /\ Val[o].t = TValue(obj[o]) /\ Val[o].s = SValue(obj[o], heap) /\ Val[o].c = CValue(obj[o], heap)
          /\ Val[o].r = RValue(obj[o]) /\ Val[o].u = obj[o].u
      BY <1>2, ContentIs DEF ValueOf
    <2>3. QED
      BY <2>1, <2>2 DEF MV!Merge, Content
  <1> HIDE DEF a, b, d, e, f
  <1>4. Becomes(m, Content(a, b, d, e, f))
    BY <1>1, UpdateBecomes
  <1>5. MV!Become(m, MV!Merge(Val[m], Val[o]))
    BY <1>3, <1>4, BecomeIs
  <1>6. QED
    BY <1>5 DEF MV!MergeFrom, Val

(* MergeFrom.                                                              *)
LEMMA MergeFromStep ==
  ASSUME IInv, NEW m \in Messages, NEW o \in Messages, Update(m, MergeFrom(At(m), obj[o]))
  PROVE  MV!MergeFrom(m, o)
  <1> DEFINE E == Elsewhere(m)
             x == At(m)
  <1>1. Good(type, E, x) /\ Room(type, E) /\ Source(type, x.h, obj[o]) /\ x.h = heap
    BY InvGood, InvRoom, MessageParts
  <1>2. PICK t, s, c, r, u : IsValue(m, t, s, c, r, u)
    BY InvShows
  <1>3. Shows(x, t, s, c, r, u)
    BY <1>2 DEF IsValue
  <1> HIDE DEF x, E
  <1>4. Keeps(type, E, x, MergeFrom(x, obj[o]))
    BY <1>1, MergeFromKeeps
  <1>5. Merged(t, s, c, r, u, obj[o], heap, MergeFrom(x, obj[o]))
    BY <1>1, <1>3, MergeFromShows
  <1>6. QED
    BY <1>2, <1>4, <1>5, MergedStep DEF x, E

(* What is merged into a cleared message is a copy.                        *)
LEMMA MergedAlone ==
  ASSUME NEW o \in Objects, o.n <= Len(o.r), NEW g, NEW y, Merged({}, {}, {}, <<>>, <<>>, o, g, y)
  PROVE  Shows(y, TValue(o), SValue(o, g), CValue(o, g), RValue(o), o.u)
  <1>1. RValue(o) \in Seq(PhoneContents) /\ o.u \in Seq({"newer"})
    BY RValueIs DEF Objects
  <1>2. <<>> \o RValue(o) = RValue(o)
    BY <1>1, NoneOrAll
  <1>3. <<>> \o o.u = o.u
    BY <1>1, NoneOrAll
  <1>4. \A b : MV!Or({}, b) = b /\ MV!MergeSub({}, b) = b
    BY DEF MV!Or, MV!MergeSub
  <1>5. QED
    BY <1>2, <1>3, <1>4 DEF Merged

(* The messages elsewhere read the same in a heap that m's calls leave.    *)
LEMMA ElsewhereSame ==
  ASSUME IInv, NEW m \in Messages, NEW o \in Messages \ {m}, NEW x, Keeps(type, Elsewhere(m), At(m), x)
  PROVE  ValueOf(obj[o], heap) = ValueOf(obj[o], x.h)
  <1>1. Frame(Elsewhere(m), heap, x.h) /\ x.h.str[Shared] = "" /\ heap.str[Shared] = ""
    BY DEF Keeps, Good, CleanHeap, IInv, At
  <1>2. Frame(Own(obj[o]), heap, x.h)
    BY <1>1, ElsewhereIs DEF Frame
  <1>3. obj[o] \in Objects
    BY MessageParts
  <1>4. QED
    BY <1>1, <1>2, <1>3, SameValue

(* A merge into a message that shows nothing makes it a copy.              *)
LEMMA CopiedStep ==
  ASSUME IInv, NEW m \in Messages, NEW o \in Messages \ {m}, NEW x,
         Keeps(type, Elsewhere(m), At(m), x), IsCleared(x), Update(m, MergeFrom(x, obj[o]))
  PROVE  MV!CopyFrom(m, o)
  <1> DEFINE E == Elsewhere(m)
             q == obj[o]
             y == MergeFrom(x, obj[o])
  <1>1. Room(type, E) /\ Good(type, E, x) /\ Source(type, x.h, q) /\ q \in Objects /\ q.n <= Len(q.r)
    BY InvRoom, MessageParts DEF Keeps
  <1>2. Keeps(type, E, At(m), y)
    <2> HIDE DEF E, q
    <2>1. Keeps(type, E, x, MergeFrom(x, q))
      BY <1>1, MergeFromKeeps
    <2>2. QED
      BY <2>1, KeepsMore DEF E, q
  <1>3. Merged({}, {}, {}, <<>>, <<>>, q, x.h, MergeFrom(x, q))
    <2> HIDE DEF E, q
    <2>1. QED
      BY <1>1, MergeFromShows DEF IsCleared
  <1>4. Shows(y, TValue(q), SValue(q, x.h), CValue(q, x.h), RValue(q), q.u)
    <2> HIDE DEF q
    <2>1. Shows(MergeFrom(x, q), TValue(q), SValue(q, x.h), CValue(q, x.h), RValue(q), q.u)
      BY <1>1, <1>3, MergedAlone
    <2>2. QED
      BY <2>1 DEF q
  <1>5. Val[o] = ValueOf(q, x.h)
    BY ElsewhereSame, ValIs
  <1>6. Becomes(m, Val[o])
    <2> HIDE DEF y, q
    <2>1. Becomes(m, Content(TValue(q), SValue(q, x.h), CValue(q, x.h), RValue(q), q.u))
      BY <1>2, <1>4, UpdateBecomes DEF E, y
    <2>2. QED
      BY <1>5, <2>1 DEF ValueOf
  <1>7. QED
    BY <1>6, BecomeIs DEF MV!CopyFrom, Val

(* CopyFrom, a Clear and a merge.                                          *)
LEMMA CopyFromStep ==
  ASSUME IInv, NEW m \in Messages, NEW o \in Messages \ {m}, Update(m, CopyFrom(At(m), obj[o]))
  PROVE  MV!CopyFrom(m, o)
  <1> DEFINE x == Clear(At(m))
  <1>1. IsCleared(x) /\ Keeps(type, Elsewhere(m), At(m), x)
    BY InvGood, ClearShows, ClearedGood DEF IsCleared
  <1>2. Update(m, MergeFrom(x, obj[o]))
    BY DEF CopyFrom
  <1> HIDE DEF x
  <1>3. QED
    BY <1>1, <1>2, CopiedStep

(* A new message is empty or, by the copy constructor, a copy.             *)
LEMMA RenewStep ==
  ASSUME IInv, NEW m \in Messages, NEW o \in Messages \ {m}, Renew(m, o)
  PROVE  MV!Clear(m) \/ MV!CopyFrom(m, o)
  <1> DEFINE x == [o |-> SharedCtor, h |-> SharedDtor(At(m))]
  <1>1. Keeps(type, Elsewhere(m), At(m), x)
    BY InvGood, NewMessageKeeps
  <1>2. IsCleared(x)
    BY DEF IsCleared, Shows, SharedCtor, TValue, SValue, CValue, RValue
  <1>3. Update(m, x) \/ Update(m, MergeFrom(x, obj[o]))
    BY DEF Renew
  <1> HIDE DEF x
  <1>4. CASE Update(m, x)
    BY <1>1, <1>2, <1>4, ClearedStep
  <1>5. CASE Update(m, MergeFrom(x, obj[o]))
    BY <1>1, <1>2, <1>5, CopiedStep
  <1>6. QED
    BY <1>3, <1>4, <1>5

(* Swap exchanges the values.                                              *)
LEMMA SwapStep ==
  ASSUME IInv, NEW m \in Messages, NEW o \in Messages \ {m}, Swap(m, o)
  PROVE  MV!Swap(m, o)
  <1>1. obj' = [obj EXCEPT ![m] = obj[o], ![o] = obj[m]] /\ heap' = heap /\ held' = held
    BY DEF Swap
  <1>2. obj'[m] = obj[o] /\ obj'[o] = obj[m] /\ \A n \in Messages \ {m, o} : obj'[n] = obj[n]
    BY <1>1 DEF IInv, TypesOf
  <1>3. \A n \in Messages : Val[n] = ValueOf(obj[n], heap) /\ Val'[n] = ValueOf(obj'[n], heap')
    BY DEF Val, Value, ValueOf, Content, TValue, SValue, CValue, RValue, PhoneValue
  <1>4. Val'[m] = Val[o] /\ Val'[o] = Val[m] /\ \A n \in Messages \ {m, o} : Val'[n] = Val[n]
    BY <1>1, <1>2, <1>3
  <1>5. Val = [n \in Messages |-> Val[n]] /\ Val' = [n \in Messages |-> Val'[n]]
    BY DEF Val
  <1>6. Val' = [Val EXCEPT ![m] = Val[o], ![o] = Val[m]]
    BY <1>4, <1>5
  <1>7. HeldString' = HeldString /\ HeldSub' = HeldSub
    BY <1>1 DEF HeldString, HeldSub
  <1>8. QED
    BY <1>6, <1>7 DEF MV!Swap, Val, HeldString, HeldSub

(* A message is parsed from what another was serialized to.                *)
LEMMA OthersWritten ==
  ASSUME IInv, NEW o \in Messages
  PROVE  Written(type, obj[o], heap) /\ obj[o] \in Objects /\ obj[o].n <= Len(obj[o].r)
  BY MessageParts DEF Written

(* What shows all of o, with more unknown fields perhaps, is o parsed.     *)
LEMMA ParsedStep ==
  ASSUME IInv, NEW m \in Messages, NEW o \in Messages, NEW y,
         Keeps(type, Elsewhere(m), At(m), y), Update(m, y),
         NEW u, Shows(y, TValue(obj[o]), SValue(obj[o], heap), CValue(obj[o], heap), RValue(obj[o]), u),
         IsPrefix(obj[o].u, u)
  PROVE  MV!Parse(m, o)
  <1> DEFINE v == Content(TValue(obj[o]), SValue(obj[o], heap), CValue(obj[o], heap), RValue(obj[o]), u)
  <1>1. Becomes(m, v)
    BY UpdateBecomes
  <1>2. Val[o] = ValueOf(obj[o], heap)
    BY ValIs
  <1>3. [Val[o] EXCEPT !.u = u] = v /\ Val[o].u = obj[o].u
    BY <1>2 DEF ValueOf, Content
  <1>4. Val'[m].u = u
    BY <1>1, ContentIs DEF Becomes
  <1>5. MV!Become(m, [Val[o] EXCEPT !.u = u])
    BY <1>1, <1>3, BecomeIs
  <1>6. MV!IsPrefix(Val[o].u, u)
    BY <1>3 DEF IsPrefix, MV!IsPrefix
  <1>7. u \in {Val'[m].u} /\ MV!IsPrefix(Val[o].u, u) /\ MV!Become(m, [Val[o] EXCEPT !.u = u])
    BY <1>4, <1>5, <1>6
  <1>8. QED
    BY <1>7 DEF MV!Parse, Val

(* Parsing after a clear gives the message again.                          *)
LEMMA ParseFromStep ==
  ASSUME IInv, NEW m \in Messages, NEW o \in Messages, ParseFrom(m, o)
  PROVE  MV!Parse(m, o)
  <1> DEFINE K == Tokens(type)
             x == Clear(At(m))
             E == Elsewhere(m)
             w == Serialize(obj[o], heap)
             q == obj[o]
  <1>1. \/ Update(m, MergePartialFromCodedStream(x, w \o <<>>))
        \/ Update(m, MergePartialFromCodedStream(x, w \o <<<<"u", "newer">>>>))
    BY DEF ParseFrom
  <1>2. /\ Keeps(type, E, At(m), x) /\ Good(type, E, x) /\ Room(type, E)
        /\ w \in Seq(K) /\ Written(type, q, heap) /\ q \in Objects /\ q.n <= Len(q.r)
    BY ClearedGood, InvRoom, WireIs, OthersWritten
  <1>3. Shows(x, {}, {}, {}, <<>>, <<>>)
    BY InvGood, ClearShows
  <1>4. <<"u", "newer">> \in K
    BY DEF Tokens
  <1>5. q.u \in Seq({"newer"})
    BY <1>2 DEF Objects
  <1> HIDE DEF x, K
  <1>6. Shows(MergePartialFromCodedStream(x, w), TValue(q), SValue(q, heap), CValue(q, heap), RValue(q), q.u)
    <2> HIDE DEF E, q
    <2>1. Merged({}, {}, {}, <<>>, <<>>, q, heap, MergePartialFromCodedStream(x, Serialize(q, heap)))
      BY <1>2, <1>3, ParseShows
    <2>2. QED
      BY <1>2, <2>1, MergedAlone DEF q
  <1> HIDE DEF w
  <1>7. CASE Update(m, MergePartialFromCodedStream(x, w \o <<>>))
    <2>1. w \o <<>> = w
      BY <1>2
    <2> DEFINE y == MergePartialFromCodedStream(x, w)
    <2>2. Update(m, y)
      BY <1>7, <2>1
    <2>3. Keeps(type, E, At(m), y)
      <3> HIDE DEF E
      <3>1. Keeps(type, E, x, y)
        BY <1>2, ParseKeeps DEF K
      <3>2. QED
        BY <1>2, <3>1, KeepsMore
    <2>4. IsPrefix(q.u, q.u)
      BY <1>5 DEF IsPrefix
    <2> HIDE DEF y
    <2>5. QED
      BY <1>6, <2>2, <2>3, <2>4, ParsedStep DEF y
  <1>8. CASE Update(m, MergePartialFromCodedStream(x, w \o <<<<"u", "newer">>>>))
    <2> DEFINE v == w \o <<<<"u", "newer">>>>
               y == MergePartialFromCodedStream(x, v)
    <2>1. v \in Seq(K)
      BY <1>2, <1>4
    <2>2. Shows(y, TValue(q), SValue(q, heap), CValue(q, heap), RValue(q), Append(q.u, "newer"))
      <3> HIDE DEF E, q
      <3>1. QED
        BY <1>2, <1>6, ParseNewerShows DEF K
    <2> HIDE DEF v
    <2>3. Keeps(type, E, At(m), y)
      <3> HIDE DEF E
      <3>1. Keeps(type, E, x, y)
        BY <1>2, <2>1, ParseKeeps DEF K
      <3>2. QED
        BY <1>2, <3>1, KeepsMore
    <2>4. Update(m, y)
      BY <1>8 DEF v
    <2>5. IsPrefix(q.u, Append(q.u, "newer"))
      <3> HIDE DEF q
      <3>1. QED
        BY <1>5 DEF IsPrefix
    <2> HIDE DEF y
    <2>6. QED
      BY <2>2, <2>3, <2>4, <2>5, ParsedStep
  <1>9. QED
    BY <1>1, <1>7, <1>8

(* Parsing without a clear merges.                                         *)
LEMMA ParseMoreStep ==
  ASSUME IInv, NEW m \in Messages, NEW o \in Messages, ParseMore(m, o)
  PROVE  MV!ParseMore(m, o)
  <1> DEFINE E == Elsewhere(m)
             x == At(m)
             y == MergePartialFromCodedStream(x, Serialize(obj[o], heap))
  <1>1. /\ Good(type, E, x) /\ Room(type, E) /\ Serialize(obj[o], heap) \in Seq(Tokens(type))
        /\ Written(type, obj[o], heap)
    BY InvGood, InvRoom, WireIs, OthersWritten
  <1>2. PICK t, s, c, r, u : IsValue(m, t, s, c, r, u)
    BY InvShows
  <1>3. Shows(x, t, s, c, r, u)
    BY <1>2 DEF IsValue
  <1>4. Keeps(type, E, x, y) /\ Merged(t, s, c, r, u, obj[o], heap, y)
    <2> HIDE DEF E, x
    <2>1. QED
      BY <1>1, <1>3, ParseKeeps, ParseShows
  <1>5. Update(m, y)
    BY DEF ParseMore
  <1> HIDE DEF y
  <1>6. MV!MergeFrom(m, o)
    BY <1>2, <1>4, <1>5, MergedStep
  <1>7. QED
    BY <1>6 DEF MV!ParseMore

(* What shows a part of o is a wire of o cut short.                        *)
LEMMA CutStep ==
  ASSUME IInv, NEW m \in Messages, NEW o \in Messages, NEW z,
         Keeps(type, Elsewhere(m), At(m), z), Update(m, z), ShowsPart(z, obj[o], heap)
  PROVE  MV!ParseCut(m, o)
  <1>1. PICK t, s, c, r, u : Shows(z, t, s, c, r, u) /\ IsPart(obj[o], heap, t, s, c, r, u)
    BY DEF ShowsPart
  <1> DEFINE v == Content(t, s, c, r, u)
  <1>2. Becomes(m, v)
    BY <1>1, UpdateBecomes
  <1>3. v.t = t /\ v.s = s /\ v.c = c /\ v.r = r /\ v.u = u
    BY ContentIs
  <1>4. /\ Val[o].t = TValue(obj[o]) /\ Val[o].s = SValue(obj[o], heap) /\ Val[o].c = CValue(obj[o], heap)
        /\ Val[o].r = RValue(obj[o]) /\ Val[o].u = obj[o].u
    BY ValIs, ContentIs DEF ValueOf
  <1> HIDE DEF v
  <1>5. MV!Part(v, Val[o])
    <2>1. MV!IsPrefix(v.u, Val[o].u)
      BY <1>1, <1>3, <1>4 DEF IsPart, IsPrefix, MV!IsPrefix
    <2>2. QED
      BY <1>1, <1>3, <1>4, <2>1 DEF MV!Part, IsPart
  <1>6. MV!Become(m, Val'[m]) /\ MV!Part(Val'[m], Val[o])
    BY <1>2, <1>5, BecomeIs DEF Becomes
  <1>7. QED
    BY <1>6 DEF MV!ParseCut, Val

(* Parsing a stream that ends too soon leaves a part of the message.       *)
LEMMA ParseCutStep ==
  ASSUME IInv, NEW m \in Messages, NEW o \in Messages, ParseCut(m, o)
  PROVE  MV!ParseCut(m, o)
  <1> DEFINE K == Tokens(type)
             w == Serialize(obj[o], heap)
             x == Clear(At(m))
             E == Elsewhere(m)
  <1>1. w \in Seq(K)
    BY WireIs
  <1>2. PICK k \in DOMAIN w, j \in 0..Len(LeafOrder) :
           /\ w[k][1] \in {"c", "r"} => j < Len(w[k][2])
           /\ Update(m, ParseCutField(MergePartialFromCodedStream(x, SubSeq(w, 1, k - 1)), w[k], j))
    BY DEF ParseCut
  <1> DEFINE v == SubSeq(w, 1, k - 1)
             y == MergePartialFromCodedStream(x, v)
             token == w[k]
             z == ParseCutField(y, token, j)
  <1>3. v \in Seq(K) /\ token \in K /\ j \in Nat /\ k \in 1..Len(w)
    <2> HIDE DEF w, K
    <2>1. k \in 1..Len(w) /\ Len(w) \in Nat
      BY <1>1, <1>2
    <2>2. \A i \in 1..(k - 1) : w[i] \in K
      BY <1>1, <2>1
    <2>3. j \in Nat
      <3>1. LeafOrder \in Seq(LeafFields)
        BY ValueAssumption
      <3>2. Len(LeafOrder) \in Nat
        BY <3>1, LenProperties
      <3>3. QED
        BY <1>2, <3>2
    <2>4. QED
      BY <1>1, <2>1, <2>2, <2>3
  <1>4. /\ Keeps(type, E, At(m), x) /\ Good(type, E, x) /\ Room(type, E) /\ IsCleared(x)
        /\ Written(type, obj[o], heap)
    BY ClearedGood, InvGood, ClearShows, InvRoom, OthersWritten DEF IsCleared
  <1>5. (token[1] \in {"c", "r"} => j < Len(token[2])) /\ Update(m, z) /\ z = Cut(x, v, token, j)
    BY <1>2 DEF Cut
  <1>6. CutAt(Serialize(obj[o], heap), v, token)
    BY <1>3 DEF CutAt
  <1> HIDE DEF v, x, w, token
  <1>7. Keeps(type, E, x, y)
    BY <1>3, <1>4, ParseKeeps
  <1>8. Keeps(type, E, At(m), y) /\ Good(type, E, y)
    BY <1>4, <1>7, KeepsMore DEF Keeps
  <1>9. Keeps(type, E, At(m), z)
    <2> HIDE DEF y
    <2>1. Keeps(type, E, y, ParseCutField(y, token, j))
      BY <1>3, <1>4, <1>5, <1>8, ParseCutFieldKeeps
    <2>2. QED
      BY <1>8, <2>1, KeepsMore
  <1> HIDE DEF z
  <1>10. ShowsPart(Cut(x, v, token, j), obj[o], heap)
    <2> HIDE DEF E
    <2>1. QED
      BY <1>3, <1>4, <1>5, <1>6, CutShows
  <1>11. QED
    BY <1>5, <1>9, <1>10, CutStep

(* At first every message is empty and the caller holds nothing.           *)
LEMMA ValuesInit == Init => MV!ValueInit
  <1> SUFFICES ASSUME Init PROVE MV!ValueInit
    OBVIOUS
  <1>1. ASSUME NEW n \in Messages PROVE Val[n] = MV!EmptyMessage
    <2>1. obj[n] = SharedCtor
      BY DEF Init
    <2>2. /\ TValue(obj[n]) = {} /\ SValue(obj[n], heap) = {} /\ CValue(obj[n], heap) = {}
          /\ RValue(obj[n]) = <<>> /\ obj[n].u = <<>>
      BY <2>1 DEF SharedCtor, TValue, SValue, CValue, RValue
    <2>3. QED
      BY <2>2, ValIs DEF ValueOf, Content, MV!EmptyMessage
  <1>2. Val = [n \in Messages |-> MV!EmptyMessage]
    BY <1>1 DEF Val
  <1>3. HeldString = {} /\ HeldSub = {}
    BY DEF Init, HeldString, HeldSub, Pointers
  <1>4. QED
    BY <1>2, <1>3 DEF MV!ValueInit, Val, HeldString, HeldSub

(* Every call is one of the values, or leaves them alone.                  *)
LEMMA ValuesStep == IInv /\ [Next]_vars => [MV!ValueNext]_(MV!valueVars)
  <1> SUFFICES ASSUME IInv, [Next]_vars PROVE [MV!ValueNext]_(MV!valueVars)
    OBVIOUS
  <1>1. CASE UNCHANGED vars
    BY <1>1 DEF vars, MV!valueVars, Value
  <1>2. ASSUME NEW k \in Pointers, DeleteHeld(k) PROVE MV!ValueNext
    BY <1>2, DeleteHeldStep DEF MV!ValueNext
  <1>3. ASSUME NEW m \in Messages, ScalarCalls(m) PROVE MV!ValueNext
    BY <1>3, ScalarCallsStep DEF MV!ValueNext
  <1>4. ASSUME NEW m \in Messages, StringCalls(m) PROVE MV!ValueNext
    BY <1>4, StringCallsStep DEF MV!ValueNext
  <1>5. ASSUME NEW m \in Messages, SubCalls(m) PROVE MV!ValueNext
    BY <1>5, SubCallsStep DEF MV!ValueNext
  <1>6. ASSUME NEW m \in Messages, PhoneCalls(m) PROVE MV!ValueNext
    BY <1>6, PhoneCallsStep DEF MV!ValueNext
  <1>7. ASSUME NEW m \in Messages, Update(m, Clear(At(m))) PROVE MV!ValueNext
    BY <1>7, ClearStep DEF MV!ValueNext
  <1>8. ASSUME NEW m \in Messages, NEW o \in Messages \ {m}, Update(m, MergeFrom(At(m), obj[o])) PROVE MV!ValueNext
    BY <1>8, MergeFromStep DEF MV!ValueNext
  <1>9. ASSUME NEW m \in Messages, NEW o \in Messages \ {m}, Update(m, CopyFrom(At(m), obj[o])) PROVE MV!ValueNext
    BY <1>9, CopyFromStep DEF MV!ValueNext
  <1>10. ASSUME NEW m \in Messages, NEW o \in Messages \ {m}, Renew(m, o) PROVE MV!ValueNext
    BY <1>10, RenewStep DEF MV!ValueNext
  <1>11. ASSUME NEW m \in Messages, NEW o \in Messages \ {m}, Swap(m, o) PROVE MV!ValueNext
    BY <1>11, SwapStep DEF MV!ValueNext
  <1>12. ASSUME NEW m \in Messages, NEW o \in Messages \ {m}, ParseFrom(m, o) PROVE MV!ValueNext
    BY <1>12, ParseFromStep DEF MV!ValueNext
  <1>13. ASSUME NEW m \in Messages, NEW o \in Messages \ {m}, ParseMore(m, o) PROVE MV!ValueNext
    BY <1>13, ParseMoreStep DEF MV!ValueNext
  <1>14. ASSUME NEW m \in Messages, NEW o \in Messages \ {m}, ParseCut(m, o) PROVE MV!ValueNext
    BY <1>14, ParseCutStep DEF MV!ValueNext
  <1>15. QED
    BY <1>1, <1>2, <1>3, <1>4, <1>5, <1>6, <1>7, <1>8, <1>9, <1>10, <1>11, <1>12, <1>13, <1>14 DEF Next

(* A generated message behaves as a value: through any sequence of its     *)
(* operations, what has_ and the getters of every message show is what the *)
(* abstract specification says, no call shows in another message, and what *)
(* is serialized and parsed is the message again.                          *)
THEOREM MessagesAreValues == Spec => ImplementsValue
  <1>1. Init => MV!ValueInit
    BY ValuesInit
  <1>2. IInv /\ [Next]_vars => [MV!ValueNext]_(MV!valueVars)
    BY ValuesStep
  <1>3. Spec => []IInv
    BY IInvHolds
  <1>4. QED
    BY <1>1, <1>2, <1>3, PTL DEF Spec, ImplementsValue, MV!ValueSpec

=============================================================================
