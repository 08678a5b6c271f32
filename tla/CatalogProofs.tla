------------------------------ MODULE CatalogProofs -----------------------------
(***************************************************************************)
(* Theorems about Catalog, for every number of hotels, room types, calls,  *)
(* lost RPCs and restarts: geo is written before profile, and a search is  *)
(* right about every hotel that nobody touched while it ran.               *)
(***************************************************************************)
EXTENDS Catalog, TLAPS, FiniteSetTheorems, SequenceTheorems, WellFoundedInduction

-----------------------------------------------------------------------------
(***************************************************************************)
(* Induction, and by it the folds of the community modules, sums over a    *)
(* finite set and the order of one.  The predicates of an induction are    *)
(* given as sets, because the provers cannot instantiate a theorem about   *)
(* every predicate.                                                        *)
(***************************************************************************)

Less == {ss \in Nat \X Nat : ss[1] < ss[2]}

\* A set of natural numbers that is not empty has a least element.
LEMMA LeastElement ==
  ASSUME NEW T, T \subseteq Nat, T # {}
  PROVE  \E x \in T : \A y \in T : x <= y
<1>1. IsWellFoundedOn(Less, Nat)
  BY NatLessThanWellFounded, Zenon DEF OpToRel, Less
<1>2. \E x \in T : \A y \in T : ~(<<y, x>> \in Less)
  BY <1>1, WFMin
<1>3. \A x, y \in T : ~(<<y, x>> \in Less) => x <= y
  BY DEF Less
<1> QED
  BY <1>2, <1>3

LEMMA Induction ==
  ASSUME NEW S, 0 \in S, \A n \in Nat : n \in S => n + 1 \in S
  PROVE  \A n \in Nat : n \in S
<1> SUFFICES ASSUME Nat \ S # {} PROVE FALSE
  OBVIOUS
<1>1. PICK m \in Nat \ S : \A y \in Nat \ S : m <= y
  BY LeastElement
<1>2. m - 1 \in Nat /\ m - 1 \in S
  BY <1>1
<1> QED
  BY <1>1, <1>2

LEMMA MaxIsLast ==
  ASSUME NEW n \in Nat, NEW s \in SUBSET (1 .. n), n \in s
  PROVE  Max(s) = n
<1>1. n \in s /\ \A y \in s : n >= y
  OBVIOUS
<1>2. \A m \in s : (\A y \in s : m >= y) => m = n
  BY <1>1
<1> QED
  BY <1>1, <1>2 DEF Max

\* A set of positions has a last one.
LEMMA MaxIsIn ==
  ASSUME NEW n \in Nat, NEW s \in SUBSET (1 .. n), s # {}
  PROVE  Max(s) \in s
<1> DEFINE T == {n - y : y \in s}
<1>1. T \subseteq Nat /\ T # {}
  <2>1. \A y \in s : n - y \in Nat
    OBVIOUS
  <2> QED
    BY <2>1
<1>2. PICK x \in T : \A y \in T : x <= y
  BY <1>1, LeastElement
<1>3. PICK m \in s : x = n - m
  BY <1>2
<1>4. \A y \in s : m >= y
  <2> SUFFICES ASSUME NEW y \in s PROVE m >= y
    OBVIOUS
  <2>1. n - y \in T
    OBVIOUS
  <2>2. n - m <= n - y /\ m \in Int /\ y \in Int
    BY <1>2, <1>3, <2>1
  <2> QED
    BY <2>2
<1> QED
  BY <1>3, <1>4 DEF Max

\* A fold over the subsets of S takes pick[s] off a set s.  Such a recursion has a
\* solution, whatever a step computes from a value and an element.
FoldsOver(it, S, base, pick, F) ==
  \A s \in SUBSET S :
    it[s] = IF s = {} THEN base ELSE F[<<it[s \ {pick[s]}], pick[s]>>]

LEMMA FoldOverDefined ==
  ASSUME NEW S, IsFiniteSet(S), NEW V, NEW base \in V, NEW F \in [V \X S -> V],
         NEW pick, \A s \in SUBSET S : s # {} => pick[s] \in s
  PROVE  \E it \in [SUBSET S -> V] : FoldsOver(it, S, base, pick, F)
<1> DEFINE FoldsUpTo(it, k) ==
             \A s \in SUBSET S : Cardinality(s) <= k =>
               it[s] = IF s = {} THEN base ELSE F[<<it[s \ {pick[s]}], pick[s]>>]
           Solvable == {k \in Nat : \E it \in [SUBSET S -> V] : FoldsUpTo(it, k)}
<1> HIDE DEF FoldsUpTo
<1>0. \A s \in SUBSET S : /\ Cardinality(s) \in Nat /\ (s # {} <=> Cardinality(s) # 0)
                          /\ s # {} => Cardinality(s \ {pick[s]}) = Cardinality(s) - 1
  <2> SUFFICES ASSUME NEW s \in SUBSET S
               PROVE  /\ Cardinality(s) \in Nat /\ (s # {} <=> Cardinality(s) # 0)
                      /\ s # {} => Cardinality(s \ {pick[s]}) = Cardinality(s) - 1
    OBVIOUS
  <2>1. IsFiniteSet(s)
    BY FS_Subset
  <2> QED
    BY <2>1, FS_CardinalityType, FS_EmptySet, FS_RemoveElement
<1>1. 0 \in Solvable
  <2> DEFINE it == [s \in SUBSET S |-> base]
  <2>0. \A s \in SUBSET S : Cardinality(s) <= 0 => s = {} /\ it[s] = base
    <3>1. \A s \in SUBSET S : Cardinality(s) \in Nat /\ (s # {} <=> Cardinality(s) # 0)
      BY <1>0
    <3> QED
      BY <3>1
  <2>1. FoldsUpTo(it, 0)
    BY <2>0 DEF FoldsUpTo
  <2>2. it \in [SUBSET S -> V]
    OBVIOUS
  <2> QED
    BY <2>1, <2>2
<1>2. ASSUME NEW k \in Nat, k \in Solvable PROVE k + 1 \in Solvable
  <2>1. PICK it \in [SUBSET S -> V] : FoldsUpTo(it, k)
    BY <1>2
  <2> DEFINE more == [s \in SUBSET S |->
                        IF Cardinality(s) = k + 1 THEN F[<<it[s \ {pick[s]}], pick[s]>>]
                        ELSE it[s]]
  <2>2. \A s \in SUBSET S : s # {} => pick[s] \in S /\ s \ {pick[s]} \in SUBSET S
    OBVIOUS
  <2>3. \A s \in SUBSET S : Cardinality(s) = k + 1 => s # {}
    BY <1>0
  <2>4. more \in [SUBSET S -> V]
    BY <2>2, <2>3
  <2>5. \A s \in SUBSET S : Cardinality(s) # k + 1 => more[s] = it[s]
    OBVIOUS
  <2>6. \A s \in SUBSET S : Cardinality(s) = k + 1 =>
          more[s] = F[<<it[s \ {pick[s]}], pick[s]>>]
    OBVIOUS
  <2> HIDE DEF more
  <2>7. ASSUME NEW s \in SUBSET S, Cardinality(s) <= k + 1
        PROVE  more[s] = IF s = {} THEN base ELSE F[<<more[s \ {pick[s]}], pick[s]>>]
    <3>0. Cardinality(s) \in Nat
      BY <1>0
    <3>1. Cardinality(s) # k + 1 => Cardinality(s) <= k
      BY <2>7, <3>0
    <3>2. s # {} => /\ Cardinality(s \ {pick[s]}) # k + 1 /\ s \ {pick[s]} \in SUBSET S
      BY <1>0, <2>2, <2>7
    <3>3. s # {} => more[s \ {pick[s]}] = it[s \ {pick[s]}]
      BY <2>5, <3>2
    <3> QED
      BY <2>1, <2>3, <2>5, <2>6, <3>1, <3>3 DEF FoldsUpTo
  <2>8. FoldsUpTo(more, k + 1)
    BY <2>7 DEF FoldsUpTo
  <2> QED
    BY <2>4, <2>8
<1>3. Cardinality(S) \in Nat /\ \A s \in SUBSET S : Cardinality(s) <= Cardinality(S)
  BY FS_CardinalityType, FS_Subset
<1> HIDE DEF Solvable
<1>4. Cardinality(S) \in Solvable
  BY <1>1, <1>2, <1>3, Induction
<1>5. PICK it \in [SUBSET S -> V] : FoldsUpTo(it, Cardinality(S))
  BY <1>4 DEF Solvable
<1> QED
  BY <1>3, <1>5 DEF FoldsOver, FoldsUpTo

\* The folds of the community modules go through the positions of a sequence
\* from the last to the first.
Folds(it, n, base, F) ==
  \A s \in SUBSET (1 .. n) :
    it[s] = IF s = {} THEN base ELSE F[<<it[s \ {Max(s)}], Max(s)>>]

LEMMA FoldDefined ==
  ASSUME NEW n \in Nat, NEW V, NEW base \in V, NEW F \in [V \X (1 .. n) -> V]
  PROVE  \E it \in [SUBSET (1 .. n) -> V] : Folds(it, n, base, F)
<1> DEFINE pick == [s \in SUBSET (1 .. n) |-> Max(s)]
<1>1. \A s \in SUBSET (1 .. n) : s # {} => pick[s] \in s
  BY MaxIsIn
<1>2. IsFiniteSet(1 .. n)
  BY FS_Interval
<1>3. \E it \in [SUBSET (1 .. n) -> V] : FoldsOver(it, 1 .. n, base, pick, F)
  <2> HIDE DEF pick
  <2> QED
    BY <1>1, <1>2, FoldOverDefined
<1> QED
  BY <1>3 DEF FoldsOver, Folds

\* The sum of f over a set, one element after the other.
SumsOver(it, S, f) ==
  \A s \in SUBSET S :
    it[s] = IF s = {} THEN 0
            ELSE f[CHOOSE x \in s : TRUE] + it[s \ {CHOOSE x \in s : TRUE}]

LEMMA SumDefined ==
  ASSUME NEW S, IsFiniteSet(S), NEW f \in [S -> Int]
  PROVE  \E it \in [SUBSET S -> Int] : SumsOver(it, S, f)
<1> DEFINE F == [p \in Int \X S |-> f[p[2]] + p[1]]
           pick == [s \in SUBSET S |-> CHOOSE x \in s : TRUE]
<1>1. F \in [Int \X S -> Int] /\ \A i \in Int, x \in S : F[<<i, x>>] = f[x] + i
  OBVIOUS
<1>2. \A s \in SUBSET S : s # {} => pick[s] \in s /\ pick[s] = CHOOSE x \in s : TRUE
  OBVIOUS
<1> HIDE DEF F, pick
<1>3. PICK it \in [SUBSET S -> Int] : FoldsOver(it, S, 0, pick, F)
  <2>1. 0 \in Int
    OBVIOUS
  <2> QED
    BY <1>1, <1>2, <2>1, FoldOverDefined
<1>4. ASSUME NEW s \in SUBSET S, s # {}
      PROVE  it[s] = f[CHOOSE x \in s : TRUE] + it[s \ {CHOOSE x \in s : TRUE}]
  <2>1. PICK c : c = CHOOSE x \in s : TRUE
    OBVIOUS
  <2>2. c \in s /\ pick[s] = c
    BY <1>2, <1>4, <2>1
  <2>3. it[s] = F[<<it[s \ {c}], c>>]
    BY <1>3, <1>4, <2>2 DEF FoldsOver
  <2>4. it[s \ {c}] \in Int /\ c \in S
    BY <2>2
  <2> QED
    BY <1>1, <2>1, <2>3, <2>4
<1>5. it[{}] = 0
  BY <1>3 DEF FoldsOver
<1> QED
  BY <1>4, <1>5 DEF SumsOver

LEMMA SumType ==
  ASSUME NEW S, IsFiniteSet(S), NEW f \in [S -> Int], NEW it, SumsOver(it, S, f)
  PROVE  \A s \in SUBSET S : it[s] \in Int
<1> DEFINE Typed == {k \in Nat : \A s \in SUBSET S : Cardinality(s) <= k => it[s] \in Int}
<1>1. \A s \in SUBSET S :
        /\ Cardinality(s) \in Nat
        /\ s # {} => Cardinality(s) # 0
        /\ \A x \in s : Cardinality(s \ {x}) = Cardinality(s) - 1
  <2> SUFFICES ASSUME NEW s \in SUBSET S
               PROVE  /\ Cardinality(s) \in Nat
                      /\ s # {} => Cardinality(s) # 0
                      /\ \A x \in s : Cardinality(s \ {x}) = Cardinality(s) - 1
    OBVIOUS
  <2>1. IsFiniteSet(s)
    BY FS_Subset
  <2> QED
    BY <2>1, FS_CardinalityType, FS_EmptySet, FS_RemoveElement
<1>2. it[{}] = 0
  BY DEF SumsOver
<1>3. 0 \in Typed
  <2>1. \A s \in SUBSET S : Cardinality(s) <= 0 => s = {}
    BY <1>1
  <2> QED
    BY <1>2, <2>1
<1>4. ASSUME NEW k \in Nat, k \in Typed PROVE k + 1 \in Typed
  <2> SUFFICES ASSUME NEW s \in SUBSET S, Cardinality(s) <= k + 1
               PROVE  it[s] \in Int
    OBVIOUS
  <2>0. CASE s = {}
    BY <1>2, <2>0
  <2> SUFFICES ASSUME s # {} PROVE it[s] \in Int
    BY <2>0
  <2>1. PICK c : c = CHOOSE x \in s : TRUE
    OBVIOUS
  <2>2. c \in s /\ it[s] = f[c] + it[s \ {c}]
    BY <2>1 DEF SumsOver
  <2>3. Cardinality(s \ {c}) <= k /\ s \ {c} \in SUBSET S
    BY <1>1, <2>2
  <2>4. it[s \ {c}] \in Int /\ f[c] \in Int
    BY <1>4, <2>2, <2>3
  <2> QED
    BY <2>2, <2>4
<1> HIDE DEF Typed
<1>5. ASSUME NEW s \in SUBSET S PROVE it[s] \in Int
  <2>1. Cardinality(s) \in Nat /\ Cardinality(s) <= Cardinality(s)
    BY <1>1
  <2>2. Cardinality(s) \in Typed
    BY <1>3, <1>4, <2>1, Induction
  <2> QED
    BY <2>1, <2>2 DEF Typed
<1> QED
  BY <1>5

\* In such a sum any element can be taken first.
TakesAny(it, S, f) == \A s \in SUBSET S : \A x \in s : it[s] = f[x] + it[s \ {x}]

LEMMA SumTakesAny ==
  ASSUME NEW S, IsFiniteSet(S), NEW f \in [S -> Int], NEW it, SumsOver(it, S, f)
  PROVE  TakesAny(it, S, f)
<1> DEFINE Free == {k \in Nat : \A s \in SUBSET S :
                     Cardinality(s) <= k => \A x \in s : it[s] = f[x] + it[s \ {x}]}
<1>0. \A s \in SUBSET S :
        /\ IsFiniteSet(s) /\ Cardinality(s) \in Nat
        /\ Cardinality(s) = 0 <=> s = {}
        /\ \A x \in s : Cardinality(s \ {x}) = Cardinality(s) - 1
  BY FS_Subset, FS_CardinalityType, FS_EmptySet, FS_RemoveElement
<1>1. 0 \in Free
  BY <1>0
<1>2. ASSUME NEW k \in Nat, k \in Free PROVE k + 1 \in Free
  <2> SUFFICES ASSUME NEW s \in SUBSET S, Cardinality(s) <= k + 1, NEW x \in s
               PROVE  it[s] = f[x] + it[s \ {x}]
    OBVIOUS
  <2>1. PICK c : c = CHOOSE y \in s : TRUE
    OBVIOUS
  <2>2. c \in s /\ it[s] = f[c] + it[s \ {c}]
    BY <2>1 DEF SumsOver
  <2>3. CASE x = c
    BY <2>2, <2>3
  <2>4. CASE x # c
    <3>1. /\ s \ {c} \in SUBSET S /\ s \ {x} \in SUBSET S /\ x \in s \ {c} /\ c \in s \ {x}
          /\ (s \ {c}) \ {x} = (s \ {x}) \ {c} /\ (s \ {c}) \ {x} \in SUBSET S
      BY <2>2, <2>4
    <3>2. Cardinality(s \ {c}) <= k /\ Cardinality(s \ {x}) <= k
      BY <1>0, <2>2
    <3>3. it[s \ {c}] = f[x] + it[(s \ {c}) \ {x}]
      BY <1>2, <3>1, <3>2
    <3>4. it[s \ {x}] = f[c] + it[(s \ {c}) \ {x}]
      BY <1>2, <3>1, <3>2
    <3>5. /\ f[x] \in Int /\ f[c] \in Int /\ it[(s \ {c}) \ {x}] \in Int
      BY <2>2, <3>1, SumType
    <3> QED
      BY <2>2, <3>3, <3>4, <3>5
  <2> QED
    BY <2>3, <2>4
<1> HIDE DEF Free
<1>3. \A k \in Nat : k \in Free
  BY <1>1, <1>2, Induction
<1>4. \A s \in SUBSET S : Cardinality(s) \in Nat /\ Cardinality(s) <= Cardinality(s)
  BY <1>0
<1>5. ASSUME NEW s \in SUBSET S PROVE \A x \in s : it[s] = f[x] + it[s \ {x}]
  <2>1. Cardinality(s) \in Free
    BY <1>3, <1>4
  <2> QED
    BY <1>4, <2>1 DEF Free
<1> QED
  BY <1>5 DEF TakesAny

\* lt is a strict total order of S, given as the set of its pairs.
TotalOrder(lt, S) ==
  /\ \A x, y \in S : x # y => <<x, y>> \in lt \/ <<y, x>> \in lt
  /\ \A x, y, z \in S : <<x, y>> \in lt /\ <<y, z>> \in lt => <<x, z>> \in lt
  /\ \A x \in S : <<x, x>> \notin lt

\* A finite set that is not empty has a last element.
LEMMA LastExists ==
  ASSUME NEW S, IsFiniteSet(S), S # {}, NEW lt, TotalOrder(lt, S)
  PROVE  \E x \in S : \A y \in S : y # x => <<y, x>> \in lt
<1> DEFINE HasLast(s) == \E x \in s : \A y \in s : y # x => <<y, x>> \in lt
           Good == {k \in Nat : \A s \in SUBSET S :
                     s # {} /\ Cardinality(s) <= k => HasLast(s)}
<1>0. \A s \in SUBSET S : /\ IsFiniteSet(s) /\ Cardinality(s) \in Nat
                          /\ (Cardinality(s) = 0 <=> s = {})
                          /\ \A x \in s : Cardinality(s \ {x}) = Cardinality(s) - 1
  BY FS_Subset, FS_CardinalityType, FS_EmptySet, FS_RemoveElement
<1>1. 0 \in Good
  <2>1. \A s \in SUBSET S : Cardinality(s) <= 0 => s = {}
    BY <1>0
  <2> QED
    BY <2>1
<1>2. ASSUME NEW k \in Nat, k \in Good PROVE k + 1 \in Good
  <2> SUFFICES ASSUME NEW s \in SUBSET S, s # {}, Cardinality(s) <= k + 1
               PROVE  HasLast(s)
    OBVIOUS
  <2>1. PICK c \in s : TRUE
    OBVIOUS
  <2>2. CASE s \ {c} = {}
    BY <2>2
  <2>3. CASE s \ {c} # {}
    <3>1. Cardinality(s \ {c}) <= k /\ s \ {c} \in SUBSET S
      BY <1>0
    <3>2. HasLast(s \ {c})
      BY <1>2, <2>3, <3>1
    <3>3. PICK x \in s \ {c} : \A y \in s \ {c} : y # x => <<y, x>> \in lt
      BY <3>2
    <3>4. CASE <<c, x>> \in lt
      BY <3>3, <3>4
    <3>5. CASE <<x, c>> \in lt
      <4>1. \A y \in s : y # c => <<y, c>> \in lt
        BY <3>3, <3>5 DEF TotalOrder
      <4> QED
        BY <4>1
    <3> QED
      BY <3>3, <3>4, <3>5 DEF TotalOrder
  <2> QED
    BY <2>2, <2>3
<1> HIDE DEF Good
<1>3. Cardinality(S) \in Nat /\ Cardinality(S) \in Good
  BY <1>0, <1>1, <1>2, Induction
<1>4. \A n \in Nat : n <= n
  OBVIOUS
<1> QED
  BY <1>3, <1>4 DEF Good

Sorts(order, S, lt) ==
  /\ order \in [1 .. Cardinality(S) -> S]
  /\ \A i, j \in 1 .. Cardinality(S) : i < j => <<order[i], order[j]>> \in lt

\* A finite set can be sorted.
LEMMA SortedExists ==
  ASSUME NEW S, IsFiniteSet(S), NEW lt, TotalOrder(lt, S)
  PROVE  \E order : Sorts(order, S, lt)
<1> DEFINE Sortable(s) == \E order : Sorts(order, s, lt)
           Good == {k \in Nat : \A s \in SUBSET S : Cardinality(s) = k => Sortable(s)}
<1>0. \A s \in SUBSET S : /\ IsFiniteSet(s) /\ Cardinality(s) \in Nat
                          /\ (Cardinality(s) = 0 <=> s = {})
                          /\ \A x \in s : Cardinality(s \ {x}) = Cardinality(s) - 1
  BY FS_Subset, FS_CardinalityType, FS_EmptySet, FS_RemoveElement
<1>1. 0 \in Good
  <2> SUFFICES ASSUME NEW s \in SUBSET S, Cardinality(s) = 0 PROVE Sortable(s)
    OBVIOUS
  <2> DEFINE order == [i \in 1 .. 0 |-> i]
  <2>1. 1 .. 0 = {} /\ order \in [1 .. 0 -> s]
    OBVIOUS
  <2>2. Sorts(order, s, lt)
    BY <2>1 DEF Sorts
  <2> QED
    BY <2>2
<1>2. ASSUME NEW k \in Nat, k \in Good PROVE k + 1 \in Good
  <2> SUFFICES ASSUME NEW s \in SUBSET S, Cardinality(s) = k + 1 PROVE Sortable(s)
    OBVIOUS
  <2>1. IsFiniteSet(s) /\ s # {} /\ TotalOrder(lt, s)
    BY <1>0 DEF TotalOrder
  <2>2. PICK x \in s : \A y \in s : y # x => <<y, x>> \in lt
    BY <2>1, LastExists
  <2>3. s \ {x} \in SUBSET S /\ Cardinality(s \ {x}) = k
    BY <1>0
  <2>4. Sortable(s \ {x})
    BY <1>2, <2>3
  <2>5. PICK less : Sorts(less, s \ {x}, lt)
    BY <2>4
  <2> DEFINE order == [i \in 1 .. k + 1 |-> IF i = k + 1 THEN x ELSE less[i]]
  <2>6. less \in [1 .. k -> s \ {x}]
        /\ \A i, j \in 1 .. k : i < j => <<less[i], less[j]>> \in lt
    BY <2>3, <2>5 DEF Sorts
  <2>7. \A i \in 1 .. k + 1 : /\ i = k + 1 => order[i] = x
                              /\ i # k + 1 => i \in 1 .. k /\ order[i] = less[i]
    OBVIOUS
  <2>8. order \in [1 .. k + 1 -> s]
    BY <2>6, <2>7
  <2> HIDE DEF order
  <2>9. ASSUME NEW i \in 1 .. k + 1, NEW j \in 1 .. k + 1, i < j
        PROVE  <<order[i], order[j]>> \in lt
    <3>1. i # k + 1
      BY <2>9
    <3>2. i \in 1 .. k /\ order[i] = less[i] /\ less[i] \in s \ {x}
      BY <2>6, <2>7, <3>1
    <3>3. CASE j = k + 1
      BY <2>2, <2>7, <3>2, <3>3
    <3>4. CASE j # k + 1
      BY <2>6, <2>7, <2>9, <3>2, <3>4
    <3> QED
      BY <3>3, <3>4
  <2>10. Sorts(order, s, lt)
    BY <2>8, <2>9 DEF Sorts
  <2> QED
    BY <2>10
<1> HIDE DEF Good
<1>3. Cardinality(S) \in Nat /\ Cardinality(S) \in Good
  BY <1>0, <1>1, <1>2, Induction
<1> QED
  BY <1>3 DEF Good

-----------------------------------------------------------------------------
(***************************************************************************)
(* The order of the two writes of an UpsertHotel of Admin, for every number *)
(* of hotels, calls, lost RPCs and restarts, whatever runs between them.   *)
(***************************************************************************)

CatalogTablesOK == /\ hotels \in [HotelId -> Geography!Place \cup {Geography!NoPlace}]
            /\ profiles \in [HotelId -> Profiles!HotelProfile \cup {Profiles!NoProfile}]

Placed(h) == hotels[h] # Geography!NoPlace \/ "geo" \in restarted

\* A call that gets to the profile has placed its hotel.
AdminOK == /\ admin \in [AdminCall -> [step : {"idle"}]
                           \cup [step : {"geo", "profile", "done", "failed"},
                                 req : UpsertHotelAsked]
                           \cup [step : {"done", "failed"}]]
           /\ \A a \in AdminCall :
                /\ admin[a].step \in {"geo", "profile"} => admin[a].req.hotel_id \in HotelId
                /\ admin[a].step = "profile" => Placed(admin[a].req.hotel_id)

CatalogIInv == CatalogTablesOK /\ AdminOK /\ ProfiledIsPlaced

-----------------------------------------------------------------------------
\* What a step of others does to the tables and the calls: nothing.
LEMMA CatalogSameInv ==
  ASSUME CatalogIInv, UNCHANGED <<hotels, profiles, admin, restarted>>
  PROVE  CatalogIInv'
BY DEF CatalogIInv, CatalogTablesOK, AdminOK, Placed, ProfiledIsPlaced

LEMMA CatalogInitInv == CatalogInit => CatalogIInv
<1> SUFFICES ASSUME CatalogInit PROVE CatalogIInv
  OBVIOUS
<1>1. PICK seed \in Seeds : hotels = seed.hotels /\ profiles = seed.profiles
  BY DEF CatalogInit
<1>2. CatalogTablesOK /\ ProfiledIsPlaced
  BY <1>1, SeedsAssumption DEF CatalogTablesOK, ProfiledIsPlaced
<1>3. admin = [a \in AdminCall |-> [step |-> "idle"]]
  BY DEF CatalogInit
<1>4. AdminOK
  BY <1>3 DEF AdminOK
<1> QED
  BY <1>2, <1>4 DEF CatalogIInv

LEMMA CatalogAskInv ==
  ASSUME CatalogIInv, NEW a \in AdminCall, NEW req \in UpsertHotelAsked, AdminUpsertHotel(a, req)
  PROVE  CatalogIInv'
<1>1. req.hotel_id \in HotelId
  BY CatalogAssumption, Zenon DEF AdminUpsertHotel, UpsertHotelMessage
<1> QED
  BY <1>1
     DEF AdminUpsertHotel, CatalogIInv, CatalogTablesOK, AdminOK, Placed, ProfiledIsPlaced, tables

\* Whether geo grants it or not, and whether the answer arrives or not.
LEMMA GeoInv == ASSUME CatalogIInv, NEW a \in AdminCall, GeoUpsert(a) PROVE CatalogIInv'
<1> DEFINE h == admin[a].req.hotel_id
           req == Geography!UpsertHotelRequest(h, admin[a].req.at)
           place == [known |-> TRUE, at |-> req.at]
<1>1. PICK ok \in BOOLEAN :
        /\ Rpc(Geography!CanUpsertHotel(req), Geography!UpsertHotel(req), hotels, ok)
        /\ admin' = [admin EXCEPT ![a].step = IF ok THEN "profile" ELSE "failed"]
  BY DEF GeoUpsert
<1>2. admin[a].step = "geo" /\ profiles' = profiles /\ restarted' = restarted
  BY DEF GeoUpsert
<1>3. h \in HotelId /\ req.hotel_id = h
  BY <1>2 DEF CatalogIInv, AdminOK, Geography!UpsertHotelRequest
<1>4. \/ hotels' = hotels /\ ~ok
      \/ Geography!UpsertHotel(req)
  BY <1>1 DEF Rpc
<1>5. Geography!UpsertHotel(req) =>
        hotels' = [hotels EXCEPT ![h] = place] /\ place \in Geography!Place
  BY <1>3 DEF Geography!UpsertHotel, Geography!CanUpsertHotel, Geography!ValidCoords,
              Geography!Place
<1>6. CatalogTablesOK'
  BY <1>2, <1>3, <1>4, <1>5 DEF CatalogIInv, CatalogTablesOK
<1>7. \A g \in HotelId : Placed(g) => Placed(g)'
  BY <1>2, <1>3, <1>4, <1>5 DEF CatalogIInv, CatalogTablesOK, Placed, Geography!Place, Geography!NoPlace
<1>8. ok => hotels'[h] # Geography!NoPlace
  <2>1. Geography!UpsertHotel(req) => hotels'[h] = place
    BY <1>3, <1>5 DEF CatalogIInv, CatalogTablesOK
  <2>2. place # Geography!NoPlace
    BY DEF Geography!NoPlace
  <2>3. Geography!UpsertHotel(req) => hotels'[h] # Geography!NoPlace
    BY <2>1, <2>2
  <2> QED
    BY <1>4, <2>3, Zenon
<1>9. AdminOK'
  BY <1>1, <1>2, <1>3, <1>7, <1>8 DEF CatalogIInv, AdminOK, Placed
<1>10. ProfiledIsPlaced'
  BY <1>2, <1>7 DEF CatalogIInv, ProfiledIsPlaced, Placed
<1> QED
  BY <1>6, <1>9, <1>10 DEF CatalogIInv

LEMMA ProfileInv == ASSUME CatalogIInv, NEW a \in AdminCall, ProfileUpsert(a) PROVE CatalogIInv'
<1> DEFINE h == admin[a].req.hotel_id
           req == Profiles!UpsertProfileRequest(h, admin[a].req.name, admin[a].req.room_types)
           profile == [name |-> req.name, room_types |-> req.room_types]
<1>1. PICK ok \in BOOLEAN :
        /\ Rpc(Profiles!CanUpsertProfile(req), Profiles!UpsertProfile(req), profiles, ok)
        /\ admin' = [admin EXCEPT ![a].step = IF ok THEN "done" ELSE "failed"]
  BY DEF ProfileUpsert
<1>2. admin[a].step = "profile" /\ hotels' = hotels /\ restarted' = restarted
  BY DEF ProfileUpsert
<1>3. h \in HotelId /\ Placed(h) /\ req.hotel_id = h /\ req.name = admin[a].req.name
      /\ req.room_types = admin[a].req.room_types
  BY <1>2 DEF CatalogIInv, AdminOK, Profiles!UpsertProfileRequest
<1>4. admin[a].req \in UpsertHotelAsked
  BY <1>2 DEF CatalogIInv, AdminOK
<1>5. profiles' = profiles \/ Profiles!UpsertProfile(req)
  BY <1>1 DEF Rpc
<1>6. Profiles!UpsertProfile(req) =>
        profiles' = [profiles EXCEPT ![h] = profile] /\ profile \in Profiles!HotelProfile
  <2> SUFFICES ASSUME Profiles!UpsertProfile(req)
               PROVE  profiles' = [profiles EXCEPT ![h] = profile]
                      /\ profile \in Profiles!HotelProfile
    OBVIOUS
  <2>1. req.name # "" /\ profiles' = [profiles EXCEPT ![h] = profile]
    BY <1>3 DEF Profiles!UpsertProfile, Profiles!CanUpsertProfile
  <2>2. req.name \in Name /\ req.room_types \in Seq(RoomType)
    BY <1>3, <1>4, <2>1, CatalogAssumption, Zenon DEF UpsertHotelMessage
  <2> QED
    BY <2>1, <2>2 DEF Profiles!HotelProfile
<1>7. CatalogTablesOK'
  BY <1>2, <1>3, <1>5, <1>6 DEF CatalogIInv, CatalogTablesOK
<1>8. \A g \in HotelId : Placed(g)' = Placed(g)
  BY <1>2 DEF Placed
<1>9. AdminOK'
  BY <1>1, <1>2, <1>8 DEF CatalogIInv, AdminOK
<1>10. ProfiledIsPlaced'
  BY <1>2, <1>3, <1>5, <1>6 DEF CatalogIInv, ProfiledIsPlaced, Placed, CatalogTablesOK
<1> QED
  BY <1>7, <1>9, <1>10 DEF CatalogIInv

LEMMA RateInv ==
  ASSUME CatalogIInv, NEW a \in AdminCall, NEW asked \in SetRatePlanAsked,
         AdminSetRatePlan(a, asked)
  PROVE  CatalogIInv'
<1>1. PICK ok \in BOOLEAN :
        admin' = [admin EXCEPT ![a].step = IF ok THEN "done" ELSE "failed"]
  BY DEF AdminSetRatePlan
<1>2. admin[a].step = "idle" /\ UNCHANGED <<hotels, profiles, restarted>>
  BY DEF AdminSetRatePlan
<1> QED
  BY <1>1, <1>2 DEF CatalogIInv, CatalogTablesOK, AdminOK, Placed, ProfiledIsPlaced

LEMMA SearchInv ==
  ASSUME CatalogIInv, \/ SearchNearby \/ Quote \/ NextHotel \/ Rank
               \/ \E h \in HotelId : GetProfile(h)
  PROVE  CatalogIInv'
BY CatalogSameInv DEF SearchNearby, Quote, NextHotel, Rank, GetProfile, tables

\* Geo loses its places, or profile its profiles; a call under way goes on.
LEMMA CatalogRestartInv ==
  ASSUME CatalogIInv, NEW service \in {"geo", "profile", "pricing"}, ServiceRestart(service)
  PROVE  CatalogIInv'
<1>1. restarted' = restarted \cup {service} /\ admin' = admin
  BY DEF ServiceRestart
<1>2. \/ service = "geo" /\ profiles' = profiles /\ hotels' = Geography!Empty
      \/ hotels' = hotels /\ profiles' = Profiles!Empty
      \/ hotels' = hotels /\ profiles' = profiles
  BY DEF ServiceRestart, Geography!Restart, Profiles!Restart
<1>3. CatalogTablesOK'
  BY <1>2 DEF CatalogIInv, CatalogTablesOK, Geography!Empty, Profiles!Empty
<1>4. \A h \in HotelId : Placed(h) => Placed(h)'
  BY <1>1, <1>2 DEF Placed
<1>5. AdminOK'
  BY <1>1, <1>4 DEF CatalogIInv, AdminOK
<1>6. \A h \in HotelId : profiles'[h] # Profiles!NoProfile => profiles[h] # Profiles!NoProfile
  BY <1>2 DEF Profiles!Empty
<1>7. ProfiledIsPlaced'
  BY <1>4, <1>6 DEF CatalogIInv, ProfiledIsPlaced, Placed
<1> QED
  BY <1>3, <1>5, <1>7 DEF CatalogIInv

\* The inductive invariant holds in every state the catalog reaches.
THEOREM CatalogInvariant == CatalogSpec => []CatalogIInv
<1>1. CatalogIInv /\ UNCHANGED catalogVars => CatalogIInv'
  BY CatalogSameInv DEF catalogVars, tables
<1>2. CatalogIInv /\ [CatalogNext]_catalogVars => CatalogIInv'
  BY <1>1, CatalogAskInv, GeoInv, ProfileInv, RateInv, SearchInv, CatalogRestartInv DEF CatalogNext
<1> QED
  BY <1>2, CatalogInitInv, PTL DEF CatalogSpec

\* A hotel with a profile has a place, unless geo has restarted, whatever other
\* calls, lost answers and failures race the two writes (UpsertHotel of admin).
THEOREM HotelsArePlacedFirst == CatalogSpec => []ProfiledIsPlaced
<1>1. CatalogIInv => ProfiledIsPlaced
  BY DEF CatalogIInv
<1> QED
  BY <1>1, CatalogInvariant, PTL

-----------------------------------------------------------------------------
(***************************************************************************)
(* The ranking: folding the insertion over a list with no hotel twice      *)
(* gives the same results in rising order of price.                        *)
(***************************************************************************)

Rising(s) == \A i, j \in 1 .. Len(s) : i < j => s[i].total <= s[j].total
NoHotelTwice(s) == \A i, j \in 1 .. Len(s) : i # j => s[i].hotel_id # s[j].hotel_id

LEMMA TotalsAreInts ==
  ASSUME NEW s \in Seq(SearchResult)
  PROVE  \A i \in 1 .. Len(s) : s[i] \in SearchResult /\ s[i].total \in Int
<1>1. \A i \in 1 .. Len(s) : s[i] \in SearchResult
  OBVIOUS
<1>2. \A result \in SearchResult : result.total \in Int
  BY DEF SearchResult
<1> QED
  BY <1>1, <1>2

\* The place that Insert finds.
LEMMA InsertIndex ==
  ASSUME NEW s \in Seq(SearchResult), NEW r \in SearchResult
  PROVE  LET after == {i \in DOMAIN s : s[i].total > r.total}
         IN  /\ IsFiniteSet(after) /\ Cardinality(after) \in 0 .. Len(s)
             /\ Rising(s) => after = (Len(s) + 1 - Cardinality(after)) .. Len(s)
<1> DEFINE after == {i \in DOMAIN s : s[i].total > r.total}
           n == Len(s)
<1>1. n \in Nat /\ DOMAIN s = 1 .. n /\ \A i \in 1 .. n : s[i].total \in Int
  BY TotalsAreInts
<1>2. /\ IsFiniteSet(1 .. n) /\ Cardinality(1 .. n) = n
  BY <1>1, FS_Interval
<1>3. IsFiniteSet(after) /\ Cardinality(after) \in 0 .. n
  <2>1. after \subseteq 1 .. n
    BY <1>1
  <2>2. IsFiniteSet(after) /\ Cardinality(after) <= n /\ Cardinality(after) \in Nat
    BY <1>2, <2>1, FS_Subset, FS_CardinalityType
  <2> QED
    BY <1>1, <2>2
<1>4. after \subseteq 1 .. n /\ \A i \in 1 .. n : i \in after <=> s[i].total > r.total
  BY <1>1
<1>5. r.total \in Int
  BY DEF SearchResult
<1> HIDE DEF after
<1>6. ASSUME Rising(s) PROVE after = (n + 1 - Cardinality(after)) .. n
  <2>1. CASE after = {}
    BY <1>1, <2>1, FS_EmptySet
  <2>2. CASE after # {}
    <3>1. PICK m \in after : \A y \in after : m <= y
      <4>1. after \subseteq Nat
        BY <1>1, <1>4
      <4> QED
        BY <4>1, <2>2, LeastElement
    <3>2. after = m .. n
      <4>1. m \in 1 .. n /\ s[m].total > r.total
        BY <1>4
      <4>2. \A i \in m .. n : s[i].total >= s[m].total
        BY <1>1, <1>6, <4>1 DEF Rising
      <4>3. \A i \in m .. n : i \in after
        BY <1>1, <1>4, <1>5, <4>1, <4>2
      <4>4. \A i \in after : i \in m .. n
        BY <1>1, <1>4, <3>1, <4>1
      <4>5. \A i \in m .. n : i \in after
        BY <1>1, <1>4, <4>1, <4>3
      <4> QED
        BY <4>4, <4>5
    <3>3. Cardinality(after) = n - m + 1
      <4>1. m \in Int /\ n \in Int /\ m <= n
        BY <1>1, <1>4
      <4>2. Cardinality(m .. n) = IF m > n THEN 0 ELSE n - m + 1
        BY <4>1, FS_Interval
      <4> QED
        BY <3>2, <4>1, <4>2
    <3>4. m \in Int
      BY <1>4
    <3> QED
      BY <1>1, <3>2, <3>3, <3>4
  <2> QED
    BY <2>1, <2>2
<1> QED
  BY <1>3, <1>6 DEF after

LEMMA InsertDef ==
  ASSUME NEW s \in Seq(SearchResult), NEW r \in SearchResult
  PROVE  \E p \in 1 .. Len(s) + 1 :
           /\ Insert(s, r) \in Seq(SearchResult) /\ Len(Insert(s, r)) = Len(s) + 1
           /\ \A i \in 1 .. Len(s) + 1 :
                Insert(s, r)[i] = IF i < p THEN s[i] ELSE IF i = p THEN r ELSE s[i - 1]
           /\ Rising(s) => /\ \A i \in 1 .. p - 1 : s[i].total <= r.total
                           /\ \A i \in p .. Len(s) : r.total < s[i].total
<1> DEFINE after == {i \in DOMAIN s : s[i].total > r.total}
           n == Len(s)
           p == n + 1 - Cardinality(after)
<1>1. Cardinality(after) \in 0 .. n /\ (Rising(s) => after = p .. n)
  BY InsertIndex
<1>2. n \in Nat /\ p \in 1 .. n + 1
  BY <1>1
<1>3. Insert(s, r) = SubSeq(s, 1, p - 1) \o <<r>> \o SubSeq(s, p, n)
  BY DEF Insert, InsertAt
<1>4. ASSUME Rising(s)
      PROVE  /\ \A i \in 1 .. p - 1 : s[i].total <= r.total
             /\ \A i \in p .. n : r.total < s[i].total
  <2> HIDE DEF p
  <2>1. \A i \in 1 .. n : s[i].total \in Int /\ r.total \in Int
    <3>1. r.total \in Int
      BY DEF SearchResult
    <3> QED
      BY <3>1, TotalsAreInts
  <2>2. \A i \in 1 .. n : i \in p .. n <=> s[i].total > r.total
    BY <1>1, <1>4
  <2> QED
    BY <1>2, <2>1, <2>2
<1> HIDE DEF p, after
<1>5. /\ SubSeq(s, 1, p - 1) \in Seq(SearchResult) /\ Len(SubSeq(s, 1, p - 1)) = p - 1
      /\ SubSeq(s, p, n) \in Seq(SearchResult) /\ Len(SubSeq(s, p, n)) = n + 1 - p
      /\ \A i \in 1 .. p - 1 : SubSeq(s, 1, p - 1)[i] = s[i]
      /\ \A i \in 1 .. n + 1 - p : SubSeq(s, p, n)[i] = s[p + i - 1]
  BY <1>2
<1> DEFINE front == SubSeq(s, 1, p - 1)
           back == SubSeq(s, p, n)
<1> HIDE DEF front, back
<1>6. /\ front \o <<r>> \o back \in Seq(SearchResult)
      /\ Len(front \o <<r>> \o back) = n + 1
      /\ \A i \in 1 .. n + 1 :
           (front \o <<r>> \o back)[i] = IF i < p THEN s[i] ELSE IF i = p THEN r ELSE s[i - 1]
  <2> DEFINE mid == front \o <<r>>
  <2>1. /\ front \in Seq(SearchResult) /\ Len(front) = p - 1
        /\ back \in Seq(SearchResult) /\ Len(back) = n + 1 - p
        /\ \A i \in 1 .. p - 1 : front[i] = s[i]
        /\ \A i \in 1 .. n + 1 - p : back[i] = s[p + i - 1]
    BY <1>5 DEF front, back
  <2>2. /\ mid \in Seq(SearchResult) /\ Len(mid) = p
        /\ \A i \in 1 .. p - 1 : mid[i] = s[i]
        /\ mid[p] = r
    <3>1. <<r>> \in Seq(SearchResult) /\ Len(<<r>>) = 1 /\ <<r>>[1] = r
      OBVIOUS
    <3> QED
      <4>1. /\ mid \in Seq(SearchResult) /\ Len(mid) = Len(front) + 1
            /\ \A i \in 1 .. Len(front) + 1 :
                 mid[i] = IF i <= Len(front) THEN front[i] ELSE <<r>>[i - Len(front)]
        BY <2>1, <3>1, ConcatProperties
      <4> HIDE DEF mid
      <4>2. Len(front) \in Nat /\ p = Len(front) + 1
        BY <1>2, <2>1
      <4>3. \A i \in 1 .. p - 1 : mid[i] = s[i]
        <5> SUFFICES ASSUME NEW i \in 1 .. p - 1 PROVE mid[i] = s[i]
          OBVIOUS
        <5>1. i \in 1 .. Len(front) + 1 /\ i <= Len(front)
          BY <4>2
        <5>2. mid[i] = front[i]
          BY <4>1, <5>1
        <5> QED
          BY <2>1, <5>2
      <4>4. p \in 1 .. Len(front) + 1 /\ ~(p <= Len(front)) /\ p - Len(front) = 1
        BY <4>2
      <4>5. mid[p] = r
        BY <3>1, <4>1, <4>4
      <4> QED
        BY <4>1, <4>2, <4>3, <4>5
  <2> HIDE DEF mid
  <2>3. mid \o back \in Seq(SearchResult) /\ Len(mid \o back) = n + 1
    <3>1. mid \o back \in Seq(SearchResult) /\ Len(mid \o back) = Len(mid) + Len(back)
      BY <2>1, <2>2, ConcatProperties
    <3> QED
      BY <1>2, <2>1, <2>2, <3>1
  <2>4. \A i \in 1 .. n + 1 : (mid \o back)[i] = IF i <= p THEN mid[i] ELSE back[i - p]
    <3>1. \A i \in 1 .. Len(mid) + Len(back) :
            (mid \o back)[i] = IF i <= Len(mid) THEN mid[i] ELSE back[i - Len(mid)]
      BY <2>1, <2>2, ConcatProperties
    <3>2. Len(mid) + Len(back) = n + 1
      BY <1>2, <2>1, <2>2
    <3> QED
      BY <2>2, <3>1, <3>2
  <2>5. \A i \in 1 .. n + 1 : i > p => i - p \in 1 .. n + 1 - p /\ back[i - p] = s[i - 1]
    BY <1>2, <2>1
  <2>6. \A i \in 1 .. n + 1 :
           (mid \o back)[i] = IF i < p THEN s[i] ELSE IF i = p THEN r ELSE s[i - 1]
    <3>1. \A i \in 1 .. n + 1 : \/ i \in 1 .. p - 1 /\ i < p
                                \/ i = p
                                \/ i > p
      BY <1>2
    <3> QED
      <4>1. ASSUME NEW i \in 1 .. n + 1, i \in 1 .. p - 1 PROVE (mid \o back)[i] = s[i]
        BY <1>2, <2>2, <2>4, <4>1
      <4>2. (mid \o back)[p] = r
        BY <1>2, <2>2, <2>4
      <4>3. ASSUME NEW i \in 1 .. n + 1, i > p PROVE (mid \o back)[i] = s[i - 1]
        <5>1. ~(i <= p)
          BY <1>2, <4>3
        <5> QED
          BY <2>4, <2>5, <4>3, <5>1
      <4> HIDE DEF n
      <4>4. \A i \in 1 .. n + 1 : i < p => i \in 1 .. p - 1
        BY <1>2
      <4>5. \A i \in 1 .. n + 1 : ~(i < p) /\ i # p => i > p
        BY <1>2
      <4> QED
        BY <4>1, <4>2, <4>3, <4>4, <4>5
  <2> QED
    BY <2>3, <2>6 DEF mid
<1> QED
  BY <1>2, <1>3, <1>4, <1>6 DEF front, back

LEMMA InsertKeeps ==
  ASSUME NEW s \in Seq(SearchResult), NEW r \in SearchResult, Rising(s), NoHotelTwice(s),
         \A i \in 1 .. Len(s) : s[i].hotel_id # r.hotel_id
  PROVE  /\ Rising(Insert(s, r)) /\ NoHotelTwice(Insert(s, r))
         /\ ToSet(Insert(s, r)) = ToSet(s) \cup {r}
<1> DEFINE t == Insert(s, r)
           n == Len(s)
<1>1. PICK p \in 1 .. n + 1 :
           /\ t \in Seq(SearchResult) /\ Len(t) = n + 1
           /\ \A i \in 1 .. n + 1 : t[i] = IF i < p THEN s[i] ELSE IF i = p THEN r ELSE s[i - 1]
           /\ \A i \in 1 .. p - 1 : s[i].total <= r.total
           /\ \A i \in p .. n : r.total < s[i].total
  BY InsertDef
<1> HIDE DEF t
<1>2. n \in Nat /\ r.total \in Int /\ \A i \in 1 .. n : s[i].total \in Int
  <2>1. r.total \in Int
    BY DEF SearchResult
  <2> QED
    BY <2>1, TotalsAreInts
<1>3. Rising(t)
  <2> SUFFICES ASSUME NEW i \in 1 .. n + 1, NEW j \in 1 .. n + 1, i < j
               PROVE  t[i].total <= t[j].total
    BY <1>1 DEF Rising
  <2>1. CASE j < p
    BY <1>1, <1>2, <2>1 DEF Rising
  <2>2. CASE j = p
    <3>1. i \in 1 .. p - 1 /\ t[i] = s[i] /\ t[j] = r
      BY <1>1, <1>2, <2>2
    <3> QED
      BY <1>1, <3>1
  <2>3. CASE j > p
    <3>1. j - 1 \in p .. n /\ t[j] = s[j - 1] /\ r.total < s[j - 1].total
      BY <1>1, <1>2, <2>3
    <3>2. CASE i = p
      BY <1>1, <1>2, <3>1, <3>2
    <3>3. CASE i < p
      <4>1. i \in 1 .. p - 1 /\ t[i] = s[i] /\ s[i].total <= r.total /\ i \in 1 .. n
        BY <1>1, <1>2, <3>3
      <4> QED
        BY <1>2, <3>1, <4>1
    <3>4. CASE i > p
      <4>1. i - 1 \in 1 .. n /\ j - 1 \in 1 .. n /\ t[i] = s[i - 1]
        BY <1>1, <1>2, <3>4
      <4> QED
        BY <1>2, <3>1, <4>1 DEF Rising
    <3> QED
      BY <1>2, <3>2, <3>3, <3>4
  <2> QED
    BY <1>2, <2>1, <2>2, <2>3
<1>4. NoHotelTwice(t)
  <2> SUFFICES ASSUME NEW i \in 1 .. n + 1, NEW j \in 1 .. n + 1, i < j
               PROVE  t[i].hotel_id # t[j].hotel_id
    BY <1>1, <1>2 DEF NoHotelTwice
  <2>1. \A k \in 1 .. n + 1 : k # p => \E l \in 1 .. n : t[k] = s[l] /\ l = IF k < p THEN k ELSE k - 1
    <3> SUFFICES ASSUME NEW k \in 1 .. n + 1, k # p
                 PROVE  \E l \in 1 .. n : t[k] = s[l] /\ l = IF k < p THEN k ELSE k - 1
      OBVIOUS
    <3> DEFINE l == IF k < p THEN k ELSE k - 1
    <3>1. l \in 1 .. n /\ t[k] = s[l]
      BY <1>1, <1>2
    <3> QED
      BY <3>1
  <2>2. t[p] = r
    BY <1>1
  <2>3. CASE i = p \/ j = p
    BY <2>1, <2>2, <2>3
  <2>4. CASE i # p /\ j # p
    <3>1. PICK k \in 1 .. n : t[i] = s[k] /\ k = IF i < p THEN i ELSE i - 1
      BY <2>1, <2>4
    <3>2. PICK l \in 1 .. n : t[j] = s[l] /\ l = IF j < p THEN j ELSE j - 1
      BY <2>1, <2>4
    <3>3. k # l
      BY <2>4, <3>1, <3>2
    <3> QED
      BY <3>1, <3>2, <3>3 DEF NoHotelTwice
  <2> QED
    BY <2>3, <2>4
<1>5. ToSet(t) = ToSet(s) \cup {r}
  <2>1. \A i \in 1 .. n + 1 : t[i] \in ToSet(s) \cup {r}
    BY <1>1, <1>2 DEF ToSet
  <2>2. \A i \in 1 .. n : \E j \in 1 .. n + 1 : t[j] = s[i]
    <3> SUFFICES ASSUME NEW i \in 1 .. n PROVE \E j \in 1 .. n + 1 : t[j] = s[i]
      OBVIOUS
    <3>1. CASE i < p
      BY <1>1, <1>2, <3>1
    <3>2. CASE i >= p
      <4>1. t[i + 1] = s[i]
        BY <1>1, <1>2, <3>2
      <4> QED
        BY <1>2, <4>1
    <3> QED
      BY <1>1, <1>2, <3>1, <3>2
  <2>3. t[p] = r
    BY <1>1
  <2>4. DOMAIN t = 1 .. n + 1 /\ DOMAIN s = 1 .. n
    BY <1>1
  <2>5. \A x : x \in ToSet(t) => x \in ToSet(s) \cup {r}
    BY <2>1, <2>4 DEF ToSet
  <2>6. \A x : x \in ToSet(s) \cup {r} => x \in ToSet(t)
    BY <1>2, <2>2, <2>3, <2>4 DEF ToSet
  <2> QED
    BY <2>5, <2>6
<1> QED
  BY <1>3, <1>4, <1>5 DEF t

\* Ranking a list with no hotel twice only reorders it.
LEMMA RankedList ==
  ASSUME NEW list \in Seq(SearchResult), NoHotelTwice(list)
  PROVE  LET ranked == FoldLeft(Insert, <<>>, list)
         IN  /\ ranked \in Seq(SearchResult)
             /\ Rising(ranked) /\ NoHotelTwice(ranked)
             /\ ToSet(ranked) = ToSet(list)
<1> DEFINE n == Len(list)
           V == Seq(SearchResult)
           Sort(it) == [s \in SUBSET DOMAIN list |->
                         IF s = {} THEN <<>> ELSE Insert(it[s \ {Max(s)}], list[Max(s)])]
           J == CHOOSE it : it = Sort(it)
           F == [p \in V \X (1 .. n) |-> Insert(p[1], list[p[2]])]
<1>1. FoldLeft(Insert, <<>>, list) = J[DOMAIN list]
  BY Zenon DEF FoldLeft, MapThenFoldSet
<1>2. n \in Nat /\ DOMAIN list = 1 .. n /\ \A k \in 1 .. n : list[k] \in SearchResult
  OBVIOUS
<1>3. F \in [V \X (1 .. n) -> V]
  <2>1. \A s \in V, r \in SearchResult : Insert(s, r) \in V
    BY InsertDef
  <2> QED
    BY <1>2, <2>1
<1>4. <<>> \in V
  OBVIOUS
<1>5. \E it : it = Sort(it)
  <2> HIDE DEF F, V, n
  <2>1. PICK it \in [SUBSET (1 .. n) -> V] : Folds(it, n, <<>>, F)
    BY <1>2, <1>3, <1>4, FoldDefined
  <2>2. ASSUME NEW s \in SUBSET (1 .. n), s # {}
        PROVE  F[<<it[s \ {Max(s)}], Max(s)>>] = Insert(it[s \ {Max(s)}], list[Max(s)])
    <3>1. Max(s) \in 1 .. n
      BY <1>2, <2>2, MaxIsIn
    <3>2. it[s \ {Max(s)}] \in V
      BY <2>1
    <3> QED
      BY <3>1, <3>2 DEF F
  <2>3. it = Sort(it)
    BY <1>2, <2>1, <2>2 DEF Folds
  <2> QED
    BY <2>3
<1>6. J = Sort(J)
  BY <1>5
<1> HIDE DEF J, F
<1>7. \A s \in SUBSET (1 .. n) :
        J[s] = IF s = {} THEN <<>> ELSE Insert(J[s \ {Max(s)}], list[Max(s)])
  BY <1>2, <1>6
<1> HIDE DEF Sort
<1> DEFINE Good(s, k) == /\ s \in V /\ Rising(s) /\ NoHotelTwice(s)
                         /\ ToSet(s) = {list[i] : i \in 1 .. k}
           Sorted == {k \in Nat : k <= n => Good(J[1 .. k], k)}
<1>8. 0 \in Sorted
  <2>1. 1 .. 0 = {} /\ {} \in SUBSET (1 .. n)
    OBVIOUS
  <2>2. J[1 .. 0] = <<>>
    BY <1>7, <2>1
  <2>3. Rising(<<>>) /\ NoHotelTwice(<<>>)
    BY DEF Rising, NoHotelTwice
  <2>4. ToSet(<<>>) = {list[i] : i \in 1 .. 0}
    BY <2>1 DEF ToSet
  <2> QED
    BY <1>4, <2>2, <2>3, <2>4
<1>9. ASSUME NEW k \in Nat, k \in Sorted PROVE k + 1 \in Sorted
  <2> SUFFICES ASSUME k + 1 <= n PROVE Good(J[1 .. (k + 1)], k + 1)
    OBVIOUS
  <2>1. /\ 1 .. (k + 1) \in SUBSET (1 .. n) /\ k + 1 \in 1 .. (k + 1)
        /\ (1 .. (k + 1)) \ {k + 1} = 1 .. k
        /\ k + 1 \in 1 .. n
    BY <1>2
  <2>2. Max(1 .. (k + 1)) = k + 1
    BY <2>1, MaxIsLast
  <2>3. J[1 .. (k + 1)] = Insert(J[1 .. k], list[k + 1])
    BY <1>7, <2>1, <2>2
  <2>4. Good(J[1 .. k], k)
    BY <1>2, <1>9
  <2>5. \A i \in 1 .. Len(J[1 .. k]) : J[1 .. k][i].hotel_id # list[k + 1].hotel_id
    <3> SUFFICES ASSUME NEW i \in 1 .. Len(J[1 .. k])
                 PROVE  J[1 .. k][i].hotel_id # list[k + 1].hotel_id
      OBVIOUS
    <3>1. J[1 .. k][i] \in ToSet(J[1 .. k])
      BY <2>4 DEF ToSet
    <3>2. PICK j \in 1 .. k : J[1 .. k][i] = list[j]
      BY <2>4, <3>1
    <3>3. j \in 1 .. n /\ j # k + 1
      BY <1>2
    <3> QED
      BY <2>1, <3>2, <3>3 DEF NoHotelTwice
  <2>6. {list[i] : i \in 1 .. (k + 1)} = {list[i] : i \in 1 .. k} \cup {list[k + 1]}
    <3>1. 1 .. (k + 1) = (1 .. k) \cup {k + 1}
      OBVIOUS
    <3> QED
      BY <3>1
  <2>7. list[k + 1] \in SearchResult
    BY <1>2, <2>1
  <2>8. /\ Rising(Insert(J[1 .. k], list[k + 1])) /\ NoHotelTwice(Insert(J[1 .. k], list[k + 1]))
        /\ ToSet(Insert(J[1 .. k], list[k + 1])) = ToSet(J[1 .. k]) \cup {list[k + 1]}
    BY <2>4, <2>5, <2>7, InsertKeeps
  <2>9. Insert(J[1 .. k], list[k + 1]) \in V
    BY <2>4, <2>7, InsertDef
  <2> QED
    BY <2>3, <2>4, <2>6, <2>8, <2>9
<1> HIDE DEF Good
<1>10. n \in Sorted
  BY <1>2, <1>8, <1>9, Induction
<1>11. Good(J[1 .. n], n)
  BY <1>2, <1>10
<1>12. ToSet(list) = {list[i] : i \in 1 .. n}
  BY <1>2 DEF ToSet
<1> QED
  BY <1>1, <1>2, <1>11, <1>12 DEF Good

-----------------------------------------------------------------------------
(***************************************************************************)
(* What a search answers, whatever runs beside it.                         *)
(***************************************************************************)

SearchRecord ==
  [step : {"idle", "hotels", "rooms", "done", "failed"}, req : SearchRequest,
   near : SUBSET HotelId, hotel : HotelId \cup {""},
   prof : {<<>>} \cup [hotel_id : HotelId, name : Name, room_types : Seq(RoomType)],
   rooms : Seq(RoomType), best : SearchResult \cup {NoResult}, results : Seq(SearchResult)]

\* Hotels the search has still to decide about, and those it has listed.
Pending(h) == h \in search.near \/ (search.step = "rooms" /\ h = search.hotel)
Named(h) == \E i \in 1 .. Len(search.results) : search.results[i].hotel_id = h

SearchShapeOK ==
  /\ search \in SearchRecord /\ touched \subseteq HotelId \cup {""}
  /\ plans \in [HotelId \X RoomType -> 0 .. MaxInt64]
  /\ search.step \notin {"idle", "failed"} => Validate(search.req)
  /\ search.step = "idle" => search.results = <<>>
  /\ NoHotelTwice(search.results)
  /\ search.step \in {"hotels", "rooms"} => \A h \in HotelId : Pending(h) => ~Named(h)
  /\ search.step = "rooms" => /\ search.hotel \in HotelId \ search.near
                              /\ search.prof.name \in Name
                              /\ search.best # NoResult => search.best.hotel_id = search.hotel
  /\ search.step = "done" => Rising(search.results)

\* best is an offer that h has for one of the rooms, the cheapest if its price fits.
Cheapest(h, best, rooms) ==
  /\ best # NoResult /\ best.hotel_id = h
  /\ Fits(h) => \A r \in Offered(h) \cap rooms : best.total <= Total(h, r)
  /\ \E r \in Offered(h) \cap rooms : /\ best.nightly_rate = plans[<<h, r>>]
                                      /\ Fits(h) => best.total = Total(h, r)

InRange(h) == /\ hotels[h] # Geography!NoPlace
              /\ Geography!HaversineKm(hotels[h].at, search.req.at) <= search.req.radius

Right(h) ==
  IF Wanted(h)
  THEN \E i \in 1 .. Len(search.results) :
         Cheapest(h, search.results[i], ToSet(profiles[h].room_types))
  ELSE ~Named(h)

\* Some rooms have been asked for, and the others are to come.
Quoted(h) ==
  \E seen : /\ seen \cup ToSet(search.rooms) = ToSet(profiles[h].room_types)
            /\ IF Offered(h) \cap seen = {} THEN search.best = NoResult
               ELSE Cheapest(h, search.best, seen)

Sees(h) ==
  /\ search.step \in {"hotels", "rooms"} => IF Pending(h) THEN InRange(h) ELSE Right(h)
  /\ search.step = "rooms" /\ h = search.hotel => profiles[h] # Profiles!NoProfile /\ Quoted(h)
  /\ search.step = "done" => Right(h)

SearchOK == SearchShapeOK /\ \A h \in HotelId \ touched : Sees(h)

-----------------------------------------------------------------------------
LEMMA NoResultIsNone == NoResult \notin SearchResult
BY CatalogAssumption DEF NoResult, SearchResult

LEMMA SearchInitOK == CatalogInit => SearchOK
<1> SUFFICES ASSUME CatalogInit PROVE SearchOK
  OBVIOUS
<1>1. PICK seed \in Seeds : plans = seed.plans
  BY DEF CatalogInit
<1>2. plans \in [HotelId \X RoomType -> 0 .. MaxInt64]
  BY <1>1, SeedsAssumption
<1>3. PICK req \in SearchRequest : search = NewSearch(req)
  BY DEF CatalogInit
<1>4. /\ search \in SearchRecord /\ search.step = "idle" /\ search.near = {}
      /\ search.results = <<>>
  <2> DEFINE none == ""
  <2> HIDE DEF none
  <2>1. search = [step |-> "idle", req |-> req, near |-> {}, hotel |-> none, prof |-> <<>>,
                  rooms |-> <<>>, best |-> NoResult, results |-> <<>>]
    BY <1>3 DEF NewSearch, none
  <2> DEFINE ids == HotelId \cup {""}
  <2>2. none \in ids
    BY DEF none
  <2> DEFINE answers == {<<>>} \cup [hotel_id : HotelId, name : Name, room_types : Seq(RoomType)]
             bests == SearchResult \cup {NoResult}
  <2>3. <<>> \in answers /\ NoResult \in bests
    OBVIOUS
  <2>4. <<>> \in Seq(RoomType) /\ <<>> \in Seq(SearchResult)
    OBVIOUS
  <2>5. SearchRecord =
          [step : {"idle", "hotels", "rooms", "done", "failed"}, req : SearchRequest,
           near : SUBSET HotelId, hotel : ids, prof : answers,
           rooms : Seq(RoomType), best : bests, results : Seq(SearchResult)]
    BY DEF SearchRecord
  <2> HIDE DEF answers, bests, ids
  <2>6. search.step = "idle" /\ search.near = {} /\ search.results = <<>>
    BY <2>1
  <2>7. search \in SearchRecord
    BY <1>3, <2>1, <2>2, <2>3, <2>4, <2>5
  <2> QED
    BY <2>6, <2>7
<1>5. NoHotelTwice(<<>>)
  BY DEF NoHotelTwice
<1> QED
  BY <1>2, <1>4, <1>5 DEF SearchOK, SearchShapeOK, Sees, CatalogInit

\* What nobody touches stays as the search saw it.
SameHotel(h) == /\ hotels'[h] = hotels[h] /\ profiles'[h] = profiles[h]
                /\ \A r \in RoomType : plans'[<<h, r>>] = plans[<<h, r>>]

LEMMA SameHotelSame ==
  ASSUME CatalogTablesOK, NEW h \in HotelId, SameHotel(h), search'.req = search.req
  PROVE  /\ Wanted(h)' = Wanted(h) /\ InRange(h)' = InRange(h)
         /\ profiles[h] # Profiles!NoProfile =>
              /\ Offered(h)' = Offered(h) /\ (Fits(h)' <=> Fits(h))
              /\ \A r \in Offered(h) : Total(h, r)' = Total(h, r) /\ plans'[<<h, r>>] = plans[<<h, r>>]
<1>1. ASSUME profiles[h] # Profiles!NoProfile
      PROVE  /\ ToSet(profiles[h].room_types) \subseteq RoomType
             /\ ToSet(profiles'[h].room_types) = ToSet(profiles[h].room_types)
  <2>1. profiles[h] \in Profiles!HotelProfile
    BY <1>1 DEF CatalogTablesOK
  <2>2. profiles[h].room_types \in Seq(RoomType)
    BY <2>1 DEF Profiles!HotelProfile
  <2> QED
    BY <2>2 DEF SameHotel, ToSet
<1>2. ASSUME profiles[h] # Profiles!NoProfile
      PROVE  /\ Offered(h) \subseteq RoomType /\ Offered(h)' = Offered(h)
             /\ \A r \in Offered(h) : Total(h, r)' = Total(h, r) /\ plans'[<<h, r>>] = plans[<<h, r>>]
             /\ Totals(h)' = Totals(h)
  <2>1. Offered(h) \subseteq RoomType /\ Offered(h)' = Offered(h)
    BY <1>1, <1>2 DEF Offered, SameHotel
  <2>2. \A r \in RoomType : Total(h, r)' = Total(h, r)
    BY DEF Total, Stay, SameHotel, Prices!FlatBookingFee
  <2>3. Totals(h)' = Totals(h)
    BY <2>1, <2>2 DEF Totals
  <2> QED
    BY <2>1, <2>2, <2>3 DEF SameHotel
<1>3. ASSUME profiles[h] # Profiles!NoProfile PROVE Fits(h)' <=> Fits(h)
  BY <1>2, <1>3 DEF Fits, Stay
<1>4. Wanted(h)' = Wanted(h)
  BY <1>2 DEF Wanted, SameHotel, Geography!HaversineKm
<1>5. InRange(h)' = InRange(h)
  BY DEF InRange, SameHotel
<1> QED
  BY <1>2, <1>3, <1>4, <1>5

LEMMA CheapestKept ==
  ASSUME CatalogTablesOK, NEW h \in HotelId, SameHotel(h), search'.req = search.req,
         profiles[h] # Profiles!NoProfile, NEW best, NEW rooms, Cheapest(h, best, rooms)
  PROVE  Cheapest(h, best, rooms)'
<1>1. /\ Offered(h)' = Offered(h) /\ (Fits(h)' <=> Fits(h))
      /\ \A r \in Offered(h) : Total(h, r)' = Total(h, r) /\ plans'[<<h, r>>] = plans[<<h, r>>]
  BY SameHotelSame
<1> QED
  BY <1>1 DEF Cheapest

LEMMA RoomsKept ==
  ASSUME CatalogTablesOK, NEW h \in HotelId, SameHotel(h)
  PROVE  ToSet(profiles'[h].room_types) = ToSet(profiles[h].room_types)
BY DEF SameHotel, ToSet

\* A step that leaves the search alone, and the hotels nobody touches.
LEMMA OthersOK ==
  ASSUME SearchOK, CatalogTablesOK, search' = search, touched' \subseteq HotelId \cup {""},
         plans' \in [HotelId \X RoomType -> 0 .. MaxInt64],
         search.step # "idle" => \A h \in HotelId \ touched' : h \notin touched /\ SameHotel(h)
  PROVE  SearchOK'
<1>1. SearchShapeOK'
  BY DEF SearchOK, SearchShapeOK, Pending, Named
<1>2. ASSUME NEW h \in HotelId \ touched' PROVE Sees(h)'
  <2>1. CASE search.step = "idle"
    BY <2>1 DEF Sees
  <2>2. CASE search.step # "idle"
    <3>1. /\ SameHotel(h) /\ h \in HotelId \ touched
      BY <2>2
    <3>2. /\ Wanted(h)' = Wanted(h) /\ InRange(h)' = InRange(h)
          /\ profiles[h] # Profiles!NoProfile => Offered(h)' = Offered(h)
      BY <1>2, <3>1, SameHotelSame
    <3>3. Sees(h)
      BY <3>1, <3>2 DEF SearchOK
    <3>4. Right(h) => Right(h)'
      <4>1. CASE Wanted(h)
        <5>1. profiles[h] # Profiles!NoProfile
          BY <4>1 DEF Wanted
        <5>2. \A i \in 1 .. Len(search.results) :
                Cheapest(h, search.results[i], ToSet(profiles[h].room_types))
                  => Cheapest(h, search.results[i], ToSet(profiles[h].room_types))'
          <6> SUFFICES ASSUME NEW i \in 1 .. Len(search.results),
                              Cheapest(h, search.results[i], ToSet(profiles[h].room_types))
                       PROVE  Cheapest(h, search.results[i], ToSet(profiles[h].room_types))'
            OBVIOUS
          <6>1. PICK best, rooms : best = search.results[i] /\ rooms = ToSet(profiles[h].room_types)
            OBVIOUS
          <6>2. Cheapest(h, best, rooms)'
            BY <3>1, <5>1, <6>1, CheapestKept
          <6>3. best = search'.results[i] /\ rooms = ToSet(profiles'[h].room_types)
            BY <3>1, <6>1, RoomsKept
          <6> QED
            BY <6>2, <6>3 DEF Cheapest
        <5> QED
          BY <3>2, <4>1, <5>2 DEF Right
      <4>2. CASE ~Wanted(h)
        BY <3>2, <4>2 DEF Right, Named
      <4> QED
        BY <4>1, <4>2
    <3>5. ASSUME profiles[h] # Profiles!NoProfile, Quoted(h) PROVE Quoted(h)'
      <4>1. PICK seen : /\ seen \cup ToSet(search.rooms) = ToSet(profiles[h].room_types)
                        /\ IF Offered(h) \cap seen = {} THEN search.best = NoResult
                           ELSE Cheapest(h, search.best, seen)
        BY <3>5 DEF Quoted
      <4>2. seen \cup ToSet(search.rooms)' = ToSet(profiles'[h].room_types)
        BY <3>1, <4>1, RoomsKept DEF ToSet
      <4>3. PICK best : best = search.best
        OBVIOUS
      <4>4. Cheapest(h, best, seen) => Cheapest(h, best, seen)'
        BY <3>1, <3>5, CheapestKept
      <4>5. Cheapest(h, best, seen)' => Cheapest(h, search.best, seen)'
        BY <4>3 DEF Cheapest
      <4> QED
        BY <3>2, <3>5, <4>1, <4>2, <4>3, <4>4, <4>5 DEF Quoted
    <3>6. Pending(h)' = Pending(h) /\ (profiles[h] # Profiles!NoProfile => profiles'[h] # Profiles!NoProfile)
      BY <3>1 DEF Pending, SameHotel
    <3> QED
      BY <3>2, <3>3, <3>4, <3>5, <3>6 DEF Sees
  <2> QED
    BY <2>1, <2>2
<1> QED
  BY <1>1, <1>2 DEF SearchOK

-----------------------------------------------------------------------------
PlansOK == plans \in [HotelId \X RoomType -> 0 .. MaxInt64]

\* A write about h touches h and changes no other hotel.
LEMMA WriteOK ==
  ASSUME SearchOK, CatalogTablesOK, NEW h \in HotelId \cup {""}, Touch(h), search' = search,
         PlansOK', \A g \in HotelId \ {h} : SameHotel(g)
  PROVE  SearchOK'
<1>1. touched' \subseteq HotelId \cup {""} /\ (search.step # "idle" => touched' = touched \cup {h})
  BY DEF Touch, SearchOK, SearchShapeOK
<1> QED
  BY <1>1, OthersOK DEF PlansOK

LEMMA AskOK ==
  ASSUME SearchOK, CatalogTablesOK,
         UNCHANGED <<tables, search, touched>>
  PROVE  SearchOK'
<1>1. \A h \in HotelId : SameHotel(h)
  BY DEF SameHotel, tables
<1> QED
  BY <1>1, OthersOK DEF SearchOK, SearchShapeOK, tables

LEMMA GeoOK ==
  ASSUME SearchOK, CatalogIInv, NEW a \in AdminCall, GeoUpsert(a)
  PROVE  SearchOK'
<1> DEFINE h == admin[a].req.hotel_id
           req == Geography!UpsertHotelRequest(h, admin[a].req.at)
<1>1. h \in HotelId /\ req.hotel_id = h
  BY DEF GeoUpsert, CatalogIInv, AdminOK, Geography!UpsertHotelRequest
<1>2. PICK ok : /\ Rpc(Geography!CanUpsertHotel(req), Geography!UpsertHotel(req), hotels, ok)
                /\ Touch(req.hotel_id)
  BY DEF GeoUpsert
<1>3. UNCHANGED <<profiles, plans, search>>
  BY DEF GeoUpsert
<1>4. \A g \in HotelId \ {h} : hotels'[g] = hotels[g]
  BY <1>1, <1>2 DEF Rpc, Geography!UpsertHotel, CatalogIInv, CatalogTablesOK
<1>5. \A g \in HotelId \ {h} : SameHotel(g)
  BY <1>3, <1>4 DEF SameHotel
<1> QED
  BY <1>1, <1>2, <1>3, <1>5, WriteOK DEF CatalogIInv, SearchOK, SearchShapeOK, PlansOK

LEMMA ProfileOK ==
  ASSUME SearchOK, CatalogIInv, NEW a \in AdminCall, ProfileUpsert(a)
  PROVE  SearchOK'
<1> DEFINE h == admin[a].req.hotel_id
           req == Profiles!UpsertProfileRequest(h, admin[a].req.name, admin[a].req.room_types)
<1>1. h \in HotelId /\ req.hotel_id = h
  BY DEF ProfileUpsert, CatalogIInv, AdminOK, Profiles!UpsertProfileRequest
<1>2. PICK ok : /\ Rpc(Profiles!CanUpsertProfile(req), Profiles!UpsertProfile(req), profiles, ok)
                /\ Touch(req.hotel_id)
  BY DEF ProfileUpsert
<1>3. UNCHANGED <<hotels, plans, search>>
  BY DEF ProfileUpsert
<1>4. \A g \in HotelId \ {h} : profiles'[g] = profiles[g]
  BY <1>1, <1>2 DEF Rpc, Profiles!UpsertProfile, CatalogIInv, CatalogTablesOK
<1>5. \A g \in HotelId \ {h} : SameHotel(g)
  BY <1>3, <1>4 DEF SameHotel
<1> QED
  BY <1>1, <1>2, <1>3, <1>5, WriteOK DEF CatalogIInv, SearchOK, SearchShapeOK, PlansOK

\* Pricing checks what Admin asks: a rate is positive, for a hotel and a room type.
LEMMA RateOK ==
  ASSUME SearchOK, CatalogIInv, NEW a \in AdminCall, NEW asked \in SetRatePlanAsked,
         AdminSetRatePlan(a, asked)
  PROVE  SearchOK'
<1> DEFINE req == Prices!SetRatePlanRequest(asked.hotel_id, asked.room_type, asked.nightly_rate)
           h == asked.hotel_id
<1>1. /\ req.hotel_id = h /\ req.room_type = asked.room_type
      /\ req.nightly_rate = asked.nightly_rate
  BY DEF Prices!SetRatePlanRequest
<1>2. PICK ok : /\ Rpc(Prices!CanSetRatePlan(req), Prices!SetRatePlan(req), plans, ok)
                /\ Touch(req.hotel_id)
  BY DEF AdminSetRatePlan
<1>3. UNCHANGED <<hotels, profiles, search>> /\ PlansOK
  BY DEF AdminSetRatePlan, SearchOK, SearchShapeOK, PlansOK
<1>4. /\ asked.hotel_id \in HotelId \cup {""} /\ asked.room_type \in RoomType \cup {""}
      /\ asked.nightly_rate \in -MaxInt64 - 1 .. MaxInt64
  BY CatalogAssumption DEF SetRatePlanMessage
<1>5. \/ plans' = plans
      \/ /\ h \in HotelId /\ asked.room_type \in RoomType /\ asked.nightly_rate \in 0 .. MaxInt64
         /\ plans' = [plans EXCEPT ![<<h, asked.room_type>>] = asked.nightly_rate]
  <2>1. plans' = plans \/ Prices!SetRatePlan(req)
    BY <1>2 DEF Rpc
  <2>2. MaxInt64 \in Nat
    BY CatalogAssumption
  <2>3. ASSUME Prices!SetRatePlan(req)
        PROVE  /\ h # "" /\ asked.room_type # "" /\ asked.nightly_rate > 0
               /\ plans' = [plans EXCEPT ![<<h, asked.room_type>>] = asked.nightly_rate]
    BY <1>1, <2>3 DEF Prices!SetRatePlan, Prices!CanSetRatePlan
  <2> HIDE DEF req
  <2>4. h # "" => h \in HotelId
    BY <1>4
  <2>5. asked.room_type # "" => asked.room_type \in RoomType
    BY <1>4
  <2>6. asked.nightly_rate > 0 => asked.nightly_rate \in 0 .. MaxInt64
    <3>1. asked.nightly_rate \in -MaxInt64 - 1 .. MaxInt64
      BY <1>4
    <3>2. \A rate \in -MaxInt64 - 1 .. MaxInt64 : rate > 0 => rate \in 0 .. MaxInt64
      BY <2>2
    <3> QED
      BY <3>1, <3>2
  <2> QED
    BY <2>1, <2>3, <2>4, <2>5, <2>6
<1>6. PlansOK'
  BY <1>3, <1>5 DEF PlansOK
<1>7. CASE plans' = plans
  <2>1. \A g \in HotelId : SameHotel(g)
    BY <1>3, <1>7 DEF SameHotel
  <2> QED
    BY <1>1, <1>2, <1>3, <1>4, <1>6, <2>1, WriteOK DEF CatalogIInv
<1>8. CASE plans' # plans
  <2>1. h \in HotelId /\ \A g \in HotelId \ {h} : SameHotel(g)
    BY <1>3, <1>5, <1>8 DEF SameHotel, PlansOK
  <2> QED
    BY <1>1, <1>2, <1>3, <1>6, <2>1, WriteOK DEF CatalogIInv
<1> QED
  BY <1>7, <1>8

LEMMA RestartOK ==
  ASSUME SearchOK, CatalogIInv, NEW service \in {"geo", "profile", "pricing"},
         ServiceRestart(service)
  PROVE  SearchOK'
<1>1. search' = search /\ touched' = IF search.step = "idle" THEN {} ELSE HotelId
  BY DEF ServiceRestart
<1>2. plans' = plans \/ plans' = [k \in HotelId \X RoomType |-> 0]
  BY DEF ServiceRestart, Prices!Restart, Prices!Empty
<1>3. PlansOK'
  <2>1. MaxInt64 \in Nat /\ PlansOK
    BY CatalogAssumption DEF SearchOK, SearchShapeOK, PlansOK
  <2> QED
    BY <1>2, <2>1 DEF PlansOK
<1> QED
  <2>1. search.step # "idle" => HotelId \ touched' = {}
    BY <1>1
  <2> QED
    BY <1>1, <1>3, <2>1, OthersOK DEF CatalogIInv, PlansOK

-----------------------------------------------------------------------------
(* The steps of the search itself. *)

LEMMA TablesKept ==
  ASSUME UNCHANGED tables, search'.req = search.req
  PROVE  /\ \A h \in HotelId : /\ Fits(h)' <=> Fits(h)
                               /\ (Wanted(h)' <=> Wanted(h)) /\ (InRange(h)' <=> InRange(h))
                               /\ Offered(h)' = Offered(h)
         /\ \A h \in HotelId : \A best, rooms : Cheapest(h, best, rooms)' <=> Cheapest(h, best, rooms)
<1> USE DEF tables
<1>1. /\ \A h \in HotelId : Offered(h)' = Offered(h)
      /\ \A h \in HotelId : \A r : Total(h, r)' = Total(h, r)
      /\ \A h \in HotelId : Totals(h)' = Totals(h)
  <2>1. \A h \in HotelId : Offered(h)' = Offered(h)
    BY DEF Offered
  <2>2. \A h \in HotelId : \A r : Total(h, r)' = Total(h, r)
    BY DEF Total, Stay
  <2> QED
    BY <2>1, <2>2 DEF Totals
<1>2. ASSUME NEW h \in HotelId
      PROVE  /\ Fits(h)' <=> Fits(h)
             /\ (Wanted(h)' <=> Wanted(h)) /\ (InRange(h)' <=> InRange(h))
  BY <1>1 DEF Fits, Stay, Wanted, InRange
<1>3. \A h \in HotelId : \A best, rooms : Cheapest(h, best, rooms)' <=> Cheapest(h, best, rooms)
  BY <1>1, <1>2 DEF Cheapest
<1> QED
  BY <1>1, <1>2, <1>3

\* A hotel about which the search decides nothing in this step.
LEMMA RightKept ==
  ASSUME UNCHANGED tables, search'.req = search.req, search'.results = search.results,
         NEW h \in HotelId
  PROVE  Right(h)' <=> Right(h)
<1>1. /\ Wanted(h)' <=> Wanted(h)
      /\ \A best, rooms : Cheapest(h, best, rooms)' <=> Cheapest(h, best, rooms)
  BY TablesKept
<1>2. Named(h)' <=> Named(h)
  BY DEF Named
<1>3. PICK rooms, results : rooms = ToSet(profiles[h].room_types) /\ results = search.results
  OBVIOUS
<1>4. Right(h) <=> IF Wanted(h) THEN \E i \in 1 .. Len(results) : Cheapest(h, results[i], rooms)
                   ELSE ~Named(h)
  BY <1>3 DEF Right
<1>5. Right(h)' <=> IF Wanted(h)' THEN \E i \in 1 .. Len(results) : Cheapest(h, results[i], rooms)'
                    ELSE ~Named(h)'
  <2>1. rooms = ToSet(profiles[h].room_types)' /\ results = search'.results
    BY <1>3 DEF tables
  <2> QED
    BY <2>1 DEF Right
<1> QED
  BY <1>1, <1>2, <1>4, <1>5

\* A hotel out of range or without a profile is rightly not listed.
LEMMA UnlistedRight ==
  ASSUME NEW h \in HotelId, ~Named(h), ~InRange(h) \/ profiles[h] = Profiles!NoProfile
  PROVE  Right(h)
BY DEF Right, Wanted, InRange

LEMMA NearbyOK ==
  ASSUME SearchOK, CatalogTablesOK, SearchNearby
  PROVE  SearchOK'
<1> DEFINE near == Geography!Nearby(Geography!NearbyRequest(search.req.at, search.req.radius))
<1>1. /\ search.step = "idle" /\ Validate(search.req) /\ UNCHANGED <<tables, touched>>
      /\ \/ search' = [search EXCEPT !.step = "hotels", !.near = near]
         \/ search' = [search EXCEPT !.step = "failed"]
  BY DEF SearchNearby
<1>2. /\ search \in SearchRecord /\ search.results = <<>> /\ search.req \in SearchRequest
  BY <1>1 DEF SearchOK, SearchShapeOK, SearchRecord
<1>3. search.req.at \in Int
  BY <1>2, CatalogAssumption DEF SearchMessage
<1>4. \A h \in HotelId : h \in near <=> InRange(h)
  <2> SUFFICES ASSUME NEW h \in HotelId, hotels[h] # Geography!NoPlace
               PROVE  Geography!HaversineKm(search.req.at, hotels[h].at)
                        = Geography!HaversineKm(hotels[h].at, search.req.at)
    BY DEF InRange, Geography!Nearby, Geography!NearbyRequest
  <2>1. hotels[h] \in Geography!Place
    BY DEF CatalogTablesOK
  <2>2. hotels[h].at \in Int
    <3>1. MaxCoord \in Nat /\ hotels[h].at \in -MaxCoord .. MaxCoord
      BY <2>1, CatalogAssumption DEF Geography!Place
    <3> QED
      BY <3>1
  <2> QED
    BY <1>3, <2>2 DEF Geography!HaversineKm
<1>5. near \subseteq HotelId
  BY DEF Geography!Nearby
<1> HIDE DEF near
<1>6. /\ search' \in SearchRecord /\ search'.req = search.req /\ search'.results = <<>>
      /\ \/ search'.step = "hotels" /\ search'.near = near
         \/ search'.step = "failed"
  BY <1>1, <1>2, <1>5 DEF SearchRecord
<1>7. \A h \in HotelId : ~Named(h)'
  BY <1>6 DEF Named
<1>8. SearchShapeOK'
  <2>1. /\ touched' \subseteq HotelId \cup {""} /\ plans' \in [HotelId \X RoomType -> 0 .. MaxInt64]
        /\ Validate(search.req)' /\ NoHotelTwice(search'.results)
    <3>1. Validate(search.req)'
      BY <1>1, <1>6 DEF Validate
    <3>2. NoHotelTwice(search'.results)
      BY <1>6 DEF NoHotelTwice
    <3> QED
      BY <1>1, <3>1, <3>2 DEF SearchOK, SearchShapeOK, tables
  <2> QED
    BY <1>6, <1>7, <2>1 DEF SearchShapeOK
<1>9. ASSUME NEW h \in HotelId PROVE Sees(h)'
  <2>1. InRange(h)' <=> InRange(h)
    BY <1>1, <1>6, TablesKept
  <2>2. search'.step = "hotels" => (Pending(h)' => InRange(h)')
    BY <1>4, <1>6, <2>1 DEF Pending
  <2>3. search'.step = "hotels" => (~Pending(h)' => Right(h)')
    BY <1>4, <1>6, <1>7, <2>1 DEF Pending, Right, Wanted, InRange
  <2> QED
    BY <1>6, <2>2, <2>3 DEF Sees
<1> QED
  BY <1>8, <1>9 DEF SearchOK

\* A step that decides about h only, or leaves the decision to the next step:
\* every other hotel stays where it is.
LEMMA OneHotelOK ==
  ASSUME SearchOK, UNCHANGED tables, SearchShapeOK', NEW h \in HotelId,
         search'.req = search.req, search'.results = search.results,
         search.step \in {"hotels", "rooms"}, search'.step \in {"hotels", "rooms"},
         touched' = touched \/ touched' = touched \cup {h},
         \A g \in HotelId \ {h} : /\ Pending(g)' <=> Pending(g)
                                /\ ~(search'.step = "rooms" /\ g = search'.hotel),
         h \notin touched' /\ Sees(h) => Sees(h)'
  PROVE  SearchOK'
<1>1. ASSUME NEW g \in HotelId \ touched' PROVE Sees(g)'
  <2>1. g \notin touched /\ Sees(g)
    BY <1>1 DEF SearchOK
  <2>2. CASE g = h
    BY <1>1, <2>1, <2>2
  <2>3. CASE g # h
    <3>1. /\ Pending(g)' <=> Pending(g)
          /\ InRange(g)' <=> InRange(g)
          /\ Right(g)' <=> Right(g)
      BY <2>3, TablesKept, RightKept
    <3> QED
      BY <2>1, <2>3, <3>1 DEF Sees
  <2> QED
    BY <2>2, <2>3
<1> QED
  BY <1>1 DEF SearchOK

LEMMA ProfileStepOK ==
  ASSUME SearchOK, CatalogTablesOK, NEW h \in HotelId, GetProfile(h)
  PROVE  SearchOK'
<1>1. /\ search.step = "hotels" /\ h \in search.near /\ UNCHANGED tables
      /\ search \in SearchRecord /\ SearchShapeOK
  BY DEF GetProfile, SearchOK, SearchShapeOK
<1>2. /\ Validate(search.req) /\ NoHotelTwice(search.results)
      /\ ~Named(h) /\ touched \subseteq HotelId \cup {""}
      /\ plans' \in [HotelId \X RoomType -> 0 .. MaxInt64]
      /\ \A g \in search.near : ~Named(g)
  BY <1>1 DEF SearchShapeOK, SearchRecord, Pending, tables
<1>3. CASE Skip(h) /\ (touched' = touched \cup {h} \/ (touched' = touched /\ profiles[h] = Profiles!NoProfile))
  <2>1. /\ search' \in SearchRecord /\ search'.req = search.req /\ search'.results = search.results
        /\ search'.step = "hotels" /\ search'.near = search.near \ {h}
    BY <1>1, <1>3 DEF Skip, SearchRecord
  <2>2. \A g \in HotelId : Named(g)' <=> Named(g)
    BY <2>1 DEF Named
  <2>3. SearchShapeOK'
    <3>1. Validate(search.req)' /\ NoHotelTwice(search.results)'
      BY <1>2, <2>1 DEF Validate, NoHotelTwice
    <3>2. \A g \in HotelId : Pending(g)' => ~Named(g)'
      BY <1>2, <2>1, <2>2 DEF Pending
    <3>3. touched' \subseteq HotelId \cup {""}
      BY <1>2, <1>3
    <3> QED
      BY <1>2, <2>1, <3>1, <3>2, <3>3 DEF SearchShapeOK
  <2>4. \A g \in HotelId \ {h} : Pending(g)' <=> Pending(g)
    BY <1>1, <2>1 DEF Pending
  <2>5. ASSUME h \notin touched' PROVE Sees(h)'
    <3>1. profiles'[h] = Profiles!NoProfile /\ ~Named(h)'
      BY <1>1, <1>2, <1>3, <2>2, <2>5 DEF tables
    <3>2. Right(h)'
      BY <3>1 DEF Right, Wanted
    <3> QED
      BY <2>1, <3>2 DEF Sees, Pending
  <2> QED
    BY <1>1, <1>3, <2>1, <2>3, <2>4, <2>5, OneHotelOK
<1>4. CASE /\ profiles[h] # Profiles!NoProfile /\ touched' = touched
           /\ LET prof == Profiles!GetProfile(h)
              IN  search' = [search EXCEPT !.step = "rooms", !.near = @ \ {h}, !.hotel = h,
                               !.prof = prof, !.rooms = prof.room_types, !.best = NoResult]
  <2>1. PICK prof : prof = Profiles!GetProfile(h)
    OBVIOUS
  <2>2. /\ prof \in [hotel_id : HotelId, name : Name, room_types : Seq(RoomType)]
        /\ prof.room_types = profiles[h].room_types
    <3>1. profiles[h] \in Profiles!HotelProfile
      BY <1>4 DEF CatalogTablesOK
    <3> QED
      BY <2>1, <3>1 DEF Profiles!HotelProfile, Profiles!GetProfile
  <2>3. search' = [search EXCEPT !.step = "rooms", !.near = search.near \ {h}, !.hotel = h,
                     !.prof = prof, !.rooms = prof.room_types, !.best = NoResult]
    BY <1>4, <2>1
  <2>4. /\ search' \in SearchRecord /\ search'.req = search.req /\ search'.results = search.results
        /\ search'.step = "rooms" /\ search'.near = search.near \ {h} /\ search'.hotel = h
        /\ search'.prof = prof /\ search'.rooms = prof.room_types /\ search'.best = NoResult
    BY <1>1, <2>2, <2>3 DEF SearchRecord
  <2>5. \A g \in HotelId : (Named(g)' <=> Named(g)) /\ (Pending(g)' <=> Pending(g))
    BY <1>1, <2>4 DEF Named, Pending
  <2>6. SearchShapeOK'
    <3>1. Validate(search.req)' /\ NoHotelTwice(search.results)'
      BY <1>2, <2>4 DEF Validate, NoHotelTwice
    <3>2. \A g \in HotelId : Pending(g)' => ~Named(g)'
      BY <1>1, <1>2, <2>5 DEF Pending
    <3>3. touched' \subseteq HotelId \cup {""} /\ prof.name \in Name
      BY <1>2, <1>4, <2>2
    <3> QED
      BY <1>2, <2>4, <3>1, <3>2, <3>3 DEF SearchShapeOK
  <2>7. ASSUME Sees(h) PROVE Sees(h)'
    <3>1. InRange(h)'
      BY <1>1, <2>4, <2>7, TablesKept DEF Sees, Pending
    <3>2. profiles'[h] # Profiles!NoProfile
      BY <1>1, <1>4 DEF tables
    <3>3. Quoted(h)'
      <4>1. {} \cup ToSet(search'.rooms) = ToSet(profiles'[h].room_types)
        BY <1>1, <2>2, <2>4 DEF tables
      <4> QED
        BY <2>4, <4>1, Offered(h)' \cap {} = {} DEF Quoted
    <3> QED
      BY <2>4, <3>1, <3>2, <3>3 DEF Sees, Pending
  <2> QED
    BY <1>1, <1>4, <2>4, <2>5, <2>6, <2>7, OneHotelOK
<1>5. \/ Skip(h) /\ touched' = touched /\ profiles[h] = Profiles!NoProfile
      \/ Skip(h) /\ touched' = touched \cup {h}
      \/ /\ profiles[h] # Profiles!NoProfile /\ touched' = touched
         /\ LET prof == Profiles!GetProfile(h)
            IN  search' = [search EXCEPT !.step = "rooms", !.near = @ \ {h}, !.hotel = h,
                             !.prof = prof, !.rooms = prof.room_types, !.best = NoResult]
  BY <1>1, Zenon DEF GetProfile, Touch, Profiles!CanGetProfile
<1> QED
  BY <1>3, <1>4, <1>5, Zenon

-----------------------------------------------------------------------------
\* The int64 arithmetic of a price that fits is exact.
LEMMA WrapExact ==
  /\ \A x \in 0 .. MaxInt64 : Prices!Wrap(x) = x
  /\ \A x \in Int : Prices!Wrap(x) \in Int
<1>1. MaxInt64 \in Nat
  BY CatalogAssumption
<1>2. \A x \in 0 .. MaxInt64 : Prices!Wrap(x) = x
  BY <1>1 DEF Prices!Wrap
<1>3. \A x \in Int : Prices!Wrap(x) \in Int
  BY <1>1 DEF Prices!Wrap
<1> QED
  BY <1>2, <1>3

LEMMA TenthType == \A x \in Int : Prices!Tenth(x) \in Int /\ (x >= 0 => Prices!Tenth(x) = x \div 10)
BY DEF Prices!Tenth

\* The request that a search makes for room type r of h.
Asked(h, r) == Prices!QuoteRequest(h, r, search.req)

LEMMA QuoteIs ==
  ASSUME SearchShapeOK, search.step = "rooms", NEW h \in HotelId, NEW r \in RoomType
  PROVE  /\ Prices!CanQuote(Asked(h, r)) <=> plans[<<h, r>>] # 0
         /\ Prices!Quote(Asked(h, r)).nightly_rate = plans[<<h, r>>]
         /\ plans[<<h, r>>] \in Nat
         /\ Prices!Quote(Asked(h, r)).total \in Int
         /\ Stay <= MaxNights /\ Total(h, r) <= MaxInt64
              => Prices!Quote(Asked(h, r)).total = Total(h, r)
         /\ Total(h, r) \in Int
<1> DEFINE rate == plans[<<h, r>>]
           nights == Prices!Nights(Asked(h, r))
           sub == rate * nights
<1>1. /\ search.req.check_out \in Int /\ search.req.check_in \in Int
      /\ search.req.check_in < search.req.check_out /\ search.req.guests > 0
  <2>1. search.req \in SearchRequest /\ Validate(search.req)
    BY DEF SearchShapeOK, SearchRecord
  <2> QED
    BY <2>1, CatalogAssumption DEF SearchMessage, Validate
<1>2. /\ Asked(h, r).hotel_id = h /\ Asked(h, r).room_type = r
      /\ Asked(h, r).guests = search.req.guests
      /\ Asked(h, r).check_in = search.req.check_in /\ Asked(h, r).check_out = search.req.check_out
  BY DEF Asked, Prices!QuoteRequest
<1>3. rate \in 0 .. MaxInt64 /\ MaxInt64 \in Nat
  BY CatalogAssumption DEF SearchShapeOK
<1>4. /\ nights \in Nat /\ rate \in Nat /\ Stay \in Nat
      /\ Stay <= MaxNights => nights = Stay
  <2>1. nights = IF Stay > MaxNights THEN MaxNights ELSE Stay
    BY <1>2 DEF Prices!Nights, Stay
  <2>2. Stay \in Nat
    BY <1>1 DEF Stay
  <2>3. MaxNights \in Nat
    BY CatalogAssumption
  <2>4. rate \in Nat
    BY <1>3
  <2> HIDE DEF nights, rate
  <2>5. CASE Stay > MaxNights
    <3>1. nights = MaxNights /\ ~(Stay <= MaxNights)
      BY <2>1, <2>2, <2>3, <2>5
    <3> QED
      BY <2>2, <2>3, <2>4, <3>1
  <2>6. CASE ~(Stay > MaxNights)
    <3>1. nights = Stay
      BY <2>1, <2>6
    <3> QED
      BY <2>2, <2>4, <3>1
  <2> QED
    BY <2>5, <2>6
<1> HIDE DEF nights, rate
<1>5. sub \in Nat
  BY <1>4
<1>6. Prices!CanQuote(Asked(h, r)) <=> rate # 0
  BY <1>1, <1>2 DEF Prices!CanQuote, rate
<1>7. /\ Prices!Quote(Asked(h, r)).nightly_rate = rate
      /\ Prices!Quote(Asked(h, r)).total
           = Prices!Wrap(Prices!Wrap(sub) + Prices!Tenth(Prices!Wrap(sub)) + Prices!FlatBookingFee)
  BY <1>2 DEF Prices!Quote, Prices!QuoteResponse, rate, nights
<1>8. ASSUME Stay <= MaxNights PROVE Total(h, r) = sub + sub \div 10 + Prices!FlatBookingFee
  BY <1>4, <1>8 DEF Total, rate
<1>9. Prices!FlatBookingFee \in Nat
  BY DEF Prices!FlatBookingFee
<1>12. Total(h, r) \in Int
  <2>1. PICK price : price = rate * Stay
    OBVIOUS
  <2>2. price \in Nat
    BY <1>4, <2>1
  <2>3. Total(h, r) = price + price \div 10 + Prices!FlatBookingFee
    BY <2>1 DEF Total, rate
  <2> QED
    BY <1>9, <2>2, <2>3
<1> HIDE DEF sub
<1>10. Prices!Quote(Asked(h, r)).total \in Int
  <2>1. Prices!Wrap(sub) \in Int
    BY <1>5, WrapExact
  <2>2. Prices!Tenth(Prices!Wrap(sub)) \in Int
    BY <2>1, TenthType
  <2>3. Prices!Wrap(sub) + Prices!Tenth(Prices!Wrap(sub)) + Prices!FlatBookingFee \in Int
    BY <1>9, <2>1, <2>2
  <2> QED
    BY <1>7, <2>3, WrapExact
<1>11. ASSUME Stay <= MaxNights, Total(h, r) <= MaxInt64
       PROVE  Prices!Quote(Asked(h, r)).total = Total(h, r)
  <2>1. sub \div 10 \in Nat
    BY <1>5
  <2>2. sub \in 0 .. MaxInt64 /\ Total(h, r) \in 0 .. MaxInt64
    BY <1>3, <1>5, <1>8, <1>9, <1>11, <2>1
  <2>3. Prices!Wrap(sub) = sub /\ Prices!Wrap(Total(h, r)) = Total(h, r)
    BY <2>2, WrapExact
  <2>4. Prices!Tenth(sub) = sub \div 10
    BY <1>5, TenthType
  <2> QED
    BY <1>7, <1>8, <1>11, <2>3, <2>4
<1> QED
  BY <1>4, <1>6, <1>7, <1>10, <1>11, <1>12 DEF rate

\* One more room type is asked for.
LEMMA CheaperOf ==
  ASSUME NEW h \in HotelId, NEW r \in Offered(h), NEW seen, NEW best, NEW quote \in SearchResult,
         quote.hotel_id = h, quote.nightly_rate = plans[<<h, r>>],
         Fits(h) => quote.total = Total(h, r),
         best \in SearchResult \cup {NoResult},
         \A x \in Offered(h) : Total(h, x) \in Int,
         IF Offered(h) \cap seen = {} THEN best = NoResult ELSE Cheapest(h, best, seen)
  PROVE  Cheapest(h, IF Better(best, quote.total) THEN quote ELSE best, seen \cup {r})
<1>0. quote # NoResult
  BY NoResultIsNone
<1>1. CASE Offered(h) \cap seen = {}
  <2>1. best = NoResult /\ Offered(h) \cap (seen \cup {r}) = {r}
    BY <1>1
  <2>2. Better(best, quote.total)
    BY <2>1 DEF Better
  <2>3. Cheapest(h, quote, seen \cup {r})
    BY <1>0, <2>1 DEF Cheapest
  <2> QED
    BY <2>2, <2>3
<1>2. CASE Offered(h) \cap seen # {}
  <2>1. Cheapest(h, best, seen)
    BY <1>2
  <2>2. best # NoResult /\ \A x \in Offered(h) \cap (seen \cup {r}) : x = r \/ x \in Offered(h) \cap seen
    BY <2>1 DEF Cheapest
  <2>3. best.total \in Int /\ quote.total \in Int
    BY <2>2 DEF SearchResult
  <2>4. CASE quote.total < best.total
    <3>1. Better(best, quote.total)
      BY <2>4 DEF Better
    <3>2. Fits(h) => \A x \in Offered(h) \cap (seen \cup {r}) : quote.total <= Total(h, x)
      BY <2>1, <2>2, <2>3, <2>4 DEF Cheapest
    <3> QED
      BY <1>0, <3>1, <3>2 DEF Cheapest
  <2>5. CASE ~(quote.total < best.total)
    <3>1. ~Better(best, quote.total)
      BY <2>2, <2>5 DEF Better
    <3>2. Fits(h) => \A x \in Offered(h) \cap (seen \cup {r}) : best.total <= Total(h, x)
      BY <2>1, <2>2, <2>3, <2>5 DEF Cheapest
    <3> QED
      BY <2>1, <3>1, <3>2 DEF Cheapest
  <2> QED
    BY <2>4, <2>5
<1> QED
  BY <1>1, <1>2

LEMMA HeadTailSet ==
  ASSUME NEW S, NEW rooms \in Seq(S), rooms # <<>>
  PROVE  ToSet(rooms) = {Head(rooms)} \cup ToSet(Tail(rooms))
<1>1. /\ DOMAIN rooms = 1 .. Len(rooms) /\ Len(rooms) \in Nat /\ Len(rooms) >= 1
      /\ DOMAIN Tail(rooms) = 1 .. Len(rooms) - 1 /\ Head(rooms) = rooms[1]
      /\ \A i \in 1 .. Len(rooms) - 1 : Tail(rooms)[i] = rooms[i + 1]
  OBVIOUS
<1>2. \A x \in ToSet(rooms) : x = Head(rooms) \/ x \in ToSet(Tail(rooms))
  <2> SUFFICES ASSUME NEW x \in ToSet(rooms), x # Head(rooms) PROVE x \in ToSet(Tail(rooms))
    OBVIOUS
  <2>1. PICK i \in 1 .. Len(rooms) : x = rooms[i]
    BY <1>1 DEF ToSet
  <2>2. i - 1 \in 1 .. Len(rooms) - 1 /\ Tail(rooms)[i - 1] = x
    BY <1>1, <2>1
  <2> QED
    BY <1>1, <2>2 DEF ToSet
<1>3. \A x \in ToSet(Tail(rooms)) : x \in ToSet(rooms)
  <2>1. \A j \in 1 .. Len(rooms) - 1 : j + 1 \in 1 .. Len(rooms) /\ Tail(rooms)[j] = rooms[j + 1]
    BY <1>1
  <2> QED
    BY <1>1, <2>1 DEF ToSet
<1>4. Head(rooms) \in ToSet(rooms)
  BY <1>1 DEF ToSet
<1> QED
  BY <1>2, <1>3, <1>4

LEMMA QuoteStepOK ==
  ASSUME SearchOK, CatalogTablesOK, Quote
  PROVE  SearchOK'
<1>0. PICK h : h = search.hotel
  OBVIOUS
<1> DEFINE r == Head(search.rooms)
           quote == Prices!Quote(Asked(h, r))
           offer == [hotel_id |-> h, name |-> search.prof.name,
                     nightly_rate |-> quote.nightly_rate, total |-> quote.total]
           best == IF Prices!CanQuote(Asked(h, r)) /\ Better(search.best, quote.total)
                   THEN offer ELSE search.best
<1>1. /\ search.step = "rooms" /\ search.rooms # <<>> /\ UNCHANGED tables
      /\ search \in SearchRecord /\ SearchShapeOK
      /\ h \in HotelId \ search.near /\ search.prof.name \in Name
      /\ touched \subseteq HotelId \cup {""}
      /\ NoHotelTwice(search.results) /\ Validate(search.req)
      /\ \A g \in HotelId : Pending(g) => ~Named(g)
      /\ search.best # NoResult => search.best.hotel_id = h
      /\ plans' \in [HotelId \X RoomType -> 0 .. MaxInt64]
  BY <1>0 DEF Quote, SearchOK, SearchShapeOK, tables
<1>2. /\ search.rooms \in Seq(RoomType) /\ r \in RoomType /\ Tail(search.rooms) \in Seq(RoomType)
      /\ search.best \in SearchResult \cup {NoResult}
      /\ ToSet(search.rooms) = {r} \cup ToSet(Tail(search.rooms))
  <2>1. search.rooms \in Seq(RoomType) /\ search.best \in SearchResult \cup {NoResult}
    BY <1>1 DEF SearchRecord
  <2>3. PICK rooms \in Seq(RoomType) : rooms = search.rooms
    BY <2>1
  <2>2. r \in RoomType /\ Tail(search.rooms) \in Seq(RoomType)
    <3>1. Head(rooms) \in RoomType /\ Tail(rooms) \in Seq(RoomType)
      <4>1. rooms # <<>>
        BY <1>1, <2>3
      <4> QED
        BY <4>1
    <3> QED
      BY <2>3, <3>1
  <2>4. ToSet(rooms) = {Head(rooms)} \cup ToSet(Tail(rooms))
    BY <1>1, <2>3, HeadTailSet
  <2> QED
    BY <2>1, <2>2, <2>3, <2>4
<1>3. /\ Prices!CanQuote(Asked(h, r)) <=> plans[<<h, r>>] # 0
      /\ quote.nightly_rate = plans[<<h, r>>] /\ plans[<<h, r>>] \in Nat /\ quote.total \in Int
      /\ Stay <= MaxNights /\ Total(h, r) <= MaxInt64 => quote.total = Total(h, r)
  BY <1>1, <1>2, QuoteIs
<1>4. offer \in SearchResult /\ offer.hotel_id = h
      /\ offer.nightly_rate = plans[<<h, r>>] /\ offer.total = quote.total
  BY <1>1, <1>3 DEF SearchResult
<1>5. \/ /\ touched' = touched
         /\ search' = [search EXCEPT !.rooms = Tail(search.rooms), !.best = best]
      \/ /\ touched' = touched \cup {h}
         /\ search' = [search EXCEPT !.rooms = Tail(search.rooms)]
  BY <1>0, <1>1 DEF Quote, Touch, Asked
<1>6. best \in SearchResult \cup {NoResult} /\ (best # NoResult => best.hotel_id = h)
  BY <1>1, <1>2, <1>4
<1> HIDE DEF offer, quote, best, r
<1>7. /\ search' \in SearchRecord /\ search'.req = search.req /\ search'.results = search.results
      /\ search'.step = "rooms" /\ search'.near = search.near /\ search'.hotel = h
      /\ search'.prof = search.prof /\ search'.rooms = Tail(search.rooms)
      /\ \/ touched' = touched /\ search'.best = best
         \/ touched' = touched \cup {h} /\ search'.best = search.best
  BY <1>0, <1>1, <1>2, <1>5, <1>6 DEF SearchRecord
<1>8. \A g \in HotelId : (Named(g)' <=> Named(g)) /\ (Pending(g)' <=> Pending(g))
  BY <1>0, <1>1, <1>7 DEF Named, Pending
<1>9. SearchShapeOK'
  <2>1. Validate(search.req)' /\ NoHotelTwice(search.results)'
    BY <1>1, <1>7 DEF Validate, NoHotelTwice
  <2>2. \A g \in HotelId : Pending(g)' => ~Named(g)'
    BY <1>1, <1>8
  <2>3. touched' \subseteq HotelId \cup {""}
    BY <1>1, <1>7
  <2>4. search'.best # NoResult => search'.best.hotel_id = h
    BY <1>1, <1>6, <1>7
  <2> QED
    BY <1>1, <1>7, <2>1, <2>2, <2>3, <2>4 DEF SearchShapeOK
<1>10. ASSUME h \notin touched', Sees(h) PROVE Sees(h)'
  <2>1. search'.best = best
    BY <1>7, <1>10
  <2>2. InRange(h) /\ profiles[h] # Profiles!NoProfile /\ Quoted(h)
    BY <1>0, <1>1, <1>10 DEF Sees, Pending
  <2>3. PICK seen : /\ seen \cup ToSet(search.rooms) = ToSet(profiles[h].room_types)
                    /\ IF Offered(h) \cap seen = {} THEN search.best = NoResult
                       ELSE Cheapest(h, search.best, seen)
    BY <2>2 DEF Quoted
  <2>4. r \in ToSet(profiles[h].room_types)
    BY <1>2, <2>3
  <2>5. \A x \in Offered(h) : Total(h, x) \in Int
    <3> SUFFICES ASSUME NEW x \in Offered(h) PROVE Total(h, x) \in Int
      OBVIOUS
    <3>2. x \in RoomType
      <4>1. profiles[h] \in Profiles!HotelProfile
        BY <1>1, <2>2 DEF CatalogTablesOK
      <4>2. profiles[h].room_types \in Seq(RoomType)
        BY <4>1 DEF Profiles!HotelProfile
      <4> QED
        BY <4>2 DEF Offered, ToSet
    <3> QED
      BY <1>1, <3>2, QuoteIs
  <2>6. IF Offered(h) \cap (seen \cup {r}) = {} THEN best = NoResult
        ELSE Cheapest(h, best, seen \cup {r})
    <3>1. CASE plans[<<h, r>>] # 0
      <4>1. r \in Offered(h)
        BY <2>4, <3>1 DEF Offered
      <4>2. Fits(h) => offer.total = Total(h, r)
        BY <1>3, <1>4, <4>1 DEF Fits, Totals
      <4>3. Cheapest(h, IF Better(search.best, offer.total) THEN offer ELSE search.best, seen \cup {r})
        BY <1>1, <1>2, <1>4, <2>3, <2>5, <4>1, <4>2, CheaperOf
      <4>4. best = IF Better(search.best, offer.total) THEN offer ELSE search.best
        BY <1>3, <1>4, <3>1 DEF best
      <4> QED
        BY <4>1, <4>3, <4>4
    <3>2. CASE plans[<<h, r>>] = 0
      <4>1. Offered(h) \cap (seen \cup {r}) = Offered(h) \cap seen
        BY <3>2 DEF Offered
      <4>2. best = search.best
        BY <1>3, <3>2 DEF best
      <4> QED
        BY <2>3, <4>1, <4>2 DEF Cheapest
    <3> QED
      BY <3>1, <3>2
  <2>7. PICK more, b : more = seen \cup {r} /\ b = best
    OBVIOUS
  <2>8. more \cup ToSet(search'.rooms) = ToSet(profiles'[h].room_types)
    BY <1>1, <1>2, <1>7, <2>3, <2>7 DEF tables
  <2>9. /\ Cheapest(h, b, more)' <=> Cheapest(h, b, more)
        /\ Offered(h)' = Offered(h) /\ InRange(h)' <=> InRange(h)
    BY <1>1, <1>7, TablesKept
  <2>12. Offered(h)' = Offered(h)
    BY <1>1, <1>7, TablesKept
  <2>10. Quoted(h)'
    <3>1. IF Offered(h)' \cap more = {} THEN search'.best = NoResult ELSE Cheapest(h, b, more)'
      <4>1. CASE Offered(h) \cap more = {}
        <5>1. Offered(h)' \cap more = {}
          BY <2>12, <4>1
        <5>2. search'.best = NoResult
          BY <2>1, <2>6, <2>7, <4>1
        <5> QED
          BY <5>1, <5>2, Zenon
      <4>2. CASE Offered(h) \cap more # {}
        <5>1. Offered(h)' \cap more # {}
          BY <2>12, <4>2
        <5>2. Cheapest(h, b, more)
          BY <2>6, <2>7, <4>2
        <5>3. Cheapest(h, b, more)'
          BY <2>9, <5>2
        <5> QED
          BY <5>1, <5>3, Zenon
      <4> QED
        BY <4>1, <4>2
    <3>2. b = search'.best
      BY <2>1, <2>7
    <3>3. Cheapest(h, b, more)' => Cheapest(h, search.best, more)'
      BY <3>2 DEF Cheapest
    <3> QED
      <4>1. IF Offered(h)' \cap more = {} THEN search'.best = NoResult
            ELSE Cheapest(h, search.best, more)'
        BY <3>1, <3>3
      <4> QED
        BY <2>8, <4>1, Zenon DEF Quoted
  <2>11. InRange(h)' /\ Pending(h)' /\ profiles'[h] # Profiles!NoProfile
    BY <1>1, <1>7, <2>2, <2>9 DEF Pending, tables
  <2> QED
    BY <1>7, <2>10, <2>11 DEF Sees
<1> QED
  BY <1>0, <1>1, <1>7, <1>8, <1>9, <1>10, OneHotelOK

-----------------------------------------------------------------------------
LEMMA NextHotelOK ==
  ASSUME SearchOK, CatalogTablesOK, NextHotel
  PROVE  SearchOK'
<1>0. PICK h, best, list : h = search.hotel /\ best = search.best /\ list = search.results
  OBVIOUS
<1> DEFINE n == Len(list)
<1>1. /\ search.step = "rooms" /\ search.rooms = <<>> /\ UNCHANGED tables /\ touched' = touched
      /\ search \in SearchRecord /\ SearchShapeOK
      /\ h \in HotelId \ search.near
      /\ touched \subseteq HotelId \cup {""}
      /\ NoHotelTwice(list) /\ Validate(search.req)
      /\ \A g \in HotelId : Pending(g) => ~Named(g)
      /\ best # NoResult => best.hotel_id = h
      /\ plans' \in [HotelId \X RoomType -> 0 .. MaxInt64]
  BY <1>0 DEF NextHotel, SearchOK, SearchShapeOK, tables
<1>2. list \in Seq(SearchResult) /\ best \in SearchResult \cup {NoResult}
  BY <1>0, <1>1 DEF SearchRecord
<1>3. n \in Nat /\ DOMAIN list = 1 .. n
  BY <1>2
<1>4. PICK more : /\ more \in Seq(SearchResult)
                  /\ best = NoResult => more = list
                  /\ best # NoResult => more = Append(list, best)
  <2>1. CASE best = NoResult
    BY <1>2, <2>1
  <2>2. CASE best # NoResult
    <3>1. Append(list, best) \in Seq(SearchResult)
      BY <1>2, <2>2
    <3> QED
      BY <2>2, <3>1
  <2> QED
    BY <2>1, <2>2
<1>5. /\ best = NoResult => Len(more) = n
      /\ best # NoResult => Len(more) = n + 1 /\ more[n + 1] = best
      /\ \A i \in 1 .. n : i \in 1 .. Len(more) /\ more[i] = list[i]
      /\ \A i \in 1 .. Len(more) : i \in 1 .. n \/ (i = n + 1 /\ best # NoResult)
  BY <1>2, <1>3, <1>4
<1> HIDE DEF n
<1>6. /\ search' \in SearchRecord /\ search'.req = search.req /\ search'.results = more
      /\ search'.step = "hotels" /\ search'.near = search.near
  <2> DEFINE none == ""
  <2> HIDE DEF none
  <2>1. search' = [search EXCEPT !.step = "hotels", !.hotel = none, !.prof = <<>>,
                     !.best = NoResult, !.results = more]
    <3>1. search' = [search EXCEPT !.step = "hotels", !.hotel = none, !.prof = <<>>, !.best = NoResult,
                       !.results = IF search.best = NoResult THEN search.results
                                   ELSE Append(search.results, search.best)]
      BY DEF NextHotel, none
    <3>2. (IF search.best = NoResult THEN search.results ELSE Append(search.results, search.best)) = more
      BY <1>0, <1>4
    <3> QED
      BY <3>1, <3>2
  <2>2. none \in HotelId \cup {""} /\ NoResult \in SearchResult \cup {NoResult}
    BY DEF none
  <2>3. /\ search'.req = search.req /\ search'.results = more
        /\ search'.step = "hotels" /\ search'.near = search.near
    BY <1>1, <2>1 DEF SearchRecord
  <2> DEFINE ids == HotelId \cup {""}
             answers == {<<>>} \cup [hotel_id : HotelId, name : Name, room_types : Seq(RoomType)]
             bests == SearchResult \cup {NoResult}
  <2>4. none \in ids /\ <<>> \in answers /\ NoResult \in bests
    BY <2>2
  <2>5. SearchRecord =
          [step : {"idle", "hotels", "rooms", "done", "failed"}, req : SearchRequest,
           near : SUBSET HotelId, hotel : ids, prof : answers,
           rooms : Seq(RoomType), best : bests, results : Seq(SearchResult)]
    BY DEF SearchRecord
  <2> HIDE DEF answers, bests, ids
  <2>6. search' \in SearchRecord
    BY <1>1, <1>4, <2>1, <2>4, <2>5
  <2> QED
    BY <2>3, <2>6
<1>7. ~Named(h)
  BY <1>0, <1>1 DEF Pending
<1>8. \A g \in HotelId : Named(g)' <=> Named(g) \/ (g = h /\ best # NoResult)
  <2>1. \A g \in HotelId : Named(g) <=> \E i \in 1 .. n : list[i].hotel_id = g
    BY <1>0 DEF Named, n
  <2>2. \A g \in HotelId : Named(g)' <=> \E i \in 1 .. Len(more) : more[i].hotel_id = g
    BY <1>6 DEF Named
  <2>3. ASSUME best # NoResult PROVE n + 1 \in 1 .. Len(more)
    BY <1>3, <1>5, <2>3
  <2> QED
    BY <1>1, <1>5, <2>1, <2>2, <2>3
<1>9. \A g \in HotelId : Pending(g)' <=> Pending(g) /\ g # h
  BY <1>0, <1>1, <1>6 DEF Pending
<1>10. SearchShapeOK'
  <2>1. Validate(search.req)'
    BY <1>1, <1>6 DEF Validate
  <2>2. NoHotelTwice(more)
    <3>1. \A i \in 1 .. n : list[i].hotel_id # h
      BY <1>0, <1>7 DEF Named, n
    <3>2. \A i, j \in 1 .. Len(more) : i # j => more[i].hotel_id # more[j].hotel_id
      BY <1>1, <1>5, <3>1 DEF NoHotelTwice, n
    <3> QED
      BY <3>2 DEF NoHotelTwice
  <2>3. \A g \in HotelId : Pending(g)' => ~Named(g)'
    BY <1>1, <1>8, <1>9
  <2>4. NoHotelTwice(search.results)'
    BY <1>6, <2>2 DEF NoHotelTwice
  <2> QED
    BY <1>1, <1>6, <2>1, <2>3, <2>4 DEF SearchShapeOK
<1>11. \A g \in HotelId : /\ Wanted(g)' <=> Wanted(g)
                          /\ \A result, rooms : Cheapest(g, result, rooms)' <=> Cheapest(g, result, rooms)
  BY <1>1, <1>6, TablesKept
<1>12. ASSUME NEW g \in HotelId, g # h, Right(g) PROVE Right(g)'
  <2>1. PICK rooms : rooms = ToSet(profiles[g].room_types)
    OBVIOUS
  <2>2. CASE Wanted(g)
    <3>1. PICK i \in 1 .. n : Cheapest(g, list[i], rooms)
      BY <1>0, <1>12, <2>1, <2>2 DEF Right, n
    <3>2. PICK result : result = list[i]
      OBVIOUS
    <3>3. Cheapest(g, result, rooms)'
      BY <1>11, <3>1, <3>2
    <3>4. i \in 1 .. Len(search'.results) /\ search'.results[i] = result
      BY <1>5, <1>6, <3>2
    <3>5. rooms = ToSet(profiles'[g].room_types)
      BY <1>1, <2>1 DEF tables
    <3>6. Cheapest(g, search.results[i], ToSet(profiles[g].room_types))'
      BY <3>3, <3>4, <3>5 DEF Cheapest
    <3>7. Wanted(g)'
      BY <1>11, <2>2
    <3> QED
      BY <3>4, <3>6, <3>7 DEF Right
  <2>3. CASE ~Wanted(g)
    <3>1. ~Wanted(g)' /\ ~Named(g)'
      BY <1>8, <1>11, <1>12, <2>3 DEF Right
    <3> QED
      BY <3>1 DEF Right
  <2> QED
    BY <2>2, <2>3
<1>13. ASSUME Sees(h) PROVE Right(h)'
  <2>1. InRange(h) /\ profiles[h] # Profiles!NoProfile /\ Quoted(h)
    BY <1>0, <1>1, <1>13 DEF Sees, Pending
  <2>2. PICK rooms : rooms = ToSet(profiles[h].room_types)
    OBVIOUS
  <2>3. Offered(h) \cap rooms = Offered(h)
    BY <2>2 DEF Offered
  <2>4. ToSet(search.rooms) = {}
    <3>1. ToSet(<<>>) = {}
      BY DEF ToSet
    <3> QED
      BY <1>1, <3>1
  <2>5. IF Offered(h) = {} THEN best = NoResult ELSE Cheapest(h, best, rooms)
    <3>1. PICK seen : /\ seen \cup ToSet(search.rooms) = ToSet(profiles[h].room_types)
                      /\ IF Offered(h) \cap seen = {} THEN search.best = NoResult
                         ELSE Cheapest(h, search.best, seen)
      BY <2>1 DEF Quoted
    <3>2. seen = rooms
      BY <2>2, <2>4, <3>1
    <3> QED
      BY <1>0, <2>3, <3>1, <3>2
  <2>6. Wanted(h) <=> Offered(h) # {}
    BY <2>1 DEF Wanted, InRange, Totals
  <2>7. CASE Offered(h) = {}
    <3>1. ~Wanted(h)' /\ ~Named(h)'
      <4>1. ~Wanted(h)'
        BY <1>1, <1>11, <2>6, <2>7
      <4>2. best = NoResult
        BY <2>5, <2>7
      <4>3. ~Named(h)'
        BY <1>1, <1>7, <1>8, <4>2
      <4> QED
        BY <4>1, <4>3
    <3> QED
      BY <3>1 DEF Right
  <2>8. CASE Offered(h) # {}
    <3>1. Cheapest(h, best, rooms)
      BY <2>5, <2>8
    <3>2. best # NoResult
      BY <3>1 DEF Cheapest
    <3>3. Cheapest(h, best, rooms)' /\ Wanted(h)'
      <4>1. Wanted(h)'
        BY <1>1, <1>11, <2>6, <2>8
      <4>2. Cheapest(h, best, rooms)'
        BY <1>1, <1>11, <3>1
      <4> QED
        BY <4>1, <4>2
    <3>4. n + 1 \in 1 .. Len(search'.results) /\ search'.results[n + 1] = best
      BY <1>3, <1>5, <1>6, <3>2
    <3>5. rooms = ToSet(profiles'[h].room_types)
      BY <1>1, <2>2 DEF tables
    <3>6. PICK k : k = n + 1
      OBVIOUS
    <3>7. Cheapest(h, search.results[k], ToSet(profiles[h].room_types))'
      BY <3>3, <3>4, <3>5, <3>6 DEF Cheapest
    <3> QED
      BY <3>3, <3>4, <3>6, <3>7 DEF Right
  <2> QED
    BY <2>7, <2>8
<1>14. ASSUME NEW g \in HotelId \ touched' PROVE Sees(g)'
  <2>1. Sees(g)
    BY <1>1, <1>14 DEF SearchOK
  <2>2. CASE g = h
    BY <1>6, <1>9, <1>13, <2>1, <2>2 DEF Sees
  <2>3. CASE g # h
    <3>1. InRange(g)' <=> InRange(g)
      BY <1>1, <1>6, TablesKept
    <3>2. IF Pending(g) THEN InRange(g) ELSE Right(g)
      BY <1>1, <2>1 DEF Sees
    <3>3. IF Pending(g)' THEN InRange(g)' ELSE Right(g)'
      BY <1>9, <1>12, <2>3, <3>1, <3>2
    <3> QED
      BY <1>6, <3>3 DEF Sees
  <2> QED
    BY <2>2, <2>3
<1> QED
  BY <1>10, <1>14 DEF SearchOK

-----------------------------------------------------------------------------
LEMMA RankOK ==
  ASSUME SearchOK, CatalogTablesOK, Rank
  PROVE  SearchOK'
<1>0. PICK list, ranked : list = search.results /\ ranked = FoldLeft(Insert, <<>>, search.results)
  OBVIOUS
<1>1. /\ search.step = "hotels" /\ search.near = {} /\ UNCHANGED <<tables, touched>>
      /\ search' = [search EXCEPT !.step = "done", !.results = ranked]
      /\ search \in SearchRecord /\ NoHotelTwice(list) /\ Validate(search.req)
      /\ touched \subseteq HotelId \cup {""}
      /\ plans' \in [HotelId \X RoomType -> 0 .. MaxInt64]
  BY <1>0 DEF Rank, SearchOK, SearchShapeOK, tables
<1>2. list \in Seq(SearchResult)
  BY <1>0, <1>1 DEF SearchRecord
<1>3. /\ ranked \in Seq(SearchResult) /\ Rising(ranked) /\ NoHotelTwice(ranked)
      /\ ToSet(ranked) = ToSet(list)
  BY <1>0, <1>1, <1>2, RankedList
<1>4. /\ search' \in SearchRecord /\ search'.req = search.req /\ search'.results = ranked
      /\ search'.step = "done"
  BY <1>1, <1>3 DEF SearchRecord
<1>5. /\ \A i \in 1 .. Len(list) : \E j \in 1 .. Len(ranked) : ranked[j] = list[i]
      /\ \A j \in 1 .. Len(ranked) : \E i \in 1 .. Len(list) : ranked[j] = list[i]
  <2>1. /\ ToSet(ranked) = {ranked[j] : j \in 1 .. Len(ranked)}
        /\ ToSet(list) = {list[i] : i \in 1 .. Len(list)}
    BY <1>2, <1>3 DEF ToSet
  <2> QED
    BY <1>3, <2>1
<1>6. SearchShapeOK'
  <2>1. Validate(search.req)'
    BY <1>1, <1>4 DEF Validate
  <2>2. NoHotelTwice(search.results)' /\ Rising(search.results)'
    BY <1>3, <1>4 DEF NoHotelTwice, Rising
  <2> QED
    BY <1>1, <1>4, <2>1, <2>2 DEF SearchShapeOK
<1>7. ASSUME NEW h \in HotelId \ touched' PROVE Sees(h)'
  <2>1. /\ Wanted(h)' <=> Wanted(h)
        /\ \A result, rooms : Cheapest(h, result, rooms)' <=> Cheapest(h, result, rooms)
    BY <1>1, <1>4, TablesKept
  <2>2. Right(h)
    BY <1>1, <1>7 DEF SearchOK, Sees, Pending
  <2>3. PICK rooms : rooms = ToSet(profiles[h].room_types)
    OBVIOUS
  <2>4. CASE Wanted(h)
    <3>1. PICK i \in 1 .. Len(list) : Cheapest(h, list[i], rooms)
      BY <1>0, <2>2, <2>3, <2>4 DEF Right
    <3>2. PICK j \in 1 .. Len(ranked) : ranked[j] = list[i]
      BY <1>5
    <3>3. PICK result : result = list[i]
      OBVIOUS
    <3>4. Cheapest(h, result, rooms)'
      BY <2>1, <3>1, <3>3
    <3>5. Wanted(h)'
      BY <2>1, <2>4
    <3>6. rooms = ToSet(profiles'[h].room_types)
      BY <1>1, <2>3 DEF tables
    <3>7. Cheapest(h, search.results[j], ToSet(profiles[h].room_types))'
      BY <1>4, <3>2, <3>3, <3>4, <3>6 DEF Cheapest
    <3> QED
      BY <1>4, <3>5, <3>7 DEF Right, Sees
  <2>5. CASE ~Wanted(h)
    <3>1. ~Wanted(h)'
      BY <2>1, <2>5
    <3>2. ~Named(h)
      BY <2>2, <2>5 DEF Right
    <3>3. ~Named(h)'
      <4>1. \A i \in 1 .. Len(list) : list[i].hotel_id # h
        BY <1>0, <3>2 DEF Named
      <4>2. \A j \in 1 .. Len(ranked) : ranked[j].hotel_id # h
        BY <1>5, <4>1
      <4> QED
        BY <1>4, <4>2 DEF Named
    <3> QED
      BY <1>4, <3>1, <3>3 DEF Right, Sees
  <2> QED
    BY <2>4, <2>5
<1> QED
  BY <1>6, <1>7 DEF SearchOK

THEOREM SearchInvariant == CatalogSpec => [](CatalogIInv /\ SearchOK)
<1>1. CatalogIInv /\ SearchOK /\ [CatalogNext]_catalogVars => SearchOK'
  <2> SUFFICES ASSUME CatalogIInv, SearchOK, [CatalogNext]_catalogVars PROVE SearchOK'
    OBVIOUS
  <2>1. CatalogTablesOK
    BY DEF CatalogIInv
  <2>2. CASE UNCHANGED catalogVars
    BY <2>1, <2>2, AskOK DEF catalogVars
  <2>3. ASSUME NEW a \in AdminCall, NEW req \in UpsertHotelAsked, AdminUpsertHotel(a, req)
        PROVE  SearchOK'
    BY <2>1, <2>3, AskOK DEF AdminUpsertHotel
  <2>4. ASSUME NEW h \in HotelId, GetProfile(h) PROVE SearchOK'
    BY <2>1, <2>4, ProfileStepOK
  <2> QED
    BY <2>1, <2>2, <2>3, <2>4, GeoOK, ProfileOK, RateOK, RestartOK, NearbyOK, QuoteStepOK, NextHotelOK,
       RankOK DEF CatalogNext
<1> QED
  BY <1>1, SearchInitOK, CatalogInvariant, PTL DEF CatalogSpec

\* The tables and the search have their types (the maps of geo, profile and pricing).
THEOREM CatalogTypeCorrect == CatalogSpec => []CatalogTypeOK
<1>1. CatalogIInv /\ SearchOK => CatalogTypeOK
  <2> SUFFICES ASSUME CatalogIInv, SearchOK PROVE CatalogTypeOK
    OBVIOUS
  <2>1. Geography!TypeOK /\ Profiles!TypeOK
    BY DEF CatalogIInv, CatalogTablesOK, Geography!TypeOK, Profiles!TypeOK
  <2>2. Prices!TypeOK
    BY DEF SearchOK, SearchShapeOK, Prices!TypeOK
  <2>3. /\ search.results \in Seq(SearchResult) /\ search.near \subseteq HotelId
        /\ touched \subseteq HotelId \cup {""}
    BY DEF SearchOK, SearchShapeOK, SearchRecord
  <2>4. \A i \in DOMAIN search.results : search.results[i] \in SearchResult
    <3>1. PICK list \in Seq(SearchResult) : list = search.results
      BY <2>3
    <3>2. \A i \in DOMAIN list : list[i] \in SearchResult
      BY <3>1
    <3> QED
      BY <3>1, <3>2
  <2> QED
    BY <2>1, <2>2, <2>3, <2>4 DEF CatalogTypeOK
<1> QED
  BY <1>1, SearchInvariant, PTL

\* Whatever calls, losses and restarts race a search, what it answers rises in price
\* and has no hotel twice (the insertion sort of search's server.go).
THEOREM SearchesAreRanked == CatalogSpec => []ResultsRanked
<1>1. SearchOK => ResultsRanked
  <2> SUFFICES ASSUME SearchOK, search.step = "done" PROVE ResultsRanked
    BY DEF ResultsRanked
  <2>1. /\ search.results \in Seq(SearchResult)
        /\ Rising(search.results) /\ NoHotelTwice(search.results)
    BY DEF SearchOK, SearchShapeOK, SearchRecord
  <2>2. DOMAIN search.results = 1 .. Len(search.results)
    BY <2>1
  <2> QED
    BY <2>1, <2>2 DEF ResultsRanked, Rising, NoHotelTwice
<1> QED
  BY <1>1, SearchInvariant, PTL

\* A search is right about every hotel that nobody touched while it ran.
THEOREM StableIsSeen == CatalogSpec => []SearchSeesTheStable
<1>1. CatalogIInv /\ SearchOK => SearchSeesTheStable
  <2> SUFFICES ASSUME CatalogIInv, SearchOK, search.step = "done",
                      NEW h \in HotelId \ touched
               PROVE  IF Wanted(h)
                      THEN /\ Cardinality(Listed(h)) = 1
                           /\ \A i \in Listed(h) : OfTheCheapest(search.results[i], h)
                      ELSE Listed(h) = {}
    BY DEF SearchSeesTheStable
  <2>1. /\ search.results \in Seq(SearchResult) /\ NoHotelTwice(search.results) /\ Right(h)
    BY DEF SearchOK, SearchShapeOK, SearchRecord, Sees
  <2>2. DOMAIN search.results = 1 .. Len(search.results)
    BY <2>1
  <2>3. CASE Wanted(h)
    <3>1. PICK i \in 1 .. Len(search.results) :
            Cheapest(h, search.results[i], ToSet(profiles[h].room_types))
      BY <2>1, <2>3 DEF Right
    <3>2. Listed(h) = {i}
      BY <2>1, <2>2, <3>1 DEF Listed, Cheapest, NoHotelTwice
    <3>3. Cardinality(Listed(h)) = 1
      BY <3>2, FS_Singleton
    <3>4. Offered(h) \cap ToSet(profiles[h].room_types) = Offered(h)
      BY DEF Offered
    <3>5. OfTheCheapest(search.results[i], h)
      BY <3>1, <3>4 DEF Cheapest, OfTheCheapest, Totals
    <3>6. ASSUME NEW j \in Listed(h) PROVE OfTheCheapest(search.results[j], h)
      <4>1. j = i
        BY <3>2
      <4> QED
        BY <3>5, <4>1 DEF OfTheCheapest
    <3> QED
      BY <2>3, <3>3, <3>6
  <2>4. CASE ~Wanted(h)
    <3>1. Listed(h) = {}
      BY <2>1, <2>2, <2>4 DEF Right, Named, Listed
    <3> QED
      BY <2>4, <3>1
  <2> QED
    BY <2>3, <2>4
<1> QED
  BY <1>1, SearchInvariant, PTL
==============================================================================
