----------------------------- MODULE CreditSums -----------------------------
(***************************************************************************)
(* Sums of the invokes of receipts, for the proofs about credits.          *)
(*                                                                         *)
(* MapThenSumSet adds the values up in an arbitrary but fixed order. The   *)
(* lemmas here show, by induction on the size of the set, that the         *)
(* function it iterates exists, that the order does not matter, and so     *)
(* that a receipt more adds its invokes to the sum.                        *)
(***************************************************************************)
EXTENDS FiniteSetsExt, FiniteSetTheorems, WellFoundedInduction, TLAPS

\* The invokes of the records v[n], n \in S, together.
Invokes(v, S) == MapThenSumSet(LAMBDA n : v[n].invokes, S)

\* The element MapThenSumSet takes first.
Chosen(s) == CHOOSE x \in s : TRUE

\* f satisfies, on the sets of D, the equation of the function that
\* MapThenSumSet iterates.
SumsUp(v, D, f) ==
    \A s \in D : f[s] = IF s = {} THEN 0
                        ELSE v[Chosen(s)].invokes + f[s \ {Chosen(s)}]

\* That function.
Iter(v, S) ==
    CHOOSE iter : iter = [s \in SUBSET S |->
        IF s = {} THEN 0 ELSE v[Chosen(s)].invokes + iter[s \ {Chosen(s)}]]

\* The subsets of S with at most n elements.
UpTo(S, n) == {s \in SUBSET S : Cardinality(s) <= n}

-----------------------------------------------------------------------------

\* Induction on the natural numbers, stated with a set instead of an operator.
LEMMA NatSetInduction ==
    ASSUME NEW A, 0 \in A, \A n \in Nat : n \in A => n + 1 \in A
    PROVE  Nat \subseteq A
  <1> DEFINE T == Nat \ A
  <1> SUFFICES ASSUME T # {} PROVE FALSE
    OBVIOUS
  <1>1. PICK x \in T : \A y \in T : ~(<<y, x>> \in OpToRel(<, Nat))
    BY NatLessThanWellFounded, WFMin, Zenon
  <1>2. \A y \in T : ~(y < x)
    BY <1>1, Zenon DEF OpToRel
  <1>3. x # 0 /\ x - 1 \in Nat /\ (x - 1) + 1 = x /\ x - 1 < x
    OBVIOUS
  <1>4. x - 1 \in A
    BY <1>2, <1>3
  <1>5. QED
    BY <1>3, <1>4

\* A nonempty set has a first element.
LEMMA ChosenIn == ASSUME NEW s, s # {} PROVE Chosen(s) \in s
  BY Zenon DEF Chosen

\* A subset of a finite set without one of its elements has one element less.
LEMMA Shrink ==
  ASSUME NEW S, IsFiniteSet(S), NEW s \in SUBSET S, NEW x \in s
  PROVE /\ s \ {x} \in SUBSET S /\ IsFiniteSet(s) 
        /\ Cardinality(s) \in Nat /\ Cardinality(s \ {x}) \in Nat
        /\ Cardinality(s \ {x}) = Cardinality(s) - 1
  <1>1. IsFiniteSet(s)
    BY FS_Subset
  <1>2. QED
    BY <1>1, FS_RemoveElement, FS_CardinalityType

\* The equation has a solution, built up by the size of the subsets.
LEMMA SumsExist ==
    ASSUME NEW v, NEW S, IsFiniteSet(S), \A n \in S : v[n].invokes \in Nat
    PROVE  \E f \in [SUBSET S -> Nat] : SumsUp(v, SUBSET S, f)
  <1> DEFINE A == {n \in Nat : \E f \in [UpTo(S, n) -> Nat] : SumsUp(v, UpTo(S, n), f)}
  <1>0. 0 \in A
    <2>1. \A s \in UpTo(S, 0) : s = {}
      <3> SUFFICES ASSUME NEW s \in UpTo(S, 0) PROVE s = {}
        OBVIOUS
      <3>1. IsFiniteSet(s)
        BY FS_Subset DEF UpTo
      <3>2. Cardinality(s) \in Nat /\ Cardinality(s) <= 0
        BY <3>1, FS_CardinalityType DEF UpTo
      <3>3. QED
        BY <3>1, <3>2, FS_EmptySet
    <2> DEFINE f == [s \in UpTo(S, 0) |-> 0]
    <2>2. f \in [UpTo(S, 0) -> Nat] /\ SumsUp(v, UpTo(S, 0), f)
      BY <2>1 DEF SumsUp
    <2>3. QED
      BY <2>2
  <1>1. ASSUME NEW n \in Nat, n \in A PROVE n + 1 \in A
    <2>1. PICK f \in [UpTo(S, n) -> Nat] : SumsUp(v, UpTo(S, n), f)
      BY <1>1
    <2> DEFINE g == [s \in UpTo(S, n + 1) |->
                       IF s = {} THEN 0 ELSE v[Chosen(s)].invokes + f[s \ {Chosen(s)}]]
    <2>2. ASSUME NEW s \in UpTo(S, n + 1), s # {}
          PROVE  /\ s \ {Chosen(s)} \in UpTo(S, n)
                 /\ s \ {Chosen(s)} \in UpTo(S, n + 1)
                 /\ v[Chosen(s)].invokes \in Nat
      <3>1. Chosen(s) \in s /\ s \in SUBSET S
        BY <2>2, ChosenIn DEF UpTo
      <3>2. /\ s \ {Chosen(s)} \in SUBSET S
            /\ Cardinality(s) \in Nat /\ Cardinality(s \ {Chosen(s)}) \in Nat
            /\ Cardinality(s \ {Chosen(s)}) = Cardinality(s) - 1
        BY <3>1, Shrink
      <3>3. Cardinality(s) <= n + 1
        BY DEF UpTo
      <3>4. Cardinality(s \ {Chosen(s)}) <= n /\ Cardinality(s \ {Chosen(s)}) <= n + 1
        BY <3>2, <3>3
      <3>5. QED
        BY <3>1, <3>2, <3>4 DEF UpTo
    <2>3. g \in [UpTo(S, n + 1) -> Nat]
      BY <2>2
    <2>4. \A s \in UpTo(S, n) : s \in UpTo(S, n + 1)
      <3> SUFFICES ASSUME NEW s \in UpTo(S, n) PROVE s \in UpTo(S, n + 1)
        OBVIOUS
      <3>1. Cardinality(s) \in Nat
        BY FS_Subset, FS_CardinalityType DEF UpTo
      <3>2. QED
        BY <3>1 DEF UpTo
    <2>5. \A s \in UpTo(S, n) : g[s] = f[s]
      BY <2>1, <2>4 DEF SumsUp
    <2>6. SumsUp(v, UpTo(S, n + 1), g)
      <3> SUFFICES ASSUME NEW s \in UpTo(S, n + 1)
                   PROVE  g[s] = IF s = {} THEN 0 ELSE v[Chosen(s)].invokes + g[s \ {Chosen(s)}]
        BY DEF SumsUp
      <3>1. g[s] = IF s = {} THEN 0 ELSE v[Chosen(s)].invokes + f[s \ {Chosen(s)}]
        OBVIOUS
      <3> HIDE DEF g
      <3>2. QED
        BY <3>1, <2>2, <2>5
    <2> HIDE DEF g
    <2>7. \E h \in [UpTo(S, n + 1) -> Nat] : SumsUp(v, UpTo(S, n + 1), h)
      BY <2>3, <2>6
    <2>8. n + 1 \in Nat
      OBVIOUS
    <2>9. QED
      BY <2>7, <2>8
  <1>2. Nat \subseteq A
    <2> HIDE DEF A
    <2> QED
      BY <1>0, <1>1, NatSetInduction
  <1>3. Cardinality(S) \in Nat
    BY FS_CardinalityType
  <1>4. PICK f \in [UpTo(S, Cardinality(S)) -> Nat] : SumsUp(v, UpTo(S, Cardinality(S)), f)
    BY <1>2, <1>3
  <1>5. UpTo(S, Cardinality(S)) = SUBSET S
    BY FS_Subset DEF UpTo
  <1>6. QED
    BY <1>4, <1>5

\* Any element may be taken first.
LEMMA AnyFirst ==
    ASSUME NEW v, NEW S, IsFiniteSet(S), \A n \in S : v[n].invokes \in Nat,
           NEW f \in [SUBSET S -> Nat], SumsUp(v, SUBSET S, f),
           NEW x \in S
    PROVE  f[S] = v[x].invokes + f[S \ {x}]
  <1> DEFINE A == {n \in Nat : \A s \in SUBSET S : Cardinality(s) = n =>
                     \A y \in s : f[s] = v[y].invokes + f[s \ {y}]}
  <1>0. 0 \in A
    <2> SUFFICES ASSUME NEW s \in SUBSET S, Cardinality(s) = 0, NEW y \in s PROVE FALSE
      OBVIOUS
    <2>1. IsFiniteSet(s)
      BY FS_Subset
    <2>2. QED
      BY <2>1, FS_EmptySet
  <1>1. ASSUME NEW n \in Nat, n \in A PROVE n + 1 \in A
    <2> SUFFICES ASSUME NEW s \in SUBSET S, Cardinality(s) = n + 1, NEW y \in s
                 PROVE  f[s] = v[y].invokes + f[s \ {y}]
      BY <1>1
    <2> DEFINE z == Chosen(s)
    <2>1. z \in s /\ f[s] = v[z].invokes + f[s \ {z}]
      BY ChosenIn DEF SumsUp
    <2> HIDE DEF z
    <2>2. CASE z = y
      BY <2>1, <2>2
    <2>3. CASE z # y
      <3>1. /\ s \ {z} \in SUBSET S /\ s \ {y} \in SUBSET S
            /\ Cardinality(s \ {z}) = n /\ Cardinality(s \ {y}) = n
        BY <2>1, Shrink
      <3>2. y \in s \ {z} /\ z \in s \ {y}
        BY <2>1, <2>3
      <3>3. f[s \ {z}] = v[y].invokes + f[(s \ {z}) \ {y}]
        BY <1>1, <3>1, <3>2
      <3>4. f[s \ {y}] = v[z].invokes + f[(s \ {y}) \ {z}]
        BY <1>1, <3>1, <3>2
      <3>5. (s \ {z}) \ {y} = (s \ {y}) \ {z}
        OBVIOUS
      <3>6. /\ v[y].invokes \in Nat /\ v[z].invokes \in Nat
            /\ f[(s \ {z}) \ {y}] \in Nat
        BY <2>1
      <3> DEFINE i == v[y].invokes
                 j == v[z].invokes
                 k == f[(s \ {z}) \ {y}]
      <3>7. f[s] = j + (i + k) /\ f[s \ {y}] = j + k
        BY <2>1, <3>3, <3>4, <3>5
      <3>8. i \in Nat /\ j \in Nat /\ k \in Nat
        BY <3>6
      <3> HIDE DEF i, j, k
      <3>9. f[s] = i + f[s \ {y}]
        BY <3>7, <3>8
      <3>10. QED
        BY <3>9 DEF i
    <2>4. QED
      BY <2>2, <2>3
  <1>2. Nat \subseteq A
    <2> HIDE DEF A
    <2> QED
      BY <1>0, <1>1, NatSetInduction
  <1>3. Cardinality(S) \in Nat
    BY FS_CardinalityType
  <1>4. QED
    BY <1>2, <1>3

\* Solutions agree on a set both are defined on and where the records agree.
LEMMA SumsAgree ==
    ASSUME NEW v, NEW w, NEW S, NEW T, T \in SUBSET S, IsFiniteSet(S),
           \A n \in T : v[n].invokes = w[n].invokes,
           NEW f, NEW g,
           SumsUp(v, SUBSET S, f), SumsUp(w, SUBSET T, g)
    PROVE  f[T] = g[T]
  <1> DEFINE A == {n \in Nat : \A s \in SUBSET T : Cardinality(s) = n => f[s] = g[s]}
  <1>a. IsFiniteSet(T)
    BY FS_Subset
  <1>0. 0 \in A
    <2> SUFFICES ASSUME NEW s \in SUBSET T, Cardinality(s) = 0 PROVE f[s] = g[s]
      OBVIOUS
    <2>1. IsFiniteSet(s)
      BY FS_Subset
    <2>2. s = {}
      BY <2>1, FS_EmptySet
    <2>3. QED
      BY <2>2 DEF SumsUp
  <1>1. ASSUME NEW n \in Nat, n \in A PROVE n + 1 \in A
    <2> SUFFICES ASSUME NEW s \in SUBSET T, Cardinality(s) = n + 1 PROVE f[s] = g[s]
      BY <1>1
    <2> DEFINE z == Chosen(s)
    <2>0. s # {} 
      <3> SUFFICES ASSUME s = {} PROVE FALSE
        OBVIOUS
      <3> QED
        BY FS_EmptySet
    <2>1. z \in s /\ f[s] = v[z].invokes + f[s \ {z}] /\ g[s] = w[z].invokes + g[s \ {z}]
      BY <2>0, ChosenIn DEF SumsUp
    <2> HIDE DEF z
    <2>2. s \ {z} \in SUBSET T /\ Cardinality(s \ {z}) = n
      <3>1. z \in s
        BY <2>1
      <3>2. /\ s \ {z} \in SUBSET T
            /\ Cardinality(s \ {z}) = Cardinality(s) - 1
        BY <3>1, <1>a, Shrink
      <3>3. QED
        BY <3>2
    <2>3. f[s \ {z}] = g[s \ {z}] /\ v[z].invokes = w[z].invokes
      BY <1>1, <2>1, <2>2
    <2>4. QED
      BY <2>1, <2>3
  <1>2. Nat \subseteq A
    <2> HIDE DEF A
    <2> QED
      BY <1>0, <1>1, NatSetInduction
  <1>3. Cardinality(T) \in Nat
    BY <1>a, FS_CardinalityType
  <1>4. QED
    BY <1>2, <1>3

\* What MapThenSumSet computes.
LEMMA SumUnfold ==
  ASSUME NEW v, NEW S
  PROVE Invokes(v, S) = Iter(v, S)[S]
  BY Zenon DEF MapThenSumSet, MapThenFoldSet, Iter, Chosen, Invokes

\* So the function MapThenSumSet iterates is a solution.
LEMMA IterSumsUp ==
    ASSUME NEW v, NEW S, IsFiniteSet(S), \A n \in S : v[n].invokes \in Nat
    PROVE  SumsUp(v, SUBSET S, Iter(v, S)) /\ Iter(v, S) \in [SUBSET S -> Nat]
  <1> DEFINE E(g) == [s \in SUBSET S |->
                        IF s = {} THEN 0 ELSE v[Chosen(s)].invokes + g[s \ {Chosen(s)}]]
  <1>1. PICK f \in [SUBSET S -> Nat] : SumsUp(v, SUBSET S, f)
    BY SumsExist
  <1>2. f = E(f)
    <2>1. f = [s \in SUBSET S |-> f[s]]
      OBVIOUS
    <2>2. \A s \in SUBSET S : f[s] = IF s = {} THEN 0 ELSE v[Chosen(s)].invokes + f[s \ {Chosen(s)}]
       BY <1>1 DEF SumsUp
    <2>3. QED
      BY <2>1, <2>2
  <1>3. Iter(v, S) = E(Iter(v, S))
    <2> HIDE DEF E
    <2>1. \E g : g = E(g)
      BY <1>2
    <2>2. Iter(v, S) = CHOOSE g : g = E(g)
      BY Zenon DEF Iter, E
    <2>3. QED
      BY <2>1, <2>2, Zenon
  <1> DEFINE h == Iter(v, S)
  <1>4. h = E(h)
    BY <1>3
  <1> HIDE DEF h
  <1>5. SumsUp(v, SUBSET S, h)
    BY <1>4 DEF SumsUp
  <1>6. \A s \in SUBSET S : h[s] = f[s]
    <2> TAKE s \in SUBSET S
    <2>1. SUBSET s \subseteq SUBSET S
      OBVIOUS
    <2>2. SumsUp(v, SUBSET s, f)
      BY <1>1, <2>1 DEF SumsUp
    <2>3. QED
      BY <1>5, <2>2, SumsAgree
  <1>7. h \in [SUBSET S -> Nat] 
    <2>1. \A s \in SUBSET S : h[s] \in Nat
      BY <1>6
    <2> QED
      BY <2>1, <1>4
  <1>8. QED
    BY <1>5, <1>7 DEF h

\* The sum depends only on the records of the set.
LEMMA InvokesSame ==
    ASSUME NEW v, NEW w, NEW S, IsFiniteSet(S),
           \A n \in S : v[n].invokes = w[n].invokes /\ v[n].invokes \in Nat
    PROVE  Invokes(v, S) = Invokes(w, S)
  <1>1. SumsUp(v, SUBSET S, Iter(v, S))
    BY IterSumsUp
  <1>2. SumsUp(w, SUBSET S, Iter(w, S))
    BY IterSumsUp
  <1>3. Iter(v, S)[S] = Iter(w, S)[S]
    BY <1>1, <1>2, SumsAgree
  <1>4. QED
    BY <1>3, SumUnfold

\* Nothing sums up to 0.
LEMMA InvokesEmpty == ASSUME NEW v PROVE Invokes(v, {}) = 0
  <1>1. IsFiniteSet({})
    BY FS_EmptySet
  <1>2. SumsUp(v, SUBSET {}, Iter(v, {}))
    BY <1>1, IterSumsUp
  <1>3. QED
    BY <1>2, SumUnfold DEF SumsUp

\* One record more adds its invokes.
LEMMA InvokesAdd ==
    ASSUME NEW v, NEW S, IsFiniteSet(S), NEW x, x \notin S,
           \A n \in S \cup {x} : v[n].invokes \in Nat
    PROVE  Invokes(v, S \cup {x}) = Invokes(v, S) + v[x].invokes /\ Invokes(v, S) \in Nat
  <1> DEFINE U == S \cup {x}
             f == Iter(v, U)
             g == Iter(v, S)
  <1>1. IsFiniteSet(U)
    BY FS_AddElement
  <1>2. SumsUp(v, SUBSET U, f) /\ f \in [SUBSET U -> Nat]
    BY <1>1, IterSumsUp
  <1>3. SumsUp(v, SUBSET S, g) /\ g \in [SUBSET S -> Nat]
    BY IterSumsUp
  <1>4. Invokes(v, U) = f[U] /\ Invokes(v, S) = g[S]
    BY SumUnfold
  <1>5. U \ {x} = S /\ S \in SUBSET U /\ x \in U
    OBVIOUS
  <1>6. \A n \in U : v[n].invokes \in Nat
    OBVIOUS
  <1> HIDE DEF U, f, g
  <1>7. f[U] = v[x].invokes + f[S]
    BY <1>1, <1>2, <1>5, <1>6, AnyFirst
  <1>8. f[S] = g[S]
    BY <1>1, <1>2, <1>3, <1>5, SumsAgree
  <1>9. g[S] \in Nat /\ v[x].invokes \in Nat
    BY <1>3, <1>5, <1>6
  <1>10. QED
    BY <1>4, <1>7, <1>8, <1>9 DEF U
=============================================================================
