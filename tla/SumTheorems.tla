---------------------------- MODULE SumTheorems -----------------------------
(***************************************************************************)
(* Sums over finite sets, which the models write with MapThenSumSet.  What *)
(* the fold computes is fixed by its recursion, and two sums are compared  *)
(* by a smallest set on which they would differ.  What is shared out in    *)
(* rounded parts adds up: quotients.                                       *)
(***************************************************************************)
EXTENDS Integers, FiniteSets, FiniteSetsExt, FiniteSetTheorems, WellFoundedInduction, TLAPS

\* The sum of a function over a set.
SumOver(f, S) == MapThenSumSet(LAMBDA x : f[x], S)

\* The element the fold takes next, and the recursion it follows.
FirstOf(s) == CHOOSE x \in s : TRUE
\* A table of the sums of a function over the subsets of a set.
IsSumming(f, S, g) ==
    g = [s \in SUBSET S |-> IF s = {} THEN 0 ELSE f[FirstOf(s)] + g[s \ {FirstOf(s)}]]

-----------------------------------------------------------------------------
(* The recursion has one solution.                                         *)

\* A family of subsets of a finite set has a smallest one.
LEMMA Smallest ==
    ASSUME NEW S, IsFiniteSet(S), NEW T, T \subseteq SUBSET S, T # {}
    PROVE  \E s \in T : \A t \in T : t \subseteq s => t = s
<1>1. IsWellFoundedOn(StrictSubsetOrdering(S), SUBSET S)
    BY FS_StrictSubsetOrderingWellFounded, FS_FiniteSubsetsOfFinite
<1>2. \E s \in T : \A t \in T : ~(<<t, s>> \in StrictSubsetOrdering(S))
    BY <1>1, WFMin, Zenon
<1>3. QED
    BY <1>2 DEF StrictSubsetOrdering

\* The fold takes an element of the set.
LEMMA FirstOfIn == ASSUME NEW s, s # {} PROVE FirstOf(s) \in s
BY DEF FirstOf

\* The recursion on a set and on a subset of it agree.
LEMMA SummingAgree ==
    ASSUME NEW S, IsFiniteSet(S), NEW T, T \subseteq S, NEW f, NEW g, NEW h,
           IsSumming(f, S, g), IsSumming(f, T, h)
    PROVE  \A s \in SUBSET T : g[s] = h[s]
<1> DEFINE W == {s \in SUBSET T : g[s] # h[s]}
<1> SUFFICES ASSUME W # {} PROVE FALSE
    OBVIOUS
<1>1. IsFiniteSet(T)
    BY FS_Subset
<1>2. PICK s \in W : \A t \in W : t \subseteq s => t = s
    <2>1. W \subseteq SUBSET T
        OBVIOUS
    <2> HIDE DEF W
    <2> QED
        BY <1>1, <2>1, Smallest
<1>3. s \in SUBSET T /\ s \in SUBSET S
    OBVIOUS
<1>4. CASE s = {}
    <2>1. g[s] = 0 /\ h[s] = 0
        BY <1>3, <1>4 DEF IsSumming
    <2> QED
        BY <2>1
<1>5. CASE s # {}
    <2> DEFINE c == FirstOf(s)
    <2>1. c \in s
        BY <1>5, FirstOfIn
    <2>2. g[s] = f[c] + g[s \ {c}]
        BY <1>3, <1>5, Zenon DEF IsSumming
    <2>3. h[s] = f[c] + h[s \ {c}]
        BY <1>3, <1>5, Zenon DEF IsSumming
    <2>4. g[s \ {c}] = h[s \ {c}]
        BY <1>2, <1>3, <2>1
    <2> QED
        BY <2>2, <2>3, <2>4
<1> QED
    BY <1>4, <1>5

\* There is a solution on every finite set.
LEMMA SummingExists ==
    ASSUME NEW S, IsFiniteSet(S), NEW f
    PROVE  \E g : IsSumming(f, S, g)
<1> DEFINE W == {s \in SUBSET S : ~ \E g : IsSumming(f, s, g)}
<1> SUFFICES ASSUME W # {} PROVE FALSE
    OBVIOUS
<1>1. PICK s \in W : \A t \in W : t \subseteq s => t = s
    <2>1. W \subseteq SUBSET S
        OBVIOUS
    <2> HIDE DEF W
    <2> QED
        BY <2>1, Smallest
<1>2. IsFiniteSet(s)
    BY FS_Subset
<1> DEFINE G(t) == CHOOSE g : IsSumming(f, t, g)
<1>3. \A t \in SUBSET s : t # s => IsSumming(f, t, G(t))
    <2> TAKE t \in SUBSET s
    <2> HAVE t # s
    <2>1. t \in SUBSET S /\ t \notin W
        BY <1>1
    <2>2. \E g : IsSumming(f, t, g)
        BY <2>1
    <2> QED
        BY <2>2, Zenon
<1> DEFINE step(t) == IF t = {} THEN 0 ELSE f[FirstOf(t)] + G(t \ {FirstOf(t)})[t \ {FirstOf(t)}]
           g == [t \in SUBSET s |-> step(t)]
<1>4. \A t \in SUBSET s : t # s => g[t] = G(t)[t]
    <2> TAKE t \in SUBSET s
    <2> HAVE t # s
    <2>1. IsSumming(f, t, G(t))
        BY <1>3, Zenon
    <2>2. CASE t = {}
        <3>1. G(t)[t] = 0
            <4> HIDE DEF G
            <4> QED BY <2>1, <2>2 DEF IsSumming
        <3>2. g[t] = 0
            <4> HIDE DEF G
            <4> QED BY <2>2
        <3> QED
            BY <3>1, <3>2
    <2>3. CASE t # {}
        <3> DEFINE u == t \ {FirstOf(t)}
        <3>1. FirstOf(t) \in t /\ u \subseteq t /\ u # t /\ u \in SUBSET s /\ u # s
            BY <2>3, FirstOfIn
        <3>2. IsSumming(f, u, G(u))
            <4> HIDE DEF G, u
            <4> QED BY <1>3, <3>1, Zenon
        <3>3. G(t)[u] = G(u)[u]
            <4>1. IsFiniteSet(t)
                BY <1>2, FS_Subset
            <4> HIDE DEF G, u
            <4> QED BY <4>1, <3>1, <3>2, <2>1, SummingAgree
        <3>4. G(t)[t] = f[FirstOf(t)] + G(t)[u]
            <4> HIDE DEF G
            <4> QED BY <2>1, <2>3 DEF IsSumming
        <3>5. g[t] = f[FirstOf(t)] + G(u)[u]
            <4> HIDE DEF G
            <4> QED BY <2>3
        <3> QED
            BY <3>3, <3>4, <3>5
    <2> QED
        BY <2>2, <2>3
<1>5. \A t \in SUBSET s : g[t] = IF t = {} THEN 0 ELSE f[FirstOf(t)] + g[t \ {FirstOf(t)}]
    <2> TAKE t \in SUBSET s
    <2>1. CASE t = {}
        <3> HIDE DEF G
        <3> QED BY <2>1
    <2>2. CASE t # {}
        <3> DEFINE u == t \ {FirstOf(t)}
        <3>1. u \in SUBSET s /\ u # s
            BY <2>2, FirstOfIn
        <3>2. g[u] = G(u)[u]
            <4> HIDE DEF G, g, u
            <4> QED BY <1>4, <3>1
        <3>3. g[t] = f[FirstOf(t)] + G(u)[u]
            <4> HIDE DEF G
            <4> QED BY <2>2
        <3> QED
            BY <2>2, <3>2, <3>3
    <2> QED
        BY <2>1, <2>2
<1>6. IsSumming(f, s, g)
    <2>1. g = [t \in SUBSET s |-> g[t]]
        <3> HIDE DEF step
        <3> QED OBVIOUS
    <2>2. g = [t \in SUBSET s |-> IF t = {} THEN 0 ELSE f[FirstOf(t)] + g[t \ {FirstOf(t)}]]
        <3> HIDE DEF g
        <3> QED BY <2>1, <1>5
    <2> HIDE DEF g
    <2> QED BY <2>2 DEF IsSumming
<1> QED
    BY <1>6

\* The fold is the solution.
LEMMA SumOverIs ==
    ASSUME NEW f, NEW S
    PROVE  SumOver(f, S) = (CHOOSE g : IsSumming(f, S, g))[S]
BY DEF SumOver, MapThenSumSet, MapThenFoldSet, IsSumming, FirstOf

-----------------------------------------------------------------------------
(* What a sum is.                                                          *)

\* Nothing adds up to nothing.
LEMMA SumOfEmpty == ASSUME NEW f PROVE SumOver(f, {}) = 0
<1>1. \E g : IsSumming(f, {}, g)
    BY SummingExists, FS_EmptySet
<1> DEFINE g == CHOOSE g : IsSumming(f, {}, g)
<1>2. IsSumming(f, {}, g)
    BY <1>1, Zenon
<1>3. g[{}] = 0
    <2> HIDE DEF g
    <2> QED BY <1>2 DEF IsSumming
<1> QED
    BY <1>3, SumOverIs

\* One step of the fold.
LEMMA SumOfFirst ==
    ASSUME NEW S, IsFiniteSet(S), S # {}, NEW f
    PROVE  SumOver(f, S) = f[FirstOf(S)] + SumOver(f, S \ {FirstOf(S)})
<1> DEFINE T == S \ {FirstOf(S)}
           g == CHOOSE x : IsSumming(f, S, x)
           h == CHOOSE x : IsSumming(f, T, x)
<1>0. T \subseteq S /\ IsFiniteSet(T)
    BY FS_Subset
<1>1. IsSumming(f, S, g)
    BY SummingExists, Zenon
<1>2. IsSumming(f, T, h)
    <2> HIDE DEF T
    <2> QED BY <1>0, SummingExists, Zenon
<1>3. g[T] = h[T]
    <2> HIDE DEF g, h, T
    <2> QED BY <1>0, <1>1, <1>2, SummingAgree
<1>4. g[S] = f[FirstOf(S)] + g[T]
    <2> HIDE DEF g
    <2> QED BY <1>1 DEF IsSumming
<1>5. SumOver(f, S) = g[S] /\ SumOver(f, T) = h[T]
    BY SumOverIs, Zenon
<1> QED
    BY <1>3, <1>4, <1>5, Zenon

\* A sum of integers is an integer.
LEMMA SumIsInt ==
    ASSUME NEW S, IsFiniteSet(S), NEW f, \A x \in S : f[x] \in Int
    PROVE  SumOver(f, S) \in Int
<1> DEFINE W == {s \in SUBSET S : SumOver(f, s) \notin Int}
<1> SUFFICES ASSUME W # {} PROVE FALSE
    OBVIOUS
<1>1. PICK s \in W : \A t \in W : t \subseteq s => t = s
    <2>1. W \subseteq SUBSET S
        OBVIOUS
    <2> HIDE DEF W
    <2> QED BY <2>1, Smallest
<1>2. s # {}
    <2>1. SumOver(f, s) \notin Int
        BY <1>1
    <2>2. SumOver(f, {}) \in Int
        BY SumOfEmpty
    <2> QED BY <2>1, <2>2, Zenon
<1>3. FirstOf(s) \in s /\ IsFiniteSet(s)
    BY <1>2, FirstOfIn, FS_Subset
<1>4. SumOver(f, s) = f[FirstOf(s)] + SumOver(f, s \ {FirstOf(s)})
    BY <1>2, <1>3, SumOfFirst
<1>5. SumOver(f, s \ {FirstOf(s)}) \in Int
    BY <1>1, <1>3
<1> QED
    BY <1>1, <1>3, <1>4, <1>5

\* A sum of naturals is a natural.
LEMMA SumIsNat ==
    ASSUME NEW S, IsFiniteSet(S), NEW f, \A x \in S : f[x] \in Nat
    PROVE  SumOver(f, S) \in Nat
<1> DEFINE W == {s \in SUBSET S : SumOver(f, s) \notin Nat}
<1> SUFFICES ASSUME W # {} PROVE FALSE
    OBVIOUS
<1>1. PICK s \in W : \A t \in W : t \subseteq s => t = s
    <2>1. W \subseteq SUBSET S
        OBVIOUS
    <2> HIDE DEF W
    <2> QED BY <2>1, Smallest
<1>2. s # {}
    <2>1. SumOver(f, s) \notin Nat
        BY <1>1
    <2>2. SumOver(f, {}) \in Nat
        BY SumOfEmpty
    <2> QED BY <2>1, <2>2, Zenon
<1>3. FirstOf(s) \in s /\ IsFiniteSet(s)
    BY <1>2, FirstOfIn, FS_Subset
<1>4. SumOver(f, s) = f[FirstOf(s)] + SumOver(f, s \ {FirstOf(s)})
    BY <1>2, <1>3, SumOfFirst
<1>5. SumOver(f, s \ {FirstOf(s)}) \in Nat
    BY <1>1, <1>3
<1> QED
    BY <1>1, <1>3, <1>4, <1>5

\* Whichever element the fold takes first, the sum is the same.
LEMMA SumWithout ==
    ASSUME NEW S, IsFiniteSet(S), NEW f, \A x \in S : f[x] \in Int, NEW x \in S
    PROVE  SumOver(f, S) = f[x] + SumOver(f, S \ {x})
<1> DEFINE W == {s \in SUBSET S : \E y \in s : SumOver(f, s) # f[y] + SumOver(f, s \ {y})}
<1> SUFFICES ASSUME W # {} PROVE FALSE
    OBVIOUS
<1>1. PICK s \in W : \A t \in W : t \subseteq s => t = s
    <2>1. W \subseteq SUBSET S
        OBVIOUS
    <2> HIDE DEF W
    <2> QED BY <2>1, Smallest
<1>2. PICK y \in s : SumOver(f, s) # f[y] + SumOver(f, s \ {y})
    BY <1>1
<1> DEFINE c == FirstOf(s)
<1>3. c \in s /\ IsFiniteSet(s)
    BY <1>2, FirstOfIn, FS_Subset
<1>4. SumOver(f, s) = f[c] + SumOver(f, s \ {c})
    BY <1>2, <1>3, SumOfFirst
<1>5. c # y
    BY <1>2, <1>4
<1>6. SumOver(f, s \ {c}) = f[y] + SumOver(f, (s \ {c}) \ {y})
    <2>1. s \ {c} \in SUBSET S /\ s \ {c} \notin W
        BY <1>1, <1>3
    <2> QED BY <2>1, <1>5, <1>2
<1>7. SumOver(f, s \ {y}) = f[c] + SumOver(f, (s \ {y}) \ {c})
    <2>1. s \ {y} \in SUBSET S /\ s \ {y} \notin W
        BY <1>1, <1>3
    <2> QED BY <2>1, <1>5, <1>3
<1>8. (s \ {y}) \ {c} = (s \ {c}) \ {y}
    OBVIOUS
<1>9. SumOver(f, (s \ {c}) \ {y}) \in Int
    <2>1. IsFiniteSet((s \ {c}) \ {y}) /\ \A z \in (s \ {c}) \ {y} : f[z] \in Int
        BY <1>3, FS_Subset
    <2> QED BY <2>1, SumIsInt
<1>10. f[c] \in Int /\ f[y] \in Int
    BY <1>3
<1>11. SumOver(f, s) # f[y] + SumOver(f, s \ {y})
    BY <1>2
<1> QED
    <2> DEFINE fc == f[c]
               fy == f[y]
               rest == SumOver(f, (s \ {c}) \ {y})
               whole == SumOver(f, s)
               withoutC == SumOver(f, s \ {c})
               withoutY == SumOver(f, s \ {y})
    <2>1. fc \in Int /\ fy \in Int /\ rest \in Int
        BY <1>9, <1>10
    <2>2. whole = fc + withoutC /\ withoutC = fy + rest /\ withoutY = fc + rest /\ whole # fy + withoutY
        BY <1>4, <1>6, <1>7, <1>8, <1>11
    <2> HIDE DEF fc, fy, rest, whole, withoutC, withoutY
    <2> QED BY <2>1, <2>2

\* Functions that agree on a set have one sum there.
LEMMA SumsAgree ==
    ASSUME NEW S, IsFiniteSet(S), NEW f, NEW g, \A x \in S : f[x] = g[x]
    PROVE  SumOver(f, S) = SumOver(g, S)
<1> DEFINE W == {s \in SUBSET S : SumOver(f, s) # SumOver(g, s)}
<1> SUFFICES ASSUME W # {} PROVE FALSE
    OBVIOUS
<1>1. PICK s \in W : \A t \in W : t \subseteq s => t = s
    <2>1. W \subseteq SUBSET S
        OBVIOUS
    <2> HIDE DEF W
    <2> QED BY <2>1, Smallest
<1>2. s # {}
    BY <1>1, SumOfEmpty
<1>3. FirstOf(s) \in s /\ IsFiniteSet(s)
    BY <1>2, FirstOfIn, FS_Subset
<1>4. SumOver(f, s) = f[FirstOf(s)] + SumOver(f, s \ {FirstOf(s)})
    BY <1>2, <1>3, SumOfFirst
<1>5. SumOver(g, s) = g[FirstOf(s)] + SumOver(g, s \ {FirstOf(s)})
    BY <1>2, <1>3, SumOfFirst
<1>6. SumOver(f, s \ {FirstOf(s)}) = SumOver(g, s \ {FirstOf(s)})
    BY <1>1, <1>3
<1>7. f[FirstOf(s)] = g[FirstOf(s)]
    BY <1>3
<1> QED
    BY <1>1, <1>4, <1>5, <1>6, <1>7, Zenon

\* An element that joins the set is added.
LEMMA SumWith ==
    ASSUME NEW S, IsFiniteSet(S), NEW x, x \notin S, NEW f, f[x] \in Int, \A y \in S : f[y] \in Int
    PROVE  SumOver(f, S \cup {x}) = f[x] + SumOver(f, S)
<1> DEFINE T == S \cup {x}
<1>1. IsFiniteSet(T) /\ x \in T /\ T \ {x} = S /\ \A y \in T : f[y] \in Int
    BY FS_AddElement
<1> HIDE DEF T
<1>2. SumOver(f, T) = f[x] + SumOver(f, T \ {x})
    BY <1>1, SumWithout
<1> QED
    BY <1>1, <1>2 DEF T

\* When one element changes, the sum changes by as much.
LEMMA SumUpdated ==
    ASSUME NEW S, IsFiniteSet(S), NEW x \in S, NEW f, NEW g, \A y \in S : f[y] \in Int,
           g[x] \in Int, \A y \in S : y # x => g[y] = f[y]
    PROVE  SumOver(g, S) = SumOver(f, S) - f[x] + g[x]
<1> DEFINE T == S \ {x}
           rest == SumOver(f, T)
<1>1. IsFiniteSet(T) /\ \A y \in T : f[y] = g[y] /\ f[y] \in Int
    BY FS_Subset
<1>2. \A y \in S : g[y] \in Int
    OBVIOUS
<1>3. SumOver(f, S) = f[x] + SumOver(f, T)
    BY SumWithout
<1>4. SumOver(g, S) = g[x] + SumOver(g, T)
    BY <1>2, SumWithout
<1>5. SumOver(g, T) = rest /\ rest \in Int
    <2> HIDE DEF T
    <2> QED BY <1>1, SumsAgree, SumIsInt
<1>6. f[x] \in Int
    OBVIOUS
<1> HIDE DEF T, rest
<1>7. SumOver(f, S) = f[x] + rest /\ SumOver(g, S) = g[x] + rest
    BY <1>3, <1>4, <1>5 DEF rest
<1> QED
    BY <1>5, <1>6, <1>7

\* A part of a sum of naturals is no more than the whole.
LEMMA SumOfPart ==
    ASSUME NEW S, IsFiniteSet(S), NEW T, T \subseteq S, NEW f, \A x \in S : f[x] \in Nat
    PROVE  SumOver(f, T) <= SumOver(f, S)
<1> DEFINE W == {s \in SUBSET S : T \subseteq s /\ ~(SumOver(f, T) <= SumOver(f, s))}
<1> SUFFICES ASSUME W # {} PROVE FALSE
    OBVIOUS
<1>1. PICK s \in W : \A t \in W : t \subseteq s => t = s
    <2>1. W \subseteq SUBSET S
        OBVIOUS
    <2> HIDE DEF W
    <2> QED BY <2>1, Smallest
<1>2. /\ T \subseteq s /\ s \subseteq S /\ ~(SumOver(f, T) <= SumOver(f, s))
      /\ IsFiniteSet(s) /\ IsFiniteSet(T)
    BY <1>1, FS_Subset
<1>3. SumOver(f, T) \in Nat
    BY <1>2, SumIsNat
<1>4. PICK x \in s : x \notin T
    BY <1>2, <1>3
<1>5. s \ {x} \in SUBSET S /\ s \ {x} \notin W /\ T \subseteq s \ {x}
    BY <1>1, <1>2, <1>4
<1>6. SumOver(f, T) <= SumOver(f, s \ {x})
    BY <1>5
<1>7. SumOver(f, s) = f[x] + SumOver(f, s \ {x})
    BY <1>2, SumWithout
<1>8. f[x] \in Nat /\ SumOver(f, s \ {x}) \in Nat
    <2>1. IsFiniteSet(s \ {x}) /\ \A y \in s \ {x} : f[y] \in Nat
        BY <1>2, FS_Subset
    <2> QED BY <1>2, <2>1, SumIsNat
<1> HIDE DEF W
<1> QED
    BY <1>2, <1>3, <1>6, <1>7, <1>8

\* A sum of naturals counts each one that is not zero.
LEMMA SumCounts ==
    ASSUME NEW S, IsFiniteSet(S), NEW T, T \subseteq S, NEW f, \A x \in S : f[x] \in Nat,
           \A x \in T : f[x] > 0
    PROVE  Cardinality(T) <= SumOver(f, S)
<1> DEFINE W == {s \in SUBSET T : ~(Cardinality(s) <= SumOver(f, s))}
<1>1. IsFiniteSet(T) /\ \A x \in T : f[x] \in Nat /\ f[x] \in Int
    BY FS_Subset
<1>2. W = {}
    <2> SUFFICES ASSUME W # {} PROVE FALSE
        OBVIOUS
    <2>1. W \subseteq SUBSET T
        OBVIOUS
    <2>2. PICK s \in W : \A t \in W : t \subseteq s => t = s
        <3> HIDE DEF W
        <3> QED BY <1>1, <2>1, Smallest
    <2>3. s \subseteq T /\ ~(Cardinality(s) <= SumOver(f, s))
        OBVIOUS
    <2>4. IsFiniteSet(s)
        BY <1>1, <2>3, FS_Subset
    <2>5. s # {}
        BY <2>3, SumOfEmpty, FS_EmptySet
    <2>6. PICK x \in s : TRUE
        BY <2>5
    <2>7. s \ {x} \notin W
        BY <2>2, <2>6
    <2>8. Cardinality(s \ {x}) <= SumOver(f, s \ {x})
        BY <2>3, <2>7
    <2>9. IsFiniteSet(s \ {x}) /\ Cardinality(s \ {x}) = Cardinality(s) - 1 /\ Cardinality(s) \in Nat
        BY <2>4, <2>6, FS_RemoveElement, FS_CardinalityType
    <2>10. SumOver(f, s) = f[x] + SumOver(f, s \ {x})
        BY <1>1, <2>3, <2>4, <2>6, SumWithout
    <2>11. SumOver(f, s \ {x}) \in Nat
        BY <1>1, <2>3, <2>9, SumIsNat
    <2>12. f[x] \in Nat /\ f[x] > 0
        BY <1>1, <2>3, <2>6
    <2> QED BY <2>3, <2>8, <2>9, <2>10, <2>11, <2>12
<1>3. Cardinality(T) <= SumOver(f, T)
    BY <1>2
<1>4. SumOver(f, T) <= SumOver(f, S)
    BY SumOfPart
<1>5. Cardinality(T) \in Nat /\ SumOver(f, T) \in Nat /\ SumOver(f, S) \in Nat
    BY <1>1, SumIsNat, FS_CardinalityType
<1> QED
    BY <1>3, <1>4, <1>5

\* A sum of zeros.
LEMMA SumOfZeros ==
    ASSUME NEW S, IsFiniteSet(S)
    PROVE  SumOver([x \in S |-> 0], S) = 0
<1> DEFINE f == [x \in S |-> 0]
           W == {s \in SUBSET S : SumOver(f, s) # 0}
<1> SUFFICES ASSUME W # {} PROVE FALSE
    OBVIOUS
<1>1. PICK s \in W : \A t \in W : t \subseteq s => t = s
    <2>1. W \subseteq SUBSET S
        OBVIOUS
    <2> HIDE DEF W
    <2> QED BY <2>1, Smallest
<1>2. s \subseteq S /\ SumOver(f, s) # 0 /\ IsFiniteSet(s)
    BY <1>1, FS_Subset
<1>3. s # {}
    BY <1>2, SumOfEmpty
<1>4. FirstOf(s) \in s
    BY <1>3, FirstOfIn
<1>5. SumOver(f, s) = f[FirstOf(s)] + SumOver(f, s \ {FirstOf(s)})
    BY <1>2, <1>3, SumOfFirst
<1>6. SumOver(f, s \ {FirstOf(s)}) = 0
    BY <1>1, <1>2, <1>4
<1>7. f[FirstOf(s)] = 0
    BY <1>2, <1>4
<1> HIDE DEF W, f
<1> QED
    BY <1>2, <1>5, <1>6, <1>7

\* The sum of a column of a table, as the fold computes it.
ColumnSum(f, r, S) ==
    (CHOOSE g : g = [s \in SUBSET S |-> IF s = {} THEN 0
                                        ELSE f[FirstOf(s)][r] + g[s \ {FirstOf(s)}]])[S]

\* A sum that reads a column of a table is the sum of a function.
LEMMA SumOfColumn ==
    ASSUME NEW D, NEW S, S \subseteq D, NEW f, NEW r
    PROVE  ColumnSum(f, r, S) = SumOver([d \in D |-> f[d][r]], S)
<1> DEFINE column == [d \in D |-> f[d][r]]
           Reads(g) == g = [s \in SUBSET S |-> IF s = {} THEN 0
                                               ELSE f[FirstOf(s)][r] + g[s \ {FirstOf(s)}]]
           Sums(g)  == g = [s \in SUBSET S |-> IF s = {} THEN 0
                                               ELSE column[FirstOf(s)] + g[s \ {FirstOf(s)}]]
<1>1. ColumnSum(f, r, S) = (CHOOSE g : Reads(g))[S]
    BY DEF ColumnSum
<1>2. SumOver(column, S) = (CHOOSE g : Sums(g))[S]
    BY DEF SumOver, MapThenSumSet, MapThenFoldSet, FirstOf
<1>3. ASSUME NEW g PROVE Reads(g) <=> Sums(g)
    <2>1. \A s \in SUBSET S : s # {} => FirstOf(s) \in D
        BY FirstOfIn
    <2>2. \A s \in SUBSET S : s # {} => column[FirstOf(s)] = f[FirstOf(s)][r]
        BY <2>1
    <2>3. [s \in SUBSET S |-> IF s = {} THEN 0 ELSE f[FirstOf(s)][r] + g[s \ {FirstOf(s)}]]
          = [s \in SUBSET S |-> IF s = {} THEN 0 ELSE column[FirstOf(s)] + g[s \ {FirstOf(s)}]]
        <3> HIDE DEF column
        <3> QED BY <2>2, Zenon
    <2> QED
        BY <2>3, Zenon
<1>4. (CHOOSE g : Reads(g)) = (CHOOSE g : Sums(g))
    <2> HIDE DEF Reads, Sums
    <2> QED BY <1>3, Zenon
<1> QED
    BY <1>1, <1>2, <1>4, Zenon

-----------------------------------------------------------------------------
(* Order.                                                                  *)

\* A sum of smaller numbers is no larger.
LEMMA SumsOrdered ==
    ASSUME NEW S, IsFiniteSet(S), NEW f, NEW g,
           \A x \in S : f[x] \in Int /\ g[x] \in Int /\ f[x] <= g[x]
    PROVE  SumOver(f, S) <= SumOver(g, S)
<1> DEFINE W == {s \in SUBSET S : ~(SumOver(f, s) <= SumOver(g, s))}
<1> SUFFICES ASSUME W # {} PROVE FALSE
    OBVIOUS
<1>1. PICK s \in W : \A t \in W : t \subseteq s => t = s
    <2>1. W \subseteq SUBSET S
        OBVIOUS
    <2> HIDE DEF W
    <2> QED BY <2>1, Smallest
<1>2. s # {}
    <2>1. ~(SumOver(f, s) <= SumOver(g, s))
        BY <1>1
    <2>2. SumOver(f, {}) = 0 /\ SumOver(g, {}) = 0
        BY SumOfEmpty
    <2> QED BY <2>1, <2>2
<1>3. FirstOf(s) \in s /\ IsFiniteSet(s)
    BY <1>2, FirstOfIn, FS_Subset
<1> DEFINE c == FirstOf(s)
           T == s \ {c}
<1>4. SumOver(f, s) = f[c] + SumOver(f, T) /\ SumOver(g, s) = g[c] + SumOver(g, T)
    BY <1>2, <1>3, SumOfFirst
<1>5. SumOver(f, T) <= SumOver(g, T)
    BY <1>1, <1>3
<1>6. SumOver(f, T) \in Int /\ SumOver(g, T) \in Int
    <2>1. IsFiniteSet(T) /\ \A x \in T : f[x] \in Int /\ g[x] \in Int
        BY <1>3, FS_Subset
    <2> HIDE DEF T
    <2> QED BY <2>1, SumIsInt
<1>7. f[c] \in Int /\ g[c] \in Int /\ f[c] <= g[c] /\ ~(SumOver(f, s) <= SumOver(g, s))
    BY <1>1, <1>3
<1> HIDE DEF W, c, T
<1> QED
    BY <1>4, <1>5, <1>6, <1>7

\* The larger of two.
LEMMA MaxOfTwo ==
    ASSUME NEW a \in Int, NEW b \in Int
    PROVE  Max({a, b}) = IF a >= b THEN a ELSE b
<1> DEFINE m == IF a >= b THEN a ELSE b
<1>1. m \in {a, b} /\ \A y \in {a, b} : m >= y
    OBVIOUS
<1>2. \A x \in {a, b} : (\A y \in {a, b} : x >= y) => x = m
    OBVIOUS
<1> HIDE DEF m
<1>3. Max({a, b}) = m
    BY <1>1, <1>2 DEF Max
<1> QED
    BY <1>3 DEF m

\* A finite set of integers has a largest member.
LEMMA MaxOfFinite ==
    ASSUME NEW S, IsFiniteSet(S), S # {}, \A x \in S : x \in Int
    PROVE  Max(S) \in S /\ \A x \in S : Max(S) >= x
<1> DEFINE W == {s \in SUBSET S : s # {} /\ \A m \in s : \E x \in s : ~(m >= x)}
<1>1. SUFFICES ASSUME W # {} PROVE FALSE
    <2>1. S \notin W
        BY <1>1
    <2>2. \E m \in S : \A x \in S : m >= x
        BY <2>1
    <2> QED BY <2>2 DEF Max
<1>2. PICK s \in W : \A t \in W : t \subseteq s => t = s
    <2>1. W \subseteq SUBSET S
        OBVIOUS
    <2> HIDE DEF W
    <2> QED BY <1>1, <2>1, Smallest
<1>3. PICK x \in s : TRUE
    BY <1>2
<1>4. (\A z \in s : z \in Int) /\ s \ {x} \notin W /\ s \ {x} \in SUBSET S /\ \A m \in s : \E y \in s : ~(m >= y)
    BY <1>2, <1>3
<1>5. CASE s \ {x} = {}
    <2>1. s = {x} /\ x \in Int
        BY <1>3, <1>4, <1>5
    <2> QED BY <1>4, <2>1
<1>6. CASE s \ {x} # {}
    <2>1. PICK m \in s \ {x} : \A y \in s \ {x} : m >= y
        BY <1>4, <1>6
    <2>2. m \in Int /\ x \in Int /\ \A y \in s : y \in Int
        BY <1>3, <1>4, <2>1
    <2>3. CASE m >= x
        <3>1. \A y \in s : m >= y
            BY <2>1, <2>3
        <3> QED BY <1>4, <2>1, <3>1
    <2>4. CASE ~(m >= x)
        <3>1. \A y \in s : x >= y
            BY <2>1, <2>2, <2>4
        <3> QED BY <1>3, <1>4, <3>1
    <2> QED
        BY <2>3, <2>4
<1> QED
    BY <1>5, <1>6

\* What adds nothing can be left out of a sum.
LEMMA SumOfRest ==
    ASSUME NEW S, IsFiniteSet(S), NEW T, T \subseteq S, NEW f, \A x \in S : f[x] \in Int,
           \A x \in S : x \notin T => f[x] = 0
    PROVE  SumOver(f, S) = SumOver(f, T)
<1> DEFINE W == {s \in SUBSET S : T \subseteq s /\ SumOver(f, s) # SumOver(f, T)}
<1>1. SUFFICES ASSUME W # {} PROVE FALSE
    OBVIOUS
<1>2. PICK s \in W : \A t \in W : t \subseteq s => t = s
    <2>1. W \subseteq SUBSET S
        OBVIOUS
    <2> HIDE DEF W
    <2> QED BY <1>1, <2>1, Smallest
<1>3. s # T /\ T \subseteq s /\ s \subseteq S /\ SumOver(f, s) # SumOver(f, T)
    BY <1>2
<1>4. PICK x \in s : x \notin T
    BY <1>3
<1>5. s \ {x} \notin W /\ T \subseteq s \ {x} /\ s \ {x} \subseteq S
    BY <1>2, <1>3, <1>4
<1>6. SumOver(f, s \ {x}) = SumOver(f, T)
    BY <1>5
<1>7. IsFiniteSet(s) /\ IsFiniteSet(s \ {x}) /\ f[x] = 0 /\ \A y \in s : f[y] \in Int
    <2>1. IsFiniteSet(s) /\ IsFiniteSet(s \ {x})
        BY <1>3, <1>5, FS_Subset
    <2> QED BY <1>3, <1>4, <2>1
<1>8. SumOver(f, s) = f[x] + SumOver(f, s \ {x})
    BY <1>7, SumWithout
<1>9. SumOver(f, s \ {x}) \in Int
    <2>1. \A y \in s \ {x} : f[y] \in Int
        BY <1>7
    <2> QED BY <1>7, <2>1, SumIsInt
<1> QED
    BY <1>3, <1>6, <1>7, <1>8, <1>9

-----------------------------------------------------------------------------
(* Quotients.                                                              *)

\* What a division leaves is less than the divisor.
LEMMA DivisionIs ==
    ASSUME NEW n \in Int, NEW d \in Nat \ {0}
    PROVE  n \div d \in Int /\ d * (n \div d) <= n /\ n < d * (n \div d) + d
OBVIOUS

\* A quotient is at least what fits.
LEMMA DivisionAtLeast ==
    ASSUME NEW n \in Int, NEW d \in Nat \ {0}, NEW q \in Int, d * q <= n
    PROVE  q <= n \div d
OBVIOUS

\* A quotient is at most what almost fits.
LEMMA DivisionAtMost ==
    ASSUME NEW n \in Int, NEW d \in Nat \ {0}, NEW q \in Int, n < d * q + d
    PROVE  n \div d <= q
OBVIOUS
=============================================================================
