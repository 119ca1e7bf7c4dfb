------------------------------ MODULE SumProofs -------------------------------
(***************************************************************************)
(* What SumFunctionOnSet of the community module Functions adds up.  The   *)
(* models use it for what the code sums over rows of a table: the cash of  *)
(* open bands, the cost of open lots, the budgets of the bots of a wallet. *)
(*                                                                         *)
(* The sum is a recursive function over the subsets of the index set.      *)
(* That the function exists and that the order of its choices does not     *)
(* matter follows by induction over strict subsets, done here as the       *)
(* search for a smallest counterexample: a set of subsets, so that the     *)
(* library's theorems on well-founded orders apply as they stand.          *)
(***************************************************************************)
EXTENDS Integers, FiniteSets, Functions, FiniteSetTheorems, TLAPS

\* A nonempty set of subsets of a finite set has a smallest member.
LEMMA SmallestSubset ==
    ASSUME NEW S, IsFiniteSet(S), NEW T, T \subseteq SUBSET S, T # {}
    PROVE  \E t \in T : \A u \in T : ~ (u \subseteq t /\ u # t)
  <1>1. IsWellFoundedOn(StrictSubsetOrdering(S), SUBSET S)
    BY FS_StrictSubsetOrderingWellFounded, FS_FiniteSubsetsOfFinite
  <1>2. PICK t \in T : \A u \in T : ~ (<<u, t>> \in StrictSubsetOrdering(S))
    BY <1>1, WFMin
  <1> QED
    BY <1>2 DEF StrictSubsetOrdering

-----------------------------------------------------------------------------
(* The recursive function behind a sum.                                    *)

FirstOf(s) == CHOOSE x \in s : TRUE
RestOf(s) == s \ {FirstOf(s)}

\* The function g adds up f over every subset of S.
Adds(g, f, S) == g = [s \in SUBSET S |-> IF s = {} THEN 0 ELSE f[FirstOf(s)] + g[RestOf(s)]]
Adder(f, S) == CHOOSE g : Adds(g, f, S)

\* The choice is a member.
LEMMA FirstIsIn == ASSUME NEW s, s # {} PROVE FirstOf(s) \in s
  BY DEF FirstOf

\* The sum is the value of that function at the whole set.
LEMMA SumIsChosen ==
    ASSUME NEW f, NEW S
    PROVE  SumFunctionOnSet(f, S) = Adder(f, S)[S]
  BY DEF SumFunctionOnSet, FoldFunctionOnSet, MapThenFoldSet, Adder, Adds, FirstOf, RestOf

\* The value of such a function at one subset.
LEMMA AddsAt ==
    ASSUME NEW f, NEW S, NEW g, Adds(g, f, S), NEW s, s \subseteq S
    PROVE  g[s] = IF s = {} THEN 0 ELSE f[FirstOf(s)] + g[RestOf(s)]
  BY DEF Adds

\* Two such functions agree where both are defined.
LEMMA AddsAgree ==
    ASSUME NEW f, NEW S, IsFiniteSet(S), NEW U, NEW W, S \subseteq U, S \subseteq W,
           NEW g, Adds(g, f, U), NEW h, Adds(h, f, W)
    PROVE  g[S] = h[S]
  <1> DEFINE T == {s \in SUBSET S : g[s] # h[s]}
  <1>1. SUFFICES ASSUME T # {} PROVE FALSE
    OBVIOUS
  <1>2. T \subseteq SUBSET S
    OBVIOUS
  <1>p. PICK t \in T : \A u \in T : ~ (u \subseteq t /\ u # t)
    <2> HIDE DEF T
    <2> QED
      BY <1>1, <1>2, SmallestSubset
  <1>3. t \subseteq S /\ t \subseteq U /\ t \subseteq W
    OBVIOUS
  <1>4. t # {}
    BY <1>3, AddsAt
  <1>5. RestOf(t) \subseteq t /\ RestOf(t) # t
    BY <1>4, FirstIsIn DEF RestOf
  <1>6. g[RestOf(t)] = h[RestOf(t)]
    BY <1>p, <1>3, <1>5
  <1>7. g[t] = h[t]
    BY <1>3, <1>6, AddsAt
  <1> QED
    BY <1>7

\* Such a function exists over every finite set.
LEMMA AddsExists ==
    ASSUME NEW f, NEW S, IsFiniteSet(S)
    PROVE  \E g : Adds(g, f, S)
  <1> DEFINE T == {s \in SUBSET S : ~ \E g : Adds(g, f, s)}
  <1>1. SUFFICES ASSUME T # {} PROVE FALSE
    OBVIOUS
  <1>2. T \subseteq SUBSET S
    OBVIOUS
  <1>p. PICK t \in T : \A u \in T : ~ (u \subseteq t /\ u # t)
    <2> HIDE DEF T
    <2> QED
      BY <1>1, <1>2, SmallestSubset
  <1> DEFINE G(u) == CHOOSE g : Adds(g, f, u)
             h == [s \in SUBSET t |-> IF s = {} THEN 0 ELSE f[FirstOf(s)] + G(RestOf(s))[RestOf(s)]]
  <1>3. ASSUME NEW u, u \subseteq t, u # t
        PROVE  IsFiniteSet(u) /\ Adds(G(u), f, u)
    <2>1. \E g : Adds(g, f, u)
      BY <1>p, <1>3
    <2>2. IsFiniteSet(u)
      BY <1>3, FS_Subset
    <2> QED
      BY <2>1, <2>2
  <1>4. ASSUME NEW s, s \subseteq t, s # {}
        PROVE  h[RestOf(s)] = G(RestOf(s))[RestOf(s)]
    <2> DEFINE r == RestOf(s)
    <2>1. r \subseteq t /\ r # t
      BY <1>4, FirstIsIn DEF RestOf
    <2>2. Adds(G(r), f, r)
      BY <2>1, <1>3
    <2>3. CASE r = {}
      <3>1. G(r)[r] = 0
        BY <2>2, <2>3, AddsAt
      <3> QED
        BY <3>1, <2>1, <2>3
    <2>4. CASE r # {}
      <3> DEFINE q == RestOf(r)
      <3>1. q \subseteq r /\ q # t
        BY <2>1, <2>4, FirstIsIn DEF RestOf
      <3>2. IsFiniteSet(q) /\ Adds(G(q), f, q)
        BY <3>1, <2>1, <1>3
      <3>3. G(r)[q] = G(q)[q]
        <4> HIDE DEF G, q, r
        <4> QED
          BY <3>1, <3>2, <2>2, AddsAgree
      <3>4. G(r)[r] = f[FirstOf(r)] + G(r)[q]
        BY <2>2, <2>4, AddsAt
      <3>5. h[r] = f[FirstOf(r)] + G(q)[q]
        BY <2>1, <2>4
      <3> QED
        BY <3>3, <3>4, <3>5
    <2> QED
      BY <2>3, <2>4
  <1>5. ASSUME NEW s, s \subseteq t
        PROVE  h[s] = IF s = {} THEN 0 ELSE f[FirstOf(s)] + h[RestOf(s)]
    <2>1. CASE s = {}
      BY <1>5, <2>1
    <2>2. CASE s # {}
      <3>1. h[s] = f[FirstOf(s)] + G(RestOf(s))[RestOf(s)]
        BY <1>5, <2>2
      <3>2. h[RestOf(s)] = G(RestOf(s))[RestOf(s)]
        BY <2>2, <1>4, <1>5
      <3> HIDE DEF h, G
      <3> QED
        BY <3>1, <3>2, <2>2
    <2> QED
      BY <2>1, <2>2
  <1>6. h = [s \in SUBSET t |-> IF s = {} THEN 0 ELSE f[FirstOf(s)] + h[RestOf(s)]]
    <2>1. h = [s \in SUBSET t |-> h[s]]
      OBVIOUS
    <2> HIDE DEF h
    <2> QED
      BY <2>1, <1>5
  <1> QED
    BY <1>6 DEF Adds

\* The chosen function is such a function.
LEMMA AdderAdds ==
    ASSUME NEW f, NEW S, IsFiniteSet(S)
    PROVE  Adds(Adder(f, S), f, S)
  BY AddsExists DEF Adder

\* The function behind a sum holds the sums over all smaller sets.
LEMMA AdderSums ==
    ASSUME NEW f, NEW S, IsFiniteSet(S), NEW s, s \subseteq S
    PROVE  Adder(f, S)[s] = SumFunctionOnSet(f, s)
  <1>1. IsFiniteSet(s)
    BY FS_Subset
  <1> DEFINE g == Adder(f, S)
             h == Adder(f, s)
  <1>2. Adds(g, f, S) /\ Adds(h, f, s)
    BY <1>1, AdderAdds
  <1>3. g[s] = h[s]
    <2> HIDE DEF g, h
    <2>1. \A U, W : s \subseteq U /\ s \subseteq W /\ Adds(g, f, U) /\ Adds(h, f, W) => g[s] = h[s]
      BY <1>1, AddsAgree
    <2> QED
      BY <1>2, <2>1
  <1> QED
    BY <1>3, SumIsChosen

-----------------------------------------------------------------------------
(* Sums of integers.                                                       *)

\* The empty sum.
LEMMA SumOfNone == ASSUME NEW f PROVE SumFunctionOnSet(f, {}) = 0
  <1>1. Adds(Adder(f, {}), f, {})
    BY AdderAdds, FS_EmptySet
  <1> QED
    BY <1>1, AddsAt, SumIsChosen

\* A sum, unfolded once.
LEMMA SumOfFirst ==
    ASSUME NEW f, NEW S, IsFiniteSet(S), S # {}
    PROVE  SumFunctionOnSet(f, S) = f[FirstOf(S)] + SumFunctionOnSet(f, RestOf(S))
  <1>1. Adder(f, S)[S] = f[FirstOf(S)] + Adder(f, S)[RestOf(S)]
    BY AdderAdds, AddsAt
  <1>2. RestOf(S) \subseteq S
    BY DEF RestOf
  <1> QED
    BY <1>1, <1>2, AdderSums

\* A sum of integers is one.
LEMMA SumIsInt ==
    ASSUME NEW f, NEW S, IsFiniteSet(S), \A x \in S : f[x] \in Int
    PROVE  SumFunctionOnSet(f, S) \in Int
  <1> DEFINE T == {s \in SUBSET S : SumFunctionOnSet(f, s) \notin Int}
  <1>1. SUFFICES ASSUME T # {} PROVE FALSE
    OBVIOUS
  <1>2. T \subseteq SUBSET S
    OBVIOUS
  <1>3. PICK t \in T : \A u \in T : ~ (u \subseteq t /\ u # t)
    <2> HIDE DEF T
    <2> QED
      BY <1>1, <1>2, SmallestSubset
  <1>4. IsFiniteSet(t)
    BY FS_Subset
  <1>5. t # {}
    BY SumOfNone
  <1>6. FirstOf(t) \in t /\ RestOf(t) \subseteq t /\ RestOf(t) # t
    BY <1>5, FirstIsIn DEF RestOf
  <1>7. SumFunctionOnSet(f, RestOf(t)) \in Int
    BY <1>3, <1>6
  <1>8. SumFunctionOnSet(f, t) = f[FirstOf(t)] + SumFunctionOnSet(f, RestOf(t))
    BY <1>4, <1>5, SumOfFirst
  <1> QED
    BY <1>6, <1>7, <1>8

\* Any index may be added last.
LEMMA SumOfOne ==
    ASSUME NEW f, NEW S, IsFiniteSet(S), \A x \in S : f[x] \in Int, NEW x \in S
    PROVE  SumFunctionOnSet(f, S) = f[x] + SumFunctionOnSet(f, S \ {x})
  <1> DEFINE T == {s \in SUBSET S : \E y \in s :
                      SumFunctionOnSet(f, s) # f[y] + SumFunctionOnSet(f, s \ {y})}
  <1>1. SUFFICES ASSUME T # {} PROVE FALSE
    OBVIOUS
  <1>2. T \subseteq SUBSET S
    OBVIOUS
  <1>3. PICK t \in T : \A u \in T : ~ (u \subseteq t /\ u # t)
    <2> HIDE DEF T
    <2> QED
      BY <1>1, <1>2, SmallestSubset
  <1>4. PICK y \in t : SumFunctionOnSet(f, t) # f[y] + SumFunctionOnSet(f, t \ {y})
    OBVIOUS
  <1> DEFINE c == FirstOf(t)
             both == (t \ {y}) \ {c}
  <1>5. c \in t
    BY FirstIsIn
  <1>6. SumFunctionOnSet(f, t) = f[c] + SumFunctionOnSet(f, t \ {c})
    BY SumOfFirst, FS_Subset DEF RestOf
  <1>7. c # y
    BY <1>4, <1>6
  <1>8. SumFunctionOnSet(f, t \ {c}) = f[y] + SumFunctionOnSet(f, both)
    <2>1. t \ {c} \notin T
      BY <1>3, <1>5
    <2>2. (t \ {c}) \ {y} = both
      OBVIOUS
    <2> QED
      BY <2>1, <2>2, <1>7
  <1>9. SumFunctionOnSet(f, t \ {y}) = f[c] + SumFunctionOnSet(f, both)
    <2>1. t \ {y} \notin T
      BY <1>3
    <2> QED
      BY <2>1, <1>5, <1>7
  <1>10. SumFunctionOnSet(f, both) \in Int
    <2>1. both \subseteq S /\ IsFiniteSet(both)
      BY FS_Subset
    <2> HIDE DEF both
    <2> QED
      BY <2>1, SumIsInt
  <1>11. f[c] \in Int /\ f[y] \in Int
    BY <1>5
  <1> HIDE DEF both, c
  <1> QED
    BY <1>4, <1>6, <1>8, <1>9, <1>10, <1>11

\* Functions that agree on the indices have the same sum.
LEMMA SumsAgree ==
    ASSUME NEW f, NEW g, NEW S, IsFiniteSet(S), \A x \in S : f[x] = g[x]
    PROVE  SumFunctionOnSet(f, S) = SumFunctionOnSet(g, S)
  <1> DEFINE T == {s \in SUBSET S : SumFunctionOnSet(f, s) # SumFunctionOnSet(g, s)}
  <1>1. SUFFICES ASSUME T # {} PROVE FALSE
    OBVIOUS
  <1>2. T \subseteq SUBSET S
    OBVIOUS
  <1>3. PICK t \in T : \A u \in T : ~ (u \subseteq t /\ u # t)
    <2> HIDE DEF T
    <2> QED
      BY <1>1, <1>2, SmallestSubset
  <1>4. IsFiniteSet(t)
    BY FS_Subset
  <1>5. t # {}
    BY SumOfNone
  <1>6. FirstOf(t) \in t /\ RestOf(t) \subseteq t /\ RestOf(t) # t
    BY <1>5, FirstIsIn DEF RestOf
  <1>7. SumFunctionOnSet(f, RestOf(t)) = SumFunctionOnSet(g, RestOf(t))
    BY <1>3, <1>6
  <1> QED
    BY <1>4, <1>5, <1>6, <1>7, SumOfFirst

\* A sum changes by what one of its terms changes.
LEMMA SumOfChange ==
    ASSUME NEW f, NEW g, NEW S, IsFiniteSet(S), \A y \in S : f[y] \in Int /\ g[y] \in Int,
           NEW x \in S, \A y \in S \ {x} : f[y] = g[y]
    PROVE  SumFunctionOnSet(g, S) = SumFunctionOnSet(f, S) - f[x] + g[x]
  <1>1. IsFiniteSet(S \ {x})
    BY FS_RemoveElement
  <1>2. SumFunctionOnSet(f, S \ {x}) = SumFunctionOnSet(g, S \ {x})
    BY <1>1, SumsAgree
  <1>3. SumFunctionOnSet(f, S \ {x}) \in Int
    BY <1>1, SumIsInt
  <1>4. /\ SumFunctionOnSet(f, S) = f[x] + SumFunctionOnSet(f, S \ {x})
        /\ SumFunctionOnSet(g, S) = g[x] + SumFunctionOnSet(g, S \ {x})
    BY SumOfOne
  <1> QED
    BY <1>2, <1>3, <1>4

\* Terms that are zero, or indices without a term, add nothing.
LEMMA SumOfZeros ==
    ASSUME NEW f, NEW S, IsFiniteSet(S), \A x \in S : f[x] = 0
    PROVE  SumFunctionOnSet(f, S) = 0
  <1> DEFINE T == {s \in SUBSET S : SumFunctionOnSet(f, s) # 0}
  <1>1. SUFFICES ASSUME T # {} PROVE FALSE
    OBVIOUS
  <1>2. T \subseteq SUBSET S
    OBVIOUS
  <1>3. PICK t \in T : \A u \in T : ~ (u \subseteq t /\ u # t)
    <2> HIDE DEF T
    <2> QED
      BY <1>1, <1>2, SmallestSubset
  <1>4. IsFiniteSet(t)
    BY FS_Subset
  <1>5. t # {}
    BY SumOfNone
  <1>6. FirstOf(t) \in t /\ RestOf(t) \subseteq t /\ RestOf(t) # t
    BY <1>5, FirstIsIn DEF RestOf
  <1>7. SumFunctionOnSet(f, RestOf(t)) = 0
    BY <1>3, <1>6
  <1> QED
    BY <1>4, <1>5, <1>6, <1>7, SumOfFirst

\* What a part of the indices adds up is the sum over all of them in which the
\* others count nothing.
LEMMA SumOfPart ==
    ASSUME NEW f, NEW g, NEW S, IsFiniteSet(S), NEW P, P \subseteq S, \A x \in S : f[x] \in Int,
           \A x \in S : g[x] = IF x \in P THEN f[x] ELSE 0
    PROVE  SumFunctionOnSet(f, P) = SumFunctionOnSet(g, S)
  <1> DEFINE T == {s \in SUBSET S : SumFunctionOnSet(f, s \cap P) # SumFunctionOnSet(g, s)}
  <1>1. SUFFICES ASSUME T # {} PROVE FALSE
    <2>1. S \cap P = P
      OBVIOUS
    <2>2. S \notin T
      BY <1>1
    <2> QED
      BY <2>1, <2>2
  <1>2. T \subseteq SUBSET S
    OBVIOUS
  <1>3. PICK t \in T : \A u \in T : ~ (u \subseteq t /\ u # t)
    <2> HIDE DEF T
    <2> QED
      BY <1>1, <1>2, SmallestSubset
  <1>4. IsFiniteSet(t)
    BY FS_Subset
  <1>5. t # {}
    BY SumOfNone
  <1> DEFINE c == FirstOf(t)
             r == RestOf(t)
  <1>6. c \in t /\ r \subseteq t /\ r # t /\ r = t \ {c}
    BY <1>5, FirstIsIn DEF RestOf
  <1>7. SumFunctionOnSet(f, r \cap P) = SumFunctionOnSet(g, r)
    BY <1>3, <1>6
  <1>8. SumFunctionOnSet(g, t) = g[c] + SumFunctionOnSet(g, r)
    BY <1>4, <1>5, SumOfFirst
  <1>9. SumFunctionOnSet(g, r) \in Int
    <2>1. IsFiniteSet(r) /\ r \subseteq S
      BY <1>6, <1>4, FS_Subset
    <2>2. \A x \in r : g[x] \in Int
      BY <2>1
    <2> HIDE DEF r
    <2> QED
      BY <2>1, <2>2, SumIsInt
  <1>10. CASE c \in P
    <2>1. (t \cap P) \ {c} = r \cap P /\ c \in t \cap P /\ t \cap P \subseteq S
      BY <1>6, <1>10
    <2>2. IsFiniteSet(t \cap P)
      BY <1>4, FS_Subset
    <2>3. SumFunctionOnSet(f, t \cap P) = f[c] + SumFunctionOnSet(f, (t \cap P) \ {c})
      BY <2>1, <2>2, SumOfOne
    <2>4. g[c] = f[c]
      BY <1>6, <1>10
    <2> QED
      BY <1>7, <1>8, <2>1, <2>3, <2>4
  <1>11. CASE c \notin P
    <2>1. t \cap P = r \cap P
      BY <1>6, <1>11
    <2>2. g[c] = 0
      BY <1>6, <1>11
    <2> HIDE DEF c, r
    <2>3. SumFunctionOnSet(g, t) = SumFunctionOnSet(g, r)
      BY <1>8, <1>9, <2>2
    <2> QED
      BY <1>7, <2>1, <2>3
  <1> QED
    BY <1>10, <1>11

\* Adding term by term is adding the sums.
LEMMA SumOfBoth ==
    ASSUME NEW f, NEW g, NEW h, NEW S, IsFiniteSet(S), \A x \in S : f[x] \in Int /\ g[x] \in Int,
           \A x \in S : h[x] = f[x] + g[x]
    PROVE  SumFunctionOnSet(h, S) = SumFunctionOnSet(f, S) + SumFunctionOnSet(g, S)
  <1> DEFINE T == {s \in SUBSET S :
                      SumFunctionOnSet(h, s) # SumFunctionOnSet(f, s) + SumFunctionOnSet(g, s)}
  <1>1. SUFFICES ASSUME T # {} PROVE FALSE
    OBVIOUS
  <1>2. T \subseteq SUBSET S
    OBVIOUS
  <1>3. PICK t \in T : \A u \in T : ~ (u \subseteq t /\ u # t)
    <2> HIDE DEF T
    <2> QED
      BY <1>1, <1>2, SmallestSubset
  <1>4. IsFiniteSet(t)
    BY FS_Subset
  <1>5. t # {}
    <2>1. SumFunctionOnSet(h, t) # SumFunctionOnSet(f, t) + SumFunctionOnSet(g, t)
      OBVIOUS
    <2>2. /\ SumFunctionOnSet(f, {}) = 0 /\ SumFunctionOnSet(g, {}) = 0
          /\ SumFunctionOnSet(h, {}) = 0
      BY SumOfNone
    <2>3. 0 + 0 = 0
      OBVIOUS
    <2> HIDE DEF T
    <2> QED
      BY <2>1, <2>2, <2>3, Zenon
  <1> DEFINE c == FirstOf(t)
             r == RestOf(t)
  <1>6. c \in t /\ r \subseteq t /\ r # t
    BY <1>5, FirstIsIn DEF RestOf
  <1>7. SumFunctionOnSet(h, r) = SumFunctionOnSet(f, r) + SumFunctionOnSet(g, r)
    BY <1>3, <1>6
  <1>8. /\ SumFunctionOnSet(f, t) = f[c] + SumFunctionOnSet(f, r)
        /\ SumFunctionOnSet(g, t) = g[c] + SumFunctionOnSet(g, r)
        /\ SumFunctionOnSet(h, t) = h[c] + SumFunctionOnSet(h, r)
    BY <1>4, <1>5, SumOfFirst
  <1>9. SumFunctionOnSet(f, r) \in Int /\ SumFunctionOnSet(g, r) \in Int
    <2>1. IsFiniteSet(r) /\ r \subseteq S
      BY <1>6, <1>4, FS_Subset
    <2> HIDE DEF r
    <2> QED
      BY <2>1, SumIsInt
  <1>10. f[c] \in Int /\ g[c] \in Int /\ h[c] = f[c] + g[c]
    BY <1>6
  <1>11. SumFunctionOnSet(h, t) # SumFunctionOnSet(f, t) + SumFunctionOnSet(g, t)
    OBVIOUS
  <1> HIDE DEF c, r
  <1> QED
    BY <1>7, <1>8, <1>9, <1>10, <1>11

\* Terms that are no greater have a sum that is no greater.
LEMMA SumsOrdered ==
    ASSUME NEW f, NEW g, NEW S, IsFiniteSet(S), \A x \in S : f[x] \in Int /\ g[x] \in Int /\ f[x] <= g[x]
    PROVE  SumFunctionOnSet(f, S) <= SumFunctionOnSet(g, S)
  <1> DEFINE T == {s \in SUBSET S : ~ (SumFunctionOnSet(f, s) <= SumFunctionOnSet(g, s))}
  <1>1. SUFFICES ASSUME T # {} PROVE FALSE
    OBVIOUS
  <1>2. T \subseteq SUBSET S
    OBVIOUS
  <1>3. PICK t \in T : \A u \in T : ~ (u \subseteq t /\ u # t)
    <2> HIDE DEF T
    <2> QED
      BY <1>1, <1>2, SmallestSubset
  <1>4. IsFiniteSet(t)
    BY FS_Subset
  <1>5. t # {}
    BY SumOfNone
  <1> DEFINE c == FirstOf(t)
             r == RestOf(t)
  <1>6. c \in t /\ r \subseteq t /\ r # t
    BY <1>5, FirstIsIn DEF RestOf
  <1>7. SumFunctionOnSet(f, r) <= SumFunctionOnSet(g, r)
    BY <1>3, <1>6
  <1>8. /\ SumFunctionOnSet(f, t) = f[c] + SumFunctionOnSet(f, r)
        /\ SumFunctionOnSet(g, t) = g[c] + SumFunctionOnSet(g, r)
    BY <1>4, <1>5, SumOfFirst
  <1>9. SumFunctionOnSet(f, r) \in Int /\ SumFunctionOnSet(g, r) \in Int
    <2>1. IsFiniteSet(r) /\ r \subseteq S
      BY <1>6, <1>4, FS_Subset
    <2> HIDE DEF r
    <2> QED
      BY <2>1, SumIsInt
  <1>10. f[c] \in Int /\ g[c] \in Int /\ f[c] <= g[c]
    BY <1>6
  <1>11. ~ (SumFunctionOnSet(f, t) <= SumFunctionOnSet(g, t))
    OBVIOUS
  <1> HIDE DEF c, r
  <1> QED
    BY <1>7, <1>8, <1>9, <1>10, <1>11

\* With one term that is not zero, the sum is that term.
LEMMA SumOfOnly ==
    ASSUME NEW f, NEW S, IsFiniteSet(S), \A z \in S : f[z] \in Int, NEW x \in S,
           \A z \in S \ {x} : f[z] = 0
    PROVE  SumFunctionOnSet(f, S) = f[x]
  <1>1. IsFiniteSet(S \ {x})
    BY FS_RemoveElement
  <1>2. SumFunctionOnSet(f, S \ {x}) = 0
    BY <1>1, SumOfZeros
  <1>3. SumFunctionOnSet(f, S) = f[x] + SumFunctionOnSet(f, S \ {x})
    BY SumOfOne
  <1> QED
    BY <1>2, <1>3

\* With two terms that are not zero, it is these two.
LEMMA SumOfTwo ==
    ASSUME NEW f, NEW S, IsFiniteSet(S), \A z \in S : f[z] \in Int, NEW x \in S, NEW y \in S \ {x},
           \A z \in S \ {x, y} : f[z] = 0
    PROVE  SumFunctionOnSet(f, S) = f[x] + f[y]
  <1>1. IsFiniteSet(S \ {x}) /\ \A z \in (S \ {x}) \ {y} : f[z] = 0
    BY FS_RemoveElement
  <1>2. SumFunctionOnSet(f, S \ {x}) = f[y]
    BY <1>1, SumOfOnly
  <1>3. SumFunctionOnSet(f, S) = f[x] + SumFunctionOnSet(f, S \ {x})
    BY SumOfOne
  <1> QED
    BY <1>2, <1>3

\* A set of cardinality two has two members.
LEMMA TwoMembers ==
    ASSUME NEW S, IsFiniteSet(S), Cardinality(S) = 2
    PROVE  \E x, y : x # y /\ S = {x, y}
  <1>1. S # {}
    BY FS_EmptySet
  <1>2. PICK x \in S : TRUE
    BY <1>1
  <1>3. IsFiniteSet(S \ {x}) /\ Cardinality(S \ {x}) = 1
    BY FS_RemoveElement
  <1>4. PICK y : S \ {x} = {y}
    BY <1>3, FS_Singleton
  <1> QED
    BY <1>2, <1>4
=============================================================================
