-------------------------------- MODULE Sums --------------------------------
(***************************************************************************)
(* Facts about SumFunctionOnSet of the community modules, for every        *)
(* function with integer values on a finite set: the ledgers' budgets are  *)
(* such sums.                                                              *)
(*                                                                         *)
(* The operator walks the set in an order that CHOOSE fixes.  That the     *)
(* walk exists, that it is the same whichever set it is part of, and that  *)
(* its order does not matter, is shown by induction over the finite        *)
(* subsets: a set of counterexamples would have a minimal element.         *)
(***************************************************************************)
EXTENDS FiniteSetsExt, Integers, FiniteSetTheorems, WellFoundedInduction, TLAPS

(* A non-empty set of subsets of a finite set has a minimal element.       *)
LEMMA MinimalSubset ==
    ASSUME NEW S, IsFiniteSet(S), NEW T, T \subseteq SUBSET S, T # {}
    PROVE  \E s \in T : \A t \in T : t \subseteq s => t = s
<1>1. IsWellFoundedOn(StrictSubsetOrdering(S), SUBSET S)
  BY FS_StrictSubsetOrderingWellFounded, FS_FiniteSubsetsOfFinite
<1>2. PICK s \in T : \A t \in T : ~ (<<t, s>> \in StrictSubsetOrdering(S))
  BY <1>1, WFMin
<1>3. ASSUME NEW t \in T, t \subseteq s, t # s
      PROVE  FALSE
  <2>1. <<t, s>> \in (SUBSET S) \X (SUBSET S)
    BY <1>3
  <2>2. <<t, s>> \in StrictSubsetOrdering(S)
    BY <1>3, <2>1 DEF StrictSubsetOrdering
  <2> QED BY <1>2, <1>3, <2>2
<1> QED BY <1>3

-----------------------------------------------------------------------------
(***************************************************************************)
(* The walk of a sum through its set.                                      *)
(***************************************************************************)
First(s) == CHOOSE x \in s : TRUE

(* g maps every subset of S to the sum of f over it.                       *)
Walks(f, S, g) ==
    g = [s \in SUBSET S |->
            IF s = {} THEN 0 ELSE f[First(s)] + g[s \ {First(s)}]]

LEMMA SumIsWalk ==
    ASSUME NEW f, NEW S
    PROVE  SumFunctionOnSet(f, S) = (CHOOSE g : Walks(f, S, g))[S]
  BY DEF SumFunctionOnSet, FoldFunctionOnSet, MapThenFoldSet, Walks, First

LEMMA FirstIsMember == ASSUME NEW s, s # {} PROVE First(s) \in s
  BY DEF First

LEMMA WalkStep ==
    ASSUME NEW f, NEW S, NEW g, Walks(f, S, g), NEW s \in SUBSET S
    PROVE  g[s] = IF s = {} THEN 0 ELSE f[First(s)] + g[s \ {First(s)}]
  BY DEF Walks

(* Two walks agree on the subsets they share.                              *)
LEMMA WalksAgree ==
    ASSUME NEW f, NEW S, NEW T, NEW g, NEW h, Walks(f, S, g), Walks(f, T, h),
           NEW A, IsFiniteSet(A), A \subseteq S, A \subseteq T
    PROVE  g[A] = h[A]
<1> DEFINE Bad == {s \in SUBSET A : g[s] # h[s]}
<1>1. SUFFICES ASSUME Bad # {} PROVE FALSE
  OBVIOUS
<1>2. PICK s \in Bad : \A t \in Bad : t \subseteq s => t = s
  <2>1. Bad \subseteq SUBSET A
    OBVIOUS
  <2> HIDE DEF Bad
  <2> QED BY <1>1, <2>1, MinimalSubset
<1>3. s \in SUBSET S /\ s \in SUBSET T
  OBVIOUS
<1>4. s # {}
  BY <1>3, WalkStep
<1>5. First(s) \in s
  BY <1>4, FirstIsMember
<1>6. g[s \ {First(s)}] = h[s \ {First(s)}]
  <2>1. s \ {First(s)} \notin Bad
    BY <1>2, <1>5
  <2> QED BY <2>1
<1>7. g[s] = h[s]
  <2>1. g[s] = f[First(s)] + g[s \ {First(s)}]
    BY <1>3, <1>4, WalkStep
  <2>2. h[s] = f[First(s)] + h[s \ {First(s)}]
    BY <1>3, <1>4, WalkStep
  <2> QED BY <1>6, <2>1, <2>2
<1> QED BY <1>7

(* Every finite set has a walk.                                            *)
LEMMA WalkExists ==
    ASSUME NEW f, NEW S, IsFiniteSet(S)
    PROVE  \E g : Walks(f, S, g)
<1> DEFINE Bad == {s \in SUBSET S : ~ \E g : Walks(f, s, g)}
<1>1. SUFFICES ASSUME Bad # {} PROVE FALSE
  OBVIOUS
<1>2. PICK A \in Bad : \A t \in Bad : t \subseteq A => t = A
  <2>1. Bad \subseteq SUBSET S
    OBVIOUS
  <2> HIDE DEF Bad
  <2> QED BY <1>1, <2>1, MinimalSubset
<1> DEFINE w(t) == CHOOSE g : Walks(f, t, g)
           h == [s \in SUBSET A |->
                    IF s = {} THEN 0
                    ELSE f[First(s)] + w(s \ {First(s)})[s \ {First(s)}]]
<1>3. ASSUME NEW t \in SUBSET A, t # A
      PROVE  Walks(f, t, w(t))
  <2>1. t \notin Bad
    BY <1>2, <1>3
  <2>2. \E g : Walks(f, t, g)
    BY <2>1
  <2> QED BY <2>2
<1>4. ASSUME NEW t \in SUBSET A, t # A
      PROVE  h[t] = w(t)[t]
  <2> HIDE DEF w
  <2>1. Walks(f, t, w(t)) /\ IsFiniteSet(A)
    BY <1>3, <1>4, FS_Subset
  <2>2. CASE t = {}
    <3>1. w(t)[t] = 0
      BY <2>1, <2>2, WalkStep
    <3> QED BY <2>2, <3>1
  <2>3. CASE t # {}
    <3> DEFINE r == t \ {First(t)}
    <3>1. First(t) \in t /\ r \in SUBSET A /\ r # A /\ r \subseteq t
      BY <2>3, FirstIsMember
    <3>2. w(t)[t] = f[First(t)] + w(t)[r]
      BY <2>1, <2>3, WalkStep
    <3>3. w(t)[r] = w(r)[r]
      <4>1. Walks(f, r, w(r)) /\ IsFiniteSet(r)
        BY <1>3, <2>1, <3>1, FS_Subset
      <4> HIDE DEF r
      <4> QED BY <2>1, <3>1, <4>1, WalksAgree
    <3>4. h[t] = f[First(t)] + w(r)[r]
      BY <2>3
    <3> QED BY <3>2, <3>3, <3>4
  <2> QED BY <2>2, <2>3
<1>5. Walks(f, A, h)
  <2> HIDE DEF w
  <2>1. ASSUME NEW s \in SUBSET A, s # {}
        PROVE  h[s \ {First(s)}] = w(s \ {First(s)})[s \ {First(s)}]
    <3>1. First(s) \in s
      BY <2>1, FirstIsMember
    <3> QED BY <1>4, <3>1
  <2>2. \A s \in SUBSET A :
            h[s] = IF s = {} THEN 0 ELSE f[First(s)] + h[s \ {First(s)}]
    BY <2>1
  <2>3. h = [s \in SUBSET A |-> h[s]]
    OBVIOUS
  <2> HIDE DEF h
  <2> QED BY <2>2, <2>3 DEF Walks
<1> QED BY <1>2, <1>5

-----------------------------------------------------------------------------
(***************************************************************************)
(* What the walk computes.                                                 *)
(***************************************************************************)
LEMMA SumOfEmpty == ASSUME NEW f PROVE SumFunctionOnSet(f, {}) = 0
<1>1. PICK g : Walks(f, {}, g)
  BY WalkExists, FS_EmptySet
<1>2. Walks(f, {}, CHOOSE d : Walks(f, {}, d))
  BY <1>1
<1> QED BY <1>2, SumIsWalk, WalkStep

(* A sum is its first term and the sum of the rest.                        *)
LEMMA SumOfFirst ==
    ASSUME NEW f, NEW S, IsFiniteSet(S), S # {}
    PROVE  SumFunctionOnSet(f, S) =
               f[First(S)] + SumFunctionOnSet(f, S \ {First(S)})
<1> DEFINE g == CHOOSE d : Walks(f, S, d)
           R == S \ {First(S)}
           h == CHOOSE d : Walks(f, R, d)
<1>1. Walks(f, S, g)
  BY WalkExists
<1>2. IsFiniteSet(R) /\ R \subseteq S
  BY FS_Subset
<1>3. Walks(f, R, h)
  <2>1. \E d : Walks(f, R, d)
    <3> HIDE DEF R
    <3> QED BY <1>2, WalkExists
  <2> QED BY <2>1
<1>4. g[R] = h[R]
  <2> HIDE DEF g, h, R
  <2> QED BY <1>1, <1>2, <1>3, WalksAgree
<1>5. g[S] = f[First(S)] + g[R]
  <2> HIDE DEF g
  <2> QED BY <1>1, WalkStep
<1>6. SumFunctionOnSet(f, S) = g[S] /\ SumFunctionOnSet(f, R) = h[R]
  BY SumIsWalk
<1> QED BY <1>4, <1>5, <1>6

(* The sum of integers is an integer, and any term may be taken out first. *)
LEMMA SumOfAny ==
    ASSUME NEW f, NEW S, IsFiniteSet(S), \A x \in S : f[x] \in Int
    PROVE  /\ SumFunctionOnSet(f, S) \in Int
           /\ \A x \in S : SumFunctionOnSet(f, S) =
                               f[x] + SumFunctionOnSet(f, S \ {x})
<1> DEFINE sum(s) == SumFunctionOnSet(f, s)
           Good(s) == sum(s) \in Int /\ \A x \in s : sum(s) = f[x] + sum(s \ {x})
           Bad == {s \in SUBSET S : ~ Good(s)}
<1>1. SUFFICES ASSUME Bad # {} PROVE FALSE
  OBVIOUS
<1>2. PICK s \in Bad : \A t \in Bad : t \subseteq s => t = s
  <2>1. Bad \subseteq SUBSET S
    OBVIOUS
  <2> HIDE DEF Bad
  <2> QED BY <1>1, <2>1, MinimalSubset
<1>3. \A t \in SUBSET s : t # s => Good(t)
  BY <1>2
<1>4. s \subseteq S /\ IsFiniteSet(s)
  BY FS_Subset
<1>5. s # {}
  <2>1. SumFunctionOnSet(f, {}) = 0
    BY SumOfEmpty
  <2>2. Good({})
    BY <2>1
  <2> QED BY <1>2, <2>2
<1> DEFINE c == First(s)
<1>6. c \in s /\ f[c] \in Int
  BY <1>5, FirstIsMember
<1>7. sum(s) = f[c] + sum(s \ {c})
  BY <1>4, <1>5, SumOfFirst
<1> HIDE DEF c
<1>8. Good(s \ {c})
  BY <1>3, <1>6
<1>9. sum(s) \in Int
  BY <1>6, <1>7, <1>8
<1>10. ASSUME NEW x \in s, x # c
       PROVE  sum(s) = f[x] + sum(s \ {x})
  <2> DEFINE r == (s \ {c}) \ {x}
  <2>1. f[x] \in Int
    BY <1>4
  <2>2. sum(s \ {c}) = f[x] + sum(r)
    BY <1>8, <1>10
  <2>3. Good(s \ {x}) /\ Good(r)
    BY <1>3, <1>6
  <2>4. r = (s \ {x}) \ {c} /\ c \in s \ {x}
    BY <1>6, <1>10
  <2>5. sum(s \ {x}) = f[c] + sum(r)
    BY <2>3, <2>4
  <2>6. sum(r) \in Int
    BY <2>3
  <2> HIDE DEF sum
  <2> QED BY <1>6, <1>7, <2>1, <2>2, <2>5, <2>6
<1>11. Good(s)
  BY <1>7, <1>9, <1>10
<1> QED BY <1>11

LEMMA SumIsInt ==
    ASSUME NEW f, NEW S, IsFiniteSet(S), \A x \in S : f[x] \in Int
    PROVE  SumFunctionOnSet(f, S) \in Int
  BY SumOfAny

(* A smaller function has a smaller sum.                                   *)
LEMMA SumMonotonic ==
    ASSUME NEW f, NEW g, NEW S, IsFiniteSet(S),
           \A x \in S : f[x] \in Int /\ g[x] \in Int /\ f[x] <= g[x]
    PROVE  SumFunctionOnSet(f, S) <= SumFunctionOnSet(g, S)
<1> DEFINE F(s) == SumFunctionOnSet(f, s)
           G(s) == SumFunctionOnSet(g, s)
           Bad == {s \in SUBSET S : ~ (F(s) <= G(s))}
<1>1. SUFFICES ASSUME Bad # {} PROVE FALSE
  OBVIOUS
<1>2. PICK s \in Bad : \A t \in Bad : t \subseteq s => t = s
  <2>1. Bad \subseteq SUBSET S
    OBVIOUS
  <2> HIDE DEF Bad
  <2> QED BY <1>1, <2>1, MinimalSubset
<1>3. s \subseteq S /\ IsFiniteSet(s)
  BY FS_Subset
<1>4. PICK c : c \in s
  BY SumOfEmpty
<1>5. F(s) = f[c] + F(s \ {c}) /\ G(s) = g[c] + G(s \ {c})
  BY <1>3, <1>4, SumOfAny
<1>6. F(s \ {c}) \in Int /\ G(s \ {c}) \in Int
  <2>1. IsFiniteSet(s \ {c})
    BY <1>3, FS_Subset
  <2> QED BY <1>3, <2>1, SumOfAny
<1>7. F(s \ {c}) <= G(s \ {c})
  BY <1>2, <1>4
<1>8. f[c] \in Int /\ g[c] \in Int /\ f[c] <= g[c]
  BY <1>3, <1>4
<1>9. F(s) <= G(s)
  <2> HIDE DEF F, G
  <2> QED BY <1>5, <1>6, <1>7, <1>8
<1> QED BY <1>9

(* Equal functions have equal sums.                                        *)
LEMMA SumOfSame ==
    ASSUME NEW f, NEW g, NEW S, IsFiniteSet(S),
           \A x \in S : f[x] \in Int /\ g[x] = f[x]
    PROVE  SumFunctionOnSet(f, S) = SumFunctionOnSet(g, S)
<1>1. SumFunctionOnSet(f, S) <= SumFunctionOnSet(g, S)
  BY SumMonotonic
<1>2. SumFunctionOnSet(g, S) <= SumFunctionOnSet(f, S)
  BY SumMonotonic
<1>3. SumFunctionOnSet(f, S) \in Int /\ SumFunctionOnSet(g, S) \in Int
  BY SumIsInt
<1> QED BY <1>1, <1>2, <1>3

(* Raising one term by d raises the sum by d.                              *)
LEMMA SumOfChange ==
    ASSUME NEW f, NEW g, NEW S, IsFiniteSet(S), NEW c \in S,
           \A x \in S : f[x] \in Int /\ g[x] \in Int,
           \A x \in S \ {c} : g[x] = f[x]
    PROVE  SumFunctionOnSet(g, S) = SumFunctionOnSet(f, S) + (g[c] - f[c])
<1>1. IsFiniteSet(S \ {c})
  BY FS_Subset
<1>2. SumFunctionOnSet(f, S \ {c}) = SumFunctionOnSet(g, S \ {c})
  BY <1>1, SumOfSame
<1>3. /\ SumFunctionOnSet(f, S) = f[c] + SumFunctionOnSet(f, S \ {c})
      /\ SumFunctionOnSet(g, S) = g[c] + SumFunctionOnSet(g, S \ {c})
  BY SumOfAny
<1>4. SumFunctionOnSet(f, S \ {c}) \in Int
  BY <1>1, SumIsInt
<1> QED BY <1>2, <1>3, <1>4

(* The sum of nothing but zeros is zero.                                   *)
LEMMA SumOfZeros ==
    ASSUME NEW f, NEW S, IsFiniteSet(S), \A x \in S : f[x] = 0
    PROVE  SumFunctionOnSet(f, S) = 0
<1> DEFINE Bad == {s \in SUBSET S : SumFunctionOnSet(f, s) # 0}
<1>1. SUFFICES ASSUME Bad # {} PROVE FALSE
  OBVIOUS
<1>2. PICK s \in Bad : \A t \in Bad : t \subseteq s => t = s
  <2>1. Bad \subseteq SUBSET S
    OBVIOUS
  <2> HIDE DEF Bad
  <2> QED BY <1>1, <2>1, MinimalSubset
<1>3. s \subseteq S /\ IsFiniteSet(s)
  BY FS_Subset
<1>4. PICK c : c \in s
  BY SumOfEmpty
<1>5. SumFunctionOnSet(f, s) = f[c] + SumFunctionOnSet(f, s \ {c})
  BY <1>3, <1>4, SumOfAny
<1>6. SumFunctionOnSet(f, s \ {c}) = 0 /\ f[c] = 0
  BY <1>2, <1>3, <1>4
<1> QED BY <1>5, <1>6

(* The sum of two functions is the sum of their sums.                      *)
LEMMA SumOfSum ==
    ASSUME NEW f, NEW g, NEW h, NEW S, IsFiniteSet(S),
           \A x \in S : /\ f[x] \in Int /\ g[x] \in Int
                        /\ h[x] = f[x] + g[x]
    PROVE  SumFunctionOnSet(h, S) = SumFunctionOnSet(f, S) + SumFunctionOnSet(g, S)
<1> DEFINE F(s) == SumFunctionOnSet(f, s)
           G(s) == SumFunctionOnSet(g, s)
           H(s) == SumFunctionOnSet(h, s)
           Bad == {s \in SUBSET S : H(s) # F(s) + G(s)}
<1>1. SUFFICES ASSUME Bad # {} PROVE FALSE
  OBVIOUS
<1>2. PICK s \in Bad : \A t \in Bad : t \subseteq s => t = s
  <2>1. Bad \subseteq SUBSET S
    OBVIOUS
  <2> HIDE DEF Bad
  <2> QED BY <1>1, <2>1, MinimalSubset
<1>3. s \subseteq S /\ IsFiniteSet(s)
  BY FS_Subset
<1>4. PICK c : c \in s
  <2>1. F({}) = 0 /\ G({}) = 0 /\ H({}) = 0
    BY SumOfEmpty
  <2>2. H({}) = F({}) + G({})
    BY <2>1
  <2> QED BY <1>2, <2>2
<1>5. \A x \in s : f[x] \in Int /\ g[x] \in Int /\ h[x] \in Int
  BY <1>3
<1>6. /\ F(s) = f[c] + F(s \ {c}) /\ G(s) = g[c] + G(s \ {c})
      /\ H(s) = h[c] + H(s \ {c})
  BY <1>3, <1>4, <1>5, SumOfAny
<1>7. F(s \ {c}) \in Int /\ G(s \ {c}) \in Int
  <2>1. IsFiniteSet(s \ {c})
    BY <1>3, FS_Subset
  <2> QED BY <1>5, <2>1, SumIsInt
<1>8. H(s \ {c}) = F(s \ {c}) + G(s \ {c})
  BY <1>2, <1>4
<1>9. h[c] = f[c] + g[c] /\ f[c] \in Int /\ g[c] \in Int
  BY <1>3, <1>4
<1>10. H(s) = F(s) + G(s)
  <2> HIDE DEF F, G, H
  <2> QED BY <1>6, <1>7, <1>8, <1>9
<1> QED BY <1>10

-----------------------------------------------------------------------------
(***************************************************************************)
(* The largest and the smallest of finitely many numbers.                  *)
(***************************************************************************)
LEMMA MaxOfFinite ==
    ASSUME NEW S, S \subseteq Int, IsFiniteSet(S), S # {}
    PROVE  Max(S) \in S /\ \A x \in S : x <= Max(S)
<1> DEFINE Top(s) == \E m \in s : \A x \in s : m >= x
           Bad == {s \in SUBSET S : s # {} /\ ~ Top(s)}
<1>1. ASSUME Bad # {} PROVE FALSE
  <2>1. PICK s \in Bad : \A t \in Bad : t \subseteq s => t = s
    <3>1. Bad \subseteq SUBSET S
      OBVIOUS
    <3>2. IsFiniteSet(S)
      OBVIOUS
    <3> HIDE DEF Bad
    <3> QED BY ONLY <1>1, <3>1, <3>2, MinimalSubset
  <2>2. PICK c \in s : TRUE
    OBVIOUS
  <2>3. s \subseteq Int /\ c \in Int /\ ~ Top(s)
    OBVIOUS
  <2>4. s # {c}
    BY <2>3
  <2>5. s \ {c} \notin Bad
    BY <2>1, <2>2
  <2>6. Top(s \ {c})
    BY <2>4, <2>5
  <2>7. PICK m \in s \ {c} : \A x \in s \ {c} : m >= x
    BY <2>6
  <2>8. CASE m >= c
    BY <2>3, <2>7, <2>8
  <2>9. CASE ~ (m >= c)
    <3>1. \A x \in s : c >= x
      BY <2>3, <2>7, <2>9
    <3> QED BY <2>2, <2>3, <3>1
  <2> QED BY <2>8, <2>9
<1>2. Top(S)
  BY <1>1
<1> QED BY <1>2 DEF Max

LEMMA MinOfFinite ==
    ASSUME NEW S, S \subseteq Int, IsFiniteSet(S), S # {}
    PROVE  Min(S) \in S /\ \A x \in S : Min(S) <= x
<1> DEFINE Low(s) == \E m \in s : \A x \in s : m <= x
           Bad == {s \in SUBSET S : s # {} /\ ~ Low(s)}
<1>1. ASSUME Bad # {} PROVE FALSE
  <2>1. PICK s \in Bad : \A t \in Bad : t \subseteq s => t = s
    <3>1. Bad \subseteq SUBSET S
      OBVIOUS
    <3>2. IsFiniteSet(S)
      OBVIOUS
    <3> HIDE DEF Bad
    <3> QED BY ONLY <1>1, <3>1, <3>2, MinimalSubset
  <2>2. PICK c \in s : TRUE
    OBVIOUS
  <2>3. s \subseteq Int /\ c \in Int /\ ~ Low(s)
    OBVIOUS
  <2>4. s # {c}
    BY <2>3
  <2>5. s \ {c} \notin Bad
    BY <2>1, <2>2
  <2>6. Low(s \ {c})
    BY <2>4, <2>5
  <2>7. PICK m \in s \ {c} : \A x \in s \ {c} : m <= x
    BY <2>6
  <2>8. CASE m <= c
    BY <2>3, <2>7, <2>8
  <2>9. CASE ~ (m <= c)
    <3>1. \A x \in s : c <= x
      BY <2>3, <2>7, <2>9
    <3> QED BY <2>2, <2>3, <3>1
  <2> QED BY <2>8, <2>9
<1>2. Low(S)
  BY <1>1
<1> QED BY <1>2 DEF Min
=============================================================================
