------------------------------ MODULE SumProofs ------------------------------
(***************************************************************************)
(* Facts about the sum of a function over a finite set, SumFunctionOnSet   *)
(* and SumFunction of module Functions, for the books of the arena, the    *)
(* contract, the coin and the ledger.  The community modules define a sum  *)
(* by recursion on the set; that the recursion has a solution, and that    *)
(* the order in which it takes the elements does not matter, is proved     *)
(* here from one fact: a set of finite sets has a minimal member.  The     *)
(* same fact gives a finite set its highest member and its order           *)
(* statistics, for the last receipt of a version and the median profit.    *)
(***************************************************************************)
EXTENDS Integers, Functions, FiniteSetTheorems, WellFoundedInduction, TLAPS

\* A non-empty collection of subsets of a finite set has a smallest member.
LEMMA SmallestSubset ==
  ASSUME NEW S, IsFiniteSet(S), NEW B \in SUBSET (SUBSET S), B # {}
  PROVE  \E s \in B : \A t \in SUBSET s : t # s => t \notin B
<1>1. IsWellFoundedOn(StrictSubsetOrdering(S), SUBSET S)
  BY FS_StrictSubsetOrderingWellFounded, FS_FiniteSubsetsOfFinite
<1>2. \E s \in B : \A t \in B : <<t, s>> \notin StrictSubsetOrdering(S)
  BY <1>1, WFMin
<1>. QED
  BY <1>2 DEF StrictSubsetOrdering

\* A non-empty finite set has a member that no other member exceeds.
LEMMA HighestMember ==
  ASSUME NEW S, IsFiniteSet(S), S # {}, NEW f, \A x \in S : f[x] \in Int
  PROVE  \E x \in S : \A y \in S : f[y] <= f[x]
<1>. DEFINE Above(x) == {y \in S : f[y] > f[x]}
            B == {Above(x) : x \in S}
<1>1. B \in SUBSET (SUBSET S) /\ B # {}
  OBVIOUS
<1>2. PICK s \in B : \A t \in SUBSET s : t # s => t \notin B
  <2>. HIDE DEF B
  <2>. QED
    BY <1>1, SmallestSubset
<1>3. PICK x \in S : s = Above(x)
  OBVIOUS
<1>4. ASSUME NEW y \in S, f[y] > f[x] PROVE FALSE
  <2>1. Above(y) \in B /\ y \in Above(x) /\ y \notin Above(y)
    BY <1>4
  <2>2. Above(y) \in SUBSET Above(x)
    BY <1>4
  <2>. QED
    BY <1>2, <1>3, <2>1, <2>2
<1>. QED
  BY <1>4

LEMMA LowestMember ==
  ASSUME NEW S, IsFiniteSet(S), S # {}, NEW f, \A x \in S : f[x] \in Int
  PROVE  \E x \in S : \A y \in S : f[x] <= f[y]
<1>. DEFINE g == [x \in S |-> -f[x]]
<1>1. \A x \in S : g[x] = -f[x] /\ g[x] \in Int
  OBVIOUS
<1>2. PICK x \in S : \A y \in S : g[y] <= g[x]
  <2>. HIDE DEF g
  <2>. QED
    BY <1>1, HighestMember
<1>3. ASSUME NEW y \in S PROVE f[x] <= f[y]
  <2>1. g[y] <= g[x] /\ g[y] = -f[y] /\ g[x] = -f[x] /\ f[x] \in Int /\ f[y] \in Int
    BY <1>1, <1>2
  <2>. QED
    BY <2>1
<1>. QED
  BY <1>3

\* Among n + 1 or more values there is one with at most n below it and with more
\* than n up to it: the element at index n once they are sorted.
Below(f, S, p) == {x \in S : f[x] < p}
UpTo(f, S, p)  == {x \in S : f[x] <= p}
LEMMA OrderStatistic ==
  ASSUME NEW S, IsFiniteSet(S), NEW f, \A x \in S : f[x] \in Int,
         NEW n \in Nat, n < Cardinality(S)
  PROVE  \E x \in S : /\ Cardinality(Below(f, S, f[x])) <= n
                      /\ n < Cardinality(UpTo(f, S, f[x]))
<1>. DEFINE Low == {x \in S : Cardinality(Below(f, S, f[x])) <= n}
<1>1. S # {}
  BY FS_EmptySet
<1>2. Low # {}
  <2>1. PICK x \in S : \A y \in S : f[x] <= f[y]
    BY <1>1, LowestMember
  <2>2. Below(f, S, f[x]) = {}
    BY <2>1 DEF Below
  <2>. QED
    BY <2>2, FS_EmptySet
<1>3. PICK x \in Low : \A y \in Low : f[y] <= f[x]
  <2>1. Low \in SUBSET S /\ IsFiniteSet(Low)
    BY FS_Subset
  <2>. HIDE DEF Low
  <2>. QED
    BY <1>2, <2>1, HighestMember
<1>4. ASSUME Cardinality(UpTo(f, S, f[x])) <= n PROVE FALSE
  <2>. DEFINE More == S \ UpTo(f, S, f[x])
  <2>1. More # {}
    <3>1. UpTo(f, S, f[x]) # S
      BY <1>4, FS_CardinalityType
    <3>. QED
      BY <3>1 DEF UpTo
  <2>2. PICK z \in More : \A y \in More : f[z] <= f[y]
    <3>1. More \in SUBSET S /\ IsFiniteSet(More)
      BY FS_Subset
    <3>. HIDE DEF More
    <3>. QED
      BY <2>1, <3>1, LowestMember
  <2>3. f[x] < f[z] /\ f[x] \in Int /\ f[z] \in Int /\ z \in S
    BY <2>2 DEF UpTo
  <2>4. Below(f, S, f[z]) = UpTo(f, S, f[x])
    BY <2>2, <2>3 DEF Below, UpTo
  <2>5. z \in Low
    BY <1>4, <2>3, <2>4
  <2>. QED
    BY <1>3, <2>3, <2>5
<1>5. Cardinality(UpTo(f, S, f[x])) \in Nat
  BY FS_Subset, FS_CardinalityType DEF UpTo
<1>. QED
  BY <1>3, <1>4, <1>5

\* With at most half of three or more values below it, a positive value is not
\* the only positive one.
LEMMA MoreThanOne ==
  ASSUME NEW S, IsFiniteSet(S), Cardinality(S) >= 3, NEW f, \A x \in S : f[x] \in Int,
         NEW p \in Int, p > 0, Cardinality(Below(f, S, p)) <= Cardinality(S) \div 2
  PROVE  Cardinality({x \in S : f[x] > 0}) >= 2
<1>. DEFINE Above == S \ Below(f, S, p)
<1>1. Cardinality(S) \in Nat /\ IsFiniteSet({x \in S : f[x] > 0})
  BY FS_CardinalityType, FS_Subset
<1>2. S \cap Below(f, S, p) = Below(f, S, p) /\ Above \in SUBSET {x \in S : f[x] > 0}
  BY DEF Below
<1>3. Cardinality(Above) = Cardinality(S) - Cardinality(Below(f, S, p))
  BY <1>2, FS_Difference
<1>4. Cardinality(Above) <= Cardinality({x \in S : f[x] > 0})
  BY <1>1, <1>2, FS_Subset
<1>5. Cardinality(Below(f, S, p)) \in Nat /\ Cardinality({x \in S : f[x] > 0}) \in Nat
  BY <1>1, FS_Subset, FS_CardinalityType DEF Below
<1>. HIDE DEF Above
<1>6. Cardinality(Above) >= 2
  BY <1>1, <1>3, <1>5
<1>. QED
  BY <1>4, <1>5, <1>6, <1>1, <1>3

-----------------------------------------------------------------------------
(* The recursion behind a sum. *)
Pick(s) == CHOOSE x \in s : TRUE
Adds(g, f, S) ==
  g = [s \in SUBSET S |-> IF s = {} THEN 0 ELSE f[Pick(s)] + g[s \ {Pick(s)}]]
Partial(f, S) == CHOOSE g : Adds(g, f, S)

LEMMA SumIsPartial ==
  ASSUME NEW f, NEW S
  PROVE  SumFunctionOnSet(f, S) = Partial(f, S)[S]
BY DEF SumFunctionOnSet, FoldFunctionOnSet, MapThenFoldSet, Partial, Adds, Pick

LEMMA PickRemoves ==
  ASSUME NEW s, s # {}
  PROVE  Pick(s) \in s /\ s \ {Pick(s)} \in SUBSET s /\ s \ {Pick(s)} # s
BY DEF Pick

LEMMA AddsAt ==
  ASSUME NEW g, NEW f, NEW S, Adds(g, f, S), NEW s \in SUBSET S
  PROVE  g[s] = IF s = {} THEN 0 ELSE f[Pick(s)] + g[s \ {Pick(s)}]
BY DEF Adds

\* Two solutions agree wherever both are defined.
LEMMA AddsAgree ==
  ASSUME NEW f, NEW S, IsFiniteSet(S), NEW T \in SUBSET S, NEW g, Adds(g, f, S),
         NEW h, Adds(h, f, T)
  PROVE  \A s \in SUBSET T : g[s] = h[s]
<1>. DEFINE Bad == {s \in SUBSET T : g[s] # h[s]}
<1>1. Bad \in SUBSET (SUBSET S)
  OBVIOUS
<1>2. ASSUME NEW s \in Bad, \A t \in SUBSET s : t # s => t \notin Bad PROVE FALSE
  <2>1. /\ g[s] = IF s = {} THEN 0 ELSE f[Pick(s)] + g[s \ {Pick(s)}]
        /\ h[s] = IF s = {} THEN 0 ELSE f[Pick(s)] + h[s \ {Pick(s)}]
    BY AddsAt
  <2>2. s # {} /\ g[s \ {Pick(s)}] # h[s \ {Pick(s)}]
    BY <2>1
  <2>. QED
    BY <1>2, <2>2, PickRemoves
<1>3. Bad # {} => \E s \in Bad : \A t \in SUBSET s : t # s => t \notin Bad
  <2>. HIDE DEF Bad
  <2>. QED
    BY <1>1, SmallestSubset
<1>4. Bad = {}
  BY <1>2, <1>3
<1>. QED
  BY <1>4

\* There is a solution: glued from those of the smaller sets.
LEMMA PartialAdds ==
  ASSUME NEW f, NEW S, IsFiniteSet(S)
  PROVE  Adds(Partial(f, S), f, S)
<1>. DEFINE Bad == {U \in SUBSET S : ~ \E g : Adds(g, f, U)}
<1>1. Bad \in SUBSET (SUBSET S)
  OBVIOUS
<1>2. ASSUME NEW U \in Bad, \A t \in SUBSET U : t # U => t \notin Bad PROVE FALSE
  <2>1. \A t \in SUBSET U : t # U => Adds(Partial(f, t), f, t)
    BY <1>2 DEF Partial
  <2>. DEFINE Grown(s) == f[Pick(s)] + Partial(f, s \ {Pick(s)})[s \ {Pick(s)}]
              h == [s \in SUBSET U |-> IF s = {} THEN 0 ELSE Grown(s)]
  <2>2. ASSUME NEW s \in SUBSET U, s # U PROVE Partial(f, s)[s] = h[s]
    <3>1. IsFiniteSet(s)
      BY FS_Subset
    <3>2. Partial(f, s)[s] = IF s = {} THEN 0 ELSE f[Pick(s)] + Partial(f, s)[s \ {Pick(s)}]
      BY <2>1, <2>2, AddsAt
    <3>3. CASE s = {}
      BY <3>2, <3>3
    <3>4. CASE s # {}
      <4>. DEFINE r == s \ {Pick(s)}
      <4>1. r \in SUBSET s /\ r # U /\ r \in SUBSET r
        BY <2>2, <3>4, PickRemoves
      <4>2. Adds(Partial(f, r), f, r) /\ Adds(Partial(f, s), f, s)
        BY <2>1, <2>2, <4>1
      <4>3. Partial(f, s)[r] = Partial(f, r)[r]
        <5>. HIDE DEF r
        <5>. QED
          BY <3>1, <4>1, <4>2, AddsAgree
      <4>. QED
        BY <3>2, <3>4, <4>3
    <3>. QED
      BY <3>3, <3>4
  <2>3. ASSUME NEW s \in SUBSET U, s # {}
        PROVE  h[s] = f[Pick(s)] + h[s \ {Pick(s)}]
    <3>. DEFINE r == s \ {Pick(s)}
    <3>1. r \in SUBSET U /\ r # U
      BY <2>3, PickRemoves
    <3>2. h[s] = f[Pick(s)] + Partial(f, r)[r]
      BY <2>3
    <3>3. Partial(f, r)[r] = h[r]
      BY <2>2, <3>1
    <3>. QED
      BY <3>2, <3>3
  <2>4. Adds(h, f, U)
    <3>. HIDE DEF Grown
    <3>1. h[{}] = 0
      OBVIOUS
    <3>2. h = [s \in SUBSET U |-> h[s]]
      OBVIOUS
    <3>. HIDE DEF h
    <3>3. \A s \in SUBSET U : h[s] = IF s = {} THEN 0 ELSE f[Pick(s)] + h[s \ {Pick(s)}]
      BY <2>3, <3>1
    <3>. QED
      BY <3>2, <3>3, Zenon DEF Adds
  <2>. QED
    BY <2>4
<1>3. Bad # {} => \E U \in Bad : \A t \in SUBSET U : t # U => t \notin Bad
  <2>. HIDE DEF Bad
  <2>. QED
    BY <1>1, SmallestSubset
<1>4. \E g : Adds(g, f, S)
  BY <1>2, <1>3
<1>. QED
  BY <1>4 DEF Partial

-----------------------------------------------------------------------------
(* What the rest of the project cites. *)
LEMMA SumEmpty ==
  ASSUME NEW f
  PROVE  SumFunctionOnSet(f, {}) = 0
BY SumIsPartial, PartialAdds, AddsAt, FS_EmptySet

LEMMA SumPick ==
  ASSUME NEW f, NEW S, IsFiniteSet(S), S # {}
  PROVE  SumFunctionOnSet(f, S) = f[Pick(S)] + SumFunctionOnSet(f, S \ {Pick(S)})
<1>. DEFINE r == S \ {Pick(S)}
<1>1. r \in SUBSET S /\ IsFiniteSet(r)
  BY PickRemoves, FS_Subset
<1>2. Partial(f, S)[S] = f[Pick(S)] + Partial(f, S)[r]
  BY PartialAdds, AddsAt
<1>3. Partial(f, S)[r] = Partial(f, r)[r]
  BY <1>1, PartialAdds, AddsAgree
<1>. QED
  BY <1>2, <1>3, SumIsPartial

LEMMA SumInt ==
  ASSUME NEW f, NEW S, IsFiniteSet(S), \A x \in S : f[x] \in Int
  PROVE  SumFunctionOnSet(f, S) \in Int
<1>. DEFINE Bad == {s \in SUBSET S : SumFunctionOnSet(f, s) \notin Int}
<1>1. Bad \in SUBSET (SUBSET S)
  OBVIOUS
<1>2. ASSUME NEW s \in Bad, \A t \in SUBSET s : t # s => t \notin Bad PROVE FALSE
  <2>1. CASE s = {}
    BY <2>1, SumEmpty
  <2>2. CASE s # {}
    <3>1. SumFunctionOnSet(f, s) = f[Pick(s)] + SumFunctionOnSet(f, s \ {Pick(s)})
      BY <2>2, SumPick, FS_Subset
    <3>2. SumFunctionOnSet(f, s \ {Pick(s)}) \in Int
      BY <1>2, <2>2, PickRemoves
    <3>3. f[Pick(s)] \in Int
      BY <2>2, PickRemoves
    <3>. QED
      BY <3>1, <3>2, <3>3
  <2>. QED
    BY <2>1, <2>2
<1>3. Bad # {} => \E s \in Bad : \A t \in SUBSET s : t # s => t \notin Bad
  <2>. HIDE DEF Bad
  <2>. QED
    BY <1>1, SmallestSubset
<1>. QED
  BY <1>2, <1>3

\* The order does not matter: any element may be taken first.
LEMMA SumRemove ==
  ASSUME NEW f, NEW S, IsFiniteSet(S), \A x \in S : f[x] \in Int, NEW x \in S
  PROVE  SumFunctionOnSet(f, S) = f[x] + SumFunctionOnSet(f, S \ {x})
<1>. DEFINE Total(s) == SumFunctionOnSet(f, s)
            Bad == {s \in SUBSET S : \E y \in s : Total(s) # f[y] + Total(s \ {y})}
<1>1. Bad \in SUBSET (SUBSET S)
  OBVIOUS
<1>2. ASSUME NEW s \in Bad, \A t \in SUBSET s : t # s => t \notin Bad PROVE FALSE
  <2>1. PICK y \in s : Total(s) # f[y] + Total(s \ {y})
    OBVIOUS
  <2>. DEFINE c == Pick(s)
  <2>2. c \in s
    BY <2>1, PickRemoves
  <2>3. Total(s) = f[c] + Total(s \ {c})
    BY <2>1, SumPick, FS_Subset
  <2>. HIDE DEF c
  <2>4. c # y
    BY <2>1, <2>3
  <2>5. s \ {c} \notin Bad /\ s \ {y} \notin Bad
    BY <1>2, <2>2
  <2>. DEFINE r == (s \ {c}) \ {y}
  <2>6. Total(s \ {c}) = f[y] + Total(r)
    BY <2>4, <2>5
  <2>7. r = (s \ {y}) \ {c}
    OBVIOUS
  <2>8. Total(s \ {y}) = f[c] + Total(r)
    <3>. HIDE DEF r
    <3>. QED
      BY <2>2, <2>4, <2>5, <2>7
  <2>9. Total(r) \in Int /\ f[c] \in Int /\ f[y] \in Int
    <3>1. IsFiniteSet(r) /\ \A z \in r : f[z] \in Int
      BY FS_Subset
    <3>. QED
      BY <2>2, <3>1, SumInt
  <2>. HIDE DEF Total, r
  <2>. QED
    BY <2>1, <2>3, <2>6, <2>8, <2>9
<1>3. Bad # {} => \E s \in Bad : \A t \in SUBSET s : t # s => t \notin Bad
  <2>. HIDE DEF Bad
  <2>. QED
    BY <1>1, SmallestSubset
<1>. QED
  BY <1>2, <1>3

LEMMA SumAdd ==
  ASSUME NEW f, NEW S, IsFiniteSet(S), \A y \in S : f[y] \in Int,
         NEW x, x \notin S, f[x] \in Int
  PROVE  SumFunctionOnSet(f, S \cup {x}) = f[x] + SumFunctionOnSet(f, S)
<1>1. IsFiniteSet(S \cup {x}) /\ (S \cup {x}) \ {x} = S
  BY FS_AddElement
<1>2. \A y \in S \cup {x} : f[y] \in Int
  OBVIOUS
<1>3. x \in S \cup {x}
  OBVIOUS
<1>. QED
  BY <1>1, <1>2, <1>3, SumRemove

\* Only the values on the set count.
LEMMA SumSame ==
  ASSUME NEW f, NEW g, NEW S, IsFiniteSet(S), \A x \in S : f[x] = g[x]
  PROVE  SumFunctionOnSet(f, S) = SumFunctionOnSet(g, S)
<1>. DEFINE Bad == {s \in SUBSET S : SumFunctionOnSet(f, s) # SumFunctionOnSet(g, s)}
<1>1. Bad \in SUBSET (SUBSET S)
  OBVIOUS
<1>2. ASSUME NEW s \in Bad, \A t \in SUBSET s : t # s => t \notin Bad PROVE FALSE
  <2>1. CASE s = {}
    BY <2>1, SumEmpty
  <2>2. CASE s # {}
    <3>1. /\ SumFunctionOnSet(f, s) = f[Pick(s)] + SumFunctionOnSet(f, s \ {Pick(s)})
          /\ SumFunctionOnSet(g, s) = g[Pick(s)] + SumFunctionOnSet(g, s \ {Pick(s)})
      BY <2>2, SumPick, FS_Subset
    <3>2. SumFunctionOnSet(f, s \ {Pick(s)}) = SumFunctionOnSet(g, s \ {Pick(s)})
      BY <1>2, <2>2, PickRemoves
    <3>3. f[Pick(s)] = g[Pick(s)]
      BY <2>2, PickRemoves
    <3>. QED
      BY <3>1, <3>2, <3>3
  <2>. QED
    BY <2>1, <2>2
<1>3. Bad # {} => \E s \in Bad : \A t \in SUBSET s : t # s => t \notin Bad
  <2>. HIDE DEF Bad
  <2>. QED
    BY <1>1, SmallestSubset
<1>. QED
  BY <1>2, <1>3

\* A sum of zeros, and of values none of which is negative.
LEMMA SumZero ==
  ASSUME NEW f, NEW S, IsFiniteSet(S), \A x \in S : f[x] = 0
  PROVE  SumFunctionOnSet(f, S) = 0
<1>. DEFINE Bad == {s \in SUBSET S : SumFunctionOnSet(f, s) # 0}
<1>1. Bad \in SUBSET (SUBSET S)
  OBVIOUS
<1>2. ASSUME NEW s \in Bad, \A t \in SUBSET s : t # s => t \notin Bad PROVE FALSE
  <2>1. CASE s = {}
    BY <2>1, SumEmpty
  <2>2. CASE s # {}
    <3>1. SumFunctionOnSet(f, s) = f[Pick(s)] + SumFunctionOnSet(f, s \ {Pick(s)})
      BY <2>2, SumPick, FS_Subset
    <3>2. SumFunctionOnSet(f, s \ {Pick(s)}) = 0 /\ f[Pick(s)] = 0
      BY <1>2, <2>2, PickRemoves
    <3>. QED
      BY <3>1, <3>2
  <2>. QED
    BY <2>1, <2>2
<1>3. Bad # {} => \E s \in Bad : \A t \in SUBSET s : t # s => t \notin Bad
  <2>. HIDE DEF Bad
  <2>. QED
    BY <1>1, SmallestSubset
<1>. QED
  BY <1>2, <1>3

LEMMA SumNat ==
  ASSUME NEW f, NEW S, IsFiniteSet(S), \A x \in S : f[x] \in Nat
  PROVE  SumFunctionOnSet(f, S) \in Nat
<1>. DEFINE Bad == {s \in SUBSET S : SumFunctionOnSet(f, s) \notin Nat}
<1>1. Bad \in SUBSET (SUBSET S)
  OBVIOUS
<1>2. ASSUME NEW s \in Bad, \A t \in SUBSET s : t # s => t \notin Bad PROVE FALSE
  <2>1. CASE s = {}
    BY <2>1, SumEmpty
  <2>2. CASE s # {}
    <3>1. SumFunctionOnSet(f, s) = f[Pick(s)] + SumFunctionOnSet(f, s \ {Pick(s)})
      BY <2>2, SumPick, FS_Subset
    <3>2. SumFunctionOnSet(f, s \ {Pick(s)}) \in Nat /\ f[Pick(s)] \in Nat
      BY <1>2, <2>2, PickRemoves
    <3>. QED
      BY <3>1, <3>2
  <2>. QED
    BY <2>1, <2>2
<1>3. Bad # {} => \E s \in Bad : \A t \in SUBSET s : t # s => t \notin Bad
  <2>. HIDE DEF Bad
  <2>. QED
    BY <1>1, SmallestSubset
<1>. QED
  BY <1>2, <1>3

\* The sum of two books is the book of the sums.
LEMMA SumOfSums ==
  ASSUME NEW f, NEW g, NEW h, NEW S, IsFiniteSet(S),
         \A x \in S : f[x] \in Int /\ g[x] \in Int /\ h[x] = f[x] + g[x]
  PROVE  SumFunctionOnSet(h, S) = SumFunctionOnSet(f, S) + SumFunctionOnSet(g, S)
<1>. DEFINE Both(s) == SumFunctionOnSet(f, s) + SumFunctionOnSet(g, s)
            Bad == {s \in SUBSET S : SumFunctionOnSet(h, s) # Both(s)}
<1>1. Bad \in SUBSET (SUBSET S)
  OBVIOUS
<1>2. ASSUME NEW s \in Bad, \A t \in SUBSET s : t # s => t \notin Bad PROVE FALSE
  <2>1. CASE s = {}
    BY <2>1, SumEmpty
  <2>2. CASE s # {}
    <3>. DEFINE c == Pick(s)
                r == s \ {c}
    <3>1. c \in s /\ r \in SUBSET s /\ r # s
      BY <2>2, PickRemoves
    <3>2. /\ SumFunctionOnSet(h, s) = h[c] + SumFunctionOnSet(h, r)
          /\ SumFunctionOnSet(f, s) = f[c] + SumFunctionOnSet(f, r)
          /\ SumFunctionOnSet(g, s) = g[c] + SumFunctionOnSet(g, r)
      BY <2>2, SumPick, FS_Subset
    <3>3. SumFunctionOnSet(h, r) = Both(r)
      BY <1>2, <3>1
    <3>4. IsFiniteSet(r) /\ \A x \in r : f[x] \in Int /\ g[x] \in Int
      BY <3>1, FS_Subset
    <3>5. SumFunctionOnSet(f, r) \in Int /\ SumFunctionOnSet(g, r) \in Int
      <4>. HIDE DEF r
      <4>. QED
        BY <3>4, SumInt
    <3>6. f[c] \in Int /\ g[c] \in Int /\ h[c] = f[c] + g[c]
      BY <3>1
    <3>7. SumFunctionOnSet(h, s) # SumFunctionOnSet(f, s) + SumFunctionOnSet(g, s)
      OBVIOUS
    <3>. HIDE DEF c, r
    <3>. QED
      BY <3>2, <3>3, <3>5, <3>6, <3>7
  <2>. QED
    BY <2>1, <2>2
<1>3. Bad # {} => \E s \in Bad : \A t \in SUBSET s : t # s => t \notin Bad
  <2>. HIDE DEF Bad
  <2>. QED
    BY <1>1, SmallestSubset
<1>. QED
  BY <1>2, <1>3

\* Where two functions differ in one element of the set, so do their sums.
LEMMA SumMoved ==
  ASSUME NEW f, NEW g, NEW S, IsFiniteSet(S), NEW x \in S,
         \A y \in S : f[y] \in Int, g[x] \in Int, \A y \in S \ {x} : g[y] = f[y]
  PROVE  SumFunctionOnSet(g, S) = SumFunctionOnSet(f, S) - f[x] + g[x]
<1>1. \A y \in S : g[y] \in Int
  OBVIOUS
<1>2. IsFiniteSet(S \ {x}) /\ \A y \in S \ {x} : f[y] \in Int
  BY FS_Subset
<1>3. SumFunctionOnSet(g, S \ {x}) = SumFunctionOnSet(f, S \ {x})
  BY <1>2, SumSame
<1>4. SumFunctionOnSet(f, S \ {x}) \in Int
  BY <1>2, SumInt
<1>5. SumFunctionOnSet(f, S) = f[x] + SumFunctionOnSet(f, S \ {x})
  BY SumRemove
<1>6. SumFunctionOnSet(g, S) = g[x] + SumFunctionOnSet(g, S \ {x})
  BY <1>1, SumRemove
<1>7. f[x] \in Int
  OBVIOUS
<1>. QED
  BY <1>3, <1>4, <1>5, <1>6, <1>7

\* No element is more than the sum of natural numbers.
LEMMA SumBounds ==
  ASSUME NEW f, NEW S, IsFiniteSet(S), \A y \in S : f[y] \in Nat, NEW x \in S
  PROVE  f[x] <= SumFunctionOnSet(f, S)
<1>1. IsFiniteSet(S \ {x}) /\ \A y \in S \ {x} : f[y] \in Nat
  BY FS_Subset
<1>2. SumFunctionOnSet(f, S \ {x}) \in Nat
  BY <1>1, SumNat
<1>3. \A y \in S : f[y] \in Int
  OBVIOUS
<1>4. SumFunctionOnSet(f, S) = f[x] + SumFunctionOnSet(f, S \ {x})
  BY <1>3, SumRemove
<1>. QED
  BY <1>2, <1>4

-----------------------------------------------------------------------------
(* The same of a function over its whole domain. *)
LEMMA TotalInt ==
  ASSUME NEW S, IsFiniteSet(S), NEW f \in [S -> Int]
  PROVE  SumFunction(f) \in Int
<1>1. DOMAIN f = S /\ \A x \in S : f[x] \in Int
  OBVIOUS
<1>. QED
  BY <1>1, SumInt DEF SumFunction

LEMMA TotalNat ==
  ASSUME NEW S, IsFiniteSet(S), NEW f \in [S -> Nat]
  PROVE  SumFunction(f) \in Nat
<1>1. DOMAIN f = S /\ \A x \in S : f[x] \in Nat
  OBVIOUS
<1>. QED
  BY <1>1, SumNat DEF SumFunction

LEMMA TotalZero ==
  ASSUME NEW S, IsFiniteSet(S), NEW f \in [S -> Int], \A x \in S : f[x] = 0
  PROVE  SumFunction(f) = 0
<1>1. DOMAIN f = S
  OBVIOUS
<1>. QED
  BY <1>1, SumZero DEF SumFunction

LEMMA TotalMoved ==
  ASSUME NEW S, IsFiniteSet(S), NEW f \in [S -> Int], NEW g \in [S -> Int],
         NEW x \in S, \A y \in S \ {x} : g[y] = f[y]
  PROVE  SumFunction(g) = SumFunction(f) - f[x] + g[x]
<1>1. DOMAIN f = S /\ DOMAIN g = S /\ (\A y \in S : f[y] \in Int) /\ g[x] \in Int
  OBVIOUS
<1>. QED
  BY <1>1, SumMoved DEF SumFunction

\* A transfer: two elements change.
LEMMA TotalMovedTwo ==
  ASSUME NEW S, IsFiniteSet(S), NEW f \in [S -> Int], NEW g \in [S -> Int],
         NEW x \in S, NEW y \in S, x # y, \A z \in S \ {x, y} : g[z] = f[z]
  PROVE  SumFunction(g) = SumFunction(f) - f[x] - f[y] + g[x] + g[y]
<1>. DEFINE h == [f EXCEPT ![x] = g[x]]
<1>1. /\ h \in [S -> Int] /\ h[x] = g[x] /\ h[y] = f[y]
      /\ \A z \in S \ {x} : h[z] = f[z]
      /\ \A z \in S \ {y} : g[z] = h[z]
  OBVIOUS
<1>. HIDE DEF h
<1>2. SumFunction(h) = SumFunction(f) - f[x] + h[x]
  BY <1>1, TotalMoved
<1>3. SumFunction(g) = SumFunction(h) - h[y] + g[y]
  BY <1>1, TotalMoved
<1>4. SumFunction(f) \in Int /\ f[x] \in Int /\ f[y] \in Int /\ g[x] \in Int /\ g[y] \in Int
  BY TotalInt
<1>. QED
  BY <1>1, <1>2, <1>3, <1>4

\* A new element is entered in the book.
LEMMA TotalAdded ==
  ASSUME NEW S, IsFiniteSet(S), NEW g \in [S -> Int], NEW x \in S,
         NEW f \in [S \ {x} -> Int], \A y \in S \ {x} : g[y] = f[y]
  PROVE  SumFunction(g) = SumFunction(f) + g[x]
<1>. DEFINE T == S \ {x}
<1>1. IsFiniteSet(T)
  BY FS_Subset
<1>2. DOMAIN f = T /\ DOMAIN g = T \cup {x} /\ g[x] \in Int /\ \A y \in T : g[y] \in Int
  OBVIOUS
<1>3. SumFunctionOnSet(g, T \cup {x}) = g[x] + SumFunctionOnSet(g, T)
  BY <1>1, <1>2, SumAdd
<1>4. SumFunctionOnSet(g, T) = SumFunctionOnSet(f, T)
  BY <1>1, SumSame
<1>5. SumFunctionOnSet(f, T) \in Int
  BY <1>1, SumInt
<1>. QED
  BY <1>2, <1>3, <1>4, <1>5 DEF SumFunction

LEMMA TotalBounds ==
  ASSUME NEW S, IsFiniteSet(S), NEW f \in [S -> Nat], NEW x \in S
  PROVE  f[x] <= SumFunction(f)
<1>1. DOMAIN f = S /\ \A y \in S : f[y] \in Nat
  OBVIOUS
<1>. QED
  BY <1>1, SumBounds DEF SumFunction

\* A book of books.
GrandTotal(S, book) == SumFunction([x \in S |-> SumFunction(book[x])])

LEMMA GrandTotalInt ==
  ASSUME NEW S, IsFiniteSet(S), NEW E, IsFiniteSet(E), NEW book \in [S -> [E -> Int]]
  PROVE  GrandTotal(S, book) \in Int
<1>. DEFINE f == [y \in S |-> SumFunction(book[y])]
<1>1. f \in [S -> Int]
  BY TotalInt
<1>. HIDE DEF f
<1>2. SumFunction(f) \in Int
  BY <1>1, TotalInt
<1>. QED
  BY <1>2 DEF f, GrandTotal

LEMMA GrandTotalMoved ==
  ASSUME NEW S, IsFiniteSet(S), NEW E, IsFiniteSet(E), NEW book \in [S -> [E -> Int]],
         NEW after \in [S -> [E -> Int]], NEW x \in S, \A y \in S \ {x} : after[y] = book[y]
  PROVE  GrandTotal(S, after) = GrandTotal(S, book) - SumFunction(book[x]) + SumFunction(after[x])
<1>. DEFINE f == [y \in S |-> SumFunction(book[y])]
            g == [y \in S |-> SumFunction(after[y])]
<1>1. f \in [S -> Int] /\ g \in [S -> Int]
  BY TotalInt
<1>2. /\ f[x] = SumFunction(book[x]) /\ g[x] = SumFunction(after[x])
      /\ \A y \in S \ {x} : g[y] = f[y]
  OBVIOUS
<1>. HIDE DEF f, g
<1>3. SumFunction(g) = SumFunction(f) - f[x] + g[x]
  BY <1>1, <1>2, TotalMoved
<1>. QED
  BY <1>2, <1>3 DEF GrandTotal, f, g

LEMMA GrandTotalZero ==
  ASSUME NEW S, IsFiniteSet(S), NEW E, IsFiniteSet(E), NEW book \in [S -> [E -> Int]],
         \A x \in S : \A e \in E : book[x][e] = 0
  PROVE  GrandTotal(S, book) = 0
<1>. DEFINE f == [y \in S |-> SumFunction(book[y])]
<1>1. f \in [S -> Int] /\ \A x \in S : f[x] = 0
  BY TotalInt, TotalZero
<1>. HIDE DEF f
<1>2. SumFunction(f) = 0
  BY <1>1, TotalZero
<1>. QED
  BY <1>2 DEF f, GrandTotal

=============================================================================
