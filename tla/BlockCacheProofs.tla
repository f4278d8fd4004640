-------------------------- MODULE BlockCacheProofs --------------------------
(***************************************************************************)
(* Proofs about BlockCache: its types, what a migration keeps, the counter *)
(* and the budget, for any number of blocks, listings and goroutines, any  *)
(* lengths and any budget.                                                 *)
(***************************************************************************)
EXTENDS BlockCache, FiniteSetTheorems, WellFoundedInduction, TLAPS

-----------------------------------------------------------------------------
(* Induction over numbers and over finite sets, for a set of what is shown.  *)

LEMMA SmallestNat ==
  ASSUME NEW T, T \subseteq Nat, T # {}
  PROVE  \E n \in T : \A m \in T : ~(m < n)
<1> DEFINE R == {p \in Nat \X Nat : p[1] < p[2]}
<1>1. IsWellFoundedOn(R, Nat)
  BY NatLessThanWellFounded DEF OpToRel
<1>2. PICK n \in T : \A m \in T : <<m, n>> \notin R
  <2> HIDE DEF R
  <2> QED BY <1>1, WFMin
<1> QED BY <1>2

LEMMA FiniteInduction ==
  ASSUME NEW S, IsFiniteSet(S), NEW T, T \subseteq SUBSET S, {} \in T,
         \A s \in SUBSET S : s # {} /\ (\A x \in s : s \ {x} \in T) => s \in T
  PROVE  T = SUBSET S
<1>1. SUFFICES ASSUME T # SUBSET S PROVE FALSE
  OBVIOUS
<1> DEFINE Left == (SUBSET S) \ T
           Counts == {Cardinality(s) : s \in Left}
<1>2. \A s \in SUBSET S : IsFiniteSet(s) /\ Cardinality(s) \in Nat
  BY FS_Subset, FS_CardinalityType
<1>3. PICK n \in Counts : \A m \in Counts : ~(m < n)
  <2>1. Counts \subseteq Nat /\ Counts # {}
    BY <1>1, <1>2
  <2> QED BY <2>1, SmallestNat
<1>4. PICK s \in Left : Cardinality(s) = n
  OBVIOUS
<1>5. \A x \in s : s \ {x} \in T
  <2> TAKE x \in s
  <2>1. Cardinality(s \ {x}) = Cardinality(s) - 1
    BY <1>2, FS_RemoveElement
  <2>2. Cardinality(s \ {x}) < n
    BY <2>1, <1>2, <1>4
  <2> QED BY <2>2, <1>3
<1> QED BY <1>4, <1>5

-----------------------------------------------------------------------------
(* Sums of functions on a finite set.                                        *)

Some(s) == CHOOSE x \in s : TRUE
SumsFrom(g, f, s) == IF s = {} THEN 0 ELSE f[Some(s)] + g[s \ {Some(s)}]
Sums(g, f, S) == g = [s \in SUBSET S |-> SumsFrom(g, f, s)]

LEMMA SumIsChosen ==
  ASSUME NEW S, NEW f, DOMAIN f = S
  PROVE  SumFunction(f) = (CHOOSE g : Sums(g, f, S))[S]
BY DEF SumFunction, SumFunctionOnSet, FoldFunctionOnSet, MapThenFoldSet, Sums, SumsFrom, Some

LEMMA SomeIn == ASSUME NEW s, s # {} PROVE Some(s) \in s
BY DEF Some

\* A function that sums the sets smaller than n.
SumsTo(n, g, f, S) == g \in [SUBSET S -> Int]
  /\ \A s \in SUBSET S : Cardinality(s) < n => g[s] = SumsFrom(g, f, s)

LEMMA SumsExist ==
  ASSUME NEW S, IsFiniteSet(S), NEW f \in [S -> Int]
  PROVE  \E g : Sums(g, f, S)
<1> DEFINE Not == {n \in Nat : ~ \E g : SumsTo(n, g, f, S)}
<1>0. \A s \in SUBSET S : IsFiniteSet(s) /\ Cardinality(s) \in Nat
  BY FS_Subset, FS_CardinalityType
<1>1. Not = {}
  <2> SUFFICES ASSUME Not # {} PROVE FALSE
    OBVIOUS
  <2>1. PICK n \in Not : \A m \in Not : ~(m < n)
    <3> HIDE DEF Not
    <3>1. Not \subseteq Nat
      BY DEF Not
    <3> QED BY <3>1, SmallestNat
  <2>2. n # 0
    <3>1. SumsTo(0, [s \in SUBSET S |-> 0], f, S)
      BY <1>0 DEF SumsTo
    <3> QED BY <3>1
  <2>3. PICK g : SumsTo(n - 1, g, f, S)
    BY <2>1, <2>2
  <2> DEFINE h == [s \in SUBSET S |-> SumsFrom(g, f, s)]
  <2>4. \A s \in SUBSET S : s # {} => /\ Some(s) \in s /\ Some(s) \in S
                                      /\ s \ {Some(s)} \in SUBSET S
                                      /\ Cardinality(s \ {Some(s)}) = Cardinality(s) - 1
    BY SomeIn, <1>0, FS_RemoveElement
  <2>5. h \in [SUBSET S -> Int]
    <3>1. ASSUME NEW s \in SUBSET S PROVE SumsFrom(g, f, s) \in Int
      BY <2>3, <2>4 DEF SumsTo, SumsFrom
    <3> QED BY <3>1
  <2>6. ASSUME NEW s \in SUBSET S, Cardinality(s) < n PROVE h[s] = SumsFrom(h, f, s)
    <3>1. CASE s = {}
      BY <3>1 DEF SumsFrom
    <3>2. CASE s # {}
      <4> DEFINE t == s \ {Some(s)}
      <4>1. t \in SUBSET S /\ Cardinality(t) < n - 1
        BY <3>2, <2>4, <2>6, <2>2, <1>0
      <4>2. g[t] = SumsFrom(g, f, t)
        BY <4>1, <2>3 DEF SumsTo
      <4>3. h[t] = g[t]
        BY <4>1, <4>2
      <4> QED BY <4>3, <3>2 DEF SumsFrom
    <3> QED BY <3>1, <3>2
  <2>7. SumsTo(n, h, f, S)
    BY <2>5, <2>6 DEF SumsTo
  <2> QED BY <2>7
<1>2. PICK g : SumsTo(Cardinality(S) + 1, g, f, S)
  BY <1>1, <1>0
<1>3. \A s \in SUBSET S : Cardinality(s) < Cardinality(S) + 1
  <2> TAKE s \in SUBSET S
  <2>1. Cardinality(s) <= Cardinality(S)
    BY FS_Subset
  <2> QED BY <2>1, <1>0
<1>4. g = [s \in SUBSET S |-> g[s]]
  BY <1>2 DEF SumsTo
<1>5. \A s \in SUBSET S : g[s] = SumsFrom(g, f, s)
  BY <1>2, <1>3 DEF SumsTo
<1> QED BY <1>4, <1>5 DEF Sums

\* What the sums of the subsets are, one element at a time.
Totals(g, f, S) ==
  /\ g \in [SUBSET S -> Int] /\ g[{}] = 0 /\ g[S] = SumFunction(f)
  /\ \A s \in SUBSET S : s # {} => /\ Some(s) \in s /\ s \ {Some(s)} \in SUBSET S
                                   /\ g[s] = f[Some(s)] + g[s \ {Some(s)}]

LEMMA SumTotals ==
  ASSUME NEW S, IsFiniteSet(S), NEW f \in [S -> Int]
  PROVE  \E g : Totals(g, f, S)
<1> DEFINE g == CHOOSE g : Sums(g, f, S)
<1>1. Sums(g, f, S)
  BY SumsExist
<1>2. SumFunction(f) = g[S]
  BY SumIsChosen
<1> HIDE DEF g
<1>3. \A s \in SUBSET S : g[s] = SumsFrom(g, f, s)
  BY <1>1 DEF Sums
<1>4. {} \in SUBSET S /\ g[{}] = 0
  <2>1. {} \in SUBSET S
    OBVIOUS
  <2> QED BY <2>1, <1>3 DEF SumsFrom
<1>5. ASSUME NEW s \in SUBSET S, s # {}
      PROVE  /\ Some(s) \in s /\ Some(s) \in S /\ s \ {Some(s)} \in SUBSET S
             /\ g[s] = f[Some(s)] + g[s \ {Some(s)}]
  BY <1>3, <1>5, SomeIn DEF SumsFrom
<1> DEFINE T == {s \in SUBSET S : g[s] \in Int}
<1>6. {} \in T /\ T \subseteq SUBSET S
  BY <1>4
<1>7. ASSUME NEW s \in SUBSET S, s # {}, \A x \in s : s \ {x} \in T PROVE s \in T
  <2>1. g[s \ {Some(s)}] \in Int /\ f[Some(s)] \in Int
    BY <1>5, <1>7
  <2>2. g[s] = f[Some(s)] + g[s \ {Some(s)}]
    BY <1>5, <1>7
  <2>3. g[s] \in Int
    BY <2>1, <2>2
  <2> QED BY <2>3
<1> HIDE DEF T
<1>8. T = SUBSET S
  BY <1>6, <1>7, FiniteInduction
<1>9. g \in [SUBSET S -> Int]
  <2>1. g = [s \in SUBSET S |-> SumsFrom(g, f, s)]
    BY <1>1 DEF Sums
  <2>2. g = [s \in SUBSET S |-> g[s]]
    BY <2>1
  <2> QED BY <2>2, <1>8 DEF T
<1> QED BY <1>2, <1>4, <1>5, <1>9 DEF Totals

LEMMA SumType ==
  ASSUME NEW S, IsFiniteSet(S), NEW f \in [S -> Int]
  PROVE  SumFunction(f) \in Int
<1>1. PICK g : Totals(g, f, S)
  BY SumTotals
<1>2. S \in SUBSET S
  OBVIOUS
<1> QED BY <1>1, <1>2 DEF Totals

LEMMA SumOfZeros ==
  ASSUME NEW S, IsFiniteSet(S), NEW f \in [S -> Int], \A x \in S : f[x] = 0
  PROVE  SumFunction(f) = 0
<1>1. PICK g : Totals(g, f, S)
  BY SumTotals
<1> DEFINE T == {s \in SUBSET S : g[s] = 0}
<1>2. {} \in T /\ T \subseteq SUBSET S
  BY <1>1 DEF Totals
<1>3. ASSUME NEW s \in SUBSET S, s # {}, \A x \in s : s \ {x} \in T PROVE s \in T
  <2>1. g[s \ {Some(s)}] = 0 /\ f[Some(s)] = 0 /\ g[s] = f[Some(s)] + g[s \ {Some(s)}]
    BY <1>1, <1>3 DEF Totals
  <2> QED BY <2>1
<1> HIDE DEF T
<1>4. T = SUBSET S
  BY <1>2, <1>3, FiniteInduction
<1>5. S \in T
  BY <1>4
<1> QED BY <1>5, <1>1 DEF T, Totals

LEMMA SumOfNats ==
  ASSUME NEW S, IsFiniteSet(S), NEW f \in [S -> Nat]
  PROVE  SumFunction(f) \in Nat
<1>0. f \in [S -> Int]
  OBVIOUS
<1>1. PICK g : Totals(g, f, S)
  BY <1>0, SumTotals
<1> DEFINE T == {s \in SUBSET S : g[s] \in Nat}
<1>2. {} \in T /\ T \subseteq SUBSET S
  BY <1>1 DEF Totals
<1>3. ASSUME NEW s \in SUBSET S, s # {}, \A x \in s : s \ {x} \in T PROVE s \in T
  <2>1. g[s \ {Some(s)}] \in Nat /\ f[Some(s)] \in Nat /\ g[s] = f[Some(s)] + g[s \ {Some(s)}]
    BY <1>1, <1>3 DEF Totals
  <2> QED BY <2>1
<1> HIDE DEF T
<1>4. T = SUBSET S
  BY <1>2, <1>3, FiniteInduction
<1>5. S \in T
  BY <1>4
<1> QED BY <1>5, <1>1 DEF T, Totals

LEMMA SumUpdate ==
  ASSUME NEW S, IsFiniteSet(S), NEW f \in [S -> Int], NEW k \in S, NEW v \in Int
  PROVE  SumFunction([f EXCEPT ![k] = v]) = SumFunction(f) - f[k] + v
<1> DEFINE e == [f EXCEPT ![k] = v]
<1>0. e \in [S -> Int] /\ e[k] = v /\ \A x \in S : x # k => e[x] = f[x]
  OBVIOUS
<1> HIDE DEF e
<1>1. PICK g : Totals(g, f, S)
  BY SumTotals
<1>2. PICK h : Totals(h, e, S)
  BY <1>0, SumTotals
<1> DEFINE T == {s \in SUBSET S : h[s] = IF k \in s THEN g[s] - f[k] + v ELSE g[s]}
<1>3. {} \in T /\ T \subseteq SUBSET S
  BY <1>1, <1>2 DEF Totals
<1>4. ASSUME NEW s \in SUBSET S, s # {}, \A x \in s : s \ {x} \in T PROVE s \in T
  <2> DEFINE x == Some(s)
             t == s \ {x}
  <2>1. x \in s /\ x \in S /\ t \in SUBSET S
    BY <1>1, <1>4 DEF Totals
  <2>2. g[s] = f[x] + g[t] /\ h[s] = e[x] + h[t]
    BY <1>1, <1>2, <1>4 DEF Totals
  <2> HIDE DEF x
  <2>3. h[t] = IF k \in t THEN g[t] - f[k] + v ELSE g[t]
    BY <2>1, <1>4
  <2>4. g[t] \in Int /\ h[t] \in Int /\ f[x] \in Int /\ f[k] \in Int /\ e[x] \in Int
    BY <2>1, <1>0, <1>1, <1>2 DEF Totals
  <2>5. CASE x = k
    <3>1. k \notin t /\ k \in s /\ e[x] = v
      BY <2>1, <2>5, <1>0
    <3>2. h[s] = g[s] - f[k] + v
      BY <3>1, <2>2, <2>3, <2>4, <2>5
    <3> QED BY <3>1, <3>2
  <2>6. CASE x # k
    <3>1. (k \in t <=> k \in s) /\ e[x] = f[x]
      BY <2>1, <2>6, <1>0
    <3>2. h[s] = IF k \in s THEN g[s] - f[k] + v ELSE g[s]
      BY <3>1, <2>2, <2>3, <2>4
    <3> QED BY <3>2
  <2> QED BY <2>5, <2>6
<1> HIDE DEF T
<1>5. \A s \in SUBSET S : s # {} /\ (\A x \in s : s \ {x} \in T) => s \in T
  BY <1>4
<1>6. T = SUBSET S
  BY <1>3, <1>5, FiniteInduction
<1>7. S \in T
  BY <1>6
<1>8. h[S] = g[S] - f[k] + v
  BY <1>7 DEF T
<1> QED BY <1>8, <1>1, <1>2 DEF e, Totals

-----------------------------------------------------------------------------
(* The order of use.                                                         *)

\* A sequence of different entries, of those in S.
Orders(s, S) == s \in Seq(Keys) /\ ToSet(s) = S /\ IsInjective(s)

LEMMA SeqFacts ==
  ASSUME NEW s \in Seq(Keys)
  PROVE  /\ Len(s) \in Nat /\ DOMAIN s = 1..Len(s) /\ \A i \in DOMAIN s : s[i] \in Keys
OBVIOUS

\* The rank of an element of a finite set of numbers is its place among them.
LEMMA Ranks ==
  ASSUME NEW S, IsFiniteSet(S), S \subseteq Nat
  PROVE  LET Rank(i) == Cardinality({j \in S : j <= i}) IN
         /\ \A i \in S : Rank(i) \in 1..Cardinality(S)
         /\ \A i, j \in S : Rank(i) = Rank(j) => i = j
         /\ \A n \in 1..Cardinality(S) : \E i \in S : Rank(i) = n
<1> DEFINE Below(i) == {j \in S : j <= i}
           Rank(i) == Cardinality(Below(i))
           n == Cardinality(S)
<1>0. n \in Nat
  BY FS_CardinalityType
<1>1. \A i \in S : IsFiniteSet(Below(i)) /\ Rank(i) \in Nat /\ Rank(i) <= n
  <2> TAKE i \in S
  <2>1. Below(i) \in SUBSET S
    OBVIOUS
  <2> QED BY <2>1, FS_Subset, FS_CardinalityType
<1>2. \A i \in S : Rank(i) # 0
  <2> TAKE i \in S
  <2>1. i \in Below(i)
    OBVIOUS
  <2> QED BY <2>1, <1>1, FS_EmptySet
<1>3. \A i \in S : Rank(i) \in 1..n
  BY <1>0, <1>1, <1>2
<1>4. ASSUME NEW i \in S, NEW j \in S, i < j PROVE Rank(i) < Rank(j)
  <2>0. i \in Nat /\ j \in Nat /\ \A h \in Below(i) : h \in Nat /\ h <= i
    OBVIOUS
  <2>a. j \notin Below(i)
    BY <2>0, <1>4
  <2>b. \A h \in Below(i) : h \in S /\ h <= j
    BY <2>0, <1>4
  <2>c. \A h \in Below(i) : h \in Below(j)
    BY <2>b
  <2>d. j \in Below(j)
    BY <2>0
  <2>1. j \notin Below(i) /\ Below(i) \cup {j} \in SUBSET Below(j)
    <3> HIDE DEF Below
    <3> QED BY <2>a, <2>c, <2>d
  <2>2. Cardinality(Below(i) \cup {j}) = Rank(i) + 1
    BY <2>1, <1>1, FS_AddElement
  <2>3. Cardinality(Below(i) \cup {j}) <= Rank(j)
    BY <2>1, <1>1, FS_Subset
  <2> QED BY <2>2, <2>3, <1>1
<1>5. \A i, j \in S : Rank(i) = Rank(j) => i = j
  <2> SUFFICES ASSUME NEW i \in S, NEW j \in S, Rank(i) = Rank(j), i # j PROVE FALSE
    OBVIOUS
  <2>1. i < j \/ j < i
    OBVIOUS
  <2>2. Rank(i) < Rank(j) \/ Rank(j) < Rank(i)
    <3> HIDE DEF Rank
    <3> QED BY <2>1, <1>4
  <2> QED BY <2>2, <1>1
<1>6. \A m \in 1..n : \E i \in S : Rank(i) = m
  <2> DEFINE f == [i \in S |-> Rank(i)]
  <2>1. f \in Injection(S, 1..n)
    BY <1>3, <1>5 DEF Injection, IsInjective
  <2>2. IsFiniteSet(1..n) /\ Cardinality(1..n) = n
    BY <1>0, FS_Interval
  <2>3. f \in Surjection(S, 1..n)
    <3> HIDE DEF f, n
    <3> QED BY <2>1, <2>2, FS_Injection DEF n
  <2> QED BY <2>3 DEF Surjection
<1> QED BY <1>3, <1>5, <1>6

LEMMA WithoutOrders ==
  ASSUME NEW S, Orders(lru, S), NEW gone
  PROVE  Orders(Without(gone), S \ gone)
<1> DEFINE rest == {i \in DOMAIN lru : lru[i] \notin gone}
           Rank(i) == Cardinality({j \in rest : j <= i})
           n == Cardinality(rest)
           At(m) == CHOOSE i \in rest : Rank(i) = m
           new == [m \in 1..n |-> lru[At(m)]]
<1>1. lru \in Seq(Keys) /\ ToSet(lru) = S /\ IsInjective(lru) /\ DOMAIN lru = 1..Len(lru)
      /\ Len(lru) \in Nat /\ \A i \in DOMAIN lru : lru[i] \in Keys
  BY SeqFacts DEF Orders
<1>2. IsFiniteSet(rest) /\ rest \subseteq Nat /\ n \in Nat
  <2>1. IsFiniteSet(1..Len(lru))
    BY <1>1, FS_Interval
  <2>2. rest \in SUBSET (1..Len(lru))
    BY <1>1
  <2>3. IsFiniteSet(rest)
    BY <2>1, <2>2, FS_Subset
  <2> QED BY <2>2, <2>3, FS_CardinalityType
<1>3. /\ \A i \in rest : Rank(i) \in 1..n
      /\ \A i, j \in rest : Rank(i) = Rank(j) => i = j
      /\ \A m \in 1..n : \E i \in rest : Rank(i) = m
  <2> HIDE DEF rest
  <2> QED BY <1>2, Ranks
<1>4. Without(gone) = new
  BY DEF Without
<1> HIDE DEF rest, Rank, n
<1>5. \A m \in 1..n : At(m) \in rest /\ Rank(At(m)) = m
  BY <1>3
<1>6. \A i \in rest : At(Rank(i)) = i
  BY <1>3, <1>5
<1> HIDE DEF At
<1>7. \A m \in 1..n : /\ At(m) \in DOMAIN lru /\ lru[At(m)] \notin gone /\ lru[At(m)] \in Keys
                      /\ lru[At(m)] \in S
  BY <1>5, <1>1 DEF rest, ToSet
<1>8. new \in Seq(Keys) /\ DOMAIN new = 1..n
  BY <1>7, <1>2
<1>9. IsInjective(new)
  <2> SUFFICES ASSUME NEW a \in 1..n, NEW b \in 1..n, new[a] = new[b] PROVE a = b
    BY <1>8 DEF IsInjective
  <2>1. lru[At(a)] = lru[At(b)]
    OBVIOUS
  <2>2. At(a) = At(b)
    BY <2>1, <1>7, <1>1 DEF IsInjective
  <2> QED BY <2>2, <1>5
<1>10. ToSet(new) = S \ gone
  <2>1. ToSet(new) \subseteq S \ gone
    BY <1>7, <1>8 DEF ToSet
  <2>2. ASSUME NEW k \in S \ gone PROVE k \in ToSet(new)
    <3>1. PICK i \in DOMAIN lru : lru[i] = k
      BY <1>1 DEF ToSet
    <3>2. i \in rest
      BY <3>1 DEF rest
    <3>3. Rank(i) \in 1..n /\ new[Rank(i)] = k
      BY <3>1, <3>2, <1>3, <1>6
    <3> QED BY <3>3, <1>8 DEF ToSet
  <2> QED BY <2>1, <2>2
<1> QED BY <1>4, <1>8, <1>9, <1>10 DEF Orders

LEMMA TouchedOrders ==
  ASSUME NEW S, Orders(lru, S), NEW k \in Keys
  PROVE  Orders(Touched(k), S \cup {k})
<1> DEFINE s == Without({k})
<1>1. Orders(s, S \ {k})
  BY WithoutOrders
<1> HIDE DEF s
<1>2. /\ s \in Seq(Keys) /\ Len(s) \in Nat /\ DOMAIN s = 1..Len(s)
      /\ ToSet(s) = S \ {k} /\ IsInjective(s)
  BY <1>1, SeqFacts DEF Orders
<1> DEFINE t == Append(s, k)
<1>3. /\ t \in Seq(Keys) /\ DOMAIN t = 1..(Len(s) + 1)
      /\ t[Len(s) + 1] = k /\ \A i \in 1..Len(s) : t[i] = s[i]
  BY <1>2
<1> HIDE DEF t
<1>4. \A i \in 1..Len(s) : s[i] # k
  BY <1>2 DEF ToSet
<1>5. \A i \in DOMAIN t : i \in 1..Len(s) \/ i = Len(s) + 1
  BY <1>2, <1>3
<1>6. IsInjective(t)
  <2> SUFFICES ASSUME NEW a \in DOMAIN t, NEW b \in DOMAIN t, t[a] = t[b] PROVE a = b
    BY DEF IsInjective
  <2> QED BY <1>2, <1>3, <1>4, <1>5 DEF IsInjective
<1>7. ToSet(t) = S \cup {k}
  <2>1. ASSUME NEW i \in DOMAIN t PROVE t[i] \in S \cup {k}
    BY <1>2, <1>3, <1>5 DEF ToSet
  <2>2. ASSUME NEW x \in S \cup {k} PROVE \E i \in DOMAIN t : t[i] = x
    <3>1. CASE x = k
      BY <3>1, <1>2, <1>3
    <3>2. CASE x # k
      <4>1. PICK i \in DOMAIN s : s[i] = x
        BY <3>2, <1>2 DEF ToSet
      <4>2. i \in DOMAIN t /\ t[i] = x
        BY <4>1, <1>2, <1>3
      <4> QED BY <4>2
    <3> QED BY <3>1, <3>2
  <2> QED BY <2>1, <2>2 DEF ToSet
<1> QED BY <1>3, <1>6, <1>7 DEF Orders, Touched, t, s

LEMMA SeqsOrder ==
  ASSUME NEW S, IsFiniteSet(S), S \subseteq Keys, NEW s \in SetToSeqs(S)
  PROVE  Orders(s, S)
<1> DEFINE n == Cardinality(S)
<1>1. n \in Nat /\ IsFiniteSet(1..n) /\ Cardinality(1..n) = n
  BY FS_CardinalityType, FS_Interval
<1>2. s \in [1..n -> S] /\ \A i, j \in 1..n : i # j => s[i] # s[j]
  BY DEF SetToSeqs
<1>3. s \in Injection(1..n, S)
  BY <1>2 DEF Injection, IsInjective
<1>4. s \in Surjection(1..n, S)
  BY <1>1, <1>3, FS_Injection
<1>5. s \in Seq(Keys) /\ IsInjective(s)
  BY <1>1, <1>2 DEF IsInjective
<1>6. ToSet(s) = S
  BY <1>2, <1>4 DEF Surjection, ToSet
<1> QED BY <1>5, <1>6 DEF Orders

LEMMA TailOf ==
  ASSUME NEW T, NEW s \in Seq(T), s # <<>>
  PROVE  /\ 1 \in DOMAIN s /\ s[1] \in T /\ Tail(s) \in Seq(T)
         /\ \A i \in DOMAIN s : i = 1 \/ (i - 1 \in DOMAIN Tail(s) /\ Tail(s)[i - 1] = s[i])
         /\ \A i \in DOMAIN Tail(s) : i + 1 \in DOMAIN s /\ Tail(s)[i] = s[i + 1]
OBVIOUS

-----------------------------------------------------------------------------
(* The inductive invariants.                                                 *)

Pcs == {"idle", "temp", "rename", "count", "evict", "evicting"}
Named == BlockKeys \cup ListingKeys
Sizes == {0} \cup Lengths
Goroutine == [pc : Pcs, key : Named \cup {None}, len : Sizes, old : Sizes,
              todo : Seq(Keys \X Sizes)]

Disk == /\ bytes \in [Keys -> Sizes] /\ place \in [Keys -> Directories \cup {"top"}]
        /\ Orders(lru, Present) /\ had \subseteq Present \cap BlockKeys

Memory == /\ dirs \subseteq Directories /\ size \in Int
          /\ daemon \in {"down", "failed", "moving", "opening", "up"}
          /\ mu \in Writers \cup {None} /\ clear \in {"idle", "blocks", "listings", "reset"}
          /\ races \subseteq CacheRaces
          /\ moving \subseteq BlockKeys \cup Directories /\ (moving # {} => daemon = "moving")

\* What a goroutine writes has a name and a length; the lock is held to evict.
WriterOK(w) ==
  /\ writer[w].pc = "temp" => writer[w].key \in Named /\ writer[w].len \in Lengths
  /\ writer[w].pc \in {"rename", "count"} => /\ writer[w].key \in ListingKeys
                                          /\ writer[w].len \in Lengths
  /\ mu = w <=> writer[w].pc = "evicting"
  /\ writer[w].pc \in {"temp", "rename"} => Tree(writer[w].key) \in dirs
  /\ writer[w].pc # "idle" => daemon = "up"

WritersOK == writer \in [Writers -> Goroutine] /\ \A w \in Writers : WriterOK(w)

ClearedUp == clear # "idle" => daemon = "up"

\* Where an entry of each kind can be, and in directories that are there.
PlaceRight(k) ==
  /\ k \in ListingKeys => place[k] = "listings"
  /\ k \in Strays => place[k] \in {"blocks", "blocks.migrating"}
  /\ k \in BlockKeys => place[k] # "listings"
  /\ place[k] = "top" \/ place[k] \in dirs
PlacesRight == \A k \in Present : PlaceRight(k)

\* A layout that has its blocks directory has nothing of the one before.
Migrated == daemon \in {"opening", "up"} \/ "blocks" \in dirs =>
  "blocks.migrating" \notin dirs /\ \A k \in Present : place[k] # "top"

\* A migration has still to move what lies at the top.
Migrates == daemon = "moving" =>
  /\ "blocks" \notin dirs /\ "blocks.migrating" \in dirs
  /\ \A k \in Present : place[k] = "top" => k \in moving
  /\ "listings" \in moving => "listings" \in dirs

\* The listings are moved as one.
MovedOnce == \A k \in Strays \cap Present : place[k] = "blocks.migrating" => "listings" \notin dirs

CacheInv == /\ Disk /\ Memory /\ WritersOK /\ ClearedUp
            /\ PlacesRight /\ Migrated /\ Migrates /\ MovedOnce

-----------------------------------------------------------------------------
(* Lemmas on keys, and on what a step leaves alone.                          *)

LEMMA KeyFacts ==
  /\ Named \cap Strays = {} /\ BlockKeys \cap ListingKeys = {} /\ BlockKeys \cap Strays = {}
  /\ ListingKeys \cap Strays = {} /\ Keys = Named \cup Strays /\ Named \subseteq Keys
  /\ \A l \in ListingKeys : Stray(l) \in Strays /\ Stray(l)[1] = l
  /\ \A k \in Strays : k[1] \in ListingKeys /\ Stray(k[1]) = k
  /\ "listings" \notin BlockKeys /\ "blocks.migrating" \notin BlockKeys
BY BlockCacheAssumption DEF Keys, Named, Strays, Stray

LEMMA KeysFinite == IsFiniteSet(Keys)
<1>1. IsFiniteSet(Strays)
  <2> DEFINE f == [l \in ListingKeys |-> Stray(l)]
  <2>1. f \in Surjection(ListingKeys, Strays)
    BY DEF Surjection, Strays
  <2> QED BY <2>1, BlockCacheAssumption, FS_Surjection
<1> QED BY <1>1, BlockCacheAssumption, FS_Union DEF Keys

LEMMA SizeFacts == Sizes \subseteq Nat /\ 0 \in Sizes /\ \A n \in Sizes : n > 0 <=> n \in Lengths
BY BlockCacheAssumption DEF Sizes

LEMMA TotalType == ASSUME bytes \in [Keys -> Sizes] PROVE Total \in Nat
<1>1. bytes \in [Keys -> Nat]
  BY SizeFacts
<1> QED BY <1>1, KeysFinite, SumOfNats DEF Total

LEMMA DiskStays ==
  ASSUME Disk, UNCHANGED <<bytes, place, lru, had>>
  PROVE  Disk' /\ Present' = Present
<1>1. Present' = Present
  BY DEF Present
<1> QED BY <1>1 DEF Disk, Orders

LEMMA WriterStep ==
  ASSUME WritersOK, NEW w \in Writers, NEW r \in Goroutine, writer' = [writer EXCEPT ![w] = r]
  PROVE  /\ writer' \in [Writers -> Goroutine] /\ writer'[w] = r
         /\ \A v \in Writers : v # w => writer'[v] = writer[v]
BY DEF WritersOK

LEMMA NoWriterType == NoWriter \in Goroutine
BY DEF NoWriter, Goroutine, Pcs, Sizes

LEMMA InitInv == Init => CacheInv
<1> SUFFICES ASSUME Init PROVE CacheInv
  OBVIOUS
<1> USE DEF Init
<1>1. Present = OldLayout /\ OldLayout \subseteq BlockKeys /\ OldLayout \subseteq Keys
  BY KeyFacts, BlockCacheAssumption DEF Present, Keys
<1>2. Disk
  <2>1. IsFiniteSet(OldLayout)
    BY BlockCacheAssumption, FS_Subset
  <2>2. Orders(lru, Present)
    BY <1>1, <2>1, SeqsOrder
  <2>3. place \in [Keys -> Directories \cup {"top"}]
    BY DEF Tree, Directories
  <2>4. bytes \in [Keys -> Sizes]
    BY DEF Sizes
  <2> QED BY <1>1, <2>2, <2>3, <2>4 DEF Disk
<1>3. Memory
  BY DEF Memory
<1>4. WritersOK
  <2>1. writer \in [Writers -> Goroutine]
    BY NoWriterType
  <2>2. ASSUME NEW w \in Writers PROVE WriterOK(w)
    BY BlockCacheAssumption DEF WriterOK, NoWriter
  <2> QED BY <2>1, <2>2 DEF WritersOK
<1>5. PlacesRight /\ Migrated /\ Migrates /\ MovedOnce /\ ClearedUp
  BY <1>1, KeyFacts DEF PlacesRight, PlaceRight, Migrated, Migrates, MovedOnce, ClearedUp
<1> QED BY <1>2, <1>3, <1>4, <1>5 DEF CacheInv

-----------------------------------------------------------------------------
(* OpenBlockCache and migrateLayout.                                         *)

LEMMA StartInv == ASSUME CacheInv, Start PROVE CacheInv'
<1> USE DEF CacheInv
<1>1. Disk' /\ Present' = Present
  BY DiskStays DEF Start
<1>2. \A k \in Present : place[k] = "top" => k \in BlockKeys
  BY DEF PlacesRight, PlaceRight, Present, Keys
<1>3. In("top") \subseteq BlockKeys
  BY <1>2 DEF In
<1>4. Memory'
  BY <1>3 DEF Memory, Start, TopEntries, Directories, MigratingDir
<1>5. WritersOK'
  BY DEF WritersOK, WriterOK, Start, MigratingDir, Tree
<1>6. ClearedUp'
  BY DEF ClearedUp, Start
<1>7. PlacesRight'
  BY <1>1 DEF PlacesRight, PlaceRight, Start
<1>8. Migrated'
  BY <1>1 DEF Migrated, Start, TopEntries, In, MigratingDir
<1>9. Migrates'
  <2> SUFFICES ASSUME daemon' = "moving" PROVE Migrates'
    BY DEF Migrates
  <2>1. "blocks" \notin dirs /\ moving' = TopEntries /\ dirs' = dirs \cup {"blocks.migrating"}
        /\ place' = place
    BY DEF Start, MigratingDir
  <2>2. "listings" \in moving' => "listings" \in dirs'
    BY <1>3, <2>1, KeyFacts DEF TopEntries
  <2> QED BY <1>1, <2>1, <2>2 DEF Migrates, TopEntries, In
<1>10. MovedOnce'
  BY <1>1 DEF MovedOnce, Start, MigratingDir
<1> QED BY <1>1, <1>4, <1>5, <1>6, <1>7, <1>8, <1>9, <1>10

LEMMA MoveBlockInv == ASSUME CacheInv, NEW b \in BlockKeys, MoveBlock(b) PROVE CacheInv'
<1> USE DEF CacheInv
<1>1. Present' = Present
  BY DEF Present, MoveBlock
<1>2. place' = [place EXCEPT ![b] = "blocks.migrating"] /\ b \in Keys /\ b \notin ListingKeys
      /\ b \notin Strays
  BY KeyFacts DEF MoveBlock, MigratingDir, Named
<1>3. place'[b] = "blocks.migrating" /\ \A k \in Keys : k # b => place'[k] = place[k]
  BY <1>2 DEF Disk
<1>4. Disk'
  BY <1>1, <1>2 DEF Disk, MoveBlock, Orders, Directories
<1>5. Memory'
  BY DEF Memory, MoveBlock
<1>6. WritersOK'
  BY DEF WritersOK, WriterOK, MoveBlock, Tree
<1>7. ClearedUp'
  BY DEF ClearedUp, MoveBlock
<1>8. PlacesRight'
  BY <1>1, <1>2, <1>3 DEF PlacesRight, PlaceRight, MoveBlock, Migrates, Present
<1>9. Migrated'
  BY <1>1, <1>3 DEF Migrated, MoveBlock, Migrates
<1>10. Migrates'
  BY <1>1, <1>3, KeyFacts DEF Migrates, MoveBlock, Present
<1>11. MovedOnce'
  BY <1>1, <1>2, <1>3 DEF MovedOnce, MoveBlock, Present
<1> QED BY <1>4, <1>5, <1>6, <1>7, <1>8, <1>9, <1>10, <1>11

LEMMA MoveListingsInv == ASSUME CacheInv, MoveListings PROVE CacheInv'
<1> USE DEF CacheInv
<1>a. daemon = "moving" /\ "listings" \in moving /\ "listings" \in dirs
      /\ "blocks.migrating" \in dirs /\ "blocks" \notin dirs
  BY DEF MoveListings, Migrates
<1>b. \A k \in Strays : bytes[k] = 0
  <2> SUFFICES ASSUME NEW k \in Strays, bytes[k] # 0 PROVE FALSE
    OBVIOUS
  <2>1. k \in Present
    <3>1. k \in Keys /\ bytes[k] \in Nat
      BY SizeFacts DEF Disk, Keys
    <3> QED BY <3>1 DEF Present
  <2> QED BY <2>1, <1>a DEF PlacesRight, PlaceRight, MovedOnce
<1>c. bytes' = [k \in Keys |->
                  IF k \in ListingKeys THEN 0
                  ELSE IF k \in Strays /\ bytes[k[1]] > 0 THEN bytes[k[1]] ELSE bytes[k]]
  BY KeyFacts DEF MoveListings
<1>d. \A k \in ListingKeys : k \in Keys
  BY DEF Keys
<1>1. bytes' \in [Keys -> Sizes]
  BY <1>c, <1>d, KeyFacts DEF Disk, Sizes
<1>2. \A k \in Keys : bytes'[k] = IF k \in ListingKeys THEN 0
                                  ELSE IF k \in Strays THEN bytes[k[1]] ELSE bytes[k]
  BY <1>c, <1>b, <1>d, KeyFacts, SizeFacts DEF Disk
<1>3. Present' = (Present \ ListingKeys) \cup {Stray(l) : l \in Present \cap ListingKeys}
  <2>1. ASSUME NEW k \in Present'
        PROVE  k \in (Present \ ListingKeys) \cup {Stray(l) : l \in Present \cap ListingKeys}
    BY <2>1, <1>2, <1>d, KeyFacts DEF Present
  <2>2. ASSUME NEW k \in Present \ ListingKeys PROVE k \in Present'
    BY <1>2, <1>b DEF Present
  <2>3. ASSUME NEW l \in Present \cap ListingKeys PROVE Stray(l) \in Present'
    BY <1>2, KeyFacts DEF Present, Keys
  <2> QED BY <2>1, <2>2, <2>3
<1>4. \A k \in Present : k \notin Strays
  BY <1>b DEF Present
<1>5. place' = [k \in Keys |->
                  IF k \in Strays /\ bytes[k[1]] > 0 THEN "blocks.migrating" ELSE place[k]]
  BY DEF MoveListings, MigratingDir
<1>6. Orders(lru', Present')
  <2>1. lru \in Seq(Keys) /\ ToSet(lru) = Present /\ IsInjective(lru) /\ Len(lru) \in Nat
        /\ DOMAIN lru = 1..Len(lru) /\ \A i \in DOMAIN lru : lru[i] \in Present
    BY SeqFacts DEF Disk, Orders, ToSet
  <2>2. lru' = [i \in 1..Len(lru) |-> IF lru[i] \in ListingKeys THEN Stray(lru[i]) ELSE lru[i]]
    BY <2>1 DEF MoveListings
  <2>3. \A i \in 1..Len(lru) : lru'[i] = IF lru[i] \in ListingKeys THEN Stray(lru[i]) ELSE lru[i]
    BY <2>2
  <2>4. \A i \in 1..Len(lru) : lru'[i] \in Keys
    BY <2>1, <2>3, KeyFacts DEF Present, Keys
  <2>5. lru' \in Seq(Keys) /\ DOMAIN lru' = 1..Len(lru)
    BY <2>1, <2>2, <2>4
  <2>6. IsInjective(lru')
    <3> SUFFICES ASSUME NEW i \in 1..Len(lru), NEW j \in 1..Len(lru), lru'[i] = lru'[j] PROVE i = j
      BY <2>5 DEF IsInjective
    <3>1. lru[i] = lru[j]
      BY <2>1, <2>3, <1>4, KeyFacts
    <3> QED BY <3>1, <2>1 DEF IsInjective
  <2>7. ToSet(lru') = Present'
    <3>1. ASSUME NEW i \in DOMAIN lru' PROVE lru'[i] \in Present'
      BY <2>1, <2>3, <2>5, <1>3
    <3>2. ASSUME NEW k \in Present \ ListingKeys PROVE \E i \in DOMAIN lru' : lru'[i] = k
      BY <2>1, <2>3, <2>5 DEF ToSet
    <3>3. ASSUME NEW l \in Present \cap ListingKeys PROVE \E i \in DOMAIN lru' : lru'[i] = Stray(l)
      BY <2>1, <2>3, <2>5 DEF ToSet
    <3> QED BY <3>1, <3>2, <3>3, <1>3 DEF ToSet
  <2> QED BY <2>5, <2>6, <2>7 DEF Orders
<1>7. place' \in [Keys -> Directories \cup {"top"}]
  BY <1>5 DEF Disk, Directories
<1>8. had' \subseteq Present' \cap BlockKeys
  BY <1>3, KeyFacts DEF Disk, MoveListings
<1>9. Disk'
  BY <1>1, <1>6, <1>7, <1>8 DEF Disk
<1>10. Memory'
  BY <1>a DEF Memory, MoveListings, Note, CacheRaces
<1>11. WritersOK'
  BY <1>a DEF WritersOK, WriterOK, MoveListings
<1>12. ClearedUp'
  BY DEF ClearedUp, MoveListings
<1>13. \A k \in Present' : IF k \in Strays THEN place'[k] = "blocks.migrating"
                           ELSE k \in Present /\ k \in BlockKeys /\ place'[k] = place[k]
  <2> TAKE k \in Present'
  <2>1. k \in Keys
    BY DEF Present
  <2>2. CASE k \in Strays
    <3>1. bytes[k[1]] > 0
      BY <2>2, <2>1, <1>2, KeyFacts DEF Present
    <3> QED BY <3>1, <2>1, <2>2, <1>5
  <2>3. CASE k \notin Strays
    BY <2>3, <2>1, <1>3, <1>5, KeyFacts DEF Named
  <2> QED BY <2>2, <2>3
<1>14. dirs' = dirs \ {"listings"}
  BY DEF MoveListings
<1>15. PlacesRight'
  BY <1>13, <1>14, <1>a, KeyFacts DEF PlacesRight, PlaceRight
<1>16. Migrated'
  BY <1>a, <1>14 DEF Migrated, MoveListings
<1>17. Migrates'
  <2>1. moving' = moving \ {"listings"} /\ daemon' = daemon
    BY DEF MoveListings
  <2>2. ASSUME NEW k \in Present', place'[k] = "top" PROVE k \in moving'
    BY <2>1, <2>2, <1>a, <1>13, KeyFacts DEF Migrates
  <2> QED BY <2>1, <2>2, <1>a, <1>14 DEF Migrates
<1>18. MovedOnce'
  BY <1>14 DEF MovedOnce
<1> QED BY <1>9, <1>10, <1>11, <1>12, <1>15, <1>16, <1>17, <1>18

LEMMA MoveFailsInv == ASSUME CacheInv, MoveFails PROVE CacheInv'
<1> USE DEF CacheInv
<1>1. Disk' /\ Present' = Present
  BY DiskStays DEF MoveFails
<1>2. Memory' /\ ClearedUp'
  BY DEF Memory, ClearedUp, MoveFails
<1>3. WritersOK'
  BY DEF WritersOK, WriterOK, MoveFails, Tree
<1>4. PlacesRight' /\ Migrated' /\ Migrates' /\ MovedOnce'
  BY <1>1 DEF PlacesRight, PlaceRight, Migrated, Migrates, MovedOnce, MoveFails
<1> QED BY <1>1, <1>2, <1>3, <1>4

LEMMA MoveEndsInv == ASSUME CacheInv, MoveEnds PROVE CacheInv'
<1> USE DEF CacheInv
<1>1. Present' = Present /\ dirs' = (dirs \ {"blocks.migrating"}) \cup {"blocks"}
  BY DEF Present, MoveEnds, MigratingDir
<1>2. \A k \in Keys : place'[k] = IF place[k] = "blocks.migrating" THEN "blocks" ELSE place[k]
  BY DEF MoveEnds, MigratingDir
<1>3. place' \in [Keys -> Directories \cup {"top"}]
  BY DEF MoveEnds, Disk, Directories
<1>4. Disk'
  BY <1>1, <1>3 DEF Disk, MoveEnds, Orders
<1>5. Memory' /\ ClearedUp'
  BY DEF Memory, ClearedUp, MoveEnds, MigratingDir, Directories
<1>6. WritersOK'
  BY DEF WritersOK, WriterOK, MoveEnds, Tree
<1>7. PlacesRight'
  BY <1>1, <1>2 DEF PlacesRight, PlaceRight, Present
<1>8. \A k \in Present : place[k] # "top"
  BY DEF Migrates, MoveEnds
<1>9. Migrated' /\ Migrates' /\ MovedOnce'
  BY <1>1, <1>2, <1>8 DEF Migrated, Migrates, MovedOnce, MoveEnds, Present
<1> QED BY <1>4, <1>5, <1>6, <1>7, <1>9

LEMMA OpenInv == ASSUME CacheInv, Open PROVE CacheInv'
<1> USE DEF CacheInv
<1>1. Disk' /\ Present' = Present
  BY DiskStays DEF Open
<1>2. Total \in Int
  BY TotalType DEF Disk
<1>3. Memory' /\ ClearedUp'
  BY <1>2 DEF Memory, ClearedUp, Open, Directories, Note, CacheRaces
<1>4. WritersOK'
  BY DEF WritersOK, WriterOK, Open, Tree
<1>5. MovedOnce'
  BY <1>1 DEF MovedOnce, Migrated, PlacesRight, PlaceRight, Open, Present
<1>6. PlacesRight' /\ Migrated' /\ Migrates'
  BY <1>1 DEF PlacesRight, PlaceRight, Migrated, Migrates, Open
<1> QED BY <1>1, <1>3, <1>4, <1>5, <1>6

LEMMA KillInv == ASSUME CacheInv, Kill PROVE CacheInv'
<1> USE DEF CacheInv
<1>1. Disk' /\ Present' = Present
  BY DiskStays DEF Kill
<1>2. Memory' /\ ClearedUp'
  BY DEF Memory, ClearedUp, Kill
<1>3. WritersOK'
  <2>1. writer' \in [Writers -> Goroutine]
    BY NoWriterType DEF Kill
  <2>2. ASSUME NEW w \in Writers PROVE WriterOK(w)'
    BY BlockCacheAssumption DEF WriterOK, NoWriter, Kill
  <2> QED BY <2>1, <2>2 DEF WritersOK
<1>4. PlacesRight' /\ Migrated' /\ Migrates' /\ MovedOnce'
  BY <1>1 DEF PlacesRight, PlaceRight, Migrated, Migrates, MovedOnce, Kill
<1> QED BY <1>1, <1>2, <1>3, <1>4

-----------------------------------------------------------------------------
(* The clear.                                                                *)

LEMMA BeginClearInv == ASSUME CacheInv, BeginClear PROVE CacheInv'
<1> USE DEF CacheInv
<1>1. Disk' /\ Present' = Present
  BY DiskStays DEF BeginClear
<1>2. Memory' /\ ClearedUp'
  BY DEF Memory, ClearedUp, BeginClear
<1>3. WritersOK'
  BY DEF WritersOK, WriterOK, BeginClear, Tree
<1>4. PlacesRight' /\ Migrated' /\ Migrates' /\ MovedOnce'
  BY <1>1 DEF PlacesRight, PlaceRight, Migrated, Migrates, MovedOnce, BeginClear
<1> QED BY <1>1, <1>2, <1>3, <1>4

LEMMA ResetInv == ASSUME CacheInv, ResetCacheSize PROVE CacheInv'
<1> USE DEF CacheInv
<1>1. Disk' /\ Present' = Present
  BY DiskStays DEF ResetCacheSize
<1>2. Memory' /\ ClearedUp'
  BY DEF Memory, ClearedUp, ResetCacheSize, Serving, Note, CacheRaces
<1>3. WritersOK'
  BY DEF WritersOK, WriterOK, ResetCacheSize, Serving, Tree
<1>4. PlacesRight' /\ Migrated' /\ Migrates' /\ MovedOnce'
  BY <1>1 DEF PlacesRight, PlaceRight, Migrated, Migrates, MovedOnce, ResetCacheSize, Serving
<1> QED BY <1>1, <1>2, <1>3, <1>4

LEMMA RemovedDisk ==
  ASSUME Disk, NEW gone, Removed(gone), place' = place
  PROVE  Disk' /\ Present' = Present \ gone
<1>1. bytes' \in [Keys -> Sizes] /\ \A k \in Keys : bytes'[k] = IF k \in gone THEN 0 ELSE bytes[k]
  BY DEF Removed, Disk, Sizes
<1>2. Present' = Present \ gone
  BY <1>1 DEF Present
<1>3. Orders(lru', Present')
  <2>1. Orders(Without(gone), Present \ gone)
    BY WithoutOrders DEF Disk
  <2> QED BY <2>1, <1>2 DEF Removed, Orders
<1> QED BY <1>1, <1>2, <1>3 DEF Disk, Removed

LEMMA ClearTreeInv == ASSUME CacheInv, ClearTree PROVE CacheInv'
<1> USE DEF CacheInv
<1>0. /\ daemon = "up" /\ daemon' = daemon /\ moving' = moving /\ place' = place
      /\ clear \in {"blocks", "listings"} /\ dirs' = dirs \ {clear} /\ mu' = mu
      /\ size' = size /\ races' = races
  BY DEF ClearTree, ClearedUp, Serving
<1>1. Disk' /\ Present' = Present \ In(clear)
  BY <1>0, RemovedDisk DEF ClearTree
<1>2. Memory' /\ ClearedUp'
  BY <1>0 DEF Memory, ClearedUp, ClearTree
<1>3. WritersOK'
  <2>1. writer' = [w \in Writers |-> IF w \in Writing(clear) THEN NoWriter ELSE writer[w]]
    BY DEF ClearTree
  <2>2. writer' \in [Writers -> Goroutine]
    BY <2>1, NoWriterType DEF WritersOK
  <2>3. ASSUME NEW w \in Writers PROVE WriterOK(w)'
    <3>1. WriterOK(w)
      BY DEF WritersOK
    <3>2. CASE w \in Writing(clear)
      <4>1. writer'[w] = NoWriter
        BY <2>1, <3>2
      <4>2. writer[w].pc # "evicting"
        BY <3>2 DEF Writing
      <4> QED BY <4>1, <4>2, <3>1, <1>0 DEF WriterOK, NoWriter
    <3>3. CASE w \notin Writing(clear)
      <4>1. writer'[w] = writer[w]
        BY <2>1, <3>3
      <4>2. writer[w].pc \in {"temp", "rename"} => Tree(writer[w].key) # clear
        BY <3>3 DEF Writing
      <4> QED BY <4>1, <4>2, <3>1, <1>0 DEF WriterOK, Tree
    <3> QED BY <3>2, <3>3
  <2> QED BY <2>2, <2>3 DEF WritersOK
<1>4. PlacesRight' /\ Migrated' /\ Migrates' /\ MovedOnce'
  BY <1>0, <1>1 DEF PlacesRight, PlaceRight, Migrated, Migrates, MovedOnce, In
<1> QED BY <1>1, <1>2, <1>3, <1>4

LEMMA ClearFailsInv == ASSUME CacheInv, ClearFails PROVE CacheInv'
<1> USE DEF CacheInv
<1>0. /\ daemon = "up" /\ daemon' = daemon /\ moving' = moving /\ place' = place
      /\ clear' = "reset" /\ dirs' = dirs /\ mu' = mu /\ writer' = writer
      /\ size' = size /\ races' = races
  BY DEF ClearFails, ClearedUp, Serving
<1>1. PICK gone : Removed(gone)
  BY DEF ClearFails
<1>2. Disk' /\ Present' = Present \ gone
  BY <1>0, <1>1, RemovedDisk
<1>3. Memory' /\ ClearedUp'
  BY <1>0 DEF Memory, ClearedUp
<1>4. WritersOK'
  BY <1>0 DEF WritersOK, WriterOK, Tree
<1>5. PlacesRight' /\ Migrated' /\ Migrates' /\ MovedOnce'
  BY <1>0, <1>2 DEF PlacesRight, PlaceRight, Migrated, Migrates, MovedOnce
<1> QED BY <1>2, <1>3, <1>4, <1>5

-----------------------------------------------------------------------------
(* Put, PutListing, Get, GetListing and evict.                               *)

LEMMA OthersOK ==
  ASSUME WritersOK, NEW w \in Writers, NEW v \in Writers, writer'[v] = writer[v],
         daemon' = daemon, dirs \subseteq dirs', mu' = mu \/ (mu = None /\ mu' = w)
                                                      \/ (mu = w /\ mu' = None), v # w
  PROVE  WriterOK(v)'
BY BlockCacheAssumption DEF WritersOK, WriterOK, Tree

LEMMA BeginPutInv ==
  ASSUME CacheInv, NEW w \in Writers, NEW k \in Named, NEW len \in Lengths, BeginPut(w, k, len)
  PROVE  CacheInv'
<1> USE DEF CacheInv
<1>0. /\ daemon = "up" /\ daemon' = daemon /\ moving' = moving /\ place' = place /\ mu' = mu
      /\ dirs' = dirs \cup {Tree(k)} /\ clear' = clear /\ size' = size /\ races' = races
      /\ Tree(k) \in {"blocks", "listings"} /\ writer[w].pc = "idle"
  BY DEF BeginPut, Tree
<1>1. Disk' /\ Present' = Present
  BY DiskStays DEF BeginPut
<1>2. Memory' /\ ClearedUp'
  BY <1>0 DEF Memory, ClearedUp, Directories
<1> DEFINE r == [NoWriter EXCEPT !.pc = "temp", !.key = k, !.len = len]
<1>3. /\ r \in Goroutine /\ r.pc = "temp" /\ r.key = k /\ r.len = len
      /\ writer' = [writer EXCEPT ![w] = r]
  BY NoWriterType DEF Goroutine, Pcs, Sizes, BeginPut
<1> HIDE DEF r
<1>4. WritersOK'
  <2>1. writer' \in [Writers -> Goroutine] /\ writer'[w] = r
        /\ \A v \in Writers : v # w => writer'[v] = writer[v]
    BY <1>3, WriterStep
  <2>2. WriterOK(w)'
    BY <1>0, <1>3, <2>1 DEF WriterOK, WritersOK, Tree
  <2>3. \A v \in Writers : v # w => WriterOK(v)'
    BY <1>0, <2>1, OthersOK
  <2> QED BY <2>1, <2>2, <2>3 DEF WritersOK
<1>5. MovedOnce'
  BY <1>0, <1>1 DEF MovedOnce, Migrated, PlacesRight, PlaceRight, Present
<1>6. PlacesRight' /\ Migrated' /\ Migrates'
  BY <1>0, <1>1 DEF PlacesRight, PlaceRight, Migrated, Migrates
<1> QED BY <1>1, <1>2, <1>4, <1>5, <1>6

LEMMA RenamedDisk ==
  ASSUME CacheInv, NEW w \in Writers, NEW k \in Named, writer[w].key = k, writer[w].len \in Lengths,
         Tree(k) \in dirs, daemon = "up", Renamed(w),
         UNCHANGED <<had, dirs, daemon, moving>>
  PROVE  /\ Disk' /\ PlacesRight' /\ Migrated' /\ Migrates' /\ MovedOnce'
         /\ bytes' = [bytes EXCEPT ![k] = writer[w].len] /\ Present' = Present \cup {k}
<1> USE DEF CacheInv
<1>1. k \in Keys /\ k \notin Strays
  BY KeyFacts
<1>2. bytes' = [bytes EXCEPT ![k] = writer[w].len] /\ place' = [place EXCEPT ![k] = Tree(k)]
      /\ lru' = Touched(k)
  BY DEF Renamed
<1>3. /\ bytes' \in [Keys -> Sizes] /\ bytes'[k] = writer[w].len
      /\ \A x \in Keys : x # k => bytes'[x] = bytes[x] /\ place'[x] = place[x]
      /\ place'[k] = Tree(k) /\ place' \in [Keys -> Directories \cup {"top"}]
  BY <1>1, <1>2 DEF Disk, Sizes, Tree, Directories
<1>4. Present' = Present \cup {k}
  <2>1. writer[w].len > 0
    BY SizeFacts DEF Sizes
  <2> QED BY <1>1, <1>3, <2>1 DEF Present
<1>5. Orders(lru', Present')
  <2>1. Orders(Touched(k), Present \cup {k})
    BY <1>1, TouchedOrders DEF Disk
  <2> QED BY <2>1, <1>2, <1>4 DEF Orders
<1>6. Disk'
  BY <1>3, <1>4, <1>5 DEF Disk
<1>7. \A x \in Present' : x = k \/ (x \in Present /\ place'[x] = place[x])
  BY <1>3, <1>4 DEF Present
<1>8. PlacesRight'
  <2>1. PlaceRight(k)'
    BY <1>1, <1>3, KeyFacts DEF PlaceRight, Tree
  <2>2. ASSUME NEW x \in Present', x # k PROVE PlaceRight(x)'
    BY <2>2, <1>7 DEF PlacesRight, PlaceRight
  <2> QED BY <2>1, <2>2 DEF PlacesRight
<1>9. Migrated' /\ Migrates'
  BY <1>3, <1>7 DEF Migrated, Migrates, Tree
<1>10. MovedOnce'
  BY <1>1, <1>7 DEF MovedOnce
<1> QED BY <1>2, <1>4, <1>6, <1>8, <1>9, <1>10

LEMMA PutBlockInv == ASSUME CacheInv, NEW w \in Writers, PutBlock(w) PROVE CacheInv'
<1> USE DEF CacheInv
<1> DEFINE k == writer[w].key
<1>0. /\ daemon' = daemon /\ moving' = moving /\ dirs' = dirs /\ clear' = clear /\ races' = races
      /\ had' = had /\ mu' = mu /\ writer[w].pc = "temp" /\ daemon = "up"
      /\ k \in Named /\ k \in Keys /\ writer[w].len \in Lengths /\ Tree(k) \in dirs
  BY KeyFacts DEF PutBlock, Serving, WritersOK, WriterOK
<1>1. Disk' /\ PlacesRight' /\ Migrated' /\ Migrates' /\ MovedOnce'
  BY <1>0, RenamedDisk DEF PutBlock
<1>2. size' \in Int
  <2>1. size \in Int /\ writer[w].len \in Int /\ bytes[k] \in Int
    BY <1>0, SizeFacts DEF Memory, Disk, Sizes
  <2> QED BY <2>1 DEF PutBlock
<1>3. Memory' /\ ClearedUp'
  BY <1>0, <1>2 DEF Memory, ClearedUp
<1> DEFINE r == [writer[w] EXCEPT !.pc = "evict"]
<1>4. /\ r \in Goroutine /\ r.pc = "evict" /\ writer' = [writer EXCEPT ![w] = r]
  BY DEF PutBlock, Step, WritersOK, Goroutine, Pcs
<1> HIDE DEF r
<1>5. WritersOK'
  <2>1. writer' \in [Writers -> Goroutine] /\ writer'[w] = r
        /\ \A v \in Writers : v # w => writer'[v] = writer[v]
    BY <1>4, WriterStep
  <2>2. WriterOK(w)'
    BY <1>0, <1>4, <2>1 DEF WriterOK, WritersOK
  <2>3. \A v \in Writers : v # w => WriterOK(v)'
    BY <1>0, <2>1, OthersOK
  <2> QED BY <2>1, <2>2, <2>3 DEF WritersOK
<1> QED BY <1>1, <1>3, <1>5

\* A step of a goroutine that touches no entry.
LEMMA WriterOnly ==
  ASSUME CacheInv, NEW w \in Writers, NEW r \in Goroutine, writer' = [writer EXCEPT ![w] = r],
         UNCHANGED <<bytes, place, lru, had, dirs, daemon, moving, clear, races>>,
         size' \in Int, mu' = mu \/ (mu = None /\ mu' = w) \/ (mu = w /\ mu' = None),
         WriterOK(w)'
  PROVE  CacheInv'
<1> USE DEF CacheInv
<1>1. Disk' /\ Present' = Present
  BY DiskStays
<1>2. Memory' /\ ClearedUp'
  BY DEF Memory, ClearedUp
<1>3. WritersOK'
  <2>1. writer' \in [Writers -> Goroutine]
        /\ \A v \in Writers : v # w => writer'[v] = writer[v]
    BY WriterStep
  <2>2. \A v \in Writers : v # w => WriterOK(v)'
    BY <2>1, OthersOK
  <2> QED BY <2>1, <2>2 DEF WritersOK
<1>4. PlacesRight' /\ Migrated' /\ Migrates' /\ MovedOnce'
  BY <1>1 DEF PlacesRight, PlaceRight, Migrated, Migrates, MovedOnce
<1> QED BY <1>1, <1>2, <1>3, <1>4

LEMMA StatListingInv == ASSUME CacheInv, NEW w \in Writers, StatListing(w) PROVE CacheInv'
<1> USE DEF CacheInv
<1> DEFINE k == writer[w].key
           r == [writer[w] EXCEPT !.pc = "rename", !.old = bytes[k]]
<1>1. /\ writer[w].pc = "temp" /\ k \in ListingKeys /\ k \in Keys /\ bytes[k] \in Sizes
      /\ writer[w] \in Goroutine /\ WriterOK(w) /\ size \in Int
  BY KeyFacts DEF StatListing, WritersOK, Disk, Named, Memory
<1>2. r \in Goroutine /\ r.pc = "rename" /\ r.key = k /\ r.len = writer[w].len
      /\ writer' = [writer EXCEPT ![w] = r]
  BY <1>1 DEF Goroutine, Pcs, StatListing
<1>3. writer'[w] = r
  BY <1>1, <1>2 DEF WritersOK
<1> HIDE DEF r
<1>4. WriterOK(w)'
  BY <1>1, <1>2, <1>3 DEF WriterOK, Tree, StatListing, Serving
<1> QED BY <1>1, <1>2, <1>4, WriterOnly DEF StatListing, Serving

LEMMA RenameListingInv == ASSUME CacheInv, NEW w \in Writers, RenameListing(w) PROVE CacheInv'
<1> USE DEF CacheInv
<1> DEFINE k == writer[w].key
<1>0. /\ daemon' = daemon /\ moving' = moving /\ dirs' = dirs /\ clear' = clear /\ size' = size
      /\ had' = had /\ mu' = mu /\ writer[w].pc = "rename" /\ daemon = "up"
      /\ k \in Named /\ k \in ListingKeys /\ writer[w].len \in Lengths /\ Tree(k) \in dirs
  BY DEF RenameListing, Serving, WritersOK, WriterOK, Named
<1>1. Disk' /\ PlacesRight' /\ Migrated' /\ Migrates' /\ MovedOnce'
  BY <1>0, RenamedDisk DEF RenameListing
<1>2. races' \subseteq CacheRaces
  BY DEF RenameListing, Note, Memory, CacheRaces
<1>3. Memory' /\ ClearedUp'
  BY <1>0, <1>2 DEF Memory, ClearedUp
<1> DEFINE r == [writer[w] EXCEPT !.pc = "count"]
<1>4. /\ r \in Goroutine /\ r.pc = "count" /\ r.key = k /\ r.len = writer[w].len
      /\ writer' = [writer EXCEPT ![w] = r]
  BY DEF RenameListing, Step, WritersOK, Goroutine, Pcs
<1> HIDE DEF r
<1>5. WritersOK'
  <2>1. writer' \in [Writers -> Goroutine] /\ writer'[w] = r
        /\ \A v \in Writers : v # w => writer'[v] = writer[v]
    BY <1>4, WriterStep
  <2>2. WriterOK(w)'
    BY <1>0, <1>4, <2>1 DEF WriterOK, WritersOK
  <2>3. \A v \in Writers : v # w => WriterOK(v)'
    BY <1>0, <2>1, OthersOK
  <2> QED BY <2>1, <2>2, <2>3 DEF WritersOK
<1> QED BY <1>1, <1>3, <1>5

LEMMA CountListingInv == ASSUME CacheInv, NEW w \in Writers, CountListing(w) PROVE CacheInv'
<1> USE DEF CacheInv
<1> DEFINE r == [writer[w] EXCEPT !.pc = "evict"]
<1>1. writer[w].pc = "count" /\ writer[w] \in Goroutine /\ WriterOK(w) /\ size \in Int
  BY DEF CountListing, WritersOK, Memory
<1>2. r \in Goroutine /\ r.pc = "evict" /\ writer' = [writer EXCEPT ![w] = r]
  BY <1>1 DEF Goroutine, Pcs, CountListing, Step
<1>3. writer'[w] = r
  BY <1>1, <1>2 DEF WritersOK
<1> HIDE DEF r
<1>4. WriterOK(w)'
  BY <1>1, <1>2, <1>3 DEF WriterOK, CountListing, Serving
<1>5. size' \in Int
  <2>0. writer[w].len \in Sizes /\ writer[w].old \in Sizes
    BY <1>1 DEF Goroutine
  <2>1. PICK a \in Sizes, b \in Sizes : a = writer[w].len /\ b = writer[w].old
    BY <2>0
  <2>2. a \in Int /\ b \in Int
    BY SizeFacts
  <2> QED BY <2>1, <2>2, <1>1 DEF CountListing
<1> QED BY <1>2, <1>4, <1>5, WriterOnly DEF CountListing, Serving

LEMMA HitInv == ASSUME CacheInv, NEW k \in Keys, Hit(k) PROVE CacheInv'
<1> USE DEF CacheInv
<1>1. k \in Present /\ Present' = Present
  BY DEF Hit, In, Present
<1>2. Orders(lru', Present')
  <2>1. Orders(Touched(k), Present \cup {k})
    BY TouchedOrders DEF Disk
  <2>2. Present \cup {k} = Present
    BY <1>1
  <2> QED BY <2>1, <2>2, <1>1 DEF Hit, Orders
<1>3. Disk'
  BY <1>1, <1>2 DEF Disk, Hit
<1>4. Memory' /\ ClearedUp'
  BY DEF Memory, ClearedUp, Hit, Serving
<1>5. WritersOK'
  BY DEF WritersOK, WriterOK, Hit, Serving, Tree
<1>6. PlacesRight' /\ Migrated' /\ Migrates' /\ MovedOnce'
  BY <1>1 DEF PlacesRight, PlaceRight, Migrated, Migrates, MovedOnce, Hit, Serving
<1> QED BY <1>3, <1>4, <1>5, <1>6

LEMMA EvictNothingInv == ASSUME CacheInv, NEW w \in Writers, EvictNothing(w) PROVE CacheInv'
<1> USE DEF CacheInv
<1>1. writer[w].pc = "evict" /\ WriterOK(w) /\ writer' = [writer EXCEPT ![w] = NoWriter]
      /\ size' = size /\ size \in Int /\ mu' = mu /\ daemon' = daemon
  BY DEF EvictNothing, WritersOK, Memory, Serving
<1>2. writer'[w] = NoWriter
  BY <1>1 DEF WritersOK
<1>3. WriterOK(w)'
  BY <1>1, <1>2 DEF WriterOK, NoWriter
<1> QED BY <1>1, <1>3, NoWriterType, WriterOnly DEF EvictNothing, Serving

LEMMA EvictScanInv == ASSUME CacheInv, NEW w \in Writers, EvictScan(w) PROVE CacheInv'
<1> USE DEF CacheInv
<1> DEFINE s == [i \in DOMAIN lru |-> <<lru[i], bytes[lru[i]]>>]
           r == [writer[w] EXCEPT !.pc = "evicting", !.todo = s]
<1>1. /\ writer[w].pc = "evict" /\ writer[w] \in Goroutine /\ WriterOK(w) /\ mu = None /\ mu' = w
      /\ size' = size /\ size \in Int /\ daemon' = daemon
  BY DEF EvictScan, WritersOK, Memory, Serving
<1>2. s \in Seq(Keys \X Sizes)
  <2>1. lru \in Seq(Keys) /\ Len(lru) \in Nat /\ DOMAIN lru = 1..Len(lru)
        /\ \A i \in DOMAIN lru : lru[i] \in Keys /\ bytes[lru[i]] \in Sizes
    BY SeqFacts DEF Disk, Orders
  <2> QED BY <2>1
<1>3. r \in Goroutine /\ r.pc = "evicting" /\ writer' = [writer EXCEPT ![w] = r]
  BY <1>1, <1>2 DEF Goroutine, Pcs, EvictScan
<1>4. writer'[w] = r
  BY <1>1, <1>3 DEF WritersOK
<1> HIDE DEF r
<1>5. WriterOK(w)'
  BY <1>1, <1>3, <1>4 DEF WriterOK
<1> QED BY <1>1, <1>3, <1>5, WriterOnly DEF EvictScan, Serving

LEMMA EvictEndsInv == ASSUME CacheInv, NEW w \in Writers, EvictEnds(w) PROVE CacheInv'
<1> USE DEF CacheInv
<1>1. writer[w].pc = "evicting" /\ WriterOK(w) /\ writer' = [writer EXCEPT ![w] = NoWriter]
      /\ size' = size /\ size \in Int /\ mu' = None /\ daemon' = daemon
  BY DEF EvictEnds, WritersOK, Memory, Serving
<1>2. writer'[w] = NoWriter /\ mu = w
  BY <1>1 DEF WritersOK, WriterOK
<1>3. WriterOK(w)'
  BY <1>1, <1>2, BlockCacheAssumption DEF WriterOK, NoWriter
<1> QED BY <1>1, <1>2, <1>3, NoWriterType, WriterOnly DEF EvictEnds, Serving

LEMMA EvictNextInv == ASSUME CacheInv, NEW w \in Writers, EvictNext(w) PROVE CacheInv'
<1> USE DEF CacheInv
<1> DEFINE s == writer[w].todo
           r == [writer[w] EXCEPT !.todo = Tail(s)]
<1>1. /\ writer[w].pc = "evicting" /\ writer[w] \in Goroutine /\ WriterOK(w) /\ s # <<>>
      /\ s \in Seq(Keys \X Sizes) /\ size \in Int
      /\ UNCHANGED <<place, dirs, mu, clear, daemon, moving>>
  BY DEF EvictNext, WritersOK, Memory, Serving, Goroutine
<1>2. PICK k \in Keys, len \in Sizes : s[1] = <<k, len>>
  BY <1>1, TailOf
<1>3. IF bytes[k] = 0 THEN UNCHANGED <<bytes, lru, size, had, races>>
      ELSE /\ bytes' = [bytes EXCEPT ![k] = 0] /\ lru' = Without({k})
           /\ size' = size - len /\ had' = had \ {k}
           /\ Note("staleScan", bytes[k] # len)
  BY <1>2 DEF EvictNext
<1>4. r \in Goroutine /\ r.pc = "evicting" /\ writer' = [writer EXCEPT ![w] = r]
  BY <1>1, TailOf DEF Goroutine, EvictNext
<1>5. writer'[w] = r
  BY <1>1, <1>4 DEF WritersOK
<1> HIDE DEF r
<1>6. WriterOK(w)'
  BY <1>1, <1>4, <1>5 DEF WriterOK
<1>7. CASE bytes[k] = 0
  BY <1>1, <1>3, <1>4, <1>6, <1>7, WriterOnly
<1>8. CASE bytes[k] # 0
  <2>1. Disk' /\ Present' = Present \ {k}
    <3>1. bytes' = [x \in Keys |-> IF x \in {k} THEN 0 ELSE bytes[x]]
      BY <1>3, <1>8 DEF Disk
    <3>2. Removed({k})
      BY <1>3, <1>8, <3>1 DEF Removed
    <3> QED BY <3>2, <1>1, RemovedDisk
  <2>2. size' \in Int /\ races' \subseteq CacheRaces
    <3>1. len \in Int /\ size \in Int /\ size' = size - len
      BY <1>1, <1>3, <1>8, SizeFacts
    <3>2. races' \subseteq CacheRaces
      BY <1>3, <1>8 DEF Note, Memory, CacheRaces
    <3> QED BY <3>1, <3>2
  <2>3. Memory' /\ ClearedUp'
    BY <1>1, <2>2 DEF Memory, ClearedUp
  <2>4. WritersOK'
    <3>1. writer' \in [Writers -> Goroutine]
          /\ \A v \in Writers : v # w => writer'[v] = writer[v]
      BY <1>4, WriterStep
    <3>2. \A v \in Writers : v # w => WriterOK(v)'
      BY <1>1, <3>1, OthersOK
    <3> QED BY <1>6, <3>1, <3>2 DEF WritersOK
  <2>5. PlacesRight' /\ Migrated' /\ Migrates' /\ MovedOnce'
    BY <1>1, <2>1 DEF PlacesRight, PlaceRight, Migrated, Migrates, MovedOnce
  <2> QED BY <2>1, <2>3, <2>4, <2>5
<1> QED BY <1>7, <1>8

-----------------------------------------------------------------------------
(* The invariant, and what follows from it.                                  *)

LEMMA StutterInv == ASSUME CacheInv, UNCHANGED cacheVars PROVE CacheInv'
<1> USE DEF CacheInv, cacheVars
<1>1. Disk' /\ Present' = Present
  BY DiskStays
<1>2. Memory' /\ ClearedUp'
  BY DEF Memory, ClearedUp
<1>3. WritersOK'
  BY DEF WritersOK, WriterOK, Tree
<1>4. PlacesRight' /\ Migrated' /\ Migrates' /\ MovedOnce'
  BY <1>1 DEF PlacesRight, PlaceRight, Migrated, Migrates, MovedOnce
<1> QED BY <1>1, <1>2, <1>3, <1>4

LEMMA NextInv == ASSUME CacheInv, [Next]_cacheVars PROVE CacheInv'
<1>1. CASE Opening
  BY <1>1, StartInv, MoveBlockInv, MoveListingsInv, MoveFailsInv, MoveEndsInv, OpenInv DEF Opening
<1>2. CASE Kill
  BY <1>2, KillInv
<1>3. CASE Clearing
  BY <1>3, BeginClearInv, ClearTreeInv, ClearFailsInv, ResetInv DEF Clearing
<1>4. ASSUME NEW w \in Writers, Writer(w) PROVE CacheInv'
  BY <1>4, BeginPutInv, PutBlockInv, StatListingInv, RenameListingInv, CountListingInv,
     EvictNothingInv, EvictScanInv, EvictNextInv, EvictEndsInv DEF Writer, Named
<1>5. ASSUME NEW k \in Keys, Hit(k) PROVE CacheInv'
  BY <1>5, HitInv
<1>6. CASE UNCHANGED cacheVars
  BY <1>6, StutterInv
<1> QED BY <1>1, <1>2, <1>3, <1>4, <1>5, <1>6 DEF Next

LEMMA InvAlways == Spec => []CacheInv
BY InitInv, NextInv, PTL DEF Spec

\* Every variable of the cache keeps its type; the order of use is one of the entries that are
\* there, each once, and the lock is held by the one goroutine that evicts, whatever writes,
\* evicts, clears and migrates at once, and wherever the daemon is killed.
THEOREM CacheTypes == Spec => []TypeOK
<1>1. CacheInv => TypeOK
  BY DEF CacheInv, Disk, Orders, Memory, WritersOK, WriterOK, TypeOK, Sizes
<1> QED BY <1>1, InvAlways, PTL

\* A daemon that is up finds every block of the layout before that was not evicted or cleared,
\* wherever the migrations before were killed.  About migrateLayout and the directory it goes
\* through.
THEOREM MigrationKeepsBlocks == Spec => []OldBlocksFound
<1>1. CacheInv => OldBlocksFound
  <2> SUFFICES ASSUME CacheInv, daemon = "up", NEW b \in had PROVE place[b] = "blocks"
    BY DEF OldBlocksFound
  <2>1. b \in Present /\ b \in BlockKeys /\ place[b] \in Directories \cup {"top"}
    BY DEF CacheInv, Disk, Present
  <2> QED BY <2>1 DEF CacheInv, PlacesRight, PlaceRight, Migrated, Directories
<1> QED BY <1>1, InvAlways, PTL

-----------------------------------------------------------------------------
(* The counter.                                                              *)

Waits(w) == IF writer[w].pc = "count" THEN writer[w].len - writer[w].old ELSE 0
Waiting == [w \in Writers |-> Waits(w)]

LEMMA PendingIs == Pending = SumFunction(Waiting) /\ Pending' = SumFunction(Waiting')
BY DEF Pending, Waiting, Waits

LEMMA WaitingType == ASSUME writer \in [Writers -> Goroutine] PROVE Waiting \in [Writers -> Int]
<1>1. ASSUME NEW w \in Writers PROVE Waits(w) \in Int
  <2>1. writer[w].len \in Sizes /\ writer[w].old \in Sizes
    BY DEF Goroutine
  <2>2. PICK a \in Sizes, b \in Sizes : a = writer[w].len /\ b = writer[w].old
    BY <2>1
  <2>3. a \in Int /\ b \in Int
    BY SizeFacts
  <2> QED BY <2>2, <2>3 DEF Waits
<1> QED BY <1>1 DEF Waiting

LEMMA PendingType == ASSUME WritersOK PROVE Pending \in Int
BY WaitingType, PendingIs, SumType, BlockCacheAssumption DEF WritersOK

\* A step that changes nothing about who counts what.
CountsStay == \A w \in Writers :
  writer'[w] = writer[w] \/ (writer[w].pc # "count" /\ writer'[w].pc # "count")

LEMMA PendingStays ==
  ASSUME CountsStay
  PROVE  Pending' = Pending
<1>1. \A w \in Writers : Waits(w)' = Waits(w)
  BY DEF Waits, CountsStay
<1>2. Waiting' = Waiting
  BY <1>1 DEF Waiting
<1> QED BY <1>2, PendingIs

LEMMA PendingStep ==
  ASSUME WritersOK, NEW w \in Writers, Waits(w)' \in Int,
         \A v \in Writers : v # w => writer'[v] = writer[v]
  PROVE  Pending' = Pending - Waits(w) + Waits(w)'
<1>1. Waiting \in [Writers -> Int]
  BY WaitingType DEF WritersOK
<1>2. \A v \in Writers : v # w => Waits(v)' = Waits(v)
  BY DEF Waits
<1>3. PICK n \in Int : n = Waits(w)'
  OBVIOUS
<1>4. Waiting' = [Waiting EXCEPT ![w] = n]
  BY <1>2, <1>3 DEF Waiting
<1>5. SumFunction([Waiting EXCEPT ![w] = n]) = SumFunction(Waiting) - Waiting[w] + n
  <2>1. IsFiniteSet(Writers)
    BY BlockCacheAssumption
  <2>2. \A f \in [Writers -> Int] :
          SumFunction([f EXCEPT ![w] = n]) = SumFunction(f) - f[w] + n
    BY <2>1, SumUpdate
  <2> QED BY <1>1, <2>2
<1>6. Waiting[w] = Waits(w)
  BY DEF Waiting
<1> QED BY <1>3, <1>4, <1>5, <1>6, PendingIs

LEMMA NothingPending ==
  ASSUME WritersOK, \A w \in Writers : writer[w].pc # "count"
  PROVE  Pending = 0
<1>1. Waiting \in [Writers -> Int]
  BY WaitingType DEF WritersOK
<1>2. \A w \in Writers : Waiting[w] = 0
  BY DEF Waiting, Waits
<1> QED BY <1>1, <1>2, SumOfZeros, PendingIs, BlockCacheAssumption

LEMMA TotalIs == Total = SumFunction(bytes) /\ Total' = SumFunction(bytes')
BY DEF Total

LEMMA BytesType == ASSUME bytes \in [Keys -> Sizes] PROVE bytes \in [Keys -> Int]
<1>1. bytes \in [Keys -> Nat]
  BY SizeFacts
<1> QED BY <1>1

LEMMA TotalStep ==
  ASSUME bytes \in [Keys -> Sizes], NEW k \in Keys, NEW v \in Sizes,
         bytes' = [bytes EXCEPT ![k] = v]
  PROVE  Total' = Total - bytes[k] + v
<1>1. bytes \in [Keys -> Int] /\ v \in Int
  BY SizeFacts, BytesType
<1> QED BY <1>1, KeysFinite, SumUpdate, TotalIs

LEMMA NothingThere ==
  ASSUME bytes \in [Keys -> Sizes], Present = {}
  PROVE  Total = 0
<1>1. bytes \in [Keys -> Int]
  BY BytesType
<1>2. \A k \in Keys : bytes[k] = 0
  <2> TAKE k \in Keys
  <2>1. bytes[k] \in Nat
    BY SizeFacts
  <2> QED BY <2>1 DEF Present
<1> QED BY <1>1, <1>2, KeysFinite, SumOfZeros, TotalIs

\* Only while the daemon is up and no clear is under way does the counter mean anything.
Counting == races \cap DriftRaces = {} /\ daemon = "up" /\ clear = "idle"

LEMMA AccountedIs ==
  /\ Accounted <=> (Counting => size + Pending = Total)
  /\ Accounted' <=> (Counting' => size' + Pending' = Total')
BY DEF Accounted, Counting

LEMMA SameAccount ==
  ASSUME Accounted, Counting' => Counting, bytes' = bytes, size' = size,
         CountsStay
  PROVE  Accounted'
<1>1. Pending' = Pending /\ Total' = Total
  BY PendingStays, TotalIs
<1> QED BY <1>1, AccountedIs

LEMMA OpeningAccount == ASSUME CacheInv, Opening PROVE Accounted'
<1>1. CASE Open
  <2>1. \A w \in Writers : writer[w].pc = "idle"
    BY <1>1 DEF CacheInv, WritersOK, WriterOK, Open
  <2>2. Pending = 0
    BY <2>1, NothingPending DEF CacheInv
  <2>3. writer' = writer /\ bytes' = bytes /\ size' = Total
    BY <1>1 DEF Open
  <2>4. Pending' = 0 /\ Total' = Total
    BY <2>2, <2>3, PendingStays, TotalIs DEF CountsStay
  <2>5. Total \in Int
    BY TotalType DEF CacheInv, Disk
  <2> QED BY <2>3, <2>4, <2>5, AccountedIs
<1>2. CASE daemon' # "up"
  BY <1>2, AccountedIs DEF Counting
<1> QED BY <1>1, <1>2 DEF Opening, Start, MoveBlock, MoveListings, MoveFails, MoveEnds

LEMMA ClearingAccount == ASSUME CacheInv, Clearing PROVE Accounted'
<1>1. CASE ResetCacheSize
  <2> SUFFICES ASSUME Counting' PROVE size' + Pending' = Total'
    BY AccountedIs
  <2>1. Total <= 0 /\ \A w \in Writers : writer[w].pc # "count"
    <3>1. ~(Total > 0 \/ \E w \in Writers : writer[w].pc = "count")
      BY <1>1 DEF ResetCacheSize, Note, Counting, DriftRaces
    <3> QED BY <3>1, TotalType DEF CacheInv, Disk
  <2>2. Total = 0
    BY <2>1, TotalType DEF CacheInv, Disk
  <2>3. Pending = 0
    BY <2>1, NothingPending DEF CacheInv
  <2>4. writer' = writer /\ bytes' = bytes /\ size' = 0
    BY <1>1 DEF ResetCacheSize
  <2> QED BY <2>2, <2>3, <2>4, PendingStays, TotalIs DEF CountsStay
<1>2. CASE clear' # "idle"
  BY <1>2, AccountedIs DEF Counting
<1> QED BY <1>1, <1>2 DEF Clearing, BeginClear, ClearTree, ClearFails

LEMMA BeginPutAccount ==
  ASSUME CacheInv, Accounted, NEW w \in Writers, NEW k \in Named, NEW len \in Lengths,
         BeginPut(w, k, len)
  PROVE  Accounted'
<1>1. CountsStay
  BY DEF CountsStay, BeginPut, CacheInv, WritersOK, NoWriter
<1>2. Counting' => Counting
  BY DEF Counting, BeginPut
<1> QED BY <1>1, <1>2, SameAccount DEF BeginPut

LEMMA PutBlockAccount ==
  ASSUME CacheInv, Accounted, NEW w \in Writers, PutBlock(w) PROVE Accounted'
<1> DEFINE k == writer[w].key
<1>1. /\ k \in Keys /\ writer[w].len \in Sizes /\ bytes \in [Keys -> Sizes] /\ size \in Int
      /\ bytes' = [bytes EXCEPT ![k] = writer[w].len]
      /\ size' = size + writer[w].len - bytes[k]
  BY KeyFacts DEF PutBlock, Renamed, CacheInv, WritersOK, Goroutine, Disk, Memory, Named
<1>2. PICK n \in Sizes : n = writer[w].len
  BY <1>1
<1>3. Total' = Total - bytes[k] + n
  BY <1>1, <1>2, TotalStep
<1>4. CountsStay
  BY DEF CountsStay, PutBlock, Step, CacheInv, WritersOK
<1>5. Pending' = Pending
  BY <1>4, PendingStays
<1>6. Counting' => Counting
  BY DEF Counting, PutBlock, Serving
<1>7. n \in Int /\ bytes[k] \in Int /\ Total \in Int /\ Pending \in Int
  BY <1>1, SizeFacts, TotalType, PendingType DEF CacheInv
<1> QED BY <1>1, <1>2, <1>3, <1>5, <1>6, <1>7, AccountedIs

LEMMA StatListingAccount ==
  ASSUME CacheInv, Accounted, NEW w \in Writers, StatListing(w) PROVE Accounted'
<1>1. CountsStay
  BY DEF CountsStay, StatListing, CacheInv, WritersOK
<1>2. Counting' => Counting
  BY DEF Counting, StatListing, Serving
<1> QED BY <1>1, <1>2, SameAccount DEF StatListing

LEMMA RenameListingAccount ==
  ASSUME CacheInv, Accounted, NEW w \in Writers, RenameListing(w) PROVE Accounted'
<1> SUFFICES ASSUME Counting' PROVE size' + Pending' = Total'
  BY AccountedIs
<1> DEFINE k == writer[w].key
<1>1. /\ k \in Keys /\ writer[w].len \in Sizes /\ bytes \in [Keys -> Sizes] /\ size \in Int
      /\ bytes' = [bytes EXCEPT ![k] = writer[w].len] /\ size' = size /\ writer[w].pc = "rename"
      /\ writer' = [writer EXCEPT ![w].pc = "count"] /\ writer[w] \in Goroutine
  BY KeyFacts DEF RenameListing, Renamed, Step, CacheInv, WritersOK, WriterOK, Goroutine, Disk,
                  Memory, Named
<1>2. Counting /\ bytes[k] = writer[w].old
  BY DEF Counting, RenameListing, Serving, Note, DriftRaces
<1>3. PICK n \in Sizes : n = writer[w].len
  BY <1>1
<1>4. Total' = Total - bytes[k] + n
  BY <1>1, <1>3, TotalStep
<1>5. writer'[w].pc = "count" /\ writer'[w].len = n /\ writer'[w].old = bytes[k]
      /\ \A v \in Writers : v # w => writer'[v] = writer[v]
  BY <1>1, <1>2, <1>3 DEF CacheInv, WritersOK
<1>6. n \in Int /\ bytes[k] \in Int /\ Total \in Int /\ Pending \in Int
  BY <1>1, SizeFacts, TotalType, PendingType DEF CacheInv
<1>7. Waits(w) = 0 /\ Waits(w)' = n - bytes[k]
  BY <1>1, <1>5 DEF Waits
<1>8. Pending' = Pending + (n - bytes[k])
  <2>1. Pending' = Pending - Waits(w) + Waits(w)'
    BY <1>5, <1>6, <1>7, PendingStep DEF CacheInv
  <2> QED BY <2>1, <1>6, <1>7
<1> QED BY <1>1, <1>2, <1>4, <1>6, <1>8, AccountedIs

LEMMA CountListingAccount ==
  ASSUME CacheInv, Accounted, NEW w \in Writers, CountListing(w) PROVE Accounted'
<1>1. /\ size \in Int /\ bytes' = bytes /\ writer[w].pc = "count" /\ writer[w] \in Goroutine
      /\ size' = size + writer[w].len - writer[w].old
      /\ writer' = [writer EXCEPT ![w].pc = "evict"]
  BY DEF CountListing, Step, CacheInv, WritersOK, Memory
<1>2. writer[w].len \in Sizes /\ writer[w].old \in Sizes
  BY <1>1 DEF Goroutine
<1>3. PICK a \in Sizes, b \in Sizes : a = writer[w].len /\ b = writer[w].old
  BY <1>2
<1>4. writer'[w].pc = "evict" /\ \A v \in Writers : v # w => writer'[v] = writer[v]
  BY <1>1 DEF CacheInv, WritersOK
<1>5. a \in Int /\ b \in Int /\ Total \in Int /\ Pending \in Int
  BY SizeFacts, TotalType, PendingType DEF CacheInv, Disk
<1>6. Waits(w) = a - b /\ Waits(w)' = 0
  BY <1>1, <1>3, <1>4 DEF Waits
<1>7. Pending' = Pending - (a - b)
  <2>1. Pending' = Pending - Waits(w) + Waits(w)'
    BY <1>4, <1>6, PendingStep DEF CacheInv
  <2> QED BY <2>1, <1>5, <1>6
<1>8. Counting' => Counting
  BY DEF Counting, CountListing, Serving
<1>9. Total' = Total
  BY <1>1, TotalIs
<1> QED BY <1>1, <1>3, <1>5, <1>7, <1>8, <1>9, AccountedIs

LEMMA EvictNextAccount ==
  ASSUME CacheInv, Accounted, NEW w \in Writers, EvictNext(w) PROVE Accounted'
<1> SUFFICES ASSUME Counting' PROVE size' + Pending' = Total'
  BY AccountedIs
<1>1. /\ writer[w].todo \in Seq(Keys \X Sizes) /\ writer[w].todo # <<>> /\ size \in Int
      /\ bytes \in [Keys -> Sizes]
  BY DEF EvictNext, CacheInv, WritersOK, Goroutine, Disk, Memory
<1>2. PICK k \in Keys, len \in Sizes : writer[w].todo[1] = <<k, len>>
  BY <1>1, TailOf
<1>3. IF bytes[k] = 0 THEN UNCHANGED <<bytes, lru, size, had, races>>
      ELSE /\ bytes' = [bytes EXCEPT ![k] = 0] /\ lru' = Without({k})
           /\ size' = size - len /\ had' = had \ {k}
           /\ Note("staleScan", bytes[k] # len)
  BY <1>2 DEF EvictNext
<1>4. Pending' = Pending
  <2>1. CountsStay
    BY DEF CountsStay, EvictNext, CacheInv, WritersOK
  <2> QED BY <2>1, PendingStays
<1>5. Counting
  BY <1>3 DEF Counting, EvictNext, Serving, Note
<1>6. CASE bytes[k] = 0
  BY <1>3, <1>4, <1>5, <1>6, TotalIs, AccountedIs
<1>7. CASE bytes[k] # 0
  <2>1. bytes[k] = len /\ size' = size - len /\ bytes' = [bytes EXCEPT ![k] = 0]
    BY <1>3, <1>7 DEF Counting, Note, DriftRaces
  <2>2. Total' = Total - len + 0
    BY <1>1, <2>1, TotalStep, SizeFacts
  <2>3. len \in Int /\ Total \in Int /\ Pending \in Int
    BY <1>1, SizeFacts, TotalType, PendingType DEF CacheInv
  <2> QED BY <1>1, <1>4, <1>5, <2>1, <2>2, <2>3, AccountedIs
<1> QED BY <1>6, <1>7

LEMMA EvictAccount ==
  ASSUME CacheInv, Accounted, NEW w \in Writers, EvictNothing(w) \/ EvictScan(w) \/ EvictEnds(w)
  PROVE  Accounted'
<1>1. CASE EvictNothing(w)
  <2>1. CountsStay
    BY <1>1 DEF CountsStay, EvictNothing, CacheInv, WritersOK, NoWriter
  <2>2. Counting' => Counting
    BY <1>1 DEF Counting, EvictNothing, Serving
  <2> QED BY <1>1, <2>1, <2>2, SameAccount DEF EvictNothing
<1>2. CASE EvictScan(w)
  <2>1. CountsStay
    BY <1>2 DEF CountsStay, EvictScan, CacheInv, WritersOK
  <2>2. Counting' => Counting
    BY <1>2 DEF Counting, EvictScan, Serving
  <2> QED BY <1>2, <2>1, <2>2, SameAccount DEF EvictScan
<1>3. CASE EvictEnds(w)
  <2>1. CountsStay
    BY <1>3 DEF CountsStay, EvictEnds, CacheInv, WritersOK, NoWriter
  <2>2. Counting' => Counting
    BY <1>3 DEF Counting, EvictEnds, Serving
  <2> QED BY <1>3, <2>1, <2>2, SameAccount DEF EvictEnds
<1> QED BY <1>1, <1>2, <1>3

LEMMA NextAccount == ASSUME CacheInv, Accounted, [Next]_cacheVars PROVE Accounted'
<1>1. CASE Opening
  BY <1>1, OpeningAccount
<1>2. CASE Kill
  BY <1>2, AccountedIs DEF Kill, Counting
<1>3. CASE Clearing
  BY <1>3, ClearingAccount
<1>4. ASSUME NEW w \in Writers, Writer(w) PROVE Accounted'
  BY <1>4, BeginPutAccount, PutBlockAccount, StatListingAccount, RenameListingAccount,
     CountListingAccount, EvictAccount, EvictNextAccount DEF Writer, Named
<1>5. ASSUME NEW k \in Keys, Hit(k) PROVE Accounted'
  BY <1>5, SameAccount DEF CountsStay, Hit, Counting, Serving
<1>6. CASE UNCHANGED cacheVars
  BY <1>6, SameAccount DEF CountsStay, cacheVars, Counting
<1> QED BY <1>1, <1>2, <1>3, <1>4, <1>5, <1>6 DEF Next

\* But for the known races, the counter is what is on disk without what is about to be counted.
\* About the stat, rename and count of Put and PutListing, evict, and ResetCacheSize.
THEOREM CounterIsRight == Spec => []Accounted
<1>1. Init => Accounted
  BY DEF Init, Accounted
<1> QED BY <1>1, InvAlways, NextAccount, PTL DEF Spec

-----------------------------------------------------------------------------
(* The budget.                                                               *)

ToEvict(w) == {writer[w].todo[i][1] : i \in DOMAIN writer[w].todo}
BeingCounted(k) == \E v \in Writers : writer[v].pc = "count" /\ writer[v].key = k

\* An eviction has still to come to every entry, but for those that are about to be counted.
Covered == \A w \in Writers : writer[w].pc = "evicting" =>
             \A k \in Present : k \in ToEvict(w) \/ BeingCounted(k)

Busy == \E w \in Writers : writer[w].pc \in {"count", "evict", "evicting"}

\* While the counter is over the budget, somebody is about to evict.
Undrifted == Counting /\ "openedOver" \notin races
Watched == Undrifted /\ Over => Busy

BudgetInv == CacheInv /\ Accounted /\ Covered /\ Watched

\* Nobody evicts while the lock is free, and who evicts is alone.
LEMMA OneEvicts ==
  ASSUME CacheInv
  PROVE  /\ \A v, w \in Writers : writer[v].pc = "evicting" /\ writer[w].pc = "evicting" => v = w
         /\ mu = None => \A w \in Writers : writer[w].pc # "evicting"
         /\ daemon # "up" => \A w \in Writers : writer[w].pc = "idle"
BY BlockCacheAssumption DEF CacheInv, WritersOK, WriterOK

\* A step after which no entry is new, and which changes neither an eviction nor a count.
LEMMA StillCovered ==
  ASSUME Covered, Present' \subseteq Present,
         \A w \in Writers : \/ writer'[w] = writer[w]
                            \/ writer[w].pc # "count" /\ writer'[w].pc # "evicting"
  PROVE  Covered'
<1> SUFFICES ASSUME NEW w \in Writers, writer'[w].pc = "evicting", NEW k \in Present'
             PROVE  (k \in ToEvict(w) \/ BeingCounted(k))'
  BY DEF Covered
<1>1. writer'[w] = writer[w] /\ k \in Present
  OBVIOUS
<1>2. ToEvict(w)' = ToEvict(w)
  BY <1>1 DEF ToEvict
<1>3. k \in ToEvict(w) \/ BeingCounted(k)
  BY <1>1 DEF Covered
<1>4. BeingCounted(k) => BeingCounted(k)'
  <2> SUFFICES ASSUME NEW v \in Writers, writer[v].pc = "count", writer[v].key = k
               PROVE  BeingCounted(k)'
    BY DEF BeingCounted
  <2>1. writer'[v] = writer[v]
    OBVIOUS
  <2> QED BY <2>1 DEF BeingCounted
<1> QED BY <1>2, <1>3, <1>4

LEMMA NoneEvicts == ASSUME \A w \in Writers : writer'[w].pc # "evicting" PROVE Covered'
BY DEF Covered

LEMMA OpeningCovered == ASSUME BudgetInv, Opening PROVE Covered'
<1>1. daemon # "up" /\ writer' = writer
  BY DEF Opening, Start, MoveBlock, MoveListings, MoveFails, MoveEnds, Open
<1> QED BY <1>1, OneEvicts, NoneEvicts DEF BudgetInv

LEMMA ClearingCovered == ASSUME BudgetInv, Clearing PROVE Covered'
<1> USE DEF BudgetInv
<1>1. CASE BeginClear \/ ResetCacheSize
  BY <1>1, StillCovered DEF BeginClear, ResetCacheSize, Present
<1>2. CASE ClearTree
  <2>1. Present' \subseteq Present
    BY <1>2, RemovedDisk DEF ClearTree, CacheInv
  <2>2. ASSUME NEW w \in Writers
        PROVE \/ writer'[w] = writer[w]
              \/ writer[w].pc # "count" /\ writer'[w].pc # "evicting"
    BY <1>2 DEF ClearTree, Writing, NoWriter
  <2> QED BY <2>1, <2>2, StillCovered
<1>3. CASE ClearFails
  <2>1. Present' \subseteq Present
    BY <1>3, RemovedDisk DEF ClearFails, CacheInv
  <2> QED BY <1>3, <2>1, StillCovered DEF ClearFails
<1> QED BY <1>1, <1>2, <1>3 DEF Clearing

LEMMA BeginPutCovered ==
  ASSUME BudgetInv, NEW w \in Writers, NEW k \in Named, NEW len \in Lengths, BeginPut(w, k, len)
  PROVE  Covered'
<1>1. ASSUME NEW v \in Writers
      PROVE \/ writer'[v] = writer[v]
            \/ writer[v].pc # "count" /\ writer'[v].pc # "evicting"
  BY DEF BeginPut, NoWriter, BudgetInv, CacheInv, WritersOK
<1>2. Present' \subseteq Present
  BY DEF BeginPut, Present
<1> QED BY <1>1, <1>2, StillCovered DEF BudgetInv

\* The steps that take the free lock for themselves.
LEMMA LockedCovered ==
  ASSUME BudgetInv, NEW w \in Writers, PutBlock(w) \/ CountListing(w) \/ EvictNothing(w)
  PROVE  Covered'
<1>1. mu = None
  BY DEF PutBlock, CountListing, EvictNothing
<1>2. writer' = [writer EXCEPT ![w] = NoWriter] \/ writer' = [writer EXCEPT ![w].pc = "evict"]
  BY DEF PutBlock, CountListing, EvictNothing, Step
<1>3. writer \in [Writers -> Goroutine] /\ \A v \in Writers : writer[v].pc # "evicting"
  BY <1>1, OneEvicts DEF BudgetInv, CacheInv, WritersOK
<1>4. writer'[w].pc # "evicting" /\ \A v \in Writers : v # w => writer'[v] = writer[v]
  <2>1. CASE writer' = [writer EXCEPT ![w] = NoWriter]
    BY <2>1, <1>3 DEF NoWriter
  <2>2. CASE writer' = [writer EXCEPT ![w].pc = "evict"]
    BY <2>2, <1>3
  <2> QED BY <1>2, <2>1, <2>2
<1>5. \A v \in Writers : writer'[v].pc # "evicting"
  BY <1>3, <1>4
<1> QED BY <1>5, NoneEvicts

LEMMA StatListingCovered == ASSUME BudgetInv, NEW w \in Writers, StatListing(w) PROVE Covered'
<1>1. ASSUME NEW v \in Writers
      PROVE \/ writer'[v] = writer[v]
            \/ writer[v].pc # "count" /\ writer'[v].pc # "evicting"
  BY DEF StatListing, BudgetInv, CacheInv, WritersOK
<1>2. Present' \subseteq Present
  BY DEF StatListing, Present
<1> QED BY <1>1, <1>2, StillCovered DEF BudgetInv

LEMMA RenameListingCovered == ASSUME BudgetInv, NEW w \in Writers, RenameListing(w) PROVE Covered'
<1> USE DEF BudgetInv
<1> DEFINE k == writer[w].key
<1>1. /\ k \in Named /\ writer[w].len \in Lengths /\ Tree(k) \in dirs /\ daemon = "up"
      /\ UNCHANGED <<had, dirs, daemon, moving>> /\ Renamed(w) /\ writer[w].pc = "rename"
      /\ writer' = [writer EXCEPT ![w].pc = "count"]
  BY DEF RenameListing, Serving, Step, CacheInv, WritersOK, WriterOK, Named
<1>2. Present' = Present \cup {k}
  BY <1>1, RenamedDisk
<1>3. writer'[w].pc = "count" /\ writer'[w].key = k
      /\ \A v \in Writers : v # w => writer'[v] = writer[v]
  BY <1>1 DEF CacheInv, WritersOK
<1> SUFFICES ASSUME NEW v \in Writers, writer'[v].pc = "evicting", NEW x \in Present'
             PROVE  (x \in ToEvict(v) \/ BeingCounted(x))'
  BY DEF Covered
<1>4. CASE x = k
  BY <1>3, <1>4 DEF BeingCounted
<1>5. CASE x # k
  <2>1. v # w /\ writer'[v] = writer[v] /\ x \in Present
    BY <1>2, <1>3, <1>5
  <2>2. x \in ToEvict(v) \/ BeingCounted(x)
    BY <2>1 DEF Covered
  <2>3. ToEvict(v)' = ToEvict(v)
    BY <2>1 DEF ToEvict
  <2>4. BeingCounted(x) => BeingCounted(x)'
    <3> SUFFICES ASSUME NEW u \in Writers, writer[u].pc = "count", writer[u].key = x
                 PROVE  BeingCounted(x)'
      BY DEF BeingCounted
    <3>1. writer'[u] = writer[u]
      BY <1>1, <1>3
    <3> QED BY <3>1 DEF BeingCounted
  <2> QED BY <2>2, <2>3, <2>4
<1> QED BY <1>4, <1>5

LEMMA EvictScanCovered == ASSUME BudgetInv, NEW w \in Writers, EvictScan(w) PROVE Covered'
<1> USE DEF BudgetInv
<1> DEFINE s == [i \in DOMAIN lru |-> <<lru[i], bytes[lru[i]]>>]
<1>1. mu = None /\ bytes' = bytes /\ writer' = [writer EXCEPT ![w].pc = "evicting", ![w].todo = s]
  BY DEF EvictScan
<1> SUFFICES ASSUME NEW v \in Writers, writer'[v].pc = "evicting", NEW x \in Present'
             PROVE  x \in ToEvict(v)'
  BY DEF Covered
<1>2. v = w
  BY <1>1, OneEvicts DEF CacheInv, WritersOK
<1>3. writer'[w].todo = s
  BY <1>1 DEF CacheInv, WritersOK
<1>4. PICK i \in DOMAIN lru : lru[i] = x
  <2>1. x \in Present /\ ToSet(lru) = Present
    BY <1>1 DEF Present, CacheInv, Disk, Orders
  <2> QED BY <2>1 DEF ToSet
<1>5. i \in DOMAIN s /\ s[i][1] = x
  BY <1>4
<1> QED BY <1>2, <1>3, <1>5 DEF ToEvict

LEMMA EvictNextCovered == ASSUME BudgetInv, NEW w \in Writers, EvictNext(w) PROVE Covered'
<1> USE DEF BudgetInv
<1> DEFINE s == writer[w].todo
<1>1. /\ s \in Seq(Keys \X Sizes) /\ s # <<>> /\ writer[w].pc = "evicting"
      /\ bytes \in [Keys -> Sizes] /\ writer' = [writer EXCEPT ![w].todo = Tail(s)]
  BY DEF EvictNext, CacheInv, WritersOK, Goroutine, Disk
<1>2. PICK k \in Keys, len \in Sizes : s[1] = <<k, len>>
  BY <1>1, TailOf
<1>3. IF bytes[k] = 0 THEN bytes' = bytes ELSE bytes' = [bytes EXCEPT ![k] = 0]
  BY <1>2 DEF EvictNext
<1>4. \A x \in Present' : x # k /\ x \in Present
  BY <1>1, <1>3 DEF Present
<1>5. writer'[w].todo = Tail(s) /\ \A v \in Writers : v # w => writer'[v] = writer[v]
  BY <1>1 DEF CacheInv, WritersOK
<1> SUFFICES ASSUME NEW v \in Writers, writer'[v].pc = "evicting", NEW x \in Present'
             PROVE  (x \in ToEvict(v) \/ BeingCounted(x))'
  BY DEF Covered
<1>6. v = w
  BY <1>1, <1>5, OneEvicts
<1>7. x # k /\ (x \in ToEvict(w) \/ BeingCounted(x))
  BY <1>1, <1>4 DEF Covered
<1>8. CASE BeingCounted(x)
  <2>1. PICK u \in Writers : writer[u].pc = "count" /\ writer[u].key = x
    BY <1>8 DEF BeingCounted
  <2>2. writer'[u] = writer[u]
    BY <2>1, <1>1, <1>5
  <2> QED BY <2>1, <2>2 DEF BeingCounted
<1>9. CASE x \in ToEvict(w)
  <2>1. PICK i \in DOMAIN s : s[i][1] = x
    BY <1>9 DEF ToEvict
  <2>2. i # 1
    BY <2>1, <1>2, <1>7
  <2>3. i - 1 \in DOMAIN Tail(s) /\ Tail(s)[i - 1] = s[i]
    BY <2>2, <1>1, TailOf
  <2>4. \E j \in DOMAIN Tail(s) : Tail(s)[j][1] = x
    BY <2>1, <2>3
  <2> QED BY <2>4, <1>5, <1>6 DEF ToEvict
<1> QED BY <1>7, <1>8, <1>9

LEMMA EvictEndsCovered == ASSUME BudgetInv, NEW w \in Writers, EvictEnds(w) PROVE Covered'
<1>1. \A v \in Writers : writer'[v].pc # "evicting"
  BY OneEvicts DEF EvictEnds, BudgetInv, CacheInv, WritersOK, NoWriter
<1> QED BY <1>1, NoneEvicts

LEMMA NextCovered == ASSUME BudgetInv, [Next]_cacheVars PROVE Covered'
<1> USE DEF BudgetInv
<1>1. CASE Opening
  BY <1>1, OpeningCovered
<1>2. CASE Kill
  BY <1>2, NoneEvicts DEF Kill, NoWriter
<1>3. CASE Clearing
  BY <1>3, ClearingCovered
<1>4. ASSUME NEW w \in Writers, Writer(w) PROVE Covered'
  BY <1>4, BeginPutCovered, LockedCovered, StatListingCovered, RenameListingCovered,
     EvictScanCovered, EvictNextCovered, EvictEndsCovered DEF Writer, Named
<1>5. ASSUME NEW k \in Keys, Hit(k) PROVE Covered'
  BY <1>5, StillCovered DEF Hit, Present
<1>6. CASE UNCHANGED cacheVars
  BY <1>6, StillCovered DEF cacheVars, Present
<1> QED BY <1>1, <1>2, <1>3, <1>4, <1>5, <1>6 DEF Next

-----------------------------------------------------------------------------
(* Somebody evicts.                                                          *)

LEMMA WatchedIs == Watched' <=> (Undrifted' /\ Over' => Busy')
BY DEF Watched, Undrifted

\* Nobody begins or ends an eviction, and the counter does not pass the budget.
LEMMA StillWatched ==
  ASSUME Watched, Undrifted' => Undrifted, Over' => Over,
         \A w \in Writers : writer[w].pc \in {"count", "evict", "evicting"}
                            => writer'[w].pc \in {"count", "evict", "evicting"}
  PROVE  Watched'
BY DEF Watched, Undrifted, Busy

LEMMA BusyStep ==
  ASSUME NEW w \in Writers, writer'[w].pc \in {"count", "evict", "evicting"} PROVE Watched'
BY DEF Watched, Busy

LEMMA OpeningWatched == ASSUME BudgetInv, Opening PROVE Watched'
<1>1. CASE Open
  <2>1. Undrifted' => ~(Total > Limit)
    BY <1>1 DEF Open, Note, Undrifted
  <2>2. size' = Total
    BY <1>1 DEF Open
  <2> QED BY <2>1, <2>2, WatchedIs DEF Over
<1>2. CASE daemon' # "up"
  BY <1>2 DEF Watched, Undrifted, Counting
<1> QED BY <1>1, <1>2 DEF Opening, Start, MoveBlock, MoveListings, MoveFails, MoveEnds

LEMMA ClearingWatched == ASSUME Clearing PROVE Watched'
<1>1. CASE ResetCacheSize
  BY <1>1, BlockCacheAssumption DEF ResetCacheSize, Watched, Over
<1>2. CASE clear' # "idle"
  BY <1>2 DEF Watched, Undrifted, Counting
<1> QED BY <1>1, <1>2 DEF Clearing, BeginClear, ClearTree, ClearFails

LEMMA EvictEndsWatched == ASSUME BudgetInv, NEW w \in Writers, EvictEnds(w) PROVE Watched'
<1> USE DEF BudgetInv
<1> SUFFICES ASSUME Undrifted', Over' PROVE Busy'
  BY WatchedIs
<1>1. Undrifted /\ Over /\ size' = size /\ writer[w].pc = "evicting" /\ writer[w].todo = <<>>
      /\ writer' = [writer EXCEPT ![w] = NoWriter]
  BY DEF EvictEnds, Serving, Undrifted, Counting, Over
<1>2. ToEvict(w) = {}
  BY <1>1 DEF ToEvict
<1>3. ASSUME \A v \in Writers : writer[v].pc # "count" PROVE FALSE
  <2>1. Present = {}
    BY <1>1, <1>2, <1>3 DEF Covered, BeingCounted
  <2>2. Total = 0 /\ Pending = 0
    BY <1>3, <2>1, NothingThere, NothingPending DEF CacheInv, Disk
  <2>3. size + Pending = Total /\ size \in Int
    BY <1>1, AccountedIs DEF Undrifted, CacheInv, Memory
  <2> QED BY <1>1, <2>2, <2>3, BlockCacheAssumption DEF Over
<1>4. PICK v \in Writers : writer[v].pc = "count"
  BY <1>3
<1>5. writer'[v].pc = "count"
  BY <1>1, <1>4 DEF CacheInv, WritersOK
<1> QED BY <1>5 DEF Busy

LEMMA WriterWatched == ASSUME BudgetInv, NEW w \in Writers, Writer(w) PROVE Watched'
<1> USE DEF BudgetInv
<1>0. writer \in [Writers -> Goroutine]
  BY DEF CacheInv, WritersOK
<1>1. ASSUME NEW k \in Named, NEW len \in Lengths, BeginPut(w, k, len) PROVE Watched'
  <2>1. \A v \in Writers : writer[v].pc \in {"count", "evict", "evicting"}
                           => writer'[v].pc \in {"count", "evict", "evicting"}
    BY <1>0, <1>1 DEF BeginPut
  <2> QED BY <1>1, <2>1, StillWatched DEF BeginPut, Undrifted, Counting, Over
<1>2. CASE StatListing(w)
  <2>1. \A v \in Writers : writer[v].pc \in {"count", "evict", "evicting"}
                           => writer'[v].pc \in {"count", "evict", "evicting"}
    BY <1>0, <1>2 DEF StatListing
  <2> QED BY <1>2, <2>1, StillWatched DEF StatListing, Serving, Undrifted, Counting, Over
<1>3. CASE PutBlock(w) \/ RenameListing(w) \/ CountListing(w)
  <2>1. writer'[w].pc \in {"count", "evict"}
    <3>1. writer' = [writer EXCEPT ![w].pc = "count"] \/ writer' = [writer EXCEPT ![w].pc = "evict"]
      BY <1>3 DEF PutBlock, RenameListing, CountListing, Step
    <3>2. CASE writer' = [writer EXCEPT ![w].pc = "count"]
      BY <1>0, <3>2
    <3>3. CASE writer' = [writer EXCEPT ![w].pc = "evict"]
      BY <1>0, <3>3
    <3> QED BY <3>1, <3>2, <3>3
  <2> QED BY <2>1, BusyStep
<1>4. CASE EvictScan(w) \/ EvictNext(w)
  <2>1. CASE EvictScan(w)
    <3>1. writer'[w].pc = "evicting"
      BY <1>0, <2>1 DEF EvictScan
    <3> QED BY <3>1, BusyStep
  <2>2. CASE EvictNext(w)
    <3>1. writer[w].pc = "evicting" /\ writer' = [writer EXCEPT ![w].todo = Tail(@)]
      BY <2>2 DEF EvictNext
    <3>2. writer'[w].pc = "evicting"
      BY <1>0, <3>1
    <3> QED BY <3>2, BusyStep
  <2> QED BY <1>4, <2>1, <2>2
<1>5. CASE EvictNothing(w)
  BY <1>5 DEF EvictNothing, Watched, Over
<1>6. CASE EvictEnds(w)
  BY <1>6, EvictEndsWatched
<1> QED BY <1>1, <1>2, <1>3, <1>4, <1>5, <1>6 DEF Writer, Named

LEMMA NextWatched == ASSUME BudgetInv, [Next]_cacheVars PROVE Watched'
<1> USE DEF BudgetInv
<1>1. CASE Opening
  BY <1>1, OpeningWatched
<1>2. CASE Kill
  BY <1>2 DEF Kill, Watched, Undrifted, Counting
<1>3. CASE Clearing
  BY <1>3, ClearingWatched
<1>4. ASSUME NEW w \in Writers, Writer(w) PROVE Watched'
  BY <1>4, WriterWatched
<1>5. ASSUME NEW k \in Keys, Hit(k) PROVE Watched'
  BY <1>5, StillWatched DEF Hit, Serving, Undrifted, Counting, Over
<1>6. CASE UNCHANGED cacheVars
  BY <1>6, StillWatched DEF cacheVars, Undrifted, Counting, Over
<1> QED BY <1>1, <1>2, <1>3, <1>4, <1>5, <1>6 DEF Next

\* But for the known races, the cache is within its budget once no goroutine counts or evicts.
\* About evict, which ends early only when enough is gone.
THEOREM BudgetHolds == Spec => []WithinBudget
<1>1. Init => BudgetInv
  <2> SUFFICES ASSUME Init PROVE BudgetInv
    OBVIOUS
  <2>1. Accounted /\ Watched
    BY DEF Init, Accounted, Watched, Undrifted, Counting
  <2>2. Covered
    BY DEF Init, Covered, NoWriter
  <2> QED BY <2>1, <2>2, InitInv DEF BudgetInv
<1>2. BudgetInv /\ [Next]_cacheVars => BudgetInv'
  BY NextInv, NextAccount, NextCovered, NextWatched DEF BudgetInv
<1>3. BudgetInv => WithinBudget
  <2> SUFFICES ASSUME BudgetInv, races \cap (DriftRaces \cup {"openedOver"}) = {}, Quiet
               PROVE  Total <= Limit
    BY DEF WithinBudget
  <2>1. Undrifted
    BY DEF Undrifted, Counting, Quiet
  <2>2. \A w \in Writers : writer[w].pc \notin {"count", "evict", "evicting"}
    BY DEF Quiet
  <2>3. ~Over
    BY <2>1, <2>2 DEF BudgetInv, Watched, Undrifted, Busy
  <2>4. Pending = 0
    BY <2>2, NothingPending DEF BudgetInv, CacheInv
  <2>5. size + Pending = Total /\ size \in Int
    BY <2>1, AccountedIs DEF Undrifted, BudgetInv, CacheInv, Memory
  <2> QED BY <2>3, <2>4, <2>5, BlockCacheAssumption DEF Over
<1> QED BY <1>1, <1>2, <1>3, PTL DEF Spec
=============================================================================
