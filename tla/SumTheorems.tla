----------------------------- MODULE SumTheorems -----------------------------
(***************************************************************************)
(* What MapThenSumSet of the community modules adds up.  Its recursive     *)
(* function is shown to have a solution on the subsets of a finite set,    *)
(* and then what is true of the sum follows by looking at a smallest       *)
(* subset for which it would be false.                                     *)
(***************************************************************************)
EXTENDS Integers, FiniteSetTheorems, WellFoundedInduction, TLAPS

\* The element that the fold takes first.
First(s) == CHOOSE x \in s : TRUE

\* MapThenSumSet of a function.
Total(g, S) ==
  LET iter[s \in SUBSET S] ==
        IF s = {} THEN 0
        ELSE LET x == CHOOSE x \in s : TRUE IN g[x] + iter[s \ {x}]
  IN iter[S]

\* The least-number principle, for a set of numbers.
LEMMA SmallestNumber ==
  ASSUME NEW B, B \subseteq Nat, B # {}
  PROVE  \E m \in B : \A k \in Nat : k < m => k \notin B
<1>1. IsWellFoundedOn(OpToRel(<, Nat), Nat)
  BY NatLessThanWellFounded
<1>2. \E x \in B : \A y \in B : <<y, x>> \notin OpToRel(<, Nat)
  BY <1>1, WFMin
<1> QED BY <1>2 DEF OpToRel

\* Among subsets of a finite set there is one none of whose proper subsets is among them.
LEMMA SmallestSubset ==
  ASSUME NEW S, IsFiniteSet(S), NEW B, B \subseteq SUBSET S, B # {}
  PROVE  \E s \in B : \A t \in B : t \subseteq s => t = s
<1>1. IsWellFoundedOn(StrictSubsetOrdering(S), FiniteSubsetsOf(S))
  BY FS_StrictSubsetOrderingWellFounded
<1>2. FiniteSubsetsOf(S) = SUBSET S
  BY FS_FiniteSubsetsOfFinite
<1>3. \E s \in B : \A t \in B : <<t, s>> \notin StrictSubsetOrdering(S)
  BY <1>1, <1>2, WFMin
<1> QED BY <1>3 DEF StrictSubsetOrdering

\* The first element of a set that is not empty.
LEMMA FirstIn == ASSUME NEW s, s # {} PROVE First(s) \in s
BY DEF First

\* What it is to add up g on the subsets of S, up to some size.
Adds(f, g, D) == \A s \in D : f[s] = IF s = {} THEN 0 ELSE g[First(s)] + f[s \ {First(s)}]

\* There is a function that adds up g on all subsets of a finite set.
LEMMA SumExists ==
  ASSUME NEW S, IsFiniteSet(S), NEW g, \A x \in S : g[x] \in Nat
  PROVE  \E f \in [SUBSET S -> Nat] : Adds(f, g, SUBSET S)
<1> DEFINE Upto(n) == {s \in SUBSET S : Cardinality(s) <= n}
           Solved(n) == \E f \in [Upto(n) -> Nat] : Adds(f, g, Upto(n))
           Bad == {n \in Nat : ~Solved(n)}
<1>c. \A s \in SUBSET S : IsFiniteSet(s) /\ Cardinality(s) \in Nat /\ Cardinality(s) <= Cardinality(S)
  BY FS_Subset, FS_CardinalityType
<1>e. \A s \in SUBSET S : Cardinality(s) = 0 => s = {}
  BY <1>c, FS_EmptySet
<1>r. \A s \in SUBSET S : s # {} =>
        /\ First(s) \in s /\ s \ {First(s)} \in SUBSET S
        /\ Cardinality(s \ {First(s)}) = Cardinality(s) - 1
  <2>1. \A s : s # {} => First(s) \in s
    BY FirstIn
  <2> HIDE DEF First
  <2> QED BY <2>1, <1>c, FS_RemoveElement
<1>1. Solved(0)
  <2> DEFINE f == [s \in Upto(0) |-> 0]
  <2>1. \A s \in Upto(0) : s = {}
    BY <1>c, <1>e
  <2>2. f \in [Upto(0) -> Nat] /\ Adds(f, g, Upto(0))
    BY <2>1 DEF Adds
  <2> QED BY <2>2
<1>2. ASSUME NEW n \in Nat, Solved(n) PROVE Solved(n + 1)
  <2>1. PICK f \in [Upto(n) -> Nat] : Adds(f, g, Upto(n))
    BY <1>2
  <2> DEFINE h == [s \in Upto(n + 1) |-> IF s = {} THEN 0 ELSE g[First(s)] + f[s \ {First(s)}]]
  <2>2. \A s \in Upto(n) : s \in Upto(n + 1) /\ h[s] = f[s]
    BY <2>1, <1>c DEF Adds
  <2>3. \A s \in Upto(n + 1) : s # {} => s \ {First(s)} \in Upto(n) /\ First(s) \in S
    BY <1>c, <1>r
  <2>4. h \in [Upto(n + 1) -> Nat]
    BY <2>1, <2>3
  <2>5. Adds(h, g, Upto(n + 1))
    BY <2>2, <2>3 DEF Adds
  <2> HIDE DEF h
  <2> QED BY <2>4, <2>5
<1> HIDE DEF Solved
<1>3. Bad = {}
  <2> SUFFICES ASSUME Bad # {} PROVE FALSE
    OBVIOUS
  <2>1. PICK m \in Bad : \A k \in Nat : k < m => k \notin Bad
    BY SmallestNumber
  <2>2. m # 0 /\ m - 1 \in Nat /\ m - 1 < m
    BY <2>1, <1>1
  <2>3. Solved(m - 1)
    BY <2>1, <2>2
  <2>4. Solved((m - 1) + 1)
    BY <2>2, <2>3, <1>2
  <2> QED BY <2>1, <2>4
<1>4. Cardinality(S) \in Nat
  BY FS_CardinalityType
<1>5. Solved(Cardinality(S)) /\ Upto(Cardinality(S)) = SUBSET S
  BY <1>3, <1>4, <1>c
<1> QED BY <1>5 DEF Solved

\* Total adds up: it is zero of the empty set, and otherwise the first element is added last.
LEMMA TotalAdds ==
  ASSUME NEW S, IsFiniteSet(S), NEW g, \A x \in S : g[x] \in Nat
  PROVE  \E f \in [SUBSET S -> Nat] : Adds(f, g, SUBSET S) /\ \A s \in SUBSET S : f[s] = Total(g, s)
<1> DEFINE IsIter(f, s) == f = [t \in SUBSET s |-> IF t = {} THEN 0
                                                   ELSE g[First(t)] + f[t \ {First(t)}]]
<1>1. PICK f \in [SUBSET S -> Nat] : Adds(f, g, SUBSET S)
  BY SumExists
<1>2. ASSUME NEW s \in SUBSET S PROVE f[s] = Total(g, s)
  <2> DEFINE k == [t \in SUBSET s |-> f[t]]
             h == CHOOSE h : IsIter(h, s)
  <2>1. IsIter(k, s)
    <3>1. \A t \in SUBSET s : t # {} => t \ {First(t)} \in SUBSET s
      OBVIOUS
    <3> QED BY <1>1, <3>1 DEF Adds
  <2>2. IsIter(h, s)
    <3> HIDE DEF IsIter
    <3> QED BY <2>1
  <2>3. Total(g, s) = h[s]
    BY DEF Total, First
  <2>4. \A t \in SUBSET s : h[t] = f[t]
    <3> DEFINE B == {t \in SUBSET s : h[t] # f[t]}
    <3> SUFFICES ASSUME B # {} PROVE FALSE
      OBVIOUS
    <3>1. IsFiniteSet(s) /\ B \subseteq SUBSET s
      BY FS_Subset
    <3>2. PICK t \in B : \A u \in B : u \subseteq t => u = t
      <4> HIDE DEF B
      <4> QED BY <3>1, SmallestSubset
    <3>3. t \in SUBSET s /\ t \in SUBSET S /\ h[t] # f[t]
      BY <3>2
    <3>4. t # {}
      BY <3>3, <2>2, <1>1 DEF Adds
    <3>5. First(t) \in t
      BY <3>4, FirstIn
    <3>6. h[t \ {First(t)}] = f[t \ {First(t)}]
      <4> DEFINE u == t \ {First(t)}
      <4>1. u \in SUBSET s /\ u \subseteq t /\ u # t
        BY <3>3, <3>5
      <4> HIDE DEF u, h
      <4>2. u \notin B
        BY <3>2, <4>1
      <4>3. h[u] = f[u]
        BY <4>1, <4>2
      <4> QED BY <4>3 DEF u
    <3>7. h[t] = g[First(t)] + h[t \ {First(t)}]
      BY <2>2, <3>3, <3>4
    <3>8. f[t] = g[First(t)] + f[t \ {First(t)}]
      BY <1>1, <3>3, <3>4 DEF Adds
    <3> QED BY <3>3, <3>6, <3>7, <3>8
  <2> HIDE DEF h
  <2> QED BY <2>3, <2>4
<1> QED BY <1>1, <1>2

\* The equations of the sum.
LEMMA TotalStep ==
  ASSUME NEW S, IsFiniteSet(S), NEW g, \A x \in S : g[x] \in Nat
  PROVE  /\ Total(g, S) \in Nat
         /\ S = {} => Total(g, S) = 0
         /\ S # {} => Total(g, S) = g[First(S)] + Total(g, S \ {First(S)})
<1>1. PICK f \in [SUBSET S -> Nat] : Adds(f, g, SUBSET S) /\ \A s \in SUBSET S : f[s] = Total(g, s)
  BY TotalAdds
<1>2. S \in SUBSET S /\ S \ {First(S)} \in SUBSET S
  OBVIOUS
<1>3. f[S] = Total(g, S) /\ f[S \ {First(S)}] = Total(g, S \ {First(S)})
  BY <1>1, <1>2
<1>4. f[S] = IF S = {} THEN 0 ELSE g[First(S)] + f[S \ {First(S)}]
  BY <1>1, <1>2 DEF Adds
<1>5. f[S] \in Nat
  BY <1>1, <1>2
<1> QED BY <1>3, <1>4, <1>5

\* If a set had a property that passes from a set without its first element to the set, so
\* has every finite set: stated of the subsets that lack it.
LEMMA SmallestWithout ==
  ASSUME NEW S, IsFiniteSet(S), NEW B, B \subseteq SUBSET S, B # {}, {} \notin B
  PROVE  \E s \in B : /\ IsFiniteSet(s) /\ s # {} /\ First(s) \in s
                      /\ s \ {First(s)} \in SUBSET S /\ s \ {First(s)} \notin B
<1>1. PICK s \in B : \A t \in B : t \subseteq s => t = s
  BY SmallestSubset
<1>2. IsFiniteSet(s) /\ s # {} /\ First(s) \in s
  BY <1>1, FS_Subset, FirstIn
<1> QED BY <1>1, <1>2

\* Sums of equal numbers are equal, and what holds of each pair of numbers holds of the sums.
LEMMA TotalLinear ==
  ASSUME NEW S, IsFiniteSet(S), NEW a, NEW b, NEW c, NEW d,
         \A x \in S : /\ a[x] \in Nat /\ b[x] \in Nat /\ c[x] \in Nat /\ d[x] \in Nat
                      /\ a[x] + b[x] = c[x] + d[x]
  PROVE  Total(a, S) + Total(b, S) = Total(c, S) + Total(d, S)
<1> DEFINE B == {s \in SUBSET S : Total(a, s) + Total(b, s) # Total(c, s) + Total(d, s)}
<1> SUFFICES ASSUME B # {} PROVE FALSE
  OBVIOUS
<1>1. \A s \in SUBSET S : IsFiniteSet(s)
  BY FS_Subset
<1>2. {} \notin B
  BY <1>1, TotalStep
<1>3. PICK s \in SUBSET S : /\ s \in B /\ s # {} /\ First(s) \in s
                            /\ s \ {First(s)} \in SUBSET S /\ s \ {First(s)} \notin B
  <2>1. B \subseteq SUBSET S
    OBVIOUS
  <2> HIDE DEF B
  <2> QED BY <1>2, <2>1, SmallestWithout
<1> DEFINE t == s \ {First(s)}
<1>4. Total(a, t) + Total(b, t) = Total(c, t) + Total(d, t)
  BY <1>3
<1>5. /\ Total(a, s) = a[First(s)] + Total(a, t) /\ Total(b, s) = b[First(s)] + Total(b, t)
      /\ Total(c, s) = c[First(s)] + Total(c, t) /\ Total(d, s) = d[First(s)] + Total(d, t)
      /\ \A g \in {a, b, c, d} : Total(g, t) \in Nat
  BY <1>1, <1>3, TotalStep
<1>6. First(s) \in S
  BY <1>3
<1> QED BY <1>3, <1>4, <1>5, <1>6

\* If each number is at most another with a slack, so is the sum, with a slack for each.
LEMMA TotalWithin ==
  ASSUME NEW S, IsFiniteSet(S), NEW a, NEW b, NEW c, NEW d, NEW k \in Nat,
         \A x \in S : /\ a[x] \in Nat /\ b[x] \in Nat /\ c[x] \in Nat /\ d[x] \in Nat
                      /\ a[x] + b[x] <= c[x] + d[x] + k
  PROVE  Total(a, S) + Total(b, S) <= Total(c, S) + Total(d, S) + Cardinality(S) * k
<1> DEFINE Fits(s) == Total(a, s) + Total(b, s) <= Total(c, s) + Total(d, s) + Cardinality(s) * k
           B == {s \in SUBSET S : ~Fits(s)}
<1> SUFFICES ASSUME B # {} PROVE FALSE
  OBVIOUS
<1>1. \A s \in SUBSET S : IsFiniteSet(s) /\ Cardinality(s) \in Nat
  BY FS_Subset, FS_CardinalityType
<1>2. {} \notin B
  <2>1. IsFiniteSet({}) /\ Cardinality({}) = 0
    BY FS_EmptySet
  <2>2. \A g : Total(g, {}) = 0
    BY <2>1, TotalStep
  <2>3. Total(a, {}) = 0 /\ Total(b, {}) = 0 /\ Total(c, {}) = 0 /\ Total(d, {}) = 0 /\ 0 * k = 0
    BY <2>2
  <2> QED BY <2>1, <2>3
<1>3. PICK s \in SUBSET S : /\ s \in B /\ s # {} /\ First(s) \in s
                            /\ s \ {First(s)} \in SUBSET S /\ s \ {First(s)} \notin B
  <2>1. B \subseteq SUBSET S
    OBVIOUS
  <2> HIDE DEF B
  <2> QED BY <1>2, <2>1, SmallestWithout
<1> DEFINE t == s \ {First(s)}
<1>4. Fits(t) /\ ~Fits(s)
  BY <1>3
<1>5. /\ Total(a, s) = a[First(s)] + Total(a, t) /\ Total(b, s) = b[First(s)] + Total(b, t)
      /\ Total(c, s) = c[First(s)] + Total(c, t) /\ Total(d, s) = d[First(s)] + Total(d, t)
      /\ \A g \in {a, b, c, d} : Total(g, t) \in Nat
  BY <1>1, <1>3, TotalStep
<1>6. First(s) \in S
  BY <1>3
<1> DEFINE n == Cardinality(t)
<1>7. n \in Nat /\ Cardinality(s) = n + 1
  <2>1. \A x \in s : Cardinality(s \ {x}) = Cardinality(s) - 1
    BY <1>1, FS_RemoveElement
  <2>2. n = Cardinality(s) - 1 /\ Cardinality(s) \in Nat /\ n \in Nat
    BY <2>1, <1>1, <1>3
  <2> QED BY <2>2
<1> HIDE DEF n
<1>8. (n + 1) * k = n * k + k /\ n * k \in Nat
  BY <1>7
<1>9. Total(a, t) + Total(b, t) <= Total(c, t) + Total(d, t) + n * k
  BY <1>4 DEF n
<1>10. Total(a, s) + Total(b, s) > Total(c, s) + Total(d, s) + (n + 1) * k
  <2>1. ~(Total(a, s) + Total(b, s) <= Total(c, s) + Total(d, s) + (n + 1) * k)
    BY <1>4, <1>7
  <2>2. \A g \in {a, b, c, d} : Total(g, s) \in Nat
    BY <1>1, <1>3, TotalStep
  <2>3. (n + 1) * k \in Nat
    BY <1>8
  <2> HIDE DEF Fits, B
  <2> QED BY <2>1, <2>2, <2>3
<1> HIDE DEF Fits, B, t
<1> QED BY <1>5, <1>6, <1>8, <1>9, <1>10

\* The sum depends on the numbers of the set alone.
LEMMA TotalSame ==
  ASSUME NEW S, IsFiniteSet(S), NEW g, NEW h, \A x \in S : g[x] \in Nat /\ g[x] = h[x]
  PROVE  Total(g, S) = Total(h, S)
<1> DEFINE z == [x \in S |-> 0]
<1>1. Total(g, S) + Total(z, S) = Total(h, S) + Total(z, S)
  <2>1. \A x \in S : /\ g[x] \in Nat /\ z[x] \in Nat /\ h[x] \in Nat
                     /\ g[x] + z[x] = h[x] + z[x]
    OBVIOUS
  <2> HIDE DEF z
  <2> QED BY <2>1, TotalLinear
<1>2. Total(g, S) \in Nat /\ Total(h, S) \in Nat /\ Total(z, S) \in Nat
  BY TotalStep
<1> QED BY <1>1, <1>2

\* Any element may be taken out first.
LEMMA TotalWithout ==
  ASSUME NEW S, IsFiniteSet(S), NEW g, \A x \in S : g[x] \in Nat, NEW y \in S
  PROVE  Total(g, S) = g[y] + Total(g, S \ {y})
<1> DEFINE B == {s \in SUBSET S : \E x \in s : Total(g, s) # g[x] + Total(g, s \ {x})}
<1>1. \A s \in SUBSET S : IsFiniteSet(s) /\ \A x \in s : g[x] \in Nat
  BY FS_Subset
<1>2. B = {}
  <2> SUFFICES ASSUME B # {} PROVE FALSE
    OBVIOUS
  <2>1. B \subseteq SUBSET S
    OBVIOUS
  <2>2. PICK s \in B : \A u \in B : u \subseteq s => u = s
    <3> HIDE DEF B
    <3> QED BY <2>1, SmallestSubset
  <2>3. PICK z \in s : Total(g, s) # g[z] + Total(g, s \ {z})
    BY <2>2
  <2> DEFINE x == First(s)
             t == s \ {x}
             u == s \ {z}
  <2>4. x \in s /\ Total(g, s) = g[x] + Total(g, t)
    BY <1>1, <2>1, <2>2, <2>3, TotalStep, FirstIn
  <2>5. x # z
    BY <2>3, <2>4
  <2> HIDE DEF x, B
  <2>6. /\ t \in SUBSET S /\ t \subseteq s /\ t # s /\ z \in t
        /\ u \in SUBSET S /\ u \subseteq s /\ u # s /\ x \in u
    BY <2>1, <2>2, <2>3, <2>4, <2>5
  <2>7. t \notin B /\ u \notin B
    BY <2>2, <2>6
  <2>8. Total(g, t) = g[z] + Total(g, t \ {z})
    BY <2>6, <2>7 DEF B
  <2>9. Total(g, u) = g[x] + Total(g, u \ {x})
    BY <2>6, <2>7 DEF B
  <2>10. t \ {z} = u \ {x}
    OBVIOUS
  <2>11. g[x] \in Nat /\ g[z] \in Nat /\ Total(g, t \ {z}) \in Nat
    <3>1. t \ {z} \in SUBSET S /\ x \in S /\ z \in S
      BY <2>6
    <3> QED BY <3>1, <1>1, TotalStep
  <2> QED BY <2>3, <2>4, <2>8, <2>9, <2>10, <2>11
<1> QED BY <1>2

\* The recursive equation of the sum.
Solves(h, g, S) == h = [t \in SUBSET S |-> IF t = {} THEN 0 ELSE g[First(t)] + h[t \ {First(t)}]]

\* It has a solution, and every solution gives the sum.
LEMMA TotalSolves ==
  ASSUME NEW S, IsFiniteSet(S), NEW g, \A x \in S : g[x] \in Nat
  PROVE  /\ \E h : Solves(h, g, S)
         /\ \A h : Solves(h, g, S) => h[S] = Total(g, S)
<1>1. PICK f \in [SUBSET S -> Nat] : Adds(f, g, SUBSET S) /\ \A s \in SUBSET S : f[s] = Total(g, s)
  BY TotalAdds
<1>2. Solves(f, g, S)
  BY <1>1 DEF Adds, Solves
<1>3. ASSUME NEW h, Solves(h, g, S)
      PROVE  h[S] = Total(g, S)
  <2>0. h = [t \in SUBSET S |-> IF t = {} THEN 0 ELSE g[First(t)] + h[t \ {First(t)}]]
    BY <1>3 DEF Solves
  <2> DEFINE B == {t \in SUBSET S : h[t] # f[t]}
  <2>1. B = {}
    <3> SUFFICES ASSUME B # {} PROVE FALSE
      OBVIOUS
    <3>1. B \subseteq SUBSET S /\ {} \notin B
      BY <1>1, <2>0 DEF Adds
    <3>2. PICK s \in B : s # {} /\ First(s) \in s /\ s \ {First(s)} \notin B
      <4> HIDE DEF B
      <4> QED BY <3>1, SmallestWithout
    <3>3. s \in SUBSET S /\ s \ {First(s)} \in SUBSET S
      BY <3>1
    <3>4. h[s \ {First(s)}] = f[s \ {First(s)}]
      BY <3>2, <3>3
    <3>5. h[s] = g[First(s)] + h[s \ {First(s)}]
      BY <2>0, <3>2, <3>3
    <3>6. f[s] = g[First(s)] + f[s \ {First(s)}]
      BY <1>1, <3>2, <3>3 DEF Adds
    <3> QED BY <3>2, <3>4, <3>5, <3>6
  <2> QED BY <2>1, <1>1
<1> QED BY <1>2, <1>3

\* A sum is the sum of a part and of the rest.
LEMMA TotalPart ==
  ASSUME NEW T, IsFiniteSet(T), NEW g, \A x \in T : g[x] \in Nat, NEW S \in SUBSET T
  PROVE  Total(g, T) = Total(g, S) + Total(g, T \ S)
<1> DEFINE B == {s \in SUBSET S : Total(g, T) # Total(g, s) + Total(g, T \ s)}
<1>1. \A s \in SUBSET T : /\ IsFiniteSet(s) /\ \A x \in s : g[x] \in Nat
                          /\ Total(g, s) \in Nat /\ Total(g, {}) = 0
  BY FS_Subset, TotalStep
<1>2. B = {}
  <2> SUFFICES ASSUME B # {} PROVE FALSE
    OBVIOUS
  <2>1. B \subseteq SUBSET S /\ {} \notin B
    BY <1>1
  <2>2. PICK s \in B : s # {} /\ First(s) \in s /\ s \ {First(s)} \notin B
    <3> HIDE DEF B
    <3> QED BY <1>1, <2>1, SmallestWithout
  <2> DEFINE x == First(s)
             t == s \ {x}
  <2>3. x \in s /\ s \in SUBSET T /\ t \in SUBSET T /\ T \ s \in SUBSET T /\ T \ t \in SUBSET T
    BY <2>1, <2>2
  <2>4. Total(g, T) = Total(g, t) + Total(g, T \ t)
    BY <2>1, <2>2
  <2>5. Total(g, s) = g[x] + Total(g, t)
    BY <1>1, <2>3, TotalWithout
  <2>6. Total(g, T \ t) = g[x] + Total(g, (T \ t) \ {x})
    BY <1>1, <2>3, TotalWithout
  <2>7. (T \ t) \ {x} = T \ s
    BY <2>3
  <2>8. Total(g, T) # Total(g, s) + Total(g, T \ s)
    BY <2>2
  <2>9. /\ g[x] \in Nat /\ Total(g, t) \in Nat /\ Total(g, s) \in Nat
        /\ Total(g, T \ s) \in Nat /\ Total(g, T \ t) \in Nat
    BY <1>1, <2>3
  <2> HIDE DEF x, t, B
  <2> QED BY <2>4, <2>5, <2>6, <2>7, <2>8, <2>9
<1> QED BY <1>2

\* A part adds up to no more, and to as much when the rest is zero.
LEMMA TotalGrows ==
  ASSUME NEW T, IsFiniteSet(T), NEW g, \A x \in T : g[x] \in Nat, NEW S \in SUBSET T
  PROVE  /\ Total(g, S) \in Nat /\ Total(g, T) \in Nat /\ Total(g, S) <= Total(g, T)
         /\ (\A x \in T \ S : g[x] = 0) => Total(g, S) = Total(g, T)
<1>1. \A s \in SUBSET T : IsFiniteSet(s) /\ (\A x \in s : g[x] \in Nat) /\ Total(g, s) \in Nat
  BY FS_Subset, TotalStep
<1>2. Total(g, T) = Total(g, S) + Total(g, T \ S)
  BY TotalPart
<1>3. ASSUME \A x \in T \ S : g[x] = 0
      PROVE  Total(g, T \ S) = 0
  <2> DEFINE R == T \ S
             B == {s \in SUBSET R : Total(g, s) # 0}
  <2>0. IsFiniteSet(R)
    BY FS_Subset
  <2>1. B = {}
    <3> SUFFICES ASSUME B # {} PROVE FALSE
      OBVIOUS
    <3>1. B \subseteq SUBSET R /\ {} \notin B
      BY <1>1, TotalStep
    <3>2. PICK s \in B : s # {} /\ First(s) \in s /\ s \ {First(s)} \notin B
      <4> HIDE DEF B, R
      <4> QED BY <2>0, <3>1, SmallestWithout
    <3>3. s \in SUBSET T /\ g[First(s)] = 0 /\ Total(g, s \ {First(s)}) = 0
      BY <1>3, <3>1, <3>2
    <3>4. Total(g, s) = g[First(s)] + Total(g, s \ {First(s)})
      BY <1>1, <3>2, <3>3, TotalStep
    <3> QED BY <3>2, <3>3, <3>4
  <2> QED BY <2>1
<1>4. Total(g, S) \in Nat /\ Total(g, T) \in Nat /\ Total(g, T \ S) \in Nat
  BY <1>1
<1> QED BY <1>2, <1>3, <1>4

\* Two parts that cover a set add up to at least its sum.
LEMMA TotalCovers ==
  ASSUME NEW T, IsFiniteSet(T), NEW g, \A x \in T : g[x] \in Nat,
         NEW R \in SUBSET T, NEW S \in SUBSET T, T = R \union S
  PROVE  Total(g, T) <= Total(g, R) + Total(g, S)
<1>1. Total(g, T) = Total(g, R) + Total(g, T \ R)
  BY TotalPart
<1>2. IsFiniteSet(S) /\ (\A x \in S : g[x] \in Nat) /\ T \ R \in SUBSET S
  BY FS_Subset
<1>3. Total(g, T \ R) <= Total(g, S) /\ Total(g, T \ R) \in Nat /\ Total(g, S) \in Nat
  BY <1>2, TotalGrows
<1>4. Total(g, R) \in Nat
  BY TotalGrows
<1> QED BY <1>1, <1>3, <1>4

\* One more at one place is one more in every sum that counts the place.
LEMMA TotalBumped ==
  ASSUME NEW T, IsFiniteSet(T), NEW g, \A x \in T : g[x] \in Nat, NEW y, NEW h,
         \A x \in T : h[x] = IF x = y THEN g[x] + 1 ELSE g[x]
  PROVE  Total(h, T) = IF y \in T THEN Total(g, T) + 1 ELSE Total(g, T)
<1>1. CASE y \notin T
  BY <1>1, TotalSame
<1>2. CASE y \in T
  <2> DEFINE S == T \ {y}
  <2>1. IsFiniteSet(S) /\ \A x \in S : g[x] \in Nat /\ g[x] = h[x]
    BY FS_Subset
  <2>2. Total(g, S) = Total(h, S) /\ Total(g, S) \in Nat
    <3> HIDE DEF S
    <3> QED BY <2>1, TotalSame, TotalStep
  <2>3. \A x \in T : h[x] \in Nat
    OBVIOUS
  <2>4. Total(g, T) = g[y] + Total(g, S) /\ Total(h, T) = h[y] + Total(h, S)
    BY <1>2, <2>3, TotalWithout
  <2>5. g[y] \in Nat /\ h[y] = g[y] + 1
    BY <1>2
  <2> HIDE DEF S
  <2> QED BY <1>2, <2>2, <2>4, <2>5
<1> QED BY <1>1, <1>2
=============================================================================
