--------------------------- MODULE JudgementProofs ---------------------------
(***************************************************************************)
(* What holds of every winner, of the review of its rows and of the        *)
(* routing score, for all Agents, rules, weights, histories and works.     *)
(*                                                                         *)
(* The module first has what a sum over a finite set is made of. The fold  *)
(* behind SumFunction is a table over the subsets of the set; that there   *)
(* is such a table, and one only, and what holds of its entries is shown   *)
(* on a smallest set for which it would not hold (SmallestSet). Then come  *)
(* the routing score, which grows with each score of the history           *)
(* (RoutingScoreNoBetter), the evidence (EligibleIsClean) and the ranking, *)
(* which is total on measured runs of different Agents (RankIsTotal).      *)
(*                                                                         *)
(* JudgeInv is the inductive invariant: WinnerIsClean needs from it that   *)
(* every Agent ran once and that nothing but its work made a candidate     *)
(* eligible, the others that what is stored is the comparison of all       *)
(* candidates.                                                             *)
(***************************************************************************)
EXTENDS Judgement, FiniteSetTheorems, SequenceTheorems, WellFoundedInduction, TLAPS

-----------------------------------------------------------------------------
(* Sums                                                                    *)

Pick(s) == CHOOSE x \in s : TRUE

\* h holds the sums of f over all subsets of S, as the fold computes them.
IsTable(h, f, S) ==
    h = [s \in SUBSET S |-> IF s = {} THEN 0 ELSE f[Pick(s)] + h[s \ {Pick(s)}]]

LEMMA SumFromTable ==
  ASSUME NEW f, NEW S
  PROVE  SumFunctionOnSet(f, S) = (CHOOSE h : IsTable(h, f, S))[S]
BY Zenon DEF SumFunctionOnSet, FoldFunctionOnSet, MapThenFoldSet, IsTable, Pick

\* In place of induction: of some finite sets one has none of the others in it.
LEMMA SmallestSet ==
  ASSUME NEW S, IsFiniteSet(S), NEW D \in SUBSET (SUBSET S), D # {}
  PROVE  \E s \in D : \A t \in SUBSET s : t \in D => t = s
<1>1. IsWellFoundedOn(StrictSubsetOrdering(S), SUBSET S)
  BY FS_StrictSubsetOrderingWellFounded, FS_FiniteSubsetsOfFinite
<1>2. PICK s \in D : \A t \in D : ~(<<t, s>> \in StrictSubsetOrdering(S))
  BY <1>1, WFMin
<1>3. ASSUME NEW t \in SUBSET s, t \in D, t # s PROVE FALSE
  <2>1. <<t, s>> \in (SUBSET S) \X (SUBSET S) /\ t \subseteq s
    BY <1>3
  <2>2. <<t, s>>[1] = t /\ <<t, s>>[2] = s
    OBVIOUS
  <2>3. <<t, s>> \in StrictSubsetOrdering(S)
    BY <1>3, <2>1, <2>2 DEF StrictSubsetOrdering
  <2> QED
    BY <1>2, <1>3, <2>3
<1> QED
  BY <1>2, <1>3

LEMMA TableEntry ==
  ASSUME NEW f, NEW S, NEW h, IsTable(h, f, S), NEW s \in SUBSET S
  PROVE  h[s] = IF s = {} THEN 0 ELSE f[Pick(s)] + h[s \ {Pick(s)}]
BY DEF IsTable

LEMMA TablesAgree ==
  ASSUME NEW f, NEW S, IsFiniteSet(S), NEW T \in SUBSET S,
         NEW g, IsTable(g, f, S), NEW h, IsTable(h, f, T)
  PROVE  \A s \in SUBSET T : g[s] = h[s]
<1> DEFINE D == {s \in SUBSET T : g[s] # h[s]}
<1> SUFFICES ASSUME D # {} PROVE FALSE
  OBVIOUS
<1>1. IsFiniteSet(T) /\ D \in SUBSET (SUBSET T)
  BY FS_Subset
<1>2. PICK s \in D : \A t \in SUBSET s : t \in D => t = s
  <2> HIDE DEF D
  <2> QED
    BY <1>1, SmallestSet
<1>3. s \in SUBSET T /\ s \in SUBSET S /\ g[s] # h[s]
  OBVIOUS
<1>4. s # {}
  BY <1>3, TableEntry
<1>5. Pick(s) \in s
  BY <1>4 DEF Pick
<1>6. g[s \ {Pick(s)}] = h[s \ {Pick(s)}]
  BY <1>2, <1>3, <1>5
<1>7. /\ g[s] = f[Pick(s)] + g[s \ {Pick(s)}]
      /\ h[s] = f[Pick(s)] + h[s \ {Pick(s)}]
  BY <1>3, <1>4, TableEntry
<1> QED
  BY <1>3, <1>6, <1>7

LEMMA TableExists ==
  ASSUME NEW f, NEW S, IsFiniteSet(S)
  PROVE  \E h : IsTable(h, f, S)
<1> DEFINE D == {T \in SUBSET S : ~ \E h : IsTable(h, f, T)}
<1> SUFFICES ASSUME D # {} PROVE FALSE
  OBVIOUS
<1>1. PICK T \in D : \A U \in SUBSET T : U \in D => U = T
  <2>1. D \in SUBSET (SUBSET S)
    OBVIOUS
  <2> HIDE DEF D
  <2> QED
    BY <2>1, SmallestSet
<1>2. T \in SUBSET S /\ IsFiniteSet(T) /\ ~ \E h : IsTable(h, f, T)
  BY FS_Subset
<1> DEFINE H(U) == CHOOSE h : IsTable(h, f, U)
           Rest(s) == s \ {Pick(s)}
<1>3. ASSUME NEW U \in SUBSET T, U # T PROVE IsTable(H(U), f, U) /\ IsFiniteSet(U)
  <2>1. \E h : IsTable(h, f, U)
    BY <1>1, <1>2, <1>3
  <2> QED
    BY <1>2, <2>1, FS_Subset
<1>4. PICK g : g = [s \in SUBSET T |-> IF s = {} THEN 0 ELSE f[Pick(s)] + H(Rest(s))[Rest(s)]]
  OBVIOUS
<1> HIDE DEF H
<1>5. ASSUME NEW s \in SUBSET T, s # {} PROVE g[Rest(s)] = H(Rest(s))[Rest(s)]
  <2>1. Pick(s) \in s
    BY <1>5 DEF Pick
  <2>2. Rest(s) \in SUBSET T /\ Rest(s) # T
    BY <2>1
  <2>3. PICK r : r = Rest(s)
    OBVIOUS
  <2>4. r \in SUBSET T /\ IsTable(H(r), f, r) /\ IsFiniteSet(r)
    BY <1>3, <2>2, <2>3
  <2>5. CASE r = {}
    <3>1. H(r)[r] = 0
      BY <2>4, <2>5, TableEntry
    <3>2. g[r] = 0
      BY <1>4, <2>4, <2>5
    <3> QED
      BY <2>3, <3>1, <3>2
  <2>6. CASE r # {}
    <3>1. PICK q : q = Rest(r)
      OBVIOUS
    <3>2. Pick(r) \in r /\ q \in SUBSET r
      BY <2>6, <3>1 DEF Pick
    <3>3. q \in SUBSET T /\ q # T
      BY <2>2, <2>3, <3>1, <3>2
    <3>4. IsTable(H(q), f, q)
      BY <1>3, <3>3
    <3>5. H(r)[q] = H(q)[q]
      BY <2>4, <3>2, <3>4, TablesAgree
    <3>6. H(r)[r] = f[Pick(r)] + H(r)[q]
      BY <2>4, <2>6, <3>1, TableEntry
    <3>7. g[r] = f[Pick(r)] + H(q)[q]
      BY <1>4, <2>4, <2>6, <3>1
    <3> QED
      BY <2>3, <3>5, <3>6, <3>7
  <2> QED
    BY <2>5, <2>6
<1>6. g = [s \in SUBSET T |-> IF s = {} THEN 0 ELSE f[Pick(s)] + g[Rest(s)]]
  BY <1>4, <1>5
<1>7. IsTable(g, f, T)
  BY <1>6 DEF IsTable
<1> QED
  BY <1>2, <1>7

\* What a sum is made of.
LEMMA SumSteps ==
  ASSUME NEW f, NEW S, IsFiniteSet(S)
  PROVE  /\ S = {} => SumFunctionOnSet(f, S) = 0
         /\ S # {} => /\ Pick(S) \in S
                      /\ SumFunctionOnSet(f, S)
                           = f[Pick(S)] + SumFunctionOnSet(f, S \ {Pick(S)})
<1>1. PICK g : g = CHOOSE h : IsTable(h, f, S)
  OBVIOUS
<1>2. IsTable(g, f, S) /\ SumFunctionOnSet(f, S) = g[S]
  BY <1>1, TableExists, SumFromTable
<1>3. S = {} => g[S] = 0
  BY <1>2, TableEntry
<1>4. ASSUME S # {}
      PROVE  /\ Pick(S) \in S
             /\ g[S] = f[Pick(S)] + SumFunctionOnSet(f, S \ {Pick(S)})
  <2>1. PICK T : T = S \ {Pick(S)}
    OBVIOUS
  <2>2. PICK t : t = CHOOSE h : IsTable(h, f, T)
    OBVIOUS
  <2>3. T \in SUBSET S /\ IsFiniteSet(T)
    BY <2>1, FS_Subset
  <2>4. IsTable(t, f, T) /\ SumFunctionOnSet(f, T) = t[T]
    BY <2>2, <2>3, TableExists, SumFromTable
  <2>5. g[T] = t[T]
    BY <1>2, <2>3, <2>4, TablesAgree
  <2>6. g[S] = f[Pick(S)] + g[T]
    BY <1>2, <1>4, <2>1, TableEntry
  <2>7. Pick(S) \in S
    BY <1>4 DEF Pick
  <2> QED
    BY <2>1, <2>4, <2>5, <2>6, <2>7
<1> QED
  BY <1>2, <1>3, <1>4

LEMMA SumType ==
  ASSUME NEW S, IsFiniteSet(S), NEW f, \A x \in S : f[x] \in Nat
  PROVE  SumFunctionOnSet(f, S) \in Nat
<1> DEFINE D == {s \in SUBSET S : SumFunctionOnSet(f, s) \notin Nat}
<1> SUFFICES ASSUME D # {} PROVE FALSE
  OBVIOUS
<1>1. PICK s \in D : \A t \in SUBSET s : t \in D => t = s
  <2>1. D \in SUBSET (SUBSET S)
    OBVIOUS
  <2> HIDE DEF D
  <2> QED
    BY <2>1, SmallestSet
<1>2. s \in SUBSET S /\ IsFiniteSet(s) /\ SumFunctionOnSet(f, s) \notin Nat
  BY FS_Subset
<1>3. /\ Pick(s) \in s
      /\ SumFunctionOnSet(f, s) = f[Pick(s)] + SumFunctionOnSet(f, s \ {Pick(s)})
  BY <1>2, SumSteps
<1>4. SumFunctionOnSet(f, s \ {Pick(s)}) \in Nat
  BY <1>1, <1>2, <1>3
<1> QED
  BY <1>2, <1>3, <1>4

LEMMA SumPositive ==
  ASSUME NEW S, IsFiniteSet(S), S # {}, NEW f, \A x \in S : f[x] \in Nat \ {0}
  PROVE  SumFunctionOnSet(f, S) \in Nat \ {0}
<1>1. /\ Pick(S) \in S
      /\ SumFunctionOnSet(f, S) = f[Pick(S)] + SumFunctionOnSet(f, S \ {Pick(S)})
  BY SumSteps
<1>2. SumFunctionOnSet(f, S \ {Pick(S)}) \in Nat
  BY FS_Subset, SumType
<1> QED
  BY <1>1, <1>2

\* A sum does not grow when none of its terms does.
LEMMA SumMonotone ==
  ASSUME NEW S, IsFiniteSet(S), NEW f, NEW g,
         \A x \in S : f[x] \in Nat /\ g[x] \in Nat /\ f[x] <= g[x]
  PROVE  SumFunctionOnSet(f, S) <= SumFunctionOnSet(g, S)
<1> DEFINE D == {s \in SUBSET S : ~(SumFunctionOnSet(f, s) <= SumFunctionOnSet(g, s))}
<1> SUFFICES ASSUME D # {} PROVE FALSE
  OBVIOUS
<1>1. PICK s \in D : \A t \in SUBSET s : t \in D => t = s
  <2>1. D \in SUBSET (SUBSET S)
    OBVIOUS
  <2> HIDE DEF D
  <2> QED
    BY <2>1, SmallestSet
<1>2. s \in SUBSET S /\ IsFiniteSet(s) /\ ~(SumFunctionOnSet(f, s) <= SumFunctionOnSet(g, s))
  BY FS_Subset
<1>3. s # {}
  <2>1. s = {} => SumFunctionOnSet(f, s) = 0 /\ SumFunctionOnSet(g, s) = 0
    BY <1>2, SumSteps
  <2> QED
    BY <1>2, <2>1
<1>4. PICK x, t : x = Pick(s) /\ t = s \ {Pick(s)}
  OBVIOUS
<1>5. /\ x \in s /\ t \in SUBSET s /\ t # s /\ IsFiniteSet(t)
      /\ SumFunctionOnSet(f, s) = f[x] + SumFunctionOnSet(f, t)
      /\ SumFunctionOnSet(g, s) = g[x] + SumFunctionOnSet(g, t)
  BY <1>2, <1>3, <1>4, SumSteps, FS_Subset
<1>6. SumFunctionOnSet(f, t) <= SumFunctionOnSet(g, t)
  BY <1>1, <1>2, <1>5
<1>7. SumFunctionOnSet(f, t) \in Nat /\ SumFunctionOnSet(g, t) \in Nat
  BY <1>2, <1>5, SumType
<1>8. f[x] \in Nat /\ g[x] \in Nat /\ f[x] <= g[x]
  BY <1>2, <1>5
<1> QED
  BY <1>2, <1>5, <1>6, <1>7, <1>8

LEMMA QuotientMonotone ==
  ASSUME NEW m \in Nat, NEW n \in Nat, m <= n, NEW d \in Nat \ {0}
  PROVE  m \div d \in Nat /\ m \div d <= n \div d
OBVIOUS

LEMMA SumNat ==
  ASSUME NEW f, IsFiniteSet(DOMAIN f), \A x \in DOMAIN f : f[x] \in Nat
  PROVE  SumFunction(f) \in Nat
BY SumType DEF SumFunction

LEMMA SumNotZero ==
  ASSUME NEW f, IsFiniteSet(DOMAIN f), DOMAIN f # {}, \A x \in DOMAIN f : f[x] \in Nat \ {0}
  PROVE  SumFunction(f) \in Nat \ {0}
BY SumPositive DEF SumFunction

LEMMA SumGrows ==
  ASSUME NEW f, NEW g, IsFiniteSet(DOMAIN f), DOMAIN f = DOMAIN g,
         \A x \in DOMAIN f : f[x] \in Nat /\ g[x] \in Nat /\ f[x] <= g[x]
  PROVE  SumFunction(f) <= SumFunction(g)
BY SumMonotone DEF SumFunction

LEMMA Products ==
  /\ \A a, b \in Nat : a * b \in Nat
  /\ \A a, b \in Nat \ {0} : a * b \in Nat \ {0}
  /\ \A a, b, c \in Nat : a <= b => c * a <= c * b /\ a * c <= b * c
OBVIOUS

LEMMA RoundedQuotientType ==
  ASSUME NEW n \in Nat, NEW d \in Nat \ {0}
  PROVE  RoundedQuotient(n, d) \in Nat
BY QuotientMonotone DEF RoundedQuotient

LEMMA RoundedQuotientMonotone ==
  ASSUME NEW m \in Nat, NEW n \in Nat, m <= n, NEW d \in Nat \ {0}
  PROVE  RoundedQuotient(m, d) <= RoundedQuotient(n, d)
<1>1. 2 * m + d \in Nat /\ 2 * n + d \in Nat /\ 2 * m + d <= 2 * n + d /\ 2 * d \in Nat \ {0}
  OBVIOUS
<1> QED
  BY <1>1, QuotientMonotone DEF RoundedQuotient

-----------------------------------------------------------------------------
(* Routing                                                                 *)

Importances == [Categories -> 0..100]

LEMMA Classified ==
  ASSUME NEW matched \in SUBSET Rules
  PROVE  Classify(matched) \in Importances
<1>1. ASSUME NEW c \in Categories
      PROVE  Clamp(SumFunction([r \in {r \in matched : r.category = c} |-> r.weight]), 100) \in 0..100
  <2>1. PICK f : f = [r \in {r \in matched : r.category = c} |-> r.weight]
    OBVIOUS
  <2>2. DOMAIN f \in SUBSET Rules /\ \A r \in DOMAIN f : f[r] = r.weight
    BY <2>1
  <2>3. IsFiniteSet(DOMAIN f) /\ \A r \in DOMAIN f : f[r] \in Nat
    BY <2>2, FS_Subset, RoutingAssumption
  <2>4. SumFunction(f) \in Nat
    BY <2>3, SumNat
  <2> QED
    BY <2>1, <2>4 DEF Clamp
<1> QED
  BY <1>1, RoutingAssumption DEF Classify, Importances

\* The statistics see rows a like rows b, but for scores that are no better.
NoBetter(a, b) ==
  /\ a \in Seq(Run) /\ b \in Seq(Run) /\ DOMAIN a = DOMAIN b
  /\ \A i \in DOMAIN a : /\ a[i].agent = b[i].agent /\ a[i].importance = b[i].importance
                         /\ Points(a[i]) <= Points(b[i])

LEMMA RunParts ==
  ASSUME NEW rows1 \in Seq(Run)
  PROVE  /\ IsFiniteSet(DOMAIN rows1)
         /\ \A i \in DOMAIN rows1 : /\ rows1[i].agent \in Agents
                                    /\ rows1[i].importance \in Importances
                                    /\ Points(rows1[i]) \in Nat
<1>1. Len(rows1) \in Nat /\ DOMAIN rows1 = 1..Len(rows1)
  BY LenProperties
<1>2. IsFiniteSet(1..Len(rows1))
  BY <1>1, FS_Interval
<1>3. \A i \in DOMAIN rows1 : rows1[i] \in Run
  BY <1>1, ElementOfSeq
<1>4. \A i \in DOMAIN rows1 : /\ rows1[i].agent \in Agents
                              /\ rows1[i].importance \in Importances
                              /\ rows1[i].score \in Nat \union {Unknown}
  BY <1>3 DEF Run, Importances
<1>5. \A i \in DOMAIN rows1 : Points(rows1[i]) \in Nat
  BY <1>4 DEF Points
<1> QED
  BY <1>1, <1>2, <1>4, <1>5

\* What the SQL groups over does not depend on the scores.
LEMMA SameRows ==
  ASSUME NEW a, NEW b, NoBetter(a, b), NEW agent, NEW c
  PROVE  /\ CategoryRows(a, agent, c) = CategoryRows(b, agent, c)
         /\ RecentRows(a, agent) = RecentRows(b, agent)
<1>1. RowsOf(a, agent) = RowsOf(b, agent)
  BY DEF RowsOf, NoBetter
<1>2. \A i \in RowsOf(a, agent) : a[i].importance = b[i].importance
  BY DEF RowsOf, NoBetter
<1> QED
  BY <1>1, <1>2 DEF CategoryRows, RecentRows

LEMMA QualityNoBetter ==
  ASSUME NEW a, NEW b, NoBetter(a, b), NEW agent \in Agents, NEW c \in Categories
  PROVE  \/ Quality(a, agent, c) = Unknown /\ Quality(b, agent, c) = Unknown
         \/ /\ Quality(a, agent, c) \in Nat /\ Quality(b, agent, c) \in Nat
            /\ Quality(a, agent, c) <= Quality(b, agent, c)
<1>1. PICK is : is = CategoryRows(a, agent, c)
  OBVIOUS
<1>2. is = CategoryRows(b, agent, c)
  BY <1>1, SameRows
<1>3. CASE is = {}
  BY <1>1, <1>2, <1>3 DEF Quality, Counted
<1>4. CASE is # {}
  <2>1. PICK f, g, w :
          /\ f = [i \in is |-> a[i].importance[c] * Points(a[i])]
          /\ g = [i \in is |-> b[i].importance[c] * Points(b[i])]
          /\ w = [i \in is |-> a[i].importance[c]]
    OBVIOUS
  <2>2. a \in Seq(Run) /\ b \in Seq(Run) /\ is \in SUBSET DOMAIN a /\ DOMAIN a = DOMAIN b
    BY <1>1 DEF CategoryRows, RowsOf, NoBetter
  <2>3. IsFiniteSet(is)
    BY <2>2, RunParts, FS_Subset
  <2>4. ASSUME NEW i \in is
        PROVE  /\ a[i].importance[c] \in Nat \ {0} /\ b[i].importance[c] = a[i].importance[c]
               /\ Points(a[i]) \in Nat /\ Points(b[i]) \in Nat /\ Points(a[i]) <= Points(b[i])
    <3>1. a[i].importance \in Importances /\ Points(a[i]) \in Nat /\ Points(b[i]) \in Nat
      BY <2>2, RunParts
    <3>2. a[i].importance[c] > 0
      BY <1>1 DEF CategoryRows
    <3>3. a[i].importance[c] \in 0..100
      BY <3>1 DEF Importances
    <3>4. a[i].importance = b[i].importance /\ Points(a[i]) <= Points(b[i])
      BY <2>2 DEF NoBetter
    <3> QED
      BY <3>1, <3>2, <3>3, <3>4
  <2>5. \A i \in is : f[i] \in Nat /\ g[i] \in Nat /\ f[i] <= g[i]
    BY <2>1, <2>4, Products
  <2>6. SumFunction(f) \in Nat /\ SumFunction(g) \in Nat /\ SumFunction(f) <= SumFunction(g)
    BY <2>1, <2>3, <2>5, SumNat, SumGrows
  <2>7. SumFunction(w) \in Nat \ {0}
    BY <1>4, <2>1, <2>3, <2>4, SumNotZero
  <2>8. w = [i \in is |-> b[i].importance[c]]
    BY <2>1, <2>4
  <2>9. /\ Quality(a, agent, c) = RoundedQuotient(100 * SumFunction(f), SumFunction(w))
        /\ Quality(b, agent, c) = RoundedQuotient(100 * SumFunction(g), SumFunction(w))
    BY <1>1, <1>2, <1>4, <2>1, <2>8 DEF Quality, Counted
  <2>10. 100 * SumFunction(f) \in Nat /\ 100 * SumFunction(g) \in Nat
         /\ 100 * SumFunction(f) <= 100 * SumFunction(g)
    BY <2>6
  <2> QED
    BY <2>7, <2>9, <2>10, RoundedQuotientType, RoundedQuotientMonotone
<1> QED
  BY <1>3, <1>4

LEMMA RecentNoBetter ==
  ASSUME NEW a, NEW b, NoBetter(a, b), NEW agent \in Agents
  PROVE  \/ RecentQuality(a, agent) = Unknown /\ RecentQuality(b, agent) = Unknown
         \/ /\ RecentQuality(a, agent) \in Nat /\ RecentQuality(b, agent) \in Nat
            /\ RecentQuality(a, agent) <= RecentQuality(b, agent)
<1>1. PICK is : is = RecentRows(a, agent)
  OBVIOUS
<1>2. is = RecentRows(b, agent)
  BY <1>1, SameRows
<1>3. CASE is = {}
  BY <1>1, <1>2, <1>3 DEF RecentQuality, Counted
<1>4. CASE is # {}
  <2>1. PICK f, g : f = [i \in is |-> Points(a[i])] /\ g = [i \in is |-> Points(b[i])]
    OBVIOUS
  <2>2. a \in Seq(Run) /\ b \in Seq(Run) /\ is \in SUBSET DOMAIN a /\ DOMAIN a = DOMAIN b
    BY <1>1 DEF RecentRows, RowsOf, NoBetter
  <2>3. IsFiniteSet(is) /\ Cardinality(is) \in Nat \ {0}
    <3>1. IsFiniteSet(is)
      BY <2>2, RunParts, FS_Subset
    <3> QED
      BY <1>4, <3>1, FS_CardinalityType, FS_EmptySet
  <2>4. \A i \in is : f[i] \in Nat /\ g[i] \in Nat /\ f[i] <= g[i]
    BY <2>1, <2>2, RunParts DEF NoBetter
  <2>5. SumFunction(f) \in Nat /\ SumFunction(g) \in Nat /\ SumFunction(f) <= SumFunction(g)
    BY <2>1, <2>3, <2>4, SumNat, SumGrows
  <2>6. /\ RecentQuality(a, agent) = RoundedQuotient(100 * SumFunction(f), Cardinality(is))
        /\ RecentQuality(b, agent) = RoundedQuotient(100 * SumFunction(g), Cardinality(is))
    BY <1>1, <1>2, <1>4, <2>1 DEF RecentQuality, Counted
  <2>7. 100 * SumFunction(f) \in Nat /\ 100 * SumFunction(g) \in Nat
        /\ 100 * SumFunction(f) <= 100 * SumFunction(g)
    BY <2>5
  <2> QED
    BY <2>3, <2>6, <2>7, RoundedQuotientType, RoundedQuotientMonotone
<1> QED
  BY <1>3, <1>4

LEMMA ClampMonotone ==
  ASSUME NEW u \in Nat, NEW v \in Nat, u <= v, NEW top \in Nat
  PROVE  /\ Clamp(u, top) \in Nat /\ Clamp(v, top) \in Nat
         /\ Clamp(u, top) <= Clamp(v, top)
BY SMT DEF Clamp

LEMMA StaticScoreType ==
  ASSUME NEW imp \in Importances, NEW agent \in Agents
  PROVE  StaticScore(imp, agent) \in Nat
<1>1. PICK active : active = Active(imp)
  OBVIOUS
<1>2. CASE active = {}
  BY <1>1, <1>2 DEF StaticScore
<1>3. CASE active # {}
  <2>1. PICK f, w : /\ f = [c \in active |-> imp[c] * Capability[agent][c]]
                    /\ w = [c \in active |-> imp[c]]
    OBVIOUS
  <2>2. active \in SUBSET Categories /\ IsFiniteSet(active)
    BY <1>1, FS_Subset, RoutingAssumption DEF Active
  <2>3. \A c \in active : imp[c] \in Nat \ {0} /\ Capability[agent][c] \in Nat
    <3>1. \A c \in Categories : imp[c] \in 0..100
      BY DEF Importances
    <3>2. Capability[agent] \in [Categories -> 0..100]
      BY RoutingAssumption
    <3>3. \A c \in active : imp[c] > 0
      BY <1>1 DEF Active
    <3> QED
      BY <2>2, <3>1, <3>2, <3>3
  <2>4. SumFunction(f) \in Nat
    BY <2>1, <2>2, <2>3, Products, SumNat
  <2>5. SumFunction(w) \in Nat \ {0}
    BY <1>3, <2>1, <2>2, <2>3, SumNotZero
  <2>6. StaticScore(imp, agent) = RoundedQuotient(100 * SumFunction(f), SumFunction(w))
    BY <1>1, <1>3, <2>1 DEF StaticScore, Total
  <2> QED
    BY <2>4, <2>5, <2>6, RoundedQuotientType
<1> QED
  BY <1>2, <1>3

\* Runs of an Agent that were no better make it no more suitable.
LEMMA RoutingScoreNoBetter ==
  ASSUME NEW a, NEW b, NoBetter(a, b), NEW imp \in Importances, NEW agent \in Agents
  PROVE  /\ RoutingScore(a, imp, agent) \in Nat /\ RoutingScore(b, imp, agent) \in Nat
         /\ RoutingScore(a, imp, agent) <= RoutingScore(b, imp, agent)
<1>1. PICK known : known = Experienced(a, imp, agent)
  OBVIOUS
<1>2. known = Experienced(b, imp, agent)
  <2>1. \A c \in Active(imp) : /\ CategoryRows(a, agent, c) = CategoryRows(b, agent, c)
                               /\ Quality(a, agent, c) # Unknown <=> Quality(b, agent, c) # Unknown
    <3>1. \A c \in Active(imp) : c \in Categories
      BY DEF Active
    <3>2. \A n \in Nat : n # Unknown
      BY DEF Unknown
    <3> QED
      BY <3>1, <3>2, SameRows, QualityNoBetter
  <2> QED
    BY <1>1, <2>1 DEF Experienced
<1>3. known \in SUBSET Categories /\ IsFiniteSet(known)
  BY <1>1, FS_Subset, RoutingAssumption DEF Experienced, Active
<1>4. ASSUME NEW c \in known
      PROVE  /\ imp[c] \in Nat \ {0} /\ Quality(a, agent, c) \in Nat /\ Quality(b, agent, c) \in Nat
             /\ Quality(a, agent, c) <= Quality(b, agent, c)
  <2>1. c \in Categories /\ imp[c] \in 0..100 /\ imp[c] > 0 /\ Quality(a, agent, c) # Unknown
    BY <1>1, <1>3 DEF Importances, Experienced, Active
  <2> QED
    BY <2>1, QualityNoBetter
<1>5. PICK pa, pb, w : /\ pa = [c \in known |-> imp[c] * Quality(a, agent, c)]
                       /\ pb = [c \in known |-> imp[c] * Quality(b, agent, c)]
                       /\ w = [c \in known |-> imp[c]]
  OBVIOUS
<1>6. PICK pastA, pastB : pastA = SumFunction(pa) /\ pastB = SumFunction(pb)
  OBVIOUS
<1>7. pastA \in Nat /\ pastB \in Nat /\ pastA <= pastB
  <2>1. \A c \in known : pa[c] \in Nat /\ pb[c] \in Nat /\ pa[c] <= pb[c]
    BY <1>4, <1>5, Products
  <2> QED
    BY <1>3, <1>5, <1>6, <2>1, SumNat, SumGrows
<1>8. PICK total : total = IF known = {} THEN 1 ELSE Total(imp, known)
  OBVIOUS
<1>9. total \in Nat \ {0}
  <2>1. ASSUME known # {} PROVE SumFunction(w) \in Nat \ {0}
    BY <1>3, <1>4, <1>5, <2>1, SumNotZero
  <2> QED
    BY <1>5, <1>8, <2>1 DEF Total
<1>11. HasRecent(a, agent) <=> HasRecent(b, agent)
  <2>1. \A n \in Nat : n # Unknown
    BY DEF Unknown
  <2>2. RecentQuality(a, agent) # Unknown <=> RecentQuality(b, agent) # Unknown
    BY <2>1, RecentNoBetter
  <2>3. RecentRows(a, agent) = RecentRows(b, agent)
    BY SameRows
  <2> QED
    BY <2>2, <2>3 DEF HasRecent
<1>12. PICK ra, rb : /\ ra = IF HasRecent(a, agent) THEN RoutingWeights.recent * RecentQuality(a, agent) ELSE 0
                     /\ rb = IF HasRecent(a, agent) THEN RoutingWeights.recent * RecentQuality(b, agent) ELSE 0
  OBVIOUS
<1>13. PICK ws, wh, wr : ws = RoutingWeights.static /\ wh = RoutingWeights.history /\ wr = RoutingWeights.recent
  OBVIOUS
<1>14. ws \in Nat /\ wh \in Nat /\ wr \in Nat
  BY <1>13, RoutingAssumption
<1>15. ra \in Nat /\ rb \in Nat /\ ra <= rb
  <2>1. ASSUME HasRecent(a, agent)
        PROVE  /\ RecentQuality(a, agent) \in Nat /\ RecentQuality(b, agent) \in Nat
               /\ RecentQuality(a, agent) <= RecentQuality(b, agent)
    BY <2>1, RecentNoBetter DEF HasRecent
  <2> QED
    BY <1>12, <1>13, <1>14, <2>1, Products
<1>16. PICK static : static = StaticScore(imp, agent)
  OBVIOUS
<1>17. static \in Nat
  BY <1>16, StaticScoreType
<1>18. PICK weight : weight = AvailableWeight(known, HasRecent(a, agent))
  OBVIOUS
<1>19. weight \in Nat /\ weight = AvailableWeight(known, HasRecent(b, agent))
  BY <1>11, <1>13, <1>14, <1>18 DEF AvailableWeight
<1>20. PICK qa, qb : /\ qa = (ws * static + ra) * total + wh * pastA
                     /\ qb = (ws * static + rb) * total + wh * pastB
  OBVIOUS
<1>21. qa \in Nat /\ qb \in Nat /\ qa <= qb
  <2>1. PICK xa, xb : xa = ws * static + ra /\ xb = ws * static + rb
    OBVIOUS
  <2>2. ws * static \in Nat
    BY <1>14, <1>17, Products
  <2>3. xa \in Nat /\ xb \in Nat /\ xa <= xb
    BY <1>15, <2>1, <2>2
  <2>4. xa * total \in Nat /\ xb * total \in Nat /\ xa * total <= xb * total
    BY <1>9, <2>3, Products
  <2>5. wh * pastA \in Nat /\ wh * pastB \in Nat /\ wh * pastA <= wh * pastB
    BY <1>7, <1>14, Products
  <2> QED
    BY <1>20, <2>1, <2>4, <2>5
<1>22. /\ RoutingScore(a, imp, agent) =
            IF (known = {} /\ ~HasRecent(a, agent)) \/ weight = 0 THEN static
            ELSE Clamp(RoundedQuotient(qa, weight * total), 10000)
       /\ RoutingScore(b, imp, agent) =
            IF (known = {} /\ ~HasRecent(a, agent)) \/ weight = 0 THEN static
            ELSE Clamp(RoundedQuotient(qb, weight * total), 10000)
  <2>1. ra = IF HasRecent(a, agent) THEN wr * RecentQuality(a, agent) ELSE 0
    BY <1>12, <1>13
  <2>2. rb = IF HasRecent(b, agent) THEN wr * RecentQuality(b, agent) ELSE 0
    BY <1>11, <1>12, <1>13
  <2>3. pastA = SumFunction([c \in known |-> imp[c] * Quality(a, agent, c)])
    BY <1>5, <1>6
  <2>4. pastB = SumFunction([c \in known |-> imp[c] * Quality(b, agent, c)])
    BY <1>5, <1>6
  <2>5. RoutingScore(a, imp, agent) =
            IF (known = {} /\ ~HasRecent(a, agent)) \/ weight = 0 THEN static
            ELSE Clamp(RoundedQuotient(qa, weight * total), 10000)
    BY <1>1, <1>8, <1>13, <1>16, <1>18, <1>20, <2>1, <2>3 DEF RoutingScore
  <2>6. RoutingScore(b, imp, agent) =
            IF (known = {} /\ ~HasRecent(b, agent)) \/ weight = 0 THEN static
            ELSE Clamp(RoundedQuotient(qb, weight * total), 10000)
    BY <1>2, <1>8, <1>13, <1>16, <1>19, <1>20, <2>2, <2>4 DEF RoutingScore
  <2> QED
    BY <1>11, <2>5, <2>6
<1>23. ASSUME weight # 0
       PROVE  LET u == RoundedQuotient(qa, weight * total)
                  v == RoundedQuotient(qb, weight * total)
              IN u \in Nat /\ v \in Nat /\ u <= v
  <2>1. weight * total \in Nat \ {0}
    BY <1>9, <1>19, <1>23, Products
  <2> QED
    BY <1>21, <2>1, RoundedQuotientType, RoundedQuotientMonotone
<1> QED
  <2>1. CASE (known = {} /\ ~HasRecent(a, agent)) \/ weight = 0
    BY <1>17, <1>22, <2>1
  <2>2. CASE ~((known = {} /\ ~HasRecent(a, agent)) \/ weight = 0)
    <3>1. PICK u, v : /\ u = RoundedQuotient(qa, weight * total)
                      /\ v = RoundedQuotient(qb, weight * total)
      OBVIOUS
    <3>2. u \in Nat /\ v \in Nat /\ u <= v
      BY <1>23, <2>2, <3>1
    <3>3. /\ RoutingScore(a, imp, agent) = Clamp(u, 10000)
          /\ RoutingScore(b, imp, agent) = Clamp(v, 10000)
      BY <1>22, <2>2, <3>1
    <3> QED
      BY <3>2, <3>3, ClampMonotone
  <2> QED
    BY <2>1, <2>2

-----------------------------------------------------------------------------
(* Evidence                                                                *)

Statuses == {"failed", "evaluation_failed"} \cup Eligible

LEMMA KindsFinite ==
  /\ IsFiniteSet(Kinds)
  /\ \A k \in Kinds : Deduction[k] \in Nat
<1>1. Kinds = {"processFailure", "timeout", "unexpectedCommit", "noChanges", "sensitiveFile", "unsafePath"}
              \cup {"tooManyFiles", "diffTooLarge", "staticFailure", "invalidPackageJson", "projectFailure", "outputTruncated"}
  BY DEF Kinds, Deduction
<1>2. ASSUME NEW u, NEW v, NEW w, NEW x, NEW y, NEW z
      PROVE  IsFiniteSet({u, v, w, x, y, z})
  <2>1. IsFiniteSet({u}) /\ IsFiniteSet({v}) /\ IsFiniteSet({w})
        /\ IsFiniteSet({x}) /\ IsFiniteSet({y}) /\ IsFiniteSet({z})
    BY FS_Singleton
  <2>2. IsFiniteSet({u} \cup {v} \cup {w}) /\ IsFiniteSet({x} \cup {y} \cup {z})
    BY <2>1, FS_Union
  <2>3. PICK S, T : S = {u} \cup {v} \cup {w} /\ T = {x} \cup {y} \cup {z}
    OBVIOUS
  <2>4. IsFiniteSet(S \cup T)
    BY <2>2, <2>3, FS_Union
  <2>5. {u, v, w, x, y, z} = S \cup T
    BY <2>3
  <2> QED
    BY <2>4, <2>5
<1>3. IsFiniteSet(Kinds)
  BY <1>1, <1>2, FS_Union
<1>4. \A k \in Kinds : Deduction[k] \in Nat
  BY <1>1 DEF Deduction
<1> QED
  BY <1>3, <1>4

LEMMA WorkParts ==
  ASSUME NEW work \in Works
  PROVE  /\ work.changes \in SUBSET Change /\ IsFiniteSet(work.changes)
         /\ work.failing \in Nat /\ work.duration \in Nat /\ work.lost \in BOOLEAN
BY JudgementAssumption DEF Work

LEMMA PathsFinite ==
  ASSUME NEW work \in Works
  PROVE  /\ IsFiniteSet(AllPaths(work.changes))
         /\ IsFiniteSet({c.path : c \in work.changes})
<1>1. PICK changes : changes = work.changes
  OBVIOUS
<1>2. IsFiniteSet(changes)
  BY <1>1, WorkParts
<1> DEFINE path == [c \in changes |-> c.path]
           original == [c \in changes |-> c.original]
<1>3. IsFiniteSet({c.path : c \in changes})
  <2>1. path \in Surjection(changes, {c.path : c \in changes})
    BY DEF Surjection
  <2> QED
    BY <1>2, <2>1, FS_Surjection
<1>4. IsFiniteSet({c.original : c \in changes})
  <2>1. original \in Surjection(changes, {c.original : c \in changes})
    BY DEF Surjection
  <2> QED
    BY <1>2, <2>1, FS_Surjection
<1> QED
  BY <1>1, <1>3, <1>4, FS_Union DEF AllPaths

LEMMA FoundType ==
  ASSUME NEW work \in Works
  PROVE  Found(work) \in [Kinds -> Nat]
<1>1. PICK p, f, s, n : /\ p = AllPaths(work.changes) /\ f = {c.path : c \in work.changes}
                        /\ s = StaticFailures(work.changes) /\ n = work.failing
  OBVIOUS
<1>2. IsFiniteSet(p \cap Sensitive) /\ IsFiniteSet(p \cap Outside) /\ IsFiniteSet(f) /\ IsFiniteSet(s)
  <2>1. s \subseteq work.changes
    BY <1>1 DEF StaticFailures
  <2>2. IsFiniteSet(p) /\ IsFiniteSet(f) /\ IsFiniteSet(work.changes)
    BY <1>1, PathsFinite, WorkParts
  <2> QED
    BY <2>1, <2>2, FS_Subset
<1>3. /\ Cardinality(p \cap Sensitive) \in Nat /\ Cardinality(p \cap Outside) \in Nat
      /\ Cardinality(s) \in Nat /\ n \in Nat
  BY <1>1, <1>2, FS_CardinalityType, WorkParts
<1>4. \A b : Once(b) \in Nat
  BY DEF Once
<1> QED
  BY <1>1, <1>3, <1>4 DEF Found, Kinds, Deduction

LEMMA ScoreType ==
  ASSUME NEW work \in Works
  PROVE  Score(Found(work)) \in Nat
<1>1. PICK found : found = Found(work)
  OBVIOUS
<1>2. PICK f : f = [k \in Kinds |-> Deduction[k] * found[k]]
  OBVIOUS
<1>3. \A k \in Kinds : found[k] \in Nat
  BY <1>1, FoundType
<1>4. \A k \in Kinds : f[k] \in Nat
  BY <1>2, <1>3, KindsFinite, Products
<1>5. SumFunction(f) \in Nat
  BY <1>2, <1>4, KindsFinite, SumNat
<1>6. Score(found) = Clamped(100 - SumFunction(f))
  BY <1>2 DEF Score, Remaining
<1> QED
  BY <1>1, <1>5, <1>6 DEF Clamped

LEMMA StatusType ==
  ASSUME NEW work \in Works
  PROVE  /\ FinalStatus(work) \in Statuses
         /\ FinalStatus(work) \in Eligible =>
              Captured(work) /\ ~Has(Found(work), Hard \cup {"processFailure"})
<1>1. PICK found, n : found = Found(work) /\ n = Score(found)
  OBVIOUS
<1>2. n \in Nat
  BY <1>1, ScoreType
<1>3. Verdict(found) \in {"pass", "warning", "fail"} /\ (Has(found, Hard) => Verdict(found) = "fail")
  <2>1. CASE Has(found, Hard)
    BY <1>1, <2>1 DEF Verdict
  <2>2. CASE ~Has(found, Hard)
    BY <1>1, <1>2, <2>2 DEF Verdict
  <2> QED
    BY <2>1, <2>2
<1>4. /\ Status(found) \in Statuses
      /\ Status(found) \in Eligible =>
            ~Has(found, {"processFailure", "timeout", "unexpectedCommit"}) /\ ~Has(found, Hard)
  BY <1>3 DEF Status, Statuses, Eligible
<1>5. FinalStatus(work) = IF Status(found) \in Eligible /\ ~Captured(work)
                          THEN "evaluation_failed" ELSE Status(found)
  BY <1>1 DEF FinalStatus
<1>6. ASSUME ~Has(found, {"processFailure", "timeout", "unexpectedCommit"}), ~Has(found, Hard)
      PROVE  ~Has(found, Hard \cup {"processFailure"})
  BY <1>6 DEF Has
<1>7. "evaluation_failed" \notin Eligible /\ "evaluation_failed" \in Statuses
  BY DEF Eligible, Statuses
<1> QED
  BY <1>1, <1>4, <1>5, <1>6, <1>7

\* The files of a run that is eligible in the end are what they seem.
LEMMA EligibleIsClean ==
  ASSUME NEW work \in Works, FinalStatus(work) \in Eligible
  PROVE  /\ ~Has(Found(work), Hard \cup {"processFailure"})
         /\ \A c \in work.changes :
               /\ {c.path, c.original} \cap (Sensitive \cup Outside) = {}
               /\ c.deleted \/ c.entry \in Regular
<1>1. Captured(work) /\ ~Has(Found(work), Hard \cup {"processFailure"})
  BY StatusType
<1>2. PICK p : p = AllPaths(work.changes)
  OBVIOUS
<1>3. IsFiniteSet(p \cap Sensitive) /\ IsFiniteSet(p \cap Outside)
  BY <1>2, PathsFinite, FS_Subset
<1>4. Cardinality(p \cap Sensitive) \in Nat /\ Cardinality(p \cap Outside) \in Nat
  BY <1>3, FS_CardinalityType
<1>5. ~(Cardinality(p \cap Sensitive) > 0) /\ ~(Cardinality(p \cap Outside) > 0)
  <2>1. /\ Found(work)["sensitiveFile"] = Cardinality(p \cap Sensitive)
        /\ Found(work)["unsafePath"] = Cardinality(p \cap Outside)
    BY <1>2 DEF Found
  <2>2. "sensitiveFile" \in Hard /\ "unsafePath" \in Hard
    BY DEF Hard
  <2> QED
    BY <1>1, <2>1, <2>2 DEF Has
<1>6. p \cap Sensitive = {} /\ p \cap Outside = {}
  BY <1>3, <1>4, <1>5, FS_EmptySet
<1>7. ASSUME NEW c \in work.changes
      PROVE  /\ {c.path, c.original} \cap (Sensitive \cup Outside) = {}
             /\ c.deleted \/ c.entry \in Regular
  <2>1. c.path \in p /\ c.original \in p
    BY <1>2 DEF AllPaths
  <2>2. c.deleted \/ Hashed(c)
    BY <1>1 DEF Captured
  <2> QED
    BY <1>6, <2>1, <2>2 DEF Hashed
<1> QED
  BY <1>1, <1>7

-----------------------------------------------------------------------------
(* The winner                                                              *)

LEMMA MinOfNumbers ==
  ASSUME NEW S \in SUBSET Nat, S # {}
  PROVE  Min(S) \in S /\ \A n \in S : Min(S) <= n
<1>1. PICK n \in S : TRUE
  OBVIOUS
<1> DEFINE D == {0..m : m \in {m \in S : m <= n}}
<1>2. D \in SUBSET (SUBSET (0..n)) /\ D # {}
  <2>1. \A m \in S : m <= n => 0..m \in SUBSET (0..n)
    OBVIOUS
  <2>2. 0..n \in D
    BY <1>1
  <2> QED
    BY <2>1, <2>2
<1>3. PICK s \in D : \A t \in SUBSET s : t \in D => t = s
  <2>1. PICK T : T = 0..n
    OBVIOUS
  <2>2. IsFiniteSet(T)
    BY <1>1, <2>1, FS_Interval
  <2>3. D \in SUBSET (SUBSET T) /\ D # {}
    BY <1>2, <2>1
  <2> HIDE DEF D
  <2> QED
    BY <2>2, <2>3, SmallestSet
<1>4. PICK m \in S : m <= n /\ s = 0..m
  OBVIOUS
<1>5. ASSUME NEW k \in S PROVE m <= k
  <2>1. SUFFICES ASSUME k < m PROVE FALSE
    BY <1>4
  <2>2. 0..k \in SUBSET (0..m) /\ k <= n /\ 0..k # 0..m
    BY <1>1, <1>4, <2>1
  <2>3. 0..k \in D
    BY <2>2
  <2>4. 0..k = s
    <3> HIDE DEF D
    <3> QED
      BY <1>3, <1>4, <2>2, <2>3
  <2> QED
    BY <1>4, <2>2, <2>4
<1> QED
  BY <1>4, <1>5 DEF Min

\* A candidate, as the competition keeps it.
Results == [agent : Agents, router : Nat, work : Works, score : Nat,
            duration : Nat \cup {Unknown}, status : Statuses]

LEMMA PositiveType ==
  ASSUME NEW d \in Nat \cup {Unknown}
  PROVE  /\ Positive(d) \in (Nat \ {0}) \cup {Unknown}
         /\ Positive(d) # Unknown => Positive(d) = d
BY DEF Positive, Unknown

LEMMA CompetitionScoreType ==
  ASSUME NEW cands \in Seq(Results), NEW i \in DOMAIN cands
  PROVE  CompetitionScore(cands[i], Times(cands)) \in Nat
<1>1. PICK c : c = cands[i]
  OBVIOUS
<1>2. /\ c.score \in Nat /\ c.router \in Nat /\ c.duration \in Nat \cup {Unknown}
      /\ \A j \in DOMAIN cands : cands[j].duration \in Nat \cup {Unknown}
  <2>1. \A j \in DOMAIN cands : cands[j] \in Results
    BY ElementOfSeq, LenProperties
  <2> QED
    BY <1>1, <2>1 DEF Results
<1>3. PICK timed : timed = Times(cands)
  OBVIOUS
<1>4. timed \in SUBSET Nat
  BY <1>2, <1>3, PositiveType DEF Times
<1>5. PICK d : d = IF Positive(c.duration) = Unknown THEN 1 ELSE c.duration
  OBVIOUS
<1>6. d \in Nat \ {0}
  BY <1>2, <1>5, PositiveType
<1>7. PICK speed : speed = IF Positive(c.duration) = Unknown THEN 0 ELSE 10000 * Min(timed)
  OBVIOUS
<1>8. speed \in Nat
  <2>1. ASSUME Positive(c.duration) # Unknown PROVE Min(timed) \in Nat
    <3>1. Positive(c.duration) \in timed
      BY <1>1, <1>3, <2>1 DEF Times
    <3> QED
      BY <1>4, <3>1, MinOfNumbers
  <2>2. 10000 \in Nat /\ 0 \in Nat
    OBVIOUS
  <2> QED
    BY <1>7, <2>1, <2>2, Products
<1>9. PICK wq, wr, ws : wq = Weights.quality /\ wr = Weights.router /\ ws = Weights.speed
  OBVIOUS
<1>10. wq \in Nat /\ wr \in Nat /\ ws \in Nat
  BY <1>9, JudgementAssumption
<1>11. PICK points : points = (wq * 100 * c.score + wr * c.router) * d + ws * speed
  OBVIOUS
<1>12. points \in Nat
  <2>1. wq * 100 \in Nat
    BY <1>10
  <2>2. wq * 100 * c.score \in Nat /\ wr * c.router \in Nat /\ ws * speed \in Nat
    BY <1>2, <1>8, <1>10, <2>1, Products
  <2>3. PICK sum : sum = wq * 100 * c.score + wr * c.router
    OBVIOUS
  <2>4. sum \in Nat
    BY <2>2, <2>3
  <2>5. sum * d \in Nat
    BY <1>6, <2>4, Products
  <2> QED
    BY <1>11, <2>2, <2>3, <2>5
<1>13. PICK raw : raw = Clamp(RoundedQuotient(points, 100 * d), 10000)
  OBVIOUS
<1>14. raw \in Nat
  <2>1. 100 * d \in Nat \ {0}
    BY <1>6
  <2>2. RoundedQuotient(points, 100 * d) \in Nat
    BY <1>12, <2>1, RoundedQuotientType
  <2> QED
    BY <1>13, <2>2, ClampMonotone
<1>15. CompetitionScore(c, timed) = Min({raw, ScoreCap(c.status)})
  BY <1>5, <1>7, <1>9, <1>11, <1>13 DEF CompetitionScore
<1>16. ScoreCap(c.status) \in Nat
  BY DEF ScoreCap
<1>17. {raw, ScoreCap(c.status)} \in SUBSET Nat /\ {raw, ScoreCap(c.status)} # {}
  BY <1>14, <1>16
<1> QED
  BY <1>1, <1>3, <1>15, <1>17, MinOfNumbers

\* Those of a list that no eligible one comes before.
Best(list) ==
  {i \in EligibleIn(list) : \A j \in EligibleIn(list) : ~Before(list[j], list[i])}

LEMMA RankedParts ==
  ASSUME NEW cands, NEW list, list = Ranked(cands)
  PROVE  /\ DOMAIN list = DOMAIN cands /\ DOMAIN Rows(cands) = DOMAIN cands
         /\ \A i \in DOMAIN cands :
              /\ list[i].agent = cands[i].agent /\ list[i].status = cands[i].status
              /\ list[i].score = cands[i].score /\ list[i].router = cands[i].router
              /\ list[i].duration = Positive(cands[i].duration)
              /\ list[i].competition = CompetitionScore(cands[i], Times(cands))
         /\ \A i \in DOMAIN cands :
              LET row == Rows(cands)[i]
              IN  /\ row.agent = cands[i].agent /\ row.status = cands[i].status
                  /\ row.score = cands[i].score /\ row.router = cands[i].router
                  /\ row.duration = cands[i].duration
                  /\ row.competition = CompetitionScore(cands[i], Times(cands))
BY DEF Ranked, Rows

LEMMA WinnerIsEligible ==
  ASSUME NEW cands \in Seq(Results), Winner(cands) # None
  PROVE  \E i \in DOMAIN cands :
            cands[i].agent = Winner(cands) /\ cands[i].status \in Eligible
<1>1. PICK list : list = Ranked(cands)
  OBVIOUS
<1>2. PICK best : best = Best(list)
  OBVIOUS
<1>3. best # {} /\ Winner(cands) = list[Min(best)].agent
  BY <1>1, <1>2 DEF Winner, FirstOf, Best
<1>4. best \in SUBSET DOMAIN cands
  BY <1>1, <1>2, RankedParts DEF Best, EligibleIn
<1>5. DOMAIN cands \in SUBSET Nat
  BY LenProperties
<1>6. Min(best) \in best
  BY <1>3, <1>4, <1>5, MinOfNumbers
<1>7. list[Min(best)].status \in Eligible
  BY <1>2, <1>6 DEF Best, EligibleIn
<1> QED
  BY <1>1, <1>3, <1>4, <1>6, <1>7, RankedParts

\* What a list of candidates must be for its winner to be decided by rank.
Decisive(cands) ==
  /\ cands \in Seq(Results)
  /\ \A i, j \in DOMAIN cands : cands[i].agent = cands[j].agent => i = j
  /\ \A i \in DOMAIN cands : cands[i].status \in Eligible => cands[i].duration > 0

LEMMA RankIsTotal ==
  ASSUME NEW cands, Decisive(cands)
  PROVE  \A i, j \in Best(Ranked(cands)) : i = j
<1>1. PICK list : list = Ranked(cands)
  OBVIOUS
<1> SUFFICES ASSUME NEW i \in Best(list), NEW j \in Best(list) PROVE i = j
  BY <1>1
<1>2. i \in DOMAIN cands /\ j \in DOMAIN cands
  BY <1>1, RankedParts DEF Best, EligibleIn
<1>3. list[i].status \in Eligible /\ list[j].status \in Eligible
  BY DEF Best, EligibleIn
<1>4. ~Before(list[i], list[j]) /\ ~Before(list[j], list[i])
  BY DEF Best
<1>5. ASSUME NEW k \in DOMAIN cands, list[k].status \in Eligible
      PROVE  /\ list[k].agent \in Nat /\ list[k].score \in Nat /\ list[k].router \in Nat
             /\ list[k].competition \in Nat /\ list[k].duration \in Nat /\ list[k].duration # Unknown
             /\ list[k].agent = cands[k].agent
  <2>1. cands[k] \in Results /\ cands \in Seq(Results)
    BY ElementOfSeq, LenProperties DEF Decisive
  <2>2. CompetitionScore(cands[k], Times(cands)) \in Nat
    BY <2>1, CompetitionScoreType
  <2>3. /\ list[k].agent = cands[k].agent /\ list[k].score = cands[k].score
        /\ list[k].router = cands[k].router /\ list[k].status = cands[k].status
        /\ list[k].duration = Positive(cands[k].duration)
        /\ list[k].competition = CompetitionScore(cands[k], Times(cands))
    BY <1>1, RankedParts
  <2>4. cands[k].duration > 0
    BY <1>5, <2>3 DEF Decisive
  <2>5. cands[k].duration \in Nat /\ list[k].duration = cands[k].duration
    BY <2>1, <2>3, <2>4 DEF Results, Positive, Unknown
  <2>6. cands[k].agent \in Nat /\ cands[k].score \in Nat /\ cands[k].router \in Nat
    BY <2>1, RoutingAssumption DEF Results
  <2> QED
    BY <2>2, <2>3, <2>5, <2>6 DEF Unknown
<1>6. PICK l, r : l = list[i] /\ r = list[j]
  OBVIOUS
<1>7. /\ l.agent \in Nat /\ l.score \in Nat /\ l.router \in Nat
      /\ l.competition \in Nat /\ l.duration \in Nat /\ l.duration # Unknown
      /\ r.agent \in Nat /\ r.score \in Nat /\ r.router \in Nat
      /\ r.competition \in Nat /\ r.duration \in Nat /\ r.duration # Unknown
  BY <1>2, <1>3, <1>5, <1>6
<1>8. l.agent = r.agent
  BY <1>4, <1>6, <1>7 DEF Before, Faster
<1> QED
  BY <1>2, <1>3, <1>5, <1>6, <1>8 DEF Decisive

LEMMA OnlyBestWins ==
  ASSUME NEW cands, Decisive(cands), NEW m \in Best(Ranked(cands))
  PROVE  Winner(cands) = cands[m].agent
<1>1. PICK list, best : list = Ranked(cands) /\ best = Best(list)
  OBVIOUS
<1>2. best \in SUBSET DOMAIN cands /\ DOMAIN cands \in SUBSET Nat
  <2>1. best \in SUBSET DOMAIN cands
    BY <1>1, RankedParts DEF Best, EligibleIn
  <2> QED
    BY <2>1, LenProperties DEF Decisive
<1>3. Min(best) \in best
  BY <1>1, <1>2, MinOfNumbers
<1>4. Min(best) = m
  BY <1>1, <1>3, RankIsTotal
<1>5. Winner(cands) = FirstOf(list, best)
  BY <1>1 DEF Winner, Best
<1> QED
  BY <1>1, <1>2, <1>4, <1>5, RankedParts DEF FirstOf

LEMMA NoneWins ==
  ASSUME NEW cands, Best(Ranked(cands)) = {}
  PROVE  Winner(cands) = None
BY DEF Winner, FirstOf, Best

-----------------------------------------------------------------------------
(* The invariant                                                           *)

Types ==
  /\ rows \in Seq(Run)
  /\ importance \in Importances
  /\ selected \in Seq(Agents)
  /\ candidates \in Seq(Results)

\* The Agents run in the order of their selection, each once.
SelectedInv ==
  /\ \A i, j \in DOMAIN selected : i # j => selected[i] # selected[j]
  /\ Len(candidates) <= Len(selected)
  /\ \A i \in DOMAIN candidates : candidates[i].agent = selected[i]

\* Nothing but the evidence makes a candidate eligible.
EligibleInv ==
  \A i \in DOMAIN candidates :
      candidates[i].status \in Eligible => FinalStatus(candidates[i].work) \in Eligible

\* What is stored is the comparison of all candidates.
DecidedInv ==
  \/ stored = <<>> /\ winner = None
  \/ /\ stored = Rows(candidates) /\ winner = Winner(candidates)
     /\ selected # <<>> /\ Len(candidates) = Len(selected)

JudgeInv == Types /\ SelectedInv /\ EligibleInv /\ DecidedInv

LEMMA RouteSelects ==
  ASSUME NEW imp, NEW available \in SUBSET Agents,
         NEW s \in Chosen(rows, imp, available) \cup Requested(available)
  PROVE  s \in Seq(Agents) /\ \A i, j \in DOMAIN s : i # j => s[i] # s[j]
<1>1. ASSUME NEW S \in SUBSET Agents, NEW t \in SetToSeqs(S)
      PROVE  t \in Seq(Agents) /\ \A i, j \in DOMAIN t : i # j => t[i] # t[j]
  <2>1. IsFiniteSet(S)
    <3>1. IsFiniteSet(Agents)
      BY RoutingAssumption
    <3> QED
      BY <3>1, FS_Subset
  <2>2. PICK n : n = Cardinality(S)
    OBVIOUS
  <2>3. n \in Nat
    BY <2>1, <2>2, FS_CardinalityType
  <2>4. t \in [1..n -> S] /\ \A i, j \in 1..n : i # j => t[i] # t[j]
    BY <2>2 DEF SetToSeqs
  <2> QED
    BY <2>3, <2>4, SeqDef
<1>2. CASE s \in Requested(available)
  <2>1. s \in UNION {SetToSeqs(S) : S \in SUBSET available}
    BY <1>2 DEF Requested, SetToAllKPermutations
  <2>2. PICK S \in SUBSET available : s \in SetToSeqs(S)
    BY <2>1
  <2> QED
    BY <1>1, <2>2
<1>3. CASE s \in Chosen(rows, imp, available)
  <2>1. PICK t \in Rankings(rows, imp, available) : s = SubSeq(t, 1, Clamp(Len(t), MaxAgents))
    BY <1>3 DEF Chosen
  <2>2. t \in Seq(Agents) /\ \A i, j \in DOMAIN t : i # j => t[i] # t[j]
    BY <1>1 DEF Rankings
  <2>3. PICK n : n = Clamp(Len(t), MaxAgents)
    OBVIOUS
  <2>4. n \in 0..Len(t)
    <3>1. Len(t) \in Nat /\ MaxAgents \in Nat
      BY <2>2, LenProperties, RoutingAssumption
    <3> QED
      BY <2>3, <3>1 DEF Clamp
  <2>5. s = [i \in 1..n |-> t[i]] /\ DOMAIN t = 1..Len(t)
    BY <2>1, <2>2, <2>3, <2>4, LenProperties
  <2>6. \A i \in 1..n : i \in DOMAIN t /\ t[i] \in Agents
    BY <2>2, <2>4, <2>5, ElementOfSeq, LenProperties
  <2>7. s \in Seq(Agents)
    BY <2>4, <2>5, <2>6, SeqDef
  <2> QED
    BY <2>2, <2>5, <2>6, <2>7
<1> QED
  BY <1>2, <1>3

LEMMA RoutingScoreType ==
  ASSUME Types, NEW agent \in Agents
  PROVE  RoutingScore(rows, importance, agent) \in Nat
<1>1. rows \in Seq(Run) /\ importance \in Importances
  BY DEF Types
<1>2. \A i \in DOMAIN rows : Points(rows[i]) \in Nat
  BY <1>1, RunParts
<1>3. NoBetter(rows, rows)
  BY <1>1, <1>2 DEF NoBetter
<1> QED
  BY <1>1, <1>3, RoutingScoreNoBetter

LEMMA CandidateType ==
  ASSUME Types, NEW agent \in Agents, NEW work \in Works
  PROVE  /\ Candidate(agent, work) \in Results
         /\ Candidate(agent, work).agent = agent
         /\ Candidate(agent, work).work = work
         /\ Candidate(agent, work).status \in Eligible => FinalStatus(work) \in Eligible
<1>1. PICK router, score, duration, status :
        /\ router = RoutingScore(rows, importance, agent)
        /\ score = IF work.lost THEN 0 ELSE Score(Found(work))
        /\ duration = IF work.lost THEN Unknown ELSE work.duration
        /\ status = IF work.lost THEN "failed" ELSE FinalStatus(work)
  OBVIOUS
<1>2. router \in Nat
  BY <1>1, RoutingScoreType
<1>3. score \in Nat /\ duration \in Nat \cup {Unknown} /\ status \in Statuses
  BY <1>1, ScoreType, StatusType, WorkParts DEF Statuses
<1>4. Candidate(agent, work) =
        [agent |-> agent, router |-> router, work |-> work, score |-> score,
         duration |-> duration, status |-> status]
  BY <1>1 DEF Candidate
<1>5. status \in Eligible => FinalStatus(work) \in Eligible
  BY <1>1 DEF Eligible
<1> QED
  BY <1>2, <1>3, <1>4, <1>5 DEF Results

LEMMA JudgeInit == Init => JudgeInv
<1> SUFFICES ASSUME Init PROVE JudgeInv
  OBVIOUS
<1>1. rows \in Seq(Run) /\ importance \in Importances
  BY RoutingAssumption, JudgementAssumption DEF Init, Importances
<1> QED
  BY <1>1, EmptySeq DEF Init, JudgeInv, Types, SelectedInv, EligibleInv, DecidedInv

LEMMA JudgeRoute ==
  ASSUME JudgeInv, Route
  PROVE  JudgeInv'
<1>1. PICK matched \in SUBSET Rules, available \in SUBSET Agents :
        /\ importance' = Classify(matched)
        /\ selected' \in Chosen(rows, importance', available) \cup Requested(available)
  BY DEF Route
<1>2. selected = <<>> /\ UNCHANGED <<rows, candidates, stored, winner>>
  BY DEF Route
<1>3. selected' \in Seq(Agents) /\ \A i, j \in DOMAIN selected' : i # j => selected'[i] # selected'[j]
  BY <1>1, RouteSelects
<1>4. importance' \in Importances
  BY <1>1, Classified
<1>5. candidates = <<>>
  <2>1. candidates \in Seq(Results) /\ Len(candidates) <= Len(selected)
    BY DEF JudgeInv, Types, SelectedInv
  <2>2. Len(selected) = 0
    BY <1>2
  <2> QED
    BY <2>1, <2>2, EmptySeq, LenProperties
<1>6. Types'
  BY <1>2, <1>3, <1>4 DEF JudgeInv, Types
<1>7. SelectedInv'
  BY <1>2, <1>3, <1>5, LenProperties DEF SelectedInv
<1>8. EligibleInv'
  BY <1>2 DEF JudgeInv, EligibleInv
<1>9. DecidedInv'
  BY <1>2 DEF JudgeInv, DecidedInv
<1> QED
  BY <1>6, <1>7, <1>8, <1>9 DEF JudgeInv

LEMMA JudgeJudge ==
  ASSUME JudgeInv, Judge
  PROVE  JudgeInv'
<1>1. PICK n : n = Len(candidates) + 1
  OBVIOUS
<1>2. PICK work \in Works : candidates' = Append(candidates, Candidate(selected[n], work))
  BY <1>1 DEF Judge
<1>3. PICK new : new = Candidate(selected[n], work)
  OBVIOUS
<1>4. UNCHANGED <<rows, importance, selected, stored, winner>> /\ Len(candidates) < Len(selected)
  BY DEF Judge
<1>5. candidates \in Seq(Results) /\ selected \in Seq(Agents) /\ Len(candidates) \in Nat
      /\ Len(selected) \in Nat /\ DOMAIN selected = 1..Len(selected) /\ DOMAIN candidates = 1..Len(candidates)
  BY LenProperties DEF JudgeInv, Types
<1>6. n \in DOMAIN selected /\ selected[n] \in Agents
  BY <1>1, <1>4, <1>5, ElementOfSeq
<1>7. /\ new \in Results /\ new.agent = selected[n] /\ new.work = work
      /\ new.status \in Eligible => FinalStatus(work) \in Eligible
  BY <1>3, <1>6, CandidateType DEF JudgeInv
<1>8. /\ candidates' \in Seq(Results) /\ Len(candidates') = n /\ DOMAIN candidates' = 1..n
      /\ \A i \in 1..Len(candidates) : candidates'[i] = candidates[i]
      /\ candidates'[n] = new
  <2>1. candidates' \in Seq(Results) /\ Len(candidates') = n
    BY <1>1, <1>2, <1>3, <1>5, <1>7, AppendProperties
  <2>2. DOMAIN candidates' = 1..n
    BY <2>1, LenProperties
  <2> QED
    BY <1>1, <1>2, <1>3, <1>5, <1>7, <2>1, <2>2, AppendProperties
<1>9. Types'
  BY <1>4, <1>8 DEF JudgeInv, Types
<1>10. SelectedInv'
  <2>1. n <= Len(selected)
    BY <1>1, <1>4, <1>5
  <2>2. \A i \in 1..n : candidates'[i].agent = selected[i]
    <3>1. \A i \in 1..n : i = n \/ i \in 1..Len(candidates)
      BY <1>1, <1>5
    <3> QED
      BY <1>5, <1>7, <1>8, <3>1 DEF JudgeInv, SelectedInv
  <2> QED
    BY <1>4, <1>8, <2>1, <2>2 DEF JudgeInv, SelectedInv
<1>11. EligibleInv'
  <2>1. \A i \in 1..n : i = n \/ i \in 1..Len(candidates)
    BY <1>1, <1>5
  <2> QED
    BY <1>5, <1>7, <1>8, <2>1 DEF JudgeInv, EligibleInv
<1>12. DecidedInv'
  <2>1. Len(candidates) # Len(selected)
    <3>1. \A k, m \in Nat : k < m => k # m
      OBVIOUS
    <3>2. Len(candidates) \in Nat /\ Len(selected) \in Nat /\ Len(candidates) < Len(selected)
      BY <1>4, <1>5
    <3> QED
      BY <3>1, <3>2
  <2>2. stored = <<>> /\ winner = None
    BY <2>1 DEF JudgeInv, DecidedInv
  <2> QED
    BY <1>4, <2>2 DEF DecidedInv
<1> QED
  BY <1>9, <1>10, <1>11, <1>12 DEF JudgeInv

LEMMA JudgeCompare ==
  ASSUME JudgeInv, Compare
  PROVE  JudgeInv'
<1>1. PICK new : new = [i \in DOMAIN candidates |->
                           [agent |-> candidates[i].agent, importance |-> importance,
                            score |-> candidates[i].score]]
  OBVIOUS
<1>2. /\ selected # <<>> /\ Len(candidates) = Len(selected)
      /\ stored' = Rows(candidates) /\ winner' = Winner(candidates)
      /\ rows' = rows \o new
      /\ UNCHANGED <<importance, selected, candidates>>
  BY <1>1 DEF Compare
<1>3. new \in Seq(Run)
  <2>1. candidates \in Seq(Results) /\ importance \in Importances
    BY DEF JudgeInv, Types
  <2>2. Len(candidates) \in Nat /\ DOMAIN candidates = 1..Len(candidates)
    BY <2>1, LenProperties
  <2>3. \A i \in DOMAIN candidates : candidates[i] \in Results
    BY <2>1, <2>2, ElementOfSeq
  <2>4. \A i \in DOMAIN candidates :
           [agent |-> candidates[i].agent, importance |-> importance, score |-> candidates[i].score] \in Run
    BY <2>1, <2>3 DEF Results, Run, Importances
  <2>5. new \in [1..Len(candidates) -> Run]
    BY <1>1, <2>2, <2>4
  <2> QED
    BY <2>2, <2>5, SeqDef
<1>4. Types'
  <2>1. rows' \in Seq(Run)
    BY <1>2, <1>3, ConcatProperties DEF JudgeInv, Types
  <2> QED
    BY <1>2, <2>1 DEF JudgeInv, Types
<1>5. SelectedInv' /\ EligibleInv'
  BY <1>2 DEF JudgeInv, SelectedInv, EligibleInv
<1>6. DecidedInv'
  <2>1. Rows(candidates)' = Rows(candidates) /\ Winner(candidates)' = Winner(candidates)
    BY <1>2
  <2> QED
    BY <1>2, <2>1 DEF DecidedInv
<1> QED
  BY <1>4, <1>5, <1>6 DEF JudgeInv

LEMMA JudgeStutter ==
  ASSUME JudgeInv, UNCHANGED vars
  PROVE  JudgeInv'
<1>1. UNCHANGED <<rows, importance, selected, candidates, stored, winner>>
  BY DEF vars
<1>2. Types' /\ SelectedInv' /\ EligibleInv'
  BY <1>1 DEF JudgeInv, Types, SelectedInv, EligibleInv
<1>3. Rows(candidates)' = Rows(candidates) /\ Winner(candidates)' = Winner(candidates)
  BY <1>1
<1> QED
  BY <1>1, <1>2, <1>3 DEF JudgeInv, DecidedInv

THEOREM JudgeInvariant == Spec => []JudgeInv
<1>1. JudgeInv /\ [Next]_vars => JudgeInv'
  BY JudgeRoute, JudgeJudge, JudgeCompare, JudgeStutter DEF Next, Done
<1> QED
  BY JudgeInit, <1>1, PTL DEF Spec

-----------------------------------------------------------------------------
(* The ranking of the Agents                                               *)

\* R orders the finite set S.
Orders(R, S) ==
  /\ IsFiniteSet(S)
  /\ \A a \in S : <<a, a>> \notin R
  /\ \A a, b, c \in S : <<a, b>> \in R /\ <<b, c>> \in R => <<a, c>> \in R
  /\ \A a, b \in S : a # b => <<a, b>> \in R \/ <<b, a>> \in R

Ahead(R, S, a) == {b \in S : <<b, a>> \in R}

Place(R, S, a) == 1 + Cardinality(Ahead(R, S, a))

InOrder(R, s) == \A i, j \in DOMAIN s : i < j => <<s[i], s[j]>> \in R

LEMMA Intervals ==
  ASSUME NEW n \in Nat
  PROVE  IsFiniteSet(1..n) /\ Cardinality(1..n) = n
<1>1. IsFiniteSet(1..n) /\ Cardinality(1..n) = IF 1 > n THEN 0 ELSE n - 1 + 1
  BY FS_Interval
<1> QED
  BY <1>1

LEMMA Places ==
  ASSUME NEW R, NEW S, Orders(R, S)
  PROVE  /\ \A a \in S : Place(R, S, a) \in 1..Cardinality(S)
         /\ \A a, b \in S : <<a, b>> \in R => Place(R, S, a) < Place(R, S, b)
<1>1. IsFiniteSet(S) /\ Cardinality(S) \in Nat
  BY FS_CardinalityType DEF Orders
<1>2. ASSUME NEW a \in S
      PROVE  /\ IsFiniteSet(Ahead(R, S, a)) /\ Cardinality(Ahead(R, S, a)) \in Nat
             /\ Cardinality(Ahead(R, S, a)) < Cardinality(S)
  <2>1. PICK A : A = Ahead(R, S, a)
    OBVIOUS
  <2>2. A \in SUBSET S /\ a \notin A
    BY <2>1 DEF Ahead, Orders
  <2>3. IsFiniteSet(A) /\ Cardinality(A) \in Nat /\ Cardinality(A) <= Cardinality(S)
        /\ (Cardinality(A) = Cardinality(S) => A = S)
    BY <1>1, <2>2, FS_Subset, FS_CardinalityType
  <2>4. A # S
    BY <2>2
  <2> QED
    BY <1>1, <2>1, <2>3, <2>4
<1>3. ASSUME NEW a \in S, NEW b \in S, <<a, b>> \in R
      PROVE  Cardinality(Ahead(R, S, a)) < Cardinality(Ahead(R, S, b))
  <2>1. PICK A, B : A = Ahead(R, S, a) /\ B = Ahead(R, S, b)
    OBVIOUS
  <2>2. A \in SUBSET B /\ a \in B /\ a \notin A
    BY <1>3, <2>1 DEF Ahead, Orders
  <2>3. IsFiniteSet(B) /\ Cardinality(A) \in Nat /\ Cardinality(B) \in Nat
    BY <1>2, <2>1
  <2>4. Cardinality(A) <= Cardinality(B) /\ (Cardinality(A) = Cardinality(B) => A = B)
    BY <2>2, <2>3, FS_Subset
  <2> QED
    BY <2>1, <2>2, <2>3, <2>4
<1> QED
  BY <1>1, <1>2, <1>3 DEF Place

LEMMA PlacesDiffer ==
  ASSUME NEW R, NEW S, Orders(R, S), NEW a \in S, NEW b \in S, Place(R, S, a) = Place(R, S, b)
  PROVE  a = b
<1>1. Place(R, S, a) \in Int /\ Place(R, S, b) \in Int
  BY Places
<1>2. <<a, b>> \notin R /\ <<b, a>> \notin R
  BY <1>1, Places
<1> QED
  BY <1>2 DEF Orders

LEMMA OrderedExists ==
  ASSUME NEW R, NEW S, Orders(R, S)
  PROVE  \E s \in [1..Cardinality(S) -> S] : InOrder(R, s)
<1>1. PICK n, place : n = Cardinality(S) /\ place = [a \in S |-> Place(R, S, a)]
  OBVIOUS
<1>2. IsFiniteSet(S) /\ n \in Nat
  BY <1>1, FS_CardinalityType DEF Orders
<1>3. place \in [S -> 1..n] /\ \A a, b \in S : place[a] = place[b] => a = b
  BY <1>1, Places, PlacesDiffer
<1>4. place \in Injection(S, 1..n)
  BY <1>3 DEF Injection, IsInjective
<1>5. place \in Surjection(S, 1..n)
  <2>1. PICK T : T = 1..n
    OBVIOUS
  <2>2. IsFiniteSet(T) /\ Cardinality(T) = n
    BY <1>2, <2>1, Intervals
  <2> QED
    BY <1>1, <1>4, <2>1, <2>2, FS_Injection
<1>6. \A i \in 1..n : \E a \in S : place[a] = i
  BY <1>5 DEF Surjection
<1>7. PICK s : s = [i \in 1..n |-> CHOOSE a \in S : place[a] = i]
  OBVIOUS
<1>8. s \in [1..n -> S] /\ \A i \in 1..n : place[s[i]] = i
  BY <1>6, <1>7
<1>9. ASSUME NEW i \in 1..n, NEW j \in 1..n, i < j PROVE <<s[i], s[j]>> \in R
  <2>1. PICK a, b : a = s[i] /\ b = s[j]
    OBVIOUS
  <2>2. a \in S /\ b \in S /\ Place(R, S, a) = i /\ Place(R, S, b) = j
    BY <1>1, <1>8, <2>1
  <2>3. a # b /\ <<b, a>> \notin R
    BY <1>9, <2>2, Places
  <2> QED
    BY <2>1, <2>2, <2>3 DEF Orders
<1> QED
  BY <1>1, <1>8, <1>9 DEF InOrder

\* Whatever stands in order stands at its place.
LEMMA OrderedPlaces ==
  ASSUME NEW R, NEW S, Orders(R, S),
         NEW s \in [1..Cardinality(S) -> S], InOrder(R, s), NEW i \in 1..Cardinality(S)
  PROVE  Place(R, S, s[i]) = i
<1>1. PICK n : n = Cardinality(S)
  OBVIOUS
<1>2. IsFiniteSet(S) /\ n \in Nat /\ i \in 1..n
  BY <1>1, FS_CardinalityType DEF Orders
<1>3. s \in [1..n -> S] /\ \A j, k \in 1..n : j < k => <<s[j], s[k]>> \in R
  BY <1>1 DEF InOrder
<1>4. \A j, k \in 1..n : s[j] = s[k] => j = k
  <2> SUFFICES ASSUME NEW j \in 1..n, NEW k \in 1..n, s[j] = s[k] PROVE j = k
    OBVIOUS
  <2>1. s[j] \in S /\ <<s[j], s[j]>> \notin R
    BY <1>3 DEF Orders
  <2> QED
    BY <1>2, <1>3, <2>1
<1>5. \A a \in S : \E j \in 1..n : s[j] = a
  <2>1. PICK T : T = 1..n
    OBVIOUS
  <2>2. s \in Injection(T, S)
    BY <1>3, <1>4, <2>1 DEF Injection, IsInjective
  <2>3. Cardinality(T) = Cardinality(S)
    BY <1>1, <1>2, <2>1, Intervals
  <2>4. s \in Surjection(T, S)
    BY <1>2, <2>2, <2>3, FS_Injection
  <2> QED
    BY <2>1, <2>4 DEF Surjection
<1>6. PICK A, m, f : A = Ahead(R, S, s[i]) /\ m = i - 1 /\ f = [j \in 1..m |-> s[j]]
  OBVIOUS
<1>7. m \in Nat /\ \A j \in 1..m : j \in 1..n /\ j < i
  BY <1>2, <1>6
<1>8. \A j \in 1..m : f[j] = s[j] /\ s[j] \in A
  BY <1>2, <1>3, <1>6, <1>7 DEF Ahead
<1>9. ASSUME NEW a \in A PROVE \E j \in 1..m : f[j] = a
  <2>1. a \in S /\ <<a, s[i]>> \in R
    BY <1>6 DEF Ahead
  <2>2. PICK j \in 1..n : s[j] = a
    BY <1>5, <2>1
  <2>3. <<s[i], a>> \notin R /\ a # s[i]
    <3>1. s[i] \in S
      BY <1>2, <1>3
    <3> QED
      BY <2>1, <3>1 DEF Orders
  <2>4. ~(i < j) /\ i # j
    BY <1>2, <1>3, <2>2, <2>3
  <2>5. j \in 1..m
    BY <1>2, <1>6, <2>4
  <2> QED
    BY <1>8, <2>2, <2>5
<1>10. f \in Bijection(1..m, A)
  <2>1. f \in [1..m -> A]
    BY <1>6, <1>8
  <2>2. \A j, k \in 1..m : f[j] = f[k] => j = k
    BY <1>4, <1>7, <1>8
  <2> QED
    BY <1>9, <2>1, <2>2 DEF Bijection, Injection, Surjection, IsInjective
<1>11. Cardinality(A) = m
  <2>1. PICK T : T = 1..m
    OBVIOUS
  <2>2. IsFiniteSet(T) /\ Cardinality(T) = m
    BY <1>7, <2>1, Intervals
  <2>3. ExistsBijection(T, A)
    BY <1>10, <2>1 DEF ExistsBijection
  <2> QED
    BY <2>2, <2>3, FS_Bijection
<1> QED
  BY <1>2, <1>6, <1>11 DEF Place

LEMMA OrderedOnce ==
  ASSUME NEW R, NEW S, Orders(R, S),
         NEW s \in [1..Cardinality(S) -> S], InOrder(R, s),
         NEW t \in [1..Cardinality(S) -> S], InOrder(R, t)
  PROVE  s = t
<1>1. ASSUME NEW i \in 1..Cardinality(S) PROVE s[i] = t[i]
  <2>1. Place(R, S, s[i]) = i /\ Place(R, S, t[i]) = i
    BY OrderedPlaces
  <2>2. s[i] \in S /\ t[i] \in S
    OBVIOUS
  <2> QED
    BY <2>1, <2>2, PlacesDiffer
<1>2. PICK D : D = 1..Cardinality(S)
  OBVIOUS
<1>3. s = [i \in D |-> s[i]] /\ t = [i \in D |-> t[i]]
  BY <1>2
<1>4. \A i \in D : s[i] = t[i]
  BY <1>1, <1>2
<1>5. [i \in D |-> s[i]] = [i \in D |-> t[i]]
  BY <1>4
<1> QED
  BY <1>3, <1>5

LEMMA PreferenceOrders ==
  ASSUME JudgeInv, NEW available \in SUBSET Agents
  PROVE  Orders({p \in available \X available : Preferred(rows, importance, p[1], p[2])}, available)
<1>1. PICK R, score :
        /\ R = {p \in available \X available : Preferred(rows, importance, p[1], p[2])}
        /\ score = [a \in available |-> RoutingScore(rows, importance, a)]
  OBVIOUS
<1>2. \A a, b \in available :
         <<a, b>> \in R <=> \/ score[a] > score[b]
                            \/ score[a] = score[b] /\ RegistryIndex[a] < RegistryIndex[b]
  BY <1>1 DEF Preferred
<1>3. \A a \in available : score[a] \in Nat /\ RegistryIndex[a] \in Nat
  <2>1. \A a \in Agents : RoutingScore(rows, importance, a) \in Nat
    BY RoutingScoreType DEF JudgeInv
  <2> QED
    BY <1>1, <2>1, RoutingAssumption
<1>4. \A a, b \in available : a # b => RegistryIndex[a] # RegistryIndex[b]
  BY RoutingAssumption
<1>5. IsFiniteSet(available)
  <2>1. IsFiniteSet(Agents)
    BY RoutingAssumption
  <2> QED
    BY <2>1, FS_Subset
<1>6. \A a \in available : <<a, a>> \notin R
  BY <1>2, <1>3
<1>7. \A a, b, c \in available : <<a, b>> \in R /\ <<b, c>> \in R => <<a, c>> \in R
  BY <1>2, <1>3
<1>8. \A a, b \in available : a # b => <<a, b>> \in R \/ <<b, a>> \in R
  BY <1>2, <1>3, <1>4
<1> QED
  BY <1>1, <1>5, <1>6, <1>7, <1>8 DEF Orders

\* There is one ranking of the available Agents, whatever they have done: equal
\* scores are decided by the place in the registry, and nothing is left to the
\* sort.
THEOREM OneRanking ==
  Spec => [](\A available \in SUBSET Agents :
                \E s : Rankings(rows, importance, available) = {s})
<1>1. ASSUME JudgeInv
      PROVE  \A available \in SUBSET Agents :
                \E s : Rankings(rows, importance, available) = {s}
  <2> SUFFICES ASSUME NEW S \in SUBSET Agents
               PROVE  \E s : Rankings(rows, importance, S) = {s}
    OBVIOUS
  <2>1. PICK R : R = {p \in S \X S : Preferred(rows, importance, p[1], p[2])}
    OBVIOUS
  <2>2. Orders(R, S)
    BY <1>1, <2>1, PreferenceOrders
  <2>3. PICK n : n = Cardinality(S)
    OBVIOUS
  <2>4. n \in Nat
    BY <2>2, <2>3, FS_CardinalityType DEF Orders
  <2>5. ASSUME NEW s \in [1..n -> S]
        PROVE  InOrder(R, s) <=>
                 \A i, j \in DOMAIN s : i < j => Preferred(rows, importance, s[i], s[j])
    <3>1. \A a, b \in S : <<a, b>> \in R <=> Preferred(rows, importance, a, b)
      BY <2>1
    <3>2. \A i \in DOMAIN s : s[i] \in S
      BY <2>5
    <3> QED
      BY <3>1, <3>2 DEF InOrder
  <2>6. SetToSeqs(S) = {s \in [1..n -> S] : \A i, j \in 1..n : i # j => s[i] # s[j]}
    BY <2>3 DEF SetToSeqs
  <2>7. PICK s \in [1..n -> S] : InOrder(R, s)
    BY <2>2, <2>3, OrderedExists
  <2>8. \A i, j \in 1..n : i # j => s[i] # s[j]
    <3> SUFFICES ASSUME NEW i \in 1..n, NEW j \in 1..n, i # j, s[i] = s[j] PROVE FALSE
      OBVIOUS
    <3>1. i < j \/ j < i
      BY <2>4
    <3>2. <<s[i], s[i]>> \in R
      BY <2>7, <3>1 DEF InOrder
    <3> QED
      BY <2>2, <2>7, <3>2 DEF Orders
  <2>9. s \in Rankings(rows, importance, S)
    BY <2>5, <2>6, <2>7, <2>8 DEF Rankings
  <2>10. ASSUME NEW t \in Rankings(rows, importance, S) PROVE t = s
    <3>1. t \in [1..n -> S]
      BY <2>6, <2>10 DEF Rankings
    <3>2. InOrder(R, t)
      BY <2>5, <2>10, <3>1 DEF Rankings
    <3> QED
      BY <2>2, <2>3, <2>7, <3>1, <3>2, OrderedOnce
  <2>11. Rankings(rows, importance, S) = {s}
    BY <2>9, <2>10
  <2> QED
    BY <2>11
<1> QED
  BY <1>1, JudgeInvariant, PTL

-----------------------------------------------------------------------------
(* What holds of the winner                                                *)

\* Whoever wins has left what an eligible run may leave: no hard failure, no
\* failed process, nothing sensitive, nothing outside, regular files only.
THEOREM WinnerClean == Spec => []WinnerIsClean
<1>1. ASSUME JudgeInv PROVE WinnerIsClean
  <2> SUFFICES ASSUME NEW i \in DOMAIN candidates, candidates[i].agent = winner
               PROVE  /\ ~Has(Found(candidates[i].work), Hard \cup {"processFailure"})
                      /\ \A c \in candidates[i].work.changes :
                            /\ {c.path, c.original} \cap (Sensitive \cup Outside) = {}
                            /\ c.deleted \/ c.entry \in Regular
    BY DEF WinnerIsClean
  <2>1. candidates \in Seq(Results) /\ candidates[i] \in Results
    BY <1>1, ElementOfSeq, LenProperties DEF JudgeInv, Types
  <2>2. winner # None
    BY <2>1, RoutingAssumption DEF Results, None
  <2>3. winner = Winner(candidates) /\ Len(candidates) = Len(selected)
    BY <1>1, <2>2 DEF JudgeInv, DecidedInv
  <2>4. PICK j \in DOMAIN candidates :
          candidates[j].agent = winner /\ candidates[j].status \in Eligible
    BY <2>1, <2>2, <2>3, WinnerIsEligible
  <2>5. i = j
    <3>1. i \in DOMAIN selected /\ j \in DOMAIN selected
      BY <1>1, <2>1, <2>3, <2>4, LenProperties DEF JudgeInv, Types
    <3> QED
      BY <1>1, <2>4, <3>1 DEF JudgeInv, SelectedInv
  <2>6. candidates[i].work \in Works /\ FinalStatus(candidates[i].work) \in Eligible
    BY <1>1, <2>1, <2>4, <2>5 DEF JudgeInv, EligibleInv, Results
  <2> QED
    BY <2>6, EligibleIsClean
<1> QED
  BY <1>1, JudgeInvariant, PTL

\* What is stored of measured runs is decided by rank alone.
LEMMA MeasuredIsDecisive ==
  ASSUME JudgeInv, stored # <<>>, Measured
  PROVE  Decisive(candidates) /\ stored = Rows(candidates) /\ winner = Winner(candidates)
<1>1. /\ stored = Rows(candidates) /\ winner = Winner(candidates)
      /\ Len(candidates) = Len(selected)
  BY DEF JudgeInv, DecidedInv
<1>2. candidates \in Seq(Results) /\ selected \in Seq(Agents)
  BY DEF JudgeInv, Types
<1>3. DOMAIN candidates = DOMAIN selected
  BY <1>1, <1>2, LenProperties
<1>4. \A i, j \in DOMAIN candidates : candidates[i].agent = candidates[j].agent => i = j
  BY <1>3 DEF JudgeInv, SelectedInv
<1>5. ASSUME NEW i \in DOMAIN candidates, candidates[i].status \in Eligible
      PROVE  candidates[i].duration > 0
  <2>1. PICK list : list = Ranked(candidates)
    OBVIOUS
  <2>2. i \in DOMAIN stored /\ stored[i].status = candidates[i].status
        /\ stored[i].duration = candidates[i].duration
    BY <1>1, <2>1, RankedParts
  <2>3. stored[i].duration > 0
    BY <1>5, <2>2 DEF Measured, EligibleIn
  <2> QED
    BY <2>2, <2>3
<1> QED
  BY <1>1, <1>2, <1>4, <1>5 DEF Decisive

LEMMA InjectionIsOnto ==
  ASSUME NEW S, IsFiniteSet(S), NEW p \in [S -> S], \A i, j \in S : i # j => p[i] # p[j]
  PROVE  \A m \in S : \E i \in S : p[i] = m
<1>1. p \in Injection(S, S)
  BY DEF Injection, IsInjective
<1>2. p \in Surjection(S, S)
  BY <1>1, FS_Injection
<1> QED
  BY <1>2 DEF Surjection

\* The same candidates in another order rank as before.
LEMMA Reordered ==
  ASSUME NEW cands, Decisive(cands),
         NEW p \in [DOMAIN cands -> DOMAIN cands],
         \A i, j \in DOMAIN cands : i # j => p[i] # p[j],
         NEW other, other = [i \in DOMAIN cands |-> cands[p[i]]]
  PROVE  Winner(other) = Winner(cands)
<1>1. PICK n : n = Len(cands)
  OBVIOUS
<1>2. cands \in Seq(Results) /\ n \in Nat /\ DOMAIN cands = 1..n
  BY <1>1, LenProperties DEF Decisive
<1>3. DOMAIN other = 1..n /\ \A i \in 1..n : p[i] \in 1..n /\ other[i] = cands[p[i]]
  BY <1>2
<1>4. \A m \in 1..n : \E i \in 1..n : p[i] = m
  <2>1. PICK S : S = 1..n
    OBVIOUS
  <2>2. IsFiniteSet(S)
    BY <1>2, <2>1, FS_Interval
  <2>3. S = DOMAIN cands
    BY <1>2, <2>1
  <2>4. p \in [S -> S] /\ \A i, j \in S : i # j => p[i] # p[j]
    BY <2>3
  <2>5. \A m \in S : \E i \in S : p[i] = m
    BY <2>2, <2>4, InjectionIsOnto
  <2> QED
    BY <2>1, <2>5
<1>5. other \in Seq(Results)
  <2>1. \A i \in 1..n : other[i] \in Results
    BY <1>2, <1>3, ElementOfSeq
  <2>2. other \in [1..n -> Results]
    BY <1>2, <2>1
  <2> QED
    BY <1>2, <2>2, SeqDef
<1>6. Decisive(other)
  BY <1>2, <1>3, <1>5 DEF Decisive
<1>7. Times(other) = Times(cands)
  <2>1. ASSUME NEW x \in Times(cands) PROVE x \in Times(other)
    <3>1. PICK m \in 1..n : x = Positive(cands[m].duration) /\ x # Unknown
      BY <1>2, <2>1 DEF Times
    <3>2. PICK i \in 1..n : p[i] = m
      BY <1>4
    <3>3. i \in DOMAIN other /\ x = Positive(other[i].duration)
      BY <1>3, <3>1, <3>2
    <3> QED
      BY <3>1, <3>3 DEF Times
  <2>2. ASSUME NEW x \in Times(other) PROVE x \in Times(cands)
    <3>1. PICK i \in 1..n : x = Positive(other[i].duration) /\ x # Unknown
      BY <1>3, <2>2 DEF Times
    <3>2. p[i] \in DOMAIN cands /\ x = Positive(cands[p[i]].duration)
      BY <1>2, <1>3, <3>1
    <3> QED
      BY <3>1, <3>2 DEF Times
  <2>3. Times(other) \subseteq Times(cands) /\ Times(cands) \subseteq Times(other)
    BY <2>1, <2>2
  <2> QED
    BY <2>3
<1>8. PICK list, olist : list = Ranked(cands) /\ olist = Ranked(other)
  OBVIOUS
<1>9. DOMAIN list = 1..n /\ DOMAIN olist = 1..n
  BY <1>2, <1>3, <1>8, RankedParts
<1>10. ASSUME NEW i \in 1..n
       PROVE  /\ olist[i].agent = list[p[i]].agent /\ olist[i].status = list[p[i]].status
              /\ olist[i].score = list[p[i]].score /\ olist[i].router = list[p[i]].router
              /\ olist[i].duration = list[p[i]].duration
              /\ olist[i].competition = list[p[i]].competition
  <2>1. p[i] \in DOMAIN cands /\ i \in DOMAIN other /\ other[i] = cands[p[i]]
    BY <1>2, <1>3
  <2>2. CompetitionScore(other[i], Times(other)) = CompetitionScore(cands[p[i]], Times(cands))
    BY <1>7, <2>1
  <2>3. PICK m : m = p[i]
    OBVIOUS
  <2>4. m \in DOMAIN cands /\ list = Ranked(cands) /\ olist = Ranked(other)
    BY <1>8, <2>1, <2>3
  <2>5. /\ list[m].agent = cands[m].agent /\ list[m].status = cands[m].status
        /\ list[m].score = cands[m].score /\ list[m].router = cands[m].router
        /\ list[m].duration = Positive(cands[m].duration)
        /\ list[m].competition = CompetitionScore(cands[m], Times(cands))
    BY <2>4, RankedParts
  <2>6. /\ olist[i].agent = other[i].agent /\ olist[i].status = other[i].status
        /\ olist[i].score = other[i].score /\ olist[i].router = other[i].router
        /\ olist[i].duration = Positive(other[i].duration)
        /\ olist[i].competition = CompetitionScore(other[i], Times(other))
    BY <2>1, <2>4, RankedParts
  <2> QED
    BY <2>1, <2>2, <2>3, <2>5, <2>6
<1>11. \A i, j \in 1..n : Before(olist[j], olist[i]) <=> Before(list[p[j]], list[p[i]])
  BY <1>10 DEF Before
<1>12. \A i \in 1..n : i \in EligibleIn(olist) <=> p[i] \in EligibleIn(list)
  BY <1>3, <1>9, <1>10 DEF EligibleIn
<1>13. ASSUME NEW i \in 1..n PROVE i \in Best(olist) <=> p[i] \in Best(list)
  <2>1. ASSUME i \in Best(olist) PROVE p[i] \in Best(list)
    <3>1. ASSUME NEW k \in EligibleIn(list) PROVE ~Before(list[k], list[p[i]])
      <4>1. k \in 1..n
        BY <1>9 DEF EligibleIn
      <4>2. PICK j \in 1..n : p[j] = k
        BY <1>4, <4>1
      <4>3. j \in EligibleIn(olist)
        BY <1>12, <3>1, <4>2
      <4> QED
        BY <1>11, <2>1, <4>2, <4>3 DEF Best
    <3> QED
      BY <1>12, <2>1, <3>1 DEF Best
  <2>2. ASSUME p[i] \in Best(list) PROVE i \in Best(olist)
    <3>1. ASSUME NEW j \in EligibleIn(olist) PROVE ~Before(olist[j], olist[i])
      <4>1. j \in 1..n
        BY <1>9 DEF EligibleIn
      <4> QED
        BY <1>11, <1>12, <2>2, <3>1, <4>1 DEF Best
    <3> QED
      BY <1>12, <2>2, <3>1 DEF Best
  <2> QED
    BY <2>1, <2>2
<1>14. Best(list) \in SUBSET (1..n) /\ Best(olist) \in SUBSET (1..n)
  BY <1>9 DEF Best, EligibleIn
<1>15. CASE Best(list) = {}
  <2>1. Best(olist) = {}
    BY <1>13, <1>14, <1>15
  <2> QED
    BY <1>8, <1>15, <2>1, NoneWins
<1>16. CASE Best(list) # {}
  <2>1. PICK m \in Best(list) : TRUE
    BY <1>16
  <2>2. PICK i \in 1..n : p[i] = m
    BY <1>4, <1>14, <2>1
  <2>3. i \in Best(olist)
    BY <1>13, <2>1, <2>2
  <2>4. Winner(cands) = cands[m].agent
    BY <1>8, <2>1, OnlyBestWins
  <2>5. Winner(other) = other[i].agent
    BY <1>6, <1>8, <2>3, OnlyBestWins
  <2> QED
    BY <1>3, <2>2, <2>4, <2>5
<1> QED
  BY <1>15, <1>16

\* Candidates of runs that took time have one winner, in whatever order they
\* ran: the ranking is total on different Agents.
THEOREM OrderIrrelevant == Spec => []OrderDecidesNothing
<1>1. ASSUME JudgeInv PROVE OrderDecidesNothing
  <2> SUFFICES ASSUME stored # <<>>, Measured,
                      NEW p \in [DOMAIN candidates -> DOMAIN candidates],
                      \A i, j \in DOMAIN candidates : i # j => p[i] # p[j]
               PROVE  Winner([i \in DOMAIN candidates |-> candidates[p[i]]]) = winner
    BY DEF OrderDecidesNothing
  <2>1. Decisive(candidates) /\ winner = Winner(candidates)
    BY <1>1, MeasuredIsDecisive
  <2>2. PICK other : other = [i \in DOMAIN candidates |-> candidates[p[i]]]
    OBVIOUS
  <2>3. Winner(other) = Winner(candidates)
    BY <2>1, <2>2, Reordered
  <2> QED
    BY <2>1, <2>2, <2>3
<1> QED
  BY <1>1, JudgeInvariant, PTL

\* The review of rows of measured runs and the competition that stored them
\* agree, although they see different durations.
THEOREM ReviewsAgree == Spec => []ReviewAgrees
<1>1. ASSUME JudgeInv PROVE ReviewAgrees
  <2> SUFFICES ASSUME stored # <<>>, Measured PROVE Derived = winner
    BY DEF ReviewAgrees
  <2>1. Decisive(candidates) /\ stored = Rows(candidates) /\ winner = Winner(candidates)
    BY <1>1, MeasuredIsDecisive
  <2>2. PICK list : list = Ranked(candidates)
    OBVIOUS
  <2>3. DOMAIN list = DOMAIN candidates /\ DOMAIN stored = DOMAIN candidates
    BY <2>1, <2>2, RankedParts
  <2>4. ASSUME NEW i \in DOMAIN candidates
        PROVE  /\ stored[i].agent = list[i].agent /\ stored[i].status = list[i].status
               /\ stored[i].score = list[i].score /\ stored[i].router = list[i].router
               /\ stored[i].competition = list[i].competition
               /\ stored[i].status \in Eligible =>
                    /\ stored[i].duration = list[i].duration /\ stored[i].duration # Unknown
    <3>1. /\ stored[i].agent = list[i].agent /\ stored[i].status = list[i].status
          /\ stored[i].score = list[i].score /\ stored[i].router = list[i].router
          /\ stored[i].competition = list[i].competition
          /\ stored[i].duration = candidates[i].duration
          /\ list[i].duration = Positive(candidates[i].duration)
          /\ stored[i].status = candidates[i].status
      BY <2>1, <2>2, RankedParts
    <3>2. candidates[i].duration \in Nat \cup {Unknown}
      <4>1. candidates[i] \in Results
        BY <2>1, ElementOfSeq, LenProperties DEF Decisive
      <4> QED
        BY <4>1 DEF Results
    <3>3. candidates[i].status \in Eligible => candidates[i].duration > 0
      BY <2>1 DEF Decisive
    <3>4. candidates[i].duration > 0 =>
             Positive(candidates[i].duration) = candidates[i].duration
             /\ candidates[i].duration # Unknown
      BY <3>2 DEF Positive, Unknown
    <3> QED
      BY <3>1, <3>3, <3>4
  <2>5. EligibleIn(stored) = EligibleIn(list)
    BY <2>3, <2>4 DEF EligibleIn
  <2>6. ASSUME NEW i \in EligibleIn(list), NEW j \in EligibleIn(list)
        PROVE  RowBefore(stored[j], stored[i]) <=> Before(list[j], list[i])
    <3>1. i \in DOMAIN candidates /\ j \in DOMAIN candidates
          /\ stored[i].status \in Eligible /\ stored[j].status \in Eligible
      BY <2>3, <2>5 DEF EligibleIn
    <3>2. PICK l, r, a, b : l = stored[j] /\ r = stored[i] /\ a = list[j] /\ b = list[i]
      OBVIOUS
    <3>3. /\ l.agent = a.agent /\ l.score = a.score /\ l.router = a.router
          /\ l.competition = a.competition /\ l.duration = a.duration /\ a.duration # Unknown
          /\ r.agent = b.agent /\ r.score = b.score /\ r.router = b.router
          /\ r.competition = b.competition /\ r.duration = b.duration /\ b.duration # Unknown
      BY <2>4, <3>1, <3>2
    <3>4. RowBefore(l, r) <=> Before(a, b)
      BY <3>3 DEF RowBefore, Before
    <3> QED
      BY <3>2, <3>4
  <2>7. PICK best : best = Best(list)
    OBVIOUS
  <2>8. best = {i \in EligibleIn(stored) : \A j \in EligibleIn(stored) : ~RowBefore(stored[j], stored[i])}
    BY <2>5, <2>6, <2>7 DEF Best
  <2>9. Derived = FirstOf(stored, best) /\ winner = FirstOf(list, best)
    BY <2>1, <2>2, <2>7, <2>8 DEF Derived, Winner, Best
  <2>10. CASE best = {}
    BY <2>9, <2>10 DEF FirstOf
  <2>11. CASE best # {}
    <3>1. best \in SUBSET DOMAIN candidates /\ DOMAIN candidates \in SUBSET Nat
      <4>1. best \in SUBSET DOMAIN candidates
        BY <2>3, <2>7 DEF Best, EligibleIn
      <4> QED
        BY <2>1, <4>1, LenProperties DEF Decisive
    <3>2. Min(best) \in DOMAIN candidates
      BY <2>11, <3>1, MinOfNumbers
    <3>3. stored[Min(best)].agent = list[Min(best)].agent
      BY <2>4, <3>2
    <3> QED
      BY <2>9, <2>11, <3>3 DEF FirstOf
  <2> QED
    BY <2>10, <2>11
<1> QED
  BY <1>1, JudgeInvariant, PTL

\* One and the same history, of as many runs, gives an Agent no higher routing score
\* where one of its runs ended without a score, however its runs weigh in it. (A
\* further run, with or without a score, is another matter: it may be the one that
\* makes MinSamples, so that the history counts at all.)
THEOREM FailuresNeverHelp == Spec => []FailureNeverHelps
<1>1. ASSUME JudgeInv PROVE FailureNeverHelps
  <2> SUFFICES ASSUME NEW i \in DOMAIN rows
               PROVE  RoutingScore([rows EXCEPT ![i].score = Unknown], importance, rows[i].agent)
                        <= RoutingScore(rows, importance, rows[i].agent)
    BY DEF FailureNeverHelps
  <2>1. rows \in Seq(Run) /\ importance \in Importances
    BY <1>1 DEF JudgeInv, Types
  <2>2. PICK worse : worse = [rows EXCEPT ![i].score = Unknown]
    OBVIOUS
  <2>3. DOMAIN rows = 1..Len(rows) /\ Len(rows) \in Nat /\ \A j \in DOMAIN rows : rows[j] \in Run
    BY <2>1, ElementOfSeq, LenProperties
  <2>4. PICK run : run = [rows[i] EXCEPT !.score = Unknown]
    OBVIOUS
  <2>5. run \in Run /\ run.agent = rows[i].agent /\ run.importance = rows[i].importance
        /\ run.score = Unknown
    BY <2>3, <2>4 DEF Run
  <2>6. worse = [rows EXCEPT ![i] = run]
    BY <2>2, <2>4
  <2>7. worse \in Seq(Run) /\ DOMAIN worse = DOMAIN rows
    BY <2>1, <2>5, <2>6, ExceptSeq
  <2>8. \A j \in DOMAIN rows : worse[j] = IF j = i THEN run ELSE rows[j]
    BY <2>6
  <2>9. Points(run) = 0 /\ \A j \in DOMAIN rows : Points(rows[j]) \in Nat
    BY <2>1, <2>5, RunParts DEF Points
  <2>10. NoBetter(worse, rows)
    <3>1. ASSUME NEW j \in DOMAIN rows
          PROVE  /\ worse[j].agent = rows[j].agent /\ worse[j].importance = rows[j].importance
                 /\ Points(worse[j]) <= Points(rows[j])
      BY <2>5, <2>8, <2>9
    <3> QED
      BY <2>1, <2>7, <3>1 DEF NoBetter
  <2>11. rows[i].agent \in Agents
    BY <2>1, RunParts
  <2> QED
    BY <2>1, <2>2, <2>10, <2>11, RoutingScoreNoBetter
<1> QED
  BY <1>1, JudgeInvariant, PTL

=============================================================================
