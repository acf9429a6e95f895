------------------------------ MODULE BudgetProofs ------------------------------
(***************************************************************************)
(* Theorems about BudgetEnforcement, for any budgets, models, keys and     *)
(* callers.                                                                *)
(***************************************************************************)
EXTENDS BudgetEnforcement, FiniteSetTheorems, WellFoundedInduction, TLAPS

LEMMA FirstLeast ==
  ASSUME NEW S \in SUBSET Nat, S # {}
  PROVE  First(S) \in S /\ \A d \in S : First(S) <= d
<1> DEFINE Less == OpToRel(<, Nat)
<1>1. IsWellFoundedOn(Less, Nat)
  BY NatLessThanWellFounded
<1>2. Less = {p \in Nat \X Nat : p[1] < p[2]}
  BY DEF OpToRel
<1> HIDE DEF Less
<1>3. \E b \in S : \A d \in S : <<d, b>> \notin Less
  BY <1>1, WFMin
<1>4. PICK b \in S : \A d \in S : <<d, b>> \notin Less
  BY <1>3
<1>5. \A d \in S : <<d, b>> \in Nat \X Nat /\ <<d, b>>[1] = d /\ <<d, b>>[2] = b
  OBVIOUS
<1>6. \A d \in S : ~(d < b)
  BY <1>2, <1>4, <1>5
<1>7. \A d \in S : b <= d
  BY <1>6
<1>8. QED
  BY <1>7 DEF First

(* The sum over a set, as the fold behind SumFunctionOnSet does : a function *)
(* on the subsets of the set that takes out one element after the other.       *)
Pick(s) == CHOOSE x \in s : TRUE
Rest(s) == s \ {Pick(s)}

IsTotals(f, v, S) ==
  f = [s \in SUBSET S |-> IF s = {} THEN 0 ELSE v[Pick(s)] + f[Rest(s)]]

Totals(v, S) == CHOOSE f : IsTotals(f, v, S)
Total(v, S)  == Totals(v, S)[S]

LEMMA PickIn == \A s : s # {} => Pick(s) \in s /\ Pick(s) \notin Rest(s) /\ Rest(s) \subseteq s
BY DEF Pick, Rest

(* A property that some subset of a finite set lacks has a smallest one that  *)
(* lacks it.                                                                  *)
LEMMA SmallestSet ==
  ASSUME NEW S, IsFiniteSet(S), NEW Bad \in SUBSET (SUBSET S), Bad # {}
  PROVE  \E s \in Bad : \A t \in SUBSET s : t # s => t \notin Bad
<1> DEFINE Sizes == {Cardinality(s) : s \in Bad}
<1>1. \A s \in Bad : IsFiniteSet(s) /\ Cardinality(s) \in Nat
  BY FS_Subset, FS_CardinalityType
<1>2. Sizes \in SUBSET Nat /\ Sizes # {}
  BY <1>1
<1>3. First(Sizes) \in Sizes /\ \A n \in Sizes : First(Sizes) <= n
  BY <1>2, FirstLeast
<1>4. PICK s \in Bad : \A t \in Bad : Cardinality(s) <= Cardinality(t)
  <2>1. PICK s \in Bad : Cardinality(s) = First(Sizes)
    BY <1>3
  <2>2. \A t \in Bad : Cardinality(t) \in Sizes
    OBVIOUS
  <2> HIDE DEF Sizes
  <2>3. QED
    BY <1>3, <2>1, <2>2
<1>5. ASSUME NEW t \in SUBSET s, t # s, t \in Bad PROVE FALSE
  <2>1. Cardinality(t) <= Cardinality(s) /\ (Cardinality(s) = Cardinality(t) => s = t)
    BY <1>1, FS_Subset
  <2>. QED
    BY <2>1, <1>1, <1>4, <1>5
<1>6. QED
  BY <1>4, <1>5

LEMMA TotalsStep ==
  ASSUME NEW f, NEW v, NEW S, IsTotals(f, v, S)
  PROVE  /\ f[{}] = 0
         /\ \A s \in SUBSET S : s # {} => f[s] = v[Pick(s)] + f[Rest(s)]
<1> DEFINE g == [s \in SUBSET S |-> IF s = {} THEN 0 ELSE v[Pick(s)] + f[Rest(s)]]
<1>1. f = g
  BY DEF IsTotals
<1>2. {} \in SUBSET S
  OBVIOUS
<1>3. \A s \in SUBSET S : g[s] = IF s = {} THEN 0 ELSE v[Pick(s)] + f[Rest(s)]
  OBVIOUS
<1> HIDE DEF g
<1>4. QED
  BY <1>1, <1>2, <1>3

(* Two such functions agree where the amounts do. *)
LEMMA TotalsAgree ==
  ASSUME NEW S, NEW T, NEW v, NEW w, NEW f, NEW g, IsTotals(f, v, S), IsTotals(g, w, T),
         NEW s \in SUBSET (S \cap T), IsFiniteSet(s), \A x \in s : v[x] = w[x]
  PROVE  f[s] = g[s]
<1> DEFINE Bad == {t \in SUBSET s : f[t] # g[t]}
<1>1. ASSUME Bad # {} PROVE FALSE
  <2>1. Bad \in SUBSET (SUBSET s)
    OBVIOUS
  <2>2. PICK t \in Bad : \A u \in SUBSET t : u # t => u \notin Bad
    <3> HIDE DEF Bad
    <3>1. QED
      BY <1>1, <2>1, SmallestSet
  <2>3. t \in SUBSET S /\ t \in SUBSET T /\ t \in SUBSET s /\ f[t] # g[t]
    OBVIOUS
  <2>4. f[{}] = g[{}]
    BY TotalsStep
  <2>5. t # {}
    BY <2>3, <2>4
  <2>6. f[t] = v[Pick(t)] + f[Rest(t)] /\ g[t] = w[Pick(t)] + g[Rest(t)]
    BY <2>3, <2>5, TotalsStep
  <2>7. Pick(t) \in s /\ Rest(t) \in SUBSET t /\ Rest(t) # t /\ Rest(t) \in SUBSET s
    BY <2>3, <2>5, PickIn
  <2>8. f[Rest(t)] = g[Rest(t)]
    BY <2>2, <2>7
  <2>9. v[Pick(t)] = w[Pick(t)]
    BY <2>7
  <2>10. QED
    BY <2>3, <2>6, <2>8, <2>9
<1>2. s \in SUBSET s
  OBVIOUS
<1>3. QED
  BY <1>1, <1>2

LEMMA TotalsExist ==
  ASSUME NEW v, NEW S, IsFiniteSet(S)
  PROVE  IsTotals(Totals(v, S), v, S)
<1> DEFINE Bad == {t \in SUBSET S : ~ IsTotals(Totals(v, t), v, t)}
<1>1. ASSUME Bad # {} PROVE FALSE
  <2>1. Bad \in SUBSET (SUBSET S)
    OBVIOUS
  <2>2. PICK t \in Bad : \A u \in SUBSET t : u # t => u \notin Bad
    <3> HIDE DEF Bad
    <3>1. QED
      BY <1>1, <2>1, SmallestSet
  <2>3. \A u \in SUBSET t : IsFiniteSet(u) /\ (u # t => IsTotals(Totals(v, u), v, u))
    BY <2>2, FS_Subset
  <2>4. ASSUME NEW u \in SUBSET t, u # t
        PROVE  Total(v, u) = IF u = {} THEN 0 ELSE v[Pick(u)] + Total(v, Rest(u))
    <3>1. IsTotals(Totals(v, u), v, u)
      BY <2>3, <2>4
    <3>2. CASE u = {}
      BY <3>1, <3>2, TotalsStep DEF Total
    <3>3. CASE u # {}
      <4>1. Totals(v, u)[u] = v[Pick(u)] + Totals(v, u)[Rest(u)]
        BY <3>1, <3>3, TotalsStep
      <4>2. Rest(u) \in SUBSET t /\ Rest(u) # t /\ Rest(u) \in SUBSET (u \cap Rest(u))
        BY <3>3, PickIn
      <4>3. IsTotals(Totals(v, Rest(u)), v, Rest(u)) /\ IsFiniteSet(Rest(u))
        BY <2>3, <4>2
      <4>4. Totals(v, u)[Rest(u)] = Totals(v, Rest(u))[Rest(u)]
        BY <3>1, <4>2, <4>3, TotalsAgree
      <4>5. QED
        BY <3>3, <4>1, <4>4 DEF Total
    <3>4. QED
      BY <3>2, <3>3
  <2> DEFINE f == [u \in SUBSET t |-> IF u = {} THEN 0 ELSE v[Pick(u)] + Total(v, Rest(u))]
  <2>5. ASSUME NEW u \in SUBSET t, u # {}
        PROVE  f[Rest(u)] = Total(v, Rest(u))
    <3>1. Rest(u) \in SUBSET t /\ Rest(u) # t
      BY <2>5, PickIn
    <3>2. f[Rest(u)] = IF Rest(u) = {} THEN 0 ELSE v[Pick(Rest(u))] + Total(v, Rest(Rest(u)))
      BY <3>1
    <3>3. QED
      BY <3>1, <3>2, <2>4
  <2>6. IsTotals(f, v, t)
    <3> DEFINE g == [u \in SUBSET t |-> IF u = {} THEN 0 ELSE v[Pick(u)] + f[Rest(u)]]
    <3>1. ASSUME NEW u \in SUBSET t PROVE f[u] = g[u]
      BY <2>5
    <3>2. f = g
      BY <3>1
    <3>3. QED
      BY <3>2 DEF IsTotals
  <2> HIDE DEF f
  <2>7. IsTotals(Totals(v, t), v, t)
    BY <2>6 DEF Totals
  <2>8. QED
    BY <2>7
<1>2. S \in SUBSET S
  OBVIOUS
<1>3. QED
  BY <1>1, <1>2

(* What the sums of rows need: nothing, one amount more or less, the same     *)
(* amounts.                                                                   *)
LEMMA TotalEmpty == ASSUME NEW v PROVE Total(v, {}) = 0
BY TotalsExist, TotalsStep, FS_EmptySet DEF Total

LEMMA TotalSame ==
  ASSUME NEW v, NEW w, NEW S, IsFiniteSet(S), \A x \in S : v[x] = w[x]
  PROVE  Total(v, S) = Total(w, S)
<1>1. IsTotals(Totals(v, S), v, S) /\ IsTotals(Totals(w, S), w, S)
  BY TotalsExist
<1>2. S \in SUBSET (S \cap S)
  OBVIOUS
<1>3. QED
  BY <1>1, <1>2, TotalsAgree DEF Total

LEMMA TotalStep ==
  ASSUME NEW v, NEW S, IsFiniteSet(S), S # {}
  PROVE  Total(v, S) = v[Pick(S)] + Total(v, Rest(S))
<1>1. Rest(S) \in SUBSET S /\ Rest(S) \in SUBSET (S \cap Rest(S)) /\ S \in SUBSET S
  BY PickIn
<1>2. IsFiniteSet(Rest(S))
  BY <1>1, FS_Subset
<1>3. IsTotals(Totals(v, S), v, S) /\ IsTotals(Totals(v, Rest(S)), v, Rest(S))
  BY <1>2, TotalsExist
<1>4. Totals(v, S)[S] = v[Pick(S)] + Totals(v, S)[Rest(S)]
  BY <1>1, <1>3, TotalsStep
<1>5. Totals(v, S)[Rest(S)] = Totals(v, Rest(S))[Rest(S)]
  BY <1>1, <1>2, <1>3, TotalsAgree
<1>6. QED
  BY <1>4, <1>5 DEF Total

LEMMA TotalNat ==
  ASSUME NEW v, NEW S, IsFiniteSet(S), \A x \in S : v[x] \in Nat
  PROVE  Total(v, S) \in Nat
<1> DEFINE Bad == {t \in SUBSET S : Total(v, t) \notin Nat}
<1>1. ASSUME Bad # {} PROVE FALSE
  <2>1. Bad \in SUBSET (SUBSET S)
    OBVIOUS
  <2>2. PICK t \in Bad : \A u \in SUBSET t : u # t => u \notin Bad
    <3> HIDE DEF Bad
    <3>1. QED
      BY <1>1, <2>1, SmallestSet
  <2>3. t # {} /\ IsFiniteSet(t) /\ t \in SUBSET S
    <3>1. t \in SUBSET S /\ Total(v, t) \notin Nat
      BY <2>2
    <3>2. Total(v, {}) = 0
      BY TotalEmpty
    <3>3. IsFiniteSet(t)
      BY <3>1, FS_Subset
    <3>4. t # {}
      <4>1. ASSUME t = {} PROVE FALSE
        <5>1. Total(v, t) = 0
          BY <3>2, <4>1
        <5>2. QED
          BY <3>1, <5>1
      <4>2. QED
        BY <4>1
    <3>5. QED
      BY <3>1, <3>3, <3>4
  <2>4. Total(v, t) = v[Pick(t)] + Total(v, Rest(t))
    BY <2>3, TotalStep
  <2>5. Rest(t) \in SUBSET t /\ Rest(t) # t /\ Pick(t) \in S
    BY <2>3, PickIn
  <2>6. Total(v, Rest(t)) \in Nat /\ v[Pick(t)] \in Nat
    BY <2>2, <2>3, <2>5
  <2>7. Total(v, t) \in Nat
    BY <2>4, <2>6
  <2>8. QED
    BY <2>7
<1>2. S \in SUBSET S
  OBVIOUS
<1>3. QED
  BY <1>1, <1>2

LEMMA TotalRemove ==
  ASSUME NEW v, NEW S, IsFiniteSet(S), \A x \in S : v[x] \in Nat
  PROVE  \A x \in S : Total(v, S) = v[x] + Total(v, S \ {x})
<1> DEFINE Bad == {t \in SUBSET S : \E x \in t : Total(v, t) # v[x] + Total(v, t \ {x})}
<1>1. ASSUME Bad # {} PROVE FALSE
  <2>1. Bad \in SUBSET (SUBSET S)
    OBVIOUS
  <2>2. PICK t \in Bad : \A u \in SUBSET t : u # t => u \notin Bad
    <3> HIDE DEF Bad
    <3>1. QED
      BY <1>1, <2>1, SmallestSet
  <2>3. \A u \in SUBSET t : u # t => \A y \in u : Total(v, u) = v[y] + Total(v, u \ {y})
    BY <2>2
  <2>4. PICK x \in t : Total(v, t) # v[x] + Total(v, t \ {x})
    BY <2>2
  <2>5. t \in SUBSET S
    BY <2>2
  <2> HIDE DEF Bad
  <2> DEFINE p == Pick(t)
             both == (t \ {p}) \ {x}
  <2>6. p \in t /\ Rest(t) = t \ {p} /\ IsFiniteSet(t)
    BY <2>4, <2>5, PickIn, FS_Subset DEF Rest
  <2>7. Total(v, t) = v[p] + Total(v, t \ {p})
    BY <2>4, <2>6, TotalStep
  <2> HIDE DEF p
  <2>8. p # x
    BY <2>4, <2>7
  <2>9. Total(v, t \ {p}) = v[x] + Total(v, both)
    BY <2>3, <2>4, <2>6, <2>8
  <2>10. both = (t \ {x}) \ {p}
    OBVIOUS
  <2> HIDE DEF both
  <2>11. Total(v, t \ {x}) = v[p] + Total(v, both)
    BY <2>3, <2>4, <2>6, <2>8, <2>10
  <2>12. v[p] \in Nat /\ v[x] \in Nat
    BY <2>4, <2>5, <2>6
  <2>13. both \in SUBSET S
    BY <2>5 DEF both
  <2>14. Total(v, both) \in Nat
    <3>1. IsFiniteSet(both) /\ \A y \in both : v[y] \in Nat
      BY <2>13, FS_Subset
    <3>2. QED
      BY <3>1, TotalNat
  <2> HIDE <2>3
  <2> DEFINE T1 == Total(v, t)  T2 == Total(v, t \ {p})  T3 == Total(v, t \ {x})
             T4 == Total(v, both)  A == v[p]  B == v[x]
  <2>15. T1 = A + T2 /\ T2 = B + T4 /\ T3 = A + T4 /\ T1 # B + T3
    BY <2>4, <2>7, <2>9, <2>11
  <2>16. A \in Nat /\ B \in Nat /\ T4 \in Nat
    BY <2>12, <2>14
  <2> HIDE DEF T1, T2, T3, T4, A, B
  <2>17. QED
    BY <2>15, <2>16
<1>2. S \in SUBSET S
  OBVIOUS
<1>3. QED
  BY <1>1, <1>2

LEMMA TotalAdd ==
  ASSUME NEW v, NEW w, NEW S, NEW T, NEW x, NEW a,
         IsFiniteSet(S), x \notin S, T = S \cup {x}, w[x] = a,
         \A y \in S : w[y] = v[y], \A y \in T : w[y] \in Nat
  PROVE  IsFiniteSet(T) /\ Total(w, T) = a + Total(v, S)
<1>1. IsFiniteSet(T)
  BY FS_AddElement
<1>2. T \ {x} = S /\ x \in T
  OBVIOUS
<1>3. Total(w, T) = w[x] + Total(w, T \ {x})
  BY <1>1, <1>2, TotalRemove
<1>4. Total(w, S) = Total(v, S)
  BY TotalSame
<1>5. QED
  BY <1>1, <1>2, <1>3, <1>4

LEMMA TotalDrop ==
  ASSUME NEW v, NEW w, NEW S, NEW T, NEW x, NEW a,
         IsFiniteSet(S), x \in S, T = S \ {x}, v[x] = a,
         \A y \in T : w[y] = v[y], \A y \in S : v[y] \in Nat
  PROVE  Total(w, T) = Total(v, S) - a
<1>1. IsFiniteSet(T) /\ \A y \in T : v[y] \in Nat
  BY FS_RemoveElement
<1>2. Total(v, S) = v[x] + Total(v, S \ {x})
  BY TotalRemove
<1>3. Total(w, T) = Total(v, T)
  BY <1>1, TotalSame
<1>4. Total(v, T) \in Nat /\ a \in Nat
  BY <1>1, TotalNat
<1>5. QED
  BY <1>2, <1>3, <1>4

(* SumFunctionOnSet is such a total. *)
LEMMA SumIsTotal ==
  ASSUME NEW v, NEW S, IsFiniteSet(S)
  PROVE  SumFunctionOnSet(v, S) = Total(v, S)
<1> DEFINE P(f) == f = [s \in SUBSET S |-> IF s = {} THEN 0
                          ELSE v[CHOOSE x \in s : TRUE] + f[s \ {CHOOSE x \in s : TRUE}]]
           g == CHOOSE f : P(f)
           m == SumFunctionOnSet(v, S)
<1>1. m = g[S]
  BY DEF SumFunctionOnSet, FoldFunctionOnSet, MapThenFoldSet
<1> HIDE DEF m
<1>2. ASSUME NEW f PROVE P(f) <=> IsTotals(f, v, S)
  BY DEF IsTotals, Pick, Rest
<1>3. IsTotals(Totals(v, S), v, S)
  BY TotalsExist
<1> HIDE DEF P
<1>4. P(g)
  BY <1>2, <1>3
<1>5. IsTotals(g, v, S)
  BY <1>2, <1>4
<1> HIDE DEF g
<1>6. S \in SUBSET (S \cap S)
  OBVIOUS
<1>7. g[S] = Totals(v, S)[S]
  BY <1>3, <1>5, <1>6, TotalsAgree
<1>8. m = Total(v, S)
  BY <1>1, <1>7 DEF Total
<1>9. QED
  BY <1>8 DEF m

(* The rows of one budget. *)
ReservedKeys(r) == {k \in Keys : r[k].status = "RESERVED"}
Estimates(r)    == [k \in Keys |-> r[k].estimate]
Table           == [Keys -> Rows]

LEMMA ReservedTotal ==
  ASSUME NEW r \in Table
  PROVE  /\ ReservedSum(r) = Total(Estimates(r), ReservedKeys(r))
         /\ IsFiniteSet(ReservedKeys(r)) /\ ReservedKeys(r) \subseteq Keys
         /\ \A k \in Keys : Estimates(r)[k] = r[k].estimate /\ Estimates(r)[k] \in Nat
<1>1. IsFiniteSet(ReservedKeys(r)) /\ ReservedKeys(r) \subseteq Keys
  BY KeyAssumption, FS_Subset DEF ReservedKeys
<1>2. ReservedSum(r) = SumFunctionOnSet(Estimates(r), ReservedKeys(r))
  BY DEF ReservedSum, Estimates, ReservedKeys
<1>3. \A k \in Keys : Estimates(r)[k] = r[k].estimate /\ Estimates(r)[k] \in Nat
  BY DEF Estimates, Table, Rows
<1>4. QED
  BY <1>1, <1>2, <1>3, SumIsTotal

(* Both sums are amounts. *)
LEMMA SumTypes ==
  ASSUME NEW r \in Table
  PROVE  SettledSum(r) \in Nat /\ ReservedSum(r) \in Nat
<1> DEFINE K == {k \in Keys : r[k].status = "SETTLED"}
           v == [k \in Keys |-> r[k].settled]
<1>1. IsFiniteSet(K) /\ \A k \in K : v[k] \in Nat
  <2>1. K \subseteq Keys
    OBVIOUS
  <2>2. \A k \in Keys : v[k] \in Nat
    BY DEF Table, Rows
  <2>3. QED
    BY <2>1, <2>2, KeyAssumption, FS_Subset
<1>2. SettledSum(r) = SumFunctionOnSet(v, K)
  BY DEF SettledSum
<1> HIDE DEF K, v
<1>3. SettledSum(r) \in Nat
  BY <1>1, <1>2, SumIsTotal, TotalNat
<1>4. QED
  BY <1>3, ReservedTotal, TotalNat

(* A reservation of a key that has none adds its estimate. *)
LEMMA SumGrows ==
  ASSUME NEW r \in Table, NEW q \in Table, NEW k \in Keys, NEW cost \in Nat,
         r[k].status # "RESERVED", q[k].status = "RESERVED", q[k].estimate = cost,
         \A x \in Keys : x # k => q[x] = r[x]
  PROVE  ReservedSum(q) = ReservedSum(r) + cost
<1>1. PICK S : S = ReservedKeys(r)
  OBVIOUS
<1>2. PICK T : T = ReservedKeys(q)
  OBVIOUS
<1>3. PICK v : v = Estimates(r)
  OBVIOUS
<1>4. PICK w : w = Estimates(q)
  OBVIOUS
<1>5. k \notin S /\ T = S \cup {k}
  BY <1>1, <1>2 DEF ReservedKeys
<1>6. IsFiniteSet(S) /\ w[k] = cost /\ (\A y \in S : w[y] = v[y]) /\ \A y \in T : w[y] \in Nat
  BY <1>1, <1>2, <1>3, <1>4, <1>5, ReservedTotal
<1>7. Total(w, T) = cost + Total(v, S)
  BY <1>5, <1>6, TotalAdd
<1>8. ReservedSum(q) = Total(w, T) /\ ReservedSum(r) = Total(v, S) /\ ReservedSum(r) \in Nat
  BY <1>1, <1>2, <1>3, <1>4, ReservedTotal, SumTypes
<1>9. QED
  BY <1>7, <1>8

(* The end of a reservation takes it away. *)
LEMMA SumFalls ==
  ASSUME NEW r \in Table, NEW q \in Table, NEW k \in Keys,
         r[k].status = "RESERVED", q[k].status # "RESERVED",
         \A x \in Keys : x # k => q[x] = r[x]
  PROVE  ReservedSum(q) = ReservedSum(r) - r[k].estimate
<1>1. PICK S : S = ReservedKeys(r)
  OBVIOUS
<1>2. PICK T : T = ReservedKeys(q)
  OBVIOUS
<1>3. PICK v : v = Estimates(r)
  OBVIOUS
<1>4. PICK w : w = Estimates(q)
  OBVIOUS
<1>5. PICK gone : gone = r[k].estimate
  OBVIOUS
<1>6. k \in S /\ T = S \ {k}
  BY <1>1, <1>2 DEF ReservedKeys
<1>7. IsFiniteSet(S) /\ v[k] = gone /\ (\A y \in T : w[y] = v[y]) /\ \A y \in S : v[y] \in Nat
  BY <1>1, <1>2, <1>3, <1>4, <1>5, <1>6, ReservedTotal
<1>8. Total(w, T) = Total(v, S) - gone
  BY <1>6, <1>7, TotalDrop
<1>9. ReservedSum(q) = Total(w, T) /\ ReservedSum(r) = Total(v, S)
  BY <1>1, <1>2, <1>3, <1>4, ReservedTotal
<1>10. QED
  BY <1>5, <1>8, <1>9
-----------------------------------------------------------------------------
(* What a caller has locked, and where its request stands. *)
Counting == {"settled", "reserved", "override", "route", "admit"}

PhaseOf(c) ==
  /\ pc[c] \in {"idle", "calling"} => Held(c) = {} /\ keeper # c
  /\ keeper = c => override.status # "NONE"
  /\ pc[c] # "idle" => call[c].key \in Keys /\ call[c].model \in Models
  /\ pc[c] = "lock" => /\ call[c].todo # {} /\ call[c].todo \subseteq call[c].scope
                       /\ call[c].scope \ call[c].todo \subseteq Held(c)
  /\ pc[c] \in Counting => call[c].scope \subseteq Held(c)
  /\ pc[c] \in {"settled", "reserved"} => call[c].todo # {} /\ call[c].todo \subseteq call[c].scope

(* A request that is not over a limit has found room in each budget it has    *)
(* counted; one that is over and goes on has locked an override it may use.   *)
CountedOf(c) ==
  /\ pc[c] \in {"settled", "reserved", "admit"} /\ ~call[c].over =>
       \A b \in call[c].scope \ call[c].todo :
         ReservedSum(rows[b]) + Cost[call[c].model] < Limit[b]
  /\ pc[c] \in {"override", "admit"} => call[c].todo = {}
  /\ pc[c] = "override" => call[c].over
  /\ pc[c] = "admit" /\ call[c].over => keeper = c /\ Usable(call[c].model)

Counted == \A c \in Callers : CountedOf(c)

Phases == \A c \in Callers : PhaseOf(c)

(* What the steps of other callers leave to a caller: its request, its locks, *)
(* the override when it has locked it, and no less room in a budget it holds. *)
Undisturbed(d) ==
  /\ pc'[d] = pc[d] /\ call'[d] = call[d]
  /\ \A b \in Budgets : lock'[b] = d <=> lock[b] = d
  /\ keeper' = d <=> keeper = d
  /\ keeper = d => override' = override
  /\ \A b \in Budgets : lock[b] = d => ReservedSum(rows'[b]) <= ReservedSum(rows[b])

CallerStep(c) ==
  \/ \E k \in Keys, m \in Models : Begin(c, k, m)
  \/ Reserve(c) \/ Reconcile(c) \/ Release(c) \/ Abandon(c)
  \/ \E paid \in Usages : Settle(c, paid)

OtherStep ==
  \/ \E b \in Budgets : CreateBudget(b)
  \/ \E u \in Actors : RequestOverride(u) \/ ApproveOverride(u)
  \/ LapseOverride

LEMMA NextSteps == Next <=> OtherStep \/ \E c \in Callers : CallerStep(c)
BY DEF Next, OtherStep, CallerStep

USE BudgetAssumption, ModelAssumption, CallerAssumption, GrantAssumption, BoundAssumption
-----------------------------------------------------------------------------
LEMMA InitType == Init => TypeOK
BY DEF Init, TypeOK, NoRow, Rows, Statuses, Ended, Places, NoCall, Request, Requests

LEMMA RequestType ==
  ASSUME NEW k \in Keys, NEW m \in Models, NEW s \in SUBSET Budgets, NEW t \in SUBSET Budgets,
         NEW n \in Nat, NEW o \in BOOLEAN, NEW r \in BOOLEAN
  PROVE  Request(k, m, s, t, n, o, r) \in Requests
BY DEF Request, Requests

LEMMA UnlockedType ==
  ASSUME TypeOK, NEW c \in Callers, Unlocked(c)
  PROVE  lock' \in [Budgets -> Callers \cup {Nobody}] /\ keeper' \in Callers \cup {Nobody}
BY DEF TypeOK, Unlocked

LEMMA ReturnType ==
  ASSUME TypeOK, NEW c \in Callers, Return(c)
  PROVE  pc' \in [Callers -> Places] /\ call' \in [Callers -> Requests]
BY DEF TypeOK, Return, Goto, Places, NoCall, Request, Requests

LEMMA CallType ==
  ASSUME TypeOK, NEW c \in Callers, NEW r \in Requests, call' = [call EXCEPT ![c] = r]
  PROVE  call' \in [Callers -> Requests]
BY DEF TypeOK

LEMMA GotoType ==
  ASSUME TypeOK, NEW c \in Callers, NEW p \in Places, Goto(c, p)
  PROVE  pc' \in [Callers -> Places]
BY DEF TypeOK, Goto

LEMMA FieldTypes ==
  ASSUME TypeOK, NEW c \in Callers
  PROVE  /\ call[c].key \in Keys \cup {Nobody} /\ call[c].model \in Models \cup {NoModel}
         /\ call[c].scope \in SUBSET Budgets /\ call[c].todo \in SUBSET Budgets
         /\ call[c].seen \in Nat /\ call[c].over \in BOOLEAN /\ call[c].routed \in BOOLEAN
BY DEF TypeOK, Requests

LEMMA LookedType ==
  ASSUME TypeOK, NEW c \in Callers, NEW k \in Keys, NEW m \in Models, NEW r \in BOOLEAN,
         Looked(c, k, m, r)
  PROVE  /\ pc' \in [Callers -> Places] /\ call' \in [Callers -> Requests]
         /\ lock' \in [Budgets -> Callers \cup {Nobody}] /\ keeper' \in Callers \cup {Nobody}
<1> DEFINE scope == Applies[m] \cap active
           todo  == IF scope \ Held(c) # {} THEN scope \ Held(c) ELSE scope
<1>1. scope \in SUBSET Budgets /\ todo \in SUBSET Budgets
  BY DEF TypeOK
<1>2. Request(k, m, scope, todo, 0, FALSE, r) \in Requests
  BY <1>1, RequestType
<1>3. call' = [call EXCEPT ![c] = Request(k, m, scope, todo, 0, FALSE, r)]
  BY DEF Looked
<1>4. call' \in [Callers -> Requests]
  BY <1>2, <1>3, CallType
<1>5. pc' \in [Callers -> Places]
  BY DEF Looked, Goto, TypeOK, Places
<1>6. QED
  BY <1>4, <1>5, UnlockedType DEF Looked, TypeOK

LEMMA CloseType ==
  ASSUME TypeOK, NEW k \in Keys, NEW st \in Ended, NEW paid \in Nat, Close(k, st, paid)
  PROVE  rows' \in [Budgets -> Table]
BY DEF Close, TypeOK, Rows, Statuses, Table

LEMMA FinishType ==
  ASSUME TypeOK, Phases, NEW c \in Callers, NEW st \in Ended, NEW paid \in Nat,
         Finish(c, st, paid)
  PROVE  TypeOK'
<1>1. call[c].key \in Keys
  BY DEF Phases, PhaseOf, Finish
<1>2. QED
  BY <1>1, CloseType, ReturnType DEF Finish, TypeOK, Table

LEMMA CallerType ==
  ASSUME TypeOK, Phases, Counted, NEW c \in Callers, CallerStep(c)
  PROVE  TypeOK'
<1>1. CASE \E k \in Keys, m \in Models : Begin(c, k, m)
  <2>1. PICK k \in Keys, m \in Models : Begin(c, k, m)
    BY <1>1
  <2>2. segments' \in [Keys -> Nat] /\ \A q \in Keys : segments'[q] <= MaxSegments[q]
    BY <2>1 DEF Begin, TypeOK
  <2>3. QED
    BY <2>1, <2>2, LookedType DEF Begin, TypeOK
<1>2. CASE Lock(c)
  <2>1. call[c].key \in Keys /\ call[c].model \in Models /\ call[c].todo # {}
    BY <1>2 DEF Phases, PhaseOf, Lock
  <2> DEFINE b == First(call[c].todo)
             due == call[c].todo \ {b}
             todo == IF due # {} THEN due ELSE call[c].scope
  <2>2. b \in Budgets
    BY <2>1, FieldTypes, FirstLeast
  <2>3. call[c].scope \in SUBSET Budgets /\ todo \in SUBSET Budgets /\ call[c].routed \in BOOLEAN
    BY FieldTypes
  <2>4. Request(call[c].key, call[c].model, call[c].scope, todo, 0, FALSE, call[c].routed) \in Requests
    BY <2>1, <2>3, RequestType
  <2>5. call' = [call EXCEPT ![c] = Request(call[c].key, call[c].model, call[c].scope, todo, 0, FALSE, call[c].routed)]
    BY <1>2 DEF Lock
  <2>6. call' \in [Callers -> Requests]
    BY <2>4, <2>5, CallType
  <2>7. lock' \in [Budgets -> Callers \cup {Nobody}]
    BY <1>2, <2>2 DEF Lock, TypeOK
  <2>8. pc' \in [Callers -> Places]
    BY <1>2 DEF Lock, Goto, TypeOK, Places
  <2>9. QED
    BY <1>2, <2>6, <2>7, <2>8 DEF Lock, TypeOK
<1>3. CASE SumSettled(c)
  <2>1. /\ call[c].key \in Keys /\ call[c].model \in Models /\ call[c].todo # {}
    BY <1>3 DEF Phases, PhaseOf, SumSettled, Counting
  <2>2. First(call[c].todo) \in Budgets
    BY <2>1, FieldTypes, FirstLeast
  <2>3. SettledSum(rows[First(call[c].todo)]) \in Nat
    BY <2>2, SumTypes DEF TypeOK, Table
  <2> DEFINE r == Request(call[c].key, call[c].model, call[c].scope, call[c].todo,
                          SettledSum(rows[First(call[c].todo)]), call[c].over, call[c].routed)
  <2>4. r \in Requests
    BY <2>1, <2>3, FieldTypes, RequestType
  <2>5. call' = [call EXCEPT ![c] = r]
    BY <1>3 DEF SumSettled
  <2>6. call' \in [Callers -> Requests]
    BY <2>4, <2>5, CallType
  <2>7. QED
    BY <1>3, <2>6, GotoType DEF SumSettled, TypeOK, Goto, Places
<1>4. CASE SumReserved(c)
  <2>1. /\ call[c].key \in Keys /\ call[c].model \in Models
    BY <1>4 DEF Phases, PhaseOf, SumReserved, Counting
  <2> DEFINE over == call[c].over \/ Exceeds(c, First(call[c].todo))
             due  == call[c].todo \ {First(call[c].todo)}
  <2>2. (call[c].over \/ Exceeds(c, First(call[c].todo))) \in BOOLEAN
    OBVIOUS
  <2>3. over \in BOOLEAN /\ due \in SUBSET Budgets
    BY <2>2, FieldTypes
  <2> HIDE DEF over, due
  <2>4. Request(call[c].key, call[c].model, call[c].scope, due, 0, over, call[c].routed) \in Requests
    BY <2>1, <2>3, FieldTypes, RequestType
  <2>5. call' = [call EXCEPT ![c] = Request(call[c].key, call[c].model, call[c].scope, due, 0, over, call[c].routed)]
    BY <1>4 DEF SumReserved, over, due
  <2>6. call' \in [Callers -> Requests]
    BY <2>4, <2>5, CallType
  <2>7. pc' \in [Callers -> Places]
    BY <1>4 DEF SumReserved, Goto, TypeOK, Places
  <2>8. QED
    BY <1>4, <2>6, <2>7 DEF SumReserved, TypeOK
<1>5. CASE ReadOverride(c)
  BY <1>5 DEF ReadOverride, Goto, TypeOK, Places
<1>6. CASE Reroute(c)
  <2>1. call[c].key \in Keys /\ call[c].model \in Models
    BY <1>6 DEF Phases, PhaseOf, Reroute, Counting
  <2>2. Cheaper[call[c].model] \in Models
    BY <1>6, <2>1 DEF Reroute
  <2>3. Looked(c, call[c].key, Cheaper[call[c].model], TRUE)
    BY <1>6 DEF Reroute
  <2>4. QED
    BY <1>6, <2>1, <2>2, <2>3, LookedType DEF Reroute, TypeOK
<1>7. CASE Block(c)
  BY <1>7, ReturnType, UnlockedType DEF Block, TypeOK
<1>8. CASE Admit(c)
  <2>1. call[c].key \in Keys /\ call[c].model \in Models /\ Cost[call[c].model] \in Nat
    BY <1>8 DEF Phases, PhaseOf, Admit, Counting
  <2> DEFINE cost == Cost[call[c].model]
  <2> HIDE DEF cost
  <2>2. Reserved(call[c].scope, call[c].key, cost) /\ cost \in Nat
    BY <1>8, <2>1 DEF Admit, cost
  <2>3. rows' \in [Budgets -> [Keys -> Rows]]
    BY <2>2 DEF Reserved, TypeOK, Rows, Statuses
  <2>5. override' \in [status : {"NONE", "PENDING", "APPROVED", "CONSUMED", "LAPSED"},
                       by : Actors \cup {Nobody}, left : 0 .. Granted, uses : 0 .. Uses]
    <3>1. CASE call[c].over
      <4>1. keeper = c /\ Usable(call[c].model)
        BY <1>8, <3>1 DEF Admit, Counted, CountedOf
      <4>2. override' = Consumed(cost)
        BY <1>8, <3>1 DEF Admit, cost
      <4>3. override.left - cost \in 0 .. Granted /\ override.uses - 1 \in 0 .. Uses
        BY <2>2, <4>1 DEF Usable, TypeOK, cost
      <4>4. QED
        BY <4>2, <4>3 DEF Consumed, TypeOK
    <3>2. CASE ~call[c].over
      BY <1>8, <3>2 DEF Admit, TypeOK
    <3>3. QED
      BY <3>1, <3>2
  <2>6. pc' \in [Callers -> Places]
    BY <1>8 DEF Admit, Goto, TypeOK, Places
  <2>7. QED
    BY <1>8, <2>3, <2>5, <2>6, UnlockedType DEF Admit, TypeOK
<1>9. CASE Collide(c)
  BY <1>9, UnlockedType DEF Collide, Goto, TypeOK, Places
<1>10. CASE DeadlockAbort(c) \/ Abandon(c)
  BY <1>10, ReturnType, UnlockedType DEF DeadlockAbort, Abandon, TypeOK
<1>11. CASE Reconcile(c) \/ Release(c) \/ \E paid \in Usages : Settle(c, paid)
  BY <1>11, FinishType DEF Reconcile, Release, Settle, Ended
<1>12. QED
  BY <1>1, <1>2, <1>3, <1>4, <1>5, <1>6, <1>7, <1>8, <1>9, <1>10, <1>11 DEF CallerStep, Reserve

LEMMA OtherType == ASSUME TypeOK, OtherStep PROVE TypeOK'
<1>1. CASE \E b \in Budgets : CreateBudget(b)
  BY <1>1 DEF CreateBudget, TypeOK
<1>2. CASE \E u \in Actors : RequestOverride(u)
  BY <1>2 DEF RequestOverride, TypeOK
<1>3. CASE (\E u \in Actors : ApproveOverride(u)) \/ LapseOverride
  <2>1. \E st \in {"APPROVED", "LAPSED"} : override' = WithStatus(st)
    BY <1>3 DEF ApproveOverride, LapseOverride
  <2>2. override' \in [status : {"NONE", "PENDING", "APPROVED", "CONSUMED", "LAPSED"},
                       by : Actors \cup {Nobody}, left : 0 .. Granted, uses : 0 .. Uses]
    BY <2>1 DEF WithStatus, TypeOK
  <2>3. UNCHANGED <<active, rows, lock, keeper, pc, call, segments>>
    BY <1>3 DEF ApproveOverride, LapseOverride
  <2>4. QED
    BY <2>2, <2>3 DEF TypeOK
<1>4. QED
  BY <1>1, <1>2, <1>3 DEF OtherStep
-----------------------------------------------------------------------------
LEMMA UnlockedOthers ==
  ASSUME TypeOK, NEW c \in Callers, NEW d \in Callers, c # d, Unlocked(c)
  PROVE  /\ \A b \in Budgets : lock'[b] = d <=> lock[b] = d
         /\ keeper' = d <=> keeper = d
BY DEF Unlocked, TypeOK

LEMMA UnlockedSelf ==
  ASSUME TypeOK, NEW c \in Callers, Unlocked(c)
  PROVE  (\A b \in Budgets : lock'[b] # c) /\ keeper' # c
BY DEF Unlocked, TypeOK

LEMMA RowSums ==
  ASSUME TypeOK, NEW b \in Budgets
  PROVE  ReservedSum(rows[b]) \in Nat
BY SumTypes DEF TypeOK, Table

LEMMA InitSums ==
  ASSUME Init, NEW b \in Budgets
  PROVE  ReservedSum(rows[b]) = 0
<1>1. PICK r \in Table : r = rows[b]
  BY DEF Init, NoRow, Table, Rows, Statuses
<1>2. ReservedKeys(r) = {}
  BY <1>1 DEF Init, NoRow, ReservedKeys
<1>3. QED
  BY <1>1, <1>2, ReservedTotal, TotalEmpty

LEMMA NextRowSums ==
  ASSUME TypeOK', NEW b \in Budgets
  PROVE  ReservedSum(rows'[b]) \in Nat
BY SumTypes DEF TypeOK, Table

(* What the end of a key's reservations does to the reserved sums.            *)
LEMMA CloseSums ==
  ASSUME TypeOK, NEW k \in Keys, NEW st \in Ended, NEW paid \in Nat, Close(k, st, paid),
         NEW b \in Budgets
  PROVE  IF rows[b][k].status = "RESERVED"
         THEN ReservedSum(rows'[b]) = ReservedSum(rows[b]) - rows[b][k].estimate
         ELSE rows'[b] = rows[b]
<1>1. PICK r \in Table : r = rows[b]
  BY DEF TypeOK, Table
<1>2. PICK q \in Table : q = rows'[b]
  BY CloseType
<1>3. \A x \in Keys : q[x] = IF x = k /\ r[x].status = "RESERVED"
                          THEN [status |-> st, estimate |-> r[x].estimate, settled |-> paid]
                          ELSE r[x]
  BY <1>1, <1>2 DEF Close
<1>4. CASE r[k].status = "RESERVED"
  <2>1. q[k] = [status |-> st, estimate |-> r[k].estimate, settled |-> paid]
    BY <1>3, <1>4
  <2>2. q[k].status # "RESERVED"
    BY <2>1 DEF Ended
  <2>3. \A x \in Keys : x # k => q[x] = r[x]
    BY <1>3
  <2>4. QED
    BY <1>1, <1>2, <1>4, <2>2, <2>3, SumFalls
<1>5. CASE r[k].status # "RESERVED"
  <2>1. \A x \in Keys : q[x] = r[x]
    BY <1>3, <1>5
  <2>2. q = r
    BY <2>1 DEF Table
  <2>3. QED
    BY <1>1, <1>2, <1>5, <2>2
<1>6. QED
  BY <1>1, <1>4, <1>5

LEMMA CloseShrinks ==
  ASSUME TypeOK, NEW k \in Keys, NEW st \in Ended, NEW paid \in Nat, Close(k, st, paid)
  PROVE  \A b \in Budgets : ReservedSum(rows'[b]) <= ReservedSum(rows[b])
<1>1. TAKE b \in Budgets
<1>2. rows[b][k].estimate \in Nat /\ ReservedSum(rows[b]) \in Nat
  BY RowSums DEF TypeOK, Rows
<1>3. QED
  BY <1>2, CloseSums

(* An admission adds its estimate to the reserved sum of its budgets alone.   *)
LEMMA AdmitSums ==
  ASSUME TypeOK, NEW k \in Keys, NEW cost \in Nat, NEW scope \in SUBSET Budgets,
         Existing(k) \cap scope = {}, Reserved(scope, k, cost), NEW b \in Budgets
  PROVE  IF b \in scope THEN ReservedSum(rows'[b]) = ReservedSum(rows[b]) + cost
                        ELSE rows'[b] = rows[b]
<1>1. PICK r \in Table : r = rows[b]
  BY DEF TypeOK, Table
<1>2. rows' \in [Budgets -> Table]
  BY DEF Reserved, TypeOK, Rows, Statuses, Table
<1>3. PICK q \in Table : q = rows'[b]
  BY <1>2
<1>4. \A x \in Keys : q[x] = IF b \in scope /\ x = k
                          THEN [status |-> "RESERVED", estimate |-> cost, settled |-> 0]
                          ELSE r[x]
  BY <1>1, <1>3 DEF Reserved
<1>5. CASE b \in scope
  <2>1. r[k].status = "NONE"
    BY <1>1, <1>5 DEF Existing
  <2>2. q[k].status = "RESERVED" /\ q[k].estimate = cost /\ \A x \in Keys : x # k => q[x] = r[x]
    BY <1>4, <1>5
  <2>3. QED
    BY <1>1, <1>3, <1>5, <2>1, <2>2, SumGrows
<1>6. CASE b \notin scope
  <2>1. \A x \in Keys : q[x] = r[x]
    BY <1>4, <1>6
  <2>2. q = r
    BY <2>1 DEF Table
  <2>3. QED
    BY <1>1, <1>3, <1>6, <2>2
<1>7. QED
  BY <1>5, <1>6

LEMMA Admission ==
  ASSUME TypeOK, Phases, NEW c \in Callers, Admit(c), NEW b \in Budgets
  PROVE  IF b \in call[c].scope
         THEN ReservedSum(rows'[b]) = ReservedSum(rows[b]) + Cost[call[c].model]
         ELSE rows'[b] = rows[b]
<1>1. PICK k \in Keys : k = call[c].key
  BY DEF Phases, PhaseOf, Admit
<1>2. PICK cost \in Nat : cost = Cost[call[c].model]
  BY DEF Phases, PhaseOf, Admit
<1>3. PICK scope \in SUBSET Budgets : scope = call[c].scope
  BY FieldTypes
<1>4. Existing(k) \cap scope = {} /\ Reserved(scope, k, cost)
  BY <1>1, <1>2, <1>3 DEF Admit
<1>5. QED
  BY <1>2, <1>3, <1>4, AdmitSums

(* A step of one caller does not disturb another. *)
LEMMA CallersApart ==
  ASSUME TypeOK, Phases, Counted, NEW c \in Callers, CallerStep(c), NEW d \in Callers, c # d
  PROVE  Undisturbed(d)
<1>0. \A b \in Budgets : ReservedSum(rows[b]) \in Int
  BY RowSums
<1>b. rows' = rows => \A b \in Budgets : ReservedSum(rows'[b]) <= ReservedSum(rows[b])
  BY <1>0
<1> USE <1>0 DEF Undisturbed
<1>a. ASSUME NEW k, NEW m, NEW r, Looked(c, k, m, r)
      PROVE  /\ pc'[d] = pc[d] /\ call'[d] = call[d]
             /\ \A b \in Budgets : lock'[b] = d <=> lock[b] = d
             /\ keeper' = d <=> keeper = d
  <2>1. pc'[d] = pc[d]
    BY <1>a DEF Looked, Goto, TypeOK
  <2>2. call'[d] = call[d]
    BY <1>a DEF Looked, TypeOK
  <2>3. Unlocked(c) \/ UNCHANGED <<lock, keeper>>
    BY <1>a DEF Looked
  <2>4. QED
    BY <2>1, <2>2, <2>3, UnlockedOthers
<1>1. CASE \E k \in Keys, m \in Models : Begin(c, k, m)
  <2>1. PICK k \in Keys, m \in Models : Begin(c, k, m)
    BY <1>1
  <2>2. Looked(c, k, m, FALSE) /\ rows' = rows /\ override' = override
    BY <2>1 DEF Begin
  <2>3. QED
    BY <2>2, <1>a, <1>b
<1>2. CASE Lock(c)
  <2> DEFINE b == First(call[c].todo)
  <2> HIDE DEF b
  <2>1. lock[b] = Nobody /\ lock' = [lock EXCEPT ![b] = c]
    BY <1>2 DEF Lock, b
  <2>2. \A e \in Budgets : lock'[e] = d <=> lock[e] = d
    BY <2>1 DEF TypeOK
  <2>3. pc'[d] = pc[d] /\ call'[d] = call[d]
    BY <1>2 DEF Lock, Goto, TypeOK
  <2>4. rows' = rows /\ override' = override /\ keeper' = keeper
    BY <1>2 DEF Lock
  <2>5. QED
    BY <1>b, <2>2, <2>3, <2>4
<1>3. CASE SumSettled(c)
  BY <1>3 DEF SumSettled, Goto, TypeOK
<1>4. CASE SumReserved(c)
  BY <1>4 DEF SumReserved, Goto, TypeOK
<1>5. CASE ReadOverride(c)
  BY <1>5 DEF ReadOverride, Goto, TypeOK
<1>6. CASE Reroute(c)
  <2>1. /\ Looked(c, call[c].key, Cheaper[call[c].model], TRUE)
        /\ rows' = rows /\ override' = override
    BY <1>6 DEF Reroute
  <2>2. QED
    BY <2>1, <1>a, <1>b
<1>7. CASE Block(c) \/ DeadlockAbort(c) \/ Abandon(c)
  BY <1>7, UnlockedOthers DEF Block, DeadlockAbort, Abandon, Return, Goto, TypeOK
<1>8. CASE Admit(c)
  <2>1. pc'[d] = pc[d] /\ call'[d] = call[d]
    BY <1>8 DEF Admit, Goto, TypeOK
  <2>2. /\ \A b \in Budgets : lock'[b] = d <=> lock[b] = d
        /\ keeper' = d <=> keeper = d
    BY <1>8, UnlockedOthers DEF Admit
  <2>3. keeper = d => override' = override
    BY <1>8 DEF Admit, Counted, CountedOf
  <2>4. \A b \in Budgets : lock[b] = d => b \notin call[c].scope
    BY <1>8 DEF Admit, Phases, PhaseOf, Counting, Held
  <2>5. \A b \in Budgets : b \notin call[c].scope => rows'[b] = rows[b]
    BY <1>8, Admission
  <2>6. QED
    BY <2>1, <2>2, <2>3, <2>4, <2>5
<1>9. CASE Collide(c)
  <2>1. pc'[d] = pc[d]
    BY <1>9 DEF Collide, Goto, TypeOK
  <2>2. Unlocked(c) /\ UNCHANGED <<rows, override, call>>
    BY <1>9 DEF Collide
  <2>3. /\ \A b \in Budgets : lock'[b] = d <=> lock[b] = d
        /\ keeper' = d <=> keeper = d
    BY <2>2, UnlockedOthers
  <2>4. QED
    BY <1>b, <2>1, <2>2, <2>3
<1>10. ASSUME NEW st \in Ended, NEW paid \in Nat, Finish(c, st, paid)
       PROVE  Undisturbed(d)
  <2>1. call[c].key \in Keys
    BY <1>10 DEF Finish, Phases, PhaseOf
  <2>2. \A b \in Budgets : ReservedSum(rows'[b]) <= ReservedSum(rows[b])
    BY <1>10, <2>1, CloseShrinks DEF Finish
  <2>3. QED
    BY <1>10, <2>2 DEF Finish, Return, Goto, TypeOK
<1>11. CASE Reconcile(c) \/ Release(c) \/ \E paid \in Usages : Settle(c, paid)
  BY <1>10, <1>11 DEF Reconcile, Release, Settle, Ended
<1>12. QED
  BY <1>1, <1>2, <1>3, <1>4, <1>5, <1>6, <1>7, <1>8, <1>9, <1>11 DEF CallerStep, Reserve

LEMMA OthersApart ==
  ASSUME TypeOK, OtherStep, NEW d \in Callers, PhaseOf(d)
  PROVE  Undisturbed(d)
<1>1. \A b \in Budgets : ReservedSum(rows[b]) \in Int
  BY RowSums
<1>2. QED
  BY <1>1 DEF OtherStep, CreateBudget, RequestOverride, ApproveOverride, LapseOverride,
              Undisturbed, PhaseOf

(* An undisturbed caller keeps its phase and what it counted. *)
LEMMA PhaseKept ==
  ASSUME TypeOK, TypeOK', NEW d \in Callers, PhaseOf(d), CountedOf(d), Undisturbed(d)
  PROVE  PhaseOf(d)' /\ CountedOf(d)'
<1>1. {b \in Budgets : lock'[b] = d} = {b \in Budgets : lock[b] = d}
  BY DEF Undisturbed
<1>2. PhaseOf(d)'
  BY <1>1 DEF PhaseOf, Undisturbed, Held, Counting
<1>3. pc[d] \in {"settled", "reserved", "admit"} => \A b \in call[d].scope : lock[b] = d
  BY DEF PhaseOf, Counting, Held
<1>4. /\ \A b \in Budgets : Limit[b] \in Nat /\ ReservedSum(rows[b]) \in Int
      /\ pc[d] # "idle" => Cost[call[d].model] \in Nat
      /\ call[d].scope \subseteq Budgets
  BY FieldTypes, RowSums DEF PhaseOf
<1>5. ASSUME pc[d] \in {"settled", "reserved", "admit"}, ~call[d].over,
             NEW b \in call[d].scope \ call[d].todo
      PROVE  ReservedSum(rows'[b]) + Cost[call[d].model] < Limit[b]
  <2>1. /\ b \in Budgets /\ ReservedSum(rows'[b]) <= ReservedSum(rows[b])
        /\ ReservedSum(rows[b]) + Cost[call[d].model] < Limit[b]
    BY <1>3, <1>4, <1>5 DEF CountedOf, Undisturbed
  <2>2. ReservedSum(rows'[b]) \in Int
    BY <2>1, NextRowSums
  <2>3. QED
    BY <1>4, <1>5, <2>1, <2>2
<1>7. CountedOf(d)'
  BY <1>5 DEF CountedOf, Undisturbed, Usable
<1>8. QED
  BY <1>2, <1>7
-----------------------------------------------------------------------------
(* A caller that begins to look, or looks again for a cheaper model.          *)
LEMMA LookedPhase ==
  ASSUME TypeOK, TypeOK', NEW c \in Callers, NEW k \in Keys, NEW m \in Models,
         NEW r \in BOOLEAN, Looked(c, k, m, r), override' = override,
         keeper = c => override.status # "NONE"
  PROVE  PhaseOf(c)' /\ CountedOf(c)'
<1> DEFINE scope == Applies[m] \cap active
           due   == scope \ Held(c)
           todo  == IF due # {} THEN due ELSE scope
<1>1. /\ call'[c] = Request(k, m, scope, todo, 0, FALSE, r)
      /\ pc'[c] = IF Existing(k) # {} \/ scope = {} THEN "calling"
                  ELSE IF due # {} THEN "lock" ELSE "settled"
  BY DEF Looked, Goto, TypeOK
<1>2. /\ call'[c].key = k /\ call'[c].model = m /\ call'[c].scope = scope
      /\ call'[c].todo = todo
  BY <1>1 DEF Request
<1>3. CASE Existing(k) # {} \/ scope = {}
  <2>1. pc'[c] = "calling" /\ Unlocked(c)
    BY <1>1, <1>3 DEF Looked
  <2>2. Held(c)' = {} /\ keeper' # c
    BY <2>1, UnlockedSelf DEF Held
  <2>3. QED
    BY <1>2, <2>1, <2>2 DEF PhaseOf, CountedOf, Counting
<1>4. CASE ~(Existing(k) # {} \/ scope = {})
  <2>1. UNCHANGED <<lock, keeper>>
    BY <1>4 DEF Looked
  <2>2. Held(c)' = Held(c)
    BY <2>1 DEF Held
  <2>3. scope \subseteq Budgets /\ todo \subseteq scope /\ todo # {}
    BY <1>4 DEF TypeOK
  <2>4. due # {} => todo = due /\ scope \ todo \subseteq Held(c)
    OBVIOUS
  <2>5. due = {} => todo = scope /\ scope \subseteq Held(c)
    OBVIOUS
  <2> HIDE DEF scope, due, todo
  <2>6. PhaseOf(c)'
    BY <1>1, <1>2, <1>4, <2>1, <2>2, <2>3, <2>4, <2>5 DEF PhaseOf, Counting
  <2>7. CountedOf(c)'
    BY <1>1, <1>2, <1>4, <2>5 DEF CountedOf
  <2>8. QED
    BY <2>6, <2>7
<1>5. QED
  BY <1>3, <1>4

(* A caller whose transaction ends has no locks left. *)
LEMMA EndedPhase ==
  ASSUME TypeOK, NEW c \in Callers, PhaseOf(c),
         \/ Return(c) /\ Unlocked(c)
         \/ Return(c) /\ pc[c] = "calling" /\ UNCHANGED <<lock, keeper>>
         \/ Goto(c, "calling") /\ pc[c] # "idle" /\ call' = call /\ Unlocked(c)
  PROVE  PhaseOf(c)' /\ CountedOf(c)'
<1>1. Unlocked(c) => Held(c)' = {} /\ keeper' # c
  BY UnlockedSelf DEF Held
<1>2. pc[c] = "calling" /\ UNCHANGED <<lock, keeper>> => Held(c)' = {} /\ keeper' # c
  BY DEF PhaseOf, Held
<1>3. Held(c)' = {} /\ keeper' # c
  BY <1>1, <1>2
<1>6. pc'[c] = "idle" \/ (pc'[c] = "calling" /\ call'[c] = call[c] /\ pc[c] # "idle")
  <2>1. Return(c) => pc'[c] = "idle"
    BY DEF Return, Goto, TypeOK
  <2>2. Goto(c, "calling") => pc'[c] = "calling"
    BY DEF Goto, TypeOK
  <2>3. QED
    BY <2>1, <2>2
<1>7. QED
  BY <1>3, <1>6 DEF PhaseOf, CountedOf, Counting

LEMMA CallerPhase ==
  ASSUME TypeOK, TypeOK', NEW c \in Callers, PhaseOf(c), CountedOf(c), CallerStep(c)
  PROVE  PhaseOf(c)' /\ CountedOf(c)'
<1>1. CASE \E k \in Keys, m \in Models : Begin(c, k, m)
  BY <1>1, LookedPhase DEF Begin, PhaseOf
<1>2. CASE Lock(c)
  <2> DEFINE b == First(call[c].todo)
             due == call[c].todo \ {b}
             todo == IF due # {} THEN due ELSE call[c].scope
  <2>1. /\ call[c].todo # {} /\ call[c].todo \subseteq call[c].scope
        /\ call[c].scope \ call[c].todo \subseteq Held(c) /\ call[c].scope \subseteq Budgets
        /\ call[c].key \in Keys /\ call[c].model \in Models
    BY <1>2, FieldTypes DEF Lock, PhaseOf
  <2>2. b \in call[c].todo
    BY <2>1, FirstLeast
  <2>3. call'[c] = Request(call[c].key, call[c].model, call[c].scope, todo, 0, FALSE, call[c].routed)
    BY <1>2 DEF Lock, TypeOK
  <2>4. /\ call'[c].key = call[c].key /\ call'[c].model = call[c].model
        /\ call'[c].scope = call[c].scope /\ call'[c].todo = todo
    BY <2>3 DEF Request
  <2>5. pc'[c] = IF due # {} THEN "lock" ELSE "settled"
    BY <1>2 DEF Lock, Goto, TypeOK
  <2>6. lock' = [lock EXCEPT ![b] = c] /\ UNCHANGED <<keeper, override>>
    BY <1>2 DEF Lock
  <2> HIDE DEF b
  <2>7. Held(c)' = Held(c) \cup {b}
    BY <2>1, <2>2, <2>6 DEF Held, TypeOK
  <2>8. todo \subseteq call[c].scope /\ todo # {}
    BY <2>1, <2>2
  <2>9. due # {} => call[c].scope \ todo \subseteq Held(c) \cup {b}
    BY <2>1, <2>2
  <2>10. due = {} => todo = call[c].scope /\ call[c].scope \subseteq Held(c) \cup {b}
    BY <2>1, <2>2
  <2> HIDE DEF due, todo
  <2>11. PhaseOf(c)'
    BY <1>2, <2>1, <2>4, <2>5, <2>6, <2>7, <2>8, <2>9, <2>10 DEF PhaseOf, Counting
  <2>12. CountedOf(c)'
    BY <2>4, <2>5, <2>10 DEF CountedOf
  <2>13. QED
    BY <2>11, <2>12
<1>3. CASE SumSettled(c)
  <2>1. pc[c] = "settled" /\ pc'[c] = "reserved"
    BY <1>3 DEF SumSettled, Goto, TypeOK
  <2>2. /\ call'[c].key = call[c].key /\ call'[c].model = call[c].model
        /\ call'[c].scope = call[c].scope /\ call'[c].todo = call[c].todo
        /\ call'[c].over = call[c].over
    BY <1>3 DEF SumSettled, Request, TypeOK
  <2>3. UNCHANGED <<lock, keeper, override, rows>>
    BY <1>3 DEF SumSettled
  <2>4. Held(c)' = Held(c)
    BY <2>3 DEF Held
  <2>5. QED
    BY <2>1, <2>2, <2>3, <2>4 DEF PhaseOf, CountedOf, Counting
<1>4. CASE SumReserved(c)
  <2> DEFINE b == First(call[c].todo)
             due == call[c].todo \ {b}
             over == call[c].over \/ Exceeds(c, b)
  <2>1. /\ pc[c] = "reserved" /\ call[c].scope \subseteq Budgets /\ call[c].scope \subseteq Held(c)
        /\ call[c].todo # {} /\ call[c].todo \subseteq call[c].scope
        /\ call[c].key \in Keys /\ call[c].model \in Models /\ call[c].seen \in Nat
    BY <1>4, FieldTypes DEF SumReserved, PhaseOf, Counting
  <2>2. b \in call[c].todo
    BY <2>1, FirstLeast
  <2>3. call'[c] = Request(call[c].key, call[c].model, call[c].scope, due, 0, over, call[c].routed)
    BY <1>4 DEF SumReserved, TypeOK
  <2>4. /\ call'[c].key = call[c].key /\ call'[c].model = call[c].model
        /\ call'[c].scope = call[c].scope /\ call'[c].todo = due /\ call'[c].over = over
    BY <2>3 DEF Request
  <2>5. pc'[c] = IF due # {} THEN "settled" ELSE IF ~over THEN "admit"
                 ELSE IF c \in Carries THEN "override" ELSE "route"
    BY <1>4 DEF SumReserved, Goto, TypeOK
  <2>6. UNCHANGED <<lock, keeper, override, rows>>
    BY <1>4 DEF SumReserved
  <2>7. Held(c)' = Held(c)
    BY <2>6 DEF Held
  <2>8. ReservedSum(rows[b]) \in Int /\ Cost[call[c].model] \in Nat /\ Limit[b] \in Nat
    <3>1. b \in Budgets
      BY <2>1, <2>2
    <3> HIDE DEF b, due, over
    <3>2. ReservedSum(rows[b]) \in Int
      BY <3>1, RowSums
    <3>3. Cost[call[c].model] \in Nat /\ Limit[b] \in Nat
      BY <2>1, <3>1, BudgetAssumption, ModelAssumption
    <3>4. QED
      BY <3>2, <3>3
  <2>9. ~Exceeds(c, b) => ReservedSum(rows[b]) + Cost[call[c].model] < Limit[b]
    BY <2>1, <2>8 DEF Exceeds
  <2>10. ~over => \A e \in call[c].scope \ due : ReservedSum(rows[e]) + Cost[call[c].model] < Limit[e]
    BY <2>1, <2>2, <2>9 DEF CountedOf
  <2>11. due \subseteq call[c].scope /\ (pc'[c] = "settled" => due # {}) /\ (pc'[c] = "admit" => due = {} /\ ~over)
         /\ (pc'[c] = "override" => due = {} /\ over)
         /\ pc'[c] \in {"settled", "admit", "override", "route"}
    BY <2>1, <2>5
  <2> HIDE DEF b, due, over
  <2>12. PhaseOf(c)'
    BY <2>1, <2>4, <2>6, <2>7, <2>11 DEF PhaseOf, Counting
  <2>13. CountedOf(c)'
    BY <2>4, <2>6, <2>10, <2>11 DEF CountedOf
  <2>14. QED
    BY <2>12, <2>13
<1>5. CASE ReadOverride(c)
  <2>1. /\ pc[c] = "override" /\ pc'[c] = IF Usable(call[c].model) THEN "admit" ELSE "route"
        /\ UNCHANGED <<lock, override, call>>
        /\ keeper' = IF override.status = "NONE" THEN keeper ELSE c
    BY <1>5 DEF ReadOverride, Goto, TypeOK
  <2>2. Held(c)' = Held(c)
    BY <2>1 DEF Held
  <2>3. PhaseOf(c)'
    BY <2>1, <2>2 DEF PhaseOf, Counting
  <2>4. Usable(call[c].model) => keeper' = c /\ Usable(call[c].model)'
    BY <2>1 DEF Usable
  <2>5. call[c].over /\ call[c].todo = {}
    BY <2>1 DEF CountedOf
  <2>6. QED
    BY <2>1, <2>3, <2>4, <2>5 DEF CountedOf
<1>6. CASE Reroute(c)
  <2>1. call[c].key \in Keys /\ Cheaper[call[c].model] \in Models
    BY <1>6 DEF Reroute, PhaseOf
  <2>2. Looked(c, call[c].key, Cheaper[call[c].model], TRUE) /\ override' = override
    BY <1>6 DEF Reroute
  <2>3. QED
    BY <2>1, <2>2, LookedPhase DEF PhaseOf
<1>7. CASE Block(c) \/ DeadlockAbort(c) \/ Abandon(c)
  BY <1>7, EndedPhase DEF Block, DeadlockAbort, Abandon
<1>8. CASE Admit(c) \/ Collide(c)
  BY <1>8, EndedPhase DEF Admit, Collide
<1>9. CASE Reconcile(c) \/ Release(c) \/ \E paid \in Usages : Settle(c, paid)
  BY <1>9, EndedPhase DEF Reconcile, Release, Settle, Finish
<1>10. QED
  BY <1>1, <1>2, <1>3, <1>4, <1>5, <1>6, <1>7, <1>8, <1>9 DEF CallerStep, Reserve
-----------------------------------------------------------------------------
(* The inductive invariant: the types, and for every caller its locks and     *)
(* what it has counted.                                                       *)
IInv == TypeOK /\ Phases /\ Counted

LEMMA InitInv == Init => IInv
<1>1. Init => Phases /\ Counted
  BY DEF Init, Phases, PhaseOf, Counted, CountedOf, Held, Counting
<1>2. QED
  BY <1>1, InitType DEF IInv

LEMMA NextInv == IInv /\ [Next]_vars => IInv'
<1>1. ASSUME IInv, OtherStep PROVE IInv'
  <2>1. TypeOK'
    BY <1>1, OtherType DEF IInv
  <2>2. \A d \in Callers : PhaseOf(d)' /\ CountedOf(d)'
    BY <1>1, <2>1, OthersApart, PhaseKept DEF IInv, Phases, Counted
  <2>3. QED
    BY <2>1, <2>2 DEF IInv, Phases, Counted
<1>2. ASSUME IInv, NEW c \in Callers, CallerStep(c) PROVE IInv'
  <2>1. TypeOK'
    BY <1>2, CallerType DEF IInv
  <2>2. PhaseOf(c)' /\ CountedOf(c)'
    BY <1>2, <2>1, CallerPhase DEF IInv, Phases, Counted
  <2>3. \A d \in Callers : c # d => PhaseOf(d)' /\ CountedOf(d)'
    BY <1>2, <2>1, CallersApart, PhaseKept DEF IInv, Phases, Counted
  <2>4. QED
    BY <2>1, <2>2, <2>3 DEF IInv, Phases, Counted
<1>3. ASSUME IInv, UNCHANGED vars PROVE IInv'
  BY <1>3 DEF IInv, TypeOK, Phases, PhaseOf, Counted, CountedOf, Held, Usable, vars
<1>4. QED
  BY <1>1, <1>2, <1>3, NextSteps

LEMMA InvHolds == Spec => []IInv
BY InitInv, NextInv, PTL DEF Spec

(* Every column and caller has a value the schema and reserve can produce,    *)
(* for any number of budgets and callers.                                     *)
THEOREM TypeCorrect == Spec => []TypeOK
<1>1. IInv => TypeOK
  BY DEF IInv
<1>2. QED
  BY <1>1, InvHolds, PTL
-----------------------------------------------------------------------------
(* What a step does to the rows and sums: a reservation is added, the rows of *)
(* a key end, or nothing of the kind.                                         *)
LEMMA SpendSteps ==
  ASSUME IInv, Next
  PROVE  \/ UNCHANGED rows /\ (Overridden' = Overridden)
         \/ \E c \in Callers : Admit(c)
         \/ /\ UNCHANGED override
            /\ \E k \in Keys, st \in Ended, paid \in Nat :
                 (st # "SETTLED" => paid = 0) /\ Close(k, st, paid)
<1>1. CASE OtherStep
  BY <1>1 DEF OtherStep, CreateBudget, RequestOverride, ApproveOverride, LapseOverride,
              WithStatus, Overridden, IInv, TypeOK
<1>2. ASSUME NEW c \in Callers, CallerStep(c), ~Admit(c)
      PROVE  \/ UNCHANGED <<rows, override>>
             \/ /\ UNCHANGED override
                /\ \E k \in Keys, st \in Ended, paid \in Nat :
                 (st # "SETTLED" => paid = 0) /\ Close(k, st, paid)
  <2>1. CASE Reconcile(c) \/ Release(c) \/ \E paid \in Usages : Settle(c, paid)
    <3>1. PICK st \in Ended, paid \in Nat : (st # "SETTLED" => paid = 0) /\ Finish(c, st, paid)
      BY <2>1 DEF Reconcile, Release, Settle, Ended
    <3>2. call[c].key \in Keys
      BY <3>1 DEF IInv, Phases, PhaseOf, Finish
    <3>3. QED
      BY <3>1, <3>2 DEF Finish
  <2>2. CASE Reserve(c) \/ Abandon(c) \/ \E k \in Keys, m \in Models : Begin(c, k, m)
    BY <1>2, <2>2 DEF Reserve, Abandon, Begin, Lock, SumSettled, SumReserved, ReadOverride,
                      Reroute, Block, Collide, DeadlockAbort
  <2>3. QED
    BY <1>2, <2>1, <2>2 DEF CallerStep
<1>3. UNCHANGED override => Overridden' = Overridden
  BY DEF Overridden
<1>4. QED
  BY <1>1, <1>2, <1>3, NextSteps

LEMMA AdmitWithin ==
  ASSUME IInv, OutstandingWithinLimit, NEW c \in Callers, Admit(c)
  PROVE  OutstandingWithinLimit'
<1> DEFINE cost == Cost[call[c].model]
<1>1. cost \in Nat /\ call[c].scope \subseteq Budgets /\ call[c].todo = {}
  BY FieldTypes DEF IInv, Admit, Phases, PhaseOf, Counted, CountedOf
<1>2. /\ override.left \in 0 .. Granted
      /\ \A b \in Budgets : Limit[b] \in Nat /\ ReservedSum(rows[b]) \in Int
  BY RowSums DEF IInv, TypeOK
<1>3. \A b \in Budgets : ReservedSum(rows'[b]) = IF b \in call[c].scope
                                              THEN ReservedSum(rows[b]) + cost
                                              ELSE ReservedSum(rows[b])
  BY Admission DEF IInv
<1>4. Overridden \in Nat
  BY <1>2 DEF Overridden
<1>5. ~call[c].over => /\ Overridden' = Overridden
                       /\ \A b \in call[c].scope : ReservedSum(rows[b]) + cost < Limit[b]
  BY <1>1 DEF Admit, Overridden, IInv, Counted, CountedOf
<1>6. call[c].over => Overridden' = Overridden + cost
  <2>1. SUFFICES ASSUME call[c].over PROVE Overridden' = Overridden + cost
    OBVIOUS
  <2>2. override' = Consumed(cost) /\ Usable(call[c].model)
    BY <2>1 DEF Admit, IInv, Counted, CountedOf
  <2>3. override.status = "APPROVED" /\ override'.status \in {"APPROVED", "CONSUMED"}
        /\ override'.left = override.left - cost
    BY <2>2 DEF Usable, Consumed
  <2> HIDE DEF cost
  <2>4. QED
    BY <1>1, <1>2, <2>3 DEF Overridden
<1> HIDE DEF cost
<1>7. ASSUME NEW b \in Budgets PROVE ReservedSum(rows'[b]) < Limit[b] + Overridden'
  <2>1. ReservedSum(rows[b]) < Limit[b] + Overridden
    BY DEF OutstandingWithinLimit
  <2>2. CASE call[c].over
    BY <1>1, <1>2, <1>3, <1>4, <1>6, <2>1, <2>2
  <2>3. CASE ~call[c].over
    BY <1>1, <1>2, <1>3, <1>4, <1>5, <2>1, <2>3
  <2>4. QED
    BY <2>2, <2>3
<1>8. QED
  BY <1>7 DEF OutstandingWithinLimit

(* However many requests are admitted at the same time, what is reserved on a *)
(* budget stays below its hard limit, but for what an override let through.   *)
THEOREM LimitHolds == Spec => []OutstandingWithinLimit
<1>1. Init => OutstandingWithinLimit
  BY InitSums DEF Init, OutstandingWithinLimit, Overridden
<1>2. IInv /\ OutstandingWithinLimit /\ [Next]_vars => OutstandingWithinLimit'
  <2>1. ASSUME IInv, OutstandingWithinLimit, Next PROVE OutstandingWithinLimit'
    <3>1. ASSUME UNCHANGED override, NEW k \in Keys, NEW st \in Ended, NEW paid \in Nat,
                 Close(k, st, paid)
          PROVE  OutstandingWithinLimit'
      <4>1. \A b \in Budgets : ReservedSum(rows'[b]) <= ReservedSum(rows[b])
        BY <2>1, <3>1, CloseShrinks DEF IInv
      <4>2. \A b \in Budgets : ReservedSum(rows'[b]) \in Nat
        BY <2>1, <3>1, CloseType, SumTypes DEF IInv
      <4>3. Overridden' = Overridden /\ Overridden \in Int
        BY <2>1, <3>1 DEF Overridden, IInv, TypeOK
      <4>4. ASSUME NEW b \in Budgets PROVE ReservedSum(rows'[b]) < Limit[b] + Overridden'
        <5>1. ReservedSum(rows[b]) < Limit[b] + Overridden
          BY <2>1 DEF OutstandingWithinLimit
        <5>2. ReservedSum(rows'[b]) \in Int /\ ReservedSum(rows[b]) \in Int /\ Limit[b] \in Nat
          BY <2>1, <4>2, RowSums DEF IInv
        <5>3. ReservedSum(rows'[b]) <= ReservedSum(rows[b])
          BY <4>1
        <5>4. QED
          BY <4>3, <5>1, <5>2, <5>3
      <4>5. QED
        BY <4>4 DEF OutstandingWithinLimit
    <3>2. ASSUME UNCHANGED rows, Overridden' = Overridden
          PROVE  OutstandingWithinLimit'
      BY <2>1, <3>2 DEF OutstandingWithinLimit
    <3>3. QED
      BY <2>1, <3>1, <3>2, SpendSteps, AdmitWithin
  <2>2. ASSUME OutstandingWithinLimit, UNCHANGED vars PROVE OutstandingWithinLimit'
    BY <2>2 DEF OutstandingWithinLimit, Overridden, vars
  <2>3. QED
    BY <2>1, <2>2
<1>3. QED
  BY <1>1, <1>2, InvHolds, PTL DEF Spec

(* A reservation that has ended never changes again, whoever else holds the   *)
(* key.                                                                       *)
THEOREM ReservationsEndOnce == Spec => EndsOnce
<1> DEFINE Kept == \A b \in Budgets, k \in Keys :
                     rows[b][k].status \in Ended => rows'[b][k] = rows[b][k]
<1>1. IInv /\ Next => Kept
  <2>1. ASSUME IInv, NEW c \in Callers, Admit(c) PROVE Kept
    <3>1. TAKE b \in Budgets, k \in Keys
    <3>2. rows'[b][k] = IF b \in call[c].scope /\ k = call[c].key
                        THEN [status |-> "RESERVED", estimate |-> Cost[call[c].model], settled |-> 0]
                        ELSE rows[b][k]
      BY <2>1 DEF Admit, Reserved
    <3>3. b \in call[c].scope /\ k = call[c].key => rows[b][k].status = "NONE"
      BY <2>1 DEF Admit, Existing
    <3>4. QED
      BY <3>2, <3>3 DEF Ended
  <2>2. ASSUME NEW k \in Keys, NEW st \in Ended, NEW paid \in Nat, Close(k, st, paid) PROVE Kept
    BY <2>2 DEF Close, Ended
  <2>3. QED
    BY <2>1, <2>2, SpendSteps
<1>2. UNCHANGED vars => Kept
  BY DEF vars
<1>3. IInv /\ [Next]_vars => [Kept]_vars
  BY <1>1
<1> HIDE DEF Kept
<1>4. IInv /\ [Next]_vars => [Kept]_vars
  BY <1>3
<1>5. Spec => [][Kept]_vars
  BY <1>4, InvHolds, PTL DEF Spec
<1>6. QED
  BY <1>5 DEF EndsOnce, Kept
-----------------------------------------------------------------------------
(* A request that has not been rerouted still has to lock only budgets that   *)
(* come after those it holds.                                                 *)
OrderOf(c) ==
  pc[c] = "lock" /\ ~call[c].routed => \A b \in Held(c), d \in call[c].todo : b < d

Ordered == \A c \in Callers : OrderOf(c)

LEMMA CallerOrder ==
  ASSUME IInv, IInv', NEW c \in Callers, OrderOf(c), CallerStep(c)
  PROVE  OrderOf(c)'
<1>1. CASE \E k \in Keys, m \in Models : Begin(c, k, m)
  <2>1. PICK k \in Keys, m \in Models : Begin(c, k, m)
    BY <1>1
  <2>2. Held(c) = {}
    BY <2>1 DEF Begin, IInv, Phases, PhaseOf
  <2>3. pc'[c] = "lock" => UNCHANGED lock
    BY <2>1 DEF Begin, Looked, Goto, IInv, TypeOK
  <2>4. QED
    BY <2>2, <2>3 DEF OrderOf, Held
<1>2. CASE Lock(c)
  <2> DEFINE b == First(call[c].todo)
  <2>1. call[c].todo # {} /\ call[c].todo \subseteq Budgets
    BY <1>2, FieldTypes DEF IInv, Phases, PhaseOf, Lock
  <2>2. b \in call[c].todo /\ \A d \in call[c].todo : b <= d
    BY <2>1, FirstLeast
  <2>3. pc'[c] = "lock" => call[c].todo \ {b} # {}
    BY <1>2 DEF Lock, Goto, IInv, TypeOK
  <2>4. /\ call'[c].routed = call[c].routed
        /\ call[c].todo \ {b} # {} => call'[c].todo = call[c].todo \ {b}
    BY <1>2 DEF Lock, Request, IInv, TypeOK
  <2>5. lock' = [lock EXCEPT ![b] = c] /\ pc[c] = "lock"
    BY <1>2 DEF Lock
  <2> HIDE DEF b
  <2>6. Held(c)' = Held(c) \cup {b}
    BY <2>1, <2>2, <2>5 DEF Held, IInv, TypeOK
  <2>7. \A d \in call[c].todo \ {b} : b < d
    <3>1. TAKE d \in call[c].todo \ {b}
    <3>2. b \in Nat /\ d \in Nat /\ b <= d /\ b # d
      BY <2>1, <2>2
    <3>3. QED
      BY <3>2
  <2>8. QED
    BY <2>3, <2>4, <2>5, <2>6, <2>7 DEF OrderOf
<1>3. CASE Reroute(c)
  <2>1. call'[c].routed = TRUE
    BY <1>3 DEF Reroute, Looked, Request, IInv, TypeOK
  <2>2. QED
    BY <2>1 DEF OrderOf
<1>4. ASSUME ~Lock(c), ~Reroute(c), ~\E k \in Keys, m \in Models : Begin(c, k, m)
      PROVE  pc'[c] # "lock"
  BY <1>4 DEF CallerStep, Reserve, SumSettled, SumReserved, ReadOverride, Block, Admit, Collide,
              DeadlockAbort, Reconcile, Release, Settle, Finish, Abandon, Return, Goto, IInv, TypeOK
<1>5. QED
  BY <1>1, <1>2, <1>3, <1>4 DEF OrderOf

LEMMA OrderKept ==
  ASSUME NEW d \in Callers, OrderOf(d), Undisturbed(d)
  PROVE  OrderOf(d)'
<1>1. Held(d)' = Held(d)
  BY DEF Undisturbed, Held
<1>2. QED
  BY <1>1 DEF OrderOf, Undisturbed

(* The budgets of a request that was not rerouted are locked in stable order. *)
THEOREM LocksOrdered == Spec => []LocksInOrder
<1>1. Init => Ordered
  BY DEF Init, Ordered, OrderOf
<1>2. IInv /\ IInv' /\ Ordered /\ [Next]_vars => Ordered'
  <2>1. ASSUME IInv, IInv', Ordered, OtherStep PROVE Ordered'
    BY <2>1, OthersApart, OrderKept DEF IInv, Phases, Ordered
  <2>2. ASSUME IInv, IInv', Ordered, NEW c \in Callers, CallerStep(c) PROVE Ordered'
    BY <2>2, CallerOrder, CallersApart, OrderKept DEF IInv, Ordered
  <2>3. ASSUME Ordered, UNCHANGED vars PROVE Ordered'
    BY <2>3 DEF Ordered, OrderOf, Held, vars
  <2>4. QED
    BY <2>1, <2>2, <2>3, NextSteps
<1>3. IInv /\ Ordered => LocksInOrder
  <2>1. SUFFICES ASSUME IInv, Ordered, NEW c \in Callers, pc[c] = "lock", ~call[c].routed
                 PROVE  \A b \in Held(c) : b < First(call[c].todo)
    BY DEF LocksInOrder
  <2>2. call[c].todo # {} /\ call[c].todo \subseteq Budgets
    BY <2>1, FieldTypes DEF IInv, Phases, PhaseOf
  <2>3. First(call[c].todo) \in call[c].todo
    BY <2>2, FirstLeast
  <2>4. QED
    BY <2>1, <2>3 DEF Ordered, OrderOf
<1>4. QED
  BY <1>1, <1>2, <1>3, InvHolds, PTL DEF Spec
-----------------------------------------------------------------------------
(* Under a key with one call so far there is at most one caller, and until it *)
(* is admitted there is no reservation under the key.                         *)
Under(c, k) == pc[c] # "idle" /\ call[c].key = k

FirstOf(k) ==
  /\ segments[k] = 0 => (\A c \in Callers : ~Under(c, k)) /\ Existing(k) = {}
  /\ segments[k] = 1 =>
       /\ \A c, d \in Callers : Under(c, k) /\ Under(d, k) => c = d
       /\ \A c \in Callers : Under(c, k) =>
            IF pc[c] = "calling" THEN call[c].scope \subseteq Open(k) ELSE Existing(k) = {}

Firsts == \A k \in Keys : FirstOf(k)

(* A step of a caller leaves the keys of the others as they are. *)
LEMMA RowsOfKey ==
  ASSUME IInv, NEW c \in Callers, CallerStep(c), NEW k \in Keys, ~Under(c, k)
  PROVE  \A b \in Budgets : rows'[b][k] = rows[b][k]
<1>1. ASSUME NEW st, NEW paid, Finish(c, st, paid)
      PROVE  \A b \in Budgets : rows'[b][k] = rows[b][k]
  BY <1>1 DEF Finish, Close, Under
<1>2. CASE Admit(c)
  BY <1>2 DEF Admit, Reserved, Under
<1>3. CASE Reconcile(c) \/ Release(c) \/ \E paid \in Usages : Settle(c, paid)
  BY <1>1, <1>3 DEF Reconcile, Release, Settle
<1>4. QED
  BY <1>2, <1>3 DEF CallerStep, Reserve, Begin, Lock, SumSettled, SumReserved, ReadOverride,
                    Reroute, Block, Collide, DeadlockAbort, Abandon

LEMMA CallerFirst ==
  ASSUME IInv, IInv', NEW c \in Callers, CallerStep(c), NEW k \in Keys, FirstOf(k)
  PROVE  FirstOf(k)'
<1>1. \A d \in Callers : c # d => /\ pc'[d] = pc[d] /\ call'[d] = call[d]
  BY CallersApart DEF IInv, Undisturbed
<1>2. segments[k] \in Nat
  BY DEF IInv, TypeOK
<1>3. ASSUME NEW m, NEW r, Looked(c, k, m, r), UNCHANGED rows, Existing(k) = {}
      PROVE  /\ pc'[c] # "idle" /\ call'[c].key = k /\ Existing(k)' = {}
             /\ IF pc'[c] = "calling" THEN call'[c].scope \subseteq Open(k)' ELSE Existing(k)' = {}
  <2>1. Existing(k)' = {}
    BY <1>3 DEF Existing
  <2>2. /\ call'[c].key = k /\ call'[c].scope = Applies[m] \cap active
        /\ pc'[c] # "idle" /\ (pc'[c] = "calling" => Applies[m] \cap active = {})
    BY <1>3 DEF Looked, Goto, Request, IInv, TypeOK
  <2>3. QED
    BY <2>1, <2>2
<1>4. CASE \E m \in Models : Begin(c, k, m)
  <2>1. PICK m \in Models : Begin(c, k, m)
    BY <1>4
  <2>2. segments'[k] = segments[k] + 1 /\ Looked(c, k, m, FALSE) /\ UNCHANGED rows
    BY <2>1 DEF Begin, IInv, TypeOK
  <2>3. CASE segments[k] = 0
    <3>1. (\A d \in Callers : ~Under(d, k)) /\ Existing(k) = {} /\ segments'[k] = 1
      BY <2>2, <2>3 DEF FirstOf
    <3>2. \A d \in Callers : c # d => ~Under(d, k)'
      BY <1>1, <3>1 DEF Under
    <3>3. /\ pc'[c] # "idle" /\ call'[c].key = k
          /\ IF pc'[c] = "calling" THEN call'[c].scope \subseteq Open(k)' ELSE Existing(k)' = {}
      BY <1>3, <2>2, <3>1
    <3>4. \A d \in Callers : Under(d, k)' => d = c
      BY <3>2
    <3>5. QED
      BY <3>1, <3>3, <3>4 DEF FirstOf
  <2>4. CASE segments[k] # 0
    BY <1>2, <2>2, <2>4 DEF FirstOf
  <2>5. QED
    BY <2>3, <2>4
<1>5. ASSUME ~\E m \in Models : Begin(c, k, m) PROVE segments'[k] = segments[k]
  <2>1. CASE \E q \in Keys, m \in Models : Begin(c, q, m)
    <3>1. PICK q \in Keys, m \in Models : Begin(c, q, m)
      BY <2>1
    <3>2. q # k /\ segments' = [segments EXCEPT ![q] = @ + 1]
      BY <1>5, <3>1 DEF Begin
    <3>3. QED
      BY <3>2 DEF IInv, TypeOK
  <2>2. CASE ~\E q \in Keys, m \in Models : Begin(c, q, m)
    BY <2>2 DEF CallerStep, Reserve, Lock, SumSettled, SumReserved, ReadOverride, Reroute, Block,
                Admit, Collide, DeadlockAbort, Reconcile, Release, Settle, Finish, Abandon
  <2>3. QED
    BY <2>1, <2>2
<1>6. ASSUME ~Under(c, k), ~\E m \in Models : Begin(c, k, m)
      PROVE  FirstOf(k)'
  <2>1. \A b \in Budgets : rows'[b][k] = rows[b][k]
    BY <1>6, RowsOfKey
  <2>2. Existing(k)' = Existing(k) /\ Open(k)' = Open(k)
    BY <2>1 DEF Existing, Open
  <2>3. ~Under(c, k)'
    <3>1. CASE \E q \in Keys, m \in Models : Begin(c, q, m)
      <4>1. PICK q \in Keys, m \in Models : Begin(c, q, m)
        BY <3>1
      <4>2. q # k /\ Looked(c, q, m, FALSE)
        BY <1>6, <4>1 DEF Begin
      <4>3. call'[c].key = q
        BY <4>2 DEF Looked, Request, IInv, TypeOK
      <4>4. QED
        BY <4>2, <4>3 DEF Under
    <3>2. CASE ~\E q \in Keys, m \in Models : Begin(c, q, m)
      <4>1. pc[c] # "idle"
        BY <3>2 DEF CallerStep, Reserve, Lock, SumSettled, SumReserved, ReadOverride, Reroute,
                    Block, Admit, Collide, DeadlockAbort, WaitsFor, Cycle, Reconcile, Release,
                    Settle, Finish, Abandon
      <4>2. pc'[c] = "idle" \/ call'[c].key = call[c].key
        BY <3>2 DEF CallerStep, Reserve, Lock, SumSettled, SumReserved, ReadOverride, Reroute,
                    Looked, Block, Admit, Collide, DeadlockAbort, Reconcile, Release, Settle,
                    Finish, Abandon, Return, Goto, Request, IInv, TypeOK
      <4>3. QED
        BY <1>6, <4>1, <4>2 DEF Under
    <3>3. QED
      BY <3>1, <3>2
  <2>4. \A d \in Callers : Under(d, k)' => Under(d, k) /\ pc'[d] = pc[d] /\ call'[d] = call[d]
    BY <1>1, <2>3 DEF Under
  <2>5. segments'[k] = segments[k]
    BY <1>5, <1>6
  <2>6. \A d \in Callers : Under(d, k) => Under(d, k)'
    BY <1>1, <1>6 DEF Under
  <2>7. QED
    BY <2>2, <2>4, <2>5 DEF FirstOf
<1>7. ASSUME Under(c, k), segments[k] = 1
      PROVE  FirstOf(k)'
  <2>1. ~\E q \in Keys, m \in Models : Begin(c, q, m)
    BY <1>7 DEF Under, Begin
  <2>2. segments'[k] = 1
    BY <1>5, <1>7, <2>1
  <2>3. \A d \in Callers : Under(d, k)' => c = d
    BY <1>1, <1>7 DEF Under, FirstOf
  <2>4. call[c].key = k /\ (pc[c] # "calling" => Existing(k) = {})
    BY <1>7 DEF FirstOf, Under
  <2>5. SUFFICES ASSUME Under(c, k)'
                 PROVE  IF pc'[c] = "calling" THEN call'[c].scope \subseteq Open(k)'
                                              ELSE Existing(k)' = {}
    BY <2>2, <2>3 DEF FirstOf
  <2>6. CASE Admit(c)
    <3>1. \A b \in call[c].scope : rows'[b][k].status = "RESERVED"
      BY <2>4, <2>6, FieldTypes DEF Admit, Reserved, IInv
    <3>2. pc'[c] = "calling" /\ call'[c].scope \subseteq Budgets /\ call' = call
      BY <2>6, FieldTypes DEF Admit, Goto, IInv, TypeOK
    <3>3. QED
      BY <3>1, <3>2 DEF Open
  <2>7. CASE Reroute(c)
    BY <1>3, <2>4, <2>7 DEF Reroute
  <2>8. CASE Lock(c) \/ SumSettled(c) \/ SumReserved(c) \/ ReadOverride(c)
    <3>1. UNCHANGED rows /\ pc[c] # "calling" /\ pc'[c] # "calling"
      BY <2>8 DEF Lock, SumSettled, SumReserved, ReadOverride, Goto, IInv, TypeOK
    <3>2. QED
      BY <2>4, <3>1 DEF Existing
  <2>9. CASE Collide(c)
    BY <2>4, <2>9 DEF Collide
  <2>10. CASE Block(c) \/ DeadlockAbort(c) \/ Abandon(c) \/ Reconcile(c) \/ Release(c)
              \/ \E paid \in Usages : Settle(c, paid)
    BY <2>5, <2>10 DEF Block, DeadlockAbort, Abandon, Reconcile, Release, Settle, Finish, Return,
                       Goto, Under, IInv, TypeOK
  <2>11. QED
    BY <2>1, <2>6, <2>7, <2>8, <2>9, <2>10 DEF CallerStep, Reserve
<1>8. ASSUME Under(c, k), segments[k] # 1, ~\E m \in Models : Begin(c, k, m)
      PROVE  FirstOf(k)'
  BY <1>5, <1>8 DEF FirstOf
<1>9. QED
  BY <1>4, <1>6, <1>7, <1>8

(* The first call made under a key holds its reservations until it ends.      *)
THEOREM FirstReserved == Spec => []FirstCallReserved
<1>1. Init => Firsts
  BY DEF Init, Firsts, FirstOf, Under, Existing, NoRow
<1>2. IInv /\ IInv' /\ Firsts /\ [Next]_vars => Firsts'
  <2>1. ASSUME Firsts, OtherStep \/ UNCHANGED vars PROVE Firsts'
    <3>1. UNCHANGED <<rows, pc, call, segments>>
      BY <2>1 DEF OtherStep, CreateBudget, RequestOverride, ApproveOverride, LapseOverride, vars
    <3>2. QED
      BY <2>1, <3>1 DEF Firsts, FirstOf, Under, Existing, Open
  <2>2. ASSUME IInv, IInv', Firsts, NEW c \in Callers, CallerStep(c) PROVE Firsts'
    BY <2>2, CallerFirst DEF Firsts
  <2>3. QED
    BY <2>1, <2>2, NextSteps
<1>3. IInv /\ Firsts => FirstCallReserved
  BY DEF IInv, Phases, PhaseOf, Firsts, FirstOf, Under, FirstCallReserved
<1>4. QED
  BY <1>1, <1>2, <1>3, InvHolds, PTL DEF Spec
-----------------------------------------------------------------------------
(* What BudgetLedger sees: the reservations that have not ended, their sum on *)
(* each budget, and what the override still covers.                           *)
Reservations == {p \in Budgets \X Keys : rows[p[1]][p[2]].status = "RESERVED"}
Outstanding  == [b \in Budgets |-> ReservedSum(rows[b])]
Allowance    == IF override.status = "APPROVED" THEN override.left ELSE 0

LEMMA ReservationsOf ==
  \A b \in Budgets, k \in Keys : <<b, k>> \in Reservations <=> rows[b][k].status = "RESERVED"
BY DEF Reservations

(* What a caller admits has room on each budget, or an override it may use.   *)
LEMMA AdmitLedger ==
  ASSUME IInv, NEW c \in Callers, Admit(c)
  PROVE  Ledger!Next
<1>1. PICK k \in Keys : k = call[c].key
  BY DEF IInv, Phases, PhaseOf, Admit
<1>2. PICK m \in Models : m = call[c].model
  BY DEF IInv, Phases, PhaseOf, Admit
<1>3. PICK cost \in Nat : cost = Cost[m]
  OBVIOUS
<1>4. PICK B \in SUBSET Budgets : B = call[c].scope
  BY FieldTypes DEF IInv
<1>5. /\ pc[c] = "admit" /\ Existing(k) \cap B = {}
      /\ Reserved(B, k, cost)
      /\ override' = IF call[c].over THEN Consumed(cost) ELSE override
  BY <1>1, <1>2, <1>3, <1>4 DEF Admit
<1>6. \A b \in Budgets, q \in Keys :
        rows'[b][q] = IF b \in B /\ q = k
                      THEN [status |-> "RESERVED", estimate |-> cost, settled |-> 0]
                      ELSE rows[b][q]
  BY <1>5 DEF Reserved
<1>7. Reservations \cap (B \X {k}) = {}
  <2>1. \A b \in B : rows[b][k].status = "NONE"
    BY <1>5 DEF Existing
  <2>. QED
    BY <2>1 DEF Reservations
<1>8. Reservations' = Reservations \cup (B \X {k})
  <2>1. ASSUME NEW p \in Budgets \X Keys
        PROVE  p \in Reservations' <=> p \in Reservations \/ p \in B \X {k}
    <3>1. PICK b \in Budgets, q \in Keys : p = <<b, q>>
      <4>1. p[1] \in Budgets /\ p[2] \in Keys
        OBVIOUS
      <4>2. p = <<p[1], p[2]>>
        OBVIOUS
      <4>. QED
        BY <4>1, <4>2
    <3>2. <<b, q>> \in Reservations' <=> rows'[b][q].status = "RESERVED"
      BY DEF Reservations
    <3>3. <<b, q>> \in Reservations <=> rows[b][q].status = "RESERVED"
      BY ReservationsOf
    <3>4. rows'[b][q] = IF b \in B /\ q = k
                        THEN [status |-> "RESERVED", estimate |-> cost, settled |-> 0]
                        ELSE rows[b][q]
      BY <1>6
    <3>5. <<b, q>> \in B \X {k} <=> b \in B /\ q = k
      OBVIOUS
    <3>. QED
      BY <3>1, <3>2, <3>3, <3>4, <3>5
  <2>2. /\ Reservations \subseteq Budgets \X Keys /\ Reservations' \subseteq Budgets \X Keys
        /\ B \X {k} \subseteq Budgets \X Keys
    BY DEF Reservations
  <2>. QED
    BY <2>1, <2>2
<1>9. Outstanding' = [b \in Budgets |-> IF b \in B THEN Outstanding[b] + cost ELSE Outstanding[b]]
  <2>1. \A b \in Budgets : IF b \in B THEN ReservedSum(rows'[b]) = ReservedSum(rows[b]) + cost
                                          ELSE rows'[b] = rows[b]
    BY <1>5, AdmitSums DEF IInv
  <2>2. QED
    BY <2>1 DEF Outstanding
<1>10. Ledger!Add(k, B, cost)
  BY <1>7, <1>8, <1>9 DEF Ledger!Add, Reservations, Outstanding
<1>11. cost \in {Cost[n] : n \in Models}
  BY <1>3
<1>12. CASE ~call[c].over
  <2>1. \A b \in B : ReservedSum(rows[b]) + cost < Limit[b]
    BY <1>2, <1>3, <1>4, <1>5, <1>12 DEF IInv, Counted, CountedOf
  <2>2. Allowance' = Allowance
    BY <1>5, <1>12 DEF Allowance
  <2>3. Ledger!Admit(k, B, cost)
    BY <1>10, <2>1, <2>2 DEF Ledger!Admit, Allowance
  <2>. QED
    BY <1>11, <2>3 DEF Ledger!Next
<1>13. CASE call[c].over
  <2>1. Usable(m)
    BY <1>2, <1>5, <1>13 DEF IInv, Counted, CountedOf
  <2>2. override.status = "APPROVED" /\ cost <= override.left /\ override.left \in Nat
    BY <1>3, <2>1 DEF Usable, IInv, TypeOK
  <2>3. /\ override'.status \in {"APPROVED", "CONSUMED"}
        /\ override'.left = override.left - cost
    BY <1>5, <1>13, <2>2 DEF Consumed
  <2>4. cost <= Allowance /\ Allowance' \in 0 .. Allowance - cost
    BY <2>2, <2>3 DEF Allowance
  <2>5. Ledger!AdmitOver(k, B, cost)
    BY <1>10, <2>4 DEF Ledger!AdmitOver, Allowance
  <2>. QED
    BY <1>11, <2>5 DEF Ledger!Next
<1>. QED
  BY <1>12, <1>13

(* Every reservation of a key ends together, or it had none.                  *)
LEMMA CloseLedger ==
  ASSUME IInv, UNCHANGED override, NEW k \in Keys, NEW st \in Ended, NEW paid \in Nat,
         Close(k, st, paid)
  PROVE  [Ledger!Next]_Ledger!vars
<1>1. \A b \in Budgets, q \in Keys :
        rows'[b][q].status = "RESERVED" <=> rows[b][q].status = "RESERVED" /\ q # k
  BY DEF Close, Ended
<1>2. Reservations' = Reservations \ (Budgets \X {k})
  <2>1. ASSUME NEW p \in Reservations' PROVE p \in Reservations \ (Budgets \X {k})
    BY <1>1, <2>1 DEF Reservations
  <2>2. ASSUME NEW p \in Reservations \ (Budgets \X {k}) PROVE p \in Reservations'
    BY <1>1, <2>2 DEF Reservations
  <2>. QED
    BY <2>1, <2>2
<1>3. \A b \in Budgets : rows[b][k].status # "RESERVED" => rows'[b] = rows[b]
  BY CloseSums DEF IInv
<1>4. \A b \in Budgets : ReservedSum(rows'[b]) <= ReservedSum(rows[b])
  BY CloseShrinks DEF IInv
<1>5. Allowance' = Allowance
  BY DEF Allowance
<1>6. CASE Reservations \cap (Budgets \X {k}) = {}
  <2>1. Reservations' = Reservations
    BY <1>2, <1>6
  <2>2. ASSUME NEW b \in Budgets PROVE rows[b][k].status # "RESERVED"
    <3>1. <<b, k>> \in Budgets \X {k}
      OBVIOUS
    <3>2. <<b, k>> \notin Reservations
      BY <1>6, <3>1
    <3>. QED
      BY <3>2, ReservationsOf
  <2>3. Outstanding' = Outstanding
    BY <1>3, <2>2 DEF Outstanding
  <2>. QED
    BY <1>5, <2>1, <2>3 DEF Ledger!vars, Reservations, Outstanding, Allowance
<1>7. CASE Reservations \cap (Budgets \X {k}) # {}
  <2>1. \A b \in Budgets : /\ Outstanding'[b] <= Outstanding[b]
                           /\ <<b, k>> \notin Reservations => Outstanding'[b] = Outstanding[b]
    BY <1>3, <1>4, ReservationsOf DEF Outstanding
  <2>2. Ledger!End(k)
    BY <1>2, <1>5, <1>7, <2>1 DEF Ledger!End, Reservations, Outstanding, Allowance
  <2>. QED
    BY <2>2 DEF Ledger!Next
<1>. QED
  BY <1>6, <1>7

(* A reserve that takes many statements, with the other requests between      *)
(* them, implements one that counts and commits at once, for any number of    *)
(* budgets, callers and models: nothing is admitted on a count that went      *)
(* stale, and no override is used twice.                                      *)
THEOREM LedgerImplemented == Spec => RefinesLedger
<1>1. Init => Ledger!Init
  <2>. SUFFICES ASSUME Init PROVE Ledger!Init
    OBVIOUS
  <2>1. Reservations = {}
    BY DEF Init, Reservations, NoRow
  <2>2. Outstanding = [b \in Budgets |-> 0] /\ Allowance = 0
    BY InitSums DEF Init, Outstanding, Allowance
  <2>. QED
    BY <2>1, <2>2 DEF Ledger!Init, Reservations, Outstanding, Allowance
<1>2. IInv /\ IInv' /\ [Next]_vars => [Ledger!Next]_Ledger!vars
  <2>1. ASSUME IInv', UNCHANGED rows
        PROVE  Ledger!Next
    <3>1. Allowance' \in Nat
      BY <2>1 DEF Allowance, IInv, TypeOK
    <3>2. Reservations' = Reservations /\ Outstanding' = Outstanding
      BY <2>1 DEF Reservations, Outstanding
    <3>3. Ledger!Allow
      BY <3>1, <3>2 DEF Ledger!Allow, Reservations, Outstanding, Allowance
    <3>. QED
      BY <3>3 DEF Ledger!Next
  <2>2. CASE UNCHANGED vars
    BY <2>1, <2>2 DEF vars
  <2>3. ASSUME IInv, IInv', Next
        PROVE  [Ledger!Next]_Ledger!vars
    BY <2>1, <2>3, SpendSteps, AdmitLedger, CloseLedger
  <2>. QED
    BY <2>2, <2>1, <2>3 DEF vars
<1>3. QED
  BY <1>1, <1>2, InvHolds, PTL DEF Spec, RefinesLedger, Ledger!Spec
=============================================================================
