--------------------------- MODULE Credits_proofs ---------------------------
(***************************************************************************)
(* First what holds of the wallet for any callers, keys and amounts; no    *)
(* proof there uses anything of CreditReleases, its assumption included.   *)
(*                                                                         *)
(* Then yearly plans, for any number of payments, releases, cron runs,     *)
(* retries, refunds, failures and lost lock connections.  Schedule says of *)
(* a row what it counts and when it is due, Caller says of a process what  *)
(* was granted and what time it was at each of its steps.  Neither needs   *)
(* the named locks.  Locked adds what they give.                           *)
(***************************************************************************)
EXTENDS CreditReleases, FiniteSetTheorems, TLAPS

-----------------------------------------------------------------------------
(* Sums.  SumFunctionOnSet adds the values of a function in an order that    *)
(* CHOOSE picks; it is the value of a recursion over the subsets of the set  *)
(* (Recursion), which has a solution (RecursionSolved), and only one on each *)
(* subset (RecursionUnique).  So any element can be the one added last.      *)

\* A set of numbers has a least one.
LEMMA LeastNumber ==
  ASSUME NEW B \in SUBSET Nat, B # {}
  PROVE  \E n \in B : \A m \in B : n <= m
<1>1. PICK n \in B : \A m \in B : <<m, n>> \notin OpToRel(<, Nat)
  BY NatLessThanWellFounded, WFMin
<1>2. \A m \in B : ~(m < n)
  BY <1>1 DEF OpToRel
<1> QED BY <1>2

\* What holds of the empty set and survives one more element holds of a finite set.
LEMMA GrowsToAll ==
  ASSUME NEW S, IsFiniteSet(S), NEW G \in SUBSET SUBSET S, {} \in G,
         \A T \in G : \A x \in S \ T : T \cup {x} \in G
  PROVE  S \in G
<1> DEFINE Left == {Cardinality(S \ T) : T \in G}
<1>1. \A T \in SUBSET S : IsFiniteSet(S \ T) /\ Cardinality(S \ T) \in Nat
  BY FS_Difference, FS_CardinalityType
<1>2. Left \in SUBSET Nat /\ Left # {}
  BY <1>1
<1> HIDE DEF Left
<1>3. PICK n \in Left : \A m \in Left : n <= m
  BY <1>2, LeastNumber
<1>4. PICK T \in G : n = Cardinality(S \ T)
  BY <1>3 DEF Left
<1>5. CASE S \ T = {}
  BY <1>5
<1>6. CASE S \ T # {}
  <2>1. PICK x \in S \ T : TRUE BY <1>6
  <2>2. Cardinality((S \ T) \ {x}) = n - 1
    <3>1. IsFiniteSet(S \ T) /\ Cardinality(S \ T) \in Nat BY <1>1
    <3> DEFINE U == S \ T
    <3> HIDE DEF U
    <3>2. IsFiniteSet(U) /\ x \in U /\ Cardinality(U) = n BY <1>4, <2>1, <3>1 DEF U
    <3>3. Cardinality(U \ {x}) = Cardinality(U) - 1 BY <3>2, FS_RemoveElement
    <3> QED BY <3>2, <3>3 DEF U
  <2>3. S \ (T \cup {x}) = (S \ T) \ {x} OBVIOUS
  <2>4. n - 1 \in Left BY <2>2, <2>3 DEF Left
  <2> QED BY <1>2, <1>3, <2>4
<1> QED BY <1>5, <1>6

Pick(T) == CHOOSE x \in T : TRUE
Recursion(f, g, D) ==
  g = [T \in D |-> IF T = {} THEN 0 ELSE f[Pick(T)] + g[T \ {Pick(T)}]]

LEMMA PickIn == ASSUME NEW T, T # {} PROVE Pick(T) \in T BY DEF Pick

LEMMA RecursionSolved ==
  ASSUME NEW S, IsFiniteSet(S), NEW f
  PROVE  \E g : Recursion(f, g, SUBSET S)
<1> DEFINE Layer(n) == {T \in SUBSET S : Cardinality(T) <= n}
           Missing == {n \in Nat : ~ \E g : Recursion(f, g, Layer(n))}
<1>1. \A T \in SUBSET S : IsFiniteSet(T) /\ Cardinality(T) \in Nat /\ Cardinality(T) <= Cardinality(S)
  BY FS_Subset, FS_CardinalityType
<1>2. Missing = {}
  <2> SUFFICES ASSUME Missing # {} PROVE FALSE OBVIOUS
  <2>1. PICK n \in Missing : \A m \in Missing : n <= m
    <3> Missing \in SUBSET Nat OBVIOUS
    <3> HIDE DEF Missing
    <3> QED BY LeastNumber
  <2>2. CASE n = 0
    <3>1. \A T \in Layer(0) : T = {} BY <1>1, FS_EmptySet
    <3>2. Recursion(f, [T \in Layer(0) |-> 0], Layer(0)) BY <3>1 DEF Recursion
    <3> QED BY <2>1, <2>2, <3>2
  <2>3. CASE n # 0
    <3>1. n - 1 \in Nat /\ n - 1 \notin Missing
      <4>1. n \in Nat OBVIOUS
      <4> HIDE DEF Missing
      <4> QED BY <2>1, <2>3, <4>1
    <3>2. PICK g : Recursion(f, g, Layer(n - 1)) BY <3>1
    <3> DEFINE h == [T \in Layer(n) |-> IF T = {} THEN 0 ELSE f[Pick(T)] + g[T \ {Pick(T)}]]
    <3>3. ASSUME NEW T \in Layer(n), T # {}
          PROVE  T \ {Pick(T)} \in Layer(n - 1) /\ T \ {Pick(T)} \in Layer(n)
      BY <1>1, <2>1, <3>3, PickIn, FS_RemoveElement
    <3>4. ASSUME NEW T \in Layer(n - 1)
          PROVE  T \in Layer(n) /\ g[T] = h[T]
      <4>1. n \in Nat /\ Cardinality(T) \in Nat /\ Cardinality(T) <= n - 1 BY <1>1
      <4>2. T \in Layer(n) BY <4>1
      <4>3. g[T] = IF T = {} THEN 0 ELSE f[Pick(T)] + g[T \ {Pick(T)}] BY <3>2 DEF Recursion
      <4> QED BY <4>2, <4>3
    <3>5. \A T \in Layer(n) : T # {} => g[T \ {Pick(T)}] = h[T \ {Pick(T)}]
      BY <3>3, <3>4
    <3>6. Recursion(f, h, Layer(n)) BY <3>5 DEF Recursion
    <3> QED BY <2>1, <3>6
  <2> QED BY <2>2, <2>3
<1>3. Cardinality(S) \in Nat BY FS_CardinalityType
<1>4. Layer(Cardinality(S)) = SUBSET S BY <1>1
<1> QED BY <1>2, <1>3, <1>4

LEMMA RecursionUnique ==
  ASSUME NEW S, IsFiniteSet(S), NEW f, NEW T \in SUBSET S,
         NEW g, Recursion(f, g, SUBSET S), NEW h, Recursion(f, h, SUBSET T)
  PROVE  g[T] = h[T]
<1> DEFINE Differ == {U \in SUBSET T : g[U] # h[U]}
           Sizes == {Cardinality(U) : U \in Differ}
<1> SUFFICES ASSUME Differ # {} PROVE FALSE OBVIOUS
<1>1. \A U \in SUBSET T : IsFiniteSet(U) /\ Cardinality(U) \in Nat
  BY FS_Subset, FS_CardinalityType
<1>2. Sizes \in SUBSET Nat /\ Sizes # {} BY <1>1
<1> HIDE DEF Sizes
<1>3. PICK n \in Sizes : \A m \in Sizes : n <= m BY <1>2, LeastNumber
<1>4. PICK U \in Differ : n = Cardinality(U) BY <1>3 DEF Sizes
<1>5. U # {} BY <1>4 DEF Recursion
<1> DEFINE V == U \ {Pick(U)}
<1>6. V \in SUBSET T /\ Cardinality(V) = n - 1
  BY <1>1, <1>4, <1>5, PickIn, FS_RemoveElement
<1>7. V \notin Differ
  <2> SUFFICES ASSUME V \in Differ PROVE FALSE OBVIOUS
  <2>1. n - 1 \in Sizes BY <1>6 DEF Sizes
  <2> QED BY <1>2, <1>3, <2>1
<1>8. g[U] = f[Pick(U)] + g[V] /\ h[U] = f[Pick(U)] + h[V]
  BY <1>4, <1>5 DEF Recursion
<1> QED BY <1>4, <1>6, <1>7, <1>8

LEMMA SumIsRecursive ==
  ASSUME NEW S, IsFiniteSet(S), NEW f, NEW g, Recursion(f, g, SUBSET S), NEW T \in SUBSET S
  PROVE  SumFunctionOnSet(f, T) = g[T]
<1> DEFINE h == CHOOSE k : Recursion(f, k, SUBSET T)
<1>1. SumFunctionOnSet(f, T) = h[T]
  BY DEF SumFunctionOnSet, FoldFunctionOnSet, MapThenFoldSet, Recursion, Pick
<1>2. Recursion(f, h, SUBSET T)
  <2>1. IsFiniteSet(T) BY FS_Subset
  <2> QED BY <2>1, RecursionSolved
<1> HIDE DEF h
<1> QED BY <1>1, <1>2, RecursionUnique

LEMMA SumEmpty == ASSUME NEW f PROVE SumFunctionOnSet(f, {}) = 0
<1>1. PICK g : Recursion(f, g, SUBSET {}) BY RecursionSolved, FS_EmptySet
<1>2. g[{}] = 0 BY <1>1 DEF Recursion
<1>3. {} \in SUBSET {} /\ IsFiniteSet({}) BY FS_EmptySet
<1>4. SumFunctionOnSet(f, {}) = g[{}] BY <1>1, <1>3, SumIsRecursive
<1> QED BY <1>2, <1>4

LEMMA SumPick ==
  ASSUME NEW S, IsFiniteSet(S), S # {}, NEW f
  PROVE  SumFunctionOnSet(f, S) = f[Pick(S)] + SumFunctionOnSet(f, S \ {Pick(S)})
<1>1. PICK g : Recursion(f, g, SUBSET S) BY RecursionSolved
<1>2. g[S] = f[Pick(S)] + g[S \ {Pick(S)}] BY <1>1 DEF Recursion
<1> QED BY <1>1, <1>2, SumIsRecursive

\* The order in which the elements are added does not matter.
LEMMA SumRemove ==
  ASSUME NEW S, IsFiniteSet(S), NEW f, \A x \in S : f[x] \in Int
  PROVE  /\ SumFunctionOnSet(f, S) \in Int
         /\ \A x \in S : SumFunctionOnSet(f, S) = f[x] + SumFunctionOnSet(f, S \ {x})
<1> DEFINE Sum(T) == SumFunctionOnSet(f, T)
           Fine(T) == Sum(T) \in Int /\ \A x \in T : Sum(T) = f[x] + Sum(T \ {x})
           Sizes == {Cardinality(T) : T \in {U \in SUBSET S : ~Fine(U)}}
<1>1. \A T \in SUBSET S : IsFiniteSet(T) /\ Cardinality(T) \in Nat
  BY FS_Subset, FS_CardinalityType
<1>2. Sizes = {}
  <2> SUFFICES ASSUME Sizes # {} PROVE FALSE OBVIOUS
  <2>1. Sizes \in SUBSET Nat BY <1>1
  <2> HIDE DEF Sizes
  <2>2. PICK n \in Sizes : \A m \in Sizes : n <= m BY <2>1, LeastNumber
  <2>3. PICK T \in SUBSET S : n = Cardinality(T) /\ ~Fine(T) BY <2>2 DEF Sizes
  <2> HIDE DEF Sum
  <2>4. \A U \in SUBSET T : U # T => Fine(U)
    <3> SUFFICES ASSUME NEW U \in SUBSET T, U # T, ~Fine(U) PROVE FALSE OBVIOUS
    <3> HIDE DEF Fine
    <3>1. IsFiniteSet(T) /\ Cardinality(U) \in Nat BY <1>1
    <3>2. Cardinality(U) < n BY <1>1, <2>3, <3>1, FS_Subset
    <3>3. Cardinality(U) \in Sizes BY DEF Sizes
    <3> QED BY <2>1, <2>2, <3>1, <3>2, <3>3
  <2>5. T # {} BY <2>3, SumEmpty DEF Sum
  <2> DEFINE p == Pick(T)
  <2>6. p \in T BY <2>5, PickIn
  <2>7. Sum(T) = f[p] + Sum(T \ {p}) BY <1>1, <2>5, SumPick DEF Sum
  <2> HIDE DEF p
  <2>8. Sum(T) \in Int BY <2>4, <2>6, <2>7
  <2>9. ASSUME NEW x \in T, x # p PROVE Sum(T) = f[x] + Sum(T \ {x})
    <3>1. (T \ {p}) \ {x} = (T \ {x}) \ {p} OBVIOUS
    <3>2. Sum(T \ {p}) = f[x] + Sum((T \ {p}) \ {x}) BY <2>4, <2>6, <2>9
    <3>3. Sum(T \ {x}) = f[p] + Sum((T \ {x}) \ {p}) BY <2>4, <2>6, <2>9
    <3>4. Sum((T \ {x}) \ {p}) \in Int BY <2>4, <2>6
    <3>5. f[x] \in Int /\ f[p] \in Int BY <2>6
    <3>6. \A a, b, c \in Int : a + (b + c) = b + (a + c) OBVIOUS
    <3>7. Sum(T) = f[p] + (f[x] + Sum((T \ {x}) \ {p})) BY <2>7, <3>1, <3>2
    <3>8. Sum(T) = f[x] + (f[p] + Sum((T \ {x}) \ {p})) BY <3>4, <3>5, <3>6, <3>7
    <3> QED BY <3>3, <3>8
  <2> QED BY <2>3, <2>7, <2>8, <2>9
<1>3. S \in SUBSET S => Fine(S) BY <1>2
<1> QED BY <1>3

LEMMA SumAdd ==
  ASSUME NEW S, IsFiniteSet(S), NEW x, x \notin S, NEW f, \A y \in S \cup {x} : f[y] \in Int
  PROVE  /\ SumFunctionOnSet(f, S) \in Int
         /\ SumFunctionOnSet(f, S \cup {x}) = SumFunctionOnSet(f, S) + f[x]
<1>1. IsFiniteSet(S \cup {x}) /\ (S \cup {x}) \ {x} = S BY FS_AddElement
<1>2. SumFunctionOnSet(f, S) \in Int BY SumRemove
<1>3. SumFunctionOnSet(f, S \cup {x}) = f[x] + SumFunctionOnSet(f, S) BY <1>1, SumRemove
<1>4. f[x] \in Int OBVIOUS
<1> QED BY <1>2, <1>3, <1>4

LEMMA SumNat ==
  ASSUME NEW S, IsFiniteSet(S), NEW f, \A x \in S : f[x] \in Nat
  PROVE  SumFunctionOnSet(f, S) \in Nat
<1> DEFINE G == {T \in SUBSET S : SumFunctionOnSet(f, T) \in Nat}
<1>1. {} \in G BY SumEmpty
<1>2. ASSUME NEW T \in G, NEW x \in S \ T PROVE T \cup {x} \in G
  <2>1. IsFiniteSet(T) BY FS_Subset
  <2>2. SumFunctionOnSet(f, T \cup {x}) = SumFunctionOnSet(f, T) + f[x]
    <3>1. \A y \in T \cup {x} : f[y] \in Int OBVIOUS
    <3> HIDE DEF G
    <3> QED BY <2>1, <3>1, SumAdd
  <2> QED BY <2>2
<1> HIDE DEF G
<1>3. S \in G BY <1>1, <1>2, GrowsToAll DEF G
<1> QED BY <1>3 DEF G

LEMMA SumSame ==
  ASSUME NEW S, IsFiniteSet(S), NEW f, NEW g, \A x \in S : f[x] \in Int /\ g[x] = f[x]
  PROVE  SumFunctionOnSet(g, S) = SumFunctionOnSet(f, S)
<1> DEFINE G == {T \in SUBSET S : SumFunctionOnSet(g, T) = SumFunctionOnSet(f, T)}
<1>1. {} \in G BY SumEmpty
<1>2. ASSUME NEW T \in G, NEW x \in S \ T PROVE T \cup {x} \in G
  <2>1. IsFiniteSet(T) BY FS_Subset
  <2>2. SumFunctionOnSet(f, T \cup {x}) = SumFunctionOnSet(f, T) + f[x]
    BY <2>1, SumAdd
  <2>3. SumFunctionOnSet(g, T \cup {x}) = SumFunctionOnSet(g, T) + g[x]
    <3>1. \A y \in T \cup {x} : g[y] \in Int OBVIOUS
    <3> HIDE DEF G
    <3> QED BY <2>1, <3>1, SumAdd
  <2> QED BY <2>2, <2>3
<1> HIDE DEF G
<1>3. S \in G BY <1>1, <1>2, GrowsToAll DEF G
<1> QED BY <1>3 DEF G

LEMMA SumDifference ==
  ASSUME NEW S, IsFiniteSet(S), NEW f, NEW g, NEW h,
         \A x \in S : f[x] \in Int /\ g[x] \in Int /\ h[x] = f[x] - g[x]
  PROVE  SumFunctionOnSet(h, S) = SumFunctionOnSet(f, S) - SumFunctionOnSet(g, S)
<1> DEFINE G == {T \in SUBSET S :
              SumFunctionOnSet(h, T) = SumFunctionOnSet(f, T) - SumFunctionOnSet(g, T)}
<1>1. {} \in G BY SumEmpty
<1>2. ASSUME NEW T \in G, NEW x \in S \ T PROVE T \cup {x} \in G
  <2>1. IsFiniteSet(T) BY FS_Subset
  <2>2. /\ SumFunctionOnSet(f, T) \in Int
        /\ SumFunctionOnSet(f, T \cup {x}) = SumFunctionOnSet(f, T) + f[x]
    BY <2>1, SumAdd
  <2>3. /\ SumFunctionOnSet(g, T) \in Int
        /\ SumFunctionOnSet(g, T \cup {x}) = SumFunctionOnSet(g, T) + g[x]
    BY <2>1, SumAdd
  <2>4. SumFunctionOnSet(h, T \cup {x}) = SumFunctionOnSet(h, T) + h[x]
    <3>1. \A y \in T \cup {x} : h[y] \in Int OBVIOUS
    <3> HIDE DEF G
    <3> QED BY <2>1, <3>1, SumAdd
  <2> QED BY <2>2, <2>3, <2>4
<1> HIDE DEF G
<1>3. S \in G BY <1>1, <1>2, GrowsToAll DEF G
<1> QED BY <1>3 DEF G

LEMMA SumMonotone ==
  ASSUME NEW S, IsFiniteSet(S), NEW f, NEW g,
         \A x \in S : f[x] \in Int /\ g[x] \in Int /\ f[x] <= g[x]
  PROVE  SumFunctionOnSet(f, S) <= SumFunctionOnSet(g, S)
<1> DEFINE G == {T \in SUBSET S : SumFunctionOnSet(f, T) <= SumFunctionOnSet(g, T)}
<1>1. {} \in G BY SumEmpty
<1>2. ASSUME NEW T \in G, NEW x \in S \ T PROVE T \cup {x} \in G
  <2>1. IsFiniteSet(T) BY FS_Subset
  <2>2. /\ SumFunctionOnSet(f, T) \in Int /\ SumFunctionOnSet(g, T) \in Int
        /\ SumFunctionOnSet(f, T \cup {x}) = SumFunctionOnSet(f, T) + f[x]
        /\ SumFunctionOnSet(g, T \cup {x}) = SumFunctionOnSet(g, T) + g[x]
    BY <2>1, SumAdd
  <2> QED BY <2>2
<1> HIDE DEF G
<1>3. S \in G BY <1>1, <1>2, GrowsToAll DEF G
<1> QED BY <1>3 DEF G

LEMMA SumOutside ==
  ASSUME NEW S, IsFiniteSet(S), NEW T \in SUBSET S, NEW f,
         \A x \in S : f[x] \in Int, \A x \in S \ T : f[x] = 0
  PROVE  SumFunctionOnSet(f, S) = SumFunctionOnSet(f, T)
<1> DEFINE G == {U \in SUBSET (S \ T) : SumFunctionOnSet(f, T \cup U) = SumFunctionOnSet(f, T)}
<1>1. IsFiniteSet(T) /\ IsFiniteSet(S \ T) BY FS_Subset
<1>2. {} \in G
  <2>1. T \cup {} = T OBVIOUS
  <2> QED BY <2>1
<1>3. ASSUME NEW U \in G, NEW x \in (S \ T) \ U PROVE U \cup {x} \in G
  <2>1. IsFiniteSet(T \cup U) /\ x \notin T \cup U
    <3>1. T \cup U \in SUBSET S OBVIOUS
    <3> QED BY <3>1, FS_Subset
  <2>2. /\ SumFunctionOnSet(f, T \cup U) \in Int
        /\ SumFunctionOnSet(f, (T \cup U) \cup {x}) = SumFunctionOnSet(f, T \cup U) + f[x]
    BY <2>1, SumAdd
  <2>3. (T \cup U) \cup {x} = T \cup (U \cup {x}) OBVIOUS
  <2>4. f[x] = 0 /\ U \cup {x} \in SUBSET (S \ T) OBVIOUS
  <2> QED BY <2>2, <2>3, <2>4
<1>4. G \in SUBSET SUBSET (S \ T) OBVIOUS
<1> HIDE DEF G
<1>5. S \ T \in G BY <1>1, <1>2, <1>3, <1>4, GrowsToAll
<1>6. T \cup (S \ T) = S OBVIOUS
<1> QED BY <1>5, <1>6 DEF G

-----------------------------------------------------------------------------
(* The lots.                                                               *)

LEMMA ConsumptionsType ==
  ASSUME NEW units \in Nat, remaining \in [Grants -> Nat],
         NEW after \in Consumptions(units)
  PROVE  after \in [Grants -> Nat]
<1>1. PICK taken \in [Grants -> 0 .. units] :
        /\ after = [g \in Grants |-> remaining[g] - taken[g]]
        /\ \A g \in Grants : taken[g] <= remaining[g]
  BY DEF Consumptions
<1>2. \A g \in Grants : remaining[g] - taken[g] \in Nat
  <2> TAKE g \in Grants
  <2>1. remaining[g] \in Nat /\ taken[g] \in 0 .. units /\ taken[g] <= remaining[g]
    BY <1>1
  <2> QED BY <2>1
<1> QED BY <1>1, <1>2

LEMMA RangeAppend ==
  ASSUME NEW s \in Seq(Grants), NEW g \in Grants
  PROVE  Range(Append(s, g)) = Range(s) \cup {g}
<1>1. /\ DOMAIN Append(s, g) = 1 .. (Len(s) + 1)
      /\ DOMAIN s = 1 .. Len(s)
      /\ Len(s) \in Nat
  OBVIOUS
<1>2. \A i \in 1 .. Len(s) : Append(s, g)[i] = s[i]
  OBVIOUS
<1>3. Append(s, g)[Len(s) + 1] = g
  OBVIOUS
<1> QED BY <1>1, <1>2, <1>3 DEF Range

LEMMA LotsFinite == ASSUME TypeOK PROVE IsFiniteSet(Range(lotOrder))
<1>1. lotOrder \in Seq(Grants) BY DEF TypeOK
<1>2. Len(lotOrder) \in Nat /\ DOMAIN lotOrder = 1 .. Len(lotOrder) BY <1>1
<1>3. lotOrder \in Surjection(1 .. Len(lotOrder), Range(lotOrder))
  <2>1. lotOrder \in [1 .. Len(lotOrder) -> Range(lotOrder)] BY <1>1, <1>2 DEF Range
  <2> QED BY <1>2, <2>1 DEF Surjection, Range
<1> QED BY <1>2, <1>3, FS_NatSurjection DEF ExistsSurjection

LEMMA LotsAreGrants == ASSUME TypeOK PROVE Range(lotOrder) \in SUBSET Grants
<1>1. lotOrder \in Seq(Grants) /\ DOMAIN lotOrder = 1 .. Len(lotOrder) BY DEF TypeOK
<1> QED BY <1>1 DEF Range

LEMMA ShareType ==
  ASSUME InputAssumption, TypeOK, NEW g \in Grants, NEW r \in Refunds
  PROVE  /\ Share(g, r) \in Nat /\ Unused(g, r) \in Nat
         /\ Unused(g, r) <= remaining[g] /\ Unused(g, r) <= Share(g, r)
<1>1. GrantUnits[g] \in Nat /\ RefundPaise[r] \in Nat /\ PaymentPaise[RefundOf[r]] \in Nat \ {0}
  BY DEF InputAssumption
<1>2. GrantUnits[g] * RefundPaise[r] \in Nat
  BY <1>1
<1>3. Share(g, r) \in Nat
  BY <1>1, <1>2 DEF Share
<1>4. remaining[g] \in Nat
  BY DEF TypeOK
<1> QED BY <1>3, <1>4 DEF Unused

LEMMA RefundAmounts ==
  ASSUME InputAssumption, TypeOK, NEW r \in Refunds
  PROVE  /\ SumFunction([g \in LotsOf(RefundOf[r]) |-> Share(g, r)]) \in Nat
         /\ SumFunction([g \in LotsOf(RefundOf[r]) |-> Share(g, r) - Unused(g, r)]) \in Nat
<1> DEFINE lots == LotsOf(RefundOf[r])
           units == [g \in lots |-> Share(g, r)]
           missing == [g \in lots |-> Share(g, r) - Unused(g, r)]
<1>1. IsFiniteSet(lots) /\ lots \in SUBSET Grants
  BY LotsFinite, LotsAreGrants, FS_Subset DEF LotsOf
<1> HIDE DEF lots
<1>2. \A g \in lots : units[g] \in Nat BY <1>1, ShareType
<1>3. \A g \in lots : missing[g] \in Nat BY <1>1, ShareType
<1>4. DOMAIN units = lots /\ DOMAIN missing = lots OBVIOUS
<1> HIDE DEF units, missing
<1>5. SumFunctionOnSet(units, lots) \in Nat /\ SumFunctionOnSet(missing, lots) \in Nat
  BY <1>1, <1>2, <1>3, SumNat
<1> QED BY <1>4, <1>5 DEF SumFunction, units, missing, lots

-----------------------------------------------------------------------------
(* Types.                                                                  *)

LEMMA TypeInit == ASSUME InputAssumption PROVE Init => TypeOK
BY DEF Init, TypeOK, InputAssumption

LEMMA DepositType ==
  ASSUME TypeOK, NEW units \in Nat, Deposit(units)
  PROVE  balance' \in Int /\ {reserved, granted, consumed, refunded, debt}' \subseteq Nat
         /\ status' \in {"ACTIVE", "DEBT"}
BY DEF TypeOK, Deposit, AtLeastZero

LEMMA SpendType ==
  ASSUME TypeOK, NEW units \in Nat, Spend(units)
  PROVE  balance' \in Int /\ {granted, consumed, refunded, debt}' \subseteq Nat
         /\ status' \in {"ACTIVE", "DEBT"}
BY DEF TypeOK, Spend, StatusAfterTaking

LEMMA TakeBackType ==
  ASSUME TypeOK, NEW units \in Nat, NEW shortfall \in Nat, TakeBack(units, shortfall)
  PROVE  balance' \in Int /\ {reserved, granted, consumed, refunded, debt}' \subseteq Nat
         /\ status' \in {"ACTIVE", "DEBT"}
BY DEF TypeOK, TakeBack, StatusAfterTaking

LEMMA ReturnType ==
  ASSUME TypeOK, NEW c \in Callers,
         NEW answer \in {"none", "done", "duplicate", "insufficient", "failed"},
         Return(c, answer)
  PROVE  /\ calls' \in [Callers -> CallKeys \cup {Idle}]
         /\ reply' \in [Callers -> {"none", "done", "duplicate", "insufficient", "failed"}]
BY DEF TypeOK, Return

LEMMA PostType ==
  ASSUME TypeOK, NEW kind, NEW k, NEW n \in Int, <<kind, k>> \in Keys, Post(kind, k, n)
  PROVE  transactions' \subseteq [key : Keys, amount : Int, after : Int]
<1>1. [key |-> <<kind, k>>, amount |-> n, after |-> balance + n]
        \in [key : Keys, amount : Int, after : Int]
  BY DEF TypeOK
<1>2. transactions \subseteq [key : Keys, amount : Int, after : Int]
  BY DEF TypeOK
<1> QED BY <1>1, <1>2 DEF Post

LEMMA GrantType ==
  ASSUME InputAssumption, TypeOK, NEW c \in Callers, NEW g \in Grants, Grant(c, g)
  PROVE  TypeOK'
<1>1. GrantUnits[g] \in Nat
  BY DEF InputAssumption
<1>2. Deposit(GrantUnits[g]) /\ Return(c, "done")
  BY DEF Grant
<1>3. /\ balance' \in Int /\ {reserved, granted, consumed, refunded, debt}' \subseteq Nat
      /\ status' \in {"ACTIVE", "DEBT"}
  BY <1>1, <1>2, DepositType
<1>4. /\ calls' \in [Callers -> CallKeys \cup {Idle}]
      /\ reply' \in [Callers -> {"none", "done", "duplicate", "insufficient", "failed"}]
  BY <1>2, ReturnType
<1>5. transactions' \subseteq [key : Keys, amount : Int, after : Int]
  <2>1. <<"grant", g>> \in Keys
    BY DEF Keys, CallKeys
  <2>2. Post("grant", g, GrantUnits[g])
    BY DEF Grant
  <2> QED BY <1>1, <2>1, <2>2, PostType
<1>6. remaining' \in [Grants -> Nat] /\ lotOrder' \in Seq(Grants)
  BY <1>1 DEF TypeOK, Grant
<1> QED BY <1>3, <1>4, <1>5, <1>6 DEF TypeOK, Grant

LEMMA DebitType ==
  ASSUME InputAssumption, TypeOK, NEW c \in Callers, NEW d \in Debits, Debit(c, d)
  PROVE  TypeOK'
<1>1. DebitUnits[d] \in Nat /\ -DebitUnits[d] \in Int
  BY DEF InputAssumption
<1>2. CASE Refuse(c)
  BY <1>2, ReturnType DEF Refuse, rows, wallet, TypeOK
<1>3. CASE ~Short(DebitUnits[d])
  <2>1. Return(c, "done") /\ UNCHANGED <<lotOrder, reservations, schedules, expired>>
    BY <1>3 DEF Debit
  <2>2. /\ calls' \in [Callers -> CallKeys \cup {Idle}]
        /\ reply' \in [Callers -> {"none", "done", "duplicate", "insufficient", "failed"}]
    BY <2>1, ReturnType
  <2>3. CASE Mode = "enforce"
    <3>1. Spend(DebitUnits[d]) /\ UNCHANGED reserved
      BY <1>3, <2>3 DEF Debit
    <3>2. balance' \in Int /\ {granted, consumed, refunded, debt}' \subseteq Nat
          /\ status' \in {"ACTIVE", "DEBT"}
      BY <1>1, <3>1, SpendType
    <3>3. remaining' \in [Grants -> Nat]
      BY <1>1, <1>3, <2>3, ConsumptionsType DEF Debit, TypeOK
    <3>4. transactions' \subseteq [key : Keys, amount : Int, after : Int]
      <4>1. <<"debit", d>> \in Keys
        BY DEF Keys, CallKeys
      <4>2. Post("debit", d, -DebitUnits[d])
        BY <1>3, <2>3 DEF Debit
      <4> QED BY <1>1, <4>1, <4>2, PostType
    <3> QED BY <2>1, <2>2, <3>1, <3>2, <3>3, <3>4 DEF TypeOK
  <2>4. CASE Mode # "enforce"
    <3>1. transactions' \subseteq [key : Keys, amount : Int, after : Int]
      <4>1. <<"debit", d>> \in Keys
        BY DEF Keys, CallKeys
      <4>2. Post("debit", d, 0)
        BY <1>3, <2>4 DEF Debit
      <4> QED BY <4>1, <4>2, PostType
    <3>2. UNCHANGED <<wallet, remaining>>
      BY <1>3, <2>4 DEF Debit
    <3> QED BY <2>1, <2>2, <3>1, <3>2 DEF TypeOK, wallet
  <2> QED BY <2>3, <2>4
<1> QED BY <1>2, <1>3 DEF Debit

LEMMA ReserveType ==
  ASSUME InputAssumption, TypeOK, NEW c \in Callers, NEW a \in Attempts, Reserve(c, a)
  PROVE  TypeOK'
<1>1. ReserveUnits[a] \in Nat
  BY DEF InputAssumption
<1>2. CASE Refuse(c)
  BY <1>2, ReturnType DEF Refuse, rows, wallet, TypeOK
<1>3. CASE ~Short(ReserveUnits[a])
  <2>1. Return(c, "done") /\ UNCHANGED <<remaining, lotOrder, schedules, expired>>
    BY <1>3 DEF Reserve
  <2>2. /\ calls' \in [Callers -> CallKeys \cup {Idle}]
        /\ reply' \in [Callers -> {"none", "done", "duplicate", "insufficient", "failed"}]
    BY <2>1, ReturnType
  <2>3. transactions' \subseteq [key : Keys, amount : Int, after : Int]
    <3>1. <<"reserve", a>> \in Keys
      BY DEF Keys, CallKeys
    <3>2. Post("reserve", a, 0)
      BY <1>3 DEF Reserve
    <3> QED BY <3>1, <3>2, PostType
  <2>4. /\ balance' \in Int /\ {reserved, granted, consumed, refunded, debt}' \subseteq Nat
        /\ status' \in {"ACTIVE", "DEBT"}
    BY <1>1, <1>3 DEF Reserve, Hold, wallet, TypeOK
  <2>5. reservations' = [reservations EXCEPT ![a] =
          [status |-> ReservationStatus, held |-> ReserveUnits[a], settled |-> 0]]
    BY <1>3 DEF Reserve
  <2> QED BY <1>1, <2>1, <2>2, <2>3, <2>4, <2>5 DEF TypeOK, ReservationStatus
<1> QED BY <1>2, <1>3 DEF Reserve

LEMMA RefundType ==
  ASSUME InputAssumption, TypeOK, NEW c \in Callers, NEW r \in Refunds, Refund(c, r)
  PROVE  TypeOK'
<1> DEFINE p == RefundOf[r]
           lots == LotsOf(p)
           units == SumFunction([g \in lots |-> Share(g, r)])
           shortfall == SumFunction([g \in lots |-> Share(g, r) - Unused(g, r)])
<1>1. CASE Return(c, "failed") /\ UNCHANGED rows
  BY <1>1, ReturnType DEF rows, wallet, TypeOK
<1>2. CASE ~(lots = {} \/ units = 0)
  <2>1. /\ remaining' = [g \in Grants |->
             IF g \in lots THEN remaining[g] - Unused(g, r) ELSE remaining[g]]
        /\ TakeBack(units, shortfall)
        /\ Post("refund", r, -units)
        /\ schedules' = IF RefundPaise[r] >= PaymentPaise[p] /\ schedules[p] = "ACTIVE"
                          THEN [schedules EXCEPT ![p] = "CANCELLED"] ELSE schedules
        /\ Return(c, "done")
        /\ UNCHANGED <<lotOrder, reservations, expired>>
    BY <1>2 DEF Refund
  <2>2. units \in Nat /\ shortfall \in Nat
    BY RefundAmounts
  <2> HIDE DEF lots, units, shortfall
  <2>3. /\ balance' \in Int /\ {reserved, granted, consumed, refunded, debt}' \subseteq Nat
        /\ status' \in {"ACTIVE", "DEBT"}
    BY <2>1, <2>2, TakeBackType
  <2>4. /\ calls' \in [Callers -> CallKeys \cup {Idle}]
        /\ reply' \in [Callers -> {"none", "done", "duplicate", "insufficient", "failed"}]
    BY <2>1, ReturnType
  <2>5. transactions' \subseteq [key : Keys, amount : Int, after : Int]
    <3>1. <<"refund", r>> \in Keys
      BY DEF Keys, CallKeys
    <3>2. -units \in Int
      BY <2>2
    <3> QED BY <2>1, <3>1, <3>2, PostType
  <2>6. remaining' \in [Grants -> Nat]
    <3> SUFFICES ASSUME NEW g \in Grants PROVE remaining[g] - Unused(g, r) \in Nat
      BY <2>1 DEF TypeOK
    <3>1. Unused(g, r) \in Nat /\ Unused(g, r) <= remaining[g] /\ remaining[g] \in Nat
      BY ShareType DEF TypeOK
    <3> QED BY <3>1
  <2>7. schedules' \in [Payments -> {"NONE", "ACTIVE", "COMPLETED", "CANCELLED"}]
    BY <2>1 DEF TypeOK
  <2> QED BY <2>1, <2>3, <2>4, <2>5, <2>6, <2>7 DEF TypeOK
<1> QED BY <1>1, <1>2 DEF Refund

Rows == [status : {"NONE", "RESERVED", "SHADOW", "SETTLED", "RELEASED"},
         held : Nat, settled : Nat]

LEMMA FinishType ==
  ASSUME NEW f \in [Attempts -> Rows], NEW a \in Attempts,
         NEW st \in {"SETTLED", "RELEASED"}, NEW n \in Nat
  PROVE  /\ [f EXCEPT ![a].status = st] \in [Attempts -> Rows]
         /\ [f EXCEPT ![a].status = st, ![a].settled = n] \in [Attempts -> Rows]
<1>1. f[a] \in Rows
  OBVIOUS
<1>2. [f[a] EXCEPT !.status = st] \in Rows
  BY <1>1 DEF Rows
<1>3. [[f[a] EXCEPT !.status = st] EXCEPT !.settled = n] \in Rows
  BY <1>2 DEF Rows
<1>4. [f EXCEPT ![a].status = st] = [f EXCEPT ![a] = [f[a] EXCEPT !.status = st]]
  OBVIOUS
<1>5. [f EXCEPT ![a].status = st, ![a].settled = n]
        = [f EXCEPT ![a] = [[f[a] EXCEPT !.status = st] EXCEPT !.settled = n]]
  OBVIOUS
<1> QED BY <1>2, <1>3, <1>4, <1>5

LEMMA SettleType ==
  ASSUME InputAssumption, TypeOK, NEW a \in Attempts, NEW units \in ActualUnits,
         Settle(a, units)
  PROVE  TypeOK'
<1>1. units \in Nat /\ -units \in Int
  BY DEF InputAssumption
<1>2. reservations' \in [Attempts ->
        [status : {"NONE", "RESERVED", "SHADOW", "SETTLED", "RELEASED"},
         held : Nat, settled : Nat]]
  BY <1>1, FinishType DEF Settle, Open, TypeOK, Rows
<1>3. CASE reservations[a].status = "RESERVED"
  <2>1. /\ Spend(units) /\ reserved' = AtLeastZero(reserved - reservations[a].held)
        /\ remaining' \in Consumptions(units)
        /\ Post("settle", a, -units)
    BY <1>3 DEF Settle, Open, ReturnHold
  <2>2. balance' \in Int /\ {granted, consumed, refunded, debt}' \subseteq Nat
        /\ status' \in {"ACTIVE", "DEBT"}
    BY <1>1, <2>1, SpendType
  <2>3. reserved' \in Nat
    BY <2>1 DEF AtLeastZero, TypeOK
  <2>4. remaining' \in [Grants -> Nat]
    BY <1>1, <2>1, ConsumptionsType DEF TypeOK
  <2>5. transactions' \subseteq [key : Keys, amount : Int, after : Int]
    <3>1. <<"settle", a>> \in Keys
      BY DEF Keys
    <3> QED BY <1>1, <2>1, <3>1, PostType
  <2> QED BY <1>2, <2>2, <2>3, <2>4, <2>5 DEF TypeOK, Settle
<1>4. CASE reservations[a].status # "RESERVED"
  BY <1>2, <1>4 DEF TypeOK, Settle, wallet
<1> QED BY <1>3, <1>4

LEMMA ReleaseType ==
  ASSUME InputAssumption, TypeOK, NEW a \in Attempts, Release(a)
  PROVE  TypeOK'
<1>1. reserved' \in Nat
  BY DEF Release, Open, ReturnHold, AtLeastZero, TypeOK
<1>2. reservations' \in [Attempts ->
        [status : {"NONE", "RESERVED", "SHADOW", "SETTLED", "RELEASED"},
         held : Nat, settled : Nat]]
  BY FinishType DEF Release, Open, TypeOK, Rows
<1> QED BY <1>1, <1>2 DEF TypeOK, Release

LEMMA TypeStep == ASSUME InputAssumption, TypeOK, [Next]_vars PROVE TypeOK'
<1>1. ASSUME NEW c \in Callers, NEW key \in CallKeys, Begin(c, key) PROVE TypeOK'
  BY <1>1 DEF Begin, rows, wallet, TypeOK
<1>2. ASSUME NEW c \in Callers, Rollback(c) PROVE TypeOK'
  BY <1>2, ReturnType DEF Rollback, rows, wallet, TypeOK
<1>3. ASSUME NEW a \in Attempts, Expire(a) PROVE TypeOK'
  BY <1>3 DEF Expire, wallet, TypeOK
<1>4. ASSUME NEW a \in Attempts, ReleaseAbandoned(a) PROVE TypeOK'
  BY <1>4, ReleaseType DEF ReleaseAbandoned
<1>5. CASE UNCHANGED vars
  BY <1>5 DEF vars, wallet, TypeOK
<1> QED BY <1>1, <1>2, <1>3, <1>4, <1>5, GrantType, DebitType, ReserveType, RefundType,
           SettleType, ReleaseType DEF Next

\* Every reachable state of the wallet is well typed: no column of the row but the
\* balance goes negative and no lot is drawn below zero, whatever the calls.
THEOREM TypeCorrect == Spec => []TypeOK
<1>1. Init => TypeOK
  BY InputAssumption, TypeInit
<1>2. TypeOK /\ [Next]_vars => TypeOK'
  BY InputAssumption, TypeStep
<1> QED BY <1>1, <1>2, PTL DEF Spec

-----------------------------------------------------------------------------
(* The columns of the wallet row agree.                                    *)

LEMMA AccountsStep ==
  ASSUME InputAssumption, TypeOK, AccountsBalance, [Next]_vars
  PROVE  AccountsBalance'
<1> USE DEF AccountsBalance
<1>1. ASSUME NEW g \in Grants, Deposit(GrantUnits[g]) PROVE AccountsBalance'
  <2>1. GrantUnits[g] \in Nat
    BY DEF InputAssumption
  <2> QED BY <1>1, <2>1 DEF Deposit, TypeOK
<1>2. ASSUME NEW units \in Nat, Spend(units) PROVE AccountsBalance'
  BY <1>2 DEF Spend, TypeOK
<1>3. ASSUME NEW units \in Nat, NEW shortfall \in Nat, TakeBack(units, shortfall)
      PROVE  AccountsBalance'
  BY <1>3 DEF TakeBack, TypeOK
<1>4. ASSUME UNCHANGED wallet PROVE AccountsBalance'
  BY <1>4 DEF wallet
<1>5. ASSUME NEW c \in Callers, NEW g \in Grants, Grant(c, g) PROVE AccountsBalance'
  BY <1>1, <1>5 DEF Grant
<1>6. ASSUME NEW c \in Callers, NEW d \in Debits, Debit(c, d) PROVE AccountsBalance'
  <2>1. DebitUnits[d] \in Nat
    BY DEF InputAssumption
  <2> QED BY <1>2, <1>4, <1>6, <2>1 DEF Debit, Refuse, rows
<1>7. ASSUME NEW c \in Callers, NEW a \in Attempts, Reserve(c, a) PROVE AccountsBalance'
  BY <1>4, <1>7 DEF Reserve, Refuse, rows, Hold
<1>8. ASSUME NEW c \in Callers, NEW r \in Refunds, Refund(c, r) PROVE AccountsBalance'
  <2> DEFINE units == SumFunction([g \in LotsOf(RefundOf[r]) |-> Share(g, r)])
             shortfall == SumFunction([g \in LotsOf(RefundOf[r]) |-> Share(g, r) - Unused(g, r)])
  <2>1. UNCHANGED rows \/ TakeBack(units, shortfall)
    BY <1>8 DEF Refund
  <2>2. units \in Nat /\ shortfall \in Nat
    BY RefundAmounts
  <2> HIDE DEF units, shortfall
  <2> QED BY <1>3, <1>4, <2>1, <2>2 DEF rows
<1>9. ASSUME NEW a \in Attempts, NEW units \in ActualUnits, Settle(a, units)
      PROVE  AccountsBalance'
  <2>1. units \in Nat
    BY DEF InputAssumption
  <2> QED BY <1>2, <1>4, <1>9, <2>1 DEF Settle
<1>10. ASSUME NEW a \in Attempts, Release(a) PROVE AccountsBalance'
  BY <1>10 DEF Release
<1>11. ASSUME NEW c \in Callers, NEW key \in CallKeys, Begin(c, key) PROVE AccountsBalance'
  BY <1>4, <1>11 DEF Begin, rows
<1>12. ASSUME NEW c \in Callers, Rollback(c) PROVE AccountsBalance'
  BY <1>4, <1>12 DEF Rollback, rows
<1>13. ASSUME NEW a \in Attempts, Expire(a) PROVE AccountsBalance'
  BY <1>4, <1>13 DEF Expire
<1>14. CASE UNCHANGED vars
  BY <1>4, <1>14 DEF vars
<1> QED BY <1>5, <1>6, <1>7, <1>8, <1>9, <1>10, <1>11, <1>12, <1>13, <1>14
        DEF Next, ReleaseAbandoned

\* The balance is always what was granted less what was consumed and refunded: five
\* statements move these columns, in any interleaving of any calls.
THEOREM AccountsCorrect == Spec => []AccountsBalance
<1>1. Init => TypeOK /\ AccountsBalance
  BY InputAssumption, TypeInit DEF Init, AccountsBalance
<1>2. TypeOK /\ AccountsBalance /\ [Next]_vars => TypeOK' /\ AccountsBalance'
  BY InputAssumption, TypeStep, AccountsStep
<1> QED BY <1>1, <1>2, PTL DEF Spec

-----------------------------------------------------------------------------
(* One row per idempotency key.  OneRowPerKey and ChargedIffSettled are not *)
(* inductive: that a commit finds no row of its key needs every posted key  *)
(* to be visible to the lookup of its operation (KeysRecorded), and that a  *)
(* settlement in enforce mode charges needs shadow reservations to be made  *)
(* in shadow mode only.                                                     *)

KeysRecorded ==
  \A t \in transactions :
    /\ \A g \in Grants : t.key = <<"grant", g>> => g \in Range(lotOrder)
    /\ \A a \in Attempts : t.key = <<"reserve", a>> => reservations[a].status # "NONE"

ShadowInShadowMode ==
  \A a \in Attempts : reservations[a].status = "SHADOW" => Mode = "shadow"

KeyInv == TypeOK /\ OneRowPerKey /\ KeysRecorded /\ ShadowInShadowMode /\ ChargedIffSettled

LEMMA KeyInit == ASSUME InputAssumption PROVE Init => KeyInv
BY TypeInit DEF Init, KeyInv, OneRowPerKey, KeysRecorded, ShadowInShadowMode,
                ChargedIffSettled, Posted

LEMMA FreshRow ==
  ASSUME OneRowPerKey, NEW kind, NEW k, NEW n, <<kind, k>> \notin Posted,
         Post(kind, k, n)
  PROVE  OneRowPerKey'
BY DEF OneRowPerKey, Posted, Post

\* A step that posts no settlement and moves no status to or from SETTLED or SHADOW.
LEMMA ChargedKept ==
  ASSUME ChargedIffSettled, ShadowInShadowMode,
         transactions \subseteq transactions',
         \A t \in transactions' \ transactions : \A a \in Attempts : t.key # <<"settle", a>>,
         \A a \in Attempts :
           \/ reservations'[a] = reservations[a]
           \/ /\ reservations[a].status # "SETTLED"
              /\ reservations'[a].status # "SETTLED"
              /\ reservations'[a].status = "SHADOW" => Mode = "shadow"
  PROVE  ChargedIffSettled' /\ ShadowInShadowMode'
<1> SUFFICES ASSUME NEW a \in Attempts
             PROVE  /\ (reservations[a].status = "SETTLED" /\ Mode = "enforce" =>
                         \E t \in transactions :
                           t.key = <<"settle", a>> /\ t.amount = -reservations[a].settled)'
                    /\ (<<"settle", a>> \in Posted => reservations[a].status = "SETTLED")'
                    /\ (reservations[a].status = "SHADOW" => Mode = "shadow")'
  BY DEF ChargedIffSettled, ShadowInShadowMode
<1>1. <<"settle", a>> \in Posted' => <<"settle", a>> \in Posted
  BY DEF Posted
<1>2. CASE reservations'[a] = reservations[a]
  BY <1>1, <1>2 DEF ChargedIffSettled, ShadowInShadowMode
<1>3. CASE reservations[a].status # "SETTLED"
           /\ reservations'[a].status # "SETTLED"
           /\ (reservations'[a].status = "SHADOW" => Mode = "shadow")
  BY <1>1, <1>3 DEF ChargedIffSettled
<1> QED BY <1>2, <1>3

\* Steps that leave the tables the keys are looked up in alone.
LEMMA KeysKept ==
  ASSUME KeyInv, TypeOK', UNCHANGED <<transactions, lotOrder, reservations>>
  PROVE  KeyInv'
BY DEF KeyInv, OneRowPerKey, KeysRecorded, ShadowInShadowMode, ChargedIffSettled, Posted

LEMMA GrantKeys ==
  ASSUME KeyInv, TypeOK', NEW c \in Callers, NEW g \in Grants, Grant(c, g)
  PROVE  KeyInv'
<1>1. /\ ~Recorded(<<"grant", g>>)
      /\ lotOrder' = Append(lotOrder, g)
      /\ Post("grant", g, GrantUnits[g])
      /\ UNCHANGED reservations
  BY DEF Grant, UniqueKey
<1>2. g \notin Range(lotOrder)
  BY <1>1 DEF Recorded
<1>3. <<"grant", g>> \notin Posted
  BY <1>2 DEF KeyInv, KeysRecorded, Posted
<1>4. OneRowPerKey'
  BY <1>1, <1>3, FreshRow DEF KeyInv
<1>5. Range(lotOrder') = Range(lotOrder) \cup {g}
  BY <1>1, RangeAppend DEF KeyInv, TypeOK
<1>6. KeysRecorded'
  BY <1>1, <1>5 DEF KeyInv, KeysRecorded, Post
<1>7. ChargedIffSettled' /\ ShadowInShadowMode'
  BY <1>1, ChargedKept DEF KeyInv, Post
<1> QED BY <1>4, <1>6, <1>7 DEF KeyInv

LEMMA DebitKeys ==
  ASSUME KeyInv, TypeOK', NEW c \in Callers, NEW d \in Debits, Debit(c, d)
  PROVE  KeyInv'
<1>1. CASE Refuse(c)
  BY <1>1, KeysKept DEF Refuse, rows
<1>2. CASE ~Short(DebitUnits[d])
  <2>1. PICK n : Post("debit", d, n)
    BY <1>2 DEF Debit
  <2>2. UNCHANGED <<lotOrder, reservations>> /\ ~Recorded(<<"debit", d>>)
    BY <1>2 DEF Debit, UniqueKey
  <2>3. <<"debit", d>> \notin Posted
    BY <2>2 DEF Recorded
  <2>4. OneRowPerKey'
    BY <2>1, <2>3, FreshRow DEF KeyInv
  <2>5. KeysRecorded'
    BY <2>1, <2>2 DEF KeyInv, KeysRecorded, Post
  <2>6. ChargedIffSettled' /\ ShadowInShadowMode'
    BY <2>1, <2>2, ChargedKept DEF KeyInv, Post
  <2> QED BY <2>4, <2>5, <2>6 DEF KeyInv
<1> QED BY <1>1, <1>2 DEF Debit

LEMMA ReserveKeys ==
  ASSUME KeyInv, TypeOK', NEW c \in Callers, NEW a \in Attempts, Reserve(c, a)
  PROVE  KeyInv'
<1>1. CASE Refuse(c)
  BY <1>1, KeysKept DEF Refuse, rows
<1>2. CASE ~Short(ReserveUnits[a])
  <2>1. /\ ~Recorded(<<"reserve", a>>)
        /\ reservations' = [reservations EXCEPT ![a] =
             [status |-> ReservationStatus, held |-> ReserveUnits[a], settled |-> 0]]
        /\ Post("reserve", a, 0)
        /\ UNCHANGED lotOrder
    BY <1>2 DEF Reserve, UniqueKey
  <2>2. reservations[a].status = "NONE"
    BY <2>1 DEF Recorded
  <2>3. <<"reserve", a>> \notin Posted
    BY <2>2 DEF KeyInv, KeysRecorded, Posted
  <2>4. OneRowPerKey'
    BY <2>1, <2>3, FreshRow DEF KeyInv
  <2>5. /\ reservations'[a].status \in {"SHADOW", "RESERVED"}
        /\ reservations'[a].status = "SHADOW" => Mode = "shadow"
        /\ \A b \in Attempts \ {a} : reservations'[b] = reservations[b]
    BY <2>1 DEF KeyInv, TypeOK, ReservationStatus
  <2>6. KeysRecorded'
    BY <2>1, <2>2, <2>5 DEF KeyInv, KeysRecorded, Post
  <2>7. ChargedIffSettled' /\ ShadowInShadowMode'
    BY <2>1, <2>2, <2>5, ChargedKept DEF KeyInv, Post
  <2> QED BY <2>4, <2>6, <2>7 DEF KeyInv
<1> QED BY <1>1, <1>2 DEF Reserve

LEMMA RefundKeys ==
  ASSUME KeyInv, TypeOK', NEW c \in Callers, NEW r \in Refunds, Refund(c, r)
  PROVE  KeyInv'
<1>1. CASE UNCHANGED rows
  BY <1>1, KeysKept DEF rows
<1>2. CASE ~UNCHANGED rows
  <2>1. PICK n : Post("refund", r, n)
    BY <1>2 DEF Refund
  <2>2. UNCHANGED <<lotOrder, reservations>> /\ ~Recorded(<<"refund", r>>)
    BY <1>2 DEF Refund, UniqueKey
  <2>3. <<"refund", r>> \notin Posted
    BY <2>2 DEF Recorded
  <2>4. OneRowPerKey'
    BY <2>1, <2>3, FreshRow DEF KeyInv
  <2>5. KeysRecorded'
    BY <2>1, <2>2 DEF KeyInv, KeysRecorded, Post
  <2>6. ChargedIffSettled' /\ ShadowInShadowMode'
    BY <2>1, <2>2, ChargedKept DEF KeyInv, Post
  <2> QED BY <2>4, <2>5, <2>6 DEF KeyInv
<1> QED BY <1>1, <1>2

LEMMA SettleKeys ==
  ASSUME KeyInv, TypeOK', NEW a \in Attempts, NEW units \in ActualUnits, Settle(a, units)
  PROVE  KeyInv'
<1>1. /\ reservations[a].status \in {"RESERVED", "SHADOW"}
      /\ reservations'[a].status = "SETTLED" /\ reservations'[a].settled = units
      /\ \A b \in Attempts \ {a} : reservations'[b] = reservations[b]
      /\ UNCHANGED lotOrder
  BY DEF Settle, Open, KeyInv, TypeOK
<1>2. <<"settle", a>> \notin Posted
  BY <1>1 DEF KeyInv, ChargedIffSettled
<1>3. \/ /\ reservations[a].status = "RESERVED"
         /\ Post("settle", a, -units)
      \/ /\ Mode = "shadow"
         /\ UNCHANGED transactions
  BY DEF Settle, Open, KeyInv, ShadowInShadowMode
<1>4. OneRowPerKey'
  BY <1>2, <1>3, FreshRow DEF KeyInv, OneRowPerKey
<1>5. KeysRecorded'
  BY <1>1, <1>3 DEF KeyInv, KeysRecorded, Post
<1>6. ShadowInShadowMode'
  BY <1>1 DEF KeyInv, ShadowInShadowMode
<1>7. ChargedIffSettled'
  <2> SUFFICES ASSUME NEW b \in Attempts
               PROVE  /\ (reservations[b].status = "SETTLED" /\ Mode = "enforce" =>
                           \E t \in transactions :
                             t.key = <<"settle", b>> /\ t.amount = -reservations[b].settled)'
                      /\ (<<"settle", b>> \in Posted => reservations[b].status = "SETTLED")'
    BY DEF ChargedIffSettled
  <2>1. CASE b = a
    <3>1. CASE Post("settle", a, -units)
      <4> DEFINE row == [key |-> <<"settle", a>>, amount |-> -units, after |-> balance + -units]
      <4>1. row \in transactions' /\ row.key = <<"settle", a>> /\ row.amount = -units
        BY <3>1 DEF Post
      <4> QED BY <1>1, <2>1, <4>1
    <3>2. CASE Mode = "shadow"
      BY <1>1, <2>1, <3>2
    <3> QED BY <1>3, <3>1, <3>2
  <2>2. CASE b # a
    <3>1. <<"settle", b>> \in Posted' => <<"settle", b>> \in Posted
      BY <1>3, <2>2 DEF Posted, Post
    <3>2. transactions \subseteq transactions'
      BY <1>3 DEF Post
    <3> QED BY <1>1, <2>2, <3>1, <3>2 DEF KeyInv, ChargedIffSettled
  <2> QED BY <2>1, <2>2
<1> QED BY <1>4, <1>5, <1>6, <1>7 DEF KeyInv

LEMMA ReleaseKeys ==
  ASSUME KeyInv, TypeOK', NEW a \in Attempts, Release(a)
  PROVE  KeyInv'
<1>1. /\ reservations[a].status \in {"RESERVED", "SHADOW"}
      /\ reservations'[a].status = "RELEASED"
      /\ \A b \in Attempts \ {a} : reservations'[b] = reservations[b]
      /\ UNCHANGED <<lotOrder, transactions>>
  BY DEF Release, Open, KeyInv, TypeOK
<1>2. OneRowPerKey' /\ KeysRecorded'
  BY <1>1 DEF KeyInv, OneRowPerKey, KeysRecorded
<1>3. ChargedIffSettled' /\ ShadowInShadowMode'
  BY <1>1, ChargedKept DEF KeyInv
<1> QED BY <1>2, <1>3 DEF KeyInv

LEMMA KeyStep == ASSUME InputAssumption, KeyInv, [Next]_vars PROVE KeyInv'
<1>1. TypeOK'
  BY TypeStep DEF KeyInv
<1>2. ASSUME NEW c \in Callers, NEW key \in CallKeys, Begin(c, key) PROVE KeyInv'
  BY <1>1, <1>2, KeysKept DEF Begin, rows
<1>3. ASSUME NEW c \in Callers, Rollback(c) PROVE KeyInv'
  BY <1>1, <1>3, KeysKept DEF Rollback, rows
<1>4. ASSUME NEW a \in Attempts, Expire(a) PROVE KeyInv'
  BY <1>1, <1>4, KeysKept DEF Expire
<1>5. CASE UNCHANGED vars
  BY <1>1, <1>5, KeysKept DEF vars
<1> QED BY <1>1, <1>2, <1>3, <1>4, <1>5, GrantKeys, DebitKeys, ReserveKeys, RefundKeys,
           SettleKeys, ReleaseKeys DEF Next, ReleaseAbandoned

LEMMA KeyCorrect == Spec => []KeyInv
<1>1. Init => KeyInv
  BY InputAssumption, KeyInit
<1>2. KeyInv /\ [Next]_vars => KeyInv'
  BY InputAssumption, KeyStep
<1> QED BY <1>1, <1>2, PTL DEF Spec

\* However often a webhook, a checkout or a product run repeats a call, and however two
\* of them interleave, one idempotency key moves the wallet at most once.
THEOREM OncePerKey == Spec => []OneRowPerKey
BY KeyCorrect, PTL DEF KeyInv

\* A reservation is charged exactly when it is settled, at the amount it is settled for.
THEOREM SettledIsCharged == Spec => []ChargedIffSettled
BY KeyCorrect, PTL DEF KeyInv

-----------------------------------------------------------------------------
(* Shadow mode.  No run has it: a wallet that shadow calls never touch needs *)
(* that none of their reservations is a real one (NoneReal).                 *)

\* In shadow mode reservations and usage are recorded and nothing is debited or held (the
\* comment on creditMeteringMode).
ShadowDebitsNothing == Mode = "shadow" => consumed = 0 /\ reserved = 0
NoneReal == Mode = "shadow" => \A a \in Attempts : reservations[a].status # "RESERVED"
ShadowInv == TypeOK /\ ShadowDebitsNothing /\ NoneReal

LEMMA ShadowFinish ==
  ASSUME ShadowInv, TypeOK', NEW a \in Attempts, Open(a),
         UNCHANGED consumed \/ reservations[a].status = "RESERVED",
         UNCHANGED reserved \/ reservations[a].status = "RESERVED",
         reservations'[a].status # "RESERVED",
         \A b \in Attempts \ {a} : reservations'[b] = reservations[b]
  PROVE  ShadowInv'
BY DEF ShadowInv, ShadowDebitsNothing, NoneReal, Mode

LEMMA ShadowStep == ASSUME InputAssumption, ShadowInv, [Next]_vars PROVE ShadowInv'
<1>1. TypeOK'
  BY TypeStep DEF ShadowInv
<1>2. CASE UNCHANGED <<consumed, reserved, reservations>>
  BY <1>1, <1>2 DEF ShadowInv, ShadowDebitsNothing, NoneReal, Mode
<1>3. ASSUME NEW c \in Callers, NEW g \in Grants, Grant(c, g) PROVE ShadowInv'
  BY <1>2, <1>3 DEF Grant, Deposit
<1>4. ASSUME NEW c \in Callers, NEW d \in Debits, Debit(c, d) PROVE ShadowInv'
  <2>1. CASE UNCHANGED wallet
    BY <1>2, <1>4, <2>1 DEF Debit, wallet, Refuse, rows
  <2>2. CASE Mode = "enforce" /\ Spend(DebitUnits[d])
    BY <1>1, <1>4, <2>2 DEF ShadowInv, ShadowDebitsNothing, NoneReal, Mode
  <2> QED BY <1>4, <2>1, <2>2 DEF Debit, Refuse, rows, wallet
<1>5. ASSUME NEW c \in Callers, NEW a \in Attempts, Reserve(c, a) PROVE ShadowInv'
  <2>1. CASE Refuse(c)
    BY <1>2, <2>1 DEF Refuse, rows, wallet
  <2>2. CASE ~Short(ReserveUnits[a])
    <3>1. /\ reservations' = [reservations EXCEPT ![a] =
              [status |-> ReservationStatus, held |-> ReserveUnits[a], settled |-> 0]]
          /\ ReservationStatus = "RESERVED" \/ UNCHANGED wallet
          /\ UNCHANGED consumed
      BY <1>5, <2>2 DEF Reserve, Hold, wallet
    <3>2. reservations'[a].status = ReservationStatus
      BY <3>1 DEF ShadowInv, TypeOK
    <3>3. \A b \in Attempts \ {a} : reservations'[b] = reservations[b]
      BY <3>1 DEF ShadowInv, TypeOK
    <3>4. Mode = "shadow" => ReservationStatus = "SHADOW" /\ UNCHANGED reserved
      BY <3>1 DEF ReservationStatus, wallet
    <3> QED BY <1>1, <3>1, <3>2, <3>3, <3>4 DEF ShadowInv, ShadowDebitsNothing, NoneReal, Mode
  <2> QED BY <1>5, <2>1, <2>2 DEF Reserve
<1>6. ASSUME NEW c \in Callers, NEW r \in Refunds, Refund(c, r) PROVE ShadowInv'
  BY <1>2, <1>6 DEF Refund, TakeBack, rows, wallet
<1>7. ASSUME NEW a \in Attempts, NEW units \in ActualUnits, Settle(a, units) PROVE ShadowInv'
  <2>1. /\ reservations'[a].status = "SETTLED"
        /\ \A b \in Attempts \ {a} : reservations'[b] = reservations[b]
    BY <1>7 DEF Settle, ShadowInv, TypeOK
  <2>2. reservations[a].status = "RESERVED" \/ UNCHANGED <<consumed, reserved>>
    BY <1>7 DEF Settle, wallet
  <2> QED BY <1>1, <1>7, <2>1, <2>2, ShadowFinish DEF Settle
<1>8. ASSUME NEW a \in Attempts, Release(a) PROVE ShadowInv'
  <2>1. /\ reservations'[a].status = "RELEASED"
        /\ \A b \in Attempts \ {a} : reservations'[b] = reservations[b]
    BY <1>8 DEF Release, ShadowInv, TypeOK
  <2>2. reservations[a].status = "RESERVED" \/ UNCHANGED reserved
    BY <1>8 DEF Release
  <2> QED BY <1>1, <1>8, <2>1, <2>2, ShadowFinish DEF Release
<1>9. CASE UNCHANGED rows \/ UNCHANGED vars
  BY <1>2, <1>9 DEF rows, vars, wallet
<1>10. ASSUME NEW a \in Attempts, Expire(a) PROVE ShadowInv'
  BY <1>2, <1>10 DEF Expire, wallet
<1> QED BY <1>3, <1>4, <1>5, <1>6, <1>7, <1>8, <1>9, <1>10
        DEF Next, ReleaseAbandoned, Begin, Rollback

\* With metering in shadow mode no call, however long the sequence, consumes or holds a credit.
THEOREM ShadowIsFree == Spec => []ShadowDebitsNothing
<1>1. Init => ShadowInv
  BY InputAssumption, TypeInit DEF Init, ShadowInv, ShadowDebitsNothing, NoneReal
<1>2. ShadowInv /\ [Next]_vars => ShadowInv'
  BY InputAssumption, ShadowStep
<1> QED BY <1>1, <1>2, PTL DEF Spec, ShadowInv

-----------------------------------------------------------------------------
(* The books.  BooksAgree is not inductive: a row adds its amount only if it *)
(* is new (KeyInv), a hold that ends takes away what it added only if no     *)
(* other was lost (GREATEST(0, ...) never bites), and sums are over sets     *)
(* that stay finite (Finite).                                                *)

HeldUnits == [a \in Attempts |-> reservations[a].held]

Statement == balance = SumFunction([t \in transactions |-> t.amount])
Holds == reserved = SumFunctionOnSet(HeldUnits, Reserved)
LotsCover == balance <= SumFunctionOnSet(remaining, Range(lotOrder))
LedgerBalance == Mode = "enforce" => balance = SumFunction([e \in Entries |-> e.amount])
Finite == IsFiniteSet(transactions) /\ IsFiniteSet(Entries) /\ IsFiniteSet(Reserved)

BooksInv == KeyInv /\ AccountsBalance /\ Statement /\ Holds /\ LotsCover /\ LedgerBalance /\ Finite

LEMMA RowAdded ==
  ASSUME NEW T, IsFiniteSet(T), NEW row, row \notin T, \A t \in T \cup {row} : t.amount \in Int
  PROVE  /\ IsFiniteSet(T \cup {row})
         /\ SumFunction([t \in T |-> t.amount]) \in Int
         /\ SumFunction([t \in T \cup {row} |-> t.amount])
              = SumFunction([t \in T |-> t.amount]) + row.amount
<1> DEFINE f == [t \in T |-> t.amount]
           g == [t \in T \cup {row} |-> t.amount]
<1>1. /\ \A t \in T : f[t] \in Int /\ g[t] = f[t]
      /\ \A t \in T \cup {row} : g[t] \in Int
      /\ g[row] = row.amount /\ DOMAIN f = T /\ DOMAIN g = T \cup {row}
  OBVIOUS
<1> HIDE DEF f, g
<1>2. SumFunctionOnSet(g, T \cup {row}) = SumFunctionOnSet(g, T) + g[row]
  BY <1>1, SumAdd
<1>3. SumFunctionOnSet(g, T) = SumFunctionOnSet(f, T) BY <1>1, SumSame
<1>4. SumFunctionOnSet(f, T) \in Int BY <1>1, SumRemove
<1>5. SumFunction(f) = SumFunctionOnSet(f, T) /\ SumFunction(g) = SumFunctionOnSet(g, T \cup {row})
  BY <1>1 DEF SumFunction
<1> QED BY <1>1, <1>2, <1>3, <1>4, <1>5, FS_AddElement DEF f, g

LEMMA EntryTypes ==
  ASSUME TypeOK
  PROVE  (\A t \in transactions : t.amount \in Int) /\ (\A e \in Entries : e.amount \in Int)
BY DEF TypeOK, Entries

\* A new row enters the statement and, if the ledger has its kind, the ledger.
LEMMA PostedOnce ==
  ASSUME TypeOK, Finite, NEW kind, NEW k, NEW n \in Int, Post(kind, k, n), <<kind, k>> \notin Posted
  PROVE  /\ IsFiniteSet(transactions') /\ IsFiniteSet(Entries')
         /\ SumFunction([t \in transactions |-> t.amount])'
              = SumFunction([t \in transactions |-> t.amount]) + n
         /\ SumFunction([t \in transactions |-> t.amount]) \in Int
         /\ IF kind \in Booked
              THEN /\ Entries' = Entries \cup {[key |-> <<kind, k>>, amount |-> n]}
                   /\ SumFunction([e \in Entries |-> e.amount])'
                        = SumFunction([e \in Entries |-> e.amount]) + n
              ELSE Entries' = Entries
<1> DEFINE row == [key |-> <<kind, k>>, amount |-> n, after |-> balance + n]
           entry == [key |-> <<kind, k>>, amount |-> n]
<1>1. transactions' = transactions \cup {row} /\ row \notin transactions /\ row.amount = n
  BY DEF Post, Posted
<1>2. \A t \in transactions \cup {row} : t.amount \in Int BY EntryTypes
<1>3. entry \notin Entries /\ entry.amount = n BY DEF Entries, Posted
<1>4. \A e \in Entries \cup {entry} : e.amount \in Int BY EntryTypes
<1>5. Entries' = IF kind \in Booked THEN Entries \cup {entry} ELSE Entries
  <2>1. row.key[1] = kind /\ entry = [key |-> row.key, amount |-> row.amount] OBVIOUS
  <2> HIDE DEF row, entry
  <2> QED BY <1>1, <2>1 DEF Entries
<1> HIDE DEF row, entry
<1>6. /\ IsFiniteSet(transactions')
      /\ SumFunction([t \in transactions' |-> t.amount])
           = SumFunction([t \in transactions |-> t.amount]) + n
      /\ SumFunction([t \in transactions |-> t.amount]) \in Int
  BY <1>1, <1>2, RowAdded DEF Finite
<1>7. /\ IsFiniteSet(Entries \cup {entry})
      /\ SumFunction([e \in Entries \cup {entry} |-> e.amount])
           = SumFunction([e \in Entries |-> e.amount]) + n
  BY <1>3, <1>4, RowAdded DEF Finite
<1> QED BY <1>5, <1>6, <1>7 DEF Finite, entry

\* A statement of the wallet row that posts its own amount.
LEMMA PostKeepsBooks ==
  ASSUME BooksInv, NEW kind, NEW k, NEW n \in Int, Post(kind, k, n), <<kind, k>> \notin Posted,
         balance' = balance + n, n = 0 \/ kind \in Booked \/ Mode # "enforce"
  PROVE  Statement' /\ LedgerBalance' /\ IsFiniteSet(transactions') /\ IsFiniteSet(Entries')
<1>1. TypeOK /\ Finite /\ balance \in Int BY DEF BooksInv, KeyInv, TypeOK
<1>2. Statement' BY <1>1, PostedOnce DEF BooksInv, Statement
<1>3. LedgerBalance'
  <2>1. CASE kind \in Booked BY <1>1, <2>1, PostedOnce DEF BooksInv, LedgerBalance
  <2>2. CASE kind \notin Booked
    <3>1. Entries' = Entries BY <1>1, <2>2, PostedOnce
    <3>2. SumFunction([e \in Entries |-> e.amount])' = SumFunction([e \in Entries |-> e.amount])
      BY <3>1
    <3>3. Mode = "enforce" => balance' = balance BY <1>1, <2>2
    <3> QED BY <3>2, <3>3 DEF BooksInv, LedgerBalance
  <2> QED BY <2>1, <2>2
<1> QED BY <1>1, <1>2, <1>3, PostedOnce

\* What a debit or a settlement takes from the lots.
LEMMA ConsumptionsCover ==
  ASSUME BooksInv, NEW units \in Nat, remaining' \in Consumptions(units),
         balance' = balance - units, UNCHANGED lotOrder
  PROVE  LotsCover'
<1> DEFINE lots == Range(lotOrder)
<1>1. TypeOK /\ LotsCover BY DEF BooksInv, KeyInv
<1>2. IsFiniteSet(lots) /\ lots \in SUBSET Grants BY <1>1, LotsFinite, LotsAreGrants
<1>3. PICK taken \in [Grants -> 0 .. units] :
        /\ remaining' = [g \in Grants |-> remaining[g] - taken[g]]
        /\ \/ SumFunctionOnSet(taken, lots) = units
           \/ SumFunctionOnSet(taken, lots) < units /\ taken = remaining
  BY DEF Consumptions
<1> HIDE DEF lots
<1>4. \A g \in lots : remaining[g] \in Int /\ taken[g] \in Int /\ remaining'[g] = remaining[g] - taken[g]
  BY <1>1, <1>2, <1>3 DEF TypeOK
<1>5. SumFunctionOnSet(remaining', lots)
        = SumFunctionOnSet(remaining, lots) - SumFunctionOnSet(taken, lots)
  BY <1>2, <1>4, SumDifference
<1>6. SumFunctionOnSet(remaining, lots) \in Int /\ SumFunctionOnSet(taken, lots) \in Int
  BY <1>2, <1>4, SumRemove
<1>7. balance \in Int /\ balance <= SumFunctionOnSet(remaining, lots) BY <1>1 DEF TypeOK, LotsCover, lots
<1>8. balance - units <= SumFunctionOnSet(remaining', lots)
  <2>1. CASE SumFunctionOnSet(taken, lots) = units BY <1>5, <1>6, <1>7, <2>1
  <2>2. CASE SumFunctionOnSet(taken, lots) < units /\ taken = remaining BY <1>5, <1>6, <1>7, <2>2
  <2> QED BY <1>3, <2>1, <2>2
<1> QED BY <1>8 DEF LotsCover, lots

\* A refund takes what it finds of its shares from the lots, and all of them from the balance.
LEMMA RefundCovers ==
  ASSUME InputAssumption, BooksInv, NEW r \in Refunds,
         balance' = balance - SumFunction([g \in LotsOf(RefundOf[r]) |-> Share(g, r)]),
         remaining' = [g \in Grants |-> IF g \in LotsOf(RefundOf[r])
                                         THEN remaining[g] - Unused(g, r) ELSE remaining[g]],
         UNCHANGED lotOrder
  PROVE  LotsCover'
<1> DEFINE lots == Range(lotOrder)
           hit == LotsOf(RefundOf[r])
           found == [g \in Grants |-> IF g \in hit THEN Unused(g, r) ELSE 0]
           shares == [g \in hit |-> Share(g, r)]
<1>1. TypeOK /\ LotsCover BY DEF BooksInv, KeyInv
<1>2. IsFiniteSet(lots) /\ lots \in SUBSET Grants BY <1>1, LotsFinite, LotsAreGrants
<1>3. hit \in SUBSET lots /\ IsFiniteSet(hit) BY <1>2, FS_Subset DEF LotsOf
<1> HIDE DEF lots, hit
<1>4. /\ \A g \in lots : found[g] \in Int
      /\ \A g \in lots \ hit : found[g] = 0
      /\ \A g \in hit : found[g] \in Int /\ shares[g] \in Int /\ found[g] <= shares[g]
  BY <1>1, <1>2, <1>3, ShareType
<1>5. \A g \in lots : remaining[g] \in Int /\ remaining'[g] = remaining[g] - found[g]
  BY <1>1, <1>2 DEF TypeOK, hit
<1>6. SumFunction(shares) = SumFunctionOnSet(shares, hit) BY DEF SumFunction
<1> HIDE DEF found, shares
<1>7. SumFunctionOnSet(remaining', lots)
        = SumFunctionOnSet(remaining, lots) - SumFunctionOnSet(found, lots)
  BY <1>2, <1>4, <1>5, SumDifference
<1>8. SumFunctionOnSet(found, lots) = SumFunctionOnSet(found, hit) BY <1>2, <1>3, <1>4, SumOutside
<1>9. SumFunctionOnSet(found, hit) <= SumFunctionOnSet(shares, hit) BY <1>3, <1>4, SumMonotone
<1>10. /\ SumFunctionOnSet(remaining, lots) \in Int /\ SumFunctionOnSet(found, hit) \in Int
       /\ SumFunctionOnSet(shares, hit) \in Int
  BY <1>2, <1>3, <1>4, <1>5, SumRemove
<1>11. balance \in Int /\ balance <= SumFunctionOnSet(remaining, lots) BY <1>1 DEF TypeOK, LotsCover, lots
<1>12. balance' = balance - SumFunctionOnSet(shares, hit) BY <1>6 DEF shares, hit
<1>13. balance' <= SumFunctionOnSet(remaining', lots) BY <1>7, <1>8, <1>9, <1>10, <1>11, <1>12
<1> QED BY <1>13 DEF LotsCover, lots

\* A hold that is taken, and one that ends.
LEMMA HoldTaken ==
  ASSUME BooksInv, NEW a \in Attempts, NEW row \in Rows, row.status = "RESERVED",
         reservations[a].status = "NONE",
         reservations' = [reservations EXCEPT ![a] = row],
         reserved' = reserved + row.held
  PROVE  Holds' /\ IsFiniteSet(Reserved')
<1>1. TypeOK /\ Holds /\ IsFiniteSet(Reserved) BY DEF BooksInv, KeyInv, Finite
<1>2. Reserved' = Reserved \cup {a} /\ a \notin Reserved BY <1>1 DEF Reserved, TypeOK
<1>3. /\ \A b \in Reserved : HeldUnits[b] \in Int /\ HeldUnits'[b] = HeldUnits[b]
      /\ HeldUnits'[a] = row.held /\ row.held \in Int
  BY <1>1, <1>2 DEF HeldUnits, Reserved, TypeOK, Rows
<1> DEFINE f == HeldUnits
           g == HeldUnits'
           S == Reserved
<1> HIDE DEF f, g, S
<1>4. /\ IsFiniteSet(S) /\ a \notin S
      /\ \A b \in S : f[b] \in Int /\ g[b] = f[b]
      /\ \A b \in S \cup {a} : g[b] \in Int
  BY <1>1, <1>2, <1>3 DEF f, g, S
<1>5. SumFunctionOnSet(g, S \cup {a}) = SumFunctionOnSet(g, S) + g[a] BY <1>4, SumAdd
<1>6. SumFunctionOnSet(g, S) = SumFunctionOnSet(f, S) BY <1>4, SumSame
<1>7. IsFiniteSet(S \cup {a}) BY <1>4, FS_AddElement
<1> QED BY <1>1, <1>2, <1>3, <1>5, <1>6, <1>7 DEF Holds, f, g, S

LEMMA HoldEnded ==
  ASSUME BooksInv, NEW a \in Attempts, reservations[a].status = "RESERVED",
         NEW row \in Rows, row.status # "RESERVED",
         reservations' = [reservations EXCEPT ![a] = row],
         reserved' = AtLeastZero(reserved - reservations[a].held)
  PROVE  Holds' /\ IsFiniteSet(Reserved')
<1>1. TypeOK /\ Holds /\ IsFiniteSet(Reserved) BY DEF BooksInv, KeyInv, Finite
<1>2. Reserved' = Reserved \ {a} /\ a \in Reserved BY <1>1 DEF Reserved, TypeOK
<1>3. \A b \in Reserved : HeldUnits[b] \in Nat /\ (b # a => HeldUnits'[b] = HeldUnits[b])
  BY <1>1, <1>2 DEF HeldUnits, Reserved, TypeOK
<1> DEFINE f == HeldUnits
           g == HeldUnits'
           S == Reserved
           T == Reserved \ {a}
<1> HIDE DEF f, g, S, T
<1>4. /\ IsFiniteSet(S) /\ IsFiniteSet(T) /\ a \in S /\ T = S \ {a}
      /\ \A b \in S : f[b] \in Int /\ f[b] \in Nat
      /\ \A b \in T : f[b] \in Int /\ f[b] \in Nat /\ g[b] = f[b]
  BY <1>1, <1>2, <1>3, FS_RemoveElement DEF f, g, S, T
<1>5. SumFunctionOnSet(f, S) = f[a] + SumFunctionOnSet(f, T) BY <1>4, SumRemove
<1>6. SumFunctionOnSet(g, T) = SumFunctionOnSet(f, T) BY <1>4, SumSame
<1>7. SumFunctionOnSet(f, T) \in Nat BY <1>4, SumNat
<1>8. reserved = SumFunctionOnSet(f, S) /\ f[a] = reservations[a].held /\ f[a] \in Nat
  BY <1>1, <1>4 DEF Holds, f, S, HeldUnits
<1>9. reserved' = SumFunctionOnSet(g, T) BY <1>5, <1>6, <1>7, <1>8 DEF AtLeastZero
<1> QED BY <1>2, <1>4, <1>9 DEF Holds, g, T

LEMMA HoldApart ==
  ASSUME BooksInv, NEW a \in Attempts, reservations[a].status # "RESERVED",
         NEW row \in Rows, row.status # "RESERVED",
         reservations' = [reservations EXCEPT ![a] = row],
         UNCHANGED reserved
  PROVE  Holds' /\ IsFiniteSet(Reserved')
<1>1. TypeOK /\ Holds /\ IsFiniteSet(Reserved) BY DEF BooksInv, KeyInv, Finite
<1>2. Reserved' = Reserved BY <1>1 DEF Reserved, TypeOK
<1>3. \A b \in Reserved : HeldUnits[b] \in Int /\ HeldUnits'[b] = HeldUnits[b]
  BY <1>1 DEF HeldUnits, Reserved, TypeOK
<1> DEFINE f == HeldUnits
           g == HeldUnits'
           S == Reserved
<1> HIDE DEF f, g, S
<1>4. IsFiniteSet(S) /\ \A b \in S : f[b] \in Int /\ g[b] = f[b] BY <1>1, <1>3 DEF f, g, S
<1>5. SumFunctionOnSet(g, S) = SumFunctionOnSet(f, S) BY <1>4, SumSame
<1> QED BY <1>1, <1>2, <1>5 DEF Holds, f, g, S

LEMMA HoldsKept ==
  ASSUME BooksInv, UNCHANGED <<reserved, reservations>>
  PROVE  Holds' /\ IsFiniteSet(Reserved')
BY DEF BooksInv, Holds, Finite, HeldUnits, Reserved

LEMMA LotsKept ==
  ASSUME BooksInv, UNCHANGED <<balance, remaining, lotOrder>> PROVE LotsCover'
BY DEF BooksInv, LotsCover

\* What the steps below prove of the books; KeyStep and AccountsStep prove the rest.
Sums == Statement /\ Holds /\ LotsCover /\ LedgerBalance /\ Finite

LEMMA RowsKept ==
  ASSUME BooksInv, UNCHANGED <<balance, reserved, remaining, lotOrder, reservations, transactions>>
  PROVE  Sums'
<1>1. UNCHANGED Entries BY DEF Entries
<1>2. Statement' /\ LedgerBalance' /\ IsFiniteSet(transactions') /\ IsFiniteSet(Entries')
  BY <1>1 DEF BooksInv, Statement, LedgerBalance, Finite
<1>3. LotsCover' /\ Holds' /\ IsFiniteSet(Reserved') BY LotsKept, HoldsKept
<1> QED BY <1>2, <1>3 DEF Sums, Finite

LEMMA GrantBooks ==
  ASSUME InputAssumption, BooksInv, NEW c \in Callers, NEW g \in Grants, Grant(c, g)
  PROVE  Sums'
<1> DEFINE units == GrantUnits[g]
           lots == Range(lotOrder)
<1>1. /\ g \notin lots /\ lotOrder' = Append(lotOrder, g)
      /\ remaining' = [remaining EXCEPT ![g] = units]
      /\ balance' = balance + units /\ Post("grant", g, units)
      /\ UNCHANGED <<reserved, reservations>>
  BY DEF Grant, UniqueKey, Recorded, Deposit
<1>2. units \in Nat /\ units \in Int BY DEF InputAssumption
<1>3. TypeOK /\ KeysRecorded /\ LotsCover BY DEF BooksInv, KeyInv
<1>4. <<"grant", g>> \notin Posted BY <1>1, <1>3 DEF KeysRecorded, Posted
<1>5. Statement' /\ LedgerBalance' /\ IsFiniteSet(transactions') /\ IsFiniteSet(Entries')
  <2>1. "grant" \in Booked BY DEF Booked
  <2> HIDE DEF units
  <2> QED BY <1>1, <1>2, <1>4, <2>1, PostKeepsBooks
<1>6. Holds' /\ IsFiniteSet(Reserved') BY <1>1, HoldsKept
<1>7. Range(lotOrder') = lots \cup {g} BY <1>1, <1>3, RangeAppend DEF TypeOK
<1>8. IsFiniteSet(lots) /\ lots \in SUBSET Grants BY <1>3, LotsFinite, LotsAreGrants
<1> HIDE DEF lots
<1>9. /\ \A h \in lots : remaining[h] \in Int /\ remaining'[h] = remaining[h]
      /\ \A h \in lots \cup {g} : remaining'[h] \in Int
      /\ remaining'[g] = units
  BY <1>1, <1>2, <1>3, <1>8 DEF TypeOK
<1>10. SumFunctionOnSet(remaining', lots) = SumFunctionOnSet(remaining, lots)
  BY <1>8, <1>9, SumSame
<1>11. /\ SumFunctionOnSet(remaining', lots) \in Int
       /\ SumFunctionOnSet(remaining', lots \cup {g}) = SumFunctionOnSet(remaining', lots) + remaining'[g]
  BY <1>1, <1>8, <1>9, SumAdd
<1>12. balance \in Int /\ balance <= SumFunctionOnSet(remaining, lots)
  BY <1>3 DEF LotsCover, lots, TypeOK
<1>13. LotsCover'
  <2>1. balance' <= SumFunctionOnSet(remaining', lots \cup {g})
    BY <1>1, <1>2, <1>9, <1>10, <1>11, <1>12
  <2> QED BY <1>7, <2>1 DEF LotsCover
<1> QED BY <1>5, <1>6, <1>13 DEF Sums, Finite

LEMMA DebitBooks ==
  ASSUME InputAssumption, BooksInv, NEW c \in Callers, NEW d \in Debits, Debit(c, d)
  PROVE  Sums'
<1> DEFINE units == DebitUnits[d]
<1>1. CASE Refuse(c) BY <1>1, RowsKept DEF Refuse, rows, wallet
<1>2. CASE ~Short(units)
  <2>1. <<"debit", d>> \notin Posted /\ UNCHANGED <<lotOrder, reservations>>
    BY <1>2 DEF Debit, UniqueKey, Recorded
  <2>2. units \in Nat /\ -units \in Int /\ balance \in Int
    BY DEF InputAssumption, BooksInv, KeyInv, TypeOK
  <2>3. CASE Mode = "enforce"
    <3>1. /\ balance' = balance - units /\ remaining' \in Consumptions(units)
          /\ Post("debit", d, -units) /\ UNCHANGED reserved
      BY <1>2, <2>3 DEF Debit, Spend
    <3> HIDE DEF units
    <3>2. balance' = balance + (-units) BY <2>2, <3>1
    <3>3. "debit" \in Booked BY <2>3 DEF Booked
    <3>4. Statement' /\ LedgerBalance' /\ IsFiniteSet(transactions') /\ IsFiniteSet(Entries')
      BY <2>1, <2>2, <3>1, <3>2, <3>3, PostKeepsBooks
    <3>5. LotsCover' BY <2>1, <2>2, <3>1, ConsumptionsCover
    <3>6. Holds' /\ IsFiniteSet(Reserved') BY <2>1, <3>1, HoldsKept
    <3> QED BY <3>4, <3>5, <3>6 DEF Sums, Finite
  <2>4. CASE Mode # "enforce"
    <3>1. Post("debit", d, 0) /\ UNCHANGED <<balance, reserved, remaining>>
      BY <1>2, <2>4 DEF Debit, wallet
    <3>2. balance' = balance + 0 BY <2>2, <3>1
    <3>3. Statement' /\ LedgerBalance' /\ IsFiniteSet(transactions') /\ IsFiniteSet(Entries')
      BY <2>1, <3>1, <3>2, PostKeepsBooks
    <3>4. LotsCover' /\ Holds' /\ IsFiniteSet(Reserved') BY <2>1, <3>1, LotsKept, HoldsKept
    <3> QED BY <3>3, <3>4 DEF Sums, Finite
  <2> QED BY <2>3, <2>4
<1> QED BY <1>1, <1>2 DEF Debit

LEMMA ReserveBooks ==
  ASSUME InputAssumption, BooksInv, NEW c \in Callers, NEW a \in Attempts, Reserve(c, a)
  PROVE  Sums'
<1> DEFINE row == [status |-> ReservationStatus, held |-> ReserveUnits[a], settled |-> 0]
<1>1. CASE Refuse(c) BY <1>1, RowsKept DEF Refuse, rows, wallet
<1>2. CASE ~Short(ReserveUnits[a])
  <2>1. /\ reservations[a].status = "NONE" /\ reservations' = [reservations EXCEPT ![a] = row]
        /\ IF ReservationStatus = "RESERVED" THEN Hold(ReserveUnits[a]) ELSE UNCHANGED wallet
        /\ Post("reserve", a, 0)
        /\ UNCHANGED <<remaining, lotOrder>>
    BY <1>2 DEF Reserve, UniqueKey, Recorded
  <2>2. /\ row \in Rows /\ row.status = ReservationStatus /\ row.held = ReserveUnits[a]
        /\ balance \in Int /\ ReserveUnits[a] \in Nat
    BY DEF InputAssumption, BooksInv, KeyInv, TypeOK, Rows, ReservationStatus
  <2>3. <<"reserve", a>> \notin Posted BY <2>1 DEF BooksInv, KeyInv, KeysRecorded, Posted
  <2> HIDE DEF row
  <2>4. UNCHANGED balance BY <2>1 DEF Hold, wallet
  <2>5. balance' = balance + 0 BY <2>2, <2>4
  <2>6. Statement' /\ LedgerBalance' /\ IsFiniteSet(transactions') /\ IsFiniteSet(Entries')
    BY <2>1, <2>3, <2>5, PostKeepsBooks
  <2>7. LotsCover' BY <2>1, <2>4, LotsKept
  <2>8. Holds' /\ IsFiniteSet(Reserved')
    <3>1. CASE ReservationStatus = "RESERVED"
      <4>1. reserved' = reserved + row.held BY <2>1, <2>2, <3>1 DEF Hold
      <4> QED BY <2>1, <2>2, <3>1, <4>1, HoldTaken
    <3>2. CASE ReservationStatus # "RESERVED"
      <4>1. UNCHANGED reserved BY <2>1, <3>2 DEF wallet
      <4> QED BY <2>1, <2>2, <3>2, <4>1, HoldApart
    <3> QED BY <3>1, <3>2
  <2> QED BY <2>6, <2>7, <2>8 DEF Sums, Finite
<1> QED BY <1>1, <1>2 DEF Reserve

LEMMA RefundBooks ==
  ASSUME InputAssumption, BooksInv, NEW c \in Callers, NEW r \in Refunds, Refund(c, r)
  PROVE  Sums'
<1> DEFINE lots == LotsOf(RefundOf[r])
           units == SumFunction([g \in lots |-> Share(g, r)])
           shortfall == SumFunction([g \in lots |-> Share(g, r) - Unused(g, r)])
<1>1. CASE UNCHANGED rows BY <1>1, RowsKept DEF rows, wallet
<1>2. CASE ~(lots = {} \/ units = 0)
  <2>1. /\ <<"refund", r>> \notin Posted
        /\ remaining' = [g \in Grants |->
             IF g \in lots THEN remaining[g] - Unused(g, r) ELSE remaining[g]]
        /\ TakeBack(units, shortfall)
        /\ Post("refund", r, -units)
        /\ UNCHANGED <<lotOrder, reservations>>
    BY <1>2 DEF Refund, UniqueKey, Recorded
  <2>2. TypeOK BY DEF BooksInv, KeyInv
  <2>3. units \in Nat /\ balance \in Int BY <2>2, RefundAmounts DEF TypeOK
  <2>4. balance' = balance - units /\ UNCHANGED reserved BY <2>1 DEF TakeBack
  <2>5. LotsCover' BY <2>1, <2>4, RefundCovers
  <2> HIDE DEF units, shortfall, lots
  <2>6. -units \in Int /\ balance' = balance + (-units) BY <2>3, <2>4
  <2>7. "refund" \in Booked BY DEF Booked
  <2>8. Statement' /\ LedgerBalance' /\ IsFiniteSet(transactions') /\ IsFiniteSet(Entries')
    BY <2>1, <2>6, <2>7, PostKeepsBooks
  <2>9. Holds' /\ IsFiniteSet(Reserved') BY <2>1, <2>4, HoldsKept
  <2> QED BY <2>5, <2>8, <2>9 DEF Sums, Finite
<1> QED BY <1>1, <1>2 DEF Refund

LEMMA EndedRow ==
  ASSUME TypeOK, NEW a \in Attempts, NEW st \in {"SETTLED", "RELEASED"}, NEW n \in Nat
  PROVE  /\ [reservations[a] EXCEPT !.status = st] \in Rows
         /\ [reservations[a] EXCEPT !.status = st].status = st
         /\ [reservations[a] EXCEPT !.status = st, !.settled = n] \in Rows
         /\ [reservations[a] EXCEPT !.status = st, !.settled = n].status = st
         /\ [reservations[a] EXCEPT !.status = st].held = reservations[a].held
         /\ [reservations[a] EXCEPT !.status = st, !.settled = n].held = reservations[a].held
BY DEF TypeOK, Rows

LEMMA SettleBooks ==
  ASSUME InputAssumption, BooksInv, NEW a \in Attempts, NEW units \in ActualUnits, Settle(a, units)
  PROVE  Sums'
<1> DEFINE row == [reservations[a] EXCEPT !.status = "SETTLED", !.settled = units]
<1>1. TypeOK /\ ChargedIffSettled /\ balance \in Int BY DEF BooksInv, KeyInv, TypeOK
<1>2. units \in Nat /\ -units \in Int BY DEF InputAssumption
<1>3. Open(a) /\ reservations' = [reservations EXCEPT ![a] = row] /\ UNCHANGED lotOrder
  BY <1>1 DEF Settle, TypeOK
<1>4. row \in Rows /\ row.status # "RESERVED" BY <1>1, <1>2, EndedRow
<1> HIDE DEF row
<1>5. CASE reservations[a].status = "RESERVED"
  <2>1. /\ balance' = balance - units /\ remaining' \in Consumptions(units)
        /\ reserved' = AtLeastZero(reserved - reservations[a].held)
        /\ Post("settle", a, -units)
    BY <1>5 DEF Settle, Spend, ReturnHold
  <2>2. <<"settle", a>> \notin Posted BY <1>1, <1>5 DEF ChargedIffSettled
  <2>3. balance' = balance + (-units) BY <1>1, <1>2, <2>1
  <2>4. "settle" \in Booked \/ Mode # "enforce" BY DEF Booked
  <2>5. Statement' /\ LedgerBalance' /\ IsFiniteSet(transactions') /\ IsFiniteSet(Entries')
    BY <1>2, <2>1, <2>2, <2>3, <2>4, PostKeepsBooks
  <2>6. LotsCover' BY <1>2, <1>3, <2>1, ConsumptionsCover
  <2>7. Holds' /\ IsFiniteSet(Reserved') BY <1>3, <1>4, <1>5, <2>1, HoldEnded
  <2> QED BY <2>5, <2>6, <2>7 DEF Sums, Finite
<1>6. CASE reservations[a].status # "RESERVED"
  <2>1. UNCHANGED <<balance, reserved, remaining, transactions>> BY <1>6 DEF Settle, wallet
  <2>2. Holds' /\ IsFiniteSet(Reserved') BY <1>3, <1>4, <1>6, <2>1, HoldApart
  <2>3. UNCHANGED Entries BY <2>1 DEF Entries
  <2>4. Statement' /\ LedgerBalance' /\ IsFiniteSet(transactions') /\ IsFiniteSet(Entries')
    BY <2>1, <2>3 DEF BooksInv, Statement, LedgerBalance, Finite
  <2>5. LotsCover' BY <1>3, <2>1, LotsKept
  <2> QED BY <2>2, <2>4, <2>5 DEF Sums, Finite
<1> QED BY <1>5, <1>6

LEMMA ReleaseBooks ==
  ASSUME InputAssumption, BooksInv, NEW a \in Attempts, Release(a)
  PROVE  Sums'
<1> DEFINE row == [reservations[a] EXCEPT !.status = "RELEASED"]
<1>1. TypeOK BY DEF BooksInv, KeyInv
<1>2. /\ reservations' = [reservations EXCEPT ![a] = row]
      /\ UNCHANGED <<balance, remaining, lotOrder, transactions>>
  BY <1>1 DEF Release, TypeOK
<1>3. row \in Rows /\ row.status # "RESERVED"
  <2>1. 0 \in Nat OBVIOUS
  <2> QED BY <1>1, <2>1, EndedRow
<1> HIDE DEF row
<1>4. Holds' /\ IsFiniteSet(Reserved')
  <2>1. CASE reservations[a].status = "RESERVED"
    <3>1. reserved' = AtLeastZero(reserved - reservations[a].held) BY <2>1 DEF Release, ReturnHold
    <3> QED BY <1>2, <1>3, <2>1, <3>1, HoldEnded
  <2>2. CASE reservations[a].status # "RESERVED"
    <3>1. UNCHANGED reserved BY <2>2 DEF Release
    <3> QED BY <1>2, <1>3, <2>2, <3>1, HoldApart
  <2> QED BY <2>1, <2>2
<1>5. UNCHANGED Entries BY <1>2 DEF Entries
<1>6. Statement' /\ LedgerBalance' /\ IsFiniteSet(transactions') /\ IsFiniteSet(Entries')
  BY <1>2, <1>5 DEF BooksInv, Statement, LedgerBalance, Finite
<1>7. LotsCover' BY <1>2, LotsKept
<1> QED BY <1>4, <1>6, <1>7 DEF Sums, Finite

LEMMA BooksInit == ASSUME InputAssumption, Init PROVE BooksInv
<1>1. KeyInv /\ AccountsBalance BY KeyInit DEF Init, AccountsBalance
<1>2. transactions = {} /\ Entries = {} /\ Reserved = {} /\ Range(lotOrder) = {}
      /\ balance = 0 /\ reserved = 0
  BY DEF Init, Entries, Reserved, Range
<1>3. DOMAIN [t \in transactions |-> t.amount] = {} /\ DOMAIN [e \in Entries |-> e.amount] = {}
  BY <1>2
<1>4. /\ SumFunction([t \in transactions |-> t.amount]) = 0
      /\ SumFunction([e \in Entries |-> e.amount]) = 0
  BY <1>3, SumEmpty DEF SumFunction
<1>5. /\ SumFunctionOnSet(HeldUnits, Reserved) = 0
      /\ SumFunctionOnSet(remaining, Range(lotOrder)) = 0
  BY <1>2, SumEmpty
<1>6. Finite BY <1>2, FS_EmptySet DEF Finite
<1> QED BY <1>1, <1>2, <1>4, <1>5, <1>6 DEF BooksInv, Statement, Holds, LotsCover, LedgerBalance

LEMMA BooksStep == ASSUME InputAssumption, BooksInv, [Next]_vars PROVE BooksInv'
<1>1. KeyInv' /\ AccountsBalance'
  BY KeyStep, AccountsStep DEF BooksInv, KeyInv
<1>2. CASE UNCHANGED rows \/ UNCHANGED vars
  BY <1>1, <1>2, RowsKept DEF rows, vars, wallet, BooksInv, Sums
<1>3. ASSUME NEW a \in Attempts, Expire(a) PROVE Sums'
  BY <1>3, RowsKept DEF Expire, wallet
<1> QED BY <1>1, <1>2, <1>3, GrantBooks, DebitBooks, ReserveBooks, RefundBooks, SettleBooks,
           ReleaseBooks DEF Next, Begin, Rollback, ReleaseAbandoned, BooksInv, Sums

\* The books of the organization agree in every reachable state, whatever the number of
\* callers, grants and holds and however their calls interleave: the balance is the sum of
\* the statement, reserved_units the sum of the open holds, and the lots cover the balance.
THEOREM BooksCorrect == Spec => []BooksAgree
<1>1. Init => BooksInv
  BY InputAssumption, BooksInit
<1>2. BooksInv /\ [Next]_vars => BooksInv'
  BY InputAssumption, BooksStep
<1>3. BooksInv => BooksAgree
  BY DEF BooksInv, BooksAgree, Statement, Holds, LotsCover, HeldUnits
<1> QED BY <1>1, <1>2, <1>3, PTL DEF Spec

-----------------------------------------------------------------------------
(* The ledger.  A commit of the wallet is one step of CreditLedger; every    *)
(* other step, and outside enforce mode every debit, reservation and         *)
(* settlement, is a stutter.  The amount a commit compares with what the     *)
(* ledger can spend is its own stored balance less its counter of holds:     *)
(* BooksInv makes them the sums.                                             *)

Amounts == UNION {Range(GrantUnits), Range(DebitUnits), Range(ReserveUnits), ActualUnits, Shares}
CallHolds == [a \in Attempts |->
  [status |-> HoldStatus(reservations[a].status),
   held |-> IF Mode = "enforce" THEN reservations[a].held ELSE 0]]

LEMMA AmountsOfCalls ==
  ASSUME InputAssumption
  PROVE  /\ \A g \in Grants : GrantUnits[g] \in Amounts
         /\ \A d \in Debits : DebitUnits[d] \in Amounts
         /\ \A a \in Attempts : ReserveUnits[a] \in Amounts
         /\ \A units \in ActualUnits : units \in Amounts
         /\ \A units \in Shares : units \in Amounts
<1>1. \A g \in Grants : GrantUnits[g] \in Range(GrantUnits) BY DEF InputAssumption, Range
<1>2. \A d \in Debits : DebitUnits[d] \in Range(DebitUnits) BY DEF InputAssumption, Range
<1>3. \A a \in Attempts : ReserveUnits[a] \in Range(ReserveUnits) BY DEF InputAssumption, Range
<1> QED BY <1>1, <1>2, <1>3 DEF Amounts

\* The ledger adds as the wallet does.
LEMMA LedgerSums ==
  ASSUME NEW f, NEW S
  PROVE  /\ Ledger!SumFunctionOnSet(f, S) = SumFunctionOnSet(f, S)
         /\ Ledger!SumFunction(f) = SumFunction(f)
BY DEF Ledger!SumFunction, Ledger!SumFunctionOnSet, Ledger!FoldFunctionOnSet, Ledger!MapThenFoldSet,
       SumFunction, SumFunctionOnSet, FoldFunctionOnSet, MapThenFoldSet

LEMMA LedgerSpendable ==
  ASSUME BooksInv, Mode = "enforce" PROVE Ledger!Spendable = available
<1>1. Ledger!Credits = balance BY LedgerSums DEF Ledger!Credits, BooksInv, LedgerBalance
<1>2. TypeOK BY DEF BooksInv, KeyInv
<1>3. \A a \in Attempts : CallHolds[a].held = HeldUnits[a] BY DEF CallHolds, HeldUnits
<1>4. [a \in Attempts |-> CallHolds[a].held] = HeldUnits BY <1>3 DEF HeldUnits
<1>5. {a \in Attempts : CallHolds[a].status = "open"} = Reserved
  BY <1>2 DEF CallHolds, HoldStatus, Reserved
<1>6. Ledger!Held = SumFunctionOnSet([a \in Attempts |-> CallHolds[a].held],
                                     {a \in Attempts : CallHolds[a].status = "open"})
  BY LedgerSums DEF Ledger!Held, CallHolds
<1>7. Ledger!Held = reserved BY <1>4, <1>5, <1>6 DEF BooksInv, Holds
<1> QED BY <1>1, <1>7 DEF Ledger!Spendable, available

\* A row of a kind the ledger books is an entry of a new key; another is none.
LEMMA PostIsEnter ==
  ASSUME BooksInv, NEW kind, NEW k, NEW n \in Int, Post(kind, k, n), <<kind, k>> \notin Posted
  PROVE  /\ kind \in Booked => Ledger!Enter(<<kind, k>>, n)
         /\ kind \notin Booked => UNCHANGED Entries
<1>1. TypeOK /\ Finite BY DEF BooksInv, KeyInv
<1>2. \A e \in Entries : e.key # <<kind, k>> BY DEF Entries, Posted
<1>3. IF kind \in Booked THEN Entries' = Entries \cup {[key |-> <<kind, k>>, amount |-> n]}
                         ELSE Entries' = Entries
  BY <1>1, PostedOnce
<1> QED BY <1>2, <1>3 DEF Ledger!Enter

LedgerStep == [Ledger!Next]_(Ledger!ledger)

LEMMA LedgerStutter == ASSUME UNCHANGED <<Entries, CallHolds>> PROVE LedgerStep
BY DEF LedgerStep, Ledger!ledger, CallHolds

LEMMA LedgerRowsKept == ASSUME UNCHANGED <<transactions, reservations>> PROVE LedgerStep
<1>1. UNCHANGED <<Entries, CallHolds>> BY DEF Entries, CallHolds
<1> QED BY <1>1, LedgerStutter

LEMMA GrantLedger ==
  ASSUME InputAssumption, BooksInv, NEW c \in Callers, NEW g \in Grants, Grant(c, g)
  PROVE  LedgerStep
<1>1. Post("grant", g, GrantUnits[g]) /\ UNCHANGED reservations /\ g \notin Range(lotOrder)
  BY DEF Grant, UniqueKey, Recorded
<1>2. <<"grant", g>> \notin Posted BY <1>1 DEF BooksInv, KeyInv, KeysRecorded, Posted
<1>3. GrantUnits[g] \in Int /\ "grant" \in Booked BY DEF InputAssumption, Booked
<1>4. Ledger!Enter(<<"grant", g>>, GrantUnits[g]) BY <1>1, <1>2, <1>3, PostIsEnter
<1>5. UNCHANGED CallHolds BY <1>1 DEF CallHolds
<1>6. Ledger!Grant(g, GrantUnits[g]) BY <1>4, <1>5 DEF Ledger!Grant, CallHolds
<1>7. GrantUnits[g] \in Amounts BY AmountsOfCalls
<1> QED BY <1>6, <1>7 DEF LedgerStep, Ledger!Next, Amounts

LEMMA DebitLedger ==
  ASSUME InputAssumption, BooksInv, NEW c \in Callers, NEW d \in Debits, Debit(c, d)
  PROVE  LedgerStep
<1> DEFINE units == DebitUnits[d]
<1>1. CASE Refuse(c) BY <1>1, LedgerRowsKept DEF Refuse, rows
<1>2. CASE ~Short(units)
  <2>1. <<"debit", d>> \notin Posted /\ UNCHANGED reservations
    BY <1>2 DEF Debit, UniqueKey, Recorded
  <2>2. units \in Nat /\ -units \in Int /\ balance \in Int /\ reserved \in Nat
    BY DEF InputAssumption, BooksInv, KeyInv, TypeOK
  <2>3. UNCHANGED CallHolds BY <2>1 DEF CallHolds
  <2>4. CASE Mode = "enforce"
    <3>1. Post("debit", d, -units) BY <1>2, <2>4 DEF Debit
    <3>2. "debit" \in Booked BY <2>4 DEF Booked
    <3>3. Ledger!Enter(<<"debit", d>>, -units) BY <2>1, <2>2, <3>1, <3>2, PostIsEnter
    <3>4. units <= available BY <1>2, <2>2, <2>4 DEF Short, available
    <3>5. units <= Ledger!Spendable BY <2>4, <3>4, LedgerSpendable
    <3>6. Ledger!Debit(d, units) BY <2>3, <3>3, <3>5 DEF Ledger!Debit, CallHolds
    <3>7. units \in Amounts BY AmountsOfCalls
    <3> QED BY <3>6, <3>7 DEF LedgerStep, Ledger!Next, Amounts
  <2>5. CASE Mode # "enforce"
    <3>1. Post("debit", d, 0) /\ "debit" \notin Booked BY <1>2, <2>5 DEF Debit, Booked
    <3>2. UNCHANGED Entries BY <2>1, <3>1, PostIsEnter
    <3> QED BY <2>3, <3>2, LedgerStutter
  <2> QED BY <2>4, <2>5
<1> QED BY <1>1, <1>2 DEF Debit

LEMMA ReserveLedger ==
  ASSUME InputAssumption, BooksInv, NEW c \in Callers, NEW a \in Attempts, Reserve(c, a)
  PROVE  LedgerStep
<1> DEFINE units == ReserveUnits[a]
<1>1. CASE Refuse(c) BY <1>1, LedgerRowsKept DEF Refuse, rows
<1>2. CASE ~Short(units)
  <2>1. /\ reservations[a].status = "NONE"
        /\ reservations' = [reservations EXCEPT ![a] =
             [status |-> ReservationStatus, held |-> units, settled |-> 0]]
        /\ Post("reserve", a, 0)
    BY <1>2 DEF Reserve, UniqueKey, Recorded
  <2>2. <<"reserve", a>> \notin Posted BY <2>1 DEF BooksInv, KeyInv, KeysRecorded, Posted
  <2>3. "reserve" \notin Booked BY DEF Booked
  <2>4. UNCHANGED Entries BY <2>1, <2>2, <2>3, PostIsEnter
  <2>5. TypeOK /\ units \in Nat BY DEF InputAssumption, BooksInv, KeyInv
  <2>6. CASE Mode = "enforce"
    <3>1. CallHolds[a].status = "none" BY <2>1 DEF CallHolds, HoldStatus
    <3>2. CallHolds' = [CallHolds EXCEPT ![a] = [status |-> "open", held |-> units]]
      <4>1. \A b \in Attempts : b # a => reservations'[b] = reservations[b]
        BY <2>1, <2>5 DEF TypeOK
      <4>2. reservations'[a].status = "RESERVED" /\ reservations'[a].held = units
        BY <2>1, <2>5, <2>6 DEF TypeOK, ReservationStatus
      <4> QED BY <2>6, <4>1, <4>2 DEF CallHolds, HoldStatus
    <3>3. units <= available BY <1>2, <2>5, <2>6 DEF Short, available, TypeOK
    <3>4. units <= Ledger!Spendable BY <2>6, <3>3, LedgerSpendable
    <3>5. Ledger!Hold(a, units) BY <2>4, <3>1, <3>2, <3>4 DEF Ledger!Hold, CallHolds
    <3>6. units \in Amounts BY AmountsOfCalls
    <3> QED BY <3>5, <3>6 DEF LedgerStep, Ledger!Next, Amounts
  <2>7. CASE Mode # "enforce"
    <3>1. UNCHANGED CallHolds BY <2>7 DEF CallHolds, HoldStatus
    <3> QED BY <2>4, <3>1, LedgerStutter
  <2> QED BY <2>6, <2>7
<1> QED BY <1>1, <1>2 DEF Reserve

LEMMA RefundLedger ==
  ASSUME InputAssumption, BooksInv, NEW c \in Callers, NEW r \in Refunds, Refund(c, r)
  PROVE  LedgerStep
<1> DEFINE lots == LotsOf(RefundOf[r])
           units == SumFunction([g \in lots |-> Share(g, r)])
<1>1. CASE UNCHANGED rows BY <1>1, LedgerRowsKept DEF rows
<1>2. CASE ~(lots = {} \/ units = 0)
  <2>1. <<"refund", r>> \notin Posted /\ Post("refund", r, -units) /\ UNCHANGED reservations
    BY <1>2 DEF Refund, UniqueKey, Recorded
  <2>2. TypeOK BY DEF BooksInv, KeyInv
  <2>3. units \in Nat BY <2>2, RefundAmounts
  <2>4. units \in Shares
    <3>1. lots \in SUBSET Grants BY <2>2, LotsAreGrants DEF LotsOf
    <3> DEFINE V(q, S) == SumFunction([g \in S |-> Share(g, q)])
    <3>2. Shares = {V(q, S) : q \in Refunds, S \in SUBSET Grants} BY DEF Shares
    <3>3. units = V(r, lots) OBVIOUS
    <3> HIDE DEF V, units, lots
    <3> QED BY <3>1, <3>2, <3>3
  <2> HIDE DEF units, lots
  <2>5. -units \in Int /\ "refund" \in Booked BY <2>3 DEF Booked
  <2>6. Ledger!Enter(<<"refund", r>>, -units) BY <2>1, <2>5, PostIsEnter
  <2>7. UNCHANGED CallHolds BY <2>1 DEF CallHolds
  <2>8. Ledger!Refund(r, units) BY <2>6, <2>7 DEF Ledger!Refund, CallHolds
  <2>9. units \in Amounts BY <2>4, AmountsOfCalls
  <2> QED BY <2>8, <2>9 DEF LedgerStep, Ledger!Next, Amounts
<1> QED BY <1>1, <1>2 DEF Refund

\* In enforce mode an open reservation is an open hold, and its end is the hold's.
LEMMA EndIsEnd ==
  ASSUME BooksInv, Mode = "enforce", NEW a \in Attempts, reservations[a].status = "RESERVED",
         NEW row \in Rows, row.status \in {"SETTLED", "RELEASED"}, row.held = reservations[a].held,
         reservations' = [reservations EXCEPT ![a] = row]
  PROVE  Ledger!End(a)
<1>1. TypeOK BY DEF BooksInv, KeyInv
<1>2. CallHolds[a] = [status |-> "open", held |-> reservations[a].held]
  BY DEF CallHolds, HoldStatus
<1>3. /\ \A b \in Attempts : b # a => reservations'[b] = reservations[b]
      /\ reservations'[a] = row
  BY <1>1 DEF TypeOK
<1>4. CallHolds' = [CallHolds EXCEPT ![a] = [status |-> "ended", held |-> reservations[a].held]]
  BY <1>3 DEF CallHolds, HoldStatus
<1>5. CallHolds' = [CallHolds EXCEPT ![a].status = "ended"]
  <2>1. [CallHolds[a] EXCEPT !.status = "ended"] = [status |-> "ended", held |-> reservations[a].held]
    BY <1>2
  <2>2. [CallHolds EXCEPT ![a].status = "ended"]
          = [CallHolds EXCEPT ![a] = [CallHolds[a] EXCEPT !.status = "ended"]]
    OBVIOUS
  <2> QED BY <1>4, <2>1, <2>2
<1>6. CallHolds[a].status = "open" BY <1>2
<1> QED BY <1>5, <1>6 DEF Ledger!End, CallHolds

LEMMA SettleLedger ==
  ASSUME InputAssumption, BooksInv, NEW a \in Attempts, NEW units \in ActualUnits, Settle(a, units)
  PROVE  LedgerStep
<1> DEFINE row == [reservations[a] EXCEPT !.status = "SETTLED", !.settled = units]
<1>1. TypeOK /\ ChargedIffSettled /\ ShadowInShadowMode BY DEF BooksInv, KeyInv
<1>2. units \in Nat /\ -units \in Int BY DEF InputAssumption
<1>3. Open(a) /\ reservations' = [reservations EXCEPT ![a] = row] BY <1>1 DEF Settle, TypeOK
<1>4. row \in Rows /\ row.status = "SETTLED" /\ row.held = reservations[a].held
  BY <1>1, <1>2, EndedRow
<1> HIDE DEF row
<1>5. CASE Mode = "enforce"
  <2>1. reservations[a].status = "RESERVED" BY <1>1, <1>3, <1>5 DEF Open, ShadowInShadowMode
  <2>2. Post("settle", a, -units) BY <2>1 DEF Settle
  <2>3. <<"settle", a>> \notin Posted BY <1>1, <2>1 DEF ChargedIffSettled
  <2>4. "settle" \in Booked BY <1>5 DEF Booked
  <2>5. Ledger!Enter(<<"settle", a>>, -units) BY <1>2, <2>2, <2>3, <2>4, PostIsEnter
  <2>6. Ledger!End(a) BY <1>3, <1>4, <1>5, <2>1, EndIsEnd
  <2>7. units \in Amounts BY AmountsOfCalls
  <2> QED BY <2>5, <2>6, <2>7 DEF LedgerStep, Ledger!Next, Ledger!Charge, Amounts
<1>6. CASE Mode # "enforce"
  <2>1. UNCHANGED CallHolds BY <1>6 DEF CallHolds, HoldStatus
  <2>2. UNCHANGED Entries
    <3>1. CASE reservations[a].status = "RESERVED"
      <4>1. Post("settle", a, -units) BY <3>1 DEF Settle
      <4>2. <<"settle", a>> \notin Posted /\ "settle" \notin Booked
        BY <1>1, <1>6, <3>1 DEF ChargedIffSettled, Booked
      <4> QED BY <1>2, <4>1, <4>2, PostIsEnter
    <3>2. CASE reservations[a].status # "RESERVED" BY <3>2 DEF Settle, Entries
    <3> QED BY <3>1, <3>2
  <2> QED BY <2>1, <2>2, LedgerStutter
<1> QED BY <1>5, <1>6

LEMMA ReleaseLedger ==
  ASSUME InputAssumption, BooksInv, NEW a \in Attempts, Release(a)
  PROVE  LedgerStep
<1> DEFINE row == [reservations[a] EXCEPT !.status = "RELEASED"]
<1>1. TypeOK /\ ShadowInShadowMode BY DEF BooksInv, KeyInv
<1>2. Open(a) /\ reservations' = [reservations EXCEPT ![a] = row] /\ UNCHANGED transactions
  BY <1>1 DEF Release, TypeOK
<1>3. row \in Rows /\ row.status = "RELEASED" /\ row.held = reservations[a].held
  <2>1. 0 \in Nat OBVIOUS
  <2> QED BY <1>1, <2>1, EndedRow
<1> HIDE DEF row
<1>4. UNCHANGED Entries BY <1>2 DEF Entries
<1>5. CASE Mode = "enforce"
  <2>1. reservations[a].status = "RESERVED" BY <1>1, <1>2, <1>5 DEF Open, ShadowInShadowMode
  <2>2. Ledger!End(a) BY <1>2, <1>3, <1>5, <2>1, EndIsEnd
  <2> QED BY <1>4, <2>2 DEF LedgerStep, Ledger!Next, Ledger!Free
<1>6. CASE Mode # "enforce"
  <2>1. UNCHANGED CallHolds BY <1>6 DEF CallHolds, HoldStatus
  <2> QED BY <1>4, <2>1, LedgerStutter
<1> QED BY <1>5, <1>6

LEMMA StepOfLedger == ASSUME InputAssumption, BooksInv, [Next]_vars PROVE LedgerStep
<1>1. CASE UNCHANGED rows \/ UNCHANGED vars BY <1>1, LedgerRowsKept DEF rows, vars
<1>2. ASSUME NEW a \in Attempts, Expire(a) PROVE LedgerStep BY <1>2, LedgerRowsKept DEF Expire
<1> QED BY <1>1, <1>2, GrantLedger, DebitLedger, ReserveLedger, RefundLedger, SettleLedger,
           ReleaseLedger DEF Next, Begin, Rollback, ReleaseAbandoned

\* Every execution of the wallet is one of the ledger: the stored balance, the counter of
\* holds, the plain duplicate checks and the row lock, for any callers interleaved in any
\* way, never enter a key twice and never spend or hold beyond what the entries leave.
THEOREM WalletImplementsLedger == Spec => ImplementsLedger
<1>1. Init => Ledger!Init
  BY DEF Init, Ledger!Init, Entries, HoldStatus
<1>2. BooksInv /\ [Next]_vars => LedgerStep
  BY InputAssumption, StepOfLedger
<1>3. Init => BooksInv
  BY InputAssumption, BooksInit
<1>4. BooksInv /\ [Next]_vars => BooksInv'
  BY InputAssumption, BooksStep
<1> QED BY <1>1, <1>2, <1>3, <1>4, PTL DEF Spec, ImplementsLedger, Ledger!Spec, LedgerStep

-----------------------------------------------------------------------------
(* Yearly plans.                                                             *)

Lots == Range(lotOrder)
Statuses == {"NONE", "ACTIVE", "COMPLETED", "CANCELLED"}

Listing == {"listed", "locked", "due", "granting", "granted"}
Locking == {"locked", "due", "granting", "granted"}
Making == {"due", "granting", "granted"}

Types ==
  /\ lotOrder \in Seq(Grants)
  /\ calls \in [Callers -> CallKeys \cup {Idle}]
  /\ schedules \in [Payments -> Statuses]
  /\ completed \in [Payments -> 0 .. Releases]
  /\ nextAt \in [Payments -> Nat]
  /\ month \in Nat
  /\ lock \in [Payments -> Callers \cup {Unlocked}]
  /\ step \in [Callers -> Steps]
  /\ target \in [Callers -> Payments]
  /\ asOf \in [Callers -> Nat]
  /\ number \in [Callers -> 1 .. Releases]
  /\ boughtAt \in [Payments -> Nat]
  /\ lost \in Nat

\* What a row counts was granted, and nothing was granted before its month.
Schedule(p) ==
  /\ schedules[p] = "NONE" =>
       completed[p] = 0 /\ \A n \in 1 .. Releases : <<p, n>> \in Lots => n = 1
  /\ schedules[p] = "ACTIVE" => completed[p] < Releases
  /\ schedules[p] = "COMPLETED" => completed[p] = Releases
  /\ schedules[p] # "NONE" => completed[p] >= 1 /\ nextAt[p] >= boughtAt[p] + completed[p]
  /\ \A n \in 1 .. Releases : n <= completed[p] => <<p, n>> \in Lots
  /\ \A n \in 1 .. Releases : <<p, n>> \in Lots /\ n > 1 => month >= boughtAt[p] + n - 1

\* A run that makes a release took a time at which it was due, and found the earlier
\* releases granted.
Caller(c) ==
  /\ step[c] = "bought" => <<target[c], 1>> \in Lots
  /\ step[c] \in Listing => schedules[target[c]] # "NONE" /\ asOf[c] <= month
  /\ step[c] \in Making =>
       /\ asOf[c] >= boughtAt[target[c]] + number[c] - 1
       /\ nextAt[target[c]] >= boughtAt[target[c]] + number[c] - 1
       /\ \A n \in 1 .. Releases : n < number[c] => <<target[c], n>> \in Lots
  /\ step[c] = "granted" => <<target[c], number[c]>> \in Lots

Granting == (\A p \in Payments : Schedule(p)) /\ (\A c \in Callers : Caller(c))

\* While no connection is lost a run that has passed the lock still has it, so nobody
\* else moves its row.
InStep(p) == schedules[p] # "NONE" =>
  /\ nextAt[p] = boughtAt[p] + completed[p]
  /\ \A n \in 1 .. Releases : <<p, n>> \in Lots => n <= completed[p] + 1
Holding(c) ==
  /\ step[c] \in Locking => lock[target[c]] = c
  /\ step[c] \in Making => number[c] = completed[target[c]] + 1

Locked == lost = 0 => (\A p \in Payments : InStep(p)) /\ (\A c \in Callers : Holding(c))

Inv == Types /\ Granting /\ Locked

-----------------------------------------------------------------------------
(* What the calls of the wallet do to the lots and the schedules.            *)

LEMMA Total == Releases \in Nat /\ Releases >= 2
BY ReleaseAssumption

LEMMA PlanKeys ==
  ASSUME NEW p \in Payments, NEW n \in 1 .. Releases
  PROVE  <<p, n>> \in Grants /\ <<"grant", <<p, n>>>> \in CallKeys
<1>1. <<p, n>> \in Payments \X (1 .. Releases) /\ Grants = Payments \X (1 .. Releases)
  BY ReleaseAssumption
<1>2. <<"grant", <<p, n>>>> \in {"grant"} \X Grants
  BY <1>1
<1> QED BY <1>1, <1>2 DEF CallKeys

LEMMA IdleIsNoKey == Idle \notin CallKeys
BY DEF Idle, CallKeys

LEMMA BeginReads ==
  ASSUME Types, NEW c \in Callers, NEW key \in CallKeys, Begin(c, key)
  PROVE  /\ lotOrder' = lotOrder /\ schedules' = schedules
         /\ calls' \in [Callers -> CallKeys \cup {Idle}]
         /\ calls'[c] = Idle => Recorded(key)
BY IdleIsNoKey DEF Types, Begin, rows

LEMMA GrantAdds ==
  ASSUME Types, NEW c \in Callers, NEW g \in Grants, Grant(c, g)
  PROVE  /\ lotOrder' \in Seq(Grants) /\ Lots' = Lots \cup {g}
         /\ schedules' = schedules
         /\ calls' \in [Callers -> CallKeys \cup {Idle}]
<1>1. lotOrder' = Append(lotOrder, g) /\ lotOrder \in Seq(Grants)
  BY DEF Grant, Types
<1>2. Range(Append(lotOrder, g)) = Range(lotOrder) \cup {g}
  BY <1>1, RangeAppend
<1>3. schedules' = schedules /\ calls' = [calls EXCEPT ![c] = Idle]
  BY DEF Grant, Return
<1>4. Append(lotOrder, g) \in Seq(Grants)
  BY <1>1
<1> QED BY <1>1, <1>2, <1>3, <1>4 DEF Lots, Types

LEMMA RefundCancels ==
  ASSUME Types, NEW c \in Callers, NEW r \in Refunds, Refund(c, r)
  PROVE  /\ lotOrder' = lotOrder
         /\ schedules' \in [Payments -> Statuses]
         /\ \A p \in Payments : \/ schedules'[p] = schedules[p]
                                \/ schedules[p] = "ACTIVE" /\ schedules'[p] = "CANCELLED"
         /\ calls' \in [Callers -> CallKeys \cup {Idle}]
<1>1. /\ lotOrder' = lotOrder
      /\ calls' = [calls EXCEPT ![c] = Idle]
      /\ \/ schedules' = schedules
         \/ /\ schedules[RefundOf[r]] = "ACTIVE"
            /\ schedules' = [schedules EXCEPT ![RefundOf[r]] = "CANCELLED"]
  BY Zenon DEF Refund, Return, rows
<1> QED BY <1>1 DEF Types, Statuses

LEMMA RollbackLeaves ==
  ASSUME Types, NEW c \in Callers, Rollback(c)
  PROVE  /\ lotOrder' = lotOrder /\ schedules' = schedules
         /\ calls' \in [Callers -> CallKeys \cup {Idle}]
BY DEF Types, Rollback, Return, rows

LEMMA LotsStay == lotOrder' = lotOrder => Lots' = Lots
BY DEF Lots

-----------------------------------------------------------------------------
(* Every step keeps the invariant.                                          *)

LEMMA NextMonthKeeps ==
  ASSUME Inv, NextMonth PROVE Inv'
<1>0. Types /\ Granting /\ Locked
  BY DEF Inv
<1>1. lotOrder' = lotOrder /\ Lots' = Lots
  BY LotsStay DEF NextMonth, vars, run, budget
<1>2. Types'
  BY <1>0, <1>1, Total DEF Types, Steps, Statuses, NextMonth, vars, run, budget
<1>3. ASSUME NEW q \in Payments PROVE Schedule(q)'
  BY <1>0, <1>1, Total DEF Types, Statuses, Granting, Schedule, NextMonth, vars, run, budget
<1>4. ASSUME NEW d \in Callers PROVE Caller(d)'
  BY <1>0, <1>1, Total DEF Types, Granting, Caller, Listing, Making, NextMonth, vars, run, budget
<1>5. ASSUME lost' = 0, NEW q \in Payments PROVE InStep(q)'
  BY <1>0, <1>1, <1>5, Total DEF Types, Locked, InStep, NextMonth, vars, run, budget
<1>6. ASSUME lost' = 0, NEW d \in Callers PROVE Holding(d)'
  BY <1>0, <1>1, <1>6 DEF Types, Locked, Holding, Locking, Making, NextMonth, vars, run, budget
<1> QED BY <1>2, <1>3, <1>4, <1>5, <1>6 DEF Inv, Granting, Locked

LEMMA PurchaseKeeps ==
  ASSUME Inv, NEW c \in Callers, NEW p \in Payments, Purchase(c, p) PROVE Inv'
<1>0. Types /\ Granting /\ Locked
  BY DEF Inv
<1>1. /\ lotOrder' = lotOrder /\ Lots' = Lots /\ schedules' = schedules
      /\ calls' \in [Callers -> CallKeys \cup {Idle}]
      /\ calls'[c] = Idle => <<p, 1>> \in Lots
  <2>1. <<"grant", <<p, 1>>>> \in CallKeys
    BY PlanKeys, Total
  <2>2. Begin(c, <<"grant", <<p, 1>>>>)
    BY DEF Purchase
  <2> QED BY <1>0, <2>1, <2>2, BeginReads, LotsStay DEF Recorded, Lots
<1>2. Types'
  BY <1>0, <1>1, Total DEF Types, Steps, Statuses, Purchase, Goto, GotoAfterBegin, budget
<1>3. ASSUME NEW q \in Payments PROVE Schedule(q)'
  BY <1>0, <1>1, Total
    DEF Types, Statuses, Granting, Schedule, Purchase, Goto, GotoAfterBegin, budget
<1>4. ASSUME NEW d \in Callers PROVE Caller(d)'
  BY <1>0, <1>1, Total
    DEF Types, Granting, Caller, Listing, Making, Purchase, Goto, GotoAfterBegin, budget
<1>5. ASSUME lost' = 0, NEW q \in Payments PROVE InStep(q)'
  BY <1>0, <1>1, <1>5, Total DEF Types, Locked, InStep, Purchase, Goto, GotoAfterBegin, budget
<1>6. ASSUME lost' = 0, NEW d \in Callers PROVE Holding(d)'
  BY <1>0, <1>1, <1>6
    DEF Types, Locked, Holding, Locking, Making, Purchase, Goto, GotoAfterBegin, budget
<1> QED BY <1>2, <1>3, <1>4, <1>5, <1>6 DEF Inv, Granting, Locked

LEMMA GrantFirstKeeps ==
  ASSUME Inv, NEW c \in Callers, GrantFirst(c) PROVE Inv'
<1>0. Types /\ Granting /\ Locked
  BY DEF Inv
<1>1. /\ lotOrder' \in Seq(Grants) /\ Lots' = Lots \cup {<<target[c], 1>>}
      /\ schedules' = schedules
      /\ calls' \in [Callers -> CallKeys \cup {Idle}]
  <2>1. <<target[c], 1>> \in Grants
    <3>1. target[c] \in Payments /\ 1 \in 1 .. Releases
      BY <1>0, Total DEF Types
    <3> QED BY <3>1, PlanKeys
  <2>2. Grant(c, <<target[c], 1>>)
    BY DEF GrantFirst
  <2> QED BY <1>0, <2>1, <2>2, GrantAdds
<1>2. Types'
  BY <1>0, <1>1, Total DEF Types, Steps, Statuses, GrantFirst, Goto, budget
<1>3. ASSUME NEW q \in Payments PROVE Schedule(q)'
  BY <1>0, <1>1, Total DEF Types, Statuses, Granting, Schedule, GrantFirst, Goto, budget
<1>4. ASSUME NEW d \in Callers PROVE Caller(d)'
  BY <1>0, <1>1, Total DEF Types, Granting, Caller, Listing, Making, GrantFirst, Goto, budget
<1>5. ASSUME lost' = 0, NEW q \in Payments PROVE InStep(q)'
  BY <1>0, <1>1, <1>5, Total DEF Types, Locked, InStep, GrantFirst, Goto, budget
<1>6. ASSUME lost' = 0, NEW d \in Callers PROVE Holding(d)'
  BY <1>0, <1>1, <1>6 DEF Types, Locked, Holding, Locking, Making, GrantFirst, Goto, budget
<1> QED BY <1>2, <1>3, <1>4, <1>5, <1>6 DEF Inv, Granting, Locked

LEMMA InsertScheduleKeeps ==
  ASSUME Inv, NEW c \in Callers, InsertSchedule(c) PROVE Inv'
<1> DEFINE r == target[c]
<1>0. Types /\ Granting /\ Locked
  BY DEF Inv
<1>1. lotOrder' = lotOrder /\ Lots' = Lots
  BY LotsStay DEF InsertSchedule
<1>a. /\ step[c] = "bought" /\ step' = [step EXCEPT ![c] = "idle"]
      /\ <<r, 1>> \in Lots /\ r \in Payments
      /\ calls' = calls /\ month' = month /\ lock' = lock /\ target' = target
      /\ asOf' = asOf /\ number' = number /\ lost' = lost
  BY <1>0 DEF InsertSchedule, Goto, budget, Granting, Caller, Types
<1> HIDE DEF r
<1>b. CASE schedules[r] # "NONE"
  <2>1. schedules' = schedules /\ completed' = completed /\ nextAt' = nextAt /\ boughtAt' = boughtAt
    BY <1>b DEF InsertSchedule, schedule, r
  <2>2. Types'
    BY <1>0, <1>1, <1>a, <2>1, Total DEF Types, Steps, Statuses
  <2>3. ASSUME NEW q \in Payments PROVE Schedule(q)'
    BY <1>0, <1>1, <1>a, <2>1, Total DEF Types, Granting, Schedule
  <2>4. ASSUME NEW d \in Callers PROVE Caller(d)'
    BY <1>0, <1>1, <1>a, <2>1, Total DEF Types, Granting, Caller, Listing, Making
  <2>5. ASSUME lost' = 0, NEW q \in Payments PROVE InStep(q)'
    BY <1>0, <1>1, <1>a, <2>1, <2>5 DEF Types, Locked, InStep
  <2>6. ASSUME lost' = 0, NEW d \in Callers PROVE Holding(d)'
    BY <1>0, <1>1, <1>a, <2>1, <2>6 DEF Types, Locked, Holding, Locking, Making
  <2> QED BY <2>2, <2>3, <2>4, <2>5, <2>6 DEF Inv, Granting, Locked
<1>c. CASE schedules[r] = "NONE"
  <2>1. /\ schedules' = [schedules EXCEPT ![r] = "ACTIVE"]
        /\ completed' = [completed EXCEPT ![r] = 1]
        /\ nextAt' = [nextAt EXCEPT ![r] = month + 1]
        /\ boughtAt' = [boughtAt EXCEPT ![r] = month]
    BY <1>c DEF InsertSchedule, schedule, r
  <2>2. Types'
    BY <1>0, <1>1, <1>a, <2>1, Total DEF Types, Steps, Statuses
  <2>b. /\ schedules'[r] = "ACTIVE" /\ completed'[r] = 1
        /\ nextAt'[r] = month + 1 /\ boughtAt'[r] = month
    BY <1>0, <1>a, <2>1 DEF Types
  <2>c. \A q \in Payments \ {r} : /\ schedules'[q] = schedules[q] /\ completed'[q] = completed[q]
                                 /\ nextAt'[q] = nextAt[q] /\ boughtAt'[q] = boughtAt[q]
    BY <1>0, <2>1 DEF Types
  <2>d. \A d \in Callers : step[d] \in Listing => target[d] # r
    BY <1>0, <1>c DEF Granting, Caller
  <2>3. ASSUME NEW q \in Payments PROVE Schedule(q)'
    <3>1. CASE q = r
      <4>1. \A n \in 1 .. Releases : <<r, n>> \in Lots => n = 1
        BY <1>0, <1>a, <1>c DEF Granting, Schedule
      <4>2. \A n \in 1 .. Releases : <<r, n>> \in Lots' => n = 1
        BY <4>1, <1>1
      <4>3. \A n \in 1 .. Releases : n <= 1 => <<r, n>> \in Lots'
        BY <1>1, <1>a, Total
      <4>4. month \in Nat
        BY <1>0 DEF Types
      <4> QED BY <1>a, <2>b, <3>1, <4>2, <4>3, <4>4, Total DEF Schedule
    <3>2. CASE q # r
      BY <1>0, <1>1, <1>a, <2>c, <3>2, Total DEF Types, Granting, Schedule
    <3> QED BY <3>1, <3>2
  <2>4. ASSUME NEW d \in Callers PROVE Caller(d)'
    BY <1>0, <1>1, <1>a, <2>c, <2>d, Total DEF Types, Granting, Caller, Listing, Making
  <2>5. ASSUME lost' = 0, NEW q \in Payments PROVE InStep(q)'
    <3>1. CASE q = r
      BY <1>0, <1>1, <1>a, <1>c, <2>b, <3>1, Total DEF Types, Granting, Schedule, InStep
    <3>2. CASE q # r
      BY <1>0, <1>1, <1>a, <2>5, <2>c, <3>2 DEF Locked, InStep
    <3> QED BY <3>1, <3>2
  <2>6. ASSUME lost' = 0, NEW d \in Callers PROVE Holding(d)'
    BY <1>0, <1>1, <1>a, <2>c, <2>d, <2>6 DEF Types, Locked, Holding, Locking, Making, Listing
  <2> QED BY <2>2, <2>3, <2>4, <2>5, <2>6 DEF Inv, Granting, Locked
<1> QED BY <1>b, <1>c

LEMMA StartRefundKeeps ==
  ASSUME Inv, NEW c \in Callers, NEW r \in Refunds, StartRefund(c, r) PROVE Inv'
<1>0. Types /\ Granting /\ Locked
  BY DEF Inv
<1>1. /\ lotOrder' = lotOrder /\ Lots' = Lots /\ schedules' = schedules
      /\ calls' \in [Callers -> CallKeys \cup {Idle}]
  <2>1. <<"refund", r>> \in CallKeys
    BY DEF CallKeys
  <2>2. Begin(c, <<"refund", r>>)
    BY DEF StartRefund
  <2> QED BY <1>0, <2>1, <2>2, BeginReads, LotsStay
<1>2. Types'
  BY <1>0, <1>1, Total DEF Types, Steps, Statuses, StartRefund, Goto, GotoAfterBegin, budget
<1>3. ASSUME NEW q \in Payments PROVE Schedule(q)'
  BY <1>0, <1>1, Total
    DEF Types, Statuses, Granting, Schedule, StartRefund, Goto, GotoAfterBegin, budget
<1>4. ASSUME NEW d \in Callers PROVE Caller(d)'
  BY <1>0, <1>1, Total
    DEF Types, Granting, Caller, Listing, Making, StartRefund, Goto, GotoAfterBegin, budget
<1>5. ASSUME lost' = 0, NEW q \in Payments PROVE InStep(q)'
  BY <1>0, <1>1, <1>5, Total DEF Types, Locked, InStep, StartRefund, Goto, GotoAfterBegin, budget
<1>6. ASSUME lost' = 0, NEW d \in Callers PROVE Holding(d)'
  BY <1>0, <1>1, <1>6
    DEF Types, Locked, Holding, Locking, Making, StartRefund, Goto, GotoAfterBegin, budget
<1> QED BY <1>2, <1>3, <1>4, <1>5, <1>6 DEF Inv, Granting, Locked

LEMMA CommitRefundKeeps ==
  ASSUME Inv, NEW c \in Callers, NEW r \in Refunds, CommitRefund(c, r) PROVE Inv'
<1>0. Types /\ Granting /\ Locked
  BY DEF Inv
<1>1. /\ lotOrder' = lotOrder /\ Lots' = Lots
      /\ schedules' \in [Payments -> Statuses]
      /\ \A p \in Payments : \/ schedules'[p] = schedules[p]
                             \/ schedules[p] = "ACTIVE" /\ schedules'[p] = "CANCELLED"
      /\ calls' \in [Callers -> CallKeys \cup {Idle}]
  BY <1>0, RefundCancels, LotsStay DEF CommitRefund
<1>2. Types'
  BY <1>0, <1>1, Total DEF Types, Steps, Statuses, CommitRefund, Goto, budget
<1>3. ASSUME NEW q \in Payments PROVE Schedule(q)'
  BY <1>0, <1>1, Total DEF Types, Statuses, Granting, Schedule, CommitRefund, Goto, budget
<1>4. ASSUME NEW d \in Callers PROVE Caller(d)'
  BY <1>0, <1>1, Total DEF Types, Granting, Caller, Listing, Making, CommitRefund, Goto, budget
<1>5. ASSUME lost' = 0, NEW q \in Payments PROVE InStep(q)'
  BY <1>0, <1>1, <1>5, Total DEF Types, Locked, InStep, CommitRefund, Goto, budget
<1>6. ASSUME lost' = 0, NEW d \in Callers PROVE Holding(d)'
  BY <1>0, <1>1, <1>6 DEF Types, Locked, Holding, Locking, Making, CommitRefund, Goto, budget
<1> QED BY <1>2, <1>3, <1>4, <1>5, <1>6 DEF Inv, Granting, Locked

LEMMA ListKeeps ==
  ASSUME Inv, NEW c \in Callers, NEW p \in Payments, List(c, p) PROVE Inv'
<1>0. Types /\ Granting /\ Locked
  BY DEF Inv
<1>1. lotOrder' = lotOrder /\ Lots' = Lots
  BY LotsStay DEF List, Due, Goto, vars, budget
<1>2. Types'
  BY <1>0, <1>1, Total DEF Types, Steps, Statuses, List, Due, Goto, vars, budget
<1>3. ASSUME NEW q \in Payments PROVE Schedule(q)'
  BY <1>0, <1>1, Total DEF Types, Statuses, Granting, Schedule, List, Due, Goto, vars, budget
<1>4. ASSUME NEW d \in Callers PROVE Caller(d)'
  BY <1>0, <1>1, Total DEF Types, Granting, Caller, Listing, Making, List, Due, Goto, vars, budget
<1>5. ASSUME lost' = 0, NEW q \in Payments PROVE InStep(q)'
  BY <1>0, <1>1, <1>5, Total DEF Types, Locked, InStep, List, Due, Goto, vars, budget
<1>6. ASSUME lost' = 0, NEW d \in Callers PROVE Holding(d)'
  BY <1>0, <1>1, <1>6 DEF Types, Locked, Holding, Locking, Making, List, Due, Goto, vars, budget
<1> QED BY <1>2, <1>3, <1>4, <1>5, <1>6 DEF Inv, Granting, Locked

LEMMA TakeLockKeeps ==
  ASSUME Inv, NEW c \in Callers, TakeLock(c) PROVE Inv'
<1>0. Types /\ Granting /\ Locked
  BY DEF Inv
<1>1. lotOrder' = lotOrder /\ Lots' = Lots
  BY LotsStay DEF TakeLock, Goto, vars, budget
<1>2. Types'
  BY <1>0, <1>1, Total DEF Types, Steps, Statuses, TakeLock, Goto, vars, budget
<1>3. ASSUME NEW q \in Payments PROVE Schedule(q)'
  BY <1>0, <1>1, Total DEF Types, Statuses, Granting, Schedule, TakeLock, Goto, vars, budget
<1>4. ASSUME NEW d \in Callers PROVE Caller(d)'
  BY <1>0, <1>1, Total DEF Types, Granting, Caller, Listing, Making, TakeLock, Goto, vars, budget
<1>5. ASSUME lost' = 0, NEW q \in Payments PROVE InStep(q)'
  BY <1>0, <1>1, <1>5, Total DEF Types, Locked, InStep, TakeLock, Goto, vars, budget
<1>6. ASSUME lost' = 0, NEW d \in Callers PROVE Holding(d)'
  <2>1. /\ step[c] = "listed" /\ step' = [step EXCEPT ![c] = "locked"] /\ lock[target[c]] = Unlocked
        /\ lock' = [lock EXCEPT ![target[c]] = c]
        /\ target' = target /\ number' = number /\ completed' = completed /\ lost' = lost
    BY DEF TakeLock, Goto, budget
  <2>2. Unlocked \notin Callers
    BY ReleaseAssumption
  <2>3. Holding(d)
    BY <1>0, <1>6, <2>1 DEF Locked
  <2>4. CASE d = c
    BY <1>0, <2>1, <2>4 DEF Types, Holding, Locking, Making
  <2>5. CASE d # c
    BY <1>0, <2>1, <2>2, <2>3, <2>5 DEF Types, Holding
  <2> QED BY <2>4, <2>5
<1> QED BY <1>2, <1>3, <1>4, <1>5, <1>6 DEF Inv, Granting, Locked

LEMMA GiveUpKeeps ==
  ASSUME Inv, NEW c \in Callers, GiveUp(c) PROVE Inv'
<1>0. Types /\ Granting /\ Locked
  BY DEF Inv
<1>1. lotOrder' = lotOrder /\ Lots' = Lots
  BY LotsStay DEF GiveUp, Goto, vars, budget
<1>2. Types'
  BY <1>0, <1>1, Total DEF Types, Steps, Statuses, GiveUp, Goto, vars, budget
<1>3. ASSUME NEW q \in Payments PROVE Schedule(q)'
  BY <1>0, <1>1, Total DEF Types, Statuses, Granting, Schedule, GiveUp, Goto, vars, budget
<1>4. ASSUME NEW d \in Callers PROVE Caller(d)'
  BY <1>0, <1>1, Total DEF Types, Granting, Caller, Listing, Making, GiveUp, Goto, vars, budget
<1>5. ASSUME lost' = 0, NEW q \in Payments PROVE InStep(q)'
  BY <1>0, <1>1, <1>5, Total DEF Types, Locked, InStep, GiveUp, Goto, vars, budget
<1>6. ASSUME lost' = 0, NEW d \in Callers PROVE Holding(d)'
  BY <1>0, <1>1, <1>6 DEF Types, Locked, Holding, Locking, Making, GiveUp, Goto, vars, budget
<1> QED BY <1>2, <1>3, <1>4, <1>5, <1>6 DEF Inv, Granting, Locked

LEMMA ReReadKeeps ==
  ASSUME Inv, NEW c \in Callers, ReRead(c) PROVE Inv'
<1> DEFINE r == target[c]
<1>0. Types /\ Granting /\ Locked
  BY DEF Inv
<1>1. lotOrder' = lotOrder /\ Lots' = Lots
  BY LotsStay DEF ReRead, vars
<1>a. /\ step[c] = "locked" /\ r \in Payments
      /\ schedules' = schedules /\ completed' = completed
      /\ nextAt' = nextAt /\ boughtAt' = boughtAt
      /\ calls' = calls /\ month' = month /\ target' = target
      /\ asOf' = asOf /\ lost' = lost
  BY <1>0 DEF ReRead, budget, vars, Types
<1> HIDE DEF r
<1>3. ASSUME NEW q \in Payments PROVE Schedule(q)'
  BY <1>0, <1>1, <1>a, Total DEF Types, Granting, Schedule
<1>5. ASSUME lost' = 0, NEW q \in Payments PROVE InStep(q)'
  BY <1>0, <1>1, <1>a, <1>5, Total DEF Locked, InStep
<1>b. CASE schedules[r] = "ACTIVE" /\ nextAt[r] <= asOf[c]
  <2>1. /\ number' = [number EXCEPT ![c] = completed[r] + 1]
        /\ step' = [step EXCEPT ![c] = "due"] /\ lock' = lock
    BY <1>b DEF ReRead, StillDue, Due, Goto, r
  <2>2. completed[r] + 1 \in 1 .. Releases /\ nextAt[r] >= boughtAt[r] + completed[r]
    BY <1>0, <1>a, <1>b, Total DEF Types, Granting, Schedule
  <2>3. Types'
    BY <1>0, <1>1, <1>a, <2>1, <2>2, Total DEF Types, Steps, Statuses
  <2>4. ASSUME NEW d \in Callers PROVE Caller(d)'
    <3>1. CASE d = c
      <4>1. /\ step'[d] = "due" /\ number'[d] = completed[r] + 1 
            /\ target'[d] = r /\ asOf'[d] = asOf[c]
        BY <1>0, <1>a, <2>1, <3>1 DEF Types, r
      <4>2. \A n \in 1 .. Releases : n < completed[r] + 1 => <<r, n>> \in Lots
        BY <1>0, <1>a DEF Types, Granting, Schedule
      <4>3. asOf[c] <= month
        BY <1>0, <1>a DEF Granting, Caller, Listing
      <4>4. asOf[c] >= boughtAt[r] + completed[r]
        <5>1. asOf[c] \in Nat /\ boughtAt[r] \in Nat /\ completed[r] \in Nat /\ nextAt[r] \in Nat
          BY <1>0, <1>a, Total DEF Types
        <5> QED BY <5>1, <1>b, <2>2
      <4> QED BY <1>0, <1>1, <1>a, <1>b, <2>2, <4>1, <4>2, <4>3, <4>4
        DEF Types, Caller, Listing, Making
    <3>2. CASE d # c
      BY <1>0, <1>1, <1>a, <2>1, <3>2 DEF Types, Granting, Caller
    <3> QED BY <3>1, <3>2
  <2>5. ASSUME lost' = 0, NEW d \in Callers PROVE Holding(d)'
    BY <1>0, <1>a, <2>1, <2>5 DEF Types, Locked, Holding, Locking, Making, r
  <2> QED BY <1>3, <1>5, <2>3, <2>4, <2>5 DEF Inv, Granting, Locked
<1>c. CASE ~(schedules[r] = "ACTIVE" /\ nextAt[r] <= asOf[c])
  <2>1. number' = number /\ step' = [step EXCEPT ![c] = "idle"] /\ lock' = LocksWithout(c)
    BY <1>c DEF ReRead, StillDue, Due, Goto, r
  <2>3. Types'
    BY <1>0, <1>1, <1>a, <2>1 DEF Types, Steps, Statuses, LocksWithout
  <2>4. ASSUME NEW d \in Callers PROVE Caller(d)'
    BY <1>0, <1>1, <1>a, <2>1 DEF Types, Granting, Caller, Listing, Making
  <2>5. ASSUME lost' = 0, NEW d \in Callers PROVE Holding(d)'
    BY <1>0, <1>a, <2>1, <2>5 DEF Types, Locked, Holding, Locking, Making, LocksWithout
  <2> QED BY <1>3, <1>5, <2>3, <2>4, <2>5 DEF Inv, Granting, Locked
<1> QED BY <1>b, <1>c

LEMMA StartReleaseKeeps ==
  ASSUME Inv, NEW c \in Callers, StartRelease(c) PROVE Inv'
<1>0. Types /\ Granting /\ Locked
  BY DEF Inv
<1>1. /\ lotOrder' = lotOrder /\ Lots' = Lots /\ schedules' = schedules
      /\ calls' \in [Callers -> CallKeys \cup {Idle}]
      /\ calls'[c] = Idle => <<target[c], number[c]>> \in Lots
  <2>1. <<"grant", <<target[c], number[c]>>>> \in CallKeys
    BY <1>0, PlanKeys DEF Types
  <2>2. Begin(c, <<"grant", <<target[c], number[c]>>>>)
    BY DEF StartRelease
  <2> QED BY <1>0, <2>1, <2>2, BeginReads, LotsStay DEF Recorded, Lots
<1>2. Types'
  BY <1>0, <1>1, Total DEF Types, Steps, Statuses, StartRelease, Goto, GotoAfterBegin, budget
<1>3. ASSUME NEW q \in Payments PROVE Schedule(q)'
  BY <1>0, <1>1, Total
    DEF Types, Statuses, Granting, Schedule, StartRelease, Goto, GotoAfterBegin, budget
<1>4. ASSUME NEW d \in Callers PROVE Caller(d)'
  BY <1>0, <1>1, Total
    DEF Types, Granting, Caller, Listing, Making, StartRelease, Goto, GotoAfterBegin, budget
<1>5. ASSUME lost' = 0, NEW q \in Payments PROVE InStep(q)'
  BY <1>0, <1>1, <1>5, Total DEF Types, Locked, InStep, StartRelease, Goto, GotoAfterBegin, budget
<1>6. ASSUME lost' = 0, NEW d \in Callers PROVE Holding(d)'
  BY <1>0, <1>1, <1>6
    DEF Types, Locked, Holding, Locking, Making, StartRelease, Goto, GotoAfterBegin, budget
<1> QED BY <1>2, <1>3, <1>4, <1>5, <1>6 DEF Inv, Granting, Locked

LEMMA GrantReleaseKeeps ==
  ASSUME Inv, NEW c \in Callers, GrantRelease(c) PROVE Inv'
<1>0. Types /\ Granting /\ Locked
  BY DEF Inv
<1>1. /\ lotOrder' \in Seq(Grants) /\ Lots' = Lots \cup {<<target[c], number[c]>>}
      /\ schedules' = schedules
      /\ calls' \in [Callers -> CallKeys \cup {Idle}]
  <2>1. <<target[c], number[c]>> \in Grants
    BY <1>0, PlanKeys, Total DEF Types
  <2>2. Grant(c, <<target[c], number[c]>>)
    BY DEF GrantRelease
  <2> QED BY <1>0, <2>1, <2>2, GrantAdds
<1>2. Types'
  BY <1>0, <1>1, Total DEF Types, Steps, Statuses, GrantRelease, Goto, budget
<1>a. step[c] = "granting" /\ target[c] \in Payments /\ number[c] \in 1 .. Releases
  BY <1>0 DEF GrantRelease, Types
<1>b. /\ schedules[target[c]] # "NONE" /\ asOf[c] <= month
      /\ asOf[c] >= boughtAt[target[c]] + number[c] - 1
  BY <1>0, <1>a DEF Granting, Caller, Listing, Making
<1>c. month >= boughtAt[target[c]] + number[c] - 1
  BY <1>0, <1>a, <1>b DEF Types
<1>d. /\ completed' = completed /\ nextAt' = nextAt /\ boughtAt' = boughtAt /\ month' = month
  BY DEF GrantRelease
<1>e. \A q \in Payments, n \in 1 .. Releases :
        <<q, n>> \in Lots' <=> <<q, n>> \in Lots \/ (q = target[c] /\ n = number[c])
  BY <1>1
<1>3. ASSUME NEW q \in Payments PROVE Schedule(q)'
  <2>1. Schedule(q)
    BY <1>0 DEF Granting
  <2>2. \A n \in 1 .. Releases : <<q, n>> \in Lots' /\ n > 1 => month >= boughtAt[q] + n - 1
    BY <2>1, <1>c, <1>e DEF Schedule
  <2>3. schedules[q] = "NONE" =>
          completed[q] = 0 /\ \A n \in 1 .. Releases : <<q, n>> \in Lots' => n = 1
    BY <2>1, <1>b, <1>e DEF Schedule
  <2>4. \A n \in 1 .. Releases : n <= completed[q] => <<q, n>> \in Lots'
    BY <2>1, <1>e DEF Schedule
  <2> QED BY <1>1, <1>d, <2>1, <2>2, <2>3, <2>4 DEF Schedule
<1>4. ASSUME NEW d \in Callers PROVE Caller(d)'
  BY <1>0, <1>1, Total DEF Types, Granting, Caller, Listing, Making, GrantRelease, Goto, budget
<1>5. ASSUME lost' = 0, NEW q \in Payments PROVE InStep(q)'
  BY <1>0, <1>1, <1>5, Total
    DEF Types, Locked, InStep, Holding, Locking, Making, GrantRelease, Goto, budget
<1>6. ASSUME lost' = 0, NEW d \in Callers PROVE Holding(d)'
  BY <1>0, <1>1, <1>6 DEF Types, Locked, Holding, Locking, Making, GrantRelease, Goto, budget
<1> QED BY <1>2, <1>3, <1>4, <1>5, <1>6 DEF Inv, Granting, Locked

LEMMA AdvanceKeeps ==
  ASSUME Inv, NEW c \in Callers, Advance(c) PROVE Inv'
<1> DEFINE r == target[c]
           m == number[c]
<1>0. Types /\ Granting /\ Locked
  BY DEF Inv
<1>1. lotOrder' = lotOrder /\ Lots' = Lots
  BY LotsStay DEF Advance
<1>2. /\ step[c] = "granted" /\ step' = [step EXCEPT ![c] = "idle"]
      /\ completed' = [completed EXCEPT ![r] = m]
      /\ nextAt' = [nextAt EXCEPT ![r] = nextAt[r] + 1]
      /\ schedules' = [schedules EXCEPT ![r] = IF m >= Releases THEN "COMPLETED" ELSE "ACTIVE"]
      /\ lock' = LocksWithout(c)
      /\ calls' = calls /\ month' = month /\ target' = target
      /\ asOf' = asOf /\ number' = number /\ boughtAt' = boughtAt /\ lost' = lost
  BY DEF Advance, Complete, Goto, budget
<1>3. r \in Payments /\ m \in 1 .. Releases
  BY <1>0 DEF Types
<1>4. /\ schedules[r] # "NONE" /\ nextAt[r] >= boughtAt[r] + m - 1
      /\ \A n \in 1 .. Releases : n < m => <<r, n>> \in Lots
      /\ <<r, m>> \in Lots
  BY <1>0, <1>2 DEF Granting, Caller, Listing, Making
<1>5. lost = 0 => lock[r] = c /\ m = completed[r] + 1
  BY <1>0, <1>2 DEF Locked, Holding, Locking, Making
<1> HIDE DEF r, m
<1>6. /\ completed'[r] = m /\ nextAt'[r] = nextAt[r] + 1
      /\ schedules'[r] = IF m >= Releases THEN "COMPLETED" ELSE "ACTIVE"
  BY <1>0, <1>2, <1>3 DEF Types
<1>7. \A q \in Payments \ {r} : /\ schedules'[q] = schedules[q] /\ completed'[q] = completed[q]
                               /\ nextAt'[q] = nextAt[q]
  BY <1>0, <1>2 DEF Types
<1>8. Types'
  BY <1>0, <1>1, <1>2, <1>3, Total DEF Types, Steps, Statuses, LocksWithout
<1>n. nextAt[r] \in Nat /\ boughtAt[r] \in Nat /\ m \in Nat /\ completed[r] \in Nat
  BY <1>0, <1>3, Total DEF Types
<1>9. ASSUME NEW q \in Payments PROVE Schedule(q)'
  <2>1. CASE q = r
    <3>1. m >= Releases => m = Releases
      BY <1>3, Total
    <3>2. \A n \in 1 .. Releases : n <= m => <<r, n>> \in Lots'
      BY <1>1, <1>3, <1>4, Total
    <3>3. \A n \in 1 .. Releases : <<r, n>> \in Lots' /\ n > 1 => month >= boughtAt[r] + n - 1
      BY <1>0, <1>1, <1>3 DEF Granting, Schedule
    <3>4. nextAt[r] + 1 >= boughtAt[r] + m
      BY <1>4, <1>n
    <3> QED BY <1>2, <1>3, <1>6, <2>1, <3>1, <3>2, <3>3, <3>4, Total DEF Schedule
  <2>2. CASE q # r
    BY <1>0, <1>1, <1>2, <1>7, <2>2 DEF Granting, Schedule
  <2> QED BY <2>1, <2>2
<1>10. ASSUME NEW d \in Callers PROVE Caller(d)'
  <2>1. CASE d = c
    BY <1>0, <1>2, <2>1 DEF Types, Caller, Listing, Making
  <2>2. CASE d # c
    <3>1. Caller(d) /\ step'[d] = step[d] /\ target[d] \in Payments
      BY <1>0, <1>2, <2>2 DEF Types, Granting
    <3>2. /\ schedules[target[d]] # "NONE" => schedules'[target[d]] # "NONE"
          /\ nextAt'[target[d]] \in {nextAt[target[d]], nextAt[target[d]] + 1}
          /\ nextAt[target[d]] \in Nat /\ number[d] \in Nat /\ boughtAt[target[d]] \in Nat
      BY <1>0, <1>6, <1>7, <3>1, Total DEF Types
    <3> QED BY <1>1, <1>2, <3>1, <3>2 DEF Caller, Listing, Making
  <2> QED BY <2>1, <2>2
<1>11. ASSUME lost' = 0, NEW q \in Payments PROVE InStep(q)'
  <2>1. CASE q = r
    <3>1. /\ nextAt[r] = boughtAt[r] + completed[r]
          /\ \A n \in 1 .. Releases : <<r, n>> \in Lots => n <= completed[r] + 1
      BY <1>0, <1>2, <1>3, <1>4, <1>11 DEF Locked, InStep
    <3>2. m = completed[r] + 1
      BY <1>2, <1>5, <1>11
    <3>3. nextAt[r] + 1 = boughtAt[r] + m
      BY <1>n, <3>1, <3>2
    <3>4. \A n \in 1 .. Releases : <<r, n>> \in Lots' => n <= m + 1
      BY <1>1, <1>n, <3>1, <3>2, Total
    <3> QED BY <1>2, <1>6, <2>1, <3>3, <3>4 DEF InStep
  <2>2. CASE q # r
    BY <1>0, <1>1, <1>2, <1>7, <1>11, <2>2 DEF Locked, InStep
  <2> QED BY <2>1, <2>2
<1>12. ASSUME lost' = 0, NEW d \in Callers PROVE Holding(d)'
  <2>1. CASE d = c
    BY <1>0, <1>2, <2>1 DEF Types, Holding, Locking, Making
  <2>2. CASE d # c
    <3>1. Holding(d) /\ lock[r] = c
      BY <1>0, <1>2, <1>5, <1>12 DEF Locked
    <3>2. step[d] \in Locking => target[d] # r /\ lock[target[d]] = d
      BY <2>2, <3>1 DEF Holding
    <3> QED BY <1>0, <1>2, <1>3, <1>7, <2>2, <3>1, <3>2
      DEF Types, Holding, Locking, Making, LocksWithout
  <2> QED BY <2>1, <2>2
<1> QED BY <1>8, <1>9, <1>10, <1>11, <1>12 DEF Inv, Granting, Locked

LEMMA FailKeeps ==
  ASSUME Inv, NEW c \in Callers, Fail(c) PROVE Inv'
<1>0. Types /\ Granting /\ Locked
  BY DEF Inv
<1>1. /\ lotOrder' = lotOrder /\ Lots' = Lots /\ schedules' = schedules
      /\ calls' \in [Callers -> CallKeys \cup {Idle}]
  BY <1>0, RollbackLeaves, LotsStay DEF Fail, Types, vars
<1>2. Types'
  BY <1>0, <1>1, Total DEF Types, Steps, Statuses, Fail, Goto, LocksWithout, vars, budget
<1>3. ASSUME NEW q \in Payments PROVE Schedule(q)'
  BY <1>0, <1>1, Total
    DEF Types, Statuses, Granting, Schedule, Fail, Goto, LocksWithout, vars, budget
<1>4. ASSUME NEW d \in Callers PROVE Caller(d)'
  BY <1>0, <1>1, Total
    DEF Types, Granting, Caller, Listing, Making, Fail, Goto, LocksWithout, vars, budget
<1>5. ASSUME lost' = 0, NEW q \in Payments PROVE InStep(q)'
  BY <1>0, <1>1, <1>5, Total DEF Types, Locked, InStep, Fail, Goto, LocksWithout, vars, budget
<1>6. ASSUME lost' = 0, NEW d \in Callers PROVE Holding(d)'
  BY <1>0, <1>1, <1>6
    DEF Types, Locked, Holding, Locking, Making, Fail, Goto, LocksWithout, vars, budget
<1> QED BY <1>2, <1>3, <1>4, <1>5, <1>6 DEF Inv, Granting, Locked

LEMMA RefusedKeeps ==
  ASSUME Inv, NEW c \in Callers, Refused(c) PROVE Inv'
<1>0. Types /\ Granting /\ Locked
  BY DEF Inv
<1>1. /\ lotOrder' = lotOrder /\ Lots' = Lots /\ schedules' = schedules
      /\ calls' \in [Callers -> CallKeys \cup {Idle}]
  BY <1>0, RollbackLeaves, LotsStay DEF Refused, Types, vars
<1>2. Types'
  BY <1>0, <1>1, Total DEF Types, Steps, Statuses, Refused, Goto, LocksWithout, budget
<1>3. ASSUME NEW q \in Payments PROVE Schedule(q)'
  BY <1>0, <1>1, Total DEF Types, Statuses, Granting, Schedule, Refused, Goto, LocksWithout, budget
<1>4. ASSUME NEW d \in Callers PROVE Caller(d)'
  BY <1>0, <1>1, Total
    DEF Types, Granting, Caller, Listing, Making, Refused, Goto, LocksWithout, budget
<1>5. ASSUME lost' = 0, NEW q \in Payments PROVE InStep(q)'
  BY <1>0, <1>1, <1>5, Total DEF Types, Locked, InStep, Refused, Goto, LocksWithout, budget
<1>6. ASSUME lost' = 0, NEW d \in Callers PROVE Holding(d)'
  BY <1>0, <1>1, <1>6
    DEF Types, Locked, Holding, Locking, Making, Refused, Goto, LocksWithout, budget
<1> QED BY <1>2, <1>3, <1>4, <1>5, <1>6 DEF Inv, Granting, Locked

LEMMA LoseConnectionKeeps ==
  ASSUME Inv, NEW c \in Callers, LoseConnection(c) PROVE Inv'
<1>0. Types /\ Granting /\ Locked
  BY DEF Inv
<1>1. lotOrder' = lotOrder /\ Lots' = Lots
  BY LotsStay DEF LoseConnection, LocksWithout, vars, run
<1>2. Types'
  BY <1>0, <1>1, Total DEF Types, Steps, Statuses, LoseConnection, LocksWithout, vars, run
<1>3. ASSUME NEW q \in Payments PROVE Schedule(q)'
  BY <1>0, <1>1, Total
    DEF Types, Statuses, Granting, Schedule, LoseConnection, LocksWithout, vars, run
<1>4. ASSUME NEW d \in Callers PROVE Caller(d)'
  BY <1>0, <1>1, Total
    DEF Types, Granting, Caller, Listing, Making, LoseConnection, LocksWithout, vars, run
<1>5. ASSUME lost' = 0, NEW q \in Payments PROVE InStep(q)'
  BY <1>0, <1>1, <1>5, Total DEF Types, Locked, InStep, LoseConnection, LocksWithout, vars, run
<1>6. ASSUME lost' = 0, NEW d \in Callers PROVE Holding(d)'
  BY <1>0, <1>1, <1>6
    DEF Types, Locked, Holding, Locking, Making, LoseConnection, LocksWithout, vars, run
<1> QED BY <1>2, <1>3, <1>4, <1>5, <1>6 DEF Inv, Granting, Locked

-----------------------------------------------------------------------------
(* The invariant and what follows from it.                                   *)

LEMMA InvInit == ReleasesInit => Inv
<1> SUFFICES ASSUME ReleasesInit PROVE Inv
  OBVIOUS
<1>1. Lots = {} /\ lotOrder \in Seq(Grants)
  BY DEF ReleasesInit, Init, Lots, Range
<1>2. Types
  BY <1>1, Total DEF ReleasesInit, Init, Types, Steps, Statuses
<1>3. /\ \A p \in Payments : schedules[p] = "NONE" /\ completed[p] = 0
      /\ \A c \in Callers : step[c] = "idle"
  BY DEF ReleasesInit, Init
<1>4. Granting
  BY <1>1, <1>2, <1>3, Total DEF Types, Granting, Schedule, Caller, Listing, Making
<1>5. Locked
  BY <1>3 DEF Locked, InStep, Holding, Locking, Making
<1> QED BY <1>2, <1>4, <1>5 DEF Inv

LEMMA InvStutters == Inv /\ UNCHANGED allVars => Inv'
<1> SUFFICES ASSUME Inv, UNCHANGED allVars PROVE Inv'
  OBVIOUS
<1>1. /\ lotOrder' = lotOrder /\ Lots' = Lots /\ schedules' = schedules /\ calls' = calls
      /\ completed' = completed /\ nextAt' = nextAt /\ month' = month /\ lock' = lock
      /\ step' = step /\ target' = target /\ asOf' = asOf /\ number' = number
      /\ boughtAt' = boughtAt /\ lost' = lost
  BY LotsStay DEF allVars, vars, releaseVars, run, budget
<1> QED BY <1>1 DEF Inv, Types, Granting, Schedule, Caller, Locked, InStep, Holding

LEMMA InvStep == Inv /\ [ReleasesNext]_allVars => Inv'
<1> SUFFICES ASSUME Inv, [ReleasesNext]_allVars PROVE Inv'
  OBVIOUS
<1>1. CASE UNCHANGED allVars
  BY <1>1, InvStutters
<1>2. CASE NextMonth
  BY <1>2, NextMonthKeeps
<1>3. ASSUME NEW c \in Callers, NEW p \in Payments, Purchase(c, p) \/ List(c, p) PROVE Inv'
  BY <1>3, PurchaseKeeps, ListKeeps
<1>4. ASSUME NEW c \in Callers, GrantFirst(c) \/ InsertSchedule(c) PROVE Inv'
  BY <1>4, GrantFirstKeeps, InsertScheduleKeeps
<1>5. ASSUME NEW c \in Callers, NEW r \in Refunds, StartRefund(c, r) \/ CommitRefund(c, r)
      PROVE  Inv'
  BY <1>5, StartRefundKeeps, CommitRefundKeeps
<1>6. ASSUME NEW c \in Callers, CronStep(c) PROVE Inv'
  BY <1>6, TakeLockKeeps, GiveUpKeeps, ReReadKeeps, StartReleaseKeeps, GrantReleaseKeeps,
     AdvanceKeeps DEF CronStep
<1>7. ASSUME NEW c \in Callers, Fail(c) \/ Refused(c) \/ LoseConnection(c) PROVE Inv'
  BY <1>7, FailKeeps, RefusedKeeps, LoseConnectionKeeps
<1> QED BY <1>1, <1>2, <1>3, <1>4, <1>5, <1>6, <1>7 DEF ReleasesNext

LEMMA InvHolds == ReleasesSpec => []Inv
BY InvInit, InvStep, PTL DEF ReleasesSpec

\* No release of a yearly plan comes before its month: whoever makes release n read, under
\* the lock or not, a row that was due at a time taken n - 1 months after the purchase or
\* later (provisionDueOrganizationCreditReleases re-reads the row with the time of the run).
THEOREM ReleasedInItsMonth == ReleasesSpec => []NeverEarly
<1>1. Inv => NeverEarly
  BY DEF Inv, Granting, Schedule, NeverEarly, Granted, Lots
<1> QED BY <1>1, InvHolds, PTL

\* A release that releases_completed counts was granted, and a schedule is COMPLETED only
\* with all of them: the grant comes before the UPDATE, and a run that finds release n due
\* found the n - 1 before it granted.
THEOREM CountedWasGranted == ReleasesSpec => []NothingSkipped
<1>1. Inv => NothingSkipped
  <2> SUFFICES ASSUME Inv, NEW p \in Payments
               PROVE  /\ 1 .. completed[p] \subseteq Granted(p)
                      /\ schedules[p] = "COMPLETED" => completed[p] = Releases
    BY DEF NothingSkipped
  <2>1. completed[p] \in 0 .. Releases /\ Schedule(p)
    BY DEF Inv, Types, Granting
  <2> QED BY <2>1, Total DEF Schedule, Granted, Lots
<1> QED BY <1>1, InvHolds, PTL

\* As long as no lock connection is lost the date of a row is its purchase plus what it
\* counts, and at most one grant runs ahead of it (withNamedLock around re-read, grant and
\* UPDATE).
THEOREM LockedRowsMoveInStep == ReleasesSpec => []ScheduleInStep
<1>1. Inv => ScheduleInStep
  <2> SUFFICES ASSUME Inv, lost = 0, NEW p \in Payments, schedules[p] # "NONE"
               PROVE  /\ nextAt[p] = boughtAt[p] + completed[p]
                      /\ Granted(p) \subseteq 1 .. completed[p] + 1
    BY DEF ScheduleInStep
  <2>1. InStep(p) /\ completed[p] \in 0 .. Releases
    BY DEF Inv, Types, Locked
  <2> QED BY <2>1, Total DEF InStep, Granted, Lots
<1> QED BY <1>1, InvHolds, PTL
=============================================================================
