-------------------------- MODULE Referrals_proofs --------------------------
(***************************************************************************)
(* Proofs about Referrals for any users, payments, processes, number of    *)
(* slots and of failures.                                                  *)
(***************************************************************************)
EXTENDS Referrals, FiniteSetTheorems, TLAPS

\* Referrals keep their types, in particular what each process is working on.
THEOREM TypeCorrect == Spec => []TypeOK
<1>1. Init => TypeOK
  BY ReferralsAssumption DEF Init, TypeOK
<1>2. TypeOK /\ [Next]_vars => TypeOK'
  <2> SUFFICES ASSUME TypeOK, [Next]_vars PROVE TypeOK'
    OBVIOUS
  <2> USE ReferralsAssumption
  <2>1. ASSUME NEW u \in Users, Lapse(u) PROVE TypeOK'
    BY <2>1 DEF TypeOK, Lapse, payments
  <2>2. ASSUME NEW w \in Workers, NEW u \in Users, Apply(w, u) PROVE TypeOK'
    BY <2>2 DEF TypeOK, Apply, Begin, Goto, attributions, payments
  <2>3. ASSUME NEW p \in Payments, Pay(p) PROVE TypeOK'
    BY <2>3 DEF TypeOK, Pay, attributions
  <2>4. ASSUME NEW w \in Workers, NEW p \in Payments, Checkout(w, p) PROVE TypeOK'
    BY <2>4 DEF TypeOK, Checkout, Begin, Goto, attributions, payments
  <2>5. ASSUME NEW w \in Workers, NEW p \in Payments, Fulfill(w, p) PROVE TypeOK'
    BY <2>5 DEF TypeOK, Fulfill, Begin, Goto, attributions, payments
  <2>6. ASSUME NEW w \in Workers, Work(w) PROVE TypeOK'
    <3>1. CASE CountSlots(w)
      BY <3>1 DEF TypeOK, CountSlots, Leave, Goto, attributions, payments
    <3>2. CASE ReadClaim(w)
      BY <3>2 DEF TypeOK, ReadClaim, ExpireStale, Leave, Goto, payments
    <3>3. CASE Insert(w)
      BY <3>3 DEF TypeOK, Insert, Leave, Goto, payments
    <3>4. CASE ReadAttribution(w)
      BY <3>4 DEF TypeOK, ReadAttribution, ExpireStale, IsActive, Goto, payments
    <3>5. CASE OpenIntent(w)
      BY <3>5 DEF TypeOK, OpenIntent, Leave, Goto, attributions
    <3>6. CASE ReadExisting(w)
      BY <3>6 DEF TypeOK, ReadExisting, Goto, attributions, payments
    <3>7. CASE ReadPending(w)
      BY <3>7 DEF TypeOK, ReadPending, ExpireStale, Goto, payments
    <3>8. CASE Reward(w)
      BY <3>8 DEF TypeOK, Reward, Goto, attributions
    <3>9. CASE Convert(w)
      BY <3>9 DEF TypeOK, Convert, Goto, payments
    <3>10. CASE Invoice(w)
      BY <3>10 DEF TypeOK, Invoice, Leave, Goto, LocksWithout, attributions
    <3>11. QED
      BY <2>6, <3>1, <3>2, <3>3, <3>4, <3>5, <3>6, <3>7, <3>8, <3>9, <3>10 DEF Work
  <2>7. ASSUME NEW w \in Workers, Fail(w) PROVE TypeOK'
    BY <2>7 DEF TypeOK, Fail, Leave, Goto, LocksWithout, attributions, payments
  <2>8. CASE UNCHANGED vars
    BY <2>8 DEF TypeOK, vars, attributions, payments
  <2>9. QED
    BY <2>1, <2>2, <2>3, <2>4, <2>5, <2>6, <2>7, <2>8 DEF Next
<1>3. QED
  BY <1>1, <1>2, PTL DEF Spec

-----------------------------------------------------------------------------
(* An attribution settles once.  Types are all this needs: only a missing or *)
(* a pending row is ever written.                                            *)

Settled(u) == status[u] \in {"converted", "expired"}

LEMMA SettledStep ==
  ASSUME TypeOK, [Next]_vars, NEW u \in Users
  PROVE  /\ Settled(u) => status'[u] = status[u] /\ firstPayment'[u] = firstPayment[u]
         /\ status[u] # "none" => status'[u] # "none"
<1> DEFINE Kept == /\ Settled(u) => status'[u] = status[u] /\ firstPayment'[u] = firstPayment[u]
                   /\ status[u] # "none" => status'[u] # "none"
<1>1. CASE UNCHANGED <<status, firstPayment>>
  BY <1>1
<1>2. ASSUME NEW v \in Users, ExpireStale(v), UNCHANGED firstPayment PROVE Kept
  BY <1>2 DEF TypeOK, ExpireStale, IsStale, Settled
<1>3. ASSUME NEW w \in Workers, Work(w) PROVE Kept
  <2>1. CASE ReadClaim(w)
    <3>1. job[w] \in Users
      BY <2>1 DEF TypeOK, ReadClaim
    <3>2. QED
      BY <1>2, <2>1, <3>1 DEF ReadClaim
  <2>2. CASE ReadAttribution(w) \/ ReadPending(w)
    <3>1. BuyerOf[job[w]] \in Users
      BY <2>2, ReferralsAssumption DEF TypeOK, ReadAttribution, ReadPending
    <3>2. QED
      BY <1>2, <2>2, <3>1 DEF ReadAttribution, ReadPending
  <2>3. CASE Insert(w)
    BY <2>3 DEF TypeOK, Insert, Settled
  <2>4. CASE Convert(w)
    BY <2>4 DEF TypeOK, Convert, Settled
  <2>5. CASE CountSlots(w) \/ OpenIntent(w) \/ ReadExisting(w) \/ Reward(w) \/ Invoice(w)
    BY <1>1, <2>5 DEF CountSlots, OpenIntent, ReadExisting, Reward, Invoice, attributions
  <2>6. QED
    BY <1>3, <2>1, <2>2, <2>3, <2>4, <2>5 DEF Work
<1>4. ASSUME NEW w \in Workers, Fail(w) PROVE Kept
  BY <1>1, <1>4 DEF Fail, attributions
<1>5. QED
  BY <1>1, <1>3, <1>4 DEF Next, Lapse, Apply, Pay, Checkout, Fulfill, attributions, vars

\* Racing payments and repeated codes never reopen a converted or expired
\* attribution or move it to another payment (createReferralAttribution's
\* unique key, processReferralConversion's check of the locked row).
THEOREM AttributionSettlesOnce == Spec => SettledOnce
<1>1. TypeOK /\ [Next]_vars =>
        [\A u \in Users : status[u] \in {"converted", "expired"} =>
           status'[u] = status[u] /\ firstPayment'[u] = firstPayment[u]]_vars
  BY SettledStep DEF Settled
<1>2. QED
  BY <1>1, TypeCorrect, PTL DEF Spec, SettledOnce

-----------------------------------------------------------------------------
(* What is paid out and what is discounted.                                  *)

InFulfillment(w) == at[w] \in {"existing", "pending", "reward", "convert", "invoice"}

\* A process converts what it has rewarded.
RewardBeforeConversion == \A w \in Workers : at[w] = "convert" => job[w] \in rewarded

\* A discount was read from a row, and a payment that is fulfilled has an intent,
\* whose price no longer changes.
DiscountHasRow ==
  /\ \A w \in Workers : eligible[w] => at[w] = "open" /\ status[BuyerOf[job[w]]] # "none"
  /\ \A p \in Payments : checkout[p] = "discounted" => status[BuyerOf[p]] # "none"

PaidHasIntent ==
  /\ \A p \in paid : checkout[p] # "none"
  /\ invoiced \subseteq paid
  /\ \A w \in Workers : InFulfillment(w) => job[w] \in paid

\* The attribution of a discounted payment is settled when its invoice is due.
InvoiceDueSettled ==
  \A w \in Workers : at[w] = "invoice" /\ checkout[job[w]] = "discounted"
    => Settled(BuyerOf[job[w]])

DiscountInv == DiscountHasRow /\ PaidHasIntent /\ InvoiceDueSettled /\ DiscountSettles

LEMMA AttributionInit == Init => RewardBeforeConversion /\ ConvertedWasRewarded /\ DiscountInv
BY DEF Init, DiscountInv, RewardBeforeConversion, ConvertedWasRewarded, DiscountHasRow,
       PaidHasIntent, InvoiceDueSettled, DiscountSettles, InFulfillment

\* Where a step can put a process, and what it can then be working on.
LEMMA RewardStep ==
  ASSUME TypeOK, [Next]_vars, RewardBeforeConversion, ConvertedWasRewarded
  PROVE  RewardBeforeConversion' /\ ConvertedWasRewarded'
<1> USE ReferralsAssumption DEF RewardBeforeConversion, ConvertedWasRewarded, Goto, Leave, Begin,
        attributions, payments
<1>1. ASSUME NEW w \in Workers, Work(w) PROVE RewardBeforeConversion' /\ ConvertedWasRewarded'
  <2>1. CASE ReadClaim(w)
    BY <2>1 DEF TypeOK, ReadClaim, ExpireStale, IsStale
  <2>2. CASE ReadAttribution(w)
    BY <2>2 DEF TypeOK, ReadAttribution, ExpireStale, IsStale
  <2>3. CASE ReadPending(w)
    BY <2>3 DEF TypeOK, ReadPending, ExpireStale, IsStale
  <2>4. CASE Insert(w)
    BY <2>4 DEF TypeOK, Insert
  <2>5. CASE Reward(w)
    BY <2>5 DEF TypeOK, Reward
  <2>6. CASE Convert(w)
    BY <2>6 DEF TypeOK, Convert
  <2>7. CASE CountSlots(w) \/ OpenIntent(w) \/ ReadExisting(w) \/ Invoice(w)
    BY <2>7 DEF TypeOK, CountSlots, OpenIntent, ReadExisting, Invoice
  <2>8. QED
    BY <1>1, <2>1, <2>2, <2>3, <2>4, <2>5, <2>6, <2>7 DEF Work
<1>2. ASSUME NEW w \in Workers, Fail(w) PROVE RewardBeforeConversion' /\ ConvertedWasRewarded'
  BY <1>2 DEF TypeOK, Fail
<1>3. ASSUME NEW w \in Workers, NEW u \in Users, Apply(w, u)
      PROVE  RewardBeforeConversion' /\ ConvertedWasRewarded'
  BY <1>3 DEF TypeOK, Apply
<1>4. ASSUME NEW w \in Workers, NEW p \in Payments, Checkout(w, p) \/ Fulfill(w, p)
      PROVE  RewardBeforeConversion' /\ ConvertedWasRewarded'
  BY <1>4 DEF TypeOK, Checkout, Fulfill
<1>5. QED
  BY <1>1, <1>2, <1>3, <1>4 DEF Next, Lapse, Pay, vars

\* The referrer of a converted attribution has the reward for it, whatever died
\* between the grant and the conversion (processReferralConversion).
THEOREM ConversionIsRewarded == Spec => []ConvertedWasRewarded
<1>1. Init => RewardBeforeConversion /\ ConvertedWasRewarded
  BY AttributionInit
<1>2. TypeOK /\ [Next]_vars /\ RewardBeforeConversion /\ ConvertedWasRewarded
        => (RewardBeforeConversion /\ ConvertedWasRewarded)'
  BY RewardStep
<1>3. QED
  BY <1>1, <1>2, TypeCorrect, PTL DEF Spec

-----------------------------------------------------------------------------
(* The discount.  By SettledStep rows are kept, so that only the steps which *)
(* decide a discount, open an intent or move a fulfillment matter.           *)

LEMMA DiscountStep == ASSUME TypeOK, [Next]_vars, DiscountInv PROVE DiscountInv'
<1>1. \A u \in Users : /\ Settled(u) => Settled(u)'
                       /\ status[u] # "none" => status'[u] # "none"
  BY SettledStep DEF Settled
<1>2. \A p \in Payments : BuyerOf[p] \in Users
  BY ReferralsAssumption
<1>3. \A p \in Payments : checkout'[p] = checkout[p] \/ checkout[p] = "none"
  BY DEF TypeOK, Next, Work, Lapse, Apply, Pay, Checkout, Fulfill, CountSlots, ReadClaim, Insert,
         ReadAttribution, OpenIntent, ReadExisting, ReadPending, Reward, Convert, Invoice, Fail,
         payments, vars
<1> USE <1>1, <1>2, <1>3, ReferralsAssumption DEF DiscountInv, DiscountHasRow, PaidHasIntent, InvoiceDueSettled, DiscountSettles,
        InFulfillment, Settled, Goto, Leave, Begin, attributions, payments
<1>4. ASSUME NEW w \in Workers, Work(w) PROVE DiscountInv'
  <2>1. CASE CountSlots(w)
    BY <2>1 DEF TypeOK, CountSlots
  <2>2. CASE ReadClaim(w)
    BY <2>2 DEF TypeOK, ReadClaim
  <2>3. CASE Insert(w)
    BY <2>3 DEF TypeOK, Insert
  <2>4. CASE ReadAttribution(w)
    BY <2>4 DEF TypeOK, ReadAttribution, IsActive
  <2>5. CASE OpenIntent(w)
    BY <2>5 DEF TypeOK, OpenIntent
  <2>6. CASE ReadExisting(w)
    BY <2>6 DEF TypeOK, ReadExisting
  <2>7. CASE ReadPending(w)
    BY <2>7 DEF TypeOK, ReadPending, ExpireStale, IsStale, IsActive
  <2>8. CASE Reward(w)
    BY <2>8 DEF TypeOK, Reward
  <2>9. CASE Convert(w)
    BY <2>9 DEF TypeOK, Convert
  <2>10. CASE Invoice(w)
    BY <2>10 DEF TypeOK, Invoice
  <2>11. QED
    BY <1>4, <2>1, <2>2, <2>3, <2>4, <2>5, <2>6, <2>7, <2>8, <2>9, <2>10 DEF Work
<1>5. ASSUME NEW w \in Workers, Fail(w) PROVE DiscountInv'
  BY <1>5 DEF TypeOK, Fail
<1>6. ASSUME NEW w \in Workers, NEW u \in Users, Apply(w, u) PROVE DiscountInv'
  BY <1>6 DEF TypeOK, Apply
<1>7. ASSUME NEW w \in Workers, NEW p \in Payments, Checkout(w, p) PROVE DiscountInv'
  BY <1>7 DEF TypeOK, Checkout
<1>8. ASSUME NEW w \in Workers, NEW p \in Payments, Fulfill(w, p) PROVE DiscountInv'
  BY <1>8 DEF TypeOK, Fulfill
<1>9. ASSUME NEW p \in Payments, Pay(p) PROVE DiscountInv'
  BY <1>9 DEF TypeOK, Pay
<1>10. ASSUME NEW u \in Users, Lapse(u) PROVE DiscountInv'
  BY <1>10 DEF TypeOK, Lapse
<1>11. CASE UNCHANGED vars
  BY <1>11 DEF vars
<1>12. QED
  BY <1>4, <1>5, <1>6, <1>7, <1>8, <1>9, <1>10, <1>11 DEF Next

\* A payment invoiced at the discounted price has used up the attribution the
\* discount came from (processReferralConversion runs before the invoice).
THEOREM DiscountIsUsedUp == Spec => []DiscountSettles
<1>1. Init => DiscountInv
  BY AttributionInit
<1>2. TypeOK /\ [Next]_vars /\ DiscountInv => DiscountInv'
  BY DiscountStep
<1>3. DiscountInv => DiscountSettles
  BY DEF DiscountInv
<1>4. QED
  BY <1>1, <1>2, <1>3, TypeCorrect, PTL DEF Spec

-----------------------------------------------------------------------------
(* The races.  RacesAreBounded is not inductive.  While a user's row is      *)
(* pending every reward is of a process that is still to convert, or failed; *)
(* once the row is settled no process joins those about to reward.  A slot   *)
(* is taken by a request that counted while one was free.                    *)

Slots == {u \in Users : status[u] \in {"pending", "converted"}}
Counted == {w \in Workers : at[w] \in {"claim", "insert"}}
WorkersAt(place, u) == {w \in Workers : at[w] = place /\ BuyerOf[job[w]] = u}

SlotsInv ==
  /\ IsFiniteSet(Slots)
  /\ Cardinality(Slots) + Cardinality(Counted) <= MaxReferrals + Cardinality(Workers) - 1

RewardsOfUser(u) ==
  /\ IsFiniteSet(RewardsOf(u))
  /\ status[u] = "none" =>
       RewardsOf(u) = {} /\ WorkersAt("reward", u) = {} /\ WorkersAt("convert", u) = {}
  /\ status[u] = "pending" =>
       Cardinality(RewardsOf(u)) <= Cardinality(WorkersAt("convert", u)) + failures
  /\ Settled(u) =>
       Cardinality(RewardsOf(u)) + Cardinality(WorkersAt("reward", u))
         <= Cardinality(Workers) + failures

RewardsInv == \A u \in Users : RewardsOfUser(u)

\* Cardinalities of finite sets.
LEMMA Fewer ==
  ASSUME NEW T, IsFiniteSet(T), NEW S \in SUBSET T
  PROVE  /\ IsFiniteSet(S) /\ Cardinality(S) \in Nat /\ Cardinality(T) \in Nat
         /\ Cardinality(S) <= Cardinality(T)
BY FS_Subset, FS_CardinalityType

LEMMA OneMore ==
  ASSUME NEW S, IsFiniteSet(S), NEW x
  PROVE  /\ IsFiniteSet(S \cup {x})
         /\ Cardinality(S) \in Nat /\ Cardinality(S \cup {x}) \in Nat
         /\ Cardinality(S \cup {x}) <= Cardinality(S) + 1
         /\ x \notin S => Cardinality(S \cup {x}) = Cardinality(S) + 1
<1>1. Cardinality(S) \in Nat
  BY FS_CardinalityType
<1>2. CASE x \in S
  <2>1. S \cup {x} = S
    BY <1>2
  <2>2. QED
    BY <1>1, <1>2, <2>1
<1>3. CASE x \notin S
  BY <1>1, <1>3, FS_AddElement
<1>4. QED
  BY <1>2, <1>3

LEMMA OneLess ==
  ASSUME NEW S, IsFiniteSet(S), NEW x \in S
  PROVE  /\ IsFiniteSet(S \ {x})
         /\ Cardinality(S) \in Nat /\ Cardinality(S \ {x}) \in Nat
         /\ Cardinality(S \ {x}) = Cardinality(S) - 1
BY FS_RemoveElement, FS_CardinalityType

\* Two kinds of processes are no more than all of them.
LEMMA Together ==
  ASSUME NEW S \in SUBSET Workers, NEW T \in SUBSET Workers, S \cap T = {}
  PROVE  Cardinality(S) + Cardinality(T) <= Cardinality(Workers)
<1>1. IsFiniteSet(S) /\ IsFiniteSet(T) /\ IsFiniteSet(Workers)
  BY ReferralsAssumption, Fewer
<1>2. Cardinality(S \cup T) = Cardinality(S) + Cardinality(T)
  <2>1. Cardinality(S \cup T) = Cardinality(S) + Cardinality(T) - Cardinality(S \cap T)
    BY <1>1, FS_Union
  <2>2. Cardinality(S \cap T) = 0
    BY FS_EmptySet
  <2>3. Cardinality(S) \in Nat /\ Cardinality(T) \in Nat
    BY <1>1, FS_CardinalityType
  <2>4. QED
    BY <2>1, <2>2, <2>3
<1>3. S \cup T \in SUBSET Workers
  OBVIOUS
<1>4. QED
  BY <1>1, <1>2, <1>3, Fewer

LEMMA CountedFinite == IsFiniteSet(Counted) /\ Cardinality(Counted) \in Nat
<1>1. Counted \in SUBSET Workers
  BY DEF Counted
<1>2. QED
  BY <1>1, ReferralsAssumption, Fewer

\* A step that neither takes a slot nor lets a request go on to take one.
LEMMA SlotsKept ==
  ASSUME SlotsInv, Slots' \subseteq Slots, Counted' \subseteq Counted
  PROVE  SlotsInv'
<1>1. Slots' \in SUBSET Slots /\ Counted' \in SUBSET Counted
  OBVIOUS
<1>2. /\ IsFiniteSet(Slots') /\ Cardinality(Slots') <= Cardinality(Slots)
      /\ Cardinality(Slots') \in Nat /\ Cardinality(Slots) \in Nat
  BY <1>1, Fewer DEF SlotsInv
<1>3. /\ Cardinality(Counted') <= Cardinality(Counted)
      /\ Cardinality(Counted') \in Nat /\ Cardinality(Counted) \in Nat
  BY <1>1, CountedFinite, Fewer
<1>4. Cardinality(Workers) \in Nat /\ MaxReferrals \in Nat
  BY ReferralsAssumption, FS_CardinalityType
<1>5. QED
  BY <1>2, <1>3, <1>4 DEF SlotsInv

LEMMA CountSlotsStep ==
  ASSUME TypeOK, SlotsInv, NEW w \in Workers, CountSlots(w)
  PROVE  SlotsInv'
<1>1. Slots' = Slots
  BY DEF CountSlots, attributions, Slots
<1>2. CASE SlotsUsed >= MaxReferrals
  <2>1. Counted' \subseteq Counted
    BY <1>2 DEF CountSlots, Leave, Goto, Counted, TypeOK
  <2>2. QED
    BY <1>1, <2>1, SlotsKept
<1>3. CASE ~(SlotsUsed >= MaxReferrals)
  <2>1. Cardinality(Slots) < MaxReferrals
    <3>1. SlotsUsed = Cardinality(Slots) /\ Cardinality(Slots) \in Nat /\ MaxReferrals \in Nat
      BY ReferralsAssumption, FS_CardinalityType DEF SlotsUsed, Slots, SlotsInv
    <3>2. QED
      BY <1>3, <3>1
  <2>2. Counted' \in SUBSET Workers
    BY DEF Counted
  <2>3. /\ Cardinality(Counted') <= Cardinality(Workers)
        /\ Cardinality(Counted') \in Nat /\ Cardinality(Workers) \in Nat
    BY <2>2, ReferralsAssumption, Fewer
  <2>4. Cardinality(Slots) \in Nat /\ MaxReferrals \in Nat
    BY ReferralsAssumption, FS_CardinalityType DEF SlotsInv
  <2>5. QED
    BY <1>1, <2>1, <2>3, <2>4 DEF SlotsInv
<1>4. QED
  BY <1>2, <1>3

LEMMA InsertStep ==
  ASSUME TypeOK, SlotsInv, NEW w \in Workers, Insert(w)
  PROVE  SlotsInv'
<1>1. w \in Counted /\ Counted' = Counted \ {w}
  BY DEF Insert, Leave, Goto, Counted, TypeOK
<1>2. Slots' = Slots \/ Slots' = Slots \cup {job[w]}
  BY DEF Insert, Slots, TypeOK
<1>3. IsFiniteSet(Slots) /\ IsFiniteSet(Counted)
  BY CountedFinite DEF SlotsInv
<1>4. /\ IsFiniteSet(Slots') /\ Cardinality(Slots') <= Cardinality(Slots) + 1
      /\ Cardinality(Slots') \in Nat /\ Cardinality(Slots) \in Nat
  <2>1. CASE Slots' = Slots
    BY <1>3, <2>1, FS_CardinalityType
  <2>2. CASE Slots' = Slots \cup {job[w]}
    BY <1>3, <2>2, OneMore
  <2>3. QED
    BY <1>2, <2>1, <2>2
<1>5. /\ Cardinality(Counted') = Cardinality(Counted) - 1
      /\ Cardinality(Counted') \in Nat /\ Cardinality(Counted) \in Nat
  BY <1>1, <1>3, OneLess
<1>6. Cardinality(Workers) \in Nat /\ MaxReferrals \in Nat
  BY ReferralsAssumption, FS_CardinalityType
<1>7. QED
  BY <1>4, <1>5, <1>6 DEF SlotsInv

LEMMA SlotsStep == ASSUME TypeOK, SlotsInv, [Next]_vars PROVE SlotsInv'
<1>1. ASSUME Slots' \subseteq Slots, Counted' \subseteq Counted PROVE SlotsInv'
  BY <1>1, SlotsKept
<1> USE DEF Goto, Leave, Begin, Slots, Counted, attributions, payments
<1>2. ASSUME NEW w \in Workers, Work(w) PROVE SlotsInv'
  <2>1. CASE ReadClaim(w)
    BY <1>1, <2>1 DEF TypeOK, ReadClaim, ExpireStale, IsStale
  <2>2. CASE ReadAttribution(w)
    BY <1>1, <2>2 DEF TypeOK, ReadAttribution, ExpireStale, IsStale
  <2>3. CASE ReadPending(w)
    BY <1>1, <2>3 DEF TypeOK, ReadPending, ExpireStale, IsStale
  <2>4. CASE Convert(w)
    BY <1>1, <2>4 DEF TypeOK, Convert
  <2>5. CASE OpenIntent(w) \/ ReadExisting(w) \/ Reward(w) \/ Invoice(w)
    BY <1>1, <2>5 DEF TypeOK, OpenIntent, ReadExisting, Reward, Invoice
  <2>6. QED
    BY <1>2, <2>1, <2>2, <2>3, <2>4, <2>5, CountSlotsStep, InsertStep DEF Work
<1>3. ASSUME NEW w \in Workers, Fail(w) PROVE SlotsInv'
  BY <1>1, <1>3 DEF TypeOK, Fail
<1>4. ASSUME NEW w \in Workers, NEW u \in Users, Apply(w, u) PROVE SlotsInv'
  BY <1>1, <1>4 DEF TypeOK, Apply
<1>5. ASSUME NEW w \in Workers, NEW p \in Payments, Checkout(w, p) \/ Fulfill(w, p)
      PROVE  SlotsInv'
  BY <1>1, <1>5 DEF TypeOK, Checkout, Fulfill
<1>6. QED
  BY <1>1, <1>2, <1>3, <1>4, <1>5 DEF Next, Lapse, Pay, vars

LEMMA Counts ==
  ASSUME NEW u, RewardsOfUser(u)
  PROVE  /\ IsFiniteSet(RewardsOf(u)) /\ Cardinality(RewardsOf(u)) \in Nat
         /\ IsFiniteSet(Workers) /\ Cardinality(Workers) \in Nat
         /\ \A place : IsFiniteSet(WorkersAt(place, u)) /\ Cardinality(WorkersAt(place, u)) \in Nat
<1>1. \A place : WorkersAt(place, u) \in SUBSET Workers
  BY DEF WorkersAt
<1>2. QED
  BY <1>1, ReferralsAssumption, Fewer, FS_CardinalityType DEF RewardsOfUser

\* A step that neither rewards nor converts for the user, and starts no reward
\* but for a row that is pending.
LEMMA RewardsKept ==
  ASSUME TypeOK, NEW u \in Users, RewardsOfUser(u),
         RewardsOf(u)' = RewardsOf(u), failures' = failures,
         WorkersAt("convert", u)' = WorkersAt("convert", u),
         \/ WorkersAt("reward", u)' = WorkersAt("reward", u)
         \/ status[u] = "pending",
         \/ status'[u] = status[u]
         \/ status[u] = "none" /\ status'[u] = "pending"
  PROVE  RewardsOfUser(u)'
<1>1. status'[u] = "pending" =>
        Cardinality(RewardsOf(u)) <= Cardinality(WorkersAt("convert", u)) + failures
  <2>1. CASE status[u] = "none"
    <3>1. Cardinality(RewardsOf(u)) = 0 /\ Cardinality(WorkersAt("convert", u)) = 0
      BY <2>1, FS_EmptySet DEF RewardsOfUser
    <3>2. QED
      BY <3>1 DEF TypeOK
  <2>2. QED
    BY <2>1 DEF RewardsOfUser
<1>2. QED
  BY <1>1 DEF RewardsOfUser, Settled

\* The row expires under the processes that reward it.
LEMMA RewardsExpired ==
  ASSUME TypeOK, NEW u \in Users, RewardsOfUser(u), status[u] = "pending", status'[u] = "expired",
         RewardsOf(u)' = RewardsOf(u), failures' = failures,
         WorkersAt("reward", u)' = WorkersAt("reward", u)
  PROVE  RewardsOfUser(u)'
<1>1. Cardinality(WorkersAt("reward", u)) + Cardinality(WorkersAt("convert", u))
        <= Cardinality(Workers)
  BY Together DEF WorkersAt
<1>2. failures \in Nat
  BY DEF TypeOK
<1>3. Cardinality(RewardsOf(u)) + Cardinality(WorkersAt("reward", u))
        <= Cardinality(Workers) + failures
  BY <1>1, <1>2, Counts DEF RewardsOfUser
<1>4. QED
  BY <1>3 DEF RewardsOfUser

LEMMA ExpiringStep ==
  ASSUME TypeOK, NEW v \in Users, ExpireStale(v), NEW u \in Users, RewardsOfUser(u),
         RewardsOf(u)' = RewardsOf(u), failures' = failures,
         WorkersAt("convert", u)' = WorkersAt("convert", u),
         WorkersAt("reward", u)' = WorkersAt("reward", u)
  PROVE  RewardsOfUser(u)'
<1>1. \/ status'[u] = status[u]
      \/ status[u] = "pending" /\ status'[u] = "expired"
  <2>1. CASE v = u
    BY <2>1 DEF TypeOK, ExpireStale, IsStale
  <2>2. CASE v # u
    BY <2>2 DEF TypeOK, ExpireStale
  <2>3. QED
    BY <2>1, <2>2
<1>2. QED
  BY <1>1, RewardsKept, RewardsExpired

LEMMA ReadPendingStep ==
  ASSUME TypeOK, NEW u \in Users, RewardsOfUser(u), NEW w \in Workers, ReadPending(w)
  PROVE  RewardsOfUser(u)'
<1> DEFINE v == BuyerOf[job[w]]
<1>1. /\ at[w] = "pending" /\ ExpireStale(v) /\ v \in Users
      /\ at' = [at EXCEPT ![w] = IF IsActive(v) THEN "reward" ELSE "invoice"]
      /\ UNCHANGED <<rewarded, job, failures>>
  BY ReferralsAssumption DEF TypeOK, ReadPending, Goto, payments
<1>2. RewardsOf(u)' = RewardsOf(u) /\ WorkersAt("convert", u)' = WorkersAt("convert", u)
  BY <1>1 DEF TypeOK, RewardsOf, WorkersAt
<1>3. CASE IsActive(v) /\ v = u
  <2>1. status' = status /\ status[u] = "pending"
    BY <1>1, <1>3 DEF ExpireStale, IsStale, IsActive
  <2>2. QED
    BY <1>1, <1>2, <2>1, RewardsKept
<1>4. CASE ~(IsActive(v) /\ v = u)
  <2>1. WorkersAt("reward", u)' = WorkersAt("reward", u)
    BY <1>1, <1>4 DEF TypeOK, WorkersAt
  <2>2. QED
    BY <1>1, <1>2, <2>1, ExpiringStep
<1>5. QED
  BY <1>3, <1>4

LEMMA RewardingStep ==
  ASSUME TypeOK, NEW u \in Users, RewardsOfUser(u), NEW w \in Workers, Reward(w)
  PROVE  RewardsOfUser(u)'
<1>1. /\ at[w] = "reward" /\ at' = [at EXCEPT ![w] = "convert"]
      /\ rewarded' = rewarded \cup {job[w]} /\ job[w] \in Payments
      /\ UNCHANGED <<status, job, failures>>
  BY DEF TypeOK, Reward, Goto, attributions
<1>2. CASE BuyerOf[job[w]] # u
  <2>1. /\ RewardsOf(u)' = RewardsOf(u)
        /\ \A place : WorkersAt(place, u)' = WorkersAt(place, u)
    BY <1>1, <1>2 DEF TypeOK, RewardsOf, WorkersAt
  <2>2. QED
    BY <1>1, <2>1, RewardsKept
<1>3. CASE BuyerOf[job[w]] = u
  <2>1. /\ RewardsOf(u)' = RewardsOf(u) \cup {job[w]}
        /\ w \in WorkersAt("reward", u) /\ WorkersAt("reward", u)' = WorkersAt("reward", u) \ {w}
        /\ w \notin WorkersAt("convert", u)
        /\ WorkersAt("convert", u)' = WorkersAt("convert", u) \cup {w}
    BY <1>1, <1>3 DEF TypeOK, RewardsOf, WorkersAt
  <2>2. /\ IsFiniteSet(RewardsOf(u)')
        /\ Cardinality(RewardsOf(u)') <= Cardinality(RewardsOf(u)) + 1
        /\ Cardinality(RewardsOf(u)') \in Nat
    <3> DEFINE R == RewardsOf(u)
               p == job[w]
    <3>1. IsFiniteSet(R)
      BY Counts
    <3>2. RewardsOf(u)' = R \cup {p}
      BY <2>1
    <3> HIDE DEF R, p
    <3>3. /\ IsFiniteSet(R \cup {p}) /\ Cardinality(R \cup {p}) <= Cardinality(R) + 1
          /\ Cardinality(R \cup {p}) \in Nat
      BY <3>1, OneMore
    <3>4. QED
      BY <3>2, <3>3 DEF R
  <2>3. Cardinality(WorkersAt("reward", u)') = Cardinality(WorkersAt("reward", u)) - 1
    BY <2>1, Counts, OneLess
  <2>4. Cardinality(WorkersAt("convert", u)') = Cardinality(WorkersAt("convert", u)) + 1
    BY <2>1, Counts, OneMore
  <2>5. /\ Cardinality(RewardsOf(u)) \in Nat /\ Cardinality(Workers) \in Nat
        /\ Cardinality(WorkersAt("reward", u)) \in Nat /\ Cardinality(WorkersAt("convert", u)) \in Nat
        /\ failures \in Nat
    BY Counts DEF TypeOK
  <2>6. status[u] # "none"
    BY <2>1 DEF RewardsOfUser
  <2>7. status[u] = "pending" =>
          Cardinality(RewardsOf(u)') <= Cardinality(WorkersAt("convert", u)') + failures
    BY <2>2, <2>4, <2>5 DEF RewardsOfUser
  <2>8. Settled(u) => Cardinality(RewardsOf(u)') + Cardinality(WorkersAt("reward", u)')
                        <= Cardinality(Workers) + failures
    BY <2>2, <2>3, <2>5 DEF RewardsOfUser
  <2>9. QED
    BY <1>1, <2>2, <2>6, <2>7, <2>8 DEF RewardsOfUser, Settled
<1>4. QED
  BY <1>2, <1>3

LEMMA ConvertStep ==
  ASSUME TypeOK, NEW u \in Users, RewardsOfUser(u), NEW w \in Workers, Convert(w)
  PROVE  RewardsOfUser(u)'
<1>1. /\ at[w] = "convert" /\ at' = [at EXCEPT ![w] = "invoice"] /\ job[w] \in Payments
      /\ UNCHANGED <<rewarded, job, failures>>
  BY DEF TypeOK, Convert, Goto, payments
<1>2. RewardsOf(u)' = RewardsOf(u) /\ WorkersAt("reward", u)' = WorkersAt("reward", u)
  BY <1>1 DEF TypeOK, RewardsOf, WorkersAt
<1>3. CASE BuyerOf[job[w]] # u
  <2>1. WorkersAt("convert", u)' = WorkersAt("convert", u) /\ status'[u] = status[u]
    BY <1>1, <1>3, ReferralsAssumption DEF TypeOK, WorkersAt, Convert
  <2>2. QED
    BY <1>1, <1>2, <2>1, RewardsKept
<1>4. CASE BuyerOf[job[w]] = u
  <2>1. w \in WorkersAt("convert", u)
    BY <1>1, <1>4 DEF WorkersAt
  <2>2. status[u] # "none"
    BY <2>1 DEF RewardsOfUser
  <2>3. Settled(u)'
    BY <1>4, <2>2 DEF TypeOK, Convert, Settled
  <2>4. Cardinality(RewardsOf(u)) + Cardinality(WorkersAt("reward", u))
          <= Cardinality(Workers) + failures
    <3>1. CASE status[u] = "pending"
      <4>1. Cardinality(WorkersAt("reward", u)) + Cardinality(WorkersAt("convert", u))
              <= Cardinality(Workers)
        BY Together DEF WorkersAt
      <4>2. failures \in Nat
        BY DEF TypeOK
      <4>3. QED
        BY <3>1, <4>1, <4>2, Counts DEF RewardsOfUser
    <3>2. CASE status[u] # "pending"
      BY <2>2, <3>2 DEF RewardsOfUser, Settled, TypeOK
    <3>3. QED
      BY <3>1, <3>2
  <2>5. QED
    BY <1>1, <1>2, <2>3, <2>4 DEF RewardsOfUser, Settled
<1>5. QED
  BY <1>3, <1>4

LEMMA FailStep ==
  ASSUME TypeOK, NEW u \in Users, RewardsOfUser(u), NEW w \in Workers, Fail(w)
  PROVE  RewardsOfUser(u)'
<1>1. /\ at' = [at EXCEPT ![w] = "idle"] /\ job' = [job EXCEPT ![w] = NoPayment]
      /\ failures' = failures + 1
      /\ UNCHANGED <<status, rewarded>>
  BY DEF TypeOK, Fail, Leave, Goto, attributions, payments
<1>2. RewardsOf(u)' = RewardsOf(u)
  BY <1>1 DEF RewardsOf
<1>3. /\ WorkersAt("reward", u)' = WorkersAt("reward", u) \ {w}
      /\ WorkersAt("convert", u)' = WorkersAt("convert", u) \ {w}
  BY <1>1 DEF TypeOK, WorkersAt
<1>4. \A place : /\ Cardinality(WorkersAt(place, u) \ {w}) \in Nat
                 /\ Cardinality(WorkersAt(place, u) \ {w}) <= Cardinality(WorkersAt(place, u))
                 /\ Cardinality(WorkersAt(place, u)) <= Cardinality(WorkersAt(place, u) \ {w}) + 1
  <2> SUFFICES ASSUME NEW place
               PROVE  /\ Cardinality(WorkersAt(place, u) \ {w}) \in Nat
                      /\ Cardinality(WorkersAt(place, u) \ {w}) <= Cardinality(WorkersAt(place, u))
                      /\ Cardinality(WorkersAt(place, u))
                           <= Cardinality(WorkersAt(place, u) \ {w}) + 1
    OBVIOUS
  <2> DEFINE S == WorkersAt(place, u)
  <2>1. IsFiniteSet(S) /\ Cardinality(S) \in Nat
    BY Counts
  <2> HIDE DEF S
  <2>2. CASE w \in S
    <3>1. Cardinality(S \ {w}) \in Nat /\ Cardinality(S \ {w}) = Cardinality(S) - 1
      BY <2>1, <2>2, OneLess
    <3>2. QED
      BY <2>1, <3>1 DEF S
  <2>3. CASE w \notin S
    <3>1. S \ {w} = S
      BY <2>3
    <3>2. QED
      BY <2>1, <3>1 DEF S
  <2>4. QED
    BY <2>2, <2>3
<1>5. failures \in Nat
  BY DEF TypeOK
<1>6. status[u] = "pending" =>
        Cardinality(RewardsOf(u)) <= Cardinality(WorkersAt("convert", u)') + failures'
  BY <1>1, <1>3, <1>4, <1>5, Counts DEF RewardsOfUser
<1>7. Settled(u) => Cardinality(RewardsOf(u)) + Cardinality(WorkersAt("reward", u)')
                      <= Cardinality(Workers) + failures'
  BY <1>1, <1>3, <1>4, <1>5, Counts DEF RewardsOfUser
<1>8. status[u] = "none" => WorkersAt("reward", u)' = {} /\ WorkersAt("convert", u)' = {}
  BY <1>3 DEF RewardsOfUser
<1>9. QED
  BY <1>1, <1>2, <1>6, <1>7, <1>8 DEF RewardsOfUser, Settled

LEMMA RacesStep == ASSUME TypeOK, RewardsInv, [Next]_vars PROVE RewardsInv'
<1> SUFFICES ASSUME NEW u \in Users, RewardsOfUser(u) PROVE RewardsOfUser(u)'
  BY DEF RewardsInv
<1>1. ASSUME UNCHANGED <<status, rewarded, failures>>,
             \A w \in Workers : \/ at'[w] = at[w] /\ job'[w] = job[w]
                                \/ {at[w], at'[w]} \cap {"reward", "convert"} = {}
      PROVE  RewardsOfUser(u)'
  <2>1. /\ RewardsOf(u)' = RewardsOf(u)
        /\ WorkersAt("reward", u)' = WorkersAt("reward", u)
        /\ WorkersAt("convert", u)' = WorkersAt("convert", u)
    BY <1>1 DEF RewardsOf, WorkersAt
  <2>2. QED
    BY <1>1, <2>1, RewardsKept
<1>2. ASSUME NEW w \in Workers, CountSlots(w) \/ OpenIntent(w) \/ ReadExisting(w) \/ Invoice(w)
      PROVE  RewardsOfUser(u)'
  BY <1>1, <1>2 DEF TypeOK, CountSlots, OpenIntent, ReadExisting, Invoice, Goto, Leave,
                    attributions, payments
<1>3. ASSUME NEW w \in Workers, ReadClaim(w) \/ ReadAttribution(w) PROVE RewardsOfUser(u)'
  <2>1. /\ at[w] \notin {"reward", "convert"} /\ at'[w] \notin {"reward", "convert"}
        /\ \A x \in Workers : x # w => at'[x] = at[x] /\ job'[x] = job[x]
        /\ UNCHANGED <<rewarded, failures>>
    BY <1>3 DEF TypeOK, ReadClaim, ReadAttribution, Goto, Leave, payments
  <2>2. /\ RewardsOf(u)' = RewardsOf(u)
        /\ WorkersAt("reward", u)' = WorkersAt("reward", u)
        /\ WorkersAt("convert", u)' = WorkersAt("convert", u)
    BY <2>1 DEF RewardsOf, WorkersAt
  <2>3. \E v \in Users : ExpireStale(v)
    BY <1>3, ReferralsAssumption DEF TypeOK, ReadClaim, ReadAttribution
  <2>4. QED
    BY <2>1, <2>2, <2>3, ExpiringStep
<1>4. ASSUME NEW w \in Workers, Insert(w) PROVE RewardsOfUser(u)'
  <2>1. /\ at[w] \notin {"reward", "convert"} /\ at'[w] \notin {"reward", "convert"}
        /\ \A x \in Workers : x # w => at'[x] = at[x] /\ job'[x] = job[x]
        /\ UNCHANGED <<rewarded, failures>>
    BY <1>4 DEF TypeOK, Insert, Goto, Leave, payments
  <2>2. /\ RewardsOf(u)' = RewardsOf(u)
        /\ WorkersAt("reward", u)' = WorkersAt("reward", u)
        /\ WorkersAt("convert", u)' = WorkersAt("convert", u)
    BY <2>1 DEF RewardsOf, WorkersAt
  <2>3. \/ status'[u] = status[u]
        \/ status[u] = "none" /\ status'[u] = "pending"
    <3>1. job[w] \in Users
      BY <1>4 DEF TypeOK, Insert
    <3>2. CASE job[w] = u
      BY <1>4, <3>2 DEF TypeOK, Insert
    <3>3. CASE job[w] # u
      BY <1>4, <3>1, <3>3 DEF TypeOK, Insert
    <3>4. QED
      BY <3>2, <3>3
  <2>4. QED
    BY <2>1, <2>2, <2>3, RewardsKept
<1>5. ASSUME NEW w \in Workers, NEW v \in Users, Apply(w, v) PROVE RewardsOfUser(u)'
  BY <1>1, <1>5 DEF TypeOK, Apply, Begin, Goto, attributions, payments
<1>6. ASSUME NEW w \in Workers, NEW p \in Payments, Checkout(w, p) \/ Fulfill(w, p)
      PROVE  RewardsOfUser(u)'
  BY <1>1, <1>6 DEF TypeOK, Checkout, Fulfill, Begin, Goto, attributions, payments
<1>7. CASE (\E p \in Payments : Pay(p)) \/ (\E v \in Users : Lapse(v)) \/ UNCHANGED vars
  BY <1>1, <1>7 DEF Pay, Lapse, vars, attributions, payments
<1>8. QED
  BY <1>2, <1>3, <1>4, <1>5, <1>6, <1>7, ReadPendingStep, RewardingStep, ConvertStep, FailStep
     DEF Next, Work

LEMMA RacesInit == Init => SlotsInv /\ RewardsInv
<1> SUFFICES ASSUME Init PROVE SlotsInv /\ RewardsInv
  OBVIOUS
<1>1. Slots = {} /\ Counted = {} /\ \A u \in Users : RewardsOf(u) = {}
  BY DEF Init, Slots, Counted, RewardsOf
<1>2. \A u \in Users : WorkersAt("reward", u) = {} /\ WorkersAt("convert", u) = {}
  BY DEF Init, WorkersAt
<1>3. SlotsInv
  BY <1>1, ReferralsAssumption, FS_EmptySet, FS_CardinalityType DEF SlotsInv
<1>4. QED
  BY <1>1, <1>2, <1>3, FS_EmptySet DEF RewardsInv, RewardsOfUser, Settled, Init

LEMMA RacesBounded == ASSUME TypeOK, SlotsInv, RewardsInv PROVE RacesAreBounded
<1>1. ASSUME NEW u \in Users
      PROVE  Cardinality(RewardsOf(u)) <= Cardinality(Workers) + failures
  <2>1. RewardsOfUser(u) /\ failures \in Nat
    BY DEF RewardsInv, TypeOK
  <2>2. WorkersAt("convert", u) \in SUBSET Workers
    BY DEF WorkersAt
  <2>3. Cardinality(WorkersAt("convert", u)) <= Cardinality(Workers)
    BY <2>2, ReferralsAssumption, Fewer
  <2>4. Cardinality(WorkersAt("reward", u)) \in Nat /\ Cardinality(WorkersAt("convert", u)) \in Nat
        /\ Cardinality(RewardsOf(u)) \in Nat /\ Cardinality(Workers) \in Nat
    BY <2>1, Counts
  <2>5. CASE status[u] = "none"
    BY <2>1, <2>4, <2>5, FS_EmptySet DEF RewardsOfUser
  <2>6. CASE status[u] # "none"
    BY <2>1, <2>3, <2>4, <2>6 DEF RewardsOfUser, Settled, TypeOK
  <2>7. QED
    BY <2>5, <2>6
<1>2. SlotsUsed <= MaxReferrals + Cardinality(Workers) - 1
  <2>1. SlotsUsed = Cardinality(Slots) /\ Cardinality(Slots) \in Nat
    BY FS_CardinalityType DEF SlotsUsed, Slots, SlotsInv
  <2>2. Cardinality(Workers) \in Nat /\ MaxReferrals \in Nat
    BY ReferralsAssumption, FS_CardinalityType
  <2>3. QED
    BY <2>1, <2>2, CountedFinite DEF SlotsInv
<1>3. QED
  BY <1>1, <1>2 DEF RacesAreBounded

\* Requests that race overshoot the maximum of friends by no more than the processes that
\* counted at once, and reward a friend's referrer again only for payments that race or
\* failed in between (createReferralAttribution, processReferralConversion).
THEOREM OvershootIsBounded == Spec => []RacesAreBounded
<1>1. Init => SlotsInv /\ RewardsInv
  BY RacesInit
<1>2. TypeOK /\ SlotsInv /\ RewardsInv /\ [Next]_vars => (SlotsInv /\ RewardsInv)'
  BY SlotsStep, RacesStep
<1>3. TypeOK /\ SlotsInv /\ RewardsInv => RacesAreBounded
  BY RacesBounded
<1>4. QED
  BY <1>1, <1>2, <1>3, TypeCorrect, PTL DEF Spec
=============================================================================
