----------------------------- MODULE Referrals -----------------------------
(***************************************************************************)
(* Refer & earn: a referred user applies one code, gets a discount on a    *)
(* plan, and the first plan payment that is fulfilled converts the         *)
(* attribution and rewards the referrer.  Requests run in processes of     *)
(* their own, a database call a step; only the conversion's last step is a *)
(* transaction under a row lock, and only the fulfillment of one payment   *)
(* is serialized, by its lock (see PaymentFulfillment).                    *)
(*                                                                         *)
(* There is one referrer: codes of others are independent of it, save that *)
(* a user can apply only one, which the single row per user already says.  *)
(***************************************************************************)
EXTENDS Integers, FiniteSets

CONSTANTS
  Workers,       \* processes that handle a request
  Users,         \* users who may apply the referrer's code
  Payments,      \* plan payments of those users
  BuyerOf,       \* [Payments -> Users]
  NoPayment,     \* the first payment of an attribution that has none
  Nobody,        \* the holder of a lock nobody holds
  MaxReferrals,  \* REFERRAL_MAX_REFERRALS_PER_USER
  MaxFailures    \* bound on exceptions and crashes

ASSUME ReferralsAssumption ==
  /\ IsFiniteSet(Workers)
  /\ BuyerOf \in [Payments -> Users]
  /\ NoPayment \notin Payments /\ Nobody \notin Workers
  /\ MaxReferrals \in Nat \ {0} /\ MaxFailures \in Nat

VARIABLES
  status,        \* referral_attributions.status of the user's row, "none" without a row
  firstPayment,  \* referral_attributions.first_payment_id
  lapsed,        \* users whose row is past expires_at
  checkout,      \* [Payments -> no intent yet, or one at the full or the discounted price]
  paid,          \* payments the provider captured
  rewarded,      \* payments with a grant under referral:reward:<payment>
  invoiced,      \* payments with a paid invoice
  lock,          \* [Payments -> worker holding fulfill:<payment>]
  job, at,       \* [Workers -> the user or payment it works on, its place]
  eligible,      \* [Workers -> the discount its checkout decided on]
  failures

attributions == <<status, firstPayment, lapsed>>
payments == <<checkout, paid, rewarded, invoiced>>
vars == <<attributions, payments, lock, job, at, eligible, failures>>

TypeOK ==
  /\ status \in [Users -> {"none", "pending", "converted", "expired"}]
  /\ firstPayment \in [Users -> Payments \cup {NoPayment}]
  /\ lapsed \subseteq Users
  /\ checkout \in [Payments -> {"none", "full", "discounted"}]
  /\ {paid, rewarded, invoiced} \subseteq SUBSET Payments
  /\ lock \in [Payments -> Workers \cup {Nobody}]
  /\ at \in [Workers -> {"idle", "count", "claim", "insert", "attribution", "open",
                         "existing", "pending", "reward", "convert", "invoice"}]
  /\ job \in [Workers -> Users \cup Payments \cup {NoPayment}]
  /\ \A w \in Workers : at[w] \in {"count", "claim", "insert"} => job[w] \in Users
  /\ \A w \in Workers : at[w] \notin {"idle", "count", "claim", "insert"} => job[w] \in Payments
  /\ eligible \in [Workers -> BOOLEAN]
  /\ failures \in 0 .. MaxFailures

Init ==
  /\ status = [u \in Users |-> "none"]
  /\ firstPayment = [u \in Users |-> NoPayment]
  /\ lapsed = {} /\ paid = {} /\ rewarded = {} /\ invoiced = {}
  /\ checkout = [p \in Payments |-> "none"]
  /\ lock = [p \in Payments |-> Nobody]
  /\ job = [w \in Workers |-> NoPayment]
  /\ at = [w \in Workers |-> "idle"]
  /\ eligible = [w \in Workers |-> FALSE]
  /\ failures = 0

-----------------------------------------------------------------------------
Goto(w, place) == at' = [at EXCEPT ![w] = place]

Leave(w) ==
  /\ Goto(w, "idle")
  /\ job' = [job EXCEPT ![w] = NoPayment]
  /\ eligible' = [eligible EXCEPT ![w] = FALSE]

\* An idle process takes up a request.
Begin(w, subject, place) ==
  /\ at[w] = "idle"
  /\ job' = [job EXCEPT ![w] = subject]
  /\ Goto(w, place)

LocksWithout(w) == [p \in Payments |-> IF lock[p] = w THEN Nobody ELSE lock[p]]

SlotsUsed == Cardinality({u \in Users : status[u] \in {"pending", "converted"}})

\* A plan invoice with status 'paid' exists; invoices are not refunded here.
HasPaidSubscription(u) == \E p \in invoiced : BuyerOf[p] = u

\* expireStaleAttributions and the row read after it.
IsStale(u) == status[u] = "pending" /\ u \in lapsed
IsActive(u) == status[u] = "pending" /\ u \notin lapsed
ExpireStale(u) == status' = IF IsStale(u) THEN [status EXCEPT ![u] = "expired"] ELSE status

-----------------------------------------------------------------------------
(* applyReferralCodeForUser.  The validation makes the same reads first and  *)
(* only refuses, which is an application that was not made.                  *)

Apply(w, u) ==
  /\ Begin(w, u, "count")
  /\ UNCHANGED <<attributions, payments, lock, eligible, failures>>

CountSlots(w) ==
  /\ at[w] = "count"
  /\ IF SlotsUsed >= MaxReferrals
       THEN Leave(w)
       ELSE Goto(w, "claim") /\ UNCHANGED <<job, eligible>>
  /\ UNCHANGED <<attributions, payments, lock, failures>>

\* getRefereeClaimState: canClaimMore without a row and without a paid plan.
ReadClaim(w) ==
  LET u == job[w]
  IN /\ at[w] = "claim"
     /\ ExpireStale(u)
     /\ IF status[u] = "none" /\ ~HasPaidSubscription(u)
          THEN Goto(w, "insert") /\ UNCHANGED <<job, eligible>>
          ELSE Leave(w)
     /\ UNCHANGED <<firstPayment, lapsed, payments, lock, failures>>

OverwriteRow(w) ==   \* mutant: an upsert
  LET u == job[w]
  IN /\ at[w] = "insert" /\ Leave(w)
     /\ status' = [status EXCEPT ![u] = "pending"]
     /\ UNCHANGED <<firstPayment, lapsed, payments, lock, failures>>

\* The INSERT; a duplicate referred_user_id leaves the row there is.
Insert(w) ==
  LET u == job[w]
  IN /\ at[w] = "insert" /\ Leave(w)
     /\ status' = IF status[u] = "none" THEN [status EXCEPT ![u] = "pending"] ELSE status
     /\ UNCHANGED <<firstPayment, lapsed, payments, lock, failures>>

\* The attribution window passes.
Lapse(u) ==
  /\ status[u] = "pending" /\ u \notin lapsed
  /\ lapsed' = lapsed \cup {u}
  /\ UNCHANGED <<status, firstPayment, payments, lock, job, at, eligible, failures>>

-----------------------------------------------------------------------------
(* The checkout of a plan: isReferralCheckoutEligible, then the intent.      *)

Checkout(w, p) ==
  /\ checkout[p] = "none"
  /\ Begin(w, p, IF HasPaidSubscription(BuyerOf[p]) THEN "open" ELSE "attribution")
  /\ UNCHANGED <<attributions, payments, lock, eligible, failures>>

ReadAttribution(w) ==
  /\ at[w] = "attribution"
  /\ ExpireStale(BuyerOf[job[w]])
  /\ eligible' = [eligible EXCEPT ![w] = IsActive(BuyerOf[job[w]])]
  /\ Goto(w, "open")
  /\ UNCHANGED <<firstPayment, lapsed, payments, lock, job, failures>>

\* Under the checkout's own lock: a repeated request finds the intent there is.
OpenIntent(w) ==
  LET p == job[w]
  IN /\ at[w] = "open" /\ Leave(w)
     /\ checkout' = IF checkout[p] # "none" THEN checkout
          ELSE [checkout EXCEPT ![p] = IF eligible[w] THEN "discounted" ELSE "full"]
     /\ UNCHANGED <<attributions, paid, rewarded, invoiced, lock, failures>>

Pay(p) ==
  /\ checkout[p] # "none" /\ p \notin paid
  /\ paid' = paid \cup {p}
  /\ UNCHANGED <<attributions, checkout, rewarded, invoiced, lock, job, at, eligible, failures>>

-----------------------------------------------------------------------------
(* processReferralConversion, inside the fulfillment of a captured payment.  *)

Fulfill(w, p) ==
  /\ p \in paid \ invoiced
  /\ lock[p] = Nobody
  /\ lock' = [lock EXCEPT ![p] = w]
  /\ Begin(w, p, "existing")
  /\ UNCHANGED <<attributions, payments, eligible, failures>>

ReadExisting(w) ==
  LET u == BuyerOf[job[w]]
  IN /\ at[w] = "existing"
     /\ Goto(w, IF status[u] = "converted" /\ firstPayment[u] = job[w] THEN "invoice" ELSE "pending")
     /\ UNCHANGED <<attributions, payments, lock, job, eligible, failures>>

RewardAnyRow(w) ==   \* mutant: a converted attribution is rewarded again
  /\ at[w] = "pending"
  /\ ExpireStale(BuyerOf[job[w]])
  /\ Goto(w, IF status[BuyerOf[job[w]]] = "none" THEN "invoice" ELSE "reward")
  /\ UNCHANGED <<firstPayment, lapsed, payments, lock, job, eligible, failures>>

ReadPending(w) ==
  LET u == BuyerOf[job[w]]
  IN /\ at[w] = "pending"
     /\ ExpireStale(u)
     /\ Goto(w, IF IsActive(u) THEN "reward" ELSE "invoice")
     /\ UNCHANGED <<firstPayment, lapsed, payments, lock, job, eligible, failures>>

RewardLater(w) ==   \* mutant: the reward is left for after the conversion
  /\ at[w] = "reward"
  /\ Goto(w, "convert")
  /\ UNCHANGED <<attributions, payments, lock, job, eligible, failures>>

\* The grant to the referrer, under the key of the payment.
Reward(w) ==
  /\ at[w] = "reward"
  /\ rewarded' = rewarded \cup {job[w]}
  /\ Goto(w, "convert")
  /\ UNCHANGED <<attributions, checkout, paid, invoiced, lock, job, eligible, failures>>

ConvertAnyRow(w) ==   \* mutant: the locked row's status is not looked at
  LET u == BuyerOf[job[w]]
  IN /\ at[w] = "convert"
     /\ status' = [status EXCEPT ![u] = "converted"]
     /\ firstPayment' = [firstPayment EXCEPT ![u] = job[w]]
     /\ Goto(w, "invoice")
     /\ UNCHANGED <<lapsed, payments, lock, job, eligible, failures>>

\* The transaction: a row that is no longer pending is left as it is.
Convert(w) ==
  LET u == BuyerOf[job[w]]
  IN /\ at[w] = "convert"
     /\ IF status[u] = "pending"
          THEN /\ status' = [status EXCEPT ![u] = "converted"]
               /\ firstPayment' = [firstPayment EXCEPT ![u] = job[w]]
          ELSE UNCHANGED <<status, firstPayment>>
     /\ Goto(w, "invoice")
     /\ UNCHANGED <<lapsed, payments, lock, job, eligible, failures>>

Invoice(w) ==
  /\ at[w] = "invoice" /\ Leave(w)
  /\ invoiced' = invoiced \cup {job[w]}
  /\ lock' = LocksWithout(w)
  /\ UNCHANGED <<attributions, checkout, paid, rewarded, failures>>

Fail(w) ==
  /\ at[w] # "idle" /\ Leave(w)
  /\ failures < MaxFailures /\ failures' = failures + 1
  /\ lock' = LocksWithout(w)
  /\ UNCHANGED <<attributions, payments>>

-----------------------------------------------------------------------------
Work(w) == CountSlots(w) \/ ReadClaim(w) \/ Insert(w) \/ ReadAttribution(w) \/ OpenIntent(w)
             \/ ReadExisting(w) \/ ReadPending(w) \/ Reward(w) \/ Convert(w) \/ Invoice(w)

Next ==
  \/ \E u \in Users : Lapse(u) \/ \E w \in Workers : Apply(w, u)
  \/ \E p \in Payments : Pay(p) \/ \E w \in Workers : Checkout(w, p) \/ Fulfill(w, p)
  \/ \E w \in Workers : Work(w) \/ Fail(w)

Spec == Init /\ [][Next]_vars

-----------------------------------------------------------------------------
(* Properties the code keeps.                                                *)

\* A conversion, which no retry repeats, names a payment whose reward was
\* granted, of the user it belongs to: the referrer is never left without it.
ConvertedWasRewarded ==
  \A u \in Users : status[u] = "converted" =>
    /\ firstPayment[u] \in rewarded
    /\ BuyerOf[firstPayment[u]] = u

\* An attribution settles once: racing payments and repeated codes never reopen
\* it or move it to another payment.
SettledOnce ==
  [][\A u \in Users : status[u] \in {"converted", "expired"} =>
       status'[u] = status[u] /\ firstPayment'[u] = firstPayment[u]]_vars

\* Invoiced with the discount, a payment has settled the attribution it came
\* from: the discount cannot be had again for later checkouts.
DiscountSettles ==
  \A p \in invoiced : checkout[p] = "discounted" => status[BuyerOf[p]] \in {"converted", "expired"}

\* What checks that race their writes can let through stays within the race: a friend is
\* rewarded for more than once only by payments that race or whose handler failed before
\* the conversion, and the maximum of friends is exceeded only by requests that counted at
\* once (the slots are counted in one statement and taken in another).
RewardsOf(u) == {p \in rewarded : BuyerOf[p] = u}
RacesAreBounded ==
  /\ \A u \in Users : Cardinality(RewardsOf(u)) <= Cardinality(Workers) + failures
  /\ SlotsUsed <= MaxReferrals + Cardinality(Workers) - 1
=============================================================================
