------------------------- MODULE PaymentFulfillment -------------------------
(***************************************************************************)
(* What happens between the payment provider and the wallet: a captured    *)
(* payment is fulfilled (plan, credits, referral, GST invoice) and a       *)
(* processed refund is taken back.  The same payment is reported by        *)
(* several webhook events, each delivered any number of times and in any   *)
(* order, by the browser (verify-payment) and by an admin's retry; every   *)
(* handler runs in a process of its own, one database call a step, and may *)
(* throw or die between any two.                                           *)
(*                                                                         *)
(* Fulfillment is serialized by the named lock fulfill:<payment>; the      *)
(* deliveries of one event by its row of billing_webhook_events.  The      *)
(* wallet is seen as CreditWallet shows it to be: a grant or refund takes  *)
(* effect once per key, whoever repeats it.                                *)
(***************************************************************************)
EXTENDS Integers, FiniteSets, FiniteSetsExt

CONSTANTS
  Workers,        \* processes that handle a request
  Intents,        \* checkout intents, each with the one payment that succeeds
  Legacy,         \* the intents that are top-ups without an organization
  Refunds,        \* refunds at the provider
  RefundOf,       \* [Refunds -> Intents]
  RefundPaise,    \* [Refunds -> Nat \ {0}]
  TotalPaise,     \* what every intent costs
  Preludes,       \* reports about a payment before its capture that occur
  Requests,       \* who else asks to fulfill a payment: the browser, an admin
  Nobody,         \* the holder of a lock nobody holds
  MaxDeliveries,  \* bound on webhook deliveries
  MaxFailures     \* bound on exceptions and crashes

ASSUME FulfillmentAssumption ==
  /\ Legacy \subseteq Intents
  /\ RefundOf \in [Refunds -> Intents]
  /\ RefundPaise \in [Refunds -> Nat \ {0}]
  /\ TotalPaise \in Nat \ {0}
  /\ Preludes \subseteq {"authorized", "failed"}
  /\ Requests \subseteq {"verify", "retry"}
  /\ Nobody \notin Workers
  /\ MaxDeliveries \in Nat /\ MaxFailures \in Nat

PaymentState == {"created", "pending", "authorized", "captured", "failed",
                 "refund_pending", "partially_refunded", "refunded"}
Confirmed(s) == s \in {"captured", "refund_pending", "partially_refunded", "refunded"}

\* Provider events.  payment.captured and order.paid report the same payment.
PaymentEvents == {"authorized", "failed", "captured", "paid"} \X Intents
RefundEvents == {"refund.created", "refund.processed", "refund.failed"} \X Refunds
Events == PaymentEvents \cup RefundEvents

\* What a process may be working on.
Jobs == ({"webhook"} \X Events) \cup ({"verify", "retry"} \X Intents)
          \cup ({"refund"} \X Refunds) \cup {<<"none", "none">>}

VARIABLES
  stage, refundAt,     \* provider: state of the payment, state of the refund
  emitted,             \* provider: events it has to report
  deliveries,          \* bounded counter
  hook, overdue,       \* billing_webhook_events: status; processing for too long
  tookOver,            \* events claimed after the timeout, for the properties
  status, known,       \* checkout intents: status; razorpay_payment_id is set
  plans,               \* intents whose plan was applied
  granted, topups,     \* organization grants by payment; legacy grants, counted
  converted,           \* payments whose referral was processed
  invoice, invoiceStatus, lastNumber,   \* invoices and their sequence
  refundRow,           \* billing_refunds: status
  takenBack,           \* refunds taken from the wallet
  lock,                \* [Intents -> worker holding fulfill:<payment>]
  job, at,             \* [Workers -> its job and its place in the handler]
  next,                \* [Workers -> payment state it has decided to set]
  answer,              \* [Workers -> refund status it works with]
  already,             \* [Workers -> paise an admin's request saw refunded]
  failures

provider == <<stage, refundAt, emitted>>
hooks == <<hook, overdue, tookOver>>
intents == <<status, known>>
goods == <<plans, granted, topups, converted>>
invoices == <<invoice, invoiceStatus, lastNumber>>
refunds == <<refundRow, takenBack>>
locals == <<next, answer, already>>
vars == <<provider, deliveries, hooks, intents, goods, invoices, refunds, lock,
          job, at, locals, failures>>

Places == {"idle", "fetch", "mark", "lock", "find", "plan", "grant", "refer", "invoice",
           "paid", "ask", "record", "takeback", "sum", "settle", "stamp", "complete", "failing"}

TypeOK ==
  /\ stage \in [Intents -> {"created", "authorized", "captured"}]
  /\ refundAt \in [Refunds -> {"none", "pending", "processed", "failed"}]
  /\ emitted \subseteq Events
  /\ deliveries \in 0 .. MaxDeliveries
  /\ hook \in [Events -> {"none", "processing", "completed", "failed"}]
  /\ {overdue, tookOver} \subseteq SUBSET Events
  /\ status \in [Intents -> PaymentState]
  /\ {known, plans, granted, converted} \subseteq SUBSET Intents
  /\ topups \in [Intents -> Nat]
  /\ invoice \in [Intents -> 0 .. lastNumber]
  /\ invoiceStatus \in [Intents -> {"none", "paid"} \cup PaymentState]
  /\ lastNumber \in 0 .. Cardinality(Intents)
  /\ refundRow \in [Refunds -> {"none", "pending", "processed", "failed"}]
  /\ takenBack \subseteq Refunds
  /\ lock \in [Intents -> Workers \cup {Nobody}]
  /\ job \in [Workers -> Jobs]
  /\ at \in [Workers -> Places]
  /\ next \in [Workers -> PaymentState]
  /\ answer \in [Workers -> {"pending", "processed", "failed"}]
  /\ already \in [Workers -> Nat]
  /\ failures \in 0 .. MaxFailures

Init ==
  /\ stage = [i \in Intents |-> "created"]
  /\ refundAt = [r \in Refunds |-> "none"]
  /\ emitted = {} /\ deliveries = 0
  /\ hook = [e \in Events |-> "none"]
  /\ overdue = {} /\ tookOver = {}
  /\ status = [i \in Intents |-> "created"]
  /\ known = {} /\ plans = {} /\ granted = {} /\ converted = {}
  /\ topups = [i \in Intents |-> 0]
  /\ invoice = [i \in Intents |-> 0]
  /\ invoiceStatus = [i \in Intents |-> "none"]
  /\ lastNumber = 0
  /\ refundRow = [r \in Refunds |-> "none"]
  /\ takenBack = {}
  /\ lock = [i \in Intents |-> Nobody]
  /\ job = [w \in Workers |-> <<"none", "none">>]
  /\ at = [w \in Workers |-> "idle"]
  /\ next = [w \in Workers |-> "created"]
  /\ answer = [w \in Workers |-> "pending"]
  /\ already = [w \in Workers |-> 0]
  /\ failures = 0

-----------------------------------------------------------------------------
(* Reading a job, moving through a handler, changing an intent.              *)

Goto(w, place) == at' = [at EXCEPT ![w] = place]
Step(w, from, to) == at[w] = from /\ Goto(w, to)

\* A handler that has answered leaves nothing behind.
Leave(w) ==
  /\ Goto(w, "idle")
  /\ job' = [job EXCEPT ![w] = <<"none", "none">>]
  /\ next' = [next EXCEPT ![w] = "created"]
  /\ answer' = [answer EXCEPT ![w] = "pending"]
  /\ already' = [already EXCEPT ![w] = 0]

IsHook(w) == job[w][1] = "webhook"
EventOf(w) == job[w][2]
RefundOfJob(w) == IF IsHook(w) THEN EventOf(w)[2] ELSE job[w][2]
OnRefund(w) == job[w][1] = "refund" \/ (IsHook(w) /\ EventOf(w) \in RefundEvents)
Subject(w) ==   \* the intent a job is about
  IF OnRefund(w) THEN RefundOf[RefundOfJob(w)]
  ELSE IF IsHook(w) THEN EventOf(w)[2] ELSE job[w][2]

FailedAlways(s) ==   \* mutant: a failed attempt is always recorded
  CASE s \in {"created", "pending"}  -> {"pending", "authorized", "captured", "failed"}
    [] s \in {"authorized", "failed"} -> {"pending", "authorized", "captured", "failed"}
    [] s = "captured"           -> {"failed", "refund_pending", "partially_refunded", "refunded"}
    [] s = "refund_pending"     -> {"captured", "partially_refunded", "refunded"}
    [] s = "partially_refunded" -> {"refund_pending", "refunded"}
    [] s = "refunded"           -> {}

TRANSITIONS(s) ==
  CASE s = "created"            -> {"pending", "authorized", "captured", "failed"}
    [] s = "pending"            -> {"authorized", "captured", "failed"}
    [] s = "authorized"         -> {"captured", "failed"}
    [] s = "failed"             -> {"pending", "authorized", "captured"}
    [] s = "captured"           -> {"refund_pending", "partially_refunded", "refunded"}
    [] s = "refund_pending"     -> {"captured", "partially_refunded", "refunded"}
    [] s = "partially_refunded" -> {"refund_pending", "refunded"}
    [] s = "refunded"           -> {}

CanTransition(s, t) == s = t \/ t \in TRANSITIONS(s)

\* transitionCheckoutIntentState: under a row lock; a refused transition changes nothing.
\* Ids are the intents whose row names the payment that succeeds, if this is accepted.
SetIntent(i, s, ids) ==
  IF CanTransition(status[i], s)
    THEN status' = [status EXCEPT ![i] = s] /\ known' = ids
    ELSE UNCHANGED intents

NeverFreed(w) == lock   \* mutant: the lock is not released in a finally
LocksWithout(w) == [i \in Intents |-> IF lock[i] = w THEN Nobody ELSE lock[i]]

-----------------------------------------------------------------------------
(* The provider.                                                             *)

ProviderUnchanged == UNCHANGED <<deliveries, hooks, intents, goods, invoices, refunds, lock,
                                 job, at, locals, failures>>

\* A payment of the order is authorized, or an attempt fails before one succeeds.
Prelude(i, kind) ==
  /\ kind \in Preludes
  /\ stage[i] # "captured"
  /\ <<kind, i>> \notin emitted
  /\ stage' = IF kind = "authorized" THEN [stage EXCEPT ![i] = "authorized"] ELSE stage
  /\ emitted' = emitted \cup {<<kind, i>>}
  /\ UNCHANGED refundAt /\ ProviderUnchanged

Captured(i) ==
  /\ stage[i] # "captured"
  /\ stage' = [stage EXCEPT ![i] = "captured"]
  /\ emitted' = emitted \cup {<<"captured", i>>, <<"paid", i>>}
  /\ UNCHANGED refundAt /\ ProviderUnchanged

PaiseIn(S) == MapThenSumSet(LAMBDA r : RefundPaise[r], S)
RefundedAt(i) == PaiseIn({r \in Refunds : RefundOf[r] = i /\ refundAt[r] \in {"pending", "processed"}})

Refundable(r) ==
  /\ refundAt[r] = "none"
  /\ stage[RefundOf[r]] = "captured"
  /\ RefundedAt(RefundOf[r]) + RefundPaise[r] <= TotalPaise

\* A refund made at the provider, and its later outcome.
RefundAtProvider(r) ==
  /\ Refundable(r)
  /\ refundAt' = [refundAt EXCEPT ![r] = "pending"]
  /\ emitted' = emitted \cup {<<"refund.created", r>>}
  /\ UNCHANGED stage /\ ProviderUnchanged

RefundOutcome(r, s) ==
  /\ refundAt[r] = "pending"
  /\ refundAt' = [refundAt EXCEPT ![r] = s]
  /\ emitted' = emitted \cup {<<IF s = "processed" THEN "refund.processed" ELSE "refund.failed", r>>}
  /\ UNCHANGED stage /\ ProviderUnchanged

-----------------------------------------------------------------------------
(* The start of a job.                                                       *)

TakesAnyProcessing(e) ==   \* mutant: a row in processing is always retried
  hook[e] \in {"none", "failed", "processing"}
MayClaim(e) == hook[e] \in {"none", "failed"} \/ (hook[e] = "processing" /\ e \in overdue)

OutcomeOf(e) == IF e[1] = "refund.processed" THEN "processed" ELSE "failed"

\* beginWebhookDelivery: the insert, or the read and the UPDATE that repeats its
\* condition; a row it may not claim answers 200 and nothing more happens.
Deliver(w, e) ==
  /\ at[w] = "idle"
  /\ e \in emitted
  /\ deliveries < MaxDeliveries
  /\ deliveries' = deliveries + 1
  /\ IF MayClaim(e)
       THEN /\ hook' = [hook EXCEPT ![e] = "processing"]
            /\ overdue' = overdue \ {e}
            /\ tookOver' = IF hook[e] = "processing" /\ e \in overdue THEN tookOver \cup {e} ELSE tookOver
            /\ job' = [job EXCEPT ![w] = <<"webhook", e>>]
            /\ IF e \in RefundEvents
                 THEN /\ Goto(w, "record")
                      /\ answer' = [answer EXCEPT ![w] = IF e[1] = "refund.created" THEN "pending"
                                                         ELSE OutcomeOf(e)]
                      /\ UNCHANGED next
                 ELSE /\ Goto(w, "mark")
                      /\ UNCHANGED answer
                      /\ next' = [next EXCEPT ![w] = IF e[1] = "paid" THEN "captured" ELSE e[1]]
       ELSE UNCHANGED <<hooks, job, at, next, answer>>
  /\ UNCHANGED <<provider, intents, goods, invoices, refunds, lock, already, failures>>

\* The browser, or an admin, asks to fulfill the payment.
Ask(w, kind, i) ==
  /\ at[w] = "idle"
  /\ job' = [job EXCEPT ![w] = <<kind, i>>]
  /\ Goto(w, "fetch")
  /\ UNCHANGED <<provider, deliveries, hooks, intents, goods, invoices, refunds, lock, locals, failures>>

\* fetchRazorpayPayment.  An admin's retry goes on only with a captured payment.
Fetch(w) ==
  /\ at[w] = "fetch"
  /\ IF stage[Subject(w)] = "created" \/ (job[w][1] = "retry" /\ stage[Subject(w)] # "captured")
       THEN Leave(w)
       ELSE /\ next' = [next EXCEPT ![w] = stage[Subject(w)]]
            /\ Goto(w, "mark")
            /\ UNCHANGED <<job, answer, already>>
  /\ UNCHANGED <<provider, deliveries, hooks, intents, goods, invoices, refunds, lock, failures>>

\* The first transition of a handler; only a captured payment goes on to fulfillment.
Mark(w) ==
  /\ at[w] = "mark"
  /\ SetIntent(Subject(w), next[w],   \* a failed attempt is a payment with another id
       IF next[w] = "failed" THEN known \ {Subject(w)} ELSE known \cup {Subject(w)})
  /\ Goto(w, IF next[w] = "captured" THEN "lock" ELSE "complete")
  /\ UNCHANGED <<provider, deliveries, hooks, goods, invoices, refunds, lock, job, locals, failures>>

-----------------------------------------------------------------------------
(* fulfillVerifiedPayment and fulfillOnceLocked.                             *)

FulfillUnchanged == UNCHANGED <<provider, deliveries, hooks, refunds, job, locals, failures>>

NoLock(w) ==   \* mutant: the work runs without the lock
  /\ Step(w, "lock", "find")
  /\ UNCHANGED <<lock, intents, goods, invoices>> /\ FulfillUnchanged

TakeLock(w) ==
  /\ Step(w, "lock", "find")
  /\ lock[Subject(w)] = Nobody
  /\ lock' = [lock EXCEPT ![Subject(w)] = w]
  /\ UNCHANGED <<intents, goods, invoices>> /\ FulfillUnchanged

FindInvoice(w) ==
  /\ Step(w, "find", IF invoice[Subject(w)] # 0 THEN "paid"
                     ELSE IF Subject(w) \in Legacy THEN "grant" ELSE "plan")
  /\ UNCHANGED <<lock, intents, goods, invoices>> /\ FulfillUnchanged

PlanMeansDone(w) ==   \* mutant: an applied plan is taken to mean that credits were granted
  /\ Step(w, "plan", IF Subject(w) \in plans THEN "invoice" ELSE "grant")
  /\ plans' = plans \cup {Subject(w)}
  /\ UNCHANGED <<lock, intents, granted, topups, converted, invoices>> /\ FulfillUnchanged

ApplyPlan(w) ==
  /\ Step(w, "plan", "grant")
  /\ plans' = plans \cup {Subject(w)}
  /\ UNCHANGED <<lock, intents, granted, topups, converted, invoices>> /\ FulfillUnchanged

\* An organization's grant has the key payment:<id>; grantTopUpCredits has none.
GrantCredits(w) ==
  LET i == Subject(w)
  IN /\ IF i \in Legacy
          THEN /\ Step(w, "grant", "invoice")
               /\ topups' = [topups EXCEPT ![i] = @ + 1]
               /\ UNCHANGED granted
          ELSE /\ Step(w, "grant", "refer")
               /\ granted' = granted \cup {i}
               /\ UNCHANGED topups
     /\ UNCHANGED <<lock, intents, plans, converted, invoices>> /\ FulfillUnchanged

ConvertReferral(w) ==
  /\ Step(w, "refer", "invoice")
  /\ converted' = converted \cup {Subject(w)}
  /\ UNCHANGED <<lock, intents, plans, granted, topups, invoices>> /\ FulfillUnchanged

DrawnAlone(w) ==   \* mutant: the number has a transaction of its own; the insert may fail
  LET i == Subject(w)
  IN /\ at[w] = "invoice"
     /\ lastNumber' = lastNumber + 1
     /\ \/ /\ invoice' = [invoice EXCEPT ![i] = lastNumber + 1]
           /\ invoiceStatus' = [invoiceStatus EXCEPT ![i] = "paid"]
           /\ Goto(w, "paid")
        \/ UNCHANGED <<invoice, invoiceStatus, at>>
     /\ UNCHANGED <<lock, intents, goods>> /\ FulfillUnchanged

\* createPaidInvoice: number and row in one transaction, unless the payment has one.
CreateInvoice(w) ==
  LET i == Subject(w)
  IN /\ Step(w, "invoice", "paid")
     /\ IF invoice[i] = 0
          THEN /\ lastNumber' = lastNumber + 1
               /\ invoice' = [invoice EXCEPT ![i] = lastNumber + 1]
               /\ invoiceStatus' = [invoiceStatus EXCEPT ![i] = "paid"]
          ELSE UNCHANGED invoices
     /\ UNCHANGED <<lock, intents, goods>> /\ FulfillUnchanged

MarkPaid(w) ==
  /\ Step(w, "paid", "complete")
  /\ SetIntent(Subject(w), "captured", known)
  /\ lock' = LocksWithout(w)
  /\ UNCHANGED <<goods, invoices>> /\ FulfillUnchanged

Fulfill(w) == TakeLock(w) \/ FindInvoice(w) \/ ApplyPlan(w) \/ GrantCredits(w)
                \/ ConvertReferral(w) \/ CreateInvoice(w) \/ MarkPaid(w)

-----------------------------------------------------------------------------
(* processRefundWebhook and the admin's refund request.                      *)

RefundUnchanged == UNCHANGED <<deliveries, hooks, goods, lastNumber, invoice, lock, failures>>

\* refundedAmountForIntent: every refund not known to have failed.
RecordedPaise(i) == PaiseIn({r \in Refunds : RefundOf[r] = i /\ refundRow[r] \notin {"none", "failed"}})

MaxOf(a, b) == IF a > b THEN a ELSE b

\* The admin's request reads what is refundable ...
RequestRefund(w, r) ==
  LET i    == RefundOf[r]
      seen == MaxOf(RecordedPaise(i), RefundedAt(i))
  IN /\ at[w] = "idle"
     /\ i \in known /\ stage[i] = "captured"
     /\ RefundPaise[r] <= TotalPaise - seen
     /\ already' = [already EXCEPT ![w] = seen]
     /\ job' = [job EXCEPT ![w] = <<"refund", r>>]
     /\ Goto(w, "ask")
     /\ UNCHANGED <<provider, intents, invoiceStatus, refunds, next, answer>> /\ RefundUnchanged

\* ... and asks the provider, which refuses what exceeds the payment.
AskProvider(w) ==
  LET r == RefundOfJob(w)
  IN /\ at[w] = "ask"
     /\ IF Refundable(r)
          THEN /\ \E s \in {"pending", "processed"} :
                    /\ refundAt' = [refundAt EXCEPT ![r] = s]
                    /\ answer' = [answer EXCEPT ![w] = s]
                    /\ emitted' = emitted \cup {<<k, r>> : k \in {"refund.created"} \cup
                         IF s = "processed" THEN {"refund.processed"} ELSE {}}
               /\ Goto(w, "record")
               /\ UNCHANGED <<job, next, already>>
          ELSE Leave(w) /\ UNCHANGED <<refundAt, emitted>>
     /\ UNCHANGED <<stage, intents, invoiceStatus, refunds>> /\ RefundUnchanged

\* A webhook finds the intent by the id of the payment; it throws when no row has it.
FindsIntent(w) == IsHook(w) => Subject(w) \in known

RecordRefund(w) ==
  /\ at[w] = "record"
  /\ FindsIntent(w)
  /\ refundRow' = [refundRow EXCEPT ![RefundOfJob(w)] = answer[w]]
  /\ next' = IF answer[w] = "failed" THEN [next EXCEPT ![w] = "captured"] ELSE next
  /\ Goto(w, IF answer[w] = "failed" THEN "settle"
             ELSE IF answer[w] = "processed" /\ Subject(w) \notin Legacy THEN "takeback"
             ELSE "sum")
  /\ UNCHANGED <<provider, intents, invoiceStatus, takenBack, answer, already, job>> /\ RefundUnchanged

NotTakenBack(w) ==   \* mutant: a repeated status is not acted on
  /\ at[w] = "takeback"
  /\ Subject(w) \in granted
  /\ takenBack' = IF status[Subject(w)] = "refunded" THEN takenBack
                    ELSE takenBack \cup {RefundOfJob(w)}
  /\ Goto(w, "sum")
  /\ UNCHANGED <<provider, intents, invoiceStatus, refundRow, locals, job>> /\ RefundUnchanged

\* refundOrganizationCreditsForPayment; without a grant it throws.
TakeBackCredits(w) ==
  /\ at[w] = "takeback"
  /\ Subject(w) \in granted
  /\ takenBack' = takenBack \cup {RefundOfJob(w)}
  /\ Goto(w, "sum")
  /\ UNCHANGED <<provider, intents, invoiceStatus, refundRow, locals, job>> /\ RefundUnchanged

\* The webhook sums the rows again; the admin's request adds to what it saw.
SumRefunds(w) ==
  LET total == IF IsHook(w) THEN RecordedPaise(Subject(w))
                            ELSE already[w] + RefundPaise[RefundOfJob(w)]
  IN /\ Step(w, "sum", "settle")
     /\ next' = [next EXCEPT ![w] =
          IF answer[w] # "processed" THEN "refund_pending"
          ELSE IF total >= TotalPaise THEN "refunded" ELSE "partially_refunded"]
     /\ UNCHANGED <<provider, intents, invoiceStatus, refunds, answer, already, job>> /\ RefundUnchanged

SettleIntent(w) ==
  /\ Step(w, "settle", "stamp")
  /\ SetIntent(Subject(w), next[w], known)
  /\ UNCHANGED <<provider, invoiceStatus, refunds, locals, job>> /\ RefundUnchanged

StampInvoice(w) ==
  /\ Step(w, "stamp", "complete")
  /\ invoiceStatus' = IF invoice[Subject(w)] = 0 THEN invoiceStatus
       ELSE [invoiceStatus EXCEPT ![Subject(w)] = IF next[w] = "captured" THEN "paid" ELSE next[w]]
  /\ UNCHANGED <<provider, intents, refunds, locals, job>> /\ RefundUnchanged

Refunding(w) == AskProvider(w) \/ RecordRefund(w) \/ TakeBackCredits(w) \/ SumRefunds(w)
                  \/ SettleIntent(w) \/ StampInvoice(w)

-----------------------------------------------------------------------------
(* The end of a job.                                                         *)

EndUnchanged == UNCHANGED <<provider, deliveries, overdue, tookOver, intents, goods, invoices, refunds>>

\* completeWebhookDelivery, or the answer to the browser or the admin.
Complete(w) ==
  /\ at[w] = "complete" /\ Leave(w)
  /\ hook' = IF IsHook(w) THEN [hook EXCEPT ![EventOf(w)] = "completed"] ELSE hook
  /\ UNCHANGED <<lock, failures>> /\ EndUnchanged

\* An exception unwinds the handler: the lock is released in a finally, a
\* webhook's catch records the failure, a request only answers with an error.
Throw(w) ==
  /\ IF IsHook(w) THEN Goto(w, "failing") /\ UNCHANGED <<job, locals>> ELSE Leave(w)
  /\ lock' = LocksWithout(w)
  /\ UNCHANGED hook /\ EndUnchanged

\* The exceptions the code itself throws: no intent has the refunded payment, no
\* grant was made for it, or the lock was not free in time.
CannotGoOn(w) ==
  \/ at[w] = "record" /\ ~FindsIntent(w)
  \/ at[w] = "takeback" /\ Subject(w) \notin granted
  \/ at[w] = "lock" /\ lock[Subject(w)] # Nobody

GiveUp(w) == CannotGoOn(w) /\ Throw(w) /\ UNCHANGED failures

\* Any database or network call may throw ...
Fail(w) ==
  /\ at[w] \notin {"idle", "failing"}
  /\ failures < MaxFailures /\ failures' = failures + 1
  /\ Throw(w)

\* failWebhookDelivery
FailHook(w) ==
  /\ at[w] = "failing" /\ Leave(w)
  /\ hook' = [hook EXCEPT ![EventOf(w)] = "failed"]
  /\ UNCHANGED <<lock, failures>> /\ EndUnchanged

\* ... and the process may die, with its connection and the locks on it.
Crash(w) ==
  /\ at[w] # "idle"
  /\ failures < MaxFailures /\ failures' = failures + 1
  /\ Leave(w)
  /\ lock' = LocksWithout(w)
  /\ UNCHANGED hook /\ EndUnchanged

\* An event has been processing for the timeout, its handler dead or only slow.
Overdue(e) ==
  /\ hook[e] = "processing" /\ e \notin overdue
  /\ overdue' = overdue \cup {e}
  /\ UNCHANGED <<provider, deliveries, hook, tookOver, intents, goods, invoices, refunds, lock,
                 job, at, locals, failures>>

-----------------------------------------------------------------------------
Work(w) == Fetch(w) \/ Mark(w) \/ Fulfill(w) \/ Refunding(w) \/ Complete(w) \/ FailHook(w)

Next ==
  \/ \E i \in Intents : Captured(i) \/ \E kind \in Preludes : Prelude(i, kind)
  \/ \E r \in Refunds : RefundAtProvider(r) \/ \E s \in {"processed", "failed"} : RefundOutcome(r, s)
  \/ \E e \in Events : Overdue(e)
  \/ \E w \in Workers :
       \/ \E e \in Events : Deliver(w, e)
       \/ \E i \in Intents, kind \in Requests : Ask(w, kind, i)
       \/ \E r \in Refunds : RequestRefund(w, r)
       \/ Work(w) \/ GiveUp(w) \/ Fail(w) \/ Crash(w)

Spec == Init /\ [][Next]_vars

\* A handler that is running goes on, and an admin who keeps retrying a payment
\* keeps finding a process to do it.
Repairing ==
  /\ \A w \in Workers : WF_vars(Work(w)) /\ WF_vars(at[w] \in {"record", "takeback"} /\ GiveUp(w))
  /\ \A i \in Intents : SF_vars(\E w \in Workers : Ask(w, "retry", i))

RepairedSpec == Spec /\ Repairing

-----------------------------------------------------------------------------
(* Properties.                                                               *)

\* Tax invoices are numbered 1, 2, 3, ... without a gap or a repetition, whatever
\* is retried, raced or thrown (nextInvoiceSerial inside createPaidInvoice).
InvoiceNumbersHaveNoGap ==
  LET invoiced == {i \in Intents : invoice[i] # 0}
  IN /\ {invoice[i] : i \in invoiced} = 1 .. lastNumber
     /\ Cardinality(invoiced) = lastNumber

\* An invoice means that everything before it was done, since its existence is
\* what fulfillOnceLocked takes for "already provisioned": the payment is
\* confirmed and named by its row, the plan applied, the credits granted, the
\* referral processed; or a top-up's credits granted.
InvoicedIsFulfilled ==
  \A i \in Intents : invoice[i] # 0 =>
    /\ Confirmed(status[i])
    /\ i \in Legacy => topups[i] > 0
    /\ i \notin Legacy => {i} \subseteq known \cap plans \cap granted \cap converted

\* A top-up without an organization has no idempotency key; the lock and the
\* invoice keep racing reports of one payment from granting it twice, as long as
\* nothing throws between the grant and the invoice.
LegacyGrantedOnce == \A i \in Intents : failures = 0 => topups[i] <= 1

\* Reports arrive in any order: once a payment is confirmed no late or failed
\* report takes that back, and a complete refund is final.
ConfirmedStaysConfirmed ==
  [][\A i \in Intents : /\ Confirmed(status[i]) => Confirmed(status'[i])
                        /\ status[i] = "refunded" => status'[i] = "refunded"]_vars

\* An event recorded as completed, which no redelivery will process again, has
\* done its work: the payment is invoiced, the refund taken from the wallet.
CompletedMeansDone ==
  \A e \in Events : hook[e] = "completed" =>
    /\ e[1] \in {"captured", "paid"} => invoice[e[2]] # 0
    /\ e[1] = "refund.processed" /\ RefundOf[e[2]] \notin Legacy => e[2] \in takenBack

\* Two processes handle one event only if the first has had it for the timeout.
ClaimIsExclusive ==
  \A w, v \in Workers :
    w # v /\ {at[w], at[v]} \cap {"idle"} = {} /\ IsHook(w) /\ job[w] = job[v]
      => EventOf(w) \in tookOver

\* A captured payment is fulfilled in the end if an admin keeps retrying it,
\* whatever failed before and whoever holds the lock now.
AlwaysRepairable == \A i \in Intents : stage[i] = "captured" ~> invoice[i] # 0
=============================================================================
