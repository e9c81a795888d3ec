------------------------------- MODULE Gateway -------------------------------
(***************************************************************************)
(* Calls of the AI gateway (gateway.ts: executeChat and streamChat) with   *)
(* the platform credential, and the paid budget of one remediation run     *)
(* (security-run-budget.ts).                                               *)
(*                                                                         *)
(* A request tries the models of its chain, each up to MaxAttempts times.  *)
(* An attempt reserves credits, for paid remediation also a part of the    *)
(* run's budget, calls the provider and settles both; the catch block      *)
(* gives back, retries, falls back or throws.  Of the organization wallet  *)
(* only the charges are kept (the reservations, their release and the      *)
(* sweeper are in CreditWallet).  The providers and MySQL are external.    *)
(* Left out: BYOK, the choice of models, and the free model's request      *)
(* window, which can only refuse an attempt before it is sent.             *)
(***************************************************************************)
EXTENDS Naturals, FiniteSets

CONSTANTS
  Requests,
  Kinds,        \* [Requests -> the kinds of call it may be]
  Chain,        \* models in the chain of a chat or a stream; paid remediation has one
  MaxAttempts,  \* attempts for one model: 3 in the code
  RunMax,       \* max_usd of the run
  RunCost,      \* what a paid attempt reserves of it
  MaxMeasured,  \* bound on the measured cost, which counts reasoning tokens twice
  MaxMishaps    \* bound on deaths and failed statements together

ASSUME GatewayAssumption ==
  /\ Kinds \in [Requests -> SUBSET {"chat", "stream", "paid"}]
  /\ Chain \in Nat \ {0} /\ MaxAttempts \in Nat \ {0}
  /\ RunMax \in Nat /\ RunCost \in Nat /\ MaxMeasured \in Nat /\ RunCost <= MaxMeasured
  /\ MaxMishaps \in Nat

VARIABLES
  at,          \* [Requests -> where the call is]
  kind,        \* [Requests -> "chat", "stream" or "paid"]
  model,       \* [Requests -> index in the chain]
  attempt,     \* [Requests -> attempts made before this one for this model]
  why,         \* [Requests -> code of the error that is handled]
  completed,   \* [Requests -> providerCompleted]
  bill,        \* [Requests -> what the attempt has cost at the provider] (history)
  charges,     \* [Requests -> reservations of credits settled for it]
  reserved,    \* reserved_usd of the run
  spent,       \* spent_usd of the run
  open,        \* the requests whose attempt has a part of reserved_usd
  incurred,    \* what the run's attempts cost that are not open any more (history)
  excess,      \* what they were measured at beyond their reservations (history)
  doubtful,    \* reservations of attempts whose cost nobody knows or booked (history)
  botched,     \* [Requests -> its attempts whose accounting failed] (history)
  mishaps

call == <<at, kind, model, attempt, why, completed, bill>>
run == <<reserved, spent, open, incurred, excess, doubtful>>
vars == <<call, run, charges, botched, mishaps>>

Ended == {"idle", "answered", "failed"}

TypeOK ==
  /\ at \in [Requests -> Ended \cup {"credits", "budget", "sent", "settling", "charging",
                                     "recording", "caught", "deciding"}]
  /\ kind \in [Requests -> {"chat", "stream", "paid"}]
  /\ model \in [Requests -> 1 .. Chain]
  /\ attempt \in [Requests -> 0 .. MaxAttempts - 1]
  /\ why \in [Requests -> {"none", "RATE_LIMIT", "TIMEOUT", "INVALID_REQUEST", "QUOTA_EXCEEDED"}]
  /\ completed \in [Requests -> BOOLEAN]
  /\ bill \in [Requests -> 0 .. RunCost]
  /\ charges \in [Requests -> Nat] /\ botched \in [Requests -> Nat]
  /\ reserved \in Nat /\ spent \in Nat /\ open \subseteq Requests
  /\ incurred \in Nat /\ excess \in Nat /\ doubtful \in Nat
  /\ mishaps \in 0 .. MaxMishaps

Init ==
  /\ at = [r \in Requests |-> "idle"]
  /\ kind \in [Requests -> {"chat", "stream", "paid"}]
  /\ \A r \in Requests : kind[r] \in Kinds[r]
  /\ model = [r \in Requests |-> 1] /\ attempt = [r \in Requests |-> 0]
  /\ why = [r \in Requests |-> "none"]
  /\ completed = [r \in Requests |-> FALSE]
  /\ bill = [r \in Requests |-> 0]
  /\ charges = [r \in Requests |-> 0] /\ botched = [r \in Requests |-> 0]
  /\ reserved = 0 /\ spent = 0 /\ open = {}
  /\ incurred = 0 /\ excess = 0 /\ doubtful = 0
  /\ mishaps = 0

Mishap == mishaps < MaxMishaps /\ mishaps' = mishaps + 1
Paid(r) == kind[r] = "paid"
To(r, place) == at' = [at EXCEPT ![r] = place]

Close(r, cost) ==
  /\ open' = open \ {r}
  /\ incurred' = IF r \in open THEN incurred + cost ELSE incurred

\* Nobody will settle r's part of the run's budget any more.
Abandon(r, cost) ==
  /\ Close(r, cost)
  /\ doubtful' = IF r \in open THEN doubtful + 1 ELSE doubtful
  /\ UNCHANGED <<reserved, spent, excess>>

-----------------------------------------------------------------------------
(* The catch block.                                                          *)

Throw(r, code) ==
  /\ To(r, "caught")
  /\ why' = [why EXCEPT ![r] = code]

\* The first statement of the loop's body sets the attempt's variables back.
Attempt(r, m, n) ==
  /\ model' = [model EXCEPT ![r] = m]
  /\ attempt' = [attempt EXCEPT ![r] = n]
  /\ completed' = [completed EXCEPT ![r] = FALSE]
  /\ bill' = [bill EXCEPT ![r] = 0]
  /\ why' = [why EXCEPT ![r] = "none"]
  /\ To(r, "credits")

Fail(r) == To(r, "failed") /\ UNCHANGED <<model, attempt, completed, bill, why>>

\* The next model, when the policy allows a fallback and there is one.
NextModel(r) ==
  \/ Fail(r)
  \/ ~Paid(r) /\ model[r] < Chain /\ Attempt(r, model[r] + 1, 0)

Retryable(r) == why[r] \in {"RATE_LIMIT", "TIMEOUT"}

\* The provider did no work for the attempt: a refusal, and not a timeout.
Refused(r) == why[r] \in {"RATE_LIMIT", "INVALID_REQUEST"}

\* mutant: nothing is given back
KeepRefused(r, measured) == Close(r, bill[r]) /\ UNCHANGED <<reserved, spent, excess, doubtful>>

\* settleSecurityCost: one UPDATE.
SettleRun(r, measured) ==
  /\ Close(r, bill[r])
  /\ reserved' = IF reserved < RunCost THEN 0 ELSE reserved - RunCost
  /\ spent' = spent + measured
  /\ excess' = IF measured > RunCost THEN excess + (measured - RunCost) ELSE excess
  /\ UNCHANGED doubtful

\* What the catch block does to the run's budget, before it releases the credits.
Handle(r) ==
  /\ at[r] = "caught"
  /\ To(r, "deciding")
  /\ IF r \in open /\ Refused(r) /\ ~completed[r] THEN SettleRun(r, 0) ELSE Abandon(r, bill[r])
  /\ UNCHANGED <<kind, model, attempt, why, completed, bill, charges, botched, mishaps>>

\* The statement that gives back fails: the error leaves the catch block.
HandleFails(r) ==
  /\ at[r] = "caught" /\ r \in open /\ Refused(r) /\ ~completed[r]
  /\ Mishap
  /\ To(r, "failed") /\ Abandon(r, bill[r])
  /\ UNCHANGED <<kind, model, attempt, why, completed, bill, charges, botched>>

\* Another attempt, unless the waits of the request add up to more than 65 seconds
\* (for a stream, unless the fallback feature is off); then the next model.
Decide(r) ==
  /\ at[r] = "deciding"
  /\ \/ Retryable(r) /\ ~completed[r] /\ attempt[r] + 1 < MaxAttempts
        /\ Attempt(r, model[r], attempt[r] + 1)
     \/ NextModel(r)
  /\ UNCHANGED <<kind, run, charges, botched, mishaps>>

-----------------------------------------------------------------------------
(* One attempt.                                                              *)

Start(r) ==
  /\ at[r] = "idle" /\ Attempt(r, 1, 0)
  /\ UNCHANGED <<kind, run, charges, botched, mishaps>>

ReserveCredits(r) ==
  /\ at[r] = "credits"
  /\ To(r, IF Paid(r) THEN "budget" ELSE "sent")
  /\ UNCHANGED <<kind, model, attempt, why, completed, bill, run, charges, botched, mishaps>>

\* InsufficientOrganizationCreditsError ends a chat; a stream goes on to the next model.
ShortOfCredits(r) ==
  /\ at[r] = "credits"
  /\ IF kind[r] = "stream" THEN NextModel(r) ELSE Fail(r)
  /\ UNCHANGED <<kind, run, charges, botched, mishaps>>

FitsUnspent == spent + RunCost <= RunMax   \* mutant: what other requests hold is not counted
Fits == reserved + spent + RunCost <= RunMax

\* One transaction that locks the run's row.
ReserveSecurityCost(r) ==
  /\ at[r] = "budget"
  /\ IF Fits
     THEN reserved' = reserved + RunCost /\ open' = open \cup {r} /\ To(r, "sent") /\ UNCHANGED why
     ELSE Throw(r, "QUOTA_EXCEEDED") /\ UNCHANGED <<reserved, open>>
  /\ UNCHANGED <<kind, model, attempt, completed, bill, spent, incurred, excess, doubtful, charges, botched, mishaps>>

\* The transaction fails, or its commit is lost after it took effect: an error without a
\* code, which paid remediation does not retry.
ReserveFails(r) ==
  /\ at[r] = "budget" /\ Mishap
  /\ \/ UNCHANGED <<reserved, doubtful>>
     \/ Fits /\ reserved' = reserved + RunCost /\ doubtful' = doubtful + 1
  /\ Fail(r)
  /\ UNCHANGED <<kind, spent, open, incurred, excess, charges, botched>>

Costs(r) == IF Paid(r) THEN 0 .. RunCost ELSE {0}

\* The provider answers.  The answer may break the schema of the task.
Complete(r) ==
  /\ at[r] = "sent"
  /\ completed' = [completed EXCEPT ![r] = TRUE]
  /\ \E c \in Costs(r) : bill' = [bill EXCEPT ![r] = c]
  /\ \/ To(r, IF Paid(r) THEN "settling" ELSE "charging") /\ UNCHANGED why
     \/ Throw(r, "INVALID_REQUEST")
  /\ UNCHANGED <<kind, model, attempt, run, charges, botched, mishaps>>

\* It refuses the call: too many requests, a wrong key, a malformed request.
Reject(r) ==
  /\ at[r] = "sent"
  /\ \E code \in {"RATE_LIMIT", "INVALID_REQUEST"} : Throw(r, code)
  /\ UNCHANGED <<kind, model, attempt, completed, bill, run, charges, botched, mishaps>>

\* No answer within the time limit, an empty one or a broken one: it may have cost something.
TimeOut(r) ==
  /\ at[r] = "sent"
  /\ Throw(r, "TIMEOUT")
  /\ \E c \in Costs(r) : bill' = [bill EXCEPT ![r] = c]
  /\ UNCHANGED <<kind, model, attempt, completed, run, charges, botched, mishaps>>

\* Known usage is measured by tokens, never below the bill; unknown usage is the reservation.
SettleSecurityCost(r) ==
  /\ at[r] = "settling"
  /\ To(r, "charging")
  /\ \E measured \in bill[r] .. MaxMeasured : SettleRun(r, measured)
  /\ UNCHANGED <<kind, model, attempt, why, completed, bill, charges, botched, mishaps>>

\* The answer is dearer than the policy allows: not charged, its credits stay reserved.
OverLimit(r) ==
  /\ at[r] = "charging" /\ Throw(r, "QUOTA_EXCEEDED")
  /\ UNCHANGED <<kind, model, attempt, completed, bill, run, charges, botched, mishaps>>

Charge(r) ==
  /\ at[r] = "charging" /\ To(r, "recording")
  /\ charges' = [charges EXCEPT ![r] = @ + 1]
  /\ UNCHANGED <<kind, model, attempt, why, completed, bill, run, botched, mishaps>>

RecordUsage(r) ==
  /\ at[r] = "recording" /\ To(r, "answered")
  /\ UNCHANGED <<kind, model, attempt, why, completed, bill, run, charges, botched, mishaps>>

AnyGoesOn(r) == NextModel(r)   \* mutant: a chat breaks out of the loop as a stream does
\* "Managed credit accounting is unavailable": thrown by a chat, while a stream only
\* leaves the loop over the attempts and asks the next model.
Unaccounted(r) == IF kind[r] = "stream" THEN NextModel(r) ELSE Fail(r)

\* A statement after the provider's answer fails, or only its acknowledgement is lost.
AccountingFails(r) ==
  /\ at[r] \in {"settling", "charging", "recording"}
  /\ Mishap
  /\ botched' = [botched EXCEPT ![r] = @ + 1]
  /\ \/ UNCHANGED charges
     \/ at[r] = "charging" /\ charges' = [charges EXCEPT ![r] = @ + 1]
  /\ Unaccounted(r) /\ Abandon(r, bill[r])
  /\ UNCHANGED kind

\* The process dies; a request it had sent may be answered to nobody.
Die(r) ==
  /\ at[r] \notin Ended /\ Mishap
  /\ \E c \in IF at[r] = "sent" THEN Costs(r) ELSE {bill[r]} : Abandon(r, c)
  /\ Fail(r)
  /\ UNCHANGED <<kind, charges, botched>>

Next ==
  \E r \in Requests :
    \/ Start(r)          \/ ReserveCredits(r) \/ ShortOfCredits(r)
    \/ ReserveSecurityCost(r) \/ ReserveFails(r)
    \/ Complete(r)       \/ Reject(r)         \/ TimeOut(r)
    \/ SettleSecurityCost(r)  \/ OverLimit(r) \/ Charge(r)  \/ RecordUsage(r)
    \/ AccountingFails(r)     \/ Handle(r)    \/ HandleFails(r) \/ Decide(r)
    \/ Die(r)

Spec == Init /\ [][Next]_vars

-----------------------------------------------------------------------------
(* What the budget and the charges promise.                                  *)

\* The run's budget covers what its attempts have really cost, those nobody got an answer
\* of too, with all that the open ones may still cost.
CostsCovered == incurred + RunCost * Cardinality(open) <= reserved + spent

\* It is never booked beyond its maximum, but for what an answer was measured at beyond
\* its own reservation.
WithinMaximum == reserved + spent <= RunMax + excess

\* Whatever requests run, retry, time out and die at the same time, the approved budget of
\* a run bounds what the run costs (docs/internal/remediation.md:131).
BudgetCovers == CostsCovered /\ WithinMaximum

\* The budget that stays reserved when no request runs is that of attempts whose cost is
\* unknown or could not be booked: a refused one takes nothing, however often it is retried.
OnlyDoubtStays ==
  (\A r \in Requests : at[r] \in Ended) => reserved = RunCost * doubtful

\* A request pays for one answer over all its retries and models.  A stream whose
\* accounting failed asks the next model nevertheless, and is charged again for that.
PaidOnce ==
  \A r \in Requests :
    charges[r] <= IF kind[r] = "stream" THEN 1 + botched[r] ELSE 1
=============================================================================
