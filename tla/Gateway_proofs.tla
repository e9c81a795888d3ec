--------------------------- MODULE Gateway_proofs ---------------------------
(***************************************************************************)
(* The paid budget of a remediation run, for any number of requests,       *)
(* attempts, failures and deaths, and for any amounts.                     *)
(*                                                                         *)
(* RunInv is about the run's row alone: reserved_usd is made of the equal  *)
(* parts of the open attempts and of the doubtful ones, and the real cost  *)
(* of what ended is paid by spent_usd and the doubtful parts.  PlaceInv    *)
(* says which attempts are open, from where they are.                      *)
(***************************************************************************)
EXTENDS Gateway, FiniteSetTheorems, TLAPS

USE GatewayAssumption

RunInv ==
  /\ reserved \in Nat /\ spent \in Nat /\ incurred \in Nat /\ excess \in Nat /\ doubtful \in Nat
  /\ open \subseteq Requests /\ IsFiniteSet(open)
  /\ reserved = RunCost * (Cardinality(open) + doubtful)
  /\ incurred <= spent + RunCost * doubtful
  /\ WithinMaximum

PlaceInv ==
  \A r \in Requests :
    /\ r \in open => Paid(r) /\ at[r] \in {"sent", "settling", "caught"}
    /\ at[r] = "budget" => Paid(r)
    /\ at[r] = "settling" => r \in open
    /\ at[r] = "sent" /\ Paid(r) => r \in open
    /\ at[r] \in {"credits", "budget", "sent"} => bill[r] = 0 /\ ~completed[r]
    /\ at[r] = "caught" /\ Refused(r) /\ ~completed[r] => bill[r] = 0

\* One more part of the budget costs RunCost more.
LEMMA Parts == \A n \in Nat : /\ RunCost * n \in Nat
                              /\ RunCost * (n + 1) = RunCost * n + RunCost
OBVIOUS

-----------------------------------------------------------------------------
(* What one statement does to the row.                                       *)

\* Closing the part of an open attempt leaves one part less.
LEMMA Closed ==
  ASSUME NEW r \in open, RunInv
  PROVE  /\ open \ {r} \subseteq Requests /\ IsFiniteSet(open \ {r})
         /\ Cardinality(open \ {r}) \in Nat
         /\ Cardinality(open) = Cardinality(open \ {r}) + 1
<1>1. IsFiniteSet(open) /\ IsFiniteSet(open \ {r})
  BY FS_RemoveElement DEF RunInv
<1>2. Cardinality(open) \in Nat /\ Cardinality(open \ {r}) \in Nat
  BY <1>1, FS_CardinalityType
<1>3. Cardinality(open \ {r}) = Cardinality(open) - 1
  BY <1>1, FS_RemoveElement
<1> QED BY <1>1, <1>2, <1>3 DEF RunInv

\* settleSecurityCost, for a cost measured at least at what was billed.
LEMMA SettleRunKeeps ==
  ASSUME RunInv, NEW r \in open, NEW measured \in Nat, bill[r] \in Nat, bill[r] <= measured,
         SettleRun(r, measured)
  PROVE  RunInv'
<1> DEFINE n == Cardinality(open \ {r}) + doubtful
<1>1. n \in Nat /\ reserved = RunCost * (n + 1)
  BY Closed DEF RunInv
<1>2. reserved = RunCost * n + RunCost /\ RunCost * n \in Nat
  BY <1>1, Parts
<1>3. reserved' = RunCost * n
  BY <1>2 DEF SettleRun
<1>4. open' = open \ {r} /\ doubtful' = doubtful /\ incurred' = incurred + bill[r]
      /\ spent' = spent + measured
  BY DEF SettleRun, Close
<1>5. reserved' = RunCost * (Cardinality(open') + doubtful')
  BY <1>3, <1>4
<1>6. RunCost * doubtful \in Nat
  BY Parts DEF RunInv
<1>7. incurred' <= spent' + RunCost * doubtful'
  BY <1>4, <1>6 DEF RunInv
<1>8. excess' \in Nat /\ reserved' + spent' <= RunMax + excess'
  BY <1>2, <1>3, <1>4 DEF SettleRun, RunInv, WithinMaximum
<1>9. reserved' \in Nat /\ spent' \in Nat /\ incurred' \in Nat /\ doubtful' \in Nat
  BY <1>2, <1>3, <1>4 DEF RunInv
<1> QED BY <1>4, <1>5, <1>7, <1>8, <1>9, Closed DEF RunInv, WithinMaximum

\* A part that nobody settles any more covers what its attempt has cost.
LEMMA AbandonKeeps ==
  ASSUME RunInv, NEW r \in Requests, NEW cost \in 0 .. RunCost, Abandon(r, cost)
  PROVE  RunInv'
<1>1. CASE r \notin open
  <2>1. open' = open /\ incurred' = incurred /\ doubtful' = doubtful
    BY <1>1 DEF Abandon, Close
  <2> QED BY <2>1 DEF Abandon, RunInv, WithinMaximum
<1>2. CASE r \in open
  <2>1. open' = open \ {r} /\ incurred' = incurred + cost /\ doubtful' = doubtful + 1
        /\ reserved' = reserved /\ spent' = spent /\ excess' = excess
    BY <1>2 DEF Abandon, Close
  <2> DEFINE n == Cardinality(open \ {r})
  <2>2. n \in Nat /\ Cardinality(open) = n + 1
    BY <1>2, Closed
  <2> HIDE DEF n
  <2>6. Cardinality(open) + doubtful = n + doubtful'
    BY <2>1, <2>2 DEF RunInv
  <2>5. Cardinality(open) + doubtful = Cardinality(open') + doubtful'
    BY <2>1, <2>6 DEF n
  <2>3. RunCost * doubtful' = RunCost * doubtful + RunCost /\ RunCost * doubtful \in Nat
    BY <2>1, Parts DEF RunInv
  <2>4. incurred' <= spent' + RunCost * doubtful'
    BY <2>1, <2>3 DEF RunInv
  <2> QED BY <1>2, <2>1, <2>5, <2>4, Closed DEF RunInv, WithinMaximum
<1> QED BY <1>1, <1>2

\* reserveSecurityCost, which has checked the maximum under the lock of the row.
LEMMA ReserveKeeps ==
  ASSUME RunInv, NEW r \in Requests, r \notin open, Fits,
         reserved' = reserved + RunCost, open' = open \cup {r},
         UNCHANGED <<spent, incurred, excess, doubtful>>
  PROVE  RunInv'
<1>1. IsFiniteSet(open') /\ Cardinality(open') = Cardinality(open) + 1 /\ Cardinality(open) \in Nat
  BY FS_AddElement, FS_CardinalityType DEF RunInv
<1> DEFINE n == Cardinality(open) + doubtful
<1>2. n \in Nat /\ Cardinality(open') + doubtful' = n + 1
  BY <1>1 DEF RunInv
<1>3. reserved' = RunCost * (Cardinality(open') + doubtful')
  BY <1>2, Parts DEF RunInv
<1>4. reserved' + spent' <= RunMax + excess'
  BY DEF Fits, RunInv
<1> QED BY <1>1, <1>3, <1>4 DEF RunInv, WithinMaximum

\* Every other statement leaves the row alone.
LEMMA RunUnchanged == ASSUME RunInv, UNCHANGED run PROVE RunInv'
BY DEF RunInv, run, WithinMaximum

\* A reservation that took effect while the process saw an error.
LEMMA LostReserveKeeps ==
  ASSUME RunInv, Fits, reserved' = reserved + RunCost, doubtful' = doubtful + 1,
         UNCHANGED <<spent, open, incurred, excess>>
  PROVE  RunInv'
<1> DEFINE n == Cardinality(open) + doubtful
<1>1. n \in Nat
  BY FS_CardinalityType DEF RunInv
<1>2. Cardinality(open') + doubtful' = n + 1
  BY <1>1, FS_CardinalityType DEF RunInv
<1>3. reserved' = RunCost * (Cardinality(open') + doubtful')
  BY <1>1, <1>2, Parts DEF RunInv
<1>4. RunCost * doubtful' = RunCost * doubtful + RunCost /\ RunCost * doubtful \in Nat
  BY Parts DEF RunInv
<1>5. incurred' <= spent' + RunCost * doubtful'
  BY <1>4 DEF RunInv
<1>6. reserved' + spent' <= RunMax + excess'
  BY DEF Fits, RunInv
<1> QED BY <1>3, <1>5, <1>6 DEF RunInv, WithinMaximum

-----------------------------------------------------------------------------
(* What the catch block and the loops do to a call.                          *)

CallType ==
  /\ at \in [Requests -> Ended \cup {"credits", "budget", "sent", "settling", "charging",
                                     "recording", "caught", "deciding"}]
  /\ kind \in [Requests -> {"chat", "stream", "paid"}]
  /\ model \in [Requests -> 1 .. Chain]
  /\ attempt \in [Requests -> 0 .. MaxAttempts - 1]
  /\ why \in [Requests -> {"none", "RATE_LIMIT", "TIMEOUT", "INVALID_REQUEST", "QUOTA_EXCEEDED"}]
  /\ completed \in [Requests -> BOOLEAN]
  /\ bill \in [Requests -> 0 .. RunCost]

\* A call that ended or begins an attempt: no part of the budget belongs to its place.
Rests(r) ==
  /\ at[r] \in {"failed", "credits"}
  /\ at[r] = "credits" => bill[r] = 0 /\ ~completed[r]

Others(r) ==
  \A q \in Requests \ {r} :
    at'[q] = at[q] /\ why'[q] = why[q] /\ completed'[q] = completed[q] /\ bill'[q] = bill[q]

\* The next attempt starts from nothing.
LEMMA AttemptKeeps ==
  ASSUME CallType, NEW r \in Requests, NEW m \in 1 .. Chain, NEW n \in 0 .. MaxAttempts - 1,
         Attempt(r, m, n), UNCHANGED kind
  PROVE  CallType' /\ Rests(r)' /\ Others(r)
<1>1. CallType'
  BY DEF CallType, Attempt, To
<1> QED BY <1>1 DEF CallType, Attempt, To, Rests, Others

\* A call that fails keeps only its place.
LEMMA FailKeeps ==
  ASSUME CallType, NEW r \in Requests, Fail(r), UNCHANGED kind
  PROVE  CallType' /\ Rests(r)' /\ Others(r)
<1>1. CallType'
  BY DEF CallType, Fail, To, Ended
<1> QED BY <1>1 DEF CallType, Fail, To, Rests, Others

\* The next model is one of the chain.
LEMMA NextModelKeeps ==
  ASSUME CallType, NEW r \in Requests, NextModel(r), UNCHANGED kind
  PROVE  CallType' /\ Rests(r)' /\ Others(r)
<1>1. CASE Fail(r)
  BY <1>1, FailKeeps
<1>2. CASE model[r] < Chain /\ Attempt(r, model[r] + 1, 0)
  <2>1. model[r] + 1 \in 1 .. Chain /\ 0 \in 0 .. MaxAttempts - 1
    BY <1>2 DEF CallType
  <2> QED BY <1>2, <2>1, AttemptKeeps
<1> QED BY <1>1, <1>2 DEF NextModel

\* When r rests and only its own part may be closed, the places still say what is open.
LEMMA RestKeepsPlaces ==
  ASSUME PlaceInv, CallType, CallType', NEW r \in Requests, Rests(r)', Others(r),
         open' \subseteq open \ {r}, open \ {r} \subseteq open', UNCHANGED kind
  PROVE  PlaceInv'
<1> SUFFICES ASSUME NEW q \in Requests PROVE PlaceInv!(q)'
  BY DEF PlaceInv
<1>1. CASE q = r
  BY <1>1 DEF PlaceInv, Rests, CallType, Paid, Refused
<1>2. CASE q # r
  BY <1>2 DEF PlaceInv, Others, CallType, Paid, Refused
<1> QED BY <1>1, <1>2

-----------------------------------------------------------------------------
(* The invariant.                                                            *)

Inv == CallType /\ RunInv /\ PlaceInv

\* A request begins with nothing open.
LEMMA InitInv == Init => Inv
<1> SUFFICES ASSUME Init PROVE Inv
  OBVIOUS
<1>1. CallType
  BY DEF Init, CallType, Ended
<1>2. IsFiniteSet(open) /\ Cardinality(open) = 0
  BY FS_EmptySet DEF Init
<1>3. RunCost * (0 + 0) = 0 /\ RunCost * 0 = 0
  OBVIOUS
<1>4. RunInv
  BY <1>2, <1>3 DEF Init, RunInv, WithinMaximum
<1>5. PlaceInv
  BY DEF Init, PlaceInv, Refused
<1> QED BY <1>1, <1>4, <1>5 DEF Inv

\* The steps before the provider is called.
LEMMA BeforeStep ==
  ASSUME Inv, NEW r \in Requests,
         \/ Start(r) \/ ReserveCredits(r) \/ ShortOfCredits(r)
         \/ ReserveSecurityCost(r) \/ ReserveFails(r)
  PROVE  Inv'
<1> USE DEF Inv
<1>1. CASE Start(r)
  <2>1. 1 \in 1 .. Chain /\ 0 \in 0 .. MaxAttempts - 1 /\ UNCHANGED <<kind, run>>
    BY <1>1 DEF Start
  <2>2. CallType' /\ Rests(r)' /\ Others(r)
    BY <1>1, <2>1, AttemptKeeps DEF Start
  <2>3. r \notin open /\ open' = open
    BY <1>1, <2>1 DEF Start, PlaceInv, run
  <2> QED BY <2>1, <2>2, <2>3, RestKeepsPlaces, RunUnchanged
<1>2. CASE ReserveCredits(r)
  <2>1. UNCHANGED run /\ CallType'
    BY <1>2 DEF ReserveCredits, CallType, To
  <2>2. PlaceInv'
    BY <1>2, <2>1 DEF ReserveCredits, PlaceInv, CallType, To, Paid, Refused, run
  <2> QED BY <2>1, <2>2, RunUnchanged
<1>3. CASE ShortOfCredits(r)
  <2>1. UNCHANGED <<kind, run>>
    BY <1>3 DEF ShortOfCredits
  <2>2. CallType' /\ Rests(r)' /\ Others(r)
    BY <1>3, <2>1, FailKeeps, NextModelKeeps DEF ShortOfCredits
  <2>3. r \notin open /\ open' = open
    BY <1>3, <2>1 DEF ShortOfCredits, PlaceInv, run
  <2> QED BY <2>1, <2>2, <2>3, RestKeepsPlaces, RunUnchanged
<1>4. CASE ReserveSecurityCost(r)
  <2>1. CASE Fits
    <3>1. r \notin open
      BY <1>4 DEF ReserveSecurityCost, PlaceInv
    <3>2. RunInv'
      BY <1>4, <2>1, <3>1, ReserveKeeps DEF ReserveSecurityCost
    <3>3. CallType'
      BY <1>4, <2>1 DEF ReserveSecurityCost, CallType, To
    <3>4. PlaceInv'
      BY <1>4, <2>1 DEF ReserveSecurityCost, PlaceInv, CallType, To, Paid, Refused
    <3> QED BY <3>2, <3>3, <3>4
  <2>2. CASE ~Fits
    <3>1. UNCHANGED run /\ CallType'
      BY <1>4, <2>2 DEF ReserveSecurityCost, CallType, To, Throw, run
    <3>2. PlaceInv'
      BY <1>4, <2>2 DEF ReserveSecurityCost, PlaceInv, CallType, To, Throw, Paid, Refused
    <3> QED BY <3>1, <3>2, RunUnchanged
  <2> QED BY <2>1, <2>2
<1>5. CASE ReserveFails(r)
  <2>1. CallType' /\ Rests(r)' /\ Others(r) /\ UNCHANGED <<kind, open>>
    BY <1>5, FailKeeps DEF ReserveFails
  <2>2. r \notin open
    BY <1>5 DEF ReserveFails, PlaceInv
  <2>3. PlaceInv'
    BY <2>1, <2>2, RestKeepsPlaces
  <2>4. RunInv'
    BY <1>5, LostReserveKeeps, RunUnchanged DEF ReserveFails, run
  <2> QED BY <2>1, <2>3, <2>4
<1> QED BY <1>1, <1>2, <1>3, <1>4, <1>5

\* What the provider answers, and the statements after it.
LEMMA AnswerStep ==
  ASSUME Inv, NEW r \in Requests,
         \/ Complete(r) \/ Reject(r) \/ TimeOut(r) \/ SettleSecurityCost(r)
         \/ OverLimit(r) \/ Charge(r) \/ RecordUsage(r)
  PROVE  Inv'
<1> USE DEF Inv
<1>1. CASE Complete(r)
  <2>1. CallType' /\ UNCHANGED run
    BY <1>1 DEF Complete, CallType, To, Throw, Costs
  <2>2. PlaceInv'
    <3>1. CASE To(r, IF Paid(r) THEN "settling" ELSE "charging") /\ UNCHANGED why
      BY <1>1, <2>1, <3>1 DEF Complete, PlaceInv, CallType, To, Paid, Refused, run
    <3>2. CASE Throw(r, "INVALID_REQUEST")
      BY <1>1, <2>1, <3>2 DEF Complete, PlaceInv, CallType, To, Throw, Paid, Refused, run
    <3> QED BY <1>1, <3>1, <3>2 DEF Complete
  <2> QED BY <2>1, <2>2, RunUnchanged
<1>2. CASE Reject(r)
  <2>1. CallType' /\ UNCHANGED run
    BY <1>2 DEF Reject, CallType, To, Throw
  <2>2. PlaceInv'
    BY <1>2, <2>1 DEF Reject, PlaceInv, CallType, To, Throw, Paid, Refused, run
  <2> QED BY <2>1, <2>2, RunUnchanged
<1>3. CASE TimeOut(r)
  <2>1. CallType' /\ UNCHANGED run
    BY <1>3 DEF TimeOut, CallType, To, Throw, Costs
  <2>2. PlaceInv'
    BY <1>3, <2>1 DEF TimeOut, PlaceInv, CallType, To, Throw, Paid, Refused, run
  <2> QED BY <2>1, <2>2, RunUnchanged
<1>4. CASE SettleSecurityCost(r)
  <2>1. PICK measured \in bill[r] .. MaxMeasured : SettleRun(r, measured)
    BY <1>4 DEF SettleSecurityCost
  <2>2. r \in open /\ bill[r] \in Nat /\ measured \in Nat /\ bill[r] <= measured
    BY <1>4 DEF SettleSecurityCost, PlaceInv, CallType
  <2>3. RunInv'
    BY <2>1, <2>2, SettleRunKeeps
  <2>4. open' = open \ {r} /\ CallType'
    BY <1>4, <2>1 DEF SettleSecurityCost, SettleRun, Close, CallType, To
  <2>5. PlaceInv'
    BY <1>4, <2>4 DEF SettleSecurityCost, PlaceInv, CallType, To, Paid, Refused
  <2> QED BY <2>3, <2>4, <2>5
<1>5. CASE OverLimit(r)
  <2>1. CallType' /\ UNCHANGED run
    BY <1>5 DEF OverLimit, CallType, To, Throw
  <2>2. PlaceInv'
    BY <1>5, <2>1 DEF OverLimit, PlaceInv, CallType, To, Throw, Paid, Refused, run
  <2> QED BY <2>1, <2>2, RunUnchanged
<1>6. CASE Charge(r) \/ RecordUsage(r)
  <2>1. CallType' /\ UNCHANGED run
    BY <1>6 DEF Charge, RecordUsage, CallType, To, Ended
  <2>2. PlaceInv'
    BY <1>6, <2>1 DEF Charge, RecordUsage, PlaceInv, CallType, To, Paid, Refused, run
  <2> QED BY <2>1, <2>2, RunUnchanged
<1> QED BY <1>1, <1>2, <1>3, <1>4, <1>5, <1>6

\* The accounting that fails, the catch block and the end of the process.
LEMMA AfterStep ==
  ASSUME Inv, NEW r \in Requests,
         \/ AccountingFails(r) \/ Handle(r) \/ HandleFails(r) \/ Decide(r) \/ Die(r)
  PROVE  Inv'
<1> USE DEF Inv
<1>1. CASE AccountingFails(r)
  <2>1. Abandon(r, bill[r]) /\ bill[r] \in 0 .. RunCost
    BY <1>1 DEF AccountingFails, CallType
  <2>2. CallType' /\ Rests(r)' /\ Others(r) /\ UNCHANGED kind
    BY <1>1, FailKeeps, NextModelKeeps DEF AccountingFails, Unaccounted
  <2>3. PlaceInv'
    BY <2>1, <2>2, RestKeepsPlaces DEF Abandon, Close
  <2> QED BY <2>1, <2>2, <2>3, AbandonKeeps
<1>2. CASE Handle(r)
  <2>1. CallType' /\ UNCHANGED <<kind, why, completed, bill>>
    BY <1>2 DEF Handle, CallType, To
  <2>2. CASE r \in open /\ Refused(r) /\ ~completed[r]
    <3>1. SettleRun(r, 0) /\ bill[r] = 0
      BY <1>2, <2>2 DEF Handle, PlaceInv
    <3>2. RunInv'
      BY <2>2, <3>1, SettleRunKeeps
    <3>3. open' = open \ {r}
      BY <3>1 DEF SettleRun, Close
    <3>4. PlaceInv'
      BY <1>2, <2>1, <3>3 DEF Handle, PlaceInv, CallType, To, Paid, Refused
    <3> QED BY <2>1, <3>2, <3>4
  <2>3. CASE ~(r \in open /\ Refused(r) /\ ~completed[r])
    <3>1. Abandon(r, bill[r]) /\ bill[r] \in 0 .. RunCost
      BY <1>2, <2>3 DEF Handle, CallType
    <3>2. open' = open \ {r}
      BY <3>1 DEF Abandon, Close
    <3>3. PlaceInv'
      BY <1>2, <2>1, <3>2 DEF Handle, PlaceInv, CallType, To, Paid, Refused
    <3> QED BY <2>1, <3>1, <3>3, AbandonKeeps
  <2> QED BY <2>2, <2>3
<1>3. CASE HandleFails(r)
  <2>1. Abandon(r, bill[r]) /\ bill[r] \in 0 .. RunCost
    BY <1>3 DEF HandleFails, CallType
  <2>2. CallType' /\ open' = open \ {r}
    BY <1>3, <2>1 DEF HandleFails, Abandon, Close, CallType, To, Ended
  <2>3. PlaceInv'
    BY <1>3, <2>2 DEF HandleFails, PlaceInv, CallType, To, Paid, Refused
  <2> QED BY <2>1, <2>2, <2>3, AbandonKeeps
<1>4. CASE Decide(r)
  <2>1. UNCHANGED <<kind, run>>
    BY <1>4 DEF Decide
  <2>2. attempt[r] + 1 < MaxAttempts => attempt[r] + 1 \in 0 .. MaxAttempts - 1
    BY DEF CallType
  <2>3. model[r] \in 1 .. Chain
    BY DEF CallType
  <2>5. CallType' /\ Rests(r)' /\ Others(r)
    BY <1>4, <2>1, <2>2, <2>3, AttemptKeeps, NextModelKeeps DEF Decide
  <2>4. r \notin open /\ open' = open
    BY <1>4, <2>1 DEF Decide, PlaceInv, run
  <2> QED BY <2>1, <2>4, <2>5, RestKeepsPlaces, RunUnchanged
<1>5. CASE Die(r)
  <2>1. PICK c \in IF at[r] = "sent" THEN Costs(r) ELSE {bill[r]} : Abandon(r, c)
    BY <1>5 DEF Die
  <2>2. c \in 0 .. RunCost
    BY <2>1 DEF Costs, CallType
  <2>3. CallType' /\ Rests(r)' /\ Others(r) /\ UNCHANGED kind
    BY <1>5, FailKeeps DEF Die
  <2>4. PlaceInv'
    BY <2>1, <2>3, RestKeepsPlaces DEF Abandon, Close
  <2> QED BY <2>1, <2>2, <2>3, <2>4, AbandonKeeps
<1> QED BY <1>1, <1>2, <1>3, <1>4, <1>5

\* Inv is inductive.
LEMMA NextInv == Inv /\ [Next]_vars => Inv'
<1> SUFFICES ASSUME Inv, [Next]_vars PROVE Inv'
  OBVIOUS
<1>1. CASE Next
  BY <1>1, BeforeStep, AnswerStep, AfterStep DEF Next
<1>2. CASE UNCHANGED vars
  <2>1. UNCHANGED <<at, kind, model, attempt, why, completed, bill, run, open>>
    BY <1>2 DEF vars, call, run
  <2>2. CallType' /\ PlaceInv'
    BY <2>1 DEF Inv, CallType, PlaceInv, Paid, Refused
  <2> QED BY <2>1, <2>2, RunUnchanged DEF Inv
<1> QED BY <1>1, <1>2

\* Inv holds in every state that is reached.
LEMMA Invariance == Spec => []Inv
<1> QED BY InitInv, NextInv, PTL DEF Spec

-----------------------------------------------------------------------------
(* The charges of one call.                                                  *)

Settled(r) == IF at[r] \in {"recording", "answered", "failed"} THEN 1 ELSE 0
Excused(r) == IF kind[r] = "stream" THEN botched[r] ELSE 0

PaidInv ==
  /\ charges \in [Requests -> Nat] /\ botched \in [Requests -> Nat]
  /\ \A r \in Requests : charges[r] <= Settled(r) + Excused(r)

\* A step that charges nothing and does not go back before a charge.
LEMMA NotCharged ==
  ASSUME CallType, PaidInv, NEW r \in Requests, Others(r), UNCHANGED <<kind, charges, botched>>,
         Settled(r) <= Settled(r)'
  PROVE  PaidInv'
<1> SUFFICES ASSUME NEW q \in Requests PROVE charges'[q] <= Settled(q)' + Excused(q)'
  BY DEF PaidInv
<1>1. CASE q = r
  BY <1>1 DEF PaidInv, Settled, Excused
<1>2. CASE q # r
  BY <1>2 DEF PaidInv, Settled, Excused, Others
<1> QED BY <1>1, <1>2

\* The two statements that may charge.
LEMMA ChargedKeeps ==
  ASSUME CallType, PaidInv, NEW r \in Requests, Charge(r) \/ AccountingFails(r)
  PROVE  PaidInv'
<1>1. CASE Charge(r)
  <2> SUFFICES ASSUME NEW q \in Requests PROVE charges'[q] <= Settled(q)' + Excused(q)'
    BY <1>1 DEF Charge, PaidInv
  <2>1. CASE q = r
    BY <1>1, <2>1 DEF Charge, To, CallType, PaidInv, Settled, Excused
  <2>2. CASE q # r
    BY <1>1, <2>2 DEF Charge, To, CallType, PaidInv, Settled, Excused
  <2> QED BY <2>1, <2>2
<1>2. CASE AccountingFails(r)
  <2>1. Rests(r)' /\ Others(r) /\ UNCHANGED kind /\ (kind[r] # "stream" => at'[r] = "failed")
    BY <1>2, FailKeeps, NextModelKeeps DEF AccountingFails, Unaccounted, Fail, To, CallType
  <2>2. charges'[r] <= charges[r] + (1 - Settled(r)) /\ charges' \in [Requests -> Nat]
        /\ \A q \in Requests \ {r} : charges'[q] = charges[q]
    BY <1>2 DEF AccountingFails, PaidInv, Settled
  <2>3. botched'[r] = botched[r] + 1 /\ botched' \in [Requests -> Nat]
        /\ \A q \in Requests \ {r} : botched'[q] = botched[q]
    BY <1>2 DEF AccountingFails, PaidInv
  <2> SUFFICES ASSUME NEW q \in Requests PROVE charges'[q] <= Settled(q)' + Excused(q)'
    BY <2>2, <2>3 DEF PaidInv
  <2>4. CASE q = r
    BY <2>1, <2>2, <2>3, <2>4 DEF PaidInv, Settled, Excused
  <2>5. CASE q # r
    BY <2>1, <2>2, <2>3, <2>5 DEF PaidInv, Settled, Excused, Others
  <2> QED BY <2>4, <2>5
<1> QED BY <1>1, <1>2

\* PaidInv is inductive together with the types of Inv.
LEMMA NextPaidInv == Inv /\ PaidInv /\ [Next]_vars => PaidInv'
<1> SUFFICES ASSUME CallType, PaidInv, [Next]_vars PROVE PaidInv'
  BY DEF Inv
<1>1. CASE UNCHANGED vars
  BY <1>1 DEF vars, call, PaidInv, Settled, Excused
<1>2. ASSUME NEW r \in Requests,
             Start(r) \/ ShortOfCredits(r) \/ ReserveFails(r) \/ Decide(r) \/ Die(r)
      PROVE  PaidInv'
  <2>1. UNCHANGED <<kind, charges, botched>>
    BY <1>2 DEF Start, ShortOfCredits, ReserveFails, Decide, Die
  <2>2. CASE Fail(r)
    <3>1. Rests(r)' /\ Others(r) /\ at'[r] = "failed"
      BY <2>1, <2>2, FailKeeps DEF Fail, To, CallType
    <3> QED BY <2>1, <3>1, NotCharged DEF Settled
  <2>3. CASE ~Fail(r)
    <3>1. PICK m \in Nat, n \in Nat : Attempt(r, m, n)
      BY <1>2, <2>3 DEF Start, ShortOfCredits, ReserveFails, Decide, Die, NextModel, CallType
    <3>2. Settled(r) = 0
      BY <1>2, <2>3 DEF Start, ShortOfCredits, ReserveFails, Decide, Die, Settled
    <3>3. Others(r)
      BY <3>1 DEF Attempt, To, Others, CallType
    <3>4. Settled(r)' \in {0, 1}
      BY DEF Settled
    <3> QED BY <2>1, <3>2, <3>3, <3>4, NotCharged
  <2> QED BY <2>2, <2>3
<1>3. ASSUME NEW r \in Requests,
             \/ ReserveCredits(r) \/ ReserveSecurityCost(r) \/ Complete(r) \/ Reject(r) \/ TimeOut(r)
             \/ SettleSecurityCost(r) \/ OverLimit(r) \/ RecordUsage(r) \/ Handle(r) \/ HandleFails(r)
      PROVE  PaidInv'
  <2>1. UNCHANGED <<kind, charges, botched>>
    BY <1>3 DEF ReserveCredits, ReserveSecurityCost, Complete, Reject, TimeOut,
                SettleSecurityCost, OverLimit, RecordUsage, Handle, HandleFails
  <2>2. Others(r)
    <3>1. CASE ReserveCredits(r) \/ ReserveSecurityCost(r) \/ Reject(r)
      BY <3>1 DEF ReserveCredits, ReserveSecurityCost, Reject, To, Throw, Others, CallType
    <3>2. CASE Complete(r) \/ TimeOut(r)
      BY <3>2 DEF Complete, TimeOut, To, Throw, Others, CallType
    <3>3. CASE SettleSecurityCost(r) \/ OverLimit(r) \/ RecordUsage(r)
      BY <3>3 DEF SettleSecurityCost, OverLimit, RecordUsage, To, Throw, Others, CallType
    <3>4. CASE Handle(r) \/ HandleFails(r)
      BY <3>4 DEF Handle, HandleFails, To, Others, CallType
    <3> QED BY <1>3, <3>1, <3>2, <3>3, <3>4
  <2>3. Settled(r) = 0 \/ RecordUsage(r)
    BY <1>3 DEF ReserveCredits, ReserveSecurityCost, Complete, Reject, TimeOut,
                SettleSecurityCost, OverLimit, Handle, HandleFails, Settled
  <2>4. RecordUsage(r) => Settled(r)' = 1
    BY DEF RecordUsage, To, CallType, Settled
  <2>5. Settled(r) \in {0, 1} /\ Settled(r)' \in {0, 1}
    BY DEF Settled
  <2>6. Settled(r) <= Settled(r)'
    BY <2>3, <2>4, <2>5
  <2> QED BY <2>1, <2>2, <2>6, NotCharged
<1> QED BY <1>1, <1>2, <1>3, ChargedKeeps DEF Next

-----------------------------------------------------------------------------
(* The theorems.                                                             *)

\* reserveSecurityCost and settleSecurityCost keep the promise of the approved budget,
\* whatever the requests of the run do at the same time: its real cost is covered by what
\* is booked, and that exceeds max_usd by no more than answers exceeded their reservation.
THEOREM BudgetCorrect == Spec => []BudgetCovers
<1>1. Inv => BudgetCovers
  <2> SUFFICES ASSUME RunInv PROVE BudgetCovers
    BY DEF Inv
  <2> DEFINE n == Cardinality(open)
  <2>1. n \in Nat /\ doubtful \in Nat
    BY FS_CardinalityType DEF RunInv
  <2>2. reserved = RunCost * (n + doubtful) /\ incurred <= spent + RunCost * doubtful
        /\ spent \in Nat /\ incurred \in Nat
    BY DEF RunInv
  <2>3. CostsCovered <=> incurred + RunCost * n <= reserved + spent
    BY DEF CostsCovered
  <2> HIDE DEF n
  <2>4. RunCost * (n + doubtful) = RunCost * n + RunCost * doubtful
        /\ RunCost * n \in Nat /\ RunCost * doubtful \in Nat
    BY <2>1
  <2>5. CostsCovered
    BY <2>2, <2>3, <2>4
  <2> QED BY <2>5 DEF BudgetCovers, RunInv
<1> QED BY <1>1, Invariance, PTL

\* When every request of the run has ended, what stays in reserved_usd is the parts of the
\* attempts whose cost is unknown or was never booked: a refused one leaves nothing.
THEOREM OnlyDoubt == Spec => []OnlyDoubtStays
<1>1. Inv => OnlyDoubtStays
  <2> SUFFICES ASSUME Inv, \A r \in Requests : at[r] \in Ended
               PROVE  reserved = RunCost * doubtful
    BY DEF OnlyDoubtStays
  <2>1. open = {}
    BY DEF Inv, RunInv, PlaceInv, Ended
  <2>2. Cardinality(open) = 0
    BY <2>1, FS_EmptySet
  <2> QED BY <2>2 DEF Inv, RunInv
<1> QED BY <1>1, Invariance, PTL

\* settleCredits is called once for one answer of a request: retries and fallback models
\* add no charge, except that a stream goes on after its accounting failed.
THEOREM PaysOnce == Spec => []PaidOnce
<1>1. Init => PaidInv
  BY DEF Init, PaidInv, Settled, Excused
<1>2. PaidInv => PaidOnce
  BY DEF PaidInv, PaidOnce, Settled, Excused
<1> QED BY <1>1, <1>2, Invariance, NextPaidInv, PTL DEF Spec
=============================================================================
