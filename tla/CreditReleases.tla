--------------------------- MODULE CreditReleases ---------------------------
(***************************************************************************)
(* Yearly plans (organization-credits.ts): the purchase grants the first   *)
(* month's credits and inserts a schedule row; a cron releases one more    *)
(* grant a month.  Each cron run lists the due rows and then, row by row,  *)
(* takes the named lock of the row, reads it again, grants under the key   *)
(* annual:<payment>:<number> and advances the row.  Every one of these is  *)
(* a database call of its own, so runs, retried purchases, refunds and     *)
(* crashes interleave between them.                                        *)
(*                                                                         *)
(* The wallet the grants go to is CreditWallet, whose keys Grants are here *)
(* the pairs <<payment, number>>.                                          *)
(***************************************************************************)
EXTENDS CreditWallet

CONSTANTS
  Releases,       \* releases_total of a schedule (12 in the catalog)
  Unlocked,       \* the holder of a lock nobody holds
  Months,         \* bound on the calendar
  MaxFailures,    \* bound on the processes and calls that fail
  MaxLost         \* bound on the lock connections the server drops

ASSUME ReleaseAssumption ==
  /\ Releases \in Nat \ {0, 1}
  /\ Grants = Payments \X (1 .. Releases)
  /\ \A g \in Grants : PaymentOf[g] = g[1]
  /\ Unlocked \notin Callers
  /\ {Months, MaxFailures, MaxLost} \subseteq Nat

VARIABLES
  completed, nextAt,   \* [Payments -> releases_completed, next_release_at in months]
  month,               \* the calendar
  lock,                \* [Payments -> caller holding credit-release:<id>, or Unlocked]
  step,                \* [Callers -> where the caller is]
  target,              \* [Callers -> the payment it works on]
  asOf,                \* [Callers -> the time a cron run took when it started]
  number,              \* [Callers -> the release a cron run is making]
  boughtAt,            \* [Payments -> the month of the purchase], for the properties
  failures, lost       \* the two bounded counters

schedule == <<completed, nextAt, schedules>>
run == <<step, target, asOf, number>>
budget == <<failures, lost>>
releaseVars == <<completed, nextAt, month, lock, run, boughtAt, budget>>
allVars == <<vars, releaseVars>>

Steps == {"idle", "buying", "bought", "refunding",
          "listed", "locked", "due", "granting", "granted"}

ReleasesTypeOK ==
  /\ completed \in [Payments -> 0 .. Releases]
  /\ nextAt \in [Payments -> Nat]
  /\ month \in 0 .. Months
  /\ lock \in [Payments -> Callers \cup {Unlocked}]
  /\ step \in [Callers -> Steps]
  /\ target \in [Callers -> Payments]
  /\ asOf \in [Callers -> 0 .. Months]
  /\ number \in [Callers -> 1 .. Releases]
  /\ boughtAt \in [Payments -> 0 .. Months]
  /\ failures \in 0 .. MaxFailures
  /\ lost \in 0 .. MaxLost

ReleasesInit ==
  /\ Init
  /\ completed = [p \in Payments |-> 0]
  /\ nextAt = [p \in Payments |-> 0]
  /\ month = 0
  /\ lock = [p \in Payments |-> Unlocked]
  /\ step = [c \in Callers |-> "idle"]
  /\ target \in [Callers -> Payments]
  /\ asOf = [c \in Callers |-> 0]
  /\ number = [c \in Callers |-> 1]
  /\ boughtAt = [p \in Payments |-> 0]
  /\ failures = 0
  /\ lost = 0

Goto(c, s) == step' = [step EXCEPT ![c] = s]

\* Where a call of CreditWallet leaves its caller: it answers a duplicate at once.
GotoAfterBegin(c, begun, answered) == Goto(c, IF calls'[c] = Idle THEN answered ELSE begun)

NothingFreed(c) == lock   \* mutant: RELEASE_LOCK is not in a finally
LocksWithout(c) == [p \in Payments |-> IF lock[p] = c THEN Unlocked ELSE lock[p]]

-----------------------------------------------------------------------------
(* fulfillOrganizationCreditPurchase, cadence yearly.  A failed fulfillment  *)
(* is retried by the next webhook delivery, by the browser or by an admin.   *)

Purchase(c, p) ==
  /\ step[c] = "idle"
  /\ Begin(c, <<"grant", <<p, 1>>>>)
  /\ GotoAfterBegin(c, "buying", "bought")
  /\ target' = [target EXCEPT ![c] = p]
  /\ UNCHANGED <<completed, nextAt, month, lock, asOf, number, boughtAt, budget>>

GrantFirst(c) ==
  /\ step[c] = "buying"
  /\ Grant(c, <<target[c], 1>>)
  /\ Goto(c, "bought")
  /\ UNCHANGED <<completed, nextAt, month, lock, target, asOf, number, boughtAt, budget>>

\* INSERT ... ON DUPLICATE KEY UPDATE of the key column itself: an existing row stays.
InsertSchedule(c) ==
  LET p == target[c]
  IN /\ step[c] = "bought"
     /\ IF schedules[p] = "NONE"
          THEN /\ schedules' = [schedules EXCEPT ![p] = "ACTIVE"]
               /\ completed' = [completed EXCEPT ![p] = 1]
               /\ nextAt' = [nextAt EXCEPT ![p] = month + 1]
               /\ boughtAt' = [boughtAt EXCEPT ![p] = month]
          ELSE UNCHANGED <<schedule, boughtAt>>
     /\ Goto(c, "idle")
     /\ UNCHANGED <<wallet, remaining, lotOrder, reservations, transactions, expired, calls, reply>>
     /\ UNCHANGED <<month, lock, target, asOf, number, budget>>

-----------------------------------------------------------------------------
(* refundOrganizationCreditsForPayment, called by the refund webhook.        *)

StartRefund(c, r) ==
  /\ step[c] = "idle"
  /\ Begin(c, <<"refund", r>>)
  /\ GotoAfterBegin(c, "refunding", "idle")
  /\ UNCHANGED <<completed, nextAt, month, lock, target, asOf, number, boughtAt, budget>>

CommitRefund(c, r) ==
  /\ step[c] = "refunding"
  /\ Refund(c, r)
  /\ Goto(c, "idle")
  /\ UNCHANGED <<completed, nextAt, month, lock, target, asOf, number, boughtAt, budget>>

-----------------------------------------------------------------------------
(* provisionDueOrganizationCreditReleases.                                   *)

Due(p, time) == schedules[p] = "ACTIVE" /\ nextAt[p] <= time

\* The run takes the time once and lists the rows due at that time.
List(c, p) ==
  /\ step[c] = "idle"
  /\ Due(p, month)
  /\ Goto(c, "listed")
  /\ target' = [target EXCEPT ![c] = p]
  /\ asOf' = [asOf EXCEPT ![c] = month]
  /\ UNCHANGED vars
  /\ UNCHANGED <<completed, nextAt, month, lock, number, boughtAt, budget>>

TakeNoLock(c) ==   \* mutant: withNamedLock dropped
  /\ step[c] = "listed"
  /\ Goto(c, "locked")
  /\ UNCHANGED vars
  /\ UNCHANGED <<completed, nextAt, month, lock, target, asOf, number, boughtAt, budget>>

TakeLock(c) ==
  /\ step[c] = "listed"
  /\ lock[target[c]] = Unlocked
  /\ lock' = [lock EXCEPT ![target[c]] = c]
  /\ Goto(c, "locked")
  /\ UNCHANGED vars
  /\ UNCHANGED <<completed, nextAt, month, target, asOf, number, boughtAt, budget>>

\* GET_LOCK timed out; the error ends the cron run.
GiveUp(c) ==
  /\ step[c] = "listed"
  /\ lock[target[c]] # Unlocked
  /\ Goto(c, "idle")
  /\ UNCHANGED vars
  /\ UNCHANGED <<completed, nextAt, month, lock, target, asOf, number, boughtAt, budget>>

AnyActive(p, time) == schedules[p] = "ACTIVE"   \* mutant: the date is checked in the list only
StillDue(p, time) == Due(p, time)

\* The row is read again: another run may have advanced it since it was listed.
ReRead(c) ==
  LET p == target[c]
  IN /\ step[c] = "locked"
     /\ IF StillDue(p, asOf[c])
          THEN /\ number' = [number EXCEPT ![c] = completed[p] + 1]
               /\ Goto(c, "due")
               /\ UNCHANGED lock
          ELSE /\ lock' = LocksWithout(c)
               /\ Goto(c, "idle")
               /\ UNCHANGED number
     /\ UNCHANGED vars
     /\ UNCHANGED <<completed, nextAt, month, target, asOf, boughtAt, budget>>

CountFirst(c) ==   \* mutant: the row is advanced before the grant
  LET p == target[c]
  IN /\ step[c] = "due"
     /\ completed' = [completed EXCEPT ![p] = number[c]]
     /\ Begin(c, <<"grant", <<p, number[c]>>>>)
     /\ GotoAfterBegin(c, "granting", "granted")
     /\ UNCHANGED <<nextAt, month, lock, target, asOf, number, boughtAt, budget>>

StartRelease(c) ==
  /\ step[c] = "due"
  /\ Begin(c, <<"grant", <<target[c], number[c]>>>>)
  /\ GotoAfterBegin(c, "granting", "granted")
  /\ UNCHANGED <<completed, nextAt, month, lock, target, asOf, number, boughtAt, budget>>

GrantRelease(c) ==
  /\ step[c] = "granting"
  /\ Grant(c, <<target[c], number[c]>>)
  /\ Goto(c, "granted")
  /\ UNCHANGED <<completed, nextAt, month, lock, target, asOf, number, boughtAt, budget>>

Complete(n) == n >= Releases

\* UPDATE ... WHERE id = ?, whatever the row has become meanwhile; then RELEASE_LOCK.
Advance(c) ==
  LET p == target[c]
  IN /\ step[c] = "granted"
     /\ completed' = [completed EXCEPT ![p] = number[c]]
     /\ nextAt' = [nextAt EXCEPT ![p] = nextAt[p] + 1]
     /\ schedules' = [schedules EXCEPT ![p] =
          IF Complete(number[c]) THEN "COMPLETED" ELSE "ACTIVE"]
     /\ lock' = LocksWithout(c)
     /\ Goto(c, "idle")
     /\ UNCHANGED <<wallet, remaining, lotOrder, reservations, transactions, expired, calls, reply>>
     /\ UNCHANGED <<month, target, asOf, number, boughtAt, budget>>

-----------------------------------------------------------------------------
(* Failures and time.                                                        *)

\* A process dies or a call of it throws: its open transaction rolls back, the cron
\* run or fulfillment ends, and its lock is released.
Fail(c) ==
  /\ step[c] # "idle"
  /\ failures < MaxFailures
  /\ failures' = failures + 1
  /\ IF calls[c] # Idle THEN Rollback(c) ELSE UNCHANGED vars
  /\ lock' = LocksWithout(c)
  /\ Goto(c, "idle")
  /\ UNCHANGED <<completed, nextAt, month, target, asOf, number, boughtAt, lost>>

\* The insert of a key that a concurrent call has posted: the transaction rolls back
\* and the error ends the cron run or fulfillment.
Refused(c) ==
  /\ step[c] \in {"buying", "granting", "refunding"}
  /\ ~UniqueKey(calls[c])
  /\ Rollback(c)
  /\ lock' = LocksWithout(c)
  /\ Goto(c, "idle")
  /\ UNCHANGED <<completed, nextAt, month, target, asOf, number, boughtAt, budget>>

\* The named lock lives on a connection of its own that is idle while the work runs on
\* others; the server drops it, the lock is free, and the work goes on.
LoseConnection(c) ==
  /\ step[c] \in {"locked", "due", "granting", "granted"}
  /\ lost < MaxLost
  /\ lost' = lost + 1
  /\ lock' = LocksWithout(c)
  /\ UNCHANGED vars
  /\ UNCHANGED <<completed, nextAt, month, run, boughtAt, failures>>

NextMonth ==
  /\ month < Months
  /\ month' = month + 1
  /\ UNCHANGED vars
  /\ UNCHANGED <<completed, nextAt, lock, run, boughtAt, budget>>

CronStep(c) ==
  \/ TakeLock(c) \/ GiveUp(c) \/ ReRead(c) \/ StartRelease(c) \/ GrantRelease(c) \/ Advance(c)

ReleasesNext ==
  \/ NextMonth
  \/ \E c \in Callers :
       \/ \E p \in Payments : Purchase(c, p) \/ List(c, p)
       \/ GrantFirst(c) \/ InsertSchedule(c)
       \/ \E r \in Refunds : StartRefund(c, r) \/ CommitRefund(c, r)
       \/ CronStep(c)
       \/ Fail(c) \/ Refused(c) \/ LoseConnection(c)

ReleasesSpec == ReleasesInit /\ [][ReleasesNext]_allVars

\* Time passes, the cron is called again and again, and a process that runs makes its
\* next step.
ReleasesFairness ==
  /\ WF_allVars(NextMonth)
  /\ \A p \in Payments : SF_allVars(\E c \in Callers : List(c, p))
  /\ \A c \in Callers :
       WF_allVars(CronStep(c) \/ GrantFirst(c) \/ InsertSchedule(c) \/ Refused(c)
                  \/ \E r \in Refunds : CommitRefund(c, r))

ReleasesFairSpec == ReleasesSpec /\ ReleasesFairness

-----------------------------------------------------------------------------
(* What a yearly plan promises ("Yearly plans release their grant monthly",  *)
(* docs/guide/billing.md).                                                   *)

Granted(p) == {n \in 1 .. Releases : <<p, n>> \in Range(lotOrder)}

\* No release comes before its month, however many cron runs list the same row and
\* also when a lock connection is lost under a run.
NeverEarly ==
  \A p \in Payments : \A n \in Granted(p) : n > 1 => month >= boughtAt[p] + n - 1

\* A release the schedule counts was granted: a failure between two steps may repeat a
\* step and never skips a grant.
NothingSkipped ==
  \A p \in Payments :
    /\ 1 .. completed[p] \subseteq Granted(p)
    /\ schedules[p] = "COMPLETED" => completed[p] = Releases

\* While the named locks hold, the next date and the count move together, so that no
\* month passes without a release and at most one grant runs ahead of the row.
ScheduleInStep ==
  lost = 0 =>
    \A p \in Payments : schedules[p] # "NONE" =>
      /\ nextAt[p] = boughtAt[p] + completed[p]
      /\ Granted(p) \subseteq 1 .. completed[p] + 1

\* A schedule whose releases fall within the calendar ends: every release is granted,
\* or a refund cancelled the rest, unless a lock was lost: two runs in one release move
\* the date twice and the count once, and the last release falls a month later.
InCalendar(p) == nextAt[p] + Releases - completed[p] - 1 <= Months
YearlyIsReleased ==
  \A p \in Payments :
    schedules[p] = "ACTIVE" /\ InCalendar(p)
      ~> schedules[p] \in {"COMPLETED", "CANCELLED"} \/ lost > 0
=============================================================================
