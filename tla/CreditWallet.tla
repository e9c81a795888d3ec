---------------------------- MODULE CreditWallet ----------------------------
(***************************************************************************)
(* The credit wallet of one organization (organization-credits.ts): a      *)
(* wallet row, the grant lots it was filled by, the reservations that hold *)
(* part of it while a model call runs, and the append-only table of        *)
(* transactions.                                                           *)
(*                                                                         *)
(* grant, debit, reserve and refund look their idempotency key up with a   *)
(* plain read and only then lock the wallet row, so each is two steps,     *)
(* Begin and a commit: other calls run between them.  What follows the     *)
(* lock is one database transaction, hence one action.  settle and release *)
(* lock their reservation first and are one action each.                   *)
(***************************************************************************)
EXTENDS Integers, Sequences, FiniteSets, FiniteSetsExt

CONSTANTS
  Callers,        \* concurrent requests, webhook deliveries and cron runs
  Grants,         \* idempotency keys of grantOrganizationCredits
  Debits,         \* idempotency keys of debitOrganizationCredits
  Attempts,       \* attempt keys of reserveOrganizationCredits
  Refunds,        \* provider refund ids
  Payments,       \* payment ids
  NoPayment,      \* source of a grant that no payment made
  MeteringEnv,    \* CREDIT_METERING_MODE, or "unset"
  GrantUnits,     \* [Grants -> Nat \ {0}]
  PaymentOf,      \* [Grants -> Payments \cup {NoPayment}]: source_id
  DebitUnits,     \* [Debits -> Nat \ {0}]
  ReserveUnits,   \* [Attempts -> Nat]: the maximum a call may cost
  ActualUnits,    \* the amounts a finished call may cost
  RefundOf,       \* [Refunds -> Payments]
  RefundPaise,    \* [Refunds -> Nat \ {0}]
  PaymentPaise    \* [Payments -> Nat \ {0}]

ASSUME InputAssumption ==
  /\ NoPayment \notin Payments
  /\ MeteringEnv \in {"unset", "off", "shadow", "enforce"}
  /\ GrantUnits \in [Grants -> Nat \ {0}]
  /\ PaymentOf \in [Grants -> Payments \cup {NoPayment}]
  /\ DebitUnits \in [Debits -> Nat \ {0}]
  /\ ReserveUnits \in [Attempts -> Nat]
  /\ ActualUnits \subseteq Nat
  /\ RefundOf \in [Refunds -> Payments]
  /\ RefundPaise \in [Refunds -> Nat \ {0}]
  /\ PaymentPaise \in [Payments -> Nat \ {0}]

\* creditMeteringMode: anything but a known word enforces.
Mode == IF MeteringEnv \in {"off", "shadow", "enforce"} THEN MeteringEnv ELSE "enforce"

\* The idempotency keys under which a transaction row can be posted.
CallKeys == ({"grant"} \X Grants) \cup ({"debit"} \X Debits)
              \cup ({"reserve"} \X Attempts) \cup ({"refund"} \X Refunds)
Keys == CallKeys \cup ({"settle"} \X Attempts)
Idle == <<"idle">>

VARIABLES
  balance, reserved, granted, consumed, refunded, debt, status,
                  \* the organization_credit_wallets row (balance_units ... status)
  remaining,      \* [Grants -> Nat]: remaining_units of the lot, 0 if there is none
  lotOrder,       \* the lots in created_at order
  reservations,   \* [Attempts -> [status, held, settled]]
  transactions,   \* the organization_credit_transactions rows: [key, amount, after]
  schedules,      \* [Payments -> status of its organization_credit_release_schedules row]
  expired,        \* reservations whose expires_at has passed
  calls,          \* [Callers -> key of the call past its duplicate check, or Idle]
  reply           \* [Callers -> what the caller's last call returned]

wallet == <<balance, reserved, granted, consumed, refunded, debt, status>>
vars == <<wallet, remaining, lotOrder, reservations, transactions, schedules,
          expired, calls, reply>>
rows == <<wallet, remaining, lotOrder, reservations, transactions, schedules, expired>>

TypeOK ==
  /\ balance \in Int
  /\ {reserved, granted, consumed, refunded, debt} \subseteq Nat
  /\ status \in {"ACTIVE", "DEBT"}
  /\ remaining \in [Grants -> Nat]
  /\ lotOrder \in Seq(Grants)
  /\ reservations \in [Attempts ->
       [status : {"NONE", "RESERVED", "SHADOW", "SETTLED", "RELEASED"},
        held : Nat, settled : Nat]]
  /\ transactions \subseteq [key : Keys, amount : Int, after : Int]
  /\ schedules \in [Payments -> {"NONE", "ACTIVE", "COMPLETED", "CANCELLED"}]
  /\ expired \subseteq Attempts
  /\ calls \in [Callers -> CallKeys \cup {Idle}]
  /\ reply \in [Callers -> {"none", "done", "duplicate", "insufficient", "failed"}]

Init ==
  /\ balance = 0 /\ reserved = 0
  /\ granted = 0 /\ consumed = 0 /\ refunded = 0 /\ debt = 0
  /\ status = "ACTIVE"
  /\ remaining = [g \in Grants |-> 0]
  /\ lotOrder = <<>>
  /\ reservations = [a \in Attempts |-> [status |-> "NONE", held |-> 0, settled |-> 0]]
  /\ transactions = {}
  /\ schedules = [p \in Payments |-> "NONE"]
  /\ expired = {}
  /\ calls = [c \in Callers |-> Idle]
  /\ reply = [c \in Callers |-> "none"]

-----------------------------------------------------------------------------
(* The wallet row.  MySQL assigns the columns of an UPDATE from left to    *)
(* right and a later expression reads the columns already assigned, so the *)
(* CASE that sets status reads the new balance and the new debt.           *)

available == balance - reserved

AtLeastZero(n) == IF n < 0 THEN 0 ELSE n

Deposit(units) ==
  /\ balance' = balance + units
  /\ granted' = granted + units
  /\ debt' = AtLeastZero(debt - units)
  /\ status' = IF debt' <= units /\ balance' + units >= 0 THEN "ACTIVE" ELSE status
  /\ UNCHANGED <<reserved, consumed, refunded>>

StatusAfterTaking(units) == IF balance' - units < 0 THEN "DEBT" ELSE status

Spend(units) ==
  /\ balance' = balance - units
  /\ consumed' = consumed + units
  /\ status' = StatusAfterTaking(units)
  /\ UNCHANGED <<granted, refunded, debt>>

Hold(units) ==
  /\ reserved' = reserved + units
  /\ UNCHANGED <<balance, granted, consumed, refunded, debt, status>>

KeepHold(units) == reserved' = reserved   \* mutant: the hold is not returned
ReturnHold(units) == reserved' = AtLeastZero(reserved - units)

TakeBack(units, shortfall) ==
  /\ balance' = balance - units
  /\ refunded' = refunded + units
  /\ debt' = debt + shortfall
  /\ status' = IF shortfall > 0 THEN "DEBT" ELSE StatusAfterTaking(units)
  /\ UNCHANGED <<reserved, granted, consumed>>

\* consumeGrantLots: the oldest lots first, until units are taken or none is left.
Consumptions(units) ==
  {[g \in Grants |-> remaining[g] - taken[g]] : taken \in
    {t \in [Grants -> 0 .. units] :
       /\ \A g \in Grants : t[g] <= remaining[g]
       /\ \A i, j \in DOMAIN lotOrder :
            i < j /\ t[lotOrder[j]] > 0 => t[lotOrder[i]] = remaining[lotOrder[i]]
       /\ LET total == SumFunctionOnSet(t, Range(lotOrder))
          IN total = units \/ (total < units /\ t = remaining)}}

\* A transaction row; balance_after_units is the balance the same transaction writes.
Post(kind, k, amount) ==
  transactions' = transactions \cup
    {[key |-> <<kind, k>>, amount |-> amount, after |-> balance + amount]}

Posted == {t.key : t \in transactions}

-----------------------------------------------------------------------------
(* The two halves of a call.                                               *)

\* What the duplicate check of each operation reads.
Recorded(key) ==
  \/ key[1] = "grant" /\ key[2] \in Range(lotOrder)
  \/ key[1] = "reserve" /\ reservations[key[2]].status # "NONE"
  \/ key[1] \in {"debit", "refund"} /\ key \in Posted

\* With metering off a debit and a reservation touch nothing.
Metered(key) == Mode # "off" \/ key[1] \in {"grant", "refund"}

Begin(c, key) ==
  /\ calls[c] = Idle
  /\ Metered(key)
  /\ IF Recorded(key)
       THEN /\ reply' = [reply EXCEPT ![c] = "duplicate"]
            /\ UNCHANGED calls
       ELSE /\ calls' = [calls EXCEPT ![c] = key]
            /\ UNCHANGED reply
  /\ UNCHANGED rows

Return(c, answer) ==
  /\ calls' = [calls EXCEPT ![c] = Idle]
  /\ reply' = [reply EXCEPT ![c] = answer]

NoUniqueKey(key) == TRUE   \* mutant: the table has no unique key

\* A unique key of the database refuses the second row of one key.
UniqueKey(key) == ~Recorded(key)

\* A duplicate-key error, a deadlock victim, a lost connection or a crash: rolled back.
Rollback(c) ==
  /\ calls[c] # Idle
  /\ Return(c, "failed")
  /\ UNCHANGED rows

Refuse(c) ==
  /\ Return(c, "insufficient")
  /\ UNCHANGED rows

ShortOfBalance(units) ==   \* mutant: open holds are not subtracted
  Mode = "enforce" /\ (status # "ACTIVE" \/ balance < units)
Short(units) == Mode = "enforce" /\ (status # "ACTIVE" \/ available < units)

Grant(c, g) ==
  /\ calls[c] = <<"grant", g>>
  /\ UniqueKey(<<"grant", g>>)
  /\ remaining' = [remaining EXCEPT ![g] = GrantUnits[g]]
  /\ lotOrder' = Append(lotOrder, g)
  /\ Deposit(GrantUnits[g])
  /\ Post("grant", g, GrantUnits[g])
  /\ Return(c, "done")
  /\ UNCHANGED <<reservations, schedules, expired>>

Debit(c, d) ==
  /\ calls[c] = <<"debit", d>>
  /\ IF Short(DebitUnits[d])
       THEN Refuse(c)
       ELSE /\ UniqueKey(<<"debit", d>>)
            /\ IF Mode = "enforce"
                 THEN /\ Spend(DebitUnits[d])
                      /\ UNCHANGED reserved
                      /\ remaining' \in Consumptions(DebitUnits[d])
                      /\ Post("debit", d, -DebitUnits[d])
                 ELSE /\ Post("debit", d, 0)
                      /\ UNCHANGED <<wallet, remaining>>
            /\ Return(c, "done")
            /\ UNCHANGED <<lotOrder, reservations, schedules, expired>>

ReservationStatus == IF Mode = "shadow" THEN "SHADOW" ELSE "RESERVED"

Reserve(c, a) ==
  /\ calls[c] = <<"reserve", a>>
  /\ IF Short(ReserveUnits[a])
       THEN Refuse(c)
       ELSE /\ UniqueKey(<<"reserve", a>>)
            /\ reservations' = [reservations EXCEPT ![a] =
                 [status |-> ReservationStatus, held |-> ReserveUnits[a], settled |-> 0]]
            /\ IF ReservationStatus = "RESERVED" THEN Hold(ReserveUnits[a]) ELSE UNCHANGED wallet
            /\ Post("reserve", a, 0)
            /\ Return(c, "done")
            /\ UNCHANGED <<remaining, lotOrder, schedules, expired>>

\* The lots a payment filled, and what a refund of part of it takes from each.
LotsOf(p) == {g \in Range(lotOrder) : PaymentOf[g] = p}
Share(g, r) == (GrantUnits[g] * RefundPaise[r]) \div PaymentPaise[RefundOf[r]]
Unused(g, r) == IF remaining[g] < Share(g, r) THEN remaining[g] ELSE Share(g, r)

Refund(c, r) ==
  LET p         == RefundOf[r]
      lots      == LotsOf(p)
      units     == SumFunction([g \in lots |-> Share(g, r)])
      shortfall == SumFunction([g \in lots |-> Share(g, r) - Unused(g, r)])
  IN /\ calls[c] = <<"refund", r>>
     /\ IF lots = {} \/ units = 0
          THEN Return(c, "failed") /\ UNCHANGED rows
          ELSE /\ UniqueKey(<<"refund", r>>)
               /\ remaining' = [g \in Grants |->
                    IF g \in lots THEN remaining[g] - Unused(g, r) ELSE remaining[g]]
               /\ TakeBack(units, shortfall)
               /\ Post("refund", r, -units)
               /\ schedules' = IF RefundPaise[r] >= PaymentPaise[p] /\ schedules[p] = "ACTIVE"
                                 THEN [schedules EXCEPT ![p] = "CANCELLED"] ELSE schedules
               /\ Return(c, "done")
               /\ UNCHANGED <<lotOrder, reservations, expired>>

-----------------------------------------------------------------------------
(* The end of a reservation.                                               *)

NotReleased(a) ==   \* mutant: the early return of a settled reservation is dropped
  reservations[a].status \notin {"NONE", "RELEASED"}
Open(a) == reservations[a].status \in {"RESERVED", "SHADOW"}

\* settleOrganizationCreditReservation: a settled one is answered from the row and a
\* released one throws, so only these two statuses change anything.
Settle(a, units) ==
  /\ Open(a)
  /\ reservations' = [reservations EXCEPT ![a].status = "SETTLED", ![a].settled = units]
  /\ IF reservations[a].status = "RESERVED"
       THEN /\ Spend(units)
            /\ ReturnHold(reservations[a].held)
            /\ remaining' \in Consumptions(units)
            /\ Post("settle", a, -units)
       ELSE UNCHANGED <<wallet, remaining, transactions>>
  /\ UNCHANGED <<lotOrder, schedules, expired, calls, reply>>

Release(a) ==
  /\ Open(a)
  /\ reservations' = [reservations EXCEPT ![a].status = "RELEASED"]
  /\ IF reservations[a].status = "RESERVED"
       THEN ReturnHold(reservations[a].held) ELSE UNCHANGED reserved
  /\ UNCHANGED <<balance, granted, consumed, refunded, debt, status>>
  /\ UNCHANGED <<remaining, lotOrder, transactions, schedules, expired, calls, reply>>

\* Time passes: the TTL of a reservation (30 minutes) runs out.
Expire(a) ==
  /\ reservations[a].status # "NONE"
  /\ a \notin expired
  /\ expired' = expired \cup {a}
  /\ UNCHANGED <<wallet, remaining, lotOrder, reservations, transactions, schedules, calls, reply>>

\* releaseAbandonedOrganizationCreditReservations, for one row of its list.
ReleaseShadow(a) ==   \* mutant: the list selects the wrong status
  /\ a \in expired
  /\ reservations[a].status = "SHADOW"
  /\ Release(a)

ReleaseAbandoned(a) ==
  /\ a \in expired
  /\ reservations[a].status = "RESERVED"
  /\ Release(a)

Next ==
  \/ \E c \in Callers : \/ \E key \in CallKeys : Begin(c, key)
                        \/ \E g \in Grants : Grant(c, g)
                        \/ \E d \in Debits : Debit(c, d)
                        \/ \E a \in Attempts : Reserve(c, a)
                        \/ \E r \in Refunds : Refund(c, r)
                        \/ Rollback(c)
  \/ \E a \in Attempts : \/ \E units \in ActualUnits : Settle(a, units)
                         \/ Release(a)
                         \/ Expire(a)
                         \/ ReleaseAbandoned(a)

Spec == Init /\ [][Next]_vars

\* The sweeper is called by a cron that does not stop, and time does not stop either.
Fairness == \A a \in Attempts : WF_vars(Expire(a)) /\ WF_vars(ReleaseAbandoned(a))

FairSpec == Spec /\ Fairness

-----------------------------------------------------------------------------
(* What the wallet promises.                                               *)

\* The balance is what was granted less what was consumed and refunded: the lifetime
\* counters of the wallet row, moved by five different statements, never drift apart.
AccountsBalance == balance = granted - consumed - refunded

\* One row per idempotency key: a retried webhook, payment or product run moves the
\* wallet once, also when both deliveries passed the duplicate check.
OneRowPerKey == \A t, u \in transactions : t.key = u.key => t = u

Reserved == {a \in Attempts : reservations[a].status = "RESERVED"}

\* The books of one organization agree, whatever interleaved: the statement it is shown
\* (listOrganizationCreditTransactions) and its lifetime counters add up to the balance;
\* reserved_units is what open reservations hold, so that GREATEST(0, ...) never hides a
\* hold returned twice; and every credit that can be spent lies in a lot, where a later
\* refund finds it.
BooksAgree ==
  /\ AccountsBalance
  /\ balance = SumFunction([t \in transactions |-> t.amount])
  /\ reserved = SumFunctionOnSet([a \in Attempts |-> reservations[a].held], Reserved)
  /\ balance <= SumFunctionOnSet(remaining, Range(lotOrder))

\* A call is charged exactly when its reservation is settled, at the settled amount; a
\* released one is free, also when the late settlement and the sweeper cross.
ChargedIffSettled ==
  \A a \in Attempts :
    /\ reservations[a].status = "SETTLED" /\ Mode = "enforce" =>
         \E t \in transactions :
           t.key = <<"settle", a>> /\ t.amount = -reservations[a].settled
    /\ <<"settle", a>> \in Posted => reservations[a].status = "SETTLED"

\* Every hold comes back: a caller that died leaves its reservation to the sweeper.
HoldsEnd == \A a \in Attempts :
  reservations[a].status = "RESERVED" ~> reservations[a].status # "RESERVED"

\* The wallet as a ledger: outside enforce mode only grants and refunds are entries.
Booked == {"grant", "refund"} \cup (IF Mode = "enforce" THEN {"debit", "settle"} ELSE {})
HoldStatus(s) == IF Mode # "enforce" \/ s = "NONE" THEN "none"
                 ELSE IF s = "RESERVED" THEN "open" ELSE "ended"
Shares == {SumFunction([g \in S |-> Share(g, r)]) : r \in Refunds, S \in SUBSET Grants}
Entries == {[key |-> t.key, amount |-> t.amount] : t \in {u \in transactions : u.key[1] \in Booked}}

Ledger == INSTANCE CreditLedger WITH
  Amounts <- UNION {Range(GrantUnits), Range(DebitUnits), Range(ReserveUnits), ActualUnits, Shares},
  entries <- Entries,
  holds <- [a \in Attempts |->
    [status |-> HoldStatus(reservations[a].status),
     held |-> IF Mode = "enforce" THEN reservations[a].held ELSE 0]]

\* The stored balance, counter of holds, duplicate checks and row locks, interleaved in any
\* way, do what a ledger without them does: each key once, and nothing spent or held beyond
\* what the entries and open holds leave.
ImplementsLedger == Ledger!Spec

\* Claimed by the error the caller gets ("does not have enough managed-LLM credits") and
\* by the comment on enforce mode: a call is refused only when credits are short.
RefusedOnlyWhenShort ==
  [][\A c \in Callers : \A d \in Debits :
       calls[c] = <<"debit", d>> /\ reply'[c] = "insufficient" /\ calls'[c] = Idle
         => available < DebitUnits[d]]_vars
=============================================================================
