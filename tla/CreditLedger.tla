---------------------------- MODULE CreditLedger ----------------------------
(***************************************************************************)
(* What an organization is promised of its credits, without callers, row   *)
(* locks, duplicate checks, lots, counters or a stored balance: a set of   *)
(* entries, of which each key has at most one, and the holds of the calls  *)
(* that are running.  CreditWallet implements it.                          *)
(***************************************************************************)
EXTENDS Integers, FiniteSetsExt

CONSTANTS
  Grants, Debits, Attempts, Refunds,   \* keys, as in CreditWallet
  Amounts                              \* the units an operation may be about, natural numbers

VARIABLES
  entries,   \* [key, amount]: what was added to or taken from the credits
  holds      \* [Attempts -> [status, held]]: what a running call may cost

ledger == <<entries, holds>>

Init ==
  /\ entries = {}
  /\ holds = [a \in Attempts |-> [status |-> "none", held |-> 0]]

Credits == SumFunction([e \in entries |-> e.amount])
Held == SumFunctionOnSet([a \in Attempts |-> holds[a].held],
                         {a \in Attempts : holds[a].status = "open"})
Spendable == Credits - Held

Enter(key, amount) ==
  /\ \A e \in entries : e.key # key
  /\ entries' = entries \cup {[key |-> key, amount |-> amount]}

\* Credits are added ...
Grant(g, units) == Enter(<<"grant", g>>, units) /\ UNCHANGED holds

\* ... spent, as far as they are there and not held ...
Debit(d, units) ==
  /\ Enter(<<"debit", d>>, -units)
  /\ units <= Spendable
  /\ UNCHANGED holds

\* ... or taken back, spent or not.
Refund(r, units) == Enter(<<"refund", r>>, -units) /\ UNCHANGED holds

\* A call holds what it may cost, and ends once: charged what it did cost, or free.
Hold(a, units) ==
  /\ holds[a].status = "none"
  /\ holds' = [holds EXCEPT ![a] = [status |-> "open", held |-> units]]
  /\ units <= Spendable
  /\ UNCHANGED entries

End(a) ==
  /\ holds[a].status = "open"
  /\ holds' = [holds EXCEPT ![a].status = "ended"]

Charge(a, units) == End(a) /\ Enter(<<"settle", a>>, -units)
Free(a) == End(a) /\ UNCHANGED entries

Next ==
  \/ \E units \in Amounts :
       \/ \E g \in Grants : Grant(g, units)
       \/ \E d \in Debits : Debit(d, units)
       \/ \E r \in Refunds : Refund(r, units)
       \/ \E a \in Attempts : Hold(a, units) \/ Charge(a, units)
  \/ \E a \in Attempts : Free(a)

Spec == Init /\ [][Next]_ledger
=============================================================================
