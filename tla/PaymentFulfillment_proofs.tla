---------------------- MODULE PaymentFulfillment_proofs ----------------------
(***************************************************************************)
(* Payments, refunds and invoices, for any number of processes, intents,   *)
(* refunds, deliveries and failures.                                       *)
(*                                                                         *)
(* Shape says what a process can be working on at each place of a handler. *)
(* The rest says of a place what was done before it (Place), who holds the *)
(* lock of a payment (Locked), who has claimed an event (Claimed), and how *)
(* the invoices are numbered (Numbered).                                   *)
(***************************************************************************)
EXTENDS PaymentFulfillment, FiniteSetTheorems, TLAPS

USE FulfillmentAssumption

FulfillJobs == ({"webhook"} \X PaymentEvents) \cup ({"verify", "retry"} \X Intents)
RefundJobs == ({"webhook"} \X RefundEvents) \cup ({"refund"} \X Refunds)

Held == {"find", "plan", "grant", "refer", "invoice", "paid"}   \* with the lock
Fulfilling == {"lock"} \cup Held
AfterAsk == {"record", "takeback", "sum", "settle", "stamp"}

Types ==
  /\ stage \in [Intents -> {"created", "authorized", "captured"}]
  /\ hook \in [Events -> {"none", "processing", "completed", "failed"}]
  /\ status \in [Intents -> PaymentState]
  /\ topups \in [Intents -> Nat]
  /\ invoice \in [Intents -> Nat]
  /\ lastNumber \in Nat
  /\ lock \in [Intents -> Workers \cup {Nobody}]
  /\ job \in [Workers -> Jobs]
  /\ at \in [Workers -> Places]
  /\ next \in [Workers -> PaymentState]
  /\ answer \in [Workers -> {"pending", "processed", "failed"}]
  /\ failures \in Nat

\* What a process works on at a place, and what it has decided.
Works(w) ==
  /\ at[w] = "fetch" => job[w] \in {"verify", "retry"} \X Intents
  /\ at[w] \in {"mark"} \cup Fulfilling => job[w] \in FulfillJobs
  /\ at[w] = "ask" => job[w] \in {"refund"} \X Refunds
  /\ at[w] \in AfterAsk => job[w] \in RefundJobs
  /\ at[w] = "complete" => job[w] \in FulfillJobs \cup RefundJobs
  /\ at[w] = "failing" => job[w] \in {"webhook"} \X Events
  /\ at[w] = "mark" /\ IsHook(w) /\ EventOf(w)[1] \in {"captured", "paid"} => next[w] = "captured"
  /\ at[w] = "mark" => next[w] \in {"authorized", "failed", "captured"}
  /\ at[w] \in AfterAsk /\ IsHook(w) /\ EventOf(w)[1] = "refund.processed" => answer[w] = "processed"
  /\ at[w] = "takeback" => answer[w] = "processed"

Shape == Types /\ \A w \in Workers : Works(w)

\* What the payments and refunds of the other invariants are about.
LEMMA Subjects ==
  ASSUME NEW w \in Workers
  PROVE  /\ job[w] \in {"verify", "retry"} \X Intents => job[w] \in FulfillJobs
         /\ job[w] \in {"refund"} \X Refunds => job[w] \in RefundJobs
         /\ job[w] \in FulfillJobs => Subject(w) \in Intents /\ ~OnRefund(w)
         /\ job[w] \in FulfillJobs /\ IsHook(w) =>
              EventOf(w) \in PaymentEvents /\ Subject(w) = EventOf(w)[2]
         /\ job[w] \in RefundJobs => /\ OnRefund(w) /\ RefundOfJob(w) \in Refunds
                                     /\ Subject(w) = RefundOf[RefundOfJob(w)]
                                     /\ Subject(w) \in Intents
         /\ job[w] \in RefundJobs /\ IsHook(w) =>
              EventOf(w) \in RefundEvents /\ RefundOfJob(w) = EventOf(w)[2]
<1>1. job[w] \in {"verify", "retry"} \X Intents => job[w] \in FulfillJobs
  BY DEF FulfillJobs
<1>2. job[w] \in {"refund"} \X Refunds => job[w] \in RefundJobs
  BY DEF RefundJobs
<1>3. ASSUME job[w] \in {"webhook"} \X PaymentEvents
      PROVE  /\ Subject(w) \in Intents /\ ~OnRefund(w)
             /\ EventOf(w) \in PaymentEvents /\ Subject(w) = EventOf(w)[2]
  BY <1>3 DEF PaymentEvents, RefundEvents, Subject, OnRefund, IsHook, EventOf
<1>4. ASSUME job[w] \in {"verify", "retry"} \X Intents
      PROVE  Subject(w) \in Intents /\ ~OnRefund(w) /\ ~IsHook(w)
  BY <1>4 DEF Subject, OnRefund, IsHook
<1>5. ASSUME job[w] \in {"webhook"} \X RefundEvents
      PROVE  /\ OnRefund(w) /\ RefundOfJob(w) \in Refunds /\ RefundOfJob(w) = EventOf(w)[2]
             /\ EventOf(w) \in RefundEvents
  BY <1>5 DEF RefundEvents, OnRefund, IsHook, EventOf, RefundOfJob
<1>6. ASSUME job[w] \in {"refund"} \X Refunds
      PROVE  OnRefund(w) /\ RefundOfJob(w) \in Refunds /\ ~IsHook(w)
  BY <1>6 DEF OnRefund, IsHook, RefundOfJob
<1>7. OnRefund(w) /\ RefundOfJob(w) \in Refunds =>
        Subject(w) = RefundOf[RefundOfJob(w)] /\ Subject(w) \in Intents
  BY DEF Subject
<1> QED BY <1>1, <1>2, <1>3, <1>4, <1>5, <1>6, <1>7 DEF FulfillJobs, RefundJobs

\* Kinds of events.
LEMMA EventKinds ==
  /\ \A e \in PaymentEvents : e \notin RefundEvents /\ e[1] \in {"authorized", "failed", "captured", "paid"}
  /\ \A e \in RefundEvents : e[1] \in {"refund.created", "refund.processed", "refund.failed"}
  /\ \A e \in Events : e \in PaymentEvents \/ e \in RefundEvents
BY DEF PaymentEvents, RefundEvents, Events

\* A process that does not step keeps all of this.
Same(v) == at'[v] = at[v] /\ job'[v] = job[v] /\ next'[v] = next[v] /\ answer'[v] = answer[v]

LEMMA SameJob ==
  ASSUME NEW v \in Workers, job'[v] = job[v]
  PROVE  /\ Subject(v)' = Subject(v) /\ IsHook(v)' = IsHook(v) /\ EventOf(v)' = EventOf(v)
         /\ RefundOfJob(v)' = RefundOfJob(v) /\ OnRefund(v)' = OnRefund(v)
BY DEF Subject, IsHook, EventOf, RefundOfJob, OnRefund

LEMMA SameWorks ==
  ASSUME NEW v \in Workers, Same(v), Works(v) PROVE Works(v)'
BY SameJob DEF Same, Works

-----------------------------------------------------------------------------
(* Shape is inductive.                                                       *)

Only(w) == \A v \in Workers \ {w} : Same(v)
Quiet == UNCHANGED <<job, at, next, answer>>

LEMMA QuietKeeps ==
  ASSUME Shape, Quiet, Types' PROVE Shape' /\ \A v \in Workers : Same(v)
<1>1. \A v \in Workers : Same(v)
  BY DEF Quiet, Same
<1> QED BY <1>1, SameWorks DEF Shape

LEMMA ShapeBy ==
  ASSUME Shape, Types', NEW w \in Workers, Only(w), Works(w)' PROVE Shape'
<1>1. \A v \in Workers \ {w} : Works(v)'
  BY SameWorks DEF Only, Shape
<1> QED BY <1>1 DEF Shape

\* A process that leaves its handler.
LEMMA LeaveKeeps ==
  ASSUME Types, NEW w \in Workers, Leave(w)
  PROVE  /\ job' \in [Workers -> Jobs] /\ at' \in [Workers -> Places]
         /\ next' \in [Workers -> PaymentState]
         /\ answer' \in [Workers -> {"pending", "processed", "failed"}]
         /\ Only(w) /\ at'[w] = "idle"
<1>1. <<"none", "none">> \in Jobs
  BY DEF Jobs
<1> QED BY <1>1 DEF Types, Leave, Goto, Only, Same, Places, PaymentState

\* A process that only goes on to another place.
LEMMA GotoKeeps ==
  ASSUME Types, NEW w \in Workers, NEW place \in Places, Goto(w, place)
  PROVE  at' \in [Workers -> Places] /\ at'[w] = place /\ \A v \in Workers \ {w} : at'[v] = at[v]
BY DEF Types, Goto

LEMMA IdleWorks == ASSUME NEW w \in Workers, at'[w] = "idle" PROVE Works(w)'
BY DEF Works, Fulfilling, Held, AfterAsk

\* An intent changes to a state it may change to, or not at all.
LEMMA SetIntentKeeps ==
  ASSUME Types, NEW i \in Intents, NEW s \in PaymentState, NEW ids, SetIntent(i, s, ids)
  PROVE  /\ status' \in [Intents -> PaymentState]
         /\ \A k \in Intents \ {i} : status'[k] = status[k]
         /\ \/ CanTransition(status[i], s) /\ status'[i] = s /\ known' = ids
            \/ ~CanTransition(status[i], s) /\ UNCHANGED intents
BY DEF Types, SetIntent, intents

LEMMA LocksKeep ==
  ASSUME Types, NEW w \in Workers, lock' = LocksWithout(w)
  PROVE  /\ lock' \in [Intents -> Workers \cup {Nobody}]
         /\ \A i \in Intents : lock[i] # w => lock'[i] = lock[i]
BY DEF Types, LocksWithout

\* A delivery: of an event that is claimed, or of one that is not.
LEMMA DeliverShape ==
  ASSUME Shape, NEW w \in Workers, NEW e \in Events, Deliver(w, e) PROVE Shape' /\ Only(w)
<1> USE DEF provider, hooks, intents, goods, invoices, refunds, locals, Shape
<1>1. CASE ~MayClaim(e)
  <2>1. Types' /\ Quiet
    BY <1>1 DEF Deliver, Types, Quiet
  <2> QED BY <2>1, QuietKeeps DEF Only
<1>2. CASE MayClaim(e)
  <2>1. /\ job' = [job EXCEPT ![w] = <<"webhook", e>>] /\ <<"webhook", e>> \in Jobs
        /\ hook' = [hook EXCEPT ![e] = "processing"]
    BY <1>2 DEF Deliver, Jobs
  <2>2. IsHook(w)' /\ EventOf(w)' = e
    BY <2>1 DEF Types, IsHook, EventOf
  <2>3. CASE e \in RefundEvents
    <3>1. e[1] \in {"refund.created", "refund.processed", "refund.failed"}
      BY <2>3, EventKinds
    <3>2. /\ Goto(w, "record") /\ next' = next
          /\ answer' = [answer EXCEPT ![w] = IF e[1] = "refund.created" THEN "pending"
                                             ELSE OutcomeOf(e)]
      BY <1>2, <2>3 DEF Deliver
    <3>3. Types' /\ Only(w) /\ at'[w] = "record" /\ job'[w] = <<"webhook", e>>
      BY <1>2, <2>1, <3>2 DEF Deliver, Types, Goto, OutcomeOf, Only, Same, Places
    <3>4. e[1] = "refund.processed" => answer'[w] = "processed"
      BY <3>2 DEF Types, OutcomeOf
    <3>5. job'[w] \in RefundJobs
      BY <2>3, <3>3 DEF RefundJobs
    <3>6. Works(w)'
      BY <2>2, <3>3, <3>4, <3>5 DEF Works, AfterAsk, Fulfilling, Held
    <3> QED BY <3>3, <3>6, ShapeBy
  <2>4. CASE e \notin RefundEvents
    <3>1. e \in PaymentEvents /\ e[1] \in {"authorized", "failed", "captured", "paid"}
      BY <2>4, EventKinds
    <3>2. /\ Goto(w, "mark") /\ answer' = answer
          /\ next' = [next EXCEPT ![w] = IF e[1] = "paid" THEN "captured" ELSE e[1]]
      BY <1>2, <2>4 DEF Deliver
    <3>3. Types' /\ Only(w) /\ at'[w] = "mark" /\ job'[w] = <<"webhook", e>>
      BY <1>2, <2>1, <3>1, <3>2 DEF Deliver, Types, Goto, Only, Same, Places, PaymentState
    <3>4. /\ next'[w] \in {"authorized", "failed", "captured"}
          /\ e[1] \in {"captured", "paid"} => next'[w] = "captured"
      BY <3>1, <3>2 DEF Types
    <3>5. job'[w] \in FulfillJobs
      BY <3>1, <3>3 DEF FulfillJobs
    <3>6. Works(w)'
      BY <2>2, <3>3, <3>4, <3>5 DEF Works, AfterAsk, Fulfilling, Held
    <3> QED BY <3>3, <3>6, ShapeBy
  <2> QED BY <2>3, <2>4
<1> QED BY <1>1, <1>2

\* The browser or an admin asks to fulfill or to refund.
LEMMA AskShape ==
  ASSUME Shape, NEW w \in Workers, NEW i \in Intents, NEW kind \in Requests, Ask(w, kind, i)
  PROVE  Shape' /\ Only(w)
<1> USE DEF provider, hooks, intents, goods, invoices, refunds, locals, Shape
<1>1. <<kind, i>> \in Jobs /\ <<kind, i>> \in {"verify", "retry"} \X Intents
  BY DEF Jobs
<1>2. Types' /\ Only(w) /\ at'[w] = "fetch" /\ job'[w] = <<kind, i>>
  BY <1>1 DEF Ask, Types, Goto, Only, Same, Places
<1>3. Works(w)'
  BY <1>1, <1>2 DEF Works, AfterAsk, Fulfilling, Held
<1> QED BY <1>2, <1>3, ShapeBy

LEMMA RequestShape ==
  ASSUME Shape, NEW w \in Workers, NEW r \in Refunds, RequestRefund(w, r) PROVE Shape' /\ Only(w)
<1> USE DEF provider, hooks, intents, goods, invoices, refunds, RefundUnchanged, Shape
<1>1. <<"refund", r>> \in Jobs /\ <<"refund", r>> \in {"refund"} \X Refunds
  BY DEF Jobs
<1>2. Types' /\ Only(w) /\ at'[w] = "ask" /\ job'[w] = <<"refund", r>>
  BY <1>1 DEF RequestRefund, Types, Goto, Only, Same, Places
<1>3. Works(w)'
  BY <1>1, <1>2 DEF Works, AfterAsk, Fulfilling, Held
<1> QED BY <1>2, <1>3, ShapeBy

LEMMA FetchShape == ASSUME Shape, NEW w \in Workers, Fetch(w) PROVE Shape' /\ Only(w)
<1> USE DEF provider, hooks, intents, goods, invoices, refunds, locals, Shape
<1>1. job[w] \in FulfillJobs /\ Subject(w) \in Intents /\ job[w] \in {"verify", "retry"} \X Intents
  BY Subjects DEF Fetch, Works
<1>2. CASE Leave(w)
  <2>1. Types' /\ Only(w) /\ at'[w] = "idle"
    BY <1>2, LeaveKeeps DEF Fetch, Types
  <2> QED BY <2>1, IdleWorks, ShapeBy
<1>3. CASE ~Leave(w)
  <2>1. /\ next' = [next EXCEPT ![w] = stage[Subject(w)]] /\ Goto(w, "mark")
        /\ UNCHANGED <<job, answer>> /\ stage[Subject(w)] \in {"authorized", "captured"}
    BY <1>1, <1>3 DEF Fetch, Types
  <2>2. Types' /\ Only(w) /\ at'[w] = "mark" /\ next'[w] \in {"authorized", "captured"}
    BY <2>1 DEF Fetch, Types, Goto, Only, Same, Places, PaymentState
  <2>3. job'[w] = job[w] /\ ~IsHook(w)'
    BY <1>1, <2>1 DEF IsHook
  <2>4. Works(w)'
    BY <1>1, <2>2, <2>3 DEF Works, AfterAsk, Fulfilling, Held
  <2> QED BY <2>2, <2>4, ShapeBy
<1> QED BY <1>2, <1>3

LEMMA MarkShape == ASSUME Shape, NEW w \in Workers, Mark(w) PROVE Shape' /\ Only(w)
<1> USE DEF provider, hooks, intents, goods, invoices, refunds, locals, Shape
<1>1. job[w] \in FulfillJobs /\ Subject(w) \in Intents
  BY Subjects DEF Mark, Works
<1>2. status' \in [Intents -> PaymentState]
  BY <1>1, SetIntentKeeps DEF Mark, Types
<1>3. Types' /\ Only(w) /\ at'[w] \in {"lock", "complete"} /\ job'[w] = job[w]
  BY <1>2 DEF Mark, Types, Goto, Only, Same, Places
<1>4. Works(w)'
  BY <1>1, <1>3 DEF Works, AfterAsk, Fulfilling, Held
<1> QED BY <1>3, <1>4, ShapeBy

\* The steps under the lock stay on the payment.
LEMMA FulfillShape == ASSUME Shape, NEW w \in Workers, Fulfill(w) PROVE Shape' /\ Only(w)
<1> USE DEF provider, hooks, intents, goods, invoices, refunds, locals, FulfillUnchanged, Shape
<1>1. at[w] \in Fulfilling /\ job[w] \in FulfillJobs /\ Subject(w) \in Intents
  <2>1. at[w] \in Fulfilling
    BY DEF Fulfill, TakeLock, FindInvoice, ApplyPlan, GrantCredits, ConvertReferral, CreateInvoice,
           MarkPaid, Step, Fulfilling, Held
  <2> QED BY <2>1, Subjects DEF Works
<1>2. \E place \in Held \cup {"complete"} : Goto(w, place)
  BY DEF Fulfill, TakeLock, FindInvoice, ApplyPlan, GrantCredits, ConvertReferral, CreateInvoice,
         MarkPaid, Step, Held
<1>3. at' \in [Workers -> Places] /\ at'[w] \in Held \cup {"complete"} /\ Only(w) /\ job'[w] = job[w]
  BY <1>2 DEF Fulfill, TakeLock, FindInvoice, ApplyPlan, GrantCredits, ConvertReferral, CreateInvoice,
         MarkPaid, Goto, Types, Places, Held, Only, Same
<1>4. Types'
  <2>1. CASE TakeLock(w)
    BY <1>3, <2>1 DEF TakeLock, Types
  <2>2. CASE FindInvoice(w) \/ ApplyPlan(w) \/ ConvertReferral(w)
    BY <1>3, <2>2 DEF FindInvoice, ApplyPlan, ConvertReferral, Types
  <2>3. CASE GrantCredits(w)
    BY <1>1, <1>3, <2>3 DEF GrantCredits, Types
  <2>4. CASE CreateInvoice(w)
    BY <1>1, <1>3, <2>4 DEF CreateInvoice, Types
  <2>5. CASE MarkPaid(w)
    BY <1>1, <1>3, <2>5, LocksKeep, SetIntentKeeps, "captured" \in PaymentState
    DEF MarkPaid, Types, PaymentState
  <2> QED BY <2>1, <2>2, <2>3, <2>4, <2>5 DEF Fulfill
<1>5. Works(w)'
  BY <1>1, <1>3 DEF Works, AfterAsk, Fulfilling, Held
<1> QED BY <1>3, <1>4, <1>5, ShapeBy

LEMMA AskProviderShape == ASSUME Shape, NEW w \in Workers, AskProvider(w) PROVE Shape' /\ Only(w)
<1> USE DEF provider, hooks, intents, goods, invoices, refunds, locals, RefundUnchanged, Shape
<1>1. job[w] \in RefundJobs /\ job[w] \in {"refund"} \X Refunds
  BY Subjects DEF AskProvider, Works
<1>2. CASE Leave(w)
  <2>1. Types' /\ Only(w) /\ at'[w] = "idle"
    BY <1>2, LeaveKeeps DEF AskProvider, Types
  <2> QED BY <2>1, IdleWorks, ShapeBy
<1>3. CASE ~Leave(w)
  <2>1. /\ \E s \in {"pending", "processed"} : answer' = [answer EXCEPT ![w] = s]
        /\ Goto(w, "record") /\ UNCHANGED <<job, next, already>>
    BY <1>3 DEF AskProvider
  <2>2. Types' /\ Only(w) /\ at'[w] = "record" /\ job'[w] = job[w]
    BY <2>1 DEF AskProvider, Types, Goto, Only, Same, Places
  <2>3. ~IsHook(w)'
    BY <1>1, <2>2 DEF IsHook
  <2>4. Works(w)'
    BY <1>1, <2>2, <2>3 DEF Works, AfterAsk, Fulfilling, Held
  <2> QED BY <2>2, <2>4, ShapeBy
<1> QED BY <1>2, <1>3

LEMMA RefundingShape ==
  ASSUME Shape, NEW w \in Workers,
         RecordRefund(w) \/ TakeBackCredits(w) \/ SumRefunds(w) \/ SettleIntent(w) \/ StampInvoice(w)
  PROVE  Shape' /\ Only(w)
<1> USE DEF provider, hooks, intents, goods, invoices, refunds, locals, RefundUnchanged, Shape
<1>1. at[w] \in AfterAsk /\ job[w] \in RefundJobs /\ Subject(w) \in Intents /\ Works(w)
  <2>1. at[w] \in AfterAsk
    BY DEF RecordRefund, TakeBackCredits, SumRefunds, SettleIntent, StampInvoice, Step, AfterAsk
  <2> QED BY <2>1, Subjects DEF Works
<1>2. UNCHANGED <<job, answer>> /\ job'[w] = job[w] /\ answer'[w] = answer[w]
  BY DEF RecordRefund, TakeBackCredits, SumRefunds, SettleIntent, StampInvoice
<1>3. \E place \in {"takeback", "sum", "settle", "stamp", "complete"} : Goto(w, place)
  BY DEF RecordRefund, TakeBackCredits, SumRefunds, SettleIntent, StampInvoice, Step
<1>4. /\ at' \in [Workers -> Places] /\ at'[w] \in {"takeback", "sum", "settle", "stamp", "complete"}
      /\ \A v \in Workers \ {w} : at'[v] = at[v]
  BY <1>3 DEF Goto, Types, Places
<1>5. next' \in [Workers -> PaymentState] /\ \A v \in Workers \ {w} : next'[v] = next[v]
  BY DEF RecordRefund, TakeBackCredits, SumRefunds, SettleIntent, StampInvoice, Types, PaymentState
<1>6. at'[w] = "takeback" => answer[w] = "processed"
  <2>1. CASE RecordRefund(w)
    BY <2>1 DEF RecordRefund, Goto, Types
  <2>2. CASE ~RecordRefund(w)
    BY <2>2 DEF TakeBackCredits, SumRefunds, SettleIntent, StampInvoice, Step, Goto, Types
  <2> QED BY <2>1, <2>2
<1>7. status' \in [Intents -> PaymentState]
  <2>1. CASE SettleIntent(w)
    BY <1>1, <2>1, SetIntentKeeps DEF SettleIntent, Types
  <2>2. CASE ~SettleIntent(w)
    BY <2>2 DEF RecordRefund, TakeBackCredits, SumRefunds, StampInvoice, Types
  <2> QED BY <2>1, <2>2
<1>8. UNCHANGED <<stage, hook, topups, invoice, lastNumber, lock, failures>>
  BY DEF RecordRefund, TakeBackCredits, SumRefunds, SettleIntent, StampInvoice
<1>9. Types' /\ Only(w)
  BY <1>2, <1>4, <1>5, <1>7, <1>8 DEF Types, Only, Same
<1>10. Works(w)'
  BY <1>1, <1>2, <1>4, <1>6, SameJob DEF Works, AfterAsk, Fulfilling, Held
<1> QED BY <1>9, <1>10, ShapeBy

\* The end of a job, an exception and a crash.
LEMMA CompleteShape ==
  ASSUME Shape, NEW w \in Workers, Complete(w) \/ FailHook(w) \/ Crash(w)
  PROVE  Shape' /\ Only(w) /\ at'[w] = "idle"
<1> USE DEF provider, hooks, intents, goods, invoices, refunds, locals, EndUnchanged, Shape
<1>1. Leave(w)
  BY DEF Complete, FailHook, Crash
<1>2. hook' \in [Events -> {"none", "processing", "completed", "failed"}]
  BY DEF Complete, FailHook, Crash, Types
<1>3. lock' \in [Intents -> Workers \cup {Nobody}]
  BY LocksKeep DEF Complete, FailHook, Crash, Types
<1>4. failures' \in Nat
  BY DEF Complete, FailHook, Crash, Types
<1>5. UNCHANGED <<stage, status, topups, invoice, lastNumber>>
  BY DEF Complete, FailHook, Crash
<1>6. Types' /\ Only(w) /\ at'[w] = "idle"
  BY <1>1, <1>2, <1>3, <1>4, <1>5, LeaveKeeps DEF Types
<1> QED BY <1>6, IdleWorks, ShapeBy

LEMMA ThrowShape ==
  ASSUME Shape, NEW w \in Workers, GiveUp(w) \/ Fail(w)
  PROVE  Shape' /\ Only(w) /\ at'[w] \in {"idle", "failing"}
<1> USE DEF provider, hooks, intents, goods, invoices, refunds, EndUnchanged, Shape
<1>1. /\ at[w] \notin {"idle", "failing"} /\ Throw(w) /\ failures' \in Nat
      /\ UNCHANGED <<stage, hook, status, topups, invoice, lastNumber>>
  BY DEF GiveUp, CannotGoOn, Fail, Throw, Types
<1>2. lock' \in [Intents -> Workers \cup {Nobody}]
  BY <1>1, LocksKeep DEF Throw
<1>3. CASE ~IsHook(w)
  <2>1. Types' /\ Only(w) /\ at'[w] = "idle"
    BY <1>1, <1>2, <1>3, LeaveKeeps DEF Throw, Types
  <2> QED BY <2>1, IdleWorks, ShapeBy
<1>4. CASE IsHook(w)
  <2>1. Types' /\ Only(w) /\ at'[w] = "failing" /\ job'[w] = job[w]
    BY <1>1, <1>2, <1>4 DEF Throw, Types, Goto, Only, Same, Places, locals
  <2>2. job[w] \in {"webhook"} \X Events
    BY <1>4 DEF IsHook, Types, Jobs
  <2>3. Works(w)'
    BY <2>1, <2>2 DEF Works, AfterAsk, Fulfilling, Held
  <2> QED BY <2>1, <2>3, ShapeBy
<1> QED BY <1>3, <1>4

\* The provider and the clock touch no process.
LEMMA ProviderShape ==
  ASSUME Shape,
         \/ \E i \in Intents : Captured(i) \/ \E kind \in Preludes : Prelude(i, kind)
         \/ \E r \in Refunds : RefundAtProvider(r) \/ \E s \in {"processed", "failed"} : RefundOutcome(r, s)
         \/ \E e \in Events : Overdue(e)
  PROVE  Shape' /\ \A v \in Workers : Same(v)
<1> USE DEF hooks, intents, goods, invoices, refunds, locals, ProviderUnchanged, Shape
<1>1. stage' \in [Intents -> {"created", "authorized", "captured"}]
  BY DEF Captured, Prelude, RefundAtProvider, RefundOutcome, Overdue, Types, provider
<1>2. UNCHANGED <<hook, status, topups, invoice, lastNumber, lock, failures>> /\ Quiet
  BY DEF Captured, Prelude, RefundAtProvider, RefundOutcome, Overdue, Quiet
<1>3. Types'
  BY <1>1, <1>2 DEF Types, Quiet
<1> QED BY <1>2, <1>3, QuietKeeps

LEMMA ShapeStep == ASSUME Shape, [Next]_vars PROVE Shape'
<1>1. CASE UNCHANGED vars
  <2>1. Types' /\ Quiet
    BY <1>1 DEF vars, provider, hooks, intents, goods, invoices, locals, Shape, Types, Quiet
  <2> QED BY <2>1, QuietKeeps
<1>2. CASE Next
  BY <1>2, ProviderShape, DeliverShape, AskShape, RequestShape, FetchShape, MarkShape, FulfillShape,
     AskProviderShape, RefundingShape, CompleteShape, ThrowShape DEF Next, Work, Refunding
<1> QED BY <1>1, <1>2

LEMMA ShapeInit == Init => Shape
<1>1. <<"none", "none">> \in Jobs
  BY DEF Jobs
<1>2. Init => Types
  BY <1>1 DEF Init, Types, PaymentState, Places
<1>3. Init => \A w \in Workers : Works(w)
  BY DEF Init, Works, AfterAsk, Fulfilling, Held
<1> QED BY <1>2, <1>3 DEF Shape

-----------------------------------------------------------------------------
(* What no step takes back.                                                  *)

Firm(i) == Confirmed(status[i]) => Confirmed(status'[i]) /\ (i \in known => i \in known')
Final(i) == status[i] = "refunded" => status'[i] = "refunded"

Grow ==
  /\ \A i \in Intents : Firm(i) /\ Final(i)
  /\ plans \subseteq plans' /\ granted \subseteq granted' /\ converted \subseteq converted'
  /\ takenBack \subseteq takenBack'
  /\ \A i \in Intents : topups[i] > 0 => topups'[i] > 0
  /\ \A i \in Intents : invoice[i] # 0 => invoice'[i] = invoice[i]

\* The states a confirmed payment can change to are confirmed, and a failed attempt is not
\* recorded for it.
LEMMA Confirming ==
  ASSUME NEW s \in PaymentState, NEW t \in PaymentState, CanTransition(s, t)
  PROVE  /\ Confirmed(s) => Confirmed(t)
         /\ s = "refunded" => t = "refunded"
         /\ t = "captured" => Confirmed(t)
BY DEF CanTransition, TRANSITIONS, Confirmed, PaymentState

\* A capture is refused only by a state it can have led to.
LEMMA Capturing ==
  ASSUME NEW s \in PaymentState, ~CanTransition(s, "captured")
  PROVE  s \in {"partially_refunded", "refunded"}
BY DEF CanTransition, TRANSITIONS, PaymentState

LEMMA SetIntentFirm ==
  ASSUME Types, NEW i \in Intents, NEW s \in PaymentState, NEW ids, SetIntent(i, s, ids),
         s = "failed" \/ known \subseteq ids, known \ {i} \subseteq ids
  PROVE  \A k \in Intents : Firm(k) /\ Final(k)
<1>1. \A k \in Intents \ {i} : status'[k] = status[k]
  BY SetIntentKeeps
<1>2. CASE ~CanTransition(status[i], s)
  BY <1>1, <1>2, SetIntentKeeps DEF intents, Firm, Final
<1>3. CASE CanTransition(status[i], s)
  <2>1. status'[i] = s /\ known' = ids
    BY <1>3, SetIntentKeeps
  <2>2. Confirmed(status[i]) => Confirmed(s)
    BY <1>3, Confirming DEF Types
  <2>3. Final(i)
    BY <1>3, <2>1, Confirming DEF Types, Final
  <2>4. Firm(i)
    BY <2>1, <2>2 DEF Firm, Confirmed
  <2>5. \A k \in Intents \ {i} : Firm(k) /\ Final(k)
    BY <1>1, <2>1 DEF Firm, Final
  <2> QED BY <2>3, <2>4, <2>5
<1> QED BY <1>2, <1>3

LEMMA StillGrow ==
  ASSUME UNCHANGED <<status, known, plans, granted, converted, takenBack, topups, invoice>>
  PROVE  Grow
BY DEF Grow, Firm, Final

LEMMA FulfillGrow == ASSUME Shape, NEW w \in Workers, Fulfill(w) PROVE Grow
<1> USE DEF goods, intents, invoices, refunds, FulfillUnchanged, Shape
<1>1. Subject(w) \in Intents
  BY Subjects DEF Works, Fulfilling, Held, Fulfill, TakeLock, FindInvoice, ApplyPlan, GrantCredits,
     ConvertReferral, CreateInvoice, MarkPaid, Step
<1>2. CASE TakeLock(w) \/ FindInvoice(w)
  BY <1>2, StillGrow DEF TakeLock, FindInvoice
<1>3. CASE ApplyPlan(w) \/ ConvertReferral(w)
  BY <1>3 DEF ApplyPlan, ConvertReferral, Grow, Firm, Final
<1>4. CASE GrantCredits(w)
  BY <1>1, <1>4 DEF GrantCredits, Grow, Firm, Final, Types
<1>5. CASE CreateInvoice(w)
  BY <1>1, <1>5 DEF CreateInvoice, Grow, Firm, Final, Types
<1>6. CASE MarkPaid(w)
  <2>1. "captured" \in PaymentState
    BY DEF PaymentState
  <2>2. \A k \in Intents : Firm(k) /\ Final(k)
    BY <1>1, <1>6, <2>1, SetIntentFirm DEF MarkPaid
  <2> QED BY <1>6, <2>2 DEF MarkPaid, Grow
<1> QED BY <1>2, <1>3, <1>4, <1>5, <1>6 DEF Fulfill

LEMMA MarkGrow == ASSUME Shape, NEW w \in Workers, Mark(w) PROVE Grow
<1>1. Subject(w) \in Intents /\ next[w] \in PaymentState
  BY Subjects DEF Mark, Works, Shape, Types
<1>2. \A k \in Intents : Firm(k) /\ Final(k)
  <2>1. CASE next[w] = "failed"
    BY <1>1, <2>1, SetIntentFirm DEF Mark, Shape
  <2>2. CASE next[w] # "failed"
    BY <1>1, <2>2, SetIntentFirm DEF Mark, Shape
  <2> QED BY <2>1, <2>2
<1> QED BY <1>2 DEF Mark, Grow, goods, invoices, refunds

LEMMA RefundingGrow == ASSUME Shape, NEW w \in Workers, Refunding(w) PROVE Grow
<1> USE DEF goods, intents, refunds, RefundUnchanged
<1>1. CASE SettleIntent(w)
  <2>1. Subject(w) \in Intents /\ next[w] \in PaymentState
    BY <1>1, Subjects DEF SettleIntent, Step, Works, AfterAsk, Shape, Types
  <2>2. \A k \in Intents : Firm(k) /\ Final(k)
    BY <1>1, <2>1, SetIntentFirm DEF SettleIntent, Shape
  <2> QED BY <1>1, <2>2 DEF SettleIntent, Grow
<1>2. CASE TakeBackCredits(w)
  BY <1>2 DEF TakeBackCredits, Grow, Firm, Final
<1>3. CASE AskProvider(w) \/ RecordRefund(w) \/ SumRefunds(w) \/ StampInvoice(w)
  BY <1>3, StillGrow DEF AskProvider, RecordRefund, SumRefunds, StampInvoice
<1> QED BY <1>1, <1>2, <1>3 DEF Refunding

LEMMA GrowStep == ASSUME Shape, [Next]_vars PROVE Grow
<1>1. CASE \E w \in Workers : Mark(w) \/ Fulfill(w) \/ Refunding(w)
  BY <1>1, MarkGrow, FulfillGrow, RefundingGrow
<1>2. CASE \/ UNCHANGED vars
           \/ \E i \in Intents : Captured(i) \/ \E kind \in Preludes : Prelude(i, kind)
           \/ \E r \in Refunds : RefundAtProvider(r) \/ \E s \in {"processed", "failed"} : RefundOutcome(r, s)
           \/ \E e \in Events : Overdue(e)
  BY <1>2, StillGrow DEF vars, intents, goods, invoices, refunds, ProviderUnchanged, Captured, Prelude,
     RefundAtProvider, RefundOutcome, Overdue
<1>3. CASE \E w \in Workers : \/ \E e \in Events : Deliver(w, e)
                              \/ \E i \in Intents, kind \in Requests : Ask(w, kind, i)
                              \/ \E r \in Refunds : RequestRefund(w, r)
                              \/ Fetch(w)
  BY <1>3, StillGrow DEF intents, goods, invoices, refunds, RefundUnchanged, Deliver, Ask, RequestRefund, Fetch
<1>4. CASE \E w \in Workers : Complete(w) \/ FailHook(w) \/ GiveUp(w) \/ Fail(w) \/ Crash(w)
  BY <1>4, StillGrow DEF intents, goods, invoices, refunds, EndUnchanged, Complete, FailHook, GiveUp,
     Fail, Crash, Throw
<1> QED BY <1>1, <1>2, <1>3, <1>4 DEF Next, Work

-----------------------------------------------------------------------------
(* What was done before a place is reached.                                  *)

Provisioned(i) == i \in plans /\ i \in granted /\ i \in converted

\* Of a payment that is being fulfilled.
OnPayment(w) ==
  LET i == Subject(w)
  IN /\ at[w] \in Fulfilling => Confirmed(status[i]) /\ (i \notin Legacy => i \in known)
     /\ at[w] \in {"plan", "refer"} => i \notin Legacy
     /\ at[w] = "grant" /\ i \notin Legacy => i \in plans
     /\ at[w] = "refer" => i \in plans /\ i \in granted
     /\ at[w] = "invoice" => IF i \in Legacy THEN topups[i] > 0 ELSE Provisioned(i)
     /\ at[w] = "paid" => invoice[i] # 0
     /\ at[w] = "complete" /\ IsHook(w) /\ EventOf(w)[1] \in {"captured", "paid"} => invoice[i] # 0

\* Of a refund that is being recorded.
OnRefunding(w) ==
  LET i == Subject(w)
  IN /\ at[w] = "takeback" => i \notin Legacy
     /\ at[w] = "sum" /\ answer[w] = "processed" /\ i \notin Legacy => i \in granted
     /\ at[w] = "settle" /\ next[w] \in {"partially_refunded", "refunded"} /\ i \notin Legacy => i \in granted
     /\ at[w] \in {"sum", "settle", "stamp", "complete"} /\ IsHook(w) /\ EventOf(w)[1] = "refund.processed"
          /\ i \notin Legacy => RefundOfJob(w) \in takenBack

Place(w) == OnPayment(w) /\ OnRefunding(w)

\* Of a payment, whoever works on it.
Payments ==
  \A i \in Intents :
    /\ i \in granted => i \notin Legacy /\ Confirmed(status[i]) /\ i \in known
    /\ i \notin Legacy /\ status[i] \in {"partially_refunded", "refunded"} => i \in granted

Goods == Payments /\ InvoicedIsFulfilled /\ CompletedMeansDone /\ \A w \in Workers : Place(w)

\* A process that does not step.
LEMMA SamePlace ==
  ASSUME Shape, Grow, NEW v \in Workers, Same(v), Place(v) PROVE Place(v)'
<1>1. Subject(v) \in Intents \/ at[v] \notin Fulfilling \cup AfterAsk \cup {"complete"}
  BY Subjects DEF Shape, Works
<1>2. CASE at[v] \notin Fulfilling \cup AfterAsk \cup {"complete"}
  BY <1>2 DEF Same, Place, OnPayment, OnRefunding, Fulfilling, Held, AfterAsk
<1>3. CASE Subject(v) \in Intents
  <2>1. OnPayment(v)'
    BY <1>3, SameJob DEF Same, Place, OnPayment, Grow, Firm, Provisioned
  <2>2. OnRefunding(v)'
    BY <1>3, SameJob DEF Same, Place, OnRefunding, Grow
  <2> QED BY <2>1, <2>2 DEF Place
<1> QED BY <1>1, <1>2, <1>3

LEMMA IdlePlace == ASSUME NEW w \in Workers, at'[w] \in {"idle", "fetch", "mark", "failing", "ask", "record"}
                   PROVE Place(w)'
BY DEF Place, OnPayment, OnRefunding, Fulfilling, Held

\* What stays when no payment, invoice or claim changes.
LEMMA SameGoods ==
  ASSUME Shape, Goods, Grow, UNCHANGED <<status, granted, invoice>>,
         \A e \in Events : hook'[e] = "completed" => hook[e] = "completed"
  PROVE  Payments' /\ InvoicedIsFulfilled' /\ CompletedMeansDone'
<1>1. Payments'
  BY DEF Goods, Payments, Grow, Firm
<1>2. InvoicedIsFulfilled'
  BY DEF Goods, InvoicedIsFulfilled, Grow, Firm, Shape, Types
<1>3. CompletedMeansDone'
  <2> SUFFICES ASSUME NEW e \in Events, hook'[e] = "completed"
               PROVE  /\ e[1] \in {"captured", "paid"} => invoice'[e[2]] # 0
                      /\ e[1] = "refund.processed" /\ RefundOf[e[2]] \notin Legacy => e[2] \in takenBack'
    BY DEF CompletedMeansDone
  <2> QED BY DEF Goods, CompletedMeansDone, Grow
<1> QED BY <1>1, <1>2, <1>3

LEMMA GoodsBy ==
  ASSUME Shape, Goods, Grow, NEW w \in Workers, Only(w), Place(w)',
         Payments', InvoicedIsFulfilled', CompletedMeansDone'
  PROVE  Goods'
<1>1. \A v \in Workers \ {w} : Place(v)'
  BY SamePlace DEF Only, Goods
<1> QED BY <1>1 DEF Goods

\* Steps that do not touch what was done.
LEMMA StartGoods ==
  ASSUME Shape, Goods, Grow, NEW w \in Workers, Only(w),
         \/ \E e \in Events : Deliver(w, e)
         \/ \E i \in Intents, kind \in Requests : Ask(w, kind, i)
         \/ \E r \in Refunds : RequestRefund(w, r)
         \/ Fetch(w) \/ AskProvider(w)
  PROVE  Goods'
<1> USE DEF intents, goods, invoices, refunds, RefundUnchanged, Shape
<1>1. UNCHANGED <<status, granted, invoice>>
  BY DEF Deliver, Ask, RequestRefund, Fetch, AskProvider
<1>2. \A e \in Events : hook'[e] = "completed" => hook[e] = "completed"
  BY DEF Deliver, Ask, RequestRefund, Fetch, AskProvider, hooks, Types
<1>3. at'[w] \in {"idle", "fetch", "mark", "ask", "record"}
  BY DEF Deliver, Ask, RequestRefund, Fetch, AskProvider, Goto, Leave, Types
<1> QED BY <1>1, <1>2, <1>3, SameGoods, IdlePlace, GoodsBy

LEMMA EndGoods ==
  ASSUME Shape, Goods, Grow, NEW w \in Workers, Only(w),
         FailHook(w) \/ GiveUp(w) \/ Fail(w) \/ Crash(w), at'[w] \in {"idle", "failing"}
  PROVE  Goods'
<1> USE DEF intents, goods, invoices, EndUnchanged, Shape
<1>1. UNCHANGED <<status, granted, invoice>>
  BY DEF FailHook, GiveUp, Fail, Crash, Throw
<1>2. \A e \in Events : hook'[e] = "completed" => hook[e] = "completed"
  BY DEF FailHook, GiveUp, Fail, Crash, Throw, Types
<1> QED BY <1>1, <1>2, SameGoods, IdlePlace, GoodsBy

\* An event is completed where its work is done.
LEMMA CompleteGoods ==
  ASSUME Shape, Goods, Grow, NEW w \in Workers, Only(w), Complete(w), at'[w] = "idle"
  PROVE  Goods'
<1> USE DEF intents, goods, invoices, refunds, EndUnchanged, Shape
<1>1. Place(w)'
  BY IdlePlace
<1>2. Payments' /\ InvoicedIsFulfilled'
  BY DEF Complete, Goods, Payments, InvoicedIsFulfilled
<1>3. CompletedMeansDone'
  <2> SUFFICES ASSUME NEW e \in Events, hook'[e] = "completed"
               PROVE  /\ e[1] \in {"captured", "paid"} => invoice[e[2]] # 0
                      /\ e[1] = "refund.processed" /\ RefundOf[e[2]] \notin Legacy => e[2] \in takenBack
    BY DEF CompletedMeansDone, Complete
  <2>1. CASE hook[e] = "completed"
    BY <2>1 DEF Goods, CompletedMeansDone
  <2>2. CASE hook[e] # "completed"
    <3>1. IsHook(w) /\ e = EventOf(w) /\ at[w] = "complete"
      BY <2>2 DEF Complete, Types
    <3>2. CASE job[w] \in FulfillJobs
      <4>1. e \in PaymentEvents /\ Subject(w) = e[2]
        BY <3>1, <3>2, Subjects
      <4>2. e[1] \in {"captured", "paid"} => invoice[Subject(w)] # 0
        BY <3>1 DEF Goods, Place, OnPayment
      <4>3. e[1] # "refund.processed"
        BY <4>1, EventKinds
      <4> QED BY <4>1, <4>2, <4>3
    <3>3. CASE job[w] \in RefundJobs
      <4>1. e \in RefundEvents /\ RefundOfJob(w) = e[2] /\ Subject(w) = RefundOf[e[2]]
        BY <3>1, <3>3, Subjects
      <4>2. e[1] = "refund.processed" /\ Subject(w) \notin Legacy => e[2] \in takenBack
        BY <3>1, <4>1 DEF Goods, Place, OnRefunding
      <4>3. e[1] \notin {"captured", "paid"}
        BY <4>1, EventKinds
      <4> QED BY <4>1, <4>2, <4>3
    <3> QED BY <3>1, <3>2, <3>3 DEF Works
  <2> QED BY <2>1, <2>2
<1> QED BY <1>1, <1>2, <1>3, GoodsBy

\* A change of state that is not to a refunded one leaves the payments as they are.
LEMMA SetIntentGoods ==
  ASSUME Shape, Goods, Grow, NEW i \in Intents, NEW s \in PaymentState, NEW ids,
         SetIntent(i, s, ids), UNCHANGED <<granted, invoice, hook>>,
         s \in {"partially_refunded", "refunded"} /\ i \notin Legacy => i \in granted
  PROVE  Payments' /\ InvoicedIsFulfilled' /\ CompletedMeansDone'
<1> USE DEF Shape
<1>1. \A k \in Intents : status'[k] = status[k] \/ (k = i /\ status'[k] = s)
  BY SetIntentKeeps DEF intents
<1>2. Payments'
  BY <1>1 DEF Goods, Payments, Grow, Firm
<1>3. InvoicedIsFulfilled'
  BY DEF Goods, InvoicedIsFulfilled, Grow, Firm, Types
<1>4. CompletedMeansDone'
  BY DEF Goods, CompletedMeansDone, Grow
<1> QED BY <1>2, <1>3, <1>4

\* A captured payment that goes on to its lock is confirmed.
LEMMA MarkGoods ==
  ASSUME Shape, Goods, Grow, NEW w \in Workers, Only(w), Mark(w) PROVE Goods'
<1> USE DEF goods, hooks, invoices, refunds, locals, Shape
<1> DEFINE i == Subject(w)
           ids == IF next[w] = "failed" THEN known \ {i} ELSE known \cup {i}
<1>1. /\ job[w] \in FulfillJobs /\ i \in Intents /\ next[w] \in PaymentState
      /\ next[w] \in {"authorized", "failed", "captured"}
  BY Subjects DEF Mark, Works, Types
<1>2. SetIntent(i, next[w], ids) /\ UNCHANGED <<granted, invoice, hook>>
  BY DEF Mark
<1> HIDE DEF ids
<1>3. Payments' /\ InvoicedIsFulfilled' /\ CompletedMeansDone'
  BY <1>1, <1>2, SetIntentGoods
<1>4. /\ at'[w] = IF next[w] = "captured" THEN "lock" ELSE "complete"
      /\ job'[w] = job[w] /\ next'[w] = next[w] /\ answer'[w] = answer[w]
  BY DEF Mark, Goto, Types
<1>5. Subject(w)' = i /\ IsHook(w)' = IsHook(w) /\ EventOf(w)' = EventOf(w)
  BY <1>4, SameJob
<1>6. CASE next[w] = "captured"
  <2>1. CASE CanTransition(status[i], "captured")
    <3>1. status'[i] = "captured" /\ i \in known'
      BY <1>1, <1>2, <1>6, <2>1, SetIntentKeeps DEF ids
    <3>2. Place(w)'
      BY <1>4, <1>5, <1>6, <3>1 DEF Place, OnPayment, OnRefunding, Confirmed
    <3> QED BY <1>3, <3>2, GoodsBy
  <2>2. CASE ~CanTransition(status[i], "captured")
    <3>1. status[i] \in {"partially_refunded", "refunded"}
      BY <1>1, <2>2, Capturing DEF Types
    <3>2. Confirmed(status'[i]) /\ (i \notin Legacy => i \in known')
      BY <1>1, <3>1 DEF Goods, Payments, Grow, Firm, Confirmed
    <3>3. Place(w)'
      BY <1>4, <1>5, <1>6, <3>2 DEF Place, OnPayment, OnRefunding
    <3> QED BY <1>3, <3>3, GoodsBy
  <2> QED BY <2>1, <2>2
<1>7. CASE next[w] # "captured"
  <2>1. ~(IsHook(w) /\ EventOf(w)[1] \in {"captured", "paid"})
    BY <1>7 DEF Mark, Works
  <2>2. IsHook(w) => EventOf(w)[1] # "refund.processed"
    BY <1>1, Subjects, EventKinds
  <2>3. Place(w)'
    BY <1>4, <1>5, <1>7, <2>1, <2>2 DEF Place, OnPayment, OnRefunding, Fulfilling, Held
  <2> QED BY <1>3, <2>3, GoodsBy
<1> QED BY <1>6, <1>7

\* Under the lock: each step does what the next place relies on.
LEMMA FulfillGoods ==
  ASSUME Shape, Goods, Grow, NEW w \in Workers, Only(w), Fulfill(w) PROVE Goods'
<1> USE DEF goods, hooks, intents, invoices, refunds, locals, FulfillUnchanged, Shape
<1> DEFINE i == Subject(w)
<1>1. job[w] \in FulfillJobs /\ i \in Intents /\ OnPayment(w) /\ at[w] \in Fulfilling
  <2>1. at[w] \in Fulfilling
    BY DEF Fulfill, TakeLock, FindInvoice, ApplyPlan, GrantCredits, ConvertReferral, CreateInvoice,
           MarkPaid, Step, Fulfilling, Held
  <2> QED BY <2>1, Subjects DEF Works, Goods, Place
<1>2. /\ UNCHANGED <<job, next, answer, hook>> /\ takenBack' = takenBack
      /\ job'[w] = job[w] /\ next'[w] = next[w] /\ answer'[w] = answer[w]
  BY DEF Fulfill, TakeLock, FindInvoice, ApplyPlan, GrantCredits, ConvertReferral, CreateInvoice, MarkPaid
<1>3. Subject(w)' = i /\ IsHook(w)' = IsHook(w) /\ EventOf(w)' = EventOf(w)
  BY <1>2, SameJob
<1>4. /\ Confirmed(status[i]) /\ Confirmed(status'[i])
      /\ i \notin Legacy => i \in known /\ i \in known'
  BY <1>1 DEF OnPayment, Grow, Firm
<1>5. IsHook(w) => EventOf(w)[1] # "refund.processed"
  BY <1>1, Subjects, EventKinds
<1>6. OnRefunding(w)'
  <2>1. \A place \in Held \cup {"complete"} : place \notin {"takeback", "sum", "settle", "stamp"}
    BY DEF Held
  <2>2. at'[w] \in Held \cup {"complete"}
    BY DEF Fulfill, TakeLock, FindInvoice, ApplyPlan, GrantCredits, ConvertReferral, CreateInvoice,
           MarkPaid, Step, Goto, Types, Held
  <2> QED BY <1>3, <1>5, <2>1, <2>2 DEF OnRefunding
<1>7. CASE TakeLock(w) \/ FindInvoice(w) \/ ApplyPlan(w) \/ ConvertReferral(w)
  <2>1. Payments' /\ InvoicedIsFulfilled' /\ CompletedMeansDone'
    BY <1>2, <1>7, SameGoods DEF TakeLock, FindInvoice, ApplyPlan, ConvertReferral
  <2>2. OnPayment(w)'
    <3>1. CASE TakeLock(w)
      <4>1. at'[w] = "find"
        BY <3>1 DEF TakeLock, Step, Goto, Types
      <4> QED BY <1>3, <1>4, <4>1 DEF OnPayment
    <3>2. CASE FindInvoice(w)
      <4>1. /\ invoice' = invoice
            /\ at'[w] = IF invoice[i] # 0 THEN "paid" ELSE IF i \in Legacy THEN "grant" ELSE "plan"
        BY <3>2 DEF FindInvoice, Step, Goto, Types
      <4> QED BY <1>3, <1>4, <4>1 DEF OnPayment
    <3>3. CASE ApplyPlan(w)
      <4>1. at[w] = "plan" /\ at'[w] = "grant" /\ i \in plans'
        BY <3>3 DEF ApplyPlan, Step, Goto, Types
      <4> QED BY <1>1, <1>3, <1>4, <4>1 DEF OnPayment
    <3>4. CASE ConvertReferral(w)
      <4>1. at[w] = "refer" /\ at'[w] = "invoice" /\ i \in converted'
        BY <3>4 DEF ConvertReferral, Step, Goto, Types
      <4>2. i \notin Legacy /\ i \in plans' /\ i \in granted'
        BY <1>1, <4>1 DEF OnPayment, Grow
      <4> QED BY <1>3, <1>4, <4>1, <4>2 DEF OnPayment, Provisioned
    <3> QED BY <1>7, <3>1, <3>2, <3>3, <3>4
  <2> QED BY <1>6, <2>1, <2>2, GoodsBy DEF Place
<1>8. CASE GrantCredits(w)
  <2>1. /\ at[w] = "grant" /\ at'[w] = IF i \in Legacy THEN "invoice" ELSE "refer"
        /\ UNCHANGED <<status, known, invoice>>
        /\ IF i \in Legacy THEN granted' = granted /\ topups'[i] > 0 ELSE granted' = granted \cup {i}
    BY <1>1, <1>8 DEF GrantCredits, Step, Goto, Types
  <2>2. Payments'
    BY <1>4, <2>1 DEF Goods, Payments
  <2>3. InvoicedIsFulfilled' /\ CompletedMeansDone'
    BY <1>2, <2>1 DEF Goods, InvoicedIsFulfilled, CompletedMeansDone, Grow
  <2>4. i \notin Legacy => i \in plans'
    BY <1>1, <2>1 DEF OnPayment, Grow
  <2>5. OnPayment(w)'
    BY <1>3, <1>4, <2>1, <2>4 DEF OnPayment
  <2> QED BY <1>6, <2>2, <2>3, <2>5, GoodsBy DEF Place
<1>9. CASE CreateInvoice(w)
  <2>1. /\ at[w] = "invoice" /\ at'[w] = "paid" /\ UNCHANGED <<status, known, plans, granted, converted, topups>>
        /\ invoice'[i] # 0 /\ \A k \in Intents \ {i} : invoice'[k] = invoice[k]
    BY <1>1, <1>9 DEF CreateInvoice, Step, Goto, Types
  <2>2. Payments' /\ CompletedMeansDone'
    <3>1. \A e \in Events : e[1] \in {"captured", "paid"} => e[2] \in Intents
      BY DEF Events, PaymentEvents, RefundEvents
    <3>2. Payments'
      BY <2>1 DEF Goods, Payments
    <3>3. CompletedMeansDone'
      BY <1>2, <3>1 DEF Goods, CompletedMeansDone, Grow
    <3> QED BY <3>2, <3>3
  <2>3. InvoicedIsFulfilled'
    <3>1. i \in Legacy => topups[i] > 0
      BY <1>1, <2>1 DEF OnPayment
    <3>2. i \notin Legacy => {i} \subseteq known' \cap plans' \cap granted' \cap converted'
      BY <1>1, <1>4, <2>1 DEF OnPayment, Provisioned
    <3> QED BY <1>4, <2>1, <3>1, <3>2 DEF Goods, InvoicedIsFulfilled
  <2>4. OnPayment(w)'
    BY <1>3, <1>4, <2>1 DEF OnPayment
  <2> QED BY <1>6, <2>2, <2>3, <2>4, GoodsBy DEF Place
<1>10. CASE MarkPaid(w)
  <2>1. at[w] = "paid" /\ at'[w] = "complete" /\ UNCHANGED <<granted, invoice>> /\ SetIntent(i, "captured", known)
    BY <1>10 DEF MarkPaid, Step, Goto, Types
  <2>2. "captured" \in PaymentState
    BY DEF PaymentState
  <2>3. Payments' /\ InvoicedIsFulfilled' /\ CompletedMeansDone'
    BY <1>1, <1>2, <2>1, <2>2, SetIntentGoods
  <2>4. OnPayment(w)'
    BY <1>1, <1>3, <2>1 DEF OnPayment, Fulfilling, Held
  <2> QED BY <1>6, <2>3, <2>4, GoodsBy DEF Place
<1> QED BY <1>7, <1>8, <1>9, <1>10 DEF Fulfill

\* Recording a refund, taking it back, and settling the intent.
LEMMA RefundingGoods ==
  ASSUME Shape, Goods, Grow, NEW w \in Workers, Only(w),
         RecordRefund(w) \/ TakeBackCredits(w) \/ SumRefunds(w) \/ SettleIntent(w) \/ StampInvoice(w)
  PROVE  Goods'
<1> USE DEF goods, hooks, intents, refunds, locals, RefundUnchanged, Shape
<1> DEFINE i == Subject(w)
<1>1. job[w] \in RefundJobs /\ i \in Intents /\ OnRefunding(w) /\ Works(w) /\ at[w] \in AfterAsk
  <2>1. at[w] \in AfterAsk
    BY DEF RecordRefund, TakeBackCredits, SumRefunds, SettleIntent, StampInvoice, Step, AfterAsk
  <2> QED BY <2>1, Subjects DEF Works, Goods, Place
<1>2. /\ UNCHANGED <<job, answer, granted, invoice, hook>>
      /\ job'[w] = job[w] /\ answer'[w] = answer[w]
  BY DEF RecordRefund, TakeBackCredits, SumRefunds, SettleIntent, StampInvoice
<1>3. /\ Subject(w)' = i /\ IsHook(w)' = IsHook(w) /\ EventOf(w)' = EventOf(w)
      /\ RefundOfJob(w)' = RefundOfJob(w)
  BY <1>2, SameJob
<1>4. IsHook(w) => EventOf(w)[1] \notin {"captured", "paid"}
  BY <1>1, Subjects, EventKinds
<1>5. OnPayment(w)'
  <2>1. at'[w] \in {"takeback", "sum", "settle", "stamp", "complete"}
    BY DEF RecordRefund, TakeBackCredits, SumRefunds, SettleIntent, StampInvoice, Step, Goto, Types
  <2> QED BY <1>3, <1>4, <2>1 DEF OnPayment, Fulfilling, Held
<1>6. CASE SettleIntent(w)
  <2>1. /\ at[w] = "settle" /\ at'[w] = "stamp" /\ SetIntent(i, next[w], known) /\ next[w] \in PaymentState
        /\ takenBack' = takenBack
    BY <1>6 DEF SettleIntent, Step, Goto, Types
  <2>2. Payments' /\ InvoicedIsFulfilled' /\ CompletedMeansDone'
    BY <1>1, <1>2, <2>1, SetIntentGoods DEF OnRefunding
  <2>3. OnRefunding(w)'
    BY <1>1, <1>3, <2>1 DEF OnRefunding
  <2> QED BY <1>5, <2>2, <2>3, GoodsBy DEF Place
<1>7. CASE ~SettleIntent(w)
  <2>1. status' = status
    BY <1>7 DEF RecordRefund, TakeBackCredits, SumRefunds, StampInvoice
  <2>2. Payments' /\ InvoicedIsFulfilled' /\ CompletedMeansDone'
    BY <1>2, <2>1, SameGoods
  <2>3. CASE RecordRefund(w)
    <3>1. /\ at[w] = "record"
          /\ next' = IF answer[w] = "failed" THEN [next EXCEPT ![w] = "captured"] ELSE next
          /\ at'[w] = IF answer[w] = "failed" THEN "settle"
                      ELSE IF answer[w] = "processed" /\ i \notin Legacy THEN "takeback" ELSE "sum"
      BY <2>3 DEF RecordRefund, Goto, Types
    <3>2. IsHook(w) /\ EventOf(w)[1] = "refund.processed" => answer[w] = "processed"
      BY <1>1 DEF Works
    <3>3. OnRefunding(w)'
      BY <1>2, <1>3, <3>1, <3>2 DEF OnRefunding, Types
    <3> QED BY <1>5, <2>2, <3>3, GoodsBy DEF Place
  <2>4. CASE TakeBackCredits(w)
    <3>1. at'[w] = "sum" /\ i \in granted /\ RefundOfJob(w) \in takenBack'
      BY <2>4 DEF TakeBackCredits, Goto, Types
    <3>2. OnRefunding(w)'
      BY <1>2, <1>3, <3>1 DEF OnRefunding
    <3> QED BY <1>5, <2>2, <3>2, GoodsBy DEF Place
  <2>5. CASE SumRefunds(w)
    <3>1. /\ at[w] = "sum" /\ at'[w] = "settle" /\ takenBack' = takenBack
          /\ answer[w] # "processed" => next'[w] = "refund_pending"
      BY <2>5 DEF SumRefunds, Step, Goto, Types
    <3>2. OnRefunding(w)'
      BY <1>1, <1>2, <1>3, <3>1 DEF OnRefunding
    <3> QED BY <1>5, <2>2, <3>2, GoodsBy DEF Place
  <2>6. CASE StampInvoice(w)
    <3>1. at[w] = "stamp" /\ at'[w] = "complete" /\ takenBack' = takenBack
      BY <2>6 DEF StampInvoice, Step, Goto, Types
    <3>2. OnRefunding(w)'
      BY <1>1, <1>3, <3>1 DEF OnRefunding
    <3> QED BY <1>5, <2>2, <3>2, GoodsBy DEF Place
  <2> QED BY <1>7, <2>3, <2>4, <2>5, <2>6
<1> QED BY <1>6, <1>7

LEMMA QuietGoods ==
  ASSUME Shape, Goods, Grow, \A v \in Workers : Same(v), UNCHANGED <<status, granted, invoice, hook>>
  PROVE  Goods'
<1>1. \A v \in Workers : Place(v)'
  BY SamePlace DEF Goods
<1> QED BY <1>1, SameGoods DEF Goods

LEMMA GoodsStep == ASSUME Shape, Goods, [Next]_vars PROVE Goods'
<1>1. Grow
  BY GrowStep
<1>2. CASE UNCHANGED vars
  <2>1. \A v \in Workers : Same(v)
    BY <1>2 DEF vars, locals, Same
  <2> QED BY <1>1, <1>2, <2>1, QuietGoods DEF vars, intents, goods, invoices, hooks
<1>3. CASE \/ \E i \in Intents : Captured(i) \/ \E kind \in Preludes : Prelude(i, kind)
           \/ \E r \in Refunds : RefundAtProvider(r) \/ \E s \in {"processed", "failed"} : RefundOutcome(r, s)
           \/ \E e \in Events : Overdue(e)
  <2>1. \A v \in Workers : Same(v)
    BY <1>3, ProviderShape
  <2>2. UNCHANGED <<status, granted, invoice, hook>>
    BY <1>3 DEF Captured, Prelude, RefundAtProvider, RefundOutcome, Overdue, ProviderUnchanged, intents,
       goods, invoices, hooks
  <2> QED BY <1>1, <2>1, <2>2, QuietGoods
<1>4. CASE \E w \in Workers : \/ \E e \in Events : Deliver(w, e)
                              \/ \E i \in Intents, kind \in Requests : Ask(w, kind, i)
                              \/ \E r \in Refunds : RequestRefund(w, r)
                              \/ Fetch(w) \/ AskProvider(w)
  BY <1>1, <1>4, DeliverShape, AskShape, RequestShape, FetchShape, AskProviderShape, StartGoods
<1>5. CASE \E w \in Workers : Mark(w) \/ Fulfill(w)
  BY <1>1, <1>5, MarkShape, FulfillShape, MarkGoods, FulfillGoods
<1>6. CASE \E w \in Workers : RecordRefund(w) \/ TakeBackCredits(w) \/ SumRefunds(w) \/ SettleIntent(w) \/ StampInvoice(w)
  BY <1>1, <1>6, RefundingShape, RefundingGoods
<1>7. CASE \E w \in Workers : Complete(w) \/ FailHook(w) \/ GiveUp(w) \/ Fail(w) \/ Crash(w)
  BY <1>1, <1>7, CompleteShape, ThrowShape, CompleteGoods, EndGoods
<1> QED BY <1>2, <1>3, <1>4, <1>5, <1>6, <1>7 DEF Next, Work, Refunding

LEMMA GoodsInit == Init => Goods
<1>1. Init => Payments /\ InvoicedIsFulfilled /\ CompletedMeansDone
  BY DEF Init, Payments, InvoicedIsFulfilled, CompletedMeansDone
<1>2. Init => \A w \in Workers : Place(w)
  BY DEF Init, Place, OnPayment, OnRefunding, Fulfilling, Held
<1> QED BY <1>1, <1>2 DEF Goods

-----------------------------------------------------------------------------
(* Claims.                                                                   *)

Claimed ==
  \A w \in Workers :
    at[w] # "idle" /\ IsHook(w) /\ EventOf(w) \notin tookOver => hook[EventOf(w)] = "processing"

Claims == Claimed /\ ClaimIsExclusive

\* A process keeps its claim while nobody else completes or takes over its event.
LEMMA SameClaims ==
  ASSUME Shape, Claims, NEW w \in Workers, Only(w), UNCHANGED <<hook, tookOver>>,
         at'[w] = "idle" \/ (job'[w] = job[w] /\ at[w] # "idle") \/ ~IsHook(w)'
  PROVE  Claims'
<1>1. \A v \in Workers : v # w => /\ at'[v] = at[v] /\ job'[v] = job[v]
                                  /\ IsHook(v)' = IsHook(v) /\ EventOf(v)' = EventOf(v)
  BY SameJob DEF Only, Same
<1>2. at'[w] # "idle" /\ IsHook(w)' =>
        at[w] # "idle" /\ job'[w] = job[w] /\ IsHook(w) /\ EventOf(w)' = EventOf(w)
  BY SameJob
<1>3. Claimed'
  BY <1>1, <1>2 DEF Claims, Claimed
<1>4. ClaimIsExclusive'
  <2> SUFFICES ASSUME NEW u \in Workers, NEW v \in Workers, u # v, at'[u] # "idle", at'[v] # "idle",
                      IsHook(u)', job'[u] = job'[v]
               PROVE  EventOf(u)' \in tookOver
    BY DEF ClaimIsExclusive
  <2>1. IsHook(v)'
    BY DEF IsHook
  <2>2. /\ at[u] # "idle" /\ at[v] # "idle" /\ IsHook(u) /\ job[u] = job[v] /\ EventOf(u)' = EventOf(u)
    BY <1>1, <1>2, <2>1
  <2> QED BY <2>2 DEF Claims, ClaimIsExclusive
<1> QED BY <1>3, <1>4 DEF Claims

\* Whoever claims an event is alone with it, or takes it over.
LEMMA DeliverClaims ==
  ASSUME Shape, Claims, NEW w \in Workers, NEW e \in Events, Deliver(w, e), Only(w) PROVE Claims'
<1> USE DEF Shape
<1>1. CASE ~MayClaim(e)
  <2>1. UNCHANGED <<hook, tookOver, job, at>>
    BY <1>1 DEF Deliver, hooks
  <2> QED BY <2>1 DEF Claims, Claimed, ClaimIsExclusive, IsHook, EventOf
<1>2. CASE MayClaim(e)
  <2>1. /\ job'[w] = <<"webhook", e>> /\ IsHook(w)' /\ EventOf(w)' = e /\ at[w] = "idle"
        /\ hook' = [hook EXCEPT ![e] = "processing"]
        /\ tookOver \subseteq tookOver' /\ (hook[e] = "processing" => e \in tookOver')
    BY <1>2 DEF Deliver, MayClaim, Types, IsHook, EventOf
  <2>2. \A v \in Workers : v # w => /\ at'[v] = at[v] /\ job'[v] = job[v]
                                    /\ IsHook(v)' = IsHook(v) /\ EventOf(v)' = EventOf(v)
    BY SameJob DEF Only, Same
  <2>3. Claimed'
    <3> SUFFICES ASSUME NEW v \in Workers, at'[v] # "idle", IsHook(v)', EventOf(v)' \notin tookOver'
                 PROVE  hook'[EventOf(v)'] = "processing"
      BY DEF Claimed
    <3>1. CASE v = w
      BY <2>1, <3>1 DEF Types
    <3>2. CASE v # w
      <4>1. hook[EventOf(v)] = "processing" /\ EventOf(v)' = EventOf(v)
        BY <2>1, <2>2, <3>2 DEF Claims, Claimed
      <4> QED BY <2>1, <4>1 DEF Types
    <3> QED BY <3>1, <3>2
  <2>4. \A v \in Workers : v # w /\ at[v] # "idle" /\ job[v] = <<"webhook", e>> => e \in tookOver'
    <3> SUFFICES ASSUME NEW v \in Workers, at[v] # "idle", job[v] = <<"webhook", e>>, e \notin tookOver
                 PROVE  hook[e] = "processing"
      BY <2>1
    <3>1. IsHook(v) /\ EventOf(v) = e
      BY DEF IsHook, EventOf
    <3> QED BY <3>1 DEF Claims, Claimed
  <2>5. ClaimIsExclusive'
    <3> SUFFICES ASSUME NEW u \in Workers, NEW v \in Workers, u # v, at'[u] # "idle", at'[v] # "idle",
                        IsHook(u)', job'[u] = job'[v]
                 PROVE  EventOf(u)' \in tookOver'
      BY DEF ClaimIsExclusive
    <3>1. CASE u = w \/ v = w
      <4>1. EventOf(u)' = e
        BY <2>1, <3>1 DEF EventOf
      <4> QED BY <2>1, <2>2, <2>4, <3>1, <4>1
    <3>2. CASE u # w /\ v # w
      BY <2>1, <2>2, <3>2 DEF Claims, ClaimIsExclusive
    <3> QED BY <3>1, <3>2
  <2> QED BY <2>3, <2>5 DEF Claims
<1> QED BY <1>1, <1>2

\* An event is completed or failed by the process that has it.
LEMMA EndClaims ==
  ASSUME Shape, Claims, NEW w \in Workers, Only(w), Complete(w) \/ FailHook(w), at'[w] = "idle"
  PROVE  Claims'
<1> USE DEF Shape
<1>1. /\ tookOver' = tookOver /\ at[w] # "idle"
      /\ \/ hook' = hook
         \/ \E s \in {"completed", "failed"} : IsHook(w) /\ hook' = [hook EXCEPT ![EventOf(w)] = s]
  <2>1. at[w] = "failing" => IsHook(w)
    BY DEF Works, IsHook
  <2>2. CASE Complete(w)
    BY <2>2 DEF Complete, EndUnchanged
  <2>3. CASE FailHook(w)
    BY <2>1, <2>3 DEF FailHook, EndUnchanged
  <2> QED BY <2>2, <2>3
<1>2. \A v \in Workers : v # w => /\ at'[v] = at[v] /\ job'[v] = job[v]
                                  /\ IsHook(v)' = IsHook(v) /\ EventOf(v)' = EventOf(v)
  BY SameJob DEF Only, Same
<1>3. Claimed'
  <2> SUFFICES ASSUME NEW v \in Workers, at'[v] # "idle", IsHook(v)', EventOf(v)' \notin tookOver
               PROVE  hook'[EventOf(v)'] = "processing"
    BY <1>1 DEF Claimed
  <2>1. v # w /\ IsHook(v) /\ at[v] # "idle" /\ EventOf(v)' = EventOf(v) /\ hook[EventOf(v)] = "processing"
    BY <1>2 DEF Claims, Claimed
  <2>2. IsHook(w) => EventOf(w) # EventOf(v)
    <3> SUFFICES ASSUME IsHook(w), EventOf(w) = EventOf(v) PROVE FALSE
      OBVIOUS
    <3>1. job[w] = job[v]
      <4>1. \A u \in Workers : IsHook(u) => job[u] \in {"webhook"} \X Events
        BY DEF IsHook, Types, Jobs
      <4>2. \A u \in Workers : IsHook(u) => job[u] = <<"webhook", EventOf(u)>>
        BY <4>1 DEF EventOf
      <4> QED BY <2>1, <4>2
    <3> QED BY <1>1, <2>1, <3>1 DEF Claims, ClaimIsExclusive
  <2>3. EventOf(v) \in Events
    BY <2>1 DEF IsHook, EventOf, Types, Jobs
  <2>4. hook'[EventOf(v)] = hook[EventOf(v)]
    BY <1>1, <2>2, <2>3 DEF Types
  <2> QED BY <2>1, <2>4
<1>4. ClaimIsExclusive'
  <2> SUFFICES ASSUME NEW u \in Workers, NEW v \in Workers, u # v, at'[u] # "idle", at'[v] # "idle",
                      IsHook(u)', job'[u] = job'[v]
               PROVE  EventOf(u)' \in tookOver
    BY <1>1 DEF ClaimIsExclusive
  <2> QED BY <1>2 DEF Claims, ClaimIsExclusive
<1> QED BY <1>3, <1>4 DEF Claims

LEMMA ClaimsStep == ASSUME Shape, Claims, [Next]_vars PROVE Claims'
<1> USE DEF hooks
<1>1. CASE \/ UNCHANGED vars
           \/ \E i \in Intents : Captured(i) \/ \E kind \in Preludes : Prelude(i, kind)
           \/ \E r \in Refunds : RefundAtProvider(r) \/ \E s \in {"processed", "failed"} : RefundOutcome(r, s)
           \/ \E e \in Events : Overdue(e)
  <2>1. UNCHANGED <<hook, tookOver, job, at>>
    BY <1>1 DEF vars, ProviderUnchanged, Captured, Prelude, RefundAtProvider, RefundOutcome, Overdue
  <2> QED BY <2>1 DEF Claims, Claimed, ClaimIsExclusive, IsHook, EventOf
<1>2. ASSUME NEW w \in Workers, NEW e \in Events, Deliver(w, e) PROVE Claims'
  BY <1>2, DeliverShape, DeliverClaims
<1>3. ASSUME NEW w \in Workers, NEW i \in Intents, NEW kind \in Requests, Ask(w, kind, i) PROVE Claims'
  <2>1. ~IsHook(w)' /\ UNCHANGED <<hook, tookOver>>
    BY <1>3 DEF Ask, IsHook, Shape, Types
  <2> QED BY <1>3, <2>1, AskShape, SameClaims
<1>4. ASSUME NEW w \in Workers, NEW r \in Refunds, RequestRefund(w, r) PROVE Claims'
  <2>1. ~IsHook(w)' /\ UNCHANGED <<hook, tookOver>>
    BY <1>4 DEF RequestRefund, RefundUnchanged, IsHook, Shape, Types
  <2> QED BY <1>4, <2>1, RequestShape, SameClaims
<1>5. ASSUME NEW w \in Workers, Fetch(w) \/ AskProvider(w) PROVE Claims'
  <2>1. /\ UNCHANGED <<hook, tookOver>> /\ at[w] # "idle"
        /\ job'[w] = job[w] \/ at'[w] = "idle"
    BY <1>5 DEF Fetch, AskProvider, RefundUnchanged, Leave, Goto, Shape, Types
  <2> QED BY <1>5, <2>1, FetchShape, AskProviderShape, SameClaims
<1>6. ASSUME NEW w \in Workers, Mark(w) \/ Fulfill(w) PROVE Claims'
  <2>1. UNCHANGED <<hook, tookOver>> /\ at[w] # "idle" /\ job'[w] = job[w]
    BY <1>6 DEF Mark, Fulfill, TakeLock, FindInvoice, ApplyPlan, GrantCredits, ConvertReferral,
       CreateInvoice, MarkPaid, Step, FulfillUnchanged
  <2> QED BY <1>6, <2>1, MarkShape, FulfillShape, SameClaims
<1>7. ASSUME NEW w \in Workers,
             RecordRefund(w) \/ TakeBackCredits(w) \/ SumRefunds(w) \/ SettleIntent(w) \/ StampInvoice(w)
      PROVE Claims'
  <2>1. UNCHANGED <<hook, tookOver>> /\ at[w] # "idle" /\ job'[w] = job[w]
    BY <1>7 DEF RecordRefund, TakeBackCredits, SumRefunds, SettleIntent, StampInvoice, Step, RefundUnchanged
  <2> QED BY <1>7, <2>1, RefundingShape, SameClaims
<1>8. ASSUME NEW w \in Workers, Complete(w) \/ FailHook(w) PROVE Claims'
  BY <1>8, CompleteShape, EndClaims
<1>9. ASSUME NEW w \in Workers, GiveUp(w) \/ Fail(w) \/ Crash(w) PROVE Claims'
  <2>1. /\ UNCHANGED <<hook, tookOver>> /\ at[w] # "idle"
        /\ job'[w] = job[w] \/ at'[w] = "idle"
    BY <1>9 DEF GiveUp, CannotGoOn, Fail, Crash, Throw, EndUnchanged, Leave, Goto, Shape, Types
  <2> QED BY <1>9, <2>1, ThrowShape, CompleteShape, SameClaims
<1> QED BY <1>1, <1>2, <1>3, <1>4, <1>5, <1>6, <1>7, <1>8, <1>9 DEF Next, Work, Refunding

LEMMA ClaimsInit == Init => Claims
BY DEF Init, Claims, Claimed, ClaimIsExclusive

-----------------------------------------------------------------------------
(* The lock of a payment, and top-ups, which have no key.                    *)

HasLock == \A w \in Workers : at[w] \in Held => lock[Subject(w)] = w

\* While nothing fails, a granted top-up has its invoice or a process about to write it.
Invoicing(i) == \E w \in Workers : at[w] = "invoice" /\ Subject(w) = i

ToppedUp ==
  failures = 0 =>
    /\ \A i \in Intents : topups[i] \in {0, 1} /\ (topups[i] = 1 => invoice[i] # 0 \/ Invoicing(i))
    /\ \A w \in Workers : at[w] = "grant" /\ Subject(w) \in Legacy => topups[Subject(w)] = 0

Locked == HasLock /\ ToppedUp

LEMMA LockedOnce == Locked => LegacyGrantedOnce
BY DEF Locked, ToppedUp, LegacyGrantedOnce

\* A step of a process that does not hold a lock after it, and keeps the locks of others.
LEMMA LeaveHasLock ==
  ASSUME Shape, HasLock, NEW w \in Workers, Only(w), at'[w] \notin Held,
         lock' = lock \/ lock' = LocksWithout(w)
  PROVE  HasLock'
<1> SUFFICES ASSUME NEW v \in Workers, at'[v] \in Held PROVE lock'[Subject(v)'] = v
  BY DEF HasLock
<1>1. v # w /\ at[v] \in Held /\ job'[v] = job[v] /\ Subject(v)' = Subject(v)
  BY SameJob DEF Only, Same
<1>2. Subject(v) \in Intents /\ lock[Subject(v)] = v
  BY <1>1, Subjects DEF HasLock, Shape, Works, Fulfilling
<1> QED BY <1>1, <1>2, LocksKeep DEF Shape

\* A step of a process that is under its lock before and after it.
LEMMA StayHasLock ==
  ASSUME Shape, HasLock, NEW w \in Workers, Only(w), at[w] \in Held, job'[w] = job[w], lock' = lock
  PROVE  HasLock'
<1> SUFFICES ASSUME NEW v \in Workers, at'[v] \in Held PROVE lock[Subject(v)'] = v
  BY DEF HasLock
<1>1. at[v] \in Held /\ Subject(v)' = Subject(v)
  BY SameJob DEF Only, Same
<1> QED BY <1>1 DEF HasLock

\* While top-ups, invoices and the processes about to write one stay.
LEMMA SameToppedUp ==
  ASSUME Shape, ToppedUp, NEW w \in Workers, Only(w), at[w] # "invoice", at'[w] # "grant",
         UNCHANGED <<topups, invoice>>, failures' = 0 => failures = 0
  PROVE  ToppedUp'
<1> SUFFICES ASSUME failures' = 0
             PROVE  /\ \A i \in Intents :
                         /\ topups'[i] \in {0, 1}
                         /\ topups'[i] = 1 => invoice'[i] # 0 \/ Invoicing(i)'
                    /\ \A v \in Workers : at'[v] = "grant" /\ Subject(v)' \in Legacy => topups'[Subject(v)'] = 0
  BY DEF ToppedUp
<1>1. \A v \in Workers : v # w => at'[v] = at[v] /\ Subject(v)' = Subject(v)
  BY SameJob DEF Only, Same
<1>2. \A i \in Intents : Invoicing(i) => Invoicing(i)'
  BY <1>1 DEF Invoicing
<1> QED BY <1>1, <1>2 DEF ToppedUp

\* Two processes are not under the lock of one payment.
LEMMA LockExcludes ==
  ASSUME HasLock, NEW v \in Workers, NEW w \in Workers, at[v] \in Held, at[w] \in Held,
         Subject(v) = Subject(w)
  PROVE  v = w
BY DEF HasLock

LEMMA FulfillLocked ==
  ASSUME Shape, Goods, Grow, Locked, NEW w \in Workers, Only(w), Fulfill(w) PROVE Locked'
<1> USE DEF goods, invoices, FulfillUnchanged, Shape
<1> DEFINE i == Subject(w)
<1>1. at[w] \in Fulfilling /\ job'[w] = job[w] /\ Subject(w)' = i /\ failures' = failures /\ i \in Intents
  <2>1. at[w] \in Fulfilling /\ job'[w] = job[w] /\ failures' = failures
    BY DEF Fulfill, TakeLock, FindInvoice, ApplyPlan, GrantCredits, ConvertReferral, CreateInvoice,
           MarkPaid, Step, Fulfilling, Held
  <2> QED BY <2>1, Subjects, SameJob DEF Works
<1>2. \A v \in Workers : v # w => at'[v] = at[v] /\ Subject(v)' = Subject(v)
  BY SameJob DEF Only, Same
<1>3. CASE TakeLock(w)
  <2>1. /\ at[w] = "lock" /\ at'[w] = "find" /\ lock[i] = Nobody /\ lock' = [lock EXCEPT ![i] = w]
        /\ UNCHANGED <<topups, invoice>>
    BY <1>3 DEF TakeLock, Step, Goto, Types
  <2>2. HasLock'
    <3> SUFFICES ASSUME NEW v \in Workers, at'[v] \in Held PROVE lock'[Subject(v)'] = v
      BY DEF HasLock
    <3>1. CASE v = w
      BY <1>1, <2>1, <3>1 DEF Types
    <3>2. CASE v # w
      <4>1. Subject(v)' = Subject(v) /\ at[v] \in Held
        BY <1>2, <3>2
      <4>2. Subject(v) \in Intents
        BY <4>1, Subjects DEF Works, Fulfilling
      <4>3. lock[Subject(v)] = v
        BY <4>1 DEF Locked, HasLock
      <4> QED BY <2>1, <4>1, <4>2, <4>3 DEF Types
    <3> QED BY <3>1, <3>2
  <2>3. ToppedUp'
    BY <1>1, <2>1, SameToppedUp DEF Locked
  <2> QED BY <2>2, <2>3 DEF Locked
<1>4. CASE FindInvoice(w)
  <2>1. /\ at[w] = "find" /\ lock' = lock /\ UNCHANGED <<topups, invoice>>
        /\ at'[w] = IF invoice[i] # 0 THEN "paid" ELSE IF i \in Legacy THEN "grant" ELSE "plan"
    BY <1>4 DEF FindInvoice, Step, Goto, Types
  <2>2. HasLock'
    BY <1>1, <2>1, StayHasLock DEF Locked, Held
  <2>3. ToppedUp'
    <3> SUFFICES ASSUME failures = 0
                 PROVE  /\ \A k \in Intents :
                             /\ topups[k] \in {0, 1}
                             /\ topups[k] = 1 => invoice[k] # 0 \/ Invoicing(k)'
                        /\ \A v \in Workers : at'[v] = "grant" /\ Subject(v)' \in Legacy => topups[Subject(v)'] = 0
      BY <1>1, <2>1 DEF ToppedUp
    <3>1. \A k \in Intents : Invoicing(k) => Invoicing(k)'
      BY <1>2, <2>1 DEF Invoicing
    <3>2. at'[w] = "grant" => topups[i] = 0
      <4> SUFFICES ASSUME at'[w] = "grant", topups[i] = 1 PROVE FALSE
        BY <1>1 DEF Locked, ToppedUp
      <4>1. invoice[i] = 0
        BY <2>1
      <4>2. PICK v \in Workers : at[v] = "invoice" /\ Subject(v) = i
        BY <1>1, <4>1 DEF Locked, ToppedUp, Invoicing
      <4> QED BY <2>1, <4>2, LockExcludes DEF Locked, Held
    <3> QED BY <1>1, <1>2, <3>1, <3>2 DEF Locked, ToppedUp
  <2> QED BY <2>2, <2>3 DEF Locked
<1>5. CASE ApplyPlan(w) \/ ConvertReferral(w)
  <2>1. /\ at[w] \in {"plan", "refer"} /\ lock' = lock /\ UNCHANGED <<topups, invoice>>
        /\ i \notin Legacy
    BY <1>5 DEF ApplyPlan, ConvertReferral, Step, Goods, Place, OnPayment
  <2>2. HasLock'
    BY <1>1, <2>1, StayHasLock DEF Locked, Held
  <2>3. ToppedUp'
    <3> SUFFICES ASSUME failures = 0
                 PROVE  /\ \A k \in Intents :
                             /\ topups[k] \in {0, 1}
                             /\ topups[k] = 1 => invoice[k] # 0 \/ Invoicing(k)'
                        /\ \A v \in Workers : at'[v] = "grant" /\ Subject(v)' \in Legacy => topups[Subject(v)'] = 0
      BY <1>1, <2>1 DEF ToppedUp
    <3>1. \A k \in Intents : Invoicing(k) => Invoicing(k)'
      BY <1>2, <2>1 DEF Invoicing
    <3> QED BY <1>1, <1>2, <2>1, <3>1 DEF Locked, ToppedUp
  <2> QED BY <2>2, <2>3 DEF Locked
<1>6. CASE GrantCredits(w)
  <2>1. /\ at[w] = "grant" /\ lock' = lock /\ invoice' = invoice
        /\ at'[w] = IF i \in Legacy THEN "invoice" ELSE "refer"
        /\ topups' = IF i \in Legacy THEN [topups EXCEPT ![i] = @ + 1] ELSE topups
    BY <1>6 DEF GrantCredits, Step, Goto, Types
  <2>2. HasLock'
    BY <1>1, <2>1, StayHasLock DEF Locked, Held
  <2>3. ToppedUp'
    <3> SUFFICES ASSUME failures = 0
                 PROVE  /\ \A k \in Intents :
                             /\ topups'[k] \in {0, 1}
                             /\ topups'[k] = 1 => invoice[k] # 0 \/ Invoicing(k)'
                        /\ \A v \in Workers : at'[v] = "grant" /\ Subject(v)' \in Legacy => topups'[Subject(v)'] = 0
      BY <1>1, <2>1 DEF ToppedUp
    <3>1. \A k \in Intents : Invoicing(k) => Invoicing(k)'
      BY <1>2, <2>1 DEF Invoicing
    <3>2. i \in Legacy => topups[i] = 0 /\ Invoicing(i)'
      BY <1>1, <2>1 DEF Locked, ToppedUp, Invoicing
    <3>3. \A k \in Intents : /\ topups'[k] \in {0, 1}
                             /\ topups'[k] = 1 => invoice[k] # 0 \/ Invoicing(k)'
      BY <1>1, <2>1, <3>1, <3>2 DEF Locked, ToppedUp, Types
    <3>4. ASSUME NEW v \in Workers, at'[v] = "grant", Subject(v)' \in Legacy
          PROVE  topups'[Subject(v)'] = 0
      <4>1. v # w /\ at[v] = "grant" /\ Subject(v)' = Subject(v)
        BY <1>2, <2>1, <3>4
      <4>2. Subject(v) # i
        BY <2>1, <4>1, LockExcludes DEF Locked, Held
      <4>3. topups[Subject(v)] = 0 /\ Subject(v) \in Intents
        BY <3>4, <4>1 DEF Locked, ToppedUp
      <4> QED BY <2>1, <4>1, <4>2, <4>3 DEF Types
    <3> QED BY <3>3, <3>4
  <2> QED BY <2>2, <2>3 DEF Locked
<1>7. CASE CreateInvoice(w)
  <2>1. /\ at[w] = "invoice" /\ at'[w] = "paid" /\ lock' = lock /\ topups' = topups /\ invoice'[i] # 0
    BY <1>1, <1>7 DEF CreateInvoice, Step, Goto, Types
  <2>2. HasLock'
    BY <1>1, <2>1, StayHasLock DEF Locked, Held
  <2>3. ToppedUp'
    <3> SUFFICES ASSUME failures = 0
                 PROVE  /\ \A k \in Intents :
                             /\ topups[k] \in {0, 1}
                             /\ topups[k] = 1 => invoice'[k] # 0 \/ Invoicing(k)'
                        /\ \A v \in Workers : at'[v] = "grant" /\ Subject(v)' \in Legacy => topups[Subject(v)'] = 0
      BY <1>1, <2>1 DEF ToppedUp
    <3>1. \A k \in Intents : k # i /\ Invoicing(k) => Invoicing(k)'
      BY <1>2 DEF Invoicing
    <3>2. \A k \in Intents : invoice[k] # 0 => invoice'[k] # 0
      BY DEF Grow
    <3> QED BY <1>1, <1>2, <2>1, <3>1, <3>2 DEF Locked, ToppedUp
  <2> QED BY <2>2, <2>3 DEF Locked
<1>8. CASE MarkPaid(w)
  <2>1. at[w] = "paid" /\ at'[w] = "complete" /\ lock' = LocksWithout(w) /\ UNCHANGED <<topups, invoice>>
    BY <1>8 DEF MarkPaid, Step, Goto, Types
  <2>2. HasLock'
    BY <2>1, LeaveHasLock DEF Locked, Held
  <2>3. ToppedUp'
    BY <1>1, <2>1, SameToppedUp DEF Locked
  <2> QED BY <2>2, <2>3 DEF Locked
<1> QED BY <1>3, <1>4, <1>5, <1>6, <1>7, <1>8 DEF Fulfill

\* Steps outside the lock.
LEMMA OutsideLocked ==
  ASSUME Shape, Locked, NEW w \in Workers, Only(w), at'[w] \notin Held, at[w] # "invoice",
         lock' = lock \/ lock' = LocksWithout(w), UNCHANGED <<topups, invoice, failures>>
  PROVE  Locked'
<1>1. HasLock'
  BY LeaveHasLock DEF Locked
<1>2. ToppedUp'
  BY SameToppedUp DEF Locked, Held
<1> QED BY <1>1, <1>2 DEF Locked

\* A failure: nothing is said of top-ups any more.
LEMMA FailLocked ==
  ASSUME Shape, Locked, NEW w \in Workers, Only(w), at'[w] \notin Held, lock' = LocksWithout(w),
         failures' # 0
  PROVE  Locked'
BY LeaveHasLock DEF Locked, ToppedUp

LEMMA LockedStep == ASSUME Shape, Goods, Locked, [Next]_vars PROVE Locked'
<1> USE DEF goods, invoices
<1>1. CASE \/ UNCHANGED vars
           \/ \E i \in Intents : Captured(i) \/ \E kind \in Preludes : Prelude(i, kind)
           \/ \E r \in Refunds : RefundAtProvider(r) \/ \E s \in {"processed", "failed"} : RefundOutcome(r, s)
           \/ \E e \in Events : Overdue(e)
  <2>1. UNCHANGED <<lock, topups, invoice, failures, job, at>>
    BY <1>1 DEF vars, ProviderUnchanged, Captured, Prelude, RefundAtProvider, RefundOutcome, Overdue
  <2>2. \A v \in Workers : Subject(v)' = Subject(v)
    BY <2>1, SameJob
  <2> QED BY <2>1, <2>2 DEF Locked, HasLock, ToppedUp, Invoicing
<1>2. ASSUME NEW w \in Workers,
             \/ \E e \in Events : Deliver(w, e)
             \/ \E i \in Intents, kind \in Requests : Ask(w, kind, i)
             \/ \E r \in Refunds : RequestRefund(w, r)
             \/ Fetch(w) \/ AskProvider(w) \/ Mark(w)
      PROVE Locked'
  <2>1. Only(w)
    BY <1>2, DeliverShape, AskShape, RequestShape, FetchShape, AskProviderShape, MarkShape
  <2>2. at'[w] \notin Held /\ at[w] # "invoice"
    BY <1>2 DEF Deliver, Ask, RequestRefund, Fetch, AskProvider, Mark, Leave, Goto, Held, Shape, Types
  <2>3. UNCHANGED <<lock, topups, invoice, failures>>
    BY <1>2 DEF Deliver, Ask, RequestRefund, Fetch, AskProvider, Mark, RefundUnchanged
  <2> QED BY <2>1, <2>2, <2>3, OutsideLocked
<1>3. ASSUME NEW w \in Workers, Fulfill(w) PROVE Locked'
  BY <1>3, FulfillShape, GrowStep, FulfillLocked
<1>4. ASSUME NEW w \in Workers,
             RecordRefund(w) \/ TakeBackCredits(w) \/ SumRefunds(w) \/ SettleIntent(w) \/ StampInvoice(w)
      PROVE Locked'
  <2>1. Only(w)
    BY <1>4, RefundingShape
  <2>2. at'[w] \notin Held /\ at[w] # "invoice"
    BY <1>4 DEF RecordRefund, TakeBackCredits, SumRefunds, SettleIntent, StampInvoice, Step, Goto, Held, Shape, Types
  <2>3. UNCHANGED <<lock, topups, invoice, failures>>
    BY <1>4 DEF RecordRefund, TakeBackCredits, SumRefunds, SettleIntent, StampInvoice, RefundUnchanged
  <2> QED BY <2>1, <2>2, <2>3, OutsideLocked
<1>5. ASSUME NEW w \in Workers, Complete(w) \/ FailHook(w) \/ GiveUp(w) PROVE Locked'
  <2>1. Only(w) /\ at'[w] \notin Held
    BY <1>5, CompleteShape, ThrowShape DEF Held
  <2>2. /\ at[w] # "invoice" /\ UNCHANGED <<topups, invoice, failures>>
        /\ lock' = lock \/ lock' = LocksWithout(w)
    BY <1>5 DEF Complete, FailHook, GiveUp, CannotGoOn, Throw, EndUnchanged
  <2> QED BY <2>1, <2>2, OutsideLocked
<1>6. ASSUME NEW w \in Workers, Fail(w) \/ Crash(w) PROVE Locked'
  <2>1. Only(w) /\ at'[w] \notin Held
    BY <1>6, CompleteShape, ThrowShape DEF Held
  <2>2. lock' = LocksWithout(w) /\ failures' # 0
    BY <1>6 DEF Fail, Crash, Throw, Shape, Types
  <2> QED BY <2>1, <2>2, FailLocked
<1> QED BY <1>1, <1>2, <1>3, <1>4, <1>5, <1>6 DEF Next, Work, Refunding

LEMMA LockedInit == Init => Locked
BY DEF Init, Locked, HasLock, ToppedUp, Held

-----------------------------------------------------------------------------
(* Invoice numbers.                                                          *)

Invoiced == {i \in Intents : invoice[i] # 0}

Numbered ==
  /\ IsFiniteSet(Invoiced)
  /\ {invoice[i] : i \in Invoiced} = 1 .. lastNumber
  /\ Cardinality(Invoiced) = lastNumber

LEMMA NumberedNoGap == Numbered <=> IsFiniteSet(Invoiced) /\ InvoiceNumbersHaveNoGap
BY DEF Numbered, InvoiceNumbersHaveNoGap, Invoiced

LEMMA NumberedInit == Init => Numbered
<1> SUFFICES ASSUME Init PROVE Numbered
  OBVIOUS
<1>1. Invoiced = {}
  BY DEF Init, Invoiced
<1>2. lastNumber = 0 /\ {invoice[i] : i \in Invoiced} = {}
  BY <1>1 DEF Init
<1>3. 1 .. 0 = {}
  OBVIOUS
<1> QED BY <1>1, <1>2, <1>3, FS_EmptySet DEF Numbered

LEMMA CreateNumbered ==
  ASSUME Shape, Numbered, NEW w \in Workers, CreateInvoice(w) PROVE Numbered'
<1> USE DEF Shape
<1> DEFINE i == Subject(w)
<1>1. i \in Intents
  BY Subjects DEF CreateInvoice, Step, Works, Fulfilling, Held
<1>2. CASE invoice[i] # 0
  <2>1. UNCHANGED <<invoice, lastNumber>>
    BY <1>2 DEF CreateInvoice, invoices
  <2> QED BY <2>1 DEF Numbered, Invoiced
<1>3. CASE invoice[i] = 0
  <2>1. lastNumber' = lastNumber + 1 /\ invoice' = [invoice EXCEPT ![i] = lastNumber + 1]
    BY <1>3 DEF CreateInvoice
  <2>2. /\ Invoiced' = Invoiced \cup {i} /\ i \notin Invoiced
        /\ invoice'[i] = lastNumber + 1 /\ \A k \in Invoiced : invoice'[k] = invoice[k]
    BY <1>1, <1>3, <2>1 DEF Invoiced, Types
  <2>3. IsFiniteSet(Invoiced') /\ Cardinality(Invoiced') = lastNumber + 1
    BY <2>2, FS_AddElement DEF Numbered
  <2>4. {invoice'[k] : k \in Invoiced'} = {invoice[k] : k \in Invoiced} \cup {lastNumber + 1}
    BY <2>2
  <2>5. 1 .. (lastNumber + 1) = (1 .. lastNumber) \cup {lastNumber + 1}
    BY DEF Types
  <2> QED BY <2>1, <2>3, <2>4, <2>5 DEF Numbered
<1> QED BY <1>2, <1>3

LEMMA NumberedStep == ASSUME Shape, Numbered, [Next]_vars PROVE Numbered'
<1> USE DEF invoices
<1>1. ASSUME NEW w \in Workers, CreateInvoice(w) PROVE Numbered'
  BY <1>1, CreateNumbered
<1>2. CASE UNCHANGED <<invoice, lastNumber>>
  BY <1>2 DEF Numbered, Invoiced
<1>3. CASE \/ UNCHANGED vars
           \/ \E i \in Intents : Captured(i) \/ \E kind \in Preludes : Prelude(i, kind)
           \/ \E r \in Refunds : RefundAtProvider(r) \/ \E s \in {"processed", "failed"} : RefundOutcome(r, s)
           \/ \E e \in Events : Overdue(e)
  BY <1>2, <1>3 DEF vars, ProviderUnchanged, Captured, Prelude, RefundAtProvider, RefundOutcome, Overdue
<1>4. ASSUME NEW w \in Workers,
             \/ \E e \in Events : Deliver(w, e)
             \/ \E i \in Intents, kind \in Requests : Ask(w, kind, i)
             \/ \E r \in Refunds : RequestRefund(w, r)
             \/ Fetch(w) \/ Mark(w)
      PROVE Numbered'
  BY <1>2, <1>4 DEF Deliver, Ask, RequestRefund, Fetch, Mark, RefundUnchanged
<1>5. ASSUME NEW w \in Workers, Fulfill(w), ~CreateInvoice(w) PROVE Numbered'
  BY <1>2, <1>5 DEF Fulfill, TakeLock, FindInvoice, ApplyPlan, GrantCredits, ConvertReferral, MarkPaid
<1>6. ASSUME NEW w \in Workers, Refunding(w) PROVE Numbered'
  BY <1>2, <1>6 DEF Refunding, AskProvider, RecordRefund, TakeBackCredits, SumRefunds, SettleIntent,
     StampInvoice, RefundUnchanged
<1>7. ASSUME NEW w \in Workers, Complete(w) \/ FailHook(w) \/ GiveUp(w) \/ Fail(w) \/ Crash(w)
      PROVE Numbered'
  BY <1>2, <1>7 DEF Complete, FailHook, GiveUp, Fail, Crash, Throw, EndUnchanged
<1> QED BY <1>1, <1>3, <1>4, <1>5, <1>6, <1>7 DEF Next, Work

-----------------------------------------------------------------------------
(* The theorems.                                                             *)

Inv == Shape /\ Goods /\ Claims /\ Locked /\ Numbered

LEMMA InvInit == Init => Inv
BY ShapeInit, GoodsInit, ClaimsInit, LockedInit, NumberedInit DEF Inv

LEMMA InvStep == Inv /\ [Next]_vars => Inv'
BY ShapeStep, GoodsStep, ClaimsStep, LockedStep, NumberedStep DEF Inv

LEMMA InvHolds == Spec => []Inv
BY InvInit, InvStep, PTL DEF Spec

\* Whatever is retried, raced or thrown, a payment with an invoice has everything that
\* fulfillOnceLocked does before it: a later report that finds the invoice may stop there.
THEOREM InvoiceIsLast == Spec => []InvoicedIsFulfilled
<1>1. Inv => InvoicedIsFulfilled
  BY DEF Inv, Goods
<1> QED BY <1>1, InvHolds, PTL

\* A completed event, which is never processed again, has done its work: the payment is
\* invoiced, the refund taken back.
THEOREM CompletionIsEarned == Spec => []CompletedMeansDone
<1>1. Inv => CompletedMeansDone
  BY DEF Inv, Goods
<1> QED BY <1>1, InvHolds, PTL

\* The row of an event keeps two processes from handling it at once, within the timeout.
THEOREM ClaimsHold == Spec => []ClaimIsExclusive
<1>1. Inv => ClaimIsExclusive
  BY DEF Inv, Claims
<1> QED BY <1>1, InvHolds, PTL

\* The named lock and the invoice keep a top-up, which has no key, from being granted twice.
THEOREM LockedTopUp == Spec => []LegacyGrantedOnce
<1>1. Inv => LegacyGrantedOnce
  BY LockedOnce DEF Inv
<1> QED BY <1>1, InvHolds, PTL

\* Invoices are numbered without a gap, for any number of payments.
THEOREM NumbersRun == Spec => []InvoiceNumbersHaveNoGap
<1>1. Inv => InvoiceNumbersHaveNoGap
  BY NumberedNoGap DEF Inv
<1> QED BY <1>1, InvHolds, PTL

\* No report that comes late takes a confirmation or a complete refund back.
THEOREM ReportsNeverRegress == Spec => ConfirmedStaysConfirmed
<1>1. Inv /\ [Next]_vars =>
        [\A i \in Intents : /\ Confirmed(status[i]) => Confirmed(status'[i])
                            /\ status[i] = "refunded" => status'[i] = "refunded"]_vars
  BY GrowStep DEF Inv, Grow, Firm, Final
<1> QED BY <1>1, InvHolds, PTL DEF Spec, ConfirmedStaysConfirmed

=============================================================================
