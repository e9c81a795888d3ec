--------------------------- MODULE ScanJobs_proofs ---------------------------
(***************************************************************************)
(* Scans of one project, for any number of server processes, runs, sockets *)
(* and mishaps.                                                            *)
(*                                                                         *)
(* HoldInv says who has the lease and what became of a run that lost it;   *)
(* it gives that a run at work has the lease and that an interrupted run   *)
(* stays so.  RecordInv says what the job in memory and the ledger know of *)
(* lost events and of the charge, from where the run is.  StreamInv says    *)
(* what a socket has got of the events of its job.                         *)
(***************************************************************************)
EXTENDS ScanJobs, SequenceTheorems, TLAPS

USE ScanAssumption

HoldType ==
  /\ lease \in Runs \cup {Nobody}
  /\ stage \in [Runs -> Stages]
  /\ old \in [Runs -> Runs \cup {Nobody}]
  /\ row \in [Runs -> {"none", "running", "interrupted"} \cup Outcomes]
  /\ status \in [Runs -> {"running"} \cup Outcomes]
  /\ stalled \subseteq Runs /\ sending \subseteq Runs /\ charged \subseteq Runs
  /\ lost \in [Runs -> SUBSET DOMAIN Sent]

Telling == {"working", "usage", "failing", "closing"}
Unled == {"none", "closing", "over", "gone"}   \* where a run needs no lease

\* A run that is past its lease, or has lost it.
Past(q) == q \in stalled \/ stage[q] \in {"closing", "over", "gone"}

HoldInv ==
  /\ \A r \in Runs : stage[r] \notin Unled /\ r \notin stalled => lease = r /\ ~expired
  /\ \A r \in sending : stage[r] \in Telling
  /\ lease \in Runs => stage[lease] # "none"
  /\ \A r \in Runs : stage[r] = "leased" /\ old[r] # Nobody => Past(old[r])
  /\ \A r \in Runs : row[r] = "interrupted" => Past(r)

RecordInv ==
  \A r \in Runs :
    /\ row[r] \in Outcomes => stage[r] \in {"releasing", "closing", "over", "gone"}
    /\ status[r] = "completed" =>
         stage[r] \in {"settling", "usage", "finishing", "releasing", "closing", "over"}
    /\ row[r] = "completed" \/ status[r] = "completed" => lost[r] \subseteq {"closing"}
    /\ r \in charged => stage[r] \notin {"none", "leased", "marked", "working", "settling"}
    /\ r \in charged /\ status[r] = "error" => "usage" \in lost[r]
    /\ r \in charged /\ row[r] = "error" => "usage" \in lost[r] \/ stage[r] = "gone"

Inv == HoldType /\ HoldInv /\ RecordInv

\* The places where a run sends an event.
LEMMA Tells ==
  /\ DOMAIN Sent = Telling /\ DOMAIN Raised = Telling
  /\ Sent["working"] = "working" /\ Sent["usage"] = "finishing"
  /\ Sent["failing"] = "finishing" /\ Sent["closing"] = "over"
  /\ Raised["working"] = "working" /\ Raised["usage"] = "failing"
  /\ Raised["failing"] = "finishing" /\ Raised["closing"] = "over"
BY DEF Sent, Raised, Telling

\* create takes a lease that is free or over: the run that had it is past it.
LEMMA StartKeeps == ASSUME Inv, NEW s \in Servers, NEW r \in Runs, Start(s, r) PROVE Inv'
<1> USE Tells DEF ledger, worker, stream
<1>1. HoldType'
  BY DEF Inv, Start, Takeable, HoldType, HoldInv, RecordInv, Past, Unled, Telling, Stages, Outcomes, To, Alive, Mishap
<1>2. HoldInv'
  BY <1>1 DEF Inv, Start, Takeable, HoldType, HoldInv, RecordInv, Past, Unled, Telling, Stages, Outcomes, To, Alive, Mishap
<1>3. RecordInv'
  BY <1>1 DEF Inv, Start, Takeable, HoldType, HoldInv, RecordInv, Past, Unled, Telling, Stages, Outcomes, To, Alive, Mishap
<1> QED BY <1>1, <1>2, <1>3 DEF Inv

\* The run whose lease was taken is called interrupted if its row still says running.
LEMMA MarkInterruptedKeeps == ASSUME Inv, NEW r \in Runs, MarkInterrupted(r) PROVE Inv'
<1> USE Tells DEF ledger, worker, stream
<1>1. HoldType'
  BY DEF Inv, MarkInterrupted, HoldType, HoldInv, RecordInv, Past, Unled, Telling, Stages, Outcomes, To, Alive, Mishap
<1>2. HoldInv'
  BY <1>1 DEF Inv, MarkInterrupted, HoldType, HoldInv, RecordInv, Past, Unled, Telling, Stages, Outcomes, To, Alive, Mishap
<1>3. RecordInv'
  BY <1>1 DEF Inv, MarkInterrupted, HoldType, HoldInv, RecordInv, Past, Unled, Telling, Stages, Outcomes, To, Alive, Mishap
<1> QED BY <1>1, <1>2, <1>3 DEF Inv

\* The row of the new run, and its job.
LEMMA InsertKeeps == ASSUME Inv, NEW r \in Runs, Insert(r) PROVE Inv'
<1> USE Tells DEF ledger, worker, stream
<1>1. HoldType'
  BY DEF Inv, Insert, HoldType, HoldInv, RecordInv, Past, Unled, Telling, Stages, Outcomes, To, Alive, Mishap
<1>2. HoldInv'
  BY <1>1 DEF Inv, Insert, HoldType, HoldInv, RecordInv, Past, Unled, Telling, Stages, Outcomes, To, Alive, Mishap
<1>3. RecordInv'
  BY <1>1 DEF Inv, Insert, HoldType, HoldInv, RecordInv, Past, Unled, Telling, Stages, Outcomes, To, Alive, Mishap
<1> QED BY <1>1, <1>2, <1>3 DEF Inv

\* A create that failed leaves a run that never works.
LEMMA CreateFailsKeeps == ASSUME Inv, NEW r \in Runs, CreateFails(r) PROVE Inv'
<1> USE Tells DEF ledger, worker, stream
<1>1. HoldType'
  BY DEF Inv, CreateFails, HoldType, HoldInv, RecordInv, Past, Unled, Telling, Stages, Outcomes, To, Alive, Mishap
<1>2. HoldInv'
  BY <1>1 DEF Inv, CreateFails, HoldType, HoldInv, RecordInv, Past, Unled, Telling, Stages, Outcomes, To, Alive, Mishap
<1>3. RecordInv'
  BY <1>1 DEF Inv, CreateFails, HoldType, HoldInv, RecordInv, Past, Unled, Telling, Stages, Outcomes, To, Alive, Mishap
<1> QED BY <1>1, <1>2, <1>3 DEF Inv

\* The insert of an event begins.
LEMMA PersistKeeps == ASSUME Inv, NEW r \in Runs, Persist(r) PROVE Inv'
<1> USE Tells DEF ledger, worker, stream
<1>1. HoldType'
  BY DEF Inv, Persist, HoldType, HoldInv, RecordInv, Past, Unled, Telling, Stages, Outcomes, To, Alive, Mishap
<1>2. HoldInv'
  BY <1>1 DEF Inv, Persist, HoldType, HoldInv, RecordInv, Past, Unled, Telling, Stages, Outcomes, To, Alive, Mishap
<1>3. RecordInv'
  BY <1>1 DEF Inv, Persist, HoldType, HoldInv, RecordInv, Past, Unled, Telling, Stages, Outcomes, To, Alive, Mishap
<1> QED BY <1>1, <1>2, <1>3 DEF Inv

\* An event is delivered, and the worker goes on.
LEMMA PublishKeeps == ASSUME Inv, NEW r \in Runs, Publish(r) PROVE Inv'
<1> USE Tells DEF ledger, worker, stream
<1>1. HoldType'
  BY DEF Inv, Publish, HoldType, HoldInv, RecordInv, Past, Unled, Telling, Stages, Outcomes, To, Alive, Mishap
<1>2. HoldInv'
  BY <1>1 DEF Inv, Publish, HoldType, HoldInv, RecordInv, Past, Unled, Telling, Stages, Outcomes, To, Alive, Mishap
<1>3. RecordInv'
  BY <1>1 DEF Inv, Publish, HoldType, HoldInv, RecordInv, Past, Unled, Telling, Stages, Outcomes, To, Alive, Mishap
<1> QED BY <1>1, <1>2, <1>3 DEF Inv

\* A lost event is remembered where it was lost.
LEMMA PersistFailsKeeps == ASSUME Inv, NEW r \in Runs, PersistFails(r) PROVE Inv'
<1> USE Tells DEF ledger, worker, stream
<1>1. HoldType'
  BY DEF Inv, PersistFails, HoldType, HoldInv, RecordInv, Past, Unled, Telling, Stages, Outcomes, To, Alive, Mishap
<1>2. HoldInv'
  BY <1>1 DEF Inv, PersistFails, HoldType, HoldInv, RecordInv, Past, Unled, Telling, Stages, Outcomes, To, Alive, Mishap
<1>3. RecordInv'
  BY <1>1 DEF Inv, PersistFails, HoldType, HoldInv, RecordInv, Past, Unled, Telling, Stages, Outcomes, To, Alive, Mishap
<1> QED BY <1>1, <1>2, <1>3 DEF Inv

\* The heartbeat extends the run's own lease.
LEMMA RenewKeeps == ASSUME Inv, NEW r \in Runs, Renew(r) PROVE Inv'
<1> USE Tells DEF ledger, worker, stream
<1>1. HoldType'
  BY DEF Inv, Renew, HoldType, HoldInv, RecordInv, Past, Unled, Telling, Stages, Outcomes, To, Alive, Mishap
<1>2. HoldInv'
  BY <1>1 DEF Inv, Renew, HoldType, HoldInv, RecordInv, Past, Unled, Telling, Stages, Outcomes, To, Alive, Mishap
<1>3. RecordInv'
  BY <1>1 DEF Inv, Renew, HoldType, HoldInv, RecordInv, Past, Unled, Telling, Stages, Outcomes, To, Alive, Mishap
<1> QED BY <1>1, <1>2, <1>3 DEF Inv

\* A run that fails has not been charged.
LEMMA WorkerFailsKeeps == ASSUME Inv, NEW r \in Runs, WorkerFails(r) PROVE Inv'
<1> USE Tells DEF ledger, worker, stream
<1>1. HoldType'
  BY DEF Inv, WorkerFails, HoldType, HoldInv, RecordInv, Past, Unled, Telling, Stages, Outcomes, To, Alive, Mishap
<1>2. HoldInv'
  BY <1>1 DEF Inv, WorkerFails, HoldType, HoldInv, RecordInv, Past, Unled, Telling, Stages, Outcomes, To, Alive, Mishap
<1>3. RecordInv'
  BY <1>1 DEF Inv, WorkerFails, HoldType, HoldInv, RecordInv, Past, Unled, Telling, Stages, Outcomes, To, Alive, Mishap
<1> QED BY <1>1, <1>2, <1>3 DEF Inv

\* A run that succeeds has lost no event so far.
LEMMA RunnerEndsKeeps == ASSUME Inv, NEW r \in Runs, RunnerEnds(r) PROVE Inv'
<1> USE Tells DEF ledger, worker, stream
<1>1. HoldType'
  BY DEF Inv, RunnerEnds, FinalSuccess, HoldType, HoldInv, RecordInv, Past, Unled, Telling, Stages, Outcomes, To, Alive, Mishap
<1>2. HoldInv'
  BY <1>1 DEF Inv, RunnerEnds, FinalSuccess, HoldType, HoldInv, RecordInv, Past, Unled, Telling, Stages, Outcomes, To, Alive, Mishap
<1>3. RecordInv'
  BY <1>1 DEF Inv, RunnerEnds, FinalSuccess, HoldType, HoldInv, RecordInv, Past, Unled, Telling, Stages, Outcomes, To, Alive, Mishap
<1> QED BY <1>1, <1>2, <1>3 DEF Inv

\* Only a success is charged.
LEMMA SettleKeeps == ASSUME Inv, NEW r \in Runs, Settle(r) PROVE Inv'
<1> USE Tells DEF ledger, worker, stream
<1>1. HoldType'
  BY DEF Inv, Settle, HoldType, HoldInv, RecordInv, Past, Unled, Telling, Stages, Outcomes, To, Alive, Mishap
<1>2. HoldInv'
  BY <1>1 DEF Inv, Settle, HoldType, HoldInv, RecordInv, Past, Unled, Telling, Stages, Outcomes, To, Alive, Mishap
<1>3. RecordInv'
  BY <1>1 DEF Inv, Settle, HoldType, HoldInv, RecordInv, Past, Unled, Telling, Stages, Outcomes, To, Alive, Mishap
<1> QED BY <1>1, <1>2, <1>3 DEF Inv

\* The ledger gets the status of the job.
LEMMA FinishRowKeeps == ASSUME Inv, NEW r \in Runs, FinishRow(r) PROVE Inv'
<1> USE Tells DEF ledger, worker, stream
<1>1. HoldType'
  BY DEF Inv, FinishRow, HoldType, HoldInv, RecordInv, Past, Unled, Telling, Stages, Outcomes, To, Alive, Mishap
<1>2. HoldInv'
  BY <1>1 DEF Inv, FinishRow, HoldType, HoldInv, RecordInv, Past, Unled, Telling, Stages, Outcomes, To, Alive, Mishap
<1>3. RecordInv'
  BY <1>1 DEF Inv, FinishRow, HoldType, HoldInv, RecordInv, Past, Unled, Telling, Stages, Outcomes, To, Alive, Mishap
<1> QED BY <1>1, <1>2, <1>3 DEF Inv

\* A run deletes its own lease and needs none any more.
LEMMA DeleteLeaseKeeps == ASSUME Inv, NEW r \in Runs, DeleteLease(r) PROVE Inv'
<1> USE Tells DEF ledger, worker, stream
<1>1. HoldType'
  BY DEF Inv, DeleteLease, HoldType, HoldInv, RecordInv, Past, Unled, Telling, Stages, Outcomes, To, Alive, Mishap
<1>2. HoldInv'
  BY <1>1 DEF Inv, DeleteLease, HoldType, HoldInv, RecordInv, Past, Unled, Telling, Stages, Outcomes, To, Alive, Mishap
<1>3. RecordInv'
  BY <1>1 DEF Inv, DeleteLease, HoldType, HoldInv, RecordInv, Past, Unled, Telling, Stages, Outcomes, To, Alive, Mishap
<1> QED BY <1>1, <1>2, <1>3 DEF Inv

\* Without finish, the run is over with whatever the row says.
LEMMA FinishFailsKeeps == ASSUME Inv, NEW r \in Runs, FinishFails(r) PROVE Inv'
<1> USE Tells DEF ledger, worker, stream
<1>1. HoldType'
  BY DEF Inv, FinishFails, HoldType, HoldInv, RecordInv, Past, Unled, Telling, Stages, Outcomes, To, Alive, Mishap
<1>2. HoldInv'
  BY <1>1 DEF Inv, FinishFails, HoldType, HoldInv, RecordInv, Past, Unled, Telling, Stages, Outcomes, To, Alive, Mishap
<1>3. RecordInv'
  BY <1>1 DEF Inv, FinishFails, HoldType, HoldInv, RecordInv, Past, Unled, Telling, Stages, Outcomes, To, Alive, Mishap
<1> QED BY <1>1, <1>2, <1>3 DEF Inv

\* Every run of the process that died is past its lease.
LEMMA CrashKeeps == ASSUME Inv, NEW s \in Servers, Crash(s) PROVE Inv'
<1> USE Tells DEF ledger, worker, stream
<1>1. HoldType'
  BY DEF Inv, Crash, HoldType, HoldInv, RecordInv, Past, Unled, Telling, Stages, Outcomes, To, Alive, Mishap
<1>2. HoldInv'
  BY <1>1 DEF Inv, Crash, HoldType, HoldInv, RecordInv, Past, Unled, Telling, Stages, Outcomes, To, Alive, Mishap
<1>3. RecordInv'
  BY <1>1 DEF Inv, Crash, HoldType, HoldInv, RecordInv, Past, Unled, Telling, Stages, Outcomes, To, Alive, Mishap
<1> QED BY <1>1, <1>2, <1>3 DEF Inv

\* The lease of a run that does not work runs out.
LEMMA ExpireKeeps == ASSUME Inv, Expire PROVE Inv'
<1> USE Tells DEF ledger, worker, stream
<1>1. HoldType'
  BY DEF Inv, Expire, HoldType, HoldInv, RecordInv, Past, Unled, Telling, Stages, Outcomes, To, Alive, Mishap
<1>2. HoldInv'
  BY <1>1 DEF Inv, Expire, HoldType, HoldInv, RecordInv, Past, Unled, Telling, Stages, Outcomes, To, Alive, Mishap
<1>3. RecordInv'
  BY <1>1 DEF Inv, Expire, HoldType, HoldInv, RecordInv, Past, Unled, Telling, Stages, Outcomes, To, Alive, Mishap
<1> QED BY <1>1, <1>2, <1>3 DEF Inv

\* The lease of a run that works runs out: it is stalled from then on.
LEMMA StallKeeps == ASSUME Inv, Stall PROVE Inv'
<1> USE Tells DEF ledger, worker, stream
<1>1. HoldType'
  BY DEF Inv, Stall, HoldType, HoldInv, RecordInv, Past, Unled, Telling, Stages, Outcomes, To, Alive, Mishap
<1>2. HoldInv'
  BY <1>1 DEF Inv, Stall, HoldType, HoldInv, RecordInv, Past, Unled, Telling, Stages, Outcomes, To, Alive, Mishap
<1>3. RecordInv'
  BY <1>1 DEF Inv, Stall, HoldType, HoldInv, RecordInv, Past, Unled, Telling, Stages, Outcomes, To, Alive, Mishap
<1> QED BY <1>1, <1>2, <1>3 DEF Inv
\* Sockets are no part of it, nor are steps that do nothing.
LEMMA ViewersKeep ==
  ASSUME Inv, \/ \E k \in Sockets : EndReplay(k) \/ Leave(k)
              \/ \E k \in Sockets, s \in Servers : BeginReplay(k, s)
              \/ UNCHANGED vars
  PROVE  Inv'
<1>1. UNCHANGED <<lease, expired, row, stage, status, old, lost, sending, charged, stalled>>
  BY DEF BeginReplay, EndReplay, Leave, vars, ledger, worker, stream
<1> QED BY <1>1 DEF Inv, HoldType, HoldInv, RecordInv, Past

\* No run has begun.
LEMMA InitInv == Init => Inv
BY DEF Init, Inv, HoldType, HoldInv, RecordInv, Past, Unled, Telling, Stages, Outcomes

\* Inv is inductive.
LEMMA NextInv == Inv /\ [Next]_vars => Inv'
BY StartKeeps, MarkInterruptedKeeps, InsertKeeps, CreateFailsKeeps, PersistKeeps, PublishKeeps,
   PersistFailsKeeps, RenewKeeps, WorkerFailsKeeps, RunnerEndsKeeps, SettleKeeps, FinishRowKeeps,
   DeleteLeaseKeeps, FinishFailsKeeps, CrashKeeps, ExpireKeeps, StallKeeps, ViewersKeep DEF Next

\* Inv holds in every state that is reached.
LEMMA Invariance == Spec => []Inv
<1> QED BY InitInv, NextInv, PTL DEF Spec

-----------------------------------------------------------------------------
(* The theorems.                                                             *)

\* Of any number of runs that any processes start on the project, one that works has the
\* lease, so that no two change the checkout at once unless one was stalled for 90 seconds.
THEOREM LeaseIsHeld == Spec => []WorkersHoldLease
<1>1. Inv => WorkersHoldLease
  BY DEF Inv, HoldInv, WorkersHoldLease, Unled
<1> QED BY <1>1, Invariance, PTL

\* A run that the ledger calls completed has lost no event of its work, and a charged run
\* is called a failure only when the message about its charge was lost.
THEOREM CompletedIsRecorded == Spec => []CompletedIsWhole
<1>1. Inv => CompletedIsWhole
  BY DEF Inv, RecordInv, CompletedIsWhole
<1> QED BY <1>1, Invariance, PTL

\* Nothing but a stalled run's own finish writes over "interrupted": whoever may still
\* write a row has the lease, and no run that has it is interrupted.
THEOREM InterruptedIsFinal == Spec => InterruptedStays
<1> DEFINE Stays == \A r \in Runs : row[r] = "interrupted" /\ r \notin stalled => row'[r] = "interrupted"
<1>1. Inv /\ [Next]_vars => [Stays]_vars
  <2> SUFFICES ASSUME Inv, Next, NEW q \in Runs, row[q] = "interrupted", q \notin stalled
               PROVE  row'[q] = "interrupted"
    OBVIOUS
  <2>1. stage[q] \in {"closing", "over", "gone"}
    BY DEF Inv, HoldInv, Past
  <2>2. ASSUME NEW r \in Runs, MarkInterrupted(r) PROVE row'[q] = "interrupted"
    BY <2>2 DEF MarkInterrupted
  <2>3. ASSUME NEW r \in Runs, Insert(r) \/ CreateFails(r) \/ FinishRow(r)
        PROVE row'[q] = "interrupted"
    BY <2>1, <2>3 DEF Inv, HoldType, Insert, CreateFails, FinishRow
  <2>4. CASE UNCHANGED row
    BY <2>4
  <2> QED BY <2>2, <2>3, <2>4 DEF Next, Start, Persist, Publish, PersistFails, Renew, WorkerFails,
             RunnerEnds, Settle, DeleteLease, FinishFails, BeginReplay, EndReplay, Leave,
             Crash, Expire, Stall, ledger
<1>2. Spec => [][Stays]_vars
  BY <1>1, Invariance, PTL DEF Spec
<1> QED BY <1>2 DEF InterruptedStays

-----------------------------------------------------------------------------
(* What a socket has got.  ReplayIsWhole is not inductive: that the replay   *)
(* ends where the deliveries begin needs the lock (no event is under way     *)
(* while a socket is in attach), and that the status which attach sends last *)
(* is that of the last event needs the worker's order: it announces an       *)
(* outcome only when it no longer changes it.                                *)

Words == {"note", "running"} \cup Outcomes
Messages == [n : Nat, is : Words]

SuffixOf(s, t) == Len(s) <= Len(t) /\ \A i \in 1 .. Len(s) : s[i] = t[Len(t) - Len(s) + i]
Last(r) == events[r][Len(events[r])].is
Ends(r) == events[r] # <<>> /\ Last(r) # "note"

StreamType ==
  /\ jobs \in [Servers -> Runs \cup {Nobody}]
  /\ events \in [Runs -> Seq(Messages)]
  /\ socket \in [Sockets -> [job : Runs \cup {Nobody}, is : {"away", "replay", "live"}]]
  /\ seen \in [Sockets -> Seq(Messages)]
  /\ told \in [Sockets -> {"nothing"} \cup Words]

\* What one socket has got, and what one run has announced.
Whole(k) ==
  /\ socket[k].is # "away" =>
       socket[k].job \in Runs /\ SuffixOf(seen[k], events[socket[k].job])
  /\ socket[k].is = "replay" => socket[k].job \notin sending
  /\ socket[k].is = "live" /\ Ends(socket[k].job) => told[k] = Last(socket[k].job)

Announced(r) ==
  Ends(r) => /\ status[r] = Last(r)
             /\ stage[r] \in {"finishing", "releasing", "closing", "over", "gone"}

StreamInv == StreamType /\ (\A k \in Sockets : Whole(k)) /\ (\A r \in Runs : Announced(r))

LEMMA SuffixIsSubSeq ==
  ASSUME NEW S, NEW s \in Seq(S), NEW t \in Seq(S), SuffixOf(s, t)
  PROVE  s = SubSeq(t, Len(t) - Len(s) + 1, Len(t))
<1> DEFINE m == Len(t) - Len(s) + 1
           u == SubSeq(t, m, Len(t))
<1>1. Len(s) \in Nat /\ Len(t) \in Nat /\ m \in Int /\ m >= 1
  BY DEF SuffixOf
<1>2. \A i \in m .. Len(t) : t[i] \in S
  BY <1>1
<1>3. /\ u \in Seq(S) /\ Len(u) = IF m <= Len(t) THEN Len(t) - m + 1 ELSE 0
      /\ \A i \in 1 .. Len(t) - m + 1 : u[i] = t[m + i - 1]
  BY <1>1, <1>2, SubSeqProperties
<1>4. Len(u) = Len(s)
  BY <1>1, <1>3
<1>5. \A i \in 1 .. Len(s) : s[i] = u[i]
  <2> SUFFICES ASSUME NEW i \in 1 .. Len(s) PROVE s[i] = u[i]
    OBVIOUS
  <2>1. u[i] = t[m + i - 1] /\ m + i - 1 = Len(t) - Len(s) + i
    BY <1>1, <1>3
  <2> QED BY <2>1 DEF SuffixOf
<1> HIDE DEF u
<1> QED BY <1>3, <1>4, <1>5, SeqEqual DEF u

LEMMA SuffixAppend ==
  ASSUME NEW S, NEW s \in Seq(S), NEW t \in Seq(S), NEW e \in S, SuffixOf(s, t)
  PROVE  SuffixOf(Append(s, e), Append(t, e))
<1>1. Len(s) \in Nat /\ Len(t) \in Nat /\ Len(s) <= Len(t)
  BY DEF SuffixOf
<1>2. Len(Append(s, e)) = Len(s) + 1 /\ Len(Append(t, e)) = Len(t) + 1
  OBVIOUS
<1>3. ASSUME NEW i \in 1 .. Len(s) + 1
      PROVE  Append(s, e)[i] = Append(t, e)[Len(t) - Len(s) + i]
  <2>1. CASE i = Len(s) + 1
    <3>1. Len(t) - Len(s) + i = Len(t) + 1
      BY <1>1, <2>1
    <3> QED BY <2>1, <3>1
  <2>2. CASE i # Len(s) + 1
    <3>1. i \in 1 .. Len(s) /\ Len(t) - Len(s) + i \in 1 .. Len(t)
      BY <1>1, <2>2
    <3>2. Append(s, e)[i] = s[i] /\ Append(t, e)[Len(t) - Len(s) + i] = t[Len(t) - Len(s) + i]
      BY <3>1
    <3> QED BY <3>1, <3>2 DEF SuffixOf
  <2> QED BY <2>1, <2>2
<1> DEFINE u == Append(s, e)
           v == Append(t, e)
<1> HIDE DEF u, v
<1>4. Len(u) = Len(s) + 1 /\ Len(v) = Len(t) + 1 /\ Len(v) - Len(u) = Len(t) - Len(s)
  BY <1>1, <1>2 DEF u, v
<1>5. \A i \in 1 .. Len(u) : u[i] = v[Len(v) - Len(u) + i]
  BY <1>3, <1>4 DEF u, v
<1>6. Len(u) <= Len(v)
  BY <1>1, <1>4
<1> QED BY <1>5, <1>6 DEF SuffixOf, u, v

\* The replay is the end of what the job has sent.
LEMMA KeptIsSuffix ==
  ASSUME StreamType, NEW r \in Runs
  PROVE  Kept(r) \in Seq(Messages) /\ SuffixOf(Kept(r), events[r])
<1> DEFINE t == events[r]
           m == IF Len(t) > Replay THEN Len(t) - Replay + 1 ELSE 1
           u == SubSeq(t, m, Len(t))
<1>1. t \in Seq(Messages) /\ Len(t) \in Nat
  BY DEF StreamType
<1>2. m \in Int /\ 1 <= m /\ m <= Len(t) + 1
  BY <1>1, ScanAssumption
<1>3. Kept(r) = u
  BY DEF Kept
<1> HIDE DEF t, m
<1>4. \A i \in m .. Len(t) : t[i] \in Messages
  BY <1>1, <1>2
<1>5. /\ u \in Seq(Messages) /\ Len(u) = IF m <= Len(t) THEN Len(t) - m + 1 ELSE 0
      /\ \A i \in 1 .. Len(t) - m + 1 : u[i] = t[m + i - 1]
  BY <1>1, <1>2, <1>4, SubSeqProperties
<1>6. Len(u) = Len(t) - m + 1 /\ Len(u) <= Len(t)
  BY <1>1, <1>2, <1>5
<1>7. \A i \in 1 .. Len(u) : u[i] = t[Len(t) - Len(u) + i]
  <2> SUFFICES ASSUME NEW i \in 1 .. Len(u) PROVE u[i] = t[Len(t) - Len(u) + i]
    OBVIOUS
  <2>1. i \in 1 .. Len(t) - m + 1 /\ m + i - 1 = Len(t) - Len(u) + i
    <3>1. Len(t) \in Nat /\ m \in Int /\ Len(u) = Len(t) - m + 1
      BY <1>1, <1>2, <1>6
    <3> HIDE DEF u
    <3> QED BY <3>1
  <2> QED BY <1>5, <2>1
<1> QED BY <1>3, <1>5, <1>6, <1>7 DEF SuffixOf, t

\* Steps that send nothing and touch no socket, and change a status only before it is announced.
LEMMA StreamKept ==
  ASSUME StreamInv, StreamType', UNCHANGED <<events, socket, seen, told>>, sending' \subseteq sending,
         \A r \in Runs :
           \/ status'[r] = status[r] /\ stage'[r] = stage[r]
           \/ stage[r] \notin {"finishing", "releasing", "closing", "over", "gone"}
           \/ /\ status'[r] = status[r]
              /\ stage'[r] \in {"finishing", "releasing", "closing", "over", "gone"}
  PROVE  StreamInv'
<1>1. \A k \in Sockets : Whole(k)'
  BY DEF StreamInv, StreamType, Whole, Ends, Last
<1>2. \A r \in Runs : Announced(r)'
  BY DEF StreamInv, Announced, Ends, Last
<1> QED BY <1>1, <1>2 DEF StreamInv

LEMMA PersistStream == ASSUME Inv, StreamInv, NEW r \in Runs, Persist(r) PROVE StreamInv'
<1>1. UNCHANGED <<jobs, events, socket, seen, told, stage, status>> /\ sending' = sending \cup {r}
  BY DEF Persist, worker, viewers
<1>2. \A k \in Sockets : socket[k] # [job |-> r, is |-> "replay"]
  BY DEF Persist, Unlocked
<1>3. \A k \in Sockets : Whole(k)'
  BY <1>1, <1>2 DEF StreamInv, StreamType, Whole, Ends, Last
<1>4. \A q \in Runs : Announced(q)'
  BY <1>1 DEF StreamInv, Announced, Ends, Last
<1> QED BY <1>1, <1>3, <1>4 DEF StreamInv, StreamType

LEMMA PublishStream == ASSUME Inv, StreamInv, NEW r \in Runs, Publish(r) PROVE StreamInv'
<1> DEFINE live == {k \in Sockets : socket[k] = [job |-> r, is |-> "live"]}
           e == Event(r)
<1>1. PICK slow \in SUBSET live :
        /\ socket' = [k \in Sockets |-> IF k \in slow THEN Away ELSE socket[k]]
        /\ seen' = [k \in Sockets |-> IF k \in live \ slow THEN Append(seen[k], e)
                                      ELSE IF k \in slow THEN <<>> ELSE seen[k]]
        /\ told' = [k \in Sockets |-> IF k \in live \ slow /\ e.is # "note" THEN e.is
                                      ELSE IF k \in slow THEN "nothing" ELSE told[k]]
  BY DEF Publish
<1>2. /\ r \in sending /\ sending' = sending \ {r}
      /\ events' = [events EXCEPT ![r] = Append(events[r], e)]
      /\ stage' = [stage EXCEPT ![r] = Sent[stage[r]]]
      /\ UNCHANGED <<jobs, status>>
  BY DEF Publish, To
<1>3. stage[r] \in Telling /\ status[r] \in Words /\ stage \in [Runs -> Stages] /\ StreamType
  BY <1>2 DEF Inv, HoldType, HoldInv, Words, StreamInv
<1>4. e \in Messages /\ (e.is # "note" => e.is = status[r] /\ stage[r] \in {"failing", "closing"})
  <2>1. Len(events[r]) + 1 \in Nat
    BY <1>3 DEF StreamType
  <2> QED BY <1>3, <2>1 DEF Event, Messages, Words
<1> HIDE DEF e
<1>5. /\ events[r] \in Seq(Messages) /\ events'[r] = Append(events[r], e)
      /\ \A q \in Runs : q # r => events'[q] = events[q]
  BY <1>2, <1>3 DEF StreamType
<1>6. events'[r] # <<>> /\ Last(r)' = e.is
  <2>1. Len(events'[r]) = Len(events[r]) + 1 /\ events'[r][Len(events[r]) + 1] = e
    BY <1>5
  <2>2. Len(events[r]) \in Nat
    BY <1>5
  <2> QED BY <2>1, <2>2 DEF Last
<1>7. \A q \in Runs : q # r => Ends(q)' = Ends(q) /\ Last(q)' = Last(q)
  BY <1>5 DEF Ends, Last
<1>8. StreamType'
  <2>1. events' \in [Runs -> Seq(Messages)]
    BY <1>2, <1>3, <1>4 DEF StreamType
  <2>2. seen' \in [Sockets -> Seq(Messages)]
    BY <1>1, <1>3, <1>4 DEF StreamType
  <2>3. e.is \in Words
    BY <1>4 DEF Messages
  <2>4. told' \in [Sockets -> {"nothing"} \cup Words]
    BY <1>1, <1>3, <2>3 DEF StreamType
  <2>5. socket' \in [Sockets -> [job : Runs \cup {Nobody}, is : {"away", "replay", "live"}]]
    BY <1>1, <1>3 DEF StreamType, Away
  <2> QED BY <1>2, <1>3, <2>1, <2>2, <2>4, <2>5 DEF StreamType
<1>9. ASSUME NEW k \in Sockets PROVE Whole(k)'
  <2>1. Whole(k) /\ socket[k] \in [job : Runs \cup {Nobody}, is : {"away", "replay", "live"}]
    BY <1>3 DEF StreamInv, StreamType
  <2>2. CASE k \in slow
    <3>1. socket'[k].is = "away"
      BY <1>1, <2>2 DEF Away
    <3> QED BY <3>1 DEF Whole
  <2>3. CASE k \in live \ slow
    <3>1. /\ socket'[k] = socket[k] /\ socket[k].job = r /\ socket[k].is = "live"
          /\ seen'[k] = Append(seen[k], e) /\ told'[k] = IF e.is # "note" THEN e.is ELSE told[k]
      BY <1>1, <2>3
    <3>2. SuffixOf(seen[k], events[r]) /\ seen[k] \in Seq(Messages)
      BY <1>3, <2>1, <3>1 DEF Whole, StreamType
    <3>3. SuffixOf(seen'[k], events'[r])
      BY <1>4, <1>5, <3>1, <3>2, SuffixAppend
    <3> QED BY <1>6, <3>1, <3>3 DEF Whole, Ends
  <2>4. CASE k \notin live
    <3>1. socket'[k] = socket[k] /\ seen'[k] = seen[k] /\ told'[k] = told[k]
      BY <1>1, <2>4
    <3>2. socket[k].is # "away" => socket[k].job \in Runs /\ socket[k].job # r
      BY <1>2, <2>1, <2>4 DEF Whole
    <3> QED BY <1>2, <1>5, <1>7, <2>1, <3>1, <3>2 DEF Whole
  <2> QED BY <2>2, <2>3, <2>4
<1>10. ASSUME NEW q \in Runs PROVE Announced(q)'
  <2>1. Announced(q) /\ Announced(r)
    BY DEF StreamInv
  <2>2. CASE q # r
    BY <1>2, <1>3, <1>7, <2>1, <2>2 DEF Announced
  <2>3. CASE q = r
    <3>1. stage'[r] = Sent[stage[r]]
      BY <1>2, <1>3
    <3>2. stage[r] \in {"failing", "closing"} => stage'[r] \in {"finishing", "over"}
      BY <3>1, Tells
    <3> QED BY <1>2, <1>4, <1>6, <2>3, <3>2 DEF Announced, Ends
  <2> QED BY <2>2, <2>3
<1> QED BY <1>8, <1>9, <1>10 DEF StreamInv

LEMMA PersistFailsStream == ASSUME Inv, StreamInv, NEW r \in Runs, PersistFails(r) PROVE StreamInv'
<1>1. /\ UNCHANGED <<jobs, events, socket, seen, told>> /\ sending' = sending \ {r}
      /\ stage' = [stage EXCEPT ![r] = Raised[stage[r]]]
      /\ status' = IF stage[r] = "usage" THEN [status EXCEPT ![r] = "error"] ELSE status
      /\ stage[r] \in Telling
  BY DEF PersistFails, To, viewers, Inv, HoldInv
<1>2. StreamType'
  BY <1>1 DEF StreamInv, StreamType
<1>3. stage[r] = "closing" => stage'[r] = "over" /\ status' = status
  BY <1>1, Tells DEF Inv, HoldType
<1> QED BY <1>1, <1>2, <1>3, StreamKept DEF Inv, HoldType, Telling

LEMMA BeginReplayStream ==
  ASSUME Inv, StreamInv, NEW k \in Sockets, NEW s \in Servers, BeginReplay(k, s)
  PROVE  StreamInv'
<1> DEFINE r == jobs[s]
<1>1. /\ r \in Runs /\ r \notin sending
      /\ socket' = [socket EXCEPT ![k] = [job |-> r, is |-> "replay"]]
      /\ seen' = [seen EXCEPT ![k] = Kept(r)]
      /\ UNCHANGED <<jobs, events, told, sending, stage, status>>
  BY DEF BeginReplay, Unlocked, StreamInv, StreamType, worker, stream
<1> HIDE DEF r
<1>2. Kept(r) \in Seq(Messages) /\ SuffixOf(Kept(r), events[r])
  BY <1>1, KeptIsSuffix DEF StreamInv
<1>3. StreamType'
  BY <1>1, <1>2 DEF StreamInv, StreamType
<1>4. ASSUME NEW j \in Sockets PROVE Whole(j)'
  <2>1. CASE j = k
    <3>1. socket'[k] = [job |-> r, is |-> "replay"] /\ seen'[k] = Kept(r)
      BY <1>1 DEF StreamInv, StreamType
    <3> QED BY <1>1, <1>2, <2>1, <3>1 DEF Whole
  <2>2. CASE j # k
    <3>1. socket'[j] = socket[j] /\ seen'[j] = seen[j] /\ Whole(j)
      BY <1>1, <2>2 DEF StreamInv, StreamType
    <3> QED BY <1>1, <3>1 DEF Whole, Ends, Last
  <2> QED BY <2>1, <2>2
<1>5. \A q \in Runs : Announced(q)'
  BY <1>1 DEF StreamInv, Announced, Ends, Last
<1> QED BY <1>3, <1>4, <1>5 DEF StreamInv

LEMMA EndReplayStream == ASSUME Inv, StreamInv, NEW k \in Sockets, EndReplay(k) PROVE StreamInv'
<1>1. /\ socket[k].is = "replay"
      /\ socket' = [socket EXCEPT ![k].is = "live"]
      /\ told' = [told EXCEPT ![k] = status[socket[k].job]]
      /\ UNCHANGED <<jobs, events, seen, sending, stage, status>>
  BY DEF EndReplay, worker, stream
<1>2. Whole(k) /\ socket[k] \in [job : Runs \cup {Nobody}, is : {"away", "replay", "live"}]
  BY DEF StreamInv, StreamType
<1>3. socket[k].job \in Runs
  BY <1>1, <1>2 DEF Whole
<1>4. status[socket[k].job] \in Words
  BY <1>3 DEF Inv, HoldType, Words
<1>5. socket'[k].job = socket[k].job /\ socket'[k].is = "live" /\ told'[k] = status[socket[k].job]
  BY <1>1, <1>2 DEF StreamInv, StreamType
<1>6. StreamType'
  <2>1. socket' \in [Sockets -> [job : Runs \cup {Nobody}, is : {"away", "replay", "live"}]]
    BY <1>1, <1>2 DEF StreamInv, StreamType
  <2>2. told' \in [Sockets -> {"nothing"} \cup Words]
    BY <1>1, <1>4 DEF StreamInv, StreamType
  <2> QED BY <1>1, <2>1, <2>2 DEF StreamInv, StreamType
<1>7. ASSUME NEW j \in Sockets PROVE Whole(j)'
  <2>1. CASE j = k
    <3>1. Announced(socket[k].job)
      BY <1>3 DEF StreamInv
    <3> QED BY <1>1, <1>2, <1>3, <1>5, <2>1, <3>1 DEF Whole, Announced, Ends, Last
  <2>2. CASE j # k
    <3>1. socket'[j] = socket[j] /\ told'[j] = told[j] /\ Whole(j)
      BY <1>1, <2>2 DEF StreamInv, StreamType
    <3>2. seen' = seen /\ events' = events /\ sending' = sending
      BY <1>1
    <3> QED BY <3>1, <3>2 DEF Whole, Ends, Last
  <2> QED BY <2>1, <2>2
<1>8. \A q \in Runs : Announced(q)'
  BY <1>1 DEF StreamInv, Announced, Ends, Last
<1> QED BY <1>6, <1>7, <1>8 DEF StreamInv

LEMMA LeaveStream == ASSUME Inv, StreamInv, NEW k \in Sockets, Leave(k) PROVE StreamInv'
<1>1. /\ socket' = [socket EXCEPT ![k] = Away] /\ seen' = [seen EXCEPT ![k] = <<>>]
      /\ told' = [told EXCEPT ![k] = "nothing"]
      /\ UNCHANGED <<jobs, events, sending, stage, status>>
  BY DEF Leave, worker, stream
<1>2. StreamType'
  BY <1>1 DEF StreamInv, StreamType, Away
<1>3. ASSUME NEW j \in Sockets PROVE Whole(j)'
  <2>1. CASE j = k
    <3>1. socket'[k].is = "away"
      BY <1>1 DEF StreamInv, StreamType, Away
    <3> QED BY <2>1, <3>1 DEF Whole
  <2>2. CASE j # k
    <3>1. socket'[j] = socket[j] /\ seen'[j] = seen[j] /\ told'[j] = told[j] /\ Whole(j)
      BY <1>1, <2>2 DEF StreamInv, StreamType
    <3> QED BY <1>1, <3>1 DEF Whole, Ends, Last
  <2> QED BY <2>1, <2>2
<1>4. \A q \in Runs : Announced(q)'
  BY <1>1 DEF StreamInv, Announced, Ends, Last
<1> QED BY <1>2, <1>3, <1>4 DEF StreamInv

LEMMA CrashStream == ASSUME Inv, StreamInv, NEW s \in Servers, Crash(s) PROVE StreamInv'
<1> DEFINE here == {r \in Runs : home[r] = s}
           cut == {k \in Sockets : socket[k].job # Nobody /\ home[socket[k].job] = s}
<1>1. /\ jobs' = [jobs EXCEPT ![s] = Nobody]
      /\ stage' = [r \in Runs |-> IF r \in here THEN "gone" ELSE stage[r]]
      /\ status' = [r \in Runs |-> IF r \in here THEN "running" ELSE status[r]]
      /\ events' = [r \in Runs |-> IF r \in here THEN <<>> ELSE events[r]]
      /\ sending' = sending \ here
      /\ socket' = [k \in Sockets |-> IF k \in cut THEN Away ELSE socket[k]]
      /\ seen' = [k \in Sockets |-> IF k \in cut THEN <<>> ELSE seen[k]]
      /\ told' = [k \in Sockets |-> IF k \in cut THEN "nothing" ELSE told[k]]
  BY DEF Crash
<1>2. StreamType /\ (\A k \in Sockets : Whole(k)) /\ (\A r \in Runs : Announced(r))
  BY DEF StreamInv
<1>3. \A k \in Sockets : k \notin cut /\ socket[k].is # "away" => socket[k].job \in Runs \ here
  BY <1>2 DEF Whole
<1>4. \A r \in here : events'[r] = <<>>
  BY <1>1
<1>5. \A r \in Runs \ here : events'[r] = events[r] /\ status'[r] = status[r] /\ stage'[r] = stage[r]
  BY <1>1
<1>6. StreamType'
  <2>1. events' \in [Runs -> Seq(Messages)] /\ seen' \in [Sockets -> Seq(Messages)]
    BY <1>1, <1>2 DEF StreamType
  <2>2. /\ jobs' \in [Servers -> Runs \cup {Nobody}]
        /\ socket' \in [Sockets -> [job : Runs \cup {Nobody}, is : {"away", "replay", "live"}]]
        /\ told' \in [Sockets -> {"nothing"} \cup Words]
    BY <1>1, <1>2 DEF StreamType, Away
  <2> QED BY <2>1, <2>2 DEF StreamType
<1>7. ASSUME NEW k \in Sockets PROVE Whole(k)'
  <2>1. CASE k \in cut
    <3>1. socket'[k].is = "away"
      BY <1>1, <2>1 DEF Away
    <3> QED BY <3>1 DEF Whole
  <2>2. CASE k \notin cut
    <3>1. socket'[k] = socket[k] /\ seen'[k] = seen[k] /\ told'[k] = told[k] /\ Whole(k)
      BY <1>1, <1>2, <2>2
    <3> HIDE DEF here, cut
    <3> QED BY <1>1, <1>3, <1>5, <2>2, <3>1 DEF Whole, Ends, Last
  <2> QED BY <2>1, <2>2
<1>8. \A r \in Runs : Announced(r)'
  <2> HIDE DEF here, cut
  <2> QED BY <1>2, <1>4, <1>5 DEF Announced, Ends, Last
<1> QED BY <1>6, <1>7, <1>8 DEF StreamInv

LEMMA StreamStep == ASSUME Inv, StreamInv, [Next]_vars PROVE StreamInv'
<1> USE DEF ledger, worker, stream, viewers, To
<1>1. ASSUME UNCHANGED <<jobs, events, socket, seen, told, sending, status>>,
             \A q \in Runs : \/ stage'[q] = stage[q]
                             \/ stage[q] \notin {"finishing", "releasing", "closing", "over", "gone"}
                             \/ stage'[q] \in {"finishing", "releasing", "closing", "over", "gone"}
      PROVE  StreamInv'
  <2>1. StreamType'
    BY <1>1 DEF StreamInv, StreamType
  <2> QED BY <1>1, <2>1, StreamKept
<1>2. ASSUME NEW r \in Runs, MarkInterrupted(r) \/ CreateFails(r) \/ FinishRow(r)
                           \/ DeleteLease(r) \/ FinishFails(r) \/ Renew(r) \/ Settle(r)
      PROVE  StreamInv'
  BY <1>1, <1>2 DEF Inv, HoldType, MarkInterrupted, CreateFails, FinishRow, DeleteLease, FinishFails,
                    Renew, Settle
<1>3. ASSUME NEW s \in Servers, NEW r \in Runs, Start(s, r) PROVE StreamInv'
  BY <1>1, <1>3 DEF Inv, HoldType, Start
<1>4. ASSUME NEW r \in Runs, Insert(r) PROVE StreamInv'
  <2>1. StreamType'
    BY <1>4 DEF Insert, StreamInv, StreamType
  <2>2. \A q \in Runs : \/ status'[q] = status[q] /\ stage'[q] = stage[q]
                        \/ stage[q] \notin {"finishing", "releasing", "closing", "over", "gone"}
    BY <1>4 DEF Insert, Inv, HoldType
  <2> QED BY <1>4, <2>1, <2>2, StreamKept DEF Insert
<1>5. ASSUME NEW r \in Runs, WorkerFails(r) \/ RunnerEnds(r) PROVE StreamInv'
  <2>1. StreamType' /\ UNCHANGED <<events, socket, seen, told, sending>>
    BY <1>5 DEF WorkerFails, RunnerEnds, StreamInv, StreamType
  <2>2. \A q \in Runs : \/ status'[q] = status[q] /\ stage'[q] = stage[q]
                        \/ stage[q] \notin {"finishing", "releasing", "closing", "over", "gone"}
    BY <1>5 DEF WorkerFails, RunnerEnds, Inv, HoldType
  <2> QED BY <2>1, <2>2, StreamKept
<1>6. CASE Expire \/ Stall \/ UNCHANGED vars
  BY <1>1, <1>6 DEF Expire, Stall, vars
<1> QED BY <1>2, <1>3, <1>4, <1>5, <1>6, PersistStream, PublishStream, PersistFailsStream,
           BeginReplayStream, EndReplayStream, LeaveStream, CrashStream DEF Next

\* A socket that attached, to whichever run and however late, has the job's events from its
\* first one on without a gap or a double, and knows the outcome the job has announced.
THEOREM ReplayIsComplete == Spec => []ReplayIsWhole
<1>1. Init => StreamInv
  BY DEF Init, StreamInv, StreamType, Whole, Announced, Ends, Away, Words
<1>2. Inv /\ StreamInv /\ [Next]_vars => StreamInv'
  BY StreamStep
<1>3. StreamInv => ReplayIsWhole
  <2> SUFFICES ASSUME StreamInv, NEW k \in Sockets, socket[k].is = "live"
               PROVE  LET all == events[socket[k].job]
                          from == Len(all) - Len(seen[k])
                      IN /\ from >= 0 /\ seen[k] = SubSeq(all, from + 1, Len(all))
                         /\ all # <<>> /\ all[Len(all)].is # "note" => told[k] = all[Len(all)].is
    BY DEF ReplayIsWhole
  <2> DEFINE all == events[socket[k].job]
  <2>1. /\ socket[k].job \in Runs /\ SuffixOf(seen[k], all)
        /\ all # <<>> /\ all[Len(all)].is # "note" => told[k] = all[Len(all)].is
    BY DEF StreamInv, Whole, Ends, Last
  <2>2. all \in Seq(Messages) /\ seen[k] \in Seq(Messages)
    BY <2>1 DEF StreamInv, StreamType
  <2> HIDE DEF all
  <2>3. seen[k] = SubSeq(all, Len(all) - Len(seen[k]) + 1, Len(all))
    BY <2>1, <2>2, SuffixIsSubSeq
  <2>4. Len(all) - Len(seen[k]) >= 0
    BY <2>1, <2>2 DEF SuffixOf
  <2> QED BY <2>1, <2>3, <2>4 DEF all
<1> QED BY <1>1, <1>2, <1>3, Invariance, PTL DEF Spec
==============================================================================
