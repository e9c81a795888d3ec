------------------------------ MODULE ScanJobs ------------------------------
(***************************************************************************)
(* Security scans of one project (scan_jobs.py, security_run_store.py):    *)
(* server processes that each keep the project's last job in memory, a     *)
(* ledger in MongoDB with the lease of the project, the row of every run   *)
(* and its events, and sockets that attach to a job while it runs.         *)
(*                                                                         *)
(* A run is numbered in the order in which create took the lease.  The     *)
(* other calls of create and finish are steps of their own; start blocks   *)
(* the event loop, so that a process is in one create at a time.  The      *)
(* scanners, MongoDB's clock and the settlement are external.              *)
(***************************************************************************)
EXTENDS Naturals, Sequences

CONSTANTS
  Servers, Sockets, Nobody,
  Hosts,         \* [Runs -> the processes its start may reach]
  MaxRuns,       \* bound on the runs
  MaxNotes,      \* bound on the progress messages of a run
  Replay,        \* events a job keeps for late sockets: 500 in the code
  MaxMishaps     \* bound on crashes, failed calls of MongoDB and stalled leases together

Runs == 1 .. MaxRuns

ASSUME ScanAssumption ==
  /\ Hosts \in [Runs -> SUBSET Servers]
  /\ MaxRuns \in Nat /\ MaxNotes \in Nat /\ MaxMishaps \in Nat
  /\ Replay \in Nat \ {0}
  /\ Nobody \notin Runs \cup Servers

VARIABLES
  lease,      \* security_leases: the run that has it, or Nobody
  expired,    \* its 90 seconds are over
  row,        \* security_runs: [Runs -> status, or "none"]
  jobs,       \* [Servers -> the job of the project in this process, or Nobody]
  home,       \* [Runs -> the process that started it]
  stage,      \* [Runs -> where start and execute are]
  status,     \* [Runs -> status of the job in memory]
  old,        \* [Runs -> the run whose expired lease it took, or Nobody]
  lost,       \* [Runs -> where an insert of an event failed]; persistence_failed is lost[r] # {}
  sending,    \* the runs with an event between the start of its insert and its delivery
  events,     \* [Runs -> the events delivered so far]
  socket,     \* [Sockets -> its job, and whether it is away, in attach or a subscriber]
  seen,       \* [Sockets -> the events it has got]
  told,       \* [Sockets -> the last status it has got]
  charged,    \* the runs that were settled as a success
  stalled,    \* the runs whose lease ran out while they were at work (history)
  mishaps

ledger == <<lease, expired, row>>
worker == <<jobs, home, stage, status, old>>
stream == <<lost, sending, events>>
viewers == <<socket, seen, told>>
vars == <<ledger, worker, stream, viewers, charged, stalled, mishaps>>

Stages == {"none", "leased", "marked", "working", "settling", "usage", "failing",
           "finishing", "releasing", "closing", "over", "gone"}
Outcomes == {"completed", "error"}

\* Where a worker goes on after it sent its event, and after the sending raised: the
\* runner swallows that, execute handles it, and its handlers pass it on.
Sent == [working |-> "working", usage |-> "finishing", failing |-> "finishing", closing |-> "over"]
Raised == [Sent EXCEPT !.usage = "failing"]

TypeOK ==
  /\ lease \in Runs \cup {Nobody} /\ expired \in BOOLEAN
  /\ row \in [Runs -> {"none", "running", "interrupted"} \cup Outcomes]
  /\ jobs \in [Servers -> Runs \cup {Nobody}]
  /\ home \in [Runs -> Servers \cup {Nobody}]
  /\ stage \in [Runs -> Stages]
  /\ status \in [Runs -> {"running"} \cup Outcomes]
  /\ old \in [Runs -> Runs \cup {Nobody}]
  /\ lost \in [Runs -> SUBSET DOMAIN Sent]
  /\ sending \subseteq Runs
  /\ events \in [Runs -> Seq([n : Nat, is : {"note"} \cup Outcomes])]
  /\ socket \in [Sockets -> [job : Runs \cup {Nobody}, is : {"away", "replay", "live"}]]
  /\ seen \in [Sockets -> Seq([n : Nat, is : {"note"} \cup Outcomes])]
  /\ told \in [Sockets -> {"nothing", "running"} \cup Outcomes]
  /\ charged \subseteq Runs /\ stalled \subseteq Runs
  /\ mishaps \in 0 .. MaxMishaps

Away == [job |-> Nobody, is |-> "away"]

Init ==
  /\ lease = Nobody /\ expired = FALSE
  /\ row = [r \in Runs |-> "none"]
  /\ jobs = [s \in Servers |-> Nobody]
  /\ home = [r \in Runs |-> Nobody]
  /\ stage = [r \in Runs |-> "none"]
  /\ status = [r \in Runs |-> "running"]
  /\ old = [r \in Runs |-> Nobody]
  /\ lost = [r \in Runs |-> {}] /\ sending = {} /\ events = [r \in Runs |-> <<>>]
  /\ socket = [k \in Sockets |-> Away]
  /\ seen = [k \in Sockets |-> <<>>] /\ told = [k \in Sockets |-> "nothing"]
  /\ charged = {} /\ stalled = {} /\ mishaps = 0

Mishap == mishaps < MaxMishaps /\ mishaps' = mishaps + 1
Alive(r) == stage[r] \notin {"none", "over", "gone"}
To(r, next) == stage' = [stage EXCEPT ![r] = next]

-----------------------------------------------------------------------------
(* SecurityRunStore.create, called by start.                                 *)

\* mutant: the upsert that hits the other's row counts as success
AnyLease == TRUE

\* What find_one_and_update matches; its upsert takes a missing row.  A run's own
\* lease it cannot find: the number of a run is fresh.
Takeable == lease = Nobody \/ expired

\* A process whose job is running returns that job instead.
Start(s, r) ==
  /\ stage[r] = "none" /\ s \in Hosts[r] /\ \A q \in Runs : q < r => stage[q] # "none"
  /\ jobs[s] # Nobody => status[jobs[s]] # "running"
  /\ \A q \in Runs : home[q] = s => stage[q] \notin {"leased", "marked"}
  /\ Takeable
  /\ lease' = r /\ expired' = FALSE
  /\ old' = [old EXCEPT ![r] = lease]
  /\ home' = [home EXCEPT ![r] = s]
  /\ To(r, "leased")
  /\ UNCHANGED <<row, jobs, status, stream, viewers, charged, stalled, mishaps>>

MarkInterrupted(r) ==
  /\ stage[r] = "leased"
  /\ row' = [q \in Runs |-> IF q = old[r] /\ row[q] = "running" THEN "interrupted" ELSE row[q]]
  /\ old' = [old EXCEPT ![r] = Nobody]
  /\ To(r, "marked")
  /\ UNCHANGED <<lease, expired, jobs, home, status, stream, viewers, charged, stalled, mishaps>>

\* The row, and then, still in start, the job and its task.
Insert(r) ==
  /\ stage[r] = "marked"
  /\ row' = [row EXCEPT ![r] = "running"]
  /\ jobs' = [jobs EXCEPT ![home[r]] = r]
  /\ To(r, "working")
  /\ UNCHANGED <<lease, expired, home, status, old, stream, viewers, charged, stalled, mishaps>>

\* Either call fails, the insert perhaps after it took effect; the lease stays.
CreateFails(r) ==
  /\ stage[r] \in {"leased", "marked"} /\ Mishap
  /\ row' \in {row} \cup IF stage[r] = "marked" THEN {[row EXCEPT ![r] = "running"]} ELSE {}
  /\ To(r, "gone")
  /\ UNCHANGED <<lease, expired, jobs, home, status, old, stream, viewers, charged, stalled>>

-----------------------------------------------------------------------------
(* ScanJob.send_json and attach, under _delivery_lock.                       *)

\* mutant: attach and send_json do not share a lock
NoLock(r) == r \notin sending

Unlocked(r) ==
  /\ r \notin sending
  /\ \A k \in Sockets : socket[k] # [job |-> r, is |-> "replay"]

Event(r) == [n |-> Len(events[r]) + 1,
             is |-> IF stage[r] \in {"failing", "closing"} THEN status[r] ELSE "note"]

Persist(r) ==
  /\ stage[r] \in DOMAIN Sent /\ (stage[r] = "working" => Len(events[r]) < MaxNotes)
  /\ Unlocked(r)
  /\ sending' = sending \cup {r}
  /\ UNCHANGED <<ledger, worker, lost, events, viewers, charged, stalled, mishaps>>

\* (A heartbeat message that is cancelled on the way is never delivered and only skips a
\* number.)  The event is kept and sent; a socket that does not take it in three seconds is no
\* subscriber any more, though nobody closes it.
Publish(r) ==
  /\ r \in sending
  /\ events' = [events EXCEPT ![r] = Append(@, Event(r))]
  /\ \E slow \in SUBSET {k \in Sockets : socket[k] = [job |-> r, is |-> "live"]} :
       LET takers == {k \in Sockets : socket[k] = [job |-> r, is |-> "live"]} \ slow
       IN /\ socket' = [k \in Sockets |-> IF k \in slow THEN Away ELSE socket[k]]
          /\ seen' = [k \in Sockets |-> IF k \in takers THEN Append(seen[k], Event(r))
                                        ELSE IF k \in slow THEN <<>> ELSE seen[k]]
          /\ told' = [k \in Sockets |-> IF k \in takers /\ Event(r).is # "note" THEN Event(r).is
                                        ELSE IF k \in slow THEN "nothing" ELSE told[k]]
  /\ sending' = sending \ {r}
  /\ To(r, Sent[stage[r]])
  /\ UNCHANGED <<ledger, jobs, home, status, old, lost, charged, stalled, mishaps>>

PersistFails(r) ==
  /\ r \in sending /\ Mishap
  /\ lost' = [lost EXCEPT ![r] = @ \cup {stage[r]}]
  /\ sending' = sending \ {r}
  /\ To(r, Raised[stage[r]])
  /\ status' = IF stage[r] = "usage" THEN [status EXCEPT ![r] = "error"] ELSE status
  /\ UNCHANGED <<ledger, jobs, home, old, events, viewers, charged, stalled>>

Kept(r) == LET n == Len(events[r])
           IN SubSeq(events[r], IF n > Replay THEN n - Replay + 1 ELSE 1, n)

BeginReplay(k, s) ==
  /\ socket[k].is = "away" /\ jobs[s] # Nobody
  /\ LET r == jobs[s]
     IN /\ Unlocked(r)
        /\ socket' = [socket EXCEPT ![k] = [job |-> r, is |-> "replay"]]
        /\ seen' = [seen EXCEPT ![k] = Kept(r)]
  /\ UNCHANGED <<ledger, worker, stream, told, charged, stalled, mishaps>>

EndReplay(k) ==
  /\ socket[k].is = "replay"
  /\ socket' = [socket EXCEPT ![k].is = "live"]
  /\ told' = [told EXCEPT ![k] = status[socket[k].job]]
  /\ UNCHANGED <<ledger, worker, stream, seen, charged, stalled, mishaps>>

Leave(k) ==
  /\ socket[k].is # "away"
  /\ socket' = [socket EXCEPT ![k] = Away]
  /\ seen' = [seen EXCEPT ![k] = <<>>] /\ told' = [told EXCEPT ![k] = "nothing"]
  /\ UNCHANGED <<ledger, worker, stream, charged, stalled, mishaps>>

-----------------------------------------------------------------------------
(* execute.                                                                  *)

\* Every 25 seconds, until the finally.
Renew(r) ==
  /\ stage[r] \in {"working", "settling", "usage"} /\ lease = r /\ expired
  /\ expired' = FALSE
  /\ UNCHANGED <<lease, row, worker, stream, viewers, charged, stalled, mishaps>>

\* The heartbeat raises, because another run has the lease or MongoDB failed, and the runner
\* is cancelled; or the runner itself raises.
WorkerFails(r) ==
  /\ stage[r] = "working" /\ r \notin sending
  /\ IF lease # r THEN UNCHANGED mishaps ELSE Mishap
  /\ status' = [status EXCEPT ![r] = "error"]
  /\ To(r, "failing")
  /\ UNCHANGED <<ledger, jobs, home, old, stream, viewers, charged, stalled>>

\* mutant: persistence_failed is not looked at
Succeeds(r, ok) == ok

FinalSuccess(r, ok) == ok /\ lost[r] = {}

\* The runner returns before a heartbeat comes.
RunnerEnds(r) ==
  /\ stage[r] = "working" /\ r \notin sending
  /\ \E ok \in BOOLEAN :
       status' = [status EXCEPT ![r] = IF FinalSuccess(r, ok) THEN "completed" ELSE "error"]
  /\ To(r, "settling")
  /\ UNCHANGED <<ledger, jobs, home, old, stream, viewers, charged, stalled, mishaps>>

\* A success is charged and says so, or says that the settlement is pending; no charge,
\* no message.
Settle(r) ==
  /\ stage[r] = "settling"
  /\ IF status[r] = "completed"
     THEN /\ charged' \in {charged, charged \cup {r}}
          /\ \/ To(r, "usage")
             \/ charged' = charged \cup {r} /\ To(r, "finishing")
     ELSE UNCHANGED charged /\ To(r, "finishing")
  /\ UNCHANGED <<ledger, jobs, home, status, old, stream, viewers, stalled, mishaps>>

\* Whatever the row says by now.
FinishRow(r) ==
  /\ stage[r] = "finishing"
  /\ row' = [row EXCEPT ![r] = status[r]]
  /\ To(r, "releasing")
  /\ UNCHANGED <<lease, expired, jobs, home, status, old, stream, viewers, charged, stalled, mishaps>>

\* mutant: the lease is deleted by project alone
DeleteAnyLease(r) ==
  /\ stage[r] = "releasing"
  /\ lease' = Nobody /\ expired' = FALSE
  /\ To(r, "closing")
  /\ UNCHANGED <<row, jobs, home, status, old, stream, viewers, charged, stalled, mishaps>>

DeleteLease(r) ==
  /\ stage[r] = "releasing"
  /\ IF lease = r THEN lease' = Nobody /\ expired' = FALSE ELSE UNCHANGED <<lease, expired>>
  /\ To(r, "closing")
  /\ UNCHANGED <<row, jobs, home, status, old, stream, viewers, charged, stalled, mishaps>>

\* finish raises in the finally: the final status is not sent.
FinishFails(r) ==
  /\ stage[r] \in {"finishing", "releasing"} /\ Mishap
  /\ To(r, "over")
  /\ UNCHANGED <<ledger, jobs, home, status, old, stream, viewers, charged, stalled>>

-----------------------------------------------------------------------------
\* The process dies, and with it the memory of its runs.
Crash(s) ==
  /\ Mishap
  /\ jobs' = [jobs EXCEPT ![s] = Nobody]
  /\ LET here == {r \in Runs : home[r] = s}
         Without(f, none) == [r \in Runs |-> IF r \in here THEN none ELSE f[r]]
     IN /\ stage' = Without(stage, "gone") /\ status' = Without(status, "running")
        /\ old' = Without(old, Nobody)
        /\ lost' = Without(lost, {})
        /\ sending' = sending \ here /\ events' = Without(events, <<>>)
  /\ LET cut == {k \in Sockets : socket[k].job # Nobody /\ home[socket[k].job] = s}
     IN /\ socket' = [k \in Sockets |-> IF k \in cut THEN Away ELSE socket[k]]
        /\ seen' = [k \in Sockets |-> IF k \in cut THEN <<>> ELSE seen[k]]
        /\ told' = [k \in Sockets |-> IF k \in cut THEN "nothing" ELSE told[k]]
  /\ UNCHANGED <<ledger, home, charged, stalled>>

\* The lease of a dead worker runs out; that of a live one only if its renewals stall.
Expire ==
  /\ lease # Nobody /\ ~expired /\ ~Alive(lease)
  /\ expired' = TRUE
  /\ UNCHANGED <<lease, row, worker, stream, viewers, charged, stalled, mishaps>>

Stall ==
  /\ lease # Nobody /\ ~expired /\ Alive(lease) /\ Mishap
  /\ expired' = TRUE
  /\ stalled' = stalled \cup {lease}
  /\ UNCHANGED <<lease, row, worker, stream, viewers, charged>>

-----------------------------------------------------------------------------
(* SecurityRunStore.latest, read through the snapshot of a process.          *)

Newest == CHOOSE r \in Runs : row[r] # "none" /\ \A q \in Runs : row[q] # "none" => q <= r

\* mutant: the row is believed without its lease
LatestRow(r) == row[r]

Latest(r) == IF row[r] = "running" /\ (lease # r \/ expired) THEN "interrupted" ELSE row[r]

Shown(s) ==
  IF jobs[s] # Nobody THEN status[jobs[s]]
  ELSE IF \A r \in Runs : row[r] = "none" THEN "none" ELSE Latest(Newest)

-----------------------------------------------------------------------------
Next ==
  \/ \E s \in Servers, r \in Runs : Start(s, r)
  \/ \E r \in Runs : MarkInterrupted(r)
  \/ \E r \in Runs : Insert(r)
  \/ \E r \in Runs : CreateFails(r)
  \/ \E r \in Runs : Persist(r)
  \/ \E r \in Runs : Publish(r)
  \/ \E r \in Runs : PersistFails(r)
  \/ \E r \in Runs : Renew(r)
  \/ \E r \in Runs : WorkerFails(r)
  \/ \E r \in Runs : RunnerEnds(r)
  \/ \E r \in Runs : Settle(r)
  \/ \E r \in Runs : FinishRow(r)
  \/ \E r \in Runs : DeleteLease(r)
  \/ \E r \in Runs : FinishFails(r)
  \/ \E k \in Sockets, s \in Servers : BeginReplay(k, s)
  \/ \E k \in Sockets : EndReplay(k)
  \/ \E k \in Sockets : Leave(k)
  \/ \E s \in Servers : Crash(s)
  \/ Expire
  \/ Stall

Spec == Init /\ [][Next]_vars

\* Scanners end, a thread's call returns, a socket takes a replay or is closed by its
\* keep-alive, asyncio's lock is first come first served, and time passes.
FairSpec ==
  /\ Spec
  /\ \A r \in Runs :
       /\ WF_vars(MarkInterrupted(r) \/ Insert(r) \/ RunnerEnds(r) \/ Publish(r) \/ Settle(r)
                   \/ FinishRow(r) \/ DeleteLease(r))
       /\ SF_vars(stage[r] # "working" /\ Persist(r))
  /\ \A k \in Sockets : WF_vars(EndReplay(k))
  /\ WF_vars(Expire)

-----------------------------------------------------------------------------
\* security_run_store.py:66: whoever changes the checkout of the project has its lease, so
\* that two never do at once, unless renewals stalled for the whole life of a lease.
WorkersHoldLease == \A r \in Runs : stage[r] = "working" /\ r \notin stalled => lease = r

\* scan_jobs.py:45: a socket that attached has the events of the job in order and without a
\* gap from its first one on, and knows the end when the job has told it.
ReplayIsWhole ==
  \A k \in Sockets : socket[k].is = "live" =>
    LET all == events[socket[k].job]
        from == Len(all) - Len(seen[k])
    IN /\ from >= 0 /\ seen[k] = SubSeq(all, from + 1, Len(all))
       /\ all # <<>> /\ all[Len(all)].is # "note" => told[k] = all[Len(all)].is

\* scan_jobs.py:100: a run that the ledger calls completed has every event of its work in
\* the ledger, and one that was charged is not called a failure, unless the message about
\* the charge itself could not be stored.
CompletedIsWhole ==
  \A r \in Runs :
    /\ row[r] = "completed" => lost[r] \subseteq {"closing"}
    /\ r \in charged /\ row[r] = "error" => "usage" \in lost[r] \/ stage[r] = "gone"

\* security_run_store.py:107: what a process answers does not stay at running, whichever
\* process dies and whatever the ledger was told last.
StatusSettles == \A s \in Servers : Shown(s) = "running" ~> Shown(s) # "running"

\* security_run_store.py:74: "An expired lease cannot be represented as a successful old
\* run."  Its own worker does just that (FinishRow) when it outlived its lease and ended
\* before the next heartbeat; no other step ever calls an interrupted run anything else.
InterruptedStays ==
  [][\A r \in Runs : row[r] = "interrupted" /\ r \notin stalled => row'[r] = "interrupted"]_vars

=============================================================================
