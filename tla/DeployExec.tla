----------------------------- MODULE DeployExec -----------------------------
(***************************************************************************)
(* Deployment execution of the Agentic Layer (deploy_exec): a graph of     *)
(* nodes takes an image to one EC2 host through SSM commands, under a      *)
(* lease on the environment, with a checkpoint file after every node, a    *)
(* cancel flag, automatic rollback, and resumption by an operator.  Every  *)
(* deployment here is of one environment and one container.                *)
(*                                                                         *)
(* A stage stands for one node, except "lock_env" (validate_contract to    *)
(* lock_env: the first three only check their input), "discover_host"      *)
(* (check_ssm and discover_host), "pull_artifact" (host_ready to           *)
(* pull_artifact: none of them touches the container) and "verify"         *)
(* (verify_runtime to smoke_test: they only read the host).                *)
(* Preflights (dry_run), which skip every stage that changes anything, are *)
(* left out.                                                               *)
(***************************************************************************)
EXTENDS Naturals, Sequences, FiniteSets

CONSTANTS
  Deployments,   \* each brings the artifact of its own name
  Old,           \* the artifact the host may run at first
  Nothing,       \* no artifact, no deployment
  Workers,       \* bound on the threads that run at a time
  Commands,      \* bound on the SSM commands in flight or unread
  MaxMishaps,    \* bound on the crashes of the process and the doubled resumptions together
  MaxErrors,     \* bound on the exceptions no node handles
  MaxCancels,    \* bound on the deployments that are cancelled
  MaxDoubled     \* bound on the resumptions of a deployment whose thread is running

ASSUME DeployAssumption ==
  /\ Deployments \cap {Old, Nothing} = {} /\ Old # Nothing
  /\ Commands \subseteq Nat /\ Nothing \notin Commands
  /\ {MaxMishaps, MaxErrors, MaxCancels, MaxDoubled} \subseteq Nat

VARIABLES
  running,     \* the artifact the host's container runs, or Nothing
  commands,    \* [Commands -> an SSM command: whose, what, of which artifact, its status]
  lock,        \* the deployment the lock file names and whose lease runs, or Nothing
  saved,       \* [Deployments -> latest.json]
  pending,     \* [Deployments -> the command pending_command.json names, or Nothing]
  cancelled,   \* the deployments with a cancel.flag
  bound,       \* the deployments with an adapter in _RUNTIME
  on,          \* [Workers -> the deployment the thread runs, or Nothing]
  mem,         \* [Workers -> the graph's state]
  at,          \* [Workers -> the stage the thread is in]
  doing,       \* [Workers -> how far it is in that stage]
  cmd,         \* [Workers -> the command it waits for, or Nothing]
  crashes, errors,
  resumed, doubled, stolen, touched, late   \* history, for the properties

host == <<running, commands>>
files == <<lock, saved, pending, cancelled>>
threads == <<on, mem, at, doing, cmd>>
history == <<resumed, doubled, stolen, touched>>
vars == <<host, files, bound, threads, crashes, errors, history, late>>

Artifacts == Deployments \cup {Old}
Stages == <<"lock_env", "discover_host", "pull_artifact",
            "stop_previous", "start_application", "verify", "complete">>
RollbackStages == {"rb_pull", "rb_stop", "rb_start", "rb_health"}
TERMINAL == {"FAILED", "CANCELLED", "COMPLETED", "ROLLED_BACK"}

\* done counts the completed_steps; RUNNING is every status from CREATED to SMOKE_TEST_PASSED.
Checkpoints ==
  [status : {"NEW", "RUNNING", "ROLLING_BACK"} \cup TERMINAL,
   done : 0 .. Len(Stages) - 1, locked : BOOLEAN, previous : Artifacts \cup {Nothing}]

Fresh(status) == [status |-> status, done |-> 0, locked |-> FALSE, previous |-> Nothing]
NoCommand == [of |-> Nothing, op |-> "stop", artifact |-> Nothing, status |-> "read"]

TypeOK ==
  /\ running \in Artifacts \cup {Nothing}
  /\ commands \in [Commands -> [of : Deployments \cup {Nothing}, op : {"stop", "start"},
                                artifact : Artifacts \cup {Nothing},
                                status : {"running", "ok", "failed", "read"}]]
  /\ lock \in Deployments \cup {Nothing}
  /\ saved \in [Deployments -> Checkpoints]
  /\ pending \in [Deployments -> Commands \cup {Nothing}]
  /\ cancelled \subseteq Deployments /\ bound \subseteq Deployments
  /\ on \in [Workers -> Deployments \cup {Nothing}]
  /\ mem \in [Workers -> Checkpoints]
  /\ at \in [Workers -> {Stages[n] : n \in 1 .. Len(Stages)} \cup RollbackStages]
  /\ doing \in [Workers -> {"enter", "pulling", "ready", "sent", "waiting", "asking", "answered", "closing"}]
  /\ cmd \in [Workers -> Commands \cup {Nothing}]
  /\ late \in BOOLEAN /\ crashes \in 0 .. MaxMishaps /\ errors \in 0 .. MaxErrors
  /\ \A w \in Workers : on[w] # Nothing /\ mem[w].status = "ROLLING_BACK" => mem[w].previous # Nothing

Init ==
  /\ running \in {Old, Nothing}
  /\ commands = [i \in Commands |-> NoCommand]
  /\ lock = Nothing
  /\ saved = [d \in Deployments |-> Fresh("NEW")]
  /\ pending = [d \in Deployments |-> Nothing]
  /\ cancelled = {} /\ bound = {}
  /\ on = [w \in Workers |-> Nothing]
  /\ mem = [w \in Workers |-> Fresh("NEW")]
  /\ at = [w \in Workers |-> "lock_env"]
  /\ doing = [w \in Workers |-> "enter"]
  /\ cmd = [w \in Workers |-> Nothing]
  /\ crashes = 0 /\ errors = 0
  /\ resumed = {} /\ doubled = {} /\ stolen = {} /\ touched = {} /\ late = FALSE

-----------------------------------------------------------------------------
\* A thread waits for the command, or a resumed one will.
Known(i) == (\E w \in Workers : cmd[w] = i) \/ (\E d \in Deployments : pending[d] = i)

\* A command still running that no thread or file will ask about, or that outlived the
\* lease it was sent under; every step notes it.
Stray ==
  \E i \in Commands : commands[i].status = "running" /\ (~Known(i) \/ lock # commands[i].of)
Noted == late' = (late \/ Stray')

-----------------------------------------------------------------------------
(* The lock file (store.py).                                                 *)

Live(d) == saved[d].status \in {"RUNNING", "ROLLING_BACK"}

\* Free, one's own, or a lease that ran out: acquire_env_lock writes the file anew.
TakesFrom(w) == {d \in Deployments \ {on[w]} : Live(d) /\ saved[d].locked}
Acquire(w) ==
  /\ lock \in {Nothing, on[w]}
  /\ lock' = on[w]
  /\ stolen' = stolen \cup TakesFrom(w)

NoHeartbeat(w) == UNCHANGED <<lock, stolen>>   \* mutant: the lease is not renewed
Heartbeat(w) == IF mem[w].locked THEN Acquire(w) ELSE UNCHANGED <<lock, stolen>>

Released(w) == IF mem[w].locked /\ lock = on[w] THEN Nothing ELSE lock

\* 180 seconds without a heartbeat: the deployment's thread is gone, or it prepares or
\* pulls, the only operations that can take longer (up to 300 seconds and three attempts).
ExpireLease ==
  /\ lock # Nothing
  /\ \A w \in Workers : on[w] = lock => doing[w] = "pulling"
  /\ lock' = Nothing
  /\ UNCHANGED <<host, saved, pending, cancelled, bound, threads, crashes, errors, history>> /\ Noted

-----------------------------------------------------------------------------
(* Threads and checkpoints.                                                  *)

Idle(w) == on[w] = Nothing
Mishaps == crashes + Cardinality(doubled)

\* Completed stages pass through, and a checkpoint that was rolling back goes straight on.
FirstStage(m) == IF m.status = "ROLLING_BACK" THEN "rb_pull" ELSE Stages[m.done + 1]

Start(w, d, m) ==
  /\ on' = [on EXCEPT ![w] = d]
  /\ mem' = [mem EXCEPT ![w] = m]
  /\ at' = [at EXCEPT ![w] = FirstStage(m)]
  /\ bound' = bound \cup {d}
  /\ UNCHANGED <<doing, cmd>>

End(w) ==
  /\ on' = [on EXCEPT ![w] = Nothing]
  /\ mem' = [mem EXCEPT ![w] = Fresh("NEW")]
  /\ at' = [at EXCEPT ![w] = "lock_env"]
  /\ doing' = [doing EXCEPT ![w] = "enter"]
  /\ cmd' = [cmd EXCEPT ![w] = Nothing]
  /\ bound' = bound \ {on[w]}

\* The thread goes on at stage s, in step k, with state m; save says whether it writes m.
Go(w, s, k, m) ==
  /\ at' = [at EXCEPT ![w] = s]
  /\ doing' = [doing EXCEPT ![w] = k]
  /\ mem' = [mem EXCEPT ![w] = m]
  /\ cmd' = [cmd EXCEPT ![w] = Nothing]
  /\ UNCHANGED <<on, bound>>

\* Of a terminal checkpoint only the status is read again.
Save(w, m) ==
  saved' = [saved EXCEPT ![on[w]] = IF m.status \in TERMINAL THEN Fresh(m.status) ELSE m]

StageDone(w, m) ==
  LET n == [m EXCEPT !.done = @ + 1]
  IN Go(w, Stages[n.done + 1], "enter", n) /\ Save(w, n)

CheckpointsFailed(w, m) ==   \* mutant: a rollback is checkpointed as the failure it is for
  Save(w, [m EXCEPT !.status = IF @ = "ROLLING_BACK" THEN "FAILED" ELSE @])
Checkpoint(w, m) == Save(w, m)

Fails(w, status) ==
  LET m == [mem[w] EXCEPT !.status = status]
  IN /\ IF status = "ROLLING_BACK" THEN Go(w, "rb_pull", "enter", m) ELSE Go(w, at[w], "closing", m)
     /\ Checkpoint(w, m)

\* A failure once the container was or may have been touched.
StartedFails(w) == Fails(w, IF mem[w].previous = Nothing THEN "FAILED" ELSE "ROLLING_BACK")

Create(w, d) ==
  /\ Idle(w)
  /\ saved[d].status = "NEW"
  /\ saved' = [saved EXCEPT ![d] = Fresh("RUNNING")]
  /\ Start(w, d, Fresh("RUNNING"))
  /\ UNCHANGED <<host, lock, pending, cancelled, crashes, errors, history>> /\ Noted

OnlyRunning(d) == saved[d].status = "RUNNING"   \* mutant: a rollback cannot be resumed
Resumable(d) == Live(d)

\* Nothing asks whether a thread of the deployment is still running.
Resume(w, d) ==
  /\ Idle(w)
  /\ Resumable(d)
  /\ (\E x \in Workers : on[x] = d) =>
       d \notin doubled /\ Cardinality(doubled) < MaxDoubled /\ Mishaps < MaxMishaps
  /\ Start(w, d, saved[d])
  /\ resumed' = resumed \cup {d}
  /\ doubled' = IF \E x \in Workers : on[x] = d THEN doubled \cup {d} ELSE doubled
  /\ UNCHANGED <<host, files, crashes, errors, stolen, touched>> /\ Noted

RequestCancel(d) ==
  /\ Live(d)   \* a flag set later is never read
  /\ Cardinality(cancelled) < MaxCancels
  /\ cancelled' = cancelled \cup {d}
  /\ UNCHANGED <<host, lock, saved, pending, bound, threads, crashes, errors, history>> /\ Noted

-----------------------------------------------------------------------------
(* The nodes before the container is touched.                                *)

At(w, s, k) == on[w] # Nothing /\ at[w] = s /\ doing[w] = k

Forward(w) == on[w] # Nothing /\ at[w] \notin RollbackStages
Enters(w, s) == At(w, s, "enter") /\ on[w] \notin cancelled
CanRun(w) == on[w] \in bound
PendingCleared(w) == pending' = [pending EXCEPT ![on[w]] = Nothing]
Started(w) == mem[w].done >= 4

AlwaysCancelled(w) == Fails(w, "CANCELLED")   \* mutant: no rollback of a started application
Cancel(w) == IF Started(w) /\ mem[w].previous # Nothing
               THEN Fails(w, "ROLLING_BACK") ELSE Fails(w, "CANCELLED")

MaybeCancel(w) ==
  /\ Forward(w) /\ at[w] # "complete" /\ doing[w] = "enter"
  /\ on[w] \in cancelled
  /\ Cancel(w)
  /\ UNCHANGED <<host, lock, pending, cancelled, crashes, errors, history>> /\ Noted

LockEnv(w) ==
  /\ Enters(w, "lock_env")
  /\ \/ /\ Acquire(w)
        /\ StageDone(w, [mem[w] EXCEPT !.locked = TRUE])
     \/ /\ lock \notin {Nothing, on[w]}
        /\ Fails(w, "FAILED")
        /\ UNCHANGED <<lock, stolen>>
  /\ UNCHANGED <<host, pending, cancelled, crashes, errors, resumed, doubled, touched>> /\ Noted

\* What the container runs becomes the artifact to go back to.
DiscoverHost(w) ==
  /\ Enters(w, "discover_host")
  /\ Heartbeat(w) /\ CanRun(w)
  /\ StageDone(w, [mem[w] EXCEPT !.previous = IF running = on[w] THEN Nothing ELSE running])
  /\ PendingCleared(w)
  /\ UNCHANGED <<host, cancelled, crashes, errors, resumed, doubled, touched>> /\ Noted

Pull(w) ==
  /\ Enters(w, "pull_artifact")
  /\ Heartbeat(w) /\ CanRun(w)
  /\ Go(w, at[w], "pulling", mem[w])
  /\ UNCHANGED <<host, saved, pending, cancelled, crashes, errors, resumed, doubled, touched>> /\ Noted

\* inspect_digest is an operation of its own, with its heartbeat.
Pulled(w) ==
  /\ At(w, "pull_artifact", "pulling")
  /\ Heartbeat(w) /\ CanRun(w)
  /\ StageDone(w, mem[w])
  /\ PendingCleared(w)
  /\ UNCHANGED <<host, cancelled, crashes, errors, resumed, doubled, touched>> /\ Noted

\* A check, the heartbeat, the adapter or a command fails.
NotReady(w) ==
  /\ \/ \E s \in {"lock_env", "discover_host", "pull_artifact"} : Enters(w, s)
     \/ At(w, "pull_artifact", "pulling")
  /\ Heartbeat(w) \/ UNCHANGED <<lock, stolen>>
  /\ Fails(w, "FAILED")
  /\ UNCHANGED <<host, pending, cancelled, crashes, errors, resumed, doubled, touched>> /\ Noted

-----------------------------------------------------------------------------
(* stop_previous_version and start_application, by the graph or a rollback.  *)

Operation(s) == IF s \in {"stop_previous", "rb_stop"} THEN "stop"
                ELSE IF s \in {"start_application", "rb_start"} THEN "start" ELSE "read"
OwnArtifact(w) == on[w]   \* mutant: a rollback starts the blueprint of the deployment
Target(w) == IF Forward(w) THEN on[w] ELSE mem[w].previous

\* A command nobody will ask about any more can give up its number.
Unused == {i \in Commands : commands[i].status # "running" /\ ~Known(i)}
FreeCommand == CHOOSE i \in Unused : \A j \in Unused : i <= j

RunOp(w) ==
  /\ on[w] # Nothing /\ doing[w] = "enter" /\ Operation(at[w]) # "read"
  /\ Forward(w) => on[w] \notin cancelled
  /\ Heartbeat(w)
  /\ Go(w, at[w], "ready", mem[w])
  /\ UNCHANGED <<host, saved, pending, cancelled, crashes, errors, resumed, doubled, touched>> /\ Noted

\* The command a thread before this one recorded is asked about instead of sent again.
HasPending(w) ==
  pending[on[w]] # Nothing /\ commands[pending[on[w]]].op = Operation(at[w])

Reconcile(w) ==
  /\ on[w] # Nothing /\ doing[w] = "ready" /\ CanRun(w)
  /\ HasPending(w)
  /\ cmd' = [cmd EXCEPT ![w] = pending[on[w]]]
  /\ doing' = [doing EXCEPT ![w] = "asking"]
  /\ UNCHANGED <<host, files, bound, on, mem, at, crashes, errors, history>> /\ Noted

MaySend(w) ==
  /\ on[w] # Nothing /\ doing[w] = "ready" /\ CanRun(w)
  /\ ~HasPending(w) /\ Unused # {}
  /\ Forward(w) => on[w] \notin cancelled

Sent(w) == commands' = [commands EXCEPT ![FreeCommand] =
  [of |-> on[w], op |-> Operation(at[w]), artifact |-> Target(w), status |-> "running"]]

Send(w) ==
  /\ MaySend(w)
  /\ Sent(w)
  /\ cmd' = [cmd EXCEPT ![w] = FreeCommand]
  /\ doing' = [doing EXCEPT ![w] = "sent"]
  /\ touched' = touched \cup {on[w]}
  /\ UNCHANGED <<running, files, bound, on, mem, at, crashes, errors, resumed, doubled, stolen>> /\ Noted

Record(w) ==
  /\ on[w] # Nothing /\ doing[w] = "sent"
  /\ pending' = [pending EXCEPT ![on[w]] = cmd[w]]
  /\ doing' = [doing EXCEPT ![w] = "waiting"]
  /\ UNCHANGED <<host, lock, saved, cancelled, bound, on, mem, at, cmd, crashes, errors, history>> /\ Noted

\* A failed operation of a rollback ends it: the environment is released first.
OpFails(w) ==
  IF Forward(w)
    THEN StartedFails(w) /\ UNCHANGED lock
    ELSE /\ Go(w, at[w], "closing", [mem[w] EXCEPT !.status = "FAILED"])
         /\ lock' = Released(w)
         /\ UNCHANGED saved

\* Only stop_previous passes the lock's error on, and that one does not roll back.
EnvironmentLocked(w) ==
  /\ on[w] # Nothing /\ doing[w] = "enter" /\ Operation(at[w]) # "read"
  /\ Forward(w) => on[w] \notin cancelled
  /\ mem[w].locked /\ lock \notin {Nothing, on[w]}
  /\ IF at[w] = "stop_previous" THEN Fails(w, "FAILED") /\ UNCHANGED lock ELSE OpFails(w)
  /\ UNCHANGED <<host, pending, cancelled, crashes, errors, history>> /\ Noted

\* No adapter, a cancel flag since the node was entered, or an error of the API: then the
\* command may have been sent all the same.
SendFails(w) ==
  /\ on[w] # Nothing /\ doing[w] = "ready"
  /\ OpFails(w)
  /\ \/ UNCHANGED <<commands, touched>>
     \/ /\ MaySend(w) /\ ~late
        /\ Sent(w)
        /\ touched' = touched \cup {on[w]}
  /\ UNCHANGED <<running, pending, cancelled, crashes, errors, resumed, doubled, stolen>> /\ Noted

Waits(w) == on[w] # Nothing /\ doing[w] \in {"waiting", "asking"}

\* execute clears pending_command.json whatever comes, the thread that reconciles only
\* when the command succeeded.
Unrecorded(w) == IF doing[w] = "waiting" THEN PendingCleared(w) ELSE UNCHANGED pending
Read(w) ==
  commands' = [commands EXCEPT ![cmd[w]] =
    IF (\E x \in Workers \ {w} : cmd[x] = cmd[w]) \/ (\E d \in Deployments : pending'[d] = cmd[w])
      THEN @ ELSE NoCommand]

\* The file goes before the checkpoint is written.
Succeeded(w) ==
  /\ Waits(w)
  /\ commands[cmd[w]].status = "ok"
  /\ PendingCleared(w) /\ Read(w)
  /\ Go(w, at[w], "answered", mem[w])
  /\ UNCHANGED <<running, lock, saved, cancelled, crashes, errors, history>> /\ Noted

CommandFailed(w) ==
  /\ Waits(w)
  /\ commands[cmd[w]].status = "failed"
  /\ Unrecorded(w) /\ Read(w)
  /\ OpFails(w)
  /\ UNCHANGED <<running, cancelled, crashes, errors, history>> /\ Noted

\* The deadline passes and the command runs on.
TimeOut(w) ==
  /\ Waits(w)
  /\ commands[cmd[w]].status = "running"
  /\ ~late
  /\ Unrecorded(w)
  /\ OpFails(w)
  /\ UNCHANGED <<host, cancelled, crashes, errors, history>> /\ Noted

OpDone(w) ==
  /\ on[w] # Nothing /\ doing[w] = "answered"
  /\ IF Forward(w)
       THEN StageDone(w, mem[w])
       ELSE /\ Go(w, IF at[w] = "rb_stop" THEN "rb_start" ELSE "rb_health", "enter", mem[w])
            /\ UNCHANGED saved
  /\ UNCHANGED <<host, lock, pending, cancelled, crashes, errors, history>> /\ Noted

-----------------------------------------------------------------------------
(* The host.                                                                 *)

Settle(i, status) ==
  commands' = [commands EXCEPT ![i] = IF Known(i) THEN [@ EXCEPT !.status = status] ELSE NoCommand]

\* start does nothing if the artifact runs already; else it removes the container first.
HostRuns(i) ==
  LET c == commands[i]
  IN /\ c.status = "running"
     /\ \/ c.op = "stop" /\ running' = Nothing /\ Settle(i, "ok")
        \/ c.op = "start" /\ running' = c.artifact /\ Settle(i, "ok")
        \/ c.op = "start" /\ running # c.artifact /\ running' = Nothing /\ Settle(i, "failed")
        \/ UNCHANGED running /\ Settle(i, "failed")   \* undelivered
     /\ UNCHANGED <<files, bound, threads, crashes, errors, history>> /\ Noted

-----------------------------------------------------------------------------
(* Verification, the end, the rollback around its operations.                *)

\* The container is there and the health check answers; neither asks which image it is.
Verify(w) ==
  /\ Enters(w, "verify")
  /\ Heartbeat(w) /\ CanRun(w)
  /\ running # Nothing
  /\ StageDone(w, mem[w])
  /\ PendingCleared(w)
  /\ UNCHANGED <<host, cancelled, crashes, errors, resumed, doubled, touched>> /\ Noted

\* The failure of every check, the lock's too, becomes a failed start or health check.
VerifyFails(w) ==
  /\ Enters(w, "verify")
  /\ Heartbeat(w) \/ UNCHANGED <<lock, stolen>>
  /\ StartedFails(w)
  /\ UNCHANGED <<host, pending, cancelled, crashes, errors, resumed, doubled, touched>> /\ Noted

\* complete looks at neither the cancel flag nor the lock it releases.
Complete(w) ==
  /\ At(w, "complete", "enter")
  /\ lock' = Released(w)
  /\ Go(w, at[w], "closing", [mem[w] EXCEPT !.status = "COMPLETED"])
  /\ UNCHANGED <<host, saved, pending, cancelled, crashes, errors, history>> /\ Noted

RollbackPull(w) ==
  /\ At(w, "rb_pull", "enter")
  /\ Heartbeat(w) /\ CanRun(w)
  /\ Go(w, at[w], "pulling", mem[w])
  /\ UNCHANGED <<host, saved, pending, cancelled, crashes, errors, resumed, doubled, touched>> /\ Noted

RollbackPulled(w) ==
  /\ At(w, "rb_pull", "pulling")
  /\ Heartbeat(w) /\ CanRun(w)
  /\ Go(w, "rb_stop", "enter", mem[w])
  /\ PendingCleared(w)
  /\ UNCHANGED <<host, saved, cancelled, crashes, errors, resumed, doubled, touched>> /\ Noted

RollbackHealth(w) ==
  /\ At(w, "rb_health", "enter")
  /\ CanRun(w) /\ lock \in {Nothing, on[w]}
  /\ running # Nothing
  /\ lock' = Nothing
  /\ stolen' = stolen \cup TakesFrom(w)
  /\ Go(w, at[w], "closing", [mem[w] EXCEPT !.status = "ROLLED_BACK"])
  /\ PendingCleared(w)
  /\ UNCHANGED <<host, saved, cancelled, crashes, errors, resumed, doubled, touched>> /\ Noted

RollbackFails(w) ==
  /\ At(w, "rb_pull", "enter") \/ At(w, "rb_pull", "pulling") \/ At(w, "rb_health", "enter")
  /\ OpFails(w)
  /\ UNCHANGED <<host, pending, cancelled, crashes, errors, history>> /\ Noted

\* The history of a deployment that ended is not needed.
Forget(w) ==
  /\ resumed' = resumed \ {on[w]}
  /\ stolen' = stolen \ {on[w]}
  /\ touched' = touched \ {on[w]}
  /\ UNCHANGED doubled

\* The last checkpoint; fail_finalize releases the environment with it.
Close(w) ==
  /\ on[w] # Nothing /\ doing[w] = "closing"
  /\ Save(w, [mem[w] EXCEPT !.locked = FALSE])
  /\ lock' = IF Forward(w) /\ mem[w].status # "COMPLETED" THEN Released(w) ELSE lock
  /\ End(w) /\ Forget(w)
  /\ UNCHANGED <<host, pending, cancelled, crashes, errors>> /\ Noted

\* An exception no node handles: _invoke checkpoints FAILED and releases nothing.
Throw(w) ==
  /\ on[w] # Nothing /\ doing[w] \in {"enter", "ready", "answered"}
  /\ errors < MaxErrors
  /\ errors' = errors + 1
  /\ Save(w, [mem[w] EXCEPT !.status = "FAILED"])
  /\ End(w) /\ Forget(w)
  /\ UNCHANGED <<host, lock, pending, cancelled, crashes>> /\ Noted

\* The process dies: every thread and _RUNTIME are gone, the files stay.
Crash ==
  /\ Mishaps < MaxMishaps
  /\ \E w \in Workers : ~Idle(w)
  /\ crashes' = crashes + 1
  /\ on' = [w \in Workers |-> Nothing]
  /\ mem' = [w \in Workers |-> Fresh("NEW")]
  /\ at' = [w \in Workers |-> "lock_env"]
  /\ doing' = [w \in Workers |-> "enter"]
  /\ cmd' = [w \in Workers |-> Nothing]
  /\ bound' = {}
  /\ UNCHANGED <<host, files, errors, history>> /\ Noted

-----------------------------------------------------------------------------
ThreadStep(w) ==
  \/ MaybeCancel(w) \/ LockEnv(w) \/ DiscoverHost(w) \/ Pull(w) \/ Pulled(w) \/ NotReady(w)
  \/ RunOp(w) \/ Reconcile(w) \/ Send(w) \/ Record(w) \/ EnvironmentLocked(w) \/ SendFails(w)
  \/ Succeeded(w) \/ CommandFailed(w) \/ TimeOut(w) \/ OpDone(w)
  \/ Verify(w) \/ VerifyFails(w) \/ Complete(w) \/ Close(w)
  \/ RollbackPull(w) \/ RollbackPulled(w) \/ RollbackHealth(w) \/ RollbackFails(w)

Next ==
  \/ \E w \in Workers :
       \/ \E d \in Deployments : Create(w, d) \/ Resume(w, d)
       \/ ThreadStep(w) \/ Throw(w)
  \/ \E d \in Deployments : RequestCancel(d)
  \/ \E i \in Commands : HostRuns(i)
  \/ ExpireLease \/ Crash

Spec == Init /\ [][Next]_vars

\* A thread that can go on does, the host or SSM ends every command, and an operator
\* resumes a deployment that has no thread.
Fairness ==
  /\ \A w \in Workers : WF_vars(ThreadStep(w))
  /\ \A i \in Commands : WF_vars(HostRuns(i))
  /\ \A d \in Deployments :
       SF_vars((\A x \in Workers : on[x] # d) /\ (\E w \in Workers : Resume(w, d)))

FairSpec == Spec /\ Fairness

-----------------------------------------------------------------------------
(* What a deployment promises.                                               *)

\* A stop or start is only sent by the deployment the lock file names ("Another deployment
\* is already modifying this environment", codes.py), also after a crash and a lost lease;
\* two threads of one deployment can release the lock under each other.
MutatesUnderLock ==
  [][\A i \in Commands :
       commands'[i].status = "running" /\ commands[i].status # "running"
       /\ commands'[i].of \notin doubled => lock = commands'[i].of]_vars

\* The environment is handed over as the record says: COMPLETED with the deployment's own
\* artifact in the container, ROLLED_BACK with the one before.  Not promised with commands
\* that outlive their deadline or lease, nor when a deployment is completed that was
\* resumed after another one had the environment.
HandsOverWhatItSays ==
  [][\A w \in Workers :
       LET d == on[w]
           ends(s) == mem'[w].status = s /\ mem[w].status # s
       IN d \notin doubled /\ ~late =>
            /\ ends("COMPLETED") /\ d \notin resumed \cap stolen => running = d
            /\ ends("ROLLED_BACK") => running = mem[w].previous]_vars

\* A terminal status is final unless two threads ran the deployment at once.
TerminalIsFinal ==
  [][\A d \in Deployments \ doubled :
       saved[d].status \in TERMINAL => saved'[d].status = saved[d].status]_vars

\* A deployment reported as cancelled that knew what to go back to has sent nothing to the
\* host; one that has is rolled back (test_cancel_after_start_rolls_back).
CancelledIsUntouched ==
  [][\A w \in Workers :
       mem'[w].status = "CANCELLED" /\ mem[w].status # "CANCELLED"
       /\ mem[w].previous # Nothing /\ on[w] \notin resumed => on[w] \notin touched]_vars

\* Whatever step the process dies in, a deployment that is resumed ends.
ResumedEnds == \A d \in Deployments : saved[d].status # "NEW" ~> saved[d].status \in TERMINAL
=============================================================================
