----------------------------- MODULE Remediation -----------------------------
(***************************************************************************)
(* Remediation of one project in the Agentic Layer.  An HTTP request       *)
(* (validate_remediation) admits a run and retires the one before it; a    *)
(* browser's socket starts a runner for the admitted run, or reconnects to *)
(* the runner that is active; the runner generates patches in rounds, asks *)
(* for a decision after each and for an approval at the end, and opens a   *)
(* pull request.                                                           *)
(*                                                                         *)
(* All of it is one asyncio process, so a step below runs from one await   *)
(* to the next.  What is handed to a thread - the status written to the    *)
(* journal, the pull request - goes on when the task that waits for it is  *)
(* cancelled.  Patches are abstracted to whether some of them are accepted *)
(* and whether some are not in the working tree yet.                       *)
(***************************************************************************)
EXTENDS Integers, FiniteSets

CONSTANTS
  Sockets,      \* browser tabs
  MaxRuns,      \* bound on the runs begun
  MaxRunners,   \* bound on the runners created
  MaxRounds,    \* MAX_ROUNDS (24)
  MaxFaults     \* bound on restarts and lost answers of GitHub

ASSUME RemediationAssumption ==
  /\ {MaxRuns, MaxRunners, MaxRounds} \subseteq Nat \ {0}
  /\ MaxFaults \in Nat

Runs == 1 .. MaxRuns
Runners == 1 .. MaxRunners
None == 0

NoContext == [run |-> None, resume |-> FALSE]

VARIABLES
  open, starting,       \* sockets; the runner whose start a socket announces
  retiring, resuming,   \* the runner an HTTP request joins; the run it resumes
  context, active,      \* remediation_contexts, active_remediations
  runs, status,         \* the journal: number of runs, their status
  candidates,           \* runs with saved patches
  workspaces,           \* runs whose checkout exists
  runners, runner,      \* runner objects
  writing,              \* status writes in a thread, of the runner and of a command
  faults,
  displaced, revoked    \* for the properties: see Displace, Overrule

session == <<open, starting, retiring, resuming, runs, runners, displaced>>
journal == <<candidates, workspaces>>
vars == <<session, context, active, status, journal, runner, writing, faults, revoked>>

Unborn == [run |-> None, resume |-> FALSE, at |-> "none", cancelled |-> "no",
           asks |-> "nothing", pending |-> "nothing", accepted |-> FALSE,
           fresh |-> FALSE, round |-> 1, good |-> FALSE, opening |-> "no"]

\* What is left of a runner whose task is done.
Gone(r) == [Unborn EXCEPT !.run = runner[r].run, !.at = "done", !.opening = runner[r].opening]

Init ==
  /\ open = {} /\ starting = [s \in Sockets |-> None]
  /\ retiring = None /\ resuming = None
  /\ context = NoContext /\ active = None
  /\ runs = 0 /\ status = [u \in Runs |-> "queued"]
  /\ candidates = {} /\ workspaces = {}
  /\ runners = 0 /\ runner = [r \in Runners |-> Unborn]
  /\ writing = [r \in Runners |-> [runner |-> "nothing", command |-> "nothing"]]
  /\ faults = 0 /\ displaced = {} /\ revoked = {}

\* The task exists and is not done.
Alive(r) == r # None /\ runner[r].at \notin {"none", "created", "done"}
Taskless(r) == r # None /\ runner[r].at = "created"

\* A socket is about to create its task.
Announced(r) == \E s \in Sockets : r # None /\ starting[s] = r

\* The runners that will run, or do, without being registered.
Displace == displaced' = IF Announced(active) THEN displaced \cup {active} ELSE displaced

\* mark_status sets whatever it is told; Overrule when it is told by a cancellation or
\* by a write that outlived the work of its runner.
Mark(u, s) == status' = [status EXCEPT ![u] = s] /\ UNCHANGED revoked
Overrule(u, s) ==
  /\ status' = [status EXCEPT ![u] = s]
  /\ revoked' = IF status[u] = "completed" /\ s # "completed" THEN revoked \cup {u} ELSE revoked

\* The end of run_workflow forgets the project's runner and context, whoever's they are.
Forget == context' = NoContext /\ active' = None

FlagOnly(r) == [runner EXCEPT ![r].cancelled = "flag"]   \* mutant: the task is not cancelled
Cancelled(r) == [runner EXCEPT ![r].cancelled = IF Alive(r) THEN "task" ELSE "flag"]

-----------------------------------------------------------------------------
(* The HTTP request.                                                         *)

MayAlways(u) == TRUE   \* mutant: completed runs are not refused
MayResume(u) == status[u] # "completed"

Accept(resumed) ==
  /\ runs' = IF resumed = None THEN runs + 1 ELSE runs
  /\ context' = IF resumed = None THEN [run |-> runs + 1, resume |-> FALSE]
                                  ELSE [run |-> resumed, resume |-> TRUE]

Retire(p) ==
  /\ Overrule(runner[p].run, "cancelled")
  /\ active' = IF active = p THEN None ELSE active

\* Requests of a project wait for each other.
RequestStart(resumed) ==
  /\ retiring = None
  /\ IF resumed = None THEN runs < MaxRuns ELSE resumed = runs /\ MayResume(resumed)
  /\ IF Alive(active)
       THEN /\ runner' = Cancelled(active)
            /\ retiring' = active /\ resuming' = resumed
            /\ UNCHANGED <<context, active, runs, status, displaced, revoked>>
       ELSE /\ Accept(resumed)
            /\ IF active = None
                 THEN UNCHANGED <<active, status, runner, displaced, revoked>>
                 ELSE /\ Retire(active)
                      /\ runner' = IF Taskless(active) THEN Cancelled(active) ELSE runner
                      /\ Displace
            /\ UNCHANGED <<retiring, resuming>>
  /\ UNCHANGED <<open, starting, journal, runners, writing, faults>>

\* The task of the previous runner is done.
Joined ==
  /\ retiring # None /\ ~Alive(retiring)
  /\ Retire(retiring)
  /\ Accept(resuming)
  /\ retiring' = None /\ resuming' = None
  /\ UNCHANGED <<open, starting, journal, runners, runner, writing, faults, displaced>>

-----------------------------------------------------------------------------
(* The sockets.                                                              *)

Connect(s) ==
  /\ s \notin open
  /\ open' = open \cup {s}
  /\ UNCHANGED <<starting, retiring, resuming, context, active, runs, status, journal, runners,
                 runner, writing, faults, displaced, revoked>>

\* A socket that closes, also while it announces a start, cleans up what seems unused.
Disconnect(s) ==
  /\ s \in open
  /\ open' = open \ {s}
  /\ starting' = [starting EXCEPT ![s] = None]
  /\ IF active = None
       THEN context' = NoContext /\ UNCHANGED active
       ELSE IF runner[active].at = "done" THEN Forget ELSE UNCHANGED <<context, active>>
  /\ UNCHANGED <<retiring, resuming, runs, status, journal, runners, runner, writing, faults,
                 displaced, revoked>>

Listens(s) == s \in open /\ starting[s] = None

\* "start" without a live runner; with one it only reconnects.  The runner is
\* registered before its task exists: a second start in between displaces it.
Start(s) ==
  /\ Listens(s)
  /\ ~Alive(active)
  /\ Displace
  /\ IF context = NoContext
       THEN active' = None /\ UNCHANGED <<starting, runners, runner>>
       ELSE /\ runners < MaxRunners
            /\ runners' = runners + 1
            /\ active' = runners + 1
            /\ starting' = [starting EXCEPT ![s] = runners + 1]
            /\ runner' = [runner EXCEPT ![runners + 1] =
                 [Unborn EXCEPT !.run = context.run, !.resume = context.resume, !.at = "created"]]
  /\ UNCHANGED <<open, retiring, resuming, context, runs, status, journal, writing, faults, revoked>>

\* The socket has told the browser "running" and creates the task.
CreateTask(s) ==
  /\ starting[s] # None
  /\ runner' = [runner EXCEPT ![starting[s]].at = "scheduled"]
  /\ starting' = [starting EXCEPT ![s] = None]
  /\ UNCHANGED <<open, retiring, resuming, context, active, runs, status, journal, runners, writing,
                 faults, displaced, revoked>>

Cancel(s) ==
  /\ Listens(s) /\ (Alive(active) \/ Taskless(active))
  /\ runner' = Cancelled(active)
  /\ UNCHANGED <<session, context, active, status, journal, writing, faults, revoked>>

StillAsking(r, c) == [runner EXCEPT ![r].pending = c]   \* mutant: a second click counts too
Answered(r, c) == [runner EXCEPT ![r].pending = c, ![r].asks = "nothing"]

\* handle_command of the active runner; an answer it has not asked for is ignored.
Command(s, c) ==
  /\ Listens(s) /\ active # None
  /\ runner[active].asks = IF c = "approve" THEN "approval" ELSE "decision"
  /\ runner' = Answered(active, c)
  /\ writing' = IF c = "approve" THEN [writing EXCEPT ![active].command = "running"] ELSE writing
  /\ UNCHANGED <<session, context, active, status, journal, faults, revoked>>

-----------------------------------------------------------------------------
(* The runner.                                                               *)

\* The runner is at a place of its pipeline and no thread of its own holds it up.
At(r, place) ==
  /\ runner[r].at = place
  /\ runner[r].cancelled # "task"
  /\ writing[r].runner = "nothing"

Send(r, s) == writing' = [writing EXCEPT ![r].runner = s]

RunnerOnly == UNCHANGED <<session, context, active, faults>>

\* _terminate; the pipeline returns False once the status is written.
Terminate(r) ==
  /\ runner' = [runner EXCEPT ![r].at = "failing", ![r].pending = "nothing"]
  /\ Send(r, "failed")
  /\ UNCHANGED <<status, journal, revoked>>

\* The pipeline returns, and run_workflow marks the run.
Return(r, good) ==
  /\ Mark(runner[r].run, IF good THEN "completed" ELSE "failed")
  /\ runner' = [runner EXCEPT ![r].at = "settling", ![r].good = good, ![r].pending = "nothing"]
  /\ UNCHANGED <<journal, writing>>

\* The event loop is first come, first served: who joins a task that is done goes on
\* before the first step of a task made after it.
FirstStep(r) ==
  /\ At(r, "scheduled")
  /\ retiring \notin 1 .. r - 1
  /\ runner' = [runner EXCEPT ![r].at = "begin"]
  /\ UNCHANGED <<status, journal, writing, revoked>> /\ RunnerOnly

\* A run works in a checkout of its own, which nobody may have made before.
Begin(r) ==
  /\ At(r, "begin") /\ ~runner[r].resume
  /\ LET u == runner[r].run IN
     \/ Terminate(r)
     \/ Return(r, FALSE)
     \/ /\ runner[r].cancelled = "no" /\ u \notin workspaces
        /\ workspaces' = workspaces \cup {u}
        /\ runner' = [runner EXCEPT ![r].at = "round"]
        /\ Send(r, "running")
        /\ UNCHANGED <<status, candidates, revoked>>
  /\ RunnerOnly

\* A resumed run takes the patches saved by an earlier runner to their review.
Restore(r) ==
  /\ At(r, "begin") /\ runner[r].resume
  /\ \/ Terminate(r)
     \/ Return(r, FALSE)
     \/ /\ runner[r].cancelled = "no" /\ runner[r].run \in candidates
        /\ runner' = [runner EXCEPT ![r].at = "review", ![r].fresh = TRUE]
        /\ UNCHANGED <<status, journal, writing, revoked>>
  /\ RunnerOnly

Ask(r, place, what, s) ==
  /\ runner' = [runner EXCEPT ![r].at = place, ![r].asks = what, ![r].fresh = TRUE]
  /\ Send(r, s)

\* Nothing left to fix ends the run well, accepted patches or not; a round
\* without new patches goes on to the review of those it does not have.
Round(r) ==
  /\ At(r, "round")
  /\ \/ Terminate(r)
     \/ Return(r, TRUE)
     \/ /\ runner' = [runner EXCEPT ![r].at = "pause", ![r].asks = "decision"]
        /\ Send(r, "waiting_decision")
        /\ UNCHANGED <<status, journal, revoked>>
     \/ /\ runner[r].accepted
        /\ runner' = [runner EXCEPT ![r].at = "review", ![r].fresh = FALSE]
        /\ UNCHANGED <<status, journal, writing, revoked>>
     \/ /\ Ask(r, "decide", "decision", "waiting_decision")
        /\ candidates' = candidates \cup {runner[r].run}
        /\ UNCHANGED <<status, workspaces, revoked>>
  /\ RunnerOnly

\* After a rate limit only "continue" goes on.
Resume(r) ==
  /\ At(r, "pause") /\ runner[r].pending # "nothing"
  /\ IF runner[r].pending = "continue"
       THEN /\ runner' = [runner EXCEPT ![r].at = "round", ![r].pending = "nothing"]
            /\ UNCHANGED <<status, journal, writing, revoked>>
       ELSE Terminate(r)
  /\ RunnerOnly

Decide(r) ==
  /\ At(r, "decide") /\ runner[r].pending # "nothing"
  /\ runner' = [runner EXCEPT ![r].pending = "nothing", ![r].at =
       IF runner[r].pending = "continue" /\ runner[r].round < MaxRounds THEN "apply" ELSE "review"]
  /\ Send(r, "running")
  /\ UNCHANGED <<status, journal, revoked>> /\ RunnerOnly

\* The round's patches go into the working tree, and the scanners run again.
ApplyPatches(r) ==
  /\ At(r, "apply")
  /\ \/ Terminate(r)
     \/ Return(r, FALSE)
     \/ \E left \in BOOLEAN :
          /\ runner' = [runner EXCEPT ![r].at = "round", ![r].round = @ + 1,
                                      ![r].accepted = TRUE, ![r].fresh = left]
          /\ UNCHANGED <<status, journal, writing, revoked>>
  /\ RunnerOnly

\* Patches that do not apply to the working tree, as those already in it, are
\* excluded; without any other there is nothing to approve.
Review(r) ==
  /\ At(r, "review")
  /\ \/ Terminate(r)
     \/ /\ runner[r].fresh
        /\ Ask(r, "approval", "approval", "waiting_approval")
        /\ UNCHANGED <<status, journal, revoked>>
  /\ RunnerOnly

Approve(r) ==
  /\ At(r, "approval") /\ runner[r].pending # "nothing"
  /\ IF runner[r].pending = "approve"
       THEN /\ runner' = [runner EXCEPT ![r].at = "persist", ![r].pending = "nothing"]
            /\ Send(r, "running")
            /\ UNCHANGED <<status, journal, revoked>>
       ELSE Return(r, FALSE)
  /\ RunnerOnly

\* The approved patches are applied and scanned; a project that is not on GitHub
\* is done, one that is asks a thread to open the pull request.
Persist(r) ==
  /\ At(r, "persist")
  /\ \/ Terminate(r)
     \/ \E good \in BOOLEAN : Return(r, good)
     \/ /\ runner' = [runner EXCEPT ![r].at = "publish", ![r].opening = "asked"]
        /\ UNCHANGED <<status, journal, writing, revoked>>
  /\ RunnerOnly

\* create_pr in its thread: the pull request exists and the answer comes back,
\* or is lost on the way; or a step before it fails.
OpenPullRequest(r) ==
  /\ runner[r].opening = "asked"
  /\ \/ /\ \E o \in {"opened", "refused"} : runner' = [runner EXCEPT ![r].opening = o]
        /\ UNCHANGED faults
     \/ /\ faults < MaxFaults
        /\ faults' = faults + 1
        /\ runner' = [runner EXCEPT ![r].opening = "lost"]
  /\ UNCHANGED <<session, context, active, status, journal, writing, revoked>>

Published(r) ==
  /\ At(r, "publish") /\ runner[r].opening # "asked"
  /\ IF runner[r].opening = "opened"
       THEN /\ Mark(runner[r].run, "completed")
            /\ runner' = [runner EXCEPT ![r].at = "settling", ![r].good = TRUE, ![r].opening = "seen"]
            /\ UNCHANGED <<journal, writing>>
       ELSE Terminate(r)
  /\ RunnerOnly

\* The pipeline has returned False after _terminate.
Failed(r) ==
  /\ At(r, "failing")
  /\ Return(r, FALSE)
  /\ RunnerOnly

\* The charge (which resumed runs do not have), then the last status.
Settle(r) ==
  /\ At(r, "settling")
  /\ runner' = [runner EXCEPT ![r].at = "closing"]
  /\ Send(r, IF runner[r].good THEN "completed" ELSE "failed")
  /\ UNCHANGED <<status, journal, revoked>> /\ RunnerOnly

Close(r) ==
  /\ At(r, "closing")
  /\ runner' = [runner EXCEPT ![r] = Gone(r)]
  /\ Forget
  /\ UNCHANGED <<session, status, journal, writing, faults, revoked>>

\* A cancelled task ends wherever it is; one that never ran has no finally.
Unwind(r) ==
  /\ Alive(r) /\ runner[r].cancelled = "task"
  /\ runner' = [runner EXCEPT ![r] = Gone(r)]
  /\ IF runner[r].at = "scheduled"
       THEN UNCHANGED <<context, active, status, revoked>>
       ELSE Overrule(runner[r].run, "cancelled") /\ Forget
  /\ UNCHANGED <<session, journal, writing, faults>>

\* A status write reaches the journal, perhaps long after its task is gone.
Land(r, who) ==
  /\ writing[r][who] # "nothing"
  /\ IF runner[r].at \in {"settling", "closing", "done"}
       THEN Overrule(runner[r].run, writing[r][who])
       ELSE Mark(runner[r].run, writing[r][who])
  /\ writing' = [writing EXCEPT ![r][who] = "nothing"]
  /\ UNCHANGED <<session, context, active, journal, runner, faults>>

\* The process restarts: only the journal and the checkouts are left.
Restart ==
  /\ faults < MaxFaults
  /\ faults' = faults + 1
  /\ open' = {} /\ starting' = [s \in Sockets |-> None]
  /\ retiring' = None /\ resuming' = None
  /\ Forget
  /\ runner' = [r \in Runners |-> IF runner[r].at = "none" THEN Unborn ELSE
       [Gone(r) EXCEPT !.opening = IF @ = "asked" THEN "no" ELSE @]]
  /\ writing' = [r \in Runners |-> [runner |-> "nothing", command |-> "nothing"]]
  /\ UNCHANGED <<runs, status, journal, runners, displaced, revoked>>

-----------------------------------------------------------------------------
Next ==
  \/ \E u \in 0 .. runs : RequestStart(u)
  \/ Joined
  \/ \E s \in Sockets :
       \/ Connect(s) \/ Disconnect(s) \/ Start(s) \/ CreateTask(s) \/ Cancel(s)
       \/ \E c \in {"continue", "push", "approve"} : Command(s, c)
  \/ \E r \in Runners :
       \/ FirstStep(r) \/ Begin(r) \/ Restore(r) \/ Round(r) \/ Resume(r) \/ Decide(r)
       \/ ApplyPatches(r) \/ Review(r) \/ Approve(r) \/ Persist(r) \/ OpenPullRequest(r) \/ Published(r)
       \/ Failed(r) \/ Settle(r) \/ Close(r) \/ Unwind(r)
       \/ \E who \in {"runner", "command"} : Land(r, who)
  \/ Restart

Spec == Init /\ [][Next]_vars

\* The event loop delivers a cancellation and wakes whoever waits for the task.
FairSpec == Spec /\ WF_vars(Joined) /\ \A r \in Runners : WF_vars(Unwind(r))

-----------------------------------------------------------------------------
(* Properties.                                                               *)

\* A runner that waits for its user can be answered: commands reach it, and what
\* it finds is an answer to what it asked, never the leftover of an earlier
\* question.  Only a runner displaced by a second start can be out of reach
\* (a reconnect attaches to the active run, docs/architecture.md).
Waiting(r) == runner[r].at \in {"pause", "decide", "approval"} /\ runner[r].cancelled = "no"
WaitingIsAnswerable ==
  \A r \in Runners : Waiting(r) =>
    /\ active = r \/ displaced # {}
    /\ runner[r].pending \in IF runner[r].at = "approval" THEN {"nothing", "approve"}
                                                            ELSE {"nothing", "continue", "push"}

\* A run gets one pull request, although it can be resumed: a second one only if
\* nobody saw the first come back - the task was cancelled, the process died or
\* the answer was lost - or "completed" was overruled in the journal by a
\* cancellation while the run was settled, by a write that came late, or by the
\* other runner when two starts of the run raced.
Opened(u) == {r \in Runners : runner[r].run = u /\ runner[r].opening \in {"opened", "lost", "seen"}}
PublishedOnce ==
  \A u \in Runs : \A r, q \in Opened(u) :
    r # q /\ u \notin revoked /\ displaced = {} => "seen" # runner[r].opening \/ "seen" # runner[q].opening

\* A start request that retires a runner is answered, whatever the runner waits for.
EveryStartIsAnswered == retiring # None ~> retiring = None
=============================================================================
