------------------------- MODULE Remediation_proofs -------------------------
(***************************************************************************)
(* A runner that waits for its user can be answered (WaitingIsAnswerable), *)
(* and a run gets one pull request (PublishedOnce), for any number of      *)
(* tabs, runs, runners and rounds.                                         *)
(*                                                                         *)
(* The first inductive invariant, Inv, says two things.  Alone: as long as *)
(* no start has displaced another, the only runner that runs, or that a    *)
(* socket is about to run, is the registered one; this needs that every    *)
(* socket announces a runner of its own which has no task yet.  Talks:     *)
(* what a runner asks and what it was answered belong to the place it is   *)
(* at.                                                                     *)
(*                                                                         *)
(* The second, More, rests on it.  Books: the rows and the runners name    *)
(* runs that exist.  Queue: while a request joins a runner that ends,      *)
(* nobody else is past being scheduled.  Final: a run whose pull request   *)
(* came back stays completed, and nobody can start it again.               *)
(***************************************************************************)
EXTENDS Remediation, TLAPS

USE RemediationAssumption

Live == {"scheduled", "begin", "round", "pause", "decide", "apply", "review", "approval",
         "persist", "publish", "failing", "settling", "closing"}

Runner == [run : Nat, resume : BOOLEAN, at : Live \cup {"none", "created", "done"},
           cancelled : {"no", "flag", "task"}, asks : {"nothing", "decision", "approval"},
           pending : {"nothing", "continue", "push", "approve"}, accepted : BOOLEAN,
           fresh : BOOLEAN, round : Nat, good : BOOLEAN,
           opening : {"no", "asked", "opened", "refused", "lost", "seen"}]

Types ==
  /\ starting \in [Sockets -> Runners \cup {None}]
  /\ retiring \in Runners \cup {None}
  /\ active \in Runners \cup {None}
  /\ context \in [run : Nat, resume : BOOLEAN]
  /\ {runs, resuming} \subseteq Nat
  /\ runners \in 0 .. MaxRunners
  /\ runner \in [Runners -> Runner]

Alone ==
  /\ \A r \in Runners : runner[r].at # "none" => r <= runners
  /\ \A s \in Sockets : starting[s] # None => runner[starting[s]].at = "created"
  /\ \A s, t \in Sockets : starting[s] = starting[t] /\ starting[s] # None => s = t
  /\ retiring # None => runner[retiring].at \in Live \cup {"done"}
  /\ displaced = {} => \A r \in Runners : runner[r].at \in Live \/ Announced(r) => active = r

Talks(x) ==
  /\ x.asks = "decision" => x.at \in {"pause", "decide"}
  /\ x.asks = "approval" => x.at = "approval"
  /\ x.pending # "nothing" => x.asks = "nothing"
  /\ x.pending \in {"continue", "push"} => x.at \in {"pause", "decide"}
  /\ x.pending = "approve" => x.at = "approval"

Inv == Types /\ Alone /\ \A r \in Runners : Talks(runner[r])

-----------------------------------------------------------------------------
LEMMA LiveIsAlive == ASSUME Types, NEW r \in Runners PROVE Alive(r) <=> runner[r].at \in Live
BY DEF Types, Alive, Live, Runner, Runners, None

LEMMA InitInv == Init => Inv
BY DEF Init, Inv, Types, Alone, Talks, Runner, Unborn, Runners, None, NoContext, Announced, Live

LEMMA Put ==
  ASSUME Types, NEW r \in Runners, NEW x \in Runner, runner' = [runner EXCEPT ![r] = x]
  PROVE  /\ runner' \in [Runners -> Runner] /\ runner'[r] = x
         /\ \A q \in Runners : q # r => runner'[q] = runner[q]
BY DEF Types

\* What changes nothing of this keeps all of it.
LEMMA Keeps ==
  ASSUME Inv, UNCHANGED <<session, context, active, runner>>
  PROVE  Inv'
BY DEF Inv, Types, Alone, Talks, session, Announced

\* A step that leaves a runner where it is, with what it asks and was answered.
LEMMA Stays ==
  ASSUME Inv, NEW r \in Runners, NEW x \in Runner, runner' = [runner EXCEPT ![r] = x],
         x.at = runner[r].at, x.asks = runner[r].asks, x.pending = runner[r].pending,
         UNCHANGED <<session, context, active>>
  PROVE  Inv'
<1>1. /\ runner' \in [Runners -> Runner] /\ runner'[r] = x
      /\ \A q \in Runners : q # r => runner'[q] = runner[q]
  BY Put DEF Inv
<1>2. \A q \in Runners : /\ runner'[q].at = runner[q].at /\ runner'[q].asks = runner[q].asks
                         /\ runner'[q].pending = runner[q].pending
  BY <1>1
<1>3. Types' BY <1>1 DEF Inv, Types, session
<1>4. \A q \in Runners : Announced(q)' <=> Announced(q) BY DEF Announced, session
<1>5. Alone' BY <1>2, <1>4 DEF Inv, Types, Alone, session
<1>6. \A q \in Runners : Talks(runner'[q]) BY <1>2 DEF Inv, Talks
<1> QED BY <1>3, <1>5, <1>6 DEF Inv, Talks

\* A step that takes a live runner to another place.
LEMMA Moves ==
  ASSUME Inv, NEW r \in Runners, runner[r].at \in Live, NEW x \in Runner,
         runner' = [runner EXCEPT ![r] = x], x.at \in Live, Talks(x),
         UNCHANGED <<session, context, active>>
  PROVE  Inv'
<1>1. /\ runner' \in [Runners -> Runner] /\ runner'[r] = x
      /\ \A q \in Runners : q # r => runner'[q] = runner[q]
  BY Put DEF Inv
<1>2. Types' BY <1>1 DEF Inv, Types, session
<1>3. Alone'
  <2>1. \A s \in Sockets : starting[s] # r BY DEF Inv, Alone, Types, Live, Runners, None
  <2>2. \A q \in Runners : Announced(q)' <=> Announced(q) BY DEF Announced, session
  <2> QED BY <1>1, <2>1, <2>2 DEF Inv, Alone, Types, session, Live
<1>4. \A q \in Runners : Talks(runner'[q]) BY <1>1 DEF Inv
<1> QED BY <1>2, <1>3, <1>4 DEF Inv, Talks

\* A place where the runner asks nothing has no answer to read either.
LEMMA Silent ==
  ASSUME Inv, NEW r \in Runners,
         runner[r].at \notin {"pause", "decide", "approval"} \/ runner[r].pending # "nothing"
  PROVE  runner[r].asks = "nothing"
BY DEF Inv, Talks, Types, Runner

LEMMA Unanswered ==
  ASSUME Inv, NEW r \in Runners, runner[r].at \notin {"pause", "decide", "approval"}
  PROVE  runner[r].pending = "nothing"
BY DEF Inv, Talks, Types, Runner

-----------------------------------------------------------------------------
(* The runner.                                                               *)

Status == {"queued", "running", "waiting_decision", "waiting_approval", "completed", "failed",
           "cancelled"}

\* What every step of the pipeline has in common, with what it leaves of the runner.
Leaves(r, x) ==
  /\ x \in Runner /\ x.at \in Live /\ Talks(x)
  /\ x.run = runner[r].run /\ x.cancelled = runner[r].cancelled
  /\ x.opening \in {runner[r].opening, "asked"}
  /\ runner[r].at = "settling" => x.at = "closing"
Marks(r) ==
  \/ UNCHANGED status
  \/ \E new \in Status : runner[r].at # "settling" /\ status' = [status EXCEPT ![runner[r].run] = new]
Writes(r) ==
  \/ UNCHANGED writing
  \/ \E new \in Status : writing' = [writing EXCEPT ![r].runner = new]
Advance(r) ==
  /\ runner[r].at \in Live \ {"closing"} /\ runner[r].cancelled # "task"
  /\ runner[r].at = "scheduled" => retiring \notin 1 .. r - 1
  /\ \E x \in Runner : runner' = [runner EXCEPT ![r] = x] /\ Leaves(r, x)
  /\ Marks(r) /\ Writes(r)
  /\ UNCHANGED <<session, context, active, faults, revoked>>

LEMMA AdvanceKeeps == ASSUME Inv, NEW r \in Runners, Advance(r) PROVE Inv'
BY Moves DEF Advance, Leaves

\* A step from where nothing is asked to where nothing is pending.
LEMMA Goes ==
  ASSUME Inv, NEW r \in Runners, runner[r].at \in Live \ {"scheduled", "settling", "closing"},
         NEW x \in Runner, runner' = [runner EXCEPT ![r] = x], x.at \in Live, x.pending = "nothing",
         \/ x.asks = "nothing"
         \/ x.asks = "decision" /\ x.at \in {"pause", "decide"}
         \/ x.asks = "approval" /\ x.at = "approval",
         x.run = runner[r].run, x.cancelled = runner[r].cancelled,
         x.opening \in {runner[r].opening, "asked"},
         runner[r].cancelled # "task", Marks(r), Writes(r),
         UNCHANGED <<session, context, active, faults, revoked>>
  PROVE  Advance(r)
BY DEF Advance, Leaves, Talks

LEMMA Terminates ==
  ASSUME Inv, NEW r \in Runners, runner[r].at \in Live \ {"scheduled", "settling", "closing"},
         runner[r].asks = "nothing", runner[r].cancelled # "task", Terminate(r),
         UNCHANGED <<session, context, active, faults>>
  PROVE  Advance(r)
<1> DEFINE x == [runner[r] EXCEPT !.at = "failing", !.pending = "nothing"]
<1>1. runner[r] \in Runner /\ runner \in [Runners -> Runner] BY DEF Inv, Types
<1>2. runner' = [runner EXCEPT ![r] = x] BY <1>1 DEF Terminate
<1>3. x \in Runner BY <1>1 DEF Runner, Live
<1>4. /\ x.at \in Live /\ x.pending = "nothing" /\ x.asks = "nothing"
      /\ x.run = runner[r].run /\ x.cancelled = runner[r].cancelled /\ x.opening = runner[r].opening
  BY <1>1 DEF Runner, Live
<1>5. Marks(r) /\ Writes(r) /\ UNCHANGED revoked BY DEF Terminate, Send, Marks, Writes, Status
<1> HIDE DEF x
<1> QED BY <1>2, <1>3, <1>4, <1>5, Goes

LEMMA Returns ==
  ASSUME Inv, NEW r \in Runners, runner[r].at \in Live \ {"scheduled", "settling", "closing"},
         runner[r].asks = "nothing", runner[r].cancelled # "task",
         NEW good \in BOOLEAN, Return(r, good), UNCHANGED <<session, context, active, faults>>
  PROVE  Advance(r)
<1> DEFINE x == [runner[r] EXCEPT !.at = "settling", !.good = good, !.pending = "nothing"]
<1>1. runner[r] \in Runner /\ runner \in [Runners -> Runner] BY DEF Inv, Types
<1>2. runner' = [runner EXCEPT ![r] = x] BY <1>1 DEF Return
<1>3. x \in Runner BY <1>1 DEF Runner, Live
<1>4. /\ x.at \in Live /\ x.pending = "nothing" /\ x.asks = "nothing"
      /\ x.run = runner[r].run /\ x.cancelled = runner[r].cancelled /\ x.opening = runner[r].opening
  BY <1>1 DEF Runner, Live
<1>5. Marks(r) /\ Writes(r) /\ UNCHANGED revoked
  <2>1. (IF good THEN "completed" ELSE "failed") \in Status BY DEF Status
  <2> QED BY <2>1 DEF Return, Mark, Marks, Writes
<1> HIDE DEF x
<1> QED BY <1>2, <1>3, <1>4, <1>5, Goes

LEMMA FirstStepAdvances == ASSUME Inv, NEW r \in Runners, FirstStep(r) PROVE Advance(r)
<1>1. runner[r] \in Runner /\ runner \in [Runners -> Runner] BY DEF Inv, Types
<1>2. runner[r].at = "scheduled" /\ runner[r].cancelled # "task" BY DEF FirstStep, At
<1>3. runner[r].at \in Live \ {"closing"} BY <1>2 DEF Live
<1>4. runner[r].asks = "nothing" /\ runner[r].pending = "nothing" BY <1>2, Silent, Unanswered
<1>5. UNCHANGED <<session, context, active, faults>> BY DEF FirstStep, RunnerOnly
<1>6. CASE FirstStep(r)
  <2> DEFINE x == [runner[r] EXCEPT !.at = "begin"]
  <2>1. runner' = [runner EXCEPT ![r] = x] BY <1>1, <1>6 DEF FirstStep
  <2>2. x \in Runner BY <1>1 DEF Runner, Live
  <2>3. /\ x.at \in Live /\ x.pending = "nothing" /\ x.asks = "nothing"
        /\ x.run = runner[r].run /\ x.cancelled = runner[r].cancelled /\ x.opening = runner[r].opening
    BY <1>1, <1>4 DEF Runner, Live
  <2>5. Marks(r) /\ Writes(r) /\ UNCHANGED revoked BY <1>6 DEF FirstStep, Marks, Writes
  <2>6. runner[r].at = "scheduled" => retiring \notin 1 .. r - 1 BY <1>2 DEF FirstStep
  <2>7. runner[r].at = "settling" => x.at = "closing" BY <1>1, <1>2 DEF Runner
  <2> HIDE DEF x
  <2> QED BY <1>2, <1>3, <1>5, <2>1, <2>2, <2>3, <2>5, <2>6, <2>7 DEF Advance, Leaves, Talks
<1> QED BY <1>6 DEF FirstStep

LEMMA BeginAdvances == ASSUME Inv, NEW r \in Runners, Begin(r) PROVE Advance(r)
<1>1. runner[r] \in Runner /\ runner \in [Runners -> Runner] BY DEF Inv, Types
<1>2. runner[r].at = "begin" /\ runner[r].cancelled # "task" BY DEF Begin, At
<1>3. runner[r].at \in Live \ {"scheduled", "settling", "closing"} BY <1>2 DEF Live
<1>4. runner[r].asks = "nothing" /\ runner[r].pending = "nothing" BY <1>2, Silent, Unanswered
<1>5. UNCHANGED <<session, context, active, faults>> BY DEF Begin, RunnerOnly
<1>6. CASE Terminate(r) BY <1>2, <1>3, <1>4, <1>5, <1>6, Terminates
<1>7. CASE Return(r, FALSE) BY <1>2, <1>3, <1>4, <1>5, <1>7, Returns
<1>8. CASE /\ runner' = [runner EXCEPT ![r].at = "round"]
           /\ Send(r, "running") /\ UNCHANGED <<status, revoked>>
  <2> DEFINE x == [runner[r] EXCEPT !.at = "round"]
  <2>1. runner' = [runner EXCEPT ![r] = x] BY <1>1, <1>8
  <2>2. x \in Runner BY <1>1 DEF Runner, Live
  <2>3. /\ x.at \in Live /\ x.pending = "nothing" /\ x.asks = "nothing"
        /\ x.run = runner[r].run /\ x.cancelled = runner[r].cancelled /\ x.opening = runner[r].opening
    BY <1>1, <1>4 DEF Runner, Live
  <2>5. Marks(r) /\ Writes(r) /\ UNCHANGED revoked BY <1>8 DEF Marks, Writes, Send, Status, Ask
  <2> HIDE DEF x
  <2> QED BY <1>2, <1>3, <1>5, <2>1, <2>2, <2>3, <2>5, Goes
<1> QED BY <1>6, <1>7, <1>8 DEF Begin

LEMMA RestoreAdvances == ASSUME Inv, NEW r \in Runners, Restore(r) PROVE Advance(r)
<1>1. runner[r] \in Runner /\ runner \in [Runners -> Runner] BY DEF Inv, Types
<1>2. runner[r].at = "begin" /\ runner[r].cancelled # "task" BY DEF Restore, At
<1>3. runner[r].at \in Live \ {"scheduled", "settling", "closing"} BY <1>2 DEF Live
<1>4. runner[r].asks = "nothing" /\ runner[r].pending = "nothing" BY <1>2, Silent, Unanswered
<1>5. UNCHANGED <<session, context, active, faults>> BY DEF Restore, RunnerOnly
<1>6. CASE Terminate(r) BY <1>2, <1>3, <1>4, <1>5, <1>6, Terminates
<1>7. CASE Return(r, FALSE) BY <1>2, <1>3, <1>4, <1>5, <1>7, Returns
<1>8. CASE /\ runner' = [runner EXCEPT ![r].at = "review", ![r].fresh = TRUE]
           /\ UNCHANGED <<status, writing, revoked>>
  <2> DEFINE x == [runner[r] EXCEPT !.at = "review", !.fresh = TRUE]
  <2>1. runner' = [runner EXCEPT ![r] = x] BY <1>1, <1>8
  <2>2. x \in Runner BY <1>1 DEF Runner, Live
  <2>3. /\ x.at \in Live /\ x.pending = "nothing" /\ x.asks = "nothing"
        /\ x.run = runner[r].run /\ x.cancelled = runner[r].cancelled /\ x.opening = runner[r].opening
    BY <1>1, <1>4 DEF Runner, Live
  <2>5. Marks(r) /\ Writes(r) /\ UNCHANGED revoked BY <1>8 DEF Marks, Writes, Send, Status, Ask
  <2> HIDE DEF x
  <2> QED BY <1>2, <1>3, <1>5, <2>1, <2>2, <2>3, <2>5, Goes
<1> QED BY <1>6, <1>7, <1>8 DEF Restore

LEMMA RoundAdvances == ASSUME Inv, NEW r \in Runners, Round(r) PROVE Advance(r)
<1>1. runner[r] \in Runner /\ runner \in [Runners -> Runner] BY DEF Inv, Types
<1>2. runner[r].at = "round" /\ runner[r].cancelled # "task" BY DEF Round, At
<1>3. runner[r].at \in Live \ {"scheduled", "settling", "closing"} BY <1>2 DEF Live
<1>4. runner[r].asks = "nothing" /\ runner[r].pending = "nothing" BY <1>2, Silent, Unanswered
<1>5. UNCHANGED <<session, context, active, faults>> BY DEF Round, RunnerOnly
<1>6. CASE Terminate(r) BY <1>2, <1>3, <1>4, <1>5, <1>6, Terminates
<1>7. CASE Return(r, TRUE) BY <1>2, <1>3, <1>4, <1>5, <1>7, Returns
<1>8. CASE /\ runner' = [runner EXCEPT ![r].at = "pause", ![r].asks = "decision"]
           /\ Send(r, "waiting_decision") /\ UNCHANGED <<status, revoked>>
  <2> DEFINE x == [runner[r] EXCEPT !.at = "pause", !.asks = "decision"]
  <2>1. runner' = [runner EXCEPT ![r] = x] BY <1>1, <1>8
  <2>2. x \in Runner BY <1>1 DEF Runner, Live
  <2>3. /\ x.at \in Live /\ x.pending = "nothing" /\ x.asks = "decision"
        /\ x.run = runner[r].run /\ x.cancelled = runner[r].cancelled /\ x.opening = runner[r].opening
    BY <1>1, <1>4 DEF Runner, Live
  <2>4. x.at \in {"pause", "decide"} BY <1>1 DEF Runner
  <2>5. Marks(r) /\ Writes(r) /\ UNCHANGED revoked BY <1>8 DEF Marks, Writes, Send, Status, Ask
  <2> HIDE DEF x
  <2> QED BY <1>2, <1>3, <1>5, <2>1, <2>2, <2>3, <2>4, <2>5, Goes
<1>9. CASE /\ runner' = [runner EXCEPT ![r].at = "review", ![r].fresh = FALSE]
           /\ UNCHANGED <<status, writing, revoked>>
  <2> DEFINE x == [runner[r] EXCEPT !.at = "review", !.fresh = FALSE]
  <2>1. runner' = [runner EXCEPT ![r] = x] BY <1>1, <1>9
  <2>2. x \in Runner BY <1>1 DEF Runner, Live
  <2>3. /\ x.at \in Live /\ x.pending = "nothing" /\ x.asks = "nothing"
        /\ x.run = runner[r].run /\ x.cancelled = runner[r].cancelled /\ x.opening = runner[r].opening
    BY <1>1, <1>4 DEF Runner, Live
  <2>5. Marks(r) /\ Writes(r) /\ UNCHANGED revoked BY <1>9 DEF Marks, Writes, Send, Status, Ask
  <2> HIDE DEF x
  <2> QED BY <1>2, <1>3, <1>5, <2>1, <2>2, <2>3, <2>5, Goes
<1>10. CASE Ask(r, "decide", "decision", "waiting_decision") /\ UNCHANGED <<status, revoked>>
  <2> DEFINE x == [runner[r] EXCEPT !.at = "decide", !.asks = "decision", !.fresh = TRUE]
  <2>1. runner' = [runner EXCEPT ![r] = x] BY <1>1, <1>10 DEF Ask
  <2>2. x \in Runner BY <1>1 DEF Runner, Live
  <2>3. /\ x.at \in Live /\ x.pending = "nothing" /\ x.asks = "decision"
        /\ x.run = runner[r].run /\ x.cancelled = runner[r].cancelled /\ x.opening = runner[r].opening
    BY <1>1, <1>4 DEF Runner, Live
  <2>4. x.at \in {"pause", "decide"} BY <1>1 DEF Runner
  <2>5. Marks(r) /\ Writes(r) /\ UNCHANGED revoked BY <1>10 DEF Marks, Writes, Send, Status, Ask
  <2> HIDE DEF x
  <2> QED BY <1>2, <1>3, <1>5, <2>1, <2>2, <2>3, <2>4, <2>5, Goes
<1> QED BY <1>6, <1>7, <1>8, <1>9, <1>10 DEF Round

LEMMA ResumeAdvances == ASSUME Inv, NEW r \in Runners, Resume(r) PROVE Advance(r)
<1>1. runner[r] \in Runner /\ runner \in [Runners -> Runner] BY DEF Inv, Types
<1>2. runner[r].at = "pause" /\ runner[r].cancelled # "task" BY DEF Resume, At
<1>3. runner[r].at \in Live \ {"scheduled", "settling", "closing"} BY <1>2 DEF Live
<1>4. runner[r].asks = "nothing" BY Silent DEF Resume
<1>5. UNCHANGED <<session, context, active, faults>> BY DEF Resume, RunnerOnly
<1>6. CASE Terminate(r) BY <1>2, <1>3, <1>4, <1>5, <1>6, Terminates
<1>7. CASE /\ runner' = [runner EXCEPT ![r].at = "round", ![r].pending = "nothing"]
           /\ UNCHANGED <<status, writing, revoked>>
  <2> DEFINE x == [runner[r] EXCEPT !.at = "round", !.pending = "nothing"]
  <2>1. runner' = [runner EXCEPT ![r] = x] BY <1>1, <1>7
  <2>2. x \in Runner BY <1>1 DEF Runner, Live
  <2>3. /\ x.at \in Live /\ x.pending = "nothing" /\ x.asks = "nothing"
        /\ x.run = runner[r].run /\ x.cancelled = runner[r].cancelled /\ x.opening = runner[r].opening
    BY <1>1, <1>4 DEF Runner, Live
  <2>5. Marks(r) /\ Writes(r) /\ UNCHANGED revoked BY <1>7 DEF Marks, Writes, Send, Status, Ask
  <2> HIDE DEF x
  <2> QED BY <1>2, <1>3, <1>5, <2>1, <2>2, <2>3, <2>5, Goes
<1> QED BY <1>6, <1>7 DEF Resume

LEMMA DecideAdvances == ASSUME Inv, NEW r \in Runners, Decide(r) PROVE Advance(r)
<1>1. runner[r] \in Runner /\ runner \in [Runners -> Runner] BY DEF Inv, Types
<1>2. runner[r].at = "decide" /\ runner[r].cancelled # "task" BY DEF Decide, At
<1>3. runner[r].at \in Live \ {"scheduled", "settling", "closing"} BY <1>2 DEF Live
<1>4. runner[r].asks = "nothing" BY Silent DEF Decide
<1>5. UNCHANGED <<session, context, active, faults>> BY DEF Decide, RunnerOnly
<1>6. CASE Decide(r)
  <2> DEFINE x == [runner[r] EXCEPT !.pending = "nothing", !.at =
       IF runner[r].pending = "continue" /\ runner[r].round < MaxRounds THEN "apply" ELSE "review"]
  <2>1. runner' = [runner EXCEPT ![r] = x] BY <1>1, <1>6 DEF Decide
  <2>2. x \in Runner BY <1>1 DEF Runner, Live
  <2>3. /\ x.at \in Live /\ x.pending = "nothing" /\ x.asks = "nothing"
        /\ x.run = runner[r].run /\ x.cancelled = runner[r].cancelled /\ x.opening = runner[r].opening
    BY <1>1, <1>4 DEF Runner, Live
  <2>5. Marks(r) /\ Writes(r) /\ UNCHANGED revoked BY <1>6 DEF Decide, Marks, Writes, Send, Status
  <2> HIDE DEF x
  <2> QED BY <1>2, <1>3, <1>5, <2>1, <2>2, <2>3, <2>5, Goes
<1> QED BY <1>6 DEF Decide

LEMMA ApplyPatchesAdvances == ASSUME Inv, NEW r \in Runners, ApplyPatches(r) PROVE Advance(r)
<1>1. runner[r] \in Runner /\ runner \in [Runners -> Runner] BY DEF Inv, Types
<1>2. runner[r].at = "apply" /\ runner[r].cancelled # "task" BY DEF ApplyPatches, At
<1>3. runner[r].at \in Live \ {"scheduled", "settling", "closing"} BY <1>2 DEF Live
<1>4. runner[r].asks = "nothing" /\ runner[r].pending = "nothing" BY <1>2, Silent, Unanswered
<1>5. UNCHANGED <<session, context, active, faults>> BY DEF ApplyPatches, RunnerOnly
<1>6. CASE Terminate(r) BY <1>2, <1>3, <1>4, <1>5, <1>6, Terminates
<1>7. CASE Return(r, FALSE) BY <1>2, <1>3, <1>4, <1>5, <1>7, Returns
<1>8. ASSUME NEW left \in BOOLEAN, 
             /\ runner' = [runner EXCEPT ![r] = [runner[r] EXCEPT
                    !.at = "round", !.round = runner[r].round + 1, !.accepted = TRUE, !.fresh = left]]
             /\ UNCHANGED <<status, writing, revoked>>
      PROVE  Advance(r)
  <2> DEFINE next == runner[r].round + 1
             x == [runner[r] EXCEPT !.at = "round", !.round = next, !.accepted = TRUE, !.fresh = left]
  <2>1. runner' = [runner EXCEPT ![r] = x] BY <1>1, <1>8
  <2>2. x \in Runner
    <3>1. next \in Nat BY <1>1 DEF Runner
    <3> HIDE DEF next
    <3> QED BY <1>1, <1>8, <3>1 DEF Runner, Live
  <2>3. /\ x.at \in Live /\ x.pending = "nothing" /\ x.asks = "nothing"
        /\ x.run = runner[r].run /\ x.cancelled = runner[r].cancelled /\ x.opening = runner[r].opening
    BY <1>1, <1>4 DEF Runner, Live
  <2>5. Marks(r) /\ Writes(r) /\ UNCHANGED revoked BY <1>8 DEF Marks, Writes, Send, Status, Ask
  <2> HIDE DEF x
  <2> QED BY <1>2, <1>3, <1>5, <2>1, <2>2, <2>3, <2>5, Goes
<1> QED BY <1>6, <1>7, <1>8 DEF ApplyPatches

LEMMA ReviewAdvances == ASSUME Inv, NEW r \in Runners, Review(r) PROVE Advance(r)
<1>1. runner[r] \in Runner /\ runner \in [Runners -> Runner] BY DEF Inv, Types
<1>2. runner[r].at = "review" /\ runner[r].cancelled # "task" BY DEF Review, At
<1>3. runner[r].at \in Live \ {"scheduled", "settling", "closing"} BY <1>2 DEF Live
<1>4. runner[r].asks = "nothing" /\ runner[r].pending = "nothing" BY <1>2, Silent, Unanswered
<1>5. UNCHANGED <<session, context, active, faults>> BY DEF Review, RunnerOnly
<1>6. CASE Terminate(r) BY <1>2, <1>3, <1>4, <1>5, <1>6, Terminates
<1>7. CASE Ask(r, "approval", "approval", "waiting_approval") /\ UNCHANGED <<status, revoked>>
  <2> DEFINE x == [runner[r] EXCEPT !.at = "approval", !.asks = "approval", !.fresh = TRUE]
  <2>1. runner' = [runner EXCEPT ![r] = x] BY <1>1, <1>7 DEF Ask
  <2>2. x \in Runner BY <1>1 DEF Runner, Live
  <2>3. /\ x.at \in Live /\ x.pending = "nothing" /\ x.asks = "approval"
        /\ x.run = runner[r].run /\ x.cancelled = runner[r].cancelled /\ x.opening = runner[r].opening
    BY <1>1, <1>4 DEF Runner, Live
  <2>4. x.at = "approval" BY <1>1 DEF Runner
  <2>5. Marks(r) /\ Writes(r) /\ UNCHANGED revoked BY <1>7 DEF Marks, Writes, Send, Status, Ask
  <2> HIDE DEF x
  <2> QED BY <1>2, <1>3, <1>5, <2>1, <2>2, <2>3, <2>4, <2>5, Goes
<1> QED BY <1>6, <1>7 DEF Review

LEMMA ApproveAdvances == ASSUME Inv, NEW r \in Runners, Approve(r) PROVE Advance(r)
<1>1. runner[r] \in Runner /\ runner \in [Runners -> Runner] BY DEF Inv, Types
<1>2. runner[r].at = "approval" /\ runner[r].cancelled # "task" BY DEF Approve, At
<1>3. runner[r].at \in Live \ {"scheduled", "settling", "closing"} BY <1>2 DEF Live
<1>4. runner[r].asks = "nothing" BY Silent DEF Approve
<1>5. UNCHANGED <<session, context, active, faults>> BY DEF Approve, RunnerOnly
<1>6. CASE Return(r, FALSE) BY <1>2, <1>3, <1>4, <1>5, <1>6, Returns
<1>7. CASE /\ runner' = [runner EXCEPT ![r].at = "persist", ![r].pending = "nothing"]
           /\ Send(r, "running") /\ UNCHANGED <<status, revoked>>
  <2> DEFINE x == [runner[r] EXCEPT !.at = "persist", !.pending = "nothing"]
  <2>1. runner' = [runner EXCEPT ![r] = x] BY <1>1, <1>7
  <2>2. x \in Runner BY <1>1 DEF Runner, Live
  <2>3. /\ x.at \in Live /\ x.pending = "nothing" /\ x.asks = "nothing"
        /\ x.run = runner[r].run /\ x.cancelled = runner[r].cancelled /\ x.opening = runner[r].opening
    BY <1>1, <1>4 DEF Runner, Live
  <2>5. Marks(r) /\ Writes(r) /\ UNCHANGED revoked BY <1>7 DEF Marks, Writes, Send, Status, Ask
  <2> HIDE DEF x
  <2> QED BY <1>2, <1>3, <1>5, <2>1, <2>2, <2>3, <2>5, Goes
<1> QED BY <1>6, <1>7 DEF Approve

LEMMA PersistAdvances == ASSUME Inv, NEW r \in Runners, Persist(r) PROVE Advance(r)
<1>1. runner[r] \in Runner /\ runner \in [Runners -> Runner] BY DEF Inv, Types
<1>2. runner[r].at = "persist" /\ runner[r].cancelled # "task" BY DEF Persist, At
<1>3. runner[r].at \in Live \ {"scheduled", "settling", "closing"} BY <1>2 DEF Live
<1>4. runner[r].asks = "nothing" /\ runner[r].pending = "nothing" BY <1>2, Silent, Unanswered
<1>5. UNCHANGED <<session, context, active, faults>> BY DEF Persist, RunnerOnly
<1>6. CASE Terminate(r) BY <1>2, <1>3, <1>4, <1>5, <1>6, Terminates
<1>7. CASE \E good \in BOOLEAN : Return(r, good) BY <1>2, <1>3, <1>4, <1>5, <1>7, Returns
<1>8. CASE /\ runner' = [runner EXCEPT ![r].at = "publish", ![r].opening = "asked"]
           /\ UNCHANGED <<status, writing, revoked>>
  <2> DEFINE x == [runner[r] EXCEPT !.at = "publish", !.opening = "asked"]
  <2>1. runner' = [runner EXCEPT ![r] = x] BY <1>1, <1>8
  <2>2. x \in Runner BY <1>1 DEF Runner, Live
  <2>3. /\ x.at \in Live /\ x.pending = "nothing" /\ x.asks = "nothing"
        /\ x.run = runner[r].run /\ x.cancelled = runner[r].cancelled /\ x.opening = "asked"
    BY <1>1, <1>4 DEF Runner, Live
  <2>5. Marks(r) /\ Writes(r) /\ UNCHANGED revoked BY <1>8 DEF Marks, Writes, Send, Status, Ask
  <2> HIDE DEF x
  <2> QED BY <1>2, <1>3, <1>5, <2>1, <2>2, <2>3, <2>5, Goes
<1> QED BY <1>6, <1>7, <1>8 DEF Persist

LEMMA FailedAdvances == ASSUME Inv, NEW r \in Runners, Failed(r) PROVE Advance(r)
<1>1. runner[r] \in Runner /\ runner \in [Runners -> Runner] BY DEF Inv, Types
<1>2. runner[r].at = "failing" /\ runner[r].cancelled # "task" BY DEF Failed, At
<1>3. runner[r].at \in Live \ {"scheduled", "settling", "closing"} BY <1>2 DEF Live
<1>4. runner[r].asks = "nothing" /\ runner[r].pending = "nothing" BY <1>2, Silent, Unanswered
<1>5. UNCHANGED <<session, context, active, faults>> BY DEF Failed, RunnerOnly
<1>6. CASE Return(r, FALSE) BY <1>2, <1>3, <1>4, <1>5, <1>6, Returns
<1> QED BY <1>6 DEF Failed

LEMMA SettleAdvances == ASSUME Inv, NEW r \in Runners, Settle(r) PROVE Advance(r)
<1>1. runner[r] \in Runner /\ runner \in [Runners -> Runner] BY DEF Inv, Types
<1>2. runner[r].at = "settling" /\ runner[r].cancelled # "task" BY DEF Settle, At
<1>3. runner[r].at \in Live \ {"closing"} BY <1>2 DEF Live
<1>4. runner[r].asks = "nothing" /\ runner[r].pending = "nothing" BY <1>2, Silent, Unanswered
<1>5. UNCHANGED <<session, context, active, faults>> BY DEF Settle, RunnerOnly
<1>6. CASE Settle(r)
  <2> DEFINE x == [runner[r] EXCEPT !.at = "closing"]
  <2>1. runner' = [runner EXCEPT ![r] = x] BY <1>1, <1>6 DEF Settle
  <2>2. x \in Runner BY <1>1 DEF Runner, Live
  <2>3. /\ x.at \in Live /\ x.pending = "nothing" /\ x.asks = "nothing"
        /\ x.run = runner[r].run /\ x.cancelled = runner[r].cancelled /\ x.opening = runner[r].opening
    BY <1>1, <1>4 DEF Runner, Live
  <2>5. Marks(r) /\ Writes(r) /\ UNCHANGED revoked BY <1>6 DEF Settle, Marks, Writes, Send, Status
  <2>6. runner[r].at = "scheduled" => retiring \notin 1 .. r - 1 BY <1>2 DEF Settle
  <2>7. runner[r].at = "settling" => x.at = "closing" BY <1>1, <1>2 DEF Runner
  <2> HIDE DEF x
  <2> QED BY <1>2, <1>3, <1>5, <2>1, <2>2, <2>3, <2>5, <2>6, <2>7 DEF Advance, Leaves, Talks
<1> QED BY <1>6 DEF Settle

\* A pull request whose answer came back.
Publishes(r) ==
  /\ runner[r].at = "publish" /\ runner[r].cancelled # "task"
  /\ \E x \in Runner : /\ runner' = [runner EXCEPT ![r] = x] /\ x.at = "settling" /\ Talks(x)
                       /\ x.run = runner[r].run /\ x.opening = "seen"
  /\ status' = [status EXCEPT ![runner[r].run] = "completed"]
  /\ UNCHANGED <<session, context, active, writing, faults, revoked>>

LEMMA PublishesKeeps == ASSUME Inv, NEW r \in Runners, Publishes(r) PROVE Inv'
BY Moves DEF Publishes, Live

LEMMA PublishedAdvances ==
  ASSUME Inv, NEW r \in Runners, Published(r) PROVE Advance(r) \/ Publishes(r)
<1>1. runner[r] \in Runner /\ runner \in [Runners -> Runner] BY DEF Inv, Types
<1>2. runner[r].at = "publish" /\ runner[r].cancelled # "task" BY DEF Published, At
<1>3. runner[r].at \in Live \ {"scheduled", "settling", "closing"} BY <1>2 DEF Live
<1>4. runner[r].asks = "nothing" /\ runner[r].pending = "nothing" BY <1>2, Silent, Unanswered
<1>5. UNCHANGED <<session, context, active, faults>> BY DEF Published, RunnerOnly
<1>6. CASE Terminate(r) BY <1>2, <1>3, <1>4, <1>5, <1>6, Terminates
<1>7. CASE /\ Mark(runner[r].run, "completed")
           /\ runner' = [runner EXCEPT ![r].at = "settling", ![r].good = TRUE, ![r].opening = "seen"]
           /\ UNCHANGED <<journal, writing>>
  <2> DEFINE x == [runner[r] EXCEPT !.at = "settling", !.good = TRUE, !.opening = "seen"]
  <2>1. runner' = [runner EXCEPT ![r] = x] BY <1>1, <1>7
  <2>2. x \in Runner BY <1>1 DEF Runner, Live
  <2>3. /\ x.at = "settling" /\ x.pending = "nothing" /\ x.asks = "nothing"
        /\ x.run = runner[r].run /\ x.opening = "seen"
    BY <1>1, <1>4 DEF Runner
  <2>4. Talks(x) BY <2>3 DEF Talks
  <2> HIDE DEF x
  <2> QED BY <1>2, <1>5, <1>7, <2>1, <2>2, <2>3, <2>4 DEF Publishes, Mark
<1> QED BY <1>6, <1>7 DEF Published

\* The steps of the pipeline, until it is closed or its task unwound.
Pipeline(r) ==
  \/ FirstStep(r) \/ Begin(r) \/ Restore(r) \/ Round(r) \/ Resume(r) \/ Decide(r)
  \/ ApplyPatches(r) \/ Review(r) \/ Approve(r) \/ Persist(r) \/ Published(r)
  \/ Failed(r) \/ Settle(r)

LEMMA PipelineAdvances ==
  ASSUME Inv, NEW r \in Runners, Pipeline(r) PROVE Advance(r) \/ Publishes(r)
BY FirstStepAdvances, BeginAdvances, RestoreAdvances, RoundAdvances, ResumeAdvances,
   DecideAdvances, ApplyPatchesAdvances, ReviewAdvances, ApproveAdvances, PersistAdvances,
   PublishedAdvances, FailedAdvances, SettleAdvances DEF Pipeline

-----------------------------------------------------------------------------
LEMMA OpenPullRequestKeeps == ASSUME Inv, NEW r \in Runners, OpenPullRequest(r) PROVE Inv'
<1>1. runner[r] \in Runner /\ runner \in [Runners -> Runner] BY DEF Inv, Types
<1>2. PICK o \in {"opened", "refused", "lost"} : runner' = [runner EXCEPT ![r].opening = o]
  BY DEF OpenPullRequest
<1> DEFINE x == [runner[r] EXCEPT !.opening = o]
<1>3. runner' = [runner EXCEPT ![r] = x] BY <1>1, <1>2
<1>4. x \in Runner BY <1>1 DEF Runner
<1>5. x.at = runner[r].at /\ x.asks = runner[r].asks /\ x.pending = runner[r].pending
  BY <1>1 DEF Runner
<1>6. UNCHANGED <<session, context, active>> BY DEF OpenPullRequest
<1> HIDE DEF x
<1> QED BY <1>3, <1>4, <1>5, <1>6, Stays

LEMMA CancelKeeps == ASSUME Inv, NEW s \in Sockets, Cancel(s) PROVE Inv'
<1>1. active \in Runners /\ runner \in [Runners -> Runner] BY DEF Inv, Types, Cancel, Alive, Taskless
<1>2. PICK c \in {"flag", "task"} : runner' = [runner EXCEPT ![active].cancelled = c]
  BY DEF Cancel, Cancelled
<1> DEFINE x == [runner[active] EXCEPT !.cancelled = c]
<1>3. runner' = [runner EXCEPT ![active] = x] BY <1>1, <1>2
<1>4. x \in Runner BY <1>1 DEF Runner
<1>5. x.at = runner[active].at /\ x.asks = runner[active].asks /\ x.pending = runner[active].pending
  BY <1>1 DEF Runner
<1>6. UNCHANGED <<session, context, active>> BY DEF Cancel
<1> HIDE DEF x
<1> QED BY <1>1, <1>3, <1>4, <1>5, <1>6, Stays

\* The answer is one to the question: it does not outlive the place it was asked at.
LEMMA CommandKeeps ==
  ASSUME Inv, NEW s \in Sockets, NEW c \in {"continue", "push", "approve"}, Command(s, c)
  PROVE  Inv'
<1>1. active \in Runners /\ runner \in [Runners -> Runner] BY DEF Inv, Types, Command
<1>2. runner[active] \in Runner BY <1>1
<1> DEFINE x == [runner[active] EXCEPT !.pending = c, !.asks = "nothing"]
<1>3. runner' = [runner EXCEPT ![active] = x] BY <1>1 DEF Command, Answered
<1>4. x \in Runner BY <1>2 DEF Runner
<1>5. x.at = runner[active].at /\ x.asks = "nothing" /\ x.pending = c BY <1>2 DEF Runner
<1>6. IF c = "approve" THEN runner[active].at = "approval" ELSE runner[active].at \in {"pause", "decide"}
  BY <1>1 DEF Command, Inv, Talks
<1>7. x.at \in Live /\ runner[active].at \in Live /\ Talks(x) BY <1>5, <1>6 DEF Live, Talks
<1>8. UNCHANGED <<session, context, active>> BY DEF Command
<1> HIDE DEF x
<1> QED BY <1>1, <1>3, <1>4, <1>7, <1>8, Moves

LEMMA LandKeeps ==
  ASSUME Inv, NEW r \in Runners, NEW who \in {"runner", "command"}, Land(r, who) PROVE Inv'
BY Keeps DEF Land

\* A runner that is gone leaves nobody behind who is not registered.
LEMMA Ends ==
  ASSUME Inv, NEW r \in Runners, runner[r].at \in Live,
         runner' = [runner EXCEPT ![r] = Gone(r)], UNCHANGED session,
         Forget \/ UNCHANGED <<context, active>>
  PROVE  Inv'
<1>1. runner[r] \in Runner /\ runner \in [Runners -> Runner] BY DEF Inv, Types
<1> DEFINE x == Gone(r)
<1>2. x \in Runner BY <1>1 DEF Gone, Unborn, Runner, None
<1>3. x.at = "done" /\ x.asks = "nothing" /\ x.pending = "nothing" BY DEF Gone, Unborn
<1>4. runner' = [runner EXCEPT ![r] = x] OBVIOUS
<1> HIDE DEF x
<1>5. /\ runner' \in [Runners -> Runner] /\ runner'[r] = x
      /\ \A q \in Runners : q # r => runner'[q] = runner[q]
  BY <1>2, <1>4, Put DEF Inv
<1>6. Types'
  <2>1. context' \in [run : Nat, resume : BOOLEAN] /\ active' \in Runners \cup {None}
    <3>1. CASE Forget BY <3>1 DEF Forget, NoContext, None
    <3>2. CASE UNCHANGED <<context, active>> BY <3>2 DEF Inv, Types
    <3> QED BY <3>1, <3>2
  <2> QED BY <1>5, <2>1 DEF Inv, Types, session
<1>7. \A s \in Sockets : starting[s] # r BY DEF Inv, Alone, Types, Live, Runners, None
<1>8. \A q \in Runners : Announced(q)' <=> Announced(q) BY DEF Announced, session
<1>9. displaced = {} => \A q \in Runners : runner'[q].at \in Live \/ Announced(q)' => active' = q
  <2> SUFFICES ASSUME displaced = {}, NEW q \in Runners, runner'[q].at \in Live \/ Announced(q)'
               PROVE  active' = q
    OBVIOUS
  <2>1. q # r BY <1>3, <1>5, <1>7, <1>8 DEF Live, Announced
  <2>2. active = q BY <2>1, <1>5, <1>8 DEF Inv, Alone
  <2>3. active = r BY DEF Inv, Alone
  <2> QED BY <2>1, <2>2, <2>3
<1>10. Alone'
  <2>1. \A q \in Runners : runner'[q].at # "none" => q <= runners'
    BY <1>5 DEF Inv, Alone, session, Live
  <2>2. \A s \in Sockets : starting'[s] # None => runner'[starting'[s]].at = "created"
    BY <1>5, <1>7 DEF Inv, Types, Alone, session
  <2>3. \A s, t \in Sockets : starting'[s] = starting'[t] /\ starting'[s] # None => s = t
    BY DEF Inv, Alone, session
  <2>4. retiring' # None => runner'[retiring'].at \in Live \cup {"done"}
    BY <1>3, <1>5 DEF Inv, Types, Alone, session
  <2> QED BY <1>9, <2>1, <2>2, <2>3, <2>4 DEF Alone, session
<1>11. \A q \in Runners : Talks(runner'[q]) BY <1>3, <1>5 DEF Inv, Talks
<1> QED BY <1>6, <1>10, <1>11 DEF Inv, Talks

LEMMA CloseKeeps == ASSUME Inv, NEW r \in Runners, Close(r) PROVE Inv'
BY Ends DEF Close, At, Live

LEMMA UnwindKeeps == ASSUME Inv, NEW r \in Runners, Unwind(r) PROVE Inv'
<1>1. runner[r].at \in Live BY LiveIsAlive DEF Unwind, Inv
<1> QED BY <1>1, Ends DEF Unwind

LEMMA RestartKeeps == ASSUME Inv, Restart PROVE Inv'
<1>1. \A r \in Runners : /\ runner[r] \in Runner /\ runner'[r] \in Runner
                         /\ runner'[r].at \in {"none", "done"}
                         /\ runner'[r].at = "none" <=> runner[r].at = "none"
                         /\ runner'[r].asks = "nothing" /\ runner'[r].pending = "nothing"
  <2> SUFFICES ASSUME NEW r \in Runners
               PROVE  /\ runner[r] \in Runner /\ runner'[r] \in Runner
                      /\ runner'[r].at \in {"none", "done"}
                      /\ runner'[r].at = "none" <=> runner[r].at = "none"
                      /\ runner'[r].asks = "nothing" /\ runner'[r].pending = "nothing"
    OBVIOUS
  <2>1. runner[r] \in Runner BY DEF Inv, Types
  <2>2. CASE runner[r].at = "none" BY <2>1, <2>2 DEF Restart, Unborn, Runner, None
  <2>3. CASE runner[r].at # "none"
    <3>1. runner'[r] = [Gone(r) EXCEPT !.opening = IF @ = "asked" THEN "no" ELSE @]
      BY <2>3 DEF Restart
    <3>2. Gone(r) \in Runner /\ Gone(r).at = "done" /\ Gone(r).asks = "nothing"
          /\ Gone(r).pending = "nothing"
      BY <2>1 DEF Gone, Unborn, Runner, None
    <3> QED BY <2>1, <2>3, <3>1, <3>2 DEF Runner
  <2> QED BY <2>2, <2>3
<1>2. runner' \in [Runners -> Runner] BY <1>1 DEF Restart
<1>3. Types' BY <1>2 DEF Restart, Inv, Types, Forget, NoContext, None
<1>4. Alone' BY <1>1 DEF Restart, Inv, Types, Alone, Announced, Forget, Live, None
<1>5. \A r \in Runners : Talks(runner'[r]) BY <1>1 DEF Talks
<1> QED BY <1>3, <1>4, <1>5 DEF Inv, Talks

-----------------------------------------------------------------------------
(* Requests and sockets.                                                     *)

\* Talks does not look at whether a runner is cancelled.
LEMMA CancelledTalks ==
  ASSUME Inv, active \in Runners, runner' = Cancelled(active)
  PROVE  /\ runner' \in [Runners -> Runner]
         /\ \A q \in Runners : runner'[q].at = runner[q].at /\ Talks(runner'[q])
<1>1. runner[active] \in Runner /\ runner \in [Runners -> Runner] BY DEF Inv, Types
<1>2. PICK c \in {"flag", "task"} : runner' = [runner EXCEPT ![active].cancelled = c]
  BY DEF Cancelled
<1> DEFINE x == [runner[active] EXCEPT !.cancelled = c]
<1>3. runner' = [runner EXCEPT ![active] = x] BY <1>1, <1>2
<1>4. x \in Runner BY <1>1 DEF Runner
<1>5. x.at = runner[active].at /\ x.asks = runner[active].asks /\ x.pending = runner[active].pending
  BY <1>1 DEF Runner
<1> HIDE DEF x
<1>6. /\ runner' \in [Runners -> Runner] /\ runner'[active] = x
      /\ \A q \in Runners : q # active => runner'[q] = runner[q]
  BY <1>3, <1>4, Put DEF Inv
<1> QED BY <1>5, <1>6 DEF Inv, Talks

LEMMA AcceptTypes ==
  ASSUME Types, NEW u \in 0 .. runs, Accept(u)
  PROVE  context' \in [run : Nat, resume : BOOLEAN] /\ runs' \in Nat
BY DEF Types, Accept, None

\* Nobody is left to run when the registered runner neither runs nor is announced.
LEMMA Nobody ==
  ASSUME Inv, ~Alive(active), displaced = {}, ~Announced(active), NEW r \in Runners
  PROVE  runner[r].at \notin Live /\ ~Announced(r)
<1> SUFFICES ASSUME runner[r].at \in Live \/ Announced(r) PROVE FALSE OBVIOUS
<1>1. active = r BY DEF Inv, Alone
<1> QED BY <1>1, LiveIsAlive DEF Inv

LEMMA RequestStartKeeps == ASSUME Inv, NEW u \in 0 .. runs, RequestStart(u) PROVE Inv'
<1>1. UNCHANGED <<starting, runners>> BY DEF RequestStart
<1>2. \A q \in Runners : Announced(q)' <=> Announced(q) BY <1>1 DEF Announced
<1>3. CASE Alive(active)
  <2>1. active \in Runners BY <1>3 DEF Inv, Types, Alive
  <2>2. /\ runner' = Cancelled(active) /\ retiring' = active /\ resuming' = u
        /\ UNCHANGED <<context, active, runs, displaced>>
    BY <1>3 DEF RequestStart
  <2>3. /\ runner' \in [Runners -> Runner]
        /\ \A q \in Runners : runner'[q].at = runner[q].at /\ Talks(runner'[q])
    BY <2>1, <2>2, CancelledTalks
  <2>4. runner[active].at \in Live BY <1>3, <2>1, LiveIsAlive DEF Inv
  <2>5. Types' BY <1>1, <2>1, <2>2, <2>3 DEF Inv, Types
  <2>6. Alone' BY <1>1, <1>2, <2>1, <2>2, <2>3, <2>4 DEF Inv, Types, Alone
  <2> QED BY <2>3, <2>5, <2>6 DEF Inv
<1>4. CASE ~Alive(active)
  <2>1. Accept(u) /\ UNCHANGED <<retiring, resuming>> BY <1>4 DEF RequestStart
  <2>2. context' \in [run : Nat, resume : BOOLEAN] /\ runs' \in Nat BY <2>1, AcceptTypes DEF Inv
  <2>3. CASE active = None
    <3>1. UNCHANGED <<active, runner, displaced>> BY <1>4, <2>3 DEF RequestStart
    <3>2. Types' BY <1>1, <2>1, <2>2, <3>1 DEF Inv, Types
    <3>3. Alone' BY <1>1, <1>2, <2>1, <3>1 DEF Inv, Types, Alone
    <3> QED BY <3>1, <3>2, <3>3 DEF Inv
  <2>4. CASE active # None
    <3>1. active \in Runners BY <2>4 DEF Inv, Types
    <3>2. /\ Retire(active) /\ Displace
          /\ runner' = IF Taskless(active) THEN Cancelled(active) ELSE runner
      BY <1>4, <2>4 DEF RequestStart
    <3>3. /\ runner' \in [Runners -> Runner]
          /\ \A q \in Runners : runner'[q].at = runner[q].at /\ Talks(runner'[q])
      BY <3>1, <3>2, CancelledTalks DEF Inv, Types
    <3>4. active' = None BY <3>2 DEF Retire
    <3>5. displaced' = {} => displaced = {} /\ ~Announced(active) BY <3>2 DEF Displace
    <3>6. displaced' = {} => \A q \in Runners : runner'[q].at \notin Live /\ ~Announced(q)'
      BY <1>2, <1>4, <3>3, <3>5, Nobody
    <3>7. Types' BY <1>1, <2>1, <2>2, <3>3, <3>4 DEF Inv, Types
    <3>8. Alone' BY <1>1, <2>1, <3>3, <3>6 DEF Inv, Types, Alone
    <3> QED BY <3>3, <3>7, <3>8 DEF Inv
  <2> QED BY <2>3, <2>4
<1> QED BY <1>3, <1>4

LEMMA JoinedKeeps == ASSUME Inv, Joined PROVE Inv'
<1>1. /\ UNCHANGED <<starting, runners, runner, displaced>>
      /\ retiring' = None /\ resuming' = None
  BY DEF Joined
<1>2. retiring \in Runners /\ ~Alive(retiring) BY DEF Joined, Inv, Types
<1>3. active' = IF active = retiring THEN None ELSE active BY DEF Joined, Retire
<1>4. runs \in Nat /\ resuming \in Nat BY DEF Inv, Types
<1>5. context' \in [run : Nat, resume : BOOLEAN] /\ runs' \in Nat BY <1>4 DEF Joined, Accept, None
<1>6. Types' BY <1>1, <1>3, <1>5 DEF Inv, Types, None
<1>7. \A q \in Runners : Announced(q)' <=> Announced(q) BY <1>1 DEF Announced
<1>8. runner[retiring].at = "done" BY <1>2, LiveIsAlive DEF Inv, Alone, None, Runners
<1>9. ~Announced(retiring) BY <1>2, <1>8 DEF Announced, Inv, Alone, None, Runners
<1>10. displaced = {} => \A q \in Runners : runner[q].at \in Live \/ Announced(q) => active' = q
  BY <1>2, <1>3, <1>8, <1>9 DEF Inv, Alone, Live
<1>11. Alone' BY <1>1, <1>7, <1>10 DEF Inv, Types, Alone
<1> QED BY <1>1, <1>6, <1>11 DEF Inv

LEMMA ConnectKeeps == ASSUME Inv, NEW s \in Sockets, Connect(s) PROVE Inv'
BY DEF Connect, Inv, Types, Alone, Announced

LEMMA DisconnectKeeps == ASSUME Inv, NEW s \in Sockets, Disconnect(s) PROVE Inv'
<1>1. /\ starting' = [starting EXCEPT ![s] = None]
      /\ UNCHANGED <<retiring, resuming, runs, runners, runner, displaced>>
  BY DEF Disconnect
<1>2. /\ context' \in [run : Nat, resume : BOOLEAN]
      /\ \/ active' = active
         \/ active' = None /\ active # None /\ runner[active].at = "done"
  <2> NoContext \in [run : Nat, resume : BOOLEAN] BY DEF NoContext, None
  <2>1. CASE active = None BY <2>1 DEF Disconnect
  <2>2. CASE active # None /\ runner[active].at = "done" BY <2>2 DEF Disconnect, Forget
  <2>3. CASE active # None /\ runner[active].at # "done" BY <2>3 DEF Disconnect, Inv, Types
  <2> QED BY <2>1, <2>2, <2>3
<1>3. \A t \in Sockets : starting'[t] = IF t = s THEN None ELSE starting[t]
  BY <1>1 DEF Inv, Types
<1>4. Types' BY <1>1, <1>2 DEF Inv, Types, None
<1>5. \A q \in Runners : Announced(q)' => Announced(q) BY <1>3 DEF Announced, Runners, None
<1>6. displaced = {} => \A q \in Runners : runner[q].at \in Live \/ Announced(q)' => active' = q
  <2> SUFFICES ASSUME displaced = {}, NEW q \in Runners, runner[q].at \in Live \/ Announced(q)
               PROVE  active' = q
    BY <1>5
  <2>1. active = q BY DEF Inv, Alone
  <2>2. runner[q].at \in Live \/ runner[q].at = "created" BY DEF Announced, Inv, Alone, None, Runners
  <2> QED BY <1>2, <2>1, <2>2 DEF Live
<1>7. Alone' BY <1>1, <1>3, <1>6 DEF Inv, Types, Alone
<1> QED BY <1>1, <1>4, <1>7 DEF Inv

LEMMA CreateTaskKeeps == ASSUME Inv, NEW s \in Sockets, CreateTask(s) PROVE Inv'
<1> DEFINE r == starting[s]
           x == [runner[r] EXCEPT !.at = "scheduled"]
<1>1. r \in Runners /\ runner[r] \in Runner /\ runner \in [Runners -> Runner]
  BY DEF CreateTask, Inv, Types
<1>2. runner[r].at = "created" BY DEF CreateTask, Inv, Alone
<1>3. /\ starting' = [starting EXCEPT ![s] = None]
      /\ UNCHANGED <<context, active, retiring, resuming, runs, runners, displaced>>
  BY DEF CreateTask
<1>4. \A t \in Sockets : starting'[t] = IF t = s THEN None ELSE starting[t]
  BY <1>3 DEF Inv, Types
<1>5. runner' = [runner EXCEPT ![r] = x] BY <1>1 DEF CreateTask
<1>6. x \in Runner BY <1>1 DEF Runner, Live
<1>7. runner[r].asks = "nothing" /\ runner[r].pending = "nothing" BY <1>1, <1>2, Silent, Unanswered
<1>8. x.at = "scheduled" /\ Talks(x) BY <1>1, <1>7 DEF Runner, Talks
<1>9. \A t \in Sockets : t # s => starting[t] # r BY DEF Inv, Alone, CreateTask
<1>10. Announced(r) BY DEF CreateTask, Announced
<1> HIDE DEF x, r
<1>11. /\ runner' \in [Runners -> Runner] /\ runner'[r] = x
       /\ \A q \in Runners : q # r => runner'[q] = runner[q]
  BY <1>1, <1>5, <1>6, Put DEF Inv
<1>12. Types' BY <1>3, <1>11 DEF Inv, Types, None
<1>13. displaced = {} => \A q \in Runners : runner'[q].at \in Live \/ Announced(q)' => active' = q
  <2> SUFFICES ASSUME displaced = {}, NEW q \in Runners, runner'[q].at \in Live \/ Announced(q)'
               PROVE  active = q
    BY <1>3
  <2>1. CASE q = r BY <1>10, <2>1 DEF Inv, Alone
  <2>2. CASE q # r
    <3>1. Announced(q)' => Announced(q) BY <1>4 DEF Announced, Runners, None
    <3> QED BY <1>11, <2>2, <3>1 DEF Inv, Alone
  <2> QED BY <2>1, <2>2
<1>14. Alone'
  <2>1. \A q \in Runners : runner'[q].at # "none" => q <= runners'
    BY <1>2, <1>3, <1>11 DEF Inv, Alone
  <2>2. \A t \in Sockets : starting'[t] # None => runner'[starting'[t]].at = "created"
    BY <1>4, <1>9, <1>11 DEF Inv, Types, Alone
  <2>3. \A t, v \in Sockets : starting'[t] = starting'[v] /\ starting'[t] # None => t = v
    BY <1>4 DEF Inv, Alone
  <2>4. retiring' # None => runner'[retiring'].at \in Live \cup {"done"}
    BY <1>3, <1>8, <1>11 DEF Inv, Types, Alone, Live
  <2> QED BY <1>3, <1>13, <2>1, <2>2, <2>3, <2>4 DEF Alone
<1>15. \A q \in Runners : Talks(runner'[q]) BY <1>8, <1>11 DEF Inv
<1> QED BY <1>12, <1>14, <1>15 DEF Inv

\* The runner a start registers has a number of its own.
LEMMA StartKeeps == ASSUME Inv, NEW s \in Sockets, Start(s) PROVE Inv'
<1>1. ~Alive(active) /\ Displace /\ starting[s] = None BY DEF Start, Listens
<1>2. UNCHANGED <<retiring, resuming, context, runs>> BY DEF Start
<1>3. displaced' = {} => \A q \in Runners : runner[q].at \notin Live /\ ~Announced(q)
  BY <1>1, Nobody DEF Displace
<1>4. CASE context = NoContext
  <2>1. active' = None /\ UNCHANGED <<starting, runners, runner>> BY <1>4 DEF Start
  <2>2. Types' BY <1>2, <2>1 DEF Inv, Types
  <2>3. \A q \in Runners : Announced(q)' <=> Announced(q) BY <2>1 DEF Announced
  <2>4. Alone' BY <1>2, <1>3, <2>1, <2>3 DEF Inv, Types, Alone
  <2> QED BY <2>1, <2>2, <2>4 DEF Inv
<1>5. CASE context # NoContext
  <2> DEFINE n == runners + 1
             x == [Unborn EXCEPT !.run = context.run, !.resume = context.resume, !.at = "created"]
  <2>1. /\ runners < MaxRunners /\ runners' = n /\ active' = n
        /\ starting' = [starting EXCEPT ![s] = n]
        /\ runner' = [runner EXCEPT ![n] = x]
    BY <1>5 DEF Start
  <2>2. n \in Runners /\ n \in 0 .. MaxRunners /\ n # None /\ n > runners
    BY <2>1 DEF Inv, Types, Runners, None
  <2>3. x \in Runner BY DEF Unborn, Runner, Inv, Types
  <2>4. x.at = "created" /\ Talks(x) BY DEF Unborn, Talks
  <2>5. runner[n].at = "none" BY <2>2 DEF Inv, Types, Alone, Runners
  <2> HIDE DEF n, x
  <2>6. /\ runner' \in [Runners -> Runner] /\ runner'[n] = x
        /\ \A q \in Runners : q # n => runner'[q] = runner[q]
    BY <2>1, <2>2, <2>3, Put DEF Inv
  <2>7. \A t \in Sockets : starting'[t] = IF t = s THEN n ELSE starting[t]
    BY <2>1 DEF Inv, Types
  <2>8. Types' BY <1>2, <2>1, <2>2, <2>6 DEF Inv, Types
  <2>9. \A t \in Sockets : starting[t] # n BY <2>2, <2>5 DEF Inv, Alone
  <2>10. \A q \in Runners : q # n /\ Announced(q)' => Announced(q) BY <2>7 DEF Announced
  <2>11. Alone'
    <3>1. \A q \in Runners : runner'[q].at # "none" => q <= runners'
      <4> SUFFICES ASSUME NEW q \in Runners, runner'[q].at # "none" PROVE q <= runners'
        OBVIOUS
      <4>1. runners \in Nat /\ q \in Nat /\ runners' = runners + 1
        BY <2>1 DEF Inv, Types, Runners, n
      <4>2. CASE q = n BY <4>1, <4>2, <2>1, <2>2
      <4>3. CASE q # n
        <5>1. q <= runners BY <2>6, <4>3 DEF Inv, Alone
        <5> QED BY <4>1, <5>1
      <4> QED BY <4>2, <4>3
    <3>2. \A t \in Sockets : starting'[t] # None => runner'[starting'[t]].at = "created"
      BY <2>4, <2>6, <2>7, <2>9 DEF Inv, Types, Alone
    <3>3. \A t, v \in Sockets : starting'[t] = starting'[v] /\ starting'[t] # None => t = v
      BY <2>7, <2>9 DEF Inv, Alone
    <3>4. retiring' # None => runner'[retiring'].at \in Live \cup {"done"}
      BY <1>2, <2>5, <2>6 DEF Inv, Types, Alone, Live
    <3>5. displaced' = {} => \A q \in Runners : runner'[q].at \in Live \/ Announced(q)' => active' = q
      <4> SUFFICES ASSUME displaced' = {}, NEW q \in Runners, q # n
                   PROVE  runner'[q].at \notin Live /\ ~Announced(q)'
        BY <2>1
      <4> QED BY <1>3, <2>6, <2>10
    <3> QED BY <3>1, <3>2, <3>3, <3>4, <3>5 DEF Alone
  <2>12. \A q \in Runners : Talks(runner'[q]) BY <2>4, <2>6 DEF Inv
  <2> QED BY <2>8, <2>11, <2>12 DEF Inv
<1> QED BY <1>4, <1>5

LEMMA NextInv == Inv /\ [Next]_vars => Inv'
<1> SUFFICES ASSUME Inv, [Next]_vars PROVE Inv' OBVIOUS
<1>1. CASE UNCHANGED vars BY <1>1, Keeps DEF vars
<1>2. ASSUME NEW u \in 0 .. runs, RequestStart(u) PROVE Inv' BY <1>2, RequestStartKeeps
<1>3. CASE Joined BY <1>3, JoinedKeeps
<1>4. ASSUME NEW s \in Sockets,
             \/ Connect(s) \/ Disconnect(s) \/ Start(s) \/ CreateTask(s) \/ Cancel(s)
             \/ \E c \in {"continue", "push", "approve"} : Command(s, c)
      PROVE  Inv'
  BY <1>4, ConnectKeeps, DisconnectKeeps, StartKeeps, CreateTaskKeeps, CancelKeeps, CommandKeeps
<1>5. ASSUME NEW r \in Runners, Pipeline(r) PROVE Inv'
  BY <1>5, PipelineAdvances, AdvanceKeeps, PublishesKeeps
<1>6. ASSUME NEW r \in Runners,
             \/ OpenPullRequest(r) \/ Close(r) \/ Unwind(r)
             \/ \E who \in {"runner", "command"} : Land(r, who)
      PROVE  Inv'
  BY <1>6, OpenPullRequestKeeps, CloseKeeps, UnwindKeeps, LandKeeps
<1>7. CASE Restart BY <1>7, RestartKeeps
<1> QED BY <1>1, <1>2, <1>3, <1>4, <1>5, <1>6, <1>7 DEF Next, Pipeline

LEMMA InvAnswerable == Inv => WaitingIsAnswerable
<1> SUFFICES ASSUME Inv, NEW r \in Runners, Waiting(r)
             PROVE  /\ active = r \/ displaced # {}
                    /\ runner[r].pending \in IF runner[r].at = "approval"
                         THEN {"nothing", "approve"} ELSE {"nothing", "continue", "push"}
  BY DEF WaitingIsAnswerable
<1>1. runner[r].at \in {"pause", "decide", "approval"} /\ Talks(runner[r]) /\ runner[r] \in Runner
  BY DEF Waiting, Inv, Types
<1>2. active = r \/ displaced # {} BY <1>1 DEF Inv, Alone, Live
<1>3. runner[r].pending \in {"nothing", "continue", "push", "approve"} BY <1>1 DEF Runner
<1> QED BY <1>1, <1>2, <1>3 DEF Talks

\* A runner that waits for its user is the registered one, unless two starts
\* raced, and finds only answers to what it asked.
THEOREM WaitingCanBeAnswered == Spec => []WaitingIsAnswerable
<1>1. Init => Inv BY InitInv
<1>2. Inv /\ [Next]_vars => Inv' BY NextInv
<1>3. Inv => WaitingIsAnswerable BY InvAnswerable
<1> QED BY <1>1, <1>2, <1>3, PTL DEF Spec

-----------------------------------------------------------------------------
(* One pull request.                                                         *)

\* The journal's runs and writes.
Books ==
  /\ runs \in 0 .. MaxRuns /\ resuming \in 0 .. runs /\ context.run \in 0 .. runs
  /\ context # NoContext => context.run # None
  /\ retiring # None /\ resuming = None => runs < MaxRuns
  /\ status \in [Runs -> Status]
  /\ writing \in [Runners -> [runner : Status \cup {"nothing"}, command : Status \cup {"nothing"}]]
  /\ \A r \in Runners :
       /\ runner[r].at # "none" => runner[r].run \in 1 .. runs
       /\ runner[r].at \in {"none", "created"} =>
            writing[r].runner = "nothing" /\ writing[r].command = "nothing"
       /\ runner[r].opening = "seen" => runner[r].at \in {"settling", "closing", "done"}

\* While a request joins a runner nobody else gets further than a scheduled task.
Queue ==
  displaced = {} /\ retiring # None => \A r \in Runners :
    /\ runner[r].at \in Live => \/ r = retiring /\ runner[r].cancelled = "task"
                                \/ runner[r].at = "scheduled" /\ r > retiring
    /\ Announced(r) => r > retiring

\* A run whose pull request came back stays completed, and nobody can start it again.
Seen(r) == runner[r].opening = "seen" /\ runner[r].run \notin revoked
Final ==
  displaced = {} => \A r \in Runners : Seen(r) =>
    /\ status[runner[r].run] = "completed"
    /\ context.run = runner[r].run => runner[r].at \in {"settling", "closing"}
    /\ retiring # None => resuming # runner[r].run
    /\ \A q \in Runners : q # r /\ (runner[q].at \in Live \/ Announced(q) \/ Seen(q)) =>
                            runner[q].run # runner[r].run

More == Books /\ Queue /\ Final

LEMMA InitMore == Init => More
BY DEF Init, More, Books, Queue, Final, Seen, Unborn, Status, Runs, Runners, NoContext, None

LEMMA AdvanceKeepsMore == ASSUME Inv, Inv', More, NEW r \in Runners, Advance(r) PROVE More'
<1>1. /\ UNCHANGED <<session, context, active, revoked>>
      /\ runner[r].at \in Live \ {"closing"} /\ runner[r].cancelled # "task"
      /\ runner[r].at = "scheduled" => retiring \notin 1 .. r - 1
  BY DEF Advance
<1>2. PICK x \in Runner : runner' = [runner EXCEPT ![r] = x] /\ Leaves(r, x) BY DEF Advance
<1>3. /\ runner'[r] = x /\ \A q \in Runners : q # r => runner'[q] = runner[q]
  BY <1>2, Put DEF Inv
<1>4. /\ x.at \in Live /\ x.run = runner[r].run /\ x.opening \in {runner[r].opening, "asked"}
      /\ runner[r].at = "settling" => x.at = "closing"
  BY <1>2 DEF Leaves
<1>5. \A q \in Runners : Announced(q)' <=> Announced(q) BY <1>1 DEF Announced, session
<1>6. \A q \in Runners : Seen(q)' => Seen(q) BY <1>1, <1>3, <1>4 DEF Seen
<1>7. runner[r].run \in Runs BY <1>1 DEF More, Books, Live, Runs
<1>8. status' \in [Runs -> Status] /\ \A u \in Runs : u # runner[r].run => status'[u] = status[u]
  BY <1>7 DEF Advance, Marks, More, Books
<1>9. runner[r].at = "settling" => status' = status BY DEF Advance, Marks
<1>10. Books'
  <2>1. /\ writing' \in [Runners -> [runner : Status \cup {"nothing"}, command : Status \cup {"nothing"}]]
        /\ \A q \in Runners : q # r => writing'[q] = writing[q]
    <3>1. CASE UNCHANGED writing BY <3>1 DEF More, Books
    <3>2. ASSUME NEW new \in Status, writing' = [writing EXCEPT ![r].runner = new]
          PROVE  /\ writing' \in [Runners -> [runner : Status \cup {"nothing"}, command : Status \cup {"nothing"}]]
                 /\ \A q \in Runners : q # r => writing'[q] = writing[q]
      BY <3>2 DEF More, Books
    <3> QED BY <3>1, <3>2 DEF Advance, Writes
  <2>2. \A q \in Runners : runner'[q].at # "none" => runner'[q].run \in 1 .. runs
    BY <1>1, <1>3, <1>4 DEF More, Books, Live
  <2>3. \A q \in Runners : runner'[q].at \in {"none", "created"} =>
          writing'[q].runner = "nothing" /\ writing'[q].command = "nothing"
    BY <1>3, <1>4, <2>1 DEF More, Books, Live
  <2>4. \A q \in Runners : runner'[q].opening = "seen" => runner'[q].at \in {"settling", "closing", "done"}
    BY <1>1, <1>3, <1>4 DEF More, Books, Live
  <2> QED BY <1>1, <1>8, <2>1, <2>2, <2>3, <2>4 DEF More, Books, session
<1>11. ~(displaced = {} /\ retiring # None)
  <2> SUFFICES ASSUME displaced = {}, retiring # None PROVE FALSE OBVIOUS
  <2>1. runner[r].at = "scheduled" /\ r > retiring BY <1>1 DEF More, Queue
  <2>2. retiring \in 1 .. r - 1 BY <2>1 DEF Inv, Types, Runners, None
  <2> QED BY <1>1, <2>1, <2>2
<1>12. Queue' BY <1>1, <1>11 DEF Queue, session
<1>13. Final'
  <2> SUFFICES ASSUME displaced = {}, NEW q \in Runners, Seen(q)'
               PROVE  /\ status'[runner'[q].run] = "completed"
                      /\ context'.run = runner'[q].run => runner'[q].at \in {"settling", "closing"}
                      /\ retiring' # None => resuming' # runner'[q].run
                      /\ \A t \in Runners : t # q /\ (runner'[t].at \in Live \/ Announced(t)' \/ Seen(t)') =>
                            runner'[t].run # runner'[q].run
    BY <1>1 DEF Final, session
  <2>1. Seen(q) /\ runner'[q].run = runner[q].run BY <1>3, <1>4, <1>6
  <2>2. runner[q].run \in Runs BY <2>1 DEF Seen, More, Books, Runs
  <2>3. q = r => runner[r].at = "settling" BY <1>1, <2>1 DEF Seen, More, Books, Live
  <2>4. q # r => runner[q].run # runner[r].run BY <1>1, <2>1 DEF More, Final
  <2>5. status'[runner[q].run] = "completed" BY <1>8, <1>9, <2>1, <2>2, <2>3, <2>4 DEF More, Final
  <2>6. context.run = runner[q].run => runner'[q].at \in {"settling", "closing"}
    BY <1>3, <1>4, <2>1, <2>3 DEF More, Final
  <2>7. \A t \in Runners : t # q /\ (runner'[t].at \in Live \/ Announced(t)' \/ Seen(t)') =>
                            runner'[t].run # runner[q].run
    BY <1>1, <1>3, <1>4, <1>5, <1>6, <2>1 DEF More, Final
  <2> QED BY <1>1, <1>11, <2>1, <2>5, <2>6, <2>7 DEF session
<1> QED BY <1>10, <1>12, <1>13 DEF More

\* The first pull request of a run that comes back finds nobody else with that run.
LEMMA PublishesKeepsMore == ASSUME Inv, Inv', More, NEW r \in Runners, Publishes(r) PROVE More'
<1>1. /\ UNCHANGED <<session, context, active, writing, revoked>>
      /\ runner[r].at = "publish" /\ runner[r].cancelled # "task"
      /\ status' = [status EXCEPT ![runner[r].run] = "completed"]
  BY DEF Publishes
<1>2. PICK x \in Runner : /\ runner' = [runner EXCEPT ![r] = x] /\ x.at = "settling"
                          /\ x.run = runner[r].run /\ x.opening = "seen"
  BY DEF Publishes
<1>3. /\ runner'[r] = x /\ \A q \in Runners : q # r => runner'[q] = runner[q]
  BY <1>2, Put DEF Inv
<1>4. runner[r].at \in Live BY <1>1 DEF Live
<1>5. \A q \in Runners : Announced(q)' <=> Announced(q) BY <1>1 DEF Announced, session
<1>6. \A q \in Runners : q # r => (Seen(q)' <=> Seen(q)) BY <1>1, <1>3 DEF Seen
<1>7. runner[r].run \in Runs BY <1>1 DEF More, Books, Runs
<1>8. /\ status' \in [Runs -> Status] /\ status'[runner[r].run] = "completed"
      /\ \A u \in Runs : u # runner[r].run => status'[u] = status[u]
  BY <1>1, <1>7 DEF More, Books, Status
<1>9. Books'
  <2>1. \A q \in Runners : runner'[q].at # "none" => runner'[q].run \in 1 .. runs
    BY <1>1, <1>2, <1>3 DEF More, Books
  <2>2. \A q \in Runners : runner'[q].at \in {"none", "created"} =>
          writing'[q].runner = "nothing" /\ writing'[q].command = "nothing"
    BY <1>1, <1>2, <1>3 DEF More, Books
  <2>3. \A q \in Runners : runner'[q].opening = "seen" => runner'[q].at \in {"settling", "closing", "done"}
    BY <1>2, <1>3 DEF More, Books
  <2> QED BY <1>1, <1>8, <2>1, <2>2, <2>3 DEF More, Books, session
<1>10. ~(displaced = {} /\ retiring # None) BY <1>1, <1>4 DEF More, Queue
<1>11. Queue' BY <1>1, <1>10 DEF Queue, session
<1>12. Final'
  <2> SUFFICES ASSUME displaced = {}, NEW q \in Runners, Seen(q)'
               PROVE  /\ status'[runner'[q].run] = "completed"
                      /\ context'.run = runner'[q].run => runner'[q].at \in {"settling", "closing"}
                      /\ retiring' # None => resuming' # runner'[q].run
                      /\ \A t \in Runners : t # q /\ (runner'[t].at \in Live \/ Announced(t)' \/ Seen(t)') =>
                            runner'[t].run # runner'[q].run
    BY <1>1 DEF Final, session
  <2>1. CASE q = r
    <3>1. \A t \in Runners : t # r => runner[t].at \notin Live /\ ~Announced(t)
      BY <1>4 DEF Inv, Alone
    <3>2. \A t \in Runners : t # r /\ Seen(t) => runner[t].run # runner[r].run
      BY <1>4 DEF More, Final
    <3>3. \A t \in Runners : t # r /\ (runner'[t].at \in Live \/ Announced(t)' \/ Seen(t)') =>
                            runner'[t].run # runner'[r].run
      BY <1>2, <1>3, <1>5, <1>6, <3>1, <3>2
    <3> QED BY <1>1, <1>2, <1>3, <1>8, <1>10, <2>1, <3>3 DEF session
  <2>2. CASE q # r
    <3>1. Seen(q) /\ runner'[q] = runner[q] BY <1>3, <1>6, <2>2
    <3>2. runner[q].run \in Runs /\ runner[q].run # runner[r].run
      BY <1>4, <2>2, <3>1 DEF Seen, More, Books, Final, Runs
    <3>3. \A t \in Runners : t # q /\ (runner'[t].at \in Live \/ Announced(t)' \/ Seen(t)') =>
                            runner'[t].run # runner[q].run
      BY <1>2, <1>3, <1>5, <1>6, <3>1, <3>2 DEF More, Final
    <3> QED BY <1>1, <1>8, <1>10, <3>1, <3>2, <3>3 DEF More, Final, session
  <2> QED BY <2>1, <2>2
<1> QED BY <1>9, <1>11, <1>12 DEF More

\* Steps that leave every runner where it is.
LEMMA UnmovedKeepsMore ==
  ASSUME More, UNCHANGED <<session, context, active, status, revoked>>,
         \A q \in Runners :
           /\ runner'[q].at = runner[q].at /\ runner'[q].run = runner[q].run
           /\ runner'[q].opening = "seen" => runner[q].opening = "seen"
           /\ runner[q].at \in Live /\ runner[q].cancelled = "task" => runner'[q].cancelled = "task",
         writing' \in [Runners -> [runner : Status \cup {"nothing"}, command : Status \cup {"nothing"}]],
         \A q \in Runners : runner[q].at \in {"none", "created"} => writing'[q] = writing[q]
  PROVE  More'
<1>1. Books' BY DEF More, Books, session
<1>2. \A q \in Runners : Announced(q)' <=> Announced(q) BY DEF Announced, session
<1>3. \A q \in Runners : Seen(q)' => Seen(q) BY DEF Seen
<1>4. Queue' BY <1>2 DEF More, Queue, session
<1>5. Final' BY <1>2, <1>3 DEF More, Final, session
<1> QED BY <1>1, <1>4, <1>5 DEF More

LEMMA OpenPullRequestKeepsMore ==
  ASSUME Inv, More, NEW r \in Runners, OpenPullRequest(r) PROVE More'
<1>1. runner[r] \in Runner /\ runner \in [Runners -> Runner] BY DEF Inv, Types
<1>2. PICK o \in {"opened", "refused", "lost"} : runner' = [runner EXCEPT ![r].opening = o]
  BY DEF OpenPullRequest
<1> DEFINE x == [runner[r] EXCEPT !.opening = o]
<1>3. runner' = [runner EXCEPT ![r] = x] BY <1>1, <1>2
<1>4. x \in Runner BY <1>1 DEF Runner
<1>5. /\ x.at = runner[r].at /\ x.run = runner[r].run /\ x.cancelled = runner[r].cancelled
      /\ x.opening # "seen"
  BY <1>1 DEF Runner
<1> HIDE DEF x
<1>6. runner'[r] = x /\ \A q \in Runners : q # r => runner'[q] = runner[q]
  BY <1>3, <1>4, Put DEF Inv
<1>7. UNCHANGED <<session, context, active, status, writing, revoked>> BY DEF OpenPullRequest
<1> QED BY <1>5, <1>6, <1>7, UnmovedKeepsMore DEF More, Books

LEMMA CancelKeepsMore == ASSUME Inv, More, NEW s \in Sockets, Cancel(s) PROVE More'
<1>1. active \in Runners /\ runner \in [Runners -> Runner] BY DEF Inv, Types, Cancel, Alive, Taskless
<1> DEFINE c == IF Alive(active) THEN "task" ELSE "flag"
           x == [runner[active] EXCEPT !.cancelled = c]
<1>2. runner[active] \in Runner BY <1>1
<1>3. runner' = [runner EXCEPT ![active] = x] BY <1>1 DEF Cancel, Cancelled
<1>4. x \in Runner BY <1>2 DEF Runner
<1>5. /\ x.at = runner[active].at /\ x.run = runner[active].run /\ x.cancelled = c
      /\ x.opening = runner[active].opening
  BY <1>2 DEF Runner
<1>6. runner[active].at \in Live => c = "task" BY <1>1, LiveIsAlive DEF Inv
<1> HIDE DEF x, c
<1>7. runner'[active] = x /\ \A q \in Runners : q # active => runner'[q] = runner[q]
  BY <1>1, <1>3, <1>4, Put DEF Inv
<1>8. UNCHANGED <<session, context, active, status, writing, revoked>> BY DEF Cancel
<1> QED BY <1>5, <1>6, <1>7, <1>8, UnmovedKeepsMore DEF More, Books

LEMMA CommandKeepsMore ==
  ASSUME Inv, More, NEW s \in Sockets, NEW c \in {"continue", "push", "approve"}, Command(s, c)
  PROVE  More'
<1>1. active \in Runners /\ runner \in [Runners -> Runner] BY DEF Inv, Types, Command
<1>2. runner[active] \in Runner BY <1>1
<1> DEFINE x == [runner[active] EXCEPT !.pending = c, !.asks = "nothing"]
<1>3. runner' = [runner EXCEPT ![active] = x] BY <1>1 DEF Command, Answered
<1>4. x \in Runner BY <1>2 DEF Runner
<1>5. /\ x.at = runner[active].at /\ x.run = runner[active].run
      /\ x.cancelled = runner[active].cancelled /\ x.opening = runner[active].opening
  BY <1>2 DEF Runner
<1>6. runner[active].at \notin {"none", "created"} BY <1>1 DEF Command, Inv, Talks
<1> HIDE DEF x
<1>7. runner'[active] = x /\ \A q \in Runners : q # active => runner'[q] = runner[q]
  BY <1>1, <1>3, <1>4, Put DEF Inv
<1>8. /\ writing' \in [Runners -> [runner : Status \cup {"nothing"}, command : Status \cup {"nothing"}]]
      /\ \A q \in Runners : q # active => writing'[q] = writing[q]
  <2>1. CASE UNCHANGED writing BY <2>1 DEF More, Books
  <2>2. CASE writing' = [writing EXCEPT ![active].command = "running"]
    BY <1>1, <2>2 DEF More, Books, Status
  <2> QED BY <2>1, <2>2 DEF Command
<1>9. UNCHANGED <<session, context, active, status, revoked>> BY DEF Command
<1> QED BY <1>5, <1>6, <1>7, <1>8, <1>9, UnmovedKeepsMore

\* A status told by a cancellation or late: a completed run it changes is revoked.
LEMMA Overruled ==
  ASSUME More, NEW u \in Runs, NEW new \in Status, Overrule(u, new)
  PROVE  /\ status' \in [Runs -> Status] /\ revoked \subseteq revoked'
         /\ \A v \in Runs : status[v] = "completed" /\ v \notin revoked' => status'[v] = "completed"
BY DEF More, Books, Overrule

LEMMA LandKeepsMore ==
  ASSUME Inv, More, NEW r \in Runners, NEW who \in {"runner", "command"}, Land(r, who)
  PROVE  More'
<1>1. UNCHANGED <<session, context, active, runner>> BY DEF Land
<1> DEFINE new == writing[r][who]
<1>2. new \in Status /\ runner[r].at \notin {"none", "created"} BY DEF Land, More, Books
<1>3. runner[r].run \in Runs BY <1>2 DEF More, Books, Runs
<1>4. /\ writing' \in [Runners -> [runner : Status \cup {"nothing"}, command : Status \cup {"nothing"}]]
      /\ \A q \in Runners : q # r => writing'[q] = writing[q]
  <2>1. writing' = [writing EXCEPT ![r][who] = "nothing"] BY DEF Land
  <2>2. CASE who = "runner" BY <2>1, <2>2 DEF More, Books
  <2>3. CASE who = "command" BY <2>1, <2>3 DEF More, Books
  <2> QED BY <2>2, <2>3
<1>5. \/ Overrule(runner[r].run, new)
      \/ runner[r].at \in Live \ {"settling", "closing"} /\ Mark(runner[r].run, new)
  <2>1. runner[r].at \in Live \cup {"none", "created", "done"} BY DEF Inv, Types, Runner
  <2> QED BY <1>2, <2>1 DEF Land, Live
<1>6. /\ status' \in [Runs -> Status] /\ revoked \subseteq revoked'
      /\ displaced = {} => \A q \in Runners : Seen(q)' => status'[runner[q].run] = "completed"
  <2>1. CASE Overrule(runner[r].run, new)
    <3>1. \A q \in Runners : Seen(q)' => Seen(q) /\ runner[q].run \in Runs
      BY <1>1, <1>2, <1>3, <2>1, Overruled DEF Seen, More, Books, Runs
    <3>2. displaced = {} => \A q \in Runners : Seen(q) => status[runner[q].run] = "completed"
      BY DEF More, Final
    <3> QED BY <1>1, <1>2, <1>3, <2>1, <3>1, <3>2, Overruled DEF Seen
  <2>2. CASE runner[r].at \in Live \ {"settling", "closing"} /\ Mark(runner[r].run, new)
    <3>1. status' = [status EXCEPT ![runner[r].run] = new] /\ revoked' = revoked
      BY <2>2 DEF Mark
    <3>2. status' \in [Runs -> Status] BY <1>2, <3>1 DEF More, Books
    <3>3. ASSUME displaced = {}, NEW q \in Runners, Seen(q)
          PROVE  status'[runner[q].run] = "completed"
      <4>1. runner[q].run \in Runs BY <3>3 DEF Seen, More, Books, Runs
      <4>2. q # r BY <2>2, <3>3 DEF Seen, More, Books, Live
      <4>3. runner[q].run # runner[r].run BY <2>2, <3>3, <4>2 DEF More, Final
      <4>4. status[runner[q].run] = "completed" BY <3>3 DEF More, Final
      <4> QED BY <3>1, <4>1, <4>3, <4>4 DEF More, Books
    <3> QED BY <1>1, <3>1, <3>2, <3>3 DEF Seen
  <2> QED BY <1>5, <2>1, <2>2
<1>7. Books' BY <1>1, <1>2, <1>4, <1>6 DEF More, Books, session
<1>8. \A q \in Runners : Announced(q)' <=> Announced(q) BY <1>1 DEF Announced, session
<1>9. \A q \in Runners : Seen(q)' => Seen(q) BY <1>1, <1>6 DEF Seen
<1>10. Queue' BY <1>1, <1>8 DEF More, Queue, session
<1>11. Final' BY <1>1, <1>6, <1>8, <1>9 DEF More, Final, session
<1> QED BY <1>7, <1>10, <1>11 DEF More

\* A runner that ends takes its context along, unless it never took a step.
LEMMA EndsMore ==
  ASSUME Inv, Inv', More, NEW r \in Runners, runner[r].at \in Live,
         runner' = [runner EXCEPT ![r] = Gone(r)], UNCHANGED <<session, writing>>,
         Forget \/ (runner[r].at = "scheduled" /\ UNCHANGED <<context, active>>),
         UNCHANGED <<status, revoked>> \/ Overrule(runner[r].run, "cancelled")
  PROVE  More'
<1>1. runner[r] \in Runner /\ runner \in [Runners -> Runner] BY DEF Inv, Types
<1> DEFINE x == Gone(r)
<1>2. x \in Runner BY <1>1 DEF Gone, Unborn, Runner, None
<1>3. x.at = "done" /\ x.run = runner[r].run /\ x.opening = runner[r].opening BY DEF Gone, Unborn
<1>4. runner' = [runner EXCEPT ![r] = x] OBVIOUS
<1> HIDE DEF x
<1>5. runner'[r] = x /\ \A q \in Runners : q # r => runner'[q] = runner[q]
  BY <1>2, <1>4, Put DEF Inv
<1>6. \A q \in Runners : runner'[q].run = runner[q].run /\ runner'[q].opening = runner[q].opening
  BY <1>3, <1>5
<1>7. runner[r].run \in Runs BY DEF More, Books, Runs, Live
<1>8. /\ status' \in [Runs -> Status] /\ revoked \subseteq revoked'
      /\ \A v \in Runs : status[v] = "completed" /\ v \notin revoked' => status'[v] = "completed"
  <2>1. CASE UNCHANGED <<status, revoked>> BY <2>1 DEF More, Books
  <2>2. CASE Overrule(runner[r].run, "cancelled")
    <3>1. "cancelled" \in Status BY DEF Status
    <3> QED BY <1>7, <2>2, <3>1, Overruled
  <2> QED BY <2>1, <2>2
<1>9. \A q \in Runners : Announced(q)' <=> Announced(q) BY DEF Announced, session
<1>10. \A q \in Runners : Seen(q)' => Seen(q) BY <1>6, <1>8 DEF Seen
<1>11. context'.run \in 0 .. runs /\ (context' # NoContext => context'.run # None)
  <2>1. CASE Forget BY <2>1 DEF Forget, NoContext, None, More, Books
  <2>2. CASE UNCHANGED <<context, active>> BY <2>2 DEF More, Books
  <2> QED BY <2>1, <2>2
<1>12. Books'
  <2>1. \A q \in Runners : runner'[q].at # "none" => runner'[q].run \in 1 .. runs
    BY <1>3, <1>5 DEF More, Books, Live
  <2>2. \A q \in Runners : runner'[q].at \in {"none", "created"} =>
          writing[q].runner = "nothing" /\ writing[q].command = "nothing"
    BY <1>3, <1>5 DEF More, Books
  <2>3. \A q \in Runners : runner'[q].opening = "seen" => runner'[q].at \in {"settling", "closing", "done"}
    BY <1>3, <1>5 DEF More, Books
  <2> QED BY <1>8, <1>11, <2>1, <2>2, <2>3 DEF More, Books, session
<1>13. Queue' BY <1>3, <1>5, <1>9 DEF More, Queue, session, Live
<1>14. Final'
  <2> SUFFICES ASSUME displaced = {}, NEW q \in Runners, Seen(q)'
               PROVE  /\ status'[runner'[q].run] = "completed"
                      /\ context'.run = runner'[q].run => runner'[q].at \in {"settling", "closing"}
                      /\ retiring' # None => resuming' # runner'[q].run
                      /\ \A t \in Runners : t # q /\ (runner'[t].at \in Live \/ Announced(t)' \/ Seen(t)') =>
                            runner'[t].run # runner'[q].run
    BY DEF Final, session
  <2>1. Seen(q) /\ runner[q].run \in Runs BY <1>10 DEF Seen, More, Books, Runs
  <2>2. status'[runner[q].run] = "completed"
    <3>1. status[runner[q].run] = "completed" BY <2>1 DEF More, Final
    <3>2. runner[q].run \notin revoked' BY <1>6 DEF Seen
    <3> QED BY <1>8, <2>1, <3>1, <3>2
  <2>3. context'.run = runner[q].run => runner'[q].at \in {"settling", "closing"}
    <3>1. CASE Forget BY <2>1, <3>1 DEF Forget, NoContext, None, Runs
    <3>2. CASE runner[r].at = "scheduled" /\ UNCHANGED <<context, active>>
      <4>1. q # r BY <2>1, <3>2 DEF Seen, More, Books
      <4> QED BY <1>5, <2>1, <3>2, <4>1 DEF More, Final
    <3> QED BY <3>1, <3>2
  <2>4. \A t \in Runners : t # q /\ (runner'[t].at \in Live \/ Announced(t)' \/ Seen(t)') =>
                            runner[t].run # runner[q].run
    BY <1>3, <1>5, <1>9, <1>10, <2>1 DEF More, Final, Live
  <2>5. retiring # None => resuming # runner[q].run BY <2>1 DEF More, Final
  <2> QED BY <1>6, <2>2, <2>3, <2>4, <2>5 DEF session
<1> QED BY <1>12, <1>13, <1>14 DEF More

LEMMA CloseKeepsMore == ASSUME Inv, Inv', More, NEW r \in Runners, Close(r) PROVE More'
<1>1. runner[r].at \in Live BY DEF Close, At, Live
<1> QED BY <1>1, EndsMore DEF Close

LEMMA UnwindKeepsMore == ASSUME Inv, Inv', More, NEW r \in Runners, Unwind(r) PROVE More'
<1>1. runner[r].at \in Live BY LiveIsAlive DEF Unwind, Inv
<1> QED BY <1>1, EndsMore DEF Unwind, journal

LEMMA RestartKeepsMore == ASSUME Inv, More, Restart PROVE More'
<1>1. UNCHANGED <<runs, status, displaced, revoked>> /\ retiring' = None /\ resuming' = None
  BY DEF Restart
<1>2. \A r \in Runners : /\ runner'[r].at \in {"none", "done"}
                         /\ runner'[r].at = "none" <=> runner[r].at = "none"
                         /\ runner[r].at # "none" => runner'[r].run = runner[r].run
                         /\ runner'[r].opening = "seen" => runner[r].opening = "seen" /\ runner[r].at # "none"
  <2> SUFFICES ASSUME NEW r \in Runners
               PROVE  /\ runner'[r].at \in {"none", "done"}
                      /\ runner'[r].at = "none" <=> runner[r].at = "none"
                      /\ runner[r].at # "none" => runner'[r].run = runner[r].run
                      /\ runner'[r].opening = "seen" => runner[r].opening = "seen" /\ runner[r].at # "none"
    OBVIOUS
  <2>1. CASE runner[r].at = "none" BY <2>1 DEF Restart, Unborn
  <2>2. CASE runner[r].at # "none"
    <3>1. runner'[r] = [Gone(r) EXCEPT !.opening = IF @ = "asked" THEN "no" ELSE @]
      BY <2>2 DEF Restart
    <3>2. /\ Gone(r) \in [run : {runner[r].run}, resume : BOOLEAN, at : {"done"}, cancelled : {"no"},
                  asks : {"nothing"}, pending : {"nothing"}, accepted : BOOLEAN, fresh : BOOLEAN,
                  round : Nat, good : BOOLEAN, opening : {runner[r].opening}]
      BY DEF Gone, Unborn
    <3> QED BY <2>2, <3>1, <3>2
  <2> QED BY <2>1, <2>2
<1>3. \A r \in Runners : ~Announced(r)' BY DEF Restart, Announced, Runners, None
<1>4. context' = NoContext /\ context'.run = None BY DEF Restart, Forget, NoContext
<1>5. writing' \in [Runners -> [runner : Status \cup {"nothing"}, command : Status \cup {"nothing"}]]
      /\ \A r \in Runners : writing'[r].runner = "nothing" /\ writing'[r].command = "nothing"
  BY DEF Restart
<1>6. Books'
  <2>1. \A r \in Runners : runner'[r].at # "none" => runner'[r].run \in 1 .. runs
    BY <1>2 DEF More, Books
  <2>2. \A r \in Runners : runner'[r].opening = "seen" => runner'[r].at \in {"settling", "closing", "done"}
    BY <1>2
  <2> QED BY <1>1, <1>4, <1>5, <2>1, <2>2 DEF More, Books, None
<1>7. Queue' BY <1>1 DEF Queue
<1>8. \A r \in Runners : Seen(r)' => Seen(r) /\ runner'[r].run = runner[r].run
  BY <1>1, <1>2 DEF Seen
<1>9. Final'
  <2> SUFFICES ASSUME displaced = {}, NEW q \in Runners, Seen(q)'
               PROVE  /\ status'[runner'[q].run] = "completed"
                      /\ context'.run = runner'[q].run => runner'[q].at \in {"settling", "closing"}
                      /\ retiring' # None => resuming' # runner'[q].run
                      /\ \A t \in Runners : t # q /\ (runner'[t].at \in Live \/ Announced(t)' \/ Seen(t)') =>
                            runner'[t].run # runner'[q].run
    BY <1>1 DEF Final
  <2>1. Seen(q) /\ runner'[q].run = runner[q].run /\ runner[q].run # None
    BY <1>8 DEF Seen, More, Books, None
  <2>2. \A t \in Runners : t # q /\ Seen(t)' => runner'[t].run # runner'[q].run
    BY <1>8, <2>1 DEF More, Final
  <2>3. \A t \in Runners : runner'[t].at \notin Live BY <1>2 DEF Live
  <2> QED BY <1>1, <1>3, <1>4, <2>1, <2>2, <2>3 DEF More, Final
<1> QED BY <1>6, <1>7, <1>9 DEF More

-----------------------------------------------------------------------------
\* Cancelling touches nothing else of a runner.
LEMMA CancelledSame ==
  ASSUME Inv, active \in Runners, runner' = Cancelled(active)
  PROVE  \A q \in Runners : /\ runner'[q].at = runner[q].at /\ runner'[q].run = runner[q].run
                            /\ runner'[q].opening = runner[q].opening
                            /\ q = active /\ Alive(q) => runner'[q].cancelled = "task"
<1>1. runner[active] \in Runner /\ runner \in [Runners -> Runner] BY DEF Inv, Types
<1> DEFINE c == IF Alive(active) THEN "task" ELSE "flag"
           x == [runner[active] EXCEPT !.cancelled = c]
<1>2. runner' = [runner EXCEPT ![active] = x] BY <1>1 DEF Cancelled
<1>3. x \in Runner BY <1>1 DEF Runner
<1>4. /\ x.at = runner[active].at /\ x.run = runner[active].run /\ x.cancelled = c
      /\ x.opening = runner[active].opening
  BY <1>1 DEF Runner
<1> HIDE DEF x
<1>5. runner'[active] = x /\ \A q \in Runners : q # active => runner'[q] = runner[q]
  BY <1>2, <1>3, Put DEF Inv
<1> QED BY <1>4, <1>5

\* The run a request takes is not one whose pull request came back.
LEMMA Fresh ==
  ASSUME More, NEW u \in 0 .. runs,
         (u = None /\ runs < MaxRuns) \/ (u # None /\ MayResume(u)),
         displaced = {}, NEW r \in Runners, Seen(r)
  PROVE  runner[r].run # u /\ runner[r].run # runs + 1
<1>1. runner[r].run \in 1 .. runs /\ runs \in Nat BY DEF Seen, More, Books
<1>2. status[runner[r].run] = "completed" BY DEF More, Final
<1> QED BY <1>1, <1>2 DEF MayResume, None

\* Accept gives the journal and the context a run that exists.
LEMMA AcceptBooks ==
  ASSUME More, NEW u \in 0 .. runs, u = None => runs < MaxRuns, Accept(u)
  PROVE  /\ runs' \in 0 .. MaxRuns /\ runs <= runs'
         /\ context'.run \in 1 .. runs'
         /\ context'.run = IF u = None THEN runs + 1 ELSE u
<1>1. runs \in Nat /\ MaxRuns \in Nat /\ runs <= MaxRuns BY DEF More, Books
<1>2. CASE u = None BY <1>1, <1>2 DEF Accept
<1>3. CASE u # None BY <1>1, <1>3 DEF Accept, None, More, Books
<1> QED BY <1>2, <1>3

LEMMA RequestStartKeepsMore ==
  ASSUME Inv, Inv', More, NEW u \in 0 .. runs, RequestStart(u) PROVE More'
<1>1. UNCHANGED <<starting, journal, runners, writing, faults>> /\ retiring = None
  BY DEF RequestStart
<1>2. \A q \in Runners : Announced(q)' <=> Announced(q) BY <1>1 DEF Announced
<1>3. (u = None /\ runs < MaxRuns) \/ (u # None /\ MayResume(u)) BY DEF RequestStart
<1>4. runs \in Nat /\ runs \in 0 .. MaxRuns BY DEF More, Books
<1>5. CASE Alive(active)
  <2>1. active \in Runners BY <1>5 DEF Inv, Types, Alive
  <2>2. /\ runner' = Cancelled(active) /\ retiring' = active /\ resuming' = u
        /\ UNCHANGED <<context, active, runs, status, displaced, revoked>>
    BY <1>5 DEF RequestStart
  <2>3. \A q \in Runners : /\ runner'[q].at = runner[q].at /\ runner'[q].run = runner[q].run
                           /\ runner'[q].opening = runner[q].opening
    BY <2>1, <2>2, CancelledSame
  <2>4. \A q \in Runners : Seen(q)' <=> Seen(q) BY <2>2, <2>3 DEF Seen
  <2>5. runner[active].at \in Live BY <1>5, <2>1, LiveIsAlive DEF Inv
  <2>6. Books' BY <1>1, <1>3, <2>2, <2>3 DEF More, Books
  <2>7. Queue'
    <3> SUFFICES ASSUME displaced = {}, NEW q \in Runners
                 PROVE  /\ runner'[q].at \in Live => q = active /\ runner'[q].cancelled = "task"
                        /\ ~Announced(q)'
      BY <2>2 DEF Queue
    <3>1. runner[q].at \in Live \/ Announced(q) => active = q BY DEF Inv, Alone
    <3>2. ~Announced(active) BY <2>1, <2>5 DEF Announced, Inv, Alone, Live, None, Runners
    <3> QED BY <1>2, <1>5, <2>1, <2>2, <2>3, <3>1, <3>2, CancelledSame
  <2>8. Final'
    <3> SUFFICES ASSUME displaced = {}, NEW q \in Runners, Seen(q)'
               PROVE  /\ status'[runner'[q].run] = "completed"
                      /\ context'.run = runner'[q].run => runner'[q].at \in {"settling", "closing"}
                      /\ retiring' # None => resuming' # runner'[q].run
                      /\ \A t \in Runners : t # q /\ (runner'[t].at \in Live \/ Announced(t)' \/ Seen(t)') =>
                            runner'[t].run # runner'[q].run
      BY <2>2 DEF Final
    <3>1. Seen(q) /\ runner[q].run # u BY <1>3, <2>4, Fresh
    <3> QED BY <1>2, <2>2, <2>3, <2>4, <3>1 DEF More, Final
  <2> QED BY <2>6, <2>7, <2>8 DEF More
<1>6. CASE ~Alive(active)
  <2>1. Accept(u) /\ UNCHANGED <<retiring, resuming>> BY <1>6 DEF RequestStart
  <2>2. /\ runs' \in 0 .. MaxRuns /\ runs <= runs' /\ context'.run \in 1 .. runs'
        /\ context'.run = IF u = None THEN runs + 1 ELSE u
    BY <1>3, <2>1, AcceptBooks
  <2>3. /\ displaced \subseteq displaced' /\ status' \in [Runs -> Status] /\ revoked \subseteq revoked'
        /\ \A v \in Runs : status[v] = "completed" /\ v \notin revoked' => status'[v] = "completed"
        /\ \A q \in Runners : /\ runner'[q].at = runner[q].at /\ runner'[q].run = runner[q].run
                              /\ runner'[q].opening = runner[q].opening
        /\ displaced' = {} => displaced = {}
    <3>1. CASE active = None
      <4>1. UNCHANGED <<status, runner, displaced, revoked>> BY <1>6, <3>1 DEF RequestStart
      <4> QED BY <4>1 DEF More, Books
    <3>2. CASE active # None
      <4>1. active \in Runners BY <3>2 DEF Inv, Types
      <4>2. /\ Overrule(runner[active].run, "cancelled") /\ Displace
            /\ runner' = IF Taskless(active) THEN Cancelled(active) ELSE runner
        BY <1>6, <3>2 DEF RequestStart, Retire
      <4>3. \A q \in Runners : /\ runner'[q].at = runner[q].at /\ runner'[q].run = runner[q].run
                               /\ runner'[q].opening = runner[q].opening
        BY <4>1, <4>2, CancelledSame
      <4>4. /\ status' \in [Runs -> Status] /\ revoked \subseteq revoked'
            /\ \A v \in Runs : status[v] = "completed" /\ v \notin revoked' => status'[v] = "completed"
        BY <4>2 DEF More, Books, Overrule, Status
      <4> QED BY <4>2, <4>3, <4>4 DEF Displace
    <3> QED BY <3>1, <3>2
  <2>4. \A q \in Runners : Seen(q)' => Seen(q) BY <2>3 DEF Seen
  <2>5. Books'
    <3>1. \A q \in Runners : runner'[q].at # "none" => runner'[q].run \in 1 .. runs'
      BY <1>4, <2>2, <2>3 DEF More, Books
    <3>2. resuming' \in 0 .. runs' BY <1>4, <2>1, <2>2 DEF More, Books
    <3>3. context'.run \in 0 .. runs' /\ context'.run # None BY <2>2 DEF None
    <3> QED BY <1>1, <2>1, <2>2, <2>3, <3>1, <3>2, <3>3 DEF More, Books
  <2>6. Queue' BY <1>1, <2>1 DEF Queue
  <2>7. Final'
    <3> SUFFICES ASSUME displaced' = {}, NEW q \in Runners, Seen(q)'
               PROVE  /\ status'[runner'[q].run] = "completed"
                      /\ context'.run = runner'[q].run => runner'[q].at \in {"settling", "closing"}
                      /\ retiring' # None => resuming' # runner'[q].run
                      /\ \A t \in Runners : t # q /\ (runner'[t].at \in Live \/ Announced(t)' \/ Seen(t)') =>
                            runner'[t].run # runner'[q].run
      BY DEF Final
    <3>1. displaced = {} /\ Seen(q) BY <2>3, <2>4
    <3>2. runner[q].run # u /\ runner[q].run # runs + 1 BY <1>3, <3>1, Fresh
    <3>3. status'[runner[q].run] = "completed"
      <4>1. runner[q].run \in Runs BY <3>1 DEF Seen, More, Books, Runs
      <4>2. runner[q].run \notin revoked' BY <2>3 DEF Seen
      <4> QED BY <2>3, <3>1, <4>1, <4>2 DEF More, Final
    <3>4. \A t \in Runners : t # q /\ (runner'[t].at \in Live \/ Announced(t)' \/ Seen(t)') =>
                            runner[t].run # runner[q].run
      BY <1>2, <2>3, <2>4, <3>1 DEF More, Final
    <3> QED BY <1>1, <2>1, <2>2, <2>3, <3>2, <3>3, <3>4
  <2> QED BY <2>5, <2>6, <2>7 DEF More
<1> QED BY <1>5, <1>6

LEMMA JoinedKeepsMore == ASSUME Inv, Inv', More, Joined PROVE More'
<1>1. /\ UNCHANGED <<starting, runners, runner, writing, displaced>>
      /\ retiring' = None /\ resuming' = None /\ Accept(resuming)
      /\ Overrule(runner[retiring].run, "cancelled")
  BY DEF Joined, Retire
<1>2. retiring \in Runners /\ retiring # None /\ ~Alive(retiring) BY DEF Joined, Inv, Types
<1>3. resuming \in 0 .. runs /\ (resuming = None => runs < MaxRuns) BY <1>2 DEF More, Books
<1>4. runs \in Nat BY DEF More, Books
<1>5. /\ runs' \in 0 .. MaxRuns /\ runs <= runs' /\ context'.run \in 1 .. runs'
      /\ context'.run = IF resuming = None THEN runs + 1 ELSE resuming
  BY <1>1, <1>3, AcceptBooks
<1>6. /\ status' \in [Runs -> Status] /\ revoked \subseteq revoked'
      /\ \A v \in Runs : status[v] = "completed" /\ v \notin revoked' => status'[v] = "completed"
  BY <1>1 DEF More, Books, Overrule, Status
<1>7. \A q \in Runners : Announced(q)' <=> Announced(q) BY <1>1 DEF Announced
<1>8. \A q \in Runners : Seen(q)' => Seen(q) BY <1>1, <1>6 DEF Seen
<1>9. Books'
  <2>1. \A q \in Runners : runner'[q].at # "none" => runner'[q].run \in 1 .. runs'
    BY <1>1, <1>4, <1>5 DEF More, Books
  <2>2. context'.run \in 0 .. runs' /\ context'.run # None /\ resuming' \in 0 .. runs'
    BY <1>1, <1>5 DEF None
  <2> QED BY <1>1, <1>5, <1>6, <2>1, <2>2 DEF More, Books
<1>10. Queue' BY <1>1 DEF Queue
<1>11. Final'
  <2> SUFFICES ASSUME displaced = {}, NEW q \in Runners, Seen(q)'
               PROVE  /\ status'[runner'[q].run] = "completed"
                      /\ context'.run = runner'[q].run => runner'[q].at \in {"settling", "closing"}
                      /\ retiring' # None => resuming' # runner'[q].run
                      /\ \A t \in Runners : t # q /\ (runner'[t].at \in Live \/ Announced(t)' \/ Seen(t)') =>
                            runner'[t].run # runner'[q].run
    BY <1>1 DEF Final
  <2>1. Seen(q) /\ runner[q].run \in 1 .. runs BY <1>8 DEF Seen, More, Books
  <2>2. runner[q].run # resuming /\ runner[q].run # runs + 1
    BY <1>2, <1>4, <2>1 DEF More, Final
  <2>3. status'[runner[q].run] = "completed"
    <3>1. runner[q].run \in Runs BY <2>1 DEF More, Books, Runs
    <3>2. runner[q].run \notin revoked' BY <1>1 DEF Seen
    <3> QED BY <1>6, <2>1, <3>1, <3>2 DEF More, Final
  <2>4. \A t \in Runners : t # q /\ (runner[t].at \in Live \/ Announced(t)' \/ Seen(t)') =>
                            runner[t].run # runner[q].run
    BY <1>7, <1>8, <2>1 DEF More, Final
  <2> QED BY <1>1, <1>5, <2>2, <2>3, <2>4
<1> QED BY <1>9, <1>10, <1>11 DEF More

LEMMA ConnectKeepsMore == ASSUME More, NEW s \in Sockets, Connect(s) PROVE More'
<1>1. UNCHANGED <<starting, retiring, resuming, context, active, runs, status, runner, writing,
                  displaced, revoked>>
  BY DEF Connect
<1>2. \A q \in Runners : (Announced(q)' <=> Announced(q)) /\ (Seen(q)' <=> Seen(q))
  BY <1>1 DEF Announced, Seen
<1> QED BY <1>1, <1>2 DEF More, Books, Queue, Final

LEMMA DisconnectKeepsMore == ASSUME Inv, More, NEW s \in Sockets, Disconnect(s) PROVE More'
<1>1. /\ starting' = [starting EXCEPT ![s] = None]
      /\ UNCHANGED <<retiring, resuming, runs, status, runner, writing, displaced, revoked>>
  BY DEF Disconnect
<1>2. context' = context \/ context' = NoContext BY DEF Disconnect, Forget
<1>3. \A t \in Sockets : starting'[t] = IF t = s THEN None ELSE starting[t]
  BY <1>1 DEF Inv, Types
<1>4. \A q \in Runners : (Announced(q)' => Announced(q)) /\ (Seen(q)' <=> Seen(q))
  BY <1>1, <1>3 DEF Announced, Seen, Runners, None
<1>5. NoContext.run = None BY DEF NoContext
<1>6. Books' BY <1>1, <1>2, <1>5 DEF More, Books, None
<1>7. Queue' BY <1>1, <1>4 DEF More, Queue
<1>8. \A q \in Runners : Seen(q) => runner[q].run # None BY DEF Seen, More, Books, None
<1>9. Final' BY <1>1, <1>2, <1>4, <1>5, <1>8 DEF More, Final
<1> QED BY <1>6, <1>7, <1>9 DEF More

LEMMA CreateTaskKeepsMore == ASSUME Inv, More, NEW s \in Sockets, CreateTask(s) PROVE More'
<1> DEFINE r == starting[s]
           x == [runner[r] EXCEPT !.at = "scheduled"]
<1>1. r \in Runners /\ runner[r] \in Runner /\ runner \in [Runners -> Runner]
  BY DEF CreateTask, Inv, Types
<1>2. runner[r].at = "created" BY DEF CreateTask, Inv, Alone
<1>3. /\ starting' = [starting EXCEPT ![s] = None]
      /\ UNCHANGED <<context, active, retiring, resuming, runs, status, writing, displaced, revoked>>
  BY DEF CreateTask
<1>4. \A t \in Sockets : starting'[t] = IF t = s THEN None ELSE starting[t]
  BY <1>3 DEF Inv, Types
<1>5. runner' = [runner EXCEPT ![r] = x] BY <1>1 DEF CreateTask
<1>6. x \in Runner BY <1>1 DEF Runner, Live
<1>7. x.at = "scheduled" /\ x.run = runner[r].run /\ x.opening = runner[r].opening
  BY <1>1 DEF Runner
<1>8. Announced(r) BY DEF CreateTask, Announced
<1> HIDE DEF x, r
<1>9. runner'[r] = x /\ \A q \in Runners : q # r => runner'[q] = runner[q]
  BY <1>1, <1>5, <1>6, Put DEF Inv
<1>10. \A q \in Runners : /\ Announced(q)' => Announced(q)
                          /\ runner'[q].run = runner[q].run
                          /\ Seen(q)' => Seen(q)
  BY <1>3, <1>4, <1>7, <1>9 DEF Announced, Seen, Runners, None
<1>11. Books'
  <2>1. \A q \in Runners : runner'[q].at # "none" => runner'[q].run \in 1 .. runs
    BY <1>2, <1>7, <1>9 DEF More, Books
  <2>2. \A q \in Runners : runner'[q].at \in {"none", "created"} =>
          writing[q].runner = "nothing" /\ writing[q].command = "nothing"
    BY <1>7, <1>9 DEF More, Books
  <2>3. \A q \in Runners : runner'[q].opening = "seen" => runner'[q].at \in {"settling", "closing", "done"}
    BY <1>2, <1>7, <1>9 DEF More, Books
  <2> QED BY <1>3, <2>1, <2>2, <2>3 DEF More, Books
<1>12. Queue' BY <1>1, <1>3, <1>7, <1>8, <1>9, <1>10 DEF More, Queue
<1>13. Final'
  <2> SUFFICES ASSUME displaced = {}, NEW q \in Runners, Seen(q)'
               PROVE  /\ status'[runner'[q].run] = "completed"
                      /\ context'.run = runner'[q].run => runner'[q].at \in {"settling", "closing"}
                      /\ retiring' # None => resuming' # runner'[q].run
                      /\ \A t \in Runners : t # q /\ (runner'[t].at \in Live \/ Announced(t)' \/ Seen(t)') =>
                            runner'[t].run # runner'[q].run
    BY <1>3 DEF Final
  <2>1. Seen(q) /\ q # r BY <1>2, <1>10 DEF Seen, More, Books
  <2>2. \A t \in Runners : t # q /\ (runner'[t].at \in Live \/ Announced(t)' \/ Seen(t)') =>
                            runner[t].run # runner[q].run
    BY <1>1, <1>8, <1>9, <1>10, <2>1 DEF More, Final
  <2> QED BY <1>3, <1>9, <1>10, <2>1, <2>2 DEF More, Final
<1> QED BY <1>11, <1>12, <1>13 DEF More

LEMMA StartKeepsMore == ASSUME Inv, Inv', More, NEW s \in Sockets, Start(s) PROVE More'
<1>1. ~Alive(active) /\ Displace /\ starting[s] = None BY DEF Start, Listens
<1>2. UNCHANGED <<retiring, resuming, context, runs, status, writing, revoked>> BY DEF Start
<1>3. displaced' = {} => displaced = {} /\ \A q \in Runners : runner[q].at \notin Live /\ ~Announced(q)
  BY <1>1, Nobody DEF Displace
<1>4. CASE context = NoContext
  <2>1. UNCHANGED <<starting, runner>> BY <1>4 DEF Start
  <2>2. \A q \in Runners : (Announced(q)' <=> Announced(q)) /\ (Seen(q)' <=> Seen(q))
    BY <1>2, <2>1 DEF Announced, Seen
  <2>3. Books' BY <1>2, <2>1 DEF More, Books
  <2>4. Queue' BY <1>2, <1>3, <2>1, <2>2 DEF More, Queue
  <2>5. Final' BY <1>2, <1>3, <2>1, <2>2 DEF More, Final
  <2> QED BY <2>3, <2>4, <2>5 DEF More
<1>5. CASE context # NoContext
  <2> DEFINE n == runners + 1
             x == [Unborn EXCEPT !.run = context.run, !.resume = context.resume, !.at = "created"]
  <2>1. /\ runners < MaxRunners
        /\ starting' = [starting EXCEPT ![s] = n]
        /\ runner' = [runner EXCEPT ![n] = x]
    BY <1>5 DEF Start
  <2>2. n \in Runners /\ n # None /\ n > runners /\ runners \in Nat
    BY <2>1 DEF Inv, Types, Runners, None
  <2>3. x \in Runner BY DEF Unborn, Runner, Inv, Types
  <2>4. x.at = "created" /\ x.run = context.run /\ x.opening = "no" BY DEF Unborn
  <2>5. runner[n].at = "none" BY <2>2 DEF Inv, Types, Alone, Runners
  <2>6. retiring # None => n > retiring
    <3> SUFFICES ASSUME retiring # None PROVE n > retiring OBVIOUS
    <3>1. retiring \in Runners /\ runner[retiring].at # "none" BY DEF Inv, Types, Alone, Live
    <3>2. retiring <= runners /\ retiring \in Nat BY <3>1 DEF Inv, Alone, Runners
    <3> QED BY <2>2, <3>2
  <2>7. context.run \in 1 .. runs BY <1>5 DEF More, Books, None
  <2> HIDE DEF n, x
  <2>8. runner'[n] = x /\ \A q \in Runners : q # n => runner'[q] = runner[q]
    BY <2>1, <2>2, <2>3, Put DEF Inv
  <2>9. \A t \in Sockets : starting'[t] = IF t = s THEN n ELSE starting[t]
    BY <2>1 DEF Inv, Types
  <2>10. \A q \in Runners : q # n => (Announced(q)' => Announced(q)) /\ (Seen(q)' <=> Seen(q))
    BY <1>2, <2>8, <2>9 DEF Announced, Seen
  <2>11. \A q \in Runners : Seen(q)' => q # n /\ Seen(q)
    BY <2>4, <2>8, <2>10 DEF Seen
  <2>12. Books'
    <3>1. \A q \in Runners : runner'[q].at # "none" => runner'[q].run \in 1 .. runs
      BY <2>4, <2>7, <2>8 DEF More, Books
    <3>2. \A q \in Runners : runner'[q].at \in {"none", "created"} =>
          writing[q].runner = "nothing" /\ writing[q].command = "nothing"
      BY <2>5, <2>8 DEF More, Books
    <3>3. \A q \in Runners : runner'[q].opening = "seen" => runner'[q].at \in {"settling", "closing", "done"}
      BY <2>4, <2>8 DEF More, Books
    <3> QED BY <1>2, <3>1, <3>2, <3>3 DEF More, Books
  <2>13. Queue'
    <3> SUFFICES ASSUME displaced' = {}, retiring # None, NEW q \in Runners
                 PROVE  /\ runner'[q].at \notin Live
                        /\ Announced(q)' => q > retiring
      BY <1>2 DEF Queue
    <3> QED BY <1>3, <2>4, <2>6, <2>8, <2>10 DEF Live
  <2>14. Final'
    <3> SUFFICES ASSUME displaced' = {}, NEW q \in Runners, Seen(q)'
               PROVE  /\ status'[runner'[q].run] = "completed"
                      /\ context'.run = runner'[q].run => runner'[q].at \in {"settling", "closing"}
                      /\ retiring' # None => resuming' # runner'[q].run
                      /\ \A t \in Runners : t # q /\ (runner'[t].at \in Live \/ Announced(t)' \/ Seen(t)') =>
                            runner'[t].run # runner'[q].run
      BY DEF Final
    <3>1. displaced = {} /\ q # n /\ Seen(q) /\ runner'[q] = runner[q]
      BY <1>3, <2>8, <2>11
    <3>2. context.run # runner[q].run
      <4>1. runner[q].at \notin Live BY <1>3
      <4> QED BY <3>1, <4>1 DEF More, Final, Live
    <3>3. \A t \in Runners : t # q /\ (runner'[t].at \in Live \/ Announced(t)' \/ Seen(t)') =>
                            runner'[t].run # runner[q].run
      BY <2>4, <2>8, <2>10, <3>1, <3>2 DEF More, Final
    <3> QED BY <1>2, <3>1, <3>2, <3>3 DEF More, Final
  <2> QED BY <2>12, <2>13, <2>14 DEF More
<1> QED BY <1>4, <1>5

LEMMA NextMore == Inv /\ More /\ [Next]_vars => More'
<1> SUFFICES ASSUME Inv, More, [Next]_vars PROVE More' OBVIOUS
<1> Inv' BY NextInv
<1>1. CASE UNCHANGED vars
  <2>1. \A q \in Runners : (Announced(q)' <=> Announced(q)) /\ (Seen(q)' <=> Seen(q))
    BY <1>1 DEF vars, session, Announced, Seen
  <2> QED BY <1>1, <2>1 DEF vars, session, More, Books, Queue, Final
<1>2. ASSUME NEW u \in 0 .. runs, RequestStart(u) PROVE More' BY <1>2, RequestStartKeepsMore
<1>3. CASE Joined BY <1>3, JoinedKeepsMore
<1>4. ASSUME NEW s \in Sockets,
             \/ Connect(s) \/ Disconnect(s) \/ Start(s) \/ CreateTask(s) \/ Cancel(s)
             \/ \E c \in {"continue", "push", "approve"} : Command(s, c)
      PROVE  More'
  BY <1>4, ConnectKeepsMore, DisconnectKeepsMore, StartKeepsMore, CreateTaskKeepsMore,
     CancelKeepsMore, CommandKeepsMore
<1>5. ASSUME NEW r \in Runners, Pipeline(r) PROVE More'
  BY <1>5, PipelineAdvances, AdvanceKeepsMore, PublishesKeepsMore
<1>6. ASSUME NEW r \in Runners,
             \/ OpenPullRequest(r) \/ Close(r) \/ Unwind(r)
             \/ \E who \in {"runner", "command"} : Land(r, who)
      PROVE  More'
  BY <1>6, OpenPullRequestKeepsMore, CloseKeepsMore, UnwindKeepsMore, LandKeepsMore
<1>7. CASE Restart BY <1>7, RestartKeepsMore
<1> QED BY <1>1, <1>2, <1>3, <1>4, <1>5, <1>6, <1>7 DEF Next, Pipeline

LEMMA MorePublished == More => PublishedOnce
<1> SUFFICES ASSUME More, NEW u \in Runs, NEW r \in Opened(u), NEW q \in Opened(u),
                    r # q, u \notin revoked, displaced = {},
                    runner[r].opening = "seen", runner[q].opening = "seen"
             PROVE  FALSE
  BY DEF PublishedOnce
<1>1. r \in Runners /\ q \in Runners /\ runner[r].run = u /\ runner[q].run = u BY DEF Opened
<1>2. Seen(r) /\ Seen(q) BY <1>1 DEF Seen
<1> QED BY <1>1, <1>2 DEF More, Final

\* A run gets a second pull request only if nobody saw the first come back, if
\* "completed" was overruled, or if two starts raced.
THEOREM OnePullRequest == Spec => []PublishedOnce
<1>1. Init => Inv /\ More BY InitInv, InitMore
<1>2. Inv /\ More /\ [Next]_vars => Inv' /\ More' BY NextInv, NextMore
<1>3. More => PublishedOnce BY MorePublished
<1> QED BY <1>1, <1>2, <1>3, PTL DEF Spec
=============================================================================
