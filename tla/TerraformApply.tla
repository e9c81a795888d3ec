--------------------------- MODULE TerraformApply ---------------------------
(***************************************************************************)
(* The runtime apply of the Agentic Layer: the registry of one project in  *)
(* main.py, the worker thread of terraform_apply.py that runs one          *)
(* Terraform command after the other, each in a container of its own, and  *)
(* the engine of the Terraform Agent that takes over when a saved run is   *)
(* not in the local store.                                                 *)
(*                                                                         *)
(* A stage is the command the worker runs.  Before it creates the          *)
(* container it looks at cancel_requested ("enter", then "checked"), then  *)
(* it waits for the container ("waiting").  How a command failed is a      *)
(* member of Kinds: what the worker looks for in the output.  Terraform,   *)
(* Docker, AWS and the lock of the remote state are external.              *)
(***************************************************************************)
EXTENDS Naturals, FiniteSets

CONSTANTS
  Requests,      \* apply requests of one project
  Confirmed,     \* those sent with confirm_plan_summary
  Saved,         \* those that name a saved run instead of carrying files
  NoOne,
  Rounds,        \* bound on every loop of retries: 3 in the code, less for candidate lists
  MaxMishaps     \* bound on restarts, broken log streams, kills and lapsed leases together

ASSUME ApplyAssumption ==
  /\ Confirmed \subseteq Requests /\ Saved \subseteq Requests
  /\ NoOne \notin Requests \cup {"run", "generation", "dead"}
  /\ Rounds \in Nat \ {0, 1} /\ MaxMishaps \in Nat

VARIABLES
  active,       \* the request in active_terraform_applies, or NoOne
  result,       \* terraform_apply_results: whose, and its status
  stage,        \* [Requests -> the command, or how the worker ended]
  step,         \* [Requests -> how far it is in that command]
  tries,        \* [Requests -> the attempt of the present loop]
  box,          \* [Requests -> the container: none, running, or how it exited]
  cancelled,    \* the requests whose cancel_requested is set
  doomed,       \* the requests whose container a stop is about to kill
  planned,      \* the requests whose plan_summary is bound
  stateLock,    \* who holds the lock of the remote state
  lease,        \* the engine's lease of the workspace: "run", "generation", one that is "dead", or NoOne
  lapsed,       \* its hour is over
  generating,   \* a generation of the same workspace: "no", "planning" or "offline"
  mishaps,
  overrun,      \* a lapsed lease was taken over (history, as did)
  did           \* [Requests -> what happened on the way]

registry == <<active, result>>
worker == <<stage, step, tries, planned>>
stops == <<cancelled, doomed>>
leases == <<lease, lapsed, generating, overrun>>
vars == <<registry, worker, box, stops, stateLock, leases, mishaps, did>>

Kinds == {"transient", "collision", "novpc", "key", "quota", "capacity", "remote", "other"}
Plans == {"plan", "replan"}
Applies == {"apply", "retry", "reimport", "reapply", "rekey", "resize", "shrink", "rezone"}
EngineCommands == {"eapply", "eshow", "eoutput"}
Locking == Plans \cup Applies \cup {"import", "eapply"}
Commands == Locking \cup EngineCommands
            \cup {"fmt", "init", "reinit", "validate", "show", "reshow", "output", "list"}
Ends == {"success", "awaiting", "error", "no ec2"}   \* no ec2: the error the Connector looks for

TypeOK ==
  /\ active \in Requests \cup {NoOne}
  /\ result \in [of : Requests \cup {NoOne},
                 status : {"idle", "running", "awaiting_plan_confirmation", "completed", "error", "no ec2"}]
  /\ stage \in [Requests -> {"none", "load", "acquire", "over"} \cup Commands \cup Ends]
  /\ step \in [Requests -> {"enter", "checked", "waiting"}]
  /\ tries \in [Requests -> 1 .. Rounds]
  /\ box \in [Requests -> {"none", "running", "ok"} \cup Kinds]
  /\ cancelled \subseteq Requests /\ doomed \subseteq Requests /\ planned \subseteq Requests
  /\ stateLock \in Requests \cup {NoOne, "loose", "leaked"}
  /\ lease \in {NoOne, "run", "generation", "dead"} /\ lapsed \in BOOLEAN
  /\ generating \in {"no", "planning", "offline"} /\ overrun \in BOOLEAN
  /\ mishaps \in 0 .. MaxMishaps
  /\ did \in [Requests -> SUBSET {"plan broke", "changed", "applied", "engine"}]

Idle == [of |-> NoOne, status |-> "idle"]

Init ==
  /\ active = NoOne /\ result = Idle
  /\ stage = [r \in Requests |-> "none"]
  /\ step = [r \in Requests |-> "enter"]
  /\ tries = [r \in Requests |-> 1]
  /\ box = [r \in Requests |-> "none"]
  /\ cancelled = {} /\ doomed = {} /\ planned = {}
  /\ stateLock = NoOne
  /\ lease = NoOne /\ lapsed = FALSE /\ generating = "no" /\ overrun = FALSE
  /\ mishaps = 0
  /\ did = [r \in Requests |-> {}]

Mishap == mishaps < MaxMishaps /\ mishaps' = mishaps + 1
Notes(r, what) == did' = [did EXCEPT ![r] = @ \cup what]

-----------------------------------------------------------------------------
(* Which command follows.  A successor is a stage and the attempt it is.     *)

To(stages) == {[to |-> s, try |-> 1] : s \in stages}
Again(r, stages) == {[to |-> s, try |-> tries[r] + 1] : s \in stages}

\* mutant: only the first plan is gated
GateOnce(r, next) ==
  IF r \in Confirmed \/ next = "reapply" THEN To({next}) ELSE To({"awaiting"})

\* After a plan the worker stops unless the request confirmed it.
Gate(r, next) == IF r \in Confirmed THEN To({next}) ELSE To({"awaiting"})

\* What was deployed is looked at; then the last statement reads plan_summary, which is
\* bound where a plan was shown.
Report(r) == To({"no ec2", "error"} \cup IF r \in planned THEN {"success"} ELSE {})

\* cancel_requested is read again after these.
AfterSuccess(r) ==
  IF stage[r] \in {"init", "reinit", "validate", "output"} /\ r \in cancelled THEN To({"error"})
  ELSE CASE stage[r] = "fmt" -> To({"init"})
         [] stage[r] \in {"init", "reinit"} -> To({"validate"})
         [] stage[r] = "validate" -> To({"plan", "error"})
         [] stage[r] = "plan" -> To({"show"})
         [] stage[r] = "replan" -> To({"reshow"})
         [] stage[r] = "show" -> Gate(r, "apply")
         [] stage[r] = "reshow" -> Gate(r, "reapply")
         [] stage[r] = "import" -> {[to |-> "reimport", try |-> tries[r]]}
         [] stage[r] \in Applies -> To({"output"})
         [] stage[r] = "output" -> To({"list"})
         [] stage[r] = "list" -> Report(r)
         [] stage[r] = "eapply" -> To({"eoutput"})
         [] stage[r] = "eshow" -> To({"error"}) \cup IF tries[r] = 1 THEN Again(r, {"eapply"}) ELSE {}
         [] stage[r] = "eoutput" -> To({"success", "error"})

\* Each recovery also has a condition on the bundle, and else ends in an error.
Recovery ==
  [collision |-> "import", novpc |-> "replan", key |-> "rekey",
   quota |-> "resize", capacity |-> "rezone"]

\* mutant: a recovery that was tried in vain is taken for done
RecoverOrGoOn(kind) ==
  IF kind \in DOMAIN Recovery THEN To({Recovery[kind], "output"}) ELSE To({"error"})

Recover(kind) ==
  IF kind \in DOMAIN Recovery THEN To({Recovery[kind], "error"}) ELSE To({"error"})

\* What collides is imported, up to three times.
ImportMore(r) == IF tries[r] < Rounds THEN Again(r, {"import", "error"}) ELSE To({"error"})

\* One instance type, or one zone, after the other; after the last type, no EC2 if it may go.
NextCandidate(r) ==
  IF tries[r] < Rounds THEN Again(r, {stage[r]})
  ELSE To({"error"} \cup IF stage[r] = "resize" THEN {"shrink"} ELSE {})

AfterFailure(r, kind) ==
  IF stage[r] \in {"plan", "apply", "retry"} /\ r \in cancelled THEN To({"error"})
  ELSE CASE stage[r] \in {"show", "reshow", "list"} -> AfterSuccess(r)
         [] stage[r] = "output" -> To({"list"})
         [] stage[r] = "init" /\ kind = "remote" -> To({"reinit", "error"})
         [] stage[r] \in {"plan", "apply"} /\ kind = "transient" -> To({"retry"})
         [] stage[r] = "retry" /\ kind = "transient" ->
              IF tries[r] < Rounds THEN Again(r, {"retry"}) ELSE To({"error"})
         [] stage[r] \in {"plan", "apply", "retry"} /\ kind # "transient" -> Recover(kind)
         [] stage[r] \in {"import", "reimport"} /\ kind = "collision" -> ImportMore(r)
         [] stage[r] \in {"resize", "rezone"} -> NextCandidate(r)
         [] stage[r] = "eapply" -> {[to |-> s, try |-> tries[r]] : s \in {"eshow", "error"}}
         [] OTHER -> To({"error"})

-----------------------------------------------------------------------------
(* The lease of the workspace (locking.py).                                  *)

\* mutant: put_item without its condition
AlwaysFree(who) == TRUE

\* The condition of put_item: no row, one whose time is over, or one's own.
Free(who) == lease = NoOne \/ lapsed \/ lease = who

Works(who) ==
  \/ who = "generation" /\ generating = "planning"
  \/ who = "run" /\ \E r \in Requests : stage[r] \in EngineCommands

Take(who) ==
  /\ Free(who)
  /\ lease' = who /\ lapsed' = FALSE
  /\ overrun' = (overrun \/ (lapsed /\ lease # who /\ Works(lease)))

\* delete_item is conditional too, and its errors are swallowed.  A run that comes again
\* comes under the same RunID, a generation under a new one.
Release(who) ==
  /\ lease' \in IF lease = who THEN {NoOne, IF who = "run" THEN who ELSE "dead"} ELSE {lease}
  /\ lapsed' = (lapsed /\ lease' # NoOne)

-----------------------------------------------------------------------------
(* The worker.                                                               *)

\* The worker leaves its stage; the engine gives the lease back in its finally.
Go(r, next) ==
  /\ stage' = [stage EXCEPT ![r] = next.to]
  /\ tries' = [tries EXCEPT ![r] = next.try]
  /\ step' = [step EXCEPT ![r] = "enter"]
  /\ planned' = IF stage[r] \in {"show", "reshow"} THEN planned \cup {r} ELSE planned
  /\ IF stage[r] \in EngineCommands /\ next.to \in Ends
     THEN Release("run")
     ELSE UNCHANGED <<lease, lapsed>>

\* The request is entered as the running one, and the old result goes, in one turn of the loop.
Accept(r) ==
  /\ stage[r] = "none" /\ active = NoOne
  /\ active' = r
  /\ result' = [of |-> r, status |-> "running"]
  /\ stage' = [stage EXCEPT ![r] = "load"]
  /\ UNCHANGED <<step, tries, planned, box, stops, stateLock, leases, mishaps, did>>

\* The files are normalised, the backend bootstrapped and the bundle staged, or it is refused.
Staged == {"fmt", "error"}

\* A saved run that is not in the store goes to the engine.
Load(r) ==
  /\ stage[r] = "load"
  /\ \E next \in To(Staged \cup IF r \in Saved THEN {"acquire"} ELSE {}) : Go(r, next)
  /\ UNCHANGED <<registry, box, stops, stateLock, generating, overrun, mishaps, did>>

AcquireLease(r) ==
  /\ stage[r] = "acquire"
  /\ IF Free("run")
     THEN Take("run") /\ stage' = [stage EXCEPT ![r] = "eapply"] /\ Notes(r, {"engine"})
     ELSE stage' = [stage EXCEPT ![r] = "error"] /\ UNCHANGED <<lease, lapsed, overrun, did>>
  /\ UNCHANGED <<registry, step, tries, planned, box, stops, stateLock, generating, mishaps>>

Check(r) ==
  /\ stage[r] \in Commands /\ step[r] = "enter" /\ r \notin cancelled
  /\ step' = [step EXCEPT ![r] = "checked"]
  /\ UNCHANGED <<registry, stage, tries, planned, box, stops, stateLock, leases, mishaps, did>>

Broke(r) == IF stage[r] = "plan" THEN {"plan broke"} ELSE {}

\* The command raises "cancelled by user"; what that means depends on where it stands.
Refuse(r) ==
  /\ stage[r] \in Commands /\ step[r] = "enter" /\ r \in cancelled
  /\ \E next \in AfterFailure(r, "other") : Go(r, next)
  /\ Notes(r, Broke(r))
  /\ UNCHANGED <<registry, box, stops, stateLock, generating, overrun, mishaps>>

\* A command that needs the state lock fails at once when it is held.
Create(r) ==
  /\ stage[r] \in Commands /\ step[r] = "checked"
  /\ step' = [step EXCEPT ![r] = "waiting"]
  /\ IF stage[r] \notin Locking
     THEN box' = [box EXCEPT ![r] = "running"] /\ UNCHANGED <<stateLock, did>>
     ELSE IF stateLock = NoOne
     THEN /\ box' = [box EXCEPT ![r] = "running"]
          /\ stateLock' = r
          /\ Notes(r, IF stage[r] \in Plans THEN {} ELSE {"changed"})
     ELSE box' = [box EXCEPT ![r] = "other"] /\ UNCHANGED <<stateLock, did>>
  /\ UNCHANGED <<registry, stage, tries, planned, stops, leases, mishaps>>

\* The container has ended, in whatever way; container_id is gone.
Read(r) ==
  /\ step[r] = "waiting" /\ box[r] \notin {"none", "running"}
  /\ \E next \in IF box[r] = "ok" THEN AfterSuccess(r) ELSE AfterFailure(r, box[r]) : Go(r, next)
  /\ box' = [box EXCEPT ![r] = "none"]
  /\ doomed' = doomed \ {r}
  /\ Notes(r, IF box[r] = "ok" THEN {} ELSE Broke(r))
  /\ UNCHANGED <<registry, cancelled, stateLock, generating, overrun, mishaps>>

\* mutant: a result that is no success is not recorded
RecordSuccess(r) ==
  /\ stage[r] \in Ends
  /\ active' = NoOne
  /\ result' = IF stage[r] = "success" THEN [of |-> r, status |-> "completed"] ELSE result
  /\ stage' = [stage EXCEPT ![r] = "over"]
  /\ UNCHANGED <<step, tries, planned, box, stops, stateLock, leases, mishaps, did>>

\* The request leaves the registry and its result enters the other, in one turn of the loop.
Record(r) ==
  /\ stage[r] \in Ends
  /\ active' = NoOne
  /\ result' = [of |-> r,
                status |-> CASE stage[r] = "success" -> "completed"
                             [] stage[r] = "awaiting" -> "awaiting_plan_confirmation"
                             [] stage[r] \in {"error", "no ec2"} -> stage[r]]
  /\ stage' = [stage EXCEPT ![r] = "over"]
  /\ UNCHANGED <<step, tries, planned, box, stops, stateLock, leases, mishaps, did>>

-----------------------------------------------------------------------------
(* Terraform and Docker.                                                     *)

Outcomes(s) ==
  CASE s \in Plans -> {"ok", "transient", "novpc", "other"}
    [] s \in Applies \cup {"import"} -> {"ok"} \cup (Kinds \ {"remote"})
    [] s = "init" -> {"ok", "remote", "other"}
    [] OTHER -> {"ok", "other"}

Unlocked(r, how) == stateLock' = IF stateLock = r THEN how ELSE stateLock

Exit(r) ==
  /\ box[r] = "running"
  /\ \E k \in Outcomes(stage[r]) :
       /\ box' = [box EXCEPT ![r] = k]
       /\ Notes(r, IF k = "ok" /\ stage[r] \in Applies \cup {"eapply"} THEN {"applied"} ELSE {})
  /\ Unlocked(r, NoOne)
  /\ UNCHANGED <<registry, worker, stops, leases, mishaps>>

\* Reading the container fails, perhaps with words a lost AWS connection has too; the
\* finally removes the container by force, or fails to, and swallows that.
Break(r) ==
  /\ box[r] = "running" /\ Mishap
  /\ \E k \in {"transient", "other"} : box' = [box EXCEPT ![r] = k]
  /\ \E how \in {"loose", "leaked"} : Unlocked(r, how)
  /\ UNCHANGED <<registry, worker, stops, leases, did>>

\* docker kill leaves the state locked.  If the container ended just before, removing it
\* may still make its wait fail.
Kill(r) ==
  /\ r \in doomed /\ box[r] # "none"
  /\ box' \in {[box EXCEPT ![r] = "other"]} \cup IF box[r] = "running" THEN {} ELSE {box}
  /\ Unlocked(r, "leaked")
  /\ doomed' = doomed \ {r}
  /\ UNCHANGED <<registry, worker, cancelled, leases, mishaps, did>>

LooseEnds ==
  /\ stateLock = "loose"
  /\ stateLock' = NoOne
  /\ UNCHANGED <<registry, worker, box, stops, leases, mishaps, did>>

Lapse ==
  /\ lease # NoOne /\ ~lapsed /\ Mishap
  /\ lapsed' = TRUE
  /\ UNCHANGED <<registry, worker, box, stops, stateLock, lease, generating, overrun, did>>

-----------------------------------------------------------------------------
(* The other requests to the Agentic Layer.                                  *)

\* The flag is set at once; a container that is known by then is killed later.
RequestStop ==
  /\ active # NoOne
  /\ cancelled' = cancelled \cup {active}
  /\ doomed' = IF step[active] = "waiting" THEN doomed \cup {active} ELSE doomed
  /\ UNCHANGED <<registry, worker, box, stateLock, leases, mishaps, did>>

\* generate_terraform_run without the lease works offline.
StartGeneration ==
  /\ generating = "no"
  /\ IF Free("generation")
     THEN Take("generation") /\ generating' = "planning"
     ELSE generating' = "offline" /\ UNCHANGED <<lease, lapsed, overrun>>
  /\ UNCHANGED <<registry, worker, box, stops, stateLock, mishaps, did>>

EndGeneration ==
  /\ generating # "no" /\ generating' = "no"
  /\ IF generating = "planning" THEN Release("generation") ELSE UNCHANGED <<lease, lapsed>>
  /\ UNCHANGED <<registry, worker, box, stops, stateLock, overrun, mishaps, did>>

\* The process dies: registry and threads are gone, containers and leases are not.
Restart ==
  /\ Mishap
  /\ active' = NoOne /\ result' = Idle
  /\ stage' = [r \in Requests |-> IF stage[r] = "none" THEN "none" ELSE "over"]
  /\ step' = [r \in Requests |-> "enter"]
  /\ box' = [r \in Requests |-> "none"]
  /\ doomed' = {} /\ generating' = "no"
  /\ stateLock' = IF stateLock \in Requests THEN "loose" ELSE stateLock
  /\ lease' = IF lease = "generation" THEN "dead" ELSE lease
  /\ UNCHANGED <<tries, planned, cancelled, lapsed, overrun, did>>

-----------------------------------------------------------------------------
(* What must hold.                                                           *)

\* terraform_apply.py:4363 and :4702, docs/internal/terraform-agent.md:22: nothing is
\* applied for a request that did not confirm its plan.  It is, after a plan that broke
\* (the retry of :4459 always applies) and by the engine; but then the run never reports
\* success, because the plan_summary it would return was never bound.
ConfirmGate ==
  \A r \in Requests \ Confirmed :
    /\ "changed" \in did[r] => did[r] \cap {"plan broke", "engine"} # {}
    /\ stage[r] = "success" => "engine" \in did[r]

\* locking.py: the engine and a generation never work on the workspace at once, unless
\* the hour of one was over while it still worked.
LeaseExcludes ==
  generating = "planning" /\ (\E r \in Requests : stage[r] \in EngineCommands) => overrun

=============================================================================
