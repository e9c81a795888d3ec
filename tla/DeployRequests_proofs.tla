------------------------ MODULE DeployRequests_proofs ------------------------
(***************************************************************************)
(* Applies of one project and the tabs that ask for them, for any number   *)
(* of requests, retries and mishaps.                                       *)
(*                                                                         *)
(* The worker's stages are a graph.  What the proofs need of it are two    *)
(* lemmas: from which stages a command leads to which (Succeeded, Failed). *)
(* The invariant then says of a stage what must have happened before it.   *)
(***************************************************************************)
EXTENDS DeployRequests, TLAPS

USE ApplyAssumption

\* The stages before anything is changed for a request that did not confirm its plan.
Harmless == {"none", "load", "acquire", "fmt", "init", "reinit", "validate", "plan", "show",
             "awaiting", "error", "over"}

\* The stages after an apply that succeeded.
Afterwards == {"output", "list", "eoutput", "success", "no ec2"}

Tracked == {"plan broke", "changed", "applied", "engine"}

Stage == {"none", "load", "acquire", "over"} \cup Commands \cup Ends

-----------------------------------------------------------------------------
(* The graph of the stages.                                                  *)

\* What can follow a stage, whether its command succeeds or fails.
Follows(r, to) ==
  /\ to \in Stage /\ to \notin {"none", "over", "load", "acquire"}
  /\ to \in EngineCommands => stage[r] \in EngineCommands
  /\ to \in {"show", "reshow"} => stage[r] \in Plans
  /\ to = "list" => stage[r] = "output"
  /\ to = "no ec2" => stage[r] = "list"
  /\ to = "success" => (stage[r] = "list" /\ r \in planned) \/ stage[r] = "eoutput"
  /\ stage[r] \in {"show", "reshow"} /\ r \notin Confirmed => to = "awaiting"

\* The stage of a successor.
LEMMA Targets ==
  ASSUME NEW S, NEW r, NEW next
  PROVE  /\ next \in To(S) => next.to \in S
         /\ next \in Again(r, S) => next.to \in S
         /\ next \in {[to |-> s, try |-> tries[r]] : s \in S} => next.to \in S
BY DEF To, Again

\* A command that succeeded.
LEMMA Succeeded ==
  ASSUME NEW r \in Requests, stage[r] \in Commands, NEW next \in AfterSuccess(r)
  PROVE  /\ Follows(r, next.to)
         /\ next.to \in {"output", "eoutput"} => stage[r] \in Applies \cup {"eapply"}
         /\ stage[r] \in Harmless /\ r \notin Confirmed => next.to \in Harmless
<1>1. CASE stage[r] \in {"init", "reinit", "validate", "output"} /\ r \in cancelled
  <2>1. next \in To({"error"})
    BY <1>1 DEF AfterSuccess
  <2> QED BY <1>1, <2>1, Targets DEF Follows, Stage, Ends, Harmless, EngineCommands
<1>2. CASE ~(stage[r] \in {"init", "reinit", "validate", "output"} /\ r \in cancelled)
  <2>1. CASE stage[r] = "fmt"
    <3>1. next \in To({"init"})
      BY <1>2, <2>1 DEF AfterSuccess, Applies
    <3> QED BY <1>2, <2>1, <3>1, Targets DEF Follows, Stage, Commands, Locking, Plans, Applies, EngineCommands, Ends, Harmless
  <2>2. CASE stage[r] \in {"init", "reinit"}
    <3>1. next \in To({"validate"})
      BY <1>2, <2>2 DEF AfterSuccess, Applies
    <3> QED BY <1>2, <2>2, <3>1, Targets DEF Follows, Stage, Commands, Locking, Plans, Applies, EngineCommands, Ends, Harmless
  <2>3. CASE stage[r] = "validate"
    <3>1. next \in To({"plan", "error"})
      BY <1>2, <2>3 DEF AfterSuccess, Applies
    <3> QED BY <1>2, <2>3, <3>1, Targets DEF Follows, Stage, Commands, Locking, Plans, Applies, EngineCommands, Ends, Harmless
  <2>4. CASE stage[r] = "plan"
    <3>1. next \in To({"show"})
      BY <1>2, <2>4 DEF AfterSuccess, Applies
    <3> QED BY <1>2, <2>4, <3>1, Targets DEF Follows, Stage, Commands, Locking, Plans, Applies, EngineCommands, Ends, Harmless
  <2>5. CASE stage[r] = "replan"
    <3>1. next \in To({"reshow"})
      BY <1>2, <2>5 DEF AfterSuccess, Applies
    <3> QED BY <1>2, <2>5, <3>1, Targets DEF Follows, Stage, Commands, Locking, Plans, Applies, EngineCommands, Ends, Harmless
  <2>6. CASE stage[r] = "show"
    <3>1. next \in To({IF r \in Confirmed THEN "apply" ELSE "awaiting"})
      BY <1>2, <2>6 DEF AfterSuccess, Applies, Gate
    <3> QED BY <1>2, <2>6, <3>1, Targets DEF Follows, Stage, Commands, Locking, Plans, Applies, EngineCommands, Ends, Harmless
  <2>7. CASE stage[r] = "reshow"
    <3>1. next \in To({IF r \in Confirmed THEN "reapply" ELSE "awaiting"})
      BY <1>2, <2>7 DEF AfterSuccess, Applies, Gate
    <3> QED BY <1>2, <2>7, <3>1, Targets DEF Follows, Stage, Commands, Locking, Plans, Applies, EngineCommands, Ends, Harmless
  <2>8. CASE stage[r] = "import"
    <3>1. next.to = "reimport"
      BY <1>2, <2>8 DEF AfterSuccess, Applies
    <3> QED BY <1>2, <2>8, <3>1, Targets DEF Follows, Stage, Commands, Locking, Plans, Applies, EngineCommands, Ends, Harmless
  <2>9. CASE stage[r] \in Applies
    <3>1. next \in To({"output"})
      BY <1>2, <2>9 DEF AfterSuccess, Applies
    <3> QED BY <1>2, <2>9, <3>1, Targets DEF Follows, Stage, Commands, Locking, Plans, Applies, EngineCommands, Ends, Harmless
  <2>10. CASE stage[r] = "output"
    <3>1. next \in To({"list"})
      BY <1>2, <2>10 DEF AfterSuccess, Applies
    <3> QED BY <1>2, <2>10, <3>1, Targets DEF Follows, Stage, Commands, Locking, Plans, Applies, EngineCommands, Ends, Harmless
  <2>11. CASE stage[r] = "list"
    <3>1. next \in To({"no ec2", "error"} \cup IF r \in planned THEN {"success"} ELSE {})
      BY <1>2, <2>11 DEF AfterSuccess, Applies, Report
    <3> QED BY <1>2, <2>11, <3>1, Targets DEF Follows, Stage, Commands, Locking, Plans, Applies, EngineCommands, Ends, Harmless
  <2>12. CASE stage[r] = "eapply"
    <3>1. next \in To({"eoutput"})
      BY <1>2, <2>12 DEF AfterSuccess, Applies
    <3> QED BY <1>2, <2>12, <3>1, Targets DEF Follows, Stage, Commands, Locking, Plans, Applies, EngineCommands, Ends, Harmless
  <2>13. CASE stage[r] = "eshow"
    <3>1. next \in To({"error"}) \/ next \in Again(r, {"eapply"})
      BY <1>2, <2>13 DEF AfterSuccess, Applies
    <3> QED BY <1>2, <2>13, <3>1, Targets DEF Follows, Stage, Commands, Locking, Plans, Applies, EngineCommands, Ends, Harmless
  <2>14. CASE stage[r] = "eoutput"
    <3>1. next \in To({"success", "error"})
      BY <1>2, <2>14 DEF AfterSuccess, Applies
    <3> QED BY <1>2, <2>14, <3>1, Targets DEF Follows, Stage, Commands, Locking, Plans, Applies, EngineCommands, Ends, Harmless
  <2> QED BY <2>1, <2>2, <2>3, <2>4, <2>5, <2>6, <2>7, <2>8, <2>9, <2>10, <2>11, <2>12, <2>13, <2>14 DEF Commands, Locking, Plans, EngineCommands
<1> QED BY <1>1, <1>2

\* A command that failed, whatever its output looks like.
LEMMA Failed ==
  ASSUME NEW r \in Requests, NEW kind \in Kinds, stage[r] \in Commands, NEW next \in AfterFailure(r, kind)
  PROVE  /\ Follows(r, next.to)
         /\ next.to \notin {"output", "eoutput"}
         /\ stage[r] \in Harmless \ {"plan"} /\ r \notin Confirmed => next.to \in Harmless
<1>1. CASE stage[r] \in {"show", "reshow", "list"}
  <2>1. next \in AfterSuccess(r)
    BY <1>1 DEF AfterFailure
  <2> QED BY <1>1, <2>1, Succeeded DEF Applies
<1>2. CASE stage[r] = "output"
  <2>1. next \in To({"list"})
    BY <1>2 DEF AfterFailure
  <2> QED BY <1>2, <2>1, Targets DEF Follows, Stage, Commands, Locking, Plans, Applies, EngineCommands, Ends, Harmless
<1>3. CASE stage[r] = "init"
  <2>1. next \in To({"reinit", "error"})
    BY <1>3 DEF AfterFailure, To
  <2> QED BY <1>3, <2>1, Targets DEF Follows, Stage, Commands, Locking, Plans, Applies, EngineCommands, Ends, Harmless
<1>4. CASE stage[r] \in {"plan", "apply"}
  <2>1. next \in To({"retry", "replan", "import", "rekey", "resize", "rezone", "error"})
    BY <1>4 DEF AfterFailure, Recover, Recovery, To
  <2> QED BY <1>4, <2>1, Targets DEF Follows, Stage, Commands, Locking, Plans, Applies, EngineCommands, Ends, Harmless
<1>5. CASE stage[r] = "retry"
  <2>1. next \in Again(r, {"retry"}) \/ next \in To({"replan", "import", "rekey", "resize", "rezone", "error"})
    BY <1>5 DEF AfterFailure, Recover, Recovery, To
  <2> QED BY <1>5, <2>1, Targets DEF Follows, Stage, Commands, Locking, Plans, Applies, EngineCommands, Ends, Harmless
<1>6. CASE stage[r] \in {"import", "reimport"}
  <2>1. next \in Again(r, {"import", "error"}) \/ next \in To({"error"})
    BY <1>6 DEF AfterFailure, ImportMore
  <2> QED BY <1>6, <2>1, Targets DEF Follows, Stage, Commands, Locking, Plans, Applies, EngineCommands, Ends, Harmless
<1>7. CASE stage[r] \in {"resize", "rezone"}
  <2>1. next \in Again(r, {"resize", "rezone"}) \/ next \in To({"error", "shrink"})
    BY <1>7 DEF AfterFailure, NextCandidate, To, Again
  <2> QED BY <1>7, <2>1, Targets DEF Follows, Stage, Commands, Locking, Plans, Applies, EngineCommands, Ends, Harmless
<1>8. CASE stage[r] = "eapply"
  <2>1. next.to \in {"eshow", "error"}
    BY <1>8 DEF AfterFailure
  <2> QED BY <1>8, <2>1, Targets DEF Follows, Stage, Commands, Locking, Plans, Applies, EngineCommands, Ends, Harmless
<1>9. CASE stage[r] \in {"fmt", "reinit", "validate", "replan", "reapply", "rekey", "shrink", "eshow", "eoutput"}
  <2>1. next \in To({"error"})
    BY <1>9 DEF AfterFailure
  <2> QED BY <1>9, <2>1, Targets DEF Follows, Stage, Commands, Locking, Plans, Applies, EngineCommands, Ends, Harmless
<1> QED BY <1>1, <1>2, <1>3, <1>4, <1>5, <1>6, <1>7, <1>8, <1>9 DEF Commands, Locking, Plans, Applies, EngineCommands

-----------------------------------------------------------------------------
(* The invariant.                                                            *)

Types ==
  /\ active \in Requests \cup {NoOne} /\ overrun \in BOOLEAN
  /\ stage \in [Requests -> Stage]
  /\ step \in [Requests -> {"enter", "checked", "waiting"}]
  /\ box \in [Requests -> {"none", "running", "ok"} \cup Kinds]
  /\ did \in [Requests -> SUBSET Tracked]
  /\ planned \subseteq Requests /\ result.of \in Requests \cup {NoOne}
  /\ tab \in [Requests -> {"idle"} \cup Waiting \cup Settled]
  /\ answered \in [Requests -> Requests \cup {NoOne}]

\* One run at a time; and a container belongs to the command its worker waits for.
Alone ==
  \A r \in Requests :
    /\ stage[r] \notin {"none", "over"} => active = r
    /\ box[r] # "none" => step[r] = "waiting" /\ stage[r] \in Commands

HoldsLease ==
  /\ (\E r \in Requests : stage[r] \in EngineCommands) /\ ~overrun => lease = "run"
  /\ generating = "planning" /\ ~overrun => lease = "generation"

\* Neither of the two ways round the confirmation was taken.
Spared(r) == "plan broke" \notin did[r] /\ "engine" \notin did[r]

\* What has happened to a request that did not confirm its plan.
Unconfirmed ==
  \A r \in Requests :
    /\ stage[r] \in EngineCommands => "engine" \in did[r]
    /\ r \notin Confirmed =>
         /\ Spared(r) => stage[r] \in Harmless /\ "changed" \notin did[r]
         /\ r \in planned => stage[r] \in {"awaiting", "over"}
         /\ stage[r] = "success" => "engine" \in did[r]

\* What has happened to a request that is said to be deployed.
Deployed ==
  /\ \A r \in Requests :
       /\ stage[r] \in Afterwards => "applied" \in did[r]
       /\ box[r] = "ok" /\ stage[r] \in Applies \cup {"eapply"} => "applied" \in did[r]
  /\ result.status \in {"completed", "no ec2"} => result.of \in Requests /\ "applied" \in did[result.of]

Inv == Types /\ Alone /\ HoldsLease /\ Unconfirmed /\ Deployed /\ DoneMeansApplied

\* No request has been made.
LEMMA InitInv == RequestsInit => Inv
<1> SUFFICES ASSUME RequestsInit PROVE Inv
  OBVIOUS
<1> USE DEF RequestsInit, Init
<1>1. Types
  BY DEF Types, Stage, Idle
<1>2. Alone /\ DoneMeansApplied
  BY DEF Alone, DoneMeansApplied
<1>3. HoldsLease
  BY DEF HoldsLease, EngineCommands
<1>4. Unconfirmed
  BY DEF Unconfirmed, EngineCommands, Harmless
<1>5. Deployed
  BY DEF Deployed, Idle, Afterwards
<1> QED BY <1>1, <1>2, <1>3, <1>4, <1>5 DEF Inv

-----------------------------------------------------------------------------
(* The steps of the worker.                                                  *)

\* A worker that goes on to a stage which its history allows.
LEMMA GoKeeps ==
  ASSUME Inv, NEW r \in Requests, NEW next, NEW what \in SUBSET {"plan broke"},
         stage[r] \in {"load"} \cup Commands, Go(r, next),
         next.to \in Stage \ {"none", "over"},
         next.to \in EngineCommands => stage[r] \in EngineCommands,
         next.to \in Afterwards => "applied" \in did[r],
         r \notin Confirmed => /\ Spared(r)' => next.to \in Harmless
                               /\ stage[r] \in {"show", "reshow"} => next.to = "awaiting"
                               /\ next.to = "success" => "engine" \in did[r],
         box' = [box EXCEPT ![r] = "none"], Notes(r, what),
         UNCHANGED <<active, result, generating, overrun, tab, answered>>
  PROVE  Inv'
<1> USE DEF Inv
<1>1. Types'
  BY DEF Types, Go, Notes, Tracked
<1>2. /\ stage'[r] = next.to /\ did'[r] = did[r] \cup what /\ box'[r] = "none"
      /\ \A q \in Requests \ {r} : stage'[q] = stage[q] /\ did'[q] = did[q] /\ box'[q] = box[q] /\ step'[q] = step[q]
      /\ planned' = IF stage[r] \in {"show", "reshow"} THEN planned \cup {r} ELSE planned
  BY DEF Types, Go, Notes
<1>3. Alone'
  BY <1>2 DEF Alone, Commands, Locking, Plans, Applies, EngineCommands
<1>4. HoldsLease'
  <2>1. CASE stage[r] \in EngineCommands /\ next.to \in Ends
    <3>1. \A q \in Requests : stage'[q] \notin EngineCommands
      BY <1>2, <2>1 DEF Alone, EngineCommands, Ends, Stage
    <3>2. lease # "run" => lease' = lease
      BY <2>1 DEF Go, Release
    <3> QED BY <2>1, <3>1, <3>2 DEF HoldsLease
  <2>2. CASE ~(stage[r] \in EngineCommands /\ next.to \in Ends)
    <3>1. lease' = lease
      BY <2>2 DEF Go
    <3> QED BY <1>2, <3>1 DEF HoldsLease
  <2> QED BY <2>1, <2>2
<1>5. Unconfirmed'
  <2> SUFFICES ASSUME NEW q \in Requests PROVE Unconfirmed!(q)'
    BY DEF Unconfirmed
  <2>0. /\ stage[q] \in EngineCommands => "engine" \in did[q]
        /\ q \notin Confirmed =>
             /\ Spared(q) => stage[q] \in Harmless /\ "changed" \notin did[q]
             /\ q \in planned => stage[q] \in {"awaiting", "over"}
             /\ stage[q] = "success" => "engine" \in did[q]
    BY DEF Unconfirmed
  <2>1. CASE q = r
    <3>1. next.to \in EngineCommands => "engine" \in did'[r]
      BY <1>2, <2>0, <2>1
    <3>2. r \notin Confirmed /\ Spared(r)' => next.to \in Harmless
      OBVIOUS
    <3>3. r \notin Confirmed /\ Spared(r)' => "changed" \notin did'[r]
      BY <1>2, <2>0, <2>1 DEF Spared
    <3>4. stage[r] \notin {"awaiting", "over"}
      BY DEF Commands, Locking, Plans, Applies, EngineCommands
    <3>5. r \notin Confirmed /\ r \in planned' => next.to = "awaiting"
      BY <1>2, <2>0, <2>1, <3>4
    <3> QED BY <1>2, <2>1, <3>1, <3>2, <3>3, <3>5
  <2>2. CASE q # r
    BY <1>2, <2>0, <2>2 DEF Spared
  <2> QED BY <2>1, <2>2
<1>6. Deployed'
  BY <1>2 DEF Deployed
<1>8. \A q \in Requests : "applied" \in did[q] => "applied" \in did'[q]
  BY <1>2
<1>7. DoneMeansApplied'
  BY <1>8 DEF DoneMeansApplied, Types
<1> QED BY <1>1, <1>3, <1>4, <1>5, <1>6, <1>7

\* The files are staged, or the saved run is left to the engine.
LEMMA LoadKeeps == ASSUME Inv, NEW r \in Requests, Load(r), UNCHANGED tabs PROVE Inv'
<1>1. PICK next \in To(Staged \cup IF r \in Saved THEN {"acquire"} ELSE {}) : Go(r, next)
  BY DEF Load
<1>2. next.to \in {"fmt", "error", "acquire"}
  BY Targets DEF Staged
<1>3. box' = [box EXCEPT ![r] = "none"] /\ Notes(r, {})
  BY DEF Load, Inv, Types, Alone, Notes, Commands, Locking, Plans, Applies, EngineCommands
<1> QED BY <1>1, <1>2, <1>3, GoKeeps DEF Load, registry, tabs, Stage, Harmless, Afterwards,
           Commands, Locking, Plans, Applies, EngineCommands, Ends

\* The worker leaves a command for one that follows it.
LEMMA CommandKeeps ==
  ASSUME Inv, NEW r \in Requests, stage[r] \in Commands,
         NEW next, NEW what \in SUBSET {"plan broke"}, Go(r, next), Follows(r, next.to),
         next.to \in {"output", "eoutput"} => "applied" \in did[r],
         r \notin Confirmed /\ stage[r] \in Harmless /\ "plan broke" \notin what => next.to \in Harmless,
         box' = [box EXCEPT ![r] = "none"], Notes(r, what),
         UNCHANGED <<active, result, generating, overrun, tab, answered>>
  PROVE  Inv'
<1>1. next.to \in Stage \ {"none", "over"} /\ (next.to \in EngineCommands => stage[r] \in EngineCommands)
  BY DEF Follows
<1>2. next.to \in Afterwards => "applied" \in did[r]
  BY DEF Inv, Deployed, Afterwards, Follows
<1>3. did'[r] = did[r] \cup what
  BY DEF Notes, Inv, Types
<1>4. ASSUME r \notin Confirmed
      PROVE  /\ Spared(r)' => next.to \in Harmless
             /\ stage[r] \in {"show", "reshow"} => next.to = "awaiting"
             /\ next.to = "success" => "engine" \in did[r]
  <2>1. next.to = "success" => "engine" \in did[r]
    BY <1>4 DEF Inv, Unconfirmed, Follows, EngineCommands
  <2>2. Spared(r)' => next.to \in Harmless
    BY <1>3, <1>4 DEF Inv, Unconfirmed, Spared
  <2> QED BY <1>4, <2>1, <2>2 DEF Follows
<1> QED BY <1>1, <1>2, <1>4, GoKeeps

\* A command that is not begun, because of a stop.
LEMMA RefuseKeeps == ASSUME Inv, NEW r \in Requests, Refuse(r), UNCHANGED tabs PROVE Inv'
<1>1. PICK next \in AfterFailure(r, "other") : Go(r, next)
  BY DEF Refuse
<1>2. stage[r] \in Commands /\ "other" \in Kinds
  BY DEF Refuse, Kinds
<1>3. /\ Follows(r, next.to)
      /\ next.to \notin {"output", "eoutput"}
      /\ stage[r] \in Harmless \ {"plan"} /\ r \notin Confirmed => next.to \in Harmless
  BY <1>1, <1>2, Failed
<1>4. box' = [box EXCEPT ![r] = "none"] /\ Notes(r, Broke(r)) /\ Broke(r) \in SUBSET {"plan broke"}
  BY DEF Refuse, Inv, Types, Alone, Broke
<1>5. r \notin Confirmed /\ stage[r] \in Harmless /\ "plan broke" \notin Broke(r) => next.to \in Harmless
  BY <1>3 DEF Broke
<1> QED BY <1>1, <1>2, <1>3, <1>4, <1>5, CommandKeeps DEF Refuse, registry, tabs

\* A command that ended.
LEMMA ReadKeeps == ASSUME Inv, NEW r \in Requests, Read(r), UNCHANGED tabs PROVE Inv'
<1>1. stage[r] \in Commands /\ box[r] \in {"ok"} \cup Kinds
  BY DEF Read, Inv, Types, Alone
<1>2. /\ box' = [box EXCEPT ![r] = "none"]
      /\ UNCHANGED <<active, result, generating, overrun, tab, answered>>
  BY DEF Read, registry, tabs
<1>3. CASE box[r] = "ok"
  <2>1. PICK next \in AfterSuccess(r) : Go(r, next)
    BY <1>3 DEF Read
  <2>2. /\ Follows(r, next.to)
        /\ next.to \in {"output", "eoutput"} => stage[r] \in Applies \cup {"eapply"}
        /\ stage[r] \in Harmless /\ r \notin Confirmed => next.to \in Harmless
    BY <1>1, <2>1, Succeeded
  <2>3. next.to \in {"output", "eoutput"} => "applied" \in did[r]
    BY <1>3, <2>2 DEF Inv, Deployed
  <2>4. Notes(r, {})
    BY <1>3 DEF Read
  <2> QED BY <1>1, <1>2, <2>1, <2>2, <2>3, <2>4, CommandKeeps
<1>4. CASE box[r] # "ok"
  <2>1. PICK next \in AfterFailure(r, box[r]) : Go(r, next)
    BY <1>4 DEF Read
  <2>2. /\ Follows(r, next.to)
        /\ next.to \notin {"output", "eoutput"}
        /\ stage[r] \in Harmless \ {"plan"} /\ r \notin Confirmed => next.to \in Harmless
    BY <1>1, <1>4, <2>1, Failed
  <2>3. Notes(r, Broke(r)) /\ Broke(r) \in SUBSET {"plan broke"}
    BY <1>4 DEF Read, Broke
  <2>4. r \notin Confirmed /\ stage[r] \in Harmless /\ "plan broke" \notin Broke(r) => next.to \in Harmless
    BY <2>2 DEF Broke
  <2> QED BY <1>1, <1>2, <2>1, <2>2, <2>3, <2>4, CommandKeeps
<1> QED BY <1>3, <1>4

\* The engine has the lease when it begins.
LEMMA AcquireLeaseKeeps == ASSUME Inv, NEW r \in Requests, AcquireLease(r), UNCHANGED tabs PROVE Inv'
<1> USE DEF Inv
<1>1. PICK to \in {"eapply", "error"} : stage' = [stage EXCEPT ![r] = to] /\ (to = "eapply" => Notes(r, {"engine"}))
                                     /\ (to = "error" => did' = did)
  BY DEF AcquireLease
<1>2. /\ stage[r] = "acquire" /\ \A q \in Requests : stage[q] \notin EngineCommands
      /\ UNCHANGED <<active, result, step, box, planned, generating, tab, answered>>
  BY DEF AcquireLease, Alone, registry, tabs, EngineCommands
<1>3. /\ stage'[r] = to /\ did'[r] = did[r] \cup (IF to = "eapply" THEN {"engine"} ELSE {})
      /\ \A q \in Requests \ {r} : stage'[q] = stage[q] /\ did'[q] = did[q]
  BY <1>1 DEF Types, Notes
<1>4. Types'
  <2>1. overrun' \in BOOLEAN
    BY DEF AcquireLease, Take, Types
  <2>2. stage' \in [Requests -> Stage] /\ did' \in [Requests -> SUBSET Tracked]
    <3>1. to \in Stage
      BY DEF Stage, Commands, EngineCommands, Ends
    <3>2. did' \in [Requests -> SUBSET Tracked]
      <4>1. CASE to = "eapply"
        <5>1. did' = [did EXCEPT ![r] = @ \cup {"engine"}]
          BY <1>1, <4>1 DEF Notes
        <5>2. did[r] \cup {"engine"} \in SUBSET Tracked
          BY DEF Types, Tracked
        <5> QED BY <5>1, <5>2 DEF Types
      <4>2. CASE to = "error"
        BY <1>1, <4>2 DEF Types
      <4> QED BY <4>1, <4>2
    <3> QED BY <1>1, <3>1, <3>2 DEF Types
  <2> QED BY <1>2, <2>1, <2>2 DEF Types
<1>5. Alone'
  BY <1>2, <1>3 DEF Alone, Commands, Locking, Plans, Applies, EngineCommands
<1>6. HoldsLease'
  <2>1. CASE Free("run")
    <3>1. lease' = "run" /\ overrun' = (overrun \/ (lapsed /\ lease # "run" /\ Works(lease)))
      BY <2>1 DEF AcquireLease, Take
    <3>2. generating = "planning" /\ ~overrun => lease = "generation"
      BY DEF HoldsLease
    <3>3. generating = "planning" => overrun'
      BY <2>1, <3>1, <3>2 DEF Free, Works
    <3> QED BY <1>2, <3>1, <3>3 DEF HoldsLease
  <2>2. CASE ~Free("run")
    <3>1. stage' = [stage EXCEPT ![r] = "error"] /\ UNCHANGED <<lease, overrun>>
      BY <2>2 DEF AcquireLease
    <3>2. \A q \in Requests : stage'[q] \notin EngineCommands
      BY <1>2, <3>1 DEF Types, EngineCommands
    <3> QED BY <1>2, <3>1, <3>2 DEF HoldsLease
  <2> QED BY <2>1, <2>2
<1>7. Unconfirmed'
  BY <1>2, <1>3 DEF Unconfirmed, Spared, Harmless, EngineCommands
<1>8. Deployed'
  BY <1>2, <1>3 DEF Deployed, Alone, Afterwards, Commands, Locking, Plans, Applies, EngineCommands
<1>9. DoneMeansApplied'
  BY <1>2, <1>3 DEF DoneMeansApplied, Types
<1> QED BY <1>4, <1>5, <1>6, <1>7, <1>8, <1>9

\* A request enters the registry when nobody is in it.
LEMMA DeliverKeeps == ASSUME Inv, NEW r \in Requests, Deliver(r) PROVE Inv'
<1> USE DEF Inv
<1>1. /\ stage[r] = "none" /\ active = NoOne /\ active' = r /\ stage' = [stage EXCEPT ![r] = "load"]
      /\ result'.status = "running" /\ result'.of = r /\ tab' = [tab EXCEPT ![r] = "grace"]
      /\ UNCHANGED <<step, planned, box, lease, generating, overrun, did, answered>>
  BY DEF Deliver, Accept, Shows, leases
<1>2. stage'[r] = "load" /\ \A q \in Requests \ {r} : stage'[q] = stage[q] /\ stage[q] \in {"none", "over"}
  BY <1>1 DEF Types, Alone
<1>3. Types'
  BY <1>1 DEF Types, Stage, Waiting
<1>4. Alone'
  BY <1>1, <1>2 DEF Alone, Commands, Locking, Plans, Applies, EngineCommands
<1>5. HoldsLease'
  BY <1>1, <1>2 DEF HoldsLease, EngineCommands
<1>6. Unconfirmed'
  <2> SUFFICES ASSUME NEW q \in Requests PROVE Unconfirmed!(q)'
    BY DEF Unconfirmed
  <2>1. Spared(q)' <=> Spared(q)
    BY <1>1 DEF Spared
  <2>2. CASE q = r
    BY <1>1, <1>2, <2>1, <2>2 DEF Unconfirmed, Harmless, EngineCommands
  <2>3. CASE q # r
    BY <1>1, <1>2, <2>1, <2>3 DEF Unconfirmed
  <2> QED BY <2>2, <2>3
<1>7. Deployed'
  BY <1>1, <1>2 DEF Deployed, Afterwards, Applies
<1>8. DoneMeansApplied'
  BY <1>1 DEF DoneMeansApplied, Types
<1> QED BY <1>3, <1>4, <1>5, <1>6, <1>7, <1>8

\* The container of a command, or the refusal of Terraform to wait for the state lock.
LEMMA CreateKeeps == ASSUME Inv, NEW r \in Requests, Create(r), UNCHANGED tabs PROVE Inv'
<1> USE DEF Inv
<1>1. PICK b \in {"running", "other"} : box' = [box EXCEPT ![r] = b]
  BY DEF Create
<1>2. PICK what \in SUBSET {"changed"} : did' = [did EXCEPT ![r] = @ \cup what]
                                        /\ (stage[r] \in Plans \/ stage[r] \notin Locking => what = {})
  <2>1. CASE did' = did
    <3>1. did' = [did EXCEPT ![r] = @ \cup {}]
      BY <2>1 DEF Types
    <3> QED BY <3>1
  <2>2. CASE Notes(r, IF stage[r] \in Plans THEN {} ELSE {"changed"}) /\ stage[r] \in Locking
    BY <2>2 DEF Notes
  <2> QED BY <2>1, <2>2 DEF Create
<1>3. /\ stage[r] \in Commands /\ step' = [step EXCEPT ![r] = "waiting"]
      /\ UNCHANGED <<active, result, stage, planned, lease, generating, overrun, tab, answered>>
  BY DEF Create, registry, leases, tabs
<1>4. /\ box'[r] \in {"running", "other"} /\ did'[r] = did[r] \cup what /\ step'[r] = "waiting"
      /\ \A q \in Requests \ {r} : box'[q] = box[q] /\ did'[q] = did[q] /\ step'[q] = step[q]
  BY <1>1, <1>2, <1>3 DEF Types
<1>5. Types'
  BY <1>1, <1>2, <1>3 DEF Types, Kinds, Tracked
<1>6. Alone' /\ HoldsLease'
  BY <1>3, <1>4 DEF Alone, HoldsLease
<1>7. Unconfirmed'
  <2> SUFFICES ASSUME NEW q \in Requests PROVE Unconfirmed!(q)'
    BY DEF Unconfirmed
  <2>1. CASE q = r
    <3>1. stage[r] \in Harmless => what = {}
      BY <1>2, <1>3 DEF Harmless, Locking, Plans, Applies
    <3>2. r \notin Confirmed /\ Spared(r)' => stage[r] \in Harmless /\ "changed" \notin did'[r]
      BY <1>4, <3>1 DEF Unconfirmed, Spared
    <3> QED BY <1>3, <1>4, <2>1, <3>2 DEF Unconfirmed
  <2>2. CASE q # r
    BY <1>3, <1>4, <2>2 DEF Unconfirmed, Spared
  <2> QED BY <2>1, <2>2
<1>8. Deployed'
  BY <1>3, <1>4 DEF Deployed
<1>9. \A q \in Requests : "applied" \in did[q] => "applied" \in did'[q]
  BY <1>4
<1>10. DoneMeansApplied'
  BY <1>3, <1>9 DEF DoneMeansApplied, Types
<1> QED BY <1>5, <1>6, <1>7, <1>8, <1>10

\* A container that ends, having applied something or not.
LEMMA BoxKeeps ==
  ASSUME Inv, NEW r \in Requests, NEW b \in {"ok"} \cup Kinds, NEW what \in SUBSET {"applied"},
         box[r] # "none", box' = [box EXCEPT ![r] = b], did' = [did EXCEPT ![r] = @ \cup what],
         b = "ok" /\ stage[r] \in Applies \cup {"eapply"} => box[r] = "ok" \/ what = {"applied"},
         UNCHANGED <<active, result, stage, step, planned, lease, generating, overrun, tab, answered>>
  PROVE  Inv'
<1> USE DEF Inv
<1>1. /\ box'[r] = b /\ did'[r] = did[r] \cup what
      /\ \A q \in Requests \ {r} : box'[q] = box[q] /\ did'[q] = did[q]
  BY DEF Types
<1>2. Types'
  BY DEF Types, Kinds, Tracked
<1>3. Alone' /\ HoldsLease'
  BY <1>1 DEF Alone, HoldsLease
<1>4. Unconfirmed'
  <2> SUFFICES ASSUME NEW q \in Requests PROVE Unconfirmed!(q)'
    BY DEF Unconfirmed
  <2>4. did'[q] = did[q] \/ did'[q] = did[q] \cup what
    BY <1>1
  <2>1. "engine" \in did[q] <=> "engine" \in did'[q]
    BY <2>4
  <2>2. "plan broke" \in did[q] <=> "plan broke" \in did'[q]
    BY <2>4
  <2>3. "changed" \in did[q] <=> "changed" \in did'[q]
    BY <2>4
  <2> QED BY <2>1, <2>2, <2>3 DEF Unconfirmed, Spared
<1>5. Deployed'
  BY <1>1 DEF Deployed
<1>6. \A q \in Requests : "applied" \in did[q] => "applied" \in did'[q]
  BY <1>1
<1>7. DoneMeansApplied'
  BY <1>6 DEF DoneMeansApplied, Types
<1> QED BY <1>2, <1>3, <1>4, <1>5, <1>7

\* What Terraform and Docker do with a container.
LEMMA ContainerKeeps ==
  ASSUME Inv, NEW r \in Requests, Exit(r) \/ Break(r) \/ Kill(r), UNCHANGED tabs
  PROVE  Inv'
<1>1. /\ box[r] # "none"
      /\ UNCHANGED <<active, result, stage, step, planned, lease, generating, overrun, tab, answered>>
  BY DEF Exit, Break, Kill, registry, worker, leases, tabs
<1>2. {} \in SUBSET {"applied"} /\ {"applied"} \in SUBSET {"applied"}
  OBVIOUS
<1>6. did' = did => did' = [did EXCEPT ![r] = @ \cup {}]
  BY DEF Inv, Types
<1>3. CASE Exit(r)
  <2>1. PICK k \in Outcomes(stage[r]) :
          /\ box' = [box EXCEPT ![r] = k]
          /\ Notes(r, IF k = "ok" /\ stage[r] \in Applies \cup {"eapply"} THEN {"applied"} ELSE {})
    BY <1>3 DEF Exit
  <2>2. k \in {"ok"} \cup Kinds
    <3>1. Outcomes(stage[r]) \subseteq {"ok"} \cup Kinds
      BY DEF Outcomes, Kinds, Plans, Applies
    <3> QED BY <3>1
  <2>3. CASE k = "ok" /\ stage[r] \in Applies \cup {"eapply"}
    <3>1. did' = [did EXCEPT ![r] = @ \cup {"applied"}]
      BY <2>1, <2>3 DEF Notes
    <3> QED BY <1>1, <1>2, <2>1, <2>2, <2>3, <3>1, BoxKeeps
  <2>4. CASE ~(k = "ok" /\ stage[r] \in Applies \cup {"eapply"})
    <3>1. did' = [did EXCEPT ![r] = @ \cup {}]
      BY <2>1, <2>4 DEF Notes
    <3> QED BY <1>1, <1>2, <2>1, <2>2, <2>4, <3>1, BoxKeeps
  <2> QED BY <2>3, <2>4
<1>4. CASE Break(r)
  <2>1. PICK k \in {"transient", "other"} : box' = [box EXCEPT ![r] = k]
    BY <1>4 DEF Break
  <2>2. k \in {"ok"} \cup Kinds /\ k # "ok"
    BY DEF Kinds
  <2>3. did' = did
    BY <1>4 DEF Break
  <2> QED BY <1>1, <1>2, <2>1, <2>2, <2>3, <1>6, BoxKeeps
<1>5. CASE Kill(r)
  <2>1. did' = did
    BY <1>5 DEF Kill
  <2>2. CASE box' = [box EXCEPT ![r] = "other"]
    <3>1. "other" \in {"ok"} \cup Kinds
      BY DEF Kinds
    <3> QED BY <1>1, <1>2, <1>6, <2>1, <2>2, <3>1, BoxKeeps
  <2>3. CASE box' = box /\ box[r] # "running"
    <3>1. box' = [box EXCEPT ![r] = box[r]]
      BY <2>3 DEF Inv, Types
    <3>2. box[r] \in {"ok"} \cup Kinds
      BY <1>1, <2>3 DEF Inv, Types
    <3> QED BY <1>1, <1>2, <1>6, <2>1, <3>1, <3>2, BoxKeeps
  <2> QED BY <1>5, <2>2, <2>3 DEF Kill
<1> QED BY <1>3, <1>4, <1>5

\* The result of the run replaces it in the registry.
LEMMA RecordKeeps == ASSUME Inv, NEW r \in Requests, Record(r), UNCHANGED tabs PROVE Inv'
<1> USE DEF Inv
<1>1. /\ stage[r] \in Ends /\ active' = NoOne /\ stage' = [stage EXCEPT ![r] = "over"]
      /\ result'.of = r
      /\ result'.status \in {"completed", "no ec2"} => stage[r] \in {"success", "no ec2"}
      /\ UNCHANGED <<step, planned, box, lease, generating, overrun, did, tab, answered>>
  BY DEF Record, leases, tabs, Ends
<1>2. /\ stage'[r] = "over" /\ box[r] = "none"
      /\ \A q \in Requests \ {r} : stage'[q] = stage[q] /\ stage[q] \in {"none", "over"}
  BY <1>1 DEF Types, Alone, Ends, Commands, Locking, Plans, Applies, EngineCommands
<1>3. Types'
  BY <1>1 DEF Types, Stage
<1>4. Alone'
  BY <1>1, <1>2 DEF Alone
<1>5. HoldsLease'
  BY <1>1, <1>2 DEF HoldsLease, EngineCommands
<1>6. Unconfirmed'
  <2> SUFFICES ASSUME NEW q \in Requests PROVE Unconfirmed!(q)'
    BY DEF Unconfirmed
  <2>1. CASE q = r
    BY <1>1, <1>2, <2>1 DEF Unconfirmed, Spared, Harmless, EngineCommands, Ends
  <2>2. CASE q # r
    BY <1>1, <1>2, <2>2 DEF Unconfirmed, Spared
  <2> QED BY <2>1, <2>2
<1>7. Deployed'
  BY <1>1, <1>2 DEF Deployed, Afterwards, Applies
<1>8. DoneMeansApplied'
  BY <1>1 DEF DoneMeansApplied, Types
<1> QED BY <1>3, <1>4, <1>5, <1>6, <1>7, <1>8

\* A stop, seen from what is proved here, sets a flag.
LEMMA NothingMoves ==
  ASSUME Inv, UNCHANGED <<active, result, stage, step, box, planned, lease, generating, overrun, did, tab, answered>>
  PROVE  Inv'
<1>1. \A q \in Requests : Spared(q)' <=> Spared(q)
  BY DEF Spared
<1>2. Types' /\ Alone' /\ HoldsLease' /\ Deployed' /\ DoneMeansApplied'
  BY DEF Inv, Types, Alone, HoldsLease, Deployed, DoneMeansApplied
<1>3. Unconfirmed'
  BY <1>1 DEF Inv, Unconfirmed
<1> QED BY <1>2, <1>3 DEF Inv

\* The worker looks at the flag.
LEMMA CheckKeeps == ASSUME Inv, NEW r \in Requests, Check(r), UNCHANGED tabs PROVE Inv'
<1>1. /\ step[r] = "enter" /\ step' = [step EXCEPT ![r] = "checked"]
      /\ UNCHANGED <<active, result, stage, box, planned, lease, generating, overrun, did, tab, answered>>
  BY DEF Check, registry, leases, tabs
<1>2. Types' /\ Alone'
  BY <1>1 DEF Inv, Types, Alone
<1>3. \A q \in Requests : Spared(q)' <=> Spared(q)
  BY <1>1 DEF Spared
<1>4. HoldsLease' /\ Deployed' /\ DoneMeansApplied'
  BY <1>1 DEF Inv, HoldsLease, Deployed, DoneMeansApplied
<1>5. Unconfirmed'
  BY <1>1, <1>3 DEF Inv, Unconfirmed
<1> QED BY <1>2, <1>4, <1>5 DEF Inv

-----------------------------------------------------------------------------
(* The steps of the others.                                                  *)

\* A generation takes the lease, or works without it.
LEMMA GenerationKeeps ==
  ASSUME Inv, StartGeneration \/ EndGeneration, UNCHANGED tabs
  PROVE  Inv'
<1>1. UNCHANGED <<active, result, stage, step, box, planned, did, tab, answered>>
  BY DEF StartGeneration, EndGeneration, registry, worker, tabs
<1>2. overrun' \in BOOLEAN /\ HoldsLease'
  <2>1. CASE StartGeneration /\ Free("generation")
    <3>1. /\ lease' = "generation" /\ overrun' = (overrun \/ (lapsed /\ lease # "generation" /\ Works(lease)))
          /\ generating = "no" /\ generating' = "planning"
      BY <2>1 DEF StartGeneration, Take
    <3>2. (\E r \in Requests : stage[r] \in EngineCommands) /\ ~overrun => lease = "run"
      BY DEF Inv, HoldsLease
    <3>3. (\E r \in Requests : stage[r] \in EngineCommands) => overrun'
      BY <2>1, <3>1, <3>2 DEF Free, Works
    <3>4. overrun' \in BOOLEAN
      BY <3>1 DEF Inv, Types
    <3> QED BY <1>1, <3>1, <3>3, <3>4 DEF HoldsLease
  <2>2. CASE StartGeneration /\ ~Free("generation")
    <3>1. generating' = "offline" /\ UNCHANGED <<lease, overrun>>
      BY <2>2 DEF StartGeneration
    <3> QED BY <1>1, <3>1 DEF Inv, Types, HoldsLease
  <2>3. CASE EndGeneration
    <3>1. generating' = "no" /\ overrun' = overrun /\ (lease = "run" => lease' = "run")
      BY <2>3 DEF EndGeneration, Release
    <3> QED BY <1>1, <3>1 DEF Inv, Types, HoldsLease
  <2> QED BY <2>1, <2>2, <2>3
<1>3. \A q \in Requests : Spared(q)' <=> Spared(q)
  BY <1>1 DEF Spared
<1>4. Types' /\ Alone' /\ Deployed' /\ DoneMeansApplied'
  BY <1>1, <1>2 DEF Inv, Types, Alone, Deployed, DoneMeansApplied
<1>5. Unconfirmed'
  BY <1>1, <1>3 DEF Inv, Unconfirmed
<1> QED BY <1>2, <1>4, <1>5 DEF Inv

\* After a restart nothing runs.
LEMMA RestartKeeps == ASSUME Inv, Restart, UNCHANGED tabs PROVE Inv'
<1> USE DEF Inv
<1>1. /\ active' = NoOne /\ result'.status = "idle" /\ generating' = "no"
      /\ \A q \in Requests : stage'[q] = (IF stage[q] = "none" THEN "none" ELSE "over") /\ box'[q] = "none"
      /\ UNCHANGED <<planned, overrun, did, tab, answered>>
  BY DEF Restart, Idle, tabs
<1>2. Types'
  <2>1. stage' \in [Requests -> Stage]
    BY DEF Restart, Stage
  <2>2. step' \in [Requests -> {"enter", "checked", "waiting"}]
    BY DEF Restart
  <2>3. box' \in [Requests -> {"none", "running", "ok"} \cup Kinds]
    BY DEF Restart
  <2>4. result'.of = NoOne
    BY DEF Restart, Idle
  <2> QED BY <1>1, <2>1, <2>2, <2>3, <2>4 DEF Types
<1>3. Alone' /\ HoldsLease'
  BY <1>1 DEF Alone, HoldsLease, EngineCommands
<1>4. Unconfirmed'
  <2> SUFFICES ASSUME NEW q \in Requests PROVE Unconfirmed!(q)'
    BY DEF Unconfirmed
  <2>1. Spared(q)' <=> Spared(q)
    BY <1>1 DEF Spared
  <2>2. stage'[q] \in {"none", "over"} /\ (q \in planned' /\ q \notin Confirmed => stage'[q] = "over")
    BY <1>1 DEF Unconfirmed
  <2> QED BY <1>1, <2>1, <2>2 DEF Unconfirmed, Harmless, EngineCommands
<1>5. Deployed'
  BY <1>1 DEF Deployed, Afterwards
<1>6. DoneMeansApplied'
  BY <1>1 DEF DoneMeansApplied
<1> QED BY <1>2, <1>3, <1>4, <1>5, <1>6

\* A tab that shows something else, and a deployment only if it was applied.
LEMMA ScreenKeeps ==
  ASSUME Inv, NEW q \in Requests, NEW screen \in {"idle"} \cup Waiting \cup Settled,
         NEW whose \in Requests \cup {NoOne}, Shows(q, screen),
         answered' = [answered EXCEPT ![q] = whose],
         screen = "done" => whose # NoOne /\ "applied" \in did[whose],
         UNCHANGED <<active, result, stage, step, box, planned, lease, generating, overrun, did>>
  PROVE  Inv'
<1>1. \A p \in Requests : Spared(p)' <=> Spared(p)
  BY DEF Spared
<1>2. Alone' /\ HoldsLease' /\ Deployed'
  BY DEF Inv, Alone, HoldsLease, Deployed
<1>3. Unconfirmed'
  BY <1>1 DEF Inv, Unconfirmed
<1>4. Types' /\ DoneMeansApplied'
  BY DEF Inv, Types, DoneMeansApplied, Shows
<1> QED BY <1>2, <1>3, <1>4 DEF Inv

\* The end that a tab is shown is what the status of a run says.
LEMMA TabKeeps ==
  ASSUME Inv, NEW q \in Requests,
         \/ StartDeploy(q) \/ AlreadyInProgress(q) \/ Lose(q) \/ AnswerInGrace(q)
         \/ GraceOver(q) \/ Reconcile(q) \/ StopDeployment(q)
  PROVE  Inv'
<1>1. UNCHANGED <<active, result, stage, step, box, planned, lease, generating, overrun, did>>
  BY DEF StartDeploy, AlreadyInProgress, Lose, AnswerInGrace, GraceOver, Reconcile, StopDeployment,
         RequestStop, vars, registry, worker, leases
<1>2. answered[q] \in Requests \cup {NoOne} /\ (answered' = answered => answered' = [answered EXCEPT ![q] = answered[q]])
  BY DEF Inv, Types
<1>3. CASE answered' = answered /\ \E screen \in Waiting \cup {"failed"} : Shows(q, screen)
  <2>1. PICK screen \in Waiting \cup {"failed"} : Shows(q, screen)
    BY <1>3
  <2>2. screen \in {"idle"} \cup Waiting \cup Settled /\ screen # "done"
    BY DEF Waiting, Settled
  <2> QED BY <1>1, <1>2, <1>3, <2>1, <2>2, ScreenKeeps
<1>4. CASE UNCHANGED <<tab, answered>>
  BY <1>1, <1>4, NothingMoves
<1>5. ASSUME NEW screen \in Settled, ShowsEnd(q, screen),
             screen = "done" => Status.status \in {"completed", "no ec2"},
             Status.status # "running"
      PROVE  Inv'
  <2>1. Status = result
    BY <1>5 DEF Status
  <2>2. CASE screen = "done"
    <3>1. result.of \in Requests /\ "applied" \in did[result.of] /\ result.of # NoOne
      BY <1>5, <2>1, <2>2 DEF Inv, Deployed
    <3> QED BY <1>1, <1>5, <2>1, <3>1, ScreenKeeps DEF ShowsEnd
  <2>3. CASE screen # "done"
    <3>1. result.of \in Requests \cup {NoOne}
      BY DEF Inv, Types
    <3> QED BY <1>1, <1>5, <2>1, <2>3, <3>1, ScreenKeeps DEF ShowsEnd
  <2> QED BY <2>2, <2>3
<1>6. CASE StartDeploy(q) \/ AlreadyInProgress(q) \/ Lose(q) \/ GraceOver(q) \/ StopDeployment(q)
  BY <1>3, <1>4, <1>6 DEF StartDeploy, AlreadyInProgress, Lose, GraceOver, StopDeployment, Shows, Waiting
<1>7. CASE AnswerInGrace(q) \/ Reconcile(q)
  <2>1. PICK screen \in Settled :
          /\ ShowsEnd(q, screen) /\ Status.status # "running"
          /\ screen = "done" => Status.status \in {"completed", "no ec2"}
    <3>1. DOMAIN Ending = {"awaiting_plan_confirmation", "completed", "error"}
      BY DEF Ending
    <3>2. /\ Ending["awaiting_plan_confirmation"] = {"gate"} /\ Ending["completed"] = {"done"}
          /\ Ending["error"] = {"failed"}
      BY DEF Ending
    <3>3. CASE Status.status \in DOMAIN Ending /\ \E screen \in Ending[Status.status] : ShowsEnd(q, screen)
      BY <3>1, <3>2, <3>3 DEF Settled
    <3>4. CASE Status.status = "no ec2" /\ \E screen \in {"done", "failed"} : ShowsEnd(q, screen)
      BY <3>4 DEF Settled
    <3>5. CASE Status.status \in {"completed", "no ec2", "idle"} /\ ShowsEnd(q, "failed")
      BY <3>5 DEF Settled
    <3> QED BY <1>7, <3>3, <3>4, <3>5 DEF AnswerInGrace, Reconcile
  <2> QED BY <1>5, <2>1
<1> QED BY <1>6, <1>7

\* Inv is inductive.
LEMMA NextInv == Inv /\ [Next]_allVars => Inv'
<1> SUFFICES ASSUME Inv, [Next]_allVars PROVE Inv'
  OBVIOUS
<1>1. ASSUME NEW r \in Requests,
             \/ StartDeploy(r) \/ Deliver(r) \/ AlreadyInProgress(r) \/ Lose(r) \/ AnswerInGrace(r)
             \/ GraceOver(r) \/ Reconcile(r) \/ StopDeployment(r)
      PROVE  Inv'
  BY <1>1, DeliverKeeps, TabKeeps
<1>2. ASSUME NEW r \in Requests, UNCHANGED tabs,
             \/ Load(r) \/ AcquireLease(r) \/ Check(r) \/ Refuse(r) \/ Create(r) \/ Read(r) \/ Record(r)
             \/ Exit(r) \/ Break(r) \/ Kill(r)
      PROVE  Inv'
  BY <1>2, LoadKeeps, AcquireLeaseKeeps, CheckKeeps, RefuseKeeps, CreateKeeps, ReadKeeps, RecordKeeps,
     ContainerKeeps
<1>3. CASE (LooseEnds \/ Lapse) /\ UNCHANGED tabs
  BY <1>3, NothingMoves DEF LooseEnds, Lapse, registry, worker, leases, tabs
<1>4. CASE (StartGeneration \/ EndGeneration \/ Restart) /\ UNCHANGED tabs
  BY <1>4, GenerationKeeps, RestartKeeps
<1>5. CASE UNCHANGED allVars
  BY <1>5, NothingMoves DEF allVars, vars, registry, worker, leases, tabs
<1> QED BY <1>1, <1>2, <1>3, <1>4, <1>5 DEF Next

\* Inv holds in every state that is reached.
LEMMA Invariance == Spec => []Inv
<1> QED BY InitInv, NextInv, PTL DEF Spec

-----------------------------------------------------------------------------
(* The theorems.                                                             *)

\* Whatever fails, is retried, stopped or restarted, an unconfirmed request changes nothing
\* but through a plan that broke or through the engine, and only the engine lets it succeed.
THEOREM GateIsKept == Spec => []ConfirmGate
<1>1. Inv => ConfirmGate
  <2> SUFFICES ASSUME Inv, NEW r \in Requests \ Confirmed
               PROVE  /\ "changed" \in did[r] => "plan broke" \in did[r] \/ "engine" \in did[r]
                      /\ stage[r] = "success" => "engine" \in did[r]
    BY DEF ConfirmGate
  <2> QED BY DEF Inv, Unconfirmed, Spared
<1> QED BY <1>1, Invariance, PTL

\* The conditions of put_item and delete_item keep the engine and a generation apart, for
\* any number of requests, lost deletions and restarts, while no lease runs out under work.
THEOREM LeaseKeepsApart == Spec => []LeaseExcludes
<1>1. Inv => LeaseExcludes
  BY DEF Inv, HoldsLease, LeaseExcludes
<1> QED BY <1>1, Invariance, PTL

\* A tab shows a deployment as done only for a run whose last apply Terraform finished.
THEOREM DoneIsApplied == Spec => []DoneMeansApplied
<1>1. Inv => DoneMeansApplied
  BY DEF Inv
<1> QED BY <1>1, Invariance, PTL
==============================================================================
