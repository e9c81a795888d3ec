------------------------- MODULE DeployExec_proofs -------------------------
(***************************************************************************)
(* Deployments, for any number of deployments, threads, commands, crashes, *)
(* resumptions and errors.                                                 *)
(*                                                                         *)
(* ThreadInv says where a thread can be, what its checkpoint holds, and    *)
(* when it has the lock; it needs nothing of the host.  CommandInv says    *)
(* which command a thread or a file asks about, and what has become of the *)
(* container when it is done.  Both except deployments that two threads    *)
(* ran at once (doubled).                                                  *)
(***************************************************************************)
EXTENDS DeployExec, FiniteSetTheorems, TLAPS

Forwards == {"lock_env", "discover_host", "pull_artifact", "stop_previous",
             "start_application", "verify", "complete"}
Places == Forwards \cup RollbackStages

Working == {"ready", "sent", "waiting", "asking", "answered"}
Asked == {"sent", "waiting", "asking"}
Steps == {"enter", "pulling", "closing"} \cup Working
Records == [of : Deployments \cup {Nothing}, op : {"stop", "start"},
            artifact : Artifacts \cup {Nothing}, status : {"running", "ok", "failed", "read"}]

Types ==
  /\ running \in Artifacts \cup {Nothing}
  /\ commands \in [Commands -> Records]
  /\ lock \in Deployments \cup {Nothing}
  /\ saved \in [Deployments -> Checkpoints]
  /\ pending \in [Deployments -> Commands \cup {Nothing}]
  /\ cancelled \subseteq Deployments /\ bound \subseteq Deployments
  /\ on \in [Workers -> Deployments \cup {Nothing}]
  /\ mem \in [Workers -> Checkpoints]
  /\ at \in [Workers -> Places]
  /\ doing \in [Workers -> Steps]
  /\ cmd \in [Workers -> Commands \cup {Nothing}]
  /\ late \in BOOLEAN

\* A checkpoint of a deployment that changes the host has its lock, and one that goes
\* back knows where to.
Sound(m) ==
  /\ m.status \in {"RUNNING", "ROLLING_BACK"} /\ m.done >= 1 => m.locked
  /\ m.status = "ROLLING_BACK" => m.done >= 3 /\ m.previous # Nothing

\* Where a thread can be.
Shape(w) ==
  /\ on[w] = Nothing => mem[w] = Fresh("NEW") /\ at[w] = "lock_env" /\ doing[w] = "enter"
  /\ cmd[w] # Nothing <=> doing[w] \in Asked
  /\ on[w] # Nothing =>
       /\ mem[w].status # "NEW" /\ saved[on[w]].status # "NEW"
       /\ doing[w] = "closing" <=> mem[w].status \in TERMINAL
       /\ mem[w].status = "RUNNING" => at[w] = Stages[mem[w].done + 1]
       /\ mem[w].status = "ROLLING_BACK" => at[w] \in RollbackStages
       /\ doing[w] = "pulling" => at[w] \in {"pull_artifact", "rb_pull"}
       /\ doing[w] \in Working => Operation(at[w]) # "read"

\* The file of a deployment with one thread is what the thread has in memory, until the
\* last status is known.
Kept(w) ==
  on[w] # Nothing /\ on[w] \notin doubled =>
    /\ doing[w] # "closing" => saved[on[w]] = mem[w]
    /\ doing[w] = "closing" => saved[on[w]].status \in {"RUNNING", "ROLLING_BACK", mem[w].status}

Single ==
  \A w, x \in Workers : on[w] # Nothing /\ on[w] = on[x] /\ on[w] \notin doubled => w = x

\* A thread holds the lock while it works on the host, from its first step in a rollback
\* on, and, if the process never died under it, from its first stop on.
Holds(w) ==
  \/ doing[w] \in Working
  \/ at[w] \in {"rb_stop", "rb_start", "rb_health"}
  \/ mem[w].status = "RUNNING" /\ mem[w].done >= 4 /\ on[w] \notin resumed
LockHeld(w) ==
  on[w] # Nothing /\ on[w] \notin doubled /\ doing[w] # "closing" /\ Holds(w) => lock = on[w]

ThreadInv ==
  /\ Types
  /\ \A d \in Deployments : Sound(saved[d])
  /\ \A w \in Workers : Sound(mem[w])
  /\ \A w \in Workers : Shape(w)
  /\ Single
  /\ \A w \in Workers : Kept(w)
  /\ \A w \in Workers : LockHeld(w)

\* What was sent for a deployment that was never resumed.
Untouched(w) ==
  on[w] # Nothing /\ on[w] \notin resumed /\ on[w] \in touched =>
    mem[w].status # "RUNNING" \/ mem[w].done >= 4 \/ doing[w] \in Asked \cup {"answered"}
TouchInv ==
  /\ touched \subseteq Deployments
  /\ \A d \in touched : saved[d].status # "NEW"
  /\ \A w, x, y \in Workers :
       on[w] # Nothing /\ on[w] = on[x] /\ on[x] = on[y] => w = x \/ x = y \/ w = y
  /\ \A w, x \in Workers : on[w] # Nothing /\ on[w] = on[x] /\ w # x => on[w] \in resumed
  /\ \A w \in Workers : Untouched(w)

\* Whoever takes the lock of a deployment that has it is noted.
LockKept(d) ==
  d \notin doubled /\ Live(d) /\ saved[d].locked /\ d \notin stolen => lock \in {Nothing, d}

\* The command a thread waits for is its own.
OwnCommand(w) ==
  cmd[w] # Nothing =>
    /\ commands[cmd[w]].of = on[w] /\ commands[cmd[w]].op = Operation(at[w])
    /\ Operation(at[w]) = "start" /\ on[w] \notin doubled => commands[cmd[w]].artifact = Target(w)

\* The command a file names belongs to the stage the deployment goes on with ...
OwnPending(d) ==
  pending[d] # Nothing =>
    /\ commands[pending[d]].of = d /\ saved[d].status # "NEW"
    /\ d \notin doubled /\ saved[d].status = "RUNNING" =>
         \/ saved[d].done = 3 /\ commands[pending[d]].op = "stop"
         \/ saved[d].done = 4 /\ commands[pending[d]].op = "start" /\ commands[pending[d]].artifact = d

\* ... and is the one the thread waits for.
OnePending(w) ==
  on[w] # Nothing /\ on[w] \notin doubled =>
    /\ doing[w] \in {"sent", "answered"} => pending[on[w]] = Nothing
    /\ doing[w] \in {"waiting", "asking"} => pending[on[w]] = cmd[w]
    /\ at[w] \in {"rb_stop", "rb_start", "rb_health"} /\ doing[w] \in {"enter", "ready"} =>
         pending[on[w]] = Nothing

Untaken(d) ==
  \/ d \notin stolen
  \/ d \notin resumed /\ \E w \in Workers : on[w] = d /\ doing[w] # "closing"

Done(w) == doing[w] = "answered" \/ (cmd[w] # Nothing /\ commands[cmd[w]].status = "ok")

\* The container runs what a deployment started, as long as nobody took its lock ...
Forwarded(d) ==
  ~late /\ d \notin doubled /\ saved[d].status = "RUNNING" /\ Untaken(d) =>
    \/ running = d
    \/ saved[d].done < 4
    \/ /\ saved[d].done = 4
       /\ pending[d] # Nothing => commands[pending[d]].status # "ok"
       /\ \A w \in Workers : on[w] = d => ~Done(w)

\* ... and what a rollback started.
Restored(w) ==
  /\ on[w] # Nothing /\ ~late /\ on[w] \notin doubled
  /\ mem[w].status = "ROLLING_BACK"
  /\ at[w] = "rb_health" \/ (at[w] = "rb_start" /\ Done(w))
  => running = mem[w].previous

CommandInv ==
  /\ late \/ ~Stray
  /\ \A d \in Deployments : LockKept(d) /\ OwnPending(d) /\ Forwarded(d)
  /\ \A w \in Workers : OwnCommand(w) /\ OnePending(w) /\ Restored(w)

-----------------------------------------------------------------------------
(* The stages.                                                               *)

USE DeployAssumption

LEMMA StageNames ==
  /\ Len(Stages) = 7
  /\ {Stages[n] : n \in 1 .. Len(Stages)} = Forwards
  /\ \A n \in 0 .. 6 :
       /\ Stages[n + 1] \in Forwards
       /\ Stages[n + 1] = "lock_env" <=> n = 0
       /\ Stages[n + 1] = "discover_host" <=> n = 1
       /\ Stages[n + 1] = "pull_artifact" <=> n = 2
       /\ Stages[n + 1] = "stop_previous" <=> n = 3
       /\ Stages[n + 1] = "start_application" <=> n = 4
       /\ Stages[n + 1] = "verify" <=> n = 5
       /\ Stages[n + 1] = "complete" <=> n = 6
<1>1. Len(Stages) = 7
  BY DEF Stages
<1>2. /\ Stages[1] = "lock_env" /\ Stages[2] = "discover_host" /\ Stages[3] = "pull_artifact"
      /\ Stages[4] = "stop_previous" /\ Stages[5] = "start_application"
      /\ Stages[6] = "verify" /\ Stages[7] = "complete"
  BY DEF Stages
<1>3. {Stages[n] : n \in 1 .. 7} = Forwards
  <2>1. \A n \in 1 .. 7 : n \in {1, 2, 3, 4, 5, 6, 7} OBVIOUS
  <2>2. \A n \in 1 .. 7 : Stages[n] \in Forwards BY <1>2, <2>1 DEF Forwards
  <2>3. \A s \in Forwards : \E n \in 1 .. 7 : s = Stages[n] BY <1>2 DEF Forwards
  <2> QED BY <2>2, <2>3
<1>4. \A n \in 0 .. 6 : n + 1 \in 1 .. 7 /\ n \in {0, 1, 2, 3, 4, 5, 6}
  OBVIOUS
<1> QED BY <1>1, <1>2, <1>3, <1>4 DEF Forwards

-----------------------------------------------------------------------------
(* A step of one thread leaves alone the other threads, the files of other   *)
(* deployments, and their lock.                                              *)

ThreadOK(w) == Sound(mem[w]) /\ Shape(w) /\ Kept(w) /\ LockHeld(w)

\* What a step does to its thread and its file ...
Moved(w) ==
  /\ saved' \in [Deployments -> Checkpoints]
  /\ \A d \in Deployments \ {on[w]} : saved'[d] = saved[d]
  /\ on' \in [Workers -> Deployments \cup {Nothing}] /\ on'[w] \in {on[w], Nothing}
  /\ mem' \in [Workers -> Checkpoints]
  /\ at' \in [Workers -> Places]
  /\ doing' \in [Workers -> Steps]
  /\ cmd' \in [Workers -> Commands \cup {Nothing}]
  /\ bound' \subseteq Deployments
  /\ \A x \in Workers \ {w} :
       /\ on'[x] = on[x] /\ mem'[x] = mem[x] /\ at'[x] = at[x] /\ doing'[x] = doing[x]
       /\ cmd'[x] = cmd[x]
  /\ ThreadOK(w)'
  /\ Sound(saved'[on[w]]) /\ saved'[on[w]].status # "NEW"

\* ... and to what others see.
Apart(w) ==
  /\ running' \in Artifacts \cup {Nothing} /\ commands' \in [Commands -> Records]
  /\ pending' \in [Deployments -> Commands \cup {Nothing}]
  /\ cancelled' = cancelled /\ late' \in BOOLEAN
  /\ lock' \in Deployments \cup {Nothing}
  /\ \A d \in Deployments \ {on[w]} :
       /\ lock = d => lock' = d
       /\ d \in resumed <=> d \in resumed'
  /\ doubled' = doubled

LEMMA Advance ==
  ASSUME ThreadInv, NEW w \in Workers, on[w] # Nothing, Moved(w), Apart(w)
  PROVE  ThreadInv'
<1>1. \A d \in Deployments : Sound(saved[d])'
  BY DEF Moved, ThreadInv
<1>2. \A x \in Workers : Sound(mem[x])'
  BY DEF Moved, ThreadInv, ThreadOK
<1>3. Single'
  BY DEF Moved, Apart, ThreadInv, Single
<1>4. ASSUME NEW x \in Workers \ {w} PROVE Shape(x)' /\ Kept(x)' /\ LockHeld(x)'
  <2>1. Shape(x) /\ Kept(x) /\ LockHeld(x) /\ on[x] \in Deployments \cup {Nothing}
    BY DEF ThreadInv, Types
  <2>2. on[x] # Nothing /\ on[x] \notin doubled => on[x] # on[w]
    BY DEF ThreadInv, Single
  <2>3. Shape(x)'
    BY <2>1 DEF Moved, Shape
  <2>4. Kept(x)'
    BY <2>1, <2>2 DEF Moved, Apart, Kept
  <2>5. LockHeld(x)'
    BY <2>1, <2>2 DEF Moved, Apart, LockHeld, Holds
  <2> QED BY <2>3, <2>4, <2>5
<1>5. Types'
  BY DEF ThreadInv, Types, Moved, Apart
<1> QED BY <1>1, <1>2, <1>3, <1>4, <1>5 DEF ThreadInv, Moved, ThreadOK

LEMMA HeartbeatApart ==
  ASSUME Types, NEW w \in Workers, on[w] # Nothing, Heartbeat(w)
  PROVE  /\ lock' \in Deployments \cup {Nothing}
         /\ \A d \in Deployments \ {on[w]} : lock = d => lock' = d
         /\ mem[w].locked => lock' = on[w]
BY DEF Types, Heartbeat, Acquire, Checkpoints

LEMMA FailsKeeps ==
  ASSUME ThreadInv, NEW w \in Workers, on[w] # Nothing, doing[w] # "closing",
         NEW status \in {"ROLLING_BACK", "FAILED", "CANCELLED"}, Fails(w, status),
         status = "ROLLING_BACK" =>
           mem[w].done >= 3 /\ mem[w].locked /\ mem[w].previous # Nothing,
         doubled' = doubled
  PROVE  Moved(w) /\ on' = on
<1> DEFINE m == [mem[w] EXCEPT !.status = status]
<1>1. /\ m \in Checkpoints /\ m.status = status
      /\ m.done = mem[w].done /\ m.locked = mem[w].locked /\ m.previous = mem[w].previous
      /\ on' = on /\ bound' = bound
      /\ mem' = [mem EXCEPT ![w] = m]
      /\ cmd' = [cmd EXCEPT ![w] = Nothing]
      /\ status = "ROLLING_BACK" =>
           /\ at' = [at EXCEPT ![w] = "rb_pull"] /\ doing' = [doing EXCEPT ![w] = "enter"]
           /\ saved' = [saved EXCEPT ![on[w]] = m]
      /\ status # "ROLLING_BACK" =>
           /\ at' = at /\ doing' = [doing EXCEPT ![w] = "closing"]
           /\ saved' = [saved EXCEPT ![on[w]] = Fresh(status)]
  <2>1. mem[w] \in Checkpoints /\ at[w] \in Places
    BY DEF ThreadInv, Types
  <2>2. m \in Checkpoints
    BY <2>1 DEF Checkpoints, TERMINAL
  <2>3. at' = at \/ status = "ROLLING_BACK"
    BY DEF Fails, Go, ThreadInv, Types
  <2> QED BY <2>1, <2>2, <2>3 DEF Fails, Go, Checkpoint, Save, TERMINAL, Checkpoints
<1> HIDE DEF m
<1>2. status # "ROLLING_BACK" => Fresh(status) \in Checkpoints
  BY StageNames DEF Fresh, Checkpoints, TERMINAL
<1>3. Types /\ Shape(w) /\ on[w] \in Deployments
  BY DEF ThreadInv, Types
<1>4. /\ saved' \in [Deployments -> Checkpoints] /\ mem' \in [Workers -> Checkpoints]
      /\ at' \in [Workers -> Places]
      /\ doing' \in [Workers -> Steps]
      /\ cmd' \in [Workers -> Commands \cup {Nothing}]
  BY <1>1, <1>2, <1>3 DEF Types, Places, RollbackStages, Steps
<1>5. /\ \A x \in Workers \ {w} :
           mem'[x] = mem[x] /\ at'[x] = at[x] /\ doing'[x] = doing[x] /\ cmd'[x] = cmd[x]
      /\ \A d \in Deployments \ {on[w]} : saved'[d] = saved[d]
  BY <1>1, <1>3 DEF Types
<1>6. CASE status = "ROLLING_BACK"
  <2>1. /\ mem'[w] = m /\ at'[w] = "rb_pull" /\ doing'[w] = "enter" /\ saved'[on[w]] = m
        /\ cmd'[w] = Nothing /\ on'[w] = on[w]
    BY <1>1, <1>3, <1>6 DEF Types
  <2>2. Sound(m)
    BY <1>1, <1>6 DEF Sound
  <2>3. Shape(w)' /\ Kept(w)' /\ LockHeld(w)'
    BY <1>1, <1>6, <2>1 DEF Shape, Kept, LockHeld, Holds, RollbackStages, Asked, Working, TERMINAL
  <2> QED BY <1>1, <1>3, <1>4, <1>5, <1>6, <2>1, <2>2, <2>3 DEF ThreadOK, Moved, Types
<1>7. CASE status # "ROLLING_BACK"
  <2>1. /\ mem'[w] = m /\ doing'[w] = "closing" /\ saved'[on[w]] = Fresh(status)
        /\ cmd'[w] = Nothing /\ on'[w] = on[w] /\ status \in TERMINAL
    BY <1>1, <1>3, <1>7 DEF Types, TERMINAL
  <2>2. Sound(m) /\ Sound(Fresh(status)) /\ Fresh(status).status = status
    BY <1>1, <1>7 DEF Sound, Fresh
  <2>3. Shape(w)' /\ Kept(w)' /\ LockHeld(w)'
    BY <1>1, <1>7, <2>1, <2>2 DEF Shape, Kept, LockHeld, Holds, Asked, Working, TERMINAL
  <2> QED BY <1>1, <1>3, <1>4, <1>5, <1>7, <2>1, <2>2, <2>3 DEF ThreadOK, Moved, Types
<1> QED BY <1>6, <1>7

LEMMA StageDoneKeeps ==
  ASSUME ThreadInv, NEW w \in Workers, on[w] # Nothing, doing[w] # "closing",
         NEW m \in Checkpoints, m.status = "RUNNING", m.done <= 5, m.locked, StageDone(w, m),
         doubled' = doubled, on[w] \notin doubled => lock' = on[w]
  PROVE  Moved(w) /\ on' = on
<1> DEFINE n == [m EXCEPT !.done = @ + 1]
<1>1. /\ n \in Checkpoints /\ n.status = "RUNNING" /\ n.done = m.done + 1 /\ n.locked
      /\ n.done \in 0 .. 6
  BY StageNames DEF Checkpoints
<1>2. /\ on' = on /\ bound' = bound
      /\ mem' = [mem EXCEPT ![w] = n]
      /\ at' = [at EXCEPT ![w] = Stages[n.done + 1]]
      /\ doing' = [doing EXCEPT ![w] = "enter"]
      /\ cmd' = [cmd EXCEPT ![w] = Nothing]
      /\ saved' = [saved EXCEPT ![on[w]] = n]
  BY <1>1 DEF StageDone, Go, Save, TERMINAL
<1> HIDE DEF n
<1>3. Types /\ Shape(w) /\ on[w] \in Deployments
  BY DEF ThreadInv, Types
<1>4. Stages[n.done + 1] \in Forwards
  BY <1>1, StageNames
<1>5. /\ saved' \in [Deployments -> Checkpoints] /\ mem' \in [Workers -> Checkpoints]
      /\ at' \in [Workers -> Places]
      /\ doing' \in [Workers -> Steps]
      /\ cmd' \in [Workers -> Commands \cup {Nothing}]
  BY <1>1, <1>2, <1>3, <1>4 DEF Types, Places, Steps
<1>6. /\ \A x \in Workers \ {w} :
           mem'[x] = mem[x] /\ at'[x] = at[x] /\ doing'[x] = doing[x] /\ cmd'[x] = cmd[x]
      /\ \A d \in Deployments \ {on[w]} : saved'[d] = saved[d]
  BY <1>2, <1>3 DEF Types
<1>7. /\ mem'[w] = n /\ at'[w] = Stages[n.done + 1] /\ doing'[w] = "enter" /\ saved'[on[w]] = n
      /\ cmd'[w] = Nothing /\ on'[w] = on[w]
  BY <1>2, <1>3 DEF Types
<1>8. Sound(n)
  BY <1>1 DEF Sound
<1>9. Shape(w)' /\ Kept(w)' /\ LockHeld(w)'
  BY <1>1, <1>7 DEF Shape, Kept, LockHeld, Asked, Working, TERMINAL
<1> QED BY <1>1, <1>2, <1>3, <1>5, <1>6, <1>7, <1>8, <1>9 DEF ThreadOK, Moved, Types

LEMMA GoKeeps ==
  ASSUME ThreadInv, NEW w \in Workers, on[w] # Nothing, doing[w] # "closing",
         NEW s \in Places, NEW k \in Steps \ ({"closing"} \cup Asked),
         Go(w, s, k, mem[w]), saved' = saved, doubled' = doubled,
         mem[w].status = "RUNNING" => s = at[w],
         mem[w].status = "ROLLING_BACK" => s \in RollbackStages,
         k = "pulling" => s \in {"pull_artifact", "rb_pull"},
         k \in Working => Operation(s) # "read",
         lock' \in {lock, on[w]}, on[w] \in resumed => on[w] \in resumed',
         k \in Working \/ s \in {"rb_stop", "rb_start", "rb_health"} =>
           on[w] \in doubled \/ lock' = on[w]
  PROVE  Moved(w) /\ on' = on
<1>1. Types /\ Shape(w) /\ Kept(w) /\ LockHeld(w) /\ Sound(mem[w]) /\ on[w] \in Deployments
  BY DEF ThreadInv, Types
<1>2. /\ on' = on /\ bound' = bound /\ mem' = [mem EXCEPT ![w] = mem[w]]
      /\ at' = [at EXCEPT ![w] = s] /\ doing' = [doing EXCEPT ![w] = k]
      /\ cmd' = [cmd EXCEPT ![w] = Nothing]
  BY DEF Go
<1>3. mem'[w] = mem[w] /\ at'[w] = s /\ doing'[w] = k /\ cmd'[w] = Nothing
  BY <1>1, <1>2 DEF Types
<1>4. Shape(w)'
  BY <1>1, <1>2, <1>3 DEF Shape
<1>5. Kept(w)'
  BY <1>1, <1>2, <1>3 DEF Kept
<1>6. LockHeld(w)'
  BY <1>1, <1>2, <1>3 DEF LockHeld, Holds, Shape, RollbackStages
<1>7. Sound(saved[on[w]]) /\ saved[on[w]].status # "NEW"
  BY <1>1 DEF ThreadInv, Shape
<1> QED BY <1>1, <1>2, <1>3, <1>4, <1>5, <1>6, <1>7 DEF Moved, ThreadOK, Types

LEMMA CloseKeeps ==
  ASSUME ThreadInv, NEW w \in Workers, on[w] # Nothing, doing[w] # "closing",
         NEW status \in {"FAILED", "COMPLETED", "ROLLED_BACK"},
         Go(w, at[w], "closing", [mem[w] EXCEPT !.status = status]), saved' = saved,
         doubled' = doubled
  PROVE  Moved(w) /\ on' = on
<1> DEFINE m == [mem[w] EXCEPT !.status = status]
<1>1. Types /\ Shape(w) /\ Kept(w) /\ Sound(mem[w]) /\ on[w] \in Deployments
  BY DEF ThreadInv, Types
<1>2. mem[w] \in Checkpoints
  BY <1>1 DEF Types
<1>3. m \in Checkpoints /\ m.status = status
  BY <1>2 DEF Checkpoints, TERMINAL
<1>4. /\ on' = on /\ bound' = bound /\ mem' = [mem EXCEPT ![w] = m]
      /\ at' = [at EXCEPT ![w] = at[w]] /\ doing' = [doing EXCEPT ![w] = "closing"]
      /\ cmd' = [cmd EXCEPT ![w] = Nothing]
  BY DEF Go
<1> HIDE DEF m
<1>5. mem'[w] = m /\ at' = at /\ doing'[w] = "closing" /\ cmd'[w] = Nothing
  BY <1>1, <1>4 DEF Types
<1>6. Sound(m) /\ status \in TERMINAL /\ status \notin {"RUNNING", "ROLLING_BACK", "NEW"}
  BY <1>3 DEF Sound, TERMINAL
<1>7. Shape(w)'
  BY <1>1, <1>3, <1>4, <1>5, <1>6 DEF Shape, Asked, Working
<1>8. Kept(w)'
  BY <1>1, <1>3, <1>4, <1>5, <1>6 DEF Kept, Shape, Checkpoints, TERMINAL, Types
<1>9. LockHeld(w)'
  BY <1>5 DEF LockHeld
<1>10. Sound(saved[on[w]]) /\ saved[on[w]].status # "NEW"
  BY <1>1 DEF ThreadInv, Shape
<1> QED BY <1>1, <1>3, <1>4, <1>5, <1>6, <1>7, <1>8, <1>9, <1>10 DEF Moved, ThreadOK, Types, Steps

LEMMA ReleasedApart ==
  ASSUME Types, NEW w \in Workers, on[w] # Nothing
  PROVE  /\ Released(w) \in Deployments \cup {Nothing}
         /\ \A d \in Deployments \ {on[w]} : lock = d => Released(w) = d
BY DEF Types, Released

LEMMA StartedFailsKeeps ==
  ASSUME ThreadInv, NEW w \in Workers, on[w] # Nothing, doing[w] # "closing",
         mem[w].status = "RUNNING", mem[w].done >= 3, StartedFails(w), doubled' = doubled
  PROVE  Moved(w) /\ on' = on
<1>1. Sound(mem[w]) /\ mem[w] \in Checkpoints
  BY DEF ThreadInv, Types
<1>2. mem[w].locked
  BY <1>1, StageNames DEF Sound, Checkpoints
<1>3. CASE mem[w].previous = Nothing
  BY <1>3, FailsKeeps DEF StartedFails
<1>4. CASE mem[w].previous # Nothing
  BY <1>2, <1>4, FailsKeeps DEF StartedFails
<1> QED BY <1>3, <1>4

\* Where an operation of a node or of a rollback is under way.
LEMMA OperationStage ==
  ASSUME ThreadInv, NEW w \in Workers, on[w] # Nothing, doing[w] # "closing"
  PROVE  /\ mem[w].status \in {"RUNNING", "ROLLING_BACK"} /\ mem[w].done \in 0 .. 6
         /\ mem[w].status = "RUNNING" <=> Forward(w)
         /\ mem[w].status = "RUNNING" => at[w] = Stages[mem[w].done + 1]
         /\ Forward(w) /\ Operation(at[w]) # "read" =>
              mem[w].done \in {3, 4} /\ (mem[w].done = 3 <=> at[w] = "stop_previous")
         /\ Operation(at[w]) # "read" => mem[w].locked
<1>1. Shape(w) /\ Sound(mem[w]) /\ mem[w] \in Checkpoints
  BY DEF ThreadInv, Types
<1>2. mem[w].status \in {"RUNNING", "ROLLING_BACK"} /\ mem[w].done \in 0 .. 6
  BY <1>1, StageNames DEF Shape, Checkpoints
<1>3. mem[w].status = "RUNNING" <=> Forward(w)
  BY <1>1, <1>2, StageNames DEF Shape, Forward, Forwards, RollbackStages
<1>4. CASE mem[w].status = "RUNNING"
  BY <1>1, <1>2, <1>3, <1>4, StageNames DEF Shape, Operation, Sound
<1>5. CASE mem[w].status = "ROLLING_BACK"
  BY <1>1, <1>2, <1>3, <1>5 DEF Shape, Sound
<1> QED BY <1>1, <1>2, <1>3, <1>4, <1>5 DEF Shape

LEMMA OpFailsKeeps ==
  ASSUME ThreadInv, NEW w \in Workers, on[w] # Nothing, doing[w] # "closing",
         Forward(w) => Operation(at[w]) # "read", OpFails(w), doubled' = doubled
  PROVE  /\ Moved(w) /\ on' = on
         /\ lock' \in Deployments \cup {Nothing}
         /\ \A d \in Deployments \ {on[w]} : lock = d => lock' = d
<1>1. Types
  BY DEF ThreadInv
<1>2. CASE Forward(w)
  <2>1. mem[w].status = "RUNNING" /\ mem[w].done >= 3
    BY <1>2, OperationStage
  <2>2. StartedFails(w) /\ lock' = lock
    BY <1>2 DEF OpFails
  <2> QED BY <1>1, <2>1, <2>2, StartedFailsKeeps DEF Types
<1>3. CASE ~Forward(w)
  <2>1. Go(w, at[w], "closing", [mem[w] EXCEPT !.status = "FAILED"]) /\ saved' = saved
    BY <1>3 DEF OpFails
  <2>2. lock' = Released(w)
    BY <1>3 DEF OpFails
  <2>3. Moved(w) /\ on' = on
    BY <2>1, CloseKeeps
  <2> QED BY <1>1, <2>2, <2>3, ReleasedApart
<1> QED BY <1>2, <1>3

-----------------------------------------------------------------------------
(* ThreadInv is inductive: what each action does to its thread.              *)

LEMMA LateType == ASSUME Types, Noted PROVE late' \in BOOLEAN
BY DEF Types, Noted

LEMMA MaybeCancelThread ==
  ASSUME ThreadInv, NEW w \in Workers, MaybeCancel(w)
  PROVE  on[w] # Nothing /\ Moved(w) /\ Apart(w)
<1>1. on[w] # Nothing /\ doing[w] = "enter" /\ Cancel(w) /\ Forward(w) /\ doubled' = doubled
  BY DEF MaybeCancel, Forward, history
<1>2. mem[w].status = "RUNNING" /\ Sound(mem[w]) /\ mem[w].done \in 0 .. 6
  BY <1>1, OperationStage DEF ThreadInv
<1>3. Moved(w)
  <2>1. CASE Started(w) /\ mem[w].previous # Nothing
    BY <1>1, <1>2, <2>1, FailsKeeps DEF Cancel, Started, Sound
  <2>2. CASE ~(Started(w) /\ mem[w].previous # Nothing)
    BY <1>1, <2>2, FailsKeeps DEF Cancel
  <2> QED BY <2>1, <2>2
<1>4. Apart(w)
  BY LateType DEF MaybeCancel, Apart, ThreadInv, Types, host, history
<1> QED BY <1>1, <1>3, <1>4

LEMMA LockEnvThread ==
  ASSUME ThreadInv, NEW w \in Workers, LockEnv(w)
  PROVE  on[w] # Nothing /\ Moved(w) /\ Apart(w)
<1>1. on[w] # Nothing /\ at[w] = "lock_env" /\ doing[w] = "enter" /\ doubled' = doubled
  BY DEF LockEnv, Enters, At
<1>2. Types /\ mem[w] \in Checkpoints
  BY DEF ThreadInv, Types
<1>3. mem[w].status = "RUNNING" /\ mem[w].done = 0
  BY <1>1, OperationStage, StageNames DEF Forward, RollbackStages
<1>4. CASE Acquire(w) /\ StageDone(w, [mem[w] EXCEPT !.locked = TRUE])
  <2> DEFINE m == [mem[w] EXCEPT !.locked = TRUE]
  <2>1. m \in Checkpoints /\ m.status = "RUNNING" /\ m.done = 0 /\ m.locked
    BY <1>2, <1>3 DEF Checkpoints
  <2>2. StageDone(w, m) /\ lock' = on[w]
    BY <1>4 DEF Acquire
  <2> HIDE DEF m
  <2>3. Moved(w)
    BY <1>1, <2>1, <2>2, StageDoneKeeps
  <2>4. \A d \in Deployments \ {on[w]} : lock # d
    BY <1>1, <1>4 DEF Acquire
  <2>5. Apart(w)
    BY <1>1, <1>2, <2>2, <2>4, LateType DEF LockEnv, Apart, Types, host
  <2> QED BY <1>1, <2>3, <2>5
<1>5. CASE Fails(w, "FAILED") /\ UNCHANGED <<lock, stolen>>
  <2>1. Moved(w)
    BY <1>1, <1>5, FailsKeeps
  <2>2. Apart(w)
    BY <1>1, <1>2, <1>5, LateType DEF LockEnv, Apart, Types, host
  <2> QED BY <1>1, <2>1, <2>2
<1> QED BY <1>4, <1>5 DEF LockEnv

LEMMA DiscoverHostThread ==
  ASSUME ThreadInv, NEW w \in Workers, DiscoverHost(w)
  PROVE  on[w] # Nothing /\ Moved(w) /\ Apart(w)
<1> DEFINE m == [mem[w] EXCEPT !.previous = IF running = on[w] THEN Nothing ELSE running]
<1>1. /\ on[w] # Nothing /\ at[w] = "discover_host" /\ doing[w] = "enter" /\ doubled' = doubled
      /\ StageDone(w, m) /\ Heartbeat(w)
  BY DEF DiscoverHost, Enters, At
<1>2. Types /\ mem[w] \in Checkpoints /\ running \in Artifacts \cup {Nothing} /\ on[w] \in Deployments
  BY <1>1 DEF ThreadInv, Types
<1>3. mem[w].status = "RUNNING" /\ mem[w].done = 1
  BY <1>1, OperationStage, StageNames DEF Forward, RollbackStages
<1>4. mem[w].locked
  BY <1>3 DEF ThreadInv, Sound
<1>5. m \in Checkpoints /\ m.status = "RUNNING" /\ m.done = 1 /\ m.locked
  BY <1>2, <1>3, <1>4 DEF Checkpoints
<1> HIDE DEF m
<1>6. lock' = on[w]
  BY <1>1, <1>2, <1>4, HeartbeatApart
<1>7. Moved(w)
  BY <1>1, <1>5, <1>6, StageDoneKeeps
<1>8. Apart(w)
  BY <1>1, <1>2, HeartbeatApart, LateType DEF DiscoverHost, Apart, Types, host, PendingCleared
<1> QED BY <1>1, <1>7, <1>8

LEMMA PulledThread ==
  ASSUME ThreadInv, NEW w \in Workers, Pulled(w)
  PROVE  on[w] # Nothing /\ Moved(w) /\ Apart(w)
<1>1. /\ on[w] # Nothing /\ at[w] = "pull_artifact" /\ doing[w] = "pulling" /\ doubled' = doubled
      /\ StageDone(w, mem[w]) /\ Heartbeat(w)
  BY DEF Pulled, At
<1>2. Types /\ mem[w] \in Checkpoints /\ on[w] \in Deployments
  BY <1>1 DEF ThreadInv, Types
<1>3. mem[w].status = "RUNNING" /\ mem[w].done = 2
  BY <1>1, OperationStage, StageNames DEF Forward, RollbackStages
<1>4. mem[w].locked
  BY <1>3 DEF ThreadInv, Sound
<1>5. lock' = on[w]
  BY <1>1, <1>2, <1>4, HeartbeatApart
<1>6. Moved(w)
  BY <1>1, <1>2, <1>3, <1>4, <1>5, StageDoneKeeps
<1>7. Apart(w)
  BY <1>1, <1>2, HeartbeatApart, LateType DEF Pulled, Apart, Types, host, PendingCleared
<1> QED BY <1>1, <1>6, <1>7

LEMMA VerifyThread ==
  ASSUME ThreadInv, NEW w \in Workers, Verify(w)
  PROVE  on[w] # Nothing /\ Moved(w) /\ Apart(w)
<1>1. /\ on[w] # Nothing /\ at[w] = "verify" /\ doing[w] = "enter" /\ doubled' = doubled
      /\ StageDone(w, mem[w]) /\ Heartbeat(w)
  BY DEF Verify, Enters, At
<1>2. Types /\ mem[w] \in Checkpoints /\ on[w] \in Deployments
  BY <1>1 DEF ThreadInv, Types
<1>3. mem[w].status = "RUNNING" /\ mem[w].done = 5
  BY <1>1, OperationStage, StageNames DEF Forward, RollbackStages
<1>4. mem[w].locked
  BY <1>3 DEF ThreadInv, Sound
<1>5. lock' = on[w]
  BY <1>1, <1>2, <1>4, HeartbeatApart
<1>6. Moved(w)
  BY <1>1, <1>2, <1>3, <1>4, <1>5, StageDoneKeeps
<1>7. Apart(w)
  BY <1>1, <1>2, HeartbeatApart, LateType DEF Verify, Apart, Types, host, PendingCleared
<1> QED BY <1>1, <1>6, <1>7

LEMMA PullThread ==
  ASSUME ThreadInv, NEW w \in Workers, Pull(w)
  PROVE  on[w] # Nothing /\ Moved(w) /\ Apart(w)
<1>1. /\ on[w] # Nothing /\ at[w] = "pull_artifact" /\ doing[w] = "enter" /\ doubled' = doubled
      /\ Go(w, "pull_artifact", "pulling", mem[w]) /\ Heartbeat(w) /\ saved' = saved
      /\ resumed' = resumed
  BY DEF Pull, Enters, At
<1>2. Types /\ on[w] \in Deployments
  BY <1>1 DEF ThreadInv, Types
<1>3. mem[w].status = "RUNNING"
  BY <1>1, OperationStage DEF Forward, RollbackStages
<1>4. lock' \in {lock, on[w]}
  BY <1>1 DEF Heartbeat, Acquire
<1>5. "pull_artifact" \in Places /\ "pulling" \in Steps \ ({"closing"} \cup Asked) /\ "pulling" \notin Working
      /\ "pull_artifact" \notin {"rb_stop", "rb_start", "rb_health"}
  BY DEF Places, Forwards, Steps, Asked, Working
<1>6. Moved(w)
  BY <1>1, <1>3, <1>4, <1>5, GoKeeps
<1>7. Apart(w)
  BY <1>1, <1>2, HeartbeatApart, LateType DEF Pull, Apart, Types, host
<1> QED BY <1>1, <1>6, <1>7

LEMMA NotReadyThread ==
  ASSUME ThreadInv, NEW w \in Workers, NotReady(w)
  PROVE  on[w] # Nothing /\ Moved(w) /\ Apart(w)
<1>1. on[w] # Nothing /\ doing[w] # "closing" /\ Fails(w, "FAILED") /\ doubled' = doubled
  BY DEF NotReady, Enters, At
<1>2. Types /\ on[w] \in Deployments
  BY <1>1 DEF ThreadInv, Types
<1>3. Moved(w)
  BY <1>1, FailsKeeps
<1>4. Heartbeat(w) \/ lock' = lock
  BY DEF NotReady
<1>5. Apart(w)
  BY <1>1, <1>2, <1>4, HeartbeatApart, LateType DEF NotReady, Apart, Types, host
<1> QED BY <1>1, <1>3, <1>5

LEMMA RunOpThread ==
  ASSUME ThreadInv, NEW w \in Workers, RunOp(w)
  PROVE  on[w] # Nothing /\ Moved(w) /\ Apart(w)
<1>1. /\ on[w] # Nothing /\ doing[w] = "enter" /\ Operation(at[w]) # "read" /\ doubled' = doubled
      /\ Go(w, at[w], "ready", mem[w]) /\ Heartbeat(w) /\ saved' = saved /\ resumed' = resumed
  BY DEF RunOp
<1>2. Types /\ on[w] \in Deployments /\ at[w] \in Places
  BY <1>1 DEF ThreadInv, Types
<1>3. mem[w].locked
  BY <1>1, OperationStage
<1>4. lock' = on[w]
  BY <1>1, <1>2, <1>3, HeartbeatApart
<1>5. "ready" \in Steps \ ({"closing"} \cup Asked) /\ "ready" # "pulling"
  BY DEF Steps, Asked, Working
<1>6. mem[w].status = "ROLLING_BACK" => at[w] \in RollbackStages
  BY <1>1 DEF ThreadInv, Shape
<1>7. Moved(w)
  BY <1>1, <1>2, <1>4, <1>5, <1>6, GoKeeps
<1>8. Apart(w)
  BY <1>1, <1>2, HeartbeatApart, LateType DEF RunOp, Apart, Types, host
<1> QED BY <1>1, <1>7, <1>8

LEMMA ReconcileThread ==
  ASSUME ThreadInv, NEW w \in Workers, Reconcile(w)
  PROVE  on[w] # Nothing /\ Moved(w) /\ Apart(w)
<1>1. /\ on[w] # Nothing /\ doing[w] = "ready" /\ pending[on[w]] # Nothing /\ doubled' = doubled
      /\ on' = on /\ mem' = mem /\ at' = at /\ saved' = saved /\ lock' = lock /\ resumed' = resumed
      /\ bound' = bound
      /\ cmd' = [cmd EXCEPT ![w] = pending[on[w]]] /\ doing' = [doing EXCEPT ![w] = "asking"]
  BY DEF Reconcile, HasPending, files, history
<1>2. Types /\ on[w] \in Deployments /\ Shape(w) /\ Kept(w) /\ LockHeld(w) /\ Sound(mem[w])
  BY <1>1 DEF ThreadInv, Types
<1>3. cmd'[w] = pending[on[w]] /\ doing'[w] = "asking"
  BY <1>1, <1>2 DEF Types
<1>4. ThreadOK(w)'
  BY <1>1, <1>2, <1>3 DEF ThreadOK, Shape, Kept, LockHeld, Holds, Asked, Working, TERMINAL
<1>5. Sound(saved[on[w]]) /\ saved[on[w]].status # "NEW"
  BY <1>1, <1>2 DEF ThreadInv, Shape
<1>6. Moved(w)
  BY <1>1, <1>2, <1>3, <1>4, <1>5 DEF Moved, Types, Steps, Working
<1>7. Apart(w)
  BY <1>2, LateType DEF Reconcile, Apart, Types, host, files, history
<1> QED BY <1>1, <1>6, <1>7

LEMMA LeastNumber ==
  ASSUME NEW B \in SUBSET Nat, B # {}
  PROVE  \E n \in B : \A m \in B : n <= m
<1>1. PICK n \in B : \A m \in B : <<m, n>> \notin OpToRel(<, Nat)
  BY NatLessThanWellFounded, WFMin
<1>2. \A m \in B : ~(m < n)
  BY <1>1 DEF OpToRel
<1> QED BY <1>2

\* A command is sent under a number nobody asks about.
LEMMA FreeIsUnused == Unused # {} => FreeCommand \in Unused /\ Unused \subseteq Commands
<1>1. Unused \in SUBSET Nat /\ Unused \subseteq Commands
  BY DEF Unused
<1>2. Unused # {} => \E n \in Unused : \A m \in Unused : n <= m
  BY <1>1, LeastNumber
<1> QED BY <1>1, <1>2 DEF FreeCommand

LEMMA TargetType ==
  ASSUME Types, NEW w \in Workers, on[w] # Nothing
  PROVE  Target(w) \in Artifacts \cup {Nothing}
BY DEF Types, Target, Artifacts, Checkpoints

LEMMA SentType ==
  ASSUME Types, NEW w \in Workers, MaySend(w), Operation(at[w]) # "read", Sent(w)
  PROVE  /\ FreeCommand \in Unused /\ FreeCommand \in Commands
         /\ commands' \in [Commands -> Records]
         /\ commands'[FreeCommand] = [of |-> on[w], op |-> Operation(at[w]),
                                      artifact |-> Target(w), status |-> "running"]
         /\ \A i \in Commands \ {FreeCommand} : commands'[i] = commands[i]
<1>1. FreeCommand \in Unused /\ FreeCommand \in Commands /\ on[w] \in Deployments
  BY FreeIsUnused DEF MaySend, Types
<1>2. Operation(at[w]) \in {"stop", "start"}
  BY DEF Operation
<1> DEFINE r == [of |-> on[w], op |-> Operation(at[w]), artifact |-> Target(w), status |-> "running"]
<1>3. r \in Records
  BY <1>1, <1>2, TargetType DEF Records
<1>4. commands' = [commands EXCEPT ![FreeCommand] = r]
  BY DEF Sent
<1> HIDE DEF r
<1> QED BY <1>1, <1>3, <1>4 DEF Types, r

LEMMA SendThread ==
  ASSUME ThreadInv, NEW w \in Workers, Send(w)
  PROVE  on[w] # Nothing /\ Moved(w) /\ Apart(w)
<1>1. /\ on[w] # Nothing /\ doing[w] = "ready" /\ doubled' = doubled
      /\ on' = on /\ mem' = mem /\ at' = at /\ saved' = saved /\ lock' = lock /\ resumed' = resumed
      /\ bound' = bound
      /\ cmd' = [cmd EXCEPT ![w] = FreeCommand] /\ doing' = [doing EXCEPT ![w] = "sent"]
  BY DEF Send, MaySend, files
<1>2. Types /\ on[w] \in Deployments /\ Shape(w) /\ Kept(w) /\ LockHeld(w) /\ Sound(mem[w])
  BY <1>1 DEF ThreadInv, Types
<1>3. Operation(at[w]) # "read"
  BY <1>1, <1>2 DEF Shape, Working
<1>4. FreeCommand \in Commands /\ FreeCommand # Nothing /\ commands' \in [Commands -> Records]
  BY <1>2, <1>3, SentType DEF Send
<1>5. cmd'[w] = FreeCommand /\ doing'[w] = "sent"
  BY <1>1, <1>2 DEF Types
<1>6. ThreadOK(w)'
  BY <1>1, <1>2, <1>4, <1>5 DEF ThreadOK, Shape, Kept, LockHeld, Holds, Asked, Working, TERMINAL
<1>7. Sound(saved[on[w]]) /\ saved[on[w]].status # "NEW"
  BY <1>1, <1>2 DEF ThreadInv, Shape
<1>8. Moved(w)
  BY <1>1, <1>2, <1>4, <1>5, <1>6, <1>7 DEF Moved, Types, Steps, Working
<1>9. Apart(w)
  BY <1>2, <1>4, LateType DEF Send, Apart, Types, files
<1> QED BY <1>1, <1>8, <1>9

LEMMA RecordThread ==
  ASSUME ThreadInv, NEW w \in Workers, Record(w)
  PROVE  on[w] # Nothing /\ Moved(w) /\ Apart(w)
<1>1. /\ on[w] # Nothing /\ doing[w] = "sent" /\ doubled' = doubled
      /\ on' = on /\ mem' = mem /\ at' = at /\ saved' = saved /\ lock' = lock /\ resumed' = resumed
      /\ bound' = bound /\ cmd' = cmd /\ doing' = [doing EXCEPT ![w] = "waiting"]
  BY DEF Record, history
<1>2. Types /\ on[w] \in Deployments /\ Shape(w) /\ Kept(w) /\ LockHeld(w) /\ Sound(mem[w])
  BY <1>1 DEF ThreadInv, Types
<1>3. doing'[w] = "waiting"
  BY <1>1, <1>2 DEF Types
<1>4. ThreadOK(w)'
  BY <1>1, <1>2, <1>3 DEF ThreadOK, Shape, Kept, LockHeld, Holds, Asked, Working, TERMINAL
<1>5. Sound(saved[on[w]]) /\ saved[on[w]].status # "NEW"
  BY <1>1, <1>2 DEF ThreadInv, Shape
<1>6. Moved(w)
  BY <1>1, <1>2, <1>3, <1>4, <1>5 DEF Moved, Types, Steps, Working
<1>7. Apart(w)
  BY <1>2, LateType DEF Record, Apart, Types, host, history
<1> QED BY <1>1, <1>6, <1>7

LEMMA EnvironmentLockedThread ==
  ASSUME ThreadInv, NEW w \in Workers, EnvironmentLocked(w)
  PROVE  on[w] # Nothing /\ Moved(w) /\ Apart(w)
<1>1. on[w] # Nothing /\ doing[w] = "enter" /\ Operation(at[w]) # "read" /\ doubled' = doubled
  BY DEF EnvironmentLocked, history
<1>2. Types
  BY DEF ThreadInv
<1>3. /\ Moved(w) /\ lock' \in Deployments \cup {Nothing}
      /\ \A d \in Deployments \ {on[w]} : lock = d => lock' = d
  <2>1. CASE at[w] = "stop_previous"
    BY <1>1, <1>2, <2>1, FailsKeeps DEF EnvironmentLocked, Types
  <2>2. CASE at[w] # "stop_previous"
    BY <1>1, <2>2, OpFailsKeeps DEF EnvironmentLocked
  <2> QED BY <2>1, <2>2
<1>4. Apart(w)
  BY <1>2, <1>3, LateType DEF EnvironmentLocked, Apart, Types, host, history
<1> QED BY <1>1, <1>3, <1>4

LEMMA SendFailsThread ==
  ASSUME ThreadInv, NEW w \in Workers, SendFails(w)
  PROVE  on[w] # Nothing /\ Moved(w) /\ Apart(w)
<1>1. on[w] # Nothing /\ doing[w] = "ready" /\ OpFails(w) /\ doubled' = doubled
  BY DEF SendFails
<1>2. Types /\ Operation(at[w]) # "read"
  BY <1>1 DEF ThreadInv, Shape, Working
<1>3. /\ Moved(w) /\ lock' \in Deployments \cup {Nothing}
      /\ \A d \in Deployments \ {on[w]} : lock = d => lock' = d
  BY <1>1, <1>2, OpFailsKeeps
<1>4. commands' \in [Commands -> Records]
  BY <1>2, SentType DEF SendFails, Types
<1>5. Apart(w)
  BY <1>2, <1>3, <1>4, LateType DEF SendFails, Apart, Types
<1> QED BY <1>1, <1>3, <1>5

LEMMA ReadType ==
  ASSUME Types, NEW w \in Workers, Read(w)
  PROVE  commands' \in [Commands -> Records]
<1>1. NoCommand \in Records
  BY DEF NoCommand, Records
<1> QED BY <1>1 DEF Types, Read

LEMMA SucceededThread ==
  ASSUME ThreadInv, NEW w \in Workers, Succeeded(w)
  PROVE  on[w] # Nothing /\ Moved(w) /\ Apart(w)
<1>1. /\ on[w] # Nothing /\ doing[w] \in {"waiting", "asking"} /\ doubled' = doubled
      /\ Go(w, at[w], "answered", mem[w]) /\ saved' = saved /\ resumed' = resumed /\ lock' = lock
  BY DEF Succeeded, Waits, history
<1>2. Types /\ at[w] \in Places /\ LockHeld(w) /\ Shape(w)
  BY DEF ThreadInv, Types
<1>3. "answered" \in Steps \ ({"closing"} \cup Asked) /\ "answered" # "pulling"
  BY DEF Steps, Asked, Working
<1>4. on[w] \in doubled \/ lock' = on[w]
  BY <1>1, <1>2 DEF LockHeld, Holds, Working
<1>5. Operation(at[w]) # "read" /\ (mem[w].status = "ROLLING_BACK" => at[w] \in RollbackStages)
  BY <1>1, <1>2 DEF Shape, Working
<1>6. Moved(w)
  BY <1>1, <1>2, <1>3, <1>4, <1>5, GoKeeps
<1>7. commands' \in [Commands -> Records]
  BY <1>2, ReadType DEF Succeeded
<1>8. Apart(w)
  BY <1>2, <1>7, LateType DEF Succeeded, Apart, Types, history, PendingCleared
<1> QED BY <1>1, <1>6, <1>8

LEMMA CommandFailedThread ==
  ASSUME ThreadInv, NEW w \in Workers, CommandFailed(w)
  PROVE  on[w] # Nothing /\ Moved(w) /\ Apart(w)
<1>1. on[w] # Nothing /\ doing[w] \in {"waiting", "asking"} /\ OpFails(w) /\ doubled' = doubled
  BY DEF CommandFailed, Waits, history
<1>2. Types /\ Operation(at[w]) # "read"
  BY <1>1 DEF ThreadInv, Shape, Working
<1>3. /\ Moved(w) /\ lock' \in Deployments \cup {Nothing}
      /\ \A d \in Deployments \ {on[w]} : lock = d => lock' = d
  BY <1>1, <1>2, OpFailsKeeps
<1>4. commands' \in [Commands -> Records]
  BY <1>2, ReadType DEF CommandFailed
<1>5. Apart(w)
  BY <1>2, <1>3, <1>4, LateType DEF CommandFailed, Apart, Types, history, Unrecorded, PendingCleared
<1> QED BY <1>1, <1>3, <1>5

LEMMA TimeOutThread ==
  ASSUME ThreadInv, NEW w \in Workers, TimeOut(w)
  PROVE  on[w] # Nothing /\ Moved(w) /\ Apart(w)
<1>1. on[w] # Nothing /\ doing[w] \in {"waiting", "asking"} /\ OpFails(w) /\ doubled' = doubled
  BY DEF TimeOut, Waits, history
<1>2. Types /\ Operation(at[w]) # "read"
  BY <1>1 DEF ThreadInv, Shape, Working
<1>3. /\ Moved(w) /\ lock' \in Deployments \cup {Nothing}
      /\ \A d \in Deployments \ {on[w]} : lock = d => lock' = d
  BY <1>1, <1>2, OpFailsKeeps
<1>4. Apart(w)
  BY <1>2, <1>3, LateType DEF TimeOut, Apart, Types, host, history, Unrecorded, PendingCleared
<1> QED BY <1>1, <1>3, <1>4

LEMMA OpDoneThread ==
  ASSUME ThreadInv, NEW w \in Workers, OpDone(w)
  PROVE  on[w] # Nothing /\ Moved(w) /\ Apart(w)
<1>1. /\ on[w] # Nothing /\ doing[w] = "answered" /\ doubled' = doubled
      /\ lock' = lock /\ resumed' = resumed
  BY DEF OpDone, history
<1>2. Types /\ mem[w] \in Checkpoints /\ LockHeld(w) /\ Shape(w) /\ Operation(at[w]) # "read"
  BY <1>1 DEF ThreadInv, Types, Shape, Working
<1>3. on[w] \in doubled \/ lock' = on[w]
  BY <1>1, <1>2 DEF LockHeld, Holds, Working
<1>4. CASE Forward(w)
  <2>1. mem[w].status = "RUNNING" /\ mem[w].done \in {3, 4} /\ mem[w].locked
    BY <1>1, <1>2, <1>4, OperationStage
  <2>2. StageDone(w, mem[w])
    BY <1>4 DEF OpDone
  <2> QED BY <1>1, <1>2, <1>3, <2>1, <2>2, StageDoneKeeps, LateType
          DEF OpDone, Apart, Types, host, history
<1>5. CASE ~Forward(w)
  <2> DEFINE s == IF at[w] = "rb_stop" THEN "rb_start" ELSE "rb_health"
  <2>1. Go(w, s, "enter", mem[w]) /\ saved' = saved
    BY <1>5 DEF OpDone
  <2>2. s \in {"rb_start", "rb_health"}
    OBVIOUS
  <2>3. s \in Places /\ s \in RollbackStages
    BY <2>2 DEF Places, RollbackStages
  <2> HIDE DEF s
  <2>4. "enter" \in Steps \ ({"closing"} \cup Asked) /\ "enter" \notin Working
    BY DEF Steps, Asked, Working
  <2>5. mem[w].status # "RUNNING"
    BY <1>1, <1>5, OperationStage
  <2>6. Moved(w)
    BY <1>1, <1>3, <2>1, <2>2, <2>3, <2>4, <2>5, GoKeeps
  <2>7. Apart(w)
    BY <1>2, LateType DEF OpDone, Apart, Types, host, history
  <2> QED BY <1>1, <2>6, <2>7
<1> QED BY <1>4, <1>5

LEMMA VerifyFailsThread ==
  ASSUME ThreadInv, NEW w \in Workers, VerifyFails(w)
  PROVE  on[w] # Nothing /\ Moved(w) /\ Apart(w)
<1>1. /\ on[w] # Nothing /\ doing[w] = "enter" /\ at[w] = "verify" /\ StartedFails(w)
      /\ doubled' = doubled
  BY DEF VerifyFails, Enters, At
<1>2. Types
  BY DEF ThreadInv
<1>3. mem[w].status = "RUNNING" /\ mem[w].done = 5
  BY <1>1, OperationStage, StageNames DEF Forward, RollbackStages
<1>4. Moved(w)
  BY <1>1, <1>3, StartedFailsKeeps
<1>5. Heartbeat(w) \/ lock' = lock
  BY DEF VerifyFails
<1>6. Apart(w)
  BY <1>1, <1>2, <1>5, HeartbeatApart, LateType DEF VerifyFails, Apart, Types, host
<1> QED BY <1>1, <1>4, <1>6

LEMMA CompleteThread ==
  ASSUME ThreadInv, NEW w \in Workers, Complete(w)
  PROVE  on[w] # Nothing /\ Moved(w) /\ Apart(w)
<1>1. /\ on[w] # Nothing /\ doing[w] = "enter" /\ doubled' = doubled /\ saved' = saved
      /\ Go(w, at[w], "closing", [mem[w] EXCEPT !.status = "COMPLETED"]) /\ lock' = Released(w)
  BY DEF Complete, At, history
<1>2. Types
  BY DEF ThreadInv
<1>3. Moved(w)
  BY <1>1, CloseKeeps
<1>4. Apart(w)
  BY <1>1, <1>2, ReleasedApart, LateType DEF Complete, Apart, Types, host, history
<1> QED BY <1>1, <1>3, <1>4

LEMMA EndKeeps ==
  ASSUME ThreadInv, NEW w \in Workers, on[w] # Nothing, End(w),
         NEW m \in Checkpoints, m.status \in TERMINAL, Save(w, m)
  PROVE  Moved(w)
<1>1. Types /\ on[w] \in Deployments /\ m.status \notin {"NEW", "RUNNING", "ROLLING_BACK"}
  BY DEF ThreadInv, Types, TERMINAL
<1>2. Fresh(m.status) \in Checkpoints /\ Fresh("NEW") \in Checkpoints
      /\ Fresh(m.status).status = m.status /\ Fresh("NEW").status = "NEW"
  BY StageNames DEF Fresh, Checkpoints, TERMINAL
<1>3. saved' = [saved EXCEPT ![on[w]] = Fresh(m.status)]
  BY DEF Save
<1>4. /\ on'[w] = Nothing /\ mem'[w] = Fresh("NEW") /\ at'[w] = "lock_env" /\ doing'[w] = "enter"
      /\ cmd'[w] = Nothing
  BY <1>1 DEF End, Types
<1>5. Sound(Fresh(m.status)) /\ Sound(Fresh("NEW"))
  BY <1>1, <1>2 DEF Sound
<1>6. ThreadOK(w)'
  BY <1>4, <1>5 DEF ThreadOK, Shape, Kept, LockHeld, Asked
<1>7. "lock_env" \in Places /\ "enter" \in Steps
  BY DEF Places, Forwards, Steps
<1> QED BY <1>1, <1>2, <1>3, <1>4, <1>5, <1>6, <1>7 DEF Moved, End, Types

LEMMA CloseThread ==
  ASSUME ThreadInv, NEW w \in Workers, Close(w)
  PROVE  on[w] # Nothing /\ Moved(w) /\ Apart(w)
<1> DEFINE m == [mem[w] EXCEPT !.locked = FALSE]
<1>1. on[w] # Nothing /\ doing[w] = "closing" /\ Save(w, m) /\ End(w) /\ Forget(w)
  BY DEF Close
<1>2. Types /\ mem[w] \in Checkpoints /\ mem[w].status \in TERMINAL
  BY <1>1 DEF ThreadInv, Types, Shape
<1>3. m \in Checkpoints /\ m.status \in TERMINAL
  BY <1>2 DEF Checkpoints
<1> HIDE DEF m
<1>4. Moved(w)
  BY <1>1, <1>3, EndKeeps
<1>5. lock' \in {lock, Released(w)}
  BY DEF Close
<1>6. Apart(w)
  BY <1>1, <1>2, <1>5, ReleasedApart, LateType DEF Close, Apart, Types, host, Forget
<1> QED BY <1>1, <1>4, <1>6

LEMMA ThrowThread ==
  ASSUME ThreadInv, NEW w \in Workers, Throw(w)
  PROVE  on[w] # Nothing /\ Moved(w) /\ Apart(w)
<1> DEFINE m == [mem[w] EXCEPT !.status = "FAILED"]
<1>1. on[w] # Nothing /\ Save(w, m) /\ End(w) /\ Forget(w)
  BY DEF Throw
<1>2. Types /\ mem[w] \in Checkpoints
  BY DEF ThreadInv, Types
<1>3. m \in Checkpoints /\ m.status \in TERMINAL
  BY <1>2 DEF Checkpoints, TERMINAL
<1> HIDE DEF m
<1>4. Moved(w)
  BY <1>1, <1>3, EndKeeps
<1>5. Apart(w)
  BY <1>1, <1>2, LateType DEF Throw, Apart, Types, host, Forget
<1> QED BY <1>1, <1>4, <1>5

LEMMA RollbackPullThread ==
  ASSUME ThreadInv, NEW w \in Workers, RollbackPull(w)
  PROVE  on[w] # Nothing /\ Moved(w) /\ Apart(w)
<1>1. /\ on[w] # Nothing /\ at[w] = "rb_pull" /\ doing[w] = "enter" /\ doubled' = doubled
      /\ Go(w, "rb_pull", "pulling", mem[w]) /\ Heartbeat(w) /\ saved' = saved
      /\ resumed' = resumed
  BY DEF RollbackPull, At
<1>2. Types /\ on[w] \in Deployments
  BY <1>1 DEF ThreadInv, Types
<1>3. lock' \in {lock, on[w]}
  BY <1>1 DEF Heartbeat, Acquire
<1>4. /\ "rb_pull" \in Places /\ "pulling" \in Steps \ ({"closing"} \cup Asked) /\ "pulling" \notin Working
      /\ "rb_pull" \notin {"rb_stop", "rb_start", "rb_health"} /\ "rb_pull" \in RollbackStages
  BY DEF Places, RollbackStages, Steps, Asked, Working
<1>5. Moved(w)
  BY <1>1, <1>3, <1>4, GoKeeps
<1>6. Apart(w)
  BY <1>1, <1>2, HeartbeatApart, LateType DEF RollbackPull, Apart, Types, host
<1> QED BY <1>1, <1>5, <1>6

LEMMA RollbackPulledThread ==
  ASSUME ThreadInv, NEW w \in Workers, RollbackPulled(w)
  PROVE  on[w] # Nothing /\ Moved(w) /\ Apart(w)
<1>1. /\ on[w] # Nothing /\ at[w] = "rb_pull" /\ doing[w] = "pulling" /\ doubled' = doubled
      /\ Go(w, "rb_stop", "enter", mem[w]) /\ Heartbeat(w) /\ saved' = saved
      /\ resumed' = resumed
  BY DEF RollbackPulled, At
<1>2. Types /\ on[w] \in Deployments /\ Sound(mem[w]) /\ mem[w] \in Checkpoints
  BY <1>1 DEF ThreadInv, Types
<1>3. mem[w].status = "ROLLING_BACK"
  BY <1>1, OperationStage DEF Forward, RollbackStages
<1>4. mem[w].locked
  BY <1>2, <1>3, StageNames DEF Sound, Checkpoints
<1>5. lock' = on[w]
  BY <1>1, <1>2, <1>4, HeartbeatApart
<1>6. /\ "rb_stop" \in Places /\ "enter" \in Steps \ ({"closing"} \cup Asked) /\ "enter" \notin Working
      /\ "rb_stop" \in RollbackStages
  BY DEF Places, RollbackStages, Steps, Asked, Working
<1>7. Moved(w)
  BY <1>1, <1>3, <1>5, <1>6, GoKeeps
<1>8. Apart(w)
  BY <1>1, <1>2, HeartbeatApart, LateType DEF RollbackPulled, Apart, Types, host, PendingCleared
<1> QED BY <1>1, <1>7, <1>8

LEMMA RollbackHealthThread ==
  ASSUME ThreadInv, NEW w \in Workers, RollbackHealth(w)
  PROVE  on[w] # Nothing /\ Moved(w) /\ Apart(w)
<1>1. /\ on[w] # Nothing /\ doing[w] = "enter" /\ doubled' = doubled /\ saved' = saved
      /\ Go(w, at[w], "closing", [mem[w] EXCEPT !.status = "ROLLED_BACK"])
      /\ lock' = Nothing /\ lock \in {Nothing, on[w]}
  BY DEF RollbackHealth, At
<1>2. Types
  BY DEF ThreadInv
<1>3. Moved(w)
  BY <1>1, CloseKeeps
<1>4. Apart(w)
  BY <1>1, <1>2, LateType DEF RollbackHealth, Apart, Types, host, PendingCleared
<1> QED BY <1>1, <1>3, <1>4

LEMMA RollbackFailsThread ==
  ASSUME ThreadInv, NEW w \in Workers, RollbackFails(w)
  PROVE  on[w] # Nothing /\ Moved(w) /\ Apart(w)
<1>1. on[w] # Nothing /\ doing[w] # "closing" /\ ~Forward(w) /\ OpFails(w) /\ doubled' = doubled
  BY DEF RollbackFails, At, history, Forward, RollbackStages
<1>2. Types
  BY DEF ThreadInv
<1>3. /\ Moved(w) /\ lock' \in Deployments \cup {Nothing}
      /\ \A d \in Deployments \ {on[w]} : lock = d => lock' = d
  BY <1>1, OpFailsKeeps
<1>4. Apart(w)
  BY <1>2, <1>3, LateType DEF RollbackFails, Apart, Types, host, history
<1> QED BY <1>1, <1>3, <1>4

LEMMA StartKeeps ==
  ASSUME ThreadInv, NEW w \in Workers, on[w] = Nothing, NEW d \in Deployments,
         NEW m \in Checkpoints, m.status \in {"RUNNING", "ROLLING_BACK"}, Sound(m),
         Start(w, d, m), m.status = "RUNNING" /\ m.done >= 4 => d \in resumed'
  PROVE  /\ on' \in [Workers -> Deployments \cup {Nothing}] /\ mem' \in [Workers -> Checkpoints]
         /\ at' \in [Workers -> Places] /\ doing' = doing /\ cmd' = cmd
         /\ bound' \subseteq Deployments
         /\ \A x \in Workers \ {w} : on'[x] = on[x] /\ mem'[x] = mem[x] /\ at'[x] = at[x]
         /\ on'[w] = d /\ mem'[w] = m /\ at'[w] \in {"rb_pull", Stages[m.done + 1]}
         /\ doing[w] = "enter" /\ LockHeld(w)'
         /\ saved'[d].status # "NEW" => Shape(w)'
<1>1. Types /\ Shape(w) /\ doing[w] = "enter" /\ m.done \in 0 .. 6
  BY StageNames DEF ThreadInv, Types, Shape, Checkpoints
<1>2. Stages[m.done + 1] \in Forwards
  BY <1>1, StageNames
<1>3. FirstStage(m) \in Places
  BY <1>2 DEF FirstStage, Places, RollbackStages
<1>4. /\ on'[w] = d /\ mem'[w] = m /\ at'[w] = FirstStage(m) /\ doing' = doing /\ cmd' = cmd
  BY <1>1 DEF Start, Types
<1>5. LockHeld(w)'
  BY <1>1, <1>2, <1>4 DEF LockHeld, Holds, Working, FirstStage, Forwards
<1>6. saved'[d].status # "NEW" => Shape(w)'
  BY <1>1, <1>4 DEF Shape, FirstStage, RollbackStages, Asked, Working, TERMINAL
<1> QED BY <1>1, <1>3, <1>4, <1>5, <1>6 DEF Start, Types, FirstStage

LEMMA CreateThread ==
  ASSUME ThreadInv, NEW w \in Workers, NEW d \in Deployments, Create(w, d) PROVE ThreadInv'
<1> DEFINE m == Fresh("RUNNING")
<1>1. /\ on[w] = Nothing /\ saved[d].status = "NEW" /\ saved' = [saved EXCEPT ![d] = m]
      /\ Start(w, d, m) /\ lock' = lock /\ resumed' = resumed /\ doubled' = doubled
  BY DEF Create, Idle, history
<1>2. m \in Checkpoints /\ m.status = "RUNNING" /\ m.done = 0 /\ Sound(m)
  BY StageNames DEF Fresh, Checkpoints, Sound
<1> HIDE DEF m
<1>3. Types /\ \A x \in Workers : on[x] # d
  BY <1>1 DEF ThreadInv, Shape, Types
<1>4. /\ on' \in [Workers -> Deployments \cup {Nothing}] /\ mem' \in [Workers -> Checkpoints]
      /\ at' \in [Workers -> Places] /\ doing' = doing /\ cmd' = cmd
      /\ bound' \subseteq Deployments
      /\ \A x \in Workers \ {w} : on'[x] = on[x] /\ mem'[x] = mem[x] /\ at'[x] = at[x]
      /\ on'[w] = d /\ mem'[w] = m
      /\ doing[w] = "enter" /\ LockHeld(w)'
      /\ saved'[d].status # "NEW" => Shape(w)'
  BY <1>1, <1>2, StartKeeps
<1>5. saved'[d] = m /\ \A e \in Deployments \ {d} : saved'[e] = saved[e]
  BY <1>1, <1>3 DEF Types
<1>6. Types'
  BY <1>1, <1>2, <1>3, <1>4, LateType DEF Types, Create, host
<1>7. Single'
  BY <1>1, <1>3, <1>4 DEF ThreadInv, Single
<1>8. \A x \in Workers : Shape(x)'
  BY <1>1, <1>2, <1>3, <1>4, <1>5 DEF ThreadInv, Shape, Types
<1>9. \A x \in Workers : Kept(x)'
  BY <1>1, <1>2, <1>3, <1>4, <1>5 DEF ThreadInv, Kept, Types
<1>10. \A x \in Workers : LockHeld(x)'
  BY <1>1, <1>3, <1>4 DEF ThreadInv, LockHeld, Holds
<1>11. (\A e \in Deployments : Sound(saved[e])') /\ (\A x \in Workers : Sound(mem[x])')
  BY <1>2, <1>4, <1>5 DEF ThreadInv
<1> QED BY <1>6, <1>7, <1>8, <1>9, <1>10, <1>11 DEF ThreadInv

LEMMA ResumeThread ==
  ASSUME ThreadInv, NEW w \in Workers, NEW d \in Deployments, Resume(w, d) PROVE ThreadInv'
<1> DEFINE m == saved[d]
<1>1. /\ on[w] = Nothing /\ m.status \in {"RUNNING", "ROLLING_BACK"} /\ saved' = saved
      /\ Start(w, d, m) /\ lock' = lock /\ resumed' = resumed \cup {d}
      /\ doubled' = IF \E x \in Workers : on[x] = d THEN doubled \cup {d} ELSE doubled
  BY DEF Resume, Idle, files, Resumable, Live
<1>2. Types /\ m \in Checkpoints /\ Sound(m)
  BY DEF ThreadInv, Types
<1>3. /\ on' \in [Workers -> Deployments \cup {Nothing}] /\ mem' \in [Workers -> Checkpoints]
      /\ at' \in [Workers -> Places] /\ doing' = doing /\ cmd' = cmd
      /\ bound' \subseteq Deployments
      /\ \A x \in Workers \ {w} : on'[x] = on[x] /\ mem'[x] = mem[x] /\ at'[x] = at[x]
      /\ on'[w] = d /\ mem'[w] = saved[d]
      /\ doing[w] = "enter" /\ LockHeld(w)'
      /\ saved'[d].status # "NEW" => Shape(w)'
  <2> HIDE DEF m
  <2>1. d \in resumed'
    BY <1>1
  <2> QED BY <1>1, <1>2, <2>1, StartKeeps DEF m
<1>4. Types'
  BY <1>1, <1>2, <1>3, LateType DEF Types, Resume, host, files
<1>5. Single'
  BY <1>1, <1>3 DEF ThreadInv, Single
<1>6. \A x \in Workers : Shape(x)'
  BY <1>1, <1>2, <1>3 DEF ThreadInv, Shape
<1>7. \A x \in Workers : Kept(x)'
  BY <1>1, <1>2, <1>3 DEF ThreadInv, Kept
<1>8. \A x \in Workers : LockHeld(x)'
  BY <1>1, <1>3 DEF ThreadInv, LockHeld, Holds
<1>9. (\A e \in Deployments : Sound(saved[e])') /\ (\A x \in Workers : Sound(mem[x])')
  BY <1>1, <1>2, <1>3 DEF ThreadInv
<1> QED BY <1>4, <1>5, <1>6, <1>7, <1>8, <1>9 DEF ThreadInv

LEMMA ThreadsAlone ==
  ASSUME ThreadInv, Types', saved' = saved, on' = on, mem' = mem, at' = at, doing' = doing,
         cmd' = cmd, resumed' = resumed, doubled' = doubled,
         \A w \in Workers : on[w] # Nothing /\ lock = on[w] /\ doing[w] # "pulling" => lock' = lock
  PROVE  ThreadInv'
<1>1. \A w \in Workers : LockHeld(w)'
  <2> SUFFICES ASSUME NEW w \in Workers PROVE LockHeld(w)'
    OBVIOUS
  <2>1. LockHeld(w) /\ Shape(w) /\ mem[w] \in Checkpoints
    BY DEF ThreadInv, Types
  <2>2. on[w] # Nothing /\ doing[w] = "pulling" => ~Holds(w)
    BY <2>1, StageNames DEF Shape, Holds, Working, Checkpoints
  <2> QED BY <2>1, <2>2 DEF LockHeld, Holds
<1> QED BY <1>1 DEF ThreadInv, Shape, Kept, Single

LEMMA ExpireLeaseThread == ASSUME ThreadInv, ExpireLease PROVE ThreadInv'
<1>1. Types'
  BY LateType DEF ThreadInv, ExpireLease, Types, host, threads
<1> QED BY <1>1, ThreadsAlone DEF ExpireLease, threads, history

LEMMA RequestCancelThread ==
  ASSUME ThreadInv, NEW d \in Deployments, RequestCancel(d) PROVE ThreadInv'
<1>1. Types'
  BY LateType DEF ThreadInv, RequestCancel, Types, host, threads
<1> QED BY <1>1, ThreadsAlone DEF RequestCancel, threads, history

LEMMA SettleType ==
  ASSUME Types, NEW i \in Commands, NEW status \in {"ok", "failed"}, Settle(i, status)
  PROVE  commands' \in [Commands -> Records]
<1>1. NoCommand \in Records /\ [commands[i] EXCEPT !.status = status] \in Records
  BY DEF NoCommand, Records, Types
<1> QED BY <1>1 DEF Types, Settle

LEMMA HostRunsThread == ASSUME ThreadInv, NEW i \in Commands, HostRuns(i) PROVE ThreadInv'
<1>1. Types /\ commands[i] \in Records
  BY DEF ThreadInv, Types
<1>2. commands' \in [Commands -> Records]
  BY <1>1, SettleType DEF HostRuns
<1>3. running' \in Artifacts \cup {Nothing}
  BY <1>1 DEF HostRuns, Types, Records
<1>4. Types'
  BY <1>1, <1>2, <1>3, LateType DEF HostRuns, Types, files, threads
<1> QED BY <1>4, ThreadsAlone DEF HostRuns, files, threads, history

LEMMA CrashThread == ASSUME ThreadInv, Crash PROVE ThreadInv'
<1>1. /\ on' = [w \in Workers |-> Nothing]
      /\ mem' = [w \in Workers |-> Fresh("NEW")]
      /\ at' = [w \in Workers |-> "lock_env"]
      /\ doing' = [w \in Workers |-> "enter"]
      /\ cmd' = [w \in Workers |-> Nothing] /\ bound' = {} /\ saved' = saved
  BY DEF Crash, files
<1>2. /\ Fresh("NEW") \in Checkpoints /\ Sound(Fresh("NEW"))
      /\ "lock_env" \in Places /\ "enter" \in Steps
  BY StageNames DEF Fresh, Checkpoints, Sound, Places, Forwards, Steps
<1>3. Types'
  BY <1>1, <1>2, LateType DEF ThreadInv, Types, Crash, host, files
<1>4. Single' /\ \A w \in Workers : Shape(w)' /\ Kept(w)' /\ LockHeld(w)'
  BY <1>1 DEF Single, Shape, Kept, LockHeld, Asked
<1> QED BY <1>1, <1>2, <1>3, <1>4 DEF ThreadInv

LEMMA ThreadMoves ==
  ASSUME ThreadInv, NEW w \in Workers, ThreadStep(w) \/ Throw(w)
  PROVE  on[w] # Nothing /\ Moved(w) /\ Apart(w)
BY MaybeCancelThread, LockEnvThread, DiscoverHostThread, PullThread, PulledThread, NotReadyThread,
   RunOpThread, ReconcileThread, SendThread, RecordThread, EnvironmentLockedThread, SendFailsThread,
   SucceededThread, CommandFailedThread, TimeOutThread, OpDoneThread, VerifyThread,
   VerifyFailsThread, CompleteThread, CloseThread, RollbackPullThread, RollbackPulledThread,
   RollbackHealthThread, RollbackFailsThread, ThrowThread
DEF ThreadStep

LEMMA ThreadNext == ThreadInv /\ [Next]_vars => ThreadInv'
<1> SUFFICES ASSUME ThreadInv, [Next]_vars PROVE ThreadInv'
  OBVIOUS
<1>1. ASSUME NEW w \in Workers, NEW d \in Deployments, Create(w, d) \/ Resume(w, d) PROVE ThreadInv'
  BY <1>1, CreateThread, ResumeThread
<1>2. ASSUME NEW w \in Workers, ThreadStep(w) \/ Throw(w) PROVE ThreadInv'
  BY <1>2, ThreadMoves, Advance
<1>3. ASSUME NEW d \in Deployments, RequestCancel(d) PROVE ThreadInv'
  BY <1>3, RequestCancelThread
<1>4. ASSUME NEW i \in Commands, HostRuns(i) PROVE ThreadInv'
  BY <1>4, HostRunsThread
<1>5. CASE ExpireLease \/ Crash
  BY <1>5, ExpireLeaseThread, CrashThread
<1>6. CASE UNCHANGED vars
  <2>1. Types'
    BY <1>6 DEF ThreadInv, Types, vars, host, files, threads, history
  <2> QED BY <1>6, <2>1, ThreadsAlone DEF vars, files, threads, history
<1> QED BY <1>1, <1>2, <1>3, <1>4, <1>5, <1>6 DEF Next

LEMMA ThreadInit == Init => ThreadInv
<1> SUFFICES ASSUME Init PROVE ThreadInv
  OBVIOUS
<1>1. /\ Fresh("NEW") \in Checkpoints /\ Sound(Fresh("NEW")) /\ NoCommand \in Records
      /\ "lock_env" \in Places /\ "enter" \in Steps
  BY StageNames DEF Fresh, Checkpoints, Sound, Places, Forwards, Steps, NoCommand, Records
<1>2. Types
  BY <1>1 DEF Init, Types, Artifacts
<1>3. Single /\ \A w \in Workers : Shape(w) /\ Kept(w) /\ LockHeld(w)
  BY DEF Init, Single, Shape, Kept, LockHeld, Asked
<1> QED BY <1>1, <1>2, <1>3 DEF Init, ThreadInv

THEOREM ThreadsCorrect == Spec => []ThreadInv
BY ThreadInit, ThreadNext, PTL DEF Spec

-----------------------------------------------------------------------------
\* A terminal status is final unless two threads ran the deployment at once: whoever writes
\* the checkpoint has it in memory, and writes the status it was told last.
LEMMA FinalStep ==
  ASSUME ThreadInv, [Next]_vars, NEW d \in Deployments \ doubled, saved[d].status \in TERMINAL
  PROVE  saved'[d].status = saved[d].status
<1>1. Types /\ saved[d] \in Checkpoints /\ saved[d].status \notin {"NEW", "RUNNING", "ROLLING_BACK"}
  BY DEF ThreadInv, Types, TERMINAL
<1>2. ASSUME NEW w \in Workers, ThreadStep(w) \/ Throw(w) PROVE saved'[d].status = saved[d].status
  <2>1. on[w] # Nothing /\ Moved(w)
    BY <1>2, ThreadMoves
  <2>2. CASE on[w] # d
    BY <2>1, <2>2 DEF Moved
  <2>3. CASE on[w] = d
    <3>1. doing[w] = "closing" /\ mem[w].status = saved[d].status
      BY <1>1, <2>1, <2>3 DEF ThreadInv, Kept, Shape
    <3>2. Close(w)
      BY <1>2, <3>1 DEF ThreadStep, Throw, MaybeCancel, LockEnv, DiscoverHost, Pull, Pulled, NotReady,
         RunOp, Reconcile, Send, MaySend, Record, EnvironmentLocked, SendFails, Succeeded, CommandFailed,
         TimeOut, Waits, OpDone, Verify, VerifyFails, Complete, RollbackPull, RollbackPulled,
         RollbackHealth, RollbackFails, Enters, At
    <3>3. Save(w, [mem[w] EXCEPT !.locked = FALSE]) /\ mem[w] \in Checkpoints
      BY <1>1, <3>2 DEF Close, Types
    <3>4. [mem[w] EXCEPT !.locked = FALSE].status = mem[w].status
      BY <3>3 DEF Checkpoints
    <3>5. saved' = [saved EXCEPT ![d] = Fresh(mem[w].status)]
      BY <2>3, <3>1, <3>3, <3>4 DEF Save
    <3> QED BY <1>1, <3>1, <3>5 DEF Fresh, Types
  <2> QED BY <2>2, <2>3
<1>3. ASSUME NEW w \in Workers, NEW e \in Deployments, Create(w, e)
      PROVE  saved'[d].status = saved[d].status
  BY <1>1, <1>3 DEF Create, Types
<1>4. CASE saved' = saved
  BY <1>4
<1> QED BY <1>2, <1>3, <1>4
        DEF Next, Resume, RequestCancel, HostRuns, ExpireLease, Crash, vars, files

\* The status an operator was shown at the end is the one the file keeps.
THEOREM FinalIsFinal == Spec => TerminalIsFinal
<1>1. ThreadInv /\ [Next]_vars =>
        [\A d \in Deployments \ doubled :
           saved[d].status \in TERMINAL => saved'[d].status = saved[d].status]_vars
  BY FinalStep
<1> QED BY <1>1, ThreadsCorrect, PTL DEF Spec, TerminalIsFinal

LEMMA SentUnderLock ==
  ASSUME ThreadInv, [Next]_vars, NEW i \in Commands,
         commands'[i].status = "running", commands[i].status # "running",
         commands'[i].of \notin doubled
  PROVE  lock = commands'[i].of
<1>1. Types
  BY DEF ThreadInv
<1>2. ASSUME NEW w \in Workers, MaySend(w), Sent(w) PROVE lock = commands'[i].of
  <2>1. doing[w] = "ready" /\ on[w] # Nothing
    BY <1>2 DEF MaySend
  <2>2. Operation(at[w]) # "read" /\ LockHeld(w)
    BY <2>1 DEF ThreadInv, Shape, Working
  <2>3. /\ commands'[FreeCommand] = [of |-> on[w], op |-> Operation(at[w]),
                                      artifact |-> Target(w), status |-> "running"]
        /\ \A j \in Commands \ {FreeCommand} : commands'[j] = commands[j]
    BY <1>1, <1>2, <2>2, SentType
  <2>4. i = FreeCommand
    BY <2>3
  <2>5. commands'[i].of = on[w]
    BY <2>3, <2>4
  <2> QED BY <2>1, <2>2, <2>5 DEF LockHeld, Holds, Working
<1>3. ASSUME NEW w \in Workers, Read(w) PROVE FALSE
  BY <1>1, <1>3 DEF Read, NoCommand, Types
<1>4. ASSUME NEW j \in Commands, HostRuns(j) PROVE FALSE
  <2>1. ASSUME NEW s \in {"ok", "failed"}, Settle(j, s) PROVE FALSE
    <3>1. commands[j] \in Records
      BY <1>1 DEF Types
    <3>2. [commands[j] EXCEPT !.status = s].status = s
      BY <3>1 DEF Records
    <3> QED BY <1>1, <2>1, <3>2 DEF Settle, NoCommand, Types
  <2> QED BY <1>4, <2>1 DEF HostRuns
<1>5. CASE commands' = commands
  BY <1>5
<1>6. ASSUME NEW w \in Workers, ThreadStep(w) PROVE lock = commands'[i].of
  BY <1>2, <1>3, <1>5, <1>6 DEF ThreadStep, MaybeCancel, LockEnv, DiscoverHost, Pull, Pulled, NotReady,
     RunOp, Reconcile, Send, Record, EnvironmentLocked, SendFails, Succeeded, CommandFailed,
     TimeOut, OpDone, Verify, VerifyFails, Complete, Close, RollbackPull, RollbackPulled,
     RollbackHealth, RollbackFails, host
<1> QED BY <1>4, <1>5, <1>6
        DEF Next, Create, Resume, Throw, RequestCancel, ExpireLease, Crash, vars, host

\* No stop or start leaves for the host but under the lock of its deployment, whatever died,
\* expired or was resumed before.
THEOREM HostChangesUnderLock == Spec => MutatesUnderLock
<1>1. ThreadInv /\ [Next]_vars =>
        [\A i \in Commands :
           commands'[i].status = "running" /\ commands[i].status # "running"
           /\ commands'[i].of \notin doubled => lock = commands'[i].of]_vars
  BY SentUnderLock
<1> QED BY <1>1, ThreadsCorrect, PTL DEF Spec, MutatesUnderLock

-----------------------------------------------------------------------------
(* What a thread has in memory after a step.                                 *)

LEMMA GoMem ==
  ASSUME Types, NEW w \in Workers, NEW s, NEW k, NEW m, Go(w, s, k, m)
  PROVE  /\ mem'[w] = m /\ doing'[w] = k /\ at'[w] = s /\ cmd'[w] = Nothing /\ on' = on
         /\ \A x \in Workers \ {w} :
              mem'[x] = mem[x] /\ doing'[x] = doing[x] /\ at'[x] = at[x] /\ cmd'[x] = cmd[x]
BY DEF Types, Go

LEMMA FailsMem ==
  ASSUME Types, NEW w \in Workers,
         NEW status \in {"ROLLING_BACK", "FAILED", "CANCELLED"}, Fails(w, status)
  PROVE  /\ mem'[w] = [mem[w] EXCEPT !.status = status] /\ mem'[w].status = status
         /\ cmd'[w] = Nothing /\ on' = on
         /\ status = "ROLLING_BACK" => at'[w] = "rb_pull" /\ doing'[w] = "enter"
         /\ status # "ROLLING_BACK" => doing'[w] = "closing"
<1> DEFINE m == [mem[w] EXCEPT !.status = status]
<1>1. m.status = status
  BY DEF Types, Checkpoints
<1>2. IF status = "ROLLING_BACK" THEN Go(w, "rb_pull", "enter", m) ELSE Go(w, at[w], "closing", m)
  BY DEF Fails
<1>3. mem'[w] = m => mem'[w] = [mem[w] EXCEPT !.status = status]
  OBVIOUS
<1> HIDE DEF m
<1>4. CASE status = "ROLLING_BACK"
  <2>1. Go(w, "rb_pull", "enter", m)
    BY <1>2, <1>4
  <2> QED BY <1>1, <1>3, <1>4, <2>1, GoMem
<1>5. CASE status # "ROLLING_BACK"
  <2>1. Go(w, at[w], "closing", m)
    BY <1>2, <1>5
  <2> QED BY <1>1, <1>3, <1>5, <2>1, GoMem
<1> QED BY <1>4, <1>5

LEMMA OpFailsMem ==
  ASSUME Types, NEW w \in Workers, OpFails(w)
  PROVE  /\ mem'[w].status \in {"ROLLING_BACK", "FAILED"} /\ cmd'[w] = Nothing /\ on' = on
         /\ mem'[w].status = "ROLLING_BACK" => at'[w] = "rb_pull" /\ doing'[w] = "enter"
         /\ mem'[w].status # "ROLLING_BACK" => doing'[w] = "closing"
<1>1. CASE Forward(w)
  <2>1. PICK status \in {"ROLLING_BACK", "FAILED"} : Fails(w, status)
    BY <1>1 DEF OpFails, StartedFails
  <2> QED BY <2>1, FailsMem
<1>2. CASE ~Forward(w)
  <2> DEFINE m == [mem[w] EXCEPT !.status = "FAILED"]
  <2>1. Go(w, at[w], "closing", m)
    BY <1>2 DEF OpFails
  <2>2. m.status = "FAILED"
    BY DEF Types, Checkpoints
  <2> HIDE DEF m
  <2> QED BY <2>1, <2>2, GoMem
<1> QED BY <1>1, <1>2

LEMMA StageDoneMem ==
  ASSUME Types, NEW w \in Workers, NEW m \in Checkpoints, StageDone(w, m)
  PROVE  /\ mem'[w].status = m.status /\ mem'[w].done = m.done + 1
         /\ mem'[w].locked = m.locked /\ mem'[w].previous = m.previous
         /\ doing'[w] = "enter" /\ cmd'[w] = Nothing /\ on' = on
         /\ at'[w] = Stages[m.done + 2]
<1> DEFINE n == [m EXCEPT !.done = @ + 1]
<1>1. n.done = m.done + 1 /\ n.status = m.status /\ n.locked = m.locked
      /\ n.previous = m.previous /\ n.done + 1 = m.done + 2
  BY StageNames DEF Checkpoints
<1>2. Go(w, Stages[n.done + 1], "enter", n)
  BY DEF StageDone
<1> HIDE DEF n
<1> QED BY <1>1, <1>2, GoMem

\* A step fails, finishes a stage, or leaves the checkpoint as it is, and then a command
\* that was sent is still under way.
Progress(w) ==
  \/ mem'[w].status # "RUNNING"
  \/ /\ mem[w].status = "RUNNING" /\ mem'[w].done = mem[w].done + 1
     /\ doing[w] \in Asked \cup {"answered"} => mem'[w].done >= 4
  \/ /\ mem'[w] = mem[w]
     /\ doing[w] \in Asked \cup {"answered"} => doing'[w] \in Asked \cup {"answered"}

LEMMA ThreadProgress ==
  ASSUME ThreadInv, NEW w \in Workers, ThreadStep(w), ~Close(w)
  PROVE  Progress(w) /\ on' = on /\ resumed' = resumed
<1>1. Types /\ Shape(w) /\ mem[w] \in Checkpoints /\ on[w] # Nothing
  BY ThreadMoves DEF ThreadInv, Types
<1>2. CASE \/ MaybeCancel(w) \/ NotReady(w) \/ EnvironmentLocked(w) \/ SendFails(w) \/ CommandFailed(w)
           \/ TimeOut(w) \/ VerifyFails(w) \/ RollbackFails(w)
  <2>1. (\E s \in {"ROLLING_BACK", "FAILED", "CANCELLED"} : Fails(w, s)) \/ OpFails(w)
    BY <1>2 DEF MaybeCancel, Cancel, NotReady, EnvironmentLocked, SendFails, CommandFailed, TimeOut,
       VerifyFails, StartedFails, RollbackFails
  <2>2. mem'[w].status # "RUNNING" /\ on' = on
    BY <1>1, <2>1, FailsMem, OpFailsMem
  <2> QED BY <1>2, <2>2 DEF Progress, MaybeCancel, NotReady, EnvironmentLocked, SendFails, CommandFailed,
          TimeOut, VerifyFails, RollbackFails, history
<1>3. CASE LockEnv(w)
  <2>1. CASE Fails(w, "FAILED")
    BY <1>1, <1>3, <2>1, FailsMem DEF Progress, LockEnv
  <2>2. CASE StageDone(w, [mem[w] EXCEPT !.locked = TRUE])
    <3> DEFINE m == [mem[w] EXCEPT !.locked = TRUE]
    <3>1. m \in Checkpoints /\ m.status = mem[w].status /\ m.done = mem[w].done
      BY <1>1 DEF Checkpoints
    <3>2. StageDone(w, m)
      BY <2>2
    <3> HIDE DEF m
    <3>3. mem'[w].done = mem[w].done + 1 /\ mem'[w].status = mem[w].status /\ on' = on
      BY <1>1, <3>1, <3>2, StageDoneMem
    <3> QED BY <1>3, <3>3 DEF Progress, LockEnv, Enters, At, Asked
  <2> QED BY <1>3, <2>1, <2>2 DEF LockEnv
<1>4. CASE DiscoverHost(w)
  <2> DEFINE m == [mem[w] EXCEPT !.previous = IF running = on[w] THEN Nothing ELSE running]
  <2>1. m \in Checkpoints /\ m.status = mem[w].status /\ m.done = mem[w].done
    BY <1>1 DEF Checkpoints, Types
  <2>2. StageDone(w, m)
    BY <1>4 DEF DiscoverHost
  <2> HIDE DEF m
  <2>3. mem'[w].done = mem[w].done + 1 /\ mem'[w].status = mem[w].status /\ on' = on
    BY <1>1, <2>1, <2>2, StageDoneMem
  <2> QED BY <1>4, <2>3 DEF Progress, DiscoverHost, Enters, At, Asked
<1>5. CASE Pulled(w) \/ Verify(w)
  <2>1. StageDone(w, mem[w])
    BY <1>5 DEF Pulled, Verify
  <2>2. mem'[w].done = mem[w].done + 1 /\ mem'[w].status = mem[w].status /\ on' = on
    BY <1>1, <2>1, StageDoneMem
  <2> QED BY <1>5, <2>2 DEF Progress, Pulled, Verify, Enters, At, Asked
<1>6. CASE OpDone(w)
  <2>1. CASE Forward(w)
    <3>1. StageDone(w, mem[w]) /\ doing[w] = "answered" /\ Operation(at[w]) # "read"
      BY <1>1, <1>6, <2>1 DEF OpDone, Shape, Working
    <3>2. mem'[w].done = mem[w].done + 1 /\ mem'[w].status = mem[w].status /\ on' = on
      BY <1>1, <3>1, StageDoneMem
    <3>3. mem[w].done \in {3, 4} /\ mem[w].status = "RUNNING"
      BY <1>1, <2>1, <3>1, OperationStage
    <3> QED BY <1>6, <3>2, <3>3 DEF Progress, OpDone, history
  <2>2. CASE ~Forward(w)
    <3>1. mem'[w] = mem[w] /\ on' = on
      BY <1>1, <1>6, <2>2, GoMem DEF OpDone
    <3>2. mem[w].status # "RUNNING"
      BY <1>1, <1>6, <2>2, OperationStage DEF OpDone
    <3> QED BY <1>6, <3>1, <3>2 DEF Progress, OpDone, history
  <2> QED BY <2>1, <2>2
<1>7. CASE Pull(w) \/ RunOp(w) \/ RollbackPull(w) \/ RollbackPulled(w) \/ Succeeded(w)
  <2>1. \E s \in Places, k \in Steps : /\ Go(w, s, k, mem[w])
                                       /\ doing[w] \in Asked \cup {"answered"} => k = "answered"
    BY <1>1, <1>7 DEF Pull, RunOp, RollbackPull, RollbackPulled, Succeeded, Waits, Enters, At, Steps,
       Working, Asked, Places, RollbackStages, Types
  <2>2. /\ mem'[w] = mem[w] /\ on' = on
        /\ doing[w] \in Asked \cup {"answered"} => doing'[w] = "answered"
    BY <1>1, <2>1, GoMem
  <2> QED BY <1>7, <2>2 DEF Progress, Pull, RunOp, RollbackPull, RollbackPulled, Succeeded, history
<1>8. CASE Complete(w) \/ RollbackHealth(w)
  <2>1. PICK status \in {"COMPLETED", "ROLLED_BACK"} :
          Go(w, at[w], "closing", [mem[w] EXCEPT !.status = status])
    BY <1>8 DEF Complete, RollbackHealth
  <2> DEFINE m == [mem[w] EXCEPT !.status = status]
  <2>2. m.status # "RUNNING" /\ Go(w, at[w], "closing", m)
    BY <1>1, <2>1 DEF Checkpoints
  <2> HIDE DEF m
  <2>3. mem'[w].status # "RUNNING" /\ on' = on
    BY <1>1, <2>1, <2>2, GoMem
  <2> QED BY <1>8, <2>3 DEF Progress, Complete, RollbackHealth, history
<1>9. CASE Reconcile(w) \/ Send(w) \/ Record(w)
  BY <1>1, <1>9 DEF Progress, Reconcile, Send, MaySend, Record, Types, Asked, history
<1> QED BY <1>2, <1>3, <1>4, <1>5, <1>6, <1>7, <1>8, <1>9 DEF ThreadStep

-----------------------------------------------------------------------------
(* What a cancelled deployment has sent.                                     *)

LEMMA TouchedStep ==
  ASSUME NEW w \in Workers, ThreadStep(w), ~Close(w)
  PROVE  \/ touched' = touched
         \/ /\ touched' = touched \cup {on[w]}
            /\ (OpFails(w) \/ doing'[w] = "sent" \/ doing' = [doing EXCEPT ![w] = "sent"])
BY DEF ThreadStep, MaybeCancel, LockEnv, DiscoverHost, Pull, Pulled, NotReady, RunOp, Reconcile, Send,
   Record, EnvironmentLocked, SendFails, Succeeded, CommandFailed, TimeOut, OpDone, Verify, VerifyFails,
   Complete, RollbackPull, RollbackPulled, RollbackHealth, RollbackFails, history

LEMMA TouchAdvance ==
  ASSUME ThreadInv, TouchInv, NEW w \in Workers, ThreadStep(w), ~Close(w)
  PROVE  TouchInv'
<1>1. /\ on[w] # Nothing /\ Moved(w) /\ Progress(w) /\ on' = on /\ resumed' = resumed
      /\ Types /\ mem[w] \in Checkpoints /\ on[w] \in Deployments
  BY ThreadMoves, ThreadProgress DEF ThreadInv, Types
<1>2. touched' = touched \/ touched' = touched \cup {on[w]}
  BY TouchedStep
<1>3. touched' \subseteq Deployments /\ \A d \in touched' : saved'[d].status # "NEW"
  BY <1>1, <1>2 DEF Moved, TouchInv
<1>4. ASSUME NEW x \in Workers \ {w} PROVE Untouched(x)'
  <2>1. Untouched(x) /\ (on[x] = on[w] => on[w] \in resumed)
    BY <1>1 DEF TouchInv
  <2> QED BY <1>1, <1>2, <2>1 DEF Untouched, Moved
<1>5. Untouched(w)'
  <2>1. Untouched(w)
    BY DEF TouchInv
  <2>2. CASE touched' = touched
    BY <1>1, <2>1, <2>2, StageNames DEF Untouched, Progress, Checkpoints
  <2>3. CASE OpFails(w)
    BY <1>1, <2>3, OpFailsMem DEF Untouched
  <2>4. CASE doing'[w] = "sent" \/ doing' = [doing EXCEPT ![w] = "sent"]
    BY <1>1, <2>4 DEF Untouched, Asked, Types
  <2> QED BY <2>2, <2>3, <2>4, TouchedStep
<1> QED BY <1>1, <1>3, <1>4, <1>5 DEF TouchInv

LEMMA TouchEnd ==
  ASSUME ThreadInv, TouchInv, NEW w \in Workers, Close(w) \/ Throw(w)
  PROVE  TouchInv'
<1>1. /\ on[w] # Nothing /\ Moved(w) /\ End(w) /\ Types
      /\ resumed' = resumed \ {on[w]} /\ touched' = touched \ {on[w]}
  BY ThreadMoves DEF ThreadStep, Close, Throw, Forget, ThreadInv
<1>2. on'[w] = Nothing /\ \A x \in Workers \ {w} : on'[x] = on[x]
  BY <1>1 DEF Moved, End, Types
<1>3. touched' \subseteq Deployments /\ \A d \in touched' : saved'[d].status # "NEW"
  BY <1>1 DEF Moved, TouchInv
<1>4. \A x, y, z \in Workers :
        on'[x] # Nothing /\ on'[x] = on'[y] /\ on'[y] = on'[z] => x = y \/ y = z \/ x = z
  BY <1>2 DEF TouchInv
<1>5. ASSUME NEW x \in Workers, NEW y \in Workers, on'[x] # Nothing, on'[x] = on'[y], x # y
      PROVE  on'[x] \in resumed'
  BY <1>1, <1>2, <1>5 DEF TouchInv
<1>6. \A x \in Workers : Untouched(x)'
  BY <1>1, <1>2 DEF TouchInv, Untouched, Moved
<1> QED BY <1>3, <1>4, <1>5, <1>6 DEF TouchInv

LEMMA TouchStart ==
  ASSUME ThreadInv, TouchInv, NEW w \in Workers, NEW d \in Deployments, Create(w, d) \/ Resume(w, d)
  PROVE  TouchInv'
<1>1. /\ on[w] = Nothing /\ touched' = touched /\ doing' = doing /\ Types
      /\ Start(w, d, Fresh("RUNNING")) \/ Start(w, d, saved[d])
  BY DEF Create, Resume, Idle, history, Start, ThreadInv
<1>2. /\ on'[w] = d /\ \A x \in Workers \ {w} : on'[x] = on[x] /\ mem'[x] = mem[x]
  BY <1>1 DEF Start, Types
<1>3. CASE Create(w, d)
  <2>1. /\ saved[d].status = "NEW" /\ saved' = [saved EXCEPT ![d] = Fresh("RUNNING")]
        /\ resumed' = resumed /\ Fresh("RUNNING").status = "RUNNING"
    BY <1>3 DEF Create, history, Fresh
  <2>2. d \notin touched /\ \A x \in Workers : on[x] # d
    BY <2>1 DEF TouchInv, ThreadInv, Shape
  <2>3. \A e \in touched : saved'[e].status # "NEW"
    BY <1>1, <2>1, <2>2 DEF TouchInv, Types
  <2>4. \A x \in Workers : Untouched(x)'
    BY <1>1, <1>2, <2>1, <2>2 DEF TouchInv, Untouched
  <2>5. \A x, y, z \in Workers :
          on'[x] # Nothing /\ on'[x] = on'[y] /\ on'[y] = on'[z] => x = y \/ y = z \/ x = z
    BY <1>2, <2>2 DEF TouchInv
  <2>6. \A x, y \in Workers : on'[x] # Nothing /\ on'[x] = on'[y] /\ x # y => on'[x] \in resumed'
    BY <1>2, <2>1, <2>2 DEF TouchInv
  <2> QED BY <1>1, <2>3, <2>4, <2>5, <2>6 DEF TouchInv
<1>4. CASE Resume(w, d)
  <2>1. /\ resumed' = resumed \cup {d} /\ saved' = saved
        /\ (\E x \in Workers : on[x] = d) => d \notin doubled
    BY <1>4 DEF Resume, files
  <2>2. \A x \in Workers : Untouched(x)'
    BY <1>1, <1>2, <2>1 DEF TouchInv, Untouched
  <2>3. \A x, y \in Workers : on[x] = d /\ on[y] = d => x = y
    BY <2>1 DEF ThreadInv, Single
  <2>4. \A x, y, z \in Workers :
          on'[x] # Nothing /\ on'[x] = on'[y] /\ on'[y] = on'[z] => x = y \/ y = z \/ x = z
    BY <1>1, <1>2, <2>3 DEF TouchInv
  <2>5. \A x, y \in Workers : on'[x] # Nothing /\ on'[x] = on'[y] /\ x # y => on'[x] \in resumed'
    BY <1>1, <1>2, <2>1 DEF TouchInv
  <2> QED BY <1>1, <2>1, <2>2, <2>4, <2>5 DEF TouchInv
<1> QED BY <1>3, <1>4

LEMMA TouchNext == ThreadInv /\ TouchInv /\ [Next]_vars => TouchInv'
<1> SUFFICES ASSUME ThreadInv, TouchInv, [Next]_vars PROVE TouchInv'
  OBVIOUS
<1>1. ASSUME NEW w \in Workers, ThreadStep(w) \/ Throw(w) PROVE TouchInv'
  BY <1>1, TouchAdvance, TouchEnd
<1>2. ASSUME NEW w \in Workers, NEW d \in Deployments, Create(w, d) \/ Resume(w, d) PROVE TouchInv'
  BY <1>2, TouchStart
<1>3. CASE Crash
  BY <1>3 DEF TouchInv, Untouched, Crash, files, history
<1>4. CASE UNCHANGED <<saved, on, mem, doing, resumed, touched>>
  BY <1>4 DEF TouchInv, Untouched
<1> QED BY <1>1, <1>2, <1>3, <1>4
        DEF Next, RequestCancel, HostRuns, ExpireLease, vars, files, threads, history

LEMMA CancelStep ==
  ASSUME ThreadInv, TouchInv, [Next]_vars, NEW w \in Workers,
         mem'[w].status = "CANCELLED", mem[w].status # "CANCELLED", mem[w].previous # Nothing,
         on[w] \notin resumed
  PROVE  on[w] \notin touched
<1>1. Types /\ Shape(w) /\ mem[w] \in Checkpoints /\ Untouched(w)
  BY DEF ThreadInv, Types, TouchInv
<1>2. mem'[w] # Fresh("NEW")
  BY DEF Fresh
<1>3. ASSUME NEW x \in Workers, ThreadStep(x) PROVE x = w /\ MaybeCancel(w)
  <2>1. on[x] # Nothing /\ Moved(x)
    BY <1>3, ThreadMoves
  <2>2. x = w
    BY <2>1 DEF Moved
  <2>3. CASE \/ NotReady(w) \/ EnvironmentLocked(w) \/ SendFails(w) \/ CommandFailed(w)
             \/ TimeOut(w) \/ VerifyFails(w) \/ RollbackFails(w)
    <3>1. (\E s \in {"ROLLING_BACK", "FAILED"} : Fails(w, s)) \/ OpFails(w)
      BY <2>3 DEF NotReady, EnvironmentLocked, SendFails, CommandFailed, TimeOut, VerifyFails,
         StartedFails, RollbackFails
    <3> QED BY <1>1, <3>1, FailsMem, OpFailsMem
  <2>4. CASE LockEnv(w)
    <3>1. CASE Fails(w, "FAILED")
      BY <1>1, <3>1, FailsMem
    <3>2. CASE StageDone(w, [mem[w] EXCEPT !.locked = TRUE])
      <4> DEFINE m == [mem[w] EXCEPT !.locked = TRUE]
      <4>1. m \in Checkpoints /\ m.status = mem[w].status /\ StageDone(w, m)
        BY <1>1, <3>2 DEF Checkpoints
      <4> HIDE DEF m
      <4> QED BY <1>1, <4>1, StageDoneMem
    <3> QED BY <2>4, <3>1, <3>2 DEF LockEnv
  <2>5. CASE DiscoverHost(w)
    <3> DEFINE m == [mem[w] EXCEPT !.previous = IF running = on[w] THEN Nothing ELSE running]
    <3>1. m \in Checkpoints /\ m.status = mem[w].status
      BY <1>1 DEF Checkpoints, Types
    <3>2. StageDone(w, m)
      BY <2>5 DEF DiscoverHost
    <3> HIDE DEF m
    <3> QED BY <1>1, <3>1, <3>2, StageDoneMem
  <2>6. CASE StageDone(w, mem[w])
    BY <1>1, <2>6, StageDoneMem
  <2>7. ASSUME NEW s, NEW k, Go(w, s, k, mem[w]) PROVE FALSE
    BY <1>1, <2>7, GoMem
  <2>8. CASE Complete(w) \/ RollbackHealth(w)
    <3>1. PICK status \in {"COMPLETED", "ROLLED_BACK"} :
            Go(w, at[w], "closing", [mem[w] EXCEPT !.status = status])
      BY <2>8 DEF Complete, RollbackHealth
    <3> DEFINE m == [mem[w] EXCEPT !.status = status]
    <3>2. m.status # "CANCELLED" /\ Go(w, at[w], "closing", m)
      BY <1>1, <3>1 DEF Checkpoints
    <3> HIDE DEF m
    <3> QED BY <1>1, <3>2, GoMem
  <2>9. CASE Close(w)
    BY <1>1, <1>2, <2>9 DEF Close, End, Types
  <2>10. CASE Reconcile(w) \/ Send(w) \/ Record(w)
    BY <2>10 DEF Reconcile, Send, Record
  <2> QED BY <1>3, <2>2, <2>3, <2>4, <2>5, <2>6, <2>7, <2>8, <2>9, <2>10
          DEF ThreadStep, Pull, Pulled, RunOp, Succeeded, OpDone, Verify, RollbackPull, RollbackPulled
<1>4. ASSUME MaybeCancel(w) PROVE on[w] \notin touched
  <2>1. doing[w] = "enter" /\ Cancel(w) /\ on[w] # Nothing /\ Forward(w)
    BY <1>4 DEF MaybeCancel, Forward
  <2>2. mem[w].status = "RUNNING" /\ mem[w].done \in 0 .. 6
    BY <2>1, OperationStage
  <2>3. ~Started(w)
    BY <1>1, <2>1, FailsMem DEF Cancel
  <2> QED BY <1>1, <2>1, <2>2, <2>3 DEF Untouched, Started, Asked
<1>5. ASSUME NEW x \in Workers, Throw(x) PROVE FALSE
  BY <1>1, <1>2, <1>5 DEF Throw, End, Types
<1>6. ASSUME NEW x \in Workers, NEW d \in Deployments, Create(x, d) \/ Resume(x, d) PROVE FALSE
  <2>1. \E m : m.status # "CANCELLED" /\ Start(x, d, m)
    BY <1>6 DEF Create, Resume, Resumable, Live, Fresh
  <2> QED BY <1>1, <2>1 DEF Start, Types
<1>7. CASE Crash
  BY <1>2, <1>7 DEF Crash
<1>8. CASE UNCHANGED mem
  BY <1>8
<1> QED BY <1>3, <1>4, <1>5, <1>6, <1>7, <1>8
        DEF Next, RequestCancel, HostRuns, ExpireLease, vars, threads

LEMMA TouchInit == Init => TouchInv
BY DEF Init, TouchInv, Untouched

\* What is reported as cancelled was left as it was, whatever the process lived through, or
\* its operator knows of the resumption.
THEOREM CancelledWasUntouched == Spec => CancelledIsUntouched
<1>1. Spec => []TouchInv
  BY ThreadsCorrect, TouchInit, TouchNext, PTL DEF Spec
<1>2. ThreadInv /\ TouchInv /\ [Next]_vars =>
        [\A w \in Workers :
           mem'[w].status = "CANCELLED" /\ mem[w].status # "CANCELLED"
           /\ mem[w].previous # Nothing /\ on[w] \notin resumed => on[w] \notin touched]_vars
  BY CancelStep
<1> QED BY <1>1, <1>2, ThreadsCorrect, PTL DEF Spec, CancelledIsUntouched

-----------------------------------------------------------------------------
(* The commands and the container.                                           *)

\* What a step of a thread leaves alone: the container, the files of others, and every
\* command another thread or a file asks about.
CommandsApart(w) ==
  /\ running' = running
  /\ \A d \in Deployments \ {on[w]} : pending'[d] = pending[d]
  /\ \A i \in Commands :
       \/ commands'[i] = commands[i]
       \/ (\A x \in Workers \ {w} : cmd[x] # i) /\ (\A d \in Deployments : pending'[d] # i)
  /\ \A d \in Deployments \ {on[w]} :
       /\ d \in stolen => d \in stolen'
       /\ lock' \in {lock, Nothing} \/ (Live(d) /\ saved[d].locked => d \in stolen')
  /\ late => late'

CommandsOK(w) == OwnCommand(w) /\ OnePending(w) /\ Restored(w)
FilesOK(d) == LockKept(d) /\ OwnPending(d) /\ Forwarded(d)

LEMMA CommandAdvance ==
  ASSUME ThreadInv, CommandInv, NEW w \in Workers, NEW c \in Deployments, on[w] = c,
         Moved(w), Apart(w),
         CommandsApart(w), late' \/ ~Stray', CommandsOK(w)', FilesOK(c)'
  PROVE  CommandInv'
<1>1. Types /\ on[w] # Nothing
  BY DEF ThreadInv, Types
<1>2. ASSUME NEW x \in Workers \ {w} PROVE CommandsOK(x)'
  <2>1. CommandsOK(x) /\ on[x] \in Deployments \cup {Nothing} /\ cmd[x] \in Commands \cup {Nothing}
    BY <1>1 DEF CommandInv, CommandsOK, Types
  <2>2. on[x] # Nothing /\ on[x] \notin doubled => on[x] # c
    BY DEF ThreadInv, Single
  <2>3. cmd[x] # Nothing => commands'[cmd[x]] = commands[cmd[x]]
    BY <2>1 DEF CommandsApart
  <2>4. OwnCommand(x)'
    BY <2>1, <2>3 DEF CommandsOK, OwnCommand, Moved, Apart, Target, Forward
  <2>5. OnePending(x)'
    BY <2>1, <2>2 DEF CommandsOK, OnePending, Moved, Apart, CommandsApart
  <2>6. Restored(x)'
    BY <2>1, <2>3 DEF CommandsOK, Restored, Done, Moved, Apart, CommandsApart
  <2> QED BY <2>4, <2>5, <2>6 DEF CommandsOK
<1>3. ASSUME NEW d \in Deployments \ {c} PROVE FilesOK(d)'
  <2>1. FilesOK(d) /\ saved'[d] = saved[d] /\ pending'[d] = pending[d] /\ doubled' = doubled
        /\ pending[d] \in Commands \cup {Nothing}
    BY <1>1 DEF CommandInv, FilesOK, Moved, Apart, CommandsApart, Types
  <2>2. pending[d] # Nothing => commands'[pending[d]] = commands[pending[d]]
    BY <2>1 DEF CommandsApart
  <2>3. LockKept(d)'
    BY <2>1 DEF FilesOK, LockKept, Live, CommandsApart
  <2>4. OwnPending(d)'
    BY <2>1, <2>2 DEF FilesOK, OwnPending
  <2>5. \A x \in Workers : on'[x] = d => x # w /\ on[x] = d /\ doing'[x] = doing[x] /\ (Done(x)' <=> Done(x))
    <3> SUFFICES ASSUME NEW x \in Workers, on'[x] = d
                 PROVE  x # w /\ on[x] = d /\ doing'[x] = doing[x] /\ (Done(x)' <=> Done(x))
      OBVIOUS
    <3>1. x # w
      BY DEF Moved
    <3>2. cmd[x] # Nothing => commands'[cmd[x]] = commands[cmd[x]]
      BY <1>1, <3>1 DEF CommandsApart, Types
    <3> QED BY <3>1, <3>2 DEF Moved, Done
  <2>6. Untaken(d)' => Untaken(d)
    BY <2>5 DEF Untaken, CommandsApart, Apart
  <2>7. Forwarded(d)'
    BY <2>1, <2>2, <2>5, <2>6 DEF FilesOK, Forwarded, CommandsApart
  <2> QED BY <2>3, <2>4, <2>7 DEF FilesOK
<1>4. \A x \in Workers : OwnCommand(x)' /\ OnePending(x)' /\ Restored(x)'
  BY <1>2 DEF CommandsOK
<1>5. \A d \in Deployments : LockKept(d)' /\ OwnPending(d)' /\ Forwarded(d)'
  BY <1>3 DEF FilesOK
<1>6. (late \/ ~Stray)'
  OBVIOUS
<1> QED BY <1>4, <1>5, <1>6 DEF CommandInv

LEMMA HeartbeatSteals ==
  ASSUME NEW w \in Workers, Heartbeat(w) \/ UNCHANGED <<lock, stolen>>
  PROVE  /\ lock' \in {lock, on[w]}
         /\ \A d \in Deployments \ {on[w]} :
              /\ d \in stolen => d \in stolen'
              /\ lock' \in {lock, Nothing} \/ (Live(d) /\ saved[d].locked => d \in stolen')
         /\ on[w] \in stolen' <=> on[w] \in stolen
BY DEF Heartbeat, Acquire, TakesFrom

LEMMA LateNoted == ASSUME Noted PROVE (late => late') /\ (late' \/ ~Stray')
BY DEF Noted

\* A failure leaves no command to the thread, and a deployment that ends or goes back.
LEMMA FailedCommands ==
  ASSUME ThreadInv, CommandInv, NEW w \in Workers, NEW c \in Deployments, on[w] = c, doing[w] # "closing",
         Moved(w), on' = on, CommandsApart(w), doubled' = doubled, resumed' = resumed,
         pending'[c] \in {pending[c], Nothing},
         \/ OpFails(w) /\ lock' \in {lock, Nothing} /\ stolen' = stolen
         \/ \E s \in {"ROLLING_BACK", "FAILED", "CANCELLED"} :
              Fails(w, s) /\ (Heartbeat(w) \/ UNCHANGED <<lock, stolen>>)
  PROVE  CommandsOK(w)' /\ FilesOK(c)'
<1>1. Types /\ on[w] # Nothing /\ Kept(w) /\ FilesOK(c) /\ on'[w] = c
  BY DEF ThreadInv, Types, CommandInv, FilesOK
<1>2. /\ cmd'[w] = Nothing /\ mem'[w].status \in TERMINAL \cup {"ROLLING_BACK"}
      /\ mem'[w].status = "ROLLING_BACK" => at'[w] = "rb_pull" /\ doing'[w] = "enter"
      /\ mem'[w].status # "ROLLING_BACK" => doing'[w] = "closing"
  BY <1>1, FailsMem, OpFailsMem DEF TERMINAL
<1>3. CommandsOK(w)'
  BY <1>2 DEF CommandsOK, OwnCommand, OnePending, Restored, TERMINAL
<1>4. ASSUME c \notin doubled
      PROVE  saved'[c].status # "RUNNING" /\ (Live(c)' /\ saved'[c].locked => saved[c].locked /\ Live(c))
  <2>1. saved[c] = mem[w] /\ Shape(w)
    BY <1>1, <1>4 DEF Kept, ThreadInv
  <2>2. Live(c)
    BY <1>4, <2>1, OperationStage DEF Live
  <2>3. ASSUME NEW s \in {"ROLLING_BACK", "FAILED", "CANCELLED"}, Fails(w, s)
        PROVE  saved'[c].status # "RUNNING" /\ (Live(c)' /\ saved'[c].locked => saved[c].locked)
    <3> DEFINE m == [mem[w] EXCEPT !.status = s]
    <3>1. m.status = s /\ m.locked = mem[w].locked
      BY <1>1 DEF Types, Checkpoints
    <3>2. saved' = [saved EXCEPT ![c] = IF m.status \in TERMINAL THEN Fresh(m.status) ELSE m]
      BY <2>3 DEF Fails, Checkpoint, Save
    <3> HIDE DEF m
    <3>3. saved'[c].status = s /\ (s = "ROLLING_BACK" => saved'[c] = m)
      BY <1>1, <3>1, <3>2 DEF Types, Fresh, TERMINAL
    <3> QED BY <2>1, <3>1, <3>3 DEF Live
  <2>4. CASE OpFails(w) /\ Forward(w)
    BY <2>2, <2>3, <2>4 DEF OpFails, StartedFails
  <2>5. CASE OpFails(w) /\ ~Forward(w)
    <3>1. saved' = saved /\ mem[w].status # "RUNNING"
      BY <2>5, OperationStage DEF OpFails
    <3> QED BY <2>1, <2>2, <3>1
  <2> QED BY <2>2, <2>3, <2>4, <2>5
<1>5. OwnPending(c)'
  <2>1. pending'[c] # Nothing => commands'[pending'[c]] = commands[pending[c]]
    BY <1>1 DEF CommandsApart, Types
  <2> QED BY <1>1, <1>4, <2>1 DEF FilesOK, OwnPending, Moved
<1>6. lock' \in {lock, Nothing, c} /\ (c \in stolen' <=> c \in stolen)
  BY HeartbeatSteals
<1>7. LockKept(c)'
  BY <1>1, <1>4, <1>6 DEF FilesOK, LockKept
<1>8. Forwarded(c)'
  BY <1>1, <1>4 DEF Forwarded
<1> QED BY <1>1, <1>3, <1>5, <1>7, <1>8 DEF FilesOK

\* How a step of a thread touches the host, the files and the lock.
LEMMA ThreadFiles ==
  ASSUME NEW w \in Workers, ThreadStep(w) \/ Throw(w)
  PROVE  /\ running' = running /\ Noted
         /\ pending' = pending \/ PendingCleared(w) \/ Record(w)
         /\ \/ commands' = commands
            \/ Read(w)
            \/ MaySend(w) /\ Sent(w) /\ pending' = pending
         /\ \/ Heartbeat(w) \/ UNCHANGED <<lock, stolen>>
            \/ Acquire(w)
            \/ lock' \in {lock, Released(w)} /\ stolen' \in {stolen, stolen \ {on[w]}}
            \/ lock' = Nothing /\ stolen' = stolen \cup TakesFrom(w)
<1> DEFINE F == running' = running /\ Noted
           P == pending' = pending \/ PendingCleared(w) \/ Record(w)
           C == commands' = commands \/ Read(w) \/ (MaySend(w) /\ Sent(w) /\ pending' = pending)
           L == \/ Heartbeat(w) \/ UNCHANGED <<lock, stolen>>
                \/ Acquire(w)
                \/ lock' \in {lock, Released(w)} /\ stolen' \in {stolen, stolen \ {on[w]}}
                \/ lock' = Nothing /\ stolen' = stolen \cup TakesFrom(w)
<1>1. CASE MaybeCancel(w) \/ LockEnv(w) \/ DiscoverHost(w) \/ Pull(w) \/ Pulled(w) \/ NotReady(w)
  <2>1. F /\ P /\ C
    BY <1>1 DEF MaybeCancel, LockEnv, DiscoverHost, Pull, Pulled, NotReady, host
  <2>2. L
    BY <1>1 DEF MaybeCancel, LockEnv, DiscoverHost, Pull, Pulled, NotReady, history
  <2> QED BY <2>1, <2>2
<1>2. CASE RunOp(w) \/ Reconcile(w) \/ Send(w) \/ Record(w)
  <2>1. F /\ P /\ C
    BY <1>2 DEF RunOp, Reconcile, Send, Record, host, files
  <2>2. L
    BY <1>2 DEF RunOp, Reconcile, Send, Record, files, history
  <2> QED BY <2>1, <2>2
<1>3. CASE OpFails(w) /\ (EnvironmentLocked(w) \/ SendFails(w) \/ CommandFailed(w) \/ TimeOut(w) \/ RollbackFails(w))
  <2>1. F /\ P /\ C
    BY <1>3 DEF EnvironmentLocked, SendFails, CommandFailed, TimeOut, RollbackFails, host, Unrecorded
  <2>2. lock' \in {lock, Released(w)}
    BY <1>3 DEF OpFails
  <2>3. stolen' = stolen
    BY <1>3 DEF EnvironmentLocked, SendFails, CommandFailed, TimeOut, RollbackFails, history
  <2> QED BY <2>1, <2>2, <2>3
<1>4. CASE EnvironmentLocked(w) /\ lock' = lock
  BY <1>4 DEF EnvironmentLocked, host, history
<1>5. CASE Succeeded(w) \/ OpDone(w) \/ Verify(w) \/ VerifyFails(w) \/ Complete(w)
  <2>1. F /\ P /\ C
    BY <1>5 DEF Succeeded, OpDone, Verify, VerifyFails, Complete, host
  <2>2. L
    BY <1>5 DEF Succeeded, OpDone, Verify, VerifyFails, Complete, history
  <2> QED BY <2>1, <2>2
<1>6. CASE Close(w) \/ Throw(w) \/ RollbackPull(w) \/ RollbackPulled(w) \/ RollbackHealth(w)
  <2>1. F /\ P /\ C
    BY <1>6 DEF Close, Throw, RollbackPull, RollbackPulled, RollbackHealth, host
  <2>2. L
    BY <1>6 DEF Close, Throw, RollbackPull, RollbackPulled, RollbackHealth, Forget
  <2> QED BY <2>1, <2>2
<1>7. EnvironmentLocked(w) => OpFails(w) \/ lock' = lock
  BY DEF EnvironmentLocked
<1>8. SendFails(w) \/ CommandFailed(w) \/ TimeOut(w) \/ RollbackFails(w) => OpFails(w)
  BY DEF SendFails, CommandFailed, TimeOut, RollbackFails
<1> QED BY <1>1, <1>2, <1>3, <1>4, <1>5, <1>6, <1>7, <1>8 DEF ThreadStep

LEMMA ThreadCommandsApart ==
  ASSUME ThreadInv, NEW w \in Workers, ThreadStep(w) \/ Throw(w)
  PROVE  CommandsApart(w) /\ (late' \/ ~Stray')
<1>1. Types /\ on[w] # Nothing /\ on[w] \in Deployments
  BY ThreadMoves DEF ThreadInv, Types
<1>2. running' = running /\ (late => late') /\ (late' \/ ~Stray')
  BY ThreadFiles, LateNoted
<1>3. \A d \in Deployments \ {on[w]} : pending'[d] = pending[d]
  BY <1>1, ThreadFiles DEF PendingCleared, Record, Types
<1>4. ASSUME NEW i \in Commands
      PROVE  \/ commands'[i] = commands[i]
             \/ (\A x \in Workers \ {w} : cmd[x] # i) /\ (\A d \in Deployments : pending'[d] # i)
  <2>1. CASE Read(w)
    BY <1>1, <2>1 DEF Read, Types
  <2>2. CASE MaySend(w) /\ Sent(w) /\ pending' = pending
    <3>1. FreeCommand \in Unused
      BY <2>2, FreeIsUnused DEF MaySend
    <3> QED BY <1>1, <2>2, <3>1 DEF Sent, Types, Unused, Known
  <2> QED BY <2>1, <2>2, ThreadFiles
<1>5. ASSUME NEW d \in Deployments \ {on[w]}
      PROVE  /\ d \in stolen => d \in stolen'
             /\ lock' \in {lock, Nothing} \/ (Live(d) /\ saved[d].locked => d \in stolen')
  <2>1. CASE Heartbeat(w) \/ UNCHANGED <<lock, stolen>>
    BY <2>1, HeartbeatSteals
  <2>2. CASE Acquire(w)
    BY <2>2 DEF Acquire, TakesFrom
  <2>3. CASE lock' \in {lock, Released(w)} /\ stolen' \in {stolen, stolen \ {on[w]}}
    BY <2>3 DEF Released
  <2>4. CASE lock' = Nothing /\ stolen' = stolen \cup TakesFrom(w)
    BY <2>4
  <2> QED BY <2>1, <2>2, <2>3, <2>4, ThreadFiles
<1> QED BY <1>2, <1>3, <1>4, <1>5 DEF CommandsApart

LEMMA UntakenBefore ==
  ASSUME NEW w \in Workers, NEW c, doing[w] # "closing", on' = on,
         \A x \in Workers \ {w} : doing'[x] = doing[x], resumed' = resumed,
         c \in stolen' <=> c \in stolen, Untaken(c)', on[w] = c
  PROVE  Untaken(c)
BY DEF Untaken

\* A finished stage leaves no command behind, and the container as it was.
LEMMA StageCommands ==
  ASSUME ThreadInv, CommandInv, NEW w \in Workers, NEW c \in Deployments, on[w] = c,
         doing[w] # "closing", Moved(w), CommandsApart(w), doubled' = doubled, resumed' = resumed,
         NEW m \in Checkpoints, m.status = "RUNNING", m.done <= 5, m.done = mem[w].done, m.locked,
         mem[w].status = "RUNNING", StageDone(w, m),
         m.done = 4 => doing[w] = "answered",
         c \notin doubled => lock' = c /\ pending'[c] = Nothing,
         pending'[c] \in {pending[c], Nothing},
         c \in stolen' <=> c \in stolen
  PROVE  CommandsOK(w)' /\ FilesOK(c)'
<1>1. Types /\ Kept(w) /\ FilesOK(c) /\ Single'
  <2>1. Single'
    <3>1. on' = on
      BY StageDoneMem DEF ThreadInv
    <3> QED BY <3>1 DEF ThreadInv, Single
  <2> QED BY <2>1 DEF ThreadInv, Types, CommandInv, FilesOK
<1>2. /\ mem'[w].status = "RUNNING" /\ mem'[w].done = m.done + 1 /\ doing'[w] = "enter"
      /\ cmd'[w] = Nothing /\ on' = on /\ at'[w] = Stages[m.done + 2]
  BY <1>1, StageDoneMem
<1>3. m.done \in 0 .. 5 /\ at'[w] \notin RollbackStages
  <2>1. m.done \in 0 .. 5
    BY StageNames DEF Checkpoints
  <2>2. m.done + 1 \in 0 .. 6 /\ m.done + 2 = (m.done + 1) + 1
    BY <2>1
  <2>3. at'[w] \in Forwards
    BY <1>2, <2>2, StageNames
  <2> QED BY <2>1, <2>3 DEF Forwards, RollbackStages
<1>4. CommandsOK(w)'
  BY <1>2, <1>3 DEF CommandsOK, OwnCommand, OnePending, Restored, RollbackStages
<1>5. LockKept(c)'
  BY DEF LockKept
<1>6. OwnPending(c)'
  <2>1. pending'[c] # Nothing => commands'[pending'[c]] = commands[pending[c]]
    BY <1>1 DEF CommandsApart, Types
  <2> QED BY <1>1, <2>1 DEF FilesOK, OwnPending, Moved
<1>7. Forwarded(c)'
  <2> SUFFICES ASSUME ~late', c \notin doubled, saved'[c].status = "RUNNING", Untaken(c)'
               PROVE  \/ running' = c
                      \/ saved'[c].done < 4
                      \/ /\ saved'[c].done = 4
                         /\ pending'[c] = Nothing
                         /\ \A x \in Workers : on'[x] = c => ~Done(x)'
    BY DEF Forwarded
  <2>1. Untaken(c)
    BY <1>2, UntakenBefore DEF Moved
  <2>2. saved'[c].done = m.done + 1 /\ saved[c].done = m.done /\ saved[c].status = "RUNNING"
    <3>1. saved'[c] = mem'[w]
      BY <1>2 DEF Moved, ThreadOK, Kept
    <3>2. saved[c] = mem[w]
      BY <1>1 DEF Kept
    <3> QED BY <1>2, <3>1, <3>2
  <2>3. ~late /\ running' = running
    BY DEF CommandsApart
  <2>4. CASE m.done < 4
    <3>1. \A x \in Workers : on'[x] = c => ~Done(x)'
      BY <1>1, <1>2 DEF Single, Done
    <3> QED BY <1>3, <2>2, <2>4, <3>1
  <2>5. CASE m.done >= 4
    <3>1. \/ running = c
          \/ saved[c].done < 4
          \/ saved[c].done = 4 /\ \A x \in Workers : on[x] = c => ~Done(x)
      BY <1>1, <2>1, <2>2, <2>3 DEF FilesOK, Forwarded
    <3>2. m.done = 4 => Done(w)
      BY DEF Done
    <3> QED BY <1>3, <2>2, <2>3, <2>5, <3>1, <3>2
  <2> QED BY <1>3, <2>4, <2>5
<1> QED BY <1>4, <1>5, <1>6, <1>7 DEF FilesOK

\* A thread that goes on in its stage, or ends after the last one.
LEMMA GoCommands ==
  ASSUME ThreadInv, CommandInv, NEW w \in Workers, NEW c \in Deployments, on[w] = c,
         doing[w] # "closing", CommandsApart(w), doubled' = doubled, resumed' = resumed,
         NEW s, NEW k \in {"enter", "pulling", "ready", "closing"}, NEW m, Go(w, s, k, m),
         saved' = saved, commands' = commands,
         pending'[c] \in {pending[c], Nothing},
         lock' \in {lock, Nothing, c}, c \in stolen' <=> c \in stolen,
         s \in {"rb_stop", "rb_start", "rb_health"} /\ c \notin doubled /\ k \in {"enter", "ready"} =>
           pending'[c] = Nothing,
         s = "rb_health" /\ c \notin doubled /\ ~late /\ m.status = "ROLLING_BACK" =>
           running = m.previous
  PROVE  CommandsOK(w)' /\ FilesOK(c)'
<1>1. Types /\ FilesOK(c)
  BY DEF ThreadInv, CommandInv, FilesOK
<1>2. /\ mem'[w] = m /\ doing'[w] = k /\ at'[w] = s /\ cmd'[w] = Nothing /\ on' = on
      /\ \A x \in Workers \ {w} : doing'[x] = doing[x] /\ cmd'[x] = cmd[x]
  BY <1>1, GoMem
<1>3. running' = running /\ (late => late')
  BY DEF CommandsApart
<1>4. CommandsOK(w)'
  BY <1>2, <1>3 DEF CommandsOK, OwnCommand, OnePending, Restored, Done
<1>5. LockKept(c)'
  BY <1>1 DEF FilesOK, LockKept, Live
<1>6. OwnPending(c)'
  BY <1>1 DEF FilesOK, OwnPending
<1>7. Forwarded(c)'
  <2>1. Untaken(c)' => Untaken(c)
    BY <1>2, UntakenBefore
  <2>2. \A x \in Workers : on'[x] = c /\ Done(x)' => on[x] = c /\ Done(x)
    BY <1>2 DEF Done
  <2> QED BY <1>1, <1>3, <2>1, <2>2 DEF FilesOK, Forwarded
<1> QED BY <1>4, <1>5, <1>6, <1>7 DEF FilesOK

\* Once a command succeeded, the container is what it made of it.
LEMMA SucceededCommands ==
  ASSUME ThreadInv, CommandInv, NEW w \in Workers, NEW c \in Deployments, on[w] = c,
         CommandsApart(w), Succeeded(w)
  PROVE  CommandsOK(w)' /\ FilesOK(c)'
<1>1. Types /\ FilesOK(c) /\ CommandsOK(w) /\ Shape(w)
  BY DEF ThreadInv, CommandInv, FilesOK, CommandsOK
<1>2. /\ doing[w] \in {"waiting", "asking"} /\ commands[cmd[w]].status = "ok"
      /\ saved' = saved /\ lock' = lock /\ Go(w, at[w], "answered", mem[w])
      /\ stolen' = stolen /\ doubled' = doubled /\ resumed' = resumed
      /\ pending'[c] = Nothing
  BY <1>1 DEF Succeeded, Waits, history, PendingCleared, Types
<1>3. /\ mem'[w] = mem[w] /\ doing'[w] = "answered" /\ at'[w] = at[w] /\ cmd'[w] = Nothing
      /\ on' = on
      /\ \A x \in Workers \ {w} : doing'[x] = doing[x] /\ cmd'[x] = cmd[x]
  BY <1>1, <1>2, GoMem
<1>4. cmd[w] # Nothing /\ Done(w) /\ running' = running /\ (late => late')
  BY <1>1, <1>2 DEF Shape, Asked, Done, CommandsApart
<1>5. CommandsOK(w)'
  BY <1>1, <1>2, <1>3, <1>4 DEF CommandsOK, OwnCommand, OnePending, Restored
<1>6. LockKept(c)'
  BY <1>1, <1>2 DEF FilesOK, LockKept, Live
<1>7. OwnPending(c)'
  BY <1>2 DEF OwnPending
<1>8. Forwarded(c)'
  <2>1. Untaken(c)' => Untaken(c)
    BY <1>2, <1>3, UntakenBefore
  <2> QED BY <1>1, <1>2, <1>4, <2>1 DEF FilesOK, Forwarded
<1> QED BY <1>5, <1>6, <1>7, <1>8 DEF FilesOK

\* The command of an earlier thread is of the stage this one has come to.
LEMMA ReconcileCommands ==
  ASSUME ThreadInv, CommandInv, NEW w \in Workers, NEW c \in Deployments, on[w] = c,
         CommandsApart(w), Reconcile(w)
  PROVE  CommandsOK(w)' /\ FilesOK(c)'
<1>1. Types /\ FilesOK(c) /\ CommandsOK(w) /\ Shape(w) /\ Kept(w)
  BY DEF ThreadInv, CommandInv, FilesOK, CommandsOK
<1>2. /\ doing[w] = "ready" /\ HasPending(w) /\ pending[c] # Nothing
      /\ cmd'[w] = pending[c] /\ doing'[w] = "asking"
      /\ \A x \in Workers \ {w} : doing'[x] = doing[x] /\ cmd'[x] = cmd[x]
      /\ commands' = commands /\ running' = running /\ saved' = saved /\ lock' = lock
      /\ pending' = pending /\ on' = on /\ mem' = mem /\ at' = at
      /\ stolen' = stolen /\ doubled' = doubled /\ resumed' = resumed
  BY <1>1 DEF Reconcile, HasPending, files, host, history, Types
<1>3. commands[pending[c]].of = c /\ commands[pending[c]].op = Operation(at[w])
  BY <1>1, <1>2 DEF FilesOK, OwnPending, HasPending
<1>4. Operation(at[w]) # "read"
  BY <1>1, <1>2 DEF Shape, Working
<1>5. c \notin doubled => mem[w].status = "RUNNING" /\ saved[c] = mem[w] /\ Forward(w)
  <2>1. mem[w].status \in {"RUNNING", "ROLLING_BACK"} /\ (mem[w].status = "RUNNING" <=> Forward(w))
    BY <1>2, OperationStage
  <2>2. mem[w].status = "ROLLING_BACK" => at[w] \in {"rb_stop", "rb_start"}
    BY <1>1, <1>4, <2>1 DEF Shape, Operation, RollbackStages
  <2>3. c \notin doubled => mem[w].status # "ROLLING_BACK"
    BY <1>1, <1>2, <2>2 DEF CommandsOK, OnePending
  <2> QED BY <1>1, <1>2, <2>1, <2>3 DEF Kept
<1>6. c \notin doubled /\ Operation(at[w]) = "start" => commands[pending[c]].artifact = c
  BY <1>1, <1>2, <1>3, <1>5 DEF FilesOK, OwnPending
<1>7. CommandsOK(w)'
  <2>1. OwnCommand(w)'
    BY <1>2, <1>3, <1>5, <1>6 DEF OwnCommand, Target, Forward
  <2>2. OnePending(w)'
    BY <1>2 DEF OnePending
  <2>3. Restored(w)'
    BY <1>2, <1>5 DEF Restored
  <2> QED BY <2>1, <2>2, <2>3 DEF CommandsOK
<1>8. LockKept(c)'
  BY <1>1, <1>2 DEF FilesOK, LockKept, Live
<1>9. OwnPending(c)'
  BY <1>1, <1>2 DEF FilesOK, OwnPending
<1>10. Forwarded(c)'
  <2>1. Untaken(c)' => Untaken(c)
    BY <1>2, UntakenBefore
  <2>2. late => late'
    BY DEF CommandsApart
  <2>3. pending[c] # Nothing /\ commands[pending[c]].status # "ok" => ~Done(w)'
    BY <1>2 DEF Done
  <2>4. \A x \in Workers \ {w} : Done(x)' <=> Done(x)
    BY <1>2 DEF Done
  <2> QED BY <1>1, <1>2, <2>1, <2>2, <2>3, <2>4 DEF FilesOK, Forwarded
<1> QED BY <1>7, <1>8, <1>9, <1>10 DEF FilesOK

LEMMA SendCommands ==
  ASSUME ThreadInv, CommandInv, NEW w \in Workers, NEW c \in Deployments, on[w] = c,
         CommandsApart(w), Send(w)
  PROVE  CommandsOK(w)' /\ FilesOK(c)'
<1>1. Types /\ FilesOK(c) /\ CommandsOK(w) /\ Shape(w) /\ Kept(w)
  BY DEF ThreadInv, CommandInv, FilesOK, CommandsOK
<1>2. /\ doing[w] = "ready" /\ MaySend(w) /\ Sent(w) /\ ~HasPending(w)
      /\ cmd'[w] = FreeCommand /\ doing'[w] = "sent"
      /\ \A x \in Workers \ {w} : doing'[x] = doing[x] /\ cmd'[x] = cmd[x]
      /\ running' = running /\ saved' = saved /\ lock' = lock
      /\ pending' = pending /\ on' = on /\ mem' = mem /\ at' = at
      /\ stolen' = stolen /\ doubled' = doubled /\ resumed' = resumed
  BY <1>1 DEF Send, MaySend, files, Types
<1>3. Operation(at[w]) # "read"
  BY <1>1, <1>2 DEF Shape, Working
<1> DEFINE r == [of |-> c, op |-> Operation(at[w]), artifact |-> Target(w), status |-> "running"]
<1>4. /\ FreeCommand \in Unused /\ FreeCommand \in Commands
      /\ commands'[FreeCommand] = r
      /\ \A i \in Commands \ {FreeCommand} : commands'[i] = commands[i]
  BY <1>1, <1>2, <1>3, SentType
<1>5. r.of = c /\ r.op = Operation(at[w]) /\ r.artifact = Target(w) /\ r.status = "running"
  OBVIOUS
<1> HIDE DEF r
<1>6. c \notin doubled => pending[c] = Nothing
  <2>1. /\ mem[w].status \in {"RUNNING", "ROLLING_BACK"} /\ (mem[w].status = "RUNNING" <=> Forward(w))
        /\ Forward(w) => mem[w].done \in {3, 4} /\ (mem[w].done = 3 <=> at[w] = "stop_previous")
        /\ mem[w].status = "RUNNING" => at[w] = Stages[mem[w].done + 1]
    BY <1>2, <1>3, OperationStage DEF MaySend
  <2>2. CASE mem[w].status = "ROLLING_BACK"
    <3>1. at[w] \in {"rb_stop", "rb_start"}
      BY <1>1, <1>2, <1>3, <2>2 DEF Shape, Operation, RollbackStages, MaySend
    <3> QED BY <1>1, <1>2, <3>1 DEF CommandsOK, OnePending, MaySend
  <2>3. CASE mem[w].status = "RUNNING"
    <3>1. /\ mem[w].done = 3 => Operation(at[w]) = "stop"
          /\ mem[w].done = 4 => Operation(at[w]) = "start"
      <4>1. mem[w].done = 4 => at[w] = "start_application"
        BY <2>1, <2>3, StageNames
      <4> QED BY <2>1, <2>3, <4>1 DEF Operation
    <3>2. c \notin doubled => saved[c] = mem[w]
      BY <1>1, <1>2 DEF Kept
    <3> QED BY <1>1, <1>2, <2>1, <2>3, <3>1, <3>2 DEF FilesOK, OwnPending, HasPending
  <2> QED BY <2>1, <2>2, <2>3
<1>7. \A d \in Deployments : pending[d] # FreeCommand
  BY <1>4 DEF Unused, Known
<1>8. OwnCommand(w)'
  BY <1>2, <1>4, <1>5 DEF OwnCommand, Target, Forward
<1>9. OnePending(w)'
  BY <1>2, <1>6 DEF OnePending
<1>10. ~Done(w)'
  BY <1>2, <1>4, <1>5 DEF Done
<1>11. Restored(w)'
  BY <1>2, <1>3, <1>10 DEF Restored, Operation
<1>12. LockKept(c)'
  BY <1>1, <1>2 DEF FilesOK, LockKept, Live
<1>13. pending[c] # Nothing => commands'[pending[c]] = commands[pending[c]]
  BY <1>1, <1>4, <1>7 DEF Types
<1>14. OwnPending(c)'
  BY <1>1, <1>2, <1>13 DEF FilesOK, OwnPending
<1>15. Forwarded(c)'
  <2>1. Untaken(c)' => Untaken(c)
    BY <1>2, UntakenBefore
  <2>2. late => late'
    BY DEF CommandsApart
  <2>3. ASSUME NEW x \in Workers \ {w} PROVE Done(x)' <=> Done(x)
    <3>1. cmd[x] # Nothing => commands'[cmd[x]] = commands[cmd[x]]
      BY <1>1, <1>4 DEF Types, Unused, Known
    <3> QED BY <1>2, <3>1 DEF Done
  <2> QED BY <1>1, <1>2, <1>10, <1>13, <2>1, <2>2, <2>3 DEF FilesOK, Forwarded
<1> QED BY <1>8, <1>9, <1>11, <1>12, <1>14, <1>15 DEF FilesOK, CommandsOK

LEMMA RecordCommands ==
  ASSUME ThreadInv, CommandInv, NEW w \in Workers, NEW c \in Deployments, on[w] = c,
         CommandsApart(w), Record(w)
  PROVE  CommandsOK(w)' /\ FilesOK(c)'
<1>1. Types /\ FilesOK(c) /\ CommandsOK(w) /\ Shape(w) /\ Kept(w)
  BY DEF ThreadInv, CommandInv, FilesOK, CommandsOK
<1>2. /\ doing[w] = "sent" /\ doing'[w] = "waiting" /\ pending'[c] = cmd[w]
      /\ \A x \in Workers \ {w} : doing'[x] = doing[x]
      /\ commands' = commands /\ running' = running /\ saved' = saved /\ lock' = lock
      /\ on' = on /\ mem' = mem /\ at' = at /\ cmd' = cmd
      /\ stolen' = stolen /\ doubled' = doubled /\ resumed' = resumed
  BY <1>1 DEF Record, host, history, Types
<1>3. cmd[w] # Nothing /\ Operation(at[w]) # "read"
  BY <1>1, <1>2 DEF Shape, Working, Asked
<1>4. OwnCommand(w)'
  BY <1>1, <1>2 DEF CommandsOK, OwnCommand, Target, Forward
<1>5. OnePending(w)'
  BY <1>2 DEF OnePending
<1>6. \A x \in Workers : Done(x)' <=> Done(x)
  BY <1>2 DEF Done
<1>7. late => late'
  BY DEF CommandsApart
<1>8. Restored(w)'
  BY <1>1, <1>2, <1>6, <1>7 DEF CommandsOK, Restored
<1>9. LockKept(c)'
  BY <1>1, <1>2 DEF FilesOK, LockKept, Live
<1>10. OwnPending(c)'
  <2>1. commands[cmd[w]].of = c /\ commands[cmd[w]].op = Operation(at[w])
    BY <1>1, <1>3 DEF CommandsOK, OwnCommand
  <2>2. saved[c].status # "NEW"
    BY <1>1 DEF Shape
  <2>3. ASSUME c \notin doubled, saved[c].status = "RUNNING"
        PROVE  \/ saved[c].done = 3 /\ Operation(at[w]) = "stop"
               \/ saved[c].done = 4 /\ Operation(at[w]) = "start" /\ commands[cmd[w]].artifact = c
    <3>1. saved[c] = mem[w] /\ mem[w].status = "RUNNING"
      BY <1>1, <1>2, <2>3 DEF Kept
    <3>2. Forward(w) /\ mem[w].done \in {3, 4} /\ at[w] = Stages[mem[w].done + 1]
      BY <1>2, <1>3, <3>1, OperationStage
    <3>3. /\ mem[w].done = 3 => at[w] = "stop_previous"
          /\ mem[w].done = 4 => at[w] = "start_application"
      BY <3>2, StageNames
    <3> QED BY <1>1, <1>3, <2>3, <3>1, <3>2, <3>3 DEF CommandsOK, OwnCommand, Operation, Target
  <2> QED BY <1>2, <2>1, <2>2, <2>3 DEF OwnPending
<1>11. Forwarded(c)'
  <2>1. Untaken(c)' => Untaken(c)
    BY <1>2, UntakenBefore
  <2>2. (\A x \in Workers : on[x] = c => ~Done(x)) => commands[cmd[w]].status # "ok"
    BY <1>3 DEF Done
  <2> QED BY <1>1, <1>2, <1>6, <1>7, <2>1, <2>2 DEF FilesOK, Forwarded
<1> QED BY <1>4, <1>5, <1>8, <1>9, <1>10, <1>11 DEF FilesOK, CommandsOK

\* What a deployment that ended leaves behind.
LEMMA EndCommands ==
  ASSUME ThreadInv, CommandInv, NEW w \in Workers, NEW c \in Deployments, on[w] = c,
         CommandsApart(w), Moved(w), Close(w) \/ Throw(w)
  PROVE  CommandsOK(w)' /\ FilesOK(c)'
<1>1. Types /\ FilesOK(c) /\ Shape(w) /\ mem[w] \in Checkpoints
  BY DEF ThreadInv, CommandInv, FilesOK, Types
<1>2. /\ End(w) /\ pending' = pending /\ commands' = commands
      /\ \E m : m.status \in TERMINAL /\ Save(w, m)
  <2>1. CASE Close(w)
    <3>1. [mem[w] EXCEPT !.locked = FALSE].status \in TERMINAL
      BY <1>1, <2>1 DEF Close, Shape, Checkpoints
    <3> QED BY <2>1, <3>1 DEF Close, host
  <2>2. CASE Throw(w)
    <3>1. [mem[w] EXCEPT !.status = "FAILED"].status \in TERMINAL
      BY <1>1 DEF TERMINAL, Checkpoints
    <3> QED BY <2>2, <3>1 DEF Throw, host
  <2> QED BY <2>1, <2>2
<1>3. saved'[c].status \in TERMINAL
  <2>1. PICK m : m.status \in TERMINAL /\ Save(w, m)
    BY <1>2
  <2>2. saved' = [saved EXCEPT ![c] = Fresh(m.status)]
    BY <2>1 DEF Save
  <2> QED BY <1>1, <2>1, <2>2 DEF Types, Fresh
<1>4. on'[w] = Nothing /\ cmd'[w] = Nothing
  BY <1>1, <1>2 DEF End, Types
<1>5. CommandsOK(w)'
  BY <1>4 DEF CommandsOK, OwnCommand, OnePending, Restored
<1> QED BY <1>1, <1>2, <1>3, <1>5 DEF FilesOK, LockKept, Live, OwnPending, Forwarded, TERMINAL

\* Every step of a thread keeps its command and its file as they should be.
LEMMA ThreadCommands ==
  ASSUME ThreadInv, CommandInv, NEW w \in Workers, NEW c \in Deployments, on[w] = c,
         ThreadStep(w) \/ Throw(w)
  PROVE  CommandsOK(w)' /\ FilesOK(c)'
<1>1. /\ Types /\ Moved(w) /\ CommandsApart(w) /\ on[w] # Nothing /\ mem[w] \in Checkpoints
      /\ FilesOK(c) /\ CommandsOK(w) /\ Shape(w) /\ Kept(w) /\ LockHeld(w) /\ Sound(mem[w])
  BY ThreadMoves, ThreadCommandsApart DEF ThreadInv, Types, CommandInv, FilesOK, CommandsOK
<1>2. PendingCleared(w) => pending'[c] = Nothing
  BY <1>1 DEF PendingCleared, Types
<1>3. CASE \/ MaybeCancel(w) \/ NotReady(w) \/ EnvironmentLocked(w) \/ SendFails(w) \/ CommandFailed(w)
           \/ TimeOut(w) \/ VerifyFails(w) \/ RollbackFails(w) \/ (LockEnv(w) /\ Fails(w, "FAILED"))
  <2>1. doing[w] # "closing" /\ doubled' = doubled /\ resumed' = resumed
    BY <1>3 DEF MaybeCancel, NotReady, EnvironmentLocked, SendFails, CommandFailed, TimeOut,
       VerifyFails, RollbackFails, LockEnv, Enters, At, Waits, history
  <2>2. pending'[c] \in {pending[c], Nothing}
    BY <1>2, <1>3 DEF MaybeCancel, NotReady, EnvironmentLocked, SendFails, CommandFailed, TimeOut,
       VerifyFails, RollbackFails, LockEnv, Unrecorded
  <2>3. \/ OpFails(w) /\ stolen' = stolen
        \/ \E s \in {"ROLLING_BACK", "FAILED", "CANCELLED"} :
             Fails(w, s) /\ (Heartbeat(w) \/ UNCHANGED <<lock, stolen>>)
    <3>1. CASE MaybeCancel(w)
      BY <3>1 DEF MaybeCancel, Cancel, history
    <3>2. CASE NotReady(w)
      BY <3>2 DEF NotReady
    <3>3. CASE EnvironmentLocked(w)
      BY <3>3 DEF EnvironmentLocked, history
    <3>4. CASE SendFails(w) \/ CommandFailed(w) \/ TimeOut(w) \/ RollbackFails(w)
      BY <3>4 DEF SendFails, CommandFailed, TimeOut, RollbackFails, history
    <3>5. CASE VerifyFails(w)
      BY <3>5 DEF VerifyFails, StartedFails
    <3>6. CASE LockEnv(w) /\ Fails(w, "FAILED")
      <4>1. CASE UNCHANGED <<lock, stolen>>
        BY <3>6, <4>1
      <4>2. CASE Acquire(w) /\ StageDone(w, [mem[w] EXCEPT !.locked = TRUE])
        <5> DEFINE m == [mem[w] EXCEPT !.locked = TRUE]
        <5>1. m \in Checkpoints /\ StageDone(w, m)
          BY <1>1, <4>2 DEF Checkpoints
        <5> HIDE DEF m
        <5>2. doing'[w] = "enter"
          BY <1>1, <5>1, StageDoneMem
        <5>3. doing'[w] = "closing"
          BY <1>1, <3>6, FailsMem
        <5> QED BY <5>2, <5>3
      <4> QED BY <3>6, <4>1, <4>2 DEF LockEnv
    <3> QED BY <1>3, <3>1, <3>2, <3>3, <3>4, <3>5, <3>6
  <2>4. OpFails(w) => lock' \in {lock, Nothing}
    BY DEF OpFails, Released
  <2>5. on' = on
    BY <1>1, <2>3, FailsMem, OpFailsMem
  <2> QED BY <1>1, <2>1, <2>2, <2>3, <2>4, <2>5, FailedCommands
<1>4. CASE LockEnv(w) /\ ~Fails(w, "FAILED")
  <2> DEFINE m == [mem[w] EXCEPT !.locked = TRUE]
  <2>1. /\ doing[w] = "enter" /\ at[w] = "lock_env" /\ doubled' = doubled /\ resumed' = resumed
        /\ pending' = pending /\ lock' = c /\ StageDone(w, m) /\ Acquire(w)
    BY <1>4 DEF LockEnv, Enters, At, Acquire
  <2>2. mem[w].status = "RUNNING" /\ mem[w].done = 0
    BY <1>1, <2>1, OperationStage, StageNames DEF Forward, RollbackStages
  <2>3. m \in Checkpoints /\ m.status = "RUNNING" /\ m.done = 0 /\ m.locked
    BY <1>1, <2>2 DEF Checkpoints
  <2> HIDE DEF m
  <2>4. c \notin doubled => pending'[c] = Nothing
    BY <1>1, <2>1, <2>2 DEF FilesOK, OwnPending, Kept
  <2>5. c \in stolen' <=> c \in stolen
    BY <2>1 DEF Acquire, TakesFrom
  <2>6. /\ m.done <= 5 /\ (m.done = 4 => doing[w] = "answered") /\ doing[w] # "closing"
    BY <2>1, <2>3
  <2> QED BY <1>1, <2>1, <2>2, <2>3, <2>4, <2>5, <2>6, StageCommands
<1>5. CASE DiscoverHost(w)
  <2> DEFINE m == [mem[w] EXCEPT !.previous = IF running = on[w] THEN Nothing ELSE running]
  <2>1. /\ doing[w] = "enter" /\ at[w] = "discover_host" /\ doubled' = doubled /\ resumed' = resumed
        /\ PendingCleared(w) /\ StageDone(w, m) /\ Heartbeat(w)
    BY <1>5 DEF DiscoverHost, Enters, At
  <2>2. mem[w].status = "RUNNING" /\ mem[w].done = 1
    BY <1>1, <2>1, OperationStage, StageNames DEF Forward, RollbackStages
  <2>3. m \in Checkpoints /\ m.status = "RUNNING" /\ m.done = 1 /\ m.locked = mem[w].locked
    BY <1>1, <2>2 DEF Checkpoints, Types
  <2> HIDE DEF m
  <2>4. mem[w].locked
    BY <1>1, <2>2 DEF Sound
  <2>5. lock' = c /\ (c \in stolen' <=> c \in stolen)
    BY <1>1, <2>1, <2>4, HeartbeatApart, HeartbeatSteals
  <2>6. /\ m.done <= 5 /\ (m.done = 4 => doing[w] = "answered") /\ doing[w] # "closing" /\ m.locked
    BY <2>1, <2>3, <2>4
  <2> QED BY <1>1, <1>2, <2>1, <2>2, <2>3, <2>5, <2>6, StageCommands
<1>6. CASE Pulled(w) \/ Verify(w)
  <2>1. /\ doing[w] \in {"pulling", "enter"} /\ at[w] \in {"pull_artifact", "verify"}
        /\ doubled' = doubled /\ resumed' = resumed
        /\ PendingCleared(w) /\ StageDone(w, mem[w]) /\ Heartbeat(w)
    BY <1>6 DEF Pulled, Verify, Enters, At
  <2>2. mem[w].status = "RUNNING" /\ mem[w].done \in {2, 5}
    BY <1>1, <2>1, OperationStage, StageNames DEF Forward, RollbackStages
  <2>3. mem[w].locked
    BY <1>1, <2>2 DEF Sound
  <2>4. lock' = c /\ (c \in stolen' <=> c \in stolen)
    BY <1>1, <2>1, <2>3, HeartbeatApart, HeartbeatSteals
  <2>5. /\ mem[w].done <= 5 /\ (mem[w].done = 4 => doing[w] = "answered") /\ doing[w] # "closing"
    BY <2>1, <2>2
  <2> QED BY <1>1, <1>2, <2>1, <2>2, <2>3, <2>4, <2>5, StageCommands
<1>7. CASE OpDone(w)
  <2>1. /\ doing[w] = "answered" /\ doubled' = doubled /\ resumed' = resumed /\ stolen' = stolen
        /\ lock' = lock /\ pending' = pending /\ commands' = commands
    BY <1>7 DEF OpDone, history, host
  <2>2. c \notin doubled => lock = c /\ pending[c] = Nothing
    BY <1>1, <2>1 DEF LockHeld, Holds, Working, CommandsOK, OnePending
  <2>3. CASE Forward(w)
    <3>1. StageDone(w, mem[w]) /\ Operation(at[w]) # "read"
      BY <1>1, <1>7, <2>1, <2>3 DEF OpDone, Shape, Working
    <3>2. mem[w].status = "RUNNING" /\ mem[w].done \in {3, 4} /\ mem[w].locked
      BY <2>1, <2>3, <3>1, <1>1, OperationStage
    <3>3. mem[w].done <= 5 /\ doing[w] # "closing"
      BY <2>1, <3>2
    <3> QED BY <1>1, <2>1, <2>2, <3>1, <3>2, <3>3, StageCommands
  <2>4. CASE ~Forward(w)
    <3>1. /\ saved' = saved
          /\ Go(w, IF at[w] = "rb_stop" THEN "rb_start" ELSE "rb_health", "enter", mem[w])
      BY <1>7, <2>4 DEF OpDone
    <3>2. PICK s \in {"rb_start", "rb_health"} :
            Go(w, s, "enter", mem[w]) /\ (s = "rb_health" <=> at[w] # "rb_stop")
      BY <3>1
    <3>3. at[w] \in {"rb_stop", "rb_start"} /\ mem[w].status = "ROLLING_BACK"
      BY <1>1, <2>1, <2>4, OperationStage DEF Shape, Working, Forward, Operation, RollbackStages
    <3>4. s = "rb_health" /\ c \notin doubled /\ ~late => running = mem[w].previous
      BY <1>1, <2>1, <3>2, <3>3 DEF CommandsOK, Restored, Done
    <3> QED BY <1>1, <2>1, <2>2, <3>1, <3>2, <3>4, GoCommands
  <2> QED BY <2>3, <2>4
<1>8. CASE Pull(w) \/ RunOp(w) \/ RollbackPull(w) \/ RollbackPulled(w)
  <2>1. /\ doing[w] \in {"enter", "pulling"} /\ doubled' = doubled /\ resumed' = resumed
        /\ saved' = saved /\ commands' = commands
        /\ pending' = pending \/ PendingCleared(w)
        /\ Heartbeat(w)
    BY <1>8 DEF Pull, RunOp, RollbackPull, RollbackPulled, Enters, At, host
  <2> DEFINE G(s, k) ==
        /\ Go(w, s, k, mem[w]) /\ s # "rb_health"
        /\ \/ s \in {"pull_artifact", "rb_pull"}
           \/ s = at[w] /\ doing[w] = "enter" /\ pending' = pending
           \/ PendingCleared(w)
  <2>2. PICK s \in Places, k \in {"enter", "pulling", "ready"} : G(s, k)
    <3>1. Pull(w) \/ RollbackPull(w) => G(at[w], "pulling")
      BY DEF Pull, RollbackPull, Enters, At
    <3>2. RollbackPulled(w) => G("rb_stop", "enter")
      BY DEF RollbackPulled
    <3>3. RunOp(w) => G(at[w], "ready")
      BY DEF RunOp, Operation
    <3>4. at[w] \in Places /\ "rb_stop" \in Places
      BY <1>1 DEF Types, Places, RollbackStages
    <3> HIDE DEF G
    <3> QED BY <1>8, <3>1, <3>2, <3>3, <3>4
  <2>3. lock' \in {lock, c} /\ (c \in stolen' <=> c \in stolen)
    BY <2>1, HeartbeatSteals
  <2>4. pending'[c] \in {pending[c], Nothing}
    BY <1>2, <2>1
  <2>5. s \in {"rb_stop", "rb_start", "rb_health"} /\ c \notin doubled => pending'[c] = Nothing
    BY <1>1, <1>2, <2>2 DEF CommandsOK, OnePending
  <2> QED BY <1>1, <2>1, <2>2, <2>3, <2>4, <2>5, GoCommands
<1>9. CASE Complete(w) \/ RollbackHealth(w)
  <2>1. /\ doing[w] = "enter" /\ doubled' = doubled /\ resumed' = resumed
        /\ saved' = saved /\ commands' = commands
        /\ pending' = pending \/ PendingCleared(w)
        /\ lock' \in {lock, Nothing} /\ (c \in stolen' <=> c \in stolen)
    BY <1>9 DEF Complete, RollbackHealth, At, host, history, Released, TakesFrom
  <2>2. PICK t \in {"COMPLETED", "ROLLED_BACK"} :
          Go(w, at[w], "closing", [mem[w] EXCEPT !.status = t])
    BY <1>9 DEF Complete, RollbackHealth
  <2> DEFINE m == [mem[w] EXCEPT !.status = t]
  <2>3. m.status # "ROLLING_BACK" /\ Go(w, at[w], "closing", m)
    BY <1>1, <2>2 DEF Checkpoints
  <2> HIDE DEF m
  <2>4. pending'[c] \in {pending[c], Nothing}
    BY <1>2, <2>1
  <2> QED BY <1>1, <2>1, <2>3, <2>4, GoCommands
<1>10. CASE Succeeded(w) \/ Reconcile(w) \/ Send(w) \/ Record(w)
  BY <1>1, <1>10, SucceededCommands, ReconcileCommands, SendCommands, RecordCommands
<1>11. CASE Close(w) \/ Throw(w)
  BY <1>1, <1>11, EndCommands
<1> QED BY <1>3, <1>4, <1>5, <1>6, <1>7, <1>8, <1>9, <1>10, <1>11 DEF ThreadStep

LEMMA StartCommands ==
  ASSUME ThreadInv, CommandInv, NEW w \in Workers, NEW d \in Deployments, Create(w, d) \/ Resume(w, d)
  PROVE  CommandInv'
<1>1. /\ Types /\ on[w] = Nothing /\ Shape(w) /\ \A x \in Workers : CommandsOK(x) /\ Shape(x)
      /\ \A e \in Deployments : FilesOK(e) /\ saved[e] \in Checkpoints
  BY DEF ThreadInv, Types, CommandInv, CommandsOK, FilesOK, Create, Resume, Idle
<1>2. /\ running' = running /\ commands' = commands /\ lock' = lock /\ pending' = pending
      /\ cmd' = cmd /\ doing' = doing /\ stolen' = stolen
      /\ (late => late') /\ (late' \/ ~Stray')
      /\ doubled \subseteq doubled' /\ resumed \subseteq resumed'
  BY LateNoted DEF Create, Resume, host, files, history, Start
<1>3. PICK m \in Checkpoints :
        /\ Start(w, d, m) /\ m.status \in {"RUNNING", "ROLLING_BACK"}
        /\ \/ saved' = saved
           \/ /\ m = Fresh("RUNNING") /\ saved' = [saved EXCEPT ![d] = m] /\ saved[d].status = "NEW"
              /\ resumed' = resumed
  <2>1. Fresh("RUNNING") \in Checkpoints /\ Fresh("RUNNING").status = "RUNNING"
    BY StageNames DEF Fresh, Checkpoints
  <2>2. Create(w, d) => Start(w, d, Fresh("RUNNING")) /\ saved' = [saved EXCEPT ![d] = Fresh("RUNNING")]
                        /\ saved[d].status = "NEW" /\ resumed' = resumed
    BY DEF Create, history
  <2>3. Resume(w, d) => Start(w, d, saved[d]) /\ saved[d].status \in {"RUNNING", "ROLLING_BACK"}
                        /\ saved' = saved
    BY DEF Resume, Resumable, Live, files
  <2> QED BY <1>1, <2>1, <2>2, <2>3
<1>4. /\ on'[w] = d /\ mem'[w] = m /\ at'[w] = FirstStage(m) /\ cmd[w] = Nothing /\ doing[w] = "enter"
      /\ \A x \in Workers \ {w} : on'[x] = on[x] /\ mem'[x] = mem[x] /\ at'[x] = at[x]
  BY <1>1, <1>3 DEF Start, Types, Shape, Asked
<1>5. at'[w] \in Forwards \cup {"rb_pull"}
  <2>1. m.done \in 0 .. 6
    BY StageNames DEF Checkpoints
  <2> QED BY <1>4, <2>1, StageNames DEF FirstStage
<1>6. CommandsOK(w)'
  BY <1>2, <1>4, <1>5 DEF CommandsOK, OwnCommand, OnePending, Restored, Forwards
<1>7. ASSUME NEW x \in Workers \ {w} PROVE CommandsOK(x)'
  BY <1>1, <1>2, <1>4, <1>7 DEF CommandsOK, OwnCommand, OnePending, Restored, Done, Target, Forward
<1>8. \A x \in Workers : Done(x)' <=> Done(x)
  BY <1>2 DEF Done
<1>9. ~Done(w)
  BY <1>4 DEF Done
<1>10. ASSUME saved' = saved, NEW e \in Deployments PROVE FilesOK(e)'
  <2>1. LockKept(e)'
    BY <1>1, <1>2, <1>10 DEF FilesOK, LockKept, Live
  <2>2. OwnPending(e)'
    BY <1>1, <1>2, <1>10 DEF FilesOK, OwnPending
  <2>3. e # d => (Untaken(e)' => Untaken(e))
    BY <1>2, <1>4 DEF Untaken
  <2>4. CASE e # d \/ e \notin stolen
    <3>1. Untaken(e)' => Untaken(e)
      BY <2>3, <2>4 DEF Untaken
    <3> QED BY <1>1, <1>2, <1>4, <1>8, <1>9, <1>10, <2>1, <2>2, <3>1 DEF FilesOK, Forwarded
  <2>5. CASE e = d /\ e \in stolen
    <3>1. Resume(w, d)
      <4>1. CASE Create(w, d)
        <5>1. saved'[d] = Fresh("RUNNING") /\ saved[d].status = "NEW"
          BY <1>1, <4>1 DEF Create, Types
        <5> QED BY <1>10, <5>1 DEF Fresh
      <4> QED BY <4>1
    <3>2. d \in resumed'
      BY <3>1 DEF Resume
    <3> QED BY <1>2, <2>1, <2>2, <2>5, <3>2 DEF FilesOK, Forwarded, Untaken
  <2> QED BY <2>4, <2>5
<1>11. ASSUME m = Fresh("RUNNING"), saved' = [saved EXCEPT ![d] = m], saved[d].status = "NEW",
              resumed' = resumed, NEW e \in Deployments
       PROVE  FilesOK(e)'
  <2>1. CASE e # d
    <3>1. saved'[e] = saved[e]
      BY <1>1, <1>11, <2>1 DEF Types
    <3>2. Untaken(e)' => Untaken(e)
      BY <1>2, <1>4, <1>11, <2>1 DEF Untaken
    <3> QED BY <1>1, <1>2, <1>4, <1>8, <1>9, <2>1, <3>1, <3>2
            DEF FilesOK, Forwarded, LockKept, Live, OwnPending
  <2>2. CASE e = d
    <3>1. saved'[d] = m /\ m.status = "RUNNING" /\ m.done = 0 /\ ~m.locked
      BY <1>1, <1>11 DEF Types, Fresh
    <3>2. pending[d] = Nothing
      BY <1>1, <1>11 DEF FilesOK, OwnPending
    <3> QED BY <1>2, <2>2, <3>1, <3>2 DEF FilesOK, Forwarded, LockKept, OwnPending
  <2> QED BY <2>1, <2>2
<1>12. \A x \in Workers : CommandsOK(x)'
  BY <1>6, <1>7
<1>13. \A e \in Deployments : FilesOK(e)'
  BY <1>3, <1>10, <1>11
<1>14. (late \/ ~Stray)'
  BY <1>2
<1>15. \A x \in Workers : OwnCommand(x)' /\ OnePending(x)' /\ Restored(x)'
  BY <1>12 DEF CommandsOK
<1>16. \A e \in Deployments : LockKept(e)' /\ OwnPending(e)' /\ Forwarded(e)'
  BY <1>13 DEF FilesOK
<1> QED BY <1>14, <1>15, <1>16 DEF CommandInv

LEMMA CrashCommands == ASSUME ThreadInv, CommandInv, Crash PROVE CommandInv'
<1>1. /\ running' = running /\ commands' = commands /\ lock' = lock /\ pending' = pending
      /\ saved' = saved /\ stolen' = stolen /\ doubled' = doubled /\ resumed' = resumed
      /\ (late => late') /\ (late' \/ ~Stray')
      /\ \A w \in Workers : on'[w] = Nothing /\ cmd'[w] = Nothing
  BY LateNoted DEF Crash, host, files, history
<1>2. \A w \in Workers : OwnCommand(w)' /\ OnePending(w)' /\ Restored(w)'
  BY <1>1 DEF OwnCommand, OnePending, Restored
<1>3. ASSUME NEW d \in Deployments PROVE LockKept(d)' /\ OwnPending(d)' /\ Forwarded(d)'
  <2>1. LockKept(d) /\ OwnPending(d) /\ Forwarded(d)
    BY DEF CommandInv
  <2>2. Untaken(d)' => Untaken(d)
    BY <1>1 DEF Untaken
  <2>3. Forwarded(d)'
    BY <1>1, <2>1, <2>2 DEF Forwarded
  <2> QED BY <1>1, <2>1, <2>3 DEF LockKept, Live, OwnPending
<1>4. (late \/ ~Stray)'
  BY <1>1
<1> QED BY <1>2, <1>3, <1>4 DEF CommandInv

\* The steps that change neither threads nor commands.
LEMMA CommandsAlone ==
  ASSUME CommandInv, running' = running, commands' = commands, pending' = pending, saved' = saved,
         threads' = threads, stolen' = stolen, doubled' = doubled, resumed' = resumed,
         lock' \in {lock, Nothing}, late => late', late' \/ ~Stray'
  PROVE  CommandInv'
<1>1. on' = on /\ mem' = mem /\ at' = at /\ doing' = doing /\ cmd' = cmd
  BY DEF threads
<1>2. \A w \in Workers : OwnCommand(w)' /\ OnePending(w)' /\ Restored(w)'
  BY <1>1 DEF CommandInv, OwnCommand, OnePending, Restored, Done, Target, Forward
<1>3. \A d \in Deployments : LockKept(d)'
  BY DEF CommandInv, LockKept, Live
<1>4. \A d \in Deployments : OwnPending(d)' /\ Forwarded(d)'
  BY <1>1 DEF CommandInv, OwnPending, Forwarded, Untaken, Done
<1>5. (late \/ ~Stray)'
  OBVIOUS
<1> QED BY <1>2, <1>3, <1>4, <1>5 DEF CommandInv

\* A command under way is the one its deployment waits for, at the stage its thread or its
\* file is in.
LEMMA UnderWay ==
  ASSUME ThreadInv, CommandInv, NEW i \in Commands, commands[i].status = "running", ~late
  PROVE  /\ Known(i) /\ lock = commands[i].of /\ lock \in Deployments
         /\ \A w \in Workers : cmd[w] = i => on[w] = lock
         /\ \A d \in Deployments : pending[d] = i => d = lock
<1>1. Known(i) /\ lock = commands[i].of
  BY DEF CommandInv, Stray
<1>2. ASSUME NEW w \in Workers, cmd[w] = i PROVE on[w] = lock /\ on[w] \in Deployments
  <2>1. i # Nothing /\ Shape(w) /\ on[w] \in Deployments \cup {Nothing} /\ OwnCommand(w)
    BY DEF ThreadInv, Types, CommandInv
  <2>2. on[w] # Nothing
    BY <1>2, <2>1 DEF Shape, Asked
  <2> QED BY <1>1, <1>2, <2>1, <2>2 DEF OwnCommand
<1>3. ASSUME NEW d \in Deployments, pending[d] = i PROVE d = lock
  BY <1>1, <1>3 DEF CommandInv, OwnPending
<1> QED BY <1>1, <1>2, <1>3 DEF Known

\* What it starts is what the deployment, or its rollback, is about.
LEMMA UnderWayForward ==
  ASSUME ThreadInv, CommandInv, NEW i \in Commands, commands[i].status = "running", ~late,
         NEW d \in Deployments, d = lock, d \notin doubled, saved[d].status = "RUNNING"
  PROVE  \/ saved[d].done < 4
         \/ saved[d].done = 4 /\ commands[i].op = "start" /\ commands[i].artifact = d
<1>1. Known(i) /\ saved[d] \in Checkpoints /\ Types
  BY UnderWay DEF ThreadInv, Types
<1>2. ASSUME pending[d] = i
      PROVE  \/ saved[d].done < 4
             \/ saved[d].done = 4 /\ commands[i].op = "start" /\ commands[i].artifact = d
  BY <1>2 DEF CommandInv, OwnPending
<1>3. ASSUME NEW w \in Workers, cmd[w] = i
      PROVE  \/ saved[d].done < 4
             \/ saved[d].done = 4 /\ commands[i].op = "start" /\ commands[i].artifact = d
  <2>1. on[w] = d /\ on[w] # Nothing
    BY <1>3, UnderWay
  <2>2. doing[w] \in Asked /\ Shape(w) /\ Kept(w) /\ OwnCommand(w)
    BY <1>3 DEF ThreadInv, CommandInv, Shape
  <2>3. saved[d] = mem[w] /\ Operation(at[w]) # "read" /\ doing[w] # "closing"
    BY <2>1, <2>2 DEF Kept, Shape, Asked, Working
  <2>4. Forward(w) /\ mem[w].done \in {3, 4} /\ at[w] = Stages[mem[w].done + 1]
    BY <2>1, <2>3, OperationStage
  <2>5. mem[w].done = 4 => Operation(at[w]) = "start"
    BY <2>4, StageNames DEF Operation
  <2> QED BY <1>3, <2>1, <2>2, <2>3, <2>4, <2>5 DEF OwnCommand, Target
<1>4. \A e \in Deployments : pending[e] = i => e = d
  BY UnderWay
<1> QED BY <1>1, <1>2, <1>3, <1>4 DEF Known

LEMMA UnderWayBack ==
  ASSUME ThreadInv, CommandInv, NEW i \in Commands, commands[i].status = "running", ~late,
         NEW w \in Workers, on[w] # Nothing, on[w] = lock, on[w] \notin doubled,
         mem[w].status = "ROLLING_BACK", at[w] \in {"rb_start", "rb_health"}
  PROVE  /\ at[w] = "rb_start" /\ (cmd[w] = i \/ (doing[w] # "answered" /\ cmd[w] = Nothing))
         /\ cmd[w] = i => commands[i].op = "start" /\ commands[i].artifact = mem[w].previous
<1>1. Shape(w) /\ Kept(w) /\ OwnCommand(w) /\ OnePending(w) /\ doing[w] \in Steps /\ on[w] \in Deployments
  BY DEF ThreadInv, Types, CommandInv
<1>2. doing[w] \in {"enter"} \cup Working
  BY <1>1 DEF Shape, TERMINAL, Steps
<1>3. \A x \in Workers : cmd[x] = i => x = w
  BY <1>1, UnderWay DEF ThreadInv, Single
<1>4. cmd[w] = i \/ pending[on[w]] = i
  BY <1>1, <1>3, UnderWay DEF Known
<1>5. at[w] = "rb_health" => doing[w] = "enter" /\ cmd[w] = Nothing
  BY <1>1, <1>2 DEF Shape, Operation, Asked, Working
<1>6. at[w] = "rb_start"
  BY <1>1, <1>4, <1>5 DEF OnePending
<1>7. cmd[w] = i => commands[i].op = "start" /\ commands[i].artifact = mem[w].previous
  BY <1>1, <1>6 DEF OwnCommand, Operation, Target, Forward, RollbackStages
<1>8. cmd[w] = i \/ (doing[w] # "answered" /\ cmd[w] = Nothing)
  BY <1>1, <1>2, <1>4 DEF Shape, OnePending, Asked, Working
<1> QED BY <1>6, <1>7, <1>8

\* The host carries out a command of the deployment that has the environment, or "late" says
\* that it is another's.
LEMMA HostCommands == ASSUME ThreadInv, CommandInv, NEW i \in Commands, HostRuns(i) PROVE CommandInv'
<1>1. /\ Types /\ commands[i] \in Records /\ commands[i].status = "running"
      /\ lock' = lock /\ saved' = saved /\ pending' = pending /\ stolen' = stolen
      /\ doubled' = doubled /\ resumed' = resumed
      /\ on' = on /\ mem' = mem /\ at' = at /\ doing' = doing /\ cmd' = cmd
      /\ (late => late') /\ (late' \/ ~Stray')
  BY LateNoted DEF ThreadInv, Types, HostRuns, files, threads, history
<1>2. PICK t \in {"ok", "failed"} :
        /\ Settle(i, t)
        /\ t = "ok" /\ commands[i].op = "start" => running' = commands[i].artifact
        /\ t = "failed" /\ commands[i].op = "start" => running' = running \/ running # commands[i].artifact
  BY DEF HostRuns
<1>3. /\ \A j \in Commands \ {i} : commands'[j] = commands[j]
      /\ Known(i) => commands'[i].of = commands[i].of /\ commands'[i].op = commands[i].op
                     /\ commands'[i].artifact = commands[i].artifact /\ commands'[i].status = t
  BY <1>1, <1>2 DEF Settle, Types, Records
<1>4. \A j \in Commands : Known(j) => commands'[j].of = commands[j].of /\ commands'[j].op = commands[j].op
                                       /\ commands'[j].artifact = commands[j].artifact
  BY <1>3
<1>5. ASSUME NEW w \in Workers PROVE OwnCommand(w)' /\ OnePending(w)'
  <2>1. OwnCommand(w) /\ OnePending(w)
    BY DEF CommandInv
  <2>2. cmd[w] # Nothing => cmd[w] \in Commands /\ Known(cmd[w])
    BY <1>1 DEF Types, Known
  <2> QED BY <1>1, <1>4, <2>1, <2>2 DEF OwnCommand, OnePending, Target, Forward
<1>6. ASSUME NEW d \in Deployments PROVE LockKept(d)' /\ OwnPending(d)'
  <2>1. LockKept(d) /\ OwnPending(d)
    BY DEF CommandInv
  <2>2. pending[d] # Nothing => pending[d] \in Commands /\ Known(pending[d])
    BY <1>1 DEF Types, Known
  <2> QED BY <1>1, <1>4, <2>1, <2>2 DEF LockKept, Live, OwnPending
<1>7. ASSUME NEW d \in Deployments, ~late', d \notin doubled, saved[d].status = "RUNNING", Untaken(d)
      PROVE  \/ running' = d
             \/ saved[d].done < 4
             \/ /\ saved[d].done = 4
                /\ pending[d] # Nothing => commands'[pending[d]].status # "ok"
                /\ \A w \in Workers : on[w] = d => ~Done(w)'
  <2>1. ~late /\ Known(i) /\ lock = commands[i].of /\ lock \in Deployments
    BY <1>1, <1>7, UnderWay
  <2>2. Sound(saved[d]) /\ saved[d] \in Checkpoints /\ LockKept(d) /\ Forwarded(d)
    BY <1>1 DEF ThreadInv, CommandInv, Types
  <2>3. CASE lock # d
    <3>1. ASSUME saved[d].done >= 4 PROVE FALSE
      <4>1. Live(d) /\ saved[d].locked
        BY <1>7, <2>2, <3>1 DEF Live, Sound, Checkpoints
      <4>2. d \in stolen
        BY <1>7, <2>1, <2>2, <2>3, <4>1 DEF LockKept
      <4>3. PICK w \in Workers : on[w] = d /\ doing[w] # "closing" /\ d \notin resumed
        BY <1>7, <4>2 DEF Untaken
      <4>4. mem[w] = saved[d] /\ LockHeld(w)
        BY <1>7, <4>3 DEF ThreadInv, Kept
      <4> QED BY <1>7, <2>3, <3>1, <4>3, <4>4 DEF LockHeld, Holds
    <3> QED BY <2>2, <3>1, StageNames DEF Checkpoints
  <2>4. CASE lock = d
    <3>1. CASE saved[d].done < 4
      BY <3>1
    <3>2. CASE saved[d].done = 4 /\ commands[i].op = "start" /\ commands[i].artifact = d
      <4>1. CASE t = "ok"
        BY <1>2, <3>2, <4>1
      <4>2. CASE t = "failed"
        <5>1. CASE running' = d
          BY <5>1
        <5>2. CASE running # d
          <6>1. /\ pending[d] # Nothing => commands[pending[d]].status # "ok"
                /\ \A w \in Workers : on[w] = d => ~Done(w)
            BY <1>7, <2>1, <2>2, <3>2, <5>2 DEF Forwarded
          <6>2. pending[d] # Nothing => commands'[pending[d]].status # "ok"
            BY <1>1, <1>3, <2>1, <4>2, <6>1 DEF Types
          <6>3. \A w \in Workers : Done(w)' => Done(w)
            BY <1>1, <1>3, <2>1, <4>2 DEF Done, Types
          <6> QED BY <3>2, <6>1, <6>2, <6>3
        <5> QED BY <1>2, <3>2, <4>2, <5>1, <5>2
      <4> QED BY <4>1, <4>2
    <3> QED BY <1>1, <1>7, <2>1, <2>4, <3>1, <3>2, UnderWayForward
  <2> QED BY <2>3, <2>4
<1>8. \A d \in Deployments : Forwarded(d)'
  <2>1. \A d \in Deployments : Untaken(d)' => Untaken(d)
    BY <1>1 DEF Untaken
  <2> QED BY <1>1, <1>7, <2>1 DEF Forwarded
<1>9. ASSUME NEW w \in Workers, on[w] # Nothing, ~late', on[w] \notin doubled,
             mem[w].status = "ROLLING_BACK",
             at[w] = "rb_health" \/ (at[w] = "rb_start" /\ Done(w)')
      PROVE  running' = mem[w].previous
  <2>1. ~late /\ Known(i) /\ lock = commands[i].of
    BY <1>1, <1>9, UnderWay
  <2>2. on[w] = lock \/ (doing[w] = "closing")
    <3>1. LockHeld(w) /\ Shape(w) /\ doing[w] \in Steps
      BY <1>1 DEF ThreadInv, Types
    <3>2. at[w] = "rb_start" => Holds(w)
      BY DEF Holds
    <3> QED BY <1>9, <3>1, <3>2 DEF LockHeld, Holds
  <2>3. doing[w] # "closing"
    BY <1>9 DEF ThreadInv, Shape, TERMINAL
  <2>4. /\ at[w] = "rb_start" /\ (cmd[w] = i \/ (doing[w] # "answered" /\ cmd[w] = Nothing))
        /\ cmd[w] = i => commands[i].op = "start" /\ commands[i].artifact = mem[w].previous
    BY <1>1, <1>9, <2>1, <2>2, <2>3, UnderWayBack
  <2>5. cmd[w] = i /\ commands'[i].status = "ok"
    <3>1. Shape(w)
      BY DEF ThreadInv
    <3>2. Done(w)' /\ i # Nothing
      BY <1>9, <2>4
    <3>3. cmd[w] = i
      BY <1>1, <2>4, <3>2 DEF Done
    <3> QED BY <1>1, <3>1, <3>2, <3>3 DEF Done, Shape, Asked, Working
  <2> QED BY <1>2, <1>3, <2>1, <2>4, <2>5
<1>10. \A w \in Workers : Restored(w)'
  BY <1>1, <1>9 DEF Restored
<1>11. (late \/ ~Stray)'
  BY <1>1
<1> QED BY <1>5, <1>6, <1>8, <1>10, <1>11 DEF CommandInv

LEMMA CommandNext == ThreadInv /\ CommandInv /\ [Next]_vars => CommandInv'
<1> SUFFICES ASSUME ThreadInv, CommandInv, [Next]_vars PROVE CommandInv'
  OBVIOUS
<1>1. ASSUME NEW w \in Workers, ThreadStep(w) \/ Throw(w) PROVE CommandInv'
  <2>1. on[w] # Nothing /\ on[w] \in Deployments /\ Moved(w) /\ Apart(w)
    BY <1>1, ThreadMoves DEF ThreadInv, Types
  <2>2. PICK c \in Deployments : on[w] = c
    BY <2>1
  <2>3. CommandsApart(w) /\ (late' \/ ~Stray')
    BY <1>1, ThreadCommandsApart
  <2>4. CommandsOK(w)' /\ FilesOK(c)'
    BY <1>1, <2>2, ThreadCommands
  <2> QED BY <2>1, <2>2, <2>3, <2>4, CommandAdvance
<1>2. ASSUME NEW w \in Workers, NEW d \in Deployments, Create(w, d) \/ Resume(w, d) PROVE CommandInv'
  BY <1>2, StartCommands
<1>3. ASSUME NEW d \in Deployments, RequestCancel(d) PROVE CommandInv'
  BY <1>3, LateNoted, CommandsAlone DEF RequestCancel, host, history
<1>4. ASSUME NEW i \in Commands, HostRuns(i) PROVE CommandInv'
  BY <1>4, HostCommands
<1>5. CASE ExpireLease
  BY <1>5, LateNoted, CommandsAlone DEF ExpireLease, host, history
<1>6. CASE Crash
  BY <1>6, CrashCommands
<1>7. CASE UNCHANGED vars
  <2>1. Stray' <=> Stray
    BY <1>7 DEF Stray, Known, vars, host, files, threads
  <2>2. late \/ ~Stray
    BY DEF CommandInv
  <2> QED BY <1>7, <2>1, <2>2, CommandsAlone DEF vars, host, files, history
<1> QED BY <1>1, <1>2, <1>3, <1>4, <1>5, <1>6, <1>7 DEF Next

LEMMA CommandInit == Init => CommandInv
<1> SUFFICES ASSUME Init PROVE CommandInv
  OBVIOUS
<1>1. ~Stray
  BY DEF Init, Stray, NoCommand
<1>2. \A d \in Deployments : saved[d].status = "NEW"
  BY DEF Init, Fresh
<1> QED BY <1>1, <1>2 DEF Init, CommandInv, LockKept, Live, OwnPending, Forwarded, OwnCommand, OnePending,
        Restored

LEMMA HandsOver ==
  ASSUME ThreadInv, CommandInv, [Next]_vars, NEW w \in Workers, on[w] \notin doubled, ~late
  PROVE  /\ mem'[w].status = "COMPLETED" /\ mem[w].status # "COMPLETED" /\ on[w] \notin resumed \cap stolen
              => running = on[w]
         /\ mem'[w].status = "ROLLED_BACK" /\ mem[w].status # "ROLLED_BACK" => running = mem[w].previous
<1> DEFINE Ends == {"COMPLETED", "ROLLED_BACK"}
<1>1. Types /\ mem[w] \in Checkpoints
  BY DEF ThreadInv, Types
<1>2. mem'[w] = mem[w] \/ mem'[w].status \notin Ends \/ Complete(w) \/ RollbackHealth(w)
  <2>1. ASSUME NEW x \in Workers, ThreadStep(x) \/ Throw(x), x # w PROVE mem'[w] = mem[w]
    BY <2>1, ThreadMoves DEF Moved
  <2>2. ASSUME ThreadStep(w), ~Close(w), ~Complete(w), ~RollbackHealth(w)
        PROVE  mem'[w] = mem[w] \/ mem'[w].status \notin Ends
    <3>2. CASE \/ MaybeCancel(w) \/ NotReady(w) \/ EnvironmentLocked(w) \/ SendFails(w)
               \/ CommandFailed(w) \/ TimeOut(w) \/ VerifyFails(w) \/ RollbackFails(w)
               \/ (LockEnv(w) /\ Fails(w, "FAILED"))
      <4>1. (\E s \in {"ROLLING_BACK", "FAILED", "CANCELLED"} : Fails(w, s)) \/ OpFails(w)
        BY <3>2 DEF MaybeCancel, Cancel, NotReady, EnvironmentLocked, SendFails, CommandFailed, TimeOut,
           VerifyFails, StartedFails, RollbackFails
      <4> QED BY <1>1, <4>1, FailsMem, OpFailsMem
    <3>3. CASE LockEnv(w) /\ ~Fails(w, "FAILED")
      <4> DEFINE m == [mem[w] EXCEPT !.locked = TRUE]
      <4>1. m \in Checkpoints /\ m.status = mem[w].status /\ StageDone(w, m)
        BY <1>1, <3>3 DEF Checkpoints, LockEnv
      <4>2. mem[w].status = "RUNNING"
        BY <3>3, OperationStage DEF LockEnv, Enters, At, Forward, RollbackStages
      <4> HIDE DEF m
      <4> QED BY <1>1, <4>1, <4>2, StageDoneMem
    <3>4. CASE DiscoverHost(w)
      <4> DEFINE m == [mem[w] EXCEPT !.previous = IF running = on[w] THEN Nothing ELSE running]
      <4>1. m \in Checkpoints /\ m.status = mem[w].status /\ StageDone(w, m)
        BY <1>1, <3>4 DEF Checkpoints, DiscoverHost, Types
      <4>2. mem[w].status = "RUNNING"
        BY <3>4, OperationStage DEF DiscoverHost, Enters, At, Forward, RollbackStages
      <4> HIDE DEF m
      <4> QED BY <1>1, <4>1, <4>2, StageDoneMem
    <3>5. CASE Pulled(w) \/ Verify(w) \/ (OpDone(w) /\ Forward(w))
      <4>1. StageDone(w, mem[w])
        BY <3>5 DEF Pulled, Verify, OpDone
      <4>2. mem[w].status = "RUNNING"
        BY <3>5, OperationStage DEF Pulled, Verify, Enters, At, Forward, RollbackStages, OpDone
      <4> QED BY <1>1, <4>1, <4>2, StageDoneMem
    <3>6. CASE \/ Pull(w) \/ RunOp(w) \/ RollbackPull(w) \/ RollbackPulled(w) \/ Succeeded(w)
               \/ (OpDone(w) /\ ~Forward(w))
      <4>1. \E s, k : Go(w, s, k, mem[w])
        BY <3>6 DEF Pull, RunOp, RollbackPull, RollbackPulled, Succeeded, OpDone
      <4> QED BY <1>1, <4>1, GoMem
    <3>7. CASE Reconcile(w) \/ Send(w) \/ Record(w)
      BY <3>7 DEF Reconcile, Send, Record
    <3> QED BY <2>2, <3>2, <3>3, <3>4, <3>5, <3>6, <3>7 DEF ThreadStep
  <2>3. ASSUME Close(w) \/ Throw(w) PROVE mem'[w].status \notin Ends
    BY <1>1, <2>3 DEF Close, Throw, End, Types, Fresh
  <2>4. ASSUME NEW x \in Workers, NEW d \in Deployments, Create(x, d) \/ Resume(x, d)
        PROVE  mem'[w] = mem[w] \/ mem'[w].status \notin Ends
    <3>1. \E m : m.status \notin Ends /\ Start(x, d, m)
      BY <2>4 DEF Create, Resume, Resumable, Live, Fresh
    <3> QED BY <1>1, <3>1 DEF Start, Types
  <2>5. Crash => mem'[w].status \notin Ends
    BY DEF Crash, Fresh
  <2>6. UNCHANGED mem => mem'[w] = mem[w]
    OBVIOUS
  <2> QED BY <2>1, <2>2, <2>3, <2>4, <2>5, <2>6 DEF Next, RequestCancel, HostRuns, ExpireLease, vars, threads
<1>3. ASSUME Complete(w), on[w] \notin resumed \cap stolen PROVE running = on[w]
  <2>1. on[w] # Nothing /\ on[w] \in Deployments /\ at[w] = "complete" /\ doing[w] = "enter"
    BY <1>1, <1>3 DEF Complete, At, Types
  <2>2. mem[w].status = "RUNNING" /\ mem[w].done = 6
    BY <2>1, OperationStage, StageNames DEF Forward, RollbackStages
  <2>3. saved[on[w]] = mem[w] /\ Untaken(on[w]) /\ Forwarded(on[w])
    BY <1>3, <2>1 DEF ThreadInv, Kept, Untaken, CommandInv
  <2> QED BY <2>2, <2>3 DEF Forwarded
<1>4. ASSUME RollbackHealth(w) PROVE running = mem[w].previous
  <2>1. on[w] # Nothing /\ at[w] = "rb_health" /\ doing[w] = "enter"
    BY <1>4 DEF RollbackHealth, At
  <2>2. mem[w].status = "ROLLING_BACK"
    BY <2>1, OperationStage DEF Forward, RollbackStages
  <2> QED BY <2>1, <2>2 DEF CommandInv, Restored
<1>5. Complete(w) => mem'[w].status = "COMPLETED"
  <2>1. ASSUME Complete(w) PROVE mem'[w] = [mem[w] EXCEPT !.status = "COMPLETED"]
    BY <1>1, <2>1 DEF Complete, Go, Types
  <2> QED BY <1>1, <2>1 DEF Checkpoints
<1>6. RollbackHealth(w) => mem'[w].status = "ROLLED_BACK"
  <2>1. ASSUME RollbackHealth(w) PROVE mem'[w] = [mem[w] EXCEPT !.status = "ROLLED_BACK"]
    BY <1>1, <2>1 DEF RollbackHealth, Go, Types
  <2> QED BY <1>1, <2>1 DEF Checkpoints
<1> QED BY <1>2, <1>3, <1>4, <1>5, <1>6

\* An environment is handed over with the artifact its record names, however many threads,
\* crashes, expired leases and answers that come in another order there were before.
THEOREM HandsOverCorrectly == Spec => HandsOverWhatItSays
<1>1. Spec => []CommandInv
  BY ThreadsCorrect, CommandInit, CommandNext, PTL DEF Spec
<1>2. ThreadInv /\ CommandInv /\ [Next]_vars =>
        [\A w \in Workers :
           LET d == on[w]
               ends(s) == mem'[w].status = s /\ mem[w].status # s
           IN d \notin doubled /\ ~late =>
                /\ ends("COMPLETED") /\ d \notin resumed \cap stolen => running = d
                /\ ends("ROLLED_BACK") => running = mem[w].previous]_vars
  BY HandsOver
<1> QED BY <1>1, <1>2, ThreadsCorrect, PTL DEF Spec, HandsOverWhatItSays

-----------------------------------------------------------------------------
(* Types and bounds.                                                         *)

BoundInv == crashes \in 0 .. MaxMishaps /\ errors \in 0 .. MaxErrors /\ IsFiniteSet(doubled)

LEMMA BoundNext == BoundInv /\ [Next]_vars => BoundInv'
<1> SUFFICES ASSUME BoundInv, [Next]_vars PROVE BoundInv'
  OBVIOUS
<1>1. ASSUME NEW w \in Workers, NEW d \in Deployments, Create(w, d) \/ Resume(w, d) PROVE BoundInv'
  <2>1. crashes' = crashes /\ errors' = errors /\ doubled' \in {doubled, doubled \cup {d}}
    BY <1>1 DEF Create, Resume, history
  <2> QED BY <2>1, FS_AddElement DEF BoundInv
<1>2. ASSUME NEW w \in Workers, ThreadStep(w) PROVE BoundInv'
  <2>1. crashes' = crashes /\ errors' = errors /\ doubled' = doubled
    BY <1>2 DEF ThreadStep, MaybeCancel, LockEnv, DiscoverHost, Pull, Pulled, NotReady, RunOp, Reconcile,
       Send, Record, EnvironmentLocked, SendFails, Succeeded, CommandFailed, TimeOut, OpDone, Verify,
       VerifyFails, Complete, Close, Forget, RollbackPull, RollbackPulled, RollbackHealth, RollbackFails,
       history
  <2> QED BY <2>1 DEF BoundInv
<1>3. ASSUME NEW w \in Workers, Throw(w) PROVE BoundInv'
  BY <1>3 DEF Throw, Forget, BoundInv
<1>4. CASE Crash
  <2>1. Cardinality(doubled) \in Nat
    BY FS_CardinalityType DEF BoundInv
  <2> QED BY <1>4, <2>1 DEF Crash, Mishaps, history, BoundInv
<1>5. CASE UNCHANGED <<crashes, errors, doubled>>
  BY <1>5 DEF BoundInv
<1> QED BY <1>1, <1>2, <1>3, <1>4, <1>5 DEF Next, RequestCancel, HostRuns, ExpireLease, vars, history

LEMMA TypesAre == ThreadInv /\ BoundInv => TypeOK
<1> SUFFICES ASSUME ThreadInv, BoundInv PROVE TypeOK
  OBVIOUS
<1>1. Places = {Stages[n] : n \in 1 .. Len(Stages)} \cup RollbackStages
  BY StageNames DEF Places
<1>2. Steps = {"enter", "pulling", "ready", "sent", "waiting", "asking", "answered", "closing"}
  BY DEF Steps, Working
<1>3. \A w \in Workers : mem[w].status = "ROLLING_BACK" => mem[w].previous # Nothing
  BY DEF ThreadInv, Sound
<1> QED BY <1>1, <1>2, <1>3 DEF ThreadInv, Types, BoundInv, TypeOK, Records

\* Every field keeps to its values, and a rollback knows what to go back to.
THEOREM TypeCorrect == Spec => []TypeOK
<1>1. Init => BoundInv
  BY FS_EmptySet DEF Init, BoundInv
<1>2. Spec => []BoundInv
  BY <1>1, BoundNext, PTL DEF Spec
<1> QED BY <1>2, ThreadsCorrect, TypesAre, PTL
=============================================================================
