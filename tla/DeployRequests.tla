--------------------------- MODULE DeployRequests ---------------------------
(***************************************************************************)
(* Who asks for applies: the deploy, status and stop routes of the         *)
(* Connector and the browser tabs that call them, over TerraformApply.     *)
(* Each request has a tab.  The deploy route posts it to the Agentic       *)
(* Layer, looks at the project's status for a grace of 25 seconds and      *)
(* answers; the tab then asks the status route until it learns the end.    *)
(* Checks of the request and of the live endpoints are left out, as is the *)
(* tab's limit of 55 minutes: it asks again when the page is opened.       *)
(***************************************************************************)
EXTENDS TerraformApply

VARIABLES
  tab,        \* [Requests -> what its tab shows]
  answered    \* [Requests -> whose result the tab shows, or NoOne] (history)

tabs == <<tab, answered>>
allVars == <<vars, tabs>>

Waiting == {"posting", "grace", "watching"}
Settled == {"gate", "done", "failed"}

RequestsTypeOK ==
  /\ TypeOK
  /\ tab \in [Requests -> {"idle"} \cup Waiting \cup Settled]
  /\ answered \in [Requests -> Requests \cup {NoOne}]

RequestsInit ==
  /\ Init
  /\ tab = [q \in Requests |-> "idle"]
  /\ answered = [q \in Requests |-> NoOne]

-----------------------------------------------------------------------------
\* What the status request of the Agentic Layer answers.
Status == IF active # NoOne THEN [of |-> active, status |-> "running"] ELSE result

Shows(q, screen) == tab' = [tab EXCEPT ![q] = screen]
ShowsEnd(q, screen) == Shows(q, screen) /\ answered' = [answered EXCEPT ![q] = Status.of]

\* A plan can be confirmed where one was shown.
StartDeploy(q) ==
  /\ tab[q] = "idle"
  /\ q \in Confirmed => \E p \in Requests \ Confirmed : tab[p] = "gate"
  /\ Shows(q, "posting")
  /\ UNCHANGED <<vars, answered>>

\* Accepted, whether or not the answer arrives: the route polls in both cases.
Deliver(q) ==
  /\ tab[q] = "posting"
  /\ Accept(q)
  /\ Shows(q, "grace")
  /\ UNCHANGED answered

\* Answered with "running": another request of the project is, or a tab tries again while
\* its stopped run goes on (a retry that starts a run is a request of its own).
AlreadyInProgress(q) ==
  /\ tab[q] \in {"posting", "failed"} /\ active # NoOne
  /\ Shows(q, "grace")
  /\ UNCHANGED <<vars, answered>>

\* The Agentic Layer is out of reach; the route polls all the same.
Lose(q) ==
  /\ tab[q] = "posting" /\ Mishap
  /\ Shows(q, "grace")
  /\ UNCHANGED <<registry, worker, box, stops, stateLock, leases, did, answered>>

Ending == [awaiting_plan_confirmation |-> {"gate"}, completed |-> {"done"},
           error |-> {"failed"}]

\* A terminal result within the grace is the answer; one that only misses EC2 is looked
\* up in AWS.
AnswerInGrace(q) ==
  /\ tab[q] = "grace"
  /\ \/ Status.status \in DOMAIN Ending /\ \E screen \in Ending[Status.status] : ShowsEnd(q, screen)
     \/ Status.status = "no ec2" /\ \E screen \in {"done", "failed"} : ShowsEnd(q, screen)
  /\ UNCHANGED vars

\* Otherwise 202, or a 502 the tab takes for a transport error: it asks on in either case.
GraceOver(q) ==
  /\ tab[q] = "grace" /\ Status.status \in {"idle", "running"}
  /\ Shows(q, "watching")
  /\ UNCHANGED <<vars, answered>>

\* A completed result can still fail where the tab reads the live details.
Reconcile(q) ==
  /\ tab[q] = "watching"
  /\ \/ Status.status \in DOMAIN Ending /\ \E screen \in Ending[Status.status] : ShowsEnd(q, screen)
     \/ Status.status \in {"completed", "no ec2", "idle"} /\ ShowsEnd(q, "failed")
  /\ UNCHANGED vars

\* A tab that watches takes its stop for the end; one whose deploy request is still open
\* lets that answer.
StopDeployment(q) ==
  /\ tab[q] \in {"grace", "watching"}
  /\ RequestStop
  /\ IF tab[q] = "watching" THEN Shows(q, "failed") ELSE UNCHANGED tab
  /\ UNCHANGED answered

-----------------------------------------------------------------------------
Next ==
  \/ \E r \in Requests : StartDeploy(r)
  \/ \E r \in Requests : Deliver(r)
  \/ \E r \in Requests : AlreadyInProgress(r)
  \/ \E r \in Requests : Lose(r)
  \/ \E r \in Requests : AnswerInGrace(r)
  \/ \E r \in Requests : GraceOver(r)
  \/ \E r \in Requests : Reconcile(r)
  \/ \E r \in Requests : StopDeployment(r)
  \/ \E r \in Requests : Load(r) /\ UNCHANGED tabs
  \/ \E r \in Requests : AcquireLease(r) /\ UNCHANGED tabs
  \/ \E r \in Requests : Check(r) /\ UNCHANGED tabs
  \/ \E r \in Requests : Refuse(r) /\ UNCHANGED tabs
  \/ \E r \in Requests : Create(r) /\ UNCHANGED tabs
  \/ \E r \in Requests : Read(r) /\ UNCHANGED tabs
  \/ \E r \in Requests : Record(r) /\ UNCHANGED tabs
  \/ \E r \in Requests : Exit(r) /\ UNCHANGED tabs
  \/ \E r \in Requests : Break(r) /\ UNCHANGED tabs
  \/ \E r \in Requests : Kill(r) /\ UNCHANGED tabs
  \/ LooseEnds /\ UNCHANGED tabs
  \/ Lapse /\ UNCHANGED tabs
  \/ StartGeneration /\ UNCHANGED tabs
  \/ EndGeneration /\ UNCHANGED tabs
  \/ Restart /\ UNCHANGED tabs

Spec == RequestsInit /\ [][Next]_allVars

\* The worker goes on, Terraform ends every command, the connection carries a request
\* through in the end, and a tab asks again and again.
FairSpec ==
  /\ Spec
  /\ \A r \in Requests :
       /\ WF_allVars((Load(r) \/ AcquireLease(r) \/ Check(r) \/ Refuse(r) \/ Create(r)
                       \/ Read(r) \/ Record(r)) /\ UNCHANGED tabs)
       /\ WF_allVars((Exit(r) \/ Kill(r)) /\ UNCHANGED tabs)
       /\ WF_allVars(tab[r] = "posting" /\ (Deliver(r) \/ AlreadyInProgress(r)))
       /\ WF_allVars(AnswerInGrace(r) \/ GraceOver(r))
       /\ WF_allVars(Reconcile(r))

-----------------------------------------------------------------------------
\* A tab that shows a finished deployment shows the result of a run whose last apply
\* Terraform finished, through every recovery, stop and swallowed failure on the way
\* (terraform_apply.py:5235) and every route the result took to the tab.
DoneMeansApplied ==
  \A q \in Requests :
    tab[q] = "done" => answered[q] # NoOne /\ "applied" \in did[answered[q]]

\* Whatever fails, is stopped or restarted, the tab of a request learns an end: no loop of
\* retries goes on for ever, every run leaves the registry and a lost one shows as idle
\* (main.py:1507, DeploymentTrackApp.tsx:4142).
EveryRequestIsAnswered ==
  \A q \in Requests : tab[q] \in Waiting ~> tab[q] \in Settled

=============================================================================
