----------------------------- MODULE MCScanJobs -----------------------------
(* Two processes, two runs of one project, and a socket that comes and goes. *)
EXTENDS ScanJobs

CONSTANTS a, b, page

\* The processes are alike: the first run is on one of them, the second on either.
MCHosts == [r \in Runs |-> IF r = 1 THEN {a} ELSE {a, b}]
=============================================================================
