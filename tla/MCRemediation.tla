--------------------------- MODULE MCRemediation ---------------------------
(* Small instances of Remediation. *)
EXTENDS Remediation, TLC

CONSTANTS t1, t2
=============================================================================
