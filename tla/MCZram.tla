------------------------------- MODULE MCZram -------------------------------
(* One remediation, one competing service. *)
EXTENDS ZramRemediation
=============================================================================
