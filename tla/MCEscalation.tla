---------------------------- MODULE MCEscalation ----------------------------
(* One id that is used again, so that requests meet what an earlier one left. *)
EXTENDS Escalation
=============================================================================
