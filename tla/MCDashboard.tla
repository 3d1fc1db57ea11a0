---------------------------- MODULE MCDashboard -----------------------------
(***************************************************************************)
(* A small instance of the dashboard: a table of two rows for three        *)
(* incidents, so that a selected one can be pushed off it.                 *)
(***************************************************************************)
EXTENDS Dashboard, TLC

Ids == Permutations(IncidentId)
=============================================================================
