-------------------------- MODULE MCScenarioRunner --------------------------
(***************************************************************************)
(* Small campaigns, two in turn, with the kinds of fault that can outlive  *)
(* a run: zombies, which interpreter exit waits for, a thread, and a       *)
(* table (a file fares as a table does).                                   *)
(***************************************************************************)
EXTENDS ScenarioRunner

ThreeFaults == <<"zombie_factory", "log_flood", "db_vacuum_starve">>
TwoFaults   == <<"zombie_factory", "db_vacuum_starve">>
=============================================================================
