---------------------------- MODULE MCDemoDriver -----------------------------
(***************************************************************************)
(* One metric at a time, and three phases of real faults: a thread, a      *)
(* table, and a file with zombies.                                         *)
(***************************************************************************)
EXTENDS DemoDriver

MCPool == {<<"log_flood">>, <<"db_vacuum_starve">>, <<"disk_fill", "zombie_factory">>}
NoPool == {}
=============================================================================
