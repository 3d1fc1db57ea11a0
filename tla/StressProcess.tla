---------------------------- MODULE StressProcess ----------------------------
(***************************************************************************)
(* What the cpu and memory faults take stress-ng for (cpu_stress.py,       *)
(* memory_pressure.py): a process that puts load on the host and takes it  *)
(* off before it ends, so that terminate() and wait() undo the fault.      *)
(* Nothing is promised once SIGKILL has struck one of its processes, or a  *)
(* fatal signal ended the main one, which then waits for nobody.           *)
(***************************************************************************)
VARIABLES
    up,         \* the process the scenario holds has not ended
    load,       \* some process of its puts load on the host
    struck      \* SIGKILL has struck it or a stressor of it, or a fatal signal it

vars == <<up, load, struck>>

Init == up = TRUE /\ load = FALSE /\ struck = FALSE

Load   == (up \/ struck) /\ load' = TRUE /\ UNCHANGED <<up, struck>>
Unload == load' = FALSE /\ UNCHANGED <<up, struck>>
Leave  == up /\ (load => struck) /\ up' = FALSE /\ UNCHANGED <<load, struck>>
Strike == struck' = TRUE /\ up' \in {up, FALSE} /\ load' \in {load, FALSE}

Next == Load \/ Unload \/ Leave \/ Strike

Spec == Init /\ [][Next]_vars
=============================================================================
