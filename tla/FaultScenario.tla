--------------------------- MODULE FaultScenario ----------------------------
(***************************************************************************)
(* The faults the experiments inject (fault_injection/scenarios/): what a  *)
(* scenario object puts on the host, what ends it, and what its cleanup    *)
(* may leave behind.  A fault belongs to the scenario object that injected *)
(* it, its owner.                                                          *)
(***************************************************************************)
EXTENDS FiniteSets

VARIABLE
    faults      \* HOST: the faults in force

File    == {"disk_fill"}                        \* stays until it is removed
Stress  == {"memory_pressure", "cpu_stress"}    \* a child, with a --timeout
Zombies == {"zombie_factory"}                   \* a child that sleeps 300 s
Thread  == {"log_flood", "nfs_hang_sim"}        \* a daemon thread, with an end
Table   == {"db_vacuum_starve"}                 \* a committed table

Kind == File \cup Stress \cup Zombies \cup Thread \cup Table

\* stopping: told to stop, and still in its last call of logger.
Fault(owner, kind) == [owner |-> owner, kind |-> kind, stopping |-> FALSE]

Of(owner) == {f \in faults : f.owner = owner}

NoFaults == faults = {}

-----------------------------------------------------------------------------
(* inject()                                                                *)

Inject(owner, kind) == faults' = faults \cup {Fault(owner, kind)}

\* The disk is already as full as asked, or there is no PostgreSQL: inject
\* returns as if it had done its work.
InjectNothing(kind) ==
    /\ kind \in File \cup Table
    /\ UNCHANGED faults

\* fallocate or stress-ng fails, or the database does: a file or a table may
\* have been made before that.
InjectRaises(owner, kind) ==
    \/ kind \in File \cup Table \cup Stress /\ UNCHANGED faults
    \/ kind \in File \cup Table /\ Inject(owner, kind)

-----------------------------------------------------------------------------
(* cleanup()                                                               *)

\* The thread is given three seconds to see its stop event.
CleanUp(owner) ==
    \/ faults' = faults \ Of(owner)
    \/ /\ \E f \in Of(owner) : f.kind \in Thread
       /\ faults' = {IF f \in Of(owner) THEN [f EXCEPT !.stopping = TRUE] ELSE f : f \in faults}

\* The database refuses to drop the table, whether or not it was made.
CleanUpRaises(kind) ==
    /\ kind \in Table
    /\ UNCHANGED faults

-----------------------------------------------------------------------------
(* What ends a fault without cleanup.                                      *)

\* VARIANT of EndsByItself: the parent of the zombies never wakes.
EndsByItselfButZombies == {f \in faults : f.kind \in Stress \cup Thread}

\* The faults a duration bounds.
EndsByItself == {f \in faults : f.kind \in Stress \cup Thread \cup Zombies}

Expire == \E f \in EndsByItself : faults' = faults \ {f}

\* The interpreter that injected them is gone, its daemon threads with it.
InterpreterGone == faults' = {f \in faults : f.kind \notin Thread}
=============================================================================
