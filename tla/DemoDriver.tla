----------------------------- MODULE DemoDriver ------------------------------
(***************************************************************************)
(* demo_driver.py: phases of health, of real faults from fault_injection,  *)
(* and of devices that the simulators let fail, one after the other for    *)
(* ever, all of them watched by the same detectors.                        *)
(*                                                                         *)
(* A healthy phase comes before every other one; which one that is, is     *)
(* drawn.  What a cycle does with what it has flagged is the daemon's      *)
(* business, and it may raise.                                             *)
(***************************************************************************)
EXTENDS Detectors, FaultScenario

CONSTANTS
    Pool,           \* SOFTWARE_FAULTS and COMPOUND_FAULTS: sequences of kinds
    MaxValue,       \* BOUND: the largest reading
    Gap,            \* BOUND: the times between two cycles
    MaxOwners       \* BOUND: scenario objects with a fault in force

ASSUME DemoDriverAssumption ==
    /\ Pool \subseteq Seq(Kind) \ {<<>>}
    /\ MaxValue \in Nat /\ Gap \subseteq Nat \ {0} /\ MaxOwners \in Nat

VARIABLES
    phase,      \* "idle" between two phases, "stopped" after the last
    scenarios,  \* the scenario objects of the phase, and the next of them to
    at,         \* inject or clean up
    rested,     \* the last phase was a healthy one
    ce_count    \* of the EccSimulator of the phase

vars == <<metric, window, history, flags, faults, phase, scenarios, at, rested, ce_count>>
driver == <<phase, scenarios, at, rested, ce_count>>

Init ==
    /\ DetectorsInit /\ NoFaults
    /\ phase = "idle" /\ scenarios = <<>> /\ at = 1 /\ rested = FALSE
    /\ ce_count = 0

Goto(p, i) == phase' = p /\ at' = i

-----------------------------------------------------------------------------
(* Phases begin; make_collectors makes new simulators.                     *)

run_healthy ==
    /\ phase = "idle" /\ ~rested
    /\ Goto("healthy", 1) /\ ce_count' = 0
    /\ UNCHANGED <<detectors, faults, scenarios, rested>>

\* VARIANT of run_hardware_fault: the history is kept.
run_hardware_fault_unreset ==
    /\ phase = "idle" /\ rested
    /\ Goto("hardware", 1) /\ ce_count' = 0
    /\ UNCHANGED <<detectors, faults, scenarios, rested>>

run_hardware_fault ==
    /\ phase = "idle" /\ rested
    /\ ClearHistory
    /\ Goto("hardware", 1) /\ ce_count' = 0
    /\ UNCHANGED <<faults, scenarios, rested>>

\* run_real_fault and run_compound_fault: fresh scenario objects.
run_fault ==
    /\ phase = "idle" /\ rested
    /\ \E kinds \in Pool : \E owner \in Injection(DOMAIN kinds, 1 .. MaxOwners) :
        /\ \A i \in DOMAIN kinds : Of(owner[i]) = {}
        /\ scenarios' = [i \in DOMAIN kinds |-> [owner |-> owner[i], kind |-> kinds[i]]]
    /\ Goto("inject", 1) /\ ce_count' = 0
    /\ UNCHANGED <<detectors, faults, rested>>

\* What raises ends the program, as Ctrl-C does.
Dies == Goto("stopped", 1)

InjectNext ==
    /\ phase = "inject"
    /\ IF at > Len(scenarios)
       THEN Goto("fault", 1) /\ UNCHANGED faults
       ELSE LET s == scenarios[at]
            IN \/ (Inject(s.owner, s.kind) \/ InjectNothing(s.kind)) /\ Goto("inject", at + 1)
               \/ InjectRaises(s.owner, s.kind) /\ Dies
    /\ UNCHANGED <<detectors, scenarios, rested, ce_count>>

-----------------------------------------------------------------------------
(* run_cycle                                                               *)

Failing == phase = "hardware"

\* What the simulators and /proc may give; the driver restarts their clocks.
Reading ==
    IF metric \in Proc \/ Failing THEN 0 .. MaxValue
    ELSE IF metric \in Smart THEN {0}
    ELSE ce_count .. MaxValue

run_cycle ==
    /\ phase \in {"healthy", "hardware", "fault"}
    /\ \E gap \in Gap, value \in Reading :
        /\ Run(gap, value, Failing)
        /\ ce_count' = IF metric \in Ecc THEN value ELSE ce_count
    /\ UNCHANGED <<faults, phase, scenarios, at, rested>>

-----------------------------------------------------------------------------
(* Phases end: the time is up, or the incidents are as many as wanted.     *)

EndHealthy ==
    /\ phase = "healthy"
    /\ Goto("idle", 1) /\ rested' = TRUE
    /\ UNCHANGED <<detectors, faults, scenarios, ce_count>>

\* VARIANT of EndHardware: the history is kept.
EndHardwareUnreset ==
    /\ phase = "hardware"
    /\ Goto("idle", 1) /\ rested' = FALSE
    /\ UNCHANGED <<detectors, faults, scenarios, ce_count>>

EndHardware ==
    /\ phase = "hardware"
    /\ ClearHistory
    /\ Goto("idle", 1) /\ rested' = FALSE
    /\ UNCHANGED <<faults, scenarios, ce_count>>

EndFault ==
    /\ phase = "fault"
    /\ Goto("cleanup", 1)
    /\ UNCHANGED <<detectors, faults, scenarios, rested, ce_count>>

\* VARIANT of CleanUpNext: the scenarios are cleaned up but for the last.
CleanUpButLast ==
    /\ phase = "cleanup"
    /\ IF at >= Len(scenarios)
       THEN Goto("idle", 1) /\ rested' = FALSE /\ scenarios' = <<>> /\ UNCHANGED faults
       ELSE CleanUp(scenarios[at].owner) /\ Goto("cleanup", at + 1) /\ UNCHANGED <<scenarios, rested>>
    /\ UNCHANGED <<detectors, ce_count>>

CleanUpNext ==
    /\ phase = "cleanup"
    /\ IF at > Len(scenarios)
       THEN Goto("idle", 1) /\ rested' = FALSE /\ scenarios' = <<>> /\ UNCHANGED faults
       ELSE \/ /\ CleanUp(scenarios[at].owner)
               /\ Goto("cleanup", at + 1) /\ UNCHANGED <<scenarios, rested>>
            \/ /\ CleanUpRaises(scenarios[at].kind)
               /\ Dies /\ UNCHANGED <<scenarios, rested>>
    /\ UNCHANGED <<detectors, ce_count>>

\* Ctrl-C at any moment; an exception of the cycle, which nothing catches.
Interrupt ==
    /\ phase # "stopped" /\ Dies
    /\ UNCHANGED <<detectors, faults, scenarios, rested, ce_count>>

\* Faults end by themselves, and with the interpreter.
Ends ==
    /\ Expire \/ (phase = "stopped" /\ InterpreterGone)
    /\ UNCHANGED <<detectors, driver>>

Next ==
    \/ run_healthy \/ run_hardware_fault \/ run_fault \/ InjectNext
    \/ run_cycle
    \/ EndHealthy \/ EndHardware \/ EndFault \/ CleanUpNext
    \/ Interrupt \/ Ends

Spec == Init /\ [][Next]_vars

-----------------------------------------------------------------------------
(* Properties.                                                             *)

\* Types: every variable holds what the code can put there.
TypeOK ==
    /\ metric \in Metric
    /\ window \in Seq(0 .. MaxValue) /\ Len(window) <= MaxWindow
    /\ history \in Seq([gap : Gap, value : 0 .. MaxValue, failing : BOOLEAN])
    /\ Len(history) <= Keep
    /\ flags \subseteq AnomalyType
    /\ faults \subseteq [owner : 1 .. MaxOwners, kind : Kind, stopping : BOOLEAN]
    /\ phase \in {"idle", "healthy", "hardware", "inject", "fault", "cleanup", "stopped"}
    /\ scenarios \in Seq([owner : 1 .. MaxOwners, kind : Kind])
    /\ at \in 1 .. Len(scenarios) + 1 /\ rested \in BOOLEAN /\ ce_count \in 0 .. MaxValue

\* zscore_detector.py:15 has the reading in its own window: a value is a spike
\* only while it is at most one in Threshold2 + 1 of the window.  So ten
\* readings hardly flag one, and a fault that stays is flagged for at most ten
\* cycles, whatever the detector saw before.
SpikeIsRare ==
    "zscore_spike" \in flags =>
        (Threshold2 + 1) * Cardinality({i \in DOMAIN window : window[i] = Last(window)})
            <= Len(window)

\* demo_driver.py:48: "one phase's fault trajectory never bleeds into the next,
\* in either direction": not through the histories, which have lost the
\* failing device's readings when the next phase reads them, nor the other way.
NeverBleeds ==
    phase \notin {"idle", "stopped"} => \A i \in DOMAIN history : history[i].failing = Failing

\* No real fault outlives its phase while the demo goes on, but for a thread
\* still in its last call.
FaultsOfThePhase ==
    phase \in {"healthy", "hardware"} => \A f \in faults : f.stopping

-----------------------------------------------------------------------------
(* The inductive invariant behind NeverBleeds and FaultsOfThePhase.        *)

\* Between two phases the history has no reading of a failing device either.
HistoryOK ==
    phase # "stopped" => \A i \in DOMAIN history : history[i].failing = Failing

\* The scenarios of the phase whose cleanup is still to come.
ToCleanUp ==
    CASE phase \in {"inject", "fault"} -> DOMAIN scenarios
      [] phase = "cleanup"             -> at .. Len(scenarios)
      [] OTHER                         -> {}

\* A fault in force is of one of these, or in its last call.
FaultsOK ==
    phase # "stopped" => \A f \in faults :
        f.stopping \/ \E i \in ToCleanUp : scenarios[i].owner = f.owner

IInv == TypeOK /\ HistoryOK /\ FaultsOK

-----------------------------------------------------------------------------
(* What a document says and the code does not do.                          *)

\* docs/project_overview.md:349: "10 normal readings then one 5-sigma spike" is
\* flagged.
FiveSigmaFlagged ==
    LET past == Front(window)
        x    == Last(window)
    IN Len(window) = 11 /\ Spread(past) > 0 /\ Off(x, past) * Off(x, past) >= 25 * Spread(past)
       => "zscore_spike" \in flags
=============================================================================
