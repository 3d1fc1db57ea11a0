--------------------------- MODULE ScenarioRunner ---------------------------
(***************************************************************************)
(* The experiment harness (fault_injection/scenario_runner.py): a campaign *)
(* injects one fault after the other, measures under one condition whether *)
(* and when it is detected and resolved, cleans up and writes one row of   *)
(* results.  An exception the harness does not catch, or Ctrl-C, ends the  *)
(* campaign where it is; the operator may start another one.               *)
(***************************************************************************)
EXTENDS FaultScenario, Naturals, Sequences

CONSTANTS
    Schedule,       \* the kinds of fault, in order: SCENARIO_REGISTRY x reps
    MaxCampaigns    \* bound: campaigns the operator starts

ASSUME ScheduleAssumption == Schedule \in Seq(Kind) /\ Schedule # << >>

Condition == {"our_system", "no_automation", "rule_based"}

VARIABLES
    pc,             \* the step the harness takes next
    campaign,       \* BOUND: campaigns started
    condition,      \* --condition
    done,           \* run_all: repetitions begun
    detected,       \* detected_at is set
    resolved,       \* resolved_at is set
    results,        \* the rows of the output CSV
    trail,          \* audit_log: what each run wrote
    aborted,        \* HISTORY: campaigns an exception or Ctrl-C ended
    interrupted     \* HISTORY: those of them Ctrl-C ended

run  == <<detected, resolved>>
vars == <<faults, pc, campaign, condition, done, run, results, trail,
          aborted, interrupted>>

Idle     == {"next", "exiting", "down"}
RunSteps == {"inject", "measure", "correlate", "evaluate", "cleanup", "undo"}

Owner == <<campaign, done>>

Init ==
    /\ NoFaults
    /\ pc = "down"          /\ campaign = 0
    /\ condition = "our_system"
    /\ done = 0             /\ detected = FALSE
    /\ resolved = FALSE
    /\ results = << >>      /\ trail = << >>
    /\ aborted = {}         /\ interrupted = {}

-----------------------------------------------------------------------------
(* The campaign.                                                           *)

\* VARIANT of Campaign: open(output_csv, 'a')
CampaignAppends ==
    /\ pc = "down"
    /\ pc' = "next"
    /\ campaign < MaxCampaigns
    /\ campaign' = campaign + 1
    /\ condition' \in Condition
    /\ done' = 0
    /\ UNCHANGED <<faults, run, results, trail, aborted, interrupted>>

\* open(output_csv, 'w'): the rows of an earlier campaign are lost.
Campaign ==
    /\ pc = "down"
    /\ pc' = "next"
    /\ campaign < MaxCampaigns
    /\ campaign' = campaign + 1
    /\ condition' \in Condition
    /\ done' = 0
    /\ results' = << >>
    /\ UNCHANGED <<faults, run, trail, aborted, interrupted>>

Begin ==
    /\ pc = "next"
    /\ pc' = "inject"
    /\ done < Len(Schedule)
    /\ done' = done + 1
    /\ detected' = FALSE /\ resolved' = FALSE
    /\ UNCHANGED <<faults, campaign, condition, results, trail, aborted, interrupted>>

Finished ==
    /\ pc = "next"
    /\ pc' = "exiting"
    /\ done = Len(Schedule)
    /\ UNCHANGED <<faults, campaign, condition, done, run, results, trail,
                   aborted, interrupted>>

\* Interpreter exit joins the children multiprocessing started, so it waits
\* for a zombie parent nobody terminated; daemon threads die with it.
Exit ==
    /\ pc = "exiting"
    /\ pc' = "down"
    /\ \A f \in faults : f.owner[1] = campaign => f.kind \notin Zombies
    /\ InterpreterGone
    /\ UNCHANGED <<campaign, condition, done, run, results, trail, aborted, interrupted>>

\* An exception nobody catches.
Abort ==
    /\ pc' = "exiting"
    /\ aborted' = aborted \cup {campaign}
    /\ UNCHANGED <<campaign, condition, done, run, results, trail>>

\* Ctrl-C, at any moment.
Interrupt ==
    /\ pc \in RunSteps \cup {"next"}
    /\ Abort
    /\ interrupted' = interrupted \cup {campaign}
    /\ UNCHANGED faults

Ends ==
    /\ Expire
    /\ UNCHANGED <<pc, campaign, condition, done, run, results, trail,
                   aborted, interrupted>>

-----------------------------------------------------------------------------
(* run_single: injecting.                                                  *)

InjectFault ==
    /\ pc = "inject"
    /\ pc' = "measure"
    /\ Inject(Owner, Schedule[done]) \/ InjectNothing(Schedule[done])
    /\ UNCHANGED <<campaign, condition, done, run, results, trail, aborted, interrupted>>

\* VARIANT of InjectionFails: the early return forgets scenario.cleanup().
InjectionFailsUncleaned ==
    /\ pc = "inject"
    /\ pc' = "next"
    /\ InjectRaises(Owner, Schedule[done])
    /\ results' = Append(results,
          [run |-> done, detected |-> FALSE, resolved |-> FALSE])
    /\ UNCHANGED <<campaign, condition, done, run, trail, aborted, interrupted>>

InjectionFails ==
    /\ pc = "inject"
    /\ pc' = "undo"
    /\ InjectRaises(Owner, Schedule[done])
    /\ UNCHANGED <<campaign, condition, done, run, results, trail, aborted, interrupted>>

-----------------------------------------------------------------------------
(* run_single: measuring.                                                  *)

Measured(is_detected, is_resolved, next) ==
    /\ pc' = next
    /\ detected' = is_detected
    /\ resolved' = is_resolved
    /\ UNCHANGED <<faults, campaign, condition, done, results, aborted, interrupted>>

\* The two baselines assign their figures after five seconds.
Baseline ==
    /\ pc = "measure"
    /\ condition # "our_system"
    /\ Measured(TRUE, TRUE, "cleanup")
    /\ UNCHANGED trail

\* The wait expires: cycles found nothing for max_wait_seconds.
TimesOut ==
    /\ pc = "measure"
    /\ condition = "our_system"
    /\ Measured(FALSE, FALSE, "cleanup")
    /\ UNCHANGED trail

Detects ==
    /\ pc = "measure"
    /\ condition = "our_system"
    /\ Measured(TRUE, FALSE, "correlate")
    /\ UNCHANGED trail

\* A constructor, a collection, a detector, the prompt or the store raises.
CycleRaises ==
    /\ (pc = "measure" /\ condition = "our_system") \/ pc = "correlate"
    /\ Abort
    /\ UNCHANGED <<faults, interrupted>>

\* No diagnosis: correlate() logs why and returns None, and the run counts
\* as resolved.
NoDiagnosis ==
    /\ pc = "correlate"
    /\ Measured(TRUE, TRUE, "cleanup")
    /\ \E why \in {"llm_call_failed", "parse_failed"} :
           trail' = Append(trail, [owner |-> Owner, event |-> why])

\* A diagnosis: correlate() saves it and returns a pair.
Diagnosis ==
    /\ pc = "correlate"
    /\ Measured(TRUE, FALSE, "evaluate")
    /\ trail' = Append(trail, [owner |-> Owner, event |-> "incident_created"])

\* The pair goes to gate.evaluate(), which asks it for its confidence:
\* AttributeError.  The branches that execute or escalate are never reached.
EvaluateRaises ==
    /\ pc = "evaluate"
    /\ Abort
    /\ UNCHANGED <<faults, interrupted>>

-----------------------------------------------------------------------------
(* run_single: cleaning up, and the row.                                   *)

\* A row of the CSV.
Row == [run |-> done, detected |-> detected, resolved |-> resolved]

\* VARIANT of CleansUp: a run whose injection failed gets no row.
CleansUpNoRow ==
    /\ pc \in {"cleanup", "undo"}
    /\ CleanUp(Owner)
    /\ pc' = "next"
    /\ results' = IF pc = "undo" THEN results ELSE Append(results, Row)
    /\ UNCHANGED <<campaign, condition, done, run, trail, aborted, interrupted>>

CleansUp ==
    /\ pc \in {"cleanup", "undo"}
    /\ CleanUp(Owner)
    /\ pc' = "next"
    /\ results' = Append(results, Row)
    /\ UNCHANGED <<campaign, condition, done, run, trail, aborted, interrupted>>

CleaningRaises ==
    /\ pc \in {"cleanup", "undo"}
    /\ CleanUpRaises(Schedule[done])
    /\ Abort
    /\ UNCHANGED interrupted

-----------------------------------------------------------------------------
Step == Begin \/ Finished \/ Exit \/ InjectFault \/ InjectionFails \/ Baseline
        \/ TimesOut \/ Detects \/ CycleRaises \/ NoDiagnosis \/ Diagnosis
        \/ EvaluateRaises \/ CleansUp \/ CleaningRaises

\* Within the bounds the operator starts no other campaign.
Over == pc = "down" /\ campaign = MaxCampaigns /\ UNCHANGED vars

\* Time passes while the interpreter joins its children.
Joining == pc = "exiting" /\ UNCHANGED vars

Next == Step \/ Campaign \/ Interrupt \/ Ends \/ Over \/ Joining

Spec == Init /\ [][Next]_vars

\* The harness goes on by itself, and what has a duration ends.
FairSpec == Spec /\ WF_vars(Step) /\ WF_vars(Ends)

-----------------------------------------------------------------------------
(* Types.                                                                  *)

OwnerType == Nat \X Nat

\* Every variable holds what the code can put there; a campaign writes no
\* more rows than it began runs.
TypeOK ==
    /\ faults \subseteq [owner : OwnerType, kind : Kind, stopping : BOOLEAN]
    /\ pc \in Idle \cup RunSteps
    /\ condition \in Condition
    /\ done \in 0..Len(Schedule)
    /\ {detected, resolved} \subseteq BOOLEAN
    /\ results \in Seq([run : 1..done, detected : BOOLEAN, resolved : BOOLEAN])
    /\ trail \in Seq([owner : OwnerType,
                      event : {"llm_call_failed", "parse_failed", "incident_created"}])
    /\ interrupted \subseteq aborted /\ aborted \subseteq 1..campaign

-----------------------------------------------------------------------------
(* Safety.                                                                 *)

\* Every fault at work on the host is the one being measured, or the remains
\* of a campaign that was cut short: no path through a run that goes on to
\* the next one leaves its fault behind.
FaultsOwned ==
    \A f \in faults :
        \/ f.stopping
        \/ f.owner = Owner /\ pc \in RunSteps
        \/ f.owner[1] \in aborted

\* The CSV has one row for each run of the campaign, in the order of the
\* schedule, whichever way the run went; only the run that ended the campaign
\* may be missing.
RowsFollowSchedule ==
    /\ \A i \in DOMAIN results : results[i].run = i
    /\ \/ Len(results) = done - (IF pc \in RunSteps THEN 1 ELSE 0)
       \/ Len(results) = done - 1 /\ campaign \in aborted

-----------------------------------------------------------------------------
(* The inductive invariant behind the safety properties.                   *)

\* The counters at each step, and that a campaign cut short only exits.
Progress ==
    /\ campaign \in Nat
    /\ pc # "down" => campaign > 0
    /\ pc \in RunSteps => done > 0
    /\ campaign \in aborted => pc \in {"exiting", "down"}

IInv == TypeOK /\ Progress /\ FaultsOwned /\ RowsFollowSchedule

-----------------------------------------------------------------------------
(* Liveness.                                                               *)

\* Every campaign comes to an end: no run waits for ever, and neither does the
\* exit of an interpreter that still has a child to join.
CampaignEnds == pc = "next" ~> pc = "down"

-----------------------------------------------------------------------------
(* What the documents say and the code does not do.                        *)

\* file_structure_explained.md: the harness waits for an incident to appear,
\* "records the result, cleans up, and writes to the output CSV": a run whose
\* fault was diagnosed has its row once the campaign is over.
DiagnosedRunRecorded ==
    pc = "down" /\ campaign \notin interrupted =>
        \A j \in DOMAIN trail :
            trail[j].event = "incident_created" /\ trail[j].owner[1] = campaign
                => trail[j].owner[2] \in DOMAIN results
=============================================================================
