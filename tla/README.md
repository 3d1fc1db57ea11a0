# A verification of reet, the self-healing server daemon

`src/` holds a daemon that collects telemetry of one server, looks for anomalies, asks a language
model for a diagnosis, and either repairs the fault by itself, through three gates and a whitelist,
or hands it to a human with a report. Beside the daemon stand a terminal dashboard over the same
SQLite store, a harness that injects faults and measures how the daemon does, a driver that
demonstrates it, and a copy of `stress-ng`, the C program behind two of the faults. This directory
holds TLA+ models of these programs, the configurations that model-check them, and the theorems
that are proved about them.

Everything is translated from the source. The documents (`info.txt`, `docs/`) are used
only for what they *claim*; where the code does otherwise a run shows it.

Contents: [the system](#the-system), [the modules](#the-modules), [the runs](#the-runs),
[fairness](#fairness), [the proofs](#the-proofs), [what the code does otherwise](#where-the-documents-and-the-code-disagree),
[abstractions](#abstractions), [not modelled](#not-modelled), [the plan](#the-plan).

## The system

    collectors -> orchestrator -> detectors -> correlator -> gates -> executor -> actions -> HOST
                      |                        (LLM, parser)   |         |
                   InfluxDB                                    |      snapshots
                                                               v         v
                                         hardware report -> audit log, incident store (SQLite)
                                                                       ^        |
    scenario runner: fault -> collectors .. correlator ----------------+        v
                                                                            dashboard

| component | state | operations | what makes it correct |
|---|---|---|---|
| Daemon, `pipeline/main_loop.py` | the step of the cycle, `running`, the cycle's locals | `run()`, `handle_shutdown` | every flagged cycle is concluded once; a shutdown finishes the cycle; a crash at any step leaves an account |
| Orchestrator and collectors, `collector/` | none between cycles | `collect()`: four collectors in a thread pool | one failing collector does not lose the others' readings |
| Detectors, `anomaly/` | windows of readings per metric, histories per drive, training vectors | `AnomalyAggregator.run` | thresholds can be reached; histories align; order of the signals |
| Reasoning, `reasoning/` | none | `Correlator.correlate`, `LLMClient.call` (3 attempts), `ResponseParser.parse` | a reply ends as an incident that fits the schema, or as a recorded failure |
| Gates, `remediation/gate_checker.py` | the whitelist | `evaluate` | an action is decided only for a diagnosis that allows it, with parameters that match |
| Executor and actions, `remediation/` | snapshots on disk; the host | `execute`, `take`, four handlers | announce and snapshot before acting; act once |
| Audit logger, `remediation/audit_logger.py` | none; writes both tables | `log_action_start`, `log_action_complete`, `log_escalation`, `log_gate_result` | the trail and the rows agree |
| Incident store, `storage/` | tables `incidents`, `audit_log` | `save_incident`, `save_audit_event`, `update_incident` | no outcome is lost or overwritten |
| Hardware diagnostics, `hardware_diagnostics/` | none | `generate`, `assess`, `locate`, `lookup` | always a report; urgency in the order of the danger |
| Dashboard, `tui.py` | rows and cursor, last audit id, figures | a refresh each second, row events, `q` | shows what the store holds, keeps the selection, prints no event of a file twice or out of order |
| Scenario runner, `fault_injection/` | the fault in force, the output CSV | `run_single`, `run_all`, seven scenarios | no fault outlives its run; a row per run |
| Demo driver, `demo_driver.py` | detector histories, a scenario object | phases of a demonstration | phases do not leak into each other |
| stress-ng, run control (`stress-ng.c`, `core-out-of-memory.c`) | the table of stressors in shared memory; a flag and timers per process | fork loop, signal handlers, `stress_oomable_child`, wait loop | told to stop, all of it stops; nothing is left at work; the exit code covers every stressor |
| stress-ng, `stress-peterson.c`, `stress-dekker.c` | four shared variables | a child and its parent enter a critical section over and over | one inside at a time; the test of the counter holds; both get in |
| Simulators, evaluation | random curves; statistics of finished CSVs | | |

**How they interact.** Within the daemon by function calls, in one thread but for the collectors'
pool and the signal handler. Between programs through the SQLite file alone: the daemon and the
harness write it, the dashboard reads it, `reset_demo.sh` unlinks it under all of them. Every
store operation opens its own connection and commits on its own; nothing spans two of them.

**What is hard.** A crash between any two of the five commits, the snapshot and the effect on the host that make one repair; a
signal at any step; replies of any shape; audit trail and row written by separate transactions; a
screen rebuilt from several reads while the store changes, with row events handled later than the
change that caused them; exceptions on paths without a `finally`; child processes and threads that
outlive the run that started them; processes that stop each other with signals, each of which may
arrive between a test and the system call it guards; loads that overtake stores. `PROJECT.json` lists these hazards at their lines with the
properties that would catch each of them going wrong.

## The modules

| module | models | state |
|---|---|---|
| `ResponseParser` | `response_parser.py`, `schemas.py` | none: `Parse` |
| `GateChecker` | `gate_checker.py`, `whitelist.yaml` | none: `Evaluate`, and `Permitted`, what the gates promise |
| `IncidentStore` | `incident_store.py`, `schema.sql` | `incidents`, `audit_log` |
| `MainLoop` | `main_loop.py`, `correlator.py`, `llm_client.py`, `executor.py`, `audit_logger.py`, `snapshot.py`, the call of an action | the step `pc`, `running`, the locals, `snapshots`, `effects`; history variables |
| `RemediationContract` | (abstract) | what may happen to an incident, whoever does it |
| `MainLoopProofs`, `MainLoopTrailProofs` | | theorems about `MainLoop`; the second about what is counted and about the contract |
| `HardwareReport` | `urgency_model.py`, `component_localizer.py`, `vendor_lookup.py`, `report_generator.py` | one call of `generate`, step by step |
| `HardwareReportProofs` | | theorems about `HardwareReport` |
| `Dashboard` | `tui.py`, the writers, `reset_demo.sh` | database files, screen, queue of row events |
| `DashboardProofs` | | theorems about `Dashboard` |
| `FaultScenario` | `fault_injection/scenarios/` | `faults`: what is in force on the host |
| `ScenarioRunner` | `scenario_runner.py`, `injector.py`, `baseline_runner.py` | the step, the run, the CSV, the trail |
| `ScenarioRunnerProofs` | | theorems about `ScenarioRunner` |
| `Detectors` | `zscore_detector.py`, `smart_acceleration.py`, `ecc_rate_model.py`, `anomaly_aggregator.py` | the window, the history and the flags of one metric |
| `DemoDriver` | `demo_driver.py` | the phase, its scenario objects, the simulator's count |
| `DemoDriverProofs` | | theorems about `DemoDriver` |
| `StressProcess` | (abstract) | what a scenario takes `stress-ng` for |
| `StressRun` | `stress-ng.c`, `core-out-of-memory.c`, the loops of `stress-cpu.c` and `stress-vm.c` | main process, stressors, their children, the shared table, timers and pending signals |
| `StressRunProofs` | | theorems about `StressRun` |
| `SpinMutex` | `stress-peterson.c`, `stress-dekker.c`, `shim_mfence` | the shared variables, two store buffers, two processes |
| `SpinMutexProofs` | | theorems about `SpinMutex` |
| `MC...` | | small instances |

They stack by EXTENDS: `ResponseParser` < `GateChecker` < `IncidentStore` < `MainLoop` <
`MainLoopProofs` < `MainLoopTrailProofs`; `MCMainLoop` extends `MainLoop`, each other `...Proofs` the module
it is named after; `FaultScenario` < `ScenarioRunner`; `FaultScenario` and `Detectors` <
`DemoDriver`. `MainLoop` instantiates `RemediationContract` through a refinement mapping, and
`StressRun` instantiates `StressProcess`, which says of the child process what `FaultScenario`
assumes of a fault of kind `Stress`: it may end by itself, and after `terminate()` and `wait()`
nothing of it is left. `HardwareReport` is the detail of the one step
`HumanReport` of `MainLoop`; `Dashboard` has its own small writers, whose order of writes is
freer than the daemon's, so what holds beside them holds beside the daemon.

### MainLoop

One action per step that a crash could separate from the next: each store operation, the snapshot,
the action's effect and the writes of the audit logger are steps of their own, in the code's order.
`Crash` may follow any of them: it stands for SIGKILL and for every exception `run()` does not
catch (the store's, `mkdir` of the snapshot, a detector's, a constructor's). It clears the process's
variables and leaves store, snapshots and host. `Signal` clears `running` between any two steps.
`Start` begins again, as a service manager would.

* `LlmAnswers`, `LlmAnswersNothing`, `LlmRaises` are `LLMClient.call`: three attempts for an
  exception, none for an empty choice. A parsed text becomes `incident` in the same step, since
  nothing is written in between.
* `SaveIncident` picks an id no row has: `uuid4`. Its variant picks any id; that is the mutant that
  shows what `INSERT OR REPLACE` would do.
* `Dispatch` appends to `effects`, which is the host's memory of what was done, and chooses the
  handler's result. All four handlers catch their exceptions and time-outs and return a failure. The
  branch for an unknown action cannot be reached after the gates: the whitelist and the dispatcher
  name the same four.
* `EscalateRaw` is `log_escalation` with no incident id: the reason is logged and the report
  dropped. `LogEscalation` and `MarkEscalated` are the same call with an id, two commits.
* `anomalies`, `interrupted`, `lost` are history variables; no action reads them except the bound
  `MaxAnomalies`.

### RemediationContract

An incident is opened with one diagnosis, for good; then either escalated, or, if the diagnosis
allows it, announced, performed once, concluded. A failure may be escalated afterwards, as `info.txt:124` says it is;
the daemon never takes that step. A success may not. `MainLoop` maps to it by the store and the host
alone: the status of an incident is what its audit events say. So the refinement
`ImplementsContract` speaks of what an auditor can see, and no crash or restart is visible in it
except as an incident that goes no further.

### Dashboard

`refresh_data` is cut at each `execute`: four counts, the rows, the detail, the events. Writers act
between any two. Textual is external and modelled by its use: `clear()` and `add_row` highlight
the first row, moving the cursor highlights another, and each highlight is an event handled only
when the handler that caused it has returned. `db` is the sequence of files the path has named;
`reset_demo.sh` appends an empty one, and a connection already open keeps the old file. An
exception in a handler, as on a file without tables, ends the application (`Exit`).

### FaultScenario and ScenarioRunner

A fault is what it leaves in force: a file, a child process with a duration, a zombies' parent that
is not a daemon process, a daemon thread, a committed table. `Expire` ends those with a
duration; interpreter exit ends the threads and waits for the zombies' parent. The runner
measures under one of three conditions. Its cycle under `our_system` ends with an exception as soon as
there is a diagnosis (see below), which the model has as it is: `Diagnosis`, then `EvaluateRaises`;
the code after it is unreachable and is not modelled.

### HardwareReport

The choice of the signal made by the caller, then `generate`: urgency, vendor, and the author of the
report. Doubling times are whole hours; the comparisons are with whole numbers, so the tiers are
those of the code, and both sides of 4, 12 and 72 are instances.

### Detectors and DemoDriver

`Run` is one `AnomalyAggregator.run`: update every detector, then ask them. A model follows one metric, since
no detector but the isolation forest looks at two. Comparisons of floating-point quotients are
multiplied out to integers; where a reading lies exactly on a threshold the rounding of the division decides in
the code and the model leaves it open (`Exceeds`). `DemoDriver` goes through the phases of `demo_driver.py`: healthy between any two,
then one of real faults, or one of a simulated device that fails. `run_cycle` feeds the detectors with any
reading the phase allows; what a cycle does with its flags is the daemon's, so it changes nothing here, but it may raise,
and nothing catches that (`Interrupt`). A phase may end after any cycle, which covers both the
duration and the caps on incidents.

### StressRun and StressProcess

One action per step another process or a signal could separate: marking a slot, the test of the flag and the
fork, storing the pid, the test after it, each wait, each reap. The main process handles a
terminating signal at once (`Terminate`, the whole handler: flag, then `stress_kill_stressors`); SIGILL, SIGFPE and SIGABRT
take the other branch of the handler (`FatalSignal`), which signals the stressors and then exits without waiting for
anyone (`Abort`). For stressors and their children a SIGALRM is `pending` from `kill()` or the timer's expiry until
`HandleAlarm`, so that it may arrive on either side of every test and system call; SIGKILL takes effect at once. Each process has its own copy of
the flag, inherited at the fork. `Escalate` is one round of the six signals a stressor sends its
child; the SIGTERM among them runs the handler the child inherited, which signals the other stressors through
the shared table, and the model has that too. The host may kill any process within `MaxKills`, and a dying parent's children
get their `PR_SET_PDEATHSIG` alarm.

Four things that a stressor may end with differ in the exit code of the run (`Status`): success, no resource, an untrustworthy
counter, failure. Two bits of shared memory decide on them (`shared`): `counter_ready`, which a worker has down while it
counts (`BeginCount`, `EndCount`), and whether any worker found bit errors. A worker that dies in between leaves the first
one down; `ExitStressor` then replaces the status, a failure included, by `EXIT_METRICS_UNTRUSTWORTHY`, unless `stress_vm` has put
the counter in order first, which its own `stress_bogo_set` does (`SetCounter`). So the
untrustworthy status cannot come from the two kinds of stressor modelled, and `ExitCodeCoversAll` holds; without that one call (the
variant `LeaveCounter`) TLC finds a run whose bit errors are hidden. A stressor that SIGKILL takes between `stats->completed` and its
checksum has its metrics found corrupted by `stress_metrics_check` (`Corrupted`), and the run fails.

Taken together: `stats->pid` and `stats->signalled` are stored one after the other (`RecordPid`), `signalled` being false before.
`EXIT_SIGNALED`, with which a stressor ends if its copy of `terminate_signum` is set, counts for the exit code as success does, and so it is `ok`.
As the code has it, a stressor told to stop before it has mapped the page for its bit errors ends with
no resource (`MapPage`).

`StressProcess` has three bits: up, load, struck (by SIGKILL, or the main process by a fatal signal). A process that has not been struck takes its load off
before it ends and puts none on afterwards. `StressRun` maps to it by whether the main process, any stressor or any child is
alive.

### SpinMutex

One action per access to shared memory. A store goes to the process's buffer and reaches memory by `Drain`; loads
see the own buffer first; `shim_mfence` waits for an empty one. With `Fifo` stores leave in order,
as on x86; without, stores to different variables may overtake each other, as on Arm or POWER.
Peterson's and Dekker's stressors share the entry, the critical section and the exit; `algorithm`
chooses between their tests. Process 0 is the forked child, whose `g_stress_continue_flag` no signal reaches: it
ends when the operations are done or the parent kills it.

### Variants

A definition introduced by `VARIANT of X` is not part of any specification. It is X with a
plausible bug, kept next to X. For each property of each run one variant is put in the place of its
original, and TLC must then find the property violated (`mutants` in `PROJECT.json`): it shows
that the property depends on the code.

## The runs

States are distinct states, on two workers. Deadlock is checked in every run: where nothing more
happens within the bounds a named step (`Over`, `Done`, `Joining`) stutters.

| run | configuration | states | what it asks |
|---|---|---|---|
| `daemon` | `MCMainLoop` | 273,586 | the eleven properties below, two of liveness among them |
| `dashboard` | `MCDashboard` | 2.1 million | selection, audit panel, detail panel beside every interleaving of writers and a reset |
| `dashboard_live` | `MCDashboardLive` | 90,070 | the four figures; does the detail panel follow the store |
| `campaign` | `MCScenarioRunner` | 253,342 | do faults outlive their run, is there a row per run, does a campaign end |
| `hardware_report` | `MCHardwareReport` | 13,104 | urgency and report for every pair of signals |
| `stress_run` | `MCStressRun` | 3,176,308 | who is left, who was missed, what the exit code tells, is it the process it is taken for |
| `stress_stop` | `MCStressStop` | 274,699 | does a run end when it is told to, and after its timeout |
| `mutex` | `MCSpinMutex` | 72,313 | exclusion, the stressors' test, waiting, ending |
| `demo` | `MCDemoDriver` | 652,492 | what is flagged, what stays in its phase |
| `doc_...` | `Doc*` | until violated | three statements the code does not keep |

**The daemon's properties.** `GatedEffects`: what reached the host was permitted, by a statement of
the gates' rules that does not follow their order, for the diagnosis the store holds under the same
id. `WriteAhead`: snapshot, row and announcement of this very action were on disk before.
`AtMostOnce`: no incident is acted upon twice, over all restarts.
`RowMatchesTrail`: the row and the events,
written apart, agree but in the window between the two writes. `PendingOnlyIfInterrupted`,
`AnomaliesAccounted`: nothing is left open and no cycle is without a conclusion, except what a crash
cut short, which is counted; that an exhausted count of attempts starts afresh is left to the bound in `TypeOK`, and an
update that meets no row is seen here and not in `IncidentSettles`, which is about the rows there are.
`SettledIsPermanent`: a settled row never changes, given that `uuid4` never repeats an id. `GatedEffects` is about
`hardware_involved` and not about the causal chain, which the gates do not read.
`ImplementsContract`: see above. `ShutdownCompletes`, `IncidentSettles`: see Fairness.

**Bounds, daemon.** Two incident ids, two cycles that flag something (`MaxAnomalies`), three starts
(`MaxStarts`): the first two starts may each be cut short at any step and the last may go on, so a
second cycle meets whatever the first left behind in this or an earlier process. Nine replies: two that
act (with and without a parameter), and one for each check of the parser and the gates, which fails
it alone. Cycles that flag nothing and failing collections are unbounded. The ids are not declared
symmetric, since the run has liveness properties.

**Bounds, dashboard.** Three incidents for a table of two rows (`Limit`), so that a selected
incident can be pushed off; two audit events per file; one removal of the database; a queue of three
row events, where a refresh or a key press waits for room. The code's `Limit` is 30 and its queue is
unbounded: a refresh adds at most two events, and the third stands for a user who was quicker than the event
loop. `MCDashboardLive` trades events and resets for both values of the hardware flag and two
outcomes, so that the four figures differ; that no figure is of a removed file is therefore in the theorem only.
`PanelFaithful` begins with the first event of a file that is printed: after a reset the panel
passes over the new file's events up to the id it remembers (`tui.py:140`), which is how the code is.

**Bounds, campaign.** Two campaigns of three runs: the second may begin on what the first left
behind. The three kinds are the one interpreter exit waits for, the one that has no end but cleanup, and
the one whose cleanup may give up waiting; a file fares as a table does and a `stress-ng`
child as zombies that are not waited for. `FaultsOwned` exempts what an aborted campaign left and a thread in its last
call; `RowsFollowSchedule` is about the rows of the campaign in hand, the file being opened for writing anew.

**Bounds, hardware report.** One or two flagged signals of every source and detector,
doubling times 0, 3, 4, 11, 12, 71, 72; three drive models, one of no vendor; both vendor entries.
Longer lists only add signals the report is not about. `CriticalPointsAtFault` is about the diagnoses that do not have the word
"uncorrectable": then Critical points at a component whose errors double within four hours. With the word every report is
Critical, whether or not there were such errors, and nothing in the model could tell.

**Bounds, stress-ng.** `stress_run` has the command line of the cpu fault on two processors (one entry of two
instances) and one that mixes it with a memory stressor (two entries of one), so that `break` leaves
an entry with instances unforked and an entry without; two terminating or fatal signals, because the second call of the handler is
the one that differs; one kill, which a restart of the child survives. Deaths of the worker by SIGBUS or SIGSEGV are in
`stress_stop` only: to its stressor such a death is a kill without the six signals. The code
switches to SIGKILL after five forced calls, the model after one (`SigkillAfter`): the counter is
the same, and a second signal reaches it. `stress_stop` has `--vm 1`, the command line of the memory fault, where the chain of
signals is; liveness over two stressors would multiply its states without adding an actor. The
invariants are proved for all of these numbers.

**Bounds, mutex.** `max_ops` 0 (no limit) and 2, the counter modulo 4: both a decrement of zero and an
increment to the modulus occur. Buffers are unbounded, but the fences keep them at two entries, or three in the
critical section.

**Bounds, demo.** Windows of two to five readings, threshold one, histories kept for four and five,
values up to 2: the smallest numbers for which windows and histories overflow and a reading can be a
spike; `SpikeIsRare` is an inequality in these constants. `doc_spike` has the shipped ones: threshold 3, windows of 10 to
100.

## Fairness

* `MainLoop!FairSpec`: weak fairness of `Step`, that is, a step of `run()` that has begun ends. `Start`,
  `Signal` and `Crash` are not fair. What justifies it: the LLM client has a bounded number of
  attempts and its HTTP library a time-out, the handlers pass a `timeout` to their subprocesses,
  SQLite waits five seconds for a lock and then raises. Two calls have **no** bound in the code:
  `trigger_vacuum.py:9` (connection and `VACUUM ANALYZE`) and `future.result()` in
  `orchestrator.py:43`. If one of these hangs the daemon does, and both liveness properties fail;
  they are stated under the assumption that it does not.
* `LlmAnswers`, `LlmAnswersNothing` and `LlmRaises` share a fairness condition, as do
  `Collect` and `CollectFails`: none of the outcomes is promised. `IncidentSettles` needs none of
  them, since a saved incident has had its answer.
* `Dashboard!FairSpec`: the refresh and the handling of row events, each weakly fair: Textual's
  timer and event loop.
* `ScenarioRunner!FairSpec`: the harness's own steps, and `Ends`: `stress-ng --timeout`, the
  threads' end times and the zombies' `sleep` are real-time bounds. `Joining` stutters while the
  interpreter waits, so a wait for ever would be seen as a violation of `CampaignEnds`.

* `StressRun!FairSpec`: every process runs (`MainStep`, `StressorStep`, `ChildStep`, the handlers of pending signals), and a
  one-second alarm rings. The timeout of the command line is not fair: `TerminateEnds` must not depend on
  it, and `TimeoutEnds` takes its expiry as the premise. Signals, kills and faults are not fair.
* `SpinMutex!FairSpec`: both processes run, and a store leaves its buffer at some time. SIGALRM is
  not fair; `ToldEnds` begins where it has arrived.

## The proofs

TLAPS checks every theorem for all values of the constants: any number of incidents, cycles and
restarts, any whitelist, threshold, set of replies and of reports; any number of stressors, any command line; any
width of the counter and buffers of any length; any schedule of faults and number of campaigns; tables and queues of
any size beside any number of writes and removals. They rest on the named ASSUMEs of the
modules, which TLC evaluates on the instances: `ReportAssumption` (a report flags something),
`NullIsNoReport`, `NullIsNoId`, `NullAssumption` (None is no diagnosis, id, row or word),
`ThresholdAssumption`; `SignalAssumption` and `NullIsNoNumber` of `HardwareReport`;
`StressRunAssumption`, `SpinMutexAssumption`, `ScheduleAssumption`, `DashboardAssumption`,
`DetectorsAssumption` and `DemoDriverAssumption` (types of the constants, and how the windows' lengths compare);
`NullAssumption` of `Dashboard` (None is no row of the screen); and on two hypotheses that stand in the
theorems: `Fifo` in those of `SpinMutexProofs`, without which the second is false (`doc_weak`), and in
`ReportIsProduced` that a report is not None. No constant
set is assumed to be finite.

**`MainLoopProofs`.** The gates come first: `GateSoundness` says that `Evaluate`, an early-return chain, decides on
an action only for what `Permitted` allows, for every whitelist and reply. Then `Inductive`: `IInv` is an
invariant. The safety properties are not inductive as they stand. `GatedEffects` speaks of effects
and rows, and only the knowledge that at `dispatch` the decision in hand is the gates' own, for the
diagnosis that the row in hand still holds, makes the next effect a permitted one. `LocalsOK` says this
of every step; `TrailOK` says what is on disk at every step for the incident in hand (the snapshot
after `snapshot`, the announcement from `dispatch` on, no effect before it, no escalation but at `mark`).
With them every property is preserved by each action, one step of the proof per action and one
below it per conjunct. A crash is the easy case: it empties the hands and touches nothing `IInv`
knows of the disk, except that `PendingOnlyIfInterrupted` needs it to put the id in hand in `lost`.

From `Inductive` follow `TypeCorrect`, `EffectsAreGated`, `EffectsAreWrittenAhead`,
`EffectsAreOnce`, `AuditIsLinked`, `OpenMeansInterrupted`, and `SettledStays`, the action property:
the only steps that write a row write the one in hand, and it is open, or a fresh one.

`PassesAreBounded` is what liveness rests on: every step but the one that begins a pass lowers `ToGo`, which is at most
sixteen (the attempts of the LLM client included), and a pass begins only while the flag is up. That the steps are taken is
the fairness assumption, and is left to TLC.

**`MainLoopTrailProofs`.** What is left of the daemon's safety counts events and effects, of which `IInv` says only that
there are some. `TrailExact` says at which step the incident in hand has exactly one event of each type and an effect, and at which
none: `TrailInductive`. `RowsMatchTheTrail` follows with the two steps that settle a row, which find the one event
there. `EveryAnomalyIsAccounted` is a balance: each action changes both sides by the same number (`ConcludingAppend`
gives the cardinality after an event). `KeepsTheContract` is the refinement: five actions each make one step of the contract, all others
leave what it sees alone (`ContractFrame`), and whether the step is allowed is what `IInv` knows of the decision in hand.

**`ScenarioRunnerProofs`.** `FaultsOwned` and `RowsFollowSchedule` are inductive once it is known that a campaign has a number and a run one,
and that an aborted campaign is past its last cycle (`Progress`). The proof goes over the exits of a run: each either passes through
`CleanUp`, which leaves nothing of its own at work, or puts its campaign among the aborted.
`CampaignsAreBounded`: each step of a campaign of any length, and each interrupt, lowers `ToGo`, at first five for each run and two,
so that all `CampaignEnds` needs beside it is that the harness goes on.

**`DashboardProofs`.** What the writers may do is summed up in `WriterStep`: the rows of a file grow at the end, by incidents no
file knew, and only a pending status changes; a removal adds a file without rows. `IInv` adds to the properties what a refresh has in hand. `FiguresOK`: the
figures read so far lie between the counts at the beginning and now; the upper bound holds because no write takes a row
out of a count (`CountGrows`), which would be false of a count of pending ones. `PanelOK`: the last line printed is the remembered id, of no
later file. `SelectionOK`: the last row event waiting is about the selected incident, and with none waiting the
panel is; a rebuild preserves it because the highlight of the restored cursor is posted after that of the first row (`RebuildPosts`), a write
because a row cannot come back (`RowsUnderWriters`).

**`HardwareReportProofs`.** `UrgencyIsMonotone`: for all signals, whatever their doubling times, a faster fault
is in no calmer tier and gets no longer to live. The arithmetic across the thresholds is the lemma
`AssessMonotone`; the invariant `ReportInv` adds that the urgency is `Assess` of the signal in hand.
`CriticalIsCaused` needs that the signal was one of those flagged, hence that the first position of a
non-empty set exists (`FirstPosition`, because strict inclusion among the parts of a finite set is well founded), and that
the report took its tier from the urgency.

`ReportIsProduced` adds `Located`: the signal picked is of a hardware source unless none was flagged, and
the report is worded from it.

**`StressRunProofs`.** None of the five properties is inductive. `IInv` has two halves. `Families` says of each
stressor and its child what their program counters allow: a stressor waits only while its child is there or a zombie, the
index into the six signals has passed SIGKILL only when the child is dead, a child at work has asked for the parent's death
signal. `StressorLeavesNoChild` follows. `Bookkeeping` ties the table to the processes and to the place of the
main process: instances are forked in order (`ForkOrder`), a slot holds a pid from `RecordPid` to the reap (`SlotOK`), behind
the wait loop all are reaped (`WaitedFor`), and when the flag is down every live stressor has been told but the
one whose pid is just being recorded, which `CheckStartup` is about to tell (`StopOK`). The last is why the
code looks at the flag once more after the fork; without it (the variant `SkipStartupCheck`) the stressor
is missed. `CodeOK` has the exit code as the worst status of those reaped so far. `CounterOK` says of the shared bits what the exit code needs: a
counter that is not ready belongs to a vm stressor that has not returned from its function yet, and one that has returned
with bit errors on record has failed. One lemma per action and half;
frame lemmas say what an action that touches one process leaves alone. `Implements`, the refinement, uses that
load can come up only while the main process is up, or after a kill or a fatal signal.

**`SpinMutexProofs`.** The invariant describes the store buffers exactly: at each program counter the stores a
process may still have in its buffer are a suffix of a known sequence (flag; flag and turn; check, turn and
flag), because every path into the waiting loop and out of the section goes through a fence. From it the
memory and the reader's view of each variable are known up to that suffix, and the exclusion argument is the textbook
one on top: whoever is inside, or past the fence, has its flag in memory, so the other sees it; and of two that
both passed the test, one saw the turn. For Dekker no turn is needed for exclusion, only the flags. `CheckHolds` follows
because nobody else's store to `check` is under way while one is inside: `Leave` is ordered behind `StoreCheck`, which is what
`Fifo` is for.

`OvertakenAtMostOnce` is the safety half of `WaitEnds` for Peterson: while p asks (its flag and turn written), the other
process gets to ask only by giving p the turn, p never loses the turn, and whoever has given it away is not inside. So the
other one enters once at most, on the turn it had. Nothing like it is claimed of Dekker's stressor.

**`DemoDriverProofs`.** `NeverBleeds` needs that the history is clean *between* two phases as well, which is what the second reset of
`run_hardware_fault` gives (`HistoryOK`); that a cycle's truncation keeps what it keeps is `LastOfFacts`. For `FaultsOfThePhase` each fault in
force is of a scenario still to be cleaned up, or in its last call (`FaultsOK`): `ToCleanUp` shrinks as the loop of
cleanups goes on.

`SpikesAreRare` is arithmetic. Of n readings whose sum is T and whose squares add up to Q, k equal to x, the flag says
(nx - T)^2 > t(nQ - T^2), t the square of the threshold; the claim is (t+1)k <= n. Moving x to the origin (`Shifted`) leaves both sides as they
are, after which k readings are zero and `FewZeros` gives T^2 <= (n-k)Q, that is Cauchy-Schwarz for those that are not: `ExceedsRarely`. `Total` is a
recursive function, hence total on sums of any length, and what would be inductions over the length are done on prefix sums (`PrefixSums`):
`Climb` takes the least length at which a statement about the prefixes fails (`LeastNat`, from `WFMin`) and
refutes it with the step from the one before. It needs no operator for a parameter, only a set. The invariant `Rare` is `SpikeIsRare`
without the case in which nothing has been read; a phase's cycle establishes it, and what comes between clears the flags or leaves the
window alone. `SpikesAreBounded` is what an operator of the detector would want to know: until the window has more readings than the
square of the threshold (9, as shipped) nothing can be flagged, so that a window that starts to test at ten does so at the first
useful length, and a value with more than a tenth of a full window to itself is never a spike.

**Checked by TLC only.** Liveness (`ShutdownCompletes`, `IncidentSettles`, `CampaignEnds`, `WaitEnds`, `ToldEnds` and the like):
fairness (ENABLED) is beyond the prover; for three of the systems the theorems above give the part that needs no fairness. The
statements the three `doc_` runs refute. Every invariant and action property of the other runs is proved. No module uses a recursive operator.
Each `IInv`, each of the ranking statements (`Onward`, `NearerTheEnd`, `OvertakenOnce`), `Rare` and `SpikeBounds` were model-checked before they were
proved and are in no run.

## Where the documents and the code disagree

Three of these are runs; each violates one statement, quoted in `PROJECT.json` with its line.

* `doc_recorded` (a bug): `correlate()` returns a pair, `run_single` passes the pair to `evaluate`, and the
  campaign ends with an `AttributeError`, its fault in force and no row for the run.
* `doc_weak` (a bug, on processors that do not keep stores in order): no fence stands between the store of the counter and the store
  that gives the critical section up, so the mutex check of `stress-peterson.c:78` can fail on a
  sound machine. With stores in order it never does, which is proved.
* `doc_spike`: "10 normal readings then one 5-sigma spike → flagged". The spike is part of the mean and deviation
  it is compared with, and scores 2.6.

Read off the code while it was modelled, and not run:

* A crash after `save_incident` leaves an open row that no restart looks for, against `info.txt:142`
  ("Nothing is silently dropped"); `PendingOnlyIfInterrupted` says that only a crash does.
* A discarded reply is escalated without "the raw anomaly data" of `info.txt:101`: `log_escalation` drops the report of an
  escalation that has no incident. The gate reads one boolean of the reply and not the causal chain, against `info.txt:111`.
* A failed action is recorded and escalated to no one: `run()` prints the failure and goes on (`main_loop.py:146`), against
  `info.txt:124`, "the system escalates anyway, even though it already tried to fix it". The contract allows that step, and
  the daemon never takes it.
* "CRITICAL: doubling faster than 4 hours OR any uncorrectable errors" (`project_overview.md:542`): the report asks whether the
  diagnosis has the word (`report_generator.py:20`), so a flagged count of uncorrectable errors may be ranked Monitor, and "no
  uncorrectable errors" is Critical.
* A signal flagged for SMART acceleration carries no doubling time and is always "Monitor", against
  `info.txt:132`. Any single step of a steady count has a positive second difference and is flagged as accelerating.
* The z-score windows outlive the phases of the demonstration, failing readings included: `reset_hw_history`
  clears the two histories only. A hardware phase lasts too short a time, at one cycle in three seconds, for the
  ten readings SMART acceleration needs. During `idle_gap` "monitoring continues" is printed and nothing monitors.
* `stress-ng.c:530` says that "multiple calls will always fallback to SIGKILL"; the first call marks every
  stressor as signalled, and a later one sends a marked stressor nothing. `core-helper.c:1104` promises a
  SIGALRM when the parent dies, which a child forked just before the parent's death does not get.
  A fork that fails leaves the exit code at success.
* `log_gate_result` (`audit_logger.py:12`) has no caller, against `info.txt:142` ("which gate passed or
  failed" is in the log).
* The dashboard counts a failed action as "Auto-remediated" (`tui.py:41`, `:89`, `:163`).
* A run whose LLM call failed has a `resolved_at` (`scenario_runner.py:141`), against
  `project_overview.md:744`; a run whose injection did nothing can be a true positive
  (`scenario_runner.py:179`), against `:746`.
* The hardware report is about the *first* hardware signal, and the ECC rate is appended last, so a
  doubling within hours is hidden by any SMART or IPMI spike (`main_loop.py:153`), against
  `file_structure_explained.md:142`.
* `isolation_forest.py:69` compares `score_samples`, which lies well below -0.1 for ordinary points, with -0.1: once
  trained it flags practically every cycle.

## Abstractions

* Texts are what the properties tell apart. A reply is a decoded object with something before and
  after it; pydantic's coercions are done. Confidence is in hundredths. A causal chain is the set of
  components it names. A regular expression is the set of values it accepts. An audit event's text is the set
  of facts in it. A human report is its form and what it is about.
* Time is order. Polling, back-off and measurement intervals are steps that may take any time.
* Whether the InfluxDB write succeeds is invisible: `write` swallows its last failure, the loop the
  others, and nothing reads telemetry back.
* `uuid4` is fresh, by assumption: `Insert` and `SaveIncident` pick an id no row has.
* The vendor table is there and is JSON; `lookup` without it raises, which in the daemon is a `Crash` at
  `escalate`.
* What an action does to the host is not modelled, only that it was invoked, with what, and how it ended.
* `verify_injected` decides nothing and changes nothing.

## Not modelled

* The collectors' readings of `/proc`, `psutil` and `smartctl`, and the pool that runs them; the simulators' random curves (`DemoDriver` has the
  values they may give); the isolation forest, which is scikit-learn's; the prompt's wording; the
  evaluation's statistics (pandas, scipy); `settings.yaml` (read by no code); layout of the dashboard; the files of
  no bytes, all tests among them.
* Of `stress-ng`, in the runs modelled: `--sequential`, `--permute`, `--abort`, `--oomable`, `--aggressive` and the other options no
  scenario passes; signals sent by others to a stressor directly, its own fatal signals among them; `--klog-check`, which may turn the exit code to failure (`stress_klog_stop`); reuse of a pid between `waitpid` and the clearing
  of its slot.
* The other three hundred stressors of `stress-ng`, which are nearly all of the C code in the repository: about 200,000
  lines. Each is an independent loop that calls one part of the kernel or the processor with many arguments, keeps no state and talks to no other
  part of the program; nothing in this repository starts one of them but cpu and vm. A model of such a loop would restate it, with
  no property that could fail. So the models cover well under a hundredth of the C lines, and this is where the
  share will stay: what is modelled of `stress-ng` is the part with control in it that the faults depend on, and the two algorithms.

## The plan

Done, in this order: store, parser and gates; the daemon; its contract; its inductive invariant and
proofs; the dashboard; the fault scenarios and the harness; the hardware report and its proofs; `stress-ng`'s run
control with its abstract process, its invariant and its refinement proved; the two mutual exclusion algorithms and
their proofs; the detectors and the demonstration; the daemon's trail, its balance and its contract proved; the harness, the
dashboard and the demonstration proved, the arithmetic of the spikes included; the bounds on passes, campaigns and overtaking.

Every safety property of a run is now proved. What would come next: a model of `collect()` with its pool, one collector
failing or slow, in front of the detectors, so that the order of the isolation forest's vector can be asked about;
the ECC and SMART histories of two devices at once.
