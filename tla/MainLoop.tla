------------------------------ MODULE MainLoop ------------------------------
(***************************************************************************)
(* The daemon (pipeline/main_loop.py): one cycle collects telemetry, looks *)
(* for anomalies, asks a language model for a diagnosis, passes it through *)
(* the gates, and acts or escalates, leaving a trail in the store.  The    *)
(* store, the snapshots and the host outlive the process; its variables do *)
(* not.  The process may be killed, or die of an exception no handler      *)
(* catches, between any two steps, and may be started again.               *)
(***************************************************************************)
EXTENDS IncidentStore, FiniteSets

CONSTANTS
    AnomalyReport,  \* the sequences of flagged signals a cycle may raise
    Reply,          \* the texts the language model may answer with
    MaxAnomalies,   \* bound: cycles that flag something
    MaxStarts       \* bound: times the process is started

\* TelemetryReading.source, and "system" for the isolation forest.
Source == {"smart", "ipmi", "ecc", "proc", "disk", "process", "system"}

ASSUME ReportAssumption ==
    \A r \in AnomalyReport : r \in Seq(Source) /\ r # << >>

Retries == 3        \* LLMClient.call

VARIABLES
    pc,             \* the step the process takes next
    running,        \* the module's global
    report,         \* report.flagged_signals of this cycle
    attempt,        \* attempts LLMClient.call has made
    incident,       \* the diagnosis of this cycle
    incident_id,    \* its id in the store
    decision,       \* what the gates decided
    success,        \* what the action handler returned
    snapshots,      \* ids with a state.json in SNAPSHOT_DIR
    effects,        \* HOST: the action handlers invoked, in order
    anomalies,      \* HISTORY: cycles that flagged something
    interrupted,    \* HISTORY: those of them a crash cut short
    lost,           \* HISTORY: ids a crash found in hand
    starts          \* bound on restarts

locals  == <<report, attempt, incident, incident_id, decision, success>>
host    == <<snapshots, effects>>
history == <<anomalies, interrupted, lost, starts>>
vars    == <<pc, running, locals, store, host, history>>

Down   == {"down", "exited"}
Live   == {"startup", "loop", "collect", "detect", "sleep"} \cup
          {"llm", "llm_none", "parse_failed", "llm_failed", "save", "created",
           "gate", "snapshot", "log_start", "dispatch", "log_complete",
           "record", "escalate", "mark"}

\* Steps of a cycle that flagged something and has not yet written the audit
\* event that concludes it, and those between that event and the row.
Unconcluded == {"llm", "llm_none", "parse_failed", "llm_failed", "save",
                "created", "gate", "snapshot", "log_start", "dispatch",
                "log_complete", "escalate"}
Unrecorded  == {"record", "mark"}

-----------------------------------------------------------------------------
NoLocals ==
    /\ report' = NULL       /\ attempt' = 0
    /\ incident' = NULL     /\ incident_id' = NULL
    /\ decision' = NULL     /\ success' = NULL

Init ==
    /\ StoreInit
    /\ pc = "down"          /\ running = FALSE
    /\ report = NULL        /\ attempt = 0
    /\ incident = NULL      /\ incident_id = NULL
    /\ decision = NULL      /\ success = NULL
    /\ snapshots = {}       /\ effects = << >>
    /\ anomalies = 0        /\ interrupted = 0
    /\ lost = {}            /\ starts = 0

Goto(from, to) == pc = from /\ pc' = to

-----------------------------------------------------------------------------
(* The life of the process.                                                *)

\* The interpreter loads the module: globals are set afresh.
Start ==
    /\ pc \in Down
    /\ pc' = "startup"
    /\ starts < MaxStarts
    /\ starts' = starts + 1
    /\ running' = TRUE
    /\ UNCHANGED <<locals, store, host, anomalies, interrupted, lost>>

\* startup_checks and the constructors; one that raises is a Crash.
StartUp ==
    /\ Goto("startup", "loop")
    /\ UNCHANGED <<running, locals, store, host, history>>

\* SIGTERM or SIGINT: the handler runs between two bytecodes of any step.
\* A sleep it interrupts resumes for the time that was left.
Signal ==
    /\ pc \in Live
    /\ running
    /\ running' = FALSE
    /\ UNCHANGED <<pc, locals, store, host, history>>

\* SIGKILL, power, or an exception run() does not catch: one of the store, of
\* the snapshot directory, of a detector or of a constructor.
Crash ==
    /\ pc \in Live
    /\ pc' = "down"
    /\ running' = FALSE
    /\ NoLocals
    /\ interrupted' = interrupted + IF pc \in Unconcluded THEN 1 ELSE 0
    /\ lost' = lost \cup ({incident_id} \ {NULL})
    /\ UNCHANGED <<store, host, anomalies, starts>>

\* VARIANT of Loop: the flag is not looked at again.
LoopForever ==
    /\ Goto("loop", "collect")
    /\ UNCHANGED <<running, locals, store, host, history>>

\* while running
Loop ==
    /\ pc = "loop"
    /\ pc' = IF running THEN "collect" ELSE "exited"
    /\ UNCHANGED <<running, locals, store, host, history>>

Sleep ==
    /\ Goto("sleep", "loop")
    /\ NoLocals
    /\ UNCHANGED <<running, store, host, history>>

-----------------------------------------------------------------------------
(* Collecting and detecting.                                               *)

\* orchestrator.collect() may raise: the cycle is skipped.
CollectFails ==
    /\ Goto("collect", "sleep")
    /\ UNCHANGED <<running, locals, store, host, history>>

\* Whether the InfluxDB write that follows succeeds makes no difference.
Collect ==
    /\ Goto("collect", "detect")
    /\ UNCHANGED <<running, locals, store, host, history>>

NothingFlagged ==
    /\ Goto("detect", "sleep")
    /\ UNCHANGED <<running, locals, store, host, history>>

Flag ==
    /\ Goto("detect", "llm")
    /\ anomalies < MaxAnomalies
    /\ anomalies' = anomalies + 1
    /\ report' \in AnomalyReport
    /\ UNCHANGED <<running, attempt, incident, incident_id, decision, success,
                   store, host, interrupted, lost, starts>>

-----------------------------------------------------------------------------
(* Reasoning (reasoning/correlator.py).                                    *)

\* The model answers, with a text or with an empty choice; the text is
\* parsed at once.
LlmAnswers ==
    /\ pc = "llm"
    /\ \E raw \in Reply :
         /\ incident' = Parse(raw)
         /\ pc' = IF Parse(raw) = NULL THEN "parse_failed" ELSE "save"
    /\ UNCHANGED <<running, report, attempt, incident_id, decision, success,
                   store, host, history>>

LlmAnswersNothing ==
    /\ Goto("llm", "llm_none")
    /\ UNCHANGED <<running, locals, store, host, history>>

\* VARIANT of LlmRaises: one attempt too many.
LlmRaisesOnceMore ==
    /\ pc = "llm"
    /\ attempt' = attempt + 1
    /\ pc' = IF attempt' <= Retries THEN "llm" ELSE "llm_none"
    /\ UNCHANGED <<running, report, incident, incident_id, decision, success,
                   store, host, history>>

\* An attempt raises; the last one makes call() return None.
LlmRaises ==
    /\ pc = "llm"
    /\ attempt' = attempt + 1
    /\ pc' = IF attempt' < Retries THEN "llm" ELSE "llm_none"
    /\ UNCHANGED <<running, report, incident, incident_id, decision, success,
                   store, host, history>>

LogLlmCallFailed ==
    /\ Goto("llm_none", "llm_failed")
    /\ save_audit_event(NULL, "llm_call_failed", {})
    /\ UNCHANGED <<running, locals, incidents, host, history>>

LogParseFailed ==
    /\ Goto("parse_failed", "llm_failed")
    /\ save_audit_event(NULL, "parse_failed", {})
    /\ UNCHANGED <<running, locals, incidents, host, history>>

\* VARIANT of SaveIncident: the id is not fresh, the row there is replaced.
SaveIncidentAnyId ==
    /\ Goto("save", "created")
    /\ \E id \in IncidentId : incident_id' = id /\ save_incident(id, incident)
    /\ UNCHANGED <<running, report, attempt, incident, decision, success,
                   audit_log, host, history>>

\* VARIANT of SaveIncident: an error of the store is swallowed, the id is used
\* all the same.
SaveIncidentUnsaved ==
    /\ Goto("save", "created")
    /\ \E id \in IncidentId : incidents[id] = NULL /\ incident_id' = id
    /\ UNCHANGED <<running, report, attempt, incident, decision, success,
                   store, host, history>>

\* uuid4 gives an id no row has.
SaveIncident ==
    /\ Goto("save", "created")
    /\ \E id \in IncidentId :
         /\ incidents[id] = NULL
         /\ incident_id' = id
         /\ save_incident(id, incident)
    /\ UNCHANGED <<running, report, attempt, incident, decision, success,
                   audit_log, host, history>>

LogCreated ==
    /\ Goto("created", "gate")
    /\ save_audit_event(incident_id, "incident_created", {incident.fault_category})
    /\ UNCHANGED <<running, locals, incidents, host, history>>

\* VARIANT of EscalateRaw: log_escalation returns early when it has no id.
EscalateRawNothing ==
    /\ Goto("llm_failed", "sleep")
    /\ UNCHANGED <<running, locals, store, host, history>>

\* No diagnosis: log_escalation with no id writes the reason and nothing
\* else, the human report it is given has no row to go to.
EscalateRaw ==
    /\ Goto("llm_failed", "sleep")
    /\ save_audit_event(NULL, "escalation", {"llm_failed"})
    /\ UNCHANGED <<running, locals, incidents, host, history>>

-----------------------------------------------------------------------------
(* Deciding, and acting (remediation/executor.py).                         *)

Gate ==
    /\ pc = "gate"
    /\ decision' = Evaluate(incident, incident_id)
    /\ pc' = IF decision'.kind = "action" THEN "snapshot" ELSE "escalate"
    /\ UNCHANGED <<running, report, attempt, incident, incident_id, success,
                   store, host, history>>

\* VARIANT of TakeSnapshot: a snapshot that fails is passed over.
TakeSnapshotOrNot ==
    /\ Goto("snapshot", "log_start")
    /\ snapshots' \in {snapshots, snapshots \cup {decision.incident_id}}
    /\ UNCHANGED <<running, locals, store, effects, history>>

TakeSnapshot ==
    /\ Goto("snapshot", "log_start")
    /\ snapshots' = snapshots \cup {decision.incident_id}
    /\ UNCHANGED <<running, locals, store, effects, history>>

\* What the text of an audit event says of an action.
Facts(action_id, parameters) ==
    {action_id} \cup {parameters[name] : name \in DOMAIN parameters}

LogStart ==
    /\ Goto("log_start", "dispatch")
    /\ save_audit_event(decision.incident_id, "action_starting",
                        Facts(decision.action_id, decision.parameters))
    /\ UNCHANGED <<running, locals, incidents, host, history>>

\* VARIANT of Dispatch: a handler that fails is tried again.
DispatchRetried ==
    /\ pc = "dispatch"
    /\ effects' = Append(effects,
           [ incident_id |-> decision.incident_id,
             action_id   |-> decision.action_id,
             parameters  |-> decision.parameters ])
    /\ success' \in BOOLEAN
    /\ pc' = IF success' THEN "log_complete" ELSE "dispatch"
    /\ UNCHANGED <<running, report, attempt, incident, incident_id, decision,
                   store, snapshots, history>>

\* The handler runs and reports; every one of them turns an exception, a
\* timeout included, into a failure.
Dispatch ==
    /\ Goto("dispatch", "log_complete")
    /\ effects' = Append(effects,
           [ incident_id |-> decision.incident_id,
             action_id   |-> decision.action_id,
             parameters  |-> decision.parameters ])
    /\ success' \in BOOLEAN
    /\ UNCHANGED <<running, report, attempt, incident, incident_id, decision,
                   store, snapshots, history>>

Outcome == IF success THEN "success" ELSE "failed"

\* VARIANT of LogComplete: the trail always tells of success.
LogCompleteSuccess ==
    /\ Goto("log_complete", "record")
    /\ save_audit_event(decision.incident_id, "action_complete",
                        {decision.action_id, "success"})
    /\ UNCHANGED <<running, locals, incidents, host, history>>

LogComplete ==
    /\ Goto("log_complete", "record")
    /\ save_audit_event(decision.incident_id, "action_complete",
                        {decision.action_id, Outcome})
    /\ UNCHANGED <<running, locals, incidents, host, history>>

\* VARIANT of RecordOutcome: only a success is recorded.
RecordSuccess ==
    /\ Goto("record", "sleep")
    /\ IF success
       THEN update_outcome(decision.incident_id, decision.action_id, Outcome)
       ELSE UNCHANGED incidents
    /\ UNCHANGED <<running, locals, audit_log, host, history>>

RecordOutcome ==
    /\ Goto("record", "sleep")
    /\ update_outcome(decision.incident_id, decision.action_id, Outcome)
    /\ UNCHANGED <<running, locals, audit_log, host, history>>

-----------------------------------------------------------------------------
(* Escalating (remediation/audit_logger.py, log_escalation).               *)

\* The signal a hardware report is written about: the first flagged one with
\* a hardware source, else the first one.
HardwareSignal ==
    LET hardware == {i \in DOMAIN report : report[i] \in {"smart", "ecc", "ipmi"}}
    IN  IF hardware = {} THEN report[1]
        ELSE report[CHOOSE i \in hardware : \A j \in hardware : i <= j]

HumanReport ==
    IF incident.hardware_involved
    THEN [form |-> "hardware", about |-> HardwareSignal]
    ELSE [form |-> "plain",    about |-> incident.root_cause_component]

LogEscalation ==
    /\ Goto("escalate", "mark")
    /\ save_audit_event(incident_id, "escalation", {decision.gate_failed})
    /\ UNCHANGED <<running, locals, incidents, host, history>>

MarkEscalated ==
    /\ Goto("mark", "sleep")
    /\ update_escalated(incident_id, HumanReport)
    /\ UNCHANGED <<running, locals, audit_log, host, history>>

-----------------------------------------------------------------------------
\* Within the bounds no one starts the process again.
Over == pc \in Down /\ starts = MaxStarts /\ UNCHANGED vars

Detection == CollectFails \/ Collect \/ NothingFlagged \/ Flag
Reasoning == LlmAnswers \/ LlmAnswersNothing \/ LlmRaises \/ LogLlmCallFailed
             \/ LogParseFailed \/ SaveIncident \/ LogCreated \/ EscalateRaw
Acting    == Gate \/ TakeSnapshot \/ LogStart \/ Dispatch \/ LogComplete
             \/ RecordOutcome
Escalating == LogEscalation \/ MarkEscalated

\* One step of run().
Step == StartUp \/ Loop \/ Sleep \/ Detection \/ Reasoning \/ Acting \/ Escalating

Next == Start \/ Step \/ Signal \/ Crash \/ Over

Spec == Init /\ [][Next]_vars

\* Every step of the daemon ends: the calls it waits for have a timeout or a
\* bounded number of retries (README, Fairness, names the two that have not).
FairSpec == Spec /\ WF_vars(Step)

-----------------------------------------------------------------------------
(* Types.                                                                  *)

\* What BuildParams may give.
ParamValue == {"500M", "public", ""} \cup {ServiceUnit[c] : c \in Component}

Parameters ==
    UNION {[{d.name : d \in whitelist[a].parameters} -> ParamValue] : a \in DOMAIN whitelist}

\* The words an audit event is made of.
Word ==
    VALID_FAULT_CATEGORIES \cup DOMAIN whitelist \cup ParamValue \cup
    {"success", "failed", "llm_failed", "confidence", "hardware", "whitelist"}

Row ==
    [ incident       : IncidentReport,
      action_taken   : DOMAIN whitelist \cup {NULL},
      action_outcome : {"success", "failed", NULL},
      escalated      : BOOLEAN,
      human_report   : {NULL} \cup [form : {"hardware", "plain"}, about : Source \cup Component] ]

Event ==
    [ incident_id : IncidentId \cup {NULL},
      event_type  : {"llm_call_failed", "parse_failed", "incident_created",
                     "action_starting", "action_complete", "escalation"},
      detail      : SUBSET Word ]

Effect ==
    [ incident_id : IncidentId, action_id : DOMAIN whitelist, parameters : Parameters ]

ASSUME NullAssumption == NULL \notin Row /\ NULL \notin Word

\* Every variable holds what the code can put there.
TypeOK ==
    /\ pc \in Down \cup Live
    /\ running \in BOOLEAN
    /\ report \in AnomalyReport \cup {NULL}
    /\ attempt \in 0..Retries
    /\ incident \in IncidentReport \cup {NULL}
    /\ incident_id \in IncidentId \cup {NULL}
    /\ success \in BOOLEAN \cup {NULL}
    /\ incidents \in [IncidentId -> Row \cup {NULL}]
    /\ audit_log \in Seq(Event)
    /\ snapshots \subseteq IncidentId
    /\ effects \in Seq(Effect)
    /\ lost \subseteq IncidentId
    /\ anomalies \in Nat
    /\ interrupted \in Nat
    /\ starts \in Nat

-----------------------------------------------------------------------------
(* Safety.                                                                 *)

\* Whatever was done to the host was allowed, by the three gates and the
\* whitelist, for the diagnosis the store holds under the same id: no row is
\* replaced, and no decision is used for another incident than its own.
GatedEffects ==
    \A i \in DOMAIN effects :
        LET e == effects[i]
        IN  /\ incidents[e.incident_id] # NULL
            /\ Permitted(incidents[e.incident_id].incident,
                         e.action_id, e.parameters)

\* Nothing is done to the host before the snapshot, the incident's row and
\* the audit event that announces this very action are on disk, so that a
\* crash never leaves an action without a trace.
WriteAhead ==
    \A i \in DOMAIN effects :
        LET e == effects[i]
        IN  /\ e.incident_id \in snapshots
            /\ incidents[e.incident_id] # NULL
            /\ \E j \in Events(e.incident_id, "action_starting") :
                   audit_log[j].detail = Facts(e.action_id, e.parameters)

\* An incident is acted on at most once, over every retry and restart.
AtMostOnce ==
    \A i, k \in DOMAIN effects :
        effects[i].incident_id = effects[k].incident_id => i = k

\* audit_log.incident_id has no foreign key, yet an event that names an
\* incident always finds its row, and the row's creation was logged first.
AuditLinked ==
    \A i \in DOMAIN audit_log :
        LET id == audit_log[i].incident_id
        IN  id # NULL =>
              /\ incidents[id] # NULL
              /\ \E j \in Events(id, "incident_created") : j <= i

\* Row and trail are written by separate transactions and still agree: what
\* the row says was logged before, once; what the trail concludes is in the
\* row, unless the daemon is between the two writes or died there.
RowMatchesTrail ==
    \A id \in IncidentId : incidents[id] # NULL =>
        LET row == incidents[id]
        IN  /\ row.escalated => Cardinality(Events(id, "escalation")) = 1
            /\ row.action_outcome # NULL =>
                 /\ Cardinality(Events(id, "action_starting")) = 1
                 /\ {audit_log[i].detail : i \in Events(id, "action_complete")}
                        = {{row.action_taken, row.action_outcome}}
            /\ Logged(id, "escalation") \/ Logged(id, "action_complete") =>
                 \/ Settled(id)
                 \/ id \in lost
                 \/ pc \in Unrecorded /\ id = incident_id

\* An incident left open is the one in hand or one a crash found in hand.
PendingOnlyIfInterrupted ==
    \A id \in IncidentId : Pending(id) => id \in lost \cup {incident_id}

\* Each cycle that flags something leaves exactly one concluding event, an
\* escalation or a completed action, unless a crash cut it short: none is
\* skipped by an early return and none is concluded twice.
AnomaliesAccounted ==
    LET concluded == {i \in DOMAIN audit_log :
            audit_log[i].event_type \in {"escalation", "action_complete"}}
    IN  anomalies = Cardinality(concluded) + interrupted
                      + IF pc \in Unconcluded THEN 1 ELSE 0

-----------------------------------------------------------------------------
(* The inductive invariant behind the safety properties.                   *)

\* Steps with an id in hand, those of the executor, those of an escalation.
ToAct  == {"snapshot", "log_start", "dispatch", "log_complete", "record"}
ToTell == {"escalate", "mark"}
HasId  == {"created", "gate"} \cup ToAct \cup ToTell

\* What the process's variables hold at each step, and that the row in hand
\* is its own and open.
LocalsOK ==
    /\ pc = "llm" => attempt < Retries
    /\ pc \notin Unconcluded \cup Unrecorded \cup {"sleep"} => attempt = 0
    /\ pc \in Unconcluded \cup Unrecorded => report \in AnomalyReport
    /\ pc = "save" => incident \in IncidentReport
    /\ pc \in HasId =>
         /\ incident_id \in IncidentId
         /\ incident \in IncidentReport
         /\ Pending(incident_id)
         /\ incidents[incident_id].incident = incident
    /\ pc \notin HasId \cup {"sleep"} => incident_id = NULL
    /\ pc = "sleep" /\ incident_id # NULL => ~Pending(incident_id)
    /\ pc \in ToAct => /\ decision = Evaluate(incident, incident_id)
                       /\ decision.kind = "action"
    /\ pc \in ToTell => /\ decision = Evaluate(incident, incident_id)
                        /\ decision.kind = "escalation"
    /\ pc \in {"log_complete", "record"} => success \in BOOLEAN

\* What the store and the host hold of the incident in hand.
TrailOK ==
    /\ pc \in ToAct \ {"snapshot"} => incident_id \in snapshots
    /\ pc \in {"dispatch", "log_complete", "record"} =>
         \E j \in Events(incident_id, "action_starting") :
             audit_log[j].detail = Facts(decision.action_id, decision.parameters)
    /\ pc \in HasId \ {"created"} => Logged(incident_id, "incident_created")
    /\ pc \in HasId \ {"mark"} => ~Logged(incident_id, "escalation")
    /\ pc \in HasId \ {"log_complete", "record"} =>
         \A i \in DOMAIN effects : effects[i].incident_id # incident_id

IInv == /\ TypeOK /\ LocalsOK /\ TrailOK
        /\ GatedEffects /\ WriteAhead /\ AtMostOnce /\ AuditLinked
        /\ PendingOnlyIfInterrupted

\* The events and the effect of the incident in hand, each there once from the
\* step that leaves it on and not before.
TrailExact ==
    /\ pc \in HasId \ {"record"} => ~Logged(incident_id, "action_complete")
    /\ pc \in HasId \ {"dispatch", "log_complete", "record"} =>
         ~Logged(incident_id, "action_starting")
    /\ pc \in {"dispatch", "log_complete", "record"} =>
         \E i \in DOMAIN audit_log : Events(incident_id, "action_starting") = {i}
    /\ pc \in {"log_complete", "record"} =>
         \E i \in DOMAIN effects : effects[i].incident_id = incident_id
    /\ pc = "record" =>
         \E i \in DOMAIN audit_log :
             /\ Events(incident_id, "action_complete") = {i}
             /\ audit_log[i].detail = {decision.action_id, Outcome}
    /\ pc = "mark" => \E i \in DOMAIN audit_log : Events(incident_id, "escalation") = {i}

-----------------------------------------------------------------------------
(* Action properties.                                                      *)

\* Once a row says what came of an incident no later cycle, and no restart,
\* changes it: INSERT OR REPLACE never meets it and no update reaches it.
SettledIsPermanent ==
    [][\A id \in IncidentId : Settled(id) => incidents'[id] = incidents[id]]_vars

-----------------------------------------------------------------------------
(* Liveness.                                                               *)

\* A daemon told to stop does stop, whatever the model and the collectors do.
ShutdownCompletes == (pc \in Live /\ ~running) ~> pc \in Down

\* Every incident saved comes to have an outcome in its row, by an action or
\* a human, unless a crash found it in hand.
IncidentSettles ==
    \A id \in IncidentId : Pending(id) ~> (Settled(id) \/ id \in lost)

-----------------------------------------------------------------------------
(* The contract.                                                           *)

\* The effects on the host for an incident.
EffectsFor(id) == {i \in DOMAIN effects : effects[i].incident_id = id}

\* The trail tells of an action for it that failed.
ActionFailed(id) ==
    \E i \in Events(id, "action_complete") : "failed" \in audit_log[i].detail

ContractDiagnosis ==
    [id \in IncidentId |-> IF incidents[id] = NULL THEN NULL ELSE incidents[id].incident]

ContractStatus ==
    [id \in IncidentId |->
        IF incidents[id] = NULL                    THEN "unknown"
        ELSE IF Logged(id, "escalation")           THEN "escalated"
        ELSE IF ActionFailed(id)                   THEN "failed"
        ELSE IF Logged(id, "action_complete")      THEN "resolved"
        ELSE IF Logged(id, "action_starting")      THEN "announced"
        ELSE "open"]

ContractPerformed == [id \in IncidentId |-> Cardinality(EffectsFor(id))]

Contract == INSTANCE RemediationContract WITH
    Diagnosis   <- IncidentReport,
    MayAct      <- {d \in IncidentReport : Actionable(d)},
    NoDiagnosis <- NULL,
    diagnosis   <- ContractDiagnosis,
    status      <- ContractStatus,
    performed   <- ContractPerformed

\* Read through the store and the host alone, the daemon with its cycles,
\* signals, crashes and restarts keeps the contract.
ImplementsContract == Contract!Spec

=============================================================================
