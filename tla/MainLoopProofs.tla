--------------------------- MODULE MainLoopProofs ---------------------------
(***************************************************************************)
(* Proofs about the daemon, for every whitelist, every set of replies and  *)
(* reports, and any number of incidents, cycles, crashes and restarts.     *)
(***************************************************************************)
EXTENDS MainLoop, TLAPS, WellFoundedInduction

-----------------------------------------------------------------------------
(* The gates.                                                              *)

\* Whatever the model answered and the whitelist holds, a decision to act is
\* one that the rules permit, for the incident it was asked about
\* (gate_checker.py, evaluate).
THEOREM GateSoundness ==
    ASSUME NEW i \in IncidentReport, NEW id,
           Evaluate(i, id).kind = "action"
    PROVE  /\ Evaluate(i, id).incident_id = id
           /\ Permitted(i, Evaluate(i, id).action_id, Evaluate(i, id).parameters)
<1> DEFINE entry  == whitelist[i.suggested_action]
           params == [ name \in {d.name : d \in entry.parameters}
                           |-> DefaultParam(name, i) ]
<1>1. /\ i.confidence >= confidence_threshold
      /\ ~i.hardware_involved
      /\ i.auto_remediable
      /\ FindAction(i.suggested_action) # NULL
      /\ i.fault_category \in FindAction(i.suggested_action).fault_categories
      /\ BuildParams(i, FindAction(i.suggested_action)) # NULL
      /\ Evaluate(i, id) = ActionDecision(i.suggested_action,
                               BuildParams(i, FindAction(i.suggested_action)), id)
  BY ThresholdAssumption DEF Evaluate, EscalationDecision, IncidentReport
<1>2. i.suggested_action \in DOMAIN whitelist /\ FindAction(i.suggested_action) = entry
  BY <1>1 DEF FindAction
<1>3. /\ BuildParams(i, entry) = params
      /\ \A d \in entry.parameters : Validated(d, params[d.name])
  BY <1>1, <1>2 DEF BuildParams
<1>4. ParametersValid(entry, params)
  BY <1>3 DEF ParametersValid, Validated
<1>5. QED
  BY <1>1, <1>2, <1>3, <1>4 DEF ActionDecision, Permitted

\* What a decision to act carries: an action of the whitelist and a value for
\* each parameter of its entry.
LEMMA ActionTyped ==
    ASSUME NEW i \in IncidentReport, NEW id,
           Evaluate(i, id).kind = "action"
    PROVE  /\ Evaluate(i, id).incident_id = id
           /\ Evaluate(i, id).action_id \in DOMAIN whitelist
           /\ Evaluate(i, id).parameters \in Parameters
           /\ Facts(Evaluate(i, id).action_id, Evaluate(i, id).parameters)
                  \in SUBSET Word
<1> DEFINE a      == i.suggested_action
           params == [ name \in {d.name : d \in whitelist[a].parameters}
                           |-> DefaultParam(name, i) ]
<1>1. /\ FindAction(a) # NULL
      /\ BuildParams(i, FindAction(a)) # NULL
      /\ Evaluate(i, id) = ActionDecision(a, BuildParams(i, FindAction(a)), id)
  BY DEF Evaluate, EscalationDecision
<1>2. a \in DOMAIN whitelist /\ BuildParams(i, FindAction(a)) = params
  BY <1>1 DEF FindAction, BuildParams
<1>3. \A name : DefaultParam(name, i) \in ParamValue
  BY DEF DefaultParam, ParamValue, IncidentReport
<1>4. params \in [{d.name : d \in whitelist[a].parameters} -> ParamValue]
  BY <1>3
<1>5. params \in Parameters
  BY <1>2, <1>4 DEF Parameters
<1>6. Facts(a, params) \in SUBSET Word
  BY <1>2, <1>4 DEF Facts, Word
<1>7. QED
  BY <1>1, <1>2, <1>5, <1>6 DEF ActionDecision

\* What a decision to escalate carries: the gate that failed.
LEMMA EscalationTyped ==
    ASSUME NEW i \in IncidentReport, NEW id,
           Evaluate(i, id).kind # "action"
    PROVE  /\ Evaluate(i, id).kind = "escalation"
           /\ Evaluate(i, id).gate_failed \in {"confidence", "hardware", "whitelist"}
BY DEF Evaluate, EscalationDecision, ActionDecision

-----------------------------------------------------------------------------
(* Types.                                                                  *)

\* A well-formed event keeps the trail well-formed.
LEMMA AuditTyped ==
    ASSUME audit_log \in Seq(Event),
           NEW id \in IncidentId \cup {NULL},
           NEW type \in {"llm_call_failed", "parse_failed", "incident_created",
                         "action_starting", "action_complete", "escalation"},
           NEW facts \in SUBSET Word,
           save_audit_event(id, type, facts)
    PROVE  audit_log' \in Seq(Event)
<1>1. AuditEvent(id, type, facts) \in Event
  BY DEF AuditEvent, Event
<1>2. QED
  BY <1>1 DEF save_audit_event

LEMMA NewRowTyped == \A i \in IncidentReport : NewRow(i) \in Row
BY DEF NewRow, Row

\* A new row, and each of the two updates, keeps the table well-formed.
LEMMA SaveTyped ==
    ASSUME incidents \in [IncidentId -> Row \cup {NULL}],
           NEW id \in IncidentId, NEW i \in IncidentReport,
           save_incident(id, i)
    PROVE  incidents' \in [IncidentId -> Row \cup {NULL}]
BY NewRowTyped DEF save_incident

LEMMA OutcomeTyped ==
    ASSUME incidents \in [IncidentId -> Row \cup {NULL}],
           NEW id \in IncidentId, NEW a \in DOMAIN whitelist,
           NEW o \in {"success", "failed"},
           update_outcome(id, a, o)
    PROVE  incidents' \in [IncidentId -> Row \cup {NULL}]
<1>1. CASE incidents[id] = NULL
  BY <1>1 DEF update_outcome
<1>2. CASE incidents[id] # NULL
  <2>1. incidents[id] \in Row
    BY <1>2
  <2>2. [incidents[id] EXCEPT !.action_taken = a, !.action_outcome = o] \in Row
    BY <2>1 DEF Row
  <2>3. incidents' = [incidents EXCEPT ![id] =
            [incidents[id] EXCEPT !.action_taken = a, !.action_outcome = o]]
    BY <1>2 DEF update_outcome
  <2>4. QED
    BY <2>2, <2>3
<1>3. QED
  BY <1>1, <1>2

LEMMA EscalatedTyped ==
    ASSUME incidents \in [IncidentId -> Row \cup {NULL}],
           NEW id \in IncidentId,
           NEW h \in [form : {"hardware", "plain"}, about : Source \cup Component],
           update_escalated(id, h)
    PROVE  incidents' \in [IncidentId -> Row \cup {NULL}]
<1>1. CASE incidents[id] = NULL
  BY <1>1 DEF update_escalated
<1>2. CASE incidents[id] # NULL
  <2>1. incidents[id] \in Row
    BY <1>2
  <2>2. [incidents[id] EXCEPT !.escalated = TRUE, !.human_report = h] \in Row
    BY <2>1 DEF Row
  <2>3. incidents' = [incidents EXCEPT ![id] =
            [incidents[id] EXCEPT !.escalated = TRUE, !.human_report = h]]
    BY <1>2 DEF update_escalated
  <2>4. QED
    BY <2>2, <2>3
<1>3. QED
  BY <1>1, <1>2

\* A set of naturals that is not empty has a least element.
LEMMA LeastNat ==
    ASSUME NEW S \in SUBSET Nat, S # {}
    PROVE  \E i \in S : \A j \in S : i <= j
<1>1. \E i \in S : \A j \in S : <<j, i>> \notin OpToRel(<, Nat)
  BY NatLessThanWellFounded, WFMin
<1>2. \A i, j \in Nat : <<j, i>> \notin OpToRel(<, Nat) => ~(j < i)
  BY DEF OpToRel
<1>3. \A i, j \in Nat : ~(j < i) => i <= j
  OBVIOUS
<1>4. QED
  BY <1>1, <1>2, <1>3

\* The report a human gets names a signal or a component.
LEMMA HumanReportTyped ==
    ASSUME incident \in IncidentReport, report \in AnomalyReport
    PROVE  HumanReport \in [form : {"hardware", "plain"}, about : Source \cup Component]
<1>1. /\ DOMAIN report = 1..Len(report)
      /\ Len(report) \in Nat \ {0}
      /\ \A i \in DOMAIN report : report[i] \in Source
  BY ReportAssumption
<1> DEFINE hardware == {i \in DOMAIN report : report[i] \in {"smart", "ecc", "ipmi"}}
<1>2. hardware # {} => \E i \in hardware : \A j \in hardware : i <= j
  <2>1. hardware \in SUBSET Nat
    BY <1>1
  <2> HIDE DEF hardware
  <2>2. QED
    BY <2>1, LeastNat
<1>3. HardwareSignal \in Source
  BY <1>1, <1>2 DEF HardwareSignal
<1>4. QED
  BY <1>3 DEF HumanReport, IncidentReport

\* Every step keeps the types.
LEMMA TypeStep ==
    ASSUME TypeOK, LocalsOK, [Next]_vars
    PROVE  TypeOK'
<1> DEFINE Logs(id, type, facts) ==
               /\ save_audit_event(id, type, facts)
               /\ pc' \in Live
               /\ UNCHANGED <<running, locals, incidents, host, history>>
<1>log. ASSUME NEW id \in IncidentId \cup {NULL},
               NEW type \in {"llm_call_failed", "parse_failed", "incident_created",
                             "action_starting", "action_complete", "escalation"},
               NEW facts \in SUBSET Word,
               Logs(id, type, facts)
        PROVE  TypeOK'
  <2>1. audit_log' \in Seq(Event)
    <3>1. save_audit_event(id, type, facts)
      BY <1>log
    <3>2. audit_log \in Seq(Event)
      BY DEF TypeOK
    <3>3. QED
      BY <3>1, <3>2, AuditTyped
  <2>2. pc' \in Live /\ UNCHANGED <<running, locals, incidents, host, history>>
    BY <1>log
  <2>3. QED
    BY <2>1, <2>2 DEF TypeOK, locals, host, history
<1> USE DEF TypeOK, Live, Down, Goto, NoLocals, locals, store, host, history
<1>1. CASE Start
  BY <1>1 DEF Start
<1>2. CASE StartUp \/ Loop \/ Sleep \/ Signal
  <2>1. CASE StartUp \/ Loop \/ Signal
    BY <2>1 DEF StartUp, Loop, Signal
  <2>2. CASE Sleep
    BY <2>2 DEF Sleep, Retries
  <2>3. QED
    BY <1>2, <2>1, <2>2
<1>3. CASE Crash
  <2>1. lost' \subseteq IncidentId
    BY <1>3 DEF Crash
  <2>2. interrupted' \in Nat
    BY <1>3 DEF Crash
  <2>3. /\ pc' = "down" /\ running' = FALSE /\ NoLocals
        /\ UNCHANGED <<store, host, anomalies, starts>>
    BY <1>3 DEF Crash
  <2>4. pc' \in Down \cup Live /\ running' \in BOOLEAN
    BY <2>3
  <2>5. /\ report' \in AnomalyReport \cup {NULL}
        /\ incident' \in IncidentReport \cup {NULL}
        /\ incident_id' \in IncidentId \cup {NULL}
        /\ success' \in BOOLEAN \cup {NULL}
    BY <2>3
  <2>6. attempt' \in 0..Retries
    BY <2>3 DEF Retries
  <2>7. /\ incidents' \in [IncidentId -> Row \cup {NULL}]
        /\ audit_log' \in Seq(Event)
        /\ snapshots' \subseteq IncidentId
        /\ anomalies' \in Nat /\ starts' \in Nat
    BY <2>3
  <2>8. effects' \in Seq(Effect)
    BY <2>3
  <2>9. QED
    BY <2>1, <2>2, <2>4, <2>5, <2>6, <2>7, <2>8
<1>4. CASE Detection
  BY <1>4 DEF Detection, CollectFails, Collect, NothingFlagged, Flag
<1>5. CASE LlmAnswers \/ LlmAnswersNothing
  <2>1. \A raw \in Reply : Parse(raw) \in IncidentReport \cup {NULL}
    BY DEF Parse
  <2>2. QED
    BY <1>5, <2>1 DEF LlmAnswers, LlmAnswersNothing
<1>6. CASE LlmRaises
  BY <1>6 DEF LlmRaises, LocalsOK, Retries
<1>7. CASE LogLlmCallFailed \/ LogParseFailed
  <2>1. {} \in SUBSET Word
    OBVIOUS
  <2>2. CASE LogLlmCallFailed
    BY <2>1, <2>2, <1>log DEF LogLlmCallFailed
  <2>3. CASE LogParseFailed
    BY <2>1, <2>3, <1>log DEF LogParseFailed
  <2>4. QED
    BY <1>7, <2>2, <2>3
<1>8. CASE SaveIncident
  <2>1. incident \in IncidentReport
    BY <1>8 DEF SaveIncident, LocalsOK
  <2>2. incidents' \in [IncidentId -> Row \cup {NULL}]
    BY <1>8, <2>1, SaveTyped DEF SaveIncident
  <2>3. QED
    BY <1>8, <2>2 DEF SaveIncident
<1>9. CASE LogCreated
  <2>1. {incident.fault_category} \in SUBSET Word
    BY <1>9 DEF LogCreated, LocalsOK, HasId, Word, IncidentReport
  <2>2. QED
    BY <1>9, <2>1, <1>log DEF LogCreated
<1>10. CASE EscalateRaw
  <2>1. {"llm_failed"} \in SUBSET Word
    BY DEF Word
  <2>2. QED
    BY <1>10, <2>1, <1>log DEF EscalateRaw
<1>11. CASE Gate
  BY <1>11 DEF Gate
<1>12. CASE TakeSnapshot
  <2>1. decision.incident_id \in IncidentId
    BY <1>12, ActionTyped DEF TakeSnapshot, LocalsOK, HasId, ToAct
  <2>2. QED
    BY <1>12, <2>1 DEF TakeSnapshot
<1>13. CASE LogStart
  <2>1. /\ decision.incident_id \in IncidentId
        /\ Facts(decision.action_id, decision.parameters) \in SUBSET Word
    BY <1>13, ActionTyped DEF LogStart, LocalsOK, HasId, ToAct
  <2>2. QED
    BY <1>13, <2>1, <1>log DEF LogStart
<1>14. CASE Dispatch
  <2>1. /\ decision.incident_id \in IncidentId
        /\ decision.action_id \in DOMAIN whitelist
        /\ decision.parameters \in Parameters
    BY <1>14, ActionTyped DEF Dispatch, LocalsOK, HasId, ToAct
  <2>2. [ incident_id |-> decision.incident_id, action_id |-> decision.action_id,
          parameters  |-> decision.parameters ] \in Effect
    BY <2>1 DEF Effect
  <2>3. effects' \in Seq(Effect)
    BY <1>14, <2>2 DEF Dispatch
  <2>4. QED
    BY <1>14, <2>3 DEF Dispatch
<1>15. CASE LogComplete
  <2>1. /\ decision.incident_id \in IncidentId
        /\ decision.action_id \in DOMAIN whitelist
    BY <1>15, ActionTyped DEF LogComplete, LocalsOK, HasId, ToAct
  <2>2. {decision.action_id, Outcome} \in SUBSET Word
    BY <2>1 DEF Word, Outcome
  <2>3. QED
    BY <1>15, <2>1, <2>2, <1>log DEF LogComplete
<1>16. CASE RecordOutcome
  <2>1. /\ decision.incident_id \in IncidentId
        /\ decision.action_id \in DOMAIN whitelist
    BY <1>16, ActionTyped DEF RecordOutcome, LocalsOK, HasId, ToAct
  <2>2. Outcome \in {"success", "failed"}
    BY DEF Outcome
  <2>3. incidents' \in [IncidentId -> Row \cup {NULL}]
    BY <1>16, <2>1, <2>2, OutcomeTyped DEF RecordOutcome
  <2>4. QED
    BY <1>16, <2>3 DEF RecordOutcome
<1>17. CASE LogEscalation
  <2>1. incident_id \in IncidentId
    BY <1>17 DEF LogEscalation, LocalsOK, HasId, ToTell
  <2>2. {decision.gate_failed} \in SUBSET Word
    BY <1>17, EscalationTyped DEF LogEscalation, LocalsOK, HasId, ToTell, Word
  <2>3. QED
    BY <1>17, <2>1, <2>2, <1>log DEF LogEscalation
<1>18. CASE MarkEscalated
  <2>1. /\ incident_id \in IncidentId
        /\ incident \in IncidentReport
        /\ report \in AnomalyReport
    BY <1>18 DEF MarkEscalated, LocalsOK, HasId, ToTell, Unrecorded
  <2>2. incidents' \in [IncidentId -> Row \cup {NULL}]
    BY <1>18, <2>1, HumanReportTyped, EscalatedTyped DEF MarkEscalated
  <2>3. QED
    BY <1>18, <2>2 DEF MarkEscalated
<1>19. CASE UNCHANGED vars
  BY <1>19 DEF vars
<1>20. QED
  BY <1>1, <1>2, <1>3, <1>4, <1>5, <1>6, <1>7, <1>8, <1>9, <1>10, <1>11, <1>12,
     <1>13, <1>14, <1>15, <1>16, <1>17, <1>18, <1>19
  DEF Next, Step, Reasoning, Acting, Escalating, Over

-----------------------------------------------------------------------------
(* The process's variables.                                                *)

\* Every step keeps what the variables hold at each pc.
LEMMA LocalsStep ==
    ASSUME TypeOK, LocalsOK, [Next]_vars
    PROVE  LocalsOK'
<1> USE DEF LocalsOK, HasId, ToAct, ToTell, Unconcluded, Unrecorded, Goto, NoLocals,
            locals, store, host, history, Pending
<1>1. CASE Start
  BY <1>1 DEF Start, Down
<1>2. CASE StartUp
  BY <1>2 DEF StartUp
<1>3. CASE Signal
  BY <1>3 DEF Signal
<1>4. CASE Crash
  BY <1>4 DEF Crash, Down, Live
<1>5. CASE Loop
  BY <1>5 DEF Loop
<1>6. CASE Sleep
  BY <1>6 DEF Sleep, Down
<1>7. CASE CollectFails
  BY <1>7 DEF CollectFails
<1>8. CASE Collect
  BY <1>8 DEF Collect
<1>9. CASE NothingFlagged
  BY <1>9 DEF NothingFlagged
<1>10. CASE Flag
  BY <1>10 DEF Flag, Retries, TypeOK
<1>11. CASE LlmAnswers
  <2>1. \A raw \in Reply : Parse(raw) # NULL => Parse(raw) \in IncidentReport
    BY DEF Parse
  <2>2. QED
    BY <1>11, <2>1 DEF LlmAnswers
<1>12. CASE LlmAnswersNothing
  BY <1>12 DEF LlmAnswersNothing
<1>13. CASE LlmRaises
  BY <1>13 DEF LlmRaises, Retries, TypeOK
<1>14. CASE LogLlmCallFailed
  BY <1>14 DEF LogLlmCallFailed
<1>15. CASE LogParseFailed
  BY <1>15 DEF LogParseFailed
<1>16. CASE SaveIncident
  <2>1. NewRow(incident) # NULL
    BY <1>16, NewRowTyped, NullAssumption DEF SaveIncident
  <2>2. PICK id \in IncidentId : incident_id' = id /\ save_incident(id, incident)
    BY <1>16 DEF SaveIncident
  <2>3. incidents'[id] = NewRow(incident)
    BY <2>2 DEF save_incident, TypeOK
  <2>4. QED
    BY <1>16, <2>1, <2>2, <2>3 DEF SaveIncident, NewRow
<1>17. CASE LogCreated
  BY <1>17 DEF LogCreated
<1>18. CASE EscalateRaw
  BY <1>18 DEF EscalateRaw
<1>19. CASE Gate
  BY <1>19, EscalationTyped DEF Gate
<1>20. CASE TakeSnapshot
  BY <1>20 DEF TakeSnapshot
<1>21. CASE LogStart
  BY <1>21 DEF LogStart
<1>22. CASE Dispatch
  BY <1>22 DEF Dispatch
<1>23. CASE LogComplete
  BY <1>23 DEF LogComplete
<1>24. CASE RecordOutcome
  <2>1. Outcome # NULL
    BY NullAssumption DEF Outcome, Word
  <2>2. decision.incident_id = incident_id
    BY <1>24, ActionTyped DEF RecordOutcome
  <2>3. incidents'[incident_id].action_outcome = Outcome
    BY <1>24, <2>2 DEF RecordOutcome, update_outcome, TypeOK, Row
  <2>4. pc' = "sleep" /\ UNCHANGED locals
    BY <1>24 DEF RecordOutcome
  <2>5. QED
    BY <2>1, <2>3, <2>4
<1>25. CASE LogEscalation
  BY <1>25 DEF LogEscalation
<1>26. CASE MarkEscalated
  <2>1. incidents'[incident_id].escalated
    BY <1>26 DEF MarkEscalated, update_escalated, TypeOK, Row
  <2>2. pc' = "sleep" /\ UNCHANGED locals
    BY <1>26 DEF MarkEscalated
  <2>3. QED
    BY <2>1, <2>2
<1>27. CASE UNCHANGED vars
  BY <1>27 DEF vars
<1>28. QED
  BY <1>1, <1>2, <1>3, <1>4, <1>5, <1>6, <1>7, <1>8, <1>9, <1>10, <1>11, <1>12, <1>13, <1>14, <1>15, <1>16, <1>17, <1>18, <1>19, <1>20, <1>21, <1>22, <1>23, <1>24, <1>25, <1>26, <1>27 DEF Next, Step, Detection, Reasoning, Acting, Escalating, Over

-----------------------------------------------------------------------------
(* What a step does to the store and the host.                             *)

\* The steps that write to the store or the host, those between them while an
\* incident is in hand, and the rest.
LEMMA ControlFlow ==
    ASSUME [Next]_vars
    PROVE  \/ LogLlmCallFailed \/ LogParseFailed \/ EscalateRaw
           \/ SaveIncident \/ LogCreated \/ Gate \/ TakeSnapshot \/ LogStart
           \/ Dispatch \/ LogComplete \/ RecordOutcome
           \/ LogEscalation \/ MarkEscalated
           \/ /\ UNCHANGED <<store, host>>
              /\ \/ UNCHANGED <<pc, locals, lost>>
                 \/ Crash
                 \/ Sleep
                 \/ pc \notin HasId /\ pc' \notin HasId /\ UNCHANGED <<incident_id, lost>>
BY DEF Next, Step, Detection, Reasoning, Acting, Escalating, Over, vars, locals,
       history, HasId, ToAct, ToTell, Down, Live, Goto, NoLocals, Start, StartUp,
       Signal, Crash, Loop, Sleep, CollectFails, Collect, NothingFlagged, Flag,
       LlmAnswers, LlmAnswersNothing, LlmRaises

\* A row keeps the diagnosis it was inserted with, and a settled row keeps
\* everything.
LEMMA RowsStay ==
    ASSUME TypeOK, LocalsOK, [Next]_vars
    PROVE  \A id \in IncidentId : incidents[id] # NULL =>
               /\ incidents'[id] # NULL
               /\ incidents'[id].incident = incidents[id].incident
               /\ ~Pending(id) => incidents'[id] = incidents[id]
<1> SUFFICES ASSUME NEW id \in IncidentId, incidents[id] # NULL
             PROVE  /\ incidents'[id] # NULL
                    /\ incidents'[id].incident = incidents[id].incident
                    /\ ~Pending(id) => incidents'[id] = incidents[id]
  OBVIOUS
<1>1. CASE UNCHANGED incidents
  BY <1>1
<1>2. CASE SaveIncident
  BY <1>2 DEF SaveIncident, save_incident, TypeOK
<1>3. CASE RecordOutcome
  <2>1. decision.incident_id = incident_id /\ Pending(incident_id)
    BY <1>3, ActionTyped DEF RecordOutcome, Goto, LocalsOK, HasId, ToAct
  <2>2. CASE id = incident_id
    <3>1. incidents[id] \in Row
      BY DEF TypeOK
    <3>2. /\ incidents'[id].incident = incidents[id].incident
          /\ incidents'[id] \in Row
      <4>1. incidents' \in [IncidentId -> Row \cup {NULL}]
        BY TypeStep DEF TypeOK
      <4>2. incidents'[id] = [incidents[id] EXCEPT !.action_taken = decision.action_id,
                                                   !.action_outcome = Outcome]
        BY <1>3, <2>1, <2>2 DEF RecordOutcome, update_outcome, TypeOK
      <4>3. decision.action_id \in DOMAIN whitelist /\ Outcome \in {"success", "failed"}
        BY <1>3, ActionTyped DEF RecordOutcome, Goto, LocalsOK, HasId, ToAct, Outcome
      <4>4. QED
        BY <3>1, <4>2, <4>3 DEF Row
    <3>3. QED
      BY <2>1, <2>2, <3>2, NullAssumption
  <2>3. CASE id # incident_id
    BY <1>3, <2>1, <2>3 DEF RecordOutcome, update_outcome, TypeOK
  <2>4. QED
    BY <2>2, <2>3
<1>4. CASE MarkEscalated
  <2>1. incident_id \in IncidentId /\ Pending(incident_id)
    BY <1>4 DEF MarkEscalated, Goto, LocalsOK, HasId, ToTell
  <2>2. CASE id = incident_id
    <3>1. incidents[id] \in Row
      BY DEF TypeOK
    <3>2. incidents'[id] = [incidents[id] EXCEPT !.escalated = TRUE,
                                                 !.human_report = HumanReport]
      BY <1>4, <2>2 DEF MarkEscalated, update_escalated, TypeOK
    <3>3. HumanReport \in [form : {"hardware", "plain"}, about : Source \cup Component]
      BY <1>4, HumanReportTyped
      DEF MarkEscalated, Goto, LocalsOK, HasId, ToTell, Unrecorded
    <3>4. incidents'[id] \in Row /\ incidents'[id].incident = incidents[id].incident
      BY <3>1, <3>2, <3>3 DEF Row
    <3>5. QED
      BY <2>1, <2>2, <3>4, NullAssumption
  <2>3. CASE id # incident_id
    BY <1>4, <2>1, <2>3 DEF MarkEscalated, update_escalated, TypeOK
  <2>4. QED
    BY <2>2, <2>3
<1>5. QED
  BY <1>1, <1>2, <1>3, <1>4, ControlFlow
  DEF LogLlmCallFailed, LogParseFailed, LogCreated, EscalateRaw, Gate, TakeSnapshot,
      LogStart, Dispatch, LogComplete, LogEscalation, store, host, Crash, Sleep, locals

\* One more event, at the end of the trail.
LEMMA AppendFacts ==
    ASSUME audit_log \in Seq(Event), NEW id, NEW type, NEW facts,
           save_audit_event(id, type, facts)
    PROVE  /\ \A j \in DOMAIN audit_log :
                  j \in DOMAIN audit_log' /\ audit_log'[j] = audit_log[j]
           /\ \A j \in DOMAIN audit_log' \ DOMAIN audit_log :
                  /\ audit_log'[j] = AuditEvent(id, type, facts)
                  /\ \A i \in DOMAIN audit_log : i <= j
           /\ Len(audit_log) + 1 \in DOMAIN audit_log' \ DOMAIN audit_log
BY DEF save_audit_event

\* The trail only grows; a new event names the incident in hand or none, the
\* first to name it tells of its creation, and only log_escalation's names it
\* as escalated.
LEMMA TrailGrows ==
    ASSUME TypeOK, LocalsOK, [Next]_vars
    PROVE  /\ \A j \in DOMAIN audit_log :
                  j \in DOMAIN audit_log' /\ audit_log'[j] = audit_log[j]
           /\ \A j \in DOMAIN audit_log' \ DOMAIN audit_log :
                  /\ \A i \in DOMAIN audit_log : i <= j
                  /\ audit_log'[j].incident_id # NULL =>
                       /\ audit_log'[j].incident_id = incident_id
                       /\ pc \in HasId
                       /\ pc = "created" => audit_log'[j].event_type = "incident_created"
                       /\ audit_log'[j].event_type = "escalation" => pc = "escalate"
<1> USE DEF Goto, AuditEvent
<1>1. CASE UNCHANGED audit_log
  BY <1>1
<1>2. CASE LogLlmCallFailed \/ LogParseFailed \/ EscalateRaw
  <2>1. PICK type, facts : save_audit_event(NULL, type, facts)
    BY <1>2 DEF LogLlmCallFailed, LogParseFailed, EscalateRaw
  <2>2. QED
    BY <2>1, AppendFacts DEF TypeOK
<1>3. CASE LogCreated
  <2>1. PICK facts : save_audit_event(incident_id, "incident_created", facts)
    BY <1>3 DEF LogCreated
  <2>2. QED
    BY <1>3, <2>1, AppendFacts DEF TypeOK, LogCreated, HasId
<1>4. CASE LogStart \/ LogComplete
  <2>1. decision.incident_id = incident_id
    BY <1>4, ActionTyped DEF LogStart, LogComplete, LocalsOK, HasId, ToAct
  <2>2. PICK type, facts : /\ type \in {"action_starting", "action_complete"}
                           /\ save_audit_event(incident_id, type, facts)
    BY <1>4, <2>1 DEF LogStart, LogComplete
  <2>3. QED
    BY <1>4, <2>2, AppendFacts DEF TypeOK, LogStart, LogComplete, HasId, ToAct
<1>5. CASE LogEscalation
  <2>1. PICK facts : save_audit_event(incident_id, "escalation", facts)
    BY <1>5 DEF LogEscalation
  <2>2. QED
    BY <1>5, <2>1, AppendFacts DEF TypeOK, LogEscalation, HasId, ToTell
<1>6. QED
  BY <1>1, <1>2, <1>3, <1>4, <1>5, ControlFlow
  DEF SaveIncident, Gate, TakeSnapshot, Dispatch, RecordOutcome, MarkEscalated, store,
      Crash, Sleep, locals

\* Snapshots are never removed, and the host is acted on by Dispatch alone.
LEMMA HostGrows ==
    ASSUME TypeOK, LocalsOK, [Next]_vars
    PROVE  /\ snapshots \subseteq snapshots'
           /\ \/ UNCHANGED effects
              \/ Dispatch
<1>1. CASE TakeSnapshot
  BY <1>1 DEF TakeSnapshot
<1>2. CASE Dispatch
  BY <1>2 DEF Dispatch
<1>3. CASE UNCHANGED host
  BY <1>3 DEF host
<1>4. QED
  BY <1>1, <1>2, <1>3, ControlFlow
  DEF LogLlmCallFailed, LogParseFailed, SaveIncident, LogCreated, EscalateRaw, Gate,
      LogStart, LogComplete, RecordOutcome, LogEscalation, MarkEscalated, host, Crash, Sleep,
      locals

\* What Dispatch does to the host, by the decision of the gates.
LEMMA DispatchFacts ==
    ASSUME TypeOK, LocalsOK, Dispatch
    PROVE  /\ \A i \in DOMAIN effects : i \in DOMAIN effects' /\ effects'[i] = effects[i]
           /\ \A i \in DOMAIN effects' \ DOMAIN effects :
                  /\ i = Len(effects) + 1
                  /\ effects'[i].incident_id = incident_id
                  /\ effects'[i].action_id = decision.action_id
                  /\ effects'[i].parameters = decision.parameters
           /\ UNCHANGED <<incident, incident_id, decision, incidents, audit_log, snapshots>>
<1>1. decision.incident_id = incident_id
  BY ActionTyped DEF Dispatch, Goto, LocalsOK, HasId, ToAct
<1>2. QED
  BY <1>1 DEF Dispatch, TypeOK, store

-----------------------------------------------------------------------------
(* The safety properties, one lemma each.                                  *)

\* Members of the two sequences.
LEMMA MembersTyped ==
    ASSUME TypeOK
    PROVE  /\ \A i \in DOMAIN effects : effects[i].incident_id \in IncidentId
           /\ \A i \in DOMAIN audit_log :
                  audit_log[i].incident_id \in IncidentId \cup {NULL}
<1>1. effects \in Seq(Effect)
  BY DEF TypeOK
<1>2. audit_log \in Seq(Event)
  BY DEF TypeOK
<1>3. \A i \in DOMAIN audit_log : audit_log[i] \in Event
  BY <1>2
<1>4. \A i \in DOMAIN effects : effects[i] \in Effect
  BY <1>1
<1>5. \A i \in DOMAIN audit_log : audit_log[i].incident_id \in IncidentId \cup {NULL}
  BY <1>3 DEF Event
<1>6. QED
  BY <1>4, <1>5 DEF Effect

\* What is logged for an id stays logged.
LEMMA LoggedStays ==
    ASSUME TypeOK, LocalsOK, [Next]_vars
    PROVE  \A id, type : Logged(id, type) => Logged(id, type)'
BY TrailGrows DEF Logged, Events

\* Only an incident that escapes the gates, or the daemon's own escalation,
\* comes to be logged as escalated.
LEMMA EscalationIsNew ==
    ASSUME TypeOK, LocalsOK, [Next]_vars,
           NEW id, id # NULL, Logged(id, "escalation")', ~Logged(id, "escalation")
    PROVE  pc = "escalate" /\ id = incident_id
BY TrailGrows DEF Logged, Events

LEMMA GatedStep ==
    ASSUME TypeOK, LocalsOK, [Next]_vars, GatedEffects
    PROVE  GatedEffects'
<1> SUFFICES ASSUME NEW i \in DOMAIN effects'
             PROVE  /\ incidents'[effects'[i].incident_id] # NULL
                    /\ Permitted(incidents'[effects'[i].incident_id].incident,
                                 effects'[i].action_id, effects'[i].parameters)
  BY DEF GatedEffects
<1>1. CASE i \in DOMAIN effects /\ effects'[i] = effects[i]
  <2>1. effects[i].incident_id \in IncidentId
    BY <1>1, MembersTyped
  <2>2. QED
    BY <1>1, <2>1, RowsStay DEF GatedEffects
<1>2. CASE Dispatch /\ i \notin DOMAIN effects
  <2>1. /\ effects'[i].incident_id = incident_id
        /\ effects'[i].action_id = decision.action_id
        /\ effects'[i].parameters = decision.parameters
        /\ UNCHANGED incidents
    BY <1>2, DispatchFacts
  <2>2. /\ incidents[incident_id] # NULL
        /\ incidents[incident_id].incident = incident
        /\ incident \in IncidentReport
        /\ decision = Evaluate(incident, incident_id)
        /\ decision.kind = "action"
    BY <1>2 DEF Dispatch, Goto, LocalsOK, HasId, ToAct, Pending
  <2>3. Permitted(incident, decision.action_id, decision.parameters)
    BY <2>2, GateSoundness
  <2>4. QED
    BY <2>1, <2>2, <2>3
<1>3. QED
  BY <1>1, <1>2, HostGrows, DispatchFacts

LEMMA WriteAheadStep ==
    ASSUME TypeOK, LocalsOK, TrailOK, [Next]_vars, WriteAhead
    PROVE  WriteAhead'
<1> DEFINE Announced(e) ==
               \E j \in Events(e.incident_id, "action_starting") :
                   audit_log[j].detail = Facts(e.action_id, e.parameters)
<1>1. \A e : Announced(e) => Announced(e)'
  BY TrailGrows DEF Events
<1> SUFFICES ASSUME NEW i \in DOMAIN effects'
             PROVE  /\ effects'[i].incident_id \in snapshots'
                    /\ incidents'[effects'[i].incident_id] # NULL
                    /\ Announced(effects[i])'
  BY DEF WriteAhead
<1>2. CASE i \in DOMAIN effects /\ effects'[i] = effects[i]
  <2>1. /\ effects[i].incident_id \in snapshots
        /\ incidents[effects[i].incident_id] # NULL
        /\ Announced(effects[i])
    BY <1>2 DEF WriteAhead
  <2>2. effects[i].incident_id \in IncidentId
    BY <1>2, MembersTyped
  <2>3. QED
    BY <1>1, <1>2, <2>1, <2>2, HostGrows, RowsStay
<1>3. CASE Dispatch /\ i \notin DOMAIN effects
  <2>1. /\ effects'[i].incident_id = incident_id
        /\ effects'[i].action_id = decision.action_id
        /\ effects'[i].parameters = decision.parameters
        /\ UNCHANGED <<incidents, snapshots, audit_log>>
    BY <1>3, DispatchFacts
  <2>2. /\ incident_id \in snapshots
        /\ incidents[incident_id] # NULL
        /\ \E j \in Events(incident_id, "action_starting") :
               audit_log[j].detail = Facts(decision.action_id, decision.parameters)
    BY <1>3 DEF Dispatch, Goto, TrailOK, LocalsOK, HasId, ToAct, Pending
  <2>3. QED
    BY <2>1, <2>2 DEF Events
<1>4. QED
  BY <1>2, <1>3, HostGrows, DispatchFacts

LEMMA AtMostOnceStep ==
    ASSUME TypeOK, LocalsOK, TrailOK, [Next]_vars, AtMostOnce
    PROVE  AtMostOnce'
<1>1. CASE UNCHANGED effects
  BY <1>1 DEF AtMostOnce
<1>2. CASE Dispatch
  <2>1. \A i \in DOMAIN effects : effects[i].incident_id # incident_id
    BY <1>2 DEF Dispatch, Goto, TrailOK, HasId, ToAct
  <2>2. \A i \in DOMAIN effects' :
            \/ i \in DOMAIN effects /\ effects'[i] = effects[i]
            \/ i = Len(effects) + 1 /\ effects'[i].incident_id = incident_id
    BY <1>2, DispatchFacts
  <2>3. Len(effects) + 1 \notin DOMAIN effects
    BY DEF TypeOK
  <2>4. QED
    BY <2>1, <2>2, <2>3 DEF AtMostOnce
<1>3. QED
  BY <1>1, <1>2, HostGrows

LEMMA AuditLinkedStep ==
    ASSUME TypeOK, LocalsOK, TrailOK, [Next]_vars, AuditLinked
    PROVE  AuditLinked'
<1> SUFFICES ASSUME NEW i \in DOMAIN audit_log', audit_log'[i].incident_id # NULL
             PROVE  /\ incidents'[audit_log'[i].incident_id] # NULL
                    /\ \E j \in Events(audit_log[i].incident_id, "incident_created")' : j <= i
  BY DEF AuditLinked
<1>1. CASE i \in DOMAIN audit_log
  <2>1. audit_log'[i] = audit_log[i] /\ audit_log[i].incident_id \in IncidentId
    BY <1>1, TrailGrows, MembersTyped
  <2>2. PICK j \in Events(audit_log[i].incident_id, "incident_created") : j <= i
    BY <1>1, <2>1 DEF AuditLinked
  <2>3. j \in Events(audit_log[i].incident_id, "incident_created")'
    BY <2>1, <2>2, TrailGrows DEF Events
  <2>4. incidents'[audit_log'[i].incident_id] # NULL
    BY <1>1, <2>1, RowsStay DEF AuditLinked
  <2>5. QED
    BY <2>2, <2>3, <2>4
<1>2. CASE i \notin DOMAIN audit_log
  <2>1. audit_log'[i].incident_id = incident_id /\ pc \in HasId
    BY <1>2, TrailGrows
  <2>2. incident_id \in IncidentId /\ incidents[incident_id] # NULL
    BY <2>1 DEF LocalsOK, Pending
  <2>3. incidents'[incident_id] # NULL
    BY <2>2, RowsStay
  <2>4. CASE pc = "created"
    <3>1. audit_log'[i].event_type = "incident_created"
      BY <1>2, <2>1, <2>4, TrailGrows
    <3>2. audit_log' \in Seq(Event)
      BY TypeStep DEF TypeOK
    <3>3. i <= i
      BY <3>2
    <3>4. QED
      BY <2>1, <2>3, <3>1, <3>3 DEF Events
  <2>5. CASE pc # "created"
    <3>1. PICK j \in Events(incident_id, "incident_created") : TRUE
      BY <2>1, <2>5 DEF TrailOK, Logged
    <3>2. j \in Events(audit_log[i].incident_id, "incident_created")' /\ j <= i
      BY <1>2, <2>1, <3>1, TrailGrows DEF Events
    <3>3. QED
      BY <2>1, <2>3, <3>2
  <2>6. QED
    BY <2>4, <2>5
<1>3. QED
  BY <1>1, <1>2

LEMMA PendingStep ==
    ASSUME TypeOK, LocalsOK, [Next]_vars, PendingOnlyIfInterrupted
    PROVE  PendingOnlyIfInterrupted'
<1> SUFFICES ASSUME NEW id \in IncidentId, Pending(id)'
             PROVE  id \in lost' \cup {incident_id'}
  BY DEF PendingOnlyIfInterrupted
<1>1. CASE SaveIncident
  <2>1. PICK new \in IncidentId : incident_id' = new /\ save_incident(new, incident)
    BY <1>1 DEF SaveIncident
  <2>2. incident_id = NULL /\ UNCHANGED lost
    BY <1>1 DEF SaveIncident, Goto, LocalsOK, HasId, ToAct, ToTell, history
  <2>3. CASE id = new
    BY <2>1, <2>3
  <2>4. CASE id # new
    <3>1. incidents'[id] = incidents[id]
      BY <2>1, <2>4 DEF save_incident, TypeOK
    <3>2. Pending(id)
      BY <3>1 DEF Pending
    <3>3. QED
      BY <2>2, <3>2, NullIsNoId DEF PendingOnlyIfInterrupted
  <2>5. QED
    BY <2>3, <2>4
<1>2. CASE ~SaveIncident
  <2>1. Pending(id)
    <3>1. SUFFICES ASSUME incidents[id] = NULL PROVE incidents'[id] = NULL
      BY RowsStay DEF Pending
    <3>2. CASE RecordOutcome
      BY <3>1, <3>2 DEF RecordOutcome, update_outcome, TypeOK
    <3>3. CASE MarkEscalated
      BY <3>1, <3>3 DEF MarkEscalated, update_escalated, TypeOK
    <3>4. CASE UNCHANGED incidents
      BY <3>1, <3>4
    <3>5. QED
      BY <1>2, <3>2, <3>3, <3>4, ControlFlow
      DEF LogLlmCallFailed, LogParseFailed, LogCreated, EscalateRaw, Gate, TakeSnapshot,
          LogStart, Dispatch, LogComplete, LogEscalation, store, Crash, Sleep, locals
  <2>2. id \in lost \cup {incident_id}
    BY <2>1 DEF PendingOnlyIfInterrupted
  <2>3. lost \subseteq lost'
    BY ControlFlow
    DEF LogLlmCallFailed, LogParseFailed, SaveIncident, LogCreated, EscalateRaw, Gate,
        TakeSnapshot, LogStart, Dispatch, LogComplete, RecordOutcome, LogEscalation,
        MarkEscalated, history, Crash, Sleep, locals
  <2>4. CASE Crash
    BY <2>2, <2>4, NullIsNoId DEF Crash
  <2>5. CASE Sleep
    BY <2>1, <2>2, <2>3, <2>5, NullIsNoId DEF Sleep, Goto, LocalsOK
  <2>6. CASE UNCHANGED incident_id
    BY <2>2, <2>3, <2>6
  <2>7. QED
    BY <1>2, <2>4, <2>5, <2>6, ControlFlow
    DEF LogLlmCallFailed, LogParseFailed, LogCreated, EscalateRaw, Gate, TakeSnapshot,
        LogStart, Dispatch, LogComplete, RecordOutcome, LogEscalation, MarkEscalated,
        locals
<1>3. QED
  BY <1>1, <1>2

LEMMA TrailStep ==
    ASSUME IInv, [Next]_vars
    PROVE  TrailOK'
<1> USE DEF IInv
<1>1. CASE SaveIncident
  <2>1. /\ pc' = "created"
        /\ incident_id' \in IncidentId
        /\ incidents[incident_id'] = NULL
        /\ UNCHANGED <<audit_log, effects>>
    BY <1>1 DEF SaveIncident, Goto, host
  <2>2. ~Logged(incident_id', "escalation")
    BY <2>1, NullIsNoId DEF AuditLinked, Logged, Events
  <2>3. \A i \in DOMAIN effects : effects[i].incident_id # incident_id'
    BY <2>1 DEF GatedEffects
  <2>4. QED
    BY <2>1, <2>2, <2>3 DEF TrailOK, ToAct, HasId, Logged, Events
<1>2. CASE pc' \notin HasId
  BY <1>2 DEF TrailOK, HasId, ToAct
<1>3. CASE /\ pc \in HasId /\ pc' \in HasId
           /\ UNCHANGED incident_id
           /\ decision' = decision \/ Gate
  <2>1. pc' \in ToAct \ {"snapshot"} => incident_id \in snapshots'
    <3>1. CASE TakeSnapshot
      BY <3>1, ActionTyped DEF TakeSnapshot, Goto, LocalsOK, HasId, ToAct
    <3>2. CASE pc \in ToAct \ {"snapshot"}
      BY <3>2, HostGrows DEF TrailOK
    <3>3. CASE pc' \notin ToAct \ {"snapshot"}
      BY <3>3
    <3>4. QED
      BY <1>3, <3>1, <3>2, <3>3, ControlFlow
      DEF LogLlmCallFailed, LogParseFailed, SaveIncident, LogCreated, EscalateRaw, Gate,
          LogStart, Dispatch, LogComplete, RecordOutcome, LogEscalation, MarkEscalated,
          Goto, HasId, ToAct, ToTell, Crash, Sleep, locals
  <2>2. pc' \in {"dispatch", "log_complete", "record"} =>
            \E j \in Events(incident_id, "action_starting")' :
                audit_log'[j].detail = Facts(decision'.action_id, decision'.parameters)
    <3>1. CASE LogStart
      <4>1. decision.incident_id = incident_id /\ UNCHANGED decision
        BY <3>1, ActionTyped DEF LogStart, Goto, LocalsOK, HasId, ToAct, locals
      <4>2. save_audit_event(incident_id, "action_starting",
                             Facts(decision.action_id, decision.parameters))
        BY <3>1, <4>1 DEF LogStart
      <4>3. QED
        BY <1>3, <4>1, <4>2, AppendFacts DEF TypeOK, Events, AuditEvent
    <3>2. CASE pc \in {"dispatch", "log_complete", "record"} /\ UNCHANGED decision
      BY <1>3, <3>2, TrailGrows DEF TrailOK, Events
    <3>3. CASE pc' \notin {"dispatch", "log_complete", "record"}
      BY <3>3
    <3>4. QED
      BY <1>3, <3>1, <3>2, <3>3, ControlFlow
      DEF LogLlmCallFailed, LogParseFailed, SaveIncident, LogCreated, EscalateRaw, Gate,
          TakeSnapshot, Dispatch, LogComplete, RecordOutcome, LogEscalation,
          MarkEscalated, Goto, HasId, ToAct, ToTell, Crash, Sleep, locals
  <2>3. pc' \in HasId \ {"created"} => Logged(incident_id, "incident_created")'
    <3>1. CASE LogCreated
      <4>1. PICK facts : save_audit_event(incident_id, "incident_created", facts)
        BY <3>1 DEF LogCreated
      <4>2. QED
        BY <1>3, <4>1, AppendFacts DEF TypeOK, Logged, Events, AuditEvent
    <3>2. CASE pc \in HasId \ {"created"}
      BY <1>3, <3>2, LoggedStays DEF TrailOK
    <3>3. CASE pc' = "created"
      BY <3>3
    <3>4. QED
      BY <1>3, <3>1, <3>2, <3>3, ControlFlow
      DEF LogLlmCallFailed, LogParseFailed, SaveIncident, EscalateRaw, Gate,
          TakeSnapshot, LogStart, Dispatch, LogComplete, RecordOutcome, LogEscalation,
          MarkEscalated, Goto, HasId, ToAct, ToTell, Crash, Sleep, locals
  <2>4. pc' # "mark" => ~Logged(incident_id, "escalation")'
    <3>1. pc # "mark" /\ pc' # "mark" => pc # "escalate" \/ UNCHANGED audit_log
      BY ControlFlow
      DEF LogLlmCallFailed, LogParseFailed, SaveIncident, LogCreated, EscalateRaw, Gate,
          TakeSnapshot, LogStart, Dispatch, LogComplete, RecordOutcome, LogEscalation,
          MarkEscalated, Goto, store, Crash, Sleep, locals
    <3>2. pc' # "mark" => pc # "mark"
      BY <1>3, ControlFlow
      DEF LogLlmCallFailed, LogParseFailed, SaveIncident, LogCreated, EscalateRaw, Gate,
          TakeSnapshot, LogStart, Dispatch, LogComplete, RecordOutcome, LogEscalation,
          MarkEscalated, Goto, HasId, ToAct, ToTell, Crash, Sleep, locals
    <3>3. incident_id # NULL
      BY <1>3, NullIsNoId DEF LocalsOK
    <3>4. SUFFICES ASSUME pc' # "mark", Logged(incident_id, "escalation")' PROVE FALSE
      OBVIOUS
    <3>5. ~Logged(incident_id, "escalation")
      BY <1>3, <3>2, <3>4 DEF TrailOK
    <3>6. pc = "escalate" /\ ~UNCHANGED audit_log
      BY <1>3, <3>3, <3>4, <3>5, EscalationIsNew DEF Logged, Events
    <3>7. QED
      BY <3>1, <3>2, <3>4, <3>6
  <2>5. pc' \notin {"log_complete", "record"} =>
            \A i \in DOMAIN effects' : effects'[i].incident_id # incident_id
    <3>1. pc' \notin {"log_complete", "record"} =>
              UNCHANGED effects /\ pc \notin {"log_complete", "record"}
      BY <1>3, HostGrows, ControlFlow
      DEF LogLlmCallFailed, LogParseFailed, SaveIncident, LogCreated, EscalateRaw, Gate,
          TakeSnapshot, LogStart, Dispatch, LogComplete, RecordOutcome, LogEscalation,
          MarkEscalated, Goto, HasId, ToAct, ToTell, Crash, Sleep, locals
    <3>2. QED
      BY <1>3, <3>1 DEF TrailOK
  <2>6. QED
    BY <1>3, <2>1, <2>2, <2>3, <2>4, <2>5 DEF TrailOK, Events, Logged
<1>4. QED
  BY <1>1, <1>2, <1>3, ControlFlow
  DEF LogLlmCallFailed, LogParseFailed, LogCreated, EscalateRaw, Gate, TakeSnapshot,
      LogStart, Dispatch, LogComplete, RecordOutcome, LogEscalation, MarkEscalated,
      locals, Goto, HasId, ToAct, ToTell, Crash, Sleep

-----------------------------------------------------------------------------
(* The way through a pass of the loop.  ShutdownCompletes and               *)
(* IncidentSettles rest on it and on the daemon's going on.                *)

\* Steps from each place to the head of the loop on the longest way there, the
\* attempts of the model's client apart.
Places ==
    [down |-> 0, exited |-> 0, loop |-> 1, startup |-> 2, sleep |-> 2, record |-> 3, mark |-> 3,
     llm_failed |-> 3, escalate |-> 4, log_complete |-> 4, llm_none |-> 4, parse_failed |-> 4,
     dispatch |-> 5, log_start |-> 6, snapshot |-> 7, gate |-> 8, created |-> 9, save |-> 10,
     llm |-> 11, detect |-> 15, collect |-> 16]

ToGo == Places[pc] + IF pc = "llm" THEN Retries - attempt ELSE 0

\* Every step but the one that begins a pass is a step forward; a signal or the
\* bounds take nothing back; and a pass begins only while the flag is up.
Onward ==
    /\ ToGo \in 0 .. 16
    /\ Step => ToGo' < ToGo \/ (Loop /\ running /\ pc' = "collect")
    /\ Signal \/ Over => ToGo' = ToGo
    /\ Crash => ToGo' = 0

LEMMA ToGoTyped == TypeOK => ToGo \in 0 .. 16
BY DEF TypeOK, ToGo, Places, Retries, Live, Down

LEMMA OnwardStep == TypeOK /\ LocalsOK /\ [Next]_vars => [Onward]_vars
<1> SUFFICES ASSUME TypeOK, LocalsOK, Next PROVE Onward
  BY DEF Onward
<1> USE DEF Places, ToGo, Goto
<1>1. Retries = 3 /\ attempt \in 0 .. Retries /\ (pc = "llm" => attempt < Retries)
  BY DEF Retries, TypeOK, LocalsOK
<1>2. ASSUME Step PROVE ToGo' < ToGo \/ (Loop /\ running /\ pc' = "collect")
  <2>1. CASE StartUp \/ Loop \/ Sleep
    BY <2>1 DEF StartUp, Loop, Sleep
  <2>2. CASE CollectFails \/ Collect \/ NothingFlagged
    BY <2>2 DEF CollectFails, Collect, NothingFlagged
  <2>3. CASE Flag
    BY <1>1, <2>3 DEF Flag
  <2>4. CASE LlmAnswers \/ LlmAnswersNothing
    BY <1>1, <2>4 DEF LlmAnswers, LlmAnswersNothing
  <2>5. CASE LlmRaises
    BY <1>1, <2>5 DEF LlmRaises
  <2>6. CASE LogLlmCallFailed \/ LogParseFailed \/ SaveIncident \/ LogCreated \/ EscalateRaw
    BY <2>6 DEF LogLlmCallFailed, LogParseFailed, SaveIncident, LogCreated, EscalateRaw
  <2>7. CASE Acting
    BY <2>7 DEF Acting, Gate, TakeSnapshot, LogStart, Dispatch, LogComplete, RecordOutcome
  <2>8. CASE Escalating
    BY <2>8 DEF Escalating, LogEscalation, MarkEscalated
  <2>9. QED
    BY <1>2, <2>1, <2>2, <2>3, <2>4, <2>5, <2>6, <2>7, <2>8 DEF Step, Detection, Reasoning
<1>3. Signal \/ Over => ToGo' = ToGo
  BY DEF Signal, Over, vars, locals
<1>4. Crash => ToGo' = 0
  BY DEF Crash
<1>5. QED
  BY <1>2, <1>3, <1>4, ToGoTyped DEF Onward

-----------------------------------------------------------------------------
(* The theorems.                                                           *)

LEMMA InductiveInit == Init => IInv
<1> SUFFICES ASSUME Init PROVE IInv
  OBVIOUS
<1> USE DEF Init, StoreInit
<1>1. TypeOK
  <2>1. pc \in Down \cup Live /\ running \in BOOLEAN
    BY DEF Down
  <2>2. attempt \in 0..Retries
    BY DEF Retries
  <2>3. incidents \in [IncidentId -> Row \cup {NULL}]
    OBVIOUS
  <2>4. audit_log \in Seq(Event) /\ effects \in Seq(Effect)
    OBVIOUS
  <2>5. QED
    BY <2>1, <2>2, <2>3, <2>4 DEF TypeOK
<1>2. LocalsOK
  BY DEF LocalsOK, HasId, ToAct, ToTell, Unconcluded, Unrecorded
<1>3. TrailOK
  BY DEF TrailOK, HasId, ToAct, ToTell
<1>4. GatedEffects /\ WriteAhead /\ AtMostOnce /\ AuditLinked
  BY DEF GatedEffects, WriteAhead, AtMostOnce, AuditLinked
<1>5. PendingOnlyIfInterrupted
  BY DEF PendingOnlyIfInterrupted, Pending
<1>6. QED
  BY <1>1, <1>2, <1>3, <1>4, <1>5 DEF IInv

LEMMA InductiveStep == IInv /\ [Next]_vars => IInv'
BY TypeStep, LocalsStep, TrailStep, GatedStep, WriteAheadStep, AtMostOnceStep,
   AuditLinkedStep, PendingStep
DEF IInv

\* The inductive invariant holds in every state the daemon reaches.
THEOREM Inductive == Spec => []IInv
BY InductiveInit, InductiveStep, PTL DEF Spec

\* Every variable keeps to its type, and LLMClient.call to its three attempts.
THEOREM TypeCorrect == Spec => []TypeOK
BY Inductive, PTL DEF IInv

\* Nothing is ever done to the host that the gates and the whitelist do not
\* permit for the diagnosis stored under the same id (gate_checker.evaluate,
\* executor.execute), whatever the model answers and wherever the daemon dies.
THEOREM EffectsAreGated == Spec => []GatedEffects
BY Inductive, PTL DEF IInv

\* Snapshot, row and announcement are on disk before the host is touched
\* (executor.execute).
THEOREM EffectsAreWrittenAhead == Spec => []WriteAhead
BY Inductive, PTL DEF IInv

\* No incident is acted on twice, over any number of restarts (main_loop.run,
\* executor.execute).
THEOREM EffectsAreOnce == Spec => []AtMostOnce
BY Inductive, PTL DEF IInv

\* The audit log keeps referential integrity without a foreign key
\* (correlator.correlate, schema.sql).
THEOREM AuditIsLinked == Spec => []AuditLinked
BY Inductive, PTL DEF IInv

\* Only a crash leaves an incident open (main_loop.run).
THEOREM OpenMeansInterrupted == Spec => []PendingOnlyIfInterrupted
BY Inductive, PTL DEF IInv

\* A settled row is never written again (incident_store.save_incident and
\* update_incident).
THEOREM SettledStays == Spec => SettledIsPermanent
<1>1. IInv /\ [Next]_vars =>
          [\A id \in IncidentId : Settled(id) => incidents'[id] = incidents[id]]_vars
  BY RowsStay DEF IInv, Settled
<1>2. QED
  BY <1>1, Inductive, PTL DEF Spec, SettledIsPermanent

\* A pass of the loop, whatever it finds and whatever fails in it, takes at
\* most sixteen steps, the three attempts to reach the model among them, and
\* none of them is repeated (main_loop.run, LLMClient.call); a daemon told to
\* end begins no other.  ShutdownCompletes adds that the steps are taken.
THEOREM PassesAreBounded == Spec => [][Onward]_vars
<1>1. IInv => TypeOK /\ LocalsOK
  BY DEF IInv
<1>2. TypeOK /\ LocalsOK /\ [Next]_vars => [Onward]_vars
  BY OnwardStep
<1>3. QED
  BY Inductive, <1>1, <1>2, PTL DEF Spec

=============================================================================
