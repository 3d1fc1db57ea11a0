------------------------ MODULE MainLoopTrailProofs ------------------------
(***************************************************************************)
(* Further proofs about the daemon: that the rows and the trail, written   *)
(* apart, agree; that no cycle goes without its conclusion; and that the   *)
(* daemon implements the contract.  All three count events and effects,    *)
(* which the invariant IInv does not; TrailExact adds that.                *)
(***************************************************************************)
EXTENDS MainLoopProofs, FiniteSetTheorems

-----------------------------------------------------------------------------
(* What a step adds to the trail and to the host.                          *)

\* One more event is found under its own id and type only.
LEMMA AppendEvents ==
    ASSUME audit_log \in Seq(Event), NEW e, NEW t, NEW facts,
           save_audit_event(e, t, facts)
    PROVE  /\ \A id, type : Events(id, type)' =
                  IF id = e /\ type = t THEN Events(id, type) \cup {Len(audit_log) + 1}
                                        ELSE Events(id, type)
           /\ Len(audit_log) + 1 \in DOMAIN audit_log'
           /\ audit_log'[Len(audit_log) + 1] = AuditEvent(e, t, facts)
           /\ \A i \in DOMAIN audit_log :
                  i \in DOMAIN audit_log' /\ audit_log'[i] = audit_log[i]
<1>1. /\ DOMAIN audit_log' = DOMAIN audit_log \cup {Len(audit_log) + 1}
      /\ audit_log'[Len(audit_log) + 1] = AuditEvent(e, t, facts)
      /\ Len(audit_log) + 1 \notin DOMAIN audit_log
      /\ \A i \in DOMAIN audit_log : audit_log'[i] = audit_log[i]
  BY DEF save_audit_event
<1>2. QED
  BY <1>1 DEF Events, AuditEvent

\* Which step records what: an event that names an incident is one of four,
\* each written by its own step for the incident in hand.
LEMMA EventsStep ==
    ASSUME TypeOK, LocalsOK, [Next]_vars, NEW id \in IncidentId, NEW type
    PROVE  \/ Events(id, type)' = Events(id, type)
           \/ /\ id = incident_id
              /\ Events(id, type)' = Events(id, type) \cup {Len(audit_log) + 1}
              /\ \/ LogCreated /\ type = "incident_created"
                 \/ LogStart /\ type = "action_starting"
                 \/ LogComplete /\ type = "action_complete"
                 \/ LogEscalation /\ type = "escalation"
<1> USE DEF Goto
<1>1. CASE UNCHANGED audit_log
  BY <1>1 DEF Events
<1>2. CASE LogLlmCallFailed \/ LogParseFailed \/ EscalateRaw
  <2>1. PICK t, facts : save_audit_event(NULL, t, facts)
    BY <1>2 DEF LogLlmCallFailed, LogParseFailed, EscalateRaw
  <2>2. QED
    BY <2>1, AppendEvents, NullIsNoId DEF TypeOK
<1>3. CASE LogCreated
  <2>1. PICK facts : save_audit_event(incident_id, "incident_created", facts)
    BY <1>3 DEF LogCreated
  <2>2. QED
    BY <1>3, <2>1, AppendEvents DEF TypeOK
<1>4. CASE LogStart
  <2>1. decision.incident_id = incident_id
    BY <1>4, ActionTyped DEF LogStart, LocalsOK, HasId, ToAct
  <2>2. PICK facts : save_audit_event(incident_id, "action_starting", facts)
    BY <1>4, <2>1 DEF LogStart
  <2>3. QED
    BY <1>4, <2>2, AppendEvents DEF TypeOK
<1>5. CASE LogComplete
  <2>1. decision.incident_id = incident_id
    BY <1>5, ActionTyped DEF LogComplete, LocalsOK, HasId, ToAct
  <2>2. PICK facts : save_audit_event(incident_id, "action_complete", facts)
    BY <1>5, <2>1 DEF LogComplete
  <2>3. QED
    BY <1>5, <2>2, AppendEvents DEF TypeOK
<1>6. CASE LogEscalation
  <2>1. PICK facts : save_audit_event(incident_id, "escalation", facts)
    BY <1>6 DEF LogEscalation
  <2>2. QED
    BY <1>6, <2>1, AppendEvents DEF TypeOK
<1>7. QED
  BY <1>1, <1>2, <1>3, <1>4, <1>5, <1>6, ControlFlow
  DEF SaveIncident, Gate, TakeSnapshot, Dispatch, RecordOutcome, MarkEscalated, store,
      Crash, Sleep, locals

\* A new row is written for the id the step takes in hand.
LEMMA RowIsNew ==
    ASSUME TypeOK, [Next]_vars, NEW id \in IncidentId,
           incidents[id] = NULL, incidents'[id] # NULL
    PROVE  /\ SaveIncident
           /\ id = incident_id'
           /\ incidents'[id] = NewRow(incident)
<1>1. CASE SaveIncident
  BY <1>1 DEF SaveIncident, save_incident, TypeOK
<1>2. CASE RecordOutcome
  BY <1>2 DEF RecordOutcome, update_outcome, TypeOK
<1>3. CASE MarkEscalated
  BY <1>3 DEF MarkEscalated, update_escalated, TypeOK
<1>4. QED
  BY <1>1, <1>2, <1>3, ControlFlow
  DEF LogLlmCallFailed, LogParseFailed, LogCreated, EscalateRaw, Gate, TakeSnapshot,
      LogStart, Dispatch, LogComplete, LogEscalation, store, host, Crash, Sleep, locals

-----------------------------------------------------------------------------
(* The trail of the incident in hand.                                      *)

\* An id without a row has left no event and no effect.
LEMMA NothingBefore ==
    ASSUME TypeOK, AuditLinked, GatedEffects, NEW id \in IncidentId, incidents[id] = NULL
    PROVE  /\ \A type : Events(id, type) = {}
           /\ \A i \in DOMAIN effects : effects[i].incident_id # id
BY NullIsNoId DEF AuditLinked, GatedEffects, Events

\* Every step keeps the trail of the incident in hand exact.
LEMMA TrailExactStep ==
    ASSUME IInv, TrailExact, [Next]_vars
    PROVE  TrailExact'
<1> USE DEF IInv, Goto
<1>1. CASE SaveIncident
  <2>1. /\ pc' = "created"
        /\ incident_id' \in IncidentId
        /\ incidents[incident_id'] = NULL
        /\ UNCHANGED audit_log
    BY <1>1 DEF SaveIncident
  <2>2. \A type : Events(incident_id', type) = {}
    BY <2>1, NothingBefore
  <2>3. ~Logged(incident_id, "action_complete")' /\ ~Logged(incident_id, "action_starting")'
    BY <2>1, <2>2 DEF Logged, Events
  <2>4. QED
    BY <2>1, <2>3 DEF TrailExact
<1>2. CASE pc' \notin HasId
  BY <1>2 DEF TrailExact, HasId, ToAct, ToTell
<1>3. CASE LogCreated \/ Gate \/ TakeSnapshot
  <2>1. /\ pc \in {"created", "gate", "snapshot"}
        /\ pc' \in {"gate", "snapshot", "log_start", "escalate"}
        /\ UNCHANGED <<incident_id, effects>>
    BY <1>3 DEF LogCreated, Gate, TakeSnapshot, locals, host
  <2>2. incident_id \in IncidentId
    BY <2>1 DEF LocalsOK, HasId, ToAct
  <2>3. \A type \in {"action_complete", "action_starting"} :
            Events(incident_id, type)' = Events(incident_id, type)
    BY <2>1, <2>2, EventsStep DEF LogStart, LogComplete
  <2>4. QED
    BY <2>1, <2>3 DEF TrailExact, HasId, ToAct, ToTell, Logged
<1>4. CASE LogStart
  <2>1. /\ pc = "log_start" /\ pc' = "dispatch"
        /\ UNCHANGED incident_id
        /\ incident_id \in IncidentId
        /\ decision.incident_id = incident_id
    BY <1>4, ActionTyped DEF LogStart, locals, LocalsOK, HasId, ToAct
  <2>2. PICK facts : save_audit_event(incident_id, "action_starting", facts)
    BY <1>4, <2>1 DEF LogStart
  <2>3. /\ Events(incident_id, "action_starting") = {}
        /\ Events(incident_id, "action_complete") = {}
    BY <2>1 DEF TrailExact, HasId, ToAct, Logged
  <2>4. /\ Events(incident_id, "action_starting")' = {Len(audit_log) + 1}
        /\ Events(incident_id, "action_complete")' = {}
        /\ Len(audit_log) + 1 \in DOMAIN audit_log'
    BY <2>1, <2>2, <2>3, AppendEvents DEF TypeOK
  <2>5. QED
    BY <2>1, <2>4 DEF TrailExact, Logged
<1>5. CASE Dispatch
  <2>1. /\ pc = "dispatch" /\ pc' = "log_complete"
        /\ UNCHANGED <<incident_id, audit_log>>
        /\ decision.incident_id = incident_id
    BY <1>5, ActionTyped DEF Dispatch, store, LocalsOK, HasId, ToAct
  <2>2. \E i \in DOMAIN effects' : effects'[i].incident_id = incident_id
    <3>1. effects' = Append(effects, [ incident_id |-> incident_id,
              action_id |-> decision.action_id, parameters |-> decision.parameters ])
      BY <1>5, <2>1 DEF Dispatch
    <3>2. /\ Len(effects) + 1 \in DOMAIN effects'
          /\ effects'[Len(effects) + 1].incident_id = incident_id
      BY <3>1 DEF TypeOK
    <3>3. QED
      BY <3>2
  <2>3. QED
    BY <2>1, <2>2 DEF TrailExact, HasId, ToAct, Logged, Events
<1>6. CASE LogComplete
  <2>1. /\ pc = "log_complete" /\ pc' = "record"
        /\ UNCHANGED <<incident_id, decision, success, effects>>
        /\ incident_id \in IncidentId
        /\ decision.incident_id = incident_id
    BY <1>6, ActionTyped DEF LogComplete, locals, host, LocalsOK, HasId, ToAct
  <2>2. save_audit_event(incident_id, "action_complete", {decision.action_id, Outcome})
    BY <1>6, <2>1 DEF LogComplete
  <2>3. Events(incident_id, "action_complete") = {}
    BY <2>1 DEF TrailExact, HasId, ToAct, Logged
  <2>4. /\ Events(incident_id, "action_complete")' = {Len(audit_log) + 1}
        /\ Events(incident_id, "action_starting")' = Events(incident_id, "action_starting")
        /\ Len(audit_log) + 1 \in DOMAIN audit_log'
        /\ audit_log'[Len(audit_log) + 1].detail = {decision.action_id, Outcome}
        /\ \A i \in DOMAIN audit_log : i \in DOMAIN audit_log'
    <3>1. audit_log \in Seq(Event)
      BY DEF TypeOK
    <3> DEFINE facts == {decision.action_id, Outcome}
    <3> HIDE DEF facts
    <3>2. save_audit_event(incident_id, "action_complete", facts)
      BY <2>2 DEF facts
    <3>3. audit_log'[Len(audit_log) + 1] = AuditEvent(incident_id, "action_complete", facts)
      BY <3>1, <3>2, AppendEvents
    <3>4. audit_log'[Len(audit_log) + 1].detail = facts
      BY <3>3 DEF AuditEvent
    <3>5. /\ \A id, type : Events(id, type)' =
                  IF id = incident_id /\ type = "action_complete"
                  THEN Events(id, type) \cup {Len(audit_log) + 1} ELSE Events(id, type)
          /\ Len(audit_log) + 1 \in DOMAIN audit_log'
          /\ \A i \in DOMAIN audit_log : i \in DOMAIN audit_log'
      BY <3>1, <3>2, AppendEvents
    <3>6. /\ Events(incident_id, "action_complete")' = {Len(audit_log) + 1}
          /\ Events(incident_id, "action_starting")' = Events(incident_id, "action_starting")
      BY <2>1, <2>3, <3>5
    <3>7. QED
      BY <3>4, <3>5, <3>6 DEF facts
  <2>5. Outcome' = Outcome
    BY <2>1 DEF Outcome
  <2>6. QED
    BY <2>1, <2>4, <2>5 DEF TrailExact
<1>7. CASE LogEscalation
  <2>1. /\ pc = "escalate" /\ pc' = "mark"
        /\ UNCHANGED incident_id
        /\ incident_id \in IncidentId
    BY <1>7 DEF LogEscalation, locals, LocalsOK, HasId, ToTell
  <2>2. PICK facts : save_audit_event(incident_id, "escalation", facts)
    BY <1>7 DEF LogEscalation
  <2>3. /\ Events(incident_id, "escalation") = {}
        /\ Events(incident_id, "action_starting") = {}
        /\ Events(incident_id, "action_complete") = {}
    BY <2>1 DEF TrailExact, TrailOK, HasId, ToTell, ToAct, Logged
  <2>4. /\ Events(incident_id, "escalation")' = {Len(audit_log) + 1}
        /\ Events(incident_id, "action_starting")' = {}
        /\ Events(incident_id, "action_complete")' = {}
        /\ Len(audit_log) + 1 \in DOMAIN audit_log'
    BY <2>1, <2>2, <2>3, AppendEvents DEF TypeOK
  <2>5. QED
    BY <2>1, <2>4 DEF TrailExact, Logged
<1>8. CASE /\ UNCHANGED <<store, host>>
           /\ UNCHANGED <<pc, locals, lost>>
  BY <1>8 DEF TrailExact, store, host, locals, Events, Logged, Outcome
<1>9. QED
  BY <1>1, <1>2, <1>3, <1>4, <1>5, <1>6, <1>7, <1>8, ControlFlow
  DEF LogLlmCallFailed, LogParseFailed, EscalateRaw, RecordOutcome, MarkEscalated,
      Crash, Sleep, HasId, ToAct, ToTell

-----------------------------------------------------------------------------
(* The rows and the trail.                                                 *)

\* What a step does to the row and the trail of an incident that is not the
\* one in hand, or has its outcome: nothing.
LEMMA SettledFrame ==
    ASSUME TypeOK, LocalsOK, [Next]_vars, NEW id \in IncidentId,
           incidents[id] # NULL, ~Pending(id)
    PROVE  /\ incidents'[id] = incidents[id]
           /\ \A type : Events(id, type)' = Events(id, type)
<1>1. incidents'[id] = incidents[id]
  BY RowsStay
<1>2. ASSUME NEW type PROVE Events(id, type)' = Events(id, type)
  <2>1. pc \in HasId => id # incident_id
    BY DEF LocalsOK
  <2>2. QED
    BY <2>1, EventsStep
    DEF LogCreated, LogStart, LogComplete, LogEscalation, Goto, HasId, ToAct, ToTell
<1>3. QED
  BY <1>1, <1>2

\* What the row and the trail of one incident have to do with each other.
Matches(id) ==
    LET row == incidents[id]
    IN  /\ row.escalated => Cardinality(Events(id, "escalation")) = 1
        /\ row.action_outcome # NULL =>
             /\ Cardinality(Events(id, "action_starting")) = 1
             /\ {audit_log[i].detail : i \in Events(id, "action_complete")}
                    = {{row.action_taken, row.action_outcome}}

Concluded(id) ==
    Logged(id, "escalation") \/ Logged(id, "action_complete") =>
        \/ Settled(id)
        \/ id \in lost
        \/ pc \in Unrecorded /\ id = incident_id

\* A settled row goes on matching its trail, and the two steps that settle
\* one find the events there.
LEMMA MatchesStep ==
    ASSUME IInv, TrailExact, [Next]_vars, NEW id \in IncidentId,
           incidents[id] # NULL => Matches(id), incidents'[id] # NULL
    PROVE  Matches(id)'
<1> USE DEF IInv
<1>1. CASE incidents[id] = NULL
  <2>1. incidents'[id] = NewRow(incident)
    BY <1>1, RowIsNew
  <2>2. ~incidents'[id].escalated /\ incidents'[id].action_outcome = NULL
    BY <2>1 DEF NewRow
  <2>3. QED
    BY <2>2 DEF Matches
<1>2. CASE incidents[id] # NULL /\ ~Pending(id)
  <2>1. /\ incidents'[id] = incidents[id]
        /\ \A type : Events(id, type)' = Events(id, type)
    BY <1>2, SettledFrame
  <2>2. \A i \in Events(id, "action_complete") : audit_log'[i].detail = audit_log[i].detail
    BY TrailGrows DEF Events
  <2>3. QED
    BY <1>2, <2>1, <2>2 DEF Matches
<1>3. CASE Pending(id) /\ RecordOutcome /\ id = incident_id
  <2>1. /\ pc = "record"
        /\ UNCHANGED audit_log
        /\ decision.incident_id = incident_id
        /\ incidents[id] \in Row
        /\ incidents[id] # NULL
    BY <1>3, ActionTyped
    DEF RecordOutcome, Goto, LocalsOK, HasId, ToAct, TypeOK, Pending
  <2>2. incidents'[id] = [incidents[id] EXCEPT !.action_taken = decision.action_id,
                                               !.action_outcome = Outcome]
    BY <1>3, <2>1 DEF RecordOutcome, update_outcome, TypeOK
  <2>3. /\ incidents'[id].action_taken = decision.action_id
        /\ incidents'[id].action_outcome = Outcome
        /\ ~incidents'[id].escalated
    BY <1>3, <2>1, <2>2 DEF Row, Pending
  <2>4. PICK i : Events(id, "action_starting") = {i}
    BY <1>3, <2>1 DEF TrailExact
  <2>5. PICK j : /\ Events(id, "action_complete") = {j}
                 /\ audit_log[j].detail = {decision.action_id, Outcome}
    BY <1>3, <2>1 DEF TrailExact
  <2>6. \A type : Events(id, type)' = Events(id, type)
    BY <2>1 DEF Events
  <2>7. Cardinality(Events(id, "action_starting")') = 1
    BY <2>4, <2>6, FS_Singleton
  <2>8. {audit_log'[k].detail : k \in Events(id, "action_complete")'}
            = {{incidents'[id].action_taken, incidents'[id].action_outcome}}
    <3>1. {audit_log'[k].detail : k \in Events(id, "action_complete")'} = {audit_log'[j].detail}
      BY <2>5, <2>6
    <3>2. audit_log'[j].detail = {decision.action_id, Outcome}
      BY <2>1, <2>5
    <3>3. QED
      BY <2>3, <3>1, <3>2
  <2>9. QED
    BY <2>3, <2>7, <2>8 DEF Matches
<1>4. CASE Pending(id) /\ MarkEscalated /\ id = incident_id
  <2>1. /\ pc = "mark"
        /\ UNCHANGED audit_log
        /\ incidents[id] \in Row
        /\ incidents[id] # NULL
    BY <1>4 DEF MarkEscalated, Goto, TypeOK, Pending
  <2>2. incidents'[id] = [incidents[id] EXCEPT !.escalated = TRUE,
                                               !.human_report = HumanReport]
    BY <1>4, <2>1 DEF MarkEscalated, update_escalated, TypeOK
  <2>3. incidents'[id].action_outcome = NULL
    BY <1>4, <2>1, <2>2 DEF Row, Pending
  <2>4. PICK i : Events(id, "escalation") = {i}
    BY <1>4, <2>1 DEF TrailExact
  <2>5. Cardinality(Events(id, "escalation")') = 1
    BY <2>1, <2>4, FS_Singleton DEF Events
  <2>6. QED
    BY <2>3, <2>5 DEF Matches
<1>5. CASE /\ Pending(id)
           /\ ~(RecordOutcome /\ id = incident_id)
           /\ ~(MarkEscalated /\ id = incident_id)
  <2>1. incidents'[id] = incidents[id]
    <3>1. CASE SaveIncident
      BY <1>5, <3>1 DEF SaveIncident, save_incident, TypeOK, Pending
    <3>2. CASE RecordOutcome
      <4>1. decision.incident_id = incident_id
        BY <3>2, ActionTyped DEF RecordOutcome, Goto, LocalsOK, HasId, ToAct
      <4>2. QED
        BY <1>5, <3>2, <4>1 DEF RecordOutcome, update_outcome, TypeOK
    <3>3. CASE MarkEscalated
      BY <1>5, <3>3 DEF MarkEscalated, update_escalated, TypeOK
    <3>4. QED
      BY <3>1, <3>2, <3>3, ControlFlow
      DEF LogLlmCallFailed, LogParseFailed, LogCreated, EscalateRaw, Gate, TakeSnapshot,
          LogStart, Dispatch, LogComplete, LogEscalation, store, host, Crash, Sleep, locals
  <2>2. ~incidents'[id].escalated /\ incidents'[id].action_outcome = NULL
    BY <1>5, <2>1 DEF Pending
  <2>3. QED
    BY <2>2 DEF Matches
<1>6. QED
  BY <1>1, <1>2, <1>3, <1>4, <1>5 DEF Pending

\* An incident whose trail has its conclusion is settled, or in the window
\* between the two writes, or was in it when the daemon died.
LEMMA ConcludedStep ==
    ASSUME IInv, TrailExact, [Next]_vars, NEW id \in IncidentId,
           incidents[id] # NULL => Concluded(id), incidents'[id] # NULL
    PROVE  Concluded(id)'
<1> USE DEF IInv
<1>1. CASE incidents[id] = NULL
  <2>1. SaveIncident
    BY <1>1, RowIsNew
  <2>2. \A type : Events(id, type)' = Events(id, type)
    BY <2>1 DEF SaveIncident, Events
  <2>3. \A type : Events(id, type) = {}
    BY <1>1, NothingBefore
  <2>4. QED
    BY <2>2, <2>3 DEF Concluded, Logged
<1>2. CASE incidents[id] # NULL /\ ~Pending(id)
  <2>1. incidents'[id] = incidents[id]
    BY <1>2, SettledFrame
  <2>2. Settled(id)'
    BY <1>2, <2>1 DEF Settled, Pending
  <2>3. QED
    BY <2>2 DEF Concluded
<1>3. CASE Pending(id)
  <2> SUFFICES ASSUME Logged(id, "escalation")' \/ Logged(id, "action_complete")'
               PROVE  \/ Settled(id)'
                      \/ id \in lost'
                      \/ pc' \in Unrecorded /\ id = incident_id'
    BY DEF Concluded
  <2>1. lost \subseteq lost'
    BY ControlFlow
    DEF LogLlmCallFailed, LogParseFailed, SaveIncident, LogCreated, EscalateRaw, Gate,
        TakeSnapshot, LogStart, Dispatch, LogComplete, RecordOutcome, LogEscalation,
        MarkEscalated, history, Crash, Sleep, locals
  <2>2. CASE (LogComplete \/ LogEscalation) /\ id = incident_id
    BY <2>2 DEF LogComplete, LogEscalation, Goto, Unrecorded, locals
  <2>3. CASE ~((LogComplete \/ LogEscalation) /\ id = incident_id)
    <3>1. Logged(id, "escalation") \/ Logged(id, "action_complete")
      BY <2>3, EventsStep DEF Logged
    <3>2. id \in lost \/ (pc \in Unrecorded /\ id = incident_id)
      BY <1>3, <3>1 DEF Concluded, Settled, Pending
    <3>3. CASE id \in lost
      BY <2>1, <3>3
    <3>4. CASE pc \in Unrecorded /\ id = incident_id
      <4>1. CASE RecordOutcome
        <5>1. decision.incident_id = incident_id /\ Outcome # NULL
          BY <4>1, ActionTyped, NullAssumption
          DEF RecordOutcome, Goto, LocalsOK, HasId, ToAct, Outcome, Word
        <5>2. incidents[id] \in Row /\ incidents[id] # NULL
          BY <1>3 DEF TypeOK, Pending
        <5>3. incidents'[id] = [incidents[id] EXCEPT !.action_taken = decision.action_id,
                                                     !.action_outcome = Outcome]
          BY <3>4, <4>1, <5>1, <5>2 DEF RecordOutcome, update_outcome, TypeOK
        <5>4. incidents'[id].action_outcome = Outcome
          BY <5>2, <5>3 DEF Row
        <5>5. QED
          BY <1>3, <5>1, <5>4 DEF Settled, Pending
      <4>2. CASE MarkEscalated
        <5>1. incidents[id] \in Row /\ incidents[id] # NULL
          BY <1>3 DEF TypeOK, Pending
        <5>2. incidents'[id] = [incidents[id] EXCEPT !.escalated = TRUE,
                                                     !.human_report = HumanReport]
          BY <3>4, <4>2, <5>1 DEF MarkEscalated, update_escalated, TypeOK
        <5>3. incidents'[id].escalated
          BY <5>1, <5>2 DEF Row
        <5>4. QED
          BY <5>3 DEF Settled, Pending
      <4>3. CASE Crash
        BY <3>4, <4>3, NullIsNoId DEF Crash
      <4>4. CASE UNCHANGED <<pc, incident_id>>
        BY <3>4, <4>4
      <4>5. QED
        BY <3>4, <4>1, <4>2, <4>3, <4>4, ControlFlow
        DEF LogLlmCallFailed, LogParseFailed, SaveIncident, LogCreated, EscalateRaw, Gate,
            TakeSnapshot, LogStart, Dispatch, LogComplete, LogEscalation, Sleep, Goto,
            Unrecorded, HasId, ToAct, ToTell, locals
    <3>5. QED
      BY <3>2, <3>3, <3>4
  <2>4. QED
    BY <2>2, <2>3
<1>4. QED
  BY <1>1, <1>2, <1>3 DEF Pending

LEMMA RowMatchesTrailStep ==
    ASSUME IInv, TrailExact, RowMatchesTrail, [Next]_vars
    PROVE  RowMatchesTrail'
<1>1. \A id \in IncidentId : incidents[id] # NULL => Matches(id) /\ Concluded(id)
  BY DEF RowMatchesTrail, Matches, Concluded
<1>2. \A id \in IncidentId : incidents'[id] # NULL => Matches(id)' /\ Concluded(id)'
  BY <1>1, MatchesStep, ConcludedStep
<1>3. QED
  BY <1>2 DEF RowMatchesTrail, Matches, Concluded

\* The invariant of the daemon with the events counted.
TrailInv == IInv /\ TrailExact /\ RowMatchesTrail

\* Each event and each effect of the incident in hand is there once from its
\* step on, and not before.
THEOREM TrailInductive == Spec => []TrailInv
<1>1. Init => TrailInv
  <2>1. Init => IInv
    BY InductiveInit
  <2>2. Init => TrailExact
    BY DEF Init, TrailExact, HasId, ToAct, ToTell
  <2>3. Init => RowMatchesTrail
    BY DEF Init, StoreInit, RowMatchesTrail
  <2>4. QED
    BY <2>1, <2>2, <2>3 DEF TrailInv
<1>2. TrailInv /\ [Next]_vars => TrailInv'
  BY InductiveStep, TrailExactStep, RowMatchesTrailStep DEF TrailInv
<1>3. QED
  BY <1>1, <1>2, PTL DEF Spec

\* Whatever crashes come between the two transactions, a row says what its
\* trail says, and a concluded trail is missing from its row only where the
\* daemon is, or died, between the two writes (audit_logger.log_escalation,
\* executor.execute and main_loop.run).
THEOREM RowsMatchTheTrail == Spec => []RowMatchesTrail
BY TrailInductive, PTL DEF TrailInv

-----------------------------------------------------------------------------
(* One conclusion per cycle.                                               *)

ConcludingTypes == {"escalation", "action_complete"}

Concluding == {i \in DOMAIN audit_log : audit_log[i].event_type \in ConcludingTypes}

LEMMA ConcludingFinite ==
    ASSUME audit_log \in Seq(Event)
    PROVE  IsFiniteSet(Concluding) /\ Cardinality(Concluding) \in Nat
<1>1. DOMAIN audit_log = 1..Len(audit_log) /\ Len(audit_log) \in Int
  OBVIOUS
<1>2. IsFiniteSet(1..Len(audit_log))
  BY <1>1, FS_Interval
<1>3. Concluding \in SUBSET (1..Len(audit_log))
  BY <1>1 DEF Concluding
<1>4. IsFiniteSet(Concluding)
  BY <1>2, <1>3, FS_Subset
<1>5. QED
  BY <1>4, FS_CardinalityType

\* A logged event adds one to the conclusions if it is one, and nothing if not.
LEMMA ConcludingAppend ==
    ASSUME audit_log \in Seq(Event), NEW e, NEW t, NEW facts,
           save_audit_event(e, t, facts)
    PROVE  /\ Cardinality(Concluding) \in Nat
           /\ Cardinality(Concluding') =
                  Cardinality(Concluding) + IF t \in ConcludingTypes THEN 1 ELSE 0
<1> DEFINE n == Len(audit_log) + 1
<1>1. /\ DOMAIN audit_log = 1..Len(audit_log)
      /\ Len(audit_log) \in Nat
      /\ DOMAIN audit_log' = DOMAIN audit_log \cup {n}
      /\ audit_log'[n] = AuditEvent(e, t, facts)
      /\ n \notin DOMAIN audit_log
      /\ \A i \in DOMAIN audit_log : audit_log'[i] = audit_log[i]
  BY DEF save_audit_event
<1>2. IsFiniteSet(Concluding) /\ Cardinality(Concluding) \in Nat
  BY ConcludingFinite
<1>3. audit_log'[n].event_type = t
  BY <1>1 DEF AuditEvent
<1>4. Concluding' = IF t \in ConcludingTypes THEN Concluding \cup {n} ELSE Concluding
  BY <1>1, <1>3 DEF Concluding
<1>5. n \notin Concluding
  BY <1>1 DEF Concluding
<1>6. Cardinality(Concluding \cup {n}) = Cardinality(Concluding) + 1
  BY <1>2, <1>5, FS_AddElement
<1>7. CASE t \in ConcludingTypes
  BY <1>2, <1>4, <1>6, <1>7
<1>8. CASE t \notin ConcludingTypes
  <2>1. Concluding' = Concluding
    BY <1>4, <1>8
  <2>2. QED
    BY <1>2, <1>8, <2>1
<1>9. QED
  BY <1>7, <1>8

\* Every step that opens a cycle's account, concludes it or dies in between
\* keeps the balance.
LEMMA AccountStep ==
    ASSUME TypeOK, AnomaliesAccounted, [Next]_vars
    PROVE  AnomaliesAccounted'
<1> DEFINE Owed == IF pc \in Unconcluded THEN 1 ELSE 0
<1> USE DEF Goto
<1>a. AnomaliesAccounted <=> anomalies = Cardinality(Concluding) + interrupted + Owed
  BY DEF AnomaliesAccounted, Concluding, ConcludingTypes
<1>b. AnomaliesAccounted' <=>
          anomalies' = Cardinality(Concluding') + interrupted' + Owed'
  BY DEF AnomaliesAccounted, Concluding, ConcludingTypes
<1>c. anomalies \in Nat /\ interrupted \in Nat /\ audit_log \in Seq(Event)
  BY DEF TypeOK
<1>d. Cardinality(Concluding) \in Nat
  BY <1>c, ConcludingFinite
<1>1. CASE UNCHANGED <<audit_log, anomalies, interrupted>> /\ Owed' = Owed
  <2>1. Concluding' = Concluding
    BY <1>1 DEF Concluding
  <2>2. QED
    BY <1>1, <1>a, <1>b, <2>1
<1>2. CASE Flag
  <2>1. /\ Concluding' = Concluding
        /\ anomalies' = anomalies + 1 /\ interrupted' = interrupted
        /\ Owed = 0 /\ Owed' = 1
    BY <1>2 DEF Flag, Concluding, store, Unconcluded
  <2>2. QED
    BY <1>a, <1>b, <1>c, <1>d, <2>1
<1>3. CASE Crash
  <2>1. /\ Concluding' = Concluding
        /\ anomalies' = anomalies /\ interrupted' = interrupted + Owed
        /\ Owed' = 0
    BY <1>3 DEF Crash, Concluding, store, Unconcluded
  <2> HIDE DEF Owed
  <2>2. Owed \in {0, 1}
    BY DEF Owed
  <2>3. QED
    BY <1>a, <1>b, <1>c, <1>d, <2>1, <2>2
<1>4. CASE EscalateRaw \/ LogEscalation \/ LogComplete
  <2>1. PICK e, t, facts : save_audit_event(e, t, facts) /\ t \in ConcludingTypes
    BY <1>4 DEF EscalateRaw, LogEscalation, LogComplete, ConcludingTypes
  <2>2. Cardinality(Concluding') = Cardinality(Concluding) + 1
    BY <1>c, <2>1, ConcludingAppend
  <2>3. /\ anomalies' = anomalies /\ interrupted' = interrupted
        /\ Owed = 1 /\ Owed' = 0
    BY <1>4 DEF EscalateRaw, LogEscalation, LogComplete, history, Unconcluded
  <2>4. QED
    BY <1>a, <1>b, <1>c, <1>d, <2>2, <2>3
<1>5. CASE LogLlmCallFailed \/ LogParseFailed \/ LogCreated \/ LogStart
  <2>1. PICK e, t, facts : save_audit_event(e, t, facts) /\ t \notin ConcludingTypes
    BY <1>5 DEF LogLlmCallFailed, LogParseFailed, LogCreated, LogStart, ConcludingTypes
  <2>2. Cardinality(Concluding') = Cardinality(Concluding)
    BY <1>c, <1>d, <2>1, ConcludingAppend
  <2>3. /\ anomalies' = anomalies /\ interrupted' = interrupted
        /\ Owed' = Owed
    BY <1>5 DEF LogLlmCallFailed, LogParseFailed, LogCreated, LogStart, history, Unconcluded
  <2>4. QED
    BY <1>a, <1>b, <2>2, <2>3
<1>6. CASE Start \/ StartUp \/ Signal \/ Loop \/ Sleep \/ CollectFails \/ Collect
           \/ NothingFlagged \/ LlmAnswers \/ LlmAnswersNothing \/ LlmRaises
  BY <1>1, <1>6 DEF Start, StartUp, Signal, Loop, Sleep, CollectFails, Collect,
     NothingFlagged, LlmAnswers, LlmAnswersNothing, LlmRaises, store, history, Unconcluded,
     Down, Live
<1>7. CASE SaveIncident \/ Gate \/ TakeSnapshot \/ Dispatch \/ RecordOutcome \/ MarkEscalated
  BY <1>1, <1>7 DEF SaveIncident, Gate, TakeSnapshot, Dispatch, RecordOutcome,
     MarkEscalated, store, history, Unconcluded
<1>8. CASE UNCHANGED vars
  BY <1>1, <1>8 DEF vars, store, history
<1>9. QED
  BY <1>2, <1>3, <1>4, <1>5, <1>6, <1>7, <1>8
  DEF Next, Step, Detection, Reasoning, Acting, Escalating, Over

\* Each cycle that flags something is concluded once, by an escalation or a
\* completed action, or a crash cut it short (main_loop.run): no path through
\* the cycle, and no number of restarts, loses one or concludes it twice.
THEOREM EveryAnomalyIsAccounted == Spec => []AnomaliesAccounted
<1>1. Init => AnomaliesAccounted
  <2> SUFFICES ASSUME Init PROVE AnomaliesAccounted
    OBVIOUS
  <2>1. Concluding = {} /\ anomalies = 0 /\ interrupted = 0 /\ pc \notin Unconcluded
    BY DEF Init, StoreInit, Concluding, Unconcluded
  <2>2. QED
    BY <2>1, FS_EmptySet DEF AnomaliesAccounted, Concluding, ConcludingTypes
<1>2. TypeOK /\ AnomaliesAccounted /\ [Next]_vars => AnomaliesAccounted'
  BY AccountStep
<1>3. QED
  BY <1>1, <1>2, TypeCorrect, PTL DEF Spec

-----------------------------------------------------------------------------
(* The contract.                                                           *)

\* A decision to act is made for a diagnosis that allows an action.
LEMMA ActionIsAllowed ==
    ASSUME NEW i \in IncidentReport, NEW id,
           Evaluate(i, id).kind = "action"
    PROVE  Actionable(i)
<1> DEFINE a      == i.suggested_action
           params == [ name \in {d.name : d \in whitelist[a].parameters}
                           |-> DefaultParam(name, i) ]
<1>1. /\ FindAction(a) # NULL
      /\ BuildParams(i, FindAction(a)) # NULL
      /\ Evaluate(i, id) = ActionDecision(a, BuildParams(i, FindAction(a)), id)
  BY DEF Evaluate, EscalationDecision
<1>2. a \in DOMAIN whitelist /\ BuildParams(i, FindAction(a)) = params
  BY <1>1 DEF FindAction, BuildParams
<1>3. Permitted(i, a, params)
  <2>1. Permitted(i, Evaluate(i, id).action_id, Evaluate(i, id).parameters)
    BY GateSoundness
  <2>2. Evaluate(i, id).action_id = a /\ Evaluate(i, id).parameters = params
    BY <1>1, <1>2 DEF ActionDecision
  <2>3. QED
    BY <2>1, <2>2
<1>4. QED
  BY <1>2, <1>3 DEF Actionable

\* The abstract variables of one incident are those of another step's unless
\* the step is one of five, for the incident in hand.
LEMMA ContractFrame ==
    ASSUME IInv, [Next]_vars, NEW id \in IncidentId
    PROVE  /\ ~(SaveIncident /\ id = incident_id') =>
                  ContractDiagnosis'[id] = ContractDiagnosis[id]
           /\ /\ ~(SaveIncident /\ id = incident_id')
              /\ ~((LogStart \/ LogComplete \/ LogEscalation) /\ id = incident_id)
              => ContractStatus'[id] = ContractStatus[id]
           /\ ~(Dispatch /\ id = incident_id) =>
                  ContractPerformed'[id] = ContractPerformed[id]
<1> USE DEF IInv
<1>1. ASSUME ~(SaveIncident /\ id = incident_id')
      PROVE  /\ incidents[id] = NULL <=> incidents'[id] = NULL
             /\ incidents[id] # NULL => incidents'[id].incident = incidents[id].incident
  BY <1>1, RowIsNew, RowsStay
<1>2. ~(SaveIncident /\ id = incident_id') => ContractDiagnosis'[id] = ContractDiagnosis[id]
  BY <1>1 DEF ContractDiagnosis
<1>3. ASSUME ~(SaveIncident /\ id = incident_id'),
             ~((LogStart \/ LogComplete \/ LogEscalation) /\ id = incident_id)
      PROVE  ContractStatus'[id] = ContractStatus[id]
  <2>1. /\ Logged(id, "escalation")' <=> Logged(id, "escalation")
        /\ Logged(id, "action_complete")' <=> Logged(id, "action_complete")
        /\ Logged(id, "action_starting")' <=> Logged(id, "action_starting")
    BY <1>3, EventsStep DEF Logged
  <2>2. incidents[id] = NULL <=> incidents'[id] = NULL
    BY <1>1, <1>3
  <2>3. ActionFailed(id)' <=> ActionFailed(id)
    <3>1. \A i \in Events(id, "action_complete") : audit_log'[i] = audit_log[i]
      BY TrailGrows DEF Events
    <3>2. Events(id, "action_complete")' = Events(id, "action_complete")
      BY <1>3, EventsStep
    <3>3. QED
      BY <3>1, <3>2 DEF ActionFailed
  <2>4. QED
    BY <2>1, <2>2, <2>3 DEF ContractStatus
<1>4. ASSUME ~(Dispatch /\ id = incident_id)
      PROVE  ContractPerformed'[id] = ContractPerformed[id]
  <2>1. EffectsFor(id)' = EffectsFor(id)
    <3>1. CASE UNCHANGED effects
      BY <3>1 DEF EffectsFor
    <3>2. CASE Dispatch
      BY <1>4, <3>2, DispatchFacts DEF EffectsFor
    <3>3. QED
      BY <3>1, <3>2, HostGrows
  <2>2. QED
    BY <2>1 DEF ContractPerformed
<1>5. QED
  BY <1>2, <1>3, <1>4

\* How the abstract status follows from the trail.
LEMMA StatusFacts ==
    ASSUME NEW id \in IncidentId
    PROVE  /\ incidents[id] = NULL => ContractStatus[id] = "unknown"
           /\ /\ incidents[id] # NULL
              /\ ~Logged(id, "escalation") /\ ~Logged(id, "action_complete")
              => ContractStatus[id] = IF Logged(id, "action_starting")
                                      THEN "announced" ELSE "open"
BY DEF ContractStatus, ActionFailed, Logged

\* The abstract variables after a step that changes the status of one
\* incident only.
StatusMoves(id, from, to) ==
    /\ ContractStatus[id] = from
    /\ ContractStatus' = [ContractStatus EXCEPT ![id] = to]
    /\ ContractDiagnosis' = ContractDiagnosis
    /\ ContractPerformed' = ContractPerformed

\* A status moves alone where the trail of the incident in hand is all that
\* changes.
LEMMA StatusStep ==
    ASSUME IInv, [Next]_vars, LogStart \/ LogComplete \/ LogEscalation,
           incident_id \in IncidentId
    PROVE  /\ ContractDiagnosis' = ContractDiagnosis
           /\ ContractPerformed' = ContractPerformed
           /\ ContractStatus' =
                  [ContractStatus EXCEPT ![incident_id] = ContractStatus'[incident_id]]
<1>1. ~SaveIncident /\ ~Dispatch
  BY DEF LogStart, LogComplete, LogEscalation, SaveIncident, Dispatch, Goto
<1>2. \A id \in IncidentId : /\ ContractDiagnosis'[id] = ContractDiagnosis[id]
                             /\ ContractPerformed'[id] = ContractPerformed[id]
  BY <1>1, ContractFrame
<1>3. \A id \in IncidentId \ {incident_id} : ContractStatus'[id] = ContractStatus[id]
  BY <1>1, ContractFrame
<1>4. ContractDiagnosis' = ContractDiagnosis
  BY <1>2 DEF ContractDiagnosis
<1>5. ContractPerformed' = ContractPerformed
  BY <1>2 DEF ContractPerformed
<1>6. /\ ContractStatus = [id \in IncidentId |-> ContractStatus[id]]
      /\ ContractStatus' = [id \in IncidentId |-> ContractStatus'[id]]
  BY DEF ContractStatus
<1>7. QED
  BY <1>3, <1>4, <1>5, <1>6

\* A new row opens an incident with its diagnosis.
LEMMA OpenStep ==
    ASSUME IInv, [Next]_vars, SaveIncident
    PROVE  \E id \in IncidentId :
               /\ ContractStatus[id] = "unknown"
               /\ ContractStatus' = [ContractStatus EXCEPT ![id] = "open"]
               /\ ContractDiagnosis'[id] \in IncidentReport
               /\ ContractDiagnosis' =
                      [ContractDiagnosis EXCEPT ![id] = ContractDiagnosis'[id]]
               /\ ContractPerformed' = ContractPerformed
<1> USE DEF IInv
<1>1. PICK id \in IncidentId : /\ incidents[id] = NULL
                               /\ incident_id' = id
                               /\ save_incident(id, incident)
  BY DEF SaveIncident
<1>2. /\ incident \in IncidentReport
      /\ UNCHANGED <<audit_log, effects>>
      /\ ~Dispatch /\ ~LogStart /\ ~LogComplete /\ ~LogEscalation
  BY DEF SaveIncident, LocalsOK, Goto, host, Dispatch, LogStart, LogComplete, LogEscalation
<1>3. /\ incidents'[id] = NewRow(incident)
      /\ incidents'[id] # NULL
      /\ incidents'[id].incident = incident
  BY <1>1, <1>2, NewRowTyped, NullAssumption DEF save_incident, NewRow, TypeOK
<1>4. \A type : ~Logged(id, type)'
  <2>1. \A type : Events(id, type) = {}
    BY <1>1, NothingBefore
  <2>2. \A type : Events(id, type)' = {}
    BY <1>2, <2>1 DEF Events
  <2>3. QED
    BY <2>2 DEF Logged
<1>5. ContractDiagnosis'[id] = incident /\ ContractStatus'[id] = "open"
  BY <1>3, <1>4 DEF ContractDiagnosis, ContractStatus, ActionFailed, Logged
<1>6. ContractStatus[id] = "unknown"
  BY <1>1, StatusFacts
<1>7. \A other \in IncidentId \ {id} :
          /\ ContractDiagnosis'[other] = ContractDiagnosis[other]
          /\ ContractStatus'[other] = ContractStatus[other]
  BY <1>1, <1>2, ContractFrame
<1>8. \A other \in IncidentId : ContractPerformed'[other] = ContractPerformed[other]
  BY <1>2, ContractFrame
<1>9. ContractStatus' = [ContractStatus EXCEPT ![id] = "open"]
  BY <1>5, <1>7 DEF ContractStatus
<1>10. ContractDiagnosis' = [ContractDiagnosis EXCEPT ![id] = ContractDiagnosis'[id]]
  BY <1>7 DEF ContractDiagnosis
<1>11. ContractPerformed' = ContractPerformed
  BY <1>8 DEF ContractPerformed
<1>12. QED
  BY <1>2, <1>5, <1>6, <1>9, <1>10, <1>11

LEMMA AnnounceStep ==
    ASSUME IInv, TrailExact, [Next]_vars, LogStart
    PROVE  /\ incident_id \in IncidentId
           /\ ContractDiagnosis[incident_id] \in {d \in IncidentReport : Actionable(d)}
           /\ StatusMoves(incident_id, "open", "announced")
<1> USE DEF IInv
<1>1. /\ pc = "log_start"
      /\ incident_id \in IncidentId
      /\ incident \in IncidentReport
      /\ incidents[incident_id] # NULL
      /\ incidents[incident_id].incident = incident
      /\ decision = Evaluate(incident, incident_id)
      /\ decision.kind = "action"
      /\ decision.incident_id = incident_id
      /\ UNCHANGED <<incident_id, incidents>>
  BY ActionTyped DEF LogStart, Goto, LocalsOK, HasId, ToAct, Pending, locals
<1>2. ContractDiagnosis[incident_id] \in {d \in IncidentReport : Actionable(d)}
  BY <1>1, ActionIsAllowed DEF ContractDiagnosis
<1>3. /\ Events(incident_id, "escalation") = {}
      /\ Events(incident_id, "action_complete") = {}
      /\ Events(incident_id, "action_starting") = {}
  BY <1>1 DEF TrailOK, TrailExact, HasId, ToAct, Logged
<1>4. ContractStatus[incident_id] = "open"
  BY <1>1, <1>3, StatusFacts DEF Logged
<1>5. PICK facts : save_audit_event(incident_id, "action_starting", facts)
  BY <1>1 DEF LogStart
<1>6. /\ Events(incident_id, "escalation")' = {}
      /\ Events(incident_id, "action_complete")' = {}
      /\ Events(incident_id, "action_starting")' = {Len(audit_log) + 1}
  BY <1>1, <1>3, <1>5, AppendEvents DEF TypeOK
<1>7. ContractStatus'[incident_id] = "announced"
  BY <1>1, <1>6 DEF ContractStatus, ActionFailed, Logged
<1>8. QED
  BY <1>1, <1>2, <1>4, <1>7, StatusStep DEF StatusMoves

LEMMA ConcludeStep ==
    ASSUME IInv, TrailExact, [Next]_vars, LogComplete
    PROVE  /\ incident_id \in IncidentId
           /\ ContractPerformed[incident_id] = 1
           /\ \E outcome \in {"resolved", "failed"} :
                  StatusMoves(incident_id, "announced", outcome)
<1> USE DEF IInv
<1>1. /\ pc = "log_complete"
      /\ incident_id \in IncidentId
      /\ incidents[incident_id] # NULL
      /\ decision.incident_id = incident_id
      /\ UNCHANGED <<incident_id, incidents>>
  BY ActionTyped DEF LogComplete, Goto, LocalsOK, HasId, ToAct, Pending, locals
<1>2. ContractPerformed[incident_id] = 1
  <2>1. PICK i \in DOMAIN effects : effects[i].incident_id = incident_id
    BY <1>1 DEF TrailExact
  <2>2. EffectsFor(incident_id) = {i}
    BY <2>1 DEF EffectsFor, AtMostOnce
  <2>3. QED
    BY <1>1, <2>2, FS_Singleton DEF ContractPerformed
<1>3. /\ Events(incident_id, "escalation") = {}
      /\ Events(incident_id, "action_complete") = {}
      /\ Events(incident_id, "action_starting") # {}
  BY <1>1 DEF TrailOK, TrailExact, HasId, ToAct, Logged
<1>4. ContractStatus[incident_id] = "announced"
  BY <1>1, <1>3, StatusFacts DEF Logged
<1>5. PICK facts : save_audit_event(incident_id, "action_complete", facts)
  BY <1>1 DEF LogComplete
<1>6. /\ Events(incident_id, "escalation")' = {}
      /\ Events(incident_id, "action_complete")' = {Len(audit_log) + 1}
  BY <1>1, <1>3, <1>5, AppendEvents DEF TypeOK
<1>7. ContractStatus'[incident_id] \in {"resolved", "failed"}
  BY <1>1, <1>6 DEF ContractStatus, Logged
<1>8. QED
  BY <1>1, <1>2, <1>4, <1>7, StatusStep DEF StatusMoves

LEMMA HandOverStep ==
    ASSUME IInv, TrailExact, [Next]_vars, LogEscalation
    PROVE  /\ incident_id \in IncidentId
           /\ StatusMoves(incident_id, "open", "escalated")
<1> USE DEF IInv
<1>1. /\ pc = "escalate"
      /\ incident_id \in IncidentId
      /\ incidents[incident_id] # NULL
      /\ UNCHANGED <<incident_id, incidents>>
  BY DEF LogEscalation, Goto, LocalsOK, HasId, ToTell, Pending, locals
<1>2. /\ Events(incident_id, "escalation") = {}
      /\ Events(incident_id, "action_complete") = {}
      /\ Events(incident_id, "action_starting") = {}
  BY <1>1 DEF TrailOK, TrailExact, HasId, ToTell, Logged
<1>3. ContractStatus[incident_id] = "open"
  BY <1>1, <1>2, StatusFacts DEF Logged
<1>4. PICK facts : save_audit_event(incident_id, "escalation", facts)
  BY DEF LogEscalation
<1>5. Events(incident_id, "escalation")' = {Len(audit_log) + 1}
  BY <1>1, <1>2, <1>4, AppendEvents DEF TypeOK
<1>6. ContractStatus'[incident_id] = "escalated"
  BY <1>1, <1>5 DEF ContractStatus, Logged
<1>7. QED
  BY <1>1, <1>3, <1>6, StatusStep DEF StatusMoves

LEMMA PerformStep ==
    ASSUME IInv, TrailExact, [Next]_vars, Dispatch
    PROVE  /\ incident_id \in IncidentId
           /\ ContractStatus[incident_id] = "announced"
           /\ ContractPerformed[incident_id] = 0
           /\ ContractPerformed' = [ContractPerformed EXCEPT ![incident_id] = 1]
           /\ ContractDiagnosis' = ContractDiagnosis
           /\ ContractStatus' = ContractStatus
<1> USE DEF IInv
<1>1. /\ pc = "dispatch"
      /\ incident_id \in IncidentId
      /\ incidents[incident_id] # NULL
      /\ decision.incident_id = incident_id
      /\ UNCHANGED incident_id
      /\ ~SaveIncident /\ ~LogStart /\ ~LogComplete /\ ~LogEscalation
  BY ActionTyped DEF Dispatch, Goto, LocalsOK, HasId, ToAct, Pending, locals,
     SaveIncident, LogStart, LogComplete, LogEscalation
<1>2. /\ Events(incident_id, "escalation") = {}
      /\ Events(incident_id, "action_complete") = {}
      /\ Events(incident_id, "action_starting") # {}
  BY <1>1 DEF TrailOK, TrailExact, HasId, ToAct, Logged
<1>3. ContractStatus[incident_id] = "announced"
  BY <1>1, <1>2, StatusFacts DEF Logged
<1>4. EffectsFor(incident_id) = {}
  BY <1>1 DEF TrailOK, HasId, ToAct, EffectsFor
<1>5. ContractPerformed[incident_id] = 0
  BY <1>1, <1>4, FS_EmptySet DEF ContractPerformed
<1>6. EffectsFor(incident_id)' = {Len(effects) + 1}
  <2>1. effects' = Append(effects, [ incident_id |-> incident_id,
            action_id |-> decision.action_id, parameters |-> decision.parameters ])
    BY <1>1 DEF Dispatch
  <2>2. /\ DOMAIN effects' = DOMAIN effects \cup {Len(effects) + 1}
        /\ effects'[Len(effects) + 1].incident_id = incident_id
        /\ \A i \in DOMAIN effects : effects'[i] = effects[i]
    BY <2>1 DEF TypeOK
  <2>3. QED
    BY <1>1, <1>4, <2>2 DEF EffectsFor
<1>7. ContractPerformed'[incident_id] = 1
  BY <1>1, <1>6, FS_Singleton DEF ContractPerformed
<1>8. \A id \in IncidentId \ {incident_id} : ContractPerformed'[id] = ContractPerformed[id]
  BY ContractFrame
<1>9. \A id \in IncidentId : /\ ContractDiagnosis'[id] = ContractDiagnosis[id]
                             /\ ContractStatus'[id] = ContractStatus[id]
  BY <1>1, ContractFrame
<1>10. ContractPerformed' = [ContractPerformed EXCEPT ![incident_id] = 1]
  BY <1>7, <1>8 DEF ContractPerformed
<1>11. ContractDiagnosis' = ContractDiagnosis /\ ContractStatus' = ContractStatus
  BY <1>9 DEF ContractDiagnosis, ContractStatus
<1>12. QED
  BY <1>1, <1>3, <1>5, <1>10, <1>11

\* The daemon keeps the contract: what an auditor of the store and the host
\* sees of an incident is opened once, and then escalated, or announced,
\* performed once and concluded, if its diagnosis allows; nothing more comes
\* of one that an action resolved (main_loop.run, executor.execute,
\* audit_logger.log_escalation).
THEOREM KeepsTheContract == Spec => ImplementsContract
<1>1. Init => Contract!Init
  <2> SUFFICES ASSUME Init PROVE Contract!Init
    OBVIOUS
  <2>1. \A id \in IncidentId : incidents[id] = NULL /\ EffectsFor(id) = {}
    BY DEF Init, StoreInit, EffectsFor
  <2>2. /\ ContractDiagnosis = [id \in IncidentId |-> NULL]
        /\ ContractStatus = [id \in IncidentId |-> "unknown"]
    BY <2>1 DEF ContractDiagnosis, ContractStatus
  <2>3. ContractPerformed = [id \in IncidentId |-> 0]
    BY <2>1, FS_EmptySet DEF ContractPerformed
  <2>4. QED
    BY <2>2, <2>3 DEF Contract!Init
<1>2. ASSUME TrailInv, [Next]_vars PROVE [Contract!Next]_(Contract!cvars)
  <2>0. IInv /\ TrailExact
    BY <1>2 DEF TrailInv
  <2>1. CASE SaveIncident
    <3>1. \E id \in IncidentId : Contract!Open(id)
      BY <1>2, <2>0, <2>1, OpenStep DEF Contract!Open, Contract!Move
    <3>2. QED
      BY <3>1 DEF Contract!Next
  <2>2. CASE LogStart
    <3>1. incident_id \in IncidentId /\ Contract!Announce(incident_id)
      BY <1>2, <2>0, <2>2, AnnounceStep DEF StatusMoves, Contract!Announce, Contract!Move
    <3>2. QED
      BY <3>1 DEF Contract!Next
  <2>3. CASE Dispatch
    <3>1. incident_id \in IncidentId /\ Contract!Perform(incident_id)
      BY <1>2, <2>0, <2>3, PerformStep DEF Contract!Perform
    <3>2. QED
      BY <3>1 DEF Contract!Next
  <2>4. CASE LogComplete
    <3>1. incident_id \in IncidentId /\ Contract!Conclude(incident_id)
      BY <1>2, <2>0, <2>4, ConcludeStep DEF StatusMoves, Contract!Conclude, Contract!Move
    <3>2. QED
      BY <3>1 DEF Contract!Next
  <2>5. CASE LogEscalation
    <3>1. incident_id \in IncidentId /\ Contract!Escalate(incident_id)
      BY <1>2, <2>0, <2>5, HandOverStep DEF StatusMoves, Contract!Escalate, Contract!Move
    <3>2. QED
      BY <3>1 DEF Contract!Next
  <2>6. CASE ~(SaveIncident \/ LogStart \/ Dispatch \/ LogComplete \/ LogEscalation)
    <3>1. \A id \in IncidentId : /\ ContractDiagnosis'[id] = ContractDiagnosis[id]
                                 /\ ContractStatus'[id] = ContractStatus[id]
                                 /\ ContractPerformed'[id] = ContractPerformed[id]
      BY <1>2, <2>0, <2>6, ContractFrame
    <3>2. /\ ContractDiagnosis' = ContractDiagnosis
          /\ ContractStatus' = ContractStatus
          /\ ContractPerformed' = ContractPerformed
      BY <3>1 DEF ContractDiagnosis, ContractStatus, ContractPerformed
    <3>3. QED
      BY <3>2 DEF Contract!cvars
  <2>7. QED
    BY <2>1, <2>2, <2>3, <2>4, <2>5, <2>6
<1>3. QED
  BY <1>1, <1>2, TrailInductive, PTL DEF Spec, ImplementsContract, Contract!Spec

=============================================================================
