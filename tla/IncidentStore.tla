---------------------------- MODULE IncidentStore ----------------------------
(***************************************************************************)
(* The SQLite store (storage/incident_store.py, storage/schema.sql): a     *)
(* table of incidents by primary key and an audit log that only grows.     *)
(* Every operation opens its own connection and commits on its own, so     *)
(* each is one atomic step and no two of them form a transaction.          *)
(***************************************************************************)
EXTENDS Sequences, GateChecker

VARIABLES
    incidents,   \* id |-> row, NULL where the table has no row
    audit_log    \* the rows of audit_log in the order of their AUTOINCREMENT id

store == <<incidents, audit_log>>

\* A row: the diagnosis it was inserted with, and the columns that change.
\* human_report holds what the report is about, never its wording.
NewRow(incident) ==
    [ incident       |-> incident,
      action_taken   |-> NULL,
      action_outcome |-> NULL,
      escalated      |-> FALSE,
      human_report   |-> NULL ]

AuditEvent(incident_id, event_type, detail) ==
    [ incident_id |-> incident_id, event_type |-> event_type, detail |-> detail ]

StoreInit ==
    /\ incidents = [id \in IncidentId |-> NULL]
    /\ audit_log = << >>

\* INSERT OR REPLACE: a row already there would be lost.
save_incident(id, incident) ==
    incidents' = [incidents EXCEPT ![id] = NewRow(incident)]

save_audit_event(incident_id, event_type, detail) ==
    audit_log' = Append(audit_log, AuditEvent(incident_id, event_type, detail))

\* UPDATE ... WHERE id = ?: no row, no effect and no error.
update_outcome(id, action_id, outcome) ==
    incidents' = IF incidents[id] = NULL THEN incidents ELSE
        [incidents EXCEPT ![id].action_taken = action_id,
                          ![id].action_outcome = outcome]

\* VARIANT of update_escalated: the report is stored, the flag forgotten.
update_report_only(id, human_report) ==
    incidents' = IF incidents[id] = NULL THEN incidents ELSE
        [incidents EXCEPT ![id].human_report = human_report]

update_escalated(id, human_report) ==
    incidents' = IF incidents[id] = NULL THEN incidents ELSE
        [incidents EXCEPT ![id].escalated = TRUE,
                          ![id].human_report = human_report]

-----------------------------------------------------------------------------
(* What a reader of the store asks of it.                                  *)

\* The events of one type recorded for an id.
Events(id, event_type) ==
    {i \in DOMAIN audit_log : /\ audit_log[i].incident_id = id
                              /\ audit_log[i].event_type = event_type}

Logged(id, event_type) == Events(id, event_type) # {}

\* An incident whose row says neither what was done nor that a human was told.
Pending(id) ==
    /\ incidents[id] # NULL
    /\ incidents[id].action_outcome = NULL
    /\ ~incidents[id].escalated

Settled(id) == incidents[id] # NULL /\ ~Pending(id)
=============================================================================
