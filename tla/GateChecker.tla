----------------------------- MODULE GateChecker -----------------------------
(***************************************************************************)
(* The three gates between a diagnosis and an automatic action             *)
(* (remediation/gate_checker.py).  The whitelist maps an action to its     *)
(* entry in config/whitelist.yaml; a regular expression is the set of      *)
(* strings it accepts.                                                     *)
(***************************************************************************)
EXTENDS ResponseParser

CONSTANTS
    IncidentId,             \* the uuid4 strings
    confidence_threshold,   \* CONFIDENCE_THRESHOLD, in hundredths
    whitelist,              \* action |-> [fault_categories, parameters]
    ServiceUnit             \* component |-> component, ".service" appended
                            \* unless it already ends so

\* Decisions name their incident: an ActionDecision carries the id it was
\* evaluated for, an EscalationDecision carries none.
ActionDecision(action_id, parameters, incident_id) ==
    [ kind |-> "action", action_id |-> action_id,
      parameters |-> parameters, incident_id |-> incident_id ]

EscalationDecision(gate_failed) ==
    [ kind |-> "escalation", gate_failed |-> gate_failed ]

FindAction(action_id) ==
    IF action_id \in DOMAIN whitelist THEN whitelist[action_id] ELSE NULL

\* The default of a parameter, by its name.
DefaultParam(name, incident) ==
    CASE name = "max_size"   -> "500M"
      [] name = "unit_name"  -> ServiceUnit[incident.root_cause_component]
      [] name = "table_name" -> "public"
      [] OTHER               -> ""

\* VARIANT of Validated: the regular expression is never consulted.
ValidatedNever(def, value) == TRUE

\* A value is checked only when the entry has a pattern and the value is not
\* empty.
Validated(def, value) ==
    \/ def.pattern = NULL
    \/ value = ""
    \/ value \in def.pattern

\* The parameters of a whitelist entry, or None when one fails its pattern.
BuildParams(incident, entry) ==
    LET params == [ name \in {d.name : d \in entry.parameters}
                        |-> DefaultParam(name, incident) ]
    IN  IF \A d \in entry.parameters : Validated(d, params[d.name])
        THEN params
        ELSE NULL

\* The gates, in the code's order: the first that fails names the escalation.
Evaluate(incident, incident_id) ==
    LET action_id == incident.suggested_action
        entry     == FindAction(action_id)
    IN  IF incident.confidence < confidence_threshold
          THEN EscalationDecision("confidence")
        ELSE IF incident.hardware_involved
          THEN EscalationDecision("hardware")
        ELSE IF \/ ~incident.auto_remediable
                \/ action_id = NULL
                \/ entry = NULL
          THEN EscalationDecision("whitelist")
        ELSE IF \/ incident.fault_category \notin entry.fault_categories
                \/ BuildParams(incident, entry) = NULL
          THEN EscalationDecision("whitelist")
        ELSE ActionDecision(action_id, BuildParams(incident, entry), incident_id)

-----------------------------------------------------------------------------
(* What the gates promise, stated without their order.                     *)

\* Every parameter a whitelist entry declares has a value its pattern accepts.
ParametersValid(entry, parameters) ==
    /\ DOMAIN parameters = {d.name : d \in entry.parameters}
    /\ \A d \in entry.parameters :
           d.pattern # NULL /\ parameters[d.name] # ""
               => parameters[d.name] \in d.pattern

\* The action, with these parameters, is one the project's rules allow for
\* this diagnosis.
Permitted(incident, action_id, parameters) ==
    /\ incident.confidence >= confidence_threshold
    /\ ~incident.hardware_involved
    /\ incident.auto_remediable
    /\ action_id = incident.suggested_action
    /\ action_id \in DOMAIN whitelist
    /\ incident.fault_category \in whitelist[action_id].fault_categories
    /\ ParametersValid(whitelist[action_id], parameters)

\* Some action is allowed for this diagnosis.
Actionable(incident) ==
    /\ incident.suggested_action \in DOMAIN whitelist
    /\ LET entry == whitelist[incident.suggested_action]
       IN  Permitted(incident, incident.suggested_action,
                     [ name \in {d.name : d \in entry.parameters}
                         |-> DefaultParam(name, incident) ])

ASSUME ThresholdAssumption == confidence_threshold \in 0..100
ASSUME NullIsNoId == NULL \notin IncidentId
=============================================================================
