--------------------------- MODULE ResponseParser ---------------------------
(***************************************************************************)
(* What the daemon makes of the text a language model returns              *)
(* (reasoning/response_parser.py) and the schema it holds the text to      *)
(* (reasoning/schemas.py).                                                 *)
(*                                                                         *)
(* A reply is what stands before the JSON body, the decoded body, and what *)
(* stands after it.  Confidence is counted in hundredths; the free-text    *)
(* fields of the schema are left out; the causal chain is the set of       *)
(* components its steps name.                                              *)
(***************************************************************************)
EXTENDS Integers

CONSTANTS
    Component,   \* names a diagnosis may give to a part of the server
    NULL         \* Python's None

VALID_FAULT_CATEGORIES == {"hardware", "os", "application", "network", "database"}

VALID_ACTIONS ==
    {"restart_service", "vacuum_logs", "reap_zombies", "trigger_vacuum", NULL}

IncidentReport ==
    [ root_cause_component : Component,
      confidence           : 0..100,
      fault_category       : VALID_FAULT_CATEGORIES,
      hardware_involved    : BOOLEAN,
      causal_chain         : SUBSET Component,
      auto_remediable      : BOOLEAN,
      suggested_action     : VALID_ACTIONS ]

\* The text around the body: nothing, a markdown fence, or other words.
Affix == {"none", "fence", "words"}

\* Fences at the very start and the very end of the text are stripped; what
\* is left must be JSON and must validate, otherwise the parser returns None.
Parse(raw) ==
    IF /\ raw.prefix # "words"
       /\ raw.suffix # "words"
       /\ raw.body \in IncidentReport
    THEN raw.body
    ELSE NULL

ASSUME NullIsNoReport == NULL \notin IncidentReport
=============================================================================
