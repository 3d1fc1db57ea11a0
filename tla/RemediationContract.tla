------------------------ MODULE RemediationContract ------------------------
(***************************************************************************)
(* What the daemon promises about an incident, with no cycle, process,     *)
(* table or crash in sight: an incident is opened with one diagnosis, which*)
(* never changes; then a human is told, or an action the diagnosis allows  *)
(* is announced, performed once and concluded, and if it failed a human may*)
(* still be told (info.txt:124 says that one is).  A human is told once,   *)
(* and of no incident that an action resolved.  Any of these may never     *)
(* come.                                                                   *)
(***************************************************************************)
EXTENDS Naturals

CONSTANTS
    IncidentId,
    Diagnosis,
    MayAct,        \* those of them that allow an automatic action
    NoDiagnosis    \* not one of them

VARIABLES
    diagnosis,     \* id |-> its diagnosis
    status,        \* id |-> how far it has come
    performed      \* id |-> how often the host was acted on for it

cvars == <<diagnosis, status, performed>>

Init ==
    /\ diagnosis = [id \in IncidentId |-> NoDiagnosis]
    /\ status    = [id \in IncidentId |-> "unknown"]
    /\ performed = [id \in IncidentId |-> 0]

Move(id, from, to) ==
    /\ status[id] \in from
    /\ status' = [status EXCEPT ![id] = to]

Open(id) ==
    /\ Move(id, {"unknown"}, "open")
    /\ diagnosis'[id] \in Diagnosis
    /\ diagnosis' = [diagnosis EXCEPT ![id] = diagnosis'[id]]
    /\ UNCHANGED performed

Announce(id) ==
    /\ diagnosis[id] \in MayAct
    /\ Move(id, {"open"}, "announced")
    /\ UNCHANGED <<diagnosis, performed>>

Perform(id) ==
    /\ status[id] = "announced"
    /\ performed[id] = 0
    /\ performed' = [performed EXCEPT ![id] = 1]
    /\ UNCHANGED <<diagnosis, status>>

Conclude(id) ==
    /\ performed[id] = 1
    /\ \E outcome \in {"resolved", "failed"} : Move(id, {"announced"}, outcome)
    /\ UNCHANGED <<diagnosis, performed>>

Escalate(id) ==
    /\ Move(id, {"open", "failed"}, "escalated")
    /\ UNCHANGED <<diagnosis, performed>>

Next ==
    \E id \in IncidentId :
        Open(id) \/ Announce(id) \/ Perform(id) \/ Conclude(id) \/ Escalate(id)

Spec == Init /\ [][Next]_cvars
=============================================================================
