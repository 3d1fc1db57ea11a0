--------------------------- MODULE HardwareReport ---------------------------
(***************************************************************************)
(* The repair report an escalation with hardware involved carries          *)
(* (hardware_diagnostics/): which flagged signal it is about, where that   *)
(* component sits, how urgent it is, which vendor made it, and whether the *)
(* language model or the template words it.                                *)
(***************************************************************************)
EXTENDS Naturals, Sequences, Functions

CONSTANTS
    NULL,
    Signal,         \* flagged signals: [source, component, metric, type, details]
    MaxSignals,     \* bound: signals a cycle flags
    DriveModel,     \* the set of prefixes each drive model contains
    Vendors,        \* vendor_smart_tables.json, in order: [vendor, prefix, attributes]
    ComponentMap    \* COMPONENT_MAP: <<source, component>> |-> location

\* details["doubling_time_hours"] is there for an accelerating ECC rate only.
ASSUME SignalAssumption ==
    \A s \in Signal :
        IF s.type = "ecc_rate_acceleration" THEN s.doubling_time_hours \in Nat
        ELSE s.doubling_time_hours = NULL

ASSUME NullIsNoNumber == NULL \notin Nat

-----------------------------------------------------------------------------
(* hardware_diagnostics/urgency_model.py                                   *)

Monitor     == "Monitor"
Maintenance == "Schedule Maintenance"
High        == "High Urgency"
Critical    == "Critical"

Rank(tier) ==
    CASE tier = Monitor -> 0 [] tier = Maintenance -> 1
      [] tier = High    -> 2 [] tier = Critical    -> 3

Assessment(tier, hours) == [tier |-> tier, estimated_hours_to_failure |-> hours]

\* VARIANT of Assess: None is taken for zero.
AssessNoneIsZero(doubling, has_uncorrectable) ==
    LET hours == IF doubling = NULL THEN 0 ELSE doubling
    IN  CASE has_uncorrectable \/ hours < 4 -> Assessment(Critical, 4)
          [] ~has_uncorrectable /\ hours \in 4..11 -> Assessment(High, hours * 4)
          [] OTHER -> Assessment(Monitor, NULL)

Assess(doubling, has_uncorrectable) ==
    CASE has_uncorrectable -> Assessment(Critical, 4)
      [] ~has_uncorrectable /\ doubling = NULL -> Assessment(Monitor, NULL)
      [] OTHER ->
            IF doubling < 4       THEN Assessment(Critical, doubling * 2)
            ELSE IF doubling < 12 THEN Assessment(High, doubling * 4)
            ELSE IF doubling < 72 THEN Assessment(Maintenance, doubling * 8)
            ELSE Assessment(Monitor, NULL)

-----------------------------------------------------------------------------
(* hardware_diagnostics/component_localizer.py, vendor_lookup.py           *)

Unmapped(source, component) == [slot_id |-> component, known |-> FALSE]

Locate(source, component) ==
    IF <<source, component>> \in DOMAIN ComponentMap
    THEN [slot_id |-> ComponentMap[<<source, component>>], known |-> TRUE]
    ELSE Unmapped(source, component)

\* The first vendor with a prefix inside the model's name and an entry for
\* the attribute; one that has the prefix alone is passed over.
Lookup(model, attribute) ==
    LET match == {i \in DOMAIN Vendors :
            Vendors[i].prefix \cap model # {} /\ attribute \in Vendors[i].attributes}
    IN  IF match = {} THEN "Unknown"
        ELSE Vendors[CHOOSE i \in match : \A j \in match : i <= j].vendor

-----------------------------------------------------------------------------
VARIABLES
    pc,         \* the step generate() takes next
    flagged,    \* report.flagged_signals of the cycle
    cause,      \* which of these words the diagnosis's root_cause contains
    model,      \* the drive_model generate() is called with
    signal,     \* the signal the report is written about
    urgency,    \* what assess() returned
    vendor,     \* what lookup() returned
    report      \* the report: who worded it, and what it was worded from

vars == <<pc, flagged, cause, model, signal, urgency, vendor, report>>

Words == {"uncorrectable", "reallocated"}

Init ==
    /\ pc = "pick"
    /\ flagged \in UNION {[1..n -> Signal] : n \in 1..MaxSignals}
    /\ cause \in SUBSET Words
    /\ model \in DriveModel
    /\ signal = NULL /\ urgency = NULL /\ vendor = NULL /\ report = NULL

\* VARIANT of Pick: the default of next() is forgotten.
PickHardwareOnly ==
    /\ pc = "pick" /\ pc' = "assess"
    /\ LET hardware == {s \in Range(flagged) : s.source \in {"smart", "ecc", "ipmi"}}
       IN  signal' \in IF hardware = {} THEN {NULL} ELSE hardware
    /\ UNCHANGED <<flagged, cause, model, urgency, vendor, report>>

\* The caller: the first signal of a hardware source, else the first.
Pick ==
    /\ pc = "pick" /\ pc' = "assess"
    /\ LET hardware == {i \in DOMAIN flagged : flagged[i].source \in {"smart", "ecc", "ipmi"}}
       IN  signal' = IF hardware = {} THEN flagged[1]
                     ELSE flagged[CHOOSE i \in hardware : \A j \in hardware : i <= j]
    /\ UNCHANGED <<flagged, cause, model, urgency, vendor, report>>

\* What the text of the diagnosis says of uncorrectable errors counts, the
\* signal's own metric does not.
AssessUrgency ==
    /\ pc = "assess" /\ pc' = "vendor"
    /\ urgency' = Assess(signal.doubling_time_hours, "uncorrectable" \in cause)
    /\ UNCHANGED <<flagged, cause, model, signal, vendor, report>>

LookUpVendor ==
    /\ pc = "vendor" /\ pc' = "word"
    /\ vendor' = Lookup(model, IF "reallocated" \in cause THEN "5" ELSE "187")
    /\ UNCHANGED <<flagged, cause, model, signal, urgency, report>>

Report(author) ==
    [ author   |-> author,
      location |-> Locate(signal.source, signal.component),
      tier     |-> urgency.tier,
      vendor   |-> vendor ]

\* VARIANT of Template: no template when the call to the model raised.
TemplateMissing ==
    /\ pc = "word" /\ pc' = "done"
    /\ report' \in {NULL, Report("template")}
    /\ UNCHANGED <<flagged, cause, model, signal, urgency, vendor>>

\* The model answers.
LlmReport ==
    /\ pc = "word" /\ pc' = "done"
    /\ report' = Report("llm")
    /\ UNCHANGED <<flagged, cause, model, signal, urgency, vendor>>

\* It raises, gives up, or answers with an empty text: the template.
Template ==
    /\ pc = "word" /\ pc' = "done"
    /\ report' = Report("template")
    /\ UNCHANGED <<flagged, cause, model, signal, urgency, vendor>>

Done == pc = "done" /\ UNCHANGED vars

Next == Pick \/ AssessUrgency \/ LookUpVendor \/ LlmReport \/ Template \/ Done

Spec == Init /\ [][Next]_vars

-----------------------------------------------------------------------------
(* Types.                                                                  *)

Tier == {Monitor, Maintenance, High, Critical}

\* Every variable holds what the code can put there.
TypeOK ==
    /\ pc \in {"pick", "assess", "vendor", "word", "done"}
    /\ flagged \in Seq(Signal) /\ Len(flagged) \in 1..MaxSignals
    /\ cause \subseteq Words
    /\ IF pc = "pick" THEN signal = NULL ELSE signal \in Signal
    /\ IF pc \in {"pick", "assess"} THEN urgency = NULL
       ELSE urgency \in [tier : Tier, estimated_hours_to_failure : Nat \cup {NULL}]

-----------------------------------------------------------------------------
(* Safety.                                                                 *)

\* A fault whose metric doubles faster; None is a fault that does not double.
Faster(d, e) == d # NULL /\ (e = NULL \/ d <= e)

MoreUrgent(a, b) ==
    /\ Rank(a.tier) >= Rank(b.tier)
    /\ b.estimated_hours_to_failure # NULL =>
         /\ a.estimated_hours_to_failure # NULL
         /\ a.estimated_hours_to_failure <= b.estimated_hours_to_failure

\* Across the four thresholds and the three factors of the urgency model, a
\* fault that doubles faster is never put in a calmer tier, nor given longer
\* to live, than one that doubles more slowly.
UrgencyMonotone ==
    urgency # NULL =>
        \A s \in Signal :
            LET other == Assess(s.doubling_time_hours, "uncorrectable" \in cause)
            IN  Faster(signal.doubling_time_hours, s.doubling_time_hours)
                    => MoreUrgent(urgency, other)

\* Unless the diagnosis uses the word "uncorrectable", in whatever sense, a
\* report that says "Critical" sends its reader to the component of a signal
\* that doubles within four hours: not to another one that was flagged with
\* it, and not because a doubling time is missing.
CriticalPointsAtFault ==
    report # NULL /\ report.tier = Critical /\ "uncorrectable" \notin cause =>
        \E i \in DOMAIN flagged :
            /\ flagged[i].doubling_time_hours # NULL
            /\ flagged[i].doubling_time_hours < 4
            /\ report.location = Locate(flagged[i].source, flagged[i].component)

\* info.txt, part 8: "a report is always generated no matter what", and it is
\* about a signal of this cycle, of a hardware source if any was flagged.
ReportProduced ==
    pc = "done" =>
        /\ report # NULL
        /\ \E i \in DOMAIN flagged :
              /\ report.location = Locate(flagged[i].source, flagged[i].component)
              /\ \/ flagged[i].source \in {"smart", "ecc", "ipmi"}
                 \/ \A j \in DOMAIN flagged :
                        flagged[j].source \notin {"smart", "ecc", "ipmi"}

=============================================================================
