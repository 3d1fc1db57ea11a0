------------------------ MODULE HardwareReportProofs ------------------------
(***************************************************************************)
(* For any set of signals and any doubling times, not only the few of the  *)
(* model-checked instance: the urgency of a repair report.                 *)
(***************************************************************************)
EXTENDS HardwareReport, FiniteSetTheorems, WellFoundedInduction, TLAPS

\* A set of positions that is not empty has a first one.  The set of those up
\* to it is the smallest of its kind, and strict inclusion among the parts of
\* a finite set is well founded.
LEMMA FirstPosition ==
    ASSUME NEW n \in Nat, NEW T \in SUBSET (1..n), T # {}
    PROVE  \E i \in T : \A j \in T : i <= j
<1> DEFINE UpTo(i) == {j \in T : j <= i}
           Family == {UpTo(i) : i \in T}
<1>1. IsFiniteSet(1..n)
    BY FS_Interval
<1>2. Family \subseteq FiniteSubsetsOf(1..n)
    BY <1>1, FS_FiniteSubsetsOfFinite, Zenon
<1>3. Family # {}
    OBVIOUS
<1>4. PICK A \in Family : \A B \in Family : <<B, A>> \notin StrictSubsetOrdering(1..n)
    <2> HIDE DEF Family
    <2> QED BY <1>2, <1>3, FS_StrictSubsetOrderingWellFounded, WFMin, Zenon
<1>5. PICK i \in T : A = UpTo(i)
    BY <1>4
<1>6. \A j \in T : i <= j
    <2>1. SUFFICES ASSUME NEW j \in T, j < i PROVE FALSE
        OBVIOUS
    <2>2. UpTo(j) \subseteq UpTo(i) /\ UpTo(j) # UpTo(i)
        <3>1. i \in UpTo(i) /\ i \notin UpTo(j) /\ i \in Nat /\ j \in Nat
            BY <2>1
        <3>2. \A k \in T : k <= j => k <= i
            BY <2>1, <3>1
        <3>3. UpTo(j) \subseteq UpTo(i)
            BY <3>2
        <3> QED BY <3>1, <3>3
    <2>3. UpTo(j) \in SUBSET (1..n) /\ UpTo(i) \in SUBSET (1..n)
        OBVIOUS
    <2>4. <<UpTo(j), UpTo(i)>> \in StrictSubsetOrdering(1..n)
        <3> HIDE DEF UpTo
        <3> QED BY <2>2, <2>3 DEF StrictSubsetOrdering
    <2> QED BY <1>4, <1>5, <2>4
<1> QED BY <1>6
-----------------------------------------------------------------------------
\* What has been worked out so far was worked out from a signal of this cycle.
ReportInv ==
    /\ \E n \in Nat \ {0} : flagged \in [1..n -> Signal]
    /\ pc # "pick" => \E i \in DOMAIN flagged : signal = flagged[i]
    /\ urgency # NULL => pc \notin {"pick", "assess"}
    /\ pc \notin {"pick", "assess"} =>
          urgency = Assess(signal.doubling_time_hours, "uncorrectable" \in cause)
    /\ report # NULL => pc = "done" /\ report.tier = urgency.tier

\* A doubling time is a number of hours or is not there.
LEMMA DoublingType ==
    ASSUME NEW s \in Signal
    PROVE  s.doubling_time_hours \in Nat \cup {NULL}
BY SignalAssumption

\* The urgency model is monotone: over the thresholds 4, 12 and 72 and the
\* factors 2, 4 and 8, for all doubling times.
LEMMA AssessMonotone ==
    ASSUME NEW d \in Nat \cup {NULL}, NEW e \in Nat \cup {NULL}, NEW u \in BOOLEAN,
           Faster(d, e)
    PROVE  MoreUrgent(Assess(d, u), Assess(e, u))
BY NullIsNoNumber
   DEF Faster, MoreUrgent, Assess, Assessment, Rank, Monitor, Maintenance, High, Critical

\* "Critical" has one of two causes.
LEMMA CriticalCause ==
    ASSUME NEW d \in Nat \cup {NULL}, NEW u \in BOOLEAN, Assess(d, u).tier = Critical
    PROVE  u \/ (d # NULL /\ d < 4)
BY NullIsNoNumber DEF Assess, Assessment, Monitor, Maintenance, High, Critical
-----------------------------------------------------------------------------
\* The caller picks a signal of the report.
LEMMA PickInside ==
    ASSUME ReportInv, Pick
    PROVE  \E i \in DOMAIN flagged : signal' = flagged[i]
<1>1. PICK n \in Nat \ {0} : flagged \in [1..n -> Signal]
    BY DEF ReportInv
<1> DEFINE hardware == {i \in DOMAIN flagged : flagged[i].source \in {"smart", "ecc", "ipmi"}}
           first    == CHOOSE i \in hardware : \A j \in hardware : i <= j
<1>2. DOMAIN flagged = 1..n /\ 1 \in DOMAIN flagged
    BY <1>1
<1>3. hardware # {} => first \in hardware
    <2>1. hardware \in SUBSET (1..n)
        BY <1>2
    <2>2. hardware # {} => \E i \in hardware : \A j \in hardware : i <= j
        <3> HIDE DEF hardware
        <3> QED BY <2>1, FirstPosition
    <2> QED BY <2>2
<1>4. signal' = IF hardware = {} THEN flagged[1] ELSE flagged[first]
    BY DEF Pick
<1> QED BY <1>2, <1>3, <1>4

\* ReportInv is inductive.
LEMMA ReportInvariant == Spec => []ReportInv
<1>1. Init => ReportInv
    BY DEF Init, ReportInv
<1>2. ReportInv /\ [Next]_vars => ReportInv'
    <2> SUFFICES ASSUME ReportInv, [Next]_vars PROVE ReportInv'
        OBVIOUS
    <2>1. CASE Pick
        BY <2>1, PickInside DEF Pick, ReportInv
    <2>2. CASE AssessUrgency
        BY <2>2 DEF AssessUrgency, ReportInv
    <2>3. CASE LookUpVendor
        BY <2>3 DEF LookUpVendor, ReportInv
    <2>4. CASE LlmReport
        BY <2>4 DEF LlmReport, ReportInv, Report
    <2>5. CASE Template
        BY <2>5 DEF Template, ReportInv, Report
    <2>6. CASE UNCHANGED vars
        BY <2>6 DEF vars, ReportInv
    <2> QED BY <2>1, <2>2, <2>3, <2>4, <2>5, <2>6 DEF Next, Done
<1> QED BY <1>1, <1>2, PTL DEF Spec

\* For every set of signals: a fault that doubles faster is never reported as
\* less urgent.
THEOREM UrgencyIsMonotone == Spec => []UrgencyMonotone
<1>1. ReportInv => UrgencyMonotone
    <2> SUFFICES ASSUME ReportInv, urgency # NULL, NEW s \in Signal,
                        Faster(signal.doubling_time_hours, s.doubling_time_hours)
                 PROVE  MoreUrgent(urgency, Assess(s.doubling_time_hours,
                                                   "uncorrectable" \in cause))
        BY DEF UrgencyMonotone
    <2>1. signal \in Signal
        BY DEF ReportInv
    <2>2. urgency = Assess(signal.doubling_time_hours, "uncorrectable" \in cause)
        BY DEF ReportInv
    <2>3. ("uncorrectable" \in cause) \in BOOLEAN
        OBVIOUS
    <2>4. /\ signal.doubling_time_hours \in Nat \cup {NULL}
          /\ s.doubling_time_hours \in Nat \cup {NULL}
        BY <2>1, DoublingType
    <2> QED BY <2>2, <2>3, <2>4, AssessMonotone, Zenon
<1> QED BY <1>1, ReportInvariant, PTL

-----------------------------------------------------------------------------
\* The urgency model answers with an assessment.
LEMMA AssessType ==
    ASSUME NEW d \in Nat \cup {NULL}, NEW u \in BOOLEAN
    PROVE  Assess(d, u) \in [tier : Tier, estimated_hours_to_failure : Nat \cup {NULL}]
BY DEF Assess, Assessment, Tier, Monitor, Maintenance, High, Critical

\* The parts of a report have their types, and a step that is not made yet
\* has left nothing.
THEOREM TypeCorrect == Spec => []TypeOK
<1>1. Init => TypeOK
    <2> SUFFICES ASSUME Init PROVE TypeOK
        OBVIOUS
    <2>1. PICK n \in 1..MaxSignals : flagged \in [1..n -> Signal]
        BY DEF Init
    <2>2. flagged \in Seq(Signal) /\ Len(flagged) = n
        <3>1. n \in Nat
            OBVIOUS
        <3> QED BY <2>1, <3>1
    <2> QED BY <2>2 DEF Init, TypeOK
<1>2. ReportInv /\ TypeOK /\ [Next]_vars => TypeOK'
    <2> SUFFICES ASSUME ReportInv, TypeOK, [Next]_vars PROVE TypeOK'
        OBVIOUS
    <2>1. CASE Pick
        <3>1. signal' \in Signal
            BY <2>1, PickInside DEF ReportInv
        <3> QED BY <2>1, <3>1 DEF Pick, TypeOK
    <2>2. CASE AssessUrgency
        <3>1. signal \in Signal
            BY <2>2 DEF AssessUrgency, TypeOK
        <3>2. ("uncorrectable" \in cause) \in BOOLEAN
            OBVIOUS
        <3>3. urgency' \in [tier : Tier, estimated_hours_to_failure : Nat \cup {NULL}]
            BY <2>2, <3>1, <3>2, DoublingType, AssessType DEF AssessUrgency
        <3> QED BY <2>2, <3>3 DEF AssessUrgency, TypeOK
    <2>3. CASE LookUpVendor
        BY <2>3 DEF LookUpVendor, TypeOK
    <2>4. CASE LlmReport
        BY <2>4 DEF LlmReport, TypeOK
    <2>5. CASE Template
        BY <2>5 DEF Template, TypeOK
    <2>6. CASE UNCHANGED vars
        BY <2>6 DEF vars, TypeOK
    <2> QED BY <2>1, <2>2, <2>3, <2>4, <2>5, <2>6 DEF Next, Done
<1> QED BY <1>1, <1>2, ReportInvariant, PTL DEF Spec
-----------------------------------------------------------------------------
IsHardware(s) == s.source \in {"smart", "ecc", "ipmi"}

\* The signal picked is of a hardware source, unless none was flagged, and
\* the report that is written is where that signal's component is.
Located ==
    /\ pc # "pick" =>
          \/ IsHardware(signal)
          \/ \A j \in DOMAIN flagged : ~IsHardware(flagged[j])
    /\ pc = "done" =>
          \E author \in {"llm", "template"} : report = Report(author)

\* Pick establishes Located.
LEMMA PickHardware ==
    ASSUME ReportInv, Pick
    PROVE  \/ IsHardware(signal')
           \/ \A j \in DOMAIN flagged : ~IsHardware(flagged[j])
<1>1. PICK n \in Nat \ {0} : flagged \in [1..n -> Signal]
    BY DEF ReportInv
<1> DEFINE hardware == {i \in DOMAIN flagged : flagged[i].source \in {"smart", "ecc", "ipmi"}}
           first    == CHOOSE i \in hardware : \A j \in hardware : i <= j
<1>2. CASE hardware = {}
    BY <1>2 DEF IsHardware
<1>3. CASE hardware # {}
    <2>1. hardware \in SUBSET (1..n)
        BY <1>1
    <2>2. first \in hardware
        <3>1. \E i \in hardware : \A j \in hardware : i <= j
            <4> HIDE DEF hardware
            <4> QED BY <1>3, <2>1, FirstPosition
        <3> QED BY <3>1
    <2>3. signal' = flagged[first]
        BY <1>3 DEF Pick
    <2> QED BY <2>2, <2>3 DEF IsHardware
<1> QED BY <1>2, <1>3

\* Located is inductive beside ReportInv.
LEMMA LocatedInvariant == Spec => []Located
<1>1. Init => Located
    BY DEF Init, Located
<1>2. ReportInv /\ Located /\ [Next]_vars => Located'
    <2> SUFFICES ASSUME ReportInv, Located, [Next]_vars PROVE Located'
        OBVIOUS
    <2>1. CASE Pick
        BY <2>1, PickHardware DEF Pick, Located, IsHardware
    <2>2. CASE AssessUrgency
        BY <2>2 DEF AssessUrgency, Located, IsHardware
    <2>3. CASE LookUpVendor
        BY <2>3 DEF LookUpVendor, Located, IsHardware
    <2>4. CASE LlmReport
        BY <2>4 DEF LlmReport, Located, IsHardware, Report
    <2>5. CASE Template
        BY <2>5 DEF Template, Located, IsHardware, Report
    <2>6. CASE UNCHANGED vars
        BY <2>6 DEF vars, Located, IsHardware, Report
    <2> QED BY <2>1, <2>2, <2>3, <2>4, <2>5, <2>6 DEF Next, Done
<1> QED BY <1>1, <1>2, ReportInvariant, PTL DEF Spec

\* For every set of signals, and all doubling times: unless the diagnosis has
\* the word, a report that says "Critical" points at a component whose errors
\* double within four hours (report_generator.generate, urgency_model.assess).
THEOREM CriticalIsCaused == Spec => []CriticalPointsAtFault
<1>1. ReportInv /\ Located => CriticalPointsAtFault
    <2> SUFFICES ASSUME ReportInv, Located, report # NULL, report.tier = Critical,
                        "uncorrectable" \notin cause
                 PROVE  \E i \in DOMAIN flagged :
                            /\ flagged[i].doubling_time_hours # NULL
                            /\ flagged[i].doubling_time_hours < 4
                            /\ report.location
                                   = Locate(flagged[i].source, flagged[i].component)
        BY DEF CriticalPointsAtFault
    <2>1. pc = "done" /\ report.tier = urgency.tier
        BY DEF ReportInv
    <2>2. PICK i \in DOMAIN flagged : signal = flagged[i]
        BY <2>1 DEF ReportInv
    <2>3. signal \in Signal
        BY <2>2 DEF ReportInv
    <2>4. Assess(signal.doubling_time_hours, FALSE).tier = Critical
        BY <2>1 DEF ReportInv, Assess
    <2>5. report.location = Locate(signal.source, signal.component)
        BY <2>1 DEF Located, Report
    <2> QED BY <2>2, <2>3, <2>4, <2>5, DoublingType, CriticalCause
<1> QED BY <1>1, ReportInvariant, LocatedInvariant, PTL

\* Whatever was flagged and whatever the model answers, there is a report,
\* about a signal of this cycle and of a hardware source if there was one.
\* A report is a record: nothing that stands for "no report".
THEOREM ReportIsProduced ==
    ASSUME \A a, l, t, v :
               [author |-> a, location |-> l, tier |-> t, vendor |-> v] # NULL
    PROVE  Spec => []ReportProduced
<1>1. ReportInv /\ Located => ReportProduced
    <2> SUFFICES ASSUME ReportInv, Located, pc = "done" PROVE ReportProduced
        BY DEF ReportProduced
    <2>1. PICK author \in {"llm", "template"} : report = Report(author)
        BY DEF Located
    <2>2. PICK i \in DOMAIN flagged : signal = flagged[i]
        BY DEF ReportInv
    <2>3. report # NULL /\ report.location = Locate(signal.source, signal.component)
        BY <2>1 DEF Report
    <2>4. \/ flagged[i].source \in {"smart", "ecc", "ipmi"}
          \/ \A j \in DOMAIN flagged : flagged[j].source \notin {"smart", "ecc", "ipmi"}
        BY <2>2 DEF Located, IsHardware
    <2> QED BY <2>2, <2>3, <2>4, Zenon DEF ReportProduced
<1> QED BY <1>1, ReportInvariant, LocatedInvariant, PTL
=============================================================================
