------------------------ MODULE ScenarioRunnerProofs ------------------------
(***************************************************************************)
(* Proofs about the experiment harness, for every schedule of faults and   *)
(* any number of campaigns, wherever they are cut short.                   *)
(***************************************************************************)
EXTENDS ScenarioRunner, TLAPS

FaultType == [owner : OwnerType, kind : Kind, stopping : BOOLEAN]

RowType(n) == [run : 1..n, detected : BOOLEAN, resolved : BOOLEAN]

-----------------------------------------------------------------------------
(* What the scenarios' operations do to the faults in force.               *)

\* Each operation of a scenario either leaves every fault, adds one of its
\* own, or stops those of its own; all of them keep the type.
LEMMA InjectTyped ==
    ASSUME faults \subseteq FaultType, NEW o \in OwnerType, NEW k \in Kind,
           Inject(o, k) \/ InjectNothing(k) \/ InjectRaises(o, k)
    PROVE  /\ faults' \subseteq FaultType
           /\ \A f \in faults' : f \in faults \/ f.owner = o
<1>1. Fault(o, k) \in FaultType /\ Fault(o, k).owner = o
  BY DEF Fault, FaultType
<1>2. faults' = faults \/ faults' = faults \cup {Fault(o, k)}
  BY DEF Inject, InjectNothing, InjectRaises
<1>3. QED
  BY <1>1, <1>2

LEMMA CleanUpTyped ==
    ASSUME faults \subseteq FaultType, NEW o \in OwnerType, CleanUp(o)
    PROVE  /\ faults' \subseteq FaultType
           /\ \A f \in faults' : f.stopping \/ (f \in faults /\ f.owner # o)
<1>1. CASE faults' = faults \ Of(o)
  BY <1>1 DEF Of
<1>2. CASE faults' = {IF f \in Of(o) THEN [f EXCEPT !.stopping = TRUE] ELSE f : f \in faults}
  <2>1. ASSUME NEW g \in faults'
        PROVE  g \in FaultType /\ (g.stopping \/ (g \in faults /\ g.owner # o))
    <3>1. PICK f \in faults : g = IF f \in Of(o) THEN [f EXCEPT !.stopping = TRUE] ELSE f
      BY <1>2
    <3>2. f \in FaultType
      OBVIOUS
    <3>3. CASE f \in Of(o)
      BY <3>1, <3>2, <3>3 DEF FaultType
    <3>4. CASE f \notin Of(o)
      BY <3>1, <3>2, <3>4 DEF Of
    <3>5. QED
      BY <3>3, <3>4
  <2>2. QED
    BY <2>1
<1>3. QED
  BY <1>1, <1>2 DEF CleanUp

-----------------------------------------------------------------------------
(* The steps.                                                              *)

LEMMA InductiveInit == Init => IInv
<1> SUFFICES ASSUME Init PROVE IInv
  OBVIOUS
<1> USE DEF Init, NoFaults
<1>1. TypeOK
  <2>1. done \in 0..Len(Schedule)
    BY ScheduleAssumption
  <2>2. results \in Seq([run : 1..done, detected : BOOLEAN, resolved : BOOLEAN])
    OBVIOUS
  <2>3. trail \in Seq([owner : OwnerType,
                      event : {"llm_call_failed", "parse_failed", "incident_created"}])
    OBVIOUS
  <2>4. QED
    BY <2>1, <2>2, <2>3 DEF TypeOK, Idle, Condition
<1>2. Progress
  BY DEF Progress, RunSteps
<1>3. FaultsOwned
  BY DEF FaultsOwned
<1>4. RowsFollowSchedule
  <2>1. Len(results) = 0 /\ DOMAIN results = {}
    OBVIOUS
  <2>2. done - (IF pc \in RunSteps THEN 1 ELSE 0) = 0
    <3> DEFINE running == IF pc \in RunSteps THEN 1 ELSE 0
    <3>1. running = 0
      BY DEF RunSteps
    <3> HIDE DEF running
    <3>2. done - running = 0
      BY <3>1
    <3>3. QED
      BY <3>2 DEF running
  <2>3. \A i \in DOMAIN results : results[i].run = i
    BY <2>1
  <2>4. Len(results) = done - (IF pc \in RunSteps THEN 1 ELSE 0)
    BY <2>1, <2>2
  <2> QED
    BY <2>3, <2>4 DEF RowsFollowSchedule
<1>5. QED
  BY <1>1, <1>2, <1>3, <1>4 DEF IInv

\* The counters.
LEMMA ProgressStep == IInv /\ [Next]_vars => Progress'
<1> SUFFICES ASSUME IInv, [Next]_vars PROVE Progress'
  OBVIOUS
<1> USE DEF IInv, Progress, RunSteps
<1>1. done \in 0..Len(Schedule) /\ aborted \subseteq 1..campaign /\ campaign \in Nat
  BY DEF TypeOK
<1>2. CASE Campaign
  <2>1. campaign' = campaign + 1 /\ aborted' = aborted /\ pc' = "next"
    BY <1>2 DEF Campaign
  <2>2. campaign' \notin aborted'
    BY <1>1, <2>1
  <2>3. QED
    BY <1>1, <2>1, <2>2
<1>3. CASE Begin
  BY <1>1, <1>3, ScheduleAssumption DEF Begin
<1>4. CASE Finished \/ Exit \/ InjectFault \/ InjectionFails \/ CleansUp \/ Ends
  BY <1>4 DEF Finished, Exit, InjectFault, InjectionFails, CleansUp, Ends
<1>5. CASE Baseline \/ TimesOut \/ Detects \/ NoDiagnosis \/ Diagnosis
  BY <1>5 DEF Baseline, TimesOut, Detects, NoDiagnosis, Diagnosis, Measured
<1>6. CASE CycleRaises \/ EvaluateRaises \/ CleaningRaises \/ Interrupt
  BY <1>6 DEF CycleRaises, EvaluateRaises, CleaningRaises, Interrupt, Abort
<1>7. CASE UNCHANGED vars
  BY <1>7 DEF vars
<1>8. QED
  BY <1>2, <1>3, <1>4, <1>5, <1>6, <1>7 DEF Next, Step, Over, Joining

\* An exception or Ctrl-C leaves everything where it is and marks the campaign.
LEMMA AbortFacts ==
    ASSUME IInv, CycleRaises \/ EvaluateRaises \/ CleaningRaises \/ Interrupt
    PROVE  /\ pc \in RunSteps \cup {"next"}
           /\ pc' = "exiting"
           /\ aborted' = aborted \cup {campaign}
           /\ campaign \in 1..campaign
           /\ interrupted' \in {interrupted, interrupted \cup {campaign}}
           /\ UNCHANGED <<faults, campaign, condition, done, detected, resolved, results, trail>>
<1>1. pc \in RunSteps \cup {"next"}
  BY DEF CycleRaises, EvaluateRaises, CleaningRaises, Interrupt, RunSteps
<1>2. campaign \in 1..campaign
  BY <1>1 DEF IInv, Progress, RunSteps
<1>3. QED
  BY <1>1, <1>2 DEF CycleRaises, EvaluateRaises, CleaningRaises, Interrupt, Abort,
     CleanUpRaises, run

\* The rows written so far fit a campaign that has begun more runs.
LEMMA RowsFit ==
    ASSUME NEW m \in Nat, NEW n \in Nat, m <= n, NEW s \in Seq(RowType(m))
    PROVE  s \in Seq(RowType(n))
<1>1. RowType(m) \subseteq RowType(n)
  <2>1. 1..m \subseteq 1..n
    OBVIOUS
  <2>2. QED
    BY <2>1 DEF RowType
<1>2. /\ Len(s) \in Nat
      /\ \A i \in 1..Len(s) : s[i] \in RowType(n)
  BY <1>1
<1>3. QED
  BY <1>2

LEMMA TypeStep == IInv /\ [Next]_vars => TypeOK'
<1> SUFFICES ASSUME IInv, [Next]_vars PROVE TypeOK'
  OBVIOUS
<1>1. /\ TypeOK /\ Progress
      /\ faults \subseteq FaultType
      /\ results \in Seq(RowType(done))
      /\ done \in 0..Len(Schedule)
      /\ Len(Schedule) \in Nat
      /\ campaign \in Nat
  BY ScheduleAssumption DEF IInv, Progress, TypeOK, FaultType, RowType
<1>2. pc \in RunSteps => Schedule[done] \in Kind /\ done \in 1..done /\ Owner \in OwnerType
  <2> SUFFICES ASSUME pc \in RunSteps
               PROVE  Schedule[done] \in Kind /\ done \in 1..done /\ Owner \in OwnerType
    OBVIOUS
  <2>1. done \in 1..Len(Schedule)
    BY <1>1 DEF Progress
  <2>2. QED
    BY <1>1, <2>1, ScheduleAssumption DEF Owner, OwnerType
<1>3. SUFFICES /\ faults' \subseteq FaultType
               /\ pc' \in Idle \cup RunSteps
               /\ condition' \in Condition
               /\ done' \in 0..Len(Schedule)
               /\ {detected', resolved'} \subseteq BOOLEAN
               /\ results' \in Seq(RowType(done'))
               /\ trail' \in Seq([owner : OwnerType,
                      event : {"llm_call_failed", "parse_failed", "incident_created"}])
               /\ interrupted' \subseteq aborted' /\ aborted' \subseteq 1..campaign'
  BY DEF TypeOK, FaultType, RowType
<1> USE DEF Idle, RunSteps, run
<1>4. CASE Campaign
  <2>1. aborted' \subseteq 1..campaign'
    BY <1>1, <1>4 DEF Campaign, TypeOK
  <2>2. QED
    BY <1>1, <1>4, <2>1 DEF Campaign, TypeOK
<1>5. CASE Begin
  <2>1. done' = done + 1 /\ done' \in 0..Len(Schedule) /\ results' = results
    BY <1>1, <1>5 DEF Begin
  <2>2. results' \in Seq(RowType(done'))
    BY <1>1, <2>1, RowsFit
  <2>3. QED
    BY <1>1, <1>5, <2>1, <2>2 DEF Begin, TypeOK
<1>6. CASE Finished
  BY <1>1, <1>6 DEF Finished, TypeOK
<1>7. CASE Exit \/ Ends
  <2>1. faults' \subseteq faults
    BY <1>7 DEF Exit, InterpreterGone, Ends, Expire
  <2>2. QED
    BY <1>1, <1>7, <2>1 DEF Exit, Ends, TypeOK
<1>8. CASE InjectFault \/ InjectionFails
  <2>1. faults' \subseteq FaultType
    BY <1>1, <1>2, <1>8, InjectTyped DEF InjectFault, InjectionFails
  <2>2. QED
    BY <1>1, <1>8, <2>1 DEF InjectFault, InjectionFails, TypeOK
<1>9. CASE Baseline \/ TimesOut \/ Detects
  BY <1>1, <1>9 DEF Baseline, TimesOut, Detects, Measured, TypeOK
<1>10. CASE NoDiagnosis \/ Diagnosis
  <2>1. PICK why \in {"llm_call_failed", "parse_failed", "incident_created"} :
            trail' = Append(trail, [owner |-> Owner, event |-> why])
    BY <1>10 DEF NoDiagnosis, Diagnosis
  <2>2. Owner \in OwnerType
    BY <1>2, <1>10 DEF NoDiagnosis, Diagnosis
  <2>3. trail' \in Seq([owner : OwnerType,
                        event : {"llm_call_failed", "parse_failed", "incident_created"}])
    BY <1>1, <2>1, <2>2 DEF TypeOK
  <2>4. QED
    BY <1>1, <1>10, <2>3 DEF NoDiagnosis, Diagnosis, Measured, TypeOK
<1>11. CASE CycleRaises \/ EvaluateRaises \/ CleaningRaises \/ Interrupt
  BY <1>1, <1>11, AbortFacts DEF TypeOK
<1>12. CASE CleansUp
  <2>1. faults' \subseteq FaultType
    BY <1>1, <1>2, <1>12, CleanUpTyped DEF CleansUp
  <2>2. Row \in RowType(done)
    BY <1>1, <1>2, <1>12 DEF CleansUp, Row, RowType, TypeOK
  <2>3. results' \in Seq(RowType(done'))
    BY <1>1, <1>12, <2>2 DEF CleansUp
  <2>4. QED
    BY <1>1, <1>12, <2>1, <2>3 DEF CleansUp, TypeOK
<1>13. CASE UNCHANGED vars
  BY <1>1, <1>13 DEF vars, TypeOK
<1>14. QED
  BY <1>4, <1>5, <1>6, <1>7, <1>8, <1>9, <1>10, <1>11, <1>12, <1>13
  DEF Next, Step, Over, Joining

-----------------------------------------------------------------------------
(* The faults.                                                             *)

LEMMA OwnedStep == IInv /\ [Next]_vars => FaultsOwned'
<1> SUFFICES ASSUME IInv, [Next]_vars, NEW f \in faults'
             PROVE  \/ f.stopping
                    \/ f.owner = Owner' /\ pc' \in RunSteps
                    \/ f.owner[1] \in aborted'
  BY DEF FaultsOwned
<1>1. /\ \A g \in faults : \/ g.stopping
                           \/ g.owner = Owner /\ pc \in RunSteps
                           \/ g.owner[1] \in aborted
      /\ faults \subseteq FaultType
  BY DEF IInv, FaultsOwned, TypeOK, FaultType
<1>2. pc \in RunSteps => Schedule[done] \in Kind /\ Owner \in OwnerType
  <2> SUFFICES ASSUME pc \in RunSteps
               PROVE  Schedule[done] \in Kind /\ Owner \in OwnerType
    OBVIOUS
  <2>1. done \in 1..Len(Schedule) /\ campaign \in Nat /\ Len(Schedule) \in Nat
    BY ScheduleAssumption DEF IInv, Progress, TypeOK
  <2>2. QED
    BY <2>1, ScheduleAssumption DEF Owner, OwnerType
<1>3. CASE Campaign \/ Begin \/ Finished \/ Exit
  <2>1. faults' \subseteq faults /\ aborted' = aborted /\ pc \notin RunSteps
    BY <1>3 DEF Campaign, Begin, Finished, Exit, InterpreterGone, RunSteps
  <2>2. QED
    BY <1>1, <2>1
<1>4. CASE Ends
  <2>1. faults' \subseteq faults /\ aborted' = aborted /\ pc' = pc /\ Owner' = Owner
    BY <1>4 DEF Ends, Expire, Owner
  <2>2. QED
    BY <1>1, <2>1
<1>5. CASE InjectFault \/ InjectionFails
  <2>1. f \in faults \/ f.owner = Owner
    BY <1>1, <1>2, <1>5, InjectTyped DEF InjectFault, InjectionFails, RunSteps
  <2>2. aborted' = aborted /\ pc' \in RunSteps /\ Owner' = Owner
    BY <1>5 DEF InjectFault, InjectionFails, Owner, RunSteps
  <2>3. QED
    BY <1>1, <2>1, <2>2
<1>6. CASE Baseline \/ TimesOut \/ Detects \/ NoDiagnosis \/ Diagnosis
  <2>1. faults' = faults /\ aborted' = aborted /\ pc' \in RunSteps /\ Owner' = Owner
    BY <1>6 DEF Baseline, TimesOut, Detects, NoDiagnosis, Diagnosis, Measured, Owner, RunSteps
  <2>2. QED
    BY <1>1, <2>1
<1>7. CASE CycleRaises \/ EvaluateRaises \/ CleaningRaises \/ Interrupt
  <2>1. faults' = faults /\ aborted' = aborted \cup {campaign}
    BY <1>7, AbortFacts
  <2>2. Owner[1] = campaign
    BY DEF Owner
  <2>3. QED
    BY <1>1, <2>1, <2>2
<1>8. CASE CleansUp
  <2>1. f.stopping \/ (f \in faults /\ f.owner # Owner)
    BY <1>1, <1>2, <1>8, CleanUpTyped DEF CleansUp, RunSteps
  <2>2. aborted' = aborted
    BY <1>8 DEF CleansUp
  <2>3. QED
    BY <1>1, <2>1, <2>2
<1>9. CASE UNCHANGED vars
  BY <1>1, <1>9 DEF vars, Owner
<1>10. QED
  BY <1>3, <1>4, <1>5, <1>6, <1>7, <1>8, <1>9 DEF Next, Step, Over, Joining

-----------------------------------------------------------------------------
(* The rows.                                                               *)

LEMMA RowsStep == IInv /\ [Next]_vars => RowsFollowSchedule'
<1> SUFFICES ASSUME IInv, [Next]_vars PROVE RowsFollowSchedule'
  OBVIOUS
<1> DEFINE Running == IF pc \in RunSteps THEN 1 ELSE 0
<1>1. /\ \A i \in DOMAIN results : results[i].run = i
      /\ Len(results) = done - Running \/ (Len(results) = done - 1 /\ campaign \in aborted)
      /\ results \in Seq(RowType(done))
      /\ done \in Nat /\ Len(results) \in Nat
      /\ campaign \in Nat /\ aborted \subseteq 1..campaign
  BY ScheduleAssumption DEF IInv, RowsFollowSchedule, TypeOK, Progress, RowType
<1>2. campaign \in aborted => pc \in {"exiting", "down"}
  BY DEF IInv, Progress
<1>3. CASE Campaign
  <2>1. results' = << >> /\ done' = 0 /\ pc' \notin RunSteps
    BY <1>3 DEF Campaign, RunSteps
  <2>2. Len(results') = 0 /\ DOMAIN results' = {}
    BY <2>1
  <2>3. done' - (IF pc' \in RunSteps THEN 1 ELSE 0) = 0
    <3>1. Running' = 0
      BY <2>1
    <3> HIDE DEF Running
    <3>2. done' - Running' = 0
      BY <2>1, <3>1
    <3>3. QED
      BY <3>2 DEF Running
  <2>4. \A i \in DOMAIN results' : results'[i].run = i
    BY <2>2
  <2>5. Len(results') = done' - (IF pc' \in RunSteps THEN 1 ELSE 0)
    BY <2>2, <2>3
  <2>6. QED
    BY <2>4, <2>5 DEF RowsFollowSchedule
<1>4. CASE Begin
  <2>1. /\ results' = results /\ Len(results) = done /\ done' = done + 1
        /\ pc' \in RunSteps
    BY <1>1, <1>2, <1>4 DEF Begin, RunSteps
  <2>2. QED
    BY <1>1, <2>1 DEF RowsFollowSchedule
<1>5. CASE Finished \/ Exit
  BY <1>1, <1>5 DEF Finished, Exit, RowsFollowSchedule, RunSteps
<1>6. CASE InjectFault \/ InjectionFails \/ Ends
  BY <1>1, <1>6 DEF InjectFault, InjectionFails, Ends, RowsFollowSchedule, RunSteps
<1>7. CASE Baseline \/ TimesOut \/ Detects \/ NoDiagnosis \/ Diagnosis
  BY <1>1, <1>7 DEF Baseline, TimesOut, Detects, NoDiagnosis, Diagnosis, Measured,
     RowsFollowSchedule, RunSteps
<1>8. CASE CycleRaises \/ EvaluateRaises \/ CleaningRaises \/ Interrupt
  <2>1. /\ UNCHANGED <<results, done, campaign>>
        /\ pc' \notin RunSteps
        /\ campaign \in aborted'
        /\ Running = 1 \/ Running = 0
    BY <1>8, AbortFacts DEF RunSteps
  <2>2. QED
    BY <1>1, <2>1 DEF RowsFollowSchedule
<1>9. CASE CleansUp
  <2>1. /\ pc \in RunSteps /\ pc' \notin RunSteps
        /\ results' = Append(results, Row)
        /\ UNCHANGED <<done, campaign, aborted>>
    BY <1>9 DEF CleansUp, RunSteps
  <2>2. Len(results) = done - 1
    BY <1>1, <2>1
  <2>3. Row.run = done
    BY DEF Row
  <2>4. /\ Len(results') = done
        /\ \A i \in DOMAIN results' : results'[i].run = i
    BY <1>1, <2>1, <2>2, <2>3
  <2>5. QED
    BY <2>1, <2>4, <1>1 DEF RowsFollowSchedule
<1>10. CASE UNCHANGED vars
  BY <1>1, <1>10 DEF vars, RowsFollowSchedule
<1>11. QED
  BY <1>3, <1>4, <1>5, <1>6, <1>7, <1>8, <1>9, <1>10 DEF Next, Step, Over, Joining

-----------------------------------------------------------------------------
(* The way to the end.  No step of a campaign is ever taken back, so that   *)
(* all CampaignEnds needs is that the harness goes on.                     *)

\* Steps from each place to "down" in a run that goes the longest way, the
\* runs after it apart.
Places == [inject |-> 6, measure |-> 5, correlate |-> 4, evaluate |-> 3, cleanup |-> 3, undo |-> 3,
           next |-> 2, exiting |-> 1, down |-> 0]

\* ... and five for every run that has not begun.
ToGo == 5 * (Len(Schedule) - done) + Places[pc]

NearerTheEnd ==
    /\ ToGo \in Nat
    /\ Step \/ Interrupt => ToGo' \in Nat /\ ToGo' < ToGo
    /\ Campaign => ToGo' = 5 * Len(Schedule) + 2
    /\ Ends \/ Joining \/ Over => ToGo' = ToGo

LEMMA PlacesTyped == pc \in Idle \cup RunSteps => Places[pc] \in 0 .. 6
BY DEF Places, Idle, RunSteps

LEMMA NearerStep == IInv /\ IInv' /\ [Next]_vars => [NearerTheEnd]_vars
<1> SUFFICES ASSUME IInv, IInv', Next PROVE NearerTheEnd
  BY DEF NearerTheEnd
<1> DEFINE rest(n) == 5 * (Len(Schedule) - n)
<1>1. /\ Len(Schedule) \in Nat /\ done \in 0 .. Len(Schedule) /\ done' \in 0 .. Len(Schedule)
      /\ pc \in Idle \cup RunSteps /\ pc' \in Idle \cup RunSteps
  BY ScheduleAssumption DEF IInv, TypeOK
<1>2. /\ \A n \in 0 .. Len(Schedule) : rest(n) \in Nat
      /\ \A n \in 0 .. Len(Schedule) : n + 1 <= Len(Schedule) => rest(n) = rest(n + 1) + 5
      /\ rest(0) = 5 * Len(Schedule)
  BY <1>1
<1>3. Places[pc] \in 0 .. 6 /\ Places[pc'] \in 0 .. 6
  BY <1>1, PlacesTyped DEF Places, Idle, RunSteps
<1>4. ToGo = rest(done) + Places[pc] /\ ToGo' = rest(done') + Places[pc']
  BY DEF ToGo, Places
<1>5. ToGo \in Nat /\ ToGo' \in Nat
  <2> HIDE DEF rest
  <2>1. rest(done) \in Nat /\ rest(done') \in Nat
    BY <1>1, <1>2
  <2>2. QED
    BY <1>3, <1>4, <2>1
<1>6. ASSUME Step \/ Interrupt
      PROVE  (done' = done /\ Places[pc'] < Places[pc]) \/ Begin
  <2>1. CASE Finished \/ Exit \/ InjectFault \/ InjectionFails
    BY <2>1 DEF Finished, Exit, InjectFault, InjectionFails, Places
  <2>2. CASE Baseline \/ TimesOut \/ Detects \/ NoDiagnosis \/ Diagnosis
    BY <2>2 DEF Baseline, TimesOut, Detects, NoDiagnosis, Diagnosis, Measured, Places
  <2>3. CASE CycleRaises \/ EvaluateRaises \/ CleaningRaises \/ Interrupt
    BY <2>3, AbortFacts DEF RunSteps, Places
  <2>4. CASE CleansUp
    BY <2>4 DEF CleansUp, Places
  <2>5. QED
    BY <1>6, <2>1, <2>2, <2>3, <2>4 DEF Step
<1>7. Step \/ Interrupt => ToGo' < ToGo
  <2>1. CASE done' = done /\ Places[pc'] < Places[pc]
    <3> HIDE DEF rest
    <3>1. rest(done) \in Nat
      BY <1>1, <1>2
    <3>2. QED
      BY <1>3, <1>4, <2>1, <3>1
  <2>2. CASE Begin
    <3>1. done' = done + 1 /\ done + 1 <= Len(Schedule) /\ Places[pc] = 2 /\ Places[pc'] = 6
      BY <1>1, <2>2 DEF Begin, Places
    <3>2. rest(done) = rest(done') + 5 /\ rest(done') \in Nat
      BY <1>1, <1>2, <3>1
    <3> HIDE DEF rest
    <3>3. QED
      BY <1>4, <3>1, <3>2
  <2>3. QED
    BY <1>6, <2>1, <2>2
<1>8. Campaign => ToGo' = 5 * Len(Schedule) + 2
  <2> SUFFICES ASSUME Campaign PROVE ToGo' = 5 * Len(Schedule) + 2
    OBVIOUS
  <2>1. done' = 0 /\ Places[pc'] = 2
    BY DEF Campaign, Places
  <2>2. QED
    BY <1>1, <1>2, <1>4, <2>1
<1>9. Ends \/ Joining \/ Over => ToGo' = ToGo
  BY DEF Ends, Joining, Over, vars, ToGo
<1>10. QED
  BY <1>5, <1>7, <1>8, <1>9 DEF NearerTheEnd

-----------------------------------------------------------------------------
(* The theorems.                                                           *)

\* The inductive invariant holds in every state the harness reaches.
THEOREM Inductive == Spec => []IInv
<1>1. IInv /\ [Next]_vars => IInv'
  BY TypeStep, ProgressStep, OwnedStep, RowsStep DEF IInv
<1>2. QED
  BY <1>1, InductiveInit, PTL DEF Spec

\* Every variable keeps to its type, and a campaign writes no more rows than
\* it began runs.
THEOREM TypeCorrect == Spec => []TypeOK
BY Inductive, PTL DEF IInv

\* No run that goes on to the next one leaves its fault at work on the host
\* (scenario_runner.run_single, the scenarios' cleanup): whatever the
\* schedule, only a campaign cut short does.
THEOREM NoFaultOutlivesItsRun == Spec => []FaultsOwned
BY Inductive, PTL DEF IInv

\* The output has one row for each run, in order, but for the run that ended
\* the campaign (scenario_runner.run_all).
THEOREM EveryRunHasItsRow == Spec => []RowsFollowSchedule
BY Inductive, PTL DEF IInv

\* Every step of the harness, and Ctrl-C, brings a campaign nearer to its end,
\* and nothing takes it back: one campaign takes at most 5 * Len(Schedule) + 2
\* steps, whatever fails.  CampaignEnds adds that the harness does take them.
THEOREM CampaignsAreBounded == Spec => [][NearerTheEnd]_vars
<1>1. IInv /\ IInv' /\ [Next]_vars => [NearerTheEnd]_vars
  BY NearerStep
<1>2. QED
  BY Inductive, <1>1, PTL DEF Spec

=============================================================================
