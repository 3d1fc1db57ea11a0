---------------------------- MODULE StressRunProofs ----------------------------
(***************************************************************************)
(* Theorems about StressRun, for every number of instances, every command  *)
(* line and any number of signals, OOM kills and faults: what the main     *)
(* process knows of its stressors, what a stressor leaves behind, and that *)
(* the run keeps the promise of StressProcess.                             *)
(***************************************************************************)
EXTENDS StressRun, TLAPS

\* Where a stressor is in stress_oomable_child, and where it is on its way out.
USE DEF Oomable, Finishing

-----------------------------------------------------------------------------
(* The inductive invariant.                                                *)

StressorType == [pc : StressorUp \cup {"none", "zombie", "gone"}, flag : BOOLEAN,
                 pending : BOOLEAN, timer : {"off", "timeout", "again"}, deathsig : BOOLEAN,
                 idx : 1 .. 7, status : Status \cup {"killed", "torn"}]
ChildType    == [pc : ChildUp \cup {"none", "zombie"}, flag : BOOLEAN, pending : BOOLEAN,
                 timer : BOOLEAN, deathsig : BOOLEAN,
                 status : {"ok", "no_resource", "killed", "fault"}]
SharedType   == [ready : BOOLEAN, errors : BOOLEAN]

\* waitpid would find it, now or later.
Reapable(k) == P[k].pc \notin {"none", "gone"}

\* Forked, with no pid in the table yet.
Forking(k) == mpc = "record" /\ k = j

\* No fatal signal, and no SIGKILL, has put an end to the bookkeeping.
Working == mpc \notin {"aborting", "aborted", "killed"}

\* Instances are forked in order, with their counters ready.
ForkOrder ==
    /\ mpc \in {"fork", "record", "startup", "reaped"} => j <= N
    /\ mpc \in {"next", "fork"} => \A k \in Instance : k >= j => P[k].pc = "none"
    /\ mpc \in {"record", "startup"} => \A k \in Instance : k > j => P[k].pc = "none"
    /\ mpc = "fork" => shared[j].ready

\* Whoever can be reaped has a pid in the table; from a slot of minus one on,
\* nobody was forked.
SlotOK(k) ==
    /\ slot[k] = "pid" \/ Forking(k) => P[k].pc # "none"
    /\ Working /\ Reapable(k) => slot[k] = "pid" \/ Forking(k)
    /\ Working /\ slot[k] = "minus_one" =>
          /\ mpc # "startup"
          /\ mpc \in {"fork", "record"} => k = j
          /\ mpc = "next" => k = j \/ ~mflag
          /\ \A m \in Instance : m >= k => P[m].pc = "none" \/ Forking(m)

\* The wait loop leaves nobody behind.
WaitedFor ==
    /\ mpc = "wait" => \A k \in Instance : k < j => ~Reapable(k)
    /\ mpc = "reaped" => \A k \in Instance : k <= j => ~Reapable(k)
    /\ mpc = "exited" => \A k \in Instance : ~Reapable(k)

\* Signalled is told to stop, and once the flag of the main process is down
\* only the stressor it has just forked may not have been signalled.
StopOK(k) ==
    /\ signalled[k] => P[k].pc # "none"
    /\ signalled[k] /\ Up(k) => Told(k)
    /\ MainUp /\ Working /\ ~mflag /\ Up(k) =>
          Told(k) \/ (mpc \in {"record", "startup"} /\ k = j)

\* A stressor has a child only while it waits for it, and gives up waiting
\* after SIGKILL only.
FamilyOK(k) ==
    /\ P[k].idx = 7 => P[k].pc \in {"exit", "sum", "zombie", "gone"}
    /\ P[k].pc \notin {"wait", "blocked", "interrupted"} /\ ~Struck(k) => ~ChildIsUp(k)
    /\ Struck(k) => P[k].pc \in {"zombie", "gone"}

Failing(p) == p.status = "failed" /\ p.pc \in Finishing \cup {"zombie", "gone"}

\* Outside stress_oomable_child the counter is ready; bit errors are not lost.
CounterOK(k) ==
    /\ P[k].pc \in StressorUp \ Oomable => shared[k].ready
    /\ shared[k].errors => Struck(k) \/ P[k].pc \in Oomable \/ Failing(P[k])

Worst == IF Ended("failed") THEN "failed"
         ELSE IF Ended("no_resource") THEN "no_resource"
         ELSE IF Ended("untrustworthy") THEN "untrustworthy" ELSE "ok"

CodeOK ==
    Working => exitcode = IF mpc = "exited" /\ Ended("torn") THEN "failed" ELSE Worst

Families == \A k \in Instance : FamilyOK(k) /\ CounterOK(k)

Bookkeeping ==
    /\ ForkOrder /\ WaitedFor /\ CodeOK /\ CreditedToItsOwn
    /\ \A k \in Instance : SlotOK(k) /\ StopOK(k)

IInv == TypeOK /\ Families /\ Bookkeeping

-----------------------------------------------------------------------------
(* Steps that fork nobody and reap nobody.                                 *)

\* What such a step does to stressor k and its child.
Kept(k) ==
    /\ \/ P'[k].pc = P[k].pc
       \/ P[k].pc \in StressorUp /\ P'[k].pc \in StressorUp \cup {"zombie"}
    /\ P[k].pc \notin StressorUp => P'[k].status = P[k].status
    /\ P'[k].pc \in StressorUp /\ Told(k) => Told(k)'
    /\ signalled'[k] =>
          signalled[k] \/ (P[k].pc # "none" /\ (P'[k].pc \in StressorUp => Told(k)'))
    /\ G'[k].pc \in ChildUp => G[k].pc \in ChildUp \/ P[k].pc \in StressorUp
    /\ P[k].pc = "none" /\ shared[k].ready => shared'[k].ready

\* It leaves who can be reaped, who was forked, and how those ended who have.
LEMMA KeptStays ==
    ASSUME NEW k \in Instance, Kept(k)
    PROVE  /\ (P'[k].pc = "none") <=> (P[k].pc = "none")
           /\ (P'[k].pc = "gone") <=> (P[k].pc = "gone")
           /\ P[k].pc = "gone" => P'[k].status = P[k].status
           /\ P'[k].pc \in StressorUp => P[k].pc \in StressorUp
BY DEF Kept, StressorUp

\* The exit code still covers those who have been reaped.
LEMMA KeptCode ==
    ASSUME \A k \in Instance : Kept(k), CodeOK, exitcode' = exitcode,
           Working' => Working, mpc' = "exited" <=> mpc = "exited"
    PROVE  CodeOK'
<1>1. ASSUME NEW s PROVE Ended(s)' = Ended(s)
  BY KeptStays DEF Ended
<1>2. Worst' = Worst
  BY <1>1 DEF Worst
<1>3. Ended("torn")' = Ended("torn")
  BY <1>1
<1> QED
  BY <1>2, <1>3 DEF CodeOK

\* The books stay right where the main process does not move.
LEMMA KeptBooks ==
    ASSUME TypeOK, Bookkeeping, \A k \in Instance : Kept(k),
           UNCHANGED <<mpc, j, exitcode, credit, slot>>,
           \/ mflag' = mflag
           \/ /\ mflag' = FALSE
              /\ \A k \in Instance :
                    Up(k)' => Told(k)' \/ (mpc \in {"record", "startup"} /\ k = j)
    PROVE  Bookkeeping'
<1> USE DEF Bookkeeping
<1>1. ForkOrder'
  <2>1. mpc = "fork" => j \in Instance /\ P[j].pc = "none" /\ shared[j].ready
    BY StressRunAssumption DEF ForkOrder, TypeOK, Instance
  <2>2. mpc' = "fork" => shared'[j'].ready
    BY <2>1 DEF Kept
  <2> QED
    BY <2>2, KeptStays DEF ForkOrder
<1>2. WaitedFor'
  BY KeptStays DEF WaitedFor, Reapable
<1>3. CodeOK' /\ CreditedToItsOwn'
  BY KeptCode DEF CreditedToItsOwn, Working
<1>4. ASSUME NEW k \in Instance PROVE SlotOK(k)'
  BY KeptStays DEF SlotOK, Reapable, Forking, Working
<1>5. ASSUME NEW k \in Instance PROVE StopOK(k)'
  <2>1. StopOK(k) /\ Kept(k)
    OBVIOUS
  <2>2. signalled'[k] => P'[k].pc # "none"
    BY <2>1, KeptStays DEF StopOK, Kept
  <2>3. signalled'[k] /\ P'[k].pc \in StressorUp => Told(k)'
    BY <2>1, KeptStays DEF StopOK, Kept, Up
  <2>4. MainUp' /\ Working' /\ ~mflag' /\ P'[k].pc \in StressorUp =>
            Told(k)' \/ (mpc' \in {"record", "startup"} /\ k = j')
    BY <2>1, KeptStays DEF StopOK, Kept, Up, MainUp, Working
  <2> QED
    BY <2>2, <2>3, <2>4 DEF StopOK, Up
<1> QED
  BY <1>1, <1>2, <1>3, <1>4, <1>5

-----------------------------------------------------------------------------
(* What StressProcess sees of a step.                                      *)

Loaded   == \E i \in Instance : Up(i) \/ ChildIsUp(i)
Stricken == mpc \in {"aborted", "killed"} \/ \E i \in Instance : Struck(i)

\* Load comes only while the main process runs, which leaves none behind,
\* unless SIGKILL or a fatal signal has struck.
Moved ==
    \/ (MainUp' <=> MainUp) /\ (Stricken' <=> Stricken) /\ (Loaded' => Loaded \/ MainUp)
    \/ /\ MainUp /\ ~MainUp' /\ (Loaded => Stricken)
       /\ (Loaded' <=> Loaded) /\ (Stricken' <=> Stricken)
    \/ Stricken' /\ (MainUp' => MainUp) /\ (Loaded' => Loaded)

\* A step that forks nobody and reaps nobody brings no load.
LEMMA KeptMoves ==
    ASSUME Families, \A k \in Instance : Kept(k), MainUp' <=> MainUp,
           mpc' \in {"aborted", "killed"} <=> mpc \in {"aborted", "killed"}
    PROVE  Moved
<1>1. ASSUME NEW k \in Instance
      PROVE  /\ Up(k)' => Up(k)
             /\ ChildIsUp(k)' => ChildIsUp(k) \/ Up(k)
             /\ Struck(k) => Struck(k)'
  BY KeptStays DEF Kept, Up, ChildIsUp, Struck, Families, FamilyOK, StressorUp
<1>2. Loaded' => Loaded
  BY <1>1 DEF Loaded
<1>3. Stricken => Stricken'
  BY <1>1 DEF Stricken
<1> QED
  BY <1>2, <1>3 DEF Moved

\* Nor does a step of the main process alone.
LEMMA MainMoves ==
    ASSUME P' = P, G' = G, MainUp' <=> MainUp, Working, Working'
    PROVE  Moved
BY DEF Working, Moved, Loaded, Stricken, Up, ChildIsUp, Struck

-----------------------------------------------------------------------------
(* The steps of a stressor and of its child.                               *)

\* SIGALRM is left pending and changes nothing else.
LEMMA AlarmedFacts ==
    ASSUME NEW p \in StressorType
    PROVE  /\ Alarmed(p) \in StressorType
           /\ Alarmed(p).pc = p.pc /\ Alarmed(p).idx = p.idx /\ Alarmed(p).flag = p.flag
           /\ Alarmed(p).status = p.status
           /\ Alarmed(p).pending = p.pending \/ Alarmed(p).pending
           /\ p.pc \in StressorUp => Alarmed(p).pending
<1>1. CASE p.pc \notin StressorUp
  BY <1>1 DEF Alarmed
<1>2. CASE p.pc \in StressorUp
  <2> DEFINE q == [p EXCEPT !.pending = TRUE]
  <2>1. Alarmed(p) = q
    BY <1>2 DEF Alarmed
  <2>2. q \in StressorType
    BY DEF StressorType
  <2>3. /\ q.pending = TRUE /\ q.pc = p.pc /\ q.idx = p.idx /\ q.flag = p.flag
        /\ q.status = p.status
    BY DEF StressorType
  <2> HIDE DEF q
  <2> QED
    BY <2>1, <2>2, <2>3
<1> QED
  BY <1>1, <1>2

\* A dead stressor, and one that SIGKILL took.
LEMMA DeadFacts ==
    ASSUME NEW status \in Status \cup {"killed", "torn"}
    PROVE  /\ Dead(status) \in StressorType
           /\ Dead(status).pc = "zombie" /\ Dead(status).idx = 1 /\ Dead(status).status = status
<1>1. NoStressor \in StressorType /\ NoStressor.idx = 1
  BY DEF NoStressor, StressorType, Status
<1> QED
  BY <1>1 DEF Dead, StressorType

LEMMA SlainFacts ==
    ASSUME NEW p
    PROVE  /\ Slain(p) \in StressorType
           /\ Slain(p).pc = "zombie" /\ Slain(p).idx = 1 /\ Slain(p).status \in {"killed", "torn"}
<1>1. CASE p.pc = "sum"
  BY <1>1, DeadFacts DEF Slain
<1>2. CASE p.pc # "sum"
  BY <1>2, DeadFacts DEF Slain
<1> QED
  BY <1>1, <1>2

\* A dead child.
LEMMA DeadChildFacts ==
    ASSUME NEW status \in {"ok", "no_resource", "killed", "fault"}
    PROVE  DeadChild(status) \in ChildType /\ DeadChild(status).pc = "zombie"
<1>1. NoChild \in ChildType
  BY DEF NoChild, ChildType
<1> QED
  BY <1>1 DEF DeadChild, ChildType

\* A stressor's record after a step of its own, with its child's and with what
\* they share.
OwnOK(i, p, g, s) ==
    /\ Up(i) /\ p.pc \in StressorUp \cup {"zombie"}
    /\ Told(i) => p.pc = "zombie" \/ ~p.flag \/ p.pending
    /\ p.idx = 7 => p.pc \in {"exit", "sum", "zombie"}
    /\ p.pc \notin {"wait", "blocked", "interrupted"} /\ p.status \notin {"killed", "torn"} =>
          g.pc \notin ChildUp
    /\ p.status \in {"killed", "torn"} => p.pc = "zombie"
    /\ p.pc \in StressorUp \ Oomable => s.ready
    /\ s.errors => p.status \in {"killed", "torn"} \/ p.pc \in Oomable \/ Failing(p)

\* What a step of one stressor has to show.
LEMMA OwnStep ==
    ASSUME TypeOK, Families, NEW i \in Instance,
           NEW p \in StressorType, NEW g \in ChildType, NEW s \in SharedType,
           P' = [P EXCEPT ![i] = p], G' = [G EXCEPT ![i] = g],
           shared' = [shared EXCEPT ![i] = s], signalled' = signalled,
           OwnOK(i, p, g, s)
    PROVE  /\ P' \in [Instance -> StressorType] /\ G' \in [Instance -> ChildType]
           /\ shared' \in [Instance -> SharedType]
           /\ Families' /\ \A k \in Instance : Kept(k)
<1>1. /\ P \in [Instance -> StressorType] /\ G \in [Instance -> ChildType]
      /\ shared \in [Instance -> SharedType]
  BY DEF TypeOK, StressorType, ChildType, SharedType
<1>2. /\ P' \in [Instance -> StressorType] /\ G' \in [Instance -> ChildType]
      /\ shared' \in [Instance -> SharedType]
  BY <1>1
<1>3. P'[i] = p /\ G'[i] = g /\ shared'[i] = s
  BY <1>1
<1>4. Kept(i)
  BY <1>3 DEF OwnOK, Kept, Told, Up, StressorUp
<1>5. FamilyOK(i)' /\ CounterOK(i)'
  BY <1>3 DEF OwnOK, FamilyOK, CounterOK, Failing, Struck, ChildIsUp
<1>6. ASSUME NEW k \in Instance, k # i PROVE Kept(k) /\ FamilyOK(k)' /\ CounterOK(k)'
  <2>1. P'[k] = P[k] /\ G'[k] = G[k] /\ shared'[k] = shared[k] /\ signalled'[k] = signalled[k]
    BY <1>1, <1>6
  <2>2. Kept(k)
    BY <2>1 DEF Kept, Told
  <2>3. FamilyOK(k)' /\ CounterOK(k)'
    BY <2>1 DEF Families, FamilyOK, CounterOK, Failing, Struck, ChildIsUp
  <2> QED
    BY <2>2, <2>3
<1> QED
  BY <1>2, <1>4, <1>5, <1>6 DEF Families

\* The same, of its child, which alone changes what they share.
LEMMA ChildOwnStep ==
    ASSUME TypeOK, Families, NEW i \in Instance, NEW g \in ChildType, NEW s \in SharedType,
           P' = P, G' = [G EXCEPT ![i] = g], shared' = [shared EXCEPT ![i] = s],
           signalled' = signalled,
           g.pc \in ChildUp => ChildIsUp(i), s = shared[i] \/ ChildIsUp(i)
    PROVE  /\ G' \in [Instance -> ChildType] /\ shared' \in [Instance -> SharedType]
           /\ Families' /\ \A k \in Instance : Kept(k)
<1>1. G \in [Instance -> ChildType] /\ shared \in [Instance -> SharedType]
  BY DEF TypeOK, ChildType, SharedType
<1>2. G' \in [Instance -> ChildType] /\ shared' \in [Instance -> SharedType]
  BY <1>1
<1>3. ASSUME NEW k \in Instance PROVE Kept(k) /\ FamilyOK(k)' /\ CounterOK(k)'
  <2>1. /\ P'[k] = P[k] /\ signalled'[k] = signalled[k]
        /\ G'[k].pc \in ChildUp => G[k].pc \in ChildUp
        /\ shared'[k] = shared[k] \/ ChildIsUp(k)
    BY <1>1 DEF ChildIsUp
  <2>2. FamilyOK(k) /\ CounterOK(k)
    BY DEF Families
  <2>3. ChildIsUp(k) => P[k].pc \in {"wait", "blocked", "interrupted"} \/ Struck(k)
    BY <2>2 DEF FamilyOK
  <2>4. Kept(k)
    BY <2>1, <2>2, <2>3 DEF Kept, Told, FamilyOK
  <2>5. FamilyOK(k)'
    BY <2>1, <2>2 DEF FamilyOK, Struck, ChildIsUp
  <2>6. CounterOK(k)'
    BY <2>1, <2>2, <2>3 DEF CounterOK, FamilyOK, Failing, Struck, StressorUp
  <2> QED
    BY <2>4, <2>5, <2>6
<1> QED
  BY <1>2, <1>3 DEF Families

\* What stress_kill_stressors does: whoever has a pid is told.
LEMMA Killing ==
    ASSUME TypeOK, Families, Bookkeeping, NEW force \in BOOLEAN,
           stress_kill_stressors(slot, force), shared' = shared
    PROVE  /\ calls' \in 0 .. SigkillAfter + 1 /\ signalled' \in [Instance -> BOOLEAN]
           /\ P' \in [Instance -> StressorType] /\ G' \in [Instance -> ChildType]
           /\ Families' /\ \A k \in Instance : Kept(k)
           /\ Working => \A k \in Instance : Up(k)' => Told(k)' \/ Forking(k)
<1> DEFINE T     == Targets(slot)
           count == IF force /\ calls <= SigkillAfter THEN calls + 1 ELSE calls
           hard  == force /\ count > SigkillAfter
<1>1. /\ P \in [Instance -> StressorType] /\ G \in [Instance -> ChildType]
      /\ signalled \in [Instance -> BOOLEAN] /\ calls \in 0 .. SigkillAfter + 1
  BY DEF TypeOK, StressorType, ChildType
<1>2. /\ calls' = count
      /\ signalled' = [i \in Instance |-> signalled[i] \/ i \in T]
      /\ P' = [i \in Instance |-> IF i \notin T THEN P[i]
                                  ELSE IF hard THEN Sigkilled(P[i]) ELSE Alarmed(P[i])]
      /\ G' = [i \in Instance |-> IF hard /\ i \in T /\ Up(i) THEN Bereaved(G[i]) ELSE G[i]]
  BY DEF stress_kill_stressors
<1>3. calls' \in 0 .. SigkillAfter + 1
  BY <1>1, <1>2, StressRunAssumption
<1>4. \A k \in Instance : k \in T <=> slot[k] = "pid" /\ ~signalled[k]
  BY DEF Targets
<1> HIDE DEF T, hard, count
<1>5. ASSUME NEW k \in Instance
      PROVE  /\ P'[k] \in StressorType /\ G'[k] \in ChildType
             /\ P'[k] = P[k] \/ (k \in T /\ P'[k] \in {Sigkilled(P[k]), Alarmed(P[k])})
             /\ k \in T => P'[k] \in {Sigkilled(P[k]), Alarmed(P[k])}
             /\ G'[k] \in {G[k], Bereaved(G[k])}
  <2>1. P[k] \in StressorType /\ G[k] \in ChildType
    BY <1>1
  <2>2. Sigkilled(P[k]) \in StressorType /\ Alarmed(P[k]) \in StressorType
    BY <2>1, SlainFacts, AlarmedFacts DEF Sigkilled
  <2>3. Bereaved(G[k]) \in ChildType
    BY <2>1 DEF Bereaved, ChildType
  <2> QED
    BY <1>2, <2>1, <2>2, <2>3, Zenon
<1>6. ASSUME NEW k \in Instance
      PROVE  /\ Kept(k) /\ FamilyOK(k)' /\ CounterOK(k)'
             /\ Working => (Up(k)' => Told(k)' \/ Forking(k))
  <2>1. /\ P[k] \in StressorType /\ G[k] \in ChildType
        /\ FamilyOK(k) /\ CounterOK(k) /\ SlotOK(k) /\ StopOK(k)
    BY <1>1 DEF Families, Bookkeeping
  <2>2. signalled'[k] <=> signalled[k] \/ k \in T
    BY <1>2
  <2>3. G'[k].pc = G[k].pc
    BY <1>5, <2>1 DEF Bereaved, ChildType
  <2>4. \/ P'[k] = P[k] /\ (k \notin T \/ ~Up(k))
        \/ k \in T /\ Up(k) /\ P'[k] = Slain(P[k])
        \/ k \in T /\ Up(k) /\ P'[k] = [P[k] EXCEPT !.pending = TRUE]
    BY <1>5 DEF Sigkilled, Alarmed, Up
  <2>5. CASE P'[k] = P[k] /\ (k \notin T \/ ~Up(k))
    <3>1. Working => (Up(k) => Told(k) \/ Forking(k))
      BY <2>1, <2>5, <1>4 DEF SlotOK, StopOK, Reapable, Up, StressorUp
    <3>2. k \in T => P[k].pc # "none"
      BY <2>1, <1>4 DEF SlotOK
    <3>3. Kept(k) /\ FamilyOK(k)' /\ CounterOK(k)'
      BY <2>1, <2>2, <2>3, <2>5, <3>2 DEF Kept, FamilyOK, CounterOK, Struck, ChildIsUp, Told, Up
    <3> QED
      BY <2>5, <3>1, <3>3 DEF Up, Told
  <2>6. CASE k \in T /\ Up(k) /\ P'[k] = Slain(P[k])
    <3>1. P'[k].pc = "zombie" /\ P'[k].status \in {"killed", "torn"} /\ P'[k].idx = 1
      BY <2>6, SlainFacts
    <3> QED
      BY <2>1, <2>3, <2>6, <3>1 DEF Kept, FamilyOK, CounterOK, Struck, ChildIsUp, Up, StressorUp
  <2>7. CASE k \in T /\ Up(k) /\ P'[k] = [P[k] EXCEPT !.pending = TRUE]
    <3>1. /\ P'[k].pc = P[k].pc /\ P'[k].status = P[k].status /\ P'[k].idx = P[k].idx
          /\ P'[k].pending
      BY <2>1, <2>7 DEF StressorType
    <3> QED
      BY <2>1, <2>3, <2>7, <3>1 DEF Kept, FamilyOK, CounterOK, Failing, Struck, ChildIsUp, Told,
         Up, StressorUp
  <2> QED
    BY <2>4, <2>5, <2>6, <2>7
<1> QED
  BY <1>2, <1>3, <1>5, <1>6 DEF Families

\* The records of one instance have their types.
LEMMA Typed ==
    ASSUME IInv, NEW i \in Instance
    PROVE  /\ P \in [Instance -> StressorType] /\ G \in [Instance -> ChildType]
           /\ P[i] \in StressorType /\ G[i] \in ChildType /\ FamilyOK(i) /\ CounterOK(i)
           /\ shared \in [Instance -> SharedType] /\ shared[i] \in SharedType
BY DEF IInv, TypeOK, StressorType, ChildType, SharedType, Families

\* What such a step leaves alone keeps the rest of the invariant.
LEMMA Around ==
    ASSUME IInv, UNCHANGED <<mainVars, calls, slot, signalled, layout, terms>>,
           kills' \in 0 .. MaxKills, faults' \in 0 .. MaxFaults,
           P' \in [Instance -> StressorType], G' \in [Instance -> ChildType],
           shared' \in [Instance -> SharedType],
           Families', \A k \in Instance : Kept(k)
    PROVE  IInv' /\ Moved
<1>1. TypeOK'
  BY DEF IInv, TypeOK, StressorType, ChildType, SharedType, mainVars
<1>2. Bookkeeping'
  BY KeptBooks DEF IInv, mainVars
<1>3. Moved
  BY KeptMoves DEF IInv, mainVars, MainUp
<1> QED
  BY <1>1, <1>2, <1>3 DEF IInv

\* So does a step of one stressor ...
LEMMA Own ==
    ASSUME IInv, NEW i \in Instance,
           NEW p \in StressorType, NEW g \in ChildType, NEW s \in SharedType,
           P' = [P EXCEPT ![i] = p], G' = [G EXCEPT ![i] = g],
           shared' = [shared EXCEPT ![i] = s], OwnOK(i, p, g, s),
           UNCHANGED <<mainVars, calls, slot, signalled, layout, terms>>,
           kills' \in 0 .. MaxKills, faults' \in 0 .. MaxFaults
    PROVE  IInv' /\ Moved
<1>1. TypeOK /\ Families /\ signalled' = signalled
  BY DEF IInv
<1>2. /\ P' \in [Instance -> StressorType] /\ G' \in [Instance -> ChildType]
      /\ shared' \in [Instance -> SharedType]
      /\ Families' /\ \A k \in Instance : Kept(k)
  BY <1>1, OwnStep
<1> QED
  BY <1>2, Around

\* ... one that leaves the stressor's counter alone ...
LEMMA OwnQuiet ==
    ASSUME IInv, NEW i \in Instance, NEW p \in StressorType, NEW g \in ChildType,
           P' = [P EXCEPT ![i] = p], G' = [G EXCEPT ![i] = g], OwnOK(i, p, g, shared[i]),
           UNCHANGED <<mainVars, statsVars, layout, terms>>,
           kills' \in 0 .. MaxKills, faults' \in 0 .. MaxFaults
    PROVE  IInv' /\ Moved
<1>1. shared \in [Instance -> SharedType] /\ shared[i] \in SharedType
  BY Typed
<1>2. shared' = [shared EXCEPT ![i] = shared[i]]
  BY <1>1 DEF statsVars
<1>3. UNCHANGED <<mainVars, calls, slot, signalled, layout, terms>>
  BY DEF statsVars
<1> QED
  BY <1>1, <1>2, <1>3, Own

\* ... and one of its child.
LEMMA ChildOwn ==
    ASSUME IInv, NEW i \in Instance, NEW g \in ChildType, NEW s \in SharedType,
           P' = P, G' = [G EXCEPT ![i] = g], shared' = [shared EXCEPT ![i] = s],
           g.pc \in ChildUp => ChildIsUp(i), s = shared[i] \/ ChildIsUp(i),
           UNCHANGED <<mainVars, calls, slot, signalled, layout, terms>>,
           kills' \in 0 .. MaxKills, faults' \in 0 .. MaxFaults
    PROVE  IInv' /\ Moved
<1>1. TypeOK /\ Families /\ signalled' = signalled
  BY DEF IInv
<1>2. /\ G' \in [Instance -> ChildType] /\ shared' \in [Instance -> SharedType]
      /\ Families' /\ \A k \in Instance : Kept(k)
  BY <1>1, ChildOwnStep
<1>3. P' \in [Instance -> StressorType]
  BY <1>1 DEF TypeOK, StressorType
<1> QED
  BY <1>2, <1>3, Around

LEMMA ChildQuiet ==
    ASSUME IInv, NEW i \in Instance, NEW g \in ChildType,
           P' = P, G' = [G EXCEPT ![i] = g], g.pc \in ChildUp => G[i].pc \in ChildUp,
           UNCHANGED <<mainVars, statsVars, layout, terms>>,
           kills' \in 0 .. MaxKills, faults' \in 0 .. MaxFaults
    PROVE  IInv' /\ Moved
<1>1. shared \in [Instance -> SharedType] /\ shared[i] \in SharedType
  BY Typed
<1>2. shared' = [shared EXCEPT ![i] = shared[i]]
  BY <1>1 DEF statsVars
<1>3. UNCHANGED <<mainVars, calls, slot, signalled, layout, terms>>
  BY DEF statsVars
<1> QED
  BY <1>1, <1>2, <1>3, ChildOwn DEF ChildIsUp

\* The end of stress_vm: the counter is ready, and bit errors are a failure.
LEMMA ReturnStep ==
    ASSUME IInv, NEW i \in Instance, NEW rc \in Status, NEW g \in ChildType,
           P[i].pc \in Oomable, ReturnFromOomable(i, rc),
           G' = [G EXCEPT ![i] = g], g.pc \notin ChildUp,
           UNCHANGED <<mainVars, calls, slot, signalled, layout, terms>>,
           kills' \in 0 .. MaxKills, faults' \in 0 .. MaxFaults
    PROVE  IInv' /\ Moved
<1> DEFINE p == Returned(i, P[i], rc)
           s == [shared[i] EXCEPT !.ready = TRUE]
<1>1. /\ P \in [Instance -> StressorType] /\ P[i] \in StressorType /\ FamilyOK(i)
      /\ shared \in [Instance -> SharedType] /\ shared[i] \in SharedType
  BY Typed
<1>2. P' = [P EXCEPT ![i] = p] /\ shared' = [shared EXCEPT ![i] = s]
  BY <1>1 DEF ReturnFromOomable, SetP, SetCounter
<1>3. /\ p \in StressorType /\ p.pc = "exit" /\ p.flag = P[i].flag /\ p.pending = P[i].pending
      /\ p.status = IF shared[i].errors THEN "failed" ELSE rc
  BY <1>1 DEF Returned, StressorType, StressorUp, Status
<1>4. s \in SharedType /\ s.ready /\ s.errors = shared[i].errors
  BY <1>1 DEF SharedType
<1>5. p.status \notin {"killed", "torn"} /\ (s.errors => p.status = "failed")
  BY <1>3, <1>4 DEF Status
<1> HIDE DEF p, s
<1>6. OwnOK(i, p, g, s)
  BY <1>3, <1>4, <1>5 DEF OwnOK, Up, Told, Failing, StressorUp
<1> QED
  BY <1>2, <1>3, <1>4, <1>6, Own

\* The invariant holds on when the handler is set.
LEMMA SetHandlerStep ==
    ASSUME IInv, NEW i \in Instance, SetHandler(i)
    PROVE  IInv' /\ Moved
<1>1. /\ P \in [Instance -> StressorType] /\ G \in [Instance -> ChildType]
      /\ P[i] \in StressorType /\ G[i] \in ChildType /\ FamilyOK(i) /\ CounterOK(i)
  BY Typed
<1>2. /\ UNCHANGED <<mainVars, statsVars, layout, terms>>
      /\ kills' \in 0 .. MaxKills /\ faults' \in 0 .. MaxFaults
  BY DEF SetHandler, IInv, TypeOK, SetP, envVars, StressorOnly
<1> DEFINE p == [P[i] EXCEPT !.pc = "prctl"]
           g == G[i]
<1>3. P' = [P EXCEPT ![i] = p] /\ G' = [G EXCEPT ![i] = g]
  BY <1>1 DEF SetHandler, StressorOnly, SetP
<1>4. p \in StressorType /\ g \in ChildType
  BY <1>1 DEF SetHandler, StressorOnly, SetP, StressorType, ChildType, Status, StressorUp, ChildUp
<1>5. OwnOK(i, p, g, shared[i])
  BY <1>1 DEF SetHandler, StressorOnly, SetP, OwnOK, Up, Told, FamilyOK, CounterOK, Failing,
     Struck, ChildIsUp, StressorType, ChildType, StressorUp, ChildUp
<1> HIDE DEF p, g
<1> QED
  BY <1>3, <1>4, <1>5, <1>2, OwnQuiet

\* The invariant holds on when the death signal is asked for.
LEMMA ParentDiedAlarmStep ==
    ASSUME IInv, NEW i \in Instance, ParentDiedAlarm(i)
    PROVE  IInv' /\ Moved
<1>1. /\ P \in [Instance -> StressorType] /\ G \in [Instance -> ChildType]
      /\ P[i] \in StressorType /\ G[i] \in ChildType /\ FamilyOK(i) /\ CounterOK(i)
  BY Typed
<1>2. /\ UNCHANGED <<mainVars, statsVars, layout, terms>>
      /\ kills' \in 0 .. MaxKills /\ faults' \in 0 .. MaxFaults
  BY DEF ParentDiedAlarm, IInv, TypeOK, SetP, envVars, StressorOnly
<1> DEFINE p == [P[i] EXCEPT !.pc = "start", !.deathsig = TRUE]
           g == G[i]
<1>3. P' = [P EXCEPT ![i] = p] /\ G' = [G EXCEPT ![i] = g]
  BY <1>1 DEF ParentDiedAlarm, SetP
<1>4. p \in StressorType /\ g \in ChildType
  BY <1>1 DEF ParentDiedAlarm, SetP, StressorType, ChildType, Status, StressorUp, ChildUp
<1>5. OwnOK(i, p, g, shared[i])
  BY <1>1 DEF ParentDiedAlarm, SetP, OwnOK, Up, Told, FamilyOK, CounterOK, Failing, Struck,
     ChildIsUp, StressorType, ChildType, StressorUp, ChildUp
<1> HIDE DEF p, g
<1> QED
  BY <1>3, <1>4, <1>5, <1>2, OwnQuiet

\* The invariant holds on when the timeout starts.
LEMMA StartStressorStep ==
    ASSUME IInv, NEW i \in Instance, StartStressor(i)
    PROVE  IInv' /\ Moved
<1>1. /\ P \in [Instance -> StressorType] /\ G \in [Instance -> ChildType]
      /\ P[i] \in StressorType /\ G[i] \in ChildType /\ FamilyOK(i) /\ CounterOK(i)
  BY Typed
<1>2. /\ UNCHANGED <<mainVars, statsVars, layout, terms>>
      /\ kills' \in 0 .. MaxKills /\ faults' \in 0 .. MaxFaults
  BY DEF StartStressor, Work, IInv, TypeOK, SetP, envVars, StressorOnly
<1>3. CASE P[i].flag
  <2> DEFINE p == [P[i] EXCEPT !.timer = "timeout", !.pc = Work(i)]
             g == G[i]
  <2>1. P' = [P EXCEPT ![i] = p] /\ G' = [G EXCEPT ![i] = g]
    BY <1>1, <1>3 DEF StartStressor, Work, SetP
  <2>2. p \in StressorType /\ g \in ChildType
    BY <1>1, <1>3 DEF StartStressor, Work, SetP, StressorType, ChildType, Status, StressorUp,
       ChildUp
  <2>3. OwnOK(i, p, g, shared[i])
    BY <1>1, <1>3 DEF StartStressor, Work, SetP, OwnOK, Up, Told, FamilyOK, CounterOK, Failing,
       Struck, ChildIsUp, StressorType, ChildType, StressorUp, ChildUp
  <2> HIDE DEF p, g
  <2> QED
    BY <2>1, <2>2, <2>3, <1>2, OwnQuiet
<1>4. CASE ~P[i].flag
  <2> DEFINE p == [P[i] EXCEPT !.timer = "timeout", !.pc = "leave"]
             g == G[i]
  <2>1. P' = [P EXCEPT ![i] = p] /\ G' = [G EXCEPT ![i] = g]
    BY <1>1, <1>4 DEF StartStressor, Work, SetP
  <2>2. p \in StressorType /\ g \in ChildType
    BY <1>1, <1>4 DEF StartStressor, Work, SetP, StressorType, ChildType, Status, StressorUp,
       ChildUp
  <2>3. OwnOK(i, p, g, shared[i])
    BY <1>1, <1>4 DEF StartStressor, Work, SetP, OwnOK, Up, Told, FamilyOK, CounterOK, Failing,
       Struck, ChildIsUp, StressorType, ChildType, StressorUp, ChildUp
  <2> HIDE DEF p, g
  <2> QED
    BY <2>1, <2>2, <2>3, <1>2, OwnQuiet
<1> QED
  BY <1>3, <1>4 DEF StartStressor

\* The invariant holds on when the cpu loop ends.
LEMMA StopSpinningStep ==
    ASSUME IInv, NEW i \in Instance, StopSpinning(i)
    PROVE  IInv' /\ Moved
<1>1. /\ P \in [Instance -> StressorType] /\ G \in [Instance -> ChildType]
      /\ P[i] \in StressorType /\ G[i] \in ChildType /\ FamilyOK(i) /\ CounterOK(i)
  BY Typed
<1>2. /\ UNCHANGED <<mainVars, statsVars, layout, terms>>
      /\ kills' \in 0 .. MaxKills /\ faults' \in 0 .. MaxFaults
  BY DEF StopSpinning, IInv, TypeOK, SetP, envVars, StressorOnly
<1> DEFINE p == [P[i] EXCEPT !.pc = "exit"]
           g == G[i]
<1>3. P' = [P EXCEPT ![i] = p] /\ G' = [G EXCEPT ![i] = g]
  BY <1>1 DEF StopSpinning, StressorOnly, SetP
<1>4. p \in StressorType /\ g \in ChildType
  BY <1>1 DEF StopSpinning, StressorOnly, SetP, StressorType, ChildType, Status, StressorUp,
     ChildUp
<1>5. OwnOK(i, p, g, shared[i])
  BY <1>1 DEF StopSpinning, StressorOnly, SetP, OwnOK, Up, Told, FamilyOK, CounterOK, Failing,
     Struck, ChildIsUp, StressorType, ChildType, StressorUp, ChildUp
<1> HIDE DEF p, g
<1> QED
  BY <1>3, <1>4, <1>5, <1>2, OwnQuiet

\* The invariant holds on when a stressor's function has returned.
LEMMA CompleteStep ==
    ASSUME IInv, NEW i \in Instance, Complete(i)
    PROVE  IInv' /\ Moved
<1>1. /\ P \in [Instance -> StressorType] /\ G \in [Instance -> ChildType]
      /\ P[i] \in StressorType /\ G[i] \in ChildType /\ FamilyOK(i) /\ CounterOK(i)
  BY Typed
<1>2. /\ UNCHANGED <<mainVars, statsVars, layout, terms>>
      /\ kills' \in 0 .. MaxKills /\ faults' \in 0 .. MaxFaults
  BY DEF Complete, IInv, TypeOK, envVars, StressorOnly
<1> DEFINE p == [P[i] EXCEPT !.pc = "sum", !.timer = "off"]
           g == G[i]
<1>3. P' = [P EXCEPT ![i] = p] /\ G' = [G EXCEPT ![i] = g]
  BY <1>1 DEF Complete, StressorOnly, SetP
<1>4. p \in StressorType /\ g \in ChildType
  BY <1>1 DEF StressorType, StressorUp
<1>5. OwnOK(i, p, g, shared[i])
  BY <1>1 DEF Complete, OwnOK, Up, Told, FamilyOK, CounterOK, Failing, Struck, ChildIsUp,
     StressorType, StressorUp
<1> HIDE DEF p, g
<1> QED
  BY <1>3, <1>4, <1>5, <1>2, OwnQuiet

\* The invariant holds on when a stressor ends.
LEMMA ExitStressorStep ==
    ASSUME IInv, NEW i \in Instance, ExitStressor(i)
    PROVE  IInv' /\ Moved
<1>1. /\ P \in [Instance -> StressorType] /\ G \in [Instance -> ChildType]
      /\ P[i] \in StressorType /\ G[i] \in ChildType /\ FamilyOK(i) /\ CounterOK(i)
  BY Typed
<1>2. /\ UNCHANGED <<mainVars, statsVars, layout, terms>>
      /\ kills' \in 0 .. MaxKills /\ faults' \in 0 .. MaxFaults
  BY DEF ExitStressor, IInv, TypeOK, envVars
<1> DEFINE status == IF P[i].pc = "sum" /\ ~shared[i].ready THEN "untrustworthy" ELSE P[i].status
           p == Dead(status)
           g == Bereaved(G[i])
<1>3. P' = [P EXCEPT ![i] = p] /\ G' = [G EXCEPT ![i] = g]
  BY <1>1 DEF ExitStressor, SetP
<1>4. P[i].pc \in {"leave", "sum"} /\ shared[i].ready
  BY <1>1 DEF ExitStressor, CounterOK, StressorUp
<1>5. status = P[i].status /\ status \in Status
  BY <1>1, <1>4 DEF FamilyOK, Struck, StressorType
<1>6. shared[i].errors => status = "failed"
  BY <1>1, <1>4, <1>5 DEF CounterOK, Failing, FamilyOK
<1> HIDE DEF status
<1>7. /\ p \in StressorType /\ p.pc = "zombie" /\ p.idx = 1 /\ p.status = status
      /\ status \notin {"killed", "torn"}
  BY <1>5, DeadFacts DEF Status
<1>8. g \in ChildType /\ g.pc = G[i].pc
  BY <1>1 DEF Bereaved, ChildType
<1>9. ~ChildIsUp(i)
  BY <1>1, <1>4 DEF FamilyOK
<1> HIDE DEF p, g
<1>10. OwnOK(i, p, g, shared[i])
  BY <1>4, <1>6, <1>7, <1>8, <1>9 DEF OwnOK, Up, ChildIsUp, Failing, StressorUp
<1> QED
  BY <1>2, <1>3, <1>7, <1>8, <1>10, OwnQuiet

\* The invariant holds on when the page for the bit errors is mapped, or is not.
LEMMA MapPageStep ==
    ASSUME IInv, NEW i \in Instance, MapPage(i)
    PROVE  IInv' /\ Moved
<1>1. /\ P \in [Instance -> StressorType] /\ G \in [Instance -> ChildType]
      /\ P[i] \in StressorType /\ G[i] \in ChildType /\ FamilyOK(i) /\ CounterOK(i)
  BY Typed
<1>2. /\ UNCHANGED <<mainVars, statsVars, layout, terms>>
      /\ kills' \in 0 .. MaxKills /\ faults' \in 0 .. MaxFaults
  BY DEF MapPage, IInv, TypeOK, envVars, StressorOnly
<1> DEFINE g == G[i]
<1>3. G' = [G EXCEPT ![i] = g] /\ P[i].pc = "page"
  BY <1>1 DEF MapPage
<1>4. CASE SetP(i, [P[i] EXCEPT !.pc = "again"])
  <2> DEFINE p == [P[i] EXCEPT !.pc = "again"]
  <2>1. P' = [P EXCEPT ![i] = p]
    BY <1>4 DEF SetP
  <2>2. p \in StressorType
    BY <1>1 DEF StressorType, StressorUp
  <2>3. OwnOK(i, p, g, shared[i])
    BY <1>1, <1>3 DEF OwnOK, Up, Told, FamilyOK, CounterOK, Failing, Struck, ChildIsUp,
       StressorType, StressorUp
  <2> HIDE DEF p, g
  <2> QED
    BY <1>1, <1>2, <1>3, <2>1, <2>2, <2>3, OwnQuiet DEF g
<1>5. CASE SetP(i, [P[i] EXCEPT !.pc = "exit", !.status = "no_resource"])
  <2> DEFINE p == [P[i] EXCEPT !.pc = "exit", !.status = "no_resource"]
  <2>1. P' = [P EXCEPT ![i] = p]
    BY <1>5 DEF SetP
  <2>2. p \in StressorType
    BY <1>1 DEF StressorType, StressorUp, Status
  <2>3. OwnOK(i, p, g, shared[i])
    BY <1>1, <1>3 DEF OwnOK, Up, Told, FamilyOK, CounterOK, Failing, Struck, ChildIsUp,
       StressorType, StressorUp
  <2> HIDE DEF p, g
  <2> QED
    BY <1>1, <1>2, <1>3, <2>1, <2>2, <2>3, OwnQuiet DEF g
<1> QED
  BY <1>4, <1>5 DEF MapPage

\* The invariant holds on at the top of the loop around the child.
LEMMA AgainStep ==
    ASSUME IInv, NEW i \in Instance, Again(i)
    PROVE  IInv' /\ Moved
<1>1. /\ P \in [Instance -> StressorType] /\ G \in [Instance -> ChildType]
      /\ P[i] \in StressorType /\ G[i] \in ChildType /\ FamilyOK(i) /\ CounterOK(i)
  BY Typed
<1>2. /\ UNCHANGED <<mainVars, calls, slot, signalled, layout, terms>>
      /\ kills' \in 0 .. MaxKills /\ faults' \in 0 .. MaxFaults
      /\ P[i].pc = "again" /\ G' = G /\ G' = [G EXCEPT ![i] = G[i]]
  BY <1>1 DEF Again, IInv, TypeOK, envVars
<1>3. CASE SetP(i, [P[i] EXCEPT !.pc = "fork"]) /\ UNCHANGED shared
  <2> DEFINE p == [P[i] EXCEPT !.pc = "fork"]
  <2>1. P' = [P EXCEPT ![i] = p]
    BY <1>3 DEF SetP
  <2>2. p \in StressorType
    BY <1>1 DEF StressorType, StressorUp
  <2>3. OwnOK(i, p, G[i], shared[i])
    BY <1>1, <1>2 DEF OwnOK, Up, Told, FamilyOK, CounterOK, Failing, Struck, ChildIsUp,
       StressorType, StressorUp, ChildUp
  <2> HIDE DEF p
  <2> QED
    BY <1>1, <1>2, <1>3, <2>1, <2>2, <2>3, OwnQuiet DEF statsVars
<1>4. CASE ReturnFromOomable(i, "ok")
  <2>1. G[i].pc \notin ChildUp
    BY <1>1, <1>2 DEF FamilyOK, Struck, ChildIsUp
  <2> QED
    BY <1>1, <1>2, <1>4, <2>1, ReturnStep DEF Status
<1> QED
  BY <1>3, <1>4 DEF Again

\* The invariant holds on when a child is forked.
LEMMA ForkChildStep ==
    ASSUME IInv, NEW i \in Instance, ForkChild(i)
    PROVE  IInv' /\ Moved
<1>1. /\ P \in [Instance -> StressorType] /\ G \in [Instance -> ChildType]
      /\ P[i] \in StressorType /\ G[i] \in ChildType /\ FamilyOK(i) /\ CounterOK(i)
  BY Typed
<1>2. /\ UNCHANGED <<mainVars, statsVars, layout, terms>>
      /\ kills' \in 0 .. MaxKills /\ faults' \in 0 .. MaxFaults
  BY DEF ForkChild, NoChild, IInv, TypeOK, SetP, envVars, StressorOnly
<1> DEFINE p == [P[i] EXCEPT !.pc = "wait"]
           g == [NoChild EXCEPT !.pc = "boot", !.flag = P[i].flag]
<1>3. P' = [P EXCEPT ![i] = p] /\ G' = [G EXCEPT ![i] = g]
  BY <1>1 DEF ForkChild, NoChild, SetP
<1>4. p \in StressorType /\ g \in ChildType
  <2>1. p \in StressorType
    BY <1>1 DEF StressorType, StressorUp
  <2>2. P[i].flag \in BOOLEAN
    BY <1>1 DEF StressorType
  <2>3. g \in ChildType
    BY <2>2 DEF NoChild, ChildType, Status, ChildUp
  <2> QED
    BY <2>1, <2>3
<1>5. OwnOK(i, p, g, shared[i])
  BY <1>1 DEF ForkChild, NoChild, SetP, OwnOK, Up, Told, FamilyOK, CounterOK, Failing, Struck,
     ChildIsUp, StressorType, ChildType, StressorUp, ChildUp
<1> HIDE DEF p, g
<1> QED
  BY <1>3, <1>4, <1>5, <1>2, OwnQuiet

\* The invariant holds on when no child is forked.
LEMMA ForkChildFailsStep ==
    ASSUME IInv, NEW i \in Instance, ForkChildFails(i)
    PROVE  IInv' /\ Moved
<1>1. /\ P \in [Instance -> StressorType] /\ G \in [Instance -> ChildType]
      /\ P[i] \in StressorType /\ G[i] \in ChildType /\ FamilyOK(i) /\ CounterOK(i)
  BY Typed
<1>2. /\ UNCHANGED <<mainVars, calls, slot, signalled, layout, terms>>
      /\ kills' \in 0 .. MaxKills /\ faults' \in 0 .. MaxFaults
      /\ P[i].pc = "fork" /\ G' = G /\ G' = [G EXCEPT ![i] = G[i]]
  BY <1>1 DEF ForkChildFails, IInv, TypeOK, envVars
<1>3. CASE SetP(i, [P[i] EXCEPT !.pc = "again"]) /\ UNCHANGED shared
  <2> DEFINE p == [P[i] EXCEPT !.pc = "again"]
  <2>1. P' = [P EXCEPT ![i] = p]
    BY <1>3 DEF SetP
  <2>2. p \in StressorType
    BY <1>1 DEF StressorType, StressorUp
  <2>3. OwnOK(i, p, G[i], shared[i])
    BY <1>1, <1>2 DEF OwnOK, Up, Told, FamilyOK, CounterOK, Failing, Struck, ChildIsUp,
       StressorType, StressorUp, ChildUp
  <2> HIDE DEF p
  <2> QED
    BY <1>1, <1>2, <1>3, <2>1, <2>2, <2>3, OwnQuiet DEF statsVars
<1>4. CASE ReturnFromOomable(i, "failed")
  <2>1. G[i].pc \notin ChildUp
    BY <1>1, <1>2 DEF FamilyOK, Struck, ChildIsUp
  <2> QED
    BY <1>1, <1>2, <1>4, <2>1, ReturnStep DEF Status
<1> QED
  BY <1>3, <1>4 DEF ForkChildFails

\* The invariant holds on when the wait begins.
LEMMA EnterWaitpidStep ==
    ASSUME IInv, NEW i \in Instance, EnterWaitpid(i)
    PROVE  IInv' /\ Moved
<1>1. /\ P \in [Instance -> StressorType] /\ G \in [Instance -> ChildType]
      /\ P[i] \in StressorType /\ G[i] \in ChildType /\ FamilyOK(i) /\ CounterOK(i)
  BY Typed
<1>2. /\ UNCHANGED <<mainVars, statsVars, layout, terms>>
      /\ kills' \in 0 .. MaxKills /\ faults' \in 0 .. MaxFaults
  BY DEF EnterWaitpid, IInv, TypeOK, SetP, envVars, StressorOnly
<1> DEFINE p == [P[i] EXCEPT !.pc = "blocked"]
           g == G[i]
<1>3. P' = [P EXCEPT ![i] = p] /\ G' = [G EXCEPT ![i] = g]
  BY <1>1 DEF EnterWaitpid, StressorOnly, SetP
<1>4. p \in StressorType /\ g \in ChildType
  BY <1>1 DEF EnterWaitpid, StressorOnly, SetP, StressorType, ChildType, Status, StressorUp,
     ChildUp
<1>5. OwnOK(i, p, g, shared[i])
  BY <1>1 DEF EnterWaitpid, StressorOnly, SetP, OwnOK, Up, Told, FamilyOK, CounterOK, Failing,
     Struck, ChildIsUp, StressorType, ChildType, StressorUp, ChildUp
<1> HIDE DEF p, g
<1> QED
  BY <1>3, <1>4, <1>5, <1>2, OwnQuiet

\* The invariant holds on when the wait ends.
LEMMA ReapChildStep ==
    ASSUME IInv, NEW i \in Instance, ReapChild(i)
    PROVE  IInv' /\ Moved
<1>1. /\ P \in [Instance -> StressorType] /\ G \in [Instance -> ChildType]
      /\ P[i] \in StressorType /\ G[i] \in ChildType /\ FamilyOK(i) /\ CounterOK(i)
  BY Typed
<1>2. /\ UNCHANGED <<mainVars, calls, slot, signalled, layout, terms>>
      /\ kills' \in 0 .. MaxKills /\ faults' \in 0 .. MaxFaults
      /\ P[i].pc = "blocked" /\ G' = [G EXCEPT ![i] = NoChild]
  BY DEF ReapChild, IInv, TypeOK, envVars
<1>3. NoChild \in ChildType /\ NoChild.pc \notin ChildUp
  BY DEF NoChild, ChildType, ChildUp
<1>4. CASE Restart(i)
  <2> DEFINE p == [P[i] EXCEPT !.pc = "again"]
  <2>1. P' = [P EXCEPT ![i] = p] /\ shared' = shared
    BY <1>4 DEF ReapChild, SetP
  <2>2. p \in StressorType
    BY <1>1 DEF StressorType, StressorUp
  <2>3. OwnOK(i, p, NoChild, shared[i])
    BY <1>1, <1>2, <1>3 DEF OwnOK, Up, Told, FamilyOK, CounterOK, Failing, Struck,
       StressorType, StressorUp
  <2> HIDE DEF p
  <2> QED
    BY <1>2, <1>3, <2>1, <2>2, <2>3, OwnQuiet DEF statsVars
<1>5. CASE ~Restart(i)
  <2> DEFINE rc == IF G[i].status = "killed" THEN "ok" ELSE G[i].status
  <2>1. ReturnFromOomable(i, rc)
    BY <1>5 DEF ReapChild
  <2>2. rc \in Status
    BY <1>1, <1>5 DEF Restart, ChildType, Status
  <2> HIDE DEF rc
  <2> QED
    BY <1>2, <1>3, <2>1, <2>2, ReturnStep
<1> QED
  BY <1>4, <1>5

\* The invariant holds on when SIGALRM is handled.
LEMMA HandleAlarmStep ==
    ASSUME IInv, NEW i \in Instance, HandleAlarm(i)
    PROVE  IInv' /\ Moved
<1>1. /\ P \in [Instance -> StressorType] /\ G \in [Instance -> ChildType]
      /\ P[i] \in StressorType /\ G[i] \in ChildType /\ FamilyOK(i) /\ CounterOK(i)
  BY Typed
<1>2. /\ UNCHANGED <<mainVars, statsVars, layout, terms>>
      /\ kills' \in 0 .. MaxKills /\ faults' \in 0 .. MaxFaults
  BY DEF HandleAlarm, StopStressing, Dead, IInv, TypeOK, SetP, envVars, StressorOnly
<1>3. CASE P[i].pc = "boot"
  <2> DEFINE p == Dead("ok")
             g == G[i]
  <2>1. P' = [P EXCEPT ![i] = p] /\ G' = [G EXCEPT ![i] = g]
    BY <1>1, <1>3 DEF HandleAlarm, StopStressing, Dead, SetP
  <2>2. p \in StressorType /\ g \in ChildType
    BY <1>1, DeadFacts DEF Status
  <2>3. OwnOK(i, p, g, shared[i])
    BY <1>1, <1>3 DEF HandleAlarm, StopStressing, Dead, SetP, OwnOK, Up, Told, FamilyOK,
       CounterOK, Failing, Struck, ChildIsUp, StressorType, ChildType, StressorUp, ChildUp
  <2> HIDE DEF p, g
  <2> QED
    BY <2>1, <2>2, <2>3, <1>2, OwnQuiet
<1>4. CASE P[i].pc # "boot"
  <2> DEFINE p == StopStressing(P[i], P[i].pc = "blocked" /\ G[i].pc # "zombie")
             g == G[i]
  <2>1. P' = [P EXCEPT ![i] = p] /\ G' = [G EXCEPT ![i] = g]
    BY <1>1, <1>4 DEF HandleAlarm, SetP
  <2>2. p \in StressorType /\ g \in ChildType
    <3> DEFINE interrupts == P[i].pc = "blocked" /\ G[i].pc # "zombie"
    <3>1. p = [P[i] EXCEPT !.flag = FALSE, !.pending = FALSE, !.timer = "again",
                           !.pc = IF interrupts THEN "interrupted" ELSE P[i].pc]
      BY <1>1 DEF StopStressing, StressorType
    <3> HIDE DEF p, interrupts
    <3> QED
      BY <1>1, <3>1 DEF StressorType, StressorUp
  <2>3. OwnOK(i, p, g, shared[i])
    BY <1>1, <1>4 DEF HandleAlarm, StopStressing, Dead, SetP, OwnOK, Up, Told, FamilyOK,
       CounterOK, Failing, Struck, ChildIsUp, StressorType, ChildType, StressorUp, ChildUp
  <2> HIDE DEF p, g
  <2> QED
    BY <2>1, <2>2, <2>3, <1>2, OwnQuiet
<1> QED
  BY <1>3, <1>4 DEF HandleAlarm

\* The invariant holds on when a timer rings.
LEMMA TimerRingsStep ==
    ASSUME IInv, NEW i \in Instance, NEW timer, TimerRings(i, timer)
    PROVE  IInv' /\ Moved
<1>1. /\ P \in [Instance -> StressorType] /\ G \in [Instance -> ChildType]
      /\ P[i] \in StressorType /\ G[i] \in ChildType /\ FamilyOK(i) /\ CounterOK(i)
  BY Typed
<1>2. /\ UNCHANGED <<mainVars, statsVars, layout, terms>>
      /\ kills' \in 0 .. MaxKills /\ faults' \in 0 .. MaxFaults
  BY DEF TimerRings, IInv, TypeOK, SetP, envVars, StressorOnly
<1> DEFINE p == [P[i] EXCEPT !.timer = "off", !.pending = TRUE]
           g == G[i]
<1>3. P' = [P EXCEPT ![i] = p] /\ G' = [G EXCEPT ![i] = g]
  BY <1>1 DEF TimerRings, SetP
<1>4. p \in StressorType /\ g \in ChildType
  BY <1>1 DEF TimerRings, SetP, StressorType, ChildType, Status, StressorUp, ChildUp
<1>5. OwnOK(i, p, g, shared[i])
  BY <1>1 DEF TimerRings, SetP, OwnOK, Up, Told, FamilyOK, CounterOK, Failing, Struck, ChildIsUp,
     StressorType, ChildType, StressorUp, ChildUp
<1> HIDE DEF p, g
<1> QED
  BY <1>3, <1>4, <1>5, <1>2, OwnQuiet

\* The invariant holds on when a stressor is killed.
LEMMA KillStressorStep ==
    ASSUME IInv, NEW i \in Instance, KillStressor(i)
    PROVE  IInv' /\ Moved
<1>1. /\ P \in [Instance -> StressorType] /\ G \in [Instance -> ChildType]
      /\ P[i] \in StressorType /\ G[i] \in ChildType /\ FamilyOK(i) /\ CounterOK(i)
  BY Typed
<1>2. /\ UNCHANGED <<mainVars, statsVars, layout, terms>>
      /\ kills' \in 0 .. MaxKills /\ faults' \in 0 .. MaxFaults
  BY StressRunAssumption DEF KillStressor, Kill, Dead, Bereaved, IInv, TypeOK, SetP, envVars,
     StressorOnly
<1> DEFINE p == Slain(P[i])
           g == Bereaved(G[i])
<1>3. P' = [P EXCEPT ![i] = p] /\ G' = [G EXCEPT ![i] = g]
  BY <1>1 DEF KillStressor, Kill, Dead, Bereaved, SetP
<1>4. p \in StressorType /\ g \in ChildType
  <2>1. p \in StressorType
    BY SlainFacts
  <2>2. g \in ChildType
    BY <1>1 DEF Bereaved, ChildType
  <2> QED
    BY <2>1, <2>2
<1>5. p.pc = "zombie" /\ p.idx = 1 /\ p.status \in {"killed", "torn"} /\ Up(i)
  BY SlainFacts DEF KillStressor
<1> HIDE DEF p, g
<1>6. OwnOK(i, p, g, shared[i])
  BY <1>5 DEF OwnOK, StressorUp
<1> QED
  BY <1>3, <1>4, <1>6, <1>2, OwnQuiet

\* The invariant holds on when a child starts.
LEMMA BootChildStep ==
    ASSUME IInv, NEW i \in Instance, BootChild(i)
    PROVE  IInv' /\ Moved
<1>1. G \in [Instance -> ChildType] /\ G[i] \in ChildType
  BY Typed
<1>2. /\ UNCHANGED <<mainVars, statsVars, layout, terms>> /\ P' = P
      /\ kills' \in 0 .. MaxKills /\ faults' \in 0 .. MaxFaults
  BY DEF BootChild, DeadChild, IInv, TypeOK, SetG, envVars
<1>3. CASE G[i].flag
  <2> DEFINE g == [G[i] EXCEPT !.pc = "check", !.deathsig = TRUE]
  <2>1. G' = [G EXCEPT ![i] = g]
    BY <1>1, <1>3 DEF BootChild, DeadChild, SetG
  <2>2. g \in ChildType /\ (g.pc \in ChildUp => G[i].pc \in ChildUp)
    BY <1>1, <1>3 DEF BootChild, DeadChild, SetG, ChildType, ChildUp, Status, ChildIsUp
  <2> HIDE DEF g
  <2> QED
    BY <2>1, <2>2, <1>2, ChildQuiet
<1>4. CASE ~G[i].flag
  <2> DEFINE g == DeadChild("ok")
  <2>1. G' = [G EXCEPT ![i] = g]
    BY <1>1, <1>4 DEF BootChild, DeadChild, SetG
  <2>2. g \in ChildType /\ (g.pc \in ChildUp => G[i].pc \in ChildUp)
    BY DeadChildFacts DEF ChildUp
  <2> HIDE DEF g
  <2> QED
    BY <2>1, <2>2, <1>2, ChildQuiet
<1> QED
  BY <1>3, <1>4 DEF BootChild

\* The invariant holds on when the child looks at its flag.
LEMMA CheckChildStep ==
    ASSUME IInv, NEW i \in Instance, CheckChild(i)
    PROVE  IInv' /\ Moved
<1>1. G \in [Instance -> ChildType] /\ G[i] \in ChildType
  BY Typed
<1>2. /\ UNCHANGED <<mainVars, statsVars, layout, terms>> /\ P' = P
      /\ kills' \in 0 .. MaxKills /\ faults' \in 0 .. MaxFaults
  BY DEF CheckChild, DeadChild, IInv, TypeOK, SetG, envVars
<1>3. CASE SetG(i, [G[i] EXCEPT !.pc = "run"])
  <2> DEFINE g == [G[i] EXCEPT !.pc = "run"]
  <2>1. G' = [G EXCEPT ![i] = g]
    BY <1>1, <1>3 DEF CheckChild, DeadChild, SetG
  <2>2. g \in ChildType /\ (g.pc \in ChildUp => G[i].pc \in ChildUp)
    BY <1>1, <1>3 DEF CheckChild, DeadChild, SetG, ChildType, ChildUp, Status, ChildIsUp
  <2> HIDE DEF g
  <2> QED
    BY <2>1, <2>2, <1>2, ChildQuiet
<1>4. CASE SetG(i, DeadChild("ok"))
  <2> DEFINE g == DeadChild("ok")
  <2>1. G' = [G EXCEPT ![i] = g]
    BY <1>1, <1>4 DEF CheckChild, DeadChild, SetG
  <2>2. g \in ChildType /\ (g.pc \in ChildUp => G[i].pc \in ChildUp)
    BY DeadChildFacts DEF ChildUp
  <2> HIDE DEF g
  <2> QED
    BY <2>1, <2>2, <1>2, ChildQuiet
<1> QED
  BY <1>3, <1>4 DEF CheckChild

\* The invariant holds on when the child begins to count.
LEMMA BeginCountStep ==
    ASSUME IInv, NEW i \in Instance, BeginCount(i)
    PROVE  IInv' /\ Moved
<1>1. /\ G \in [Instance -> ChildType] /\ G[i] \in ChildType
      /\ shared \in [Instance -> SharedType] /\ shared[i] \in SharedType
  BY Typed
<1>2. /\ UNCHANGED <<mainVars, calls, slot, signalled, layout, terms>> /\ P' = P
      /\ kills' \in 0 .. MaxKills /\ faults' \in 0 .. MaxFaults
  BY DEF BeginCount, IInv, TypeOK, envVars
<1> DEFINE g == [G[i] EXCEPT !.pc = "count"]
           s == [shared[i] EXCEPT !.ready = FALSE]
<1>3. G' = [G EXCEPT ![i] = g] /\ shared' = [shared EXCEPT ![i] = s]
  BY <1>1 DEF BeginCount
<1>4. g \in ChildType /\ s \in SharedType /\ ChildIsUp(i)
  BY <1>1 DEF BeginCount, ChildType, SharedType, ChildIsUp, ChildUp
<1> HIDE DEF g, s
<1> QED
  BY <1>2, <1>3, <1>4, ChildOwn

\* The invariant holds on when the child has counted.
LEMMA EndCountStep ==
    ASSUME IInv, NEW i \in Instance, EndCount(i)
    PROVE  IInv' /\ Moved
<1>1. /\ G \in [Instance -> ChildType] /\ G[i] \in ChildType
      /\ shared \in [Instance -> SharedType] /\ shared[i] \in SharedType
  BY Typed
<1>2. /\ UNCHANGED <<mainVars, calls, slot, signalled, layout, terms>> /\ P' = P
      /\ kills' \in 0 .. MaxKills /\ faults' \in 0 .. MaxFaults
  BY DEF EndCount, IInv, TypeOK, envVars
<1> DEFINE g == IF G[i].flag THEN [G[i] EXCEPT !.pc = "run"] ELSE DeadChild("ok")
<1>3. G' = [G EXCEPT ![i] = g] /\ ChildIsUp(i)
  BY <1>1 DEF EndCount, ChildIsUp, ChildUp
<1>4. PICK found \in BOOLEAN :
          shared' = [shared EXCEPT ![i] = [ready |-> TRUE, errors |-> shared[i].errors \/ found]]
  BY <1>1 DEF EndCount
<1> DEFINE s == [ready |-> TRUE, errors |-> shared[i].errors \/ found]
<1>5. shared' = [shared EXCEPT ![i] = s]
  BY <1>4
<1>6. s \in SharedType
  <2>1. (shared[i].errors \/ found) \in BOOLEAN
    OBVIOUS
  <2> QED
    BY <2>1 DEF SharedType
<1>7. g \in ChildType
  BY <1>1, DeadChildFacts DEF ChildType, ChildUp
<1> HIDE DEF g, s
<1> QED
  BY <1>2, <1>3, <1>5, <1>6, <1>7, ChildOwn

\* The invariant holds on when the child stops.
LEMMA StopWorkingStep ==
    ASSUME IInv, NEW i \in Instance, StopWorking(i)
    PROVE  IInv' /\ Moved
<1>1. G \in [Instance -> ChildType] /\ G[i] \in ChildType
  BY Typed
<1>2. /\ UNCHANGED <<mainVars, statsVars, layout, terms>> /\ P' = P
      /\ kills' \in 0 .. MaxKills /\ faults' \in 0 .. MaxFaults
  BY DEF StopWorking, DeadChild, IInv, TypeOK, SetG, envVars
<1> DEFINE g == DeadChild("ok")
<1>3. G' = [G EXCEPT ![i] = g]
  BY <1>1 DEF StopWorking, DeadChild, SetG
<1>4. g \in ChildType /\ (g.pc \in ChildUp => G[i].pc \in ChildUp)
  BY DeadChildFacts DEF ChildUp
<1> HIDE DEF g
<1> QED
  BY <1>3, <1>4, <1>2, ChildQuiet

\* The invariant holds on when the child gives up.
LEMMA NoMemoryStep ==
    ASSUME IInv, NEW i \in Instance, NoMemory(i)
    PROVE  IInv' /\ Moved
<1>1. G \in [Instance -> ChildType] /\ G[i] \in ChildType
  BY Typed
<1>2. /\ UNCHANGED <<mainVars, statsVars, layout, terms>> /\ P' = P
      /\ kills' \in 0 .. MaxKills /\ faults' \in 0 .. MaxFaults
  BY DEF NoMemory, DeadChild, IInv, TypeOK, SetG, envVars
<1> DEFINE g == DeadChild("no_resource")
<1>3. G' = [G EXCEPT ![i] = g]
  BY <1>1 DEF NoMemory, DeadChild, SetG
<1>4. g \in ChildType /\ (g.pc \in ChildUp => G[i].pc \in ChildUp)
  BY DeadChildFacts DEF ChildUp
<1> HIDE DEF g
<1> QED
  BY <1>3, <1>4, <1>2, ChildQuiet

\* The invariant holds on when the child handles SIGALRM.
LEMMA HandleChildAlarmStep ==
    ASSUME IInv, NEW i \in Instance, HandleChildAlarm(i)
    PROVE  IInv' /\ Moved
<1>1. G \in [Instance -> ChildType] /\ G[i] \in ChildType
  BY Typed
<1>2. /\ UNCHANGED <<mainVars, statsVars, layout, terms>> /\ P' = P
      /\ kills' \in 0 .. MaxKills /\ faults' \in 0 .. MaxFaults
  BY DEF HandleChildAlarm, IInv, TypeOK, SetG, envVars
<1> DEFINE g == [G[i] EXCEPT !.flag = FALSE, !.pending = FALSE, !.timer = TRUE]
<1>3. G' = [G EXCEPT ![i] = g]
  BY <1>1 DEF HandleChildAlarm, SetG
<1>4. g \in ChildType /\ (g.pc \in ChildUp => G[i].pc \in ChildUp)
  BY <1>1 DEF HandleChildAlarm, SetG, ChildType, ChildUp, Status, ChildIsUp
<1> HIDE DEF g
<1> QED
  BY <1>3, <1>4, <1>2, ChildQuiet

\* The invariant holds on when the child's timer rings.
LEMMA ChildAgainRingsStep ==
    ASSUME IInv, NEW i \in Instance, ChildAgainRings(i)
    PROVE  IInv' /\ Moved
<1>1. G \in [Instance -> ChildType] /\ G[i] \in ChildType
  BY Typed
<1>2. /\ UNCHANGED <<mainVars, statsVars, layout, terms>> /\ P' = P
      /\ kills' \in 0 .. MaxKills /\ faults' \in 0 .. MaxFaults
  BY DEF ChildAgainRings, IInv, TypeOK, SetG, envVars
<1> DEFINE g == [G[i] EXCEPT !.timer = FALSE, !.pending = TRUE]
<1>3. G' = [G EXCEPT ![i] = g]
  BY <1>1 DEF ChildAgainRings, SetG
<1>4. g \in ChildType /\ (g.pc \in ChildUp => G[i].pc \in ChildUp)
  BY <1>1 DEF ChildAgainRings, SetG, ChildType, ChildUp, Status, ChildIsUp
<1> HIDE DEF g
<1> QED
  BY <1>3, <1>4, <1>2, ChildQuiet

\* The invariant holds on when the child faults.
LEMMA ChildFaultsStep ==
    ASSUME IInv, NEW i \in Instance, ChildFaults(i)
    PROVE  IInv' /\ Moved
<1>1. G \in [Instance -> ChildType] /\ G[i] \in ChildType
  BY Typed
<1>2. /\ UNCHANGED <<mainVars, statsVars, layout, terms>> /\ P' = P
      /\ kills' \in 0 .. MaxKills /\ faults' \in 0 .. MaxFaults
  BY StressRunAssumption DEF ChildFaults, DeadChild, IInv, TypeOK, SetG, envVars
<1> DEFINE g == DeadChild("fault")
<1>3. G' = [G EXCEPT ![i] = g]
  BY <1>1 DEF ChildFaults, DeadChild, SetG
<1>4. g \in ChildType /\ (g.pc \in ChildUp => G[i].pc \in ChildUp)
  BY DeadChildFacts DEF ChildUp
<1> HIDE DEF g
<1> QED
  BY <1>3, <1>4, <1>2, ChildQuiet

\* The invariant holds on when the child is killed.
LEMMA KillChildStep ==
    ASSUME IInv, NEW i \in Instance, KillChild(i)
    PROVE  IInv' /\ Moved
<1>1. G \in [Instance -> ChildType] /\ G[i] \in ChildType
  BY Typed
<1>2. /\ UNCHANGED <<mainVars, statsVars, layout, terms>> /\ P' = P
      /\ kills' \in 0 .. MaxKills /\ faults' \in 0 .. MaxFaults
  BY StressRunAssumption DEF KillChild, Kill, DeadChild, IInv, TypeOK, SetG, envVars
<1> DEFINE g == DeadChild("killed")
<1>3. G' = [G EXCEPT ![i] = g]
  BY <1>1 DEF KillChild, Kill, DeadChild, SetG
<1>4. g \in ChildType /\ (g.pc \in ChildUp => G[i].pc \in ChildUp)
  BY DeadChildFacts DEF ChildUp
<1> HIDE DEF g
<1> QED
  BY <1>3, <1>4, <1>2, ChildQuiet

\* The invariant holds on when a wait is interrupted.
LEMMA EscalateStep ==
    ASSUME IInv, NEW i \in Instance, Escalate(i)
    PROVE  IInv' /\ Moved
<1> DEFINE sig  == signals[P[i].idx]
           idx  == P[i].idx + 1
           next == [P[i] EXCEPT !.idx = idx, !.pc = "wait"]
           last == idx > Len(signals)
           here == IF last THEN Returned(i, next, "ok") ELSE next
           T    == IF sig = "SIGTERM" /\ ChildIsUp(i) THEN Targets(slot) ELSE {}
           aim  == [P EXCEPT ![i] = here]
           s    == IF last THEN [shared[i] EXCEPT !.ready = TRUE] ELSE shared[i]
           g    == IF ~ChildIsUp(i) THEN G[i]
                   ELSE CASE sig = "SIGALRM" -> [G[i] EXCEPT !.pending = TRUE]
                          [] sig = "SIGTERM" -> [G[i] EXCEPT !.flag = FALSE]
                          [] sig = "SIGKILL" -> DeadChild("killed")
<1>1. /\ P \in [Instance -> StressorType] /\ G \in [Instance -> ChildType]
      /\ P[i] \in StressorType /\ G[i] \in ChildType /\ FamilyOK(i) /\ CounterOK(i)
      /\ shared \in [Instance -> SharedType] /\ shared[i] \in SharedType
  BY Typed
<1>2. /\ UNCHANGED <<mainVars, layout, terms, calls, slot>>
      /\ kills' \in 0 .. MaxKills /\ faults' \in 0 .. MaxFaults
  BY DEF Escalate, IInv, TypeOK, envVars
<1>3. /\ P[i].pc = "interrupted"
      /\ P' = [k \in Instance |-> IF k \in T THEN Alarmed(aim[k]) ELSE aim[k]]
      /\ signalled' = [k \in Instance |-> signalled[k] \/ k \in T]
      /\ G' = [G EXCEPT ![i] = g]
      /\ shared' = [shared EXCEPT ![i] = s]
  <2>1. shared' = [shared EXCEPT ![i] = s]
    <3>1. CASE last
      BY <1>1, <3>1 DEF Escalate, SetCounter
    <3>2. CASE ~last
      BY <1>1, <3>2 DEF Escalate
    <3> QED
      BY <3>1, <3>2
  <2> QED
    BY <2>1 DEF Escalate
<1>4. P[i].idx \in 1 .. 6
  BY <1>1, <1>3 DEF FamilyOK, StressorType
<1>5. Len(signals) = 6 /\ sig \in {"SIGALRM", "SIGTERM", "SIGKILL"} /\ (idx = 7 => sig = "SIGKILL")
  BY <1>4 DEF signals
<1>6. /\ here \in StressorType /\ here.pc \in {"exit", "wait"}
      /\ here.idx = 7 => here.pc = "exit"
      /\ here.pc = "exit" => sig = "SIGKILL"
      /\ here.flag = P[i].flag /\ here.pending = P[i].pending
      /\ here.status \notin {"killed", "torn"}
      /\ s \in SharedType
      /\ here.pc = "exit" => s.ready /\ (s.errors => here.status = "failed")
  <2>1. idx \in 1 .. 7 /\ (last <=> idx = 7) /\ (last => sig = "SIGKILL")
    BY <1>4, <1>5
  <2> HIDE DEF sig, idx, last
  <2>2. P[i].status \in Status
    BY <1>1, <1>3 DEF FamilyOK, Struck, StressorType
  <2>3. /\ next \in StressorType /\ next.pc = "wait" /\ next.idx = idx
        /\ next.flag = P[i].flag /\ next.pending = P[i].pending /\ next.status = P[i].status
    BY <1>1, <2>1 DEF StressorType, StressorUp
  <2> HIDE DEF next
  <2>4. CASE last
    <3>1. here = [next EXCEPT !.pc = "exit",
                             !.status = IF shared[i].errors THEN "failed" ELSE "ok"]
      BY <2>4 DEF Returned
    <3>2. /\ here \in StressorType /\ here.pc = "exit" /\ here.idx = idx
          /\ here.flag = P[i].flag /\ here.pending = P[i].pending
          /\ here.status = IF shared[i].errors THEN "failed" ELSE "ok"
      BY <2>3, <3>1 DEF StressorType, StressorUp, Status
    <3>3. s \in SharedType /\ s.ready /\ s.errors = shared[i].errors
      BY <1>1, <2>4 DEF SharedType
    <3> QED
      BY <2>1, <2>4, <3>2, <3>3
  <2>5. CASE ~last
    <3>1. here = next /\ s = shared[i]
      BY <2>5
    <3> QED
      BY <1>1, <2>1, <2>2, <2>3, <2>5, <3>1 DEF Status
  <2> QED
    BY <2>4, <2>5
<1>7. ASSUME NEW k \in Instance, k \in T PROVE slot[k] = "pid" /\ ~signalled[k]
  BY <1>7 DEF Targets
<1>8. g \in ChildType /\ (g.pc \in ChildUp => G[i].pc \in ChildUp)
      /\ (sig = "SIGKILL" => g.pc \notin ChildUp)
  <2>1. CASE ~ChildIsUp(i)
    BY <1>1, <2>1 DEF ChildIsUp
  <2>2. CASE ChildIsUp(i) /\ sig = "SIGALRM"
    BY <1>1, <2>2 DEF ChildType, ChildIsUp
  <2>3. CASE ChildIsUp(i) /\ sig = "SIGTERM"
    BY <1>1, <2>3 DEF ChildType, ChildIsUp
  <2>4. CASE ChildIsUp(i) /\ sig = "SIGKILL"
    <3>1. g = DeadChild("killed")
      BY <2>4
    <3> QED
      BY <2>4, <3>1, DeadChildFacts DEF ChildUp
  <2> QED
    BY <1>5, <2>1, <2>2, <2>3, <2>4
<1> HIDE DEF T, g, s, sig, here
<1>9. ASSUME NEW k \in Instance
      PROVE  P'[k] \in StressorType /\ Kept(k) /\ FamilyOK(k)' /\ CounterOK(k)'
  <2>1. /\ P[k] \in StressorType /\ FamilyOK(k) /\ CounterOK(k)
        /\ slot[k] = "pid" => P[k].pc # "none"
        /\ signalled'[k] <=> signalled[k] \/ k \in T
    BY <1>1, <1>3 DEF IInv, Families, Bookkeeping, SlotOK
  <2>2. G'[k].pc \in ChildUp => G[k].pc \in ChildUp
    BY <1>1, <1>3, <1>8
  <2>3. CASE k = i
    <3>1. /\ P'[i] \in StressorType /\ P'[i].pc = here.pc /\ P'[i].idx = here.idx
          /\ P'[i].flag = here.flag /\ P'[i].status = here.status
          /\ P'[i].pending = here.pending \/ (P'[i].pending /\ i \in T)
          /\ i \in T => P'[i].pending
      <4>1. here \in StressorType /\ here.pc \in StressorUp
        BY <1>6 DEF StressorUp
      <4>2. P'[i] = IF i \in T THEN Alarmed(here) ELSE here
        BY <1>1, <1>3
      <4>3. CASE i \notin T
        BY <4>1, <4>2, <4>3
      <4>4. CASE i \in T
        <5>1. P'[i] = Alarmed(here)
          BY <4>2, <4>4
        <5> QED
          BY <4>1, <4>4, <5>1, AlarmedFacts
      <4> QED
        BY <4>3, <4>4
    <3>2. Kept(i)
      BY <1>3, <1>6, <2>1, <2>2, <2>3, <3>1 DEF Kept, Told, StressorUp
    <3>3. G'[i].pc = g.pc
      BY <1>1, <1>3
    <3>4. FamilyOK(i)'
      BY <1>3, <1>6, <1>8, <2>1, <2>3, <3>1, <3>3 DEF FamilyOK, Struck, ChildIsUp
    <3>5. shared'[i] = s
      BY <1>1, <1>3
    <3>6. CounterOK(i)'
      BY <1>6, <3>1, <3>5 DEF CounterOK, Failing, StressorUp
    <3> QED
      BY <2>3, <3>1, <3>2, <3>4, <3>6
  <2>4. CASE k # i
    <3>1. /\ P'[k] \in StressorType /\ P'[k].pc = P[k].pc /\ P'[k].idx = P[k].idx
          /\ P'[k].flag = P[k].flag /\ P'[k].status = P[k].status
          /\ P'[k].pending = P[k].pending \/ P'[k].pending
          /\ k \in T /\ P[k].pc \in StressorUp => P'[k].pending
      <4>1. P'[k] = IF k \in T THEN Alarmed(P[k]) ELSE P[k]
        BY <1>1, <1>3, <2>4
      <4>2. CASE k \notin T
        BY <2>1, <4>1, <4>2
      <4>3. CASE k \in T
        <5>1. P'[k] = Alarmed(P[k])
          BY <4>1, <4>3
        <5> QED
          BY <2>1, <4>3, <5>1, AlarmedFacts
      <4> QED
        BY <4>2, <4>3
    <3>2. G'[k] = G[k] /\ shared'[k] = shared[k]
      BY <1>1, <1>3, <2>4
    <3>3. Kept(k)
      BY <1>7, <2>1, <3>1, <3>2 DEF Kept, Told
    <3>4. FamilyOK(k)'
      BY <2>1, <3>1, <3>2 DEF FamilyOK, Struck, ChildIsUp
    <3>5. CounterOK(k)'
      BY <2>1, <3>1, <3>2 DEF CounterOK, Failing, Struck
    <3> QED
      BY <3>1, <3>3, <3>4, <3>5
  <2> QED
    BY <2>3, <2>4
<1>10. P' \in [Instance -> StressorType] /\ G' \in [Instance -> ChildType]
  BY <1>1, <1>3, <1>8, <1>9
<1>11. signalled' \in [Instance -> BOOLEAN]
  BY <1>3 DEF IInv, TypeOK
<1>12. TypeOK'
  <2>1. shared' \in [Instance -> SharedType]
    BY <1>1, <1>3, <1>6
  <2> QED
    BY <1>2, <1>10, <1>11, <2>1 DEF IInv, TypeOK, StressorType, ChildType, SharedType, mainVars
<1>13. Bookkeeping'
  BY <1>2, <1>9, KeptBooks DEF IInv, mainVars
<1>14. Moved
  BY <1>2, <1>9, KeptMoves DEF IInv, mainVars, MainUp
<1> QED
  BY <1>9, <1>12, <1>13, <1>14 DEF IInv, Families

-----------------------------------------------------------------------------
(* Signals to the main process, its death, and init.                       *)

\* Once the books are closed little has to be shown of a slot.
LEMMA OutOfTheBooks ==
    ASSUME NEW k \in Instance, SlotOK(k), StopOK(k), Kept(k), ~Working', slot' = slot
    PROVE  SlotOK(k)' /\ StopOK(k)'
<1>1. SlotOK(k)'
  BY KeptStays DEF SlotOK, Forking, Working
<1>2. signalled'[k] => P'[k].pc # "none"
  BY KeptStays DEF StopOK, Kept
<1>3. signalled'[k] /\ P'[k].pc \in StressorUp => Told(k)'
  BY KeptStays DEF StopOK, Kept, Up
<1> QED
  BY <1>1, <1>2, <1>3 DEF StopOK, Up, Working

\* The invariant holds on when the run is told to end.
LEMMA TerminateStep ==
    ASSUME IInv, Terminate
    PROVE  IInv' /\ Moved
<1>1. /\ TypeOK /\ Families /\ Bookkeeping /\ shared' = shared
      /\ stress_kill_stressors(slot, TRUE)
  BY DEF IInv, Terminate
<1>2. /\ calls' \in 0 .. SigkillAfter + 1 /\ signalled' \in [Instance -> BOOLEAN]
      /\ P' \in [Instance -> StressorType] /\ G' \in [Instance -> ChildType]
      /\ Families' /\ \A k \in Instance : Kept(k)
      /\ Working => \A k \in Instance : Up(k)' => Told(k)' \/ Forking(k)
  BY <1>1, Killing
<1>3. UNCHANGED <<mpc, j, exitcode, credit, slot>> /\ mflag' = FALSE
  BY DEF Terminate
<1>4. Bookkeeping'
  <2>1. CASE Working
    BY <1>1, <1>2, <1>3, <2>1, KeptBooks DEF Forking
  <2>2. CASE ~Working
    <3>1. ForkOrder' /\ WaitedFor' /\ CodeOK' /\ CreditedToItsOwn'
      BY <1>1, <1>3, <2>2 DEF ForkOrder, WaitedFor, CodeOK, CreditedToItsOwn, Working, Bookkeeping
    <3>2. ASSUME NEW k \in Instance PROVE SlotOK(k)' /\ StopOK(k)'
      BY <1>1, <1>2, <1>3, <2>2, OutOfTheBooks DEF Bookkeeping, Working
    <3> QED
      BY <3>1, <3>2 DEF Bookkeeping
  <2> QED
    BY <2>1, <2>2
<1>5. terms' \in 0 .. MaxTerms
  BY <1>1, StressRunAssumption DEF Terminate, TypeOK
<1>6. TypeOK'
  <2>1. UNCHANGED <<layout, kills, faults>>
    BY DEF Terminate
  <2> QED
    BY <1>1, <1>2, <1>3, <1>5, <2>1 DEF TypeOK, StressorType, ChildType
<1>7. Moved
  BY <1>1, <1>2, <1>3, KeptMoves DEF MainUp
<1> QED
  BY <1>2, <1>4, <1>6, <1>7 DEF IInv

\* The invariant holds on when a fatal signal is handled.
LEMMA FatalSignalStep ==
    ASSUME IInv, FatalSignal
    PROVE  IInv' /\ Moved
<1>1. /\ TypeOK /\ Families /\ Bookkeeping /\ shared' = shared
      /\ stress_kill_stressors(slot, TRUE)
  BY DEF IInv, FatalSignal
<1>2. /\ calls' \in 0 .. SigkillAfter + 1 /\ signalled' \in [Instance -> BOOLEAN]
      /\ P' \in [Instance -> StressorType] /\ G' \in [Instance -> ChildType]
      /\ Families' /\ \A k \in Instance : Kept(k)
      /\ Working => \A k \in Instance : Up(k)' => Told(k)' \/ Forking(k)
  BY <1>1, Killing
<1>3. UNCHANGED <<j, exitcode, credit, slot>> /\ mflag' = FALSE /\ mpc' = "aborting"
  BY DEF FatalSignal, Goto
<1>4. Bookkeeping'
  <2>1. ForkOrder' /\ WaitedFor' /\ CodeOK' /\ CreditedToItsOwn'
    BY <1>1, <1>3 DEF ForkOrder, WaitedFor, CodeOK, CreditedToItsOwn, Working, Bookkeeping
  <2>2. ASSUME NEW k \in Instance PROVE SlotOK(k)' /\ StopOK(k)'
    BY <1>1, <1>2, <1>3, OutOfTheBooks DEF Bookkeeping, Working
  <2> QED
    BY <2>1, <2>2 DEF Bookkeeping
<1>5. terms' \in 0 .. MaxTerms
  BY <1>1, StressRunAssumption DEF FatalSignal, Goto, TypeOK
<1>6. TypeOK'
  <2>1. UNCHANGED <<layout, kills, faults>>
    BY DEF FatalSignal, Goto
  <2> QED
    BY <1>1, <1>2, <1>3, <1>5, <2>1 DEF TypeOK, StressorType, ChildType
<1>7. Moved
  <2>1. MainUp /\ MainUp'
    BY <1>3 DEF FatalSignal, MainUp
  <2> QED
    BY <1>1, <1>2, <1>3, <2>1, KeptMoves DEF MainUp
<1> QED
  BY <1>2, <1>4, <1>6, <1>7 DEF IInv

\* The main process dies, by SIGKILL or of a fatal signal.
LEMMA MainDiesStep ==
    ASSUME IInv, MainUp, NEW pc \in {"aborted", "killed"}, MainDies(pc),
           UNCHANGED <<layout, terms, faults>>, kills' \in 0 .. MaxKills
    PROVE  IInv' /\ Moved
<1>1. /\ P \in [Instance -> StressorType] /\ G \in [Instance -> ChildType]
      /\ TypeOK /\ Families /\ Bookkeeping
  BY DEF IInv, TypeOK, StressorType, ChildType
<1>2. ASSUME NEW k \in Instance
      PROVE  /\ P'[k] \in StressorType /\ P'[k].pc = P[k].pc /\ P'[k].idx = P[k].idx
             /\ P'[k].flag = P[k].flag /\ P'[k].status = P[k].status
             /\ P[k].pending => P'[k].pending
  <2>1. P[k] \in StressorType
    BY <1>1
  <2>2. P'[k] = P[k] \/ P'[k] = [P[k] EXCEPT !.pending = TRUE]
    BY DEF MainDies, Alarmed
  <2> QED
    BY <2>1, <2>2 DEF StressorType
<1>3. /\ UNCHANGED <<slot, signalled, shared, G, layout, terms, faults>>
      /\ mpc' = pc /\ j' = 1 /\ mflag' = FALSE /\ calls' = 0 /\ exitcode' = "ok"
      /\ credit' = [k \in Instance |-> 0]
  BY DEF MainDies
<1>4. P' \in [Instance -> StressorType]
  BY <1>2 DEF MainDies
<1>6. TypeOK'
  <2>1. mpc' \in {"aborted", "killed"} /\ j' \in 1 .. N + 1 /\ calls' \in 0 .. SigkillAfter + 1
    BY <1>3, StressRunAssumption
  <2>2. credit' \in [Instance -> 0 .. N]
    BY <1>3, StressRunAssumption
  <2>3. mflag' \in BOOLEAN /\ exitcode' \in Status
    BY <1>3 DEF Status
  <2> QED
    BY <1>1, <1>3, <1>4, <2>1, <2>2, <2>3 DEF TypeOK, StressorType, ChildType
<1>7. ASSUME NEW k \in Instance PROVE FamilyOK(k)' /\ CounterOK(k)'
  BY <1>1, <1>2, <1>3 DEF Families, FamilyOK, CounterOK, Failing, Struck, ChildIsUp
<1>8. ASSUME NEW k \in Instance PROVE SlotOK(k)' /\ StopOK(k)'
  <2>1. SlotOK(k) /\ StopOK(k)
    BY <1>1 DEF Bookkeeping
  <2> QED
    BY <1>2, <1>3, <2>1 DEF SlotOK, StopOK, Forking, Told, Up, MainUp, Working
<1>9. ForkOrder' /\ WaitedFor' /\ CodeOK' /\ CreditedToItsOwn'
  BY <1>3 DEF ForkOrder, WaitedFor, CodeOK, Working, CreditedToItsOwn
<1>10. Moved
  <2>1. Loaded' => Loaded
    BY <1>2, <1>3 DEF Loaded, Up, ChildIsUp
  <2> QED
    BY <1>3, <2>1 DEF Moved, Stricken, MainUp
<1> QED
  BY <1>6, <1>7, <1>8, <1>9, <1>10 DEF IInv, Families, Bookkeeping

\* The invariant holds on when the main process is killed ...
LEMMA KillMainStep ==
    ASSUME IInv, KillMain
    PROVE  IInv' /\ Moved
<1>1. kills' \in 0 .. MaxKills
  BY StressRunAssumption DEF IInv, TypeOK, KillMain, Kill
<1> QED
  BY <1>1, MainDiesStep DEF KillMain, Kill

\* ... and when its handler exits after a fatal signal.
LEMMA AbortStep ==
    ASSUME IInv, Abort
    PROVE  IInv' /\ Moved
<1>1. MainUp /\ kills' \in 0 .. MaxKills
  BY DEF IInv, TypeOK, Abort, MainUp, envVars
<1> QED
  BY <1>1, MainDiesStep DEF Abort, envVars

\* The invariant holds on when init reaps a stressor or a child.
LEMMA InitReapsStep ==
    ASSUME IInv, NEW i \in Instance, InitReaps(i)
    PROVE  IInv' /\ Moved
<1>1. /\ P \in [Instance -> StressorType] /\ G \in [Instance -> ChildType]
      /\ P[i] \in StressorType /\ TypeOK /\ Families /\ Bookkeeping
  BY DEF IInv, TypeOK, StressorType, ChildType
<1>2. CASE ~MainUp /\ P[i].pc = "zombie" /\ StressorOnly(i, "gone")
  <2>1. /\ UNCHANGED <<mainVars, envVars, statsVars, G>>
        /\ P' = [P EXCEPT ![i] = [P[i] EXCEPT !.pc = "gone"]]
    BY <1>2 DEF StressorOnly, SetP
  <2>2. mpc \in {"aborted", "killed"}
    BY <1>1, <1>2 DEF MainUp, Bookkeeping, WaitedFor, Reapable
  <2>3. P' \in [Instance -> StressorType]
    BY <1>1, <2>1 DEF StressorType
  <2>4. TypeOK'
    BY <1>1, <2>1, <2>3 DEF TypeOK, StressorType, ChildType, mainVars, envVars, statsVars
  <2>5. ASSUME NEW k \in Instance
        PROVE  FamilyOK(k)' /\ CounterOK(k)' /\ SlotOK(k)' /\ StopOK(k)'
    <3>1. FamilyOK(k) /\ CounterOK(k) /\ SlotOK(k) /\ StopOK(k)
      BY <1>1 DEF Families, Bookkeeping
    <3>2. CASE k # i
      <4>1. /\ P'[k] = P[k] /\ G' = G /\ slot' = slot /\ signalled' = signalled /\ mpc' = mpc
            /\ shared' = shared
        BY <1>1, <2>1, <3>2 DEF mainVars, statsVars
      <4> QED
        BY <2>2, <3>1, <4>1 DEF Working, FamilyOK, CounterOK, Failing, SlotOK, StopOK, Forking,
           Struck, ChildIsUp, Told, Up, MainUp
    <3>3. CASE k = i
      <4>1. /\ P'[i].pc = "gone" /\ P'[i].status = P[i].status /\ P'[i].idx = P[i].idx
            /\ G' = G /\ slot' = slot /\ signalled' = signalled /\ mpc' = mpc
            /\ shared' = shared
        BY <1>1, <2>1 DEF mainVars, statsVars, StressorType
      <4> QED
        BY <1>2, <2>2, <3>1, <3>3, <4>1 DEF Working, FamilyOK, CounterOK, Failing, SlotOK, StopOK,
           Forking, Struck, ChildIsUp, Up, StressorUp
    <3> QED
      BY <3>2, <3>3
  <2>6. ForkOrder' /\ WaitedFor' /\ CodeOK' /\ CreditedToItsOwn'
    BY <1>1, <2>1, <2>2 DEF mainVars, statsVars, ForkOrder, WaitedFor, CodeOK, Working,
       Bookkeeping, CreditedToItsOwn
  <2>7. Moved
    <3>1. ASSUME NEW k \in Instance
          PROVE  (Up(k)' => Up(k)) /\ (ChildIsUp(k)' => ChildIsUp(k)) /\ (Struck(k) <=> Struck(k)')
      <4>1. P'[k] = P[k] \/ P'[k] = [P[k] EXCEPT !.pc = "gone"]
        BY <1>1, <2>1
      <4>2. P[k] \in StressorType
        BY <1>1
      <4> QED
        BY <2>1, <4>1, <4>2 DEF Up, ChildIsUp, Struck, StressorUp, StressorType
    <3>2. (Loaded' => Loaded) /\ (Stricken' <=> Stricken) /\ (MainUp' <=> MainUp)
      BY <2>1, <3>1 DEF Loaded, Stricken, MainUp, mainVars
    <3> QED
      BY <3>2 DEF Moved
  <2> QED
    BY <2>4, <2>5, <2>6, <2>7 DEF IInv, Families, Bookkeeping
<1>3. CASE SetG(i, NoChild)
  <2>1. NoChild \in ChildType /\ NoChild.pc \notin ChildUp
    BY DEF NoChild, ChildType, ChildUp
  <2>2. /\ UNCHANGED <<mainVars, statsVars, layout, terms>> /\ P' = P
        /\ kills' \in 0 .. MaxKills /\ faults' \in 0 .. MaxFaults /\ G' = [G EXCEPT ![i] = NoChild]
    BY <1>1, <1>3 DEF SetG, envVars, TypeOK
  <2> QED
    BY <2>1, <2>2, ChildQuiet
<1> QED
  BY <1>2, <1>3 DEF InitReaps

-----------------------------------------------------------------------------
(* The steps of the main process.                                          *)

\* A step of the main process that leaves the stressors alone.
LEMMA MainOnly ==
    ASSUME IInv, P' = P, G' = G, Working, Working', mpc # "exited",
           \A k \in Instance : /\ shared[k].ready => shared'[k].ready
                               /\ shared'[k].errors = shared[k].errors
    PROVE  /\ Families' /\ (exitcode' = exitcode /\ mpc' # "exited" => CodeOK')
           /\ P' \in [Instance -> StressorType] /\ G' \in [Instance -> ChildType]
<1>1. ASSUME NEW s PROVE Ended(s)' = Ended(s)
  BY DEF Ended
<1>2. Worst' = Worst
  BY <1>1 DEF Worst
<1>3. Families'
  BY DEF IInv, Families, FamilyOK, CounterOK, Failing, Struck, ChildIsUp
<1>4. exitcode = Worst
  BY DEF IInv, Bookkeeping, CodeOK
<1> QED
  BY <1>2, <1>3, <1>4 DEF IInv, TypeOK, StressorType, ChildType, CodeOK

\* What is known where such a step begins.
LEMMA Known ==
    ASSUME IInv
    PROVE  /\ TypeOK /\ ForkOrder /\ WaitedFor /\ CodeOK /\ CreditedToItsOwn /\ Bookkeeping
           /\ Families
           /\ \A k \in Instance : SlotOK(k) /\ StopOK(k) /\ FamilyOK(k) /\ CounterOK(k)
           /\ N \in Nat \ {0} /\ j \in 1 .. N + 1
           /\ slot \in [Instance -> {"zero", "minus_one", "pid"}]
           /\ shared \in [Instance -> SharedType]
BY StressRunAssumption DEF IInv, Bookkeeping, Families, TypeOK, SharedType

\* The invariant holds on when the main process turns to an instance.
LEMMA NextInstanceStep ==
    ASSUME IInv, NextInstance
    PROVE  IInv' /\ Moved
<1> USE DEF NextInstance, AfterEntry, Goto, statsVars, envVars
<1>1. /\ TypeOK /\ ForkOrder /\ WaitedFor /\ CreditedToItsOwn
      /\ \A k \in Instance : SlotOK(k) /\ StopOK(k)
      /\ N \in Nat \ {0} /\ j \in 1 .. N + 1 /\ slot \in [Instance -> {"zero", "minus_one", "pid"}]
  BY Known
<1>2. Working /\ Working' /\ P' = P /\ G' = G /\ j <= N /\ mpc # "exited"
  BY <1>1 DEF ForkOrder, Working
<1>10. /\ shared' \in [Instance -> SharedType]
       /\ mpc' = "fork" => shared'[j'].ready
       /\ \A k \in Instance : /\ shared[k].ready => shared'[k].ready
                             /\ shared'[k].errors = shared[k].errors
  <2>1. shared \in [Instance -> SharedType] /\ j \in Instance
    BY <1>1, <1>2, Known DEF Instance
  <2>2. shared' = [shared EXCEPT ![j] = [shared[j] EXCEPT !.ready = TRUE]]
    BY <2>1
  <2>3. [shared[j] EXCEPT !.ready = TRUE] \in SharedType
    BY <2>1 DEF SharedType
  <2>4. /\ [shared[j] EXCEPT !.ready = TRUE].ready
        /\ [shared[j] EXCEPT !.ready = TRUE].errors = shared[j].errors
    BY <2>1 DEF SharedType
  <2> QED
    BY <2>1, <2>2, <2>3, <2>4
<1>3. /\ Families' /\ CodeOK' /\ CreditedToItsOwn'
      /\ P' \in [Instance -> StressorType] /\ G' \in [Instance -> ChildType]
  BY <1>1, <1>2, <1>10, MainOnly DEF CreditedToItsOwn
<1>4. TypeOK'
  BY <1>1, <1>2, <1>3, <1>10 DEF TypeOK, StressorType, ChildType, SharedType, Instance
<1>5. ForkOrder'
  BY <1>1, <1>2, <1>10 DEF ForkOrder, Instance
<1>6. WaitedFor'
  BY <1>1, <1>2 DEF WaitedFor, Reapable, Instance, SlotOK, Forking, Working
<1>7. ASSUME NEW k \in Instance PROVE SlotOK(k)'
  BY <1>1, <1>2 DEF SlotOK, Reapable, Forking, ForkOrder, WaitedFor, Working, Instance
<1>8. ASSUME NEW k \in Instance PROVE StopOK(k)'
  BY <1>1, <1>2 DEF StopOK, Told, Up, MainUp, Working, SlotOK, ForkOrder
<1>9. Moved
  BY <1>2, MainMoves DEF MainUp
<1> QED
  BY <1>3, <1>4, <1>5, <1>6, <1>7, <1>8, <1>9 DEF IInv, Bookkeeping

\* The invariant holds on when the wait loop begins.
LEMMA StartWaitingStep ==
    ASSUME IInv, StartWaiting
    PROVE  IInv' /\ Moved
<1> USE DEF StartWaiting, Goto, statsVars, envVars
<1>1. /\ TypeOK /\ ForkOrder /\ WaitedFor /\ CreditedToItsOwn
      /\ \A k \in Instance : SlotOK(k) /\ StopOK(k)
      /\ N \in Nat \ {0} /\ j \in 1 .. N + 1 /\ slot \in [Instance -> {"zero", "minus_one", "pid"}]
  BY Known
<1>2. Working /\ Working' /\ P' = P /\ G' = G /\ j = N + 1 /\ mpc # "exited" /\ shared' = shared
  BY <1>1 DEF ForkOrder, Working
<1>3. /\ Families' /\ CodeOK' /\ CreditedToItsOwn'
      /\ P' \in [Instance -> StressorType] /\ G' \in [Instance -> ChildType]
  BY <1>1, <1>2, MainOnly DEF CreditedToItsOwn
<1>4. TypeOK'
  BY <1>1, <1>2, <1>3 DEF TypeOK, StressorType, ChildType, SharedType, Instance
<1>5. ForkOrder'
  BY <1>1, <1>2 DEF ForkOrder, Instance
<1>6. WaitedFor'
  BY <1>1, <1>2 DEF WaitedFor, Reapable, Instance, SlotOK, Forking, Working
<1>7. ASSUME NEW k \in Instance PROVE SlotOK(k)'
  BY <1>1, <1>2 DEF SlotOK, Reapable, Forking, ForkOrder, WaitedFor, Working, Instance
<1>8. ASSUME NEW k \in Instance PROVE StopOK(k)'
  BY <1>1, <1>2 DEF StopOK, Told, Up, MainUp, Working, SlotOK, ForkOrder
<1>9. Moved
  BY <1>2, MainMoves DEF MainUp
<1> QED
  BY <1>3, <1>4, <1>5, <1>6, <1>7, <1>8, <1>9 DEF IInv, Bookkeeping

\* The invariant holds on when a fork is to be tried again.
LEMMA ForkAgainStep ==
    ASSUME IInv, ForkAgain
    PROVE  IInv' /\ Moved
<1> USE DEF ForkAgain, Goto, statsVars, envVars
<1>1. /\ TypeOK /\ ForkOrder /\ WaitedFor /\ CreditedToItsOwn
      /\ \A k \in Instance : SlotOK(k) /\ StopOK(k)
      /\ N \in Nat \ {0} /\ j \in 1 .. N + 1 /\ slot \in [Instance -> {"zero", "minus_one", "pid"}]
  BY Known
<1>2. Working /\ Working' /\ P' = P /\ G' = G /\ j <= N /\ mpc # "exited" /\ shared' = shared
  BY <1>1 DEF ForkOrder, Working
<1>3. /\ Families' /\ CodeOK' /\ CreditedToItsOwn'
      /\ P' \in [Instance -> StressorType] /\ G' \in [Instance -> ChildType]
  BY <1>1, <1>2, MainOnly DEF CreditedToItsOwn
<1>4. TypeOK'
  BY <1>1, <1>2, <1>3 DEF TypeOK, StressorType, ChildType, SharedType, Instance
<1>5. ForkOrder'
  BY <1>1, <1>2 DEF ForkOrder, Instance
<1>6. WaitedFor'
  BY <1>1, <1>2 DEF WaitedFor, Reapable, Instance, SlotOK, Forking, Working
<1>7. ASSUME NEW k \in Instance PROVE SlotOK(k)'
  BY <1>1, <1>2 DEF SlotOK, Reapable, Forking, ForkOrder, WaitedFor, Working, Instance
<1>8. ASSUME NEW k \in Instance PROVE StopOK(k)'
  BY <1>1, <1>2 DEF StopOK, Told, Up, MainUp, Working, SlotOK, ForkOrder
<1>9. Moved
  BY <1>2, MainMoves DEF MainUp
<1> QED
  BY <1>3, <1>4, <1>5, <1>6, <1>7, <1>8, <1>9 DEF IInv, Bookkeeping

\* The invariant holds on when a pid enters the table.
LEMMA RecordPidStep ==
    ASSUME IInv, RecordPid
    PROVE  IInv' /\ Moved
<1> USE DEF RecordPid, Goto, statsVars, envVars
<1>1. /\ TypeOK /\ ForkOrder /\ WaitedFor /\ CreditedToItsOwn
      /\ \A k \in Instance : SlotOK(k) /\ StopOK(k)
      /\ N \in Nat \ {0} /\ j \in 1 .. N + 1 /\ slot \in [Instance -> {"zero", "minus_one", "pid"}]
  BY Known
<1>2. Working /\ Working' /\ P' = P /\ G' = G /\ j <= N /\ mpc # "exited" /\ shared' = shared
  BY <1>1 DEF ForkOrder, Working
<1>3. /\ Families' /\ CodeOK' /\ CreditedToItsOwn'
      /\ P' \in [Instance -> StressorType] /\ G' \in [Instance -> ChildType]
  BY <1>1, <1>2, MainOnly DEF CreditedToItsOwn
<1>4. TypeOK'
  BY <1>1, <1>2, <1>3 DEF TypeOK, StressorType, ChildType, SharedType, Instance
<1>5. ForkOrder'
  BY <1>1, <1>2 DEF ForkOrder, Instance
<1>6. WaitedFor'
  BY <1>1, <1>2 DEF WaitedFor, Reapable, Instance, SlotOK, Forking, Working
<1>7. ASSUME NEW k \in Instance PROVE SlotOK(k)'
  BY <1>1, <1>2 DEF SlotOK, Reapable, Forking, ForkOrder, WaitedFor, Working, Instance
<1>8. ASSUME NEW k \in Instance PROVE StopOK(k)'
  BY <1>1, <1>2 DEF StopOK, Told, Up, MainUp, Working, SlotOK, ForkOrder
<1>9. Moved
  BY <1>2, MainMoves DEF MainUp
<1> QED
  BY <1>3, <1>4, <1>5, <1>6, <1>7, <1>8, <1>9 DEF IInv, Bookkeeping

\* The invariant holds on when there is nobody to wait for.
LEMMA NoSuchChildStep ==
    ASSUME IInv, NoSuchChild
    PROVE  IInv' /\ Moved
<1> USE DEF NoSuchChild, Awaited, Goto, statsVars, envVars
<1>1. /\ TypeOK /\ ForkOrder /\ WaitedFor /\ CreditedToItsOwn
      /\ \A k \in Instance : SlotOK(k) /\ StopOK(k)
      /\ N \in Nat \ {0} /\ j \in 1 .. N + 1 /\ slot \in [Instance -> {"zero", "minus_one", "pid"}]
  BY Known
<1>2. Working /\ Working' /\ P' = P /\ G' = G /\ j <= N /\ mpc # "exited" /\ shared' = shared
  BY <1>1 DEF ForkOrder, Working
<1>3. /\ Families' /\ CodeOK' /\ CreditedToItsOwn'
      /\ P' \in [Instance -> StressorType] /\ G' \in [Instance -> ChildType]
  BY <1>1, <1>2, MainOnly DEF CreditedToItsOwn
<1>4. TypeOK'
  BY <1>1, <1>2, <1>3 DEF TypeOK, StressorType, ChildType, SharedType, Instance
<1>5. ForkOrder'
  BY <1>1, <1>2 DEF ForkOrder, Instance
<1>6. WaitedFor'
  BY <1>1, <1>2 DEF WaitedFor, Reapable, Instance, SlotOK, Forking, Working
<1>7. ASSUME NEW k \in Instance PROVE SlotOK(k)'
  BY <1>1, <1>2 DEF SlotOK, Reapable, Forking, ForkOrder, WaitedFor, Working, Instance
<1>8. ASSUME NEW k \in Instance PROVE StopOK(k)'
  BY <1>1, <1>2 DEF StopOK, Told, Up, MainUp, Working, SlotOK, ForkOrder
<1>9. Moved
  BY <1>2, MainMoves DEF MainUp
<1> QED
  BY <1>3, <1>4, <1>5, <1>6, <1>7, <1>8, <1>9 DEF IInv, Bookkeeping

\* The invariant holds on when a slot is empty.
LEMMA NothingToWaitForStep ==
    ASSUME IInv, NothingToWaitFor
    PROVE  IInv' /\ Moved
<1> USE DEF NothingToWaitFor, Goto, statsVars, envVars
<1>1. /\ TypeOK /\ ForkOrder /\ WaitedFor /\ CreditedToItsOwn
      /\ \A k \in Instance : SlotOK(k) /\ StopOK(k)
      /\ N \in Nat \ {0} /\ j \in 1 .. N + 1 /\ slot \in [Instance -> {"zero", "minus_one", "pid"}]
  BY Known
<1>2. Working /\ Working' /\ P' = P /\ G' = G /\ j <= N /\ mpc # "exited" /\ shared' = shared
  BY <1>1 DEF ForkOrder, Working
<1>3. /\ Families' /\ CodeOK' /\ CreditedToItsOwn'
      /\ P' \in [Instance -> StressorType] /\ G' \in [Instance -> ChildType]
  BY <1>1, <1>2, MainOnly DEF CreditedToItsOwn
<1>4. TypeOK'
  BY <1>1, <1>2, <1>3 DEF TypeOK, StressorType, ChildType, SharedType, Instance
<1>5. ForkOrder'
  BY <1>1, <1>2 DEF ForkOrder, Instance
<1>6. WaitedFor'
  BY <1>1, <1>2 DEF WaitedFor, Reapable, Instance, SlotOK, Forking, Working
<1>7. ASSUME NEW k \in Instance PROVE SlotOK(k)'
  BY <1>1, <1>2 DEF SlotOK, Reapable, Forking, ForkOrder, WaitedFor, Working, Instance
<1>8. ASSUME NEW k \in Instance PROVE StopOK(k)'
  BY <1>1, <1>2 DEF StopOK, Told, Up, MainUp, Working, SlotOK, ForkOrder
<1>9. Moved
  BY <1>2, MainMoves DEF MainUp
<1> QED
  BY <1>3, <1>4, <1>5, <1>6, <1>7, <1>8, <1>9 DEF IInv, Bookkeeping

\* The invariant holds on when a slot is emptied.
LEMMA stress_stressor_finishedStep ==
    ASSUME IInv, stress_stressor_finished
    PROVE  IInv' /\ Moved
<1> USE DEF stress_stressor_finished, Goto, statsVars, envVars
<1>1. /\ TypeOK /\ ForkOrder /\ WaitedFor /\ CreditedToItsOwn
      /\ \A k \in Instance : SlotOK(k) /\ StopOK(k)
      /\ N \in Nat \ {0} /\ j \in 1 .. N + 1 /\ slot \in [Instance -> {"zero", "minus_one", "pid"}]
  BY Known
<1>2. Working /\ Working' /\ P' = P /\ G' = G /\ j <= N /\ mpc # "exited" /\ shared' = shared
  BY <1>1 DEF ForkOrder, Working
<1>3. /\ Families' /\ CodeOK' /\ CreditedToItsOwn'
      /\ P' \in [Instance -> StressorType] /\ G' \in [Instance -> ChildType]
  BY <1>1, <1>2, MainOnly DEF CreditedToItsOwn
<1>4. TypeOK'
  BY <1>1, <1>2, <1>3, SMTT(20) DEF TypeOK, StressorType, ChildType, SharedType, Instance
<1>5. ForkOrder'
  BY <1>1, <1>2 DEF ForkOrder, Instance
<1>6. WaitedFor'
  BY <1>1, <1>2 DEF WaitedFor, Reapable, Instance, SlotOK, Forking, Working
<1>7. ASSUME NEW k \in Instance PROVE SlotOK(k)'
  BY <1>1, <1>2 DEF SlotOK, Reapable, Forking, ForkOrder, WaitedFor, Working, Instance
<1>8. ASSUME NEW k \in Instance PROVE StopOK(k)'
  BY <1>1, <1>2 DEF StopOK, Told, Up, MainUp, Working, SlotOK, ForkOrder
<1>9. Moved
  BY <1>2, MainMoves DEF MainUp
<1> QED
  BY <1>3, <1>4, <1>5, <1>6, <1>7, <1>8, <1>9 DEF IInv, Bookkeeping

\* The invariant holds on when the main process exits.
LEMMA ExitStep ==
    ASSUME IInv, Exit
    PROVE  IInv' /\ Moved
<1> USE DEF Exit, Goto, statsVars, envVars
<1>1. /\ TypeOK /\ ForkOrder /\ WaitedFor /\ CreditedToItsOwn
      /\ \A k \in Instance : SlotOK(k) /\ StopOK(k)
      /\ N \in Nat \ {0} /\ j \in 1 .. N + 1 /\ slot \in [Instance -> {"zero", "minus_one", "pid"}]
  BY Known
<1>2. Working /\ Working' /\ P' = P /\ G' = G /\ j = N + 1 /\ mpc # "exited" /\ shared' = shared
  BY <1>1 DEF ForkOrder, Working
<1>3. /\ Families' /\ CodeOK' /\ CreditedToItsOwn'
      /\ P' \in [Instance -> StressorType] /\ G' \in [Instance -> ChildType]
  <2>1. Families' /\ P' \in [Instance -> StressorType] /\ G' \in [Instance -> ChildType]
    BY <1>2, MainOnly
  <2>2. ASSUME NEW s PROVE Ended(s)' = Ended(s)
    BY <1>2 DEF Ended
  <2>3. Worst' = Worst /\ exitcode = Worst
    BY <1>1, <1>2, <2>2, Known DEF Worst, CodeOK
  <2>4. Corrupted <=> Ended("torn")
    <3>1. ASSUME NEW k \in Instance, P[k].status = "torn" PROVE P[k].pc = "gone"
      BY <1>1, <1>2, <3>1, Known DEF FamilyOK, Struck, WaitedFor, Reapable, Instance
    <3> QED
      BY <3>1 DEF Corrupted, Ended
  <2>5. CodeOK'
    BY <1>1, <2>2, <2>3, <2>4 DEF CodeOK
  <2> QED
    BY <1>1, <2>1, <2>5 DEF CreditedToItsOwn
<1>4. TypeOK'
  <2>1. exitcode' \in Status
    BY <1>1 DEF TypeOK, Status
  <2> QED
    BY <1>1, <1>2, <1>3, <2>1 DEF TypeOK, StressorType, ChildType, SharedType, Instance
<1>5. ForkOrder'
  BY <1>1, <1>2 DEF ForkOrder, Instance
<1>6. WaitedFor'
  BY <1>1, <1>2 DEF WaitedFor, Reapable, Instance, SlotOK, Forking, Working
<1>7. ASSUME NEW k \in Instance PROVE SlotOK(k)'
  BY <1>1, <1>2 DEF SlotOK, Reapable, Forking, ForkOrder, WaitedFor, Working, Instance
<1>8. ASSUME NEW k \in Instance PROVE StopOK(k)'
  BY <1>1, <1>2 DEF StopOK, Told, Up, MainUp, Working, SlotOK, ForkOrder
<1>9. Moved
  <2>1. ASSUME NEW k \in Instance PROVE ~Up(k) /\ (ChildIsUp(k) => Struck(k))
    BY <1>1, <1>2, Known DEF WaitedFor, Reapable, Up, StressorUp, FamilyOK, Instance
  <2>2. Loaded => Stricken
    BY <2>1 DEF Loaded, Stricken
  <2>3. (Loaded' <=> Loaded) /\ (Stricken' <=> Stricken)
    BY <1>2 DEF Loaded, Stricken, Up, ChildIsUp, Struck
  <2> QED
    BY <2>2, <2>3 DEF Moved, MainUp
<1> QED
  BY <1>3, <1>4, <1>5, <1>6, <1>7, <1>8, <1>9 DEF IInv, Bookkeeping

\* The invariant holds on when a stressor is forked.
LEMMA ForkStep ==
    ASSUME IInv, Fork
    PROVE  IInv' /\ Moved
<1> DEFINE p == [NoStressor EXCEPT !.pc = "boot", !.flag = mflag]
<1>1. /\ TypeOK /\ ForkOrder /\ CodeOK /\ CreditedToItsOwn /\ Families
      /\ \A k \in Instance : SlotOK(k) /\ StopOK(k) /\ FamilyOK(k) /\ CounterOK(k)
      /\ N \in Nat \ {0} /\ j \in 1 .. N + 1
  BY Known
<1>2. /\ mpc = "fork" /\ mpc' = "record" /\ j' = j /\ j \in Instance /\ P[j].pc = "none"
      /\ UNCHANGED <<mflag, exitcode, credit, calls, slot, signalled, shared, G, layout>>
      /\ UNCHANGED <<terms, kills, faults>>
      /\ shared[j].ready
  BY <1>1 DEF Fork, Goto, ForkOrder, Instance, statsVars, envVars
<1>3. P' = [P EXCEPT ![j] = p]
  BY DEF Fork
<1>4. P \in [Instance -> StressorType]
  BY <1>1 DEF TypeOK, StressorType
<1>5. p \in StressorType /\ p.pc = "boot" /\ p.idx = 1 /\ p.status = "ok"
  <2>1. mflag \in BOOLEAN
    BY <1>1 DEF TypeOK
  <2>2. NoStressor \in StressorType /\ NoStressor.idx = 1 /\ NoStressor.status = "ok"
    BY DEF NoStressor, StressorType, Status
  <2> QED
    BY <2>1, <2>2 DEF StressorType, StressorUp
<1> HIDE DEF p
<1>6. /\ P' \in [Instance -> StressorType] /\ P'[j] = p
      /\ \A k \in Instance : k # j => P'[k] = P[k]
  BY <1>2, <1>3, <1>4, <1>5
<1>7. TypeOK'
  BY <1>1, <1>2, <1>6 DEF TypeOK, StressorType, ChildType
<1>8. ASSUME NEW k \in Instance PROVE FamilyOK(k)' /\ CounterOK(k)'
  <2>1. CASE k = j
    <3>1. ~Struck(j) /\ ~ChildIsUp(j) /\ ~shared[j].errors
      BY <1>1, <1>2 DEF FamilyOK, CounterOK, Failing
    <3> QED
      BY <1>2, <1>5, <1>6, <2>1, <3>1 DEF FamilyOK, CounterOK, Struck, ChildIsUp
  <2>2. CASE k # j
    BY <1>1, <1>2, <1>6, <2>2 DEF FamilyOK, CounterOK, Failing, Struck, ChildIsUp
  <2> QED
    BY <2>1, <2>2
<1>9. ForkOrder' /\ WaitedFor' /\ CreditedToItsOwn'
  BY <1>1, <1>2, <1>6 DEF ForkOrder, WaitedFor, CreditedToItsOwn, Instance
<1>10. ASSUME NEW s PROVE Ended(s)' = Ended(s)
  BY <1>2, <1>5, <1>6 DEF Ended
<1>11. CodeOK'
  BY <1>1, <1>2, <1>10 DEF CodeOK, Worst, Working
<1>12. ASSUME NEW k \in Instance PROVE SlotOK(k)'
  BY <1>1, <1>2, <1>5, <1>6 DEF SlotOK, Working, ForkOrder, Reapable, Forking, Instance
<1>13. ASSUME NEW k \in Instance PROVE StopOK(k)'
  <2>1. CASE k = j
    BY <1>1, <1>2, <1>5, <1>6, <2>1 DEF StopOK
  <2>2. CASE k # j
    BY <1>1, <1>2, <1>6, <2>2 DEF StopOK, Working, Told, Up, MainUp
  <2> QED
    BY <2>1, <2>2
<1>14. Moved
  <2>1. ASSUME NEW k \in Instance PROVE Struck(k)' <=> Struck(k)
    BY <1>1, <1>2, <1>5, <1>6 DEF Struck, FamilyOK
  <2> QED
    BY <1>2, <2>1 DEF Moved, Stricken, MainUp
<1> QED
  BY <1>7, <1>8, <1>9, <1>11, <1>12, <1>13, <1>14 DEF IInv, Families, Bookkeeping

\* The main process signals the stressors and begins to wait for them.
LEMMA SignalAndWait ==
    ASSUME IInv, NEW force \in BOOLEAN, stress_kill_stressors(slot, force),
           mpc \in {"fork", "startup"}, mpc' = "wait", j' = 1,
           UNCHANGED <<mflag, exitcode, credit, slot, shared, layout, terms, kills, faults>>
    PROVE  IInv' /\ Moved
<1>1. /\ TypeOK /\ ForkOrder /\ CodeOK /\ CreditedToItsOwn /\ Families /\ Bookkeeping
      /\ \A k \in Instance : SlotOK(k) /\ StopOK(k)
      /\ N \in Nat \ {0} /\ j \in 1 .. N + 1
  BY Known
<1>2. /\ calls' \in 0 .. SigkillAfter + 1 /\ signalled' \in [Instance -> BOOLEAN]
      /\ P' \in [Instance -> StressorType] /\ G' \in [Instance -> ChildType]
      /\ Families' /\ \A k \in Instance : Kept(k)
      /\ \A k \in Instance : Up(k)' => Told(k)'
  BY <1>1, Killing DEF Forking, Working
<1>3. TypeOK'
  BY <1>1, <1>2 DEF TypeOK, StressorType, ChildType
<1>4. ForkOrder' /\ WaitedFor' /\ CreditedToItsOwn'
  BY <1>1 DEF ForkOrder, WaitedFor, CreditedToItsOwn, Instance
<1>5. CodeOK'
  BY <1>1, <1>2, KeptCode DEF Working
<1>6. ASSUME NEW k \in Instance PROVE SlotOK(k)' /\ StopOK(k)'
  <2>1. SlotOK(k) /\ StopOK(k) /\ Kept(k) /\ (Up(k)' => Told(k)')
    BY <1>1, <1>2
  <2>2. SlotOK(k)'
    BY <1>2, <2>1, KeptStays DEF SlotOK, Working, Reapable, Forking
  <2>3. signalled'[k] => P'[k].pc # "none"
    BY <2>1, KeptStays DEF StopOK, Kept
  <2> QED
    BY <2>1, <2>2, <2>3 DEF StopOK
<1>7. Moved
  BY <1>1, <1>2, KeptMoves DEF MainUp
<1> QED
  BY <1>2, <1>3, <1>4, <1>5, <1>6, <1>7 DEF IInv, Bookkeeping

\* The invariant holds on when a fork fails for good.
LEMMA ForkFailsStep ==
    ASSUME IInv, ForkFails
    PROVE  IInv' /\ Moved
BY SignalAndWait DEF ForkFails, Goto, envVars

\* The invariant holds on when the flag is looked at after a fork.
LEMMA CheckStartupStep ==
    ASSUME IInv, CheckStartup
    PROVE  IInv' /\ Moved
<1>1. CASE mflag /\ Goto("next", j + 1) /\ UNCHANGED <<statsVars, P, G>>
  <2> USE DEF CheckStartup, Goto, statsVars, envVars
  <2>1. /\ TypeOK /\ ForkOrder /\ CreditedToItsOwn
        /\ \A k \in Instance : SlotOK(k) /\ StopOK(k)
        /\ N \in Nat \ {0} /\ j \in 1 .. N + 1
        /\ slot \in [Instance -> {"zero", "minus_one", "pid"}]
    BY Known
  <2>2. /\ mpc = "startup" /\ mpc' = "next" /\ j' = j + 1 /\ j <= N /\ P' = P /\ G' = G /\ mflag
        /\ UNCHANGED <<mflag, exitcode, credit, slot, signalled, calls, shared, layout>>
        /\ UNCHANGED <<terms, kills, faults>>
    BY <1>1, <2>1 DEF ForkOrder
  <2>3. /\ Families' /\ CodeOK' /\ CreditedToItsOwn'
        /\ P' \in [Instance -> StressorType] /\ G' \in [Instance -> ChildType]
    BY <2>1, <2>2, MainOnly DEF CreditedToItsOwn, Working
  <2>4. TypeOK'
    BY <2>1, <2>2, <2>3 DEF TypeOK, StressorType, ChildType
  <2>5. ForkOrder' /\ WaitedFor'
    BY <2>1, <2>2 DEF ForkOrder, WaitedFor, Instance
  <2>6. ASSUME NEW k \in Instance PROVE SlotOK(k)' /\ StopOK(k)'
    BY <2>1, <2>2 DEF SlotOK, StopOK, Working, Reapable, Forking, Told, Up
  <2>7. Moved
    BY <2>2, MainMoves DEF MainUp, Working
  <2> QED
    BY <2>3, <2>4, <2>5, <2>6, <2>7 DEF IInv, Bookkeeping
<1>2. CASE /\ ~mflag /\ stress_kill_stressors(slot, TRUE) /\ Goto("wait", 1)
           /\ UNCHANGED <<slot, shared>>
  BY <1>2, SignalAndWait DEF CheckStartup, Goto, envVars
<1> QED
  BY <1>1, <1>2 DEF CheckStartup

\* The invariant holds on when a stressor is reaped: it is the one whose slot
\* it is, even where the wait takes any child.
LEMMA ReapStep ==
    ASSUME IInv, Reap
    PROVE  IInv' /\ Moved
<1>1. /\ TypeOK /\ ForkOrder /\ WaitedFor /\ CodeOK /\ CreditedToItsOwn /\ Families
      /\ \A k \in Instance : SlotOK(k) /\ StopOK(k) /\ FamilyOK(k) /\ CounterOK(k)
      /\ N \in Nat \ {0} /\ j \in 1 .. N + 1
  BY Known
<1>2. /\ mpc = "wait" /\ mpc' = "reaped" /\ j' = j /\ j \in Instance /\ slot[j] # "zero"
      /\ UNCHANGED <<mflag, calls, slot, signalled, shared, G, layout, terms, kills, faults>>
  BY <1>1 DEF Reap, Goto, Instance, statsVars, envVars
<1>3. PICK i \in Awaited(j) :
          /\ P[i].pc = "zombie"
          /\ P' = [P EXCEPT ![i].pc = "gone"]
          /\ exitcode' = Worse(exitcode, P[i].status)
          /\ credit' = [credit EXCEPT ![j] = i]
  BY DEF Reap
<1>4. i \in Instance
  BY <1>2, <1>3 DEF Awaited
<1>5. i = j
  <2>1. Reapable(i)
    BY <1>3 DEF Reapable
  <2>2. CASE slot[j] = "minus_one"
    <3>1. i < j
      BY <1>1, <1>2, <1>4, <2>1, <2>2 DEF SlotOK, Working, Forking, Reapable, Instance
    <3> QED
      BY <1>1, <1>2, <1>4, <2>1, <3>1 DEF WaitedFor
  <2>3. CASE slot[j] # "minus_one"
    BY <1>3, <2>3 DEF Awaited
  <2> QED
    BY <2>2, <2>3
<1>6. P \in [Instance -> StressorType] /\ P[j] \in StressorType
  BY <1>1, <1>2 DEF TypeOK, StressorType
<1>7. /\ P' \in [Instance -> StressorType]
      /\ P'[j].pc = "gone" /\ P'[j].status = P[j].status /\ P'[j].idx = P[j].idx
      /\ P[j].pc = "zombie"
      /\ \A k \in Instance : k # j => P'[k] = P[k]
  BY <1>2, <1>3, <1>5, <1>6 DEF StressorType
<1>8. exitcode' \in Status /\ exitcode' = Worse(exitcode, P[j].status)
  BY <1>1, <1>3, <1>5 DEF Worse, Status
<1>9. TypeOK' /\ CreditedToItsOwn'
  BY <1>1, <1>2, <1>3, <1>5, <1>7, <1>8 DEF TypeOK, StressorType, ChildType, CreditedToItsOwn,
     Instance
<1>10. ASSUME NEW k \in Instance PROVE FamilyOK(k)' /\ CounterOK(k)'
  <2>1. CASE k = j
    BY <1>1, <1>2, <1>7, <2>1 DEF FamilyOK, CounterOK, Failing, Struck, ChildIsUp, StressorUp
  <2>2. CASE k # j
    BY <1>1, <1>2, <1>7, <2>2 DEF FamilyOK, CounterOK, Failing, Struck, ChildIsUp
  <2> QED
    BY <2>1, <2>2
<1>11. ForkOrder' /\ WaitedFor'
  BY <1>1, <1>2, <1>7 DEF ForkOrder, WaitedFor, Reapable, Instance
<1>12. CodeOK'
  <2>1. ASSUME NEW s PROVE Ended(s)' <=> Ended(s) \/ P[j].status = s
    BY <1>2, <1>7 DEF Ended
  <2>2. Ended("failed")' <=> Ended("failed") \/ P[j].status = "failed"
    BY <2>1
  <2>3. Ended("no_resource")' <=> Ended("no_resource") \/ P[j].status = "no_resource"
    BY <2>1
  <2>4. Ended("untrustworthy")' <=> Ended("untrustworthy") \/ P[j].status = "untrustworthy"
    BY <2>1
  <2>5. exitcode = Worst
    BY <1>1, <1>2 DEF CodeOK, Working
  <2>6. exitcode' = Worst'
    BY <1>8, <2>2, <2>3, <2>4, <2>5 DEF Worst, Worse
  <2> QED
    BY <1>2, <2>6 DEF CodeOK
<1>13. ASSUME NEW k \in Instance PROVE SlotOK(k)'
  BY <1>1, <1>2, <1>7 DEF SlotOK, Working, Reapable, Forking
<1>14. ASSUME NEW k \in Instance PROVE StopOK(k)'
  <2>1. CASE k = j
    BY <1>1, <1>2, <1>7, <2>1 DEF StopOK, Up, StressorUp
  <2>2. CASE k # j
    BY <1>1, <1>2, <1>7, <2>2 DEF StopOK, Working, Told, Up, MainUp
  <2> QED
    BY <2>1, <2>2
<1>15. Moved
  <2>1. ASSUME NEW k \in Instance PROVE (Struck(k)' <=> Struck(k)) /\ (Up(k)' => Up(k))
    BY <1>2, <1>7 DEF Struck, Up, StressorUp
  <2>2. (Loaded' => Loaded) /\ (Stricken' <=> Stricken) /\ (MainUp' <=> MainUp)
    BY <1>2, <2>1 DEF Loaded, Stricken, ChildIsUp, MainUp
  <2> QED
    BY <2>2 DEF Moved
<1> QED
  BY <1>9, <1>10, <1>11, <1>12, <1>13, <1>14, <1>15 DEF IInv, Families, Bookkeeping

-----------------------------------------------------------------------------
(* The theorems.                                                           *)

\* The inductive invariant holds at first.
LEMMA Initially == Init => IInv
<1> SUFFICES ASSUME Init PROVE IInv
  OBVIOUS
<1>1. \A k \in Instance : P[k] = NoStressor /\ G[k] = NoChild /\ slot[k] = "zero" /\ ~signalled[k]
      /\ shared[k] = [ready |-> FALSE, errors |-> FALSE]
  BY DEF Init
<1>2. NoStressor \in StressorType /\ NoStressor.pc = "none" /\ NoStressor.idx = 1
      /\ NoStressor.status = "ok"
  BY DEF NoStressor, StressorType, Status
<1>3. NoChild \in ChildType /\ NoChild.pc = "none"
  BY DEF NoChild, ChildType
<1>4. TypeOK
  BY <1>2, <1>3, StressRunAssumption DEF Init, TypeOK, StressorType, ChildType, Status, Instance
<1>5. ASSUME NEW k \in Instance PROVE FamilyOK(k) /\ CounterOK(k) /\ SlotOK(k) /\ StopOK(k)
  BY <1>1, <1>2, <1>3 DEF Init, FamilyOK, CounterOK, StressorUp, SlotOK, StopOK, Struck,
     ChildIsUp, ChildUp, Reapable, Forking
<1>6. ForkOrder /\ WaitedFor /\ CreditedToItsOwn
  BY <1>1, <1>2 DEF Init, ForkOrder, WaitedFor, CreditedToItsOwn
<1>7. CodeOK
  BY <1>1, <1>2 DEF Init, CodeOK, Worst, Ended
<1> QED
  BY <1>4, <1>5, <1>6, <1>7 DEF IInv, Families, Bookkeeping

\* Every step keeps it.
LEMMA Inductive ==
    ASSUME IInv, [Next]_vars
    PROVE  IInv' /\ Moved
<1>1. CASE MainStep
  BY <1>1, NextInstanceStep, StartWaitingStep, ForkStep, ForkAgainStep, ForkFailsStep,
     RecordPidStep, CheckStartupStep, ReapStep, NoSuchChildStep, NothingToWaitForStep,
     stress_stressor_finishedStep, ExitStep, AbortStep DEF MainStep
<1>2. CASE Terminate \/ FatalSignal \/ KillMain
  BY <1>2, TerminateStep, FatalSignalStep, KillMainStep
<1>3. ASSUME NEW i \in Instance, StressorStep(i) PROVE IInv' /\ Moved
  BY <1>3, SetHandlerStep, ParentDiedAlarmStep, StartStressorStep, StopSpinningStep, CompleteStep,
     ExitStressorStep, MapPageStep, AgainStep, ForkChildStep, ForkChildFailsStep,
     EnterWaitpidStep, ReapChildStep, EscalateStep DEF StressorStep
<1>4. ASSUME NEW i \in Instance, HandleAlarm(i) \/ TimeoutRings(i) \/ AgainRings(i)
      PROVE  IInv' /\ Moved
  BY <1>4, HandleAlarmStep, TimerRingsStep DEF TimeoutRings, AgainRings
<1>5. ASSUME NEW i \in Instance,
             \/ ChildStep(i) \/ BeginCount(i) \/ NoMemory(i)
             \/ HandleChildAlarm(i) \/ ChildAgainRings(i)
      PROVE  IInv' /\ Moved
  BY <1>5, BootChildStep, CheckChildStep, BeginCountStep, EndCountStep, StopWorkingStep,
     NoMemoryStep, HandleChildAlarmStep, ChildAgainRingsStep DEF ChildStep
<1>6. ASSUME NEW i \in Instance, ChildFaults(i) \/ KillChild(i) \/ KillStressor(i) \/ InitReaps(i)
      PROVE  IInv' /\ Moved
  BY <1>6, ChildFaultsStep, KillChildStep, KillStressorStep, InitReapsStep
<1>7. CASE UNCHANGED vars
  <2>1. /\ UNCHANGED <<layout, mpc, j, mflag, calls, exitcode, credit, slot, signalled, shared>>
        /\ UNCHANGED <<P, G, terms, kills, faults>>
    BY <1>7 DEF vars
  <2>2. \A k \in Instance : Kept(k)
    BY <2>1 DEF Kept, Told
  <2>3. Bookkeeping'
    BY <2>1, <2>2, KeptBooks DEF IInv
  <2>4. Moved
    BY <2>1, <2>2, KeptMoves DEF IInv, MainUp
  <2> QED
    BY <2>1, <2>3, <2>4 DEF IInv, TypeOK, Families, FamilyOK, CounterOK, Failing, Struck, ChildIsUp
<1> QED
  BY <1>1, <1>2, <1>3, <1>4, <1>5, <1>6, <1>7 DEF Next, Done

\* The inductive invariant, of every behaviour.
THEOREM Invariance == Spec => []IInv
BY Initially, Inductive, PTL DEF Spec

\* Every variable keeps to its type.
THEOREM TypeCorrect == Spec => []TypeOK
<1>1. IInv => TypeOK
  BY DEF IInv
<1> QED
  BY <1>1, Invariance, PTL

\* However a stressor ends, short of SIGKILL, no child of its goes on working.
THEOREM NoChildLeft == Spec => []StressorLeavesNoChild
<1>1. IInv => StressorLeavesNoChild
  BY DEF IInv, Families, FamilyOK, StressorLeavesNoChild
<1> QED
  BY <1>1, Invariance, PTL

\* When the main process has exited, every stressor it forked has been reaped.
THEOREM NobodyLeft == Spec => []ExitLeavesNoStressor
<1>1. IInv => ExitLeavesNoStressor
  BY DEF IInv, Bookkeeping, WaitedFor, Reapable, ExitLeavesNoStressor
<1> QED
  BY <1>1, Invariance, PTL

\* A terminating signal reaches every stressor by the time the wait begins.
THEOREM EveryoneTold == Spec => []StopReachesAll
<1>1. IInv => StopReachesAll
  BY DEF IInv, Bookkeeping, StopOK, MainUp, Working, StopReachesAll
<1> QED
  BY <1>1, Invariance, PTL

\* The wait for any child never takes another instance's.
THEOREM OwnStatus == Spec => []CreditedToItsOwn
<1>1. IInv => CreditedToItsOwn
  BY DEF IInv, Bookkeeping
<1> QED
  BY <1>1, Invariance, PTL

\* The exit code is the worst of what the stressors ended with, and never hides
\* a bit error, whatever became of the worker that found it.
THEOREM WorstStatus == Spec => []ExitCodeCoversAll
<1>1. ASSUME IInv, mpc = "exited" PROVE ExitCodeCoversAll
  <2>1. exitcode = IF Ended("torn") THEN "failed" ELSE Worst
    BY <1>1 DEF IInv, Bookkeeping, CodeOK, Working
  <2>2. ASSUME NEW k \in Instance, shared[k].errors, ~Struck(k) PROVE Ended("failed")
    <3>1. P[k].pc \in {"none", "gone"} /\ (P[k].pc \in Oomable \/ Failing(P[k]))
      BY <1>1, <2>2 DEF IInv, Families, CounterOK, Bookkeeping, WaitedFor, Reapable
    <3>2. P[k].pc = "gone" /\ P[k].status = "failed"
      BY <3>1 DEF Failing
    <3> QED
      BY <3>2 DEF Ended
  <2>3. ASSUME NEW k \in Instance, shared[k].errors, ~Struck(k) PROVE exitcode = "failed"
    BY <2>1, <2>2, <2>3 DEF Worst
  <2> QED
    BY <2>1, <2>3 DEF Worst, ExitCodeCoversAll
<1>2. IInv => ExitCodeCoversAll
  BY <1>1 DEF ExitCodeCoversAll
<1> QED
  BY <1>2, Invariance, PTL

\* The run keeps the promise the scenarios rely on: no load is left when the
\* main process has ended, unless SIGKILL or a fatal signal struck.
THEOREM Implements == Spec => ImplementsProcess
<1>1. Init => Process!Init
  BY DEF Init, Process!Init, MainUp, Up, ChildIsUp, Struck, NoStressor, NoChild, StressorUp,
     ChildUp
<1>2. ASSUME IInv, [Next]_vars PROVE [Process!Next]_(Process!vars)
  <2>1. Moved
    BY <1>2, Inductive
  <2>2. /\ MainUp \in BOOLEAN /\ Loaded \in BOOLEAN /\ Stricken \in BOOLEAN
        /\ MainUp' \in BOOLEAN /\ Loaded' \in BOOLEAN /\ Stricken' \in BOOLEAN
    BY DEF MainUp, Loaded, Stricken
  <2>3. \/ MainUp' = MainUp /\ Loaded' = Loaded /\ Stricken' = Stricken
        \/ MainUp /\ Loaded' = TRUE /\ MainUp' = MainUp /\ Stricken' = Stricken
        \/ Loaded' = FALSE /\ MainUp' = MainUp /\ Stricken' = Stricken
        \/ /\ MainUp /\ (Loaded => Stricken) /\ MainUp' = FALSE
           /\ Loaded' = Loaded /\ Stricken' = Stricken
        \/ Stricken' = TRUE /\ MainUp' \in {MainUp, FALSE} /\ Loaded' \in {Loaded, FALSE}
    BY <2>1, <2>2 DEF Moved
  <2>4. CASE MainUp' = MainUp /\ Loaded' = Loaded /\ Stricken' = Stricken
    BY <2>4 DEF Loaded, Stricken, Process!vars
  <2>5. CASE MainUp /\ Loaded' = TRUE /\ MainUp' = MainUp /\ Stricken' = Stricken
    BY <2>5 DEF Loaded, Stricken, Process!Next, Process!Load
  <2>6. CASE Loaded' = FALSE /\ MainUp' = MainUp /\ Stricken' = Stricken
    BY <2>6 DEF Loaded, Stricken, Process!Next, Process!Unload
  <2>7. CASE /\ MainUp /\ (Loaded => Stricken) /\ MainUp' = FALSE
             /\ Loaded' = Loaded /\ Stricken' = Stricken
    BY <2>7 DEF Loaded, Stricken, Process!Next, Process!Leave
  <2>8. CASE Stricken' = TRUE /\ MainUp' \in {MainUp, FALSE} /\ Loaded' \in {Loaded, FALSE}
    BY <2>8 DEF Loaded, Stricken, Process!Next, Process!Strike
  <2> QED
    BY <2>3, <2>4, <2>5, <2>6, <2>7, <2>8
<1> QED
  BY <1>1, <1>2, Invariance, PTL DEF Spec, ImplementsProcess, Process!Spec
================================================================================
