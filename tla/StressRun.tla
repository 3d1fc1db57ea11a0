------------------------------ MODULE StressRun ------------------------------
(***************************************************************************)
(* One run of stress-ng, the program behind the cpu and memory faults: the *)
(* main process forks the stressors, waits for them and exits              *)
(* (stress-ng.c); a stressor of kind "vm" works in a child of its own,     *)
(* which it restarts when memory runs out and gets rid of when it is told  *)
(* to stop (core-out-of-memory.c).  Every process keeps its own copy of    *)
(* g_stress_continue_flag; they stop each other with signals.  SIGKILL      *)
(* takes effect at once.                                                   *)
(*                                                                         *)
(* A SIGALRM is pending from kill() or the expiry of a timer to the        *)
(* handler; the handlers run between any two steps of their process.       *)
(***************************************************************************)
EXTENDS Integers, Sequences

CONSTANTS
    N,              \* stressor instances, in the order they are forked
    Layout,         \* the command lines: [kind, entry], functions of 1 .. N
    SigkillAfter,   \* forced calls of stress_kill_stressors that use SIGALRM
    MaxTerms,       \* BOUND: terminating signals sent to the main process
    MaxKills,       \* BOUND: processes that the OOM killer takes
    MaxFaults       \* BOUND: SIGBUS and SIGSEGV deaths of oomable children

Instance == 1 .. N

ASSUME StressRunAssumption ==
    /\ N \in Nat \ {0}
    /\ Layout \subseteq [kind : [Instance -> {"cpu", "vm"}], entry : [Instance -> Nat]]
    /\ SigkillAfter \in Nat \ {0}
    /\ MaxTerms \in Nat /\ MaxKills \in Nat /\ MaxFaults \in Nat

VARIABLES
    layout,     \* the command line of this run
    mpc,        \* where the main process is
    j,          \* the instance it is at, in the fork loop and in the wait loop
    mflag,      \* its g_stress_continue_flag
    calls,      \* count of stress_kill_stressors, up to SigkillAfter + 1
    exitcode,   \* success, resource_success, and the code it exits with
    credit,     \* whose status the wait for an instance took, 0 for nobody's
    slot,       \* SHARED: stats->pid
    signalled,  \* SHARED: stats->signalled
    shared,     \* SHARED: stats->args.ci.counter_ready, and bit_error_count > 0
    P,          \* the stressor processes
    G,          \* their oomable children
    terms, kills, faults

mainVars  == <<mpc, j, mflag, exitcode, credit>>
envVars   == <<layout, terms, kills, faults>>
statsVars == <<calls, slot, signalled, shared>>
vars == <<layout, mpc, j, mflag, calls, exitcode, credit, slot, signalled, shared,
          P, G, terms, kills, faults>>

\* VARIANT of signals: the last resort is missing.
SignalsButSigkill == <<"SIGALRM", "SIGALRM", "SIGALRM", "SIGALRM", "SIGTERM">>

\* The signals an oomable child is sent, one per interrupted wait.
signals == <<"SIGALRM", "SIGALRM", "SIGALRM", "SIGALRM", "SIGTERM", "SIGKILL">>

MainUp == mpc \notin {"exited", "aborted", "killed"}

\* The steps of stress_oomable_child, those after the stressor's own function,
\* and all steps of a stressor and of an oomable child.
Oomable    == {"again", "fork", "wait", "blocked", "interrupted"}
Finishing  == {"exit", "sum"}
StressorUp == {"boot", "prctl", "start", "run", "page", "leave"} \cup Oomable \cup Finishing
ChildUp    == {"boot", "check", "run", "count"}

Up(i)      == P[i].pc \in StressorUp
ChildIsUp(i) == G[i].pc \in ChildUp

\* EXIT_SUCCESS, and EXIT_SIGNALED which counts the same; EXIT_NO_RESOURCE;
\* EXIT_METRICS_UNTRUSTWORTHY; EXIT_FAILURE and every other code.
Status == {"ok", "no_resource", "untrustworthy", "failed"}

\* No process: before the fork, and for a child after it is reaped.
NoStressor == [pc |-> "none", flag |-> FALSE, pending |-> FALSE, timer |-> "off",
               deathsig |-> FALSE, idx |-> 1, status |-> "ok"]
NoChild    == [pc |-> "none", flag |-> FALSE, pending |-> FALSE, timer |-> FALSE,
               deathsig |-> FALSE, status |-> "ok"]

Init ==
    /\ layout \in Layout
    /\ mpc = "next" /\ j = 1 /\ mflag = TRUE /\ calls = 0 /\ exitcode = "ok"
    /\ credit = [i \in Instance |-> 0]
    /\ slot = [i \in Instance |-> "zero"]
    /\ signalled = [i \in Instance |-> FALSE]
    /\ shared = [i \in Instance |-> [ready |-> FALSE, errors |-> FALSE]]
    /\ P = [i \in Instance |-> NoStressor]
    /\ G = [i \in Instance |-> NoChild]
    /\ terms = 0 /\ kills = 0 /\ faults = 0

-----------------------------------------------------------------------------
(* What the kernel does with a process that is signalled or dies.          *)

\* kill(pid, SIGALRM): a process that is gone, or a zombie, takes no notice.
Alarmed(p) == IF p.pc \in StressorUp THEN [p EXCEPT !.pending = TRUE] ELSE p

\* The death of a stressor, whatever it dies of.
Dead(status) == [NoStressor EXCEPT !.pc = "zombie", !.status = status]

\* PR_SET_PDEATHSIG of a child whose parent dies.
Bereaved(g) == IF g.pc \in ChildUp /\ g.deathsig THEN [g EXCEPT !.pending = TRUE] ELSE g

DeadChild(status) == [NoChild EXCEPT !.pc = "zombie", !.status = status]

\* SIGKILL; between stats->completed and the checksum it leaves the metrics of
\* the stressor corrupted.
Slain(p) == Dead(IF p.pc = "sum" THEN "torn" ELSE "killed")

Sigkilled(p) == IF p.pc \in StressorUp THEN Slain(p) ELSE p

-----------------------------------------------------------------------------
(* stress_kill_stressors: only instances with a pid that were not          *)
(* signalled yet; the first SigkillAfter forced calls send SIGALRM.        *)

Targets(slots) == {i \in Instance : slots[i] = "pid" /\ ~signalled[i]}

\* slots: the value of slot in the state the call sees.
stress_kill_stressors(slots, force) ==
    LET T     == Targets(slots)
        count == IF force /\ calls <= SigkillAfter THEN calls + 1 ELSE calls
        hard  == force /\ count > SigkillAfter
    IN /\ calls' = count
       /\ signalled' = [i \in Instance |-> signalled[i] \/ i \in T]
       /\ P' = [i \in Instance |-> IF i \notin T THEN P[i]
                                   ELSE IF hard THEN Sigkilled(P[i]) ELSE Alarmed(P[i])]
       /\ G' = [i \in Instance |-> IF hard /\ i \in T /\ Up(i) THEN Bereaved(G[i]) ELSE G[i]]

-----------------------------------------------------------------------------
(* stress_run in the main process.                                         *)

Goto(pc, i) == mpc' = pc /\ j' = i

\* Where "break" out of an entry's instances leads: the next entry, or N + 1.
AfterEntry(i, k) ==
    /\ k <= N => layout.entry[k] # layout.entry[i]
    /\ \A m \in i + 1 .. k - 1 : layout.entry[m] = layout.entry[i]

\* The slot is marked before the flag is looked at.
NextInstance ==
    /\ mpc = "next" /\ j <= N
    /\ slot' = [slot EXCEPT ![j] = "minus_one"]
    /\ shared' = [shared EXCEPT ![j].ready = TRUE]
    /\ \/ mflag /\ Goto("fork", j)
       \/ ~mflag /\ \E k \in j + 1 .. N + 1 : AfterEntry(j, k) /\ Goto("next", k)
    /\ UNCHANGED <<mflag, calls, exitcode, credit, signalled, P, G, envVars>>

StartWaiting ==
    /\ mpc = "next" /\ j = N + 1
    /\ Goto("wait", 1)
    /\ UNCHANGED <<mflag, exitcode, credit, statsVars, P, G, envVars>>

\* The child inherits the flag of the moment of the fork.
Fork ==
    /\ mpc = "fork"
    /\ P' = [P EXCEPT ![j] = [NoStressor EXCEPT !.pc = "boot", !.flag = mflag]]
    /\ Goto("record", j)
    /\ UNCHANGED <<mflag, exitcode, credit, statsVars, G, envVars>>

\* EAGAIN: again, from the test of the flag.
ForkAgain ==
    /\ mpc = "fork"
    /\ Goto("next", j)
    /\ UNCHANGED <<mflag, exitcode, credit, statsVars, P, G, envVars>>

\* VARIANT of ForkFails: nobody waits for the stressors that were started.
ForkFailsNoWait ==
    /\ mpc = "fork"
    /\ stress_kill_stressors(slot, FALSE)
    /\ Goto("wait", N + 1)
    /\ UNCHANGED <<mflag, exitcode, credit, slot, shared, envVars>>

\* Any other error: the slot stays at minus one.
ForkFails ==
    /\ mpc = "fork"
    /\ stress_kill_stressors(slot, FALSE)
    /\ Goto("wait", 1)
    /\ UNCHANGED <<mflag, exitcode, credit, slot, shared, envVars>>

\* VARIANT of RecordPid: the slot keeps its minus one.
RecordNoPid ==
    /\ mpc = "record"
    /\ Goto("startup", j)
    /\ UNCHANGED <<mflag, exitcode, credit, statsVars, P, G, envVars>>

\* Two stores, taken as one step: signalled is FALSE before them, so that
\* nothing can be seen between the two.
RecordPid ==
    /\ mpc = "record"
    /\ slot' = [slot EXCEPT ![j] = "pid"]
    /\ signalled' = [signalled EXCEPT ![j] = FALSE]
    /\ Goto("startup", j)
    /\ UNCHANGED <<mflag, calls, exitcode, credit, shared, P, G, envVars>>

\* VARIANT of CheckStartup: the flag is not looked at after the fork.
SkipStartupCheck ==
    /\ mpc = "startup"
    /\ Goto("next", j + 1)
    /\ UNCHANGED <<mflag, exitcode, credit, statsVars, P, G, envVars>>

\* VARIANT of CheckStartup: the wait starts where the forks ended.
CheckStartupWaitsOn ==
    /\ mpc = "startup"
    /\ \/ /\ mflag
          /\ Goto("next", j + 1)
          /\ UNCHANGED <<statsVars, P, G>>
       \/ /\ ~mflag
          /\ stress_kill_stressors(slot, TRUE)
          /\ Goto("wait", j)
          /\ UNCHANGED <<slot, shared>>
    /\ UNCHANGED <<mflag, exitcode, credit, envVars>>

\* Forced early abort during startup?
CheckStartup ==
    /\ mpc = "startup"
    /\ \/ /\ mflag
          /\ Goto("next", j + 1)
          /\ UNCHANGED <<statsVars, P, G>>
       \/ /\ ~mflag
          /\ stress_kill_stressors(slot, TRUE)
          /\ Goto("wait", 1)
          /\ UNCHANGED <<slot, shared>>
    /\ UNCHANGED <<mflag, exitcode, credit, envVars>>

-----------------------------------------------------------------------------
(* stress_wait_stressors and stress_wait_pid.  A slot of minus one waits    *)
(* for whatever child there is.                                            *)

Awaited(i) == IF slot[i] = "minus_one" THEN Instance ELSE {i}

\* What a status does to success, resource_success and metrics_success, in the
\* order main() looks at them; death by SIGALRM, or by SIGKILL as the OOM
\* killer sends it, is no failure.
Worse(code, status) ==
    IF "failed" \in {code, status} THEN "failed"
    ELSE IF "no_resource" \in {code, status} THEN "no_resource"
    ELSE IF "untrustworthy" \in {code, status} THEN "untrustworthy" ELSE "ok"

Reap ==
    /\ mpc = "wait" /\ j <= N /\ slot[j] # "zero"
    /\ \E i \in Awaited(j) :
        /\ P[i].pc = "zombie"
        /\ P' = [P EXCEPT ![i].pc = "gone"]
        /\ exitcode' = Worse(exitcode, P[i].status)
        /\ credit' = [credit EXCEPT ![j] = i]
    /\ Goto("reaped", j)
    /\ UNCHANGED <<mflag, statsVars, G, envVars>>

\* ECHILD: no such child, or no child at all.
NoSuchChild ==
    /\ mpc = "wait" /\ j <= N /\ slot[j] # "zero"
    /\ \A i \in Awaited(j) : P[i].pc \in {"none", "gone"}
    /\ slot' = [slot EXCEPT ![j] = "zero"]
    /\ Goto("wait", j + 1)
    /\ UNCHANGED <<mflag, calls, exitcode, credit, signalled, shared, P, G, envVars>>

NothingToWaitFor ==
    /\ mpc = "wait" /\ j <= N /\ slot[j] = "zero"
    /\ Goto("wait", j + 1)
    /\ UNCHANGED <<mflag, exitcode, credit, statsVars, P, G, envVars>>

stress_stressor_finished ==
    /\ mpc = "reaped"
    /\ slot' = [slot EXCEPT ![j] = "zero"]
    /\ Goto("wait", j + 1)
    /\ UNCHANGED <<mflag, calls, exitcode, credit, signalled, shared, P, G, envVars>>

\* stress_metrics_check: completed, and the checksum does not agree.
Corrupted == \E i \in Instance : P[i].status = "torn"

Exit ==
    /\ mpc = "wait" /\ j = N + 1
    /\ Goto("exited", j)
    /\ exitcode' = IF Corrupted THEN "failed" ELSE exitcode
    /\ UNCHANGED <<mflag, credit, statsVars, P, G, envVars>>

\* PR_SET_PDEATHSIG of the stressors, when the main process dies; its own
\* variables go with it.
MainDies(pc) ==
    /\ mpc' = pc /\ j' = 1 /\ mflag' = FALSE /\ calls' = 0 /\ exitcode' = "ok"
    /\ credit' = [i \in Instance |-> 0]
    /\ P' = [i \in Instance |-> IF P[i].deathsig THEN Alarmed(P[i]) ELSE P[i]]
    /\ UNCHANGED <<slot, signalled, shared, G>>

\* The _exit of the handler after a fatal signal: nobody is waited for.
Abort == mpc = "aborting" /\ MainDies("aborted") /\ UNCHANGED envVars

MainStep ==
    \/ NextInstance \/ StartWaiting \/ Fork \/ ForkAgain \/ ForkFails
    \/ RecordPid \/ CheckStartup
    \/ Reap \/ NoSuchChild \/ NothingToWaitFor \/ stress_stressor_finished \/ Exit
    \/ Abort

\* stress_handle_terminate and stress_sigint_handler, in the main process.
Terminate ==
    /\ MainUp /\ terms < MaxTerms
    /\ terms' = terms + 1
    /\ mflag' = FALSE
    /\ stress_kill_stressors(slot, TRUE)
    /\ UNCHANGED <<layout, mpc, j, exitcode, credit, slot, shared, kills, faults>>

\* The same handler for SIGILL, SIGFPE and SIGABRT.
FatalSignal ==
    /\ MainUp /\ terms < MaxTerms
    /\ terms' = terms + 1
    /\ mflag' = FALSE
    /\ stress_kill_stressors(slot, TRUE)
    /\ Goto("aborting", j)
    /\ UNCHANGED <<layout, exitcode, credit, slot, shared, kills, faults>>

-----------------------------------------------------------------------------
(* stress_run_child: a stressor, from the fork to _exit.                   *)

SetP(i, p) == P' = [P EXCEPT ![i] = p]

\* A step of stressor i that leaves everything else as it is.
StressorOnly(i, pc) ==
    /\ SetP(i, [P[i] EXCEPT !.pc = pc])
    /\ UNCHANGED <<mainVars, envVars, statsVars, G>>

\* stress_set_handler: until then SIGALRM has its default action.
SetHandler(i) == P[i].pc = "boot" /\ StressorOnly(i, "prctl")

\* stress_parent_died_alarm
ParentDiedAlarm(i) ==
    /\ P[i].pc = "prctl"
    /\ SetP(i, [P[i] EXCEPT !.pc = "start", !.deathsig = TRUE])
    /\ UNCHANGED <<mainVars, envVars, statsVars, G>>

Work(i) == IF layout.kind[i] = "cpu" THEN "run" ELSE "page"

\* alarm(g_opt_timeout) replaces any earlier timer; then the flag is tested.
StartStressor(i) ==
    /\ P[i].pc = "start"
    /\ SetP(i, [P[i] EXCEPT !.timer = "timeout",
                            !.pc = IF P[i].flag THEN Work(i) ELSE "leave"])
    /\ UNCHANGED <<mainVars, envVars, statsVars, G>>

\* stress_cpu: the loop ends when the flag is down.
StopSpinning(i) == P[i].pc = "run" /\ ~P[i].flag /\ StressorOnly(i, "exit")

\* The stressor's function has returned: signals are blocked, the timer is
\* stopped, and stats->completed is set ...
Complete(i) ==
    /\ P[i].pc = "exit"
    /\ SetP(i, [P[i] EXCEPT !.pc = "sum", !.timer = "off"])
    /\ UNCHANGED <<mainVars, envVars, statsVars, G>>

\* ... before the counter is looked at and the checksum made of it.  A counter
\* left in mid-change replaces whatever the function returned.
ExitStressor(i) ==
    /\ P[i].pc \in {"leave", "sum"}
    /\ SetP(i, Dead(IF P[i].pc = "sum" /\ ~shared[i].ready THEN "untrustworthy"
                    ELSE P[i].status))
    /\ G' = [G EXCEPT ![i] = Bereaved(@)]
    /\ UNCHANGED <<mainVars, envVars, statsVars>>

-----------------------------------------------------------------------------
(* stress_vm, and stress_oomable_child which it calls.                     *)

\* The page for bit_error_count: a hundred attempts while the flag is up.
MapPage(i) ==
    /\ P[i].pc = "page"
    /\ \/ P[i].flag /\ SetP(i, [P[i] EXCEPT !.pc = "again"])
       \/ SetP(i, [P[i] EXCEPT !.pc = "exit", !.status = "no_resource"])
    /\ UNCHANGED <<mainVars, envVars, statsVars, G>>

\* time_end has passed only if the timer of StartStressor has run out.
Late(i) == P[i].timer # "timeout"

\* The end of stress_vm: bit errors found by any of the children are a failure.
Returned(i, p, rc) ==
    [p EXCEPT !.pc = "exit", !.status = IF shared[i].errors THEN "failed" ELSE rc]

\* VARIANT of SetCounter: the counter stays as the last child left it.
LeaveCounter(i) == UNCHANGED shared

\* stress_bogo_set: whatever a child that was killed left, the counter is ready.
SetCounter(i) == shared' = [shared EXCEPT ![i].ready = TRUE]

ReturnFromOomable(i, rc) == SetP(i, Returned(i, P[i], rc)) /\ SetCounter(i)

Again(i) ==
    /\ P[i].pc = "again"
    /\ \/ P[i].flag /\ SetP(i, [P[i] EXCEPT !.pc = "fork"]) /\ UNCHANGED shared
       \/ (~P[i].flag \/ Late(i)) /\ ReturnFromOomable(i, "ok")
    /\ UNCHANGED <<mainVars, envVars, calls, slot, signalled, G>>

ForkChild(i) ==
    /\ P[i].pc = "fork"
    /\ SetP(i, [P[i] EXCEPT !.pc = "wait"])
    /\ G' = [G EXCEPT ![i] = [NoChild EXCEPT !.pc = "boot", !.flag = P[i].flag]]
    /\ UNCHANGED <<mainVars, envVars, statsVars>>

\* EAGAIN and ENOMEM; any other error makes the stressor fail.
ForkChildFails(i) ==
    /\ P[i].pc = "fork"
    /\ \/ SetP(i, [P[i] EXCEPT !.pc = "again"]) /\ UNCHANGED shared
       \/ ReturnFromOomable(i, "failed")
    /\ UNCHANGED <<mainVars, envVars, calls, slot, signalled, G>>

EnterWaitpid(i) == P[i].pc = "wait" /\ StressorOnly(i, "blocked")

\* Killed before the last signal was due, or a fault: a new child.
Restart(i) ==
    \/ G[i].status = "fault"
    \/ G[i].status = "killed" /\ signals[P[i].idx] # "SIGKILL"

ReapChild(i) ==
    /\ P[i].pc = "blocked" /\ G[i].pc = "zombie"
    /\ IF Restart(i) THEN SetP(i, [P[i] EXCEPT !.pc = "again"]) /\ UNCHANGED shared
       ELSE ReturnFromOomable(i, IF G[i].status = "killed" THEN "ok" ELSE G[i].status)
    /\ G' = [G EXCEPT ![i] = NoChild]
    /\ UNCHANGED <<mainVars, envVars, calls, slot, signalled>>

\* stress_kill_sig(pid, signals[signal_idx]); after the last one the
\* stressor returns, without waiting again.  The handler of SIGTERM in the
\* child is stress_handle_terminate, which signals the other stressors
\* through the shared stats; its copy of calls is the stressor's, zero.
Escalate(i) ==
    /\ P[i].pc = "interrupted"
    /\ LET sig  == signals[P[i].idx]
           idx  == P[i].idx + 1
           next == [P[i] EXCEPT !.idx = idx, !.pc = "wait"]
           here == IF idx > Len(signals) THEN Returned(i, next, "ok") ELSE next
           T    == IF sig = "SIGTERM" /\ ChildIsUp(i) THEN Targets(slot) ELSE {}
           aim  == [P EXCEPT ![i] = here]
       IN /\ P' = [k \in Instance |-> IF k \in T THEN Alarmed(aim[k]) ELSE aim[k]]
          /\ signalled' = [k \in Instance |-> signalled[k] \/ k \in T]
          /\ IF idx > Len(signals) THEN SetCounter(i) ELSE UNCHANGED shared
          /\ G' = [G EXCEPT ![i] =
                     IF ~ChildIsUp(i) THEN @
                     ELSE CASE sig = "SIGALRM" -> [@ EXCEPT !.pending = TRUE]
                            [] sig = "SIGTERM" -> [@ EXCEPT !.flag = FALSE]
                            [] sig = "SIGKILL" -> DeadChild("killed")]
    /\ UNCHANGED <<mainVars, envVars, calls, slot>>

StressorStep(i) ==
    \/ SetHandler(i) \/ ParentDiedAlarm(i) \/ StartStressor(i) \/ StopSpinning(i)
    \/ Complete(i) \/ ExitStressor(i) \/ MapPage(i)
    \/ Again(i) \/ ForkChild(i) \/ ForkChildFails(i) \/ EnterWaitpid(i) \/ ReapChild(i)
    \/ Escalate(i)

-----------------------------------------------------------------------------
(* SIGALRM and the timers of a stressor.                                   *)

\* VARIANT of StopStressing: the signal is not asked for again.
StopStressingOnce(p, blocked) ==
    [p EXCEPT !.flag = FALSE, !.pending = FALSE,
              !.pc = IF blocked THEN "interrupted" ELSE @]

\* stress_sigalrm_handler in a child process: stress_handle_stop_stressing
\* clears the flag and asks for another SIGALRM in a second.  It interrupts
\* waitpid.
StopStressing(p, blocked) ==
    [p EXCEPT !.flag = FALSE, !.pending = FALSE, !.timer = "again",
              !.pc = IF blocked THEN "interrupted" ELSE @]

HandleAlarm(i) ==
    /\ P[i].pending /\ Up(i) /\ P[i].pc \notin Finishing
    /\ IF P[i].pc = "boot" THEN SetP(i, Dead("ok"))
       ELSE SetP(i, StopStressing(P[i], P[i].pc = "blocked" /\ G[i].pc # "zombie"))
    /\ UNCHANGED <<mainVars, envVars, statsVars, G>>

TimerRings(i, timer) ==
    /\ Up(i) /\ P[i].timer = timer
    /\ SetP(i, [P[i] EXCEPT !.timer = "off", !.pending = TRUE])
    /\ UNCHANGED <<mainVars, envVars, statsVars, G>>

TimeoutRings(i) == TimerRings(i, "timeout")
AgainRings(i)   == TimerRings(i, "again")

-----------------------------------------------------------------------------
(* The oomable child: the child branch of stress_oomable_child, and        *)
(* stress_vm_child.                                                        *)

SetG(i, g) == G' = [G EXCEPT ![i] = g] /\ UNCHANGED <<mainVars, envVars, statsVars, P>>

\* The flag is tested, then stress_parent_died_alarm.
BootChild(i) ==
    /\ G[i].pc = "boot"
    /\ SetG(i, IF G[i].flag THEN [G[i] EXCEPT !.pc = "check", !.deathsig = TRUE]
               ELSE DeadChild("ok"))

CheckChild(i) ==
    /\ G[i].pc = "check"
    /\ \/ G[i].flag /\ SetG(i, [G[i] EXCEPT !.pc = "run"])
       \/ (~G[i].flag \/ Late(i)) /\ SetG(i, DeadChild("ok"))

\* A pass of the loop of stress_vm_child: the method counts what it did with
\* stress_bogo_set, returns the bit errors it found, and the flag is tested.
BeginCount(i) ==
    /\ G[i].pc = "run"
    /\ G' = [G EXCEPT ![i].pc = "count"]
    /\ shared' = [shared EXCEPT ![i].ready = FALSE]
    /\ UNCHANGED <<mainVars, envVars, calls, slot, signalled, P>>

EndCount(i) ==
    /\ G[i].pc = "count"
    /\ G' = [G EXCEPT ![i] = IF @.flag THEN [@ EXCEPT !.pc = "run"] ELSE DeadChild("ok")]
    /\ \E found \in BOOLEAN :
          shared' = [shared EXCEPT ![i] = [ready |-> TRUE, errors |-> @.errors \/ found]]
    /\ UNCHANGED <<mainVars, envVars, calls, slot, signalled, P>>

\* The loop ends: told to, or no memory a hundred times.
StopWorking(i) == G[i].pc = "run" /\ ~G[i].flag /\ SetG(i, DeadChild("ok"))
NoMemory(i)    == G[i].pc = "run" /\ SetG(i, DeadChild("no_resource"))

ChildStep(i) == BootChild(i) \/ CheckChild(i) \/ EndCount(i) \/ StopWorking(i)

HandleChildAlarm(i) ==
    /\ G[i].pending /\ ChildIsUp(i)
    /\ SetG(i, [G[i] EXCEPT !.flag = FALSE, !.pending = FALSE, !.timer = TRUE])

ChildAgainRings(i) ==
    /\ ChildIsUp(i) /\ G[i].timer
    /\ SetG(i, [G[i] EXCEPT !.timer = FALSE, !.pending = TRUE])

-----------------------------------------------------------------------------
(* What the host does.                                                     *)

\* SIGBUS or SIGSEGV in the worker.
ChildFaults(i) ==
    /\ G[i].pc = "run" /\ faults < MaxFaults
    /\ faults' = faults + 1
    /\ G' = [G EXCEPT ![i] = DeadChild("fault")]
    /\ UNCHANGED <<mainVars, statsVars, P, layout, terms, kills>>

Kill == kills < MaxKills /\ kills' = kills + 1 /\ UNCHANGED <<layout, terms, faults>>

KillChild(i) ==
    /\ Kill /\ ChildIsUp(i)
    /\ G' = [G EXCEPT ![i] = DeadChild("killed")]
    /\ UNCHANGED <<mainVars, statsVars, P>>

KillStressor(i) ==
    /\ Kill /\ Up(i)
    /\ SetP(i, Slain(P[i]))
    /\ G' = [G EXCEPT ![i] = Bereaved(@)]
    /\ UNCHANGED <<mainVars, statsVars>>

KillMain == Kill /\ MainUp /\ MainDies("killed")

\* init reaps what has lost its parent.
InitReaps(i) ==
    \/ /\ ~MainUp /\ P[i].pc = "zombie"
       /\ StressorOnly(i, "gone")
    \/ /\ ~Up(i) /\ G[i].pc = "zombie"
       /\ SetG(i, NoChild)

AllGone ==
    /\ ~MainUp
    /\ \A i \in Instance : P[i].pc \in {"none", "gone"} /\ G[i].pc = "none"

\* The run is over and nothing of it is left.
Done == AllGone /\ UNCHANGED vars

-----------------------------------------------------------------------------
Next ==
    \/ MainStep \/ Terminate \/ FatalSignal \/ KillMain \/ Done
    \/ \E i \in Instance :
        \/ StressorStep(i) \/ HandleAlarm(i) \/ TimeoutRings(i) \/ AgainRings(i)
        \/ ChildStep(i) \/ BeginCount(i) \/ NoMemory(i) \/ HandleChildAlarm(i) \/ ChildAgainRings(i)
        \/ ChildFaults(i) \/ KillChild(i) \/ KillStressor(i) \/ InitReaps(i)

Spec == Init /\ [][Next]_vars

\* Every process runs, and a one second timer rings; the timeout of the
\* command line may be as far off as it likes.
FairSpec ==
    /\ Spec
    /\ WF_vars(MainStep)
    /\ \A i \in Instance :
        /\ WF_vars(StressorStep(i)) /\ WF_vars(HandleAlarm(i)) /\ WF_vars(AgainRings(i))
        /\ WF_vars(ChildStep(i)) /\ WF_vars(HandleChildAlarm(i)) /\ WF_vars(ChildAgainRings(i))

-----------------------------------------------------------------------------
(* Properties.                                                             *)

\* Types: every variable holds what the code can put there.
TypeOK ==
    /\ layout \in Layout
    /\ mpc \in {"next", "fork", "record", "startup", "wait", "reaped", "exited", "aborting",
               "aborted", "killed"}
    /\ j \in 1 .. N + 1
    /\ mflag \in BOOLEAN
    /\ calls \in 0 .. SigkillAfter + 1
    /\ exitcode \in Status
    /\ credit \in [Instance -> 0 .. N]
    /\ slot \in [Instance -> {"zero", "minus_one", "pid"}]
    /\ signalled \in [Instance -> BOOLEAN]
    /\ shared \in [Instance -> [ready : BOOLEAN, errors : BOOLEAN]]
    /\ P \in [Instance -> [pc : StressorUp \cup {"none", "zombie", "gone"},
                           flag : BOOLEAN, pending : BOOLEAN,
                           timer : {"off", "timeout", "again"}, deathsig : BOOLEAN,
                           idx : 1 .. 7, status : Status \cup {"killed", "torn"}]]
    /\ G \in [Instance -> [pc : ChildUp \cup {"none", "zombie"}, flag : BOOLEAN,
                           pending : BOOLEAN, timer : BOOLEAN, deathsig : BOOLEAN,
                           status : {"ok", "no_resource", "killed", "fault"}]]
    /\ terms \in 0 .. MaxTerms /\ kills \in 0 .. MaxKills /\ faults \in 0 .. MaxFaults

\* SIGKILL struck the stressor itself.
Struck(i) == P[i].status \in {"killed", "torn"}

\* A stressor that ends leaves no child of its own at work, whichever of the
\* six signals, restarts and races ended the wait (core-out-of-memory.c).
StressorLeavesNoChild ==
    \A i \in Instance : P[i].pc \in {"zombie", "gone"} /\ ~Struck(i) => ~ChildIsUp(i)

\* What terminate() and wait() in a scenario's cleanup rely on: when the main
\* process has exited, every stressor has been reaped, whatever failed or
\* was interrupted while it was starting them.
ExitLeavesNoStressor ==
    mpc = "exited" => \A i \in Instance : P[i].pc \in {"none", "gone"}

\* A stressor has been told to stop: its flag is down or will be.
Told(i) == ~P[i].flag \/ P[i].pending

\* A terminating signal reaches every stressor, also the one that was being
\* forked when it arrived and had no pid in the table yet.
StopReachesAll ==
    mpc \in {"wait", "reaped"} /\ ~mflag => \A i \in Instance : Up(i) => Told(i)

\* The wait for a slot of minus one takes any child: no status is ever
\* credited to another instance than the one it came from.
CreditedToItsOwn == \A i \in Instance : credit[i] \in {0, i}

Ended(status) == \E i \in Instance : P[i].pc = "gone" /\ P[i].status = status

\* The exit code carries the worst of what the stressors ended with, and bit
\* errors that a worker found make it a failure: neither a restart of the
\* worker, nor its death in the middle of counting, after which
\* EXIT_METRICS_UNTRUSTWORTHY would replace the failure, hides them.
ExitCodeCoversAll ==
    mpc = "exited" =>
        /\ exitcode = IF Ended("failed") \/ Ended("torn") THEN "failed"
                      ELSE IF Ended("no_resource") THEN "no_resource"
                      ELSE IF Ended("untrustworthy") THEN "untrustworthy" ELSE "ok"
        /\ \A i \in Instance : shared[i].errors /\ ~Struck(i) => exitcode = "failed"

\* After a terminating signal the run ends without the help of its timeout.
TerminateEnds == ~mflag ~> ~MainUp

\* Once the timeout of every stressor has run out, the run ends.
TimedOut(i) == P[i].pc \notin {"boot", "prctl", "start"} /\ (Up(i) => Late(i))

TimeoutEnds == mpc \in {"wait", "reaped"} /\ (\A i \in Instance : TimedOut(i)) ~> ~MainUp

-----------------------------------------------------------------------------
(* The promise a scenario works with.                                      *)

Process == INSTANCE StressProcess WITH
    up     <- MainUp,
    load   <- \E i \in Instance : Up(i) \/ ChildIsUp(i),
    struck <- mpc \in {"aborted", "killed"} \/ \E i \in Instance : Struck(i)

\* The main process leaves no load behind, and puts none on the host again.
ImplementsProcess == Process!Spec

=============================================================================
