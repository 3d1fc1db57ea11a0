------------------------------ MODULE SpinMutex ------------------------------
(***************************************************************************)
(* The two stressors that put a mutual exclusion algorithm of shared       *)
(* variables to the test, Peterson's (stress-peterson.c) and Dekker's      *)
(* (stress-dekker.c): the stressor, process 1, forks a child, process 0;   *)
(* both enter a critical section over and over, and each verifies there    *)
(* that nobody else touched the counter "check".                           *)
(*                                                                         *)
(* A store waits in the store buffer of its processor until the hardware   *)
(* writes it to memory; the process that issued it sees it at once.        *)
(* shim_mfence waits until the buffer is empty.                            *)
(***************************************************************************)
EXTENDS Integers, Sequences

CONSTANTS
    Algorithm,      \* the stressors run: a subset of {"peterson", "dekker"}
    Fifo,           \* stores reach memory in program order, as on x86
    MaxOps,         \* the values of args->max_ops, 0 for no limit
    Wrap            \* check counts modulo Wrap, 2^32 in the code

ASSUME SpinMutexAssumption ==
    /\ Algorithm \subseteq {"peterson", "dekker"}
    /\ Fifo \in BOOLEAN
    /\ MaxOps \subseteq Nat
    /\ Wrap \in Nat /\ Wrap > 2

Proc == {0, 1}
Other(p) == 1 - p

\* flag of Peterson's algorithm is wants_to_enter of Dekker's.
Flag(p) == IF p = 0 THEN "flag0" ELSE "flag1"
Variable == {"flag0", "flag1", "turn", "check"}

VARIABLES
    algorithm,  \* the stressor of this run
    max_ops,
    memory,     \* the shared page, as the memory holds it
    buffer,     \* the store buffer of each process: [name, value], oldest first
    pc,
    check0,     \* the counter as read on entry
    loaded,     \* the load of check++ and of check--
    check1,     \* the counter as read after it was changed
    told,       \* SIGALRM has cleared the parent's g_stress_continue_flag
    ops,        \* the bogo operations counted, up to max_ops
    failed      \* pr_fail: the verification failed

locals == <<check0, loaded, check1>>
run    == <<algorithm, max_ops>>
vars   == <<algorithm, max_ops, memory, buffer, pc, check0, loaded, check1, told, ops, failed>>

Init ==
    /\ algorithm \in Algorithm /\ max_ops \in MaxOps
    /\ memory = [x \in Variable |-> 0]
    /\ buffer = [p \in Proc |-> <<>>]
    /\ pc = [p \in Proc |-> "idle"]
    /\ check0 = [p \in Proc |-> 0]
    /\ loaded = [p \in Proc |-> 0]
    /\ check1 = [p \in Proc |-> 0]
    /\ told = FALSE /\ ops = 0 /\ failed = FALSE

-----------------------------------------------------------------------------
(* Memory.                                                                 *)

Pending(p, x) == {i \in DOMAIN buffer[p] : buffer[p][i].name = x}

\* The youngest store of one's own, or else the memory.
Read(p, x) ==
    IF Pending(p, x) = {} THEN memory[x]
    ELSE buffer[p][CHOOSE i \in Pending(p, x) : \A k \in Pending(p, x) : k <= i].value

Store(p, x, v) ==
    /\ buffer' = [buffer EXCEPT ![p] = Append(@, [name |-> x, value |-> v])]
    /\ UNCHANGED memory

\* The stores the hardware may write next: the oldest one, or the oldest one
\* of some variable where stores are not kept in order.
Next_to_memory(p) ==
    {i \in DOMAIN buffer[p] :
        \A k \in 1 .. i - 1 : ~Fifo /\ buffer[p][k].name # buffer[p][i].name}

Without(s, i) == [k \in 1 .. Len(s) - 1 |-> IF k < i THEN s[k] ELSE s[k + 1]]

Drain(p) ==
    /\ \E i \in Next_to_memory(p) :
        /\ memory' = [memory EXCEPT ![buffer[p][i].name] = buffer[p][i].value]
        /\ buffer' = [buffer EXCEPT ![p] = Without(@, i)]
    /\ UNCHANGED <<run, pc, locals, told, ops, failed>>

-----------------------------------------------------------------------------
(* One step per access to shared memory.                                   *)

Goto(p, from, to) == pc[p] = from /\ pc' = [pc EXCEPT ![p] = to]

Access == UNCHANGED <<memory, buffer>>
Quiet  == UNCHANGED <<run, locals, told, ops, failed>>

\* VARIANT of Fence: a fence that does not wait.
NoFence(p) == Access /\ p \in Proc

\* shim_mfence
Fence(p) == buffer[p] = <<>> /\ Access

\* VARIANT of stress_continue: only the number of operations counts.
ContinueUntold(p) == p \in Proc /\ (max_ops = 0 \/ ops < max_ops)

\* stress_continue: the child has a flag of its own, which nobody clears.
stress_continue(p) == ~(p = 1 /\ told) /\ (max_ops = 0 \/ ops < max_ops)

LoopTest(p) ==
    /\ pc[p] = "idle"
    /\ pc' = [pc EXCEPT ![p] = IF stress_continue(p) THEN "raise"
                               ELSE IF p = 0 THEN "gone" ELSE "kill"]
    /\ Access /\ Quiet

Raise(p) ==
    /\ Goto(p, "raise", IF algorithm = "peterson" THEN "defer" ELSE "fence")
    /\ Store(p, Flag(p), 1) /\ Quiet

\* VARIANT of Defer: everyone takes the turn.
DeferNot(p) == Goto(p, "defer", "fence") /\ Store(p, "turn", p) /\ Quiet

\* Peterson: the other one goes first.
Defer(p) == Goto(p, "defer", "fence") /\ Store(p, "turn", Other(p)) /\ Quiet

FenceIn(p) == Goto(p, "fence", "test_flag") /\ Fence(p) /\ Quiet

TestFlag(p) ==
    /\ Goto(p, "test_flag", IF Read(p, Flag(Other(p))) = 1 THEN "test_turn" ELSE "enter")
    /\ Access /\ Quiet

TestTurn(p) ==
    /\ Goto(p, "test_turn",
            IF algorithm = "peterson"
            THEN IF Read(p, "turn") = Other(p) THEN "test_flag" ELSE "enter"
            ELSE IF Read(p, "turn") = Other(p) THEN "lower" ELSE "test_flag")
    /\ Access /\ Quiet

\* Dekker: step back until it is one's turn.
Lower(p)   == Goto(p, "lower", "fence_back") /\ Store(p, Flag(p), 0) /\ Quiet
FenceBack(p) == Goto(p, "fence_back", "spin") /\ Fence(p) /\ Quiet
Spin(p)    == Read(p, "turn") = p /\ Goto(p, "spin", "raise") /\ Access /\ Quiet

-----------------------------------------------------------------------------
(* The critical section: check++ in the child, check-- in the parent.      *)

\* VARIANT of Changed: a counter with a sign.
ChangedSigned(p, v) == IF p = 0 THEN v + 1 ELSE v - 1

Changed(p, v) == (IF p = 0 THEN v + 1 ELSE v + Wrap - 1) % Wrap

Enter(p) ==
    /\ Goto(p, "enter", "load") /\ Access
    /\ check0' = [check0 EXCEPT ![p] = Read(p, "check")]
    /\ UNCHANGED <<run, loaded, check1, told, ops, failed>>

LoadCheck(p) ==
    /\ Goto(p, "load", "store") /\ Access
    /\ loaded' = [loaded EXCEPT ![p] = Read(p, "check")]
    /\ UNCHANGED <<run, check0, check1, told, ops, failed>>

\* VARIANT of StoreCheck: the flag is lowered before the counter is stored.
StoreCheckLate(p) ==
    /\ Goto(p, "store", "reload") /\ Quiet /\ UNCHANGED memory
    /\ buffer' = [buffer EXCEPT ![p] = @ \o <<[name |-> Flag(p), value |-> 0],
                                             [name |-> "check", value |-> Changed(p, loaded[p])]>>]

StoreCheck(p) ==
    /\ Goto(p, "store", "reload") /\ Store(p, "check", Changed(p, loaded[p])) /\ Quiet

\* The parent counts the operation.
Reload(p) ==
    /\ Goto(p, "reload", IF algorithm = "peterson" THEN "leave" ELSE "pass") /\ Access
    /\ check1' = [check1 EXCEPT ![p] = Read(p, "check")]
    /\ ops' = IF p = 1 /\ ops < max_ops THEN ops + 1 ELSE ops
    /\ UNCHANGED <<run, check0, loaded, told, failed>>

\* VARIANT of Pass: the turn is kept.
PassKeeps(p) == Goto(p, "pass", "leave") /\ Access /\ Quiet

\* Dekker: the other one's turn.
Pass(p) == Goto(p, "pass", "leave") /\ Store(p, "turn", Other(p)) /\ Quiet

Leave(p) == Goto(p, "leave", "verify") /\ Store(p, Flag(p), 0) /\ Quiet

\* The fence, and the test of what was read.
Verify(p) ==
    /\ Goto(p, "verify", "idle") /\ Fence(p)
    /\ failed' = (failed \/ Changed(p, check0[p]) # check1[p])
    /\ UNCHANGED <<run, locals, told, ops>>

-----------------------------------------------------------------------------
\* stress_kill_pid_wait in the parent, wherever the child is; what is in the
\* child's store buffer still reaches memory.
KillChild ==
    /\ pc[1] = "kill"
    /\ pc' = [pc EXCEPT ![0] = "gone", ![1] = "done"]
    /\ Access /\ Quiet

\* The handler of SIGALRM in the parent.
Tell ==
    /\ ~told /\ pc[1] # "done"
    /\ told' = TRUE
    /\ UNCHANGED <<run, memory, buffer, pc, locals, ops, failed>>

Finished == pc[1] = "done" /\ (\A p \in Proc : buffer[p] = <<>>) /\ UNCHANGED vars

Step(p) ==
    \/ LoopTest(p) \/ Raise(p) \/ Defer(p) \/ FenceIn(p) \/ TestFlag(p) \/ TestTurn(p)
    \/ Lower(p) \/ FenceBack(p) \/ Spin(p)
    \/ Enter(p) \/ LoadCheck(p) \/ StoreCheck(p) \/ Reload(p) \/ Pass(p) \/ Leave(p)
    \/ Verify(p)

Next == (\E p \in Proc : Step(p) \/ Drain(p)) \/ KillChild \/ Tell \/ Finished

Spec == Init /\ [][Next]_vars

\* Both processes run, and a store does not stay in its buffer for ever.
FairSpec == Spec /\ WF_vars(KillChild) /\ \A p \in Proc : WF_vars(Step(p)) /\ WF_vars(Drain(p))

-----------------------------------------------------------------------------
(* Properties.                                                             *)

Inside == {"enter", "load", "store", "reload", "pass", "leave"}
Waiting == {"raise", "defer", "fence", "test_flag", "test_turn", "lower", "fence_back", "spin"}

\* Types: every variable holds what the code can put there.
TypeOK ==
    /\ algorithm \in Algorithm /\ max_ops \in MaxOps
    /\ memory \in [Variable -> 0 .. Wrap - 1]
    /\ buffer \in [Proc -> Seq([name : Variable, value : 0 .. Wrap - 1])]
    /\ pc \in [Proc -> Inside \cup Waiting \cup {"idle", "verify", "gone", "kill", "done"}]
    /\ check0 \in [Proc -> 0 .. Wrap - 1]
    /\ loaded \in [Proc -> 0 .. Wrap - 1]
    /\ check1 \in [Proc -> 0 .. Wrap - 1]
    /\ told \in BOOLEAN /\ ops \in 0 .. max_ops /\ failed \in BOOLEAN

\* With stores in order, the fences keep the two out of the critical section
\* at the same time, up to the store that leaves it.
MutualExclusion == ~(pc[0] \in Inside /\ pc[1] \in Inside)

\* The stressors' own test, "mutex check failed", never fires.
CheckHolds == ~failed

\* Neither process waits for ever, although the other one may enter again and
\* again, or stop; the child may be killed instead.
WaitEnds == \A p \in Proc : pc[p] \in Waiting ~> pc[p] \in Inside \cup {"gone"}

\* The loops that wait do not look at the flag, and yet the stressor ends
\* once it is told to.
ToldEnds == told ~> pc[1] = "done"
=============================================================================
