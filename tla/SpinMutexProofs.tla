--------------------------- MODULE SpinMutexProofs ---------------------------
(***************************************************************************)
(* Theorems about SpinMutex: for Peterson's and Dekker's stressor alike,   *)
(* whatever max_ops and the width of the counter, store buffers that keep  *)
(* their order and the fences where the code has them are enough.          *)
(***************************************************************************)
EXTENDS SpinMutex, SequenceTheorems, TLAPS

-----------------------------------------------------------------------------
(* The inductive invariant.                                                *)

Peterson == algorithm = "peterson"

Lone == {"idle", "raise", "test_flag", "test_turn", "lower", "spin", "enter", "load", "store",
         "kill", "done"}

\* Each process, and each algorithm, keeps to its own part of the code.
PlacesOK ==
    /\ pc[0] \notin {"kill", "done"} /\ pc[1] # "gone"
    /\ pc[1] = "done" => pc[0] = "gone"
    /\ \A p \in Proc : pc[p] \notin (IF Peterson THEN {"lower", "fence_back", "spin", "pass"}
                                     ELSE {"defer"})

Entry == [name : Variable, value : 0 .. Wrap - 1]

Up(p)     == [name |-> Flag(p), value |-> 1]
Down(p)   == [name |-> Flag(p), value |-> 0]
Turn(p)   == [name |-> "turn", value |-> Other(p)]
Check(p)  == [name |-> "check", value |-> Changed(p, loaded[p])]

\* What may be left in a buffer, place by place.
BufferOK(p) ==
    /\ pc[p] \in Lone => buffer[p] = <<>>
    /\ pc[p] = "defer" => buffer[p] \in {<<Up(p)>>, <<>>}
    /\ pc[p] = "fence" /\ Peterson => buffer[p] \in {<<Up(p), Turn(p)>>, <<Turn(p)>>, <<>>}
    /\ pc[p] = "fence" /\ ~Peterson => buffer[p] \in {<<Up(p)>>, <<>>}
    /\ pc[p] = "fence_back" => buffer[p] \in {<<Down(p)>>, <<>>}
    /\ pc[p] \in {"reload", "pass"} => buffer[p] \in {<<Check(p)>>, <<>>}
    /\ pc[p] = "leave" /\ Peterson => buffer[p] \in {<<Check(p)>>, <<>>}
    /\ pc[p] = "leave" /\ ~Peterson =>
          buffer[p] \in {<<Check(p), Turn(p)>>, <<Turn(p)>>, <<>>}
    /\ pc[p] = "verify" /\ Peterson => buffer[p] \in {<<Check(p), Down(p)>>, <<Down(p)>>, <<>>}
    /\ pc[p] = "verify" /\ ~Peterson =>
          buffer[p] \in {<<Check(p), Turn(p), Down(p)>>, <<Turn(p), Down(p)>>, <<Down(p)>>, <<>>}

\* A child that left by itself has written everything.
GoneOK == pc[0] = "gone" /\ pc[1] # "done" => buffer[0] = <<>>

\* The critical section lasts until the store that leaves it is in memory.
Holds(p) == pc[p] \in Inside \/ (pc[p] = "verify" /\ buffer[p] # <<>>)

\* The flag is up in memory.
Raised(p) ==
    \/ Holds(p)
    \/ pc[p] \in {"test_flag", "test_turn", "lower"}
    \/ pc[p] = "defer" /\ buffer[p] = <<>>
    \/ pc[p] = "fence" /\ buffer[p] \in {<<Turn(p)>>, <<>>}
    \/ pc[p] = "fence_back" /\ buffer[p] # <<>>

FlagOK(p) == Raised(p) => memory[Flag(p)] = 1

\* Peterson: who asks while the other one holds has given the turn away.
Asking(p) == pc[p] \in {"test_flag", "test_turn"} \/ (pc[p] = "fence" /\ buffer[p] = <<>>)

TurnOK(p) == Peterson /\ Holds(p) /\ Asking(Other(p)) => memory["turn"] = p

TurnValue == pc[1] # "done" => memory["turn"] \in Proc

HoldsAlone == ~(Holds(0) /\ Holds(1))

\* The counter is what it was on entry, then what one's change has made of it.
CounterOK(p) ==
    /\ pc[p] = "load" => memory["check"] = check0[p]
    /\ pc[p] = "store" => memory["check"] = check0[p] /\ loaded[p] = check0[p]
    /\ pc[p] = "reload" =>
          loaded[p] = check0[p] /\ (buffer[p] = <<>> => memory["check"] = Changed(p, check0[p]))
    /\ pc[p] \in {"pass", "leave", "verify"} => check1[p] = Changed(p, check0[p])

ProcOK(p) == BufferOK(p) /\ FlagOK(p) /\ TurnOK(p) /\ CounterOK(p)

IInv ==
    /\ TypeOK /\ PlacesOK /\ GoneOK /\ TurnValue
    /\ \A p \in Proc : ProcOK(p)
    /\ HoldsAlone /\ CheckHolds

-----------------------------------------------------------------------------
(* Data.                                                                   *)

\* The two processes, and their two flags.
LEMMA TwoProcesses ==
    \A p \in Proc : /\ Other(p) \in Proc /\ Other(p) # p /\ Other(Other(p)) = p
                    /\ \A q \in Proc : q = p \/ q = Other(p)
                    /\ Flag(p) \in Variable /\ Flag(p) # Flag(Other(p))
                    /\ Flag(p) \notin {"turn", "check"}
BY DEF Proc, Other, Flag, Variable

\* The counter stays within its width.
LEMMA ChangedInRange ==
    ASSUME NEW p \in Proc, NEW v \in 0 .. Wrap - 1
    PROVE  Changed(p, v) \in 0 .. Wrap - 1
<1>1. (v + 1) % Wrap \in 0 .. Wrap - 1
  BY SpinMutexAssumption
<1>2. (v + Wrap - 1) % Wrap \in 0 .. Wrap - 1
  BY SpinMutexAssumption
<1> QED
  BY <1>1, <1>2 DEF Changed

\* A process with nothing in its buffer reads the memory.
LEMMA ReadMemory ==
    ASSUME NEW p, NEW x, buffer[p] = <<>>
    PROVE  Read(p, x) = memory[x]
BY DEF Read, Pending

\* So does one that has just passed a fence, or not stored anything yet.
LEMMA LoneReads ==
    ASSUME TypeOK, NEW p \in Proc, BufferOK(p), pc[p] \in Lone
    PROVE  /\ buffer[p] = <<>> /\ \A x : Read(p, x) = memory[x]
           /\ Read(p, "check") \in 0 .. Wrap - 1
<1>1. buffer[p] = <<>>
  BY DEF BufferOK
<1>2. \A x : Read(p, x) = memory[x]
  BY <1>1, ReadMemory
<1>3. memory["check"] \in 0 .. Wrap - 1
  BY DEF TypeOK, Variable
<1> QED
  BY <1>1, <1>2, <1>3

\* A process reads its own store.
LEMMA ReadOwn ==
    ASSUME NEW p, NEW x, NEW v, buffer[p] = <<[name |-> x, value |-> v]>>
    PROVE  Read(p, x) = v
BY DEF Read, Pending

\* Taking the first out of at most three stores.
LEMMA WithoutFirst ==
    /\ \A a : Without(<<a>>, 1) = <<>>
    /\ \A a, b : Without(<<a, b>>, 1) = <<b>>
    /\ \A a, b, c : Without(<<a, b, c>>, 1) = <<b, c>>
BY DEF Without

\* Adding a store to at most two.
LEMMA AppendLast ==
    ASSUME NEW S, NEW a \in S, NEW b \in S, NEW c \in S
    PROVE  /\ Append(<<>>, a) = <<a>>
           /\ Append(<<a>>, b) = <<a, b>>
           /\ Append(<<a, b>>, c) = <<a, b, c>>
<1> DEFINE t == Append(<<a>>, b)
           u == Append(<<a, b>>, c)
<1>1. Append(<<>>, a) = <<a>>
  OBVIOUS
<1>2. t = <<a, b>>
  <2>1. /\ <<a>> \in Seq(S) /\ Len(<<a>>) = 1 /\ <<a>>[1] = a
        /\ <<a, b>> \in Seq(S) /\ Len(<<a, b>>) = 2
    OBVIOUS
  <2>2. t \in Seq(S) /\ Len(t) = 2 /\ t[1] = a /\ t[2] = b
    BY <2>1, AppendProperties
  <2> HIDE DEF t
  <2>3. \A i \in 1 .. 2 : t[i] = <<a, b>>[i]
    BY <2>2
  <2> QED
    BY <2>1, <2>2, <2>3, SeqEqual
<1>3. u = <<a, b, c>>
  <2>1. /\ <<a, b>> \in Seq(S) /\ Len(<<a, b>>) = 2 /\ <<a, b>>[1] = a /\ <<a, b>>[2] = b
        /\ <<a, b, c>> \in Seq(S) /\ Len(<<a, b, c>>) = 3
    OBVIOUS
  <2>2. u \in Seq(S) /\ Len(u) = 3 /\ u[1] = a /\ u[2] = b /\ u[3] = c
    BY <2>1, AppendProperties
  <2> HIDE DEF u
  <2>3. \A i \in 1 .. 3 : u[i] = <<a, b, c>>[i]
    BY <2>2
  <2> QED
    BY <2>1, <2>2, <2>3, SeqEqual
<1> QED
  BY <1>1, <1>2, <1>3

\* The stores of the two stressors.
LEMMA Entries ==
    ASSUME TypeOK, NEW p \in Proc
    PROVE  /\ Up(p) \in Entry /\ Down(p) \in Entry /\ Turn(p) \in Entry /\ Check(p) \in Entry
           /\ Up(p) # Down(p)
<1>1. Flag(p) \in Variable /\ "turn" \in Variable /\ "check" \in Variable
  BY DEF Flag, Variable
<1>2. 0 \in 0 .. Wrap - 1 /\ 1 \in 0 .. Wrap - 1 /\ Other(p) \in 0 .. Wrap - 1
  BY SpinMutexAssumption DEF Proc, Other
<1>3. Changed(p, loaded[p]) \in 0 .. Wrap - 1
  BY ChangedInRange DEF TypeOK
<1> QED
  BY <1>1, <1>2, <1>3 DEF Entry, Up, Down, Turn, Check

\* With stores in order it is the first one that leaves the buffer.
LEMMA InOrder ==
    ASSUME Fifo, TypeOK, NEW p \in Proc, NEW i \in Next_to_memory(p)
    PROVE  i = 1 /\ buffer[p] # <<>>
<1>1. buffer[p] \in Seq([name : Variable, value : 0 .. Wrap - 1])
  BY DEF TypeOK
<1>2. i \in 1 .. Len(buffer[p]) /\ (\A k \in 1 .. i - 1 : ~Fifo)
  BY <1>1 DEF Next_to_memory
<1>3. CASE i # 1
  <2>1. 1 \in 1 .. i - 1
    BY <1>2, <1>3
  <2> QED
    BY <2>1, <1>2
<1> QED
  BY <1>1, <1>2, <1>3

\* What a store does to the buffers.
LEMMA StoreAppends ==
    ASSUME TypeOK, NEW p \in Proc, NEW x, NEW v, Store(p, x, v),
           [name |-> x, value |-> v] \in Entry
    PROVE  /\ buffer' \in [Proc -> Seq(Entry)]
           /\ buffer'[p] = Append(buffer[p], [name |-> x, value |-> v])
           /\ buffer'[Other(p)] = buffer[Other(p)]
           /\ memory' = memory
<1> DEFINE e == [name |-> x, value |-> v]
<1>1. buffer \in [Proc -> Seq(Entry)]
  BY DEF TypeOK, Entry
<1>2. buffer' = [buffer EXCEPT ![p] = Append(buffer[p], e)] /\ memory' = memory
  BY DEF Store
<1>3. Append(buffer[p], e) \in Seq(Entry)
  BY <1>1, AppendProperties
<1> HIDE DEF e
<1>4. /\ buffer' \in [Proc -> Seq(Entry)] /\ buffer'[p] = Append(buffer[p], e)
      /\ buffer'[Other(p)] = buffer[Other(p)]
  BY <1>1, <1>2, <1>3, TwoProcesses
<1> QED
  BY <1>2, <1>4 DEF e

\* The buffers the stores of one process make, and how they differ.
LEMMA Lists ==
    ASSUME TypeOK, NEW p \in Proc
    PROVE  /\ Append(<<>>, Up(p)) = <<Up(p)>>
           /\ Append(<<>>, Down(p)) = <<Down(p)>>
           /\ Append(<<>>, Turn(p)) = <<Turn(p)>>
           /\ Append(<<>>, Check(p)) = <<Check(p)>>
           /\ Append(<<Up(p)>>, Turn(p)) = <<Up(p), Turn(p)>>
           /\ Append(<<Check(p)>>, Turn(p)) = <<Check(p), Turn(p)>>
           /\ Append(<<Check(p)>>, Down(p)) = <<Check(p), Down(p)>>
           /\ Append(<<Turn(p)>>, Down(p)) = <<Turn(p), Down(p)>>
           /\ Append(<<Check(p), Turn(p)>>, Down(p)) = <<Check(p), Turn(p), Down(p)>>
           /\ <<Up(p)>> # <<Turn(p)>> /\ <<Up(p), Turn(p)>> # <<Turn(p)>>
           /\ <<Up(p), Turn(p)>> # <<>> /\ <<Up(p)>> # <<>> /\ <<Turn(p)>> # <<>>
           /\ <<Down(p)>> # <<>> /\ <<Check(p)>> # <<>>
<1>1. /\ Up(p) \in Entry /\ Down(p) \in Entry /\ Turn(p) \in Entry /\ Check(p) \in Entry
  BY Entries
<1>2. Up(p) # Turn(p)
  BY TwoProcesses DEF Up, Turn
<1>3. /\ Append(<<>>, Up(p)) = <<Up(p)>> /\ Append(<<>>, Down(p)) = <<Down(p)>>
      /\ Append(<<>>, Turn(p)) = <<Turn(p)>> /\ Append(<<>>, Check(p)) = <<Check(p)>>
  BY <1>1, AppendLast, Zenon
<1>4. /\ Append(<<Up(p)>>, Turn(p)) = <<Up(p), Turn(p)>>
      /\ Append(<<Check(p)>>, Turn(p)) = <<Check(p), Turn(p)>>
      /\ Append(<<Check(p)>>, Down(p)) = <<Check(p), Down(p)>>
      /\ Append(<<Turn(p)>>, Down(p)) = <<Turn(p), Down(p)>>
  BY <1>1, AppendLast, Zenon
<1>5. Append(<<Check(p), Turn(p)>>, Down(p)) = <<Check(p), Turn(p), Down(p)>>
  BY <1>1, AppendLast, Zenon
<1>6. /\ <<Up(p)>> # <<Turn(p)>> /\ <<Up(p), Turn(p)>> # <<Turn(p)>>
      /\ <<Up(p), Turn(p)>> # <<>> /\ <<Up(p)>> # <<>> /\ <<Turn(p)>> # <<>>
      /\ <<Down(p)>> # <<>> /\ <<Check(p)>> # <<>>
  BY <1>2
<1> QED
  BY <1>3, <1>4, <1>5, <1>6

\* A store is the same store after a step.
LEMMA Same ==
    ASSUME NEW p, loaded'[p] = loaded[p]
    PROVE  Up(p)' = Up(p) /\ Down(p)' = Down(p) /\ Turn(p)' = Turn(p) /\ Check(p)' = Check(p)
BY DEF Up, Down, Turn, Check

\* The other process, where the memory stays as it is.
Apart(q) ==
    /\ pc'[q] = pc[q] /\ buffer'[q] = buffer[q] /\ loaded'[q] = loaded[q]
    /\ check0'[q] = check0[q] /\ check1'[q] = check1[q]
    /\ memory' = memory /\ algorithm' = algorithm

\* A process that does nothing keeps what is known of it.
LEMMA OthersStay ==
    ASSUME NEW q \in Proc, ProcOK(q), Apart(q)
    PROVE  /\ BufferOK(q)' /\ FlagOK(q)' /\ CounterOK(q)'
           /\ Holds(q)' = Holds(q) /\ Asking(q)' = Asking(q)
<1> USE DEF Apart
<1>1. BufferOK(q)'
  BY DEF ProcOK, BufferOK, Lone, Peterson, Up, Down, Turn, Check
<1>2. FlagOK(q)'
  BY DEF ProcOK, FlagOK, Raised, Holds, Turn
<1>3. CounterOK(q)'
  BY DEF ProcOK, CounterOK
<1>4. Holds(q)' = Holds(q) /\ Asking(q)' = Asking(q)
  BY DEF Holds, Asking
<1> QED
  BY <1>1, <1>2, <1>3, <1>4

\* What is to be shown of a step of p that leaves the memory alone: of p
\* itself, and that p neither enters nor asks where the other one holds.
LEMMA Assemble ==
    ASSUME IInv, NEW p \in Proc, Apart(Other(p)),
           TypeOK', PlacesOK', GoneOK', BufferOK(p)', FlagOK(p)', CounterOK(p)', CheckHolds',
           pc[1] # "done",
           Holds(p)' => Holds(p) \/ ( /\ ~Holds(Other(p))
                                      /\ Peterson /\ Asking(Other(p)) => memory["turn"] = p ),
           Asking(p)' => Asking(p)
    PROVE  IInv'
<1>a. ProcOK(p) /\ ProcOK(Other(p)) /\ HoldsAlone /\ TurnValue
  BY TwoProcesses DEF IInv
<1>1. /\ BufferOK(Other(p))' /\ FlagOK(Other(p))' /\ CounterOK(Other(p))'
      /\ Holds(Other(p))' = Holds(Other(p)) /\ Asking(Other(p))' = Asking(Other(p))
  BY <1>a, OthersStay, TwoProcesses
<1>2. TurnOK(p)'
  BY <1>1, <1>a DEF TurnOK, ProcOK, Apart, Peterson
<1>3. TurnOK(Other(p))'
  BY <1>1, <1>a, TwoProcesses DEF TurnOK, ProcOK, Apart, Peterson
<1>4. ProcOK(p)' /\ ProcOK(Other(p))'
  BY <1>1, <1>2, <1>3 DEF ProcOK
<1>5. \A q \in Proc : ProcOK(q)'
  BY <1>4, TwoProcesses
<1>6. ~(Holds(p) /\ Holds(Other(p)))
  BY <1>a DEF HoldsAlone, Proc, Other
<1>7. ~(Holds(p)' /\ Holds(Other(p))')
  BY <1>1, <1>6
<1>8. HoldsAlone'
  BY <1>7 DEF HoldsAlone, Proc, Other
<1>9. TurnValue'
  BY <1>a DEF TurnValue, Apart
<1> QED
  BY <1>5, <1>8, <1>9 DEF IInv

-----------------------------------------------------------------------------
(* The steps of a process.                                                 *)

\* The loop's test keeps the invariant.
LEMMA LoopTestStep ==
    ASSUME Fifo, IInv, NEW p \in Proc, LoopTest(p)
    PROVE  IInv'
<1> USE TwoProcesses DEF LoopTest, stress_continue, Access, Quiet, run, locals
<1>a. TypeOK /\ PlacesOK /\ GoneOK /\ TurnValue /\ ProcOK(p) /\ ProcOK(Other(p)) /\ CheckHolds
  BY DEF IInv
<1> USE <1>a DEF ProcOK
<1>j. pc[p] = "idle" /\ algorithm \in {"peterson", "dekker"}
  BY SpinMutexAssumption DEF TypeOK
<1> USE <1>j
<1>k. pc[1] # "done"
  BY SMT DEF PlacesOK, Proc
<1>b. Apart(Other(p))
  BY SMT DEF Apart, TypeOK
<1>1. TypeOK'
  BY SpinMutexAssumption DEF TypeOK, Inside, Waiting, Variable, Entry
<1>2. PlacesOK'
  BY DEF PlacesOK, Peterson, TypeOK, Proc
<1>3. GoneOK'
  BY SMT DEF GoneOK, BufferOK, Lone, TypeOK, Proc
<1>4. BufferOK(p)'
  BY SMT DEF BufferOK, Lone, PlacesOK, Peterson, TypeOK, Up, Down, Turn, Check
<1>5. FlagOK(p)'
  BY SMT DEF FlagOK, Raised, Holds, Inside, BufferOK, Lone, PlacesOK, Peterson, TypeOK, Up,
     Down, Turn, Check
<1>6. Holds(p)' => Holds(p)
  BY SMT DEF Holds, Inside, TypeOK, Peterson
<1>7. Asking(p)' => Asking(p)
  BY SMT DEF Asking, BufferOK, Lone, PlacesOK, Peterson, TypeOK
<1>8. CounterOK(p)'
  BY SMT DEF CounterOK, BufferOK, Lone, PlacesOK, Peterson, TypeOK, Check
<1>9. CheckHolds'
  BY DEF CheckHolds, CounterOK
<1> QED
  BY <1>b, <1>k, <1>1, <1>2, <1>3, <1>4, <1>5, <1>6, <1>7, <1>8, <1>9, Assemble

\* Raising the flag keeps it.
LEMMA RaiseStep ==
    ASSUME Fifo, IInv, NEW p \in Proc, Raise(p)
    PROVE  IInv'
<1> USE TwoProcesses DEF Raise, Goto, Quiet, run, locals
<1>a. TypeOK /\ PlacesOK /\ GoneOK /\ TurnValue /\ ProcOK(p) /\ ProcOK(Other(p)) /\ CheckHolds
  BY DEF IInv
<1> USE <1>a DEF ProcOK
<1>j. pc[p] = "raise" /\ algorithm \in {"peterson", "dekker"}
  BY SpinMutexAssumption DEF TypeOK
<1> USE <1>j
<1>k. pc[1] # "done"
  BY SMT DEF PlacesOK, Proc
<1>0. /\ buffer' \in [Proc -> Seq(Entry)]
      /\ buffer'[p] = Append(buffer[p], Up(p))
      /\ buffer'[Other(p)] = buffer[Other(p)]
      /\ memory' = memory
  <2>1. [name |-> Flag(p), value |-> 1] \in Entry
    BY Entries DEF Up
  <2>2. Store(p, Flag(p), 1)
    OBVIOUS
  <2> QED
    BY <2>1, <2>2, StoreAppends DEF Up
<1>c. loaded'[p] = loaded[p] /\ loaded' = loaded
  OBVIOUS
<1>e. Up(p)' = Up(p) /\ Down(p)' = Down(p) /\ Turn(p)' = Turn(p) /\ Check(p)' = Check(p)
  BY <1>c, Same
<1>d. buffer'[p] \in {<<Up(p)>>}
  <2>1. buffer[p] = <<>>
    BY DEF BufferOK, Lone, PlacesOK
  <2> QED
    BY <1>0, <2>1, Lists
<1>f. Peterson' = Peterson /\ (Peterson => pc'[p] = "defer") /\ (~Peterson => pc'[p] = "fence")
  BY <1>j, SMT DEF Peterson, PlacesOK, TypeOK
<1>g. buffer'[p] # <<>> /\ buffer'[p] # <<Turn(p)>>
  BY <1>d, Lists
<1>b. Apart(Other(p))
  BY <1>0, <1>d, <1>e, Lists, <1>f, SMT DEF Apart, TypeOK
<1>1. TypeOK'
  BY <1>0, SpinMutexAssumption DEF TypeOK, Inside, Waiting, Variable, Entry
<1>2. PlacesOK'
  BY DEF PlacesOK, Peterson, TypeOK, Proc
<1>3. GoneOK'
  BY <1>0, <1>d, <1>e, Lists, <1>f, SMT DEF GoneOK, BufferOK, Lone, TypeOK, Proc
<1>4. BufferOK(p)'
  <2> HIDE <1>a DEF ProcOK, Raise, Goto, Quiet, run, locals
  <2> QED
    BY <1>d, <1>e, <1>f, SMT DEF BufferOK, Lone
<1>5. FlagOK(p)'
  <2> HIDE <1>a DEF ProcOK, Raise, Goto, Quiet, run, locals
  <2>1. Raised(p)' => Raised(p)
    BY <1>e, <1>f, <1>g, SMT DEF Raised, Holds, Inside
  <2>2. FlagOK(p)
    BY <1>a DEF ProcOK
  <2> QED
    BY <1>0, <2>1, <2>2 DEF FlagOK
<1>6. Holds(p)' => Holds(p)
  BY <1>0, <1>d, <1>e, Lists, SMT DEF Holds, Inside, TypeOK, Peterson, PlacesOK
<1>7. Asking(p)' => Asking(p)
  <2> HIDE <1>a DEF ProcOK, Raise, Goto, Quiet, run, locals
  <2> QED
    BY <1>f, <1>g, SMT DEF Asking
<1>8. CounterOK(p)'
  BY <1>0, <1>d, <1>e, Lists, <1>f, SMT DEF CounterOK, BufferOK, Lone, PlacesOK, Peterson,
     TypeOK
<1>9. CheckHolds'
  BY DEF CheckHolds, CounterOK
<1> QED
  BY <1>b, <1>k, <1>1, <1>2, <1>3, <1>4, <1>5, <1>6, <1>7, <1>8, <1>9, Assemble

\* Giving the turn away keeps it.
LEMMA DeferStep ==
    ASSUME Fifo, IInv, NEW p \in Proc, Defer(p)
    PROVE  IInv'
<1> USE TwoProcesses DEF Defer, Goto, Quiet, run, locals
<1>a. TypeOK /\ PlacesOK /\ GoneOK /\ TurnValue /\ ProcOK(p) /\ ProcOK(Other(p)) /\ CheckHolds
  BY DEF IInv
<1> USE <1>a DEF ProcOK
<1>j. pc[p] = "defer" /\ algorithm \in {"peterson", "dekker"}
  BY SpinMutexAssumption DEF TypeOK
<1> USE <1>j
<1>k. pc[1] # "done"
  BY SMT DEF PlacesOK, Proc
<1>0. /\ buffer' \in [Proc -> Seq(Entry)]
      /\ buffer'[p] = Append(buffer[p], Turn(p))
      /\ buffer'[Other(p)] = buffer[Other(p)]
      /\ memory' = memory
  <2>1. [name |-> "turn", value |-> Other(p)] \in Entry
    BY Entries DEF Turn
  <2>2. Store(p, "turn", Other(p))
    OBVIOUS
  <2> QED
    BY <2>1, <2>2, StoreAppends DEF Turn
<1>c. loaded'[p] = loaded[p] /\ loaded' = loaded
  OBVIOUS
<1>e. Up(p)' = Up(p) /\ Down(p)' = Down(p) /\ Turn(p)' = Turn(p) /\ Check(p)' = Check(p)
  BY <1>c, Same
<1>d. buffer'[p] \in {<<Up(p), Turn(p)>>, <<Turn(p)>>}
  <2>1. buffer[p] = <<Up(p)>> \/ buffer[p] = <<>>
    BY DEF BufferOK, PlacesOK
  <2> QED
    BY <1>0, <2>1, Lists
<1>f. Peterson' = Peterson /\ (Peterson => pc'[p] = "fence") /\ (~Peterson => FALSE)
  BY <1>j, SMT DEF Peterson, PlacesOK, TypeOK
<1>g. buffer'[p] # <<>> /\ (buffer'[p] = <<Turn(p)>> => buffer[p] = <<>>)
  <2>1. CASE buffer[p] = <<>>
    BY <1>d, <2>1, Lists
  <2>2. CASE buffer[p] = <<Up(p)>>
    <3>1. buffer'[p] = <<Up(p), Turn(p)>>
      BY <1>0, <2>2, Lists
    <3> QED
      BY <3>1, Lists
  <2> QED
    BY <2>1, <2>2 DEF BufferOK
<1>b. Apart(Other(p))
  BY <1>0, <1>d, <1>e, Lists, <1>f, SMT DEF Apart, TypeOK
<1>1. TypeOK'
  BY <1>0, SpinMutexAssumption DEF TypeOK, Inside, Waiting, Variable, Entry
<1>2. PlacesOK'
  BY DEF PlacesOK, Peterson, TypeOK, Proc
<1>3. GoneOK'
  BY <1>0, <1>d, <1>e, Lists, <1>f, SMT DEF GoneOK, BufferOK, Lone, TypeOK, Proc
<1>4. BufferOK(p)'
  <2> HIDE <1>a DEF ProcOK, Defer, Goto, Quiet, run, locals
  <2> QED
    BY <1>d, <1>e, <1>f, SMT DEF BufferOK, Lone
<1>5. FlagOK(p)'
  <2> HIDE <1>a DEF ProcOK, Defer, Goto, Quiet, run, locals
  <2>1. Raised(p)' => Raised(p)
    BY <1>e, <1>f, <1>g, SMT DEF Raised, Holds, Inside
  <2>2. FlagOK(p)
    BY <1>a DEF ProcOK
  <2> QED
    BY <1>0, <2>1, <2>2 DEF FlagOK
<1>6. Holds(p)' => Holds(p)
  BY <1>0, <1>d, <1>e, Lists, SMT DEF Holds, Inside, TypeOK, Peterson, PlacesOK
<1>7. Asking(p)' => Asking(p)
  <2> HIDE <1>a DEF ProcOK, Defer, Goto, Quiet, run, locals
  <2> QED
    BY <1>f, <1>g, SMT DEF Asking
<1>8. CounterOK(p)'
  BY <1>0, <1>d, <1>e, Lists, <1>f, SMT DEF CounterOK, BufferOK, Lone, PlacesOK, Peterson,
     TypeOK
<1>9. CheckHolds'
  BY DEF CheckHolds, CounterOK
<1> QED
  BY <1>b, <1>k, <1>1, <1>2, <1>3, <1>4, <1>5, <1>6, <1>7, <1>8, <1>9, Assemble

\* The fence before the tests keeps it.
LEMMA FenceInStep ==
    ASSUME Fifo, IInv, NEW p \in Proc, FenceIn(p)
    PROVE  IInv'
<1> USE TwoProcesses DEF FenceIn, Goto, Fence, Access, Quiet, run, locals
<1>a. TypeOK /\ PlacesOK /\ GoneOK /\ TurnValue /\ ProcOK(p) /\ ProcOK(Other(p)) /\ CheckHolds
  BY DEF IInv
<1> USE <1>a DEF ProcOK
<1>j. pc[p] = "fence" /\ algorithm \in {"peterson", "dekker"}
  BY SpinMutexAssumption DEF TypeOK
<1> USE <1>j
<1>k. pc[1] # "done"
  BY SMT DEF PlacesOK, Proc
<1>b. Apart(Other(p))
  BY SMT DEF Apart, TypeOK
<1>1. TypeOK'
  BY SpinMutexAssumption DEF TypeOK, Inside, Waiting, Variable, Entry
<1>2. PlacesOK'
  BY DEF PlacesOK, Peterson, TypeOK, Proc
<1>3. GoneOK'
  BY SMT DEF GoneOK, BufferOK, Lone, TypeOK, Proc
<1>4. BufferOK(p)'
  BY SMT DEF BufferOK, Lone, PlacesOK, Peterson, TypeOK, Up, Down, Turn, Check
<1>5. FlagOK(p)'
  BY SMT DEF FlagOK, Raised, Holds, Inside, BufferOK, Lone, PlacesOK, Peterson, TypeOK, Up,
     Down, Turn, Check
<1>6. Holds(p)' => Holds(p)
  BY SMT DEF Holds, Inside, TypeOK, Peterson
<1>7. Asking(p)' => Asking(p)
  BY SMT DEF Asking, BufferOK, Lone, PlacesOK, Peterson, TypeOK
<1>8. CounterOK(p)'
  BY SMT DEF CounterOK, BufferOK, Lone, PlacesOK, Peterson, TypeOK, Check
<1>9. CheckHolds'
  BY DEF CheckHolds, CounterOK
<1> QED
  BY <1>b, <1>k, <1>1, <1>2, <1>3, <1>4, <1>5, <1>6, <1>7, <1>8, <1>9, Assemble

\* Entering because the other flag is down keeps it: whoever holds or asks has it up.
LEMMA TestFlagStep ==
    ASSUME Fifo, IInv, NEW p \in Proc, TestFlag(p)
    PROVE  IInv'
<1> USE TwoProcesses DEF TestFlag, Goto, Access, Quiet, run, locals
<1>a. TypeOK /\ PlacesOK /\ GoneOK /\ TurnValue /\ ProcOK(p) /\ ProcOK(Other(p)) /\ CheckHolds
  BY DEF IInv
<1> USE <1>a DEF ProcOK
<1>j. pc[p] = "test_flag" /\ algorithm \in {"peterson", "dekker"}
  BY SpinMutexAssumption DEF TypeOK
<1> USE <1>j
<1>k. pc[1] # "done"
  BY SMT DEF PlacesOK, Proc
<1>l. pc[p] \in Lone
  BY DEF Lone
<1>0. buffer[p] = <<>> /\ (\A x : Read(p, x) = memory[x])
  BY <1>l, LoneReads
<1>b. Apart(Other(p))
  BY <1>0, SMT DEF Apart, TypeOK
<1>1. TypeOK'
  BY <1>0, SpinMutexAssumption DEF TypeOK, Inside, Waiting, Variable, Entry
<1>2. PlacesOK'
  BY DEF PlacesOK, Peterson, TypeOK, Proc
<1>3. GoneOK'
  BY <1>0, SMT DEF GoneOK, BufferOK, Lone, TypeOK, Proc
<1>4. BufferOK(p)'
  BY <1>0, SMT DEF BufferOK, Lone, PlacesOK, Peterson, TypeOK, Up, Down, Turn, Check
<1>5. FlagOK(p)'
  BY <1>0, SMT DEF FlagOK, Raised, Holds, Inside, BufferOK, Lone, PlacesOK, Peterson, TypeOK,
     Up, Down, Turn, Check
<1>6. Holds(p)' => ~Holds(Other(p)) /\ ~Asking(Other(p))
  <2>1. Holds(p)' => memory[Flag(Other(p))] # 1
    BY <1>0 DEF Holds, Inside, TypeOK
  <2>2. Holds(Other(p)) \/ Asking(Other(p)) => Raised(Other(p))
    BY DEF Raised, Asking
  <2> QED
    BY <2>1, <2>2 DEF FlagOK
<1>7. Asking(p)' => Asking(p)
  BY <1>0, SMT DEF Asking, BufferOK, Lone, PlacesOK, Peterson, TypeOK
<1>8. CounterOK(p)'
  BY <1>0, SMT DEF CounterOK, BufferOK, Lone, PlacesOK, Peterson, TypeOK, Check
<1>9. CheckHolds'
  BY DEF CheckHolds, CounterOK
<1> QED
  BY <1>b, <1>k, <1>1, <1>2, <1>3, <1>4, <1>5, <1>6, <1>7, <1>8, <1>9, Assemble

\* Entering because of the turn keeps it: whoever holds has been given the turn.
LEMMA TestTurnStep ==
    ASSUME Fifo, IInv, NEW p \in Proc, TestTurn(p)
    PROVE  IInv'
<1> USE TwoProcesses DEF TestTurn, Goto, Access, Quiet, run, locals
<1>a. TypeOK /\ PlacesOK /\ GoneOK /\ TurnValue /\ ProcOK(p) /\ ProcOK(Other(p)) /\ CheckHolds
  BY DEF IInv
<1> USE <1>a DEF ProcOK
<1>j. pc[p] = "test_turn" /\ algorithm \in {"peterson", "dekker"}
  BY SpinMutexAssumption DEF TypeOK
<1> USE <1>j
<1>k. pc[1] # "done"
  BY SMT DEF PlacesOK, Proc
<1>l. pc[p] \in Lone
  BY DEF Lone
<1>0. buffer[p] = <<>> /\ (\A x : Read(p, x) = memory[x])
  BY <1>l, LoneReads
<1>b. Apart(Other(p))
  BY <1>0, SMT DEF Apart, TypeOK
<1>1. TypeOK'
  BY <1>0, SpinMutexAssumption DEF TypeOK, Inside, Waiting, Variable, Entry
<1>2. PlacesOK'
  BY DEF PlacesOK, Peterson, TypeOK, Proc
<1>3. GoneOK'
  BY <1>0, SMT DEF GoneOK, BufferOK, Lone, TypeOK, Proc
<1>4. BufferOK(p)'
  BY <1>0, SMT DEF BufferOK, Lone, PlacesOK, Peterson, TypeOK, Up, Down, Turn, Check
<1>5. FlagOK(p)'
  BY <1>0, SMT DEF FlagOK, Raised, Holds, Inside, BufferOK, Lone, PlacesOK, Peterson, TypeOK,
     Up, Down, Turn, Check
<1>6. Holds(p)' => ~Holds(Other(p)) /\ (Peterson /\ Asking(Other(p)) => memory["turn"] = p)
  <2>1. Holds(p)' => Peterson /\ memory["turn"] # Other(p)
    BY <1>0 DEF Holds, Inside, TypeOK, Peterson
  <2>2. memory["turn"] \in Proc
    BY <1>k DEF TurnValue
  <2>3. Asking(p)
    BY DEF Asking
  <2>4. Holds(p)' => ~Holds(Other(p))
    BY <2>1, <2>3 DEF TurnOK
  <2> QED
    BY <2>1, <2>2, <2>4
<1>7. Asking(p)' => Asking(p)
  BY <1>0, SMT DEF Asking, BufferOK, Lone, PlacesOK, Peterson, TypeOK
<1>8. CounterOK(p)'
  BY <1>0, SMT DEF CounterOK, BufferOK, Lone, PlacesOK, Peterson, TypeOK, Check
<1>9. CheckHolds'
  BY DEF CheckHolds, CounterOK
<1> QED
  BY <1>b, <1>k, <1>1, <1>2, <1>3, <1>4, <1>5, <1>6, <1>7, <1>8, <1>9, Assemble

\* Stepping back keeps it.
LEMMA LowerStep ==
    ASSUME Fifo, IInv, NEW p \in Proc, Lower(p)
    PROVE  IInv'
<1> USE TwoProcesses DEF Lower, Goto, Quiet, run, locals
<1>a. TypeOK /\ PlacesOK /\ GoneOK /\ TurnValue /\ ProcOK(p) /\ ProcOK(Other(p)) /\ CheckHolds
  BY DEF IInv
<1> USE <1>a DEF ProcOK
<1>j. pc[p] = "lower" /\ algorithm \in {"peterson", "dekker"}
  BY SpinMutexAssumption DEF TypeOK
<1> USE <1>j
<1>k. pc[1] # "done"
  BY SMT DEF PlacesOK, Proc
<1>0. /\ buffer' \in [Proc -> Seq(Entry)]
      /\ buffer'[p] = Append(buffer[p], Down(p))
      /\ buffer'[Other(p)] = buffer[Other(p)]
      /\ memory' = memory
  <2>1. [name |-> Flag(p), value |-> 0] \in Entry
    BY Entries DEF Down
  <2>2. Store(p, Flag(p), 0)
    OBVIOUS
  <2> QED
    BY <2>1, <2>2, StoreAppends DEF Down
<1>c. loaded'[p] = loaded[p] /\ loaded' = loaded
  OBVIOUS
<1>e. Up(p)' = Up(p) /\ Down(p)' = Down(p) /\ Turn(p)' = Turn(p) /\ Check(p)' = Check(p)
  BY <1>c, Same
<1>d. buffer'[p] \in {<<Down(p)>>}
  <2>1. buffer[p] = <<>>
    BY DEF BufferOK, Lone, PlacesOK
  <2> QED
    BY <1>0, <2>1, Lists
<1>f. Peterson' = Peterson /\ (Peterson => FALSE) /\ (~Peterson => pc'[p] = "fence_back")
  BY <1>j, SMT DEF Peterson, PlacesOK, TypeOK
<1>b. Apart(Other(p))
  BY <1>0, <1>d, <1>e, Lists, <1>f, SMT DEF Apart, TypeOK
<1>1. TypeOK'
  BY <1>0, SpinMutexAssumption DEF TypeOK, Inside, Waiting, Variable, Entry
<1>2. PlacesOK'
  BY DEF PlacesOK, Peterson, TypeOK, Proc
<1>3. GoneOK'
  BY <1>0, <1>d, <1>e, Lists, <1>f, SMT DEF GoneOK, BufferOK, Lone, TypeOK, Proc
<1>4. BufferOK(p)'
  <2> HIDE <1>a DEF ProcOK, Lower, Goto, Quiet, run, locals
  <2> QED
    BY <1>d, <1>e, <1>f, SMT DEF BufferOK, Lone
<1>5. FlagOK(p)'
  BY <1>0, <1>d, <1>e, Lists, <1>f, SMT DEF FlagOK, Raised, Holds, Inside, BufferOK, Lone,
     PlacesOK, Peterson, TypeOK
<1>6. Holds(p)' => Holds(p)
  BY <1>0, <1>d, <1>e, Lists, SMT DEF Holds, Inside, TypeOK, Peterson, PlacesOK
<1>7. Asking(p)' => Asking(p)
  BY <1>0, <1>d, <1>e, Lists, <1>f, SMT DEF Asking, BufferOK, Lone, PlacesOK, Peterson, TypeOK
<1>8. CounterOK(p)'
  BY <1>0, <1>d, <1>e, Lists, <1>f, SMT DEF CounterOK, BufferOK, Lone, PlacesOK, Peterson,
     TypeOK
<1>9. CheckHolds'
  BY DEF CheckHolds, CounterOK
<1> QED
  BY <1>b, <1>k, <1>1, <1>2, <1>3, <1>4, <1>5, <1>6, <1>7, <1>8, <1>9, Assemble

\* The fence of the step back keeps it.
LEMMA FenceBackStep ==
    ASSUME Fifo, IInv, NEW p \in Proc, FenceBack(p)
    PROVE  IInv'
<1> USE TwoProcesses DEF FenceBack, Goto, Fence, Access, Quiet, run, locals
<1>a. TypeOK /\ PlacesOK /\ GoneOK /\ TurnValue /\ ProcOK(p) /\ ProcOK(Other(p)) /\ CheckHolds
  BY DEF IInv
<1> USE <1>a DEF ProcOK
<1>j. pc[p] = "fence_back" /\ algorithm \in {"peterson", "dekker"}
  BY SpinMutexAssumption DEF TypeOK
<1> USE <1>j
<1>k. pc[1] # "done"
  BY SMT DEF PlacesOK, Proc
<1>b. Apart(Other(p))
  BY SMT DEF Apart, TypeOK
<1>1. TypeOK'
  BY SpinMutexAssumption DEF TypeOK, Inside, Waiting, Variable, Entry
<1>2. PlacesOK'
  BY DEF PlacesOK, Peterson, TypeOK, Proc
<1>3. GoneOK'
  BY SMT DEF GoneOK, BufferOK, Lone, TypeOK, Proc
<1>4. BufferOK(p)'
  BY SMT DEF BufferOK, Lone, PlacesOK, Peterson, TypeOK, Up, Down, Turn, Check
<1>5. FlagOK(p)'
  BY SMT DEF FlagOK, Raised, Holds, Inside, BufferOK, Lone, PlacesOK, Peterson, TypeOK, Up,
     Down, Turn, Check
<1>6. Holds(p)' => Holds(p)
  BY SMT DEF Holds, Inside, TypeOK, Peterson
<1>7. Asking(p)' => Asking(p)
  BY SMT DEF Asking, BufferOK, Lone, PlacesOK, Peterson, TypeOK
<1>8. CounterOK(p)'
  BY SMT DEF CounterOK, BufferOK, Lone, PlacesOK, Peterson, TypeOK, Check
<1>9. CheckHolds'
  BY DEF CheckHolds, CounterOK
<1> QED
  BY <1>b, <1>k, <1>1, <1>2, <1>3, <1>4, <1>5, <1>6, <1>7, <1>8, <1>9, Assemble

\* Waiting for one's turn keeps it.
LEMMA SpinStep ==
    ASSUME Fifo, IInv, NEW p \in Proc, Spin(p)
    PROVE  IInv'
<1> USE TwoProcesses DEF Spin, Goto, Access, Quiet, run, locals
<1>a. TypeOK /\ PlacesOK /\ GoneOK /\ TurnValue /\ ProcOK(p) /\ ProcOK(Other(p)) /\ CheckHolds
  BY DEF IInv
<1> USE <1>a DEF ProcOK
<1>j. pc[p] = "spin" /\ algorithm \in {"peterson", "dekker"}
  BY SpinMutexAssumption DEF TypeOK
<1> USE <1>j
<1>k. pc[1] # "done"
  BY SMT DEF PlacesOK, Proc
<1>l. pc[p] \in Lone
  BY DEF Lone
<1>0. buffer[p] = <<>> /\ (\A x : Read(p, x) = memory[x])
  BY <1>l, LoneReads
<1>b. Apart(Other(p))
  BY <1>0, SMT DEF Apart, TypeOK
<1>1. TypeOK'
  BY <1>0, SpinMutexAssumption DEF TypeOK, Inside, Waiting, Variable, Entry
<1>2. PlacesOK'
  BY DEF PlacesOK, Peterson, TypeOK, Proc
<1>3. GoneOK'
  BY <1>0, SMT DEF GoneOK, BufferOK, Lone, TypeOK, Proc
<1>4. BufferOK(p)'
  BY <1>0, SMT DEF BufferOK, Lone, PlacesOK, Peterson, TypeOK, Up, Down, Turn, Check
<1>5. FlagOK(p)'
  BY <1>0, SMT DEF FlagOK, Raised, Holds, Inside, BufferOK, Lone, PlacesOK, Peterson, TypeOK,
     Up, Down, Turn, Check
<1>6. Holds(p)' => Holds(p)
  BY <1>0, SMT DEF Holds, Inside, TypeOK, Peterson
<1>7. Asking(p)' => Asking(p)
  BY <1>0, SMT DEF Asking, BufferOK, Lone, PlacesOK, Peterson, TypeOK
<1>8. CounterOK(p)'
  BY <1>0, SMT DEF CounterOK, BufferOK, Lone, PlacesOK, Peterson, TypeOK, Check
<1>9. CheckHolds'
  BY DEF CheckHolds, CounterOK
<1> QED
  BY <1>b, <1>k, <1>1, <1>2, <1>3, <1>4, <1>5, <1>6, <1>7, <1>8, <1>9, Assemble

\* Reading the counter on entry keeps it.
LEMMA EnterStep ==
    ASSUME Fifo, IInv, NEW p \in Proc, Enter(p)
    PROVE  IInv'
<1> USE TwoProcesses DEF Enter, Goto, Access, run, locals
<1>a. TypeOK /\ PlacesOK /\ GoneOK /\ TurnValue /\ ProcOK(p) /\ ProcOK(Other(p)) /\ CheckHolds
  BY DEF IInv
<1> USE <1>a DEF ProcOK
<1>j. pc[p] = "enter" /\ algorithm \in {"peterson", "dekker"}
  BY SpinMutexAssumption DEF TypeOK
<1> USE <1>j
<1>k. pc[1] # "done"
  BY SMT DEF PlacesOK, Proc
<1>l. pc[p] \in Lone
  BY DEF Lone
<1>0. buffer[p] = <<>> /\ (\A x : Read(p, x) = memory[x]) /\ Read(p, "check") \in 0 .. Wrap - 1
  BY <1>l, LoneReads
<1>b. Apart(Other(p))
  BY <1>0, SMT DEF Apart, TypeOK
<1>1. TypeOK'
  BY <1>0, SpinMutexAssumption DEF TypeOK, Inside, Waiting, Variable, Entry
<1>2. PlacesOK'
  BY DEF PlacesOK, Peterson, TypeOK, Proc
<1>3. GoneOK'
  BY <1>0, SMT DEF GoneOK, BufferOK, Lone, TypeOK, Proc
<1>4. BufferOK(p)'
  BY <1>0, SMT DEF BufferOK, Lone, PlacesOK, Peterson, TypeOK, Up, Down, Turn, Check
<1>5. FlagOK(p)'
  BY <1>0, SMT DEF FlagOK, Raised, Holds, Inside, BufferOK, Lone, PlacesOK, Peterson, TypeOK,
     Up, Down, Turn, Check
<1>6. Holds(p)' => Holds(p)
  BY <1>0, SMT DEF Holds, Inside, TypeOK, Peterson
<1>7. Asking(p)' => Asking(p)
  BY <1>0, SMT DEF Asking, BufferOK, Lone, PlacesOK, Peterson, TypeOK
<1>8. CounterOK(p)'
  BY <1>0, SMT DEF CounterOK, BufferOK, Lone, PlacesOK, Peterson, TypeOK, Check
<1>9. CheckHolds'
  BY DEF CheckHolds, CounterOK
<1> QED
  BY <1>b, <1>k, <1>1, <1>2, <1>3, <1>4, <1>5, <1>6, <1>7, <1>8, <1>9, Assemble

\* Loading the counter keeps it.
LEMMA LoadCheckStep ==
    ASSUME Fifo, IInv, NEW p \in Proc, LoadCheck(p)
    PROVE  IInv'
<1> USE TwoProcesses DEF LoadCheck, Goto, Access, run, locals
<1>a. TypeOK /\ PlacesOK /\ GoneOK /\ TurnValue /\ ProcOK(p) /\ ProcOK(Other(p)) /\ CheckHolds
  BY DEF IInv
<1> USE <1>a DEF ProcOK
<1>j. pc[p] = "load" /\ algorithm \in {"peterson", "dekker"}
  BY SpinMutexAssumption DEF TypeOK
<1> USE <1>j
<1>k. pc[1] # "done"
  BY SMT DEF PlacesOK, Proc
<1>l. pc[p] \in Lone
  BY DEF Lone
<1>0. buffer[p] = <<>> /\ (\A x : Read(p, x) = memory[x]) /\ Read(p, "check") \in 0 .. Wrap - 1
  BY <1>l, LoneReads
<1>b. Apart(Other(p))
  BY <1>0, SMT DEF Apart, TypeOK
<1>1. TypeOK'
  BY <1>0, SpinMutexAssumption DEF TypeOK, Inside, Waiting, Variable, Entry
<1>2. PlacesOK'
  BY DEF PlacesOK, Peterson, TypeOK, Proc
<1>3. GoneOK'
  BY <1>0, SMT DEF GoneOK, BufferOK, Lone, TypeOK, Proc
<1>4. BufferOK(p)'
  BY <1>0, SMT DEF BufferOK, Lone, PlacesOK, Peterson, TypeOK, Up, Down, Turn, Check
<1>5. FlagOK(p)'
  BY <1>0, SMT DEF FlagOK, Raised, Holds, Inside, BufferOK, Lone, PlacesOK, Peterson, TypeOK,
     Up, Down, Turn, Check
<1>6. Holds(p)' => Holds(p)
  BY <1>0, SMT DEF Holds, Inside, TypeOK, Peterson
<1>7. Asking(p)' => Asking(p)
  BY <1>0, SMT DEF Asking, BufferOK, Lone, PlacesOK, Peterson, TypeOK
<1>8. CounterOK(p)'
  BY <1>0, SMT DEF CounterOK, BufferOK, Lone, PlacesOK, Peterson, TypeOK, Check
<1>9. CheckHolds'
  BY DEF CheckHolds, CounterOK
<1> QED
  BY <1>b, <1>k, <1>1, <1>2, <1>3, <1>4, <1>5, <1>6, <1>7, <1>8, <1>9, Assemble

\* Storing the counter keeps it.
LEMMA StoreCheckStep ==
    ASSUME Fifo, IInv, NEW p \in Proc, StoreCheck(p)
    PROVE  IInv'
<1> USE TwoProcesses DEF StoreCheck, Goto, Quiet, run, locals
<1>a. TypeOK /\ PlacesOK /\ GoneOK /\ TurnValue /\ ProcOK(p) /\ ProcOK(Other(p)) /\ CheckHolds
  BY DEF IInv
<1> USE <1>a DEF ProcOK
<1>j. pc[p] = "store" /\ algorithm \in {"peterson", "dekker"}
  BY SpinMutexAssumption DEF TypeOK
<1> USE <1>j
<1>k. pc[1] # "done"
  BY SMT DEF PlacesOK, Proc
<1>0. /\ buffer' \in [Proc -> Seq(Entry)]
      /\ buffer'[p] = Append(buffer[p], Check(p))
      /\ buffer'[Other(p)] = buffer[Other(p)]
      /\ memory' = memory
  <2>1. [name |-> "check", value |-> Changed(p, loaded[p])] \in Entry
    BY Entries DEF Check
  <2>2. Store(p, "check", Changed(p, loaded[p]))
    OBVIOUS
  <2> QED
    BY <2>1, <2>2, StoreAppends DEF Check
<1>c. loaded'[p] = loaded[p] /\ loaded' = loaded
  OBVIOUS
<1>e. Up(p)' = Up(p) /\ Down(p)' = Down(p) /\ Turn(p)' = Turn(p) /\ Check(p)' = Check(p)
  BY <1>c, Same
<1>d. buffer'[p] \in {<<Check(p)>>}
  <2>1. buffer[p] = <<>>
    BY DEF BufferOK, Lone, PlacesOK
  <2> QED
    BY <1>0, <2>1, Lists
<1>f. Peterson' = Peterson /\ pc'[p] = "reload"
  BY <1>j, SMT DEF Peterson, PlacesOK, TypeOK
<1>g. buffer'[p] # <<>> /\ loaded[p] = check0[p]
  BY <1>d, Lists DEF CounterOK
<1>b. Apart(Other(p))
  BY <1>0, <1>d, <1>e, Lists, <1>f, SMT DEF Apart, TypeOK
<1>1. TypeOK'
  BY <1>0, SpinMutexAssumption DEF TypeOK, Inside, Waiting, Variable, Entry
<1>2. PlacesOK'
  BY DEF PlacesOK, Peterson, TypeOK, Proc
<1>3. GoneOK'
  BY <1>0, <1>d, <1>e, Lists, <1>f, SMT DEF GoneOK, BufferOK, Lone, TypeOK, Proc
<1>4. BufferOK(p)'
  <2> HIDE <1>a DEF ProcOK, StoreCheck, Goto, Quiet, run, locals
  <2> QED
    BY <1>d, <1>e, <1>f, SMT DEF BufferOK, Lone
<1>5. FlagOK(p)'
  BY <1>0, <1>d, <1>e, Lists, <1>f, SMT DEF FlagOK, Raised, Holds, Inside, BufferOK, Lone,
     PlacesOK, Peterson, TypeOK
<1>6. Holds(p)' => Holds(p)
  BY <1>0, <1>d, <1>e, Lists, SMT DEF Holds, Inside, TypeOK, Peterson, PlacesOK
<1>7. Asking(p)' => Asking(p)
  BY <1>0, <1>d, <1>e, Lists, <1>f, SMT DEF Asking, BufferOK, Lone, PlacesOK, Peterson, TypeOK
<1>8. CounterOK(p)'
  BY <1>c, <1>f, <1>g, SMT DEF CounterOK, BufferOK, Lone, PlacesOK, Peterson, TypeOK
<1>9. CheckHolds'
  BY DEF CheckHolds, CounterOK
<1> QED
  BY <1>b, <1>k, <1>1, <1>2, <1>3, <1>4, <1>5, <1>6, <1>7, <1>8, <1>9, Assemble

\* Reading the counter again keeps it: it is the one just stored.
LEMMA ReloadStep ==
    ASSUME Fifo, IInv, NEW p \in Proc, Reload(p)
    PROVE  IInv'
<1> USE TwoProcesses DEF Reload, Goto, Access, run, locals
<1>a. TypeOK /\ PlacesOK /\ GoneOK /\ TurnValue /\ ProcOK(p) /\ ProcOK(Other(p)) /\ CheckHolds
  BY DEF IInv
<1> USE <1>a DEF ProcOK
<1>j. pc[p] = "reload" /\ algorithm \in {"peterson", "dekker"}
  BY SpinMutexAssumption DEF TypeOK
<1> USE <1>j
<1>k. pc[1] # "done"
  BY SMT DEF PlacesOK, Proc
<1>0. Read(p, "check") = Changed(p, check0[p]) /\ Changed(p, check0[p]) \in 0 .. Wrap - 1
  <2> HIDE DEF Reload, Goto, Access, run, locals
  <2>1. buffer[p] \in {<<Check(p)>>, <<>>} /\ loaded[p] = check0[p]
    BY DEF BufferOK, CounterOK
  <2>2. ASSUME buffer[p] = <<>> PROVE Read(p, "check") = Changed(p, check0[p])
    <3>1. Read(p, "check") = memory["check"]
      BY <2>2, ReadMemory, Zenon
    <3>2. memory["check"] = Changed(p, check0[p])
      BY <2>2 DEF CounterOK
    <3> QED
      BY <3>1, <3>2, Zenon
  <2>3. ASSUME buffer[p] = <<Check(p)>> PROVE Read(p, "check") = Changed(p, check0[p])
    <3>1. buffer[p] = <<[name |-> "check", value |-> Changed(p, loaded[p])]>>
      BY <2>3 DEF Check
    <3> HIDE <1>a
    <3>2. \A v : buffer[p] = <<[name |-> "check", value |-> v]>> => Read(p, "check") = v
      BY ReadOwn
    <3>3. Read(p, "check") = Changed(p, loaded[p])
      BY <3>1, <3>2
    <3> QED
      BY <2>1, <3>3, Zenon
  <2>4. check0[p] \in 0 .. Wrap - 1
    BY DEF TypeOK
  <2> QED
    BY <2>1, <2>2, <2>3, <2>4, ChangedInRange
<1>b. Apart(Other(p))
  BY <1>0, SMT DEF Apart, TypeOK
<1>1. TypeOK'
  <2>1. ops' \in 0 .. max_ops
    BY SpinMutexAssumption DEF TypeOK
  <2>2. check1' \in [Proc -> 0 .. Wrap - 1]
    BY <1>0 DEF TypeOK
  <2>3. pc' \in [Proc -> Inside \cup Waiting \cup {"idle", "verify", "gone", "kill", "done"}]
    BY DEF TypeOK, Inside, Waiting
  <2> QED
    BY <2>1, <2>2, <2>3 DEF TypeOK
<1>2. PlacesOK'
  BY DEF PlacesOK, Peterson, TypeOK, Proc
<1>3. GoneOK'
  BY <1>0, SMT DEF GoneOK, BufferOK, Lone, TypeOK, Proc
<1>4. BufferOK(p)'
  BY <1>0, SMT DEF BufferOK, Lone, PlacesOK, Peterson, TypeOK, Up, Down, Turn, Check
<1>5. FlagOK(p)'
  BY <1>0, SMT DEF FlagOK, Raised, Holds, Inside, BufferOK, Lone, PlacesOK, Peterson, TypeOK,
     Up, Down, Turn, Check
<1>6. Holds(p)' => Holds(p)
  BY <1>0, SMT DEF Holds, Inside, TypeOK, Peterson
<1>7. Asking(p)' => Asking(p)
  BY <1>0, SMT DEF Asking, BufferOK, Lone, PlacesOK, Peterson, TypeOK
<1>8. CounterOK(p)'
  BY <1>0, SMT DEF CounterOK, BufferOK, Lone, PlacesOK, Peterson, TypeOK, Check
<1>9. CheckHolds'
  BY DEF CheckHolds, CounterOK
<1> QED
  BY <1>b, <1>k, <1>1, <1>2, <1>3, <1>4, <1>5, <1>6, <1>7, <1>8, <1>9, Assemble

\* Passing the turn on keeps it.
LEMMA PassStep ==
    ASSUME Fifo, IInv, NEW p \in Proc, Pass(p)
    PROVE  IInv'
<1> USE TwoProcesses DEF Pass, Goto, Quiet, run, locals
<1>a. TypeOK /\ PlacesOK /\ GoneOK /\ TurnValue /\ ProcOK(p) /\ ProcOK(Other(p)) /\ CheckHolds
  BY DEF IInv
<1> USE <1>a DEF ProcOK
<1>j. pc[p] = "pass" /\ algorithm \in {"peterson", "dekker"}
  BY SpinMutexAssumption DEF TypeOK
<1> USE <1>j
<1>k. pc[1] # "done"
  BY SMT DEF PlacesOK, Proc
<1>0. /\ buffer' \in [Proc -> Seq(Entry)]
      /\ buffer'[p] = Append(buffer[p], Turn(p))
      /\ buffer'[Other(p)] = buffer[Other(p)]
      /\ memory' = memory
  <2>1. [name |-> "turn", value |-> Other(p)] \in Entry
    BY Entries DEF Turn
  <2>2. Store(p, "turn", Other(p))
    OBVIOUS
  <2> QED
    BY <2>1, <2>2, StoreAppends DEF Turn
<1>c. loaded'[p] = loaded[p] /\ loaded' = loaded
  OBVIOUS
<1>e. Up(p)' = Up(p) /\ Down(p)' = Down(p) /\ Turn(p)' = Turn(p) /\ Check(p)' = Check(p)
  BY <1>c, Same
<1>d. buffer'[p] \in {<<Check(p), Turn(p)>>, <<Turn(p)>>}
  <2>1. buffer[p] = <<Check(p)>> \/ buffer[p] = <<>>
    BY DEF BufferOK, PlacesOK
  <2> QED
    BY <1>0, <2>1, Lists
<1>f. Peterson' = Peterson /\ (Peterson => FALSE) /\ (~Peterson => pc'[p] = "leave")
  BY <1>j, SMT DEF Peterson, PlacesOK, TypeOK
<1>b. Apart(Other(p))
  BY <1>0, <1>d, <1>e, Lists, <1>f, SMT DEF Apart, TypeOK
<1>1. TypeOK'
  BY <1>0, SpinMutexAssumption DEF TypeOK, Inside, Waiting, Variable, Entry
<1>2. PlacesOK'
  BY DEF PlacesOK, Peterson, TypeOK, Proc
<1>3. GoneOK'
  BY <1>0, <1>d, <1>e, Lists, <1>f, SMT DEF GoneOK, BufferOK, Lone, TypeOK, Proc
<1>4. BufferOK(p)'
  <2> HIDE <1>a DEF ProcOK, Pass, Goto, Quiet, run, locals
  <2> QED
    BY <1>d, <1>e, <1>f, SMT DEF BufferOK, Lone
<1>5. FlagOK(p)'
  BY <1>0, <1>d, <1>e, Lists, <1>f, SMT DEF FlagOK, Raised, Holds, Inside, BufferOK, Lone,
     PlacesOK, Peterson, TypeOK
<1>6. Holds(p)' => Holds(p)
  BY <1>0, <1>d, <1>e, Lists, SMT DEF Holds, Inside, TypeOK, Peterson, PlacesOK
<1>7. Asking(p)' => Asking(p)
  BY <1>0, <1>d, <1>e, Lists, <1>f, SMT DEF Asking, BufferOK, Lone, PlacesOK, Peterson, TypeOK
<1>8. CounterOK(p)'
  BY <1>0, <1>d, <1>e, Lists, <1>f, SMT DEF CounterOK, BufferOK, Lone, PlacesOK, Peterson,
     TypeOK
<1>9. CheckHolds'
  BY DEF CheckHolds, CounterOK
<1> QED
  BY <1>b, <1>k, <1>1, <1>2, <1>3, <1>4, <1>5, <1>6, <1>7, <1>8, <1>9, Assemble

\* Lowering the flag keeps it.
LEMMA LeaveStep ==
    ASSUME Fifo, IInv, NEW p \in Proc, Leave(p)
    PROVE  IInv'
<1> USE TwoProcesses DEF Leave, Goto, Quiet, run, locals
<1>a. TypeOK /\ PlacesOK /\ GoneOK /\ TurnValue /\ ProcOK(p) /\ ProcOK(Other(p)) /\ CheckHolds
  BY DEF IInv
<1> USE <1>a DEF ProcOK
<1>j. pc[p] = "leave" /\ algorithm \in {"peterson", "dekker"}
  BY SpinMutexAssumption DEF TypeOK
<1> USE <1>j
<1>k. pc[1] # "done"
  BY SMT DEF PlacesOK, Proc
<1>0. /\ buffer' \in [Proc -> Seq(Entry)]
      /\ buffer'[p] = Append(buffer[p], Down(p))
      /\ buffer'[Other(p)] = buffer[Other(p)]
      /\ memory' = memory
  <2>1. [name |-> Flag(p), value |-> 0] \in Entry
    BY Entries DEF Down
  <2>2. Store(p, Flag(p), 0)
    OBVIOUS
  <2> QED
    BY <2>1, <2>2, StoreAppends DEF Down
<1>c. loaded'[p] = loaded[p] /\ loaded' = loaded
  OBVIOUS
<1>e. Up(p)' = Up(p) /\ Down(p)' = Down(p) /\ Turn(p)' = Turn(p) /\ Check(p)' = Check(p)
  BY <1>c, Same
<1>d. /\ Peterson => buffer'[p] \in {<<Check(p), Down(p)>>, <<Down(p)>>}
      /\ ~Peterson => buffer'[p] \in {<<Check(p), Turn(p), Down(p)>>, <<Turn(p), Down(p)>>, <<Down(p)>>}
  BY <1>0, Lists DEF BufferOK
<1>f. Peterson' = Peterson /\ pc'[p] = "verify"
  BY <1>j, SMT DEF Peterson, PlacesOK, TypeOK
<1>b. Apart(Other(p))
  BY <1>0, <1>d, <1>e, Lists, <1>f, SMT DEF Apart, TypeOK
<1>1. TypeOK'
  BY <1>0, SpinMutexAssumption DEF TypeOK, Inside, Waiting, Variable, Entry
<1>2. PlacesOK'
  BY DEF PlacesOK, Peterson, TypeOK, Proc
<1>3. GoneOK'
  BY <1>0, <1>d, <1>e, Lists, <1>f, SMT DEF GoneOK, BufferOK, Lone, TypeOK, Proc
<1>4. BufferOK(p)'
  <2> HIDE <1>a DEF ProcOK, Leave, Goto, Quiet, run, locals
  <2> QED
    BY <1>d, <1>e, <1>f, SMT DEF BufferOK, Lone
<1>5. FlagOK(p)'
  BY <1>0, <1>d, <1>e, Lists, <1>f, SMT DEF FlagOK, Raised, Holds, Inside, BufferOK, Lone,
     PlacesOK, Peterson, TypeOK
<1>6. Holds(p)' => Holds(p)
  BY <1>0, <1>d, <1>e, Lists, SMT DEF Holds, Inside, TypeOK, Peterson, PlacesOK
<1>7. Asking(p)' => Asking(p)
  BY <1>0, <1>d, <1>e, Lists, <1>f, SMT DEF Asking, BufferOK, Lone, PlacesOK, Peterson, TypeOK
<1>8. CounterOK(p)'
  BY <1>0, <1>d, <1>e, Lists, <1>f, SMT DEF CounterOK, BufferOK, Lone, PlacesOK, Peterson,
     TypeOK
<1>9. CheckHolds'
  BY DEF CheckHolds, CounterOK
<1> QED
  BY <1>b, <1>k, <1>1, <1>2, <1>3, <1>4, <1>5, <1>6, <1>7, <1>8, <1>9, Assemble

\* The verification keeps it, and finds nothing.
LEMMA VerifyStep ==
    ASSUME Fifo, IInv, NEW p \in Proc, Verify(p)
    PROVE  IInv'
<1> USE TwoProcesses DEF Verify, Goto, Fence, Access, run, locals
<1>a. TypeOK /\ PlacesOK /\ GoneOK /\ TurnValue /\ ProcOK(p) /\ ProcOK(Other(p)) /\ CheckHolds
  BY DEF IInv
<1> USE <1>a DEF ProcOK
<1>j. pc[p] = "verify" /\ algorithm \in {"peterson", "dekker"}
  BY SpinMutexAssumption DEF TypeOK
<1> USE <1>j
<1>k. pc[1] # "done"
  BY SMT DEF PlacesOK, Proc
<1>b. Apart(Other(p))
  BY SMT DEF Apart, TypeOK
<1>1. TypeOK'
  BY SpinMutexAssumption DEF TypeOK, Inside, Waiting, Variable, Entry
<1>2. PlacesOK'
  BY DEF PlacesOK, Peterson, TypeOK, Proc
<1>3. GoneOK'
  BY SMT DEF GoneOK, BufferOK, Lone, TypeOK, Proc
<1>4. BufferOK(p)'
  BY SMT DEF BufferOK, Lone, PlacesOK, Peterson, TypeOK, Up, Down, Turn, Check
<1>5. FlagOK(p)'
  BY SMT DEF FlagOK, Raised, Holds, Inside, BufferOK, Lone, PlacesOK, Peterson, TypeOK, Up,
     Down, Turn, Check
<1>6. Holds(p)' => Holds(p)
  BY SMT DEF Holds, Inside, TypeOK, Peterson
<1>7. Asking(p)' => Asking(p)
  BY SMT DEF Asking, BufferOK, Lone, PlacesOK, Peterson, TypeOK
<1>8. CounterOK(p)'
  BY SMT DEF CounterOK, BufferOK, Lone, PlacesOK, Peterson, TypeOK, Check
<1>9. CheckHolds'
  BY DEF CheckHolds, CounterOK
<1> QED
  BY <1>b, <1>k, <1>1, <1>2, <1>3, <1>4, <1>5, <1>6, <1>7, <1>8, <1>9, Assemble

-----------------------------------------------------------------------------
(* The hardware, the end and the alarm.                                    *)

\* What is in a buffer whose first store reaches memory.
LEMMA Pendings ==
    ASSUME TypeOK, PlacesOK, GoneOK, NEW p \in Proc, BufferOK(p), pc[1] # "done", buffer[p] # <<>>
    PROVE  \/ pc[p] = "defer" /\ buffer[p] = <<Up(p)>>
           \/ pc[p] = "fence" /\ ~Peterson /\ buffer[p] = <<Up(p)>>
           \/ pc[p] = "fence" /\ Peterson /\ buffer[p] = <<Up(p), Turn(p)>>
           \/ pc[p] = "fence" /\ Peterson /\ buffer[p] = <<Turn(p)>>
           \/ pc[p] = "fence_back" /\ buffer[p] = <<Down(p)>>
           \/ pc[p] \in {"reload", "pass", "leave"} /\ buffer[p] = <<Check(p)>>
           \/ pc[p] = "leave" /\ ~Peterson /\ buffer[p] = <<Check(p), Turn(p)>>
           \/ pc[p] = "leave" /\ ~Peterson /\ buffer[p] = <<Turn(p)>>
           \/ pc[p] = "verify" /\ Peterson /\ buffer[p] = <<Check(p), Down(p)>>
           \/ pc[p] = "verify" /\ ~Peterson /\ buffer[p] = <<Check(p), Turn(p), Down(p)>>
           \/ pc[p] = "verify" /\ ~Peterson /\ buffer[p] = <<Turn(p), Down(p)>>
           \/ pc[p] = "verify" /\ buffer[p] = <<Down(p)>>
<1>1. pc[p] \in Inside \cup Waiting \cup {"idle", "verify", "gone", "kill", "done"}
  BY DEF TypeOK
<1>2. pc[p] # "gone"
  BY SMT DEF GoneOK, PlacesOK, Proc
<1>3. pc[p] \in {"defer", "fence", "fence_back", "reload", "pass", "leave", "verify"}
  BY <1>1, <1>2 DEF BufferOK, Lone, Inside, Waiting
<1>4. CASE pc[p] \in {"defer", "fence", "fence_back"}
  BY <1>4, Zenon DEF BufferOK
<1>5. CASE pc[p] \in {"reload", "pass", "leave", "verify"}
  BY <1>5, Zenon DEF BufferOK
<1> QED
  BY <1>3, <1>4, <1>5

\* The rest of a buffer is a buffer.
LEMMA WithoutTyped ==
    ASSUME NEW S, NEW s \in Seq(S), s # <<>>
    PROVE  s[1] \in S /\ Without(s, 1) \in Seq(S)
<1>1. Len(s) \in Nat /\ Len(s) # 0 /\ s \in [1 .. Len(s) -> S]
  BY EmptySeq, LenProperties
<1>2. Without(s, 1) \in [1 .. Len(s) - 1 -> S]
  BY <1>1 DEF Without
<1>3. Len(s) - 1 \in Nat
  BY <1>1
<1>4. Without(s, 1) \in UNION {[1 .. n -> S] : n \in Nat}
  BY <1>2, <1>3
<1> QED
  BY <1>1, <1>4, SeqDef

\* The oldest store becomes memory.
LEMMA Oldest ==
    ASSUME Fifo, TypeOK, NEW p \in Proc, Drain(p)
    PROVE  /\ buffer[p] # <<>>
           /\ memory' = [memory EXCEPT ![buffer[p][1].name] = buffer[p][1].value]
           /\ buffer' = [buffer EXCEPT ![p] = Without(buffer[p], 1)]
<1>1. PICK i \in Next_to_memory(p) :
          /\ memory' = [memory EXCEPT ![buffer[p][i].name] = buffer[p][i].value]
          /\ buffer' = [buffer EXCEPT ![p] = Without(@, i)]
  BY DEF Drain
<1>2. i = 1 /\ buffer[p] # <<>>
  BY InOrder
<1> QED
  BY <1>1, <1>2

\* What reaches memory, and what is left.
LEMMA Drained ==
    ASSUME Fifo, TypeOK, PlacesOK, GoneOK, NEW p \in Proc, BufferOK(p), pc[1] # "done", Drain(p)
    PROVE  \/ /\ memory' = [memory EXCEPT ![Flag(p)] = 1]
              /\ \/ pc[p] = "defer" /\ buffer'[p] = <<>>
                 \/ pc[p] = "fence" /\ ~Peterson /\ buffer'[p] = <<>>
                 \/ pc[p] = "fence" /\ Peterson /\ buffer'[p] = <<Turn(p)>>
           \/ /\ memory' = [memory EXCEPT !["turn"] = Other(p)]
              /\ \/ pc[p] = "fence" /\ Peterson /\ buffer[p] = <<Turn(p)>> /\ buffer'[p] = <<>>
                 \/ pc[p] = "leave" /\ ~Peterson /\ buffer'[p] = <<>>
                 \/ pc[p] = "verify" /\ ~Peterson /\ buffer[p] # <<>> /\ buffer'[p] = <<Down(p)>>
           \/ /\ memory' = [memory EXCEPT !["check"] = Changed(p, loaded[p])]
              /\ \/ pc[p] \in {"reload", "pass", "leave"} /\ buffer'[p] = <<>>
                 \/ pc[p] = "leave" /\ ~Peterson /\ buffer'[p] = <<Turn(p)>>
                 \/ pc[p] = "verify" /\ Peterson /\ buffer[p] # <<>> /\ buffer'[p] = <<Down(p)>>
                 \/ /\ pc[p] = "verify" /\ ~Peterson /\ buffer[p] # <<>>
                    /\ buffer'[p] = <<Turn(p), Down(p)>>
           \/ /\ memory' = [memory EXCEPT ![Flag(p)] = 0]
              /\ \/ pc[p] = "fence_back" /\ buffer'[p] = <<>>
                 \/ pc[p] = "verify" /\ buffer'[p] = <<>>
<1>1. /\ buffer[p] # <<>>
      /\ memory' = [memory EXCEPT ![buffer[p][1].name] = buffer[p][1].value]
      /\ buffer' = [buffer EXCEPT ![p] = Without(buffer[p], 1)]
  BY Oldest
<1>2. buffer'[p] = Without(buffer[p], 1)
  BY <1>1 DEF TypeOK
<1>3. /\ \A a : Without(<<a>>, 1) = <<>> /\ <<a>>[1] = a
      /\ \A a, b : Without(<<a, b>>, 1) = <<b>> /\ <<a, b>>[1] = a
      /\ \A a, b, c : Without(<<a, b, c>>, 1) = <<b, c>> /\ <<a, b, c>>[1] = a
  BY WithoutFirst
<1>4. /\ buffer[p][1] = Up(p) => memory' = [memory EXCEPT ![Flag(p)] = 1]
      /\ buffer[p][1] = Down(p) => memory' = [memory EXCEPT ![Flag(p)] = 0]
      /\ buffer[p][1] = Turn(p) => memory' = [memory EXCEPT !["turn"] = Other(p)]
      /\ buffer[p][1] = Check(p) => memory' = [memory EXCEPT !["check"] = Changed(p, loaded[p])]
  <2>1. ASSUME buffer[p][1] = Up(p) PROVE memory' = [memory EXCEPT ![Flag(p)] = 1]
    BY <1>1, <2>1 DEF Up
  <2>2. ASSUME buffer[p][1] = Down(p) PROVE memory' = [memory EXCEPT ![Flag(p)] = 0]
    BY <1>1, <2>2 DEF Down
  <2>3. ASSUME buffer[p][1] = Turn(p) PROVE memory' = [memory EXCEPT !["turn"] = Other(p)]
    BY <1>1, <2>3 DEF Turn
  <2>4. ASSUME buffer[p][1] = Check(p)
        PROVE  memory' = [memory EXCEPT !["check"] = Changed(p, loaded[p])]
    BY <1>1, <2>4 DEF Check
  <2> QED
    BY <2>1, <2>2, <2>3, <2>4
<1>d. buffer[p] # <<>>
  BY <1>1
<1>5. CASE pc[p] = "defer" /\ buffer[p] = <<Up(p)>>
  <2>1. buffer[p][1] = Up(p) /\ buffer'[p] = <<>>
    BY <1>2, <1>3, <1>5, Zenon
  <2> QED
    BY <1>4, <1>d, <1>5, <2>1, Zenon
<1>6. CASE pc[p] = "fence" /\ ~Peterson /\ buffer[p] = <<Up(p)>>
  <2>1. buffer[p][1] = Up(p) /\ buffer'[p] = <<>>
    BY <1>2, <1>3, <1>6, Zenon
  <2> QED
    BY <1>4, <1>d, <1>6, <2>1, Zenon
<1>7. CASE pc[p] = "fence" /\ Peterson /\ buffer[p] = <<Up(p), Turn(p)>>
  <2>1. buffer[p][1] = Up(p) /\ buffer'[p] = <<Turn(p)>>
    BY <1>2, <1>3, <1>7
  <2> QED
    BY <1>4, <1>d, <1>7, <2>1, Zenon
<1>8. CASE pc[p] = "fence" /\ Peterson /\ buffer[p] = <<Turn(p)>>
  <2>1. buffer[p][1] = Turn(p) /\ buffer'[p] = <<>>
    BY <1>2, <1>3, <1>8, Zenon
  <2> QED
    BY <1>4, <1>d, <1>8, <2>1, Zenon
<1>9. CASE pc[p] = "fence_back" /\ buffer[p] = <<Down(p)>>
  <2>1. buffer[p][1] = Down(p) /\ buffer'[p] = <<>>
    BY <1>2, <1>3, <1>9, Zenon
  <2> QED
    BY <1>4, <1>d, <1>9, <2>1, Zenon
<1>10. CASE pc[p] \in {"reload", "pass", "leave"} /\ buffer[p] = <<Check(p)>>
  <2>1. buffer[p][1] = Check(p) /\ buffer'[p] = <<>>
    BY <1>2, <1>3, <1>10, Zenon
  <2> QED
    BY <1>4, <1>d, <1>10, <2>1, Zenon
<1>11. CASE pc[p] = "leave" /\ ~Peterson /\ buffer[p] = <<Check(p), Turn(p)>>
  <2>1. buffer[p][1] = Check(p) /\ buffer'[p] = <<Turn(p)>>
    BY <1>2, <1>3, <1>11
  <2> QED
    BY <1>4, <1>d, <1>11, <2>1, Zenon
<1>12. CASE pc[p] = "leave" /\ ~Peterson /\ buffer[p] = <<Turn(p)>>
  <2>1. buffer[p][1] = Turn(p) /\ buffer'[p] = <<>>
    BY <1>2, <1>3, <1>12, Zenon
  <2> QED
    BY <1>4, <1>d, <1>12, <2>1, Zenon
<1>13. CASE pc[p] = "verify" /\ Peterson /\ buffer[p] = <<Check(p), Down(p)>>
  <2>1. buffer[p][1] = Check(p) /\ buffer'[p] = <<Down(p)>>
    BY <1>2, <1>3, <1>13
  <2> QED
    BY <1>4, <1>d, <1>13, <2>1, Zenon
<1>14. CASE pc[p] = "verify" /\ ~Peterson /\ buffer[p] = <<Check(p), Turn(p), Down(p)>>
  <2>1. buffer[p][1] = Check(p) /\ buffer'[p] = <<Turn(p), Down(p)>>
    BY <1>2, <1>3, <1>14
  <2> QED
    BY <1>4, <1>d, <1>14, <2>1, Zenon
<1>15. CASE pc[p] = "verify" /\ ~Peterson /\ buffer[p] = <<Turn(p), Down(p)>>
  <2>1. buffer[p][1] = Turn(p) /\ buffer'[p] = <<Down(p)>>
    BY <1>2, <1>3, <1>15
  <2> QED
    BY <1>4, <1>d, <1>15, <2>1, Zenon
<1>16. CASE pc[p] = "verify" /\ buffer[p] = <<Down(p)>>
  <2>1. buffer[p][1] = Down(p) /\ buffer'[p] = <<>>
    BY <1>2, <1>3, <1>16, Zenon
  <2> QED
    BY <1>4, <1>d, <1>16, <2>1, Zenon
<1> QED
  BY <1>d, <1>5, <1>6, <1>7, <1>8, <1>9, <1>10, <1>11, <1>12, <1>13, <1>14, <1>15, <1>16,
     Pendings, Zenon

\* A store that reaches memory keeps it.
LEMMA DrainStep ==
    ASSUME Fifo, IInv, NEW p \in Proc, Drain(p)
    PROVE  IInv'
<1> DEFINE q == Other(p)
<1>a. TypeOK /\ PlacesOK /\ GoneOK /\ TurnValue /\ ProcOK(p) /\ ProcOK(q) /\ HoldsAlone /\ CheckHolds
  BY TwoProcesses DEF IInv
<1>b. BufferOK(p) /\ FlagOK(p) /\ TurnOK(p) /\ CounterOK(p) /\ FlagOK(q) /\ TurnOK(q) /\ CounterOK(q)
  BY <1>a DEF ProcOK
<1>c. /\ q \in Proc /\ q # p /\ Other(q) = p /\ (\A r \in Proc : r = p \/ r = q)
      /\ Flag(p) \in Variable /\ Flag(q) # Flag(p) /\ Flag(p) \notin {"turn", "check"}
      /\ Flag(q) \notin {"turn", "check"} /\ "turn" \in Variable /\ "check" \in Variable
  BY TwoProcesses DEF Variable
<1>d. /\ buffer[p] # <<>>
      /\ memory' = [memory EXCEPT ![buffer[p][1].name] = buffer[p][1].value]
      /\ buffer' = [buffer EXCEPT ![p] = Without(buffer[p], 1)]
  BY <1>a, Oldest
<1>u. /\ algorithm' = algorithm /\ max_ops' = max_ops /\ pc' = pc /\ check0' = check0
      /\ loaded' = loaded /\ check1' = check1 /\ told' = told /\ ops' = ops /\ failed' = failed
      /\ Peterson' = Peterson
  BY DEF Drain, run, locals, Peterson
<1>e. Up(p)' = Up(p) /\ Down(p)' = Down(p) /\ Turn(p)' = Turn(p) /\ Check(p)' = Check(p)
  BY <1>u, Same
<1>f. buffer'[q] = buffer[q] /\ memory \in [Variable -> 0 .. Wrap - 1]
  BY <1>a, <1>c, <1>d DEF TypeOK
<1> HIDE DEF q
<1>1. TypeOK'
  <2>1. buffer[p] \in Seq(Entry) /\ buffer \in [Proc -> Seq(Entry)]
    BY <1>a DEF TypeOK, Entry
  <2>2. buffer[p][1] \in Entry /\ Without(buffer[p], 1) \in Seq(Entry)
    BY <1>d, <2>1, WithoutTyped
  <2>3. memory' \in [Variable -> 0 .. Wrap - 1]
    BY <1>d, <1>f, <2>2 DEF Entry
  <2>4. buffer' \in [Proc -> Seq(Entry)]
    BY <1>d, <2>1, <2>2
  <2> QED
    BY <1>a, <1>u, <2>3, <2>4 DEF TypeOK, Entry
<1>2. PlacesOK' /\ CheckHolds'
  BY <1>a, <1>u DEF PlacesOK, CheckHolds
<1>3. BufferOK(q)'
  BY <1>b, <1>a, <1>f, <1>u DEF ProcOK, BufferOK, Lone, Up, Down, Turn, Check
<1>4. CASE pc[1] = "done"
  <2>1. pc[0] = "gone" /\ p = 0 /\ q = 1
    BY <1>4, <1>a, <1>b, <1>c, <1>d DEF PlacesOK, BufferOK, Lone, Proc
  <2>2. ~Holds(p) /\ ~Holds(q) /\ ~Asking(p) /\ ~Asking(q)
    BY <1>4, <2>1, <1>a DEF Holds, Asking, Inside
  <2>3. ~Holds(p)' /\ ~Holds(q)' /\ ~Asking(p)' /\ ~Asking(q)' /\ ~Raised(p)' /\ ~Raised(q)'
    BY <1>4, <2>1, <1>u DEF Holds, Asking, Inside, Raised
  <2>4. BufferOK(p)' /\ CounterOK(p)' /\ CounterOK(q)'
    BY <1>4, <2>1, <1>u DEF BufferOK, CounterOK, Lone
  <2>5. ProcOK(p)' /\ ProcOK(q)'
    BY <1>3, <2>3, <2>4 DEF ProcOK, FlagOK, TurnOK
  <2>6. HoldsAlone' /\ GoneOK' /\ TurnValue'
    BY <1>4, <1>u, <2>1, <2>3 DEF HoldsAlone, GoneOK, TurnValue
  <2> QED
    BY <1>1, <1>2, <1>c, <2>5, <2>6 DEF IInv
<1>5. CASE pc[1] # "done"
  <2>0. \/ /\ memory' = [memory EXCEPT ![Flag(p)] = 1]
           /\ \/ pc[p] = "defer" /\ buffer'[p] = <<>>
              \/ pc[p] = "fence" /\ ~Peterson /\ buffer'[p] = <<>>
              \/ pc[p] = "fence" /\ Peterson /\ buffer'[p] = <<Turn(p)>>
        \/ /\ memory' = [memory EXCEPT !["turn"] = Other(p)]
           /\ \/ pc[p] = "fence" /\ Peterson /\ buffer[p] = <<Turn(p)>> /\ buffer'[p] = <<>>
              \/ pc[p] = "leave" /\ ~Peterson /\ buffer'[p] = <<>>
              \/ pc[p] = "verify" /\ ~Peterson /\ buffer[p] # <<>> /\ buffer'[p] = <<Down(p)>>
        \/ /\ memory' = [memory EXCEPT !["check"] = Changed(p, loaded[p])]
           /\ \/ pc[p] \in {"reload", "pass", "leave"} /\ buffer'[p] = <<>>
              \/ pc[p] = "leave" /\ ~Peterson /\ buffer'[p] = <<Turn(p)>>
              \/ pc[p] = "verify" /\ Peterson /\ buffer[p] # <<>> /\ buffer'[p] = <<Down(p)>>
              \/ /\ pc[p] = "verify" /\ ~Peterson /\ buffer[p] # <<>>
                 /\ buffer'[p] = <<Turn(p), Down(p)>>
        \/ /\ memory' = [memory EXCEPT ![Flag(p)] = 0]
           /\ \/ pc[p] = "fence_back" /\ buffer'[p] = <<>>
              \/ pc[p] = "verify" /\ buffer'[p] = <<>>
    BY <1>5, <1>a, <1>b, Drained
  <2>1. BufferOK(p)'
    BY <2>0, <1>u, <1>e, Zenon DEF BufferOK, Lone
  <2>2. Holds(p)' => Holds(p)
    BY <2>0, <1>u DEF Holds, Inside
  <2>3. Holds(q)' = Holds(q) /\ Asking(q)' = Asking(q) /\ Raised(q)' = Raised(q)
    BY <1>f, <1>u DEF Holds, Asking, Raised, Turn
  <2>4. FlagOK(p)'
    <3>1. CASE memory' = [memory EXCEPT ![Flag(p)] = 1]
      BY <3>1, <1>c, <1>f DEF FlagOK
    <3>2. CASE memory'[Flag(p)] = memory[Flag(p)] /\ (Raised(p)' => Raised(p))
      BY <3>2, <1>b DEF FlagOK
    <3>3. CASE ~Raised(p)'
      BY <3>3 DEF FlagOK
    <3> QED
      BY <2>0, <3>1, <3>2, <3>3, <1>c, <1>f, <1>u, <1>e DEF Raised, Holds, Inside
  <2>5. FlagOK(q)'
    <3>1. memory'[Flag(q)] = memory[Flag(q)]
      <4>1. Flag(q) \in Variable
        BY TwoProcesses, <1>c
      <4>2. \E x \in {Flag(p), "turn", "check"} : \E v : memory' = [memory EXCEPT ![x] = v]
        BY <2>0
      <4> QED
        BY <4>1, <4>2, <1>c, <1>f
    <3> QED
      BY <3>1, <2>3, <1>b DEF FlagOK
  <2>6. TurnOK(p)'
    <3>1. Peterson /\ Holds(p)' => memory'["turn"] = memory["turn"]
      BY <2>0, <1>c, <1>f, <1>u DEF Holds, Inside
    <3> QED
      BY <3>1, <2>2, <2>3, <1>b, <1>c, <1>u DEF TurnOK, q
  <2>7. TurnOK(q)'
    <3>1. Peterson /\ Asking(p)' => memory'["turn"] = q
      <4>1. <<Turn(p)>> # <<>>
        BY <1>a, Lists
      <4>2. Peterson /\ Asking(p)' => memory' = [memory EXCEPT !["turn"] = Other(p)]
        BY <2>0, <4>1, <1>u DEF Asking
      <4> QED
        BY <4>2, <1>c, <1>f DEF q
    <3> QED
      BY <3>1, <1>c, <1>u DEF TurnOK, q
  <2>8. CounterOK(p)'
    BY <2>0, <1>b, <1>c, <1>f, <1>u DEF CounterOK
  <2>9. CounterOK(q)'
    <3>1. CASE memory'["check"] = memory["check"]
      BY <3>1, <1>b, <1>f, <1>u DEF CounterOK
    <3>2. CASE memory'["check"] # memory["check"]
      <4>1. Holds(p)
        BY <3>2, <2>0, <1>c, <1>f DEF Holds, Inside
      <4>2. ~Holds(q)
        BY <4>1, <1>a DEF HoldsAlone, Proc, Other, q
      <4> QED
        BY <4>2, <1>b, <1>u DEF CounterOK, Holds, Inside
    <3> QED
      BY <3>1, <3>2
  <2>10. HoldsAlone'
    <3>1. ~(Holds(p) /\ Holds(q))
      BY <1>a DEF HoldsAlone, Proc, Other, q
    <3>2. ~(Holds(p)' /\ Holds(q)')
      BY <3>1, <2>2, <2>3
    <3> QED
      BY <3>2 DEF HoldsAlone, Proc, Other, q
  <2>11. GoneOK'
    BY <2>0, <1>a, <1>c, <1>f, <1>u DEF GoneOK, Proc
  <2>12. TurnValue'
    BY <2>0, <1>a, <1>c, <1>f, <1>u DEF TurnValue, q
  <2>13. ProcOK(p)' /\ ProcOK(q)'
    BY <1>3, <2>1, <2>4, <2>5, <2>6, <2>7, <2>8, <2>9 DEF ProcOK
  <2> QED
    BY <1>1, <1>2, <1>c, <2>10, <2>11, <2>12, <2>13 DEF IInv
<1> QED
  BY <1>4, <1>5

\* The end of the stressor keeps it.
LEMMA KillStep ==
    ASSUME IInv, KillChild
    PROVE  IInv'
<1> USE DEF KillChild, Access, Quiet, run, locals
<1>a. TypeOK /\ PlacesOK /\ ProcOK(0) /\ ProcOK(1) /\ CheckHolds
  BY DEF IInv, Proc
<1>1. TypeOK'
  BY <1>a DEF TypeOK, Inside, Waiting, Proc
<1>2. pc'[0] = "gone" /\ pc'[1] = "done" /\ buffer' = buffer
  BY <1>a DEF TypeOK, Proc
<1>3. PlacesOK' /\ GoneOK' /\ TurnValue' /\ HoldsAlone' /\ CheckHolds'
  BY <1>a, <1>2 DEF PlacesOK, GoneOK, TurnValue, HoldsAlone, Holds, Inside, CheckHolds, Proc
<1>4. BufferOK(0)' /\ BufferOK(1)'
  BY <1>a, <1>2 DEF ProcOK, BufferOK, Lone
<1>5. ASSUME NEW p \in Proc PROVE FlagOK(p)' /\ TurnOK(p)' /\ CounterOK(p)'
  BY <1>2 DEF FlagOK, TurnOK, CounterOK, Raised, Holds, Asking, Inside, Proc
<1>6. \A p \in Proc : ProcOK(p)'
  BY <1>4, <1>5 DEF ProcOK, Proc
<1> QED
  BY <1>1, <1>3, <1>6 DEF IInv

\* Whatever leaves everything but told as it is.
LEMMA TellStep ==
    ASSUME IInv, Tell \/ UNCHANGED vars
    PROVE  IInv'
<1>1. /\ algorithm' = algorithm /\ max_ops' = max_ops /\ memory' = memory /\ buffer' = buffer
      /\ pc' = pc /\ check0' = check0 /\ loaded' = loaded /\ check1' = check1 /\ ops' = ops
      /\ failed' = failed /\ (told' = TRUE \/ told' = told)
  BY DEF Tell, vars, run, locals
<1>2. TypeOK'
  BY <1>1 DEF IInv, TypeOK
<1>3. PlacesOK' /\ GoneOK' /\ TurnValue' /\ HoldsAlone' /\ CheckHolds'
  BY <1>1 DEF IInv, PlacesOK, GoneOK, TurnValue, HoldsAlone, Holds, CheckHolds, Peterson
<1>4. ASSUME NEW p \in Proc PROVE ProcOK(p)'
  <2>1. ProcOK(p)
    BY DEF IInv
  <2>2. BufferOK(p)'
    BY <1>1, <2>1 DEF ProcOK, BufferOK, Peterson, Up, Down, Turn, Check
  <2>3. FlagOK(p)' /\ TurnOK(p)' /\ CounterOK(p)'
    BY <1>1, <2>1 DEF ProcOK, FlagOK, TurnOK, CounterOK, Raised, Holds, Asking, Peterson, Turn
  <2> QED
    BY <2>2, <2>3 DEF ProcOK
<1> QED
  BY <1>2, <1>3, <1>4 DEF IInv

\* It holds at first.
LEMMA Initially == Init => IInv
<1> SUFFICES ASSUME Init PROVE IInv
  OBVIOUS
<1>1. TypeOK
  <2>1. memory \in [Variable -> 0 .. Wrap - 1]
    BY SpinMutexAssumption DEF Init
  <2>2. buffer \in [Proc -> Seq([name : Variable, value : 0 .. Wrap - 1])]
    BY EmptySeq DEF Init
  <2>3. /\ check0 \in [Proc -> 0 .. Wrap - 1] /\ loaded \in [Proc -> 0 .. Wrap - 1]
        /\ check1 \in [Proc -> 0 .. Wrap - 1]
    BY SpinMutexAssumption DEF Init
  <2>4. algorithm \in Algorithm /\ max_ops \in MaxOps /\ ops \in 0 .. max_ops
    BY SpinMutexAssumption DEF Init
  <2> QED
    BY <2>1, <2>2, <2>3, <2>4 DEF Init, TypeOK
<1>2. PlacesOK /\ GoneOK /\ TurnValue /\ HoldsAlone /\ CheckHolds
  BY DEF Init, PlacesOK, GoneOK, TurnValue, HoldsAlone, Holds, Inside, CheckHolds, Proc,
     Variable
<1>3. ASSUME NEW p \in Proc PROVE ProcOK(p)
  <2>1. pc[p] = "idle" /\ buffer[p] = <<>>
    BY DEF Init
  <2> QED
    BY <2>1 DEF ProcOK, BufferOK, FlagOK, TurnOK, CounterOK, Raised, Holds, Inside, Lone
<1> QED
  BY <1>1, <1>2, <1>3 DEF IInv

-----------------------------------------------------------------------------
(* The theorems.                                                           *)

\* Every step keeps the inductive invariant.
LEMMA Inductive ==
    ASSUME Fifo, IInv, [Next]_vars
    PROVE  IInv'
<1>1. ASSUME NEW p \in Proc, Step(p) PROVE IInv'
  BY <1>1, LoopTestStep, RaiseStep, DeferStep, FenceInStep, TestFlagStep, TestTurnStep,
     LowerStep,
     FenceBackStep, SpinStep, EnterStep, LoadCheckStep, StoreCheckStep, ReloadStep, PassStep,
     LeaveStep, VerifyStep DEF Step
<1>2. ASSUME NEW p \in Proc, Drain(p) PROVE IInv'
  BY <1>2, DrainStep
<1>3. CASE KillChild
  BY <1>3, KillStep
<1>4. CASE Tell \/ UNCHANGED vars
  BY <1>4, TellStep
<1>5. CASE Finished
  BY <1>5, TellStep DEF Finished
<1> QED
  BY <1>1, <1>2, <1>3, <1>4, <1>5 DEF Next

\* The inductive invariant of a machine that keeps its stores in order.
THEOREM Invariance ==
    ASSUME Fifo
    PROVE  Spec => []IInv
<1>1. Init => IInv
  BY Initially
<1>2. IInv /\ [Next]_vars => IInv'
  BY Inductive
<1> QED
  BY <1>1, <1>2, PTL DEF Spec

\* Every variable keeps to its type.
THEOREM TypeCorrect ==
    ASSUME Fifo
    PROVE  Spec => []TypeOK
<1>1. IInv => TypeOK
  BY DEF IInv
<1> QED
  BY <1>1, Invariance, PTL

\* The fences of stress-peterson.c and stress-dekker.c are enough on a machine
\* that keeps stores in order: the two processes are never both inside.
THEOREM Exclusion ==
    ASSUME Fifo
    PROVE  Spec => []MutualExclusion
<1>1. IInv => MutualExclusion
  BY DEF IInv, HoldsAlone, Holds, MutualExclusion
<1> QED
  BY <1>1, Invariance, PTL

\* "mutex check failed" is never reported there, whatever the width at which
\* the counter wraps.
THEOREM VerificationHolds ==
    ASSUME Fifo
    PROVE  Spec => []CheckHolds
<1>1. IInv => CheckHolds
  BY DEF IInv
<1> QED
  BY <1>1, Invariance, PTL

-----------------------------------------------------------------------------
(* What liveness rests on.                                                 *)

\* Peterson: while p asks, the other one gives p the turn when it asks in its
\* turn, p keeps the turn it has, and nobody who has given the turn away holds
\* the critical section. It takes asking to enter.
OvertakenOnce ==
    \A p \in Proc : Peterson /\ Asking(p) /\ Asking(p)' =>
        /\ memory["turn"] = p => memory'["turn"] = p
        /\ ~Asking(Other(p)) /\ Asking(Other(p))' => memory'["turn"] = p
        /\ memory'["turn"] = p => ~Holds(Other(p))'
        /\ ~Holds(Other(p)) /\ Holds(Other(p))' => Asking(Other(p))

\* A process at work writes no memory, and starts to ask, or to hold, at the
\* places one expects.
LEMMA AtWork ==
    ASSUME IInv, Peterson, NEW q \in Proc, Step(q)
    PROVE  /\ memory' = memory
           /\ pc'[Other(q)] = pc[Other(q)] /\ buffer'[Other(q)] = buffer[Other(q)]
           /\ ~Asking(q) => ~Asking(q)'
           /\ ~Holds(q) /\ Holds(q)' => Asking(q)
<1>a. TypeOK /\ PlacesOK /\ ProcOK(q) /\ Other(q) \in Proc /\ Other(q) # q
  BY TwoProcesses DEF IInv
<1>1. CASE LoopTest(q) \/ FenceIn(q) \/ TestFlag(q) \/ TestTurn(q) \/ Enter(q) \/ LoadCheck(q)
           \/ Reload(q) \/ Verify(q)
  <2>1. memory' = memory /\ buffer' = buffer
    BY <1>1 DEF LoopTest, FenceIn, TestFlag, TestTurn, Enter, LoadCheck, Reload, Verify, Access,
       Fence
  <2>2. pc'[Other(q)] = pc[Other(q)]
    BY <1>1, <1>a DEF LoopTest, FenceIn, TestFlag, TestTurn, Enter, LoadCheck, Reload, Verify,
       Goto, TypeOK
  <2>3. ~Asking(q) => ~Asking(q)'
    BY <1>1, <1>a, <2>1 DEF LoopTest, FenceIn, TestFlag, TestTurn, Enter, LoadCheck, Reload,
       Verify, Goto, Fence, TypeOK, Asking
  <2>4. ~Holds(q) /\ Holds(q)' => Asking(q)
    BY <1>1, <1>a, <2>1 DEF LoopTest, FenceIn, TestFlag, TestTurn, Enter, LoadCheck, Reload,
       Verify, Goto, Fence, TypeOK, Asking, Holds, Inside
  <2> QED
    BY <2>1, <2>2, <2>3, <2>4
<1>2. CASE Raise(q) \/ Defer(q) \/ StoreCheck(q) \/ Leave(q)
  <2>1. PICK x, v : Store(q, x, v)
    BY <1>2 DEF Raise, Defer, StoreCheck, Leave
  <2>2. memory' = memory /\ buffer'[Other(q)] = buffer[Other(q)]
    BY <1>a, <2>1 DEF Store, TypeOK
  <2>3. buffer'[q] # <<>>
    <3>1. buffer'[q] = Append(buffer[q], [name |-> x, value |-> v])
      BY <1>a, <2>1 DEF Store, TypeOK
    <3>2. buffer[q] \in Seq([name : Variable, value : 0 .. Wrap - 1])
      BY <1>a DEF TypeOK
    <3> QED
      BY <3>1, <3>2
  <2>4. pc'[Other(q)] = pc[Other(q)]
    BY <1>2, <1>a DEF Raise, Defer, StoreCheck, Leave, Goto, TypeOK
  <2>5. ~Asking(q)'
    BY <1>2, <1>a, <2>3 DEF Raise, Defer, StoreCheck, Leave, Goto, TypeOK, Asking, Peterson
  <2>6. Holds(q)' => Holds(q)
    BY <1>2, <1>a DEF Raise, Defer, StoreCheck, Leave, Goto, TypeOK, Holds, Inside, Peterson
  <2> QED
    BY <2>2, <2>4, <2>5, <2>6
<1>3. CASE Lower(q) \/ FenceBack(q) \/ Spin(q) \/ Pass(q)
  BY <1>3, <1>a DEF Lower, FenceBack, Spin, Pass, Goto, PlacesOK
<1> QED
  BY <1>1, <1>2, <1>3 DEF Step

\* What the store buffer of the other process changes.
LEMMA OthersStores ==
    ASSUME Fifo, IInv, Peterson, NEW p \in Proc, Asking(p), Drain(Other(p))
    PROVE  /\ memory'["turn"] \in {memory["turn"], p}
           /\ ~Asking(Other(p)) /\ Asking(Other(p))' => memory'["turn"] = p
           /\ ~Holds(Other(p)) => ~Holds(Other(p))'
<1> DEFINE q == Other(p)
<1>a. TypeOK /\ PlacesOK /\ GoneOK /\ BufferOK(q) /\ q \in Proc /\ Other(q) = p /\ Flag(q) # "turn"
  BY TwoProcesses DEF IInv, ProcOK
<1>b. pc[1] # "done"
  BY <1>a DEF PlacesOK, Asking, Proc
<1>c. memory \in [Variable -> 0 .. Wrap - 1] /\ Flag(q) \in Variable /\ "turn" \in Variable
  BY <1>a DEF TypeOK, Flag, Variable
<1>d. pc' = pc
  BY DEF Drain
<1>e. /\ <<Turn(q)>> # <<>>
      /\ <<Down(q)>> # <<>>
  OBVIOUS
<1> HIDE DEF q
<1>1. CASE /\ memory' = [memory EXCEPT ![Flag(q)] = 1]
           /\ \/ pc[q] = "defer" /\ buffer'[q] = <<>>
              \/ pc[q] = "fence" /\ Peterson /\ buffer'[q] = <<Turn(q)>>
  <2>1. memory'["turn"] = memory["turn"]
    BY <1>1, <1>a, <1>c
  <2>2. ~Asking(q)' /\ ~Holds(q)'
    BY <1>1, <1>d, <1>e DEF Asking, Holds, Inside
  <2> QED
    BY <2>1, <2>2 DEF q
<1>2. CASE /\ memory' = [memory EXCEPT !["turn"] = p]
           /\ pc[q] = "fence"
  <2>1. memory'["turn"] = p
    BY <1>2, <1>c
  <2>2. ~Holds(q)'
    BY <1>2, <1>d DEF Holds, Inside
  <2> QED
    BY <2>1, <2>2 DEF q
<1>3. CASE /\ \E v : \/ memory' = [memory EXCEPT !["check"] = v]
                     \/ memory' = [memory EXCEPT ![Flag(q)] = v]
           /\ pc[q] \in {"reload", "pass", "leave", "verify"}
           /\ buffer[q] # <<>>
  <2>1. memory'["turn"] = memory["turn"]
    BY <1>3, <1>a, <1>c DEF Variable
  <2>2. ~Asking(q)' /\ Holds(q)
    BY <1>3, <1>d DEF Asking, Holds, Inside
  <2> QED
    BY <2>1, <2>2 DEF q
<1>4. Drain(q)
  BY DEF q
<1>5. buffer[q] # <<>>
  BY <1>4, <1>a, Oldest
<1>6. pc[q] # "fence_back"
  BY <1>a DEF PlacesOK
<1>7. \/ /\ memory' = [memory EXCEPT ![Flag(q)] = 1]
         /\ \/ pc[q] = "defer" /\ buffer'[q] = <<>>
            \/ pc[q] = "fence" /\ ~Peterson /\ buffer'[q] = <<>>
            \/ pc[q] = "fence" /\ Peterson /\ buffer'[q] = <<Turn(q)>>
      \/ /\ memory' = [memory EXCEPT !["turn"] = p]
         /\ pc[q] = "fence" \/ ~Peterson
      \/ /\ memory' = [memory EXCEPT !["check"] = Changed(q, loaded[q])]
         /\ pc[q] \in {"reload", "pass", "leave", "verify"}
      \/ /\ memory' = [memory EXCEPT ![Flag(q)] = 0]
         /\ pc[q] = "fence_back" \/ pc[q] = "verify"
  BY <1>4, <1>a, <1>b, Drained
<1> QED
  BY <1>1, <1>2, <1>3, <1>5, <1>6, <1>7

\* Each of the two is overtaken at most once while it asks.
LEMMA OvertakenStep ==
    ASSUME Fifo, IInv, IInv', [Next]_vars
    PROVE  OvertakenOnce
<1> SUFFICES ASSUME NEW p \in Proc, Peterson, Asking(p), Asking(p)'
             PROVE  /\ memory["turn"] = p => memory'["turn"] = p
                    /\ ~Asking(Other(p)) /\ Asking(Other(p))' => memory'["turn"] = p
                    /\ memory'["turn"] = p => ~Holds(Other(p))'
                    /\ ~Holds(Other(p)) /\ Holds(Other(p))' => Asking(Other(p))
  BY DEF OvertakenOnce
<1>a. Other(p) \in Proc /\ Other(p) # p /\ Other(Other(p)) = p
  BY TwoProcesses
<1>b. \A r \in Proc : r = p \/ r = Other(p)
  BY DEF Proc, Other
<1>1. memory'["turn"] = p => ~Holds(Other(p))'
  <2>1. TurnOK(Other(p))'
    BY <1>a DEF IInv, ProcOK
  <2>2. Peterson'
    BY DEF Next, Step, vars, Peterson, Drain, KillChild, Tell, Finished, Quiet, run, LoopTest,
       Raise, Defer, FenceIn, TestFlag, TestTurn, Lower, FenceBack, Spin, Enter, LoadCheck,
       StoreCheck, Reload, Pass, Leave, Verify
  <2> QED
    BY <1>a, <2>1, <2>2 DEF TurnOK
<1>2. ASSUME NEW q \in Proc, Step(q)
      PROVE  /\ memory' = memory
             /\ ~Asking(Other(p)) => ~Asking(Other(p))'
             /\ ~Holds(Other(p)) /\ Holds(Other(p))' => Asking(Other(p))
  <2>1. CASE q = p
    BY <1>2, <2>1, AtWork DEF Asking, Holds
  <2>2. CASE q = Other(p)
    BY <1>2, <2>2, AtWork
  <2> QED
    BY <1>b, <2>1, <2>2
<1>3. ~Drain(p)
  <2>1. TypeOK /\ BufferOK(p)
    BY DEF IInv, ProcOK
  <2>2. buffer[p] = <<>>
    BY <2>1 DEF BufferOK, Asking, Lone
  <2> QED
    BY <2>1, <2>2, Oldest
<1>4. ~KillChild
  BY DEF KillChild, Asking, Proc, IInv, TypeOK
<1>5. CASE UNCHANGED vars \/ Tell
  BY <1>1, <1>5 DEF vars, run, locals, Tell, Asking, Holds
<1>6. CASE Drain(Other(p))
  BY <1>1, <1>6, OthersStores
<1> QED
  BY <1>1, <1>2, <1>3, <1>4, <1>5, <1>6, <1>b DEF Next, Finished

\* Peterson's stressor: whoever waits with the flag up is overtaken at most
\* once, however often the other process comes round its loop.
THEOREM OvertakenAtMostOnce ==
    ASSUME Fifo
    PROVE  Spec => [][OvertakenOnce]_vars
<1>1. IInv /\ IInv' /\ [Next]_vars => [OvertakenOnce]_vars
  BY OvertakenStep
<1> QED
  BY <1>1, Invariance, PTL DEF Spec

=============================================================================
