-------------------------- MODULE ThreadTestProofs --------------------------
(***************************************************************************)
(* Proofs about ThreadTest: for any number of iterations of SimpleThread,  *)
(* any timer and none.  What holds of the lock and of the thread system    *)
(* is taken from LocksProofs and ThreadsProofs.                            *)
(***************************************************************************)
EXTENDS ThreadTest, SequenceTheorems, TLAPS

LP == INSTANCE LocksProofs
NP == INSTANCE LocksProofs WITH MaxTimer <- 0

-----------------------------------------------------------------------------
(* The lock, and the thread system under it. *)

LEMMA LocksAssumed ==
  LP!LocksAssumption /\ LP!TP!ThreadsAssumption /\ NP!LocksAssumption
BY ThreadTestAssumption
DEF L!LocksAssumption, LP!LocksAssumption, NP!LocksAssumption,
    L!T!ThreadsAssumption, LP!T!ThreadsAssumption, NP!T!ThreadsAssumption,
    LP!TP!ThreadsAssumption

\* The steps of the lock and of the thread system are those that LocksProofs and
\* ThreadsProofs are about.
LEMMA SameLockSteps ==
  \A l \in Lock :
    /\ L!Acquire(l) <=> LP!Acquire(l)
    /\ L!AcquireSleep(l) <=> LP!AcquireSleep(l)
    /\ L!AcquireWoken(l) <=> LP!AcquireWoken(l)
    /\ L!Release(l) <=> LP!Release(l)
BY DEF L!Acquire, L!AcquireSleep, L!AcquireWoken, L!Release, L!Take,
       L!T!CriticalSection, L!T!Block, L!T!Proceed, L!T!Wake, L!T!RunningAt,
       L!T!ReadyToRun, L!T!Enqueue, L!T!SetLevel, L!T!Sleepers,
       LP!Acquire, LP!AcquireSleep, LP!AcquireWoken, LP!Release, LP!Take,
       LP!T!CriticalSection, LP!T!Block, LP!T!Proceed, LP!T!Wake,
       LP!T!RunningAt, LP!T!ReadyToRun, LP!T!Enqueue, LP!T!SetLevel,
       LP!T!Sleepers

LEMMA SameSyncSteps ==
  /\ L!T!CriticalSection <=> LP!TP!CriticalSection
  /\ L!T!Block <=> LP!TP!Block
  /\ L!T!Proceed <=> LP!TP!Proceed
  /\ \A t \in Thread : L!T!Wake(t) <=> LP!TP!Wake(t)
BY DEF L!T!CriticalSection, L!T!Block, L!T!Proceed, L!T!Wake, L!T!RunningAt,
       L!T!ReadyToRun, L!T!Enqueue, L!T!SetLevel, L!T!Sleepers,
       LP!TP!CriticalSection, LP!TP!Block, LP!TP!Proceed, LP!TP!Wake,
       LP!TP!RunningAt, LP!TP!ReadyToRun, LP!TP!Enqueue, LP!TP!SetLevel,
       LP!TP!Sleepers

LEMMA SameThreadSteps ==
  /\ L!T!Yield <=> LP!TP!Yield
  /\ L!T!Tick <=> LP!TP!Tick
  /\ L!T!SwitchAway <=> LP!TP!SwitchAway
  /\ L!T!Halt <=> LP!TP!Halt
  /\ L!T!ThreadRoot <=> LP!TP!ThreadRoot
  /\ L!T!Resume <=> LP!TP!Resume
  /\ L!T!Terminated <=> LP!TP!Terminated
BY DEF L!T!Yield, L!T!Tick, L!T!SwitchAway, L!T!Halt, L!T!ThreadRoot,
       L!T!Resume, L!T!Terminated, L!T!vars, L!T!RunningAt, L!T!SetLevel,
       L!T!Enqueue, L!T!Dequeue, L!T!YieldCPU, L!T!NobodyReady,
       L!T!InSleepLoop, L!T!DeleteCarcass, L!T!TimeOfNextInterrupt,
       LP!TP!Yield, LP!TP!Tick, LP!TP!SwitchAway, LP!TP!Halt,
       LP!TP!ThreadRoot, LP!TP!Resume, LP!TP!Terminated, LP!TP!vars,
       LP!TP!RunningAt, LP!TP!SetLevel, LP!TP!Enqueue, LP!TP!Dequeue,
       LP!TP!YieldCPU, LP!TP!NobodyReady, LP!TP!InSleepLoop,
       LP!TP!DeleteCarcass, LP!TP!TimeOfNextInterrupt

LEMMA OutsideIsThreadStep ==
  /\ \/ L!T!Yield \/ L!T!Finish \/ \E t \in Thread : L!T!Fork(t)
     \/ L!T!Tick \/ L!T!SwitchAway \/ L!T!Halt
     \/ L!T!ThreadRoot \/ L!T!Resume \/ L!T!Terminated
  /\ UNCHANGED lockVars
  => LP!ThreadStep
BY DEF lockVars, LP!ThreadStep, LP!lockVars,
       L!T!Yield, L!T!Finish, L!T!Fork, L!T!Tick, L!T!SwitchAway, L!T!Halt,
       L!T!ThreadRoot, L!T!Resume, L!T!Terminated, L!T!vars, L!T!RunningAt,
       L!T!ReadyToRun, L!T!SetLevel, L!T!Enqueue, L!T!Dequeue, L!T!YieldCPU,
       L!T!NobodyReady, L!T!InSleepLoop, L!T!DeleteCarcass,
       L!T!TimeOfNextInterrupt,
       LP!T!Yield, LP!T!Finish, LP!T!Fork, LP!T!Tick, LP!T!SwitchAway,
       LP!T!Halt, LP!T!ThreadRoot, LP!T!Resume, LP!T!Terminated, LP!T!vars,
       LP!T!RunningAt, LP!T!ReadyToRun, LP!T!SetLevel, LP!T!Enqueue,
       LP!T!Dequeue, LP!T!YieldCPU, LP!T!NobodyReady, LP!T!InSleepLoop,
       LP!T!DeleteCarcass, LP!T!TimeOfNextInterrupt

\* Every step of a test is a step of Locks.
LEMMA StepOfLocks == [Next]_vars => [LP!Next]_(LP!vars)
<1> SUFFICES ASSUME [Next]_vars PROVE [LP!Next]_(LP!vars)
  OBVIOUS
<1>1. CASE Acquire \/ Release
  BY <1>1, ThreadTestAssumption, SameLockSteps DEF Acquire, Release, LP!Next
<1>2. CASE Fork \/ Yield \/ Finish \/ System
  <2>1. LP!ThreadStep
    BY <1>2, ThreadTestAssumption, OutsideIsThreadStep
    DEF Fork, Yield, Finish, System
  <2> QED BY <2>1 DEF LP!Next
<1>3. CASE UNCHANGED vars
  BY <1>3 DEF vars, L!vars, L!lockVars, L!T!vars, LP!vars, LP!lockVars, LP!T!vars
<1> QED BY <1>1, <1>2, <1>3 DEF Next

LEMMA LocksNext == LP!Inv /\ [Next]_vars => LP!Inv'
BY StepOfLocks, LP!InvNext, LocksAssumed

LEMMA LocksInit == Init => LP!Inv
<1>1. L!Init => LP!Inv
  <2>1. L!Init => LP!Init
    BY DEF L!Init, LP!Init, L!T!Init, LP!T!Init, L!T!TimeOfNextInterrupt,
           LP!T!TimeOfNextInterrupt
  <2> QED BY <2>1, LP!InvInit, LocksAssumed
<1>2. NoTimer!Init => LP!Inv
  <2>1. NoTimer!Init => NP!Init
    BY DEF NoTimer!Init, NP!Init, NoTimer!T!Init, NP!T!Init,
           NoTimer!T!TimeOfNextInterrupt, NP!T!TimeOfNextInterrupt
  <2>2. NoTimer!Init => NP!Inv
    BY <2>1, NP!InvInit, LocksAssumed
  <2>3. NP!TP!Inv => LP!TP!Inv
    <3>1. NP!TP!TypeOK => LP!TP!TypeOK
      <4>1. NP!TP!TypeOK => timer \in 0..MaxTimer
        BY ThreadTestAssumption
        DEF NP!TP!TypeOK, L!LocksAssumption, L!T!ThreadsAssumption
      <4> QED BY <4>1 DEF NP!TP!TypeOK, LP!TP!TypeOK, NP!TP!Status, LP!TP!Status,
                          NP!TP!Level, LP!TP!Level, NP!TP!Point, LP!TP!Point
    <3> QED
      BY <3>1
      DEF NP!TP!Inv, LP!TP!Inv, NP!TP!ReadyListSound, LP!TP!ReadyListSound,
          NP!TP!Placed, LP!TP!Placed, NP!TP!CpuHeld, LP!TP!CpuHeld,
          NP!TP!CarcassSafe, LP!TP!CarcassSafe, NP!TP!LevelKept, LP!TP!LevelKept,
          NP!TP!FreshLevel, LP!TP!FreshLevel, NP!TP!HaltedIsQuiet,
          LP!TP!HaltedIsQuiet, NP!TP!InterruptsOffInScheduler,
          LP!TP!InterruptsOffInScheduler
  <2>4. NP!Inv => LP!Inv
    BY <2>3
    DEF NP!Inv, LP!Inv, NP!LockTypes, LP!LockTypes, NP!WaitersAsleep,
        LP!WaitersAsleep, NP!FreshHoldsNothing, LP!FreshHoldsNothing,
        NP!MutualExclusion, LP!MutualExclusion, NP!QueueSound, LP!QueueSound,
        NP!NoLostWakeup, LP!NoLostWakeup
  <2> QED BY <2>2, <2>4
<1> QED BY <1>1, <1>2 DEF Init

-----------------------------------------------------------------------------
(* The procedures, instruction by instruction. *)

\* The threads that execute LockThread.
Locker(t) == testnum # 1 /\ t # Main

Length(t) ==
  IF Locker(t) THEN 4
  ELSE IF t # Main THEN Loops + 1
  ELSE IF testnum = 1 THEN Loops + 2 ELSE IF testnum = 2 THEN 3 ELSE 1

Call == {"ForkOne", "ForkTwo", "Yield", "Acquire", "Release", "Finish"}

LEMMA SimpleThreadSeq ==
  /\ SimpleThread \in Seq(Call) /\ Len(SimpleThread) = Loops
  /\ \A i \in 1..Loops : SimpleThread[i] = "Yield"
<1>1. Loops \in Nat
  BY ThreadTestAssumption
<1>2. /\ SimpleThread \in [1..Loops -> Call]
      /\ \A i \in 1..Loops : SimpleThread[i] = "Yield"
  BY DEF SimpleThread, Call
<1> HIDE DEF SimpleThread
<1>3. SimpleThread \in Seq(Call)
  BY <1>1, <1>2, SeqDef
<1>4. Len(SimpleThread) = Loops
  BY <1>1, <1>2, <1>3, LenProperties
<1> QED BY <1>2, <1>3, <1>4

LEMMA Instructions ==
  ASSUME testnum \in 1..3, NEW t \in Thread
  PROVE  /\ Length(t) \in Nat \ {0}
         /\ \A i \in 1..Length(t) :
              /\ Program(t)[i] = "Finish" <=> i = Length(t)
              /\ Program(t)[i] = "Acquire" <=> Locker(t) /\ i = 1
              /\ Program(t)[i] = "Release" <=> Locker(t) /\ i = 3
              /\ Program(t)[i] = "ForkOne" <=> t = Main /\ testnum \in {1, 2} /\ i = 1
              /\ Program(t)[i] = "ForkTwo" <=> t = Main /\ testnum = 2 /\ i = 2
              /\ Program(t)[i] = "Yield" =>
                   \/ testnum = 1 /\ (t = Main => i > 1)
                   \/ Locker(t) /\ i = 2
<1>0. Loops \in Nat
  BY ThreadTestAssumption
<1>1. CASE Locker(t)
  BY <1>1 DEF Locker, Length, Program, LockThread
<1>2. CASE testnum = 1 /\ t # Main
  <2>1. Program(t) = Append(SimpleThread, "Finish")
    BY <1>2 DEF Program
  <2>2. /\ Length(t) = Loops + 1
        /\ \A i \in 1..Loops : Program(t)[i] = "Yield"
        /\ Program(t)[Loops + 1] = "Finish"
    BY <1>2, <2>1, SimpleThreadSeq, AppendProperties DEF Length, Locker, Call
  <2>3. \A i \in 1..(Loops + 1) : i \in 1..Loops \/ i = Loops + 1
    BY <1>0
  <2> QED BY <1>0, <1>2, <2>2, <2>3 DEF Locker
<1>3. CASE testnum = 1 /\ t = Main
  <2> DEFINE body == <<"ForkOne">> \o SimpleThread
  <2>1. Program(t) = Append(body, "Finish")
    BY <1>3 DEF Program, MainProgram, ThreadTest1, LockTest1
  <2>2. /\ body \in Seq(Call) /\ Len(body) = Loops + 1
        /\ body[1] = "ForkOne"
        /\ \A i \in 2..(Loops + 1) : body[i] = "Yield"
    <3>1. <<"ForkOne">> \in Seq(Call) /\ Len(<<"ForkOne">>) = 1
      BY DEF Call
    <3>2. /\ body \in Seq(Call) /\ Len(body) = 1 + Loops
          /\ \A i \in 1..(1 + Loops) :
               body[i] = IF i <= 1 THEN <<"ForkOne">>[i] ELSE SimpleThread[i - 1]
      BY <3>1, SimpleThreadSeq, ConcatProperties
    <3> HIDE DEF body
    <3>3. 1 \in 1..(1 + Loops) /\ \A i \in 2..(Loops + 1) :
            i \in 1..(1 + Loops) /\ ~(i <= 1) /\ i - 1 \in 1..Loops
      BY <1>0
    <3> QED BY <1>0, <3>2, <3>3, SimpleThreadSeq
  <2> HIDE DEF body
  <2>3. /\ Length(t) = Loops + 2
        /\ Program(t)[1] = "ForkOne"
        /\ \A i \in 2..(Loops + 1) : Program(t)[i] = "Yield"
        /\ Program(t)[Loops + 2] = "Finish"
    <3>1. /\ \A i \in 1..(Loops + 1) : Program(t)[i] = body[i]
          /\ Program(t)[(Loops + 1) + 1] = "Finish"
      <4>1. "Finish" \in Call
        BY DEF Call
      <4> QED BY <2>1, <2>2, <4>1, AppendProperties
    <3>2. /\ 1 \in 1..(Loops + 1) /\ (Loops + 1) + 1 = Loops + 2
          /\ \A i \in 2..(Loops + 1) : i \in 1..(Loops + 1)
      BY <1>0
    <3> QED BY <1>3, <2>2, <3>1, <3>2 DEF Length, Locker
  <2>4. \A i \in 1..(Loops + 2) : i = 1 \/ i \in 2..(Loops + 1) \/ i = Loops + 2
    BY <1>0
  <2> QED BY <1>0, <1>3, <2>3, <2>4 DEF Locker
<1>4. CASE testnum = 2 /\ t = Main
  BY <1>4 DEF Locker, Length, Program, MainProgram, ThreadTest1, LockTest1
<1>5. CASE testnum = 3 /\ t = Main
  BY <1>5 DEF Locker, Length, Program, MainProgram, ThreadTest1, LockTest1
<1> QED BY <1>1, <1>2, <1>3, <1>4, <1>5 DEF Locker

-----------------------------------------------------------------------------
(* The inductive invariant. *)

\* The threads that main has forked so far, and itself.
Started ==
  {Main} \cup (IF testnum \in {1, 2} /\ pc[Main] > 1 THEN {One} ELSE {})
         \cup (IF testnum = 2 /\ pc[Main] > 2 THEN {Two} ELSE {})

\* Where the procedure of each thread is, and what that says of the thread: it has
\* the lock between Acquire and Release, waits for it in Acquire only, and has
\* finished at the end.
Coherent(t) ==
  /\ pc[t] \in 1..Length(t)
  /\ status[t] = "JUST_CREATED" <=> t \notin Started
  /\ locktest1 \in holds[t] <=> Locker(t) /\ pc[t] \in {2, 3}
  /\ waitsOn[t] # NULL => waitsOn[t] = locktest1 /\ Locker(t) /\ pc[t] = 1
  /\ at[t] = "finish" => pc[t] = Length(t)

InStep == \A t \in Thread : Coherent(t)

\* Without a timer main and One take turns, main first: One is one line behind
\* while it has the CPU, unless main has printed its last line.
TakingTurns ==
  testnum = 1 /\ timer = 0 =>
    \/ currentThread = Main /\ Looped(Main) = Looped(One)
    \/ currentThread = One /\ Looped(Main) = Looped(One) + 1
    \/ currentThread = One /\ at[Main] = "finish" /\ Looped(Main) = Looped(One)

Inv ==
  /\ LP!Inv
  /\ testnum \in 1..3 /\ pc \in [Thread -> Nat]
  /\ InStep
  /\ TakingTurns

LEMMA InvInit == Init => Inv
<1> SUFFICES ASSUME Init PROVE Inv
  OBVIOUS
<1>1. LP!Inv
  BY LocksInit
<1>2. testnum \in 1..3 /\ pc = [t \in Thread |-> 1]
  BY DEF Init
<1>3. /\ currentThread = Main /\ Main \in Thread /\ One \in Thread
      /\ status = [t \in Thread |-> IF t = Main THEN "RUNNING" ELSE "JUST_CREATED"]
      /\ \A t \in Thread : at[t] # "finish"
      /\ \A t \in Thread : waitsOn[t] = NULL /\ holds[t] = {}
  BY ThreadTestAssumption
  DEF Init, L!Init, NoTimer!Init, L!T!Init, NoTimer!T!Init, L!LocksAssumption,
      L!T!ThreadsAssumption
<1>4. InStep
  <2>1. ASSUME NEW t \in Thread PROVE 1 \in 1..Length(t)
    <3>1. Length(t) \in Nat \ {0}
      BY <1>2, Instructions
    <3> QED BY <3>1
  <2>2. Started = {Main}
    BY <1>2, <1>3 DEF Started
  <2>3. ASSUME NEW t \in Thread PROVE Coherent(t)
    <3>1. /\ pc[t] = 1 /\ at[t] # "finish"
          /\ waitsOn[t] = NULL /\ locktest1 \notin holds[t]
      BY <1>2, <1>3
    <3>2. status[t] = "JUST_CREATED" <=> t \notin Started
      BY <1>3, <2>2
    <3> QED BY <2>1, <3>1, <3>2 DEF Coherent
  <2> QED BY <2>3 DEF InStep
<1>5. TakingTurns
  BY <1>2, <1>3 DEF TakingTurns, Looped
<1> QED BY <1>1, <1>2, <1>4, <1>5 DEF Inv

-----------------------------------------------------------------------------
(* Every step keeps the procedures in step with the threads. *)

\* The thread that executes an instruction, and what the next one is.
LEMMA AtInstruction ==
  ASSUME Inv, NEW op, About(op)
  PROVE  /\ currentThread \in Thread
         /\ pc[currentThread] \in 1..Length(currentThread)
         /\ Program(currentThread)[pc[currentThread]] = op
         /\ op # "Finish" => pc[currentThread] + 1 \in 1..Length(currentThread)
<1> DEFINE c == currentThread
<1>1. c \in Thread
  BY DEF Inv, LP!Inv, LP!TP!Inv, LP!TP!TypeOK
<1>2. pc[c] \in 1..Length(c) /\ Length(c) \in Nat \ {0}
  BY <1>1, Instructions DEF Inv, InStep, Coherent
<1>3. op # "Finish" => pc[c] # Length(c)
  BY <1>1, <1>2, Instructions DEF About, Inv
<1> QED BY <1>1, <1>2, <1>3 DEF About

\* A step that moves no procedure, and in which no thread is forked or finishes.
LEMMA StayInStep ==
  ASSUME Inv, Stay, UNCHANGED lockVars, LP!TP!LivesKept
  PROVE  InStep'
BY DEF Inv, InStep, Coherent, Stay, lockVars, LP!TP!LivesKept, Started, Length, Locker

LEMMA SystemInStep ==
  ASSUME Inv, System
  PROVE  InStep'
<1>1. LP!TP!LivesKept
  BY SameThreadSteps, LocksAssumed, LP!TP!StepKeepsLives DEF System, Inv, LP!Inv
<1> QED BY <1>1, StayInStep DEF System

\* Who waits is not in its own code.
LEMMA AtUser ==
  ASSUME Inv, NEW t \in Thread, at[t] = "user"
  PROVE  waitsOn[t] = NULL
BY DEF Inv, LP!Inv, LP!WaitersAsleep

LEMMA YieldInStep ==
  ASSUME Inv, Yield
  PROVE  InStep'
<1>0. PICK c \in Thread : c = currentThread
  BY AtInstruction DEF Yield
<1>1. LP!TP!LivesKept
  BY SameThreadSteps, LocksAssumed, LP!TP!StepKeepsLives DEF Yield, Inv, LP!Inv
<1>2. pc[c] + 1 \in 1..Length(c)
  BY <1>0, AtInstruction DEF Yield
<1>3. \/ testnum = 1 /\ (c = Main => pc[c] > 1)
      \/ Locker(c) /\ pc[c] = 2
  BY <1>0, AtInstruction, Instructions DEF Yield, Inv
<1>4. waitsOn[c] = NULL /\ at[c] # "finish"
  BY <1>0, AtUser DEF Yield, L!T!Yield, L!T!RunningAt
<1>5. /\ pc' = [pc EXCEPT ![c] = @ + 1] /\ pc \in [Thread -> Nat]
      /\ testnum' = testnum /\ waitsOn' = waitsOn /\ holds' = holds
  BY <1>0 DEF Yield, Advance, lockVars, Inv
<1>6. Started' = Started
  BY <1>2, <1>3, <1>5, ThreadTestAssumption
  DEF Started, Locker, L!LocksAssumption, L!T!ThreadsAssumption
<1>7. ASSUME NEW t \in Thread, t # c
      PROVE  Coherent(t)'
  BY <1>1, <1>2, <1>5, <1>6, <1>7
  DEF Inv, InStep, Coherent, LP!TP!LivesKept, Length, Locker
<1>8. Coherent(c)'
  BY <1>1, <1>2, <1>3, <1>4, <1>5, <1>6
  DEF Inv, InStep, Coherent, LP!TP!LivesKept, Length, Locker
<1> QED BY <1>7, <1>8 DEF InStep

LEMMA FinishInStep ==
  ASSUME Inv, Finish
  PROVE  InStep'
<1>0. PICK c \in Thread : c = currentThread
  BY AtInstruction DEF Finish
<1>1. pc[c] = Length(c)
  BY <1>0, AtInstruction, Instructions DEF Finish, Inv
<1>2. /\ status[c] = "RUNNING" /\ status' = [status EXCEPT ![c] = "BLOCKED"]
      /\ at' = [at EXCEPT ![c] = "finish"]
      /\ at \in [Thread -> LP!TP!Point] /\ status \in [Thread -> LP!TP!Status]
  BY <1>0
  DEF Finish, L!T!Finish, L!T!RunningAt, Inv, LP!Inv, LP!TP!Inv, LP!TP!TypeOK
<1>3. UNCHANGED <<pc, testnum, waitsOn, holds>>
  BY DEF Finish, Stay, lockVars
<1> QED BY <1>1, <1>2, <1>3 DEF Inv, InStep, Coherent, Started, Length, Locker

LEMMA ForkInStep ==
  ASSUME Inv, Fork
  PROVE  InStep'
<1>0. PICK c \in Thread : c = currentThread
  BY AtInstruction DEF Fork
<1>1. /\ pc[c] + 1 \in 1..Length(c)
      /\ c = Main
      /\ \/ About("ForkOne") /\ testnum \in {1, 2} /\ pc[c] = 1
         \/ About("ForkTwo") /\ testnum = 2 /\ pc[c] = 2
  BY <1>0, AtInstruction, Instructions DEF Fork, Inv
<1>2. /\ status[c] = "RUNNING" /\ at[c] = "user"
      /\ at' \in [Thread -> LP!TP!Point]
      /\ at'[c] # "finish"
      /\ \A t \in Thread : t # c => at'[t] = at[t]
  BY <1>0 DEF Fork, L!T!Fork, L!T!SetLevel, L!T!RunningAt, Inv, LP!Inv, LP!TP!Inv,
              LP!TP!TypeOK, LP!TP!Point
<1>3. /\ pc' = [pc EXCEPT ![c] = @ + 1] /\ pc \in [Thread -> Nat]
      /\ UNCHANGED <<testnum, waitsOn, holds>>
  BY <1>0 DEF Fork, Advance, lockVars, Inv
<1>4. PICK new \in {One, Two} :
        /\ status' = [status EXCEPT ![new] = "READY"]
        /\ new = IF pc[c] = 1 THEN One ELSE Two
  BY <1>1, Instructions, <1>0
  DEF Fork, L!T!Fork, L!T!ReadyToRun, About, Inv
<1>5. One \in Thread /\ Two \in Thread /\ Main \in Thread /\ One # Main /\ Two # Main
      /\ One # Two /\ status \in [Thread -> LP!TP!Status]
  BY ThreadTestAssumption
  DEF L!LocksAssumption, L!T!ThreadsAssumption, Inv, LP!Inv, LP!TP!Inv, LP!TP!TypeOK
<1>6. Started' = Started \cup {new} /\ new \notin Started
  BY <1>1, <1>3, <1>4, <1>5 DEF Started
<1>7. ASSUME NEW t \in Thread
      PROVE  status'[t] = "JUST_CREATED" <=> t \notin Started'
  BY <1>4, <1>5, <1>6 DEF Inv, InStep, Coherent
<1>8. waitsOn[c] = NULL
  BY <1>2, AtUser
<1>9. \A t \in Thread : Length(t)' = Length(t) /\ (Locker(t)' <=> Locker(t))
  BY <1>3 DEF Length, Locker
<1>10. Coherent(c)'
  BY <1>1, <1>2, <1>3, <1>7, <1>8, <1>9 DEF Inv, InStep, Coherent, Locker
<1>11. ASSUME NEW t \in Thread, t # c PROVE Coherent(t)'
  BY <1>2, <1>3, <1>7, <1>9, <1>11 DEF Inv, InStep, Coherent
<1> QED BY <1>10, <1>11 DEF InStep

\* An instruction of LockThread: what the lock routines may do to the others.
LEMMA LockerInStep ==
  ASSUME Inv, NEW c \in Thread, Locker(c), LP!TP!LivesKept,
         UNCHANGED testnum, pc' \in [Thread -> Nat], at[c] # "finish",
         pc'[c] \in 1..4,
         locktest1 \in holds'[c] <=> pc'[c] \in {2, 3},
         waitsOn'[c] # NULL => waitsOn'[c] = locktest1 /\ pc'[c] = 1,
         \A t \in Thread : t # c => /\ pc'[t] = pc[t] /\ holds'[t] = holds[t]
                                    /\ waitsOn'[t] = waitsOn[t]
  PROVE  InStep'
<1>1. c # Main
  BY DEF Locker
<1>2. Started' = Started
  BY <1>1, ThreadTestAssumption
  DEF Started, L!LocksAssumption, L!T!ThreadsAssumption
<1>3. \A t \in Thread : Length(t)' = Length(t) /\ (Locker(t)' <=> Locker(t))
  BY DEF Length, Locker
<1>4. Length(c) = 4
  BY DEF Length
<1>5. Coherent(c)'
  BY <1>2, <1>3, <1>4 DEF Inv, InStep, Coherent, LP!TP!LivesKept
<1>6. ASSUME NEW t \in Thread, t # c PROVE Coherent(t)'
  BY <1>2, <1>3, <1>6 DEF Inv, InStep, Coherent, LP!TP!LivesKept
<1> QED BY <1>5, <1>6 DEF InStep

LEMMA AcquireInStep ==
  ASSUME Inv, Acquire
  PROVE  InStep'
<1>0. PICK c \in Thread : c = currentThread
  BY AtInstruction DEF Acquire
<1>1. Locker(c) /\ pc[c] = 1
  BY <1>0, AtInstruction, Instructions DEF Acquire, Inv
<1>2. LP!TP!LivesKept
  BY SameSyncSteps, LocksAssumed, LP!TP!StepKeepsLives
  DEF Acquire, L!Acquire, L!AcquireSleep, L!AcquireWoken, Inv, LP!Inv
<1>3. at[c] # "finish" /\ (at[c] = "user" => waitsOn[c] = NULL)
  BY <1>0, AtUser
  DEF Acquire, L!Acquire, L!AcquireSleep, L!AcquireWoken, L!T!CriticalSection,
      L!T!Block, L!T!Proceed, L!T!RunningAt
<1>4. /\ pc \in [Thread -> Nat] /\ holds \in [Thread -> SUBSET Lock]
      /\ waitsOn \in [Thread -> Lock \cup {NULL}]
      /\ locktest1 \notin holds[c]
  <2>1. locktest1 \in holds[c] <=> Locker(c) /\ pc[c] \in {2, 3}
    BY DEF Inv, InStep, Coherent
  <2> QED BY <1>1, <2>1 DEF Inv, LP!Inv, LP!LockTypes
<1>5. CASE (L!Acquire(locktest1) \/ L!AcquireWoken(locktest1)) /\ Advance
  <2>1. /\ pc' = [pc EXCEPT ![c] = @ + 1] /\ testnum' = testnum
        /\ holds' = [holds EXCEPT ![c] = @ \cup {locktest1}]
        /\ \A t \in Thread : t # c => waitsOn'[t] = waitsOn[t]
    BY <1>0, <1>4, <1>5 DEF Advance, L!Acquire, L!AcquireWoken, L!Take
  <2>2. waitsOn'[c] = NULL
    BY <1>0, <1>3, <1>4, <1>5
    DEF L!Acquire, L!AcquireWoken, L!T!CriticalSection, L!T!RunningAt
  <2> QED BY <1>1, <1>2, <1>3, <1>4, <2>1, <2>2, LockerInStep
<1>6. CASE L!AcquireSleep(locktest1) /\ Stay
  BY <1>0, <1>1, <1>2, <1>3, <1>4, <1>6, LockerInStep DEF L!AcquireSleep, Stay
<1> QED BY <1>5, <1>6 DEF Acquire

LEMMA ReleaseInStep ==
  ASSUME Inv, Release
  PROVE  InStep'
<1>0. PICK c \in Thread : c = currentThread
  BY AtInstruction DEF Release
<1>1. Locker(c) /\ pc[c] = 3
  BY <1>0, AtInstruction, Instructions DEF Release, Inv
<1>2. LP!TP!LivesKept /\ at[c] = "user"
  <2>1. CASE L!T!CriticalSection
    BY <1>0, <2>1, SameSyncSteps, LocksAssumed, LP!TP!StepKeepsLives
    DEF L!T!CriticalSection, L!T!RunningAt, Inv, LP!Inv
  <2>2. CASE L!T!Wake(Head(queue[locktest1]))
    <3>1. PICK u \in Thread : L!T!Wake(u)
      BY <2>2 DEF L!T!Wake, L!T!Sleepers
    <3> QED BY <1>0, <3>1, SameSyncSteps, LocksAssumed, LP!TP!StepKeepsLives
            DEF L!T!Wake, L!T!RunningAt, Inv, LP!Inv
  <2> QED BY <2>1, <2>2 DEF Release, L!Release
<1>3. waitsOn[c] = NULL
  BY <1>2, AtUser
<1>4. /\ pc \in [Thread -> Nat] /\ holds \in [Thread -> SUBSET Lock]
      /\ pc' = [pc EXCEPT ![c] = @ + 1] /\ testnum' = testnum
      /\ holds' = [holds EXCEPT ![c] = @ \ {locktest1}]
      /\ waitsOn' = waitsOn
  BY <1>0 DEF Inv, LP!Inv, LP!LockTypes, Release, L!Release, Advance
<1> QED BY <1>1, <1>2, <1>3, <1>4, LockerInStep

LEMMA InStepNext == Inv /\ [Next]_vars => InStep'
<1> SUFFICES ASSUME Inv, [Next]_vars PROVE InStep'
  OBVIOUS
<1>1. CASE Next
  BY <1>1, ForkInStep, YieldInStep, FinishInStep, AcquireInStep, ReleaseInStep,
     SystemInStep DEF Next
<1>2. CASE UNCHANGED vars
  <2>1. UNCHANGED <<status, at, holds, waitsOn, testnum, pc>>
    BY <1>2 DEF vars, L!vars, L!lockVars, L!T!vars
  <2> QED BY <2>1 DEF Inv, InStep, Coherent, Started, Length, Locker
<1> QED BY <1>1, <1>2

-----------------------------------------------------------------------------
(* Every step keeps main and One taking turns. *)

\* In the first test, where nobody waits, main and One are the only threads to
\* dispatch: one of them has the CPU, and the other is READY once it was forked
\* and as long as it has not finished.
LEMMA OnlyTwo ==
  ASSUME Inv, testnum = 1
  PROVE  /\ currentThread \in Started
         /\ Started \subseteq {Main, One}
         /\ \A t \in Thread : status[t] = "READY" => t \in Started \ {currentThread}
         /\ \A t \in Started \ {currentThread} :
              at[t] = "finish" \/ status[t] = "READY"
<1>1. /\ currentThread \in Thread
      /\ status \in [Thread -> LP!TP!Status] /\ at \in [Thread -> LP!TP!Point]
  BY DEF Inv, LP!Inv, LP!TP!Inv, LP!TP!TypeOK
<1>2. Started \subseteq {Main, One} /\ Started \subseteq Thread
  BY ThreadTestAssumption
  DEF Started, L!LocksAssumption, L!T!ThreadsAssumption
<1>3. \A t \in Thread : at[t] \notin {"sleep", "awake"}
  BY DEF Inv, InStep, Coherent, Locker, LP!Inv, LP!WaitersAsleep
<1>4. \A t \in Thread : status[t] = "JUST_CREATED" <=> t \notin Started
  BY DEF Inv, InStep, Coherent
<1>5. LP!TP!Placed /\ LP!TP!CpuHeld
  BY DEF Inv, LP!Inv, LP!TP!Inv
<1>6. status[currentThread] \in {"RUNNING", "BLOCKED", "DELETED"}
  BY <1>1, <1>3, <1>5 DEF LP!TP!Placed, LP!TP!CpuHeld
<1>7. ASSUME NEW t \in Started \ {currentThread}, at[t] # "finish"
      PROVE  status[t] = "READY"
  BY <1>1, <1>2, <1>3, <1>4, <1>5, <1>7 DEF LP!TP!Placed, LP!TP!Point
<1> QED BY <1>1, <1>2, <1>4, <1>6, <1>7

\* Whom Yield and the loop of Sleep switch to.
LEMMA OtherIsNext ==
  ASSUME Inv, testnum = 1
  PROVE  /\ readyList # <<>> =>
              /\ Head(readyList) \in Started \ {currentThread}
              /\ at[Head(readyList)] # "finish"
         /\ \A t \in Started \ {currentThread} :
              at[t] # "finish" => readyList # <<>>
<1>1. readyList # <<>> =>
        Head(readyList) \in Thread /\ status[Head(readyList)] = "READY"
  BY LocksAssumed, LP!TP!HeadReady DEF Inv, LP!Inv, LP!TP!Inv
<1>2. readyList # <<>> => at[Head(readyList)] # "finish"
  BY <1>1 DEF Inv, LP!Inv, LP!TP!Inv, LP!TP!Placed
<1>3. \A t \in Thread : status[t] = "READY" => readyList # <<>>
  BY EmptySeq DEF Inv, LP!Inv, LP!TP!Inv, LP!TP!ReadyListSound
<1>4. Started \subseteq Thread
  BY ThreadTestAssumption
  DEF Started, L!LocksAssumption, L!T!ThreadsAssumption
<1> QED BY <1>1, <1>2, <1>3, <1>4, OnlyTwo

\* Lines that both have printed, by their instructions.
LEMMA Lines ==
  ASSUME Inv, testnum = 1
  PROVE  /\ pc[Main] \in 1..(Loops + 2) /\ pc[One] \in 1..(Loops + 1)
         /\ at[Main] = "finish" => pc[Main] = Loops + 2
         /\ at[One] = "finish" => pc[One] = Loops + 1
         /\ Looped(Main) = IF pc[Main] = 1 THEN 0 ELSE pc[Main] - 2
         /\ Looped(One) = pc[One] - 1
         /\ One \in Started => pc[Main] > 1
         /\ pc[Main] > 1 => One \in Started
         /\ Loops \in Nat /\ One # Main /\ Main \in Thread /\ One \in Thread
<1>1. Loops \in Nat /\ One # Main /\ Main \in Thread /\ One \in Thread
  BY ThreadTestAssumption DEF L!LocksAssumption, L!T!ThreadsAssumption
<1>2. Length(Main) = Loops + 2 /\ Length(One) = Loops + 1
  BY <1>1 DEF Length, Locker
<1>3. One \in Started <=> pc[Main] > 1
  BY <1>1 DEF Started
<1> QED BY <1>1, <1>2, <1>3 DEF Inv, InStep, Coherent, Looped

LEMMA YieldTurns ==
  ASSUME Inv, Yield, testnum = 1, timer = 0
  PROVE  TakingTurns'
<1>0. PICK c \in Thread : c = currentThread
  BY AtInstruction DEF Yield
<1>1. /\ pc[c] \in 1..Length(c) /\ pc[c] + 1 \in 1..Length(c)
      /\ c = Main => pc[c] > 1
  BY <1>0, AtInstruction, Instructions DEF Yield, Inv, Locker
<1>2. c \in {Main, One}
  BY <1>0, OnlyTwo
<1>3. Length(Main) = Loops + 2 /\ Length(One) = Loops + 1
  BY Lines DEF Length, Locker
<1>4. /\ pc' = [pc EXCEPT ![c] = @ + 1] /\ pc \in [Thread -> Nat]
      /\ testnum' = testnum
  BY <1>0 DEF Yield, Advance, Inv
<1>5. /\ readyList = <<>> => currentThread' = currentThread
      /\ readyList # <<>> => currentThread' = Head(readyList)
  BY DEF Yield, L!T!Yield, L!T!YieldCPU
<1>6. LP!TP!LivesKept
  BY SameThreadSteps, LocksAssumed, LP!TP!StepKeepsLives DEF Yield, Inv, LP!Inv
<1>7. at[c] = "user"
  BY <1>0 DEF Yield, L!T!Yield, L!T!RunningAt
<1>8. CASE c = Main
  <2>1. Looped(Main) = Looped(One)
    BY <1>0, <1>8, Lines, <1>7 DEF Inv, TakingTurns
  <2>2. at[One] # "finish" /\ One \in Started
    BY <1>1, <1>3, <1>8, <2>1, Lines
  <2>3. currentThread' = One
    BY <1>0, <1>5, <1>8, <2>2, Lines, OtherIsNext, OnlyTwo
  <2>4. Looped(Main)' = Looped(One)' + 1
    BY <1>1, <1>4, <1>8, <2>1, Lines DEF Looped
  <2> QED BY <2>3, <2>4 DEF TakingTurns
<1>9. CASE c = One
  <2>1. /\ pc[One] <= Loops
        /\ Looped(Main) = Looped(One) + 1
    BY <1>0, <1>1, <1>3, <1>9, Lines DEF Inv, TakingTurns
  <2>2. Looped(Main)' = Looped(One)'
    BY <1>4, <1>9, <2>1, Lines DEF Looped
  <2>3. CASE readyList # <<>>
    <3>1. currentThread' = Main
      BY <1>0, <1>5, <1>9, <2>3, OtherIsNext, OnlyTwo
    <3> QED BY <2>2, <3>1 DEF TakingTurns
  <2>4. CASE readyList = <<>>
    <3>1. at[Main] = "finish"
      <4>1. Main \in Started \ {currentThread}
        BY <1>0, <1>9, Lines DEF Started
      <4> QED BY <2>4, <4>1, OtherIsNext
    <3>2. at'[Main] = "finish" /\ currentThread' = One
      BY <1>0, <1>5, <1>6, <1>9, <2>4, <3>1, Lines DEF LP!TP!LivesKept
    <3> QED BY <2>2, <3>2 DEF TakingTurns
  <2> QED BY <2>3, <2>4
<1> QED BY <1>2, <1>8, <1>9

\* Steps that leave the CPU where it is, and the two at their lines.
LEMMA SameTurn ==
  ASSUME Inv, UNCHANGED <<currentThread, testnum, timer>>,
         testnum = 1 => /\ Looped(Main)' = Looped(Main)
                        /\ Looped(One)' = Looped(One)
                        /\ at[Main] = "finish" => at'[Main] = "finish"
  PROVE  TakingTurns'
BY DEF Inv, TakingTurns

LEMMA SystemTurns ==
  ASSUME Inv, System
  PROVE  TakingTurns'
<1>1. UNCHANGED <<testnum, pc>>
  BY DEF System, Stay
<1>2. LP!TP!LivesKept
  BY SameThreadSteps, LocksAssumed, LP!TP!StepKeepsLives DEF System, Inv, LP!Inv
<1>3. Main \in Thread
  BY ThreadTestAssumption DEF L!LocksAssumption, L!T!ThreadsAssumption
<1>4. /\ Looped(Main)' = Looped(Main) /\ Looped(One)' = Looped(One)
      /\ at[Main] = "finish" => at'[Main] = "finish"
  BY <1>1, <1>2, <1>3 DEF Looped, LP!TP!LivesKept
<1>5. CASE L!T!Halt \/ L!T!ThreadRoot \/ L!T!Resume \/ L!T!Terminated
  BY <1>1, <1>4, <1>5, SameTurn
  DEF L!T!Halt, L!T!ThreadRoot, L!T!Resume, L!T!Terminated, L!T!vars
<1>6. CASE L!T!Tick
  <2>1. CASE timer = 1
    <3>1. timer' # 0
      BY <1>6, <2>1, ThreadTestAssumption
      DEF L!T!Tick, L!T!TimeOfNextInterrupt, L!LocksAssumption,
          L!T!ThreadsAssumption, Inv, LP!Inv, LP!TP!Inv, LP!TP!TypeOK
    <3> QED BY <3>1 DEF TakingTurns
  <2>2. CASE timer = 0
    BY <1>1, <1>4, <1>6, <2>2, SameTurn DEF L!T!Tick
  <2>3. CASE timer \notin {0, 1}
    <3>1. timer' # 0
      BY <1>6, <2>3, ThreadTestAssumption
      DEF L!T!Tick, L!LocksAssumption, L!T!ThreadsAssumption, Inv, LP!Inv,
          LP!TP!Inv, LP!TP!TypeOK
    <3> QED BY <3>1 DEF TakingTurns
  <2> QED BY <2>1, <2>2, <2>3
<1>7. CASE L!T!SwitchAway
  <2> SUFFICES ASSUME testnum = 1, timer = 0 PROVE TakingTurns'
    BY <1>1, <1>7 DEF TakingTurns, L!T!SwitchAway
  <2>1. /\ currentThread' = Head(readyList)
        /\ Head(readyList) \in Started \ {currentThread}
        /\ at[Head(readyList)] # "finish"
    BY <1>7, OtherIsNext DEF L!T!SwitchAway
  <2>2. at[currentThread] = "finish"
    BY <1>7, OnlyTwo
    DEF L!T!SwitchAway, L!T!InSleepLoop, Inv, InStep, Coherent, Locker, LP!Inv,
        LP!WaitersAsleep, LP!TP!Inv, LP!TP!TypeOK
  <2>3. CASE currentThread = Main
    <3>1. currentThread' = One
      BY <2>1, <2>3, OnlyTwo
    <3>2. Looped(Main) = Looped(One) /\ at[Main] = "finish"
      BY <2>2, <2>3, Lines DEF Inv, TakingTurns
    <3> QED BY <1>4, <3>1, <3>2 DEF TakingTurns
  <2>4. CASE currentThread = One
    <3>1. currentThread' = Main /\ at[Main] # "finish"
      BY <2>1, <2>4, OnlyTwo
    <3>2. Looped(Main) = Looped(One) + 1
      BY <2>4, <3>1, Lines DEF Inv, TakingTurns
    <3> QED BY <2>2, <2>4, <3>2, Lines
  <2> QED BY <2>3, <2>4, OnlyTwo
<1> QED BY <1>5, <1>6, <1>7 DEF System

LEMMA TurnsNext == Inv /\ [Next]_vars => TakingTurns'
<1> SUFFICES ASSUME Inv, [Next]_vars PROVE TakingTurns'
  OBVIOUS
<1>1. CASE System
  BY <1>1, SystemTurns
<1>2. CASE Yield
  BY <1>2, YieldTurns DEF TakingTurns, Yield, Advance, L!T!Yield
<1>3. CASE Finish
  <2>1. UNCHANGED <<currentThread, testnum, timer, pc>>
    BY <1>3 DEF Finish, Stay, L!T!Finish
  <2>2. at[Main] = "finish" => at'[Main] = "finish"
    BY <1>3, ThreadTestAssumption
    DEF Finish, L!T!Finish, L!LocksAssumption, L!T!ThreadsAssumption, Inv, LP!Inv,
        LP!TP!Inv, LP!TP!TypeOK
  <2> QED BY <2>1, <2>2, SameTurn DEF Looped
<1>4. CASE Fork
  <2> SUFFICES ASSUME testnum = 1, timer = 0 PROVE TakingTurns'
    BY <1>4 DEF TakingTurns, Fork, Advance, L!T!Fork
  <2>1. currentThread = Main /\ pc[Main] = 1
    BY <1>4, AtInstruction, Instructions DEF Fork, Inv
  <2>2. /\ pc' = [pc EXCEPT ![Main] = 2] /\ pc \in [Thread -> Nat]
        /\ currentThread' = currentThread
    BY <1>4, <2>1 DEF Fork, Advance, L!T!Fork, Inv
  <2>3. Looped(Main) = Looped(One)
    BY <2>1, Lines DEF Inv, TakingTurns
  <2>4. Looped(Main)' = Looped(One)'
    BY <2>1, <2>2, <2>3, Lines DEF Looped
  <2> QED BY <2>1, <2>2, <2>4 DEF TakingTurns
<1>5. CASE Acquire \/ Release
  <2>1. testnum # 1
    BY <1>5, AtInstruction, Instructions DEF Acquire, Release, Inv, Locker
  <2> QED BY <1>5, <2>1 DEF TakingTurns, Acquire, Release, Advance, Stay
<1>6. CASE UNCHANGED vars
  <2>1. UNCHANGED <<currentThread, testnum, timer, pc, at>>
    BY <1>6 DEF vars, L!vars, L!T!vars
  <2> QED BY <2>1, SameTurn DEF Looped
<1> QED BY <1>1, <1>2, <1>3, <1>4, <1>5, <1>6 DEF Next

-----------------------------------------------------------------------------
(* The theorems. *)

LEMMA InvNext == Inv /\ [Next]_vars => Inv'
<1> SUFFICES ASSUME Inv, [Next]_vars PROVE Inv'
  OBVIOUS
<1>1. LP!Inv' /\ InStep' /\ TakingTurns'
  BY LocksNext, InStepNext, TurnsNext DEF Inv
<1>2. testnum' = testnum /\ pc' \in [Thread -> Nat]
  BY DEF Next, Fork, Yield, Finish, Acquire, Release, System, Advance, Stay, vars,
         Inv
<1> QED BY <1>1, <1>2 DEF Inv

\* Each thread is in its procedure where its state in the thread system and in the
\* lock says, and without a timer main and the thread it forks take turns.
THEOREM InvCorrect == Spec => []Inv
BY InvInit, InvNext, PTL DEF Spec

\* "Set up a ping-pong between two threads": whatever the number of lines, neither
\* gets more than one ahead of the other when there is no timer.
THEOREM PingPongCorrect == Spec => []PingPong
<1>1. Inv => PingPong
  <2> SUFFICES ASSUME Inv, testnum = 1, timer = 0
               PROVE  /\ Looped(Main) <= Looped(One) + 1
                      /\ Looped(One) <= Looped(Main) + 1
    BY DEF PingPong
  <2>1. Looped(Main) \in Int /\ Looped(One) \in Int
    BY Lines
  <2> QED BY <2>1 DEF Inv, TakingTurns
<1> QED BY <1>1, InvCorrect, PTL

\* When the machine halts, main and every thread it forked have run to their end
\* and the lock is free, whatever the preemptions.
THEOREM AllDoneCorrect == Spec => []AllDone
<1>1. Inv => AllDone
  <2> SUFFICES ASSUME Inv, machine = "Halted"
               PROVE  /\ \A t \in Forked \cup {Main} : at[t] = "finish"
                      /\ held[locktest1] = 0
    BY DEF AllDone
  <2>1. /\ {Main, One, Two} \subseteq Thread /\ locktest1 \in Lock
        /\ NULL \notin Lock /\ Loops \in Nat
    BY ThreadTestAssumption DEF L!LocksAssumption, L!T!ThreadsAssumption
  \* Between Acquire and Release a thread neither waits nor has finished.
  <2>2. ASSUME NEW u \in Thread, locktest1 \in holds[u]
        PROVE  waitsOn[u] = NULL /\ at[u] # "finish"
    <3>1. Locker(u) /\ pc[u] \in {2, 3}
      BY <2>2 DEF Inv, InStep, Coherent
    <3>2. Length(u) = 4
      BY <3>1 DEF Length
    <3> QED BY <3>1, <3>2 DEF Inv, InStep, Coherent
  <2>3. \A t \in Thread : waitsOn[t] = NULL
    <3> SUFFICES ASSUME NEW t \in Thread, waitsOn[t] # NULL PROVE FALSE
      OBVIOUS
    <3>1. waitsOn[t] = locktest1
      BY DEF Inv, InStep, Coherent
    <3>2. LP!HaltMeansDeadlock
      BY LocksAssumed, LP!HaltOnDeadlock DEF Inv
    <3> QED BY <2>2, <3>1, <3>2 DEF LP!HaltMeansDeadlock
  <2>4. ASSUME NEW t \in Thread, status[t] # "JUST_CREATED"
        PROVE  at[t] = "finish"
    <3>1. status[t] \in LP!TP!Status /\ status[t] \notin {"READY", "RUNNING"}
          /\ at[t] \in LP!TP!Point
      BY DEF Inv, LP!Inv, LP!TP!Inv, LP!TP!TypeOK, LP!TP!HaltedIsQuiet
    <3>2. at[t] \notin {"sleep", "awake"}
      BY <2>3 DEF Inv, LP!Inv, LP!WaitersAsleep
    <3> QED BY <2>4, <3>1, <3>2 DEF LP!TP!Point, Inv, LP!Inv, LP!TP!Inv, LP!TP!Placed
  <2>5. \A t \in Started : t \in Thread /\ at[t] = "finish"
    <3> SUFFICES ASSUME NEW t \in Started PROVE t \in Thread /\ at[t] = "finish"
      OBVIOUS
    <3>1. t \in Thread
      <4>1. Started \subseteq {Main, One, Two}
        BY DEF Started
      <4> QED BY <2>1, <4>1
    <3>2. status[t] = "JUST_CREATED" <=> t \notin Started
      BY <3>1 DEF Inv, InStep, Coherent
    <3> QED BY <2>4, <3>1, <3>2
  <2>6. Forked \cup {Main} \subseteq Started
    <3>1. pc[Main] = Length(Main)
      BY <2>1, <2>5 DEF Started, Inv, InStep, Coherent
    <3>2. /\ testnum = 1 => pc[Main] > 1
          /\ testnum = 2 => pc[Main] > 2
      BY <2>1, <3>1 DEF Length, Locker
    <3>3. /\ testnum = 1 => Forked = {One}
          /\ testnum = 2 => Forked = {One, Two}
          /\ testnum = 3 => Forked = {}
      BY DEF Forked
    <3>4. Main \in Started
      BY DEF Started
    <3>5. testnum = 2 => pc[Main] > 1
      BY <2>1, <3>1 DEF Length, Locker
    <3>6. /\ testnum = 1 => One \in Started
          /\ testnum = 2 => One \in Started /\ Two \in Started
      BY <3>2, <3>5 DEF Started
    <3>7. testnum \in {1, 2, 3}
      BY DEF Inv
    <3> QED BY <3>3, <3>4, <3>6, <3>7
  <2>7. held[locktest1] = 0
    <3> SUFFICES ASSUME held[locktest1] = 1 PROVE FALSE
      BY <2>1 DEF Inv, LP!Inv, LP!LockTypes
    <3>1. PICK u \in Thread : locktest1 \in holds[u]
      BY <2>1 DEF Inv, LP!Inv, LP!MutualExclusion
    <3>2. at[u] # "root" /\ at[u] # "finish"
      BY <2>2, <3>1 DEF Inv, LP!Inv, LP!FreshHoldsNothing
    <3>3. status[u] # "JUST_CREATED"
      BY <3>2 DEF Inv, LP!Inv, LP!TP!Inv, LP!TP!Placed, LP!TP!TypeOK, LP!TP!Point
    <3> QED BY <2>4, <3>2, <3>3
  <2> QED BY <2>5, <2>6, <2>7
<1> QED BY <1>1, InvCorrect, PTL
=============================================================================
