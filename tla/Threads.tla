------------------------------ MODULE Threads ------------------------------
(***************************************************************************)
(* The thread system: thread.cc (Fork, Yield, Sleep, Finish), scheduler.cc *)
(* (ReadyToRun, FindNextToRun, Run) and the boot code of system.cc, on the *)
(* uniprocessor whose interrupts are simulated by interrupt.o and timer.o. *)
(*                                                                         *)
(* Only currentThread executes, so every action is a step of that thread.  *)
(* The simulated hardware delivers an interrupt at two places only: when a *)
(* SetLevel call turns interrupts on (one clock tick), and in Idle.  Code  *)
(* between two such places is therefore one action, except that a step     *)
(* ends at SWITCH, where another thread continues.                         *)
(*                                                                         *)
(* What a thread waits for in Sleep is left open: Block, Wake, Proceed and *)
(* CriticalSection are what any synchronization routine of synch.cc does   *)
(* to the thread system.  Semaphores and Locks compose with this module    *)
(* and implement it.                                                       *)
(***************************************************************************)
EXTENDS Naturals, Sequences

CONSTANTS
  Thread,       \* the Thread objects
  Main,         \* the thread that Initialize makes for the boot stack
  NULL,         \* the null pointer
  MaxTimer,     \* a timer interrupt comes at most this many ticks after the
                \* last one; 0 when there is no timer (nachos without -rs)
  MaxDevices    \* bound on the device interrupts pending at once

ASSUME ThreadsAssumption ==
  /\ Main \in Thread
  /\ NULL \notin Thread
  /\ MaxTimer \in Nat
  /\ MaxDevices \in Nat

Status == {"JUST_CREATED", "RUNNING", "READY", "BLOCKED", "DELETED"}
Level  == {"IntOff", "IntOn"}

(***************************************************************************)
(* Where a thread is.  For a suspended thread it is the frame SWITCH will  *)
(* return to.                                                              *)
(***************************************************************************)
Point ==
  { "root",     \* never dispatched: the saved PC is ThreadRoot
    "user",     \* in the procedure it was forked with
    "tick",     \* inside SetLevel(IntOn), in Interrupt::OneTick
    "yield",    \* inside Yield, in Run
    "sleep",    \* inside Sleep: in its loop or in Run
    "awake",    \* Sleep has returned to the synchronization routine
    "finish" }  \* inside the Sleep that Finish calls

VARIABLES
  currentThread,        \* the thread holding the CPU
  status,               \* ThreadStatus of every thread; DELETED once freed
  readyList,            \* Scheduler::readyList
  threadToBeDestroyed,  \* the finished thread whose carcass is still there
  level,                \* the interrupt level of the machine
  oldLevel,             \* each thread's local copy, put back on return
  at,                   \* each thread's control point
  timer,                \* ticks left to the next timer interrupt
  devices,              \* device interrupts scheduled and not yet delivered
  machine,              \* MachineStatus, or Halted once Halt was called
  wanted                \* history: the level each thread last asked for

vars == <<currentThread, status, readyList, threadToBeDestroyed, level,
          oldLevel, at, timer, devices, machine, wanted>>

TypeOK ==
  /\ currentThread \in Thread
  /\ status \in [Thread -> Status]
  /\ readyList \in Seq(Thread)
  /\ threadToBeDestroyed \in Thread \cup {NULL}
  /\ level \in Level
  /\ oldLevel \in [Thread -> Level]
  /\ at \in [Thread -> Point]
  /\ timer \in 0..MaxTimer
  /\ devices \in 0..MaxDevices
  /\ machine \in {"System", "Idle", "Halted"}
  /\ wanted \in [Thread -> Level]

-----------------------------------------------------------------------------
(* The machine and the scheduler. *)

\* Mutant of TimeOfNextInterrupt: the random number may be one too large.
TimeOfNextInterruptOffByOne == IF MaxTimer = 0 THEN {0} ELSE 1..(MaxTimer + 1)

\* TimeOfNextInterrupt: a random number of ticks, fresh each time.
TimeOfNextInterrupt == IF MaxTimer = 0 THEN {0} ELSE 1..MaxTimer

\* The current thread executes at one of the points S.
RunningAt(S) == machine = "System" /\ status[currentThread] = "RUNNING"
                                   /\ at[currentThread] \in S

\* The current thread is in the loop of Sleep: it has given up the CPU and
\* nobody took it yet.
InSleepLoop == /\ at[currentThread] \in {"sleep", "finish"}
               /\ status[currentThread] # "RUNNING"

\* SetLevel(l) as the last call of an operation: turning interrupts on is a tick.
SetLevel(l) ==
  /\ level' = l
  /\ at' = [at EXCEPT ![currentThread] = IF l = "IntOn" THEN "tick" ELSE "user"]

\* Mutant of Enqueue: the ready list used as a stack.
EnqueueInFront(list, t) == <<t>> \o list

\* readyList->Append(thread).
Enqueue(list, t) == Append(list, t)

\* Mutant of Dequeue: FindNextToRun looks at the head and leaves it there.
DequeueNothing(list) == list

\* readyList->Remove(), whose result is Head(readyList).
Dequeue(list) == Tail(list)

ReadyToRun(t) ==
  /\ status' = [status EXCEPT ![t] = "READY"]
  /\ readyList' = Enqueue(readyList, t)

Init ==
  /\ currentThread = Main
  /\ status = [t \in Thread |-> IF t = Main THEN "RUNNING" ELSE "JUST_CREATED"]
  /\ readyList = <<>>
  /\ threadToBeDestroyed = NULL
  /\ level = "IntOn"
  /\ oldLevel = [t \in Thread |-> "IntOn"]
  /\ at = [t \in Thread |-> IF t = Main THEN "tick" ELSE "root"]
  /\ timer \in TimeOfNextInterrupt
  /\ devices = 0
  /\ machine = "System"
  /\ wanted = [t \in Thread |-> "IntOn"]

-----------------------------------------------------------------------------
(* What a thread does in its own code. *)

\* t->Fork(func, arg) on a Thread that was just constructed.
Fork(t) ==
  /\ RunningAt({"user"})
  /\ status[t] = "JUST_CREATED"
  /\ ReadyToRun(t)
  /\ SetLevel(level)
  /\ UNCHANGED <<currentThread, threadToBeDestroyed, oldLevel, timer, devices,
                 machine, wanted>>

\* Mutant of YieldCPU: Yield forgets the interrupt level it was called with.
YieldCPUForgettingLevel ==
  IF readyList = <<>>
  THEN SetLevel(level) /\ UNCHANGED <<currentThread, status, readyList, oldLevel>>
  ELSE /\ oldLevel' = [oldLevel EXCEPT ![currentThread] = "IntOn"]
       /\ level' = "IntOff"
       /\ status' = [status EXCEPT ![currentThread] = "READY",
                                   ![Head(readyList)] = "RUNNING"]
       /\ readyList' = Enqueue(Dequeue(readyList), currentThread)
       /\ currentThread' = Head(readyList)
       /\ at' = [at EXCEPT ![currentThread] = "yield"]

\* The body of Thread::Yield up to SWITCH: with nobody ready it returns at once.
YieldCPU ==
  IF readyList = <<>>
  THEN SetLevel(level) /\ UNCHANGED <<currentThread, status, readyList, oldLevel>>
  ELSE /\ oldLevel' = [oldLevel EXCEPT ![currentThread] = level]
       /\ level' = "IntOff"
       /\ status' = [status EXCEPT ![currentThread] = "READY",
                                   ![Head(readyList)] = "RUNNING"]
       /\ readyList' = Enqueue(Dequeue(readyList), currentThread)
       /\ currentThread' = Head(readyList)
       /\ at' = [at EXCEPT ![currentThread] = "yield"]

Yield ==
  /\ RunningAt({"user"})
  /\ YieldCPU
  /\ UNCHANGED <<threadToBeDestroyed, timer, devices, machine, wanted>>

\* Mutant of Finish: interrupts are left as they are.
FinishInterruptible ==
  /\ RunningAt({"user"})
  /\ threadToBeDestroyed' = currentThread
  /\ status' = [status EXCEPT ![currentThread] = "BLOCKED"]
  /\ at' = [at EXCEPT ![currentThread] = "finish"]
  /\ UNCHANGED <<currentThread, readyList, level, oldLevel, timer, devices,
                 machine, wanted>>

\* Finish up to the loop of the Sleep it calls.
Finish ==
  /\ RunningAt({"user"})
  /\ level' = "IntOff"
  /\ threadToBeDestroyed' = currentThread
  /\ status' = [status EXCEPT ![currentThread] = "BLOCKED"]
  /\ at' = [at EXCEPT ![currentThread] = "finish"]
  /\ UNCHANGED <<currentThread, readyList, oldLevel, timer, devices, machine,
                 wanted>>

\* The thread's own interrupt->SetLevel(IntOff) or SetLevel(IntOn).
ChangeLevel ==
  /\ RunningAt({"user"})
  /\ LET l == IF level = "IntOn" THEN "IntOff" ELSE "IntOn"
     IN  SetLevel(l) /\ wanted' = [wanted EXCEPT ![currentThread] = l]
  /\ UNCHANGED <<currentThread, status, readyList, threadToBeDestroyed, oldLevel,
                 timer, devices, machine>>

\* External: a device driver schedules the interrupt that ends its request.
Schedule ==
  /\ RunningAt({"user"})
  /\ devices < MaxDevices
  /\ devices' = devices + 1
  /\ UNCHANGED <<currentThread, status, readyList, threadToBeDestroyed, level,
                 oldLevel, at, timer, machine, wanted>>

-----------------------------------------------------------------------------
(* What the synchronization routines do to the thread system. *)

\* SetLevel(IntOff); ...; SetLevel(oldLevel), with no thread put to sleep or woken.
CriticalSection ==
  /\ RunningAt({"user"})
  /\ SetLevel(level)
  /\ UNCHANGED <<currentThread, status, readyList, threadToBeDestroyed, oldLevel,
                 timer, devices, machine, wanted>>

\* Threads that wait in the Sleep of a synchronization routine.
Sleepers == {t \in Thread : at[t] = "sleep" /\ status[t] = "BLOCKED"}

\* The same with a waiting thread taken off its queue and made ready.
Wake(t) ==
  /\ RunningAt({"user"})
  /\ t \in Sleepers
  /\ ReadyToRun(t)
  /\ SetLevel(level)
  /\ UNCHANGED <<currentThread, threadToBeDestroyed, oldLevel, timer, devices,
                 machine, wanted>>

\* The call of Sleep: on entry to the routine, or again because the woken
\* thread found the condition false.
Block ==
  /\ RunningAt({"user", "awake"})
  /\ level' = "IntOff"
  /\ oldLevel' = IF at[currentThread] = "user"
                 THEN [oldLevel EXCEPT ![currentThread] = level] ELSE oldLevel
  /\ status' = [status EXCEPT ![currentThread] = "BLOCKED"]
  /\ at' = [at EXCEPT ![currentThread] = "sleep"]
  /\ UNCHANGED <<currentThread, readyList, threadToBeDestroyed, timer, devices,
                 machine, wanted>>

\* The woken thread finds the condition true and leaves the routine.
Proceed ==
  /\ RunningAt({"awake"})
  /\ SetLevel(oldLevel[currentThread])
  /\ UNCHANGED <<currentThread, status, readyList, threadToBeDestroyed, oldLevel,
                 timer, devices, machine, wanted>>

-----------------------------------------------------------------------------
(* Interrupts: handlers run on the current thread's stack, interrupts off. *)

\* A handler runs and calls ReadyToRun for at most one sleeper w (a V).
Handler(w) ==
  /\ devices' = devices - 1
  /\ IF w = NULL THEN UNCHANGED <<status, readyList>>
                 ELSE w \in Sleepers /\ ReadyToRun(w)

DeviceInterrupt(w) ==
  /\ devices > 0
  /\ RunningAt({"tick"}) \/ machine = "Idle"
  /\ Handler(w)
  /\ UNCHANGED <<currentThread, threadToBeDestroyed, level, oldLevel, at, timer,
                 machine, wanted>>

\* OneTick has delivered what was due.  TimerInterruptHandler asks for a Yield
\* on return, which is made here, in the frame of the interrupted thread.
Tick ==
  /\ RunningAt({"tick"})
  /\ IF timer = 1
     THEN timer' \in TimeOfNextInterrupt /\ YieldCPU
     ELSE /\ timer' = IF timer = 0 THEN 0 ELSE timer - 1
          /\ at' = [at EXCEPT ![currentThread] = "user"]
          /\ UNCHANGED <<currentThread, status, readyList, level, oldLevel>>
  /\ UNCHANGED <<threadToBeDestroyed, devices, machine, wanted>>

-----------------------------------------------------------------------------
(* The loop of Sleep, and Run. *)

\* Mutant of NobodyReady: Sleep idles before it has looked at the ready list.
NobodyReadyUnchecked == TRUE

\* The condition of the loop: FindNextToRun found nobody.
NobodyReady == readyList = <<>>

\* FindNextToRun found a thread: Run up to SWITCH.  A device handler may have
\* made ready the very thread that idles, which then switches to itself.
SwitchAway ==
  /\ machine = "System" /\ InSleepLoop
  /\ readyList # <<>>
  /\ currentThread' = Head(readyList)
  /\ status' = [status EXCEPT ![Head(readyList)] = "RUNNING"]
  /\ readyList' = Dequeue(readyList)
  /\ UNCHANGED <<threadToBeDestroyed, level, oldLevel, at, timer, devices, machine,
                 wanted>>

\* Interrupt::Idle advances the clock to the next device interrupt.  The timer
\* may go off on the way: nobody is there to be preempted, and Sleep calls
\* Idle again.
Idle(w) ==
  /\ machine = "System" /\ InSleepLoop
  /\ NobodyReady /\ devices > 0
  /\ machine' = "Idle"
  /\ timer' \in TimeOfNextInterrupt
  /\ Handler(w)
  /\ UNCHANGED <<currentThread, threadToBeDestroyed, level, oldLevel, at, wanted>>

IdleReturn ==
  /\ machine = "Idle"
  /\ machine' = "System"
  /\ UNCHANGED <<currentThread, status, readyList, threadToBeDestroyed, level,
                 oldLevel, at, timer, devices, wanted>>

\* Nothing is pending, or only the timer: Idle calls Halt, which calls Cleanup.
Halt ==
  /\ machine = "System" /\ InSleepLoop
  /\ NobodyReady /\ devices = 0
  /\ machine' = "Halted"
  /\ UNCHANGED <<currentThread, status, readyList, threadToBeDestroyed, level,
                 oldLevel, at, timer, devices, wanted>>

\* First dispatch: SWITCH returns into ThreadRoot, which enables interrupts and
\* calls the forked procedure.  The code of Run behind SWITCH is not executed.
ThreadRoot ==
  /\ RunningAt({"root"})
  /\ SetLevel("IntOn")
  /\ UNCHANGED <<currentThread, status, readyList, threadToBeDestroyed, oldLevel,
                 timer, devices, machine, wanted>>

\* Mutant of DeleteCarcass: the freed thread stays threadToBeDestroyed.
DeleteCarcassAndKeepIt ==
  /\ status' = [t \in Thread |-> IF t = threadToBeDestroyed THEN "DELETED"
                                                            ELSE status[t]]
  /\ UNCHANGED threadToBeDestroyed

\* The end of Run, on the stack of the thread that was switched to.
DeleteCarcass ==
  /\ status' = [t \in Thread |-> IF t = threadToBeDestroyed THEN "DELETED"
                                                            ELSE status[t]]
  /\ threadToBeDestroyed' = NULL

\* SWITCH returns in Run, and Run in Yield or in Sleep.
Resume ==
  /\ RunningAt({"yield", "sleep"})
  /\ DeleteCarcass
  /\ IF at[currentThread] = "yield"
     THEN SetLevel(oldLevel[currentThread])
     ELSE at' = [at EXCEPT ![currentThread] = "awake"] /\ UNCHANGED level
  /\ UNCHANGED <<currentThread, readyList, oldLevel, timer, devices, machine,
                 wanted>>

\* The process has exited.
Terminated == machine = "Halted" /\ UNCHANGED vars

-----------------------------------------------------------------------------
Next ==
  \/ \E t \in Thread : Fork(t) \/ Wake(t)
  \/ Yield \/ Finish \/ ChangeLevel \/ Schedule
  \/ CriticalSection \/ Block \/ Proceed
  \/ \E w \in Thread \cup {NULL} : DeviceInterrupt(w) \/ Idle(w)
  \/ Tick \/ SwitchAway \/ IdleReturn \/ Halt \/ ThreadRoot \/ Resume
  \/ Terminated

Spec == Init /\ [][Next]_vars

\* The processor does not stop while it has something to do.
FairSpec == Spec /\ WF_vars(Next)

-----------------------------------------------------------------------------
(* Properties. *)

\* The ready list holds each READY thread once and nothing else: no thread is
\* forgotten, none can be dispatched twice, however Fork, Yield, wakeups by
\* threads and by interrupt handlers, and preemption interleave.
ReadyListSound ==
  /\ \A i, j \in 1..Len(readyList) : readyList[i] = readyList[j] => i = j
  /\ \A t \in Thread :
       status[t] = "READY" <=> \E i \in 1..Len(readyList) : readyList[i] = t

\* A carcass is freed once, when its thread is off its stack for good: the thread
\* to be destroyed has finished and is not freed yet, and a freed thread neither
\* runs nor waits to run (the ASSERT of ~Thread, and no use after delete in Run).
CarcassSafe ==
  /\ threadToBeDestroyed # NULL =>
       /\ at[threadToBeDestroyed] = "finish"
       /\ status[threadToBeDestroyed] = "BLOCKED"
  /\ \A t \in Thread : status[t] = "DELETED" =>
       /\ at[t] = "finish"
       /\ t # currentThread

\* Yield, Sleep and preemption give a thread back the interrupt level it had,
\* whatever level the threads that ran in between left behind ("On return, we
\* re-set the interrupt level to its original state").
LevelKept ==
  \A t \in Thread :
    /\ t = currentThread /\ at[t] \in {"user", "tick"} => level = wanted[t]
    /\ at[t] \in {"yield", "sleep", "awake"} => oldLevel[t] = wanted[t]

\* Interrupts are off from the moment a thread starts giving up the CPU to the
\* moment the next one is out of the scheduler, ThreadRoot included (the ASSERT
\* of Sleep, and the assumption of ReadyToRun and Run).
InterruptsOffInScheduler ==
  at[currentThread] \notin {"user", "tick"} => level = "IntOff"

\* The machine halts only when no thread can run and no device can wake one.
HaltedIsQuiet ==
  machine = "Halted" =>
    /\ devices = 0
    /\ \A t \in Thread : status[t] \notin {"READY", "RUNNING"}

\* A thread on the ready list is never overtaken: Yield and preemption put the
\* current thread behind everybody who waits.
NoOvertaking ==
  [][\A i \in 1..Len(readyList) : \A j \in 1..Len(readyList') :
       readyList[i] = readyList'[j] => j <= i]_vars

\* With the timer on, every ready thread gets the CPU, even from a thread that
\* never gives it up, unless it keeps interrupts off for ever.
ReadyRuns ==
  \A t \in Thread : status[t] = "READY" ~> currentThread = t

\* What thread.cc:134-136 and scheduler.cc:120-121 say of a finished thread: once
\* another thread runs, it has been deleted or is about to be.
NoCarcassLost ==
  \A t \in Thread :
    at[t] = "finish" => \/ t = currentThread
                       \/ t = threadToBeDestroyed
                       \/ status[t] = "DELETED"
=============================================================================
