----------------------------- MODULE Semaphores -----------------------------
(***************************************************************************)
(* Semaphore::P and Semaphore::V of synch.cc on top of the thread system.  *)
(* Threads call them with interrupts on; interrupt handlers call V only,   *)
(* as the device drivers built on this directory do.                       *)
(*                                                                         *)
(* V does not hand its unit to the thread it wakes: the value is visible   *)
(* at once, and a thread that calls P before the woken one runs takes it.  *)
(* The woken thread then waits again, behind the others.                   *)
(***************************************************************************)
EXTENDS Integers, Sequences, FiniteSets

CONSTANTS
  Thread, Main, NULL, MaxTimer, MaxDevices,   \* see Threads
  Semaphore,    \* the Semaphore objects
  MaxValue      \* bound on their values, initial ones included

VARIABLES
  currentThread, status, readyList, threadToBeDestroyed, level, oldLevel, at,
  timer, devices, machine, wanted,            \* see Threads
  value,        \* Semaphore::value
  queue,        \* Semaphore::queue
  waitsOn       \* the semaphore in whose P a thread has gone to sleep, or NULL

T == INSTANCE Threads

ASSUME SemaphoresAssumption ==
  /\ T!ThreadsAssumption /\ IsFiniteSet(Thread)
  /\ NULL \notin Semaphore
  /\ MaxValue \in Nat

semVars == <<value, queue, waitsOn>>
vars == <<T!vars, semVars>>

TypeOK ==
  /\ T!TypeOK
  /\ value \in [Semaphore -> 0..MaxValue]
  /\ queue \in [Semaphore -> Seq(Thread)]
  /\ waitsOn \in [Thread -> Semaphore \cup {NULL}]

Init ==
  /\ T!Init
  /\ value \in [Semaphore -> 0..MaxValue]
  /\ queue = [s \in Semaphore |-> <<>>]
  /\ waitsOn = [t \in Thread |-> NULL]

-----------------------------------------------------------------------------
\* P finds a unit at once.
P(s) ==
  /\ T!CriticalSection
  /\ value[s] # 0
  /\ value' = [value EXCEPT ![s] = @ - 1]
  /\ UNCHANGED <<queue, waitsOn>>

\* P finds none: on entry, or again after Sleep has returned.
PSleep(s) ==
  /\ T!Block
  /\ waitsOn[currentThread] \in {NULL, s}
  /\ value[s] = 0
  /\ queue' = [queue EXCEPT ![s] = Append(@, currentThread)]
  /\ waitsOn' = [waitsOn EXCEPT ![currentThread] = s]
  /\ UNCHANGED value

\* Mutant of PWoken: the condition of P is tested by an "if", not by a "while".
PWokenUntested(s) ==
  /\ T!Proceed
  /\ waitsOn[currentThread] = s
  /\ value' = [value EXCEPT ![s] = @ - 1]
  /\ waitsOn' = [waitsOn EXCEPT ![currentThread] = NULL]
  /\ UNCHANGED queue

\* Sleep has returned and there is a unit: P takes it and returns.
PWoken(s) ==
  /\ T!Proceed
  /\ waitsOn[currentThread] = s
  /\ value[s] # 0
  /\ value' = [value EXCEPT ![s] = @ - 1]
  /\ waitsOn' = [waitsOn EXCEPT ![currentThread] = NULL]
  /\ UNCHANGED queue

\* Mutant of VWakes: a waiter is woken only by the V that finds the value 0.
VWakesAtZero(s) == queue[s] # <<>> /\ value[s] = 0

\* Whether V takes a waiter off the queue.
VWakes(s) == queue[s] # <<>>

\* Mutant of VUpdate: the waiter is made ready and stays on the queue.
VUpdateWithoutRemove(s) ==
  /\ value[s] < MaxValue
  /\ value' = [value EXCEPT ![s] = @ + 1]
  /\ UNCHANGED <<queue, waitsOn>>

\* What V does to the semaphore.
VUpdate(s) ==
  /\ value[s] < MaxValue
  /\ value' = [value EXCEPT ![s] = @ + 1]
  /\ queue' = [queue EXCEPT ![s] = IF VWakes(s) THEN Tail(@) ELSE @]
  /\ UNCHANGED waitsOn

V(s) ==
  /\ IF VWakes(s) THEN T!Wake(Head(queue[s])) ELSE T!CriticalSection
  /\ VUpdate(s)

\* V called by the handler of a device interrupt.
DeviceV(s) ==
  /\ LET w == IF VWakes(s) THEN Head(queue[s]) ELSE NULL
     IN  T!DeviceInterrupt(w) \/ T!Idle(w)
  /\ VUpdate(s)

\* The steps of the thread system in which no semaphore takes part.
ThreadStep ==
  /\ \/ \E t \in Thread : T!Fork(t)
     \/ T!Yield \/ T!Finish \/ T!Schedule
     \/ T!DeviceInterrupt(NULL) \/ T!Idle(NULL)
     \/ T!Tick \/ T!SwitchAway \/ T!IdleReturn \/ T!Halt
     \/ T!ThreadRoot \/ T!Resume \/ T!Terminated
  /\ UNCHANGED semVars

Next ==
  \/ \E s \in Semaphore : P(s) \/ PSleep(s) \/ PWoken(s) \/ V(s) \/ DeviceV(s)
  \/ ThreadStep

Spec == Init /\ [][Next]_vars

\* The processor does not stop while it has something to do.
FairSpec == Spec /\ WF_vars(Next)

-----------------------------------------------------------------------------
(* Properties. *)

\* The queue of a semaphore holds each thread that sleeps in its P once and
\* nobody else, so that V wakes the one it takes off exactly once.
QueueSound ==
  \A s \in Semaphore :
    /\ \A i, j \in 1..Len(queue[s]) : queue[s][i] = queue[s][j] => i = j
    /\ {queue[s][i] : i \in 1..Len(queue[s])}
         = {t \in Thread : waitsOn[t] = s /\ status[t] = "BLOCKED"}

\* Threads that were woken from the queue of s and have not looked at it since.
Woken(s) == {t \in Thread : waitsOn[t] = s /\ status[t] # "BLOCKED"}

\* No wakeup is lost: while threads wait on s, every unit of s is matched by a
\* woken thread that will come and look for it, although that thread may find
\* the unit taken and go to sleep again.
NoLostWakeup ==
  \A s \in Semaphore :
    queue[s] # <<>> => value[s] <= Cardinality(Woken(s))

\* The machine halts with a thread in P only if its semaphore has no unit left:
\* a halt on sleeping threads is a deadlock of the program, not of P and V.
HaltMeansNoUnit ==
  machine = "Halted" =>
    \A t \in Thread : waitsOn[t] # NULL => value[waitsOn[t]] = 0

\* Semaphores implement the atomic P and V of synch.h; a unit that stays does
\* reach some thread waiting in P.
Abs == INSTANCE AbstractSemaphores
Implements == Abs!Spec

\* What synch.cc:94 says of V: the thread it makes ready has consumed the V, so
\* that thread does not find the semaphore empty.
WakeupConsumesV ==
  at[currentThread] = "awake" /\ waitsOn[currentThread] # NULL
    => value[waitsOn[currentThread]] # 0
=============================================================================
