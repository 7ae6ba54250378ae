----------------------------- MODULE ThreadTest -----------------------------
(***************************************************************************)
(* The program that nachos runs in this directory: main of main.cc calls   *)
(* ThreadTest of threadtest.cc, which forks threads according to testnum,  *)
(* and then finishes the main thread.  The threads run on Locks and, below *)
(* it, Threads; here each of them has a procedure to execute.              *)
(***************************************************************************)
EXTENDS Naturals, Sequences

CONSTANTS
  Thread, Main, NULL, MaxTimer, MaxDevices,   \* see Threads
  Lock,                                       \* see Locks
  One, Two,         \* the threads that the tests create, in this order
  locktest1,        \* the lock of LockTest1
  Loops             \* iterations of SimpleThread, 5 in the source

VARIABLES
  currentThread, status, readyList, threadToBeDestroyed, level, oldLevel, at,
  timer, devices, machine, wanted,            \* see Threads
  held, queue, waitsOn, holds,                \* see Locks
  testnum,      \* the test to run
  pc            \* the instruction each thread is at in its procedure

L == INSTANCE Locks

ASSUME ThreadTestAssumption ==
  /\ L!LocksAssumption
  /\ {One, Two} \subseteq Thread \ {Main} /\ One # Two
  /\ locktest1 \in Lock
  /\ Loops \in Nat

NoTimer == INSTANCE Locks WITH MaxTimer <- 0

lockVars == <<held, queue, waitsOn, holds>>
vars == <<L!vars, testnum, pc>>

-----------------------------------------------------------------------------
(* The procedures, as sequences of calls; printf changes no state. *)

SimpleThread == [i \in 1..Loops |-> "Yield"]

\* Mutant of LockThread: Release is forgotten.
LockThreadWithoutRelease == <<"Acquire", "Yield">>

\* LockThread1 and LockThread2 differ only in what they print.
LockThread == <<"Acquire", "Yield", "Release">>

ThreadTest1 == <<"ForkOne">> \o SimpleThread

LockTest1 == <<"ForkOne", "ForkTwo">>

\* What the main thread does before it calls Finish.
MainProgram ==
  CASE testnum = 1 -> ThreadTest1
    [] testnum = 2 -> LockTest1
    [] OTHER -> <<>>

\* ThreadRoot calls Finish when the forked procedure returns; main calls it itself.
Program(t) ==
  LET body == IF t = Main THEN MainProgram
              ELSE IF testnum = 1 THEN SimpleThread ELSE LockThread
  IN  Append(body, "Finish")

\* The current thread is about to execute op.
About(op) == Program(currentThread)[pc[currentThread]] = op

Advance == pc' = [pc EXCEPT ![currentThread] = @ + 1] /\ UNCHANGED testnum
Stay    == UNCHANGED <<testnum, pc>>

-----------------------------------------------------------------------------
\* With -rs or without it; "timer" stays 0 in the second case.
Init ==
  /\ L!Init \/ NoTimer!Init
  /\ testnum \in 1..3
  /\ pc = [t \in Thread |-> 1]

Fork ==
  /\ \/ About("ForkOne") /\ L!T!Fork(One)
     \/ About("ForkTwo") /\ L!T!Fork(Two)
  /\ UNCHANGED lockVars /\ Advance

\* Mutant of Yield: the loop counter is not incremented.
YieldUncounted == About("Yield") /\ L!T!Yield /\ UNCHANGED lockVars /\ Stay

\* Mutant of Yield: the thread prints its line and keeps the CPU.
YieldNot == About("Yield") /\ L!T!CriticalSection /\ UNCHANGED lockVars /\ Advance

Yield == About("Yield") /\ L!T!Yield /\ UNCHANGED lockVars /\ Advance

Finish == About("Finish") /\ L!T!Finish /\ UNCHANGED lockVars /\ Stay

Acquire ==
  About("Acquire") /\
    \/ (L!Acquire(locktest1) \/ L!AcquireWoken(locktest1)) /\ Advance
    \/ L!AcquireSleep(locktest1) /\ Stay

Release == About("Release") /\ L!Release(locktest1) /\ Advance

\* Preemption, dispatching and the halt: the procedure does not move.
System ==
  /\ \/ L!T!Tick \/ L!T!SwitchAway \/ L!T!Halt
     \/ L!T!ThreadRoot \/ L!T!Resume \/ L!T!Terminated
  /\ UNCHANGED lockVars /\ Stay

Next == Fork \/ Yield \/ Finish \/ Acquire \/ Release \/ System

Spec == Init /\ [][Next]_vars

\* The processor goes on, and the random timer does not come back within one
\* tick each time it fires.
FairSpec == Spec /\ WF_vars(Next) /\ SF_vars(System /\ timer' > 1)

-----------------------------------------------------------------------------
(* Properties. *)

Forked == CASE testnum = 1 -> {One} [] testnum = 2 -> {One, Two} [] OTHER -> {}

\* When the machine halts, main and every thread it forked have run to their end
\* and the lock is free: nobody was forgotten or deadlocked by the preemptions.
AllDone ==
  machine = "Halted" =>
    /\ \A t \in Forked \cup {Main} : at[t] = "finish"
    /\ held[locktest1] = 0

\* The machine does halt.
TestCompletes == <>(machine = "Halted")

\* Lines that t has printed in SimpleThread.
Looped(t) == IF t = Main THEN IF pc[t] = 1 THEN 0 ELSE pc[t] - 2 ELSE pc[t] - 1

\* "Set up a ping-pong between two threads": without a timer neither thread gets
\* more than one line ahead of the other.
PingPong ==
  testnum = 1 /\ timer = 0 =>
    /\ Looped(Main) <= Looped(One) + 1
    /\ Looped(One) <= Looped(Main) + 1
=============================================================================
