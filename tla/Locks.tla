------------------------------- MODULE Locks -------------------------------
(***************************************************************************)
(* Lock::Acquire and Lock::Release of synch.cc on top of the thread        *)
(* system.  The code keeps no owner; "holds" is a history variable that    *)
(* says whose Acquire returned last, and the convention of synch.h that    *)
(* only that thread calls Release is a guard on the caller.  Threads call  *)
(* both with interrupts on.  A thread may ask for a lock it already holds: *)
(* the code then puts it to sleep for good.                                *)
(***************************************************************************)
EXTENDS Naturals, Sequences

CONSTANTS
  Thread, Main, NULL, MaxTimer, MaxDevices,   \* see Threads
  Lock                                        \* the Lock objects

VARIABLES
  currentThread, status, readyList, threadToBeDestroyed, level, oldLevel, at,
  timer, devices, machine, wanted,            \* see Threads
  held,         \* Lock::held
  queue,        \* Lock::queue
  waitsOn,      \* the lock in whose Acquire a thread has gone to sleep, or NULL
  holds         \* history: the locks each thread acquired and did not release

T == INSTANCE Threads

ASSUME LocksAssumption == T!ThreadsAssumption /\ NULL \notin Lock

lockVars == <<held, queue, waitsOn, holds>>
vars == <<T!vars, lockVars>>

TypeOK ==
  /\ T!TypeOK
  /\ held \in [Lock -> {0, 1}]
  /\ queue \in [Lock -> Seq(Thread)]
  /\ waitsOn \in [Thread -> Lock \cup {NULL}]
  /\ holds \in [Thread -> SUBSET Lock]

Init ==
  /\ T!Init
  /\ held = [l \in Lock |-> 0]
  /\ queue = [l \in Lock |-> <<>>]
  /\ waitsOn = [t \in Thread |-> NULL]
  /\ holds = [t \in Thread |-> {}]

-----------------------------------------------------------------------------
\* The end of Acquire.
Take(l) ==
  /\ held' = [held EXCEPT ![l] = 1]
  /\ holds' = [holds EXCEPT ![currentThread] = @ \cup {l}]

\* Acquire finds the lock free at once.
Acquire(l) ==
  /\ T!CriticalSection
  /\ held[l] = 0
  /\ Take(l)
  /\ UNCHANGED <<queue, waitsOn>>

\* Acquire finds the lock held: on entry, or again after Sleep has returned.
AcquireSleep(l) ==
  /\ T!Block
  /\ waitsOn[currentThread] \in {NULL, l}
  /\ held[l] # 0
  /\ queue' = [queue EXCEPT ![l] = Append(@, currentThread)]
  /\ waitsOn' = [waitsOn EXCEPT ![currentThread] = l]
  /\ UNCHANGED <<held, holds>>

\* Mutant of AcquireWoken: held is tested by an "if", not by a "while".
AcquireWokenUntested(l) ==
  /\ T!Proceed
  /\ waitsOn[currentThread] = l
  /\ Take(l)
  /\ waitsOn' = [waitsOn EXCEPT ![currentThread] = NULL]
  /\ UNCHANGED queue

\* Sleep has returned and the lock is free.
AcquireWoken(l) ==
  /\ T!Proceed
  /\ waitsOn[currentThread] = l
  /\ held[l] = 0
  /\ Take(l)
  /\ waitsOn' = [waitsOn EXCEPT ![currentThread] = NULL]
  /\ UNCHANGED queue

\* Mutant of Release: the lock is freed and nobody is woken.
ReleaseWithoutWaking(l) ==
  /\ l \in holds[currentThread]
  /\ T!CriticalSection
  /\ held' = [held EXCEPT ![l] = 0]
  /\ holds' = [holds EXCEPT ![currentThread] = @ \ {l}]
  /\ UNCHANGED <<queue, waitsOn>>

\* Mutant of Release: the waiter that is woken stays on the queue.
ReleaseWithoutRemove(l) ==
  /\ l \in holds[currentThread]
  /\ IF queue[l] # <<>> THEN T!Wake(Head(queue[l])) ELSE T!CriticalSection
  /\ held' = [held EXCEPT ![l] = 0]
  /\ holds' = [holds EXCEPT ![currentThread] = @ \ {l}]
  /\ UNCHANGED <<queue, waitsOn>>

Release(l) ==
  /\ l \in holds[currentThread]
  /\ IF queue[l] # <<>> THEN T!Wake(Head(queue[l])) ELSE T!CriticalSection
  /\ queue' = [queue EXCEPT ![l] = IF @ # <<>> THEN Tail(@) ELSE @]
  /\ held' = [held EXCEPT ![l] = 0]
  /\ holds' = [holds EXCEPT ![currentThread] = @ \ {l}]
  /\ UNCHANGED waitsOn

\* The steps of the thread system in which no lock takes part.
ThreadStep ==
  /\ \/ \E t \in Thread : T!Fork(t)
     \/ T!Yield \/ T!Finish \/ T!Schedule
     \/ T!DeviceInterrupt(NULL) \/ T!Idle(NULL)
     \/ T!Tick \/ T!SwitchAway \/ T!IdleReturn \/ T!Halt
     \/ T!ThreadRoot \/ T!Resume \/ T!Terminated
  /\ UNCHANGED lockVars

Next ==
  \/ \E l \in Lock : Acquire(l) \/ AcquireSleep(l) \/ AcquireWoken(l) \/ Release(l)
  \/ ThreadStep

Spec == Init /\ [][Next]_vars

\* The processor does not stop while it has something to do.
FairSpec == Spec /\ WF_vars(Next)

-----------------------------------------------------------------------------
(* Properties. *)

\* No two threads are between Acquire and Release of one lock, whatever
\* preemption and barging do to the threads that Release wakes; and the lock is
\* held exactly while somebody is.
MutualExclusion ==
  \A l \in Lock :
    /\ \A t, u \in Thread : l \in holds[t] /\ l \in holds[u] => t = u
    /\ held[l] = 1 <=> \E t \in Thread : l \in holds[t]

\* The queue of a lock holds each thread that sleeps in its Acquire once and
\* nobody else, so that a waiter is woken exactly once.
QueueSound ==
  \A l \in Lock :
    /\ \A i, j \in 1..Len(queue[l]) : queue[l][i] = queue[l][j] => i = j
    /\ {queue[l][i] : i \in 1..Len(queue[l])}
         = {t \in Thread : waitsOn[t] = l /\ status[t] = "BLOCKED"}

\* No wakeup is lost: a free lock that threads queue for has been offered to one
\* that was woken and has not looked at it since.
NoLostWakeup ==
  \A l \in Lock :
    queue[l] # <<>> => \/ held[l] = 1
                       \/ \E t \in Thread : waitsOn[t] = l /\ status[t] # "BLOCKED"

\* The machine halts on a thread in Acquire only when the lock is held by a
\* thread that finished without releasing it or waits in Acquire itself.
HaltMeansDeadlock ==
  machine = "Halted" =>
    \A t \in Thread : waitsOn[t] # NULL =>
      \E u \in Thread : /\ waitsOn[t] \in holds[u]
                        /\ waitsOn[u] # NULL \/ at[u] = "finish"

\* Locks implement the FREE/BUSY lock of synch.h; a lock that is released reaches
\* some thread waiting in Acquire.
Abs == INSTANCE AbstractLocks
         WITH owner <- [l \in Lock |->
                          IF \E t \in Thread : l \in holds[t]
                          THEN CHOOSE t \in Thread : l \in holds[t] ELSE NULL]
Implements == Abs!Spec
=============================================================================
