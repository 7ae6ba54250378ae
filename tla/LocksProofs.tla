---------------------------- MODULE LocksProofs ----------------------------
(***************************************************************************)
(* Proofs about Locks: for any set of threads and locks.  What holds of    *)
(* the thread system under the locks is taken from ThreadsProofs, whose    *)
(* invariant every step of a lock keeps, because it is a step of Threads.  *)
(***************************************************************************)
EXTENDS Locks, SequenceTheorems, TLAPS

TP == INSTANCE ThreadsProofs

-----------------------------------------------------------------------------
(* The thread system under the locks. *)

LEMMA ThreadsAssumed == TP!ThreadsAssumption
BY LocksAssumption DEF T!ThreadsAssumption, TP!ThreadsAssumption

LEMMA SameInit == T!Init => TP!Init
BY DEF T!Init, TP!Init, T!TimeOfNextInterrupt, TP!TimeOfNextInterrupt

\* The steps of Threads that the locks use are those that ThreadsProofs is about.
LEMMA SameSteps ==
  /\ T!CriticalSection <=> TP!CriticalSection
  /\ T!Block <=> TP!Block
  /\ T!Proceed <=> TP!Proceed
  /\ \A t \in Thread : T!Wake(t) <=> TP!Wake(t)
BY DEF T!CriticalSection, T!Block, T!Proceed, T!Wake, T!RunningAt, T!ReadyToRun,
       T!Enqueue, T!SetLevel, T!Sleepers,
       TP!CriticalSection, TP!Block, TP!Proceed, TP!Wake, TP!RunningAt,
       TP!ReadyToRun, TP!Enqueue, TP!SetLevel, TP!Sleepers

LEMMA ThreadStepQuiet == ThreadStep => TP!QuietStep
BY DEF ThreadStep, T!Fork, T!Yield, T!Finish, T!Schedule, T!DeviceInterrupt,
       T!Idle, T!Tick, T!SwitchAway, T!IdleReturn, T!Halt, T!ThreadRoot,
       T!Resume, T!Terminated, T!vars, T!RunningAt, T!ReadyToRun, T!SetLevel,
       T!Enqueue, T!Dequeue, T!YieldCPU, T!Sleepers, T!Handler,
       T!NobodyReady, T!InSleepLoop, T!DeleteCarcass, T!TimeOfNextInterrupt,
       TP!QuietStep, TP!Fork, TP!Yield, TP!Finish, TP!Schedule,
       TP!DeviceInterrupt, TP!Idle, TP!Tick, TP!SwitchAway, TP!IdleReturn,
       TP!Halt, TP!ThreadRoot, TP!Resume, TP!Terminated, TP!vars, TP!RunningAt,
       TP!ReadyToRun, TP!SetLevel, TP!Enqueue, TP!Dequeue, TP!YieldCPU,
       TP!Sleepers, TP!Handler, TP!NobodyReady, TP!InSleepLoop,
       TP!DeleteCarcass, TP!TimeOfNextInterrupt

\* Every step of the locks is a step of Threads.
LEMMA StepOfThreads == [Next]_vars => [TP!Next]_(TP!vars)
<1> SUFFICES ASSUME [Next]_vars PROVE [TP!Next]_(TP!vars)
  OBVIOUS
<1>1. ASSUME NEW l \in Lock, Acquire(l) PROVE TP!Next
  BY <1>1, SameSteps DEF Acquire, TP!Next
<1>2. ASSUME NEW l \in Lock, AcquireSleep(l) PROVE TP!Next
  BY <1>2, SameSteps DEF AcquireSleep, TP!Next
<1>3. ASSUME NEW l \in Lock, AcquireWoken(l) PROVE TP!Next
  BY <1>3, SameSteps DEF AcquireWoken, TP!Next
<1>4. ASSUME NEW l \in Lock, Release(l) PROVE TP!Next
  BY <1>4, SameSteps DEF Release, T!Wake, T!Sleepers, TP!Next
<1>5. CASE ThreadStep
  BY <1>5, ThreadStepQuiet DEF TP!QuietStep, TP!Next
<1>6. CASE UNCHANGED vars
  BY <1>6 DEF vars, T!vars, TP!vars
<1> QED BY <1>1, <1>2, <1>3, <1>4, <1>5, <1>6 DEF Next

LEMMA ThreadsInit == Init => TP!Inv
BY SameInit, TP!InvInit, ThreadsAssumed DEF Init

LEMMA ThreadsNext == TP!Inv /\ [Next]_vars => TP!Inv'
BY StepOfThreads, TP!InvNext, ThreadsAssumed

-----------------------------------------------------------------------------
(* The inductive invariant. *)

LockTypes ==
  /\ held \in [Lock -> {0, 1}]
  /\ queue \in [Lock -> Seq(Thread)]
  /\ waitsOn \in [Thread -> Lock \cup {NULL}]
  /\ holds \in [Thread -> SUBSET Lock]

\* A thread waits for a lock exactly while it is in the Sleep of Acquire, or
\* about to test held again.
WaitersAsleep ==
  \A t \in Thread : waitsOn[t] # NULL <=> at[t] \in {"sleep", "awake"}

\* A thread that was never dispatched holds nothing.
FreshHoldsNothing == \A t \in Thread : at[t] = "root" => holds[t] = {}

Asleep(l) == {t \in Thread : waitsOn[t] = l /\ status[t] = "BLOCKED"}

Inv ==
  /\ TP!Inv
  /\ LockTypes
  /\ WaitersAsleep
  /\ FreshHoldsNothing
  /\ MutualExclusion
  /\ QueueSound
  /\ NoLostWakeup

LEMMA QueueSoundIsLists == QueueSound <=> \A l \in Lock : TP!Lists(queue[l], Asleep(l))
BY DEF QueueSound, TP!Lists, Asleep

LEMMA QueueSoundIsListsNext ==
  QueueSound' <=> \A l \in Lock : TP!Lists(queue'[l], Asleep(l)')
BY DEF QueueSound, TP!Lists, Asleep

LEMMA InvInit == Init => Inv
<1> SUFFICES ASSUME Init PROVE Inv
  OBVIOUS
<1>1. TP!Inv
  BY ThreadsInit
<1>2. LockTypes /\ FreshHoldsNothing /\ MutualExclusion /\ NoLostWakeup
  BY DEF Init, LockTypes, FreshHoldsNothing, MutualExclusion, NoLostWakeup
<1>3. WaitersAsleep
  BY DEF Init, T!Init, WaitersAsleep
<1>4. QueueSound
  BY LocksAssumption, EmptySeq DEF Init, QueueSound
<1> QED BY <1>1, <1>2, <1>3, <1>4 DEF Inv

-----------------------------------------------------------------------------
(* Each step keeps the invariant. *)

LEMMA AcquireNext ==
  ASSUME Inv, TP!Inv', NEW l \in Lock, Acquire(l)
  PROVE  Inv'
<1>1. /\ currentThread \in Thread /\ TP!OthersStay
      /\ at[currentThread] = "user" /\ at'[currentThread] \in {"user", "tick"}
      /\ status' = status
  BY SameSteps, ThreadsAssumed, TP!CriticalSectionFrames DEF Inv, Acquire
<1>2. LockTypes' /\ WaitersAsleep' /\ FreshHoldsNothing'
  BY <1>1 DEF Inv, LockTypes, WaitersAsleep, FreshHoldsNothing, Acquire, Take,
              TP!OthersStay
<1>3. MutualExclusion'
  BY <1>1 DEF Inv, LockTypes, MutualExclusion, Acquire, Take
<1>4. QueueSound'
  BY <1>1 DEF Inv, QueueSound, Acquire
<1>5. NoLostWakeup'
  BY <1>1 DEF Inv, LockTypes, NoLostWakeup, Acquire, Take
<1> QED BY <1>2, <1>3, <1>4, <1>5 DEF Inv

LEMMA AcquireSleepNext ==
  ASSUME Inv, TP!Inv', NEW l \in Lock, AcquireSleep(l)
  PROVE  Inv'
<1> DEFINE c == currentThread
<1>1. /\ c \in Thread /\ TP!OthersStay
      /\ at[c] \in {"user", "awake"} /\ at'[c] = "sleep"
      /\ status \in [Thread -> TP!Status]
      /\ status[c] = "RUNNING"
      /\ status' = [status EXCEPT ![c] = "BLOCKED"]
  BY SameSteps, ThreadsAssumed, TP!BlockFrames
  DEF Inv, TP!Inv, TP!TypeOK, AcquireSleep
<1>2. LockTypes'
  BY <1>1, AppendProperties DEF Inv, LockTypes, AcquireSleep
<1>3. WaitersAsleep' /\ FreshHoldsNothing'
  BY <1>1, LocksAssumption
  DEF Inv, LockTypes, WaitersAsleep, FreshHoldsNothing, AcquireSleep, TP!OthersStay
<1>4. MutualExclusion'
  BY DEF Inv, MutualExclusion, AcquireSleep
<1>5. QueueSound'
  <2> SUFFICES ASSUME NEW k \in Lock PROVE TP!Lists(queue'[k], Asleep(k)')
    BY QueueSoundIsListsNext
  <2>1. TP!Lists(queue[k], Asleep(k)) /\ queue[k] \in Seq(Thread)
    BY QueueSoundIsLists DEF Inv, LockTypes
  <2>2. CASE k = l
    <3>1. c \notin Asleep(l) /\ Asleep(l)' = Asleep(l) \cup {c}
      BY <1>1 DEF Inv, LockTypes, Asleep, AcquireSleep
    <3>2. queue'[l] = Append(queue[l], c)
      BY DEF Inv, LockTypes, AcquireSleep
    <3> QED BY <1>1, <2>1, <2>2, <3>1, <3>2, TP!AppendLists, ThreadsAssumed
  <2>3. CASE k # l
    <3>1. Asleep(k)' = Asleep(k)
      BY <1>1, <2>3, LocksAssumption DEF Inv, LockTypes, Asleep, AcquireSleep
    <3>2. queue'[k] = queue[k]
      BY <2>3 DEF Inv, LockTypes, AcquireSleep
    <3> QED BY <2>1, <3>1, <3>2
  <2> QED BY <2>2, <2>3
<1>6. NoLostWakeup'
  <2> SUFFICES ASSUME NEW k \in Lock, queue'[k] # <<>>, held'[k] # 1
               PROVE  \E t \in Thread : waitsOn'[t] = k /\ status'[t] # "BLOCKED"
    BY DEF NoLostWakeup
  <2>1. k # l /\ queue'[k] = queue[k] /\ held[k] # 1
    BY DEF Inv, LockTypes, AcquireSleep
  <2>2. PICK t \in Thread : waitsOn[t] = k /\ status[t] # "BLOCKED"
    BY <2>1 DEF Inv, NoLostWakeup
  <2>3. t # c
    BY <2>1, <2>2, LocksAssumption DEF AcquireSleep
  <2> QED BY <1>1, <2>2, <2>3 DEF Inv, LockTypes, AcquireSleep
<1> QED BY <1>2, <1>3, <1>4, <1>5, <1>6 DEF Inv

LEMMA AcquireWokenNext ==
  ASSUME Inv, TP!Inv', NEW l \in Lock, AcquireWoken(l)
  PROVE  Inv'
<1> DEFINE c == currentThread
<1>1. /\ c \in Thread /\ TP!OthersStay
      /\ at[c] = "awake" /\ at'[c] \in {"user", "tick"}
      /\ status[c] = "RUNNING" /\ status' = status
  BY SameSteps, ThreadsAssumed, TP!ProceedFrames DEF Inv, AcquireWoken
<1>2. LockTypes'
  BY <1>1 DEF Inv, LockTypes, AcquireWoken, Take
<1>3. WaitersAsleep' /\ FreshHoldsNothing'
  BY <1>1 DEF Inv, LockTypes, WaitersAsleep, FreshHoldsNothing, AcquireWoken,
              Take, TP!OthersStay
<1>4. MutualExclusion'
  BY <1>1 DEF Inv, LockTypes, MutualExclusion, AcquireWoken, Take
<1>5. QueueSound'
  <2>1. \A k \in Lock : Asleep(k)' = Asleep(k)
    BY <1>1, LocksAssumption DEF Inv, LockTypes, Asleep, AcquireWoken
  <2> QED
    BY <2>1, QueueSoundIsLists, QueueSoundIsListsNext DEF Inv, AcquireWoken
<1>6. NoLostWakeup'
  <2> SUFFICES ASSUME NEW k \in Lock, queue[k] # <<>>, held'[k] # 1
               PROVE  \E t \in Thread : waitsOn'[t] = k /\ status'[t] # "BLOCKED"
    BY DEF NoLostWakeup, AcquireWoken
  <2>1. k # l /\ held[k] # 1
    BY DEF Inv, LockTypes, AcquireWoken, Take
  <2>2. PICK t \in Thread : waitsOn[t] = k /\ status[t] # "BLOCKED"
    BY <2>1 DEF Inv, NoLostWakeup
  <2>3. t # c
    BY <2>1, <2>2 DEF AcquireWoken
  <2> QED BY <1>1, <2>2, <2>3 DEF Inv, LockTypes, AcquireWoken
<1> QED BY <1>2, <1>3, <1>4, <1>5, <1>6 DEF Inv

LEMMA ReleaseNext ==
  ASSUME Inv, TP!Inv', NEW l \in Lock, Release(l)
  PROVE  Inv'
<1> DEFINE c == currentThread
           h == Head(queue[l])
<1>1. TP!Lists(queue[l], Asleep(l)) /\ queue[l] \in Seq(Thread)
  BY QueueSoundIsLists DEF Inv, LockTypes
<1>2. queue[l] # <<>> => /\ h \in Asleep(l) /\ T!Wake(h)
                         /\ TP!Lists(Tail(queue[l]), Asleep(l) \ {h})
  BY <1>1, TP!TailLists, ThreadsAssumed DEF Release
<1>3. /\ c \in Thread /\ TP!OthersStay
      /\ at[c] = "user" /\ at'[c] \in {"user", "tick"}
      /\ status' = IF queue[l] = <<>> THEN status
                                      ELSE [status EXCEPT ![h] = "READY"]
  BY <1>2, SameSteps, ThreadsAssumed, TP!CriticalSectionFrames, TP!WakeFrames
  DEF Inv, Release, Asleep
<1>4. /\ status \in [Thread -> TP!Status]
      /\ held' = [held EXCEPT ![l] = 0]
      /\ holds' = [holds EXCEPT ![c] = @ \ {l}]
      /\ queue' = [queue EXCEPT ![l] = IF @ # <<>> THEN Tail(@) ELSE @]
      /\ l \in holds[c] /\ waitsOn' = waitsOn
  BY DEF Inv, TP!Inv, TP!TypeOK, Release
<1> HIDE DEF h
<1>5. LockTypes'
  BY <1>1, <1>3, <1>4, HeadTailProperties DEF Inv, LockTypes
<1>6. WaitersAsleep' /\ FreshHoldsNothing'
  BY <1>3, <1>4
  DEF Inv, LockTypes, WaitersAsleep, FreshHoldsNothing, TP!OthersStay
<1>7. MutualExclusion'
  BY <1>3, <1>4 DEF Inv, LockTypes, MutualExclusion
<1>8. QueueSound'
  <2> SUFFICES ASSUME NEW k \in Lock PROVE TP!Lists(queue'[k], Asleep(k)')
    BY QueueSoundIsListsNext
  <2>1. TP!Lists(queue[k], Asleep(k))
    BY QueueSoundIsLists DEF Inv
  <2>2. CASE queue[l] = <<>>
    BY <1>3, <1>4, <2>1, <2>2 DEF Inv, LockTypes, Asleep
  <2>3. CASE queue[l] # <<>> /\ k = l
    <3>1. Asleep(l)' = Asleep(l) \ {h}
      BY <1>3, <1>4, <2>3 DEF Asleep
    <3>2. queue'[l] = Tail(queue[l])
      BY <1>4, <2>3 DEF Inv, LockTypes
    <3> QED BY <1>2, <2>3, <3>1, <3>2
  <2>4. CASE queue[l] # <<>> /\ k # l
    <3>1. Asleep(k)' = Asleep(k)
      BY <1>2, <1>3, <1>4, <2>4 DEF Asleep
    <3>2. queue'[k] = queue[k]
      BY <1>4, <2>4 DEF Inv, LockTypes
    <3> QED BY <2>1, <3>1, <3>2
  <2> QED BY <2>2, <2>3, <2>4
<1>9. NoLostWakeup'
  <2> SUFFICES ASSUME NEW k \in Lock, queue'[k] # <<>>, held'[k] # 1
               PROVE  \E t \in Thread : waitsOn[t] = k /\ status'[t] # "BLOCKED"
    BY <1>4 DEF NoLostWakeup
  <2>1. CASE k = l
    <3>1. queue[l] # <<>>
      BY <1>4, <2>1 DEF Inv, LockTypes
    <3> QED BY <1>2, <1>3, <1>4, <2>1, <3>1 DEF Asleep
  <2>2. CASE k # l
    <3>1. PICK t \in Thread : waitsOn[t] = k /\ status[t] # "BLOCKED"
      BY <1>4, <2>2 DEF Inv, LockTypes, NoLostWakeup
    <3> QED BY <1>3, <1>4, <3>1
  <2> QED BY <2>1, <2>2
<1> QED BY <1>5, <1>6, <1>7, <1>8, <1>9 DEF Inv

\* A step without a lock that wakes no waiter and puts none to sleep.
LEMMA OutsideNext ==
  ASSUME Inv, TP!Inv', TP!WaitersKept, UNCHANGED lockVars
  PROVE  Inv'
<1>1. UNCHANGED <<held, queue, waitsOn, holds>>
  BY DEF lockVars
<1>2. \A t \in Thread :
        /\ at'[t] \in {"sleep", "awake"} <=> at[t] \in {"sleep", "awake"}
        /\ at'[t] = "root" => at[t] = "root"
  BY DEF TP!WaitersKept, TP!Waiting
<1>3. \A t \in Thread : waitsOn[t] # NULL =>
                          (status'[t] = "BLOCKED" <=> status[t] = "BLOCKED")
  BY DEF Inv, WaitersAsleep, TP!WaitersKept, TP!Waiting
<1>4. LockTypes' /\ WaitersAsleep' /\ FreshHoldsNothing' /\ MutualExclusion'
  BY <1>1, <1>2
  DEF Inv, LockTypes, WaitersAsleep, FreshHoldsNothing, MutualExclusion
<1>5. QueueSound'
  <2>1. \A l \in Lock : Asleep(l)' = Asleep(l)
    BY <1>1, <1>3, LocksAssumption DEF Asleep
  <2> QED BY <1>1, <2>1, QueueSoundIsLists, QueueSoundIsListsNext DEF Inv
<1>6. NoLostWakeup'
  BY <1>1, <1>3, LocksAssumption DEF Inv, NoLostWakeup
<1> QED BY <1>4, <1>5, <1>6 DEF Inv

LEMMA ThreadStepNext ==
  ASSUME Inv, TP!Inv', ThreadStep
  PROVE  Inv'
BY OutsideNext, ThreadStepQuiet, ThreadsAssumed, TP!QuietStepWaiters
DEF Inv, ThreadStep

LEMMA InvNext == Inv /\ [Next]_vars => Inv'
<1> SUFFICES ASSUME Inv, [Next]_vars PROVE Inv'
  OBVIOUS
<1>1. TP!Inv'
  BY ThreadsNext DEF Inv
<1>2. CASE UNCHANGED vars
  <2>1. UNCHANGED <<status, at, held, queue, waitsOn, holds>>
    BY <1>2 DEF vars, T!vars, lockVars
  <2> QED
    BY <1>1, <2>1
    DEF Inv, LockTypes, WaitersAsleep, FreshHoldsNothing, MutualExclusion,
        QueueSound, NoLostWakeup
<1> QED
  BY <1>1, <1>2, AcquireNext, AcquireSleepNext, AcquireWokenNext, ReleaseNext,
     ThreadStepNext DEF Next

\* The queues, the holders and the woken threads of the locks agree, on top of the
\* invariant of the thread system.
THEOREM InvCorrect == Spec => []Inv
BY InvInit, InvNext, PTL DEF Spec

-----------------------------------------------------------------------------
(* The theorems. *)

\* Every variable, those of the thread system included, keeps its type.
THEOREM TypeCorrect == Spec => []TypeOK
<1>1. Inv => TypeOK
  BY DEF Inv, LockTypes, TypeOK, TP!Inv, TP!TypeOK, TP!Status, TP!Level, TP!Point,
         T!TypeOK, T!Status, T!Level, T!Point
<1> QED BY <1>1, InvCorrect, PTL

\* No two threads are between Acquire and Release of one lock.
THEOREM MutualExclusionCorrect == Spec => []MutualExclusion
<1>1. Inv => MutualExclusion
  BY DEF Inv
<1> QED BY <1>1, InvCorrect, PTL

\* The queue of a lock holds each thread asleep in its Acquire once.
THEOREM QueueCorrect == Spec => []QueueSound
<1>1. Inv => QueueSound
  BY DEF Inv
<1> QED BY <1>1, InvCorrect, PTL

\* The thread at the head of a queue is asleep, so that ReadyToRun is called for a
\* thread that waits: the guard of Wake never holds Release up.
THEOREM ReleaseFindsSleeper ==
  Spec => [](\A l \in Lock : queue[l] # <<>> => Head(queue[l]) \in T!Sleepers)
<1>1. Inv => \A l \in Lock : queue[l] # <<>> => Head(queue[l]) \in T!Sleepers
  <2> SUFFICES ASSUME Inv, NEW l \in Lock, queue[l] # <<>>
               PROVE  Head(queue[l]) \in T!Sleepers
    OBVIOUS
  <2>1. Head(queue[l]) \in Asleep(l)
    BY TP!TailLists, ThreadsAssumed, QueueSoundIsLists DEF Inv, LockTypes
  <2> QED
    BY <2>1, LocksAssumption
    DEF Asleep, Inv, WaitersAsleep, TP!Inv, TP!Placed, T!Sleepers
<1> QED BY <1>1, InvCorrect, PTL

\* A free lock that threads queue for has been offered to one that was woken.
THEOREM WakeupCorrect == Spec => []NoLostWakeup
<1>1. Inv => NoLostWakeup
  BY DEF Inv
<1> QED BY <1>1, InvCorrect, PTL

LEMMA HaltOnDeadlock == Inv => HaltMeansDeadlock
<1> SUFFICES ASSUME Inv, machine = "Halted", NEW t \in Thread, waitsOn[t] # NULL
             PROVE  \E u \in Thread : /\ waitsOn[t] \in holds[u]
                                      /\ waitsOn[u] # NULL \/ at[u] = "finish"
  BY DEF HaltMeansDeadlock
<1> DEFINE l == waitsOn[t]
<1>1. \A u \in Thread : status[u] \notin {"READY", "RUNNING"}
  BY DEF Inv, TP!Inv, TP!HaltedIsQuiet
<1>2. \A u \in Thread : waitsOn[u] # NULL => status[u] = "BLOCKED"
  BY <1>1 DEF Inv, WaitersAsleep, TP!Inv, TP!Placed
<1>3. l \in Lock /\ t \in Asleep(l)
  BY <1>2 DEF Inv, LockTypes, Asleep
<1>4. queue[l] # <<>>
  <2>1. PICK i \in 1..Len(queue[l]) : queue[l][i] = t
    BY <1>3, QueueSoundIsLists DEF Inv, TP!Lists
  <2> QED BY <2>1, EmptySeq
<1>5. held[l] = 1
  BY <1>2, <1>3, <1>4, LocksAssumption DEF Inv, NoLostWakeup
<1>6. PICK u \in Thread : l \in holds[u]
  BY <1>3, <1>5 DEF Inv, MutualExclusion
<1>7. at[u] \in {"sleep", "finish"}
  <2>1. at[u] \in TP!Point /\ at[u] # "root"
    BY <1>6 DEF Inv, FreshHoldsNothing, TP!Inv, TP!TypeOK
  <2> QED BY <1>1, <2>1 DEF Inv, TP!Inv, TP!Placed, TP!Point
<1> QED BY <1>6, <1>7 DEF Inv, WaitersAsleep

\* The machine halts on a waiting thread only when its lock is held by a thread
\* that waits too, or has finished.
THEOREM HaltCorrect == Spec => []HaltMeansDeadlock
BY HaltOnDeadlock, InvCorrect, PTL

-----------------------------------------------------------------------------
(* Locks implement the lock of synch.h, as far as safety goes. *)

\* Of whom AbstractLocks says that it owns l.
Owner(l) == IF \E t \in Thread : l \in holds[t]
            THEN CHOOSE t \in Thread : l \in holds[t] ELSE NULL

OwnersMatch ==
  \A l \in Lock :
    /\ Owner(l) \in Thread \cup {NULL}
    /\ \A t \in Thread : Owner(l) = t <=> l \in holds[t]
    /\ Owner(l) = NULL <=> held[l] = 0

LEMMA OwnersMatchInv == Inv => OwnersMatch
<1> SUFFICES ASSUME Inv, NEW l \in Lock
             PROVE  /\ Owner(l) \in Thread \cup {NULL}
                    /\ \A t \in Thread : Owner(l) = t <=> l \in holds[t]
                    /\ Owner(l) = NULL <=> held[l] = 0
  BY DEF OwnersMatch
<1>1. NULL \notin Thread
  BY LocksAssumption DEF T!ThreadsAssumption
<1>2. \A t, u \in Thread : l \in holds[t] /\ l \in holds[u] => t = u
  BY DEF Inv, MutualExclusion
<1>3. CASE \E t \in Thread : l \in holds[t]
  <2>1. Owner(l) \in Thread /\ l \in holds[Owner(l)]
    BY <1>3 DEF Owner
  <2> QED BY <1>1, <1>2, <1>3, <2>1 DEF Inv, LockTypes, MutualExclusion
<1>4. CASE ~\E t \in Thread : l \in holds[t]
  BY <1>1, <1>4 DEF Owner, Inv, LockTypes, MutualExclusion
<1> QED BY <1>3, <1>4

LEMMA OwnersMatchNext == Inv' => OwnersMatch'
BY OwnersMatchInv, PTL

\* The step of AbstractLocks on the owners, told of holds.
LEMMA OwnersChange ==
  ASSUME Inv, Inv', NEW l \in Lock, NEW t \in Thread,
         NEW new \in {t, NULL},
         \A u \in Thread : l \in holds'[u] <=> u = new,
         \A k \in Lock : k # l =>
           \A u \in Thread : k \in holds'[u] <=> k \in holds[u]
  PROVE  [k \in Lock |-> Owner(k)'] = [[k \in Lock |-> Owner(k)] EXCEPT ![l] = new]
<1>1. NULL \notin Thread
  BY LocksAssumption DEF T!ThreadsAssumption
<1>2. Owner(l)' = new
  BY <1>1, OwnersMatchNext DEF OwnersMatch
<1>3. \A k \in Lock : k # l => Owner(k)' = Owner(k)
  BY <1>1, OwnersMatchInv, OwnersMatchNext DEF OwnersMatch
<1> QED BY <1>2, <1>3

\* Every step maps to a step of AbstractLocks or leaves its variables alone.
LEMMA AbstractStep == Inv /\ Inv' /\ [Next]_vars => [Abs!Next]_(Abs!absVars)
<1> SUFFICES ASSUME Inv, Inv', [Next]_vars PROVE [Abs!Next]_(Abs!absVars)
  OBVIOUS
<1>00. NULL \notin Thread
  BY LocksAssumption DEF T!ThreadsAssumption
<1>0. PICK c \in Thread : c = currentThread
  BY DEF Inv, TP!Inv, TP!TypeOK
<1>1. ASSUME NEW l \in Lock, Acquire(l) PROVE Abs!Take(c, l)
  <2>1. waitsOn[c] = NULL
    BY <1>0, <1>1, SameSteps, ThreadsAssumed, TP!CriticalSectionFrames
    DEF Acquire, Inv, WaitersAsleep
  <2>2. Owner(l) = NULL /\ waitsOn' = waitsOn
    BY <1>1, OwnersMatchInv DEF Acquire, OwnersMatch
  <2>3. [k \in Lock |-> Owner(k)'] = [[k \in Lock |-> Owner(k)] EXCEPT ![l] = c]
    <3>1. /\ \A u \in Thread : l \in holds'[u] <=> u = c
          /\ \A k \in Lock : k # l =>
               \A u \in Thread : k \in holds'[u] <=> k \in holds[u]
      BY <1>0, <1>1 DEF Acquire, Take, Inv, LockTypes, MutualExclusion
    <3> QED BY <3>1, OwnersChange
  <2> QED BY <2>1, <2>2, <2>3 DEF Abs!Take, Owner
<1>2. ASSUME NEW l \in Lock, AcquireWoken(l) PROVE Abs!Grant(c, l)
  <2>1. waitsOn[c] = l /\ waitsOn' = [waitsOn EXCEPT ![c] = NULL]
    BY <1>0, <1>2 DEF AcquireWoken
  <2>2. Owner(l) = NULL
    BY <1>2, OwnersMatchInv DEF AcquireWoken, OwnersMatch
  <2>3. [k \in Lock |-> Owner(k)'] = [[k \in Lock |-> Owner(k)] EXCEPT ![l] = c]
    <3>1. /\ \A u \in Thread : l \in holds'[u] <=> u = c
          /\ \A k \in Lock : k # l =>
               \A u \in Thread : k \in holds'[u] <=> k \in holds[u]
      BY <1>0, <1>2 DEF AcquireWoken, Take, Inv, LockTypes, MutualExclusion
    <3> QED BY <3>1, OwnersChange
  <2> QED BY <2>1, <2>2, <2>3 DEF Abs!Grant, Owner
<1>3. ASSUME NEW l \in Lock, Release(l) PROVE Abs!Release(c, l)
  <2>1. waitsOn[c] = NULL /\ waitsOn' = waitsOn
    <3>1. at[c] = "user"
      BY <1>0, <1>3 DEF Release, T!Wake, T!CriticalSection, T!RunningAt
    <3> QED BY <1>3, <3>1 DEF Release, Inv, WaitersAsleep
  <2>2. Owner(l) = c
    BY <1>0, <1>3, OwnersMatchInv DEF Release, OwnersMatch
  <2>3. [k \in Lock |-> Owner(k)'] = [[k \in Lock |-> Owner(k)] EXCEPT ![l] = NULL]
    <3>1. /\ \A u \in Thread : l \in holds'[u] <=> u = NULL
          /\ \A k \in Lock : k # l =>
               \A u \in Thread : k \in holds'[u] <=> k \in holds[u]
      BY <1>00, <1>0, <1>3 DEF Release, Inv, LockTypes, MutualExclusion
    <3> QED BY <3>1, OwnersChange
  <2> QED BY <2>1, <2>2, <2>3 DEF Abs!Release, Owner
<1>4. ASSUME NEW l \in Lock, AcquireSleep(l)
      PROVE  Abs!Wait(c, l) \/ UNCHANGED Abs!absVars
  <2>1. holds' = holds /\ waitsOn' = [waitsOn EXCEPT ![c] = l]
    BY <1>0, <1>4 DEF AcquireSleep
  <2>2. Owner(l) # NULL
    BY <1>4, OwnersMatchInv DEF AcquireSleep, OwnersMatch
  <2>3. CASE waitsOn[c] = NULL
    BY <2>1, <2>2, <2>3 DEF Abs!Wait, Owner
  <2>4. CASE waitsOn[c] = l
    <3>1. waitsOn' = waitsOn
      BY <2>1, <2>4 DEF Inv, LockTypes
    <3> QED BY <2>1, <3>1 DEF Abs!absVars
  <2> QED BY <1>0, <1>4, <2>3, <2>4 DEF AcquireSleep
<1>5. CASE ThreadStep \/ UNCHANGED vars
  <2>1. UNCHANGED <<holds, waitsOn>>
    BY <1>5 DEF ThreadStep, vars, lockVars
  <2> QED BY <2>1 DEF Abs!absVars
<1>6. ASSUME NEW l \in Lock, Acquire(l) PROVE Abs!Next
  BY <1>1, <1>6 DEF Abs!Next
<1>7. ASSUME NEW l \in Lock, AcquireWoken(l) PROVE Abs!Next
  BY <1>2, <1>7 DEF Abs!Next
<1>8. ASSUME NEW l \in Lock, Release(l) PROVE Abs!Next
  BY <1>3, <1>8 DEF Abs!Next
<1>9. ASSUME NEW l \in Lock, AcquireSleep(l) PROVE [Abs!Next]_(Abs!absVars)
  BY <1>4, <1>9 DEF Abs!Next
<1> QED
  BY <1>5, <1>6, <1>7, <1>8, <1>9 DEF Next

\* Locks implement AbstractLocks: from an initial state of it, every step of
\* Acquire, Release, an interrupt or the scheduler is one of its steps or none.
THEOREM LocksRefine == Spec => Abs!Init /\ [][Abs!Next]_(Abs!absVars)
<1>1. Init => Abs!Init
  BY DEF Init, Abs!Init
<1> QED BY <1>1, AbstractStep, InvCorrect, PTL DEF Spec
=============================================================================
