-------------------------- MODULE SemaphoresProofs --------------------------
(***************************************************************************)
(* Proofs about Semaphores: for any finite set of threads, any set of      *)
(* semaphores and any bound on their values.  As in LocksProofs, what      *)
(* holds of the thread system is taken from ThreadsProofs.                 *)
(***************************************************************************)
EXTENDS Semaphores, SequenceTheorems, FiniteSetTheorems, TLAPS

TP == INSTANCE ThreadsProofs

-----------------------------------------------------------------------------
(* The thread system under the semaphores. *)

LEMMA ThreadsAssumed == TP!ThreadsAssumption
BY SemaphoresAssumption DEF T!ThreadsAssumption, TP!ThreadsAssumption

LEMMA SameInit == T!Init => TP!Init
BY DEF T!Init, TP!Init, T!TimeOfNextInterrupt, TP!TimeOfNextInterrupt

\* The steps of Threads that the semaphores use are those that ThreadsProofs is
\* about.
LEMMA SameSteps ==
  /\ T!CriticalSection <=> TP!CriticalSection
  /\ T!Block <=> TP!Block
  /\ T!Proceed <=> TP!Proceed
  /\ \A t \in Thread : T!Wake(t) <=> TP!Wake(t)
  /\ \A w \in Thread \cup {NULL} :
       /\ T!DeviceInterrupt(w) <=> TP!DeviceInterrupt(w)
       /\ T!Idle(w) <=> TP!Idle(w)
BY DEF T!CriticalSection, T!Block, T!Proceed, T!Wake, T!RunningAt, T!ReadyToRun,
       T!Enqueue, T!SetLevel, T!Sleepers, T!DeviceInterrupt, T!Idle, T!Handler,
       T!NobodyReady, T!InSleepLoop, T!TimeOfNextInterrupt,
       TP!CriticalSection, TP!Block, TP!Proceed, TP!Wake, TP!RunningAt,
       TP!ReadyToRun, TP!Enqueue, TP!SetLevel, TP!Sleepers,
       TP!DeviceInterrupt, TP!Idle, TP!Handler, TP!NobodyReady,
       TP!InSleepLoop, TP!TimeOfNextInterrupt

LEMMA ThreadStepQuiet == ThreadStep => TP!QuietStep
BY DEF ThreadStep, T!Fork, T!Yield, T!Finish, T!Schedule, T!DeviceInterrupt,
       T!Idle, T!Tick, T!SwitchAway, T!IdleReturn, T!Halt, T!ThreadRoot,
       T!Resume, T!Terminated, T!vars, T!RunningAt, T!ReadyToRun, T!SetLevel,
       T!Enqueue, T!Dequeue, T!YieldCPU, T!Sleepers, T!Handler,
       T!NobodyReady, T!InSleepLoop, T!DeleteCarcass, T!TimeOfNextInterrupt,
       TP!QuietStep, TP!Fork, TP!Yield, TP!Finish, TP!Schedule,
       TP!DeviceInterrupt, TP!Idle, TP!Tick, TP!SwitchAway, TP!IdleReturn,
       TP!Halt, TP!ThreadRoot, TP!Resume, TP!Terminated, TP!vars, TP!RunningAt,
       TP!ReadyToRun, TP!SetLevel, TP!Enqueue, TP!Dequeue, TP!YieldCPU,
       TP!Sleepers, TP!Handler, TP!NobodyReady, TP!InSleepLoop,
       TP!DeleteCarcass, TP!TimeOfNextInterrupt

LEMMA NullIsNoThread == NULL \notin Thread
BY SemaphoresAssumption DEF T!ThreadsAssumption

\* A handler wakes one sleeper or nobody.
LEMMA DeviceWakes ==
  ASSUME NEW w, T!DeviceInterrupt(w) \/ T!Idle(w)
  PROVE  w \in Thread \cup {NULL}
BY DEF T!DeviceInterrupt, T!Idle, T!Handler, T!Sleepers

\* Every step of the semaphores is a step of Threads.
LEMMA StepOfThreads == [Next]_vars => [TP!Next]_(TP!vars)
<1> SUFFICES ASSUME [Next]_vars PROVE [TP!Next]_(TP!vars)
  OBVIOUS
<1>1. ASSUME NEW s \in Semaphore, P(s) PROVE TP!Next
  BY <1>1, SameSteps DEF P, TP!Next
<1>2. ASSUME NEW s \in Semaphore, PSleep(s) PROVE TP!Next
  BY <1>2, SameSteps DEF PSleep, TP!Next
<1>3. ASSUME NEW s \in Semaphore, PWoken(s) PROVE TP!Next
  BY <1>3, SameSteps DEF PWoken, TP!Next
<1>4. ASSUME NEW s \in Semaphore, V(s) PROVE TP!Next
  BY <1>4, SameSteps DEF V, T!Wake, T!Sleepers, TP!Next
<1>5. ASSUME NEW s \in Semaphore, DeviceV(s) PROVE TP!Next
  <2>1. PICK w : T!DeviceInterrupt(w) \/ T!Idle(w)
    BY <1>5 DEF DeviceV
  <2> QED BY <2>1, DeviceWakes, SameSteps DEF TP!Next
<1>6. CASE ThreadStep
  BY <1>6, ThreadStepQuiet DEF TP!QuietStep, TP!Next
<1>7. CASE UNCHANGED vars
  BY <1>7 DEF vars, T!vars, TP!vars
<1> QED BY <1>1, <1>2, <1>3, <1>4, <1>5, <1>6, <1>7 DEF Next

LEMMA ThreadsInit == Init => TP!Inv
BY SameInit, TP!InvInit, ThreadsAssumed DEF Init

LEMMA ThreadsNext == TP!Inv /\ [Next]_vars => TP!Inv'
BY StepOfThreads, TP!InvNext, ThreadsAssumed

-----------------------------------------------------------------------------
(* The inductive invariant. *)

SemaphoreTypes ==
  /\ value \in [Semaphore -> 0..MaxValue]
  /\ queue \in [Semaphore -> Seq(Thread)]
  /\ waitsOn \in [Thread -> Semaphore \cup {NULL}]

\* A thread waits on a semaphore exactly while it is in the Sleep of P, or about
\* to test the value again.
WaitersAsleep ==
  \A t \in Thread : waitsOn[t] # NULL <=> TP!Waiting(at[t])

Asleep(s) == {t \in Thread : waitsOn[t] = s /\ status[t] = "BLOCKED"}

Inv ==
  /\ TP!Inv
  /\ SemaphoreTypes
  /\ WaitersAsleep
  /\ QueueSound
  /\ NoLostWakeup

LEMMA QueueSoundIsLists ==
  QueueSound <=> \A s \in Semaphore : TP!Lists(queue[s], Asleep(s))
BY DEF QueueSound, TP!Lists, Asleep

LEMMA QueueSoundIsListsNext ==
  QueueSound' <=> \A s \in Semaphore : TP!Lists(queue'[s], Asleep(s)')
BY DEF QueueSound, TP!Lists, Asleep

LEMMA WokenFinite ==
  ASSUME NEW s \in Semaphore
  PROVE  IsFiniteSet(Woken(s)) /\ Cardinality(Woken(s)) \in Nat
<1>1. Woken(s) \in SUBSET Thread
  BY DEF Woken
<1> QED BY <1>1, SemaphoresAssumption, FS_Subset, FS_CardinalityType

LEMMA InvInit == Init => Inv
<1> SUFFICES ASSUME Init PROVE Inv
  OBVIOUS
<1>1. TP!Inv
  BY ThreadsInit
<1>2. SemaphoreTypes /\ NoLostWakeup
  BY DEF Init, SemaphoreTypes, NoLostWakeup
<1>3. WaitersAsleep
  BY DEF Init, T!Init, WaitersAsleep, TP!Waiting
<1>4. QueueSound
  BY SemaphoresAssumption, EmptySeq DEF Init, QueueSound
<1> QED BY <1>1, <1>2, <1>3, <1>4 DEF Inv

-----------------------------------------------------------------------------
(* Each step keeps the invariant. *)

LEMMA PNext ==
  ASSUME Inv, TP!Inv', NEW s \in Semaphore, P(s)
  PROVE  Inv'
<1>1. /\ currentThread \in Thread /\ TP!OthersStay
      /\ at[currentThread] = "user" /\ at'[currentThread] \in {"user", "tick"}
      /\ status' = status
  BY SameSteps, ThreadsAssumed, TP!CriticalSectionFrames DEF Inv, P
<1>2. SemaphoreTypes'
  BY SemaphoresAssumption DEF Inv, SemaphoreTypes, P
<1>3. WaitersAsleep' /\ QueueSound'
  BY <1>1 DEF Inv, WaitersAsleep, QueueSound, P, TP!OthersStay, TP!Waiting
<1>4. NoLostWakeup'
  <2> SUFFICES ASSUME NEW k \in Semaphore, queue[k] # <<>>
               PROVE  value'[k] <= Cardinality(Woken(k)')
    BY DEF NoLostWakeup, P
  <2>1. Woken(k)' = Woken(k)
    BY <1>1 DEF Woken, P
  <2>2. value'[k] \in Nat /\ value[k] \in Nat /\ value'[k] <= value[k]
    BY SemaphoresAssumption DEF P, Inv, SemaphoreTypes
  <2> QED BY <2>1, <2>2, WokenFinite DEF Inv, NoLostWakeup
<1> QED BY <1>2, <1>3, <1>4 DEF Inv

LEMMA PSleepNext ==
  ASSUME Inv, TP!Inv', NEW s \in Semaphore, PSleep(s)
  PROVE  Inv'
<1> DEFINE c == currentThread
<1>1. /\ c \in Thread /\ TP!OthersStay
      /\ at[c] \in {"user", "awake"} /\ at'[c] = "sleep"
      /\ status \in [Thread -> TP!Status]
      /\ status[c] = "RUNNING"
      /\ status' = [status EXCEPT ![c] = "BLOCKED"]
  BY SameSteps, ThreadsAssumed, TP!BlockFrames
  DEF Inv, TP!Inv, TP!TypeOK, PSleep
<1>2. SemaphoreTypes'
  BY <1>1, AppendProperties DEF Inv, SemaphoreTypes, PSleep
<1>3. WaitersAsleep'
  BY <1>1, SemaphoresAssumption
  DEF Inv, SemaphoreTypes, WaitersAsleep, PSleep, TP!OthersStay, TP!Waiting
<1>4. \A k \in Semaphore : k # s =>
        Asleep(k)' = Asleep(k) /\ Woken(k)' = Woken(k) /\ queue'[k] = queue[k]
  BY <1>1, SemaphoresAssumption
  DEF Inv, SemaphoreTypes, Asleep, Woken, PSleep
<1>5. QueueSound'
  <2> SUFFICES ASSUME NEW k \in Semaphore PROVE TP!Lists(queue'[k], Asleep(k)')
    BY QueueSoundIsListsNext
  <2>1. TP!Lists(queue[k], Asleep(k)) /\ queue[k] \in Seq(Thread)
    BY QueueSoundIsLists DEF Inv, SemaphoreTypes
  <2>2. CASE k = s
    <3>1. c \notin Asleep(s) /\ Asleep(s)' = Asleep(s) \cup {c}
      BY <1>1 DEF Inv, SemaphoreTypes, Asleep, PSleep
    <3>2. queue'[s] = Append(queue[s], c)
      BY DEF Inv, SemaphoreTypes, PSleep
    <3> QED BY <1>1, <2>1, <2>2, <3>1, <3>2, TP!AppendLists, ThreadsAssumed
  <2> QED BY <1>4, <2>1, <2>2
<1>6. NoLostWakeup'
  <2> SUFFICES ASSUME NEW k \in Semaphore, queue'[k] # <<>>
               PROVE  value[k] <= Cardinality(Woken(k)')
    BY DEF NoLostWakeup, PSleep
  <2>1. CASE k = s
    <3>1. Woken(s)' \in SUBSET Thread
      BY DEF Woken
    <3>2. Cardinality(Woken(s)') \in Nat
      BY <3>1, SemaphoresAssumption, FS_Subset, FS_CardinalityType
    <3> QED BY <2>1, <3>2 DEF PSleep
  <2>2. CASE k # s
    BY <1>4, <2>2 DEF Inv, NoLostWakeup
  <2> QED BY <2>1, <2>2
<1> QED BY <1>2, <1>3, <1>5, <1>6 DEF Inv

LEMMA PWokenNext ==
  ASSUME Inv, TP!Inv', NEW s \in Semaphore, PWoken(s)
  PROVE  Inv'
<1> DEFINE c == currentThread
<1>1. /\ c \in Thread /\ TP!OthersStay
      /\ at[c] = "awake" /\ at'[c] \in {"user", "tick"}
      /\ status[c] = "RUNNING" /\ status' = status
  BY SameSteps, ThreadsAssumed, TP!ProceedFrames DEF Inv, PWoken
<1>2. SemaphoreTypes'
  BY <1>1, SemaphoresAssumption DEF Inv, SemaphoreTypes, PWoken
<1>3. WaitersAsleep'
  BY <1>1 DEF Inv, SemaphoreTypes, WaitersAsleep, PWoken, TP!OthersStay, TP!Waiting
<1>4. QueueSound'
  <2>1. \A k \in Semaphore : Asleep(k)' = Asleep(k)
    BY <1>1, SemaphoresAssumption DEF Inv, SemaphoreTypes, Asleep, PWoken
  <2> QED BY <2>1, QueueSoundIsLists, QueueSoundIsListsNext DEF Inv, PWoken
<1>5. NoLostWakeup'
  <2> SUFFICES ASSUME NEW k \in Semaphore, queue[k] # <<>>
               PROVE  value'[k] <= Cardinality(Woken(k)')
    BY DEF NoLostWakeup, PWoken
  <2>1. value[k] <= Cardinality(Woken(k)) /\ value[k] \in Nat
    BY SemaphoresAssumption DEF Inv, NoLostWakeup, SemaphoreTypes
  <2>2. CASE k = s
    <3>1. c \in Woken(s) /\ Woken(s)' = Woken(s) \ {c}
      BY <1>1, SemaphoresAssumption DEF Inv, SemaphoreTypes, Woken, PWoken
    <3>2. Cardinality(Woken(s)') = Cardinality(Woken(s)) - 1
      BY <3>1, WokenFinite, FS_RemoveElement
    <3>3. value'[s] = value[s] - 1
      BY DEF PWoken, Inv, SemaphoreTypes
    <3> QED BY <2>1, <2>2, <3>2, <3>3, WokenFinite
  <2>3. CASE k # s
    <3>1. Woken(k)' = Woken(k) /\ value'[k] = value[k]
      BY <1>1, <2>3, SemaphoresAssumption DEF Inv, SemaphoreTypes, Woken, PWoken
    <3> QED BY <2>1, <3>1
  <2> QED BY <2>2, <2>3
<1> QED BY <1>2, <1>3, <1>4, <1>5 DEF Inv


\* V adds a unit and, of the threads that wait on s, wakes the head of the queue,
\* whether a thread calls V or a handler.
LEMMA VNext ==
  ASSUME Inv, TP!Inv', NEW s \in Semaphore, VUpdate(s),
         \A t \in Thread : TP!Waiting(at'[t]) <=> TP!Waiting(at[t]),
         \A t \in Thread : TP!Waiting(at[t]) =>
           (status'[t] = "BLOCKED"
              <=> status[t] = "BLOCKED" /\ ~(VWakes(s) /\ t = Head(queue[s])))
  PROVE  Inv'
<1> DEFINE h == Head(queue[s])
<1>1. /\ value' = [value EXCEPT ![s] = @ + 1] /\ value[s] < MaxValue
      /\ queue' = [queue EXCEPT ![s] = IF VWakes(s) THEN Tail(@) ELSE @]
      /\ waitsOn' = waitsOn
  BY DEF VUpdate
<1>2. TP!Lists(queue[s], Asleep(s)) /\ queue[s] \in Seq(Thread)
  BY QueueSoundIsLists DEF Inv, SemaphoreTypes
<1>3. VWakes(s) => h \in Asleep(s) /\ TP!Lists(Tail(queue[s]), Asleep(s) \ {h})
  BY <1>2, TP!TailLists, ThreadsAssumed DEF VWakes
<1>4. \A t \in Thread : waitsOn[t] # NULL =>
        (status'[t] = "BLOCKED" <=> status[t] = "BLOCKED" /\ ~(VWakes(s) /\ t = h))
  BY DEF Inv, WaitersAsleep
<1> HIDE DEF h
<1>5. SemaphoreTypes'
  <2>1. VWakes(s) => Tail(queue[s]) \in Seq(Thread)
    BY <1>2, HeadTailProperties DEF VWakes
  <2>2. queue' \in [Semaphore -> Seq(Thread)]
    BY <1>1, <1>2, <2>1 DEF Inv, SemaphoreTypes
  <2>3. value' \in [Semaphore -> 0..MaxValue]
    BY <1>1, SemaphoresAssumption DEF Inv, SemaphoreTypes
  <2> QED BY <1>1, <2>2, <2>3 DEF Inv, SemaphoreTypes
<1>6. WaitersAsleep'
  BY <1>1 DEF Inv, WaitersAsleep, TP!Waiting
<1>7. QueueSound'
  <2> SUFFICES ASSUME NEW k \in Semaphore PROVE TP!Lists(queue'[k], Asleep(k)')
    BY QueueSoundIsListsNext
  <2>1. TP!Lists(queue[k], Asleep(k))
    BY QueueSoundIsLists DEF Inv
  <2>2. CASE VWakes(s) /\ k = s
    <3>1. Asleep(s)' = Asleep(s) \ {h}
      BY <1>1, <1>4, <2>2, SemaphoresAssumption DEF Asleep
    <3>2. queue'[s] = Tail(queue[s])
      BY <1>1, <2>2 DEF Inv, SemaphoreTypes
    <3> QED BY <1>3, <2>2, <3>1, <3>2
  <2>3. CASE ~(VWakes(s) /\ k = s)
    <3>1. Asleep(k)' = Asleep(k)
      BY <1>1, <1>3, <1>4, <2>3, SemaphoresAssumption DEF Asleep
    <3>2. queue'[k] = queue[k]
      BY <1>1, <2>3 DEF Inv, SemaphoreTypes
    <3> QED BY <2>1, <3>1, <3>2
  <2> QED BY <2>2, <2>3
<1>8. NoLostWakeup'
  <2> SUFFICES ASSUME NEW k \in Semaphore, queue'[k] # <<>>
               PROVE  value'[k] <= Cardinality(Woken(k)')
    BY DEF NoLostWakeup
  <2>1. queue[k] # <<>> /\ (k = s => VWakes(s))
    BY <1>1 DEF VWakes, Inv, SemaphoreTypes
  <2>2. value[k] <= Cardinality(Woken(k)) /\ value[k] \in Nat
    BY <2>1, SemaphoresAssumption DEF Inv, NoLostWakeup, SemaphoreTypes
  <2>3. CASE k = s
    <3>1. h \notin Woken(s) /\ Woken(s)' = Woken(s) \cup {h}
      BY <1>1, <1>3, <1>4, <2>1, <2>3, SemaphoresAssumption DEF Woken, Asleep
    <3>2. Cardinality(Woken(s)') = Cardinality(Woken(s)) + 1
      BY <3>1, WokenFinite, FS_AddElement
    <3>3. value'[s] = value[s] + 1
      BY <1>1 DEF Inv, SemaphoreTypes
    <3> QED BY <2>2, <2>3, <3>2, <3>3, WokenFinite
  <2>4. CASE k # s
    <3>1. Woken(k)' = Woken(k)
      BY <1>1, <1>3, <1>4, <2>4, SemaphoresAssumption DEF Woken, Asleep
    <3>2. value'[k] = value[k]
      BY <1>1, <2>4 DEF Inv, SemaphoreTypes
    <3> QED BY <2>2, <3>1, <3>2
  <2> QED BY <2>3, <2>4
<1> QED BY <1>5, <1>6, <1>7, <1>8 DEF Inv

LEMMA ThreadVNext ==
  ASSUME Inv, TP!Inv', NEW s \in Semaphore, V(s)
  PROVE  Inv'
<1>1. VUpdate(s)
  BY DEF V
<1>2. VWakes(s) => Head(queue[s]) \in Thread /\ TP!Wake(Head(queue[s]))
  BY SameSteps DEF V, T!Wake, T!Sleepers
<1>3. ~VWakes(s) => TP!CriticalSection
  BY SameSteps DEF V
<1>4. /\ currentThread \in Thread /\ TP!OthersStay
      /\ at[currentThread] = "user" /\ at'[currentThread] \in {"user", "tick"}
      /\ status' = IF VWakes(s) THEN [status EXCEPT ![Head(queue[s])] = "READY"]
                                ELSE status
  BY <1>2, <1>3, ThreadsAssumed, TP!CriticalSectionFrames, TP!WakeFrames DEF Inv
<1>5. \A t \in Thread : TP!Waiting(at'[t]) <=> TP!Waiting(at[t])
  BY <1>4 DEF TP!OthersStay, TP!Waiting
<1>6. \A t \in Thread : TP!Waiting(at[t]) =>
        (status'[t] = "BLOCKED"
           <=> status[t] = "BLOCKED" /\ ~(VWakes(s) /\ t = Head(queue[s])))
  BY <1>4 DEF Inv, TP!Inv, TP!TypeOK
<1> QED BY <1>1, <1>5, <1>6, VNext

LEMMA DeviceVNext ==
  ASSUME Inv, TP!Inv', NEW s \in Semaphore, DeviceV(s)
  PROVE  Inv'
<1> DEFINE w == IF VWakes(s) THEN Head(queue[s]) ELSE NULL
<1>1. VUpdate(s) /\ (T!DeviceInterrupt(w) \/ T!Idle(w))
  BY DEF DeviceV
<1>2. w \in Thread \cup {NULL}
  BY <1>1, DeviceWakes
<1>3. TP!DeviceInterrupt(w) \/ TP!Idle(w)
  BY <1>1, <1>2, SameSteps
<1>4. CASE VWakes(s) /\ w \in Thread
  <2>1. at' = at /\ status' = [status EXCEPT ![Head(queue[s])] = "READY"]
    BY <1>3, <1>4, ThreadsAssumed, TP!DeviceFrames
  <2> QED BY <1>1, <1>4, <2>1, VNext DEF Inv, TP!Inv, TP!TypeOK
<1>5. CASE VWakes(s) /\ w = NULL
  <2>1. Head(queue[s]) \in Thread
    BY <1>5, HeadTailProperties DEF Inv, SemaphoreTypes, VWakes
  <2> QED BY <1>5, <2>1, NullIsNoThread
<1>6. CASE ~VWakes(s)
  <2>1. TP!QuietStep
    BY <1>3, <1>6 DEF TP!QuietStep
  <2>2. TP!WaitersKept
    BY <2>1, ThreadsAssumed, TP!QuietStepWaiters DEF Inv
  <2> QED BY <1>1, <1>6, <2>2, VNext DEF TP!WaitersKept
<1> QED BY <1>2, <1>4, <1>5, <1>6

\* The steps of the thread system wake no waiter and put none to sleep.
LEMMA ThreadStepNext ==
  ASSUME Inv, TP!Inv', ThreadStep
  PROVE  Inv'
<1>1. UNCHANGED <<value, queue, waitsOn>>
  BY DEF ThreadStep, semVars
<1>2. TP!WaitersKept
  BY ThreadStepQuiet, ThreadsAssumed, TP!QuietStepWaiters DEF Inv
<1>3. SemaphoreTypes' /\ WaitersAsleep'
  BY <1>1, <1>2 DEF Inv, SemaphoreTypes, WaitersAsleep, TP!WaitersKept
<1>4. \A s \in Semaphore : Asleep(s)' = Asleep(s) /\ Woken(s)' = Woken(s)
  BY <1>1, <1>2, SemaphoresAssumption
  DEF Inv, WaitersAsleep, Asleep, Woken, TP!WaitersKept
<1>5. QueueSound'
  BY <1>1, <1>4, QueueSoundIsLists, QueueSoundIsListsNext DEF Inv
<1>6. NoLostWakeup'
  BY <1>1, <1>4 DEF Inv, NoLostWakeup
<1> QED BY <1>3, <1>5, <1>6 DEF Inv

LEMMA InvNext == Inv /\ [Next]_vars => Inv'
<1> SUFFICES ASSUME Inv, [Next]_vars PROVE Inv'
  OBVIOUS
<1>1. TP!Inv'
  BY ThreadsNext DEF Inv
<1>2. CASE UNCHANGED vars
  <2>1. UNCHANGED <<status, at, value, queue, waitsOn>>
    BY <1>2 DEF vars, T!vars, semVars
  <2> QED
    BY <1>1, <2>1
    DEF Inv, SemaphoreTypes, WaitersAsleep, QueueSound, NoLostWakeup, Woken
<1> QED
  BY <1>1, <1>2, PNext, PSleepNext, PWokenNext, ThreadVNext, DeviceVNext,
     ThreadStepNext DEF Next

\* The threads asleep on a semaphore are those its queue lists, no unit is left
\* without a woken thread to look for it, and the thread system keeps its own
\* invariant underneath.
THEOREM InvCorrect == Spec => []Inv
BY InvInit, InvNext, PTL DEF Spec

-----------------------------------------------------------------------------
(* The theorems. *)

\* Every variable, those of the thread system included, keeps its type; the value
\* of a semaphore in particular never becomes negative.
THEOREM TypeCorrect == Spec => []TypeOK
<1>1. Inv => TypeOK
  BY DEF Inv, SemaphoreTypes, TypeOK, TP!Inv, TP!TypeOK, TP!Status, TP!Level,
         TP!Point, T!TypeOK, T!Status, T!Level, T!Point
<1> QED BY <1>1, InvCorrect, PTL

\* The queue of a semaphore holds each thread asleep in its P once.
THEOREM QueueCorrect == Spec => []QueueSound
<1>1. Inv => QueueSound
  BY DEF Inv
<1> QED BY <1>1, InvCorrect, PTL

\* Every unit of a semaphore that threads queue for is matched by a thread that
\* was woken and has not tested the value since.
THEOREM WakeupCorrect == Spec => []NoLostWakeup
<1>1. Inv => NoLostWakeup
  BY DEF Inv
<1> QED BY <1>1, InvCorrect, PTL

\* The thread at the head of a queue is asleep, so that V calls ReadyToRun for a
\* thread that waits: the guard of Wake never holds V up.
THEOREM VFindsSleeper ==
  Spec => [](\A s \in Semaphore : queue[s] # <<>> => Head(queue[s]) \in T!Sleepers)
<1>1. Inv => \A s \in Semaphore : queue[s] # <<>> => Head(queue[s]) \in T!Sleepers
  <2> SUFFICES ASSUME Inv, NEW s \in Semaphore, queue[s] # <<>>
               PROVE  Head(queue[s]) \in T!Sleepers
    OBVIOUS
  <2>1. Head(queue[s]) \in Asleep(s)
    BY TP!TailLists, ThreadsAssumed, QueueSoundIsLists DEF Inv, SemaphoreTypes
  <2> QED
    BY <2>1, SemaphoresAssumption
    DEF Asleep, Inv, WaitersAsleep, TP!Waiting, TP!Inv, TP!Placed, T!Sleepers
<1> QED BY <1>1, InvCorrect, PTL

\* The machine halts on a thread in P only when the semaphore has no unit left.
THEOREM HaltCorrect == Spec => []HaltMeansNoUnit
<1>1. Inv => HaltMeansNoUnit
  <2> SUFFICES ASSUME Inv, machine = "Halted", NEW t \in Thread, waitsOn[t] # NULL
               PROVE  value[waitsOn[t]] = 0
    BY DEF HaltMeansNoUnit
  <2> DEFINE s == waitsOn[t]
  <2>1. \A u \in Thread : status[u] \notin {"READY", "RUNNING"}
    BY DEF Inv, TP!Inv, TP!HaltedIsQuiet
  <2>2. \A u \in Thread : waitsOn[u] # NULL => status[u] = "BLOCKED"
    BY <2>1 DEF Inv, WaitersAsleep, TP!Waiting, TP!Inv, TP!Placed
  <2>3. s \in Semaphore /\ t \in Asleep(s)
    BY <2>2 DEF Inv, SemaphoreTypes, Asleep
  <2>4. queue[s] # <<>>
    <3>1. PICK i \in 1..Len(queue[s]) : queue[s][i] = t
      BY <2>3, QueueSoundIsLists DEF Inv, TP!Lists
    <3> QED BY <3>1, EmptySeq
  <2>5. Woken(s) = {}
    BY <2>2, <2>3, SemaphoresAssumption DEF Woken
  <2>6. value[s] <= 0
    BY <2>3, <2>4, <2>5, FS_EmptySet DEF Inv, NoLostWakeup
  <2> QED BY <2>3, <2>6, SemaphoresAssumption DEF Inv, SemaphoreTypes
<1> QED BY <1>1, InvCorrect, PTL

-----------------------------------------------------------------------------
(* Semaphores implement the P and V of synch.h, as far as safety goes. *)

LEMMA AbstractStep == Inv /\ [Next]_vars => [Abs!Next]_(Abs!absVars)
<1> SUFFICES ASSUME Inv, [Next]_vars PROVE [Abs!Next]_(Abs!absVars)
  OBVIOUS
<1>0. PICK c \in Thread : c = currentThread
  BY DEF Inv, TP!Inv, TP!TypeOK
<1>1. ASSUME NEW s \in Semaphore, P(s) PROVE Abs!Down(c, s)
  <2>1. waitsOn[c] = NULL
    BY <1>0, <1>1, SameSteps, ThreadsAssumed, TP!CriticalSectionFrames
    DEF P, Inv, WaitersAsleep, TP!Waiting
  <2>2. value[s] > 0
    BY <1>1, SemaphoresAssumption DEF P, Inv, SemaphoreTypes
  <2> QED BY <1>1, <2>1, <2>2 DEF P, Abs!Down
<1>2. ASSUME NEW s \in Semaphore, PWoken(s) PROVE Abs!Grant(c, s)
  <2>1. value[s] > 0
    BY <1>2, SemaphoresAssumption DEF PWoken, Inv, SemaphoreTypes
  <2> QED BY <1>0, <1>2, <2>1 DEF PWoken, Abs!Grant
<1>3. ASSUME NEW s \in Semaphore, PSleep(s)
      PROVE  Abs!Wait(c, s) \/ UNCHANGED Abs!absVars
  <2>1. CASE waitsOn[c] = NULL
    BY <1>0, <1>3, <2>1 DEF PSleep, Abs!Wait
  <2>2. CASE waitsOn[c] = s
    <3>1. waitsOn' = waitsOn
      BY <1>0, <1>3, <2>2 DEF PSleep, Inv, SemaphoreTypes
    <3> QED BY <1>3, <3>1 DEF PSleep, Abs!absVars
  <2> QED BY <1>0, <1>3, <2>1, <2>2 DEF PSleep
<1>4. ASSUME NEW s \in Semaphore, V(s) \/ DeviceV(s) PROVE Abs!Up(s)
  BY <1>4 DEF V, DeviceV, VUpdate, Abs!Up
<1>5. CASE ThreadStep \/ UNCHANGED vars
  <2>1. UNCHANGED <<value, waitsOn>>
    BY <1>5 DEF ThreadStep, vars, semVars
  <2> QED BY <2>1 DEF Abs!absVars
<1>6. ASSUME NEW s \in Semaphore, P(s) PROVE Abs!Next
  BY <1>1, <1>6 DEF Abs!Next
<1>7. ASSUME NEW s \in Semaphore, PWoken(s) PROVE Abs!Next
  BY <1>2, <1>7 DEF Abs!Next
<1>8. ASSUME NEW s \in Semaphore, PSleep(s) PROVE [Abs!Next]_(Abs!absVars)
  BY <1>3, <1>8 DEF Abs!Next
<1>9. ASSUME NEW s \in Semaphore, V(s) \/ DeviceV(s) PROVE Abs!Next
  BY <1>4, <1>9 DEF Abs!Next
<1> QED BY <1>5, <1>6, <1>7, <1>8, <1>9 DEF Next

\* Semaphores implement AbstractSemaphores: a step of P takes a unit, begins to
\* wait or goes unnoticed, V adds a unit, and no other step is seen.
THEOREM SemaphoresRefine == Spec => Abs!Init /\ [][Abs!Next]_(Abs!absVars)
<1>1. Init => Abs!Init
  BY DEF Init, Abs!Init
<1> QED BY <1>1, AbstractStep, InvCorrect, PTL DEF Spec
=============================================================================
