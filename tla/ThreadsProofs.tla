--------------------------- MODULE ThreadsProofs ---------------------------
(***************************************************************************)
(* Proofs about Threads: for any set of threads, any timer and any number  *)
(* of devices.                                                             *)
(***************************************************************************)
EXTENDS Threads, SequenceTheorems, TLAPS

-----------------------------------------------------------------------------
(* The queues of waiting threads that the semaphores and the locks keep. *)

\* The sequence q holds each member of W once and nothing else.
Lists(q, W) ==
  /\ \A i, j \in 1..Len(q) : q[i] = q[j] => i = j
  /\ {q[i] : i \in 1..Len(q)} = W

\* A thread that is not on the queue is appended.
LEMMA AppendLists ==
  ASSUME NEW S, NEW q \in Seq(S), NEW W, NEW t \in S, t \notin W, Lists(q, W)
  PROVE  Lists(Append(q, t), W \cup {t})
<1> DEFINE new == Append(q, t)
<1>1. /\ Len(q) \in Nat
      /\ Len(new) = Len(q) + 1
      /\ \A i \in 1..Len(q) : new[i] = q[i]
      /\ new[Len(q) + 1] = t
  BY AppendProperties
<1>2. \A i \in 1..Len(q) : q[i] # t
  BY DEF Lists
<1> HIDE DEF new
<1>3. \A i, j \in 1..Len(new) : new[i] = new[j] => i = j
  BY <1>1, <1>2 DEF Lists
<1>4. {new[i] : i \in 1..Len(new)} = {q[i] : i \in 1..Len(q)} \cup {t}
  <2>1. ASSUME NEW i \in 1..Len(new)
        PROVE  new[i] \in {q[k] : k \in 1..Len(q)} \cup {t}
    BY <1>1
  <2>2. ASSUME NEW i \in 1..Len(q) PROVE q[i] \in {new[k] : k \in 1..Len(new)}
    <3>1. i \in 1..Len(new) /\ new[i] = q[i]
      BY <1>1
    <3> QED BY <3>1
  <2>3. t \in {new[k] : k \in 1..Len(new)}
    <3>1. Len(q) + 1 \in 1..Len(new)
      BY <1>1
    <3> QED BY <1>1, <3>1
  <2> QED BY <2>1, <2>2, <2>3
<1> QED BY <1>3, <1>4 DEF Lists, new

\* The head of the queue is taken off.
LEMMA TailLists ==
  ASSUME NEW S, NEW q \in Seq(S), NEW W, q # <<>>, Lists(q, W)
  PROVE  Head(q) \in W /\ Lists(Tail(q), W \ {Head(q)})
<1> DEFINE new == Tail(q)
           h == Head(q)
<1>1. /\ Len(q) \in Nat \ {0}
      /\ Len(new) = Len(q) - 1
      /\ \A i \in 1..Len(new) : new[i] = q[i + 1]
      /\ h = q[1]
  BY HeadTailProperties, EmptySeq
<1> HIDE DEF new, h
<1>2. h \in W
  <2>1. 1 \in 1..Len(q)
    BY <1>1
  <2> QED BY <1>1, <2>1 DEF Lists
<1>3. \A i, j \in 1..Len(new) : new[i] = new[j] => i = j
  <2> SUFFICES ASSUME NEW i \in 1..Len(new), NEW j \in 1..Len(new), new[i] = new[j]
               PROVE  i = j
    OBVIOUS
  <2>1. i + 1 \in 1..Len(q) /\ j + 1 \in 1..Len(q) /\ q[i + 1] = q[j + 1]
    BY <1>1
  <2>2. i + 1 = j + 1
    BY <2>1 DEF Lists
  <2> QED BY <2>2
<1>4. {new[i] : i \in 1..Len(new)} = W \ {h}
  <2>1. ASSUME NEW i \in 1..Len(new) PROVE new[i] \in W \ {h}
    <3>1. 1 \in 1..Len(q) /\ i + 1 \in 1..Len(q) /\ i + 1 # 1
      BY <1>1
    <3> QED BY <1>1, <3>1 DEF Lists
  <2>2. ASSUME NEW u \in W \ {h} PROVE u \in {new[i] : i \in 1..Len(new)}
    <3>1. PICK k \in 1..Len(q) : q[k] = u
      BY DEF Lists
    <3>2. k - 1 \in 1..Len(new) /\ new[k - 1] = u
      BY <1>1, <3>1
    <3> QED BY <3>2
  <2> QED BY <2>1, <2>2
<1> QED BY <1>2, <1>3, <1>4 DEF Lists, new, h

-----------------------------------------------------------------------------
(* Type correctness. *)

LEMMA TypeInit == Init => TypeOK
BY ThreadsAssumption DEF Init, TypeOK, TimeOfNextInterrupt, Status, Level, Point

LEMMA TimerType ==
  ASSUME NEW x \in TimeOfNextInterrupt
  PROVE  x \in 0..MaxTimer
BY ThreadsAssumption DEF TimeOfNextInterrupt

LEMMA ReadyToRunType ==
  ASSUME TypeOK, NEW t \in Thread, ReadyToRun(t)
  PROVE  status' \in [Thread -> Status] /\ readyList' \in Seq(Thread)
BY DEF TypeOK, ReadyToRun, Enqueue, Status

LEMMA HandlerType ==
  ASSUME TypeOK, NEW w \in Thread \cup {NULL}, Handler(w), devices > 0
  PROVE  /\ devices' \in 0..MaxDevices
         /\ status' \in [Thread -> Status] /\ readyList' \in Seq(Thread)
<1>1. devices' \in 0..MaxDevices
  BY ThreadsAssumption DEF TypeOK, Handler
<1>2. status' \in [Thread -> Status] /\ readyList' \in Seq(Thread)
  BY ReadyToRunType DEF TypeOK, Handler, Sleepers
<1> QED BY <1>1, <1>2

LEMMA SetLevelType ==
  ASSUME TypeOK, NEW l \in Level, SetLevel(l)
  PROVE  level' \in Level /\ at' \in [Thread -> Point]
BY DEF TypeOK, SetLevel, Point

LEMMA YieldCPUType ==
  ASSUME TypeOK, YieldCPU
  PROVE  /\ currentThread' \in Thread
         /\ status' \in [Thread -> Status]
         /\ readyList' \in Seq(Thread)
         /\ level' \in Level
         /\ oldLevel' \in [Thread -> Level]
         /\ at' \in [Thread -> Point]
<1>1. CASE readyList = <<>>
  BY <1>1, SetLevelType DEF TypeOK, YieldCPU
<1>2. CASE readyList # <<>>
  <2>1. Head(readyList) \in Thread /\ Tail(readyList) \in Seq(Thread)
    BY <1>2, HeadTailProperties DEF TypeOK
  <2>2. readyList' \in Seq(Thread)
    BY <1>2, <2>1, AppendProperties DEF TypeOK, YieldCPU, Enqueue, Dequeue
  <2>3. "READY" \in Status /\ "RUNNING" \in Status
    BY DEF Status
  <2>4. status' \in [Thread -> Status] /\ currentThread' \in Thread
    BY <1>2, <2>1, <2>3 DEF TypeOK, YieldCPU
  <2>5. level' \in Level /\ oldLevel' \in [Thread -> Level] /\ at' \in [Thread -> Point]
    BY <1>2 DEF TypeOK, YieldCPU, Level, Point
  <2> QED BY <2>2, <2>4, <2>5
<1> QED BY <1>1, <1>2

LEMMA TypeNext == TypeOK /\ [Next]_vars => TypeOK'
<1> SUFFICES ASSUME TypeOK, [Next]_vars PROVE TypeOK'
  OBVIOUS
<1>1. ASSUME NEW t \in Thread, Fork(t) PROVE TypeOK'
  BY <1>1, ReadyToRunType, SetLevelType DEF TypeOK, Fork
<1>2. ASSUME NEW t \in Thread, Wake(t) PROVE TypeOK'
  BY <1>2, ReadyToRunType, SetLevelType DEF TypeOK, Wake
<1>3. CASE Yield
  BY <1>3, YieldCPUType DEF TypeOK, Yield
<1>4. CASE Finish
  BY <1>4 DEF TypeOK, Finish, Status, Level, Point
<1>5. CASE ChangeLevel
  <2> DEFINE l == IF level = "IntOn" THEN "IntOff" ELSE "IntOn"
  <2>1. l \in Level /\ SetLevel(l) /\ wanted' = [wanted EXCEPT ![currentThread] = l]
    BY <1>5 DEF ChangeLevel, Level
  <2> QED BY <1>5, <2>1, SetLevelType DEF TypeOK, ChangeLevel
<1>6. CASE Schedule
  BY <1>6, ThreadsAssumption DEF TypeOK, Schedule
<1>7. CASE CriticalSection
  BY <1>7, SetLevelType DEF TypeOK, CriticalSection
<1>8. CASE Block
  BY <1>8 DEF TypeOK, Block, Status, Level, Point
<1>9. CASE Proceed
  BY <1>9, SetLevelType DEF TypeOK, Proceed
<1>10. ASSUME NEW w \in Thread \cup {NULL}, DeviceInterrupt(w) PROVE TypeOK'
  BY <1>10, HandlerType DEF TypeOK, DeviceInterrupt
<1>11. ASSUME NEW w \in Thread \cup {NULL}, Idle(w) PROVE TypeOK'
  <2>1. timer' \in 0..MaxTimer
    BY <1>11, TimerType DEF Idle
  <2> QED BY <1>11, <2>1, HandlerType DEF TypeOK, Idle
<1>12. CASE Tick
  <2>1. CASE timer = 1
    <3>1. timer' \in 0..MaxTimer /\ YieldCPU
      BY <1>12, <2>1, TimerType DEF Tick
    <3> QED BY <1>12, <3>1, YieldCPUType DEF TypeOK, Tick
  <2>2. CASE timer # 1
    <3>1. timer' \in 0..MaxTimer
      BY <1>12, <2>2, ThreadsAssumption DEF TypeOK, Tick
    <3> QED BY <1>12, <2>2, <3>1 DEF TypeOK, Tick, Point
  <2> QED BY <2>1, <2>2
<1>13. CASE SwitchAway
  <2>1. Head(readyList) \in Thread /\ Tail(readyList) \in Seq(Thread)
    BY <1>13, HeadTailProperties DEF TypeOK, SwitchAway
  <2> QED BY <1>13, <2>1 DEF TypeOK, SwitchAway, Dequeue, Status
<1>14. CASE IdleReturn
  BY <1>14 DEF TypeOK, IdleReturn
<1>15. CASE Halt
  BY <1>15 DEF TypeOK, Halt
<1>16. CASE ThreadRoot
  BY <1>16, SetLevelType DEF TypeOK, ThreadRoot, Level
<1>17. CASE Resume
  <2>1. status' \in [Thread -> Status] /\ threadToBeDestroyed' = NULL
    BY <1>17 DEF TypeOK, Resume, DeleteCarcass, Status
  <2>2. level' \in Level /\ at' \in [Thread -> Point]
    <3>1. CASE at[currentThread] = "yield"
      <4>1. SetLevel(oldLevel[currentThread]) /\ oldLevel[currentThread] \in Level
        BY <1>17, <3>1 DEF TypeOK, Resume
      <4> QED BY <4>1, SetLevelType
    <3>2. CASE at[currentThread] # "yield"
      BY <1>17, <3>2 DEF TypeOK, Resume, Point
    <3> QED BY <3>1, <3>2
  <2> QED BY <1>17, <2>1, <2>2 DEF TypeOK, Resume
<1>18. CASE UNCHANGED vars
  BY <1>18 DEF TypeOK, vars
<1> QED
  BY <1>1, <1>2, <1>3, <1>4, <1>5, <1>6, <1>7, <1>8, <1>9, <1>10, <1>11, <1>12,
     <1>13, <1>14, <1>15, <1>16, <1>17, <1>18 DEF Next, Terminated

\* Every variable keeps its type, for every number of threads and devices.
THEOREM TypeCorrect == Spec => []TypeOK
BY TypeInit, TypeNext, PTL DEF Spec

-----------------------------------------------------------------------------
(* The ready list.  Sound(list, st) is ReadyListSound for any list and any *)
(* assignment of a status to the threads.                                  *)

Sound(list, st) ==
  /\ \A i, j \in 1..Len(list) : list[i] = list[j] => i = j
  /\ \A t \in Thread :
       st[t] = "READY" <=> \E i \in 1..Len(list) : list[i] = t

LEMMA SoundIsReadyListSound == ReadyListSound <=> Sound(readyList, status)
BY DEF ReadyListSound, Sound

\* A thread that is not READY may be made so and appended.
LEMMA EnqueueSound ==
  ASSUME NEW list \in Seq(Thread), NEW st \in [Thread -> Status],
         NEW t \in Thread, st[t] # "READY", Sound(list, st)
  PROVE  Sound(Append(list, t), [st EXCEPT ![t] = "READY"])
<1> DEFINE new == Append(list, t)
           st2 == [st EXCEPT ![t] = "READY"]
<1>1. /\ Len(list) \in Nat
      /\ Len(new) = Len(list) + 1
      /\ \A i \in 1..Len(list) : new[i] = list[i] /\ list[i] \in Thread
      /\ new[Len(list) + 1] = t
  BY AppendProperties
<1>2. \A i \in 1..Len(list) : list[i] # t
  BY DEF Sound
<1> HIDE DEF new
<1>3. ASSUME NEW i \in 1..Len(new), NEW j \in 1..Len(new), new[i] = new[j]
      PROVE  i = j
  BY <1>1, <1>2, <1>3 DEF Sound
<1>4. ASSUME NEW u \in Thread
      PROVE  st2[u] = "READY" <=> \E i \in 1..Len(new) : new[i] = u
  <2>1. CASE u = t
    <3>1. Len(list) + 1 \in 1..Len(new)
      BY <1>1
    <3> QED BY <2>1, <3>1, <1>1
  <2>2. CASE u # t
    <3>1. st2[u] = st[u]
      BY <2>2
    <3>2. (\E i \in 1..Len(new) : new[i] = u)
            <=> \E i \in 1..Len(list) : list[i] = u
      BY <1>1, <2>2
    <3> QED BY <3>1, <3>2 DEF Sound
  <2> QED BY <2>1, <2>2
<1> QED BY <1>3, <1>4 DEF Sound, new

\* The head was READY, and is the only one to leave the list.
LEMMA DequeueSound ==
  ASSUME NEW list \in Seq(Thread), NEW st \in [Thread -> Status],
         list # <<>>, Sound(list, st)
  PROVE  /\ Head(list) \in Thread
         /\ st[Head(list)] = "READY"
         /\ Sound(Tail(list), [st EXCEPT ![Head(list)] = "RUNNING"])
<1> DEFINE new == Tail(list)
           h == Head(list)
           st2 == [st EXCEPT ![h] = "RUNNING"]
<1>1. /\ Len(list) \in Nat \ {0}
      /\ Len(new) = Len(list) - 1
      /\ \A i \in 1..Len(new) : new[i] = list[i + 1]
      /\ h = list[1] /\ h \in Thread
  BY HeadTailProperties, EmptySeq
<1>2. st[h] = "READY"
  BY <1>1 DEF Sound
<1>3. \A i \in 2..Len(list) : list[i] # h
  BY <1>1 DEF Sound
<1> HIDE DEF new, h
<1>4. ASSUME NEW i \in 1..Len(new), NEW j \in 1..Len(new), new[i] = new[j]
      PROVE  i = j
  <2>1. i + 1 \in 1..Len(list) /\ j + 1 \in 1..Len(list) /\ list[i + 1] = list[j + 1]
    BY <1>1, <1>4
  <2> QED BY <2>1 DEF Sound
<1>5. ASSUME NEW u \in Thread
      PROVE  st2[u] = "READY" <=> \E i \in 1..Len(new) : new[i] = u
  <2>1. (\E i \in 1..Len(new) : new[i] = u)
          <=> \E i \in 2..Len(list) : list[i] = u
    <3>1. ASSUME NEW i \in 1..Len(new), new[i] = u
          PROVE  i + 1 \in 2..Len(list) /\ list[i + 1] = u
      BY <1>1, <3>1
    <3>2. ASSUME NEW i \in 2..Len(list), list[i] = u
          PROVE  i - 1 \in 1..Len(new) /\ new[i - 1] = u
      BY <1>1, <3>2
    <3> QED BY <3>1, <3>2
  <2>2. CASE u = h
    BY <1>1, <1>3, <2>1, <2>2
  <2>3. CASE u # h
    <3>1. st2[u] = st[u]
      BY <2>3
    <3>2. (\E i \in 2..Len(list) : list[i] = u)
            <=> \E i \in 1..Len(list) : list[i] = u
      BY <1>1, <2>3
    <3> QED BY <2>1, <3>1, <3>2 DEF Sound
  <2> QED BY <2>2, <2>3
<1> QED BY <1>1, <1>2, <1>4, <1>5 DEF Sound, new, h

\* Changes among the other statuses do not matter.
LEMMA SameReadySound ==
  ASSUME NEW list, NEW st, NEW st2, Sound(list, st),
         \A t \in Thread : st2[t] = "READY" <=> st[t] = "READY"
  PROVE  Sound(list, st2)
BY DEF Sound

-----------------------------------------------------------------------------
(* The inductive invariant.                                                *)

\* What the status of a thread can be, by the frame it is in.
Placed ==
  \A t \in Thread :
    /\ at[t] \in {"user", "tick", "awake"} => status[t] = "RUNNING"
    /\ at[t] = "root"   => status[t] \in {"JUST_CREATED", "READY", "RUNNING"}
    /\ at[t] = "yield"  => status[t] \in {"READY", "RUNNING"}
    /\ at[t] = "sleep"  => status[t] \in {"BLOCKED", "READY", "RUNNING"}
    /\ at[t] = "finish" => status[t] \in {"BLOCKED", "DELETED"}
    /\ status[t] = "RUNNING" => t = currentThread

\* The current thread runs, or is in the loop of Sleep.
CpuHeld ==
  status[currentThread] = "RUNNING" \/ at[currentThread] \in {"sleep", "finish"}

\* ThreadRoot turns interrupts on: that is what a new thread expects.
FreshLevel == \A t \in Thread : at[t] = "root" => wanted[t] = "IntOn"

Inv ==
  /\ TypeOK
  /\ ReadyListSound
  /\ Placed
  /\ CpuHeld
  /\ CarcassSafe
  /\ LevelKept
  /\ FreshLevel
  /\ InterruptsOffInScheduler
  /\ HaltedIsQuiet

LEMMA InvInit == Init => Inv
<1> SUFFICES ASSUME Init PROVE Inv
  OBVIOUS
<1>1. TypeOK
  BY TypeInit
<1>2. ReadyListSound
  BY EmptySeq DEF Init, ReadyListSound
<1>3. Placed /\ CpuHeld
  BY ThreadsAssumption DEF Init, Placed, CpuHeld
<1>4. CarcassSafe
  BY DEF Init, CarcassSafe
<1>5. LevelKept /\ FreshLevel /\ InterruptsOffInScheduler /\ HaltedIsQuiet
  BY ThreadsAssumption
     DEF Init, LevelKept, FreshLevel, InterruptsOffInScheduler, HaltedIsQuiet
<1> QED BY <1>1, <1>2, <1>3, <1>4, <1>5 DEF Inv

\* Whoever is dequeued was READY.
LEMMA HeadReady ==
  ASSUME TypeOK, ReadyListSound, readyList # <<>>
  PROVE  Head(readyList) \in Thread /\ status[Head(readyList)] = "READY"
BY DequeueSound, SoundIsReadyListSound DEF TypeOK

-----------------------------------------------------------------------------
(* Each step keeps the ready list sound. *)

LEMMA ReadyToRunSound ==
  ASSUME TypeOK, ReadyListSound, NEW t \in Thread,
         status[t] # "READY", ReadyToRun(t)
  PROVE  ReadyListSound'
<1>1. Sound(Append(readyList, t), [status EXCEPT ![t] = "READY"])
  BY EnqueueSound, SoundIsReadyListSound DEF TypeOK
<1> QED BY <1>1 DEF ReadyToRun, Enqueue, ReadyListSound, Sound

LEMMA HandlerSound ==
  ASSUME TypeOK, ReadyListSound, NEW w \in Thread \cup {NULL}, Handler(w)
  PROVE  ReadyListSound'
<1>1. CASE w = NULL
  BY <1>1 DEF Handler, ReadyListSound
<1>2. CASE w # NULL
  <2>1. w \in Thread /\ status[w] # "READY" /\ ReadyToRun(w)
    BY <1>2 DEF Handler, Sleepers
  <2> QED BY <2>1, ReadyToRunSound
<1> QED BY <1>1, <1>2

LEMMA YieldCPUSound ==
  ASSUME TypeOK, ReadyListSound, status[currentThread] = "RUNNING", YieldCPU
  PROVE  ReadyListSound'
<1>1. CASE readyList = <<>>
  BY <1>1 DEF YieldCPU, ReadyListSound
<1>2. CASE readyList # <<>>
  <2> DEFINE h == Head(readyList)
             st1 == [status EXCEPT ![h] = "RUNNING"]
  <2>1. h \in Thread /\ status[h] = "READY" /\ Sound(Tail(readyList), st1)
    BY <1>2, DequeueSound, SoundIsReadyListSound DEF TypeOK
  <2>2. h # currentThread /\ currentThread \in Thread
    BY <2>1 DEF TypeOK
  <2>3. /\ st1 \in [Thread -> Status] /\ st1[currentThread] # "READY"
        /\ Tail(readyList) \in Seq(Thread)
    BY <1>2, <2>1, <2>2, HeadTailProperties DEF TypeOK, Status
  <2>4. Sound(Append(Tail(readyList), currentThread),
              [st1 EXCEPT ![currentThread] = "READY"])
    BY <2>1, <2>2, <2>3, EnqueueSound
  <2>5. status' = [st1 EXCEPT ![currentThread] = "READY"]
    BY <1>2, <2>1, <2>2 DEF YieldCPU, TypeOK
  <2>6. readyList' = Append(Tail(readyList), currentThread)
    BY <1>2 DEF YieldCPU, Enqueue, Dequeue
  <2> QED BY <2>4, <2>5, <2>6 DEF ReadyListSound, Sound
<1> QED BY <1>1, <1>2

\* The statuses change, but nobody becomes READY or stops being so.
LEMMA SameReady ==
  ASSUME ReadyListSound, UNCHANGED readyList,
         \A t \in Thread : status'[t] = "READY" <=> status[t] = "READY"
  PROVE  ReadyListSound'
BY DEF ReadyListSound

LEMMA ReadyListNext == Inv /\ [Next]_vars => ReadyListSound'
<1> SUFFICES ASSUME Inv, [Next]_vars PROVE ReadyListSound'
  OBVIOUS
<1> USE DEF Inv
<1>1. ASSUME NEW t \in Thread, Fork(t) PROVE ReadyListSound'
  BY <1>1, ReadyToRunSound DEF Fork
<1>2. ASSUME NEW t \in Thread, Wake(t) PROVE ReadyListSound'
  BY <1>2, ReadyToRunSound DEF Wake, Sleepers
<1>3. CASE Yield
  BY <1>3, YieldCPUSound DEF Yield, RunningAt
<1>4. CASE Finish
  BY <1>4, SameReady DEF Finish, RunningAt, TypeOK
<1>5. CASE Block
  BY <1>5, SameReady DEF Block, RunningAt, TypeOK
<1>6. ASSUME NEW w \in Thread \cup {NULL}, DeviceInterrupt(w) PROVE ReadyListSound'
  BY <1>6, HandlerSound DEF DeviceInterrupt
<1>7. ASSUME NEW w \in Thread \cup {NULL}, Idle(w) PROVE ReadyListSound'
  BY <1>7, HandlerSound DEF Idle
<1>8. CASE Tick
  <2>1. CASE timer = 1
    BY <1>8, <2>1, YieldCPUSound DEF Tick, RunningAt
  <2>2. CASE timer # 1
    BY <1>8, <2>2, SameReady DEF Tick
  <2> QED BY <2>1, <2>2
<1>9. CASE SwitchAway
  <2>1. Sound(Tail(readyList), [status EXCEPT ![Head(readyList)] = "RUNNING"])
    BY <1>9, DequeueSound, SoundIsReadyListSound DEF TypeOK, SwitchAway
  <2> QED BY <1>9, <2>1 DEF SwitchAway, Dequeue, ReadyListSound, Sound
<1>10. CASE Resume
  <2>1. \A t \in Thread : t = threadToBeDestroyed => status[t] = "BLOCKED"
    BY ThreadsAssumption DEF CarcassSafe
  <2> QED BY <1>10, <2>1, SameReady DEF Resume, DeleteCarcass
<1>11. CASE \/ ChangeLevel \/ Schedule \/ CriticalSection \/ Proceed
            \/ IdleReturn \/ Halt \/ ThreadRoot \/ UNCHANGED vars
  BY <1>11, SameReady
     DEF ChangeLevel, Schedule, CriticalSection, Proceed, IdleReturn, Halt,
         ThreadRoot, vars
<1> QED
  BY <1>1, <1>2, <1>3, <1>4, <1>5, <1>6, <1>7, <1>8, <1>9, <1>10, <1>11
  DEF Next, Terminated

-----------------------------------------------------------------------------
(* Each step keeps the threads in their places. *)

Places == Placed /\ CpuHeld /\ CarcassSafe

\* Making a sleeper ready, from a thread or from a handler.
LEMMA WakeSleeper ==
  ASSUME Inv, NEW w \in Thread, w \in Sleepers, ReadyToRun(w),
         UNCHANGED <<currentThread, threadToBeDestroyed, at>>
  PROVE  Places'
BY DEF Inv, TypeOK, Places, Placed, CpuHeld, CarcassSafe, Sleepers, ReadyToRun

\* The frame changes between those of a running thread; nothing else does.
LEMMA StaysRunning ==
  ASSUME Inv, status[currentThread] = "RUNNING",
         at[currentThread] # "finish",
         NEW p \in {"user", "tick", "awake"},
         at' = [at EXCEPT ![currentThread] = p],
         UNCHANGED <<currentThread, threadToBeDestroyed, status>>
  PROVE  Places'
BY DEF Inv, TypeOK, Places, Placed, CpuHeld, CarcassSafe

LEMMA HandlerPlaces ==
  ASSUME Inv, NEW w \in Thread \cup {NULL}, Handler(w),
         UNCHANGED <<currentThread, threadToBeDestroyed, at>>
  PROVE  Places'
<1>1. CASE w = NULL
  BY <1>1 DEF Handler, Inv, Places, Placed, CpuHeld, CarcassSafe
<1>2. CASE w # NULL
  BY <1>2, WakeSleeper DEF Handler
<1> QED BY <1>1, <1>2

\* The CPU passes to the head of the ready list, and the thread that had it is
\* READY in Yield, or asleep.
LEMMA YieldCPUPlaces ==
  ASSUME Inv, RunningAt({"user", "tick"}), YieldCPU, UNCHANGED threadToBeDestroyed
  PROVE  Places'
<1>1. CASE readyList = <<>>
  BY <1>1, StaysRunning DEF YieldCPU, SetLevel, RunningAt
<1>2. CASE readyList # <<>>
  <2>1. Head(readyList) \in Thread /\ status[Head(readyList)] = "READY"
    BY <1>2, HeadReady DEF Inv
  <2> QED
    BY <1>2, <2>1
    DEF Inv, TypeOK, Places, Placed, CpuHeld, CarcassSafe, YieldCPU, RunningAt
<1> QED BY <1>1, <1>2

LEMMA PlacesNext == Inv /\ [Next]_vars => Places'
<1> SUFFICES ASSUME Inv, [Next]_vars PROVE Places'
  OBVIOUS
<1>1. ASSUME NEW t \in Thread, Fork(t) PROVE Places'
  <2>1. t # currentThread /\ at[t] = "root"
    BY <1>1 DEF Inv, TypeOK, Point, Placed, Fork, RunningAt
  <2> QED
    BY <1>1, <2>1
    DEF Inv, TypeOK, Places, Placed, CpuHeld, CarcassSafe, Fork, ReadyToRun,
        SetLevel, RunningAt
<1>2. ASSUME NEW t \in Thread, Wake(t) PROVE Places'
  <2>1. t # currentThread /\ at[t] = "sleep" /\ status[t] = "BLOCKED"
    BY <1>2 DEF Wake, Sleepers, RunningAt
  <2> QED
    BY <1>2, <2>1
    DEF Inv, TypeOK, Places, Placed, CpuHeld, CarcassSafe, Wake, ReadyToRun,
        SetLevel, RunningAt
<1>3. CASE Yield
  BY <1>3, YieldCPUPlaces DEF Yield, RunningAt
<1>4. CASE Finish
  BY <1>4, ThreadsAssumption
  DEF Inv, TypeOK, Places, Placed, CpuHeld, CarcassSafe, Finish, RunningAt
<1>5. CASE Block
  BY <1>5 DEF Inv, TypeOK, Places, Placed, CpuHeld, CarcassSafe, Block, RunningAt
<1>6. ASSUME NEW w \in Thread \cup {NULL}, DeviceInterrupt(w) PROVE Places'
  BY <1>6, HandlerPlaces DEF DeviceInterrupt
<1>7. ASSUME NEW w \in Thread \cup {NULL}, Idle(w) PROVE Places'
  BY <1>7, HandlerPlaces DEF Idle
<1>8. CASE Tick
  <2>1. CASE timer = 1
    BY <1>8, <2>1, YieldCPUPlaces DEF Tick, RunningAt
  <2>2. CASE timer # 1
    BY <1>8, <2>2, StaysRunning DEF Tick, RunningAt
  <2> QED BY <2>1, <2>2
<1>9. CASE SwitchAway
  <2>1. Head(readyList) \in Thread /\ status[Head(readyList)] = "READY"
    BY <1>9, HeadReady DEF Inv, SwitchAway
  <2> QED
    BY <1>9, <2>1
    DEF Inv, TypeOK, Places, Placed, CpuHeld, CarcassSafe, SwitchAway, InSleepLoop
<1>10. CASE Resume
  <2>1. PICK p \in {"user", "tick", "awake"} :
             at' = [at EXCEPT ![currentThread] = p]
    BY <1>10 DEF Resume, SetLevel
  <2>2. threadToBeDestroyed # currentThread /\ threadToBeDestroyed' = NULL
    BY <1>10, ThreadsAssumption
    DEF Inv, TypeOK, CarcassSafe, Resume, DeleteCarcass, RunningAt
  <2>3. \A t \in Thread : IF t = threadToBeDestroyed
          THEN status'[t] = "DELETED" /\ at[t] = "finish"
          ELSE status'[t] = status[t]
    BY <1>10, ThreadsAssumption DEF Inv, CarcassSafe, Resume, DeleteCarcass
  <2>4. /\ currentThread' = currentThread
        /\ status[currentThread] = "RUNNING"
        /\ at[currentThread] \in {"yield", "sleep"}
    BY <1>10 DEF Resume, RunningAt
  <2>5. \A t \in Thread : at'[t] = IF t = currentThread THEN p ELSE at[t]
    BY <2>1 DEF Inv, TypeOK
  <2>6. Placed'
    BY <2>2, <2>3, <2>4, <2>5 DEF Inv, TypeOK, Placed
  <2>7. CpuHeld' /\ CarcassSafe'
    BY <2>2, <2>3, <2>4, <2>5 DEF Inv, TypeOK, CpuHeld, CarcassSafe
  <2> QED BY <2>6, <2>7 DEF Places
<1>11. CASE ChangeLevel \/ CriticalSection \/ Proceed \/ ThreadRoot
  BY <1>11, StaysRunning
  DEF ChangeLevel, CriticalSection, Proceed, ThreadRoot, SetLevel, RunningAt
<1>12. CASE Schedule \/ IdleReturn \/ Halt \/ UNCHANGED vars
  BY <1>12
  DEF Inv, Places, Placed, CpuHeld, CarcassSafe, Schedule, IdleReturn, Halt, vars
<1> QED
  BY <1>1, <1>2, <1>3, <1>4, <1>5, <1>6, <1>7, <1>8, <1>9, <1>10, <1>11, <1>12
  DEF Next, Terminated

-----------------------------------------------------------------------------
(* Each step keeps the interrupt levels. *)

Levels == LevelKept /\ FreshLevel /\ InterruptsOffInScheduler

\* Calls that leave by SetLevel with the level the thread wants.
LEMMA SetLevelLevels ==
  ASSUME Inv, status[currentThread] = "RUNNING", NEW l \in Level, SetLevel(l),
         wanted[currentThread] = l, UNCHANGED <<currentThread, oldLevel, wanted>>
  PROVE  Levels'
BY DEF Inv, TypeOK, Placed, Levels, LevelKept, FreshLevel,
       InterruptsOffInScheduler, SetLevel

LEMMA YieldCPULevels ==
  ASSUME Inv, RunningAt({"user", "tick"}), YieldCPU, UNCHANGED wanted
  PROVE  Levels'
<1>0. level = wanted[currentThread] /\ level \in Level
  BY DEF Inv, TypeOK, LevelKept, RunningAt
<1>1. CASE readyList = <<>>
  BY <1>0, <1>1, SetLevelLevels DEF YieldCPU, RunningAt
<1>2. CASE readyList # <<>>
  <2>1. Head(readyList) \in Thread /\ status[Head(readyList)] = "READY"
    BY <1>2, HeadReady DEF Inv
  <2> QED
    BY <1>0, <1>2, <2>1
    DEF Inv, TypeOK, Placed, Levels, LevelKept, FreshLevel,
        InterruptsOffInScheduler, YieldCPU, RunningAt
<1> QED BY <1>1, <1>2

LEMMA LevelsNext == Inv /\ [Next]_vars => Levels'
<1> SUFFICES ASSUME Inv, [Next]_vars PROVE Levels'
  OBVIOUS
<1>0. /\ RunningAt({"user", "tick"}) =>
           level = wanted[currentThread] /\ level \in Level
      /\ RunningAt({"yield", "awake"}) =>
           /\ oldLevel[currentThread] = wanted[currentThread]
           /\ oldLevel[currentThread] \in Level
      /\ RunningAt({"root"}) => wanted[currentThread] = "IntOn"
  BY DEF Inv, TypeOK, LevelKept, FreshLevel, RunningAt
<1>1. CASE \/ \E t \in Thread : Fork(t) \/ Wake(t)
           \/ CriticalSection
  BY <1>0, <1>1, SetLevelLevels DEF Fork, Wake, CriticalSection, RunningAt
<1>2. CASE Yield
  BY <1>2, YieldCPULevels DEF Yield, RunningAt
<1>3. CASE Finish \/ Block
  BY <1>0, <1>3
  DEF Inv, TypeOK, Levels, LevelKept, FreshLevel, InterruptsOffInScheduler,
      Finish, Block, RunningAt
<1>4. CASE ChangeLevel
  BY <1>4
  DEF Inv, TypeOK, Placed, Levels, LevelKept, FreshLevel,
      InterruptsOffInScheduler, ChangeLevel, SetLevel, RunningAt, Level
<1>5. CASE Proceed
  BY <1>0, <1>5, SetLevelLevels DEF Proceed, RunningAt
<1>6. CASE ThreadRoot
  BY <1>0, <1>6, SetLevelLevels DEF ThreadRoot, RunningAt, Level
<1>7. CASE Tick
  <2>1. CASE timer = 1
    BY <1>7, <2>1, YieldCPULevels DEF Tick, RunningAt
  <2>2. CASE timer # 1
    BY <1>7, <2>2
    DEF Inv, TypeOK, Placed, Levels, LevelKept, FreshLevel,
        InterruptsOffInScheduler, Tick, RunningAt
  <2> QED BY <2>1, <2>2
<1>8. CASE SwitchAway
  <2>1. Head(readyList) \in Thread /\ status[Head(readyList)] = "READY"
    BY <1>8, HeadReady DEF Inv, SwitchAway
  <2> QED
    BY <1>8, <2>1
    DEF Inv, TypeOK, Placed, Levels, LevelKept, FreshLevel,
        InterruptsOffInScheduler, SwitchAway, InSleepLoop
<1>9. CASE Resume
  <2>1. CASE at[currentThread] = "yield"
    BY <1>0, <1>9, <2>1, SetLevelLevels DEF Resume, RunningAt
  <2>2. CASE at[currentThread] # "yield"
    BY <1>9, <2>2
    DEF Inv, TypeOK, Levels, LevelKept, FreshLevel, InterruptsOffInScheduler,
        Resume, RunningAt
  <2> QED BY <2>1, <2>2
<1>10. CASE \/ Schedule \/ IdleReturn \/ Halt \/ UNCHANGED vars
            \/ \E w \in Thread \cup {NULL} : DeviceInterrupt(w) \/ Idle(w)
  BY <1>10
  DEF Inv, Levels, LevelKept, FreshLevel, InterruptsOffInScheduler,
      Schedule, IdleReturn, Halt, DeviceInterrupt, Idle, vars
<1> QED
  BY <1>1, <1>2, <1>3, <1>4, <1>5, <1>6, <1>7, <1>8, <1>9, <1>10
  DEF Next, Terminated

-----------------------------------------------------------------------------
(* The theorems. *)

\* Only Halt reaches Halted, and nothing changes afterwards.
LEMMA HaltedNext == Inv /\ [Next]_vars => HaltedIsQuiet'
<1> SUFFICES ASSUME Inv, [Next]_vars, machine' = "Halted" PROVE HaltedIsQuiet'
  BY DEF HaltedIsQuiet
<1>1. CASE Halt
  <2>1. \A t \in Thread : status[t] # "READY"
    BY <1>1, EmptySeq DEF Inv, ReadyListSound, Halt, NobodyReady
  <2>2. \A t \in Thread : status[t] # "RUNNING"
    BY <1>1 DEF Inv, Placed, Halt, InSleepLoop
  <2> QED BY <1>1, <2>1, <2>2 DEF HaltedIsQuiet, Halt
<1>2. CASE machine = "Halted"
  <2>1. UNCHANGED vars
    BY <1>2
    DEF Next, Terminated, Fork, Wake, Yield, Finish, ChangeLevel, Schedule,
        CriticalSection, Block, Proceed, DeviceInterrupt, Idle, Tick, SwitchAway,
        IdleReturn, Halt, ThreadRoot, Resume, RunningAt
  <2> QED BY <2>1 DEF Inv, HaltedIsQuiet, vars
<1>3. CASE machine # "Halted" /\ ~Halt
  BY <1>3
  DEF Next, Terminated, Fork, Wake, Yield, Finish, ChangeLevel, Schedule,
      CriticalSection, Block, Proceed, DeviceInterrupt, Idle, Tick, SwitchAway,
      IdleReturn, ThreadRoot, Resume, RunningAt, vars
<1> QED BY <1>1, <1>2, <1>3

LEMMA InvNext == Inv /\ [Next]_vars => Inv'
BY TypeNext, ReadyListNext, PlacesNext, LevelsNext, HaltedNext
   DEF Inv, Places, Levels

\* Where each thread is, the status it then has, and who holds the CPU.
THEOREM InvCorrect == Spec => []Inv
BY InvInit, InvNext, PTL DEF Spec

\* The ready list holds each READY thread once and nothing else.
THEOREM ReadyListCorrect == Spec => []ReadyListSound
<1>1. Inv => ReadyListSound
  BY DEF Inv
<1> QED BY <1>1, InvCorrect, PTL

\* No thread is freed twice, while it runs, or before it runs again.
THEOREM CarcassCorrect == Spec => []CarcassSafe
<1>1. Inv => CarcassSafe
  BY DEF Inv
<1> QED BY <1>1, InvCorrect, PTL

\* Every thread gets back the interrupt level it had.
THEOREM LevelCorrect == Spec => []LevelKept
<1>1. Inv => LevelKept
  BY DEF Inv
<1> QED BY <1>1, InvCorrect, PTL

\* The scheduler is only ever in with interrupts off.
THEOREM InterruptsOffCorrect == Spec => []InterruptsOffInScheduler
<1>1. Inv => InterruptsOffInScheduler
  BY DEF Inv
<1> QED BY <1>1, InvCorrect, PTL

\* The machine halts only when no thread can run again.
THEOREM HaltCorrect == Spec => []HaltedIsQuiet
<1>1. Inv => HaltedIsQuiet
  BY DEF Inv
<1> QED BY <1>1, InvCorrect, PTL

\* Nobody on the ready list is ever overtaken.
LEMMA NoOvertakingStep ==
  Inv /\ [Next]_vars =>
    \A i \in 1..Len(readyList) : \A j \in 1..Len(readyList') :
      readyList[i] = readyList'[j] => j <= i
<1> SUFFICES ASSUME Inv, [Next]_vars,
                    NEW i \in 1..Len(readyList), NEW j \in 1..Len(readyList'),
                    readyList[i] = readyList'[j]
             PROVE  j <= i
  OBVIOUS
<1>0. /\ readyList \in Seq(Thread) /\ readyList # <<>> /\ currentThread \in Thread
      /\ \A k, m \in 1..Len(readyList) : readyList[k] = readyList[m] => k = m
      /\ \A k \in 1..Len(readyList) :
           readyList[k] \in Thread /\ status[readyList[k]] = "READY"
  BY ElementOfSeq, EmptySeq DEF Inv, TypeOK, ReadyListSound
<1>1. CASE UNCHANGED readyList
  BY <1>0, <1>1
<1>2. ASSUME NEW t \in Thread, status[t] # "READY",
             readyList' = Append(readyList, t)
      PROVE  j <= i
  <2>1. j \in 1..Len(readyList) /\ readyList'[j] = readyList[j]
    BY <1>0, <1>2, AppendProperties
  <2> QED BY <1>0, <2>1
<1>3. ASSUME readyList' = Tail(readyList)
      PROVE  j <= i
  <2>1. j + 1 \in 1..Len(readyList) /\ readyList'[j] = readyList[j + 1]
    BY <1>0, <1>3, HeadTailProperties
  <2> QED BY <1>0, <2>1
<1>4. ASSUME status[currentThread] = "RUNNING",
             readyList' = Append(Tail(readyList), currentThread)
      PROVE  j <= i
  <2> DEFINE rest == Tail(readyList)
  <2>1. /\ rest \in Seq(Thread) /\ Len(rest) = Len(readyList) - 1
        /\ Len(readyList) \in Nat \ {0}
        /\ \A k \in 1..Len(rest) : rest[k] = readyList[k + 1]
    BY <1>0, HeadTailProperties
  <2>2. readyList' = Append(rest, currentThread)
    BY <1>4
  <2> HIDE DEF rest
  <2>3. /\ Len(readyList') = Len(rest) + 1
        /\ readyList'[Len(rest) + 1] = currentThread
        /\ \A k \in 1..Len(rest) : readyList'[k] = rest[k]
    BY <1>0, <2>1, <2>2, AppendProperties
  <2>4. readyList[i] # currentThread
    BY <1>0, <1>4
  <2>5. j \in 1..Len(rest) /\ readyList'[j] = readyList[j + 1]
    BY <2>1, <2>3, <2>4
  <2>6. j + 1 \in 1..Len(readyList)
    BY <2>1, <2>5
  <2> QED BY <1>0, <2>5, <2>6
<1>5. CASE YieldCPU /\ status[currentThread] = "RUNNING"
  BY <1>1, <1>4, <1>5 DEF YieldCPU, Enqueue, Dequeue
<1>6. ASSUME NEW t \in Thread, status[t] # "READY", ReadyToRun(t)
      PROVE  j <= i
  BY <1>2, <1>6 DEF ReadyToRun, Enqueue
<1>7. ASSUME NEW w \in Thread \cup {NULL}, Handler(w)
      PROVE  j <= i
  BY <1>1, <1>6, <1>7 DEF Handler, Sleepers
<1>8. ASSUME NEW t \in Thread, Fork(t) \/ Wake(t)
      PROVE  j <= i
  BY <1>6, <1>8 DEF Fork, Wake, Sleepers
<1>9. CASE Yield \/ Tick
  BY <1>1, <1>5, <1>9 DEF Yield, Tick, RunningAt
<1>10. CASE SwitchAway
  BY <1>3, <1>10 DEF SwitchAway, Dequeue
<1>11. ASSUME NEW w \in Thread \cup {NULL}, DeviceInterrupt(w) \/ Idle(w)
       PROVE  j <= i
  BY <1>7, <1>11 DEF DeviceInterrupt, Idle
<1>12. CASE \/ Finish \/ ChangeLevel \/ Schedule \/ CriticalSection \/ Block
            \/ Proceed \/ IdleReturn \/ Halt \/ ThreadRoot \/ Resume
            \/ UNCHANGED vars
  BY <1>1, <1>12
  DEF Finish, ChangeLevel, Schedule, CriticalSection, Block, Proceed, IdleReturn,
      Halt, ThreadRoot, Resume, vars
<1> QED
  BY <1>8, <1>9, <1>10, <1>11, <1>12 DEF Next, Terminated

\* The ready list is first come, first served, whoever yields or is preempted.
THEOREM FifoCorrect == Spec => NoOvertaking
<1>1. Inv /\ [Next]_vars =>
        [\A i \in 1..Len(readyList) : \A j \in 1..Len(readyList') :
           readyList[i] = readyList'[j] => j <= i]_vars
  BY NoOvertakingStep
<1> QED BY <1>1, InvCorrect, PTL DEF Spec, NoOvertaking
-----------------------------------------------------------------------------
(* For the modules that compose with this one: what the steps they use do to *)
(* the frames and the status of the threads that wait.                       *)

\* A step of the thread system without a synchronization routine.
QuietStep ==
  \/ \E t \in Thread : Fork(t)
  \/ Yield \/ Finish \/ Schedule
  \/ DeviceInterrupt(NULL) \/ Idle(NULL)
  \/ Tick \/ SwitchAway \/ IdleReturn \/ Halt
  \/ ThreadRoot \/ Resume \/ Terminated

\* In the Sleep of a synchronization routine, or back in that routine from it.
Waiting(p) == p \in {"sleep", "awake"}

\* No thread starts or ends waiting, and none that waits falls asleep or is woken.
WaitersKept ==
  \A t \in Thread :
    /\ Waiting(at'[t]) <=> Waiting(at[t])
    /\ at'[t] = "root" => at[t] = "root"
    /\ Waiting(at[t]) => (status'[t] = "BLOCKED" <=> status[t] = "BLOCKED")

\* Only the frame of the current thread changes.
OthersStay == \A t \in Thread : t # currentThread => at'[t] = at[t]

LEMMA YieldCPUWaiters ==
  ASSUME Inv, YieldCPU, RunningAt({"user", "tick"})
  PROVE  WaitersKept
BY HeadReady
DEF Inv, TypeOK, YieldCPU, RunningAt, SetLevel, WaitersKept, Waiting

LEMMA QuietStepWaiters ==
  ASSUME Inv, QuietStep
  PROVE  WaitersKept
<1>1. ASSUME NEW u \in Thread, Fork(u) PROVE WaitersKept
  BY <1>1 DEF Inv, TypeOK, Fork, RunningAt, ReadyToRun, SetLevel, WaitersKept,
              Waiting
<1>2. CASE Yield
  BY <1>2, YieldCPUWaiters DEF Yield, RunningAt
<1>3. CASE Finish
  BY <1>3 DEF Inv, TypeOK, Finish, RunningAt, WaitersKept, Waiting
<1>4. CASE Schedule \/ IdleReturn \/ Halt \/ Terminated
  BY <1>4 DEF Schedule, IdleReturn, Halt, Terminated, vars, WaitersKept
<1>5. CASE DeviceInterrupt(NULL) \/ Idle(NULL)
  BY <1>5 DEF DeviceInterrupt, Idle, Handler, WaitersKept
<1>6. CASE Tick
  <2>1. CASE timer = 1
    BY <1>6, <2>1, YieldCPUWaiters DEF Tick, RunningAt
  <2>2. CASE timer # 1
    BY <1>6, <2>2 DEF Inv, TypeOK, Tick, RunningAt, WaitersKept, Waiting
  <2> QED BY <2>1, <2>2
<1>7. CASE SwitchAway
  BY <1>7, HeadReady DEF Inv, TypeOK, SwitchAway, WaitersKept, Waiting
<1>8. CASE ThreadRoot
  BY <1>8 DEF Inv, TypeOK, ThreadRoot, RunningAt, SetLevel, WaitersKept, Waiting
<1>9. CASE Resume
  <2>1. \A t \in Thread :
          status'[t] = status[t] \/ (t = threadToBeDestroyed /\ at[t] = "finish")
    BY <1>9, ThreadsAssumption DEF Resume, DeleteCarcass, Inv, CarcassSafe
  <2> QED BY <1>9, <2>1 DEF Inv, TypeOK, Resume, RunningAt, SetLevel, WaitersKept,
                            Waiting
<1> QED BY <1>1, <1>2, <1>3, <1>4, <1>5, <1>6, <1>7, <1>8, <1>9 DEF QuietStep

\* A routine that neither waits nor wakes.
LEMMA CriticalSectionFrames ==
  ASSUME Inv, CriticalSection
  PROVE  /\ currentThread \in Thread /\ OthersStay
         /\ at[currentThread] = "user" /\ at'[currentThread] \in {"user", "tick"}
         /\ status' = status
BY DEF Inv, TypeOK, CriticalSection, RunningAt, SetLevel, OthersStay

\* A routine that wakes u.
LEMMA WakeFrames ==
  ASSUME Inv, NEW u \in Thread, Wake(u)
  PROVE  /\ currentThread \in Thread /\ OthersStay
         /\ at[currentThread] = "user" /\ at'[currentThread] \in {"user", "tick"}
         /\ status' = [status EXCEPT ![u] = "READY"]
BY DEF Inv, TypeOK, Wake, RunningAt, SetLevel, ReadyToRun, OthersStay

\* A routine that waits.
LEMMA BlockFrames ==
  ASSUME Inv, Block
  PROVE  /\ currentThread \in Thread /\ OthersStay
         /\ at[currentThread] \in {"user", "awake"} /\ at'[currentThread] = "sleep"
         /\ status[currentThread] = "RUNNING"
         /\ status' = [status EXCEPT ![currentThread] = "BLOCKED"]
BY DEF Inv, TypeOK, Block, RunningAt, OthersStay

\* A routine that has waited and returns.
LEMMA ProceedFrames ==
  ASSUME Inv, Proceed
  PROVE  /\ currentThread \in Thread /\ OthersStay
         /\ at[currentThread] = "awake" /\ at'[currentThread] \in {"user", "tick"}
         /\ status[currentThread] = "RUNNING" /\ status' = status
BY DEF Inv, TypeOK, Proceed, RunningAt, SetLevel, OthersStay

\* A device handler that wakes u.
LEMMA DeviceFrames ==
  ASSUME NEW u \in Thread, DeviceInterrupt(u) \/ Idle(u)
  PROVE  at' = at /\ status' = [status EXCEPT ![u] = "READY"]
BY ThreadsAssumption DEF DeviceInterrupt, Idle, Handler, ReadyToRun

\* No thread is created or finishes.
LivesKept ==
  \A t \in Thread :
    /\ status'[t] = "JUST_CREATED" <=> status[t] = "JUST_CREATED"
    /\ at'[t] = "finish" <=> at[t] = "finish"

\* Only Fork and Finish begin and end the life of a thread.
LEMMA StepKeepsLives ==
  ASSUME Inv,
         \/ Yield \/ Tick \/ SwitchAway \/ Halt \/ ThreadRoot \/ Resume
         \/ Terminated \/ CriticalSection \/ Block \/ Proceed
         \/ \E u \in Thread : Wake(u)
  PROVE  LivesKept
<1>1. ASSUME YieldCPU, RunningAt({"user", "tick"}) PROVE LivesKept
  BY <1>1, HeadReady
  DEF Inv, TypeOK, YieldCPU, RunningAt, SetLevel, LivesKept
<1>2. CASE Yield
  BY <1>1, <1>2 DEF Yield, RunningAt
<1>3. CASE Tick
  <2>1. CASE timer = 1
    BY <1>1, <1>3, <2>1 DEF Tick, RunningAt
  <2>2. CASE timer # 1
    BY <1>3, <2>2 DEF Inv, TypeOK, Tick, RunningAt, LivesKept
  <2> QED BY <2>1, <2>2
<1>4. CASE SwitchAway
  BY <1>4, HeadReady DEF Inv, TypeOK, SwitchAway, LivesKept
<1>5. CASE ThreadRoot \/ CriticalSection \/ Proceed
  BY <1>5 DEF Inv, TypeOK, ThreadRoot, CriticalSection, Proceed, RunningAt,
              SetLevel, LivesKept
<1>6. CASE Halt \/ Terminated
  BY <1>6 DEF Halt, Terminated, vars, LivesKept
<1>7. CASE Resume
  <2>1. \A t \in Thread :
          status'[t] = status[t] \/ (status[t] = "BLOCKED" /\ status'[t] = "DELETED")
    BY <1>7, ThreadsAssumption DEF Resume, DeleteCarcass, Inv, CarcassSafe
  <2>2. \A t \in Thread : at'[t] = "finish" <=> at[t] = "finish"
    BY <1>7 DEF Inv, TypeOK, Resume, RunningAt, SetLevel
  <2> QED BY <2>1, <2>2 DEF LivesKept
<1>8. CASE Block
  BY <1>8 DEF Inv, TypeOK, Block, RunningAt, LivesKept
<1>9. ASSUME NEW u \in Thread, Wake(u) PROVE LivesKept
  BY <1>9 DEF Inv, TypeOK, Wake, Sleepers, RunningAt, SetLevel, ReadyToRun,
              LivesKept
<1> QED BY <1>2, <1>3, <1>4, <1>5, <1>6, <1>7, <1>8, <1>9
=============================================================================
