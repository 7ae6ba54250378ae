--------------------------- MODULE SynchListProofs ---------------------------
(***************************************************************************)
(* Proofs about SynchList: for any set of threads and items and any bound  *)
(* on the list.  What holds of its lock is taken from LocksProofs, whose   *)
(* invariant every step of the list keeps, the steps of the procedure that *)
(* Mapcar applies among them, which are no steps of Locks.                 *)
(***************************************************************************)
EXTENDS SynchList, SequenceTheorems, TLAPS

LP == INSTANCE LocksProofs WITH Lock <- {lock}

-----------------------------------------------------------------------------
(* The lock, and the thread system under it. *)

LEMMA LocksAssumed == LP!LocksAssumption /\ LP!TP!ThreadsAssumption
BY SynchListAssumption
DEF L!LocksAssumption, LP!LocksAssumption, L!T!ThreadsAssumption,
    LP!T!ThreadsAssumption, LP!TP!ThreadsAssumption

LEMMA SameInit == L!Init => LP!Init
BY DEF L!Init, LP!Init, L!T!Init, LP!T!Init, L!T!TimeOfNextInterrupt,
       LP!T!TimeOfNextInterrupt

\* The steps of the lock are those that LocksProofs is about.
LEMMA SameSteps ==
  /\ L!Acquire(lock) <=> LP!Acquire(lock)
  /\ L!AcquireSleep(lock) <=> LP!AcquireSleep(lock)
  /\ L!AcquireWoken(lock) <=> LP!AcquireWoken(lock)
  /\ L!Release(lock) <=> LP!Release(lock)
  /\ L!T!CriticalSection <=> LP!TP!CriticalSection
BY DEF L!Acquire, L!AcquireSleep, L!AcquireWoken, L!Release, L!Take,
       L!T!CriticalSection, L!T!Block, L!T!Proceed, L!T!Wake, L!T!RunningAt,
       L!T!ReadyToRun, L!T!Enqueue, L!T!SetLevel, L!T!Sleepers,
       LP!Acquire, LP!AcquireSleep, LP!AcquireWoken, LP!Release, LP!Take,
       LP!T!CriticalSection, LP!T!Block, LP!T!Proceed, LP!T!Wake,
       LP!T!RunningAt, LP!T!ReadyToRun, LP!T!Enqueue, LP!T!SetLevel,
       LP!T!Sleepers, LP!TP!CriticalSection, LP!TP!RunningAt, LP!TP!SetLevel

\* The steps in which only the thread system moves.
Outside ==
  \/ L!T!Yield \/ L!T!Finish \/ \E t \in Thread : L!T!Fork(t)
  \/ L!T!Tick \/ L!T!SwitchAway \/ L!T!Halt
  \/ L!T!ThreadRoot \/ L!T!Resume \/ L!T!Terminated

LEMMA OutsideIsThreadStep == Outside /\ UNCHANGED lockVars => LP!ThreadStep
BY DEF Outside, lockVars, LP!ThreadStep, LP!lockVars,
       L!T!Yield, L!T!Finish, L!T!Fork, L!T!Tick, L!T!SwitchAway, L!T!Halt,
       L!T!ThreadRoot, L!T!Resume, L!T!Terminated, L!T!vars, L!T!RunningAt,
       L!T!ReadyToRun, L!T!SetLevel, L!T!Enqueue, L!T!Dequeue, L!T!YieldCPU,
       L!T!NobodyReady, L!T!InSleepLoop, L!T!DeleteCarcass,
       L!T!TimeOfNextInterrupt,
       LP!T!Yield, LP!T!Finish, LP!T!Fork, LP!T!Tick, LP!T!SwitchAway,
       LP!T!Halt, LP!T!ThreadRoot, LP!T!Resume, LP!T!Terminated, LP!T!vars,
       LP!T!RunningAt, LP!T!ReadyToRun, LP!T!SetLevel, LP!T!Enqueue,
       LP!T!Dequeue, LP!T!YieldCPU, LP!T!NobodyReady, LP!T!InSleepLoop,
       LP!T!DeleteCarcass, LP!T!TimeOfNextInterrupt

\* What a step of the list is for its lock.
LEMMA StepOfLock ==
  ASSUME [Next]_vars
  PROVE  \/ [LP!Next]_(LP!vars)
         \/ LP!TP!CriticalSection /\ UNCHANGED LP!lockVars
<1>1. ASSUME \/ L!Acquire(lock) \/ L!AcquireSleep(lock)
             \/ L!AcquireWoken(lock) \/ L!Release(lock)
      PROVE  LP!Next
  BY <1>1, SameSteps DEF LP!Next
<1>2. ASSUME Outside, UNCHANGED lockVars
      PROVE  LP!Next
  BY <1>2, OutsideIsThreadStep DEF LP!Next
<1>3. ASSUME UNCHANGED <<threadVars, lockVars>>
      PROVE  UNCHANGED LP!vars
  BY <1>3 DEF threadVars, lockVars, LP!vars, LP!lockVars, LP!T!vars
<1>4. CASE \/ \E i \in Pointer : Enter("Append", i)
           \/ Enter("Remove", NULL) \/ Enter("Mapcar", NULL) \/ Reenter
           \/ AppendItem \/ Remove \/ MapcarEnd
  BY <1>1, <1>4 DEF Enter, Reenter, AppendItem, Remove, MapcarEnd
<1>5. CASE MapcarItem
  BY <1>2, <1>5, SameSteps DEF MapcarItem, Outside, lockVars, LP!lockVars
<1>6. CASE Elsewhere \/ System
  BY <1>2, <1>6 DEF Elsewhere, System, Outside
<1>7. CASE AssertFails \/ Wait \/ Delete \/ Aborted \/ UNCHANGED vars
  BY <1>3, <1>7 DEF AssertFails, Wait, Delete, Aborted, vars
<1> QED BY <1>4, <1>5, <1>6, <1>7 DEF Next, Step

LEMMA LockInit == Init => LP!Inv
BY SameInit, LocksAssumed, LP!InvInit DEF Init

LEMMA LockNext == LP!Inv /\ [Next]_vars => LP!Inv'
<1> SUFFICES ASSUME LP!Inv, [Next]_vars PROVE LP!Inv'
  OBVIOUS
<1>1. CASE [LP!Next]_(LP!vars)
  BY <1>1, LocksAssumed, LP!InvNext
<1>2. CASE LP!TP!CriticalSection /\ UNCHANGED LP!lockVars
  <2>1. LP!TP!Inv
    BY DEF LP!Inv
  <2>2. LP!TP!Inv'
    BY <1>2, <2>1, LocksAssumed, LP!TP!InvNext DEF LP!TP!Next
  <2>3. LP!TP!WaitersKept
    BY <1>2, <2>1, LocksAssumed, LP!TP!CriticalSectionFrames
    DEF LP!TP!WaitersKept, LP!TP!Waiting, LP!TP!OthersStay
  <2> QED BY <1>2, <2>2, <2>3, LocksAssumed, LP!OutsideNext
<1> QED BY <1>1, <1>2, StepOfLock

-----------------------------------------------------------------------------
(* The inductive invariant. *)

ListTypes ==
  /\ list \in Seq(Pointer)
  /\ op \in [Thread -> {"none", "Append", "Remove", "Mapcar"}]
  /\ item \in [Thread -> Pointer]
  /\ seen \in [Thread -> Seq(Pointer)]
  /\ result \in Result
  /\ state \in {"alive", "deleted", "aborted"}

\* Between its routines a thread has nothing to do with the lock; in a routine it
\* either waits for the lock or holds it, and it does not finish there.
LockWithRoutine ==
  \A t \in Thread :
    /\ op[t] = "none" => lock \notin holds[t] /\ waitsOn[t] = NULL
    /\ op[t] # "none" => (lock \in holds[t] <=> waitsOn[t] = NULL)
    /\ at[t] = "finish" => op[t] = "none"

Walks(t) == op[t] = "Mapcar" /\ lock \in holds[t]

\* A Mapcar that holds the lock has been through a prefix of the list.
SeenIsPrefix ==
  \A t \in Thread :
    IF Walks(t)
    THEN /\ Len(seen[t]) <= Len(list)
         /\ \A i \in 1..Len(seen[t]) : seen[t][i] = list[i]
    ELSE seen[t] = <<>>

\* Nobody is in a routine of a deleted list.
RoutinesInUse == state = "deleted" => \A t \in Thread : op[t] = "none"

Inv ==
  /\ LP!Inv
  /\ ListTypes
  /\ LockWithRoutine
  /\ SeenIsPrefix
  /\ RoutinesInUse

\* Of the invariants of the lock and the thread system, what the list needs.
LEMMA LockFacts ==
  ASSUME LP!Inv
  PROVE  /\ currentThread \in Thread
         /\ NULL # lock
         /\ waitsOn \in [Thread -> {lock, NULL}]
         /\ holds \in [Thread -> SUBSET {lock}]
         /\ \A t, u \in Thread : lock \in holds[t] /\ lock \in holds[u] => t = u
BY SynchListAssumption
DEF L!LocksAssumption, LP!Inv, LP!LockTypes, LP!MutualExclusion, LP!TP!Inv,
    LP!TP!TypeOK

\* Nothing but Finish makes a thread finish.
LEMMA NobodyFinishes ==
  ASSUME LP!Inv,
         \/ L!Acquire(lock) \/ L!AcquireSleep(lock) \/ L!AcquireWoken(lock)
         \/ L!Release(lock) \/ L!T!CriticalSection
         \/ L!T!Yield \/ (\E t \in Thread : L!T!Fork(t))
         \/ L!T!Tick \/ L!T!SwitchAway \/ L!T!Halt
         \/ L!T!ThreadRoot \/ L!T!Resume \/ L!T!Terminated
  PROVE  \A t \in Thread : at'[t] = "finish" => at[t] = "finish"
<1>1. at \in [Thread -> LP!TP!Point] /\ currentThread \in Thread
  BY DEF LP!Inv, LP!TP!Inv, LP!TP!TypeOK
<1>2. \A l : L!T!SetLevel(l) =>
               \A t \in Thread : at'[t] = "finish" => at[t] = "finish"
  BY <1>1 DEF L!T!SetLevel
<1>3. CASE L!Acquire(lock) \/ L!AcquireWoken(lock) \/ L!Release(lock)
           \/ L!T!CriticalSection \/ (\E t \in Thread : L!T!Fork(t))
           \/ L!T!ThreadRoot
  BY <1>2, <1>3 DEF L!Acquire, L!AcquireWoken, L!Release, L!T!CriticalSection,
                    L!T!Proceed, L!T!Wake, L!T!Fork, L!T!ThreadRoot
<1>4. CASE L!AcquireSleep(lock)
  BY <1>1, <1>4 DEF L!AcquireSleep, L!T!Block
<1>5. CASE L!T!Yield \/ L!T!Tick
  BY <1>1, <1>2, <1>5 DEF L!T!Yield, L!T!Tick, L!T!YieldCPU
<1>6. CASE L!T!SwitchAway \/ L!T!Halt \/ L!T!Terminated
  BY <1>6 DEF L!T!SwitchAway, L!T!Halt, L!T!Terminated, L!T!vars
<1>7. CASE L!T!Resume
  BY <1>1, <1>2, <1>7 DEF L!T!Resume
<1> QED BY <1>3, <1>4, <1>5, <1>6, <1>7

LEMMA InvInit == Init => Inv
<1> SUFFICES ASSUME Init PROVE Inv
  OBVIOUS
<1>1. LP!Inv
  BY LockInit
<1>2. ListTypes /\ RoutinesInUse
  BY EmptySeq DEF Init, ListTypes, RoutinesInUse, Pointer, Result
<1>3. LockWithRoutine
  BY DEF Init, L!Init, L!T!Init, LockWithRoutine
<1>4. SeenIsPrefix
  BY DEF Init, SeenIsPrefix, Walks
<1> QED BY <1>1, <1>2, <1>3, <1>4 DEF Inv

-----------------------------------------------------------------------------
(* Each step keeps the invariant. *)

LEMMA EnterNext ==
  ASSUME Inv, LP!Inv',
         NEW o \in {"Append", "Remove", "Mapcar"}, NEW i \in Pointer,
         Enter(o, i)
  PROVE  Inv'
<1> DEFINE c == currentThread
<1>1. c \in Thread /\ op[c] = "none" /\ lock \notin holds[c] /\ waitsOn[c] = NULL
  BY LockFacts DEF Inv, LockWithRoutine, Enter
<1>2. /\ op' = [op EXCEPT ![c] = o] /\ item' = [item EXCEPT ![c] = i]
      /\ UNCHANGED <<list, seen, result, state>> /\ state = "alive"
  BY DEF Enter
<1>3. ListTypes' /\ RoutinesInUse'
  BY <1>1, <1>2 DEF Inv, ListTypes, RoutinesInUse
<1>4. \/ holds' = [holds EXCEPT ![c] = @ \cup {lock}] /\ waitsOn' = waitsOn
      \/ holds' = holds /\ waitsOn' = [waitsOn EXCEPT ![c] = lock]
  BY DEF Enter, L!Acquire, L!AcquireSleep, L!Take
<1>5. LockWithRoutine'
  <2>1. \A t \in Thread : at'[t] = "finish" => at[t] = "finish"
    BY NobodyFinishes DEF Inv, Enter
  <2>2. at[c] # "finish"
    BY DEF Enter, L!Acquire, L!AcquireSleep, L!T!CriticalSection, L!T!Block,
           L!T!RunningAt
  <2>3. ASSUME NEW t \in Thread, t # c
        PROVE  /\ op'[t] = op[t] /\ holds'[t] = holds[t]
               /\ waitsOn'[t] = waitsOn[t]
    BY <1>1, <1>2, <1>4, <2>3, LockFacts DEF Inv, ListTypes
  <2>4. op'[c] # "none"
    BY <1>1, <1>2 DEF Inv, ListTypes
  <2>5. \/ lock \in holds'[c] /\ waitsOn'[c] = NULL
        \/ lock \notin holds'[c] /\ waitsOn'[c] = lock
    BY <1>1, <1>4, LockFacts DEF Inv
  <2>6. NULL # lock
    BY LockFacts DEF Inv
  <2> QED BY <2>1, <2>2, <2>3, <2>4, <2>5, <2>6 DEF Inv, LockWithRoutine
<1>6. SeenIsPrefix'
  <2>1. seen[c] = <<>>
    BY <1>1 DEF Inv, SeenIsPrefix, Walks
  <2>2. \A t \in Thread : t # c => (Walks(t)' <=> Walks(t))
    BY <1>1, <1>2, <1>4, LockFacts DEF Inv, ListTypes, Walks
  <2>3. Len(list) \in Nat
    BY LenProperties DEF Inv, ListTypes
  <2> SUFFICES ASSUME NEW t \in Thread
               PROVE  IF Walks(t)'
                      THEN /\ Len(seen[t]) <= Len(list)
                           /\ \A k \in 1..Len(seen[t]) : seen[t][k] = list[k]
                      ELSE seen[t] = <<>>
    BY <1>2 DEF SeenIsPrefix
  <2>4. CASE t = c
    BY <2>1, <2>3, <2>4, EmptySeq
  <2>5. CASE t # c
    BY <2>2, <2>5 DEF Inv, SeenIsPrefix
  <2> QED BY <2>4, <2>5
<1> QED BY <1>3, <1>5, <1>6 DEF Inv

LEMMA ReenterNext ==
  ASSUME Inv, LP!Inv', Reenter
  PROVE  Inv'
<1> DEFINE c == currentThread
<1>1. c \in Thread /\ op[c] # "none" /\ lock \notin holds[c] /\ waitsOn[c] = lock
  BY LockFacts DEF Inv, LockWithRoutine, Reenter
<1>2. UNCHANGED <<list, op, item, seen, result, state>>
  BY DEF Reenter, listVars
<1>3. ListTypes' /\ RoutinesInUse'
  BY <1>2 DEF Inv, ListTypes, RoutinesInUse
<1>4. \/ /\ holds' = [holds EXCEPT ![c] = @ \cup {lock}]
         /\ waitsOn' = [waitsOn EXCEPT ![c] = NULL]
      \/ holds' = holds /\ waitsOn' = [waitsOn EXCEPT ![c] = lock]
  BY DEF Reenter, L!AcquireWoken, L!AcquireSleep, L!Take
<1>5. /\ \A t \in Thread : t # c => holds'[t] = holds[t] /\ waitsOn'[t] = waitsOn[t]
      /\ \/ lock \in holds'[c] /\ waitsOn'[c] = NULL
         \/ lock \notin holds'[c] /\ waitsOn'[c] = lock
  BY <1>1, <1>4, LockFacts DEF Inv
<1>6. LockWithRoutine'
  <2>1. \A t \in Thread : at'[t] = "finish" => at[t] = "finish"
    BY NobodyFinishes DEF Inv, Reenter
  <2>2. NULL # lock
    BY LockFacts DEF Inv
  <2> QED BY <1>1, <1>2, <1>5, <2>1, <2>2 DEF Inv, LockWithRoutine
<1>7. SeenIsPrefix'
  <2>1. seen[c] = <<>>
    BY <1>1 DEF Inv, SeenIsPrefix, Walks
  <2>2. Len(list) \in Nat
    BY LenProperties DEF Inv, ListTypes
  <2> SUFFICES ASSUME NEW t \in Thread
               PROVE  IF Walks(t)'
                      THEN /\ Len(seen[t]) <= Len(list)
                           /\ \A k \in 1..Len(seen[t]) : seen[t][k] = list[k]
                      ELSE seen[t] = <<>>
    BY <1>2 DEF SeenIsPrefix
  <2>3. CASE t = c
    BY <2>1, <2>2, <2>3, EmptySeq
  <2>4. CASE t # c
    BY <1>2, <1>5, <2>4 DEF Inv, SeenIsPrefix, Walks
  <2> QED BY <2>3, <2>4
<1> QED BY <1>3, <1>6, <1>7 DEF Inv

\* A routine ends with Release: the list may change, since nobody else walks it.
LEMMA ReturnNext ==
  ASSUME Inv, LP!Inv', NEW o \in {"Append", "Remove", "Mapcar"},
         NEW r \in Seq(Pointer), o = "Remove" => r \in Seq(Item),
         Inside(o), L!Release(lock), Return(r), list' \in Seq(Pointer)
  PROVE  Inv'
<1> DEFINE c == currentThread
<1>1. c \in Thread /\ op[c] = o /\ lock \in holds[c] /\ waitsOn[c] = NULL
  BY LockFacts DEF Inv, LockWithRoutine, Inside
<1>2. /\ op' = [op EXCEPT ![c] = "none"] /\ item' = [item EXCEPT ![c] = NULL]
      /\ seen' = [seen EXCEPT ![c] = <<>>] /\ state' = state
      /\ result' = [of |-> o, items |-> r]
  BY <1>1 DEF Return
<1>3. state # "deleted"
  BY <1>1 DEF Inv, RoutinesInUse
<1>4. ListTypes' /\ RoutinesInUse'
  <2>1. result' \in Result
    BY <1>2 DEF Result
  <2>2. NULL \in Pointer /\ <<>> \in Seq(Pointer)
    BY EmptySeq DEF Pointer
  <2> QED BY <1>1, <1>2, <1>3, <2>1, <2>2 DEF Inv, ListTypes, RoutinesInUse
<1>5. holds' = [holds EXCEPT ![c] = @ \ {lock}] /\ waitsOn' = waitsOn
  BY DEF L!Release
<1>6. /\ lock \notin holds'[c] /\ waitsOn'[c] = NULL
      /\ \A t \in Thread : t # c =>
           /\ op'[t] = op[t] /\ seen'[t] = seen[t] /\ holds'[t] = holds[t]
           /\ waitsOn'[t] = waitsOn[t]
      /\ op'[c] = "none" /\ seen'[c] = <<>>
  BY <1>1, <1>2, <1>5, LockFacts DEF Inv, ListTypes
<1>7. LockWithRoutine'
  <2>1. \A t \in Thread : at'[t] = "finish" => at[t] = "finish"
    BY NobodyFinishes DEF Inv
  <2> QED BY <1>6, <2>1 DEF Inv, LockWithRoutine
<1>8. SeenIsPrefix'
  <2>1. \A t \in Thread : t # c => ~Walks(t)
    BY <1>1, LockFacts DEF Inv, Walks
  <2> QED BY <1>6, <2>1 DEF Inv, SeenIsPrefix, Walks
<1> QED BY <1>4, <1>7, <1>8 DEF Inv

LEMMA MapcarItemNext ==
  ASSUME Inv, LP!Inv', MapcarItem
  PROVE  Inv'
<1> DEFINE c == currentThread
           n == Len(seen[c])
<1>1. c \in Thread /\ Walks(c)
  BY LockFacts DEF Inv, MapcarItem, Inside, Walks
<1>2. UNCHANGED <<holds, waitsOn, list, op, item, result, state>>
  BY DEF MapcarItem, lockVars
<1>3. n \in Nat /\ Len(list) \in Nat /\ n < Len(list)
  BY <1>1, LenProperties DEF Inv, ListTypes, MapcarItem
<1>4. seen[c] \in Seq(Pointer) /\ list[n + 1] \in Pointer
  BY <1>1, <1>3, ElementOfSeq DEF Inv, ListTypes
<1>5. /\ \A t \in Thread : t # c => seen'[t] = seen[t]
      /\ seen'[c] = Append(seen[c], list[n + 1])
  BY <1>1 DEF MapcarItem, Inv, ListTypes
<1>6. ListTypes' /\ RoutinesInUse'
  <2>1. Append(seen[c], list[n + 1]) \in Seq(Pointer)
    BY <1>4, AppendProperties
  <2> HIDE DEF n
  <2>2. seen' \in [Thread -> Seq(Pointer)]
    BY <1>1, <2>1 DEF Inv, ListTypes, MapcarItem, n
  <2> QED BY <1>2, <2>2 DEF Inv, ListTypes, RoutinesInUse
<1>7. LockWithRoutine'
  <2>1. \A t \in Thread : at'[t] = "finish" => at[t] = "finish"
    BY NobodyFinishes DEF Inv, MapcarItem
  <2> QED BY <1>2, <2>1 DEF Inv, LockWithRoutine
<1>8. SeenIsPrefix'
  <2> SUFFICES ASSUME NEW t \in Thread
               PROVE  IF Walks(t)
                      THEN /\ Len(seen'[t]) <= Len(list)
                           /\ \A k \in 1..Len(seen'[t]) : seen'[t][k] = list[k]
                      ELSE seen'[t] = <<>>
    BY <1>2 DEF SeenIsPrefix, Walks
  <2>1. CASE t = c
    <3>1. \A k \in 1..n : seen[c][k] = list[k]
      BY <1>1 DEF Inv, SeenIsPrefix
    <3>2. /\ Len(seen'[c]) = n + 1
          /\ \A k \in 1..n : seen'[c][k] = seen[c][k]
          /\ seen'[c][n + 1] = list[n + 1]
      BY <1>4, <1>5, AppendProperties
    <3> HIDE DEF n
    <3> QED BY <1>1, <1>3, <2>1, <3>1, <3>2
  <2>2. CASE t # c
    BY <1>5, <2>2 DEF Inv, SeenIsPrefix
  <2> QED BY <2>1, <2>2
<1> QED BY <1>6, <1>7, <1>8 DEF Inv

\* A Remove on an empty list ends the process.
LEMMA WaitNext ==
  ASSUME Inv, LP!Inv', Wait
  PROVE  Inv'
BY DEF Wait, threadVars, lockVars, Inv, ListTypes, LockWithRoutine, SeenIsPrefix,
       Walks, RoutinesInUse

\* So does a Remove that meets a null item; it holds the lock, so that nobody walks.
LEMMA AssertFailsNext ==
  ASSUME Inv, LP!Inv', AssertFails
  PROVE  Inv'
<1>1. /\ UNCHANGED <<at, waitsOn, holds, op, item, seen, result>>
      /\ list' = Tail(list) /\ state' = "aborted"
  BY DEF AssertFails, threadVars, lockVars
<1>2. Tail(list) \in Seq(Pointer)
  BY HeadTailProperties DEF Inv, ListTypes, AssertFails
<1>3. ListTypes' /\ LockWithRoutine' /\ RoutinesInUse'
  BY <1>1, <1>2 DEF Inv, ListTypes, LockWithRoutine, RoutinesInUse
<1>4. SeenIsPrefix'
  <2>1. \A t \in Thread : ~Walks(t)
    BY LockFacts DEF Inv, Walks, AssertFails, Inside
  <2> QED BY <1>1, <2>1 DEF Inv, SeenIsPrefix, Walks
<1> QED BY <1>3, <1>4 DEF Inv

LEMMA DeleteNext ==
  ASSUME Inv, LP!Inv', Delete
  PROVE  Inv'
<1>1. /\ UNCHANGED <<at, waitsOn, holds, op, item, seen, result>>
      /\ list' = <<>> /\ state' \in {"deleted", "aborted"}
      /\ \A t \in Thread : op[t] = "none"
  BY DEF Delete, DeleteLock, threadVars, lockVars
<1>2. ListTypes' /\ LockWithRoutine' /\ RoutinesInUse'
  BY <1>1, EmptySeq DEF Inv, ListTypes, LockWithRoutine, RoutinesInUse
<1>3. SeenIsPrefix'
  BY <1>1 DEF Inv, SeenIsPrefix, Walks
<1> QED BY <1>2, <1>3 DEF Inv

\* What the thread system does by itself.
LEMMA OutsideNext ==
  ASSUME Inv, LP!Inv', Elsewhere \/ System
  PROVE  Inv'
<1>1. UNCHANGED <<waitsOn, holds, list, op, item, seen, result, state>>
  BY DEF Elsewhere, System, lockVars, listVars
<1>2. ListTypes' /\ SeenIsPrefix' /\ RoutinesInUse'
  BY <1>1 DEF Inv, ListTypes, SeenIsPrefix, Walks, RoutinesInUse
<1>3. \A t \in Thread : at'[t] = "finish" => at[t] = "finish" \/ op[t] = "none"
  <2>1. CASE L!T!Finish /\ op[currentThread] = "none"
    BY <2>1 DEF L!T!Finish, Inv, LP!Inv, LP!TP!Inv, LP!TP!TypeOK
  <2> QED BY <2>1, NobodyFinishes DEF Inv, Elsewhere, System
<1>4. LockWithRoutine'
  BY <1>1, <1>3 DEF Inv, LockWithRoutine
<1> QED BY <1>2, <1>4 DEF Inv

LEMMA InvNext == Inv /\ [Next]_vars => Inv'
<1> SUFFICES ASSUME Inv, [Next]_vars PROVE Inv'
  OBVIOUS
<1>1. LP!Inv'
  BY LockNext DEF Inv
<1>2. ASSUME NEW i \in Pointer, Enter("Append", i) PROVE Inv'
  BY <1>1, <1>2, EnterNext
<1>3. CASE Enter("Remove", NULL) \/ Enter("Mapcar", NULL)
  BY <1>1, <1>3, EnterNext DEF Pointer
<1>4. CASE AppendItem
  <2>1. /\ currentThread \in Thread
        /\ item[currentThread] \in Pointer /\ list \in Seq(Pointer)
        /\ <<>> \in Seq(Pointer)
    BY <1>4, LockFacts, EmptySeq DEF AppendItem, Inside, Inv, ListTypes
  <2>2. list' \in Seq(Pointer)
    BY <1>4, <2>1, AppendProperties DEF AppendItem
  <2> QED BY <1>1, <1>4, <2>1, <2>2, ReturnNext DEF AppendItem
<1>5. CASE Remove
  <2>1. list \in Seq(Pointer) /\ list # <<>> /\ Head(list) # NULL
    BY <1>5 DEF Inv, ListTypes, Remove
  <2>2. Tail(list) \in Seq(Pointer) /\ Head(list) \in Pointer
    BY <2>1, HeadTailProperties
  <2>3. Head(list) \in Item
    BY <2>1, <2>2 DEF Pointer
  <2>4. <<Head(list)>> \in Seq(Item) /\ <<Head(list)>> \in Seq(Pointer)
    BY <2>2, <2>3
  <2> QED BY <1>1, <1>5, <2>2, <2>4, ReturnNext DEF Remove
<1>6. CASE MapcarEnd
  <2>1. seen[currentThread] \in Seq(Pointer) /\ list' \in Seq(Pointer)
    BY <1>6, LockFacts DEF MapcarEnd, Inv, ListTypes
  <2> QED BY <1>1, <1>6, <2>1, ReturnNext DEF MapcarEnd
<1>7. CASE UNCHANGED vars
  BY <1>1, <1>7
  DEF vars, threadVars, lockVars, listVars, Inv, ListTypes, LockWithRoutine,
      SeenIsPrefix, Walks, RoutinesInUse
<1> QED
  BY <1>1, <1>2, <1>3, <1>4, <1>5, <1>6, <1>7, ReenterNext, WaitNext,
     AssertFailsNext, MapcarItemNext, DeleteNext, OutsideNext DEF Next, Step, Aborted

\* A thread in a routine holds the lock or waits for it and does not finish there,
\* and a Mapcar has been through a prefix of the list as it now is.
THEOREM InvCorrect == Spec => []Inv
BY InvInit, InvNext, PTL DEF Spec

-----------------------------------------------------------------------------
(* The theorems. *)

\* Every variable, those of the lock and the thread system included, keeps its
\* type; Remove in particular never hands out the null pointer that Append accepts.
THEOREM TypeCorrect == Spec => []TypeOK
<1>1. Inv => TypeOK
  BY DEF Inv, ListTypes, TypeOK, LP!Inv, LP!LockTypes, L!TypeOK, LP!TP!Inv,
         LP!TP!TypeOK, LP!TP!Status, LP!TP!Level, LP!TP!Point,
         L!T!TypeOK, L!T!Status, L!T!Level, L!T!Point
<1> QED BY <1>1, InvCorrect, PTL

\* Nobody changes the list while a Mapcar walks it, even if the procedure that it
\* applies yields.
THEOREM MapcarUndisturbedCorrect == Spec => MapcarUndisturbed
<1>1. Inv /\ [Next]_vars =>
        [\A t \in Thread : op[t] = "Mapcar" /\ lock \in holds[t] => list' = list]_vars
  <2> SUFFICES ASSUME Inv, [Next]_vars,
                      NEW t \in Thread, op[t] = "Mapcar", lock \in holds[t]
               PROVE  list' = list
    OBVIOUS
  <2>1. ASSUME NEW o \in {"Append", "Remove"}, Inside(o)
        PROVE  FALSE
    BY <2>1, LockFacts DEF Inside, Inv
  <2>2. CASE AppendItem \/ Remove \/ AssertFails
    BY <2>1, <2>2 DEF AppendItem, Remove, AssertFails
  <2>3. CASE Delete
    BY <2>3 DEF Delete
  <2>4. CASE \/ \E i \in Pointer : Enter("Append", i)
             \/ Enter("Remove", NULL) \/ Enter("Mapcar", NULL) \/ Reenter
             \/ Wait \/ MapcarItem \/ MapcarEnd \/ Elsewhere \/ System
             \/ Aborted \/ UNCHANGED vars
    BY <2>4 DEF Enter, Reenter, Wait, MapcarItem, MapcarEnd, Elsewhere, System,
                Aborted, vars, listVars
  <2> QED BY <2>2, <2>3, <2>4 DEF Next, Step
<1> QED BY <1>1, InvCorrect, PTL DEF Spec, MapcarUndisturbed

\* The machine never halts with a thread in a routine of the list.
THEOREM NobodyStuckCorrect == Spec => []NobodyStuck
<1>1. Inv => NobodyStuck
  <2> SUFFICES ASSUME Inv, machine = "Halted", NEW t \in Thread, op[t] # "none"
               PROVE  FALSE
    BY DEF NobodyStuck
  <2>0. NULL # lock
    BY LockFacts DEF Inv
  <2>1. LP!TP!Inv /\ LP!Inv
    BY DEF Inv, LP!Inv
  <2>2. \A u \in Thread : status[u] \notin {"READY", "RUNNING"}
    BY <2>1 DEF LP!TP!Inv, LP!TP!HaltedIsQuiet
  \* A holder neither waits nor has finished, so that it could run.
  <2>3. \A u \in Thread : lock \in holds[u] => waitsOn[u] = NULL /\ at[u] # "finish"
    BY DEF Inv, LockWithRoutine
  <2>4. \A u \in Thread : lock \notin holds[u]
    <3> SUFFICES ASSUME NEW u \in Thread, lock \in holds[u] PROVE FALSE
      OBVIOUS
    <3>1. at[u] # "root"
      BY <2>1 DEF LP!Inv, LP!FreshHoldsNothing
    <3>2. at[u] \notin {"sleep", "awake", "finish"} /\ at[u] \in LP!TP!Point
      BY <2>1, <2>3 DEF LP!Inv, LP!WaitersAsleep, LP!TP!Inv, LP!TP!TypeOK
    <3> QED BY <2>1, <2>2, <3>1, <3>2 DEF LP!TP!Inv, LP!TP!Placed, LP!TP!Point
  <2>5. waitsOn[t] = lock
    BY <2>4, LockFacts DEF Inv, LockWithRoutine
  \* So no lock is held, and the waiter would have been woken.
  <2>6. waitsOn[t] # NULL
    BY <2>0, <2>5
  <2>7. LP!HaltMeansDeadlock
    BY <2>1, LocksAssumed, LP!HaltOnDeadlock
  <2> QED BY <2>4, <2>5, <2>6, <2>7 DEF LP!HaltMeansDeadlock
<1> QED BY <1>1, InvCorrect, PTL

-----------------------------------------------------------------------------
(* The list implements AbstractSynchList, as far as safety goes. *)

\* A Mapcar that has come to the end has seen the list.
LEMMA MapcarSeesAll ==
  ASSUME Inv, MapcarEnd
  PROVE  seen[currentThread] = list
<1> DEFINE s == seen[currentThread]
<1>1. currentThread \in Thread /\ Walks(currentThread) /\ Len(s) = Len(list)
  BY LockFacts DEF Inv, MapcarEnd, Inside, Walks
<1>2. s \in Seq(Pointer) /\ list \in Seq(Pointer)
  BY <1>1 DEF Inv, ListTypes
<1>3. \A i \in 1..Len(s) : s[i] = list[i]
  BY <1>1 DEF Inv, SeenIsPrefix
<1> HIDE DEF s
<1>4. s = list
  BY <1>1, <1>2, <1>3, SeqEqual
<1> QED BY <1>4 DEF s

LEMMA AbstractStep == Inv /\ [Next]_vars => [Abs!Next]_(Abs!absVars)
<1> SUFFICES ASSUME Inv, [Next]_vars PROVE [Abs!Next]_(Abs!absVars)
  OBVIOUS
<1>0. PICK c \in Thread : c = currentThread
  BY LockFacts DEF Inv
<1>1. ASSUME NEW o, NEW i, Enter(o, i) PROVE Abs!Call(c, o, i)
  BY <1>0, <1>1 DEF Enter, Abs!Call
<1>2. ASSUME NEW o \in {"Append", "Remove", "Mapcar"}, NEW r,
             state # "aborted", Inside(o), Return(r)
      PROVE  Abs!Return(c, o, list', r)
  <2>1. state = "alive"
    BY <1>0, <1>2 DEF Inv, ListTypes, RoutinesInUse, Inside
  <2> QED BY <1>0, <1>2, <2>1 DEF Inside, Return, Abs!Return
<1>3. ASSUME NEW i \in Pointer, Enter("Append", i) PROVE Abs!Next
  BY <1>1, <1>3 DEF Abs!Next, Pointer
<1>4. CASE Enter("Remove", NULL) \/ Enter("Mapcar", NULL)
  BY <1>1, <1>4 DEF Abs!Next
<1>5. CASE state # "aborted" /\ AppendItem
  <2>1. Abs!Return(c, "Append", Append(list, item[c]), <<>>)
    BY <1>0, <1>2, <1>5 DEF AppendItem
  <2> QED BY <2>1 DEF Abs!Next, Abs!Complete
<1>6. CASE state # "aborted" /\ Remove
  <2>1. /\ list # <<>> /\ Head(list) # NULL
        /\ Abs!Return(c, "Remove", Tail(list), <<Head(list)>>)
    BY <1>2, <1>6 DEF Remove
  <2> QED BY <2>1 DEF Abs!Next, Abs!Complete
<1>7. CASE state # "aborted" /\ MapcarEnd
  <2>1. Abs!Return(c, "Mapcar", list, list)
    BY <1>2, <1>7, MapcarSeesAll DEF MapcarEnd
  <2> QED BY <2>1 DEF Abs!Next, Abs!Complete
<1>8. CASE state # "aborted" /\ (Wait \/ AssertFails)
  <2>1. Abs!RemoveAborts(c)
    <3>1. state = "alive"
      BY <1>0, <1>8 DEF Inv, ListTypes, RoutinesInUse, Wait, AssertFails,
                           Inside
    <3> QED BY <1>0, <1>8, <3>1 DEF Wait, AssertFails, Inside, Abs!RemoveAborts
  <2> QED BY <2>1 DEF Abs!Next
<1>9. CASE Delete
  BY <1>9 DEF Delete, DeleteLock, Abs!Delete, Abs!Next
<1>10. CASE \/ Reenter \/ MapcarItem \/ Elsewhere \/ System
            \/ Aborted \/ UNCHANGED vars
  BY <1>10 DEF Reenter, MapcarItem, Elsewhere, System, Aborted, vars, listVars,
               Abs!absVars
<1> QED
  BY <1>3, <1>4, <1>5, <1>6, <1>7, <1>8, <1>9, <1>10 DEF Next, Step

\* The list implements AbstractSynchList: a call, the Release that ends a routine,
\* the failing ASSERTs of Remove and Wait and the destructor are its steps, and what a
\* routine does in between, preemption included, goes unnoticed.
THEOREM SynchListRefines == Spec => Abs!Init /\ [][Abs!Next]_(Abs!absVars)
<1>1. Init => Abs!Init
  BY DEF Init, Abs!Init
<1> QED BY <1>1, AbstractStep, InvCorrect, PTL DEF Spec
=============================================================================
