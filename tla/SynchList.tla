------------------------------ MODULE SynchList ------------------------------
(***************************************************************************)
(* SynchList of synchlist.cc: a List behind a Lock, with the Condition     *)
(* stubs of synch.cc, on the thread system.  Interrupts are delivered when *)
(* Acquire and Release return and nowhere between, so what a routine does  *)
(* to the list and its Release are one action; but the procedure that      *)
(* Mapcar applies may let other threads run after each item.               *)
(*                                                                         *)
(* The List is the sequence of AbstractList, which LinkedList implements.  *)
(***************************************************************************)
EXTENDS Naturals, Sequences, FiniteSets

CONSTANTS
  Thread, Main, NULL, MaxTimer, MaxDevices,   \* see Threads
  lock,         \* SynchList::lock
  Item,         \* pointers to items, other than the null pointer
  MaxItems      \* bound on the items on the list and on their way to it

VARIABLES
  currentThread, status, readyList, threadToBeDestroyed, level, oldLevel, at,
  timer, devices, machine, wanted,            \* see Threads
  held, queue, waitsOn, holds,                \* see Locks
  list,         \* SynchList::list
  op,           \* the routine of SynchList each thread is in, or "none"
  item,         \* its argument in Append
  seen,         \* the items its Mapcar has been applied to so far
  result,       \* history: the last routine to return and what it handed out
  state         \* the list in use, deleted, or the process aborted

L == INSTANCE Locks WITH Lock <- {lock}

ASSUME SynchListAssumption ==
  L!LocksAssumption /\ NULL \notin Item /\ MaxItems \in Nat

threadVars == <<currentThread, status, readyList, threadToBeDestroyed, level,
                oldLevel, at, timer, devices, machine, wanted>>
lockVars == <<held, queue, waitsOn, holds>>
listVars == <<list, op, item, seen, result, state>>
vars == <<threadVars, lockVars, listVars>>

\* What Append accepts: "it can be a pointer to anything".
Pointer == Item \cup {NULL}

\* What the last routine to return handed out: Remove never the null pointer.
Result == [of : {"none", "Append", "Mapcar"}, items : Seq(Pointer)]
          \cup [of : {"Remove"}, items : Seq(Item)]

TypeOK ==
  /\ L!TypeOK
  /\ list \in Seq(Pointer)
  /\ op \in [Thread -> {"none", "Append", "Remove", "Mapcar"}]
  /\ item \in [Thread -> Pointer]
  /\ seen \in [Thread -> Seq(Pointer)]
  /\ result \in Result
  /\ state \in {"alive", "deleted", "aborted"}

Init ==
  /\ L!Init
  /\ list = <<>>
  /\ op = [t \in Thread |-> "none"]
  /\ item = [t \in Thread |-> NULL]
  /\ seen = [t \in Thread |-> <<>>]
  /\ result = [of |-> "none", items |-> <<>>]
  /\ state = "alive"

-----------------------------------------------------------------------------
(* The routines. *)

\* The current thread executes in routine o, with the lock.
Inside(o) == op[currentThread] = o /\ lock \in holds[currentThread]

\* The routine returns the items r to its caller.
Return(r) ==
  /\ op' = [op EXCEPT ![currentThread] = "none"]
  /\ item' = [item EXCEPT ![currentThread] = NULL]
  /\ seen' = [seen EXCEPT ![currentThread] = <<>>]
  /\ result' = [of |-> op[currentThread], items |-> r]
  /\ UNCHANGED state

Appenders == {t \in Thread : op[t] = "Append"}

\* The call of routine o up to the end of its Acquire or the Sleep in it.
Enter(o, i) ==
  /\ state = "alive" /\ op[currentThread] = "none"
  /\ L!Acquire(lock) \/ L!AcquireSleep(lock)
  /\ op' = [op EXCEPT ![currentThread] = o]
  /\ item' = [item EXCEPT ![currentThread] = i]
  /\ UNCHANGED <<list, seen, result, state>>

\* Acquire goes on after its Sleep has returned.
Reenter ==
  /\ waitsOn[currentThread] = lock
  /\ L!AcquireWoken(lock) \/ L!AcquireSleep(lock)
  /\ UNCHANGED listVars

\* Mutant of AppendItem: the item is put in front.
AppendItemInFront ==
  /\ Inside("Append")
  /\ list' = <<item[currentThread]>> \o list
  /\ L!Release(lock) /\ Return(<<>>)

\* Append; Signal is a stub.
AppendItem ==
  /\ Inside("Append")
  /\ list' = Append(list, item[currentThread])
  /\ L!Release(lock) /\ Return(<<>>)

\* Mutant of Remove: the list is not locked.
RemoveUnlocked ==
  /\ state = "alive" /\ op[currentThread] = "none" /\ list # <<>>
  /\ list' = Tail(list)
  /\ L!T!CriticalSection /\ Return(<<Head(list)>>)
  /\ UNCHANGED lockVars

\* Mutant of Remove: without its ASSERT.
RemoveUnasserted ==
  /\ Inside("Remove") /\ list # <<>>
  /\ list' = Tail(list)
  /\ L!Release(lock) /\ Return(<<Head(list)>>)

Remove ==
  /\ Inside("Remove") /\ list # <<>> /\ Head(list) # NULL
  /\ list' = Tail(list)
  /\ L!Release(lock) /\ Return(<<Head(list)>>)

\* The ASSERT of Remove fails on a null item, which Append did not refuse: the item
\* is off the list and the lock is still held.
AssertFails ==
  /\ L!T!RunningAt({"user"})
  /\ Inside("Remove") /\ list # <<>> /\ Head(list) = NULL
  /\ list' = Tail(list)
  /\ state' = "aborted"
  /\ UNCHANGED <<threadVars, lockVars, op, item, seen, result>>

\* On an empty list Remove calls Wait, a stub whose ASSERT fails.
Wait ==
  /\ L!T!RunningAt({"user"})
  /\ Inside("Remove") /\ list = <<>>
  /\ state' = "aborted"
  /\ UNCHANGED <<threadVars, lockVars, list, op, item, seen, result>>

\* Mapcar applies its procedure to the next item; the procedure may yield.
MapcarItem ==
  /\ Inside("Mapcar") /\ Len(seen[currentThread]) < Len(list)
  /\ seen' = [seen EXCEPT ![currentThread] = Append(@, list[Len(@) + 1])]
  /\ L!T!CriticalSection \/ L!T!Yield
  /\ UNCHANGED <<lockVars, list, op, item, result, state>>

\* Mutant of MapcarEnd: the lock is not released.
MapcarEndLocked ==
  /\ L!T!RunningAt({"user"})
  /\ Inside("Mapcar") /\ Len(seen[currentThread]) = Len(list)
  /\ Return(seen[currentThread])
  /\ UNCHANGED <<threadVars, lockVars, list>>

MapcarEnd ==
  /\ Inside("Mapcar") /\ Len(seen[currentThread]) = Len(list)
  /\ L!Release(lock) /\ Return(seen[currentThread])
  /\ UNCHANGED list

\* ~Lock deletes the lock's name, here a string literal: undefined, so that the
\* process may go on or not.
DeleteLock == state' \in {"deleted", "aborted"}

\* ~SynchList, which its caller invokes when nobody uses the list.
Delete ==
  /\ L!T!RunningAt({"user"})
  /\ state = "alive" /\ \A t \in Thread : op[t] = "none"
  /\ list' = <<>>
  /\ DeleteLock
  /\ UNCHANGED <<threadVars, lockVars, op, item, seen, result>>

\* What threads do outside the list.
Elsewhere ==
  /\ op[currentThread] = "none"
  /\ L!T!Yield \/ L!T!Finish \/ \E t \in Thread : L!T!Fork(t)
  /\ UNCHANGED <<lockVars, listVars>>

\* Preemption, dispatching and the halt.
System ==
  /\ \/ L!T!Tick \/ L!T!SwitchAway \/ L!T!Halt
     \/ L!T!ThreadRoot \/ L!T!Resume \/ L!T!Terminated
  /\ UNCHANGED <<lockVars, listVars>>

Step ==
  \/ /\ Len(list) + Cardinality(Appenders) < MaxItems
     /\ \E i \in Pointer : Enter("Append", i)
  \/ Enter("Remove", NULL) \/ Enter("Mapcar", NULL) \/ Reenter
  \/ AppendItem \/ Remove \/ AssertFails \/ Wait \/ MapcarItem \/ MapcarEnd
  \/ Delete
  \/ Elsewhere \/ System

Aborted == state = "aborted" /\ UNCHANGED vars

Next == (state # "aborted" /\ Step) \/ Aborted

Spec == Init /\ [][Next]_vars

\* The timer goes off under thread t and draws v as its next interval.
Draw(t, v) ==
  /\ currentThread = t /\ timer = 1
  /\ L!T!Tick /\ UNCHANGED <<lockVars, listVars>>
  /\ timer' = v

\* The processor goes on, and every interval that the timer can draw is drawn
\* again and again under each thread under which it keeps going off.
FairSpec ==
  /\ Spec /\ WF_vars(Next)
  /\ \A t \in Thread, v \in 1..MaxTimer : SF_vars(Draw(t, v))

-----------------------------------------------------------------------------
(* Properties. *)

\* "One thread at a time can access list data structures": while a thread walks
\* the list in Mapcar nobody changes it, however often the procedure that it
\* applies gives up the CPU.
MapcarUndisturbed ==
  [][\A t \in Thread : op[t] = "Mapcar" /\ lock \in holds[t] => list' = list]_vars

\* When the machine halts, no thread is stuck in a routine of the list: every
\* path through them releases the lock and wakes who waits for it.
NobodyStuck == machine = "Halted" => \A t \in Thread : op[t] = "none"

\* The list is a queue on which each routine acts at once, Mapcar on all items it
\* then has; and some routine gets on while any thread is in one.
Abs == INSTANCE AbstractSynchList
Implements == Abs!Spec

\* "Threads trying to remove an item from a list will wait until the list has an
\* element on it" (synchlist.h:20-21): on an empty list Remove does not end the
\* process.
RemoveWaits ==
  [][\A t \in Thread : op[t] = "Remove" /\ list = <<>> => state' # "aborted"]_vars
=============================================================================
