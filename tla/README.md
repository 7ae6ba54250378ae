# A TLA+ development of the Nachos thread system

This directory specifies the `threads` directory of Nachos: threads and their
scheduler, the context switch beneath them, semaphores and locks, the lists they
are built on, the synchronized list on top of both, the test program, and the
process around it all from its command line to its exit. Source paths below are relative to `src/`.

## 1. Inventory

| Part | Source | State | Operations |
|---|---|---|---|
| Threads | `thread.cc`, `thread.h` | `status`, `stack`, `machineState` of each Thread | constructor, destructor, Fork, Yield, Sleep, Finish, CheckOverflow |
| Scheduler | `scheduler.cc` | `readyList`; the globals `currentThread`, `threadToBeDestroyed` | ReadyToRun, FindNextToRun, Run |
| Interrupts, timer | `interrupt.o`, `timer.o` (objects only) | interrupt level, pending interrupts, clock, `yieldOnReturn`, machine status | SetLevel, OneTick, Schedule, YieldOnReturn, Idle, Halt |
| Semaphores | `synch.cc` 36-98 | `value`, `queue` | P, V |
| Locks | `synch.cc` 103-139 | `held`, `queue` | Acquire, Release |
| Conditions | `synch.cc` 141-147 | none (stubs) | Wait aborts; Signal and Broadcast do nothing |
| List | `list.cc` | `first`, `last`, the ListElements | Append, Prepend, Remove, SortedInsert, SortedRemove, Mapcar, IsEmpty, destructor |
| SynchList | `synchlist.cc` | a List, a Lock, a Condition | Append, Remove, Mapcar |
| Context switch | `switch.s`, `switch.h`, `thread.cc` 259-291 | registers, `machineState`, stack words | SWITCH, ThreadRoot, StackAllocate |
| Boot, command line | `system.cc`, `main.cc` | the globals, `testnum`, debug flags | Initialize, Cleanup, main |
| Tests | `threadtest.cc` | `testnum`, the test lock | ThreadTest1, LockTest1 |
| Debug output | `utility.cc` | `enableFlags` | DebugInit, DebugIsEnabled, DEBUG, ASSERT |

How they interact. There is one processor and one thread holds it. A thread
loses it in `Scheduler::Run` only, called by `Yield` (it goes to the end of the
ready list) or by `Sleep` (someone who holds a reference to it, a semaphore, a
lock, must call `ReadyToRun`). Interrupts are simulated: they are delivered when
a `SetLevel` call turns interrupts on, which advances the clock by one tick, and
when the machine idles in `Sleep` because nobody is ready. A handler runs on the
stack of the current thread with interrupts off; it may call `V`, and the timer's
handler asks for a `Yield` that is made when the handlers are done. If the
machine idles and nothing but the timer is pending, the process exits. Semaphores,
locks and the ready list keep their threads on `List`s.

What is hard here: preemption at every re-enabling of interrupts, wakeups that
race with threads that did not wait (the semaphore is Mesa style), interrupt
levels that each thread saves and puts back across switches, a finished thread
that must be freed by another one, a first dispatch that enters a procedure from
nothing but saved registers, a procedure that gives up the CPU inside a locked
walk, and a ctrl-C that runs Cleanup at any point. `PROJECT.json` lists the hazards at
their lines.

What makes each part correct: the ready list holds each ready thread once and in
order of arrival; interrupts are off in the scheduler; a carcass is freed once
and only when its thread is off its stack; each thread finds the interrupt level
it left; P and V lose no wakeup; a lock has one holder; a list is one chain with
the right end, in order; a synchronized list is a queue on which every routine
acts at once; a thread finds its registers and its stack again after `SWITCH`; and
the options on the command line have the effect their position gives them.

## 2. Modules

    AbstractSemaphores   AbstractLocks   AbstractSynchList   AbstractList
           ^                  ^                  ^               ^  (implements)
       Semaphores           Locks <-------- SynchList        LinkedList
              \             / ^ (INSTANCE)                       ^
               v           v  +-- ThreadTest                MCLinkedList
                  Threads

    Switch (SWITCH, stacks, registers)      Boot (command line, globals, exit)

Each module `M` among Threads, Semaphores, Locks, SynchList, LinkedList, Switch, Boot
and ThreadTest has its theorems in `MProofs`, which extends it. `SemaphoresProofs` and
`LocksProofs` use those of `ThreadsProofs`, the lemmas about a queue and the set of
threads it lists among them, and `SynchListProofs` and `ThreadTestProofs` those of
`LocksProofs`, through an INSTANCE.

**Threads** is the core. Since only the current thread executes and interrupts
come at known places, the code between two such places is one action, and an
action ends where `SWITCH` leaves the thread.

- `currentThread`, `status`, `readyList`, `threadToBeDestroyed` are the variables
  of the code; status `DELETED` marks a freed Thread. `level` is the machine's
  interrupt level and `oldLevel[t]` the local variable of that name in the frame
  of `t`. `at[t]` is the frame `t` is in: its own procedure (`user`), the end of
  `SetLevel(IntOn)` where interrupts are delivered (`tick`), suspended in `Yield`
  or `Sleep`, back from `Sleep` in the routine that called it (`awake`), in the
  `Sleep` of `Finish`, or not dispatched yet (`root`). `wanted[t]` is a history
  variable: the level `t` itself asked for last.
- `Fork`, `Yield`, `Finish` are the operations of Thread. `Block` is the call of
  `Sleep` by a synchronization routine, `SwitchAway`, `Idle`, `IdleReturn`, `Halt`
  its loop and the first half of `Run`. `Resume` is the second half of `Run`: it
  frees the carcass and returns into `Yield` or `Sleep`. `ThreadRoot` is the first
  dispatch of a thread, which does *not* execute that second half. `Tick` ends the
  delivery of interrupts at a tick and makes the `Yield` that
  `TimerInterruptHandler` asked for. `Wake`, `Proceed`, `CriticalSection` are what
  the routines of `synch.cc` do to the thread system apart from sleeping.
- External (modelled from the way this code uses them, since only their objects
  are here): `SetLevel`, `TimeOfNextInterrupt`, `Schedule`, `DeviceInterrupt`,
  `Idle`, `Halt`. The clock is abstracted to `timer`, the ticks left to the next
  timer interrupt; `timer = 0` is a machine started without `-rs`. A `Yield` that
  preempts is made in the frame of the interrupted thread and its return is again
  a tick; such frames nest in the code and only return, so one frame is kept.

**Semaphores** and **Locks** add `value`/`held`, `queue` and `waitsOn` (whose P or
Acquire the thread sleeps in) and compose each of their actions from one action
of Threads (`T!Wake`, `T!Block`, ...) and what it does to the semaphore or lock.
So a V that wakes, a P that finds the value 0 after waking, or a V made by a
device handler in the idle loop are each one action. Callers have interrupts on;
that levels survive in general is shown in Threads.

**SynchList** composes Locks, and Threads under it, with the list. A routine is
`Enter` (up to the end of its `Acquire`, or the sleep in it), `Reenter` (awake
again in `Acquire`) and one action for its body and `Release`: interrupts come when
`Acquire` and `Release` return and nowhere between. `Mapcar` is the exception: it
takes a step per item, and the procedure it applies may yield or be preempted.
`Append` takes any pointer, the null pointer too: `AssertFails` is the Remove that meets
it and ends the process with the lock held, so that no Remove ever returns null
(`TypeOK`, on what `result` records). `Wait` is the Condition stub and ends the process
as well; `Delete` is the destructor, whose
`~Lock` deletes a string literal, which the process may or may not survive. The List
inside is the sequence that LinkedList implements. `op`, `item` and `seen` are what
the frames of the routines hold, `result` records which routine returned last and
with what. That the procedure given to `Mapcar` does not use the same list, block or
finish is assumed of the callers; one that did would leave its thread stuck, which
`NobodyStuck` tells.
**AbstractSynchList** is the queue without locks and threads. It leaves open whether
a deletion is survived, as the module itself does, so that the refinement says
nothing about that.

**Switch** executes `SWITCH` and `ThreadRoot` as instructions on registers and on a
memory of words (Thread objects and stacks), with the offsets of `switch.h`. Its
other actions are what surrounds them: `Fork` is `StackAllocate`; `Yield` and
`Finish` are the calls that end in `Run`; `AfterSWITCH` is the end of `Run`
on the other stack, which frees the carcass; `ThreadRoot` has one disjunct per call it
makes. The compiled procedures are external and obey the calling
convention: a prologue saves the callee-saved registers on the stack, the body
leaves anything in the others. `host` is chosen at the start among the i386, which
the Makefile builds, the MIPS and the Snake. Scheduling is left open, so the
results do not depend on Threads. The header of the i386 `SWITCH` (`switch.s`
326-328) speaks of a push that the code does not make, and that of `ThreadRoot`
(299) of eax where the code uses ecx; the model follows the code.

**Boot** is the process: `EnterMain` to `Initialized` are main's first statement and
`Initialize`, `MainWord`, `RunTest` and `PrintWord` main's two loops around the
test, `Halt`, `Delete` and `Exit` the end. A loop takes one action per iteration and
objects are made and deleted one by one. `UserAbort` is ctrl-C, possible between any
two steps after `CallOnUserAbort`. Words of the command line are members of a small
set; the test itself is ThreadTest's business. `RunTest` and each `delete` are one action:
what a ctrl-C does in the middle of the test, or inside the allocator or a destructor,
where nothing here is safe against a signal, is not covered.

**ThreadTest** gives the threads procedures: sequences of calls that stand for
`SimpleThread`, `LockThread1`, `LockThread2` and the main thread, for `testnum` 1,
2 and any other value (3); `timer = 0` throughout is a machine without `-rs`.

**LinkedList** is `list.cc` on a heap of elements at arbitrary addresses; the
loops of `SortedInsert` and of the destructor are one action per iteration.

**AbstractSemaphores**, **AbstractLocks**, **AbstractList** say what `synch.h`
and `list.h` promise, with no threads, queues or pointers. The first two say with
fairness that a unit or a free lock does reach some waiter, and leave open which.

Definitions that say "Mutant of ..." are deliberately wrong variants of the
definition that follows; no specification uses them. They show that the
properties can tell the code from a plausible bug (`PROJECT.json`, "mutants").

## 3. What is checked

| Run | Question | Bounds |
|---|---|---|
| `threads` | the scheduler's invariants, FIFO order, and no starvation under the timer | main and two threads, timer period 1..2, two device interrupts pending |
| `threads_carcass` | is every finished thread freed? **No** | main and two threads, no timer |
| `semaphores` | no lost wakeup, and the abstract semaphore | three threads, two semaphores, values to 2 |
| `semaphores_barging` | has the thread that V makes ready consumed the V? **No** | three threads, one semaphore |
| `locks` | mutual exclusion, no lost wakeup, the abstract lock | three threads, two locks |
| `threadtest` | do the tests end, under preemption, and do the two threads alternate without? | the tests of the source, timer period 1..3 or none |
| `list` | one well-formed chain, sorted, the abstract sequence, and what the destructor frees | four elements, two items of which one is null, three keys |
| `synchlist` | Mapcar undisturbed, nobody stuck in a routine, and the abstract queue | three threads, two pointers and the null pointer, timer period 1..2 |
| `synchlist_wait` | does Remove wait for an item? **No** | two threads, one item |
| `switch` | are registers and stacks kept, is the procedure entered, are all writes in bounds? | three threads, three hosts, stacks of 40 words |
| `boot` | which test, which options, which crashes, and does it end? | every command line of up to four of six words |
| `boot_copyright` | does `-z` print the copyright? **No** | up to one word |

Why the bounds are enough. Three threads give every combination the code
distinguishes: the current thread, the one it switches to, and one that waits
behind or is woken in between (a barging thread, the woken waiter, a further
waiter). A timer period of 2 allows both a tick that preempts and one that does
not; 1 alone would preempt at every tick. Two pending devices allow two wakeups
at one delivery point. Four list elements give a walk of `SortedInsert` that
starts, continues, and ends in the middle or at the end, with equal keys. Two items
on a synchronized list show their order, and three threads one that waits for the
lock while another barges in. Stacks of 40 words (4096 in the source) hold the
deepest frames of the model, those of the Snake with its 16 callee-saved registers,
and little more, so that a store that strays leaves them. Four words give each
option with and without operand, twice, and in both orders. The
theorems of section 4 hold without bounds.

Fairness. `FairSpec` of Threads, Semaphores and Locks is weak fairness of the
whole next-state relation: the processor does not stop while there is a step to
make. It assumes nothing about which thread runs; that every ready thread does
follows from the timer and the FIFO list. It does exclude one program, which
turns interrupts off and then calls only routines that change nothing, for ever.
`ThreadTest` needs one more assumption (`SF` on a tick that leaves more than one
tick to the timer): if the random timer came back within one tick each time,
every return from `Yield` would be preempted at once and no thread would get on.
The real period is uniform over 1..200 units, of which a tick takes 10.
`SynchList` states this randomness for each thread (`Draw`): an interval that the
timer can draw is drawn again and again under each thread under which it goes off;
a weaker assumption lets two threads take turns in which one is always preempted
before its first step. `Boot` assumes that the process goes on, not that the user
presses ctrl-C.

The four negative results are recorded as findings in `PROJECT.json`:

1. *A lost carcass.* `threadToBeDestroyed` is a single variable, and a thread that
   is dispatched for the first time does not pass the code that frees it. The main
   thread forks a thread and finishes; the new thread finishes; the main Thread is
   never deleted.
2. *Barging.* V leaves its unit to whoever calls P first; the comment at
   `synch.cc:94` says the wakeup consumes it. The `while` in P makes this safe
   (`semaphores`), at the price of the order of service.
3. *Remove does not wait.* On an empty synchronized list it calls the stub of
   `Condition::Wait`, which aborts the program with the lock held.
4. *`-z` is dead.* The first loop of `main` consumes all words of the command line
   before the second one looks for it.

Also worth knowing, and stated by properties that hold. The last word of the command
line alone decides which test runs: `-q 2 -rs 1` runs test 1, `-rs 1 -q 2` test 2
(`TestChosen`). `-q` as last word, and ctrl-C during Cleanup, are the two ways to crash
the process (`CrashesOnly`). The destructor of a List frees the elements up to and
including the first null item and leaks exactly those behind it (`DestroyFrees`). `SWITCH` on the i386 stores the return
address one word above the one it pops, which works because that word is an argument
slot or in the margin that `StackAllocate` leaves (`ReturnsToCaller`, `InBounds`).

## 4. What is proved

Every safety property that a run checks is also a theorem of the specification,
for every value of the constants; and so is every refinement, except for the fairness of the abstract specification. The assumptions
on the constants are those each module names (`ThreadsAssumption` and so on):
null pointers are not objects, counts are naturals, priorities are integers, the
main thread is a thread; for Switch that a stack has more than 36 words; and for Semaphores that there are finitely many threads,
since its invariant counts them.

| Module | Theorems | The inductive invariant adds |
|---|---|---|
| `ThreadsProofs` | `TypeOK`, `ReadyListSound`, `CarcassSafe`, `LevelKept`, `InterruptsOffInScheduler`, `HaltedIsQuiet`, `NoOvertaking` | `Placed`, `CpuHeld`, `FreshLevel` |
| `SemaphoresProofs` | `TypeOK`, `QueueSound`, `NoLostWakeup`, `HaltMeansNoUnit`, `VFindsSleeper`, refinement | that of Threads, `WaitersAsleep` |
| `LocksProofs` | `TypeOK`, `MutualExclusion`, `QueueSound`, `NoLostWakeup`, `HaltMeansDeadlock`, `ReleaseFindsSleeper`, refinement | that of Threads, `WaitersAsleep`, `FreshHoldsNothing` |
| `SynchListProofs` | `TypeOK`, `MapcarUndisturbed`, `NobodyStuck`, refinement | that of Locks, `LockWithRoutine`, `SeenIsPrefix`, `RoutinesInUse` |
| `ThreadTestProofs` | `AllDone`, `PingPong` | that of Locks, `InStep`, `TakingTurns` |
| `LinkedListProofs` | `WellLinked`, `StaysSorted`, `DestroyFrees`, the whole refinement | a sequence that the pointers spell out, `InWalk` |
| `SwitchProofs` | `ContextKept`, `ReturnsToCaller`, `EntersProcedure`, `InBounds` | the words of every object and stack: `Fresh`, `Suspended`, `Running` |
| `BootProofs` | `TestChosen`, `OptionsObeyed`, `CrashesOnly` | what the words read so far ask for, which objects exist |

**Threads.** None of its invariants is inductive by itself: that an enqueued thread
is not on the list already follows from its status, which follows from the frame it
is in. `Inv` therefore adds `Placed` (which statuses go with which frame, and that
only the current thread is RUNNING), `CpuHeld` (the current thread is RUNNING or in
the loop of Sleep) and `FreshLevel` (a thread that was never dispatched expects
interrupts on). The proof has three parts with one step per action each: the list
(`ReadyListNext`), the places (`PlacesNext`) and the interrupt levels (`LevelsNext`).
`HaltedIsQuiet` follows from the first two when Halt is called, and nothing moves
after it. `NoOvertaking` follows from the invariant and the three ways in which the
list can change.

**Semaphores and locks.** Every step of theirs is a step of Threads
(`StepOfThreads`), so the invariant of `ThreadsProofs` holds under them and is the
first conjunct of theirs. `WaitersAsleep` (`waitsOn` is set exactly in the frames of
`Sleep` and after it) keeps preemption, timer ticks and the reclaiming of a carcass
away from the queues: `ThreadsProofs` shows once, for both, that a step without a
synchronization routine (`QuietStep`) moves no thread into or out of these frames and
wakes nobody. `QueueSound` then follows from two lemmas about a duplicate-free
sequence and the set it lists (`AppendLists`, `TailLists`).

- That `ReadyToRun` is called for a thread that is asleep is a guard of Threads'
  `Wake`. It could hide a V that the code would make and the model would not;
  `VFindsSleeper` and `ReleaseFindsSleeper` prove that it never holds one up.
- `NoLostWakeup` of semaphores compares a number of units with a number of woken
  threads. A V on a queue adds one to both; a thread that barges in takes a unit and
  leaves a woken thread too many, which does no harm; a woken thread that tests the
  value takes a unit along or queues again because there is none.
- At a halt every waiter is BLOCKED, so that it is on its queue and nobody was woken:
  a semaphore has then no unit (`HaltMeansNoUnit`), and a lock is held, by a thread
  that can only be asleep or finished (`HaltMeansDeadlock`).
- In the refinement of locks, `MutualExclusion` makes the owner that the mapping
  chooses unique (`OwnersMatch`). A waiter that sleeps again maps to a stutter.

**SynchList.** `MapcarUndisturbed` rests on mutual exclusion of the lock, which
`LocksProofs` supplies, and on `LockWithRoutine`: a thread in a routine either holds
the lock or waits for it. That nobody finishes inside a routine is also what rules
out the deadlock that `HaltMeansDeadlock` leaves possible, hence `NobodyStuck`. For
the refinement a routine takes effect at its Release; that a Mapcar returns all of
the list needs `SeenIsPrefix`, which no step of another thread disturbs.

**ThreadTest.** `InStep` ties the place of each thread in its procedure to its
status and its lock: it holds the lock between Acquire and Release only and is in
`finish` at the end only. At a halt main has then forked everybody and nobody is
left in Acquire, since its holder would have to be there as well (`AllDone`). `PingPong`
needs a machine whose timer stays 0, on which the ready list of two threads leaves no
choice; `Loops` is arbitrary.

**LinkedList.** The pointers are compared with a sequence `s` that they spell out
(`Spells`): no repetition, the cells of the heap and no others, each `next` the
following one. An insertion behind the first `p` elements and the removal of the
first preserve that (`InsertChain`, `TailChain`), and `Append`, `Prepend`, both ends
of `SortedInsert` and its middle are such insertions. The recursive function `Path`
that defines `Nodes` is replaced by `s` once (`PathFollows`). Its defining equation
needs no theorem of recursion since `s`, continued by NULL, is a witness that
satisfies it; that it is the only one is an induction over the naturals, made as an
argument about a least counterexample (`Successors`), since the induction rules of
the library cannot be instantiated. `InWalk` says what the loop of `SortedInsert`
has passed.
Sortedness and the refinement (`ListImplements`) both follow: what goes in at key k
goes behind all entries with keys up to k. AbstractList has no fairness, so that here
the theorem and the property of the run `list` are the same formula.

**Boot.** Both loops skip the operands of the options they know; which words are
operands depends on the words before them without bound (`-rs -rs -rs -d`), which the
module defines by the parity of a run of options (`IsOperand`). The lemmas
`FirstIsNoOperand` and `OperandFollowsOption` turn that into the step that a loop
takes. `CrashesOnly` needs the construction order, where each object finds the ones
it uses, and that one Cleanup deletes nothing twice unless it interrupts another.

**Switch.** The four properties speak of the current thread; that they hold when it
gets the CPU back depends on words nobody looked at meanwhile. `Inv` (that is,
`Coherent`) therefore says of every thread that has a stack and has not finished in
which of three states it is. `Fresh`: its object holds the initial registers of
`StackAllocate`. `Suspended`: its object holds the registers of the history `kept`,
and its stack the chain of return addresses from `SWITCH` through `Run` and its
procedure to `ThreadRoot`. `Running`: the same of the registers and the stack
themselves, or a point of `ThreadRoot` with the registers it still needs. `Memory` adds
that these objects and stacks exist whole and that the fenceposts stand. The proof
goes upward:

- `WellFormed` is what it uses of a host: no register has two places in the Thread
  object, and the callee-saved ones are among them. `SnakeWellFormed`,
  `MipsWellFormed` and their like for the i386 derive it from the tables once.
- `Execution` runs the instructions one after the other; it is a recursive function,
  whose defining equation (`ExecutionSteps`) is shown to have a solution before it is
  used, and of a sequence in two parts it is the one part after the other.
- A row of pushes, of pops, of saves or of restores, however long, does what the
  single instructions do (`PushesDo`, `PopsDo`, `SavesDo`, `RestoresDo`). These are
  inductions over the set of the lengths for which the claim holds (`Induction`, from
  the well-foundedness of the naturals), since the induction rules of the library
  cannot be instantiated.
- `SWITCH` saves all of one thread and restores all of the other on each host; on the
  i386 this includes its two detours, by `_eax_save` and by the return address, which
  it stores a word above the one it pops: an argument in a suspended thread, the
  margin in a fresh one (`WordAbove`).
- Stacks of different threads, their fenceposts and their objects are apart, and no
  thread goes deeper than 18 words (`Depths`), so that a step of one leaves those that
  wait as they were (`AsleepKept`).

The lemmas speak of an arbitrary machine and of the host of the present state; that the
host never changes (`SameHost` and those after it) carries the invariant to the next.
The hypothesis on the size of stacks is the room for these 18 words between the 16 that
`StackAllocate` skips on the Snake and the fencepost. It says nothing of the depth that
real procedures have, which the model leaves out.

Only model-checked: the liveness properties (`ReadyRuns`, `TestCompletes`, `Completes`,
the fair parts of the abstract semaphore, lock and synchronized list), which are out
of the prover's reach. That a machine keeps going under fairness is a question of
ENABLED and of temporal induction.

## 5. What is not modelled, and the plan

- The depth of a stack: a preempted `Yield` whose return is preempted again nests,
  and only the fencepost shows it. Such frames do nothing but return, so Threads
  keeps one, and the procedures of Switch do not nest.
- The SPARC's `SWITCH`: its registers are spilled by traps and hardware windows.
- Left out for good: the text of debug output and printing (no state), the code
  under USER_PROGRAM, FILESYS and NETWORK (not compiled here, and its callees are
  not in this directory), and destructors of semaphores and of locks outside a
  SynchList, which assume that nobody waits.
