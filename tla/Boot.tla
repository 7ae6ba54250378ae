-------------------------------- MODULE Boot --------------------------------
(***************************************************************************)
(* One run of the nachos process around the thread system: main of main.cc *)
(* with its two passes over the command line, Initialize and Cleanup of    *)
(* system.cc, and the debug flags of utility.cc, as compiled here (with    *)
(* THREADS only).  A pass takes one action per iteration, the construction *)
(* and the deletion of the global objects one action per object.  A user   *)
(* abort (ctrl-C) may come between any two actions once it is caught.      *)
(***************************************************************************)
EXTENDS Naturals, Sequences, FiniteSets

CONSTANTS
  MaxArgs,  \* bound on the number of words on the command line
  NULL

\* Words on the command line.  "-q" stands for every word whose second character
\* is q, "t" for one that names the debug flag t, "2" for a number.
Word == {"-d", "-rs", "-q", "-z", "t", "2"}

ASSUME BootAssumption == MaxArgs \in Nat /\ NULL \notin Word \cup {"", "+"}

atoi(w) == IF w = "2" THEN 2 ELSE 0

VARIABLES
  args,         \* argv after the command name
  next,         \* the index of *argv; argc is Len(args) - next + 1
  phase,        \* what the process executes
  debugArgs,    \* the flags Initialize has read from the command line
  enableFlags,  \* the flags of DEBUG, NULL until DebugInit
  randomYield,  \* -rs was given
  testnum,      \* the test to run
  alive, freed, \* the global objects constructed, and those deleted
  todo,         \* the objects still to construct or to delete, in order
  caught,       \* a user abort calls Cleanup
  userAbort,    \* the handler of the user abort is running
  output        \* history: what was printed

vars == <<args, next, phase, debugArgs, enableFlags, randomYield, testnum, alive,
          freed, todo, caught, userAbort, output>>
options == <<debugArgs, enableFlags, randomYield, testnum>>
objects == <<alive, freed, todo, caught, userAbort>>

Over == {"exited", "aborted", "crashed"}

TypeOK ==
  /\ args \in Seq(Word) /\ next \in 1..(Len(args) + 2)
  /\ phase \in {"enter", "Initialize", "construct", "main", "test", "print",
                "finish", "cleanup"} \cup Over
  /\ debugArgs \in Word \cup {"", "+"}
  /\ enableFlags \in Word \cup {"", "+", NULL}
  /\ randomYield \in BOOLEAN /\ caught \in BOOLEAN /\ userAbort \in BOOLEAN
  /\ testnum \in Nat
  /\ alive \cup freed \subseteq {"stats", "interrupt", "scheduler", "timer",
                                 "currentThread"}
  /\ output \subseteq {"Entering main", "Entering the test", "copyright"}

Init ==
  /\ args \in UNION {[1..n -> Word] : n \in 0..MaxArgs}
  /\ next = 1 /\ phase = "enter"
  /\ debugArgs = "" /\ enableFlags = NULL
  /\ randomYield = FALSE /\ testnum = 1
  /\ alive = {} /\ freed = {} /\ todo = <<>>
  /\ caught = FALSE /\ userAbort = FALSE
  /\ output = {}

-----------------------------------------------------------------------------
(* DEBUG. *)

DebugIsEnabled == enableFlags \in {"t", "+"}

\* DEBUG('t', message)
DEBUG(message) == output' = output \cup IF DebugIsEnabled THEN {message} ELSE {}

\* main's first statement comes before any flag was read.
EnterMain ==
  /\ phase = "enter"
  /\ DEBUG("Entering main")
  /\ phase' = "Initialize"
  /\ UNCHANGED <<args, next, options, objects>>

-----------------------------------------------------------------------------
(* Initialize. *)

\* Mutant of DashRs: the loop goes on with the seed.
DashRsOneWord ==
  IF next = Len(args)
  THEN phase' = "aborted" /\ UNCHANGED <<next, randomYield>>
  ELSE randomYield' = TRUE /\ next' = next + 1 /\ UNCHANGED phase

\* -rs: a missing seed fails the ASSERT.
DashRs ==
  IF next = Len(args)
  THEN phase' = "aborted" /\ UNCHANGED <<next, randomYield>>
  ELSE randomYield' = TRUE /\ next' = next + 2 /\ UNCHANGED phase

\* -d: without an operand it turns on all flags.
DashD ==
  IF next = Len(args)
  THEN debugArgs' = "+" /\ next' = next + 1
  ELSE debugArgs' = args[next + 1] /\ next' = next + 2

\* One iteration of the loop of Initialize.
InitializeWord ==
  /\ phase = "Initialize" /\ next <= Len(args)
  /\ \/ args[next] = "-rs" /\ DashRs /\ UNCHANGED debugArgs
     \/ args[next] = "-d" /\ DashD /\ UNCHANGED <<phase, randomYield>>
     \/ /\ args[next] \notin {"-rs", "-d"}
        /\ next' = next + 1
        /\ UNCHANGED <<phase, debugArgs, randomYield>>
  /\ UNCHANGED <<args, enableFlags, testnum, objects, output>>

\* Mutant of Globals: the timer is made before the interrupts it is scheduled on.
GlobalsTimerFirst ==
  IF randomYield
  THEN <<"stats", "timer", "interrupt", "scheduler", "currentThread">>
  ELSE <<"stats", "interrupt", "scheduler", "currentThread">>

\* The global objects in the order of their construction.
Globals ==
  IF randomYield
  THEN <<"stats", "interrupt", "scheduler", "timer", "currentThread">>
  ELSE <<"stats", "interrupt", "scheduler", "currentThread">>

\* The loop is over: DebugInit.
DebugInit ==
  /\ phase = "Initialize" /\ next > Len(args)
  /\ enableFlags' = debugArgs
  /\ phase' = "construct"
  /\ todo' = Globals
  /\ UNCHANGED <<args, next, debugArgs, randomYield, testnum, alive, freed, caught,
                 userAbort, output>>

\* External: the globals a constructor uses.  The timer schedules its interrupt.
Needs(g) == IF g = "timer" THEN {"interrupt"} ELSE {}

Construct ==
  /\ phase = "construct" /\ todo # <<>>
  /\ IF Needs(Head(todo)) \subseteq alive
     THEN alive' = alive \cup {Head(todo)} /\ UNCHANGED phase
     ELSE phase' = "crashed" /\ UNCHANGED alive
  /\ todo' = Tail(todo)
  /\ UNCHANGED <<args, next, options, freed, caught, userAbort, output>>

\* interrupt->Enable() and CallOnUserAbort(Cleanup); main starts over with argv.
Initialized ==
  /\ phase = "construct" /\ todo = <<>>
  /\ caught' = TRUE
  /\ phase' = "main" /\ next' = 1
  /\ UNCHANGED <<args, options, alive, freed, todo, userAbort, output>>

-----------------------------------------------------------------------------
(* main. *)

\* Mutant of DashQ: the operand is looked at again as an option.
DashQOneWord ==
  IF next = Len(args)
  THEN phase' = "crashed" /\ UNCHANGED <<next, testnum>>
  ELSE testnum' = atoi(args[next + 1]) /\ next' = next + 1 /\ UNCHANGED phase

\* -q: without an operand the null pointer behind the last word goes to atoi.
DashQ ==
  IF next = Len(args)
  THEN phase' = "crashed" /\ UNCHANGED <<next, testnum>>
  ELSE testnum' = atoi(args[next + 1]) /\ next' = next + 2 /\ UNCHANGED phase

\* Mutant of MainWord: the default case does not advance.
MainWordStuck ==
  /\ phase = "main" /\ next <= Len(args)
  /\ \/ args[next] = "-q" /\ DashQ
     \/ args[next] # "-q" /\ testnum' = 1 /\ UNCHANGED <<next, phase>>
  /\ UNCHANGED <<args, debugArgs, enableFlags, randomYield, objects, output>>

\* One iteration of main's first loop; any other word selects test 1.
MainWord ==
  /\ phase = "main" /\ next <= Len(args)
  /\ \/ args[next] = "-q" /\ DashQ
     \/ args[next] # "-q" /\ testnum' = 1 /\ next' = next + 1 /\ UNCHANGED phase
  /\ UNCHANGED <<args, debugArgs, enableFlags, randomYield, objects, output>>

\* ThreadTest(); then argc-- and argv++, as if no word had been read yet.
RunTest ==
  /\ phase = "main" /\ next > Len(args)
  /\ IF testnum \in {1, 2} THEN DEBUG("Entering the test") ELSE UNCHANGED output
  /\ phase' = "print" /\ next' = next + 1
  /\ UNCHANGED <<args, options, objects>>

\* main's second loop, one iteration or its end.
PrintWord ==
  /\ phase = "print"
  /\ IF next <= Len(args)
     THEN /\ output' = output \cup IF args[next] = "-z" THEN {"copyright"} ELSE {}
          /\ next' = next + 1 /\ UNCHANGED phase
     ELSE phase' = "finish" /\ UNCHANGED <<next, output>>
  /\ UNCHANGED <<args, options, objects>>

-----------------------------------------------------------------------------
(* Cleanup. *)

Cleanup ==
  /\ phase' = "cleanup"
  /\ todo' = <<"timer", "scheduler", "interrupt">>
  /\ UNCHANGED <<args, next, options, alive, freed, caught, output>>

\* main's thread has finished, the others too, and the machine halts.
Halt == phase = "finish" /\ Cleanup /\ UNCHANGED userAbort

\* ctrl-C, which is held back while its handler runs.
UserAbort ==
  /\ caught /\ ~userAbort /\ phase \notin Over
  /\ userAbort' = TRUE
  /\ Cleanup

\* delete g: nothing for a null pointer; undefined for what was deleted before.
Delete ==
  /\ phase = "cleanup" /\ todo # <<>>
  /\ alive' = alive \ {Head(todo)}
  /\ freed' = freed \cup ({Head(todo)} \cap alive)
  /\ phase' \in {"cleanup"} \cup IF Head(todo) \in freed THEN {"crashed"} ELSE {}
  /\ todo' = Tail(todo)
  /\ UNCHANGED <<args, next, options, caught, userAbort, output>>

Exit ==
  /\ phase = "cleanup" /\ todo = <<>>
  /\ phase' = "exited"
  /\ UNCHANGED <<args, next, options, objects, output>>

Terminated == phase \in Over /\ UNCHANGED vars

Step ==
  \/ EnterMain \/ InitializeWord \/ DebugInit \/ Construct \/ Initialized
  \/ MainWord \/ RunTest \/ PrintWord \/ Halt \/ Delete \/ Exit

Next == Step \/ UserAbort \/ Terminated

Spec == Init /\ [][Next]_vars

\* The process goes on; nothing makes the user press ctrl-C.
FairSpec == Spec /\ WF_vars(Step)

-----------------------------------------------------------------------------
(* Properties. *)

\* A loop whose options S take an operand reads word k as an operand: the words
\* right before it are options of S, an odd number of them.
IsOperand(S, k) ==
  Cardinality({j \in 1..(k - 1) : \A m \in j..(k - 1) : args[m] \in S}) % 2 = 1

IsOption(S, w, k) == args[k] = w /\ ~IsOperand(S, k)

\* The last word alone decides which test runs: an operand of -q is its number,
\* anything else selects test 1, whatever -q said before it ("nachos -q 2 -rs 1"
\* runs test 1).
TestChosen ==
  phase \in {"print", "finish"} =>
    testnum = IF args # <<>> /\ IsOperand({"-q"}, Len(args))
              THEN atoi(args[Len(args)]) ELSE 1

\* What Initialize makes of the words: the timer exists if and only if some -rs is
\* an option and not an operand, the last -d that is an option sets the flags, and
\* the DEBUG calls after Initialize follow them; the one before it is never seen.
OptionsObeyed ==
  phase \in {"print", "finish"} =>
    LET S  == {"-d", "-rs"}
        ds == {k \in 1..Len(args) : IsOption(S, "-d", k)}
    IN  /\ "timer" \in alive <=> \E k \in 1..Len(args) : IsOption(S, "-rs", k)
        /\ ds = {} => enableFlags = ""
        /\ \A k \in ds : (\A j \in ds : j <= k) =>
             enableFlags = IF k = Len(args) THEN "+" ELSE args[k + 1]
        /\ "Entering the test" \in output
             <=> DebugIsEnabled /\ testnum \in {1, 2}
        /\ "Entering main" \notin output

\* The process crashes only on a -q without operand, or when ctrl-C interrupts the
\* Cleanup that Halt began and deletes a second time; no constructor or destructor
\* meets an object that is not there.
CrashesOnly ==
  phase = "crashed" =>
    \/ args # <<>> /\ IsOption({"-q"}, "-q", Len(args)) /\ freed = {}
    \/ userAbort /\ freed # {}

\* Both passes end on every command line, and the process with them.
Completes == <>(phase \in Over)

\* "-z prints the copyright message" (main.cc:21).
CopyrightPrinted ==
  phase = "exited" /\ ~userAbort /\ (\E k \in 1..Len(args) : args[k] = "-z")
    => "copyright" \in output
=============================================================================
