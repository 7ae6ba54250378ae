----------------------------- MODULE BootProofs -----------------------------
(***************************************************************************)
(* Proofs about Boot: for command lines of any length, and for ctrl-C at   *)
(* any moment.                                                             *)
(***************************************************************************)
EXTENDS Boot, FiniteSetTheorems, SequenceTheorems, TLAPS

-----------------------------------------------------------------------------
(* Options and operands. *)

\* The words right before word k that are options of S.
Run(S, k) == {j \in 1..(k - 1) : \A m \in j..(k - 1) : args[m] \in S}

LEMMA RunFinite ==
  ASSUME NEW S, NEW k \in Nat \ {0}
  PROVE  IsFiniteSet(Run(S, k)) /\ Cardinality(Run(S, k)) \in Nat
<1>1. IsFiniteSet(1..(k - 1)) /\ Run(S, k) \in SUBSET (1..(k - 1))
  BY FS_Interval DEF Run
<1> QED BY <1>1, FS_Subset, FS_CardinalityType

\* The first word is no operand.
LEMMA FirstIsNoOperand ==
  ASSUME NEW S
  PROVE  ~IsOperand(S, 1)
<1>1. Run(S, 1) = {}
  BY DEF Run
<1>2. Cardinality(Run(S, 1)) = 0
  BY <1>1, FS_EmptySet
<1> QED BY <1>2 DEF IsOperand, Run

\* The word behind an option is its operand, any other is none: the definition by
\* parity agrees with a loop that skips operands.
LEMMA OperandFollowsOption ==
  ASSUME NEW S, NEW k \in Nat \ {0}
  PROVE  IsOperand(S, k + 1) <=> args[k] \in S /\ ~IsOperand(S, k)
<1> DEFINE n == Cardinality(Run(S, k))
<1>0. IsOperand(S, k) <=> n % 2 = 1
  BY DEF IsOperand, Run
<1>1. IsOperand(S, k + 1) <=> Cardinality(Run(S, k + 1)) % 2 = 1
  BY DEF IsOperand, Run
<1>2. CASE args[k] \notin S
  <2>1. Run(S, k + 1) = {}
    <3> SUFFICES ASSUME NEW j \in 1..((k + 1) - 1),
                        \A m \in j..((k + 1) - 1) : args[m] \in S
                 PROVE  FALSE
      BY DEF Run
    <3>1. k \in j..((k + 1) - 1)
      OBVIOUS
    <3> QED BY <1>2, <3>1
  <2>2. Cardinality(Run(S, k + 1)) = 0
    BY <2>1, FS_EmptySet
  <2> QED BY <1>1, <1>2, <2>2
<1>3. CASE args[k] \in S
  <2>1. Run(S, k + 1) = Run(S, k) \cup {k}
    <3>1. ASSUME NEW j \in Run(S, k + 1) PROVE j \in Run(S, k) \cup {k}
      BY <3>1 DEF Run
    <3>2. ASSUME NEW j \in Run(S, k) PROVE j \in Run(S, k + 1)
      <4>1. j \in 1..((k + 1) - 1)
        BY <3>2 DEF Run
      <4>2. ASSUME NEW m \in j..((k + 1) - 1) PROVE args[m] \in S
        <5>1. m \in j..(k - 1) \/ m = k
          BY <4>1
        <5> QED BY <1>3, <3>2, <5>1 DEF Run
      <4> QED BY <4>1, <4>2 DEF Run
    <3>3. k \in Run(S, k + 1)
      <4>1. \A m \in k..((k + 1) - 1) : m = k
        OBVIOUS
      <4> QED BY <1>3, <4>1 DEF Run
    <3> QED BY <3>1, <3>2, <3>3
  <2>2. k \notin Run(S, k)
    BY DEF Run
  <2>3. Cardinality(Run(S, k + 1)) = n + 1 /\ n \in Nat
    BY <2>1, <2>2, RunFinite, FS_AddElement
  <2> HIDE DEF n
  <2>4. (n + 1) % 2 = 1 <=> n % 2 # 1
    BY <2>3
  <2> QED BY <1>0, <1>1, <1>3, <2>3, <2>4
<1> QED BY <1>2, <1>3

-----------------------------------------------------------------------------
(* The inductive invariant. *)

InitializeOptions == {"-d", "-rs"}

\* The words among the first n by which "-d" sets the flags.
DashDs(n) == {k \in 1..n : IsOption(InitializeOptions, "-d", k)}

\* The timer y and the flags d are what the first n words ask for.
AskedFor(n, y, d) ==
  /\ y <=> \E k \in 1..n : IsOption(InitializeOptions, "-rs", k)
  /\ DashDs(n) = {} => d = ""
  /\ \A k \in DashDs(n) : (\A j \in DashDs(n) : j <= k) =>
       d = IF k = Len(args) THEN "+" ELSE args[k + 1]

OptionsRead(n) == AskedFor(n, randomYield, debugArgs)

\* The test that the first n words select.
TestOf(n) == IF n > 0 /\ IsOperand({"-q"}, n) THEN atoi(args[n]) ELSE 1

Object == {"stats", "interrupt", "scheduler", "timer", "currentThread"}

Types ==
  /\ args \in Seq(Word) /\ next \in Nat \ {0}
  /\ randomYield \in BOOLEAN
  /\ todo \in Seq(Object)

\* Between two words Initialize is at a word that is no operand, and has done what
\* those before it say; afterwards the flags and the timer stay as they are.
Initializing ==
  /\ phase = "enter" => next = 1 /\ debugArgs = "" /\ ~randomYield
  /\ phase \in {"enter", "Initialize"} => enableFlags = NULL
  /\ phase = "Initialize" => /\ next <= Len(args) + 1
                             /\ next <= Len(args) =>
                                  ~IsOperand(InitializeOptions, next)
                             /\ OptionsRead(next - 1)
  /\ phase \in {"construct", "main", "print", "finish"} =>
       enableFlags = debugArgs /\ OptionsRead(Len(args))

\* The same of the first loop of main.
Choosing ==
  /\ phase \in {"enter", "Initialize", "construct"} => testnum = 1
  /\ phase = "main" => /\ next <= Len(args) + 1
                       /\ ~IsOperand({"-q"}, next)
                       /\ testnum = TestOf(next - 1)
  /\ phase \in {"print", "finish"} => testnum = TestOf(Len(args))

\* Every object is constructed once the ones it needs are.
Constructing ==
  /\ phase \in {"enter", "Initialize"} => alive = {}
  /\ phase = "construct" =>
       /\ "timer" \in alive \/ (\E j \in 1..Len(todo) : todo[j] = "timer")
            <=> randomYield
       /\ \A j \in 1..Len(todo) :
            Needs(todo[j]) \subseteq alive \cup {todo[i] : i \in 1..(j - 1)}
  /\ phase \in {"main", "print", "finish"} => ("timer" \in alive <=> randomYield)

\* A Cleanup that did not interrupt another deletes nothing twice.
Deleting ==
  /\ phase \notin {"cleanup"} \cup Over => freed = {} /\ ~userAbort
  /\ phase = "cleanup" /\ ~userAbort =>
       \A j \in 1..Len(todo) :
         todo[j] \notin freed \cup {todo[i] : i \in 1..(j - 1)}

Printing ==
  /\ phase \in {"enter", "Initialize", "construct", "main"} => output = {}
  /\ phase \in {"print", "finish"} =>
       /\ "Entering the test" \in output <=> DebugIsEnabled /\ testnum \in {1, 2}
       /\ "Entering main" \notin output

Inv ==
  /\ Types /\ Initializing /\ Choosing /\ Constructing /\ Deleting /\ Printing
  /\ CrashesOnly

-----------------------------------------------------------------------------
(* What the words up to the next one ask for. *)

LEMMA NextWord ==
  ASSUME NEW n \in Nat
  PROVE  /\ n + 1 \in 1..(n + 1)
         /\ \A k \in 1..(n + 1) : k \in 1..n \/ k = n + 1
         /\ \A k \in 1..n : k \in 1..(n + 1) /\ k < n + 1
OBVIOUS

LEMMA DashDsNext ==
  ASSUME NEW n \in Nat
  PROVE  DashDs(n + 1) = IF IsOption(InitializeOptions, "-d", n + 1)
                         THEN DashDs(n) \cup {n + 1} ELSE DashDs(n)
BY NextWord DEF DashDs

LEMMA NoOption ==
  ASSUME NEW n \in Nat, NEW y, NEW d, AskedFor(n, y, d),
         ~IsOption(InitializeOptions, "-d", n + 1),
         ~IsOption(InitializeOptions, "-rs", n + 1)
  PROVE  AskedFor(n + 1, y, d)
BY NextWord, DashDsNext DEF AskedFor

LEMMA OptionRs ==
  ASSUME NEW n \in Nat, NEW y, NEW d, AskedFor(n, y, d),
         IsOption(InitializeOptions, "-rs", n + 1)
  PROVE  AskedFor(n + 1, TRUE, d)
<1>1. ~IsOption(InitializeOptions, "-d", n + 1)
  BY DEF IsOption
<1> QED BY <1>1, NextWord, DashDsNext DEF AskedFor

LEMMA OptionD ==
  ASSUME NEW n \in Nat, NEW y, NEW d, AskedFor(n, y, d),
         IsOption(InitializeOptions, "-d", n + 1)
  PROVE  AskedFor(n + 1, y, IF n + 1 = Len(args) THEN "+" ELSE args[n + 2])
<1> DEFINE e == IF n + 1 = Len(args) THEN "+" ELSE args[n + 2]
<1>1. ~IsOption(InitializeOptions, "-rs", n + 1)
  BY DEF IsOption
<1>2. y <=> \E k \in 1..(n + 1) : IsOption(InitializeOptions, "-rs", k)
  BY <1>1, NextWord DEF AskedFor
<1>3. DashDs(n + 1) = DashDs(n) \cup {n + 1}
  BY DashDsNext
<1>4. ASSUME NEW k \in DashDs(n + 1), \A j \in DashDs(n + 1) : j <= k
      PROVE  e = IF k = Len(args) THEN "+" ELSE args[k + 1]
  <2>1. n + 1 <= k /\ (k = n + 1 \/ k \in 1..n)
    BY <1>3, <1>4 DEF DashDs
  <2>2. k = n + 1
    BY <2>1
  <2>3. k + 1 = n + 2
    BY <2>2
  <2> QED BY <2>2, <2>3
<1> HIDE DEF e
<1>5. AskedFor(n + 1, y, e)
  BY <1>2, <1>3, <1>4 DEF AskedFor
<1> QED BY <1>5 DEF e

\* The words do not change under the process.
LEMMA SameWords ==
  ASSUME args' = args
  PROVE  /\ \A k : /\ IsOperand(InitializeOptions, k)'
                        <=> IsOperand(InitializeOptions, k)
                   /\ IsOperand({"-q"}, k)' <=> IsOperand({"-q"}, k)
         /\ \A n : /\ TestOf(n)' = TestOf(n)
                   /\ OptionsRead(n)' <=> AskedFor(n, randomYield', debugArgs')
         /\ IsOperand(InitializeOptions, next)'
              <=> IsOperand(InitializeOptions, next')
         /\ IsOperand({"-q"}, next)' <=> IsOperand({"-q"}, next')
         /\ TestOf(next - 1)' = TestOf(next' - 1)
         /\ OptionsRead(next - 1)' <=> AskedFor(next' - 1, randomYield', debugArgs')
BY DEF IsOperand, TestOf, OptionsRead, AskedFor, DashDs, IsOption

-----------------------------------------------------------------------------
(* Each step keeps the invariant. *)

LEMMA InvInit == Init => Inv
<1> SUFFICES ASSUME Init PROVE Inv
  OBVIOUS
<1>1. args \in Seq(Word)
  <2>1. PICK n \in 0..MaxArgs : args \in [1..n -> Word]
    BY DEF Init
  <2>2. 0..MaxArgs \subseteq Nat
    <3>1. MaxArgs \in Nat
      BY BootAssumption
    <3> QED BY <3>1
  <2> QED BY <2>1, <2>2, SeqDef
<1>2. Types
  <2>1. <<>> \in Seq(Object)
    BY EmptySeq
  <2>2. next = 1 /\ todo = <<>> /\ randomYield \in BOOLEAN
    BY DEF Init
  <2> QED BY <1>1, <2>1, <2>2 DEF Types
<1> QED
  BY <1>2 DEF Init, Inv, Initializing, Choosing, Constructing, Deleting, Printing,
              CrashesOnly, Over

LEMMA EnterMainNext ==
  ASSUME Inv, EnterMain
  PROVE  Inv'
<1>1. /\ phase = "enter" /\ phase' = "Initialize" /\ next = 1
      /\ UNCHANGED <<args, next, debugArgs, enableFlags, randomYield, testnum,
                     alive, freed, todo, userAbort>>
  BY DEF EnterMain, options, objects, Inv, Initializing
<1>2. output' = {}
  BY <1>1, BootAssumption
  DEF EnterMain, DEBUG, Word, DebugIsEnabled, Inv, Initializing, Printing
<1>3. Len(args) \in Nat
  BY LenProperties DEF Inv, Types
<1>4. Initializing'
  <2>1. ~IsOperand(InitializeOptions, next)'
    BY <1>1, SameWords, FirstIsNoOperand
  <2>2. debugArgs = "" /\ ~randomYield
    BY <1>1 DEF Inv, Initializing
  <2>3. AskedFor(0, randomYield, debugArgs)
    <3>1. DashDs(0) = {} /\ ~\E k \in 1..0 : IsOption(InitializeOptions, "-rs", k)
      BY DEF DashDs
    <3> QED BY <2>2, <3>1, Zenon DEF AskedFor
  <2>4. OptionsRead(next - 1)'
    <3>1. next' - 1 = 0 /\ AskedFor(next' - 1, randomYield', debugArgs')
      BY <1>1, <2>3
    <3> QED BY <1>1, <3>1, SameWords
  <2>5. next' <= Len(args)' + 1
    BY <1>1, <1>3
  <2>6. enableFlags = NULL
    BY <1>1 DEF Inv, Initializing
  <2> QED BY <1>1, <2>1, <2>4, <2>5, <2>6 DEF Initializing
<1>5. Types' /\ Choosing' /\ Constructing' /\ Deleting' /\ Printing' /\ CrashesOnly'
  BY <1>1, <1>2 DEF Inv, Types, Choosing, Constructing, Deleting, Printing,
                    CrashesOnly, Over
<1> QED BY <1>4, <1>5 DEF Inv

LEMMA InitializeWordNext ==
  ASSUME Inv, InitializeWord
  PROVE  Inv'
<1> DEFINE S == InitializeOptions
           n == next - 1
<1>1. /\ phase = "Initialize" /\ phase' \in {"Initialize", "aborted"}
      /\ UNCHANGED <<args, enableFlags, testnum, alive, freed, todo, caught,
                     userAbort, output>>
      /\ next <= Len(args)
  BY DEF InitializeWord, DashRs, DashD, objects
<1>2. /\ args \in Seq(Word) /\ Len(args) \in Nat /\ next \in Nat \ {0}
      /\ n \in Nat /\ n + 1 = next /\ n + 2 = next + 1
  BY LenProperties DEF Inv, Types
<1>3. AskedFor(n, randomYield, debugArgs) /\ ~IsOperand(S, next)
  BY <1>1 DEF Inv, Initializing, OptionsRead
<1>4. IsOperand(S, next + 1) <=> args[next] \in S
  BY <1>2, <1>3, OperandFollowsOption
<1> HIDE DEF n
\* Where the loop is afterwards, and what it has read until then.
<1>5. phase' = "Initialize" =>
        /\ next' \in Nat \ {0} /\ next' <= Len(args) + 1
        /\ next' <= Len(args) => ~IsOperand(S, next')
        /\ AskedFor(next' - 1, randomYield', debugArgs')
  <2>1. CASE args[next] \notin {"-rs", "-d"}
    <3>1. next' = next + 1 /\ UNCHANGED <<debugArgs, randomYield>>
      BY <2>1 DEF InitializeWord
    <3>2. ~IsOperand(S, next + 1)
      BY <1>4, <2>1 DEF InitializeOptions
    <3>3. AskedFor(n + 1, randomYield, debugArgs)
      BY <1>2, <1>3, <2>1, NoOption DEF IsOption
    <3>4. next' - 1 = n + 1
      BY <1>2, <3>1
    <3> QED BY <1>1, <1>2, <3>1, <3>2, <3>3, <3>4
  <2>2. ASSUME args[next] \in {"-rs", "-d"}, next < Len(args),
               NEW y, NEW d, AskedFor(n + 1, y, d)
        PROVE  /\ ~IsOperand(S, next + 2)
               /\ AskedFor(n + 2, y, d)
    <3>1. IsOperand(S, next + 1)
      BY <1>4, <2>2 DEF InitializeOptions
    <3>2. next + 1 \in Nat \ {0} /\ (next + 1) + 1 = next + 2 /\ (n + 1) + 1 = n + 2
          /\ n + 1 \in Nat
      BY <1>2
    <3>3. ~IsOperand(S, next + 2)
      BY <3>1, <3>2, OperandFollowsOption
    <3>4. ~IsOption(S, "-d", (n + 1) + 1) /\ ~IsOption(S, "-rs", (n + 1) + 1)
      BY <1>2, <3>1, <3>2 DEF IsOption
    <3>5. AskedFor((n + 1) + 1, y, d)
      BY <2>2, <3>2, <3>4, NoOption
    <3> QED BY <3>2, <3>3, <3>5
  <2>3. CASE args[next] = "-rs" /\ next # Len(args)
    <3>1. next' = next + 2 /\ randomYield' = TRUE /\ debugArgs' = debugArgs
      BY <2>3 DEF InitializeWord, DashRs
    <3>2. IsOption(S, "-rs", n + 1)
      BY <1>2, <1>3, <2>3 DEF IsOption
    <3>3. AskedFor(n + 1, TRUE, debugArgs)
      BY <1>2, <1>3, <3>2, OptionRs
    <3>4. next < Len(args)
      BY <1>1, <1>2, <2>3
    <3>5. AskedFor(n + 2, TRUE, debugArgs) /\ ~IsOperand(S, next + 2)
      BY <2>2, <2>3, <3>3, <3>4
    <3>6. next' - 1 = n + 2
      BY <1>2, <3>1
    <3>7. AskedFor(next' - 1, randomYield', debugArgs')
      BY <3>1, <3>5, <3>6, Zenon
    <3>8. /\ next' \in Nat \ {0} /\ next' <= Len(args) + 1
          /\ ~IsOperand(S, next')
      BY <1>2, <3>1, <3>4, <3>5
    <3> QED BY <3>7, <3>8
  <2>4. CASE args[next] = "-rs" /\ next = Len(args)
    BY <2>4 DEF InitializeWord, DashRs
  <2>5. CASE args[next] = "-d"
    <3> DEFINE e == IF n + 1 = Len(args) THEN "+" ELSE args[n + 2]
    <3>1. IsOption(S, "-d", n + 1)
      BY <1>2, <1>3, <2>5 DEF IsOption
    <3>2. AskedFor(n + 1, randomYield, e)
      BY <1>2, <1>3, <3>1, OptionD
    <3>3. debugArgs' = e /\ randomYield' = randomYield
          /\ next' = IF next = Len(args) THEN next + 1 ELSE next + 2
      BY <1>2, <2>5 DEF InitializeWord, DashD
    <3> HIDE DEF e
    <3>4. CASE next = Len(args)
      <4>1. next' - 1 = n + 1 /\ next' = Len(args) + 1 /\ ~(next' <= Len(args))
        BY <1>2, <3>3, <3>4
      <4> QED BY <1>2, <3>2, <3>3, <3>4, <4>1
    <3>5. CASE next # Len(args)
      <4>1. next < Len(args) /\ next' - 1 = n + 2 /\ next' = next + 2
        BY <1>1, <1>2, <3>3, <3>5
      <4>2. AskedFor(n + 2, randomYield, e) /\ ~IsOperand(S, next + 2)
        BY <2>2, <2>5, <3>2, <4>1
      <4> QED BY <1>2, <3>3, <4>1, <4>2
    <3> QED BY <3>4, <3>5
  <2> QED BY <2>1, <2>3, <2>4, <2>5
<1>6. Initializing'
  <2>1. phase' = "Initialize" => OptionsRead(next - 1)'
    BY <1>1, <1>5, SameWords
  <2>2. phase' = "Initialize" /\ next' <= Len(args)' =>
          ~IsOperand(InitializeOptions, next)'
    BY <1>1, <1>5, SameWords
  <2> QED BY <1>1, <1>5, <2>1, <2>2 DEF Inv, Initializing
<1>7. Types'
  <2>1. next' \in Nat \ {0} /\ randomYield' \in BOOLEAN
    <3>1. next' \in {next, next + 1, next + 2}
      BY DEF InitializeWord, DashRs, DashD
    <3>2. randomYield' = randomYield \/ randomYield' = TRUE
      BY DEF InitializeWord, DashRs
    <3>3. randomYield' \in BOOLEAN
      BY <3>2 DEF Inv, Types
    <3> QED BY <1>2, <3>1, <3>3
  <2> QED BY <1>1, <2>1 DEF Inv, Types
<1>8. Choosing' /\ Constructing' /\ Deleting' /\ Printing' /\ CrashesOnly'
  BY <1>1 DEF Inv, Choosing, Constructing, Deleting, Printing, CrashesOnly, Over
<1> QED BY <1>6, <1>7, <1>8 DEF Inv

LEMMA DebugInitNext ==
  ASSUME Inv, DebugInit
  PROVE  Inv'
<1>1. /\ phase = "Initialize" /\ phase' = "construct" /\ next > Len(args)
      /\ UNCHANGED <<args, next, debugArgs, randomYield, testnum, alive, freed,
                     userAbort, output>>
      /\ enableFlags' = debugArgs /\ todo' = Globals
  BY DEF DebugInit
<1>2. Len(args) \in Nat /\ next \in Nat /\ randomYield \in BOOLEAN
  BY LenProperties DEF Inv, Types
<1>3. Initializing'
  <2>1. next - 1 = Len(args)
    BY <1>1, <1>2 DEF Inv, Initializing
  <2>2. AskedFor(Len(args), randomYield, debugArgs)
    BY <1>1, <2>1 DEF Inv, Initializing, OptionsRead
  <2>3. OptionsRead(Len(args))'
    BY <1>1, <2>2, SameWords
  <2> QED BY <1>1, <2>3 DEF Initializing
<1>4. Types'
  <2>1. Globals \in Seq(Object)
    <3>1. /\ <<"stats", "interrupt", "scheduler", "timer", "currentThread">>
               \in Seq(Object)
          /\ <<"stats", "interrupt", "scheduler", "currentThread">> \in Seq(Object)
      BY DEF Object
    <3> QED BY <3>1 DEF Globals
  <2> QED BY <1>1, <2>1 DEF Inv, Types
<1>5. Constructing'
  <2>1. alive = {}
    BY <1>1 DEF Inv, Constructing
  <2>2. CASE randomYield
    <3>1. todo' = <<"stats", "interrupt", "scheduler", "timer", "currentThread">>
      BY <1>1, <2>2 DEF Globals
    <3>2. \E j \in 1..Len(todo') : todo'[j] = "timer"
      BY <3>1
    <3>3. ASSUME NEW j \in 1..Len(todo')
          PROVE  Needs(todo'[j]) \subseteq alive \cup {todo'[i] : i \in 1..(j - 1)}
      <4>1. todo'[j] = "timer" => j = 4
        BY <3>1
      <4>2. j = 4 => 2 \in 1..(j - 1) /\ todo'[2] = "interrupt"
        BY <3>1
      <4> QED BY <4>1, <4>2 DEF Needs
    <3> QED BY <1>1, <2>2, <3>2, <3>3 DEF Constructing
  <2>3. CASE ~randomYield
    <3>1. todo' = <<"stats", "interrupt", "scheduler", "currentThread">>
      BY <1>1, <2>3 DEF Globals
    <3>2. \A j \in 1..Len(todo') : todo'[j] # "timer"
      BY <3>1
    <3> QED BY <1>1, <2>1, <2>3, <3>2 DEF Constructing, Needs
  <2> QED BY <2>2, <2>3
<1>6. Choosing' /\ Deleting' /\ Printing' /\ CrashesOnly'
  BY <1>1 DEF Inv, Choosing, Deleting, Printing, CrashesOnly, Over
<1> QED BY <1>3, <1>4, <1>5, <1>6 DEF Inv

\* The head of a list and what is left of it.
LEMMA HeadAndTail ==
  ASSUME NEW q \in Seq(Object), q # <<>>
  PROVE  /\ Head(q) = q[1] /\ Len(q) \in Nat \ {0} /\ Tail(q) \in Seq(Object)
         /\ Len(Tail(q)) = Len(q) - 1
         /\ \A j \in 1..Len(Tail(q)) : j + 1 \in 1..Len(q) /\ Tail(q)[j] = q[j + 1]
         /\ \A j \in 1..Len(q) : j = 1 \/ j - 1 \in 1..Len(Tail(q))
         /\ \A j \in 1..Len(Tail(q)) :
              {q[i] : i \in 1..((j + 1) - 1)}
                = {q[1]} \cup {Tail(q)[i] : i \in 1..(j - 1)}
<1> DEFINE r == Tail(q)
<1>1. /\ Head(q) = q[1] /\ Len(q) \in Nat \ {0} /\ r \in Seq(Object)
      /\ Len(r) = Len(q) - 1
      /\ \A j \in 1..Len(r) : r[j] = q[j + 1]
  BY HeadTailProperties, LenProperties, EmptySeq
<1> HIDE DEF r
<1>2. ASSUME NEW j \in 1..Len(r)
      PROVE  {q[i] : i \in 1..((j + 1) - 1)} = {q[1]} \cup {r[i] : i \in 1..(j - 1)}
  <2>1. ASSUME NEW i \in 1..((j + 1) - 1)
        PROVE  q[i] \in {q[1]} \cup {r[k] : k \in 1..(j - 1)}
    <3>1. CASE i = 1
      BY <3>1
    <3>2. CASE i # 1
      <4>1. i - 1 \in 1..(j - 1) /\ i - 1 \in 1..Len(r) /\ (i - 1) + 1 = i
        BY <1>1, <3>2
      <4> QED BY <1>1, <4>1
    <3> QED BY <3>1, <3>2
  <2>2. q[1] \in {q[i] : i \in 1..((j + 1) - 1)}
    <3>1. 1 \in 1..((j + 1) - 1)
      BY <1>1
    <3> QED BY <3>1
  <2>3. ASSUME NEW i \in 1..(j - 1)
        PROVE  r[i] \in {q[k] : k \in 1..((j + 1) - 1)}
    <3>1. i + 1 \in 1..((j + 1) - 1) /\ i \in 1..Len(r)
      BY <1>1
    <3> QED BY <1>1, <3>1
  <2> QED BY <2>1, <2>2, <2>3
<1>3. /\ \A j \in 1..Len(r) : j + 1 \in 1..Len(q)
      /\ \A j \in 1..Len(q) : j = 1 \/ j - 1 \in 1..Len(r)
  BY <1>1
<1> QED BY <1>1, <1>2, <1>3 DEF r

LEMMA ConstructNext ==
  ASSUME Inv, Construct
  PROVE  Inv'
<1>1. /\ phase = "construct" /\ todo # <<>> /\ todo' = Tail(todo)
      /\ UNCHANGED <<args, next, debugArgs, enableFlags, randomYield, testnum,
                     freed, userAbort, output>>
  BY DEF Construct, options
<1>2. todo \in Seq(Object)
  BY DEF Inv, Types
<1>3. \A j \in 1..Len(todo) :
        Needs(todo[j]) \subseteq alive \cup {todo[i] : i \in 1..(j - 1)}
  BY <1>1 DEF Inv, Constructing
\* Nothing stands before the head, so that all it needs is there.
<1>4. phase' = phase /\ alive' = alive \cup {todo[1]}
  <2>1. 1 \in 1..Len(todo) /\ Head(todo) = todo[1]
    BY <1>1, <1>2, HeadAndTail
  <2>2. {todo[i] : i \in 1..(1 - 1)} = {}
    OBVIOUS
  <2>3. Needs(Head(todo)) \subseteq alive
    BY <1>3, <2>1, <2>2
  <2> QED BY <2>1, <2>3 DEF Construct
<1>5. Constructing'
  <2>1. "timer" \in alive' \/ (\E j \in 1..Len(todo') : todo'[j] = "timer")
          <=> "timer" \in alive \/ (\E j \in 1..Len(todo) : todo[j] = "timer")
    <3>1. ASSUME NEW j \in 1..Len(todo), todo[j] = "timer"
          PROVE  "timer" \in alive' \/ (\E k \in 1..Len(todo') : todo'[k] = "timer")
      <4>1. CASE j = 1
        BY <1>4, <3>1, <4>1
      <4>2. CASE j # 1
        <5>1. j - 1 \in 1..Len(todo') /\ (j - 1) + 1 = j
          BY <1>1, <1>2, <4>2, HeadAndTail
        <5>2. todo'[j - 1] = "timer"
          BY <1>1, <1>2, <3>1, <5>1, HeadAndTail
        <5> QED BY <5>1, <5>2
      <4> QED BY <4>1, <4>2
    <3>2. ASSUME NEW j \in 1..Len(todo'), todo'[j] = "timer"
          PROVE  \E k \in 1..Len(todo) : todo[k] = "timer"
      BY <1>1, <1>2, <3>2, HeadAndTail
    <3>3. 1 \in 1..Len(todo)
      BY <1>1, <1>2, HeadAndTail
    <3> QED BY <1>4, <3>1, <3>2, <3>3
  <2>2. ASSUME NEW j \in 1..Len(todo')
        PROVE  Needs(todo'[j]) \subseteq alive' \cup {todo'[i] : i \in 1..(j - 1)}
    <3> DEFINE r == Tail(todo)
    <3>0. /\ j \in 1..Len(r)
          /\ \A i \in 1..Len(r) : i + 1 \in 1..Len(todo) /\ r[i] = todo[i + 1]
          /\ \A k \in 1..Len(r) : {todo[i] : i \in 1..((k + 1) - 1)}
                                    = {todo[1]} \cup {r[i] : i \in 1..(k - 1)}
      BY <1>1, <1>2, HeadAndTail
    <3>1. /\ j + 1 \in 1..Len(todo) /\ todo'[j] = todo[j + 1]
          /\ {todo[i] : i \in 1..((j + 1) - 1)}
               = {todo[1]} \cup {todo'[i] : i \in 1..(j - 1)}
      <4> HIDE DEF r
      <4>1. r = todo'
        BY <1>1 DEF r
      <4> QED BY <3>0, <4>1
    <3>2. Needs(todo[j + 1]) \subseteq alive \cup {todo[i] : i \in 1..((j + 1) - 1)}
      BY <1>3, <3>1
    <3> QED BY <1>4, <3>1, <3>2
  <2>3. "timer" \in alive \/ (\E j \in 1..Len(todo) : todo[j] = "timer")
          <=> randomYield
    BY <1>1 DEF Inv, Constructing
  <2>4. /\ phase' = "construct" /\ randomYield' = randomYield
    BY <1>1, <1>4
  <2> QED BY <2>1, <2>2, <2>3, <2>4 DEF Constructing
<1>6. Initializing'
  BY <1>1, <1>4, SameWords DEF Inv, Initializing, OptionsRead
<1>7. Types'
  BY <1>1, <1>2, HeadAndTail DEF Inv, Types
<1>8. Choosing' /\ Deleting' /\ Printing' /\ CrashesOnly'
  BY <1>1, <1>4 DEF Inv, Choosing, Deleting, Printing, CrashesOnly, Over
<1> QED BY <1>5, <1>6, <1>7, <1>8 DEF Inv

LEMMA InitializedNext ==
  ASSUME Inv, Initialized
  PROVE  Inv'
<1>1. /\ phase = "construct" /\ todo = <<>> /\ phase' = "main" /\ next' = 1
      /\ UNCHANGED <<args, debugArgs, enableFlags, randomYield, testnum, alive,
                     freed, todo, userAbort, output>>
  BY DEF Initialized, options
<1>2. Initializing'
  BY <1>1, SameWords DEF Inv, Initializing, OptionsRead
<1>3. Choosing'
  <2>1. ~IsOperand({"-q"}, next)'
    BY <1>1, SameWords, FirstIsNoOperand
  <2>2. next' - 1 = 0 /\ TestOf(0) = 1 /\ testnum = 1
    BY <1>1 DEF TestOf, Inv, Choosing
  <2>3. TestOf(next - 1)' = 1
    BY <1>1, <2>2, SameWords
  <2>4. next' <= Len(args)' + 1
    BY <1>1, LenProperties DEF Inv, Types
  <2> QED BY <1>1, <2>1, <2>2, <2>3, <2>4 DEF Choosing
<1>4. Constructing'
  <2>1. 1..Len(todo) = {}
    BY <1>1
  <2> QED BY <1>1, <2>1 DEF Inv, Constructing
<1>5. Types' /\ Deleting' /\ Printing' /\ CrashesOnly'
  BY <1>1 DEF Inv, Types, Deleting, Printing, CrashesOnly, Over
<1> QED BY <1>2, <1>3, <1>4, <1>5 DEF Inv

LEMMA MainWordNext ==
  ASSUME Inv, MainWord
  PROVE  Inv'
<1> DEFINE Q == {"-q"}
<1>1. /\ phase = "main" /\ next <= Len(args)
      /\ UNCHANGED <<args, debugArgs, enableFlags, randomYield, alive, freed, todo,
                     userAbort, output>>
  BY DEF MainWord, objects
<1>2. /\ Len(args) \in Nat /\ next \in Nat \ {0}
      /\ next + 1 - 1 = next /\ next + 2 - 1 = next + 1 /\ next + 1 > 0 /\ next > 0
  BY LenProperties DEF Inv, Types
<1>3. ~IsOperand(Q, next)
  BY <1>1 DEF Inv, Choosing
<1>4. IsOperand(Q, next + 1) <=> args[next] = "-q"
  BY <1>2, <1>3, OperandFollowsOption
<1>5. freed = {} /\ ~userAbort
  BY <1>1 DEF Inv, Deleting, Over
\* The null pointer behind a last -q.
<1>6. CASE args[next] = "-q" /\ next = Len(args)
  <2>1. phase' = "crashed" /\ UNCHANGED <<next, testnum>>
    BY <1>6 DEF MainWord, DashQ
  <2>2. args # <<>> /\ IsOption(Q, "-q", Len(args))
    BY <1>2, <1>3, <1>6, EmptySeq DEF IsOption
  <2>3. CrashesOnly'
    <3>1. IsOption(Q, "-q", Len(args))'
      BY <1>1, <2>2 DEF IsOption, IsOperand
    <3> QED BY <1>1, <1>5, <2>2, <3>1 DEF CrashesOnly
  <2> QED
    BY <1>1, <1>5, <2>1, <2>3
    DEF Inv, Types, Initializing, Choosing, Constructing, Deleting, Printing, Over
<1>7. CASE ~(args[next] = "-q" /\ next = Len(args))
  <2>1. phase' = "main"
    BY <1>1, <1>7 DEF MainWord, DashQ
  <2>2. /\ next' \in Nat \ {0} /\ next' <= Len(args) + 1
        /\ ~IsOperand(Q, next') /\ testnum' = TestOf(next' - 1)
    <3>1. CASE args[next] # "-q"
      <4>1. next' = next + 1 /\ testnum' = 1
        BY <3>1 DEF MainWord
      <4>2. TestOf(next) = 1
        BY <1>3 DEF TestOf
      <4> QED BY <1>1, <1>2, <1>4, <3>1, <4>1, <4>2
    <3>2. CASE args[next] = "-q"
      <4>1. next' = next + 2 /\ testnum' = atoi(args[next + 1]) /\ next # Len(args)
        BY <1>7, <3>2 DEF MainWord, DashQ
      <4>2. TestOf(next + 1) = atoi(args[next + 1])
        BY <1>2, <1>4, <3>2 DEF TestOf
      <4>3. ~IsOperand(Q, next + 2)
        <5>1. next + 1 \in Nat \ {0} /\ (next + 1) + 1 = next + 2
          BY <1>2
        <5> QED BY <1>4, <3>2, <5>1, OperandFollowsOption
      <4> QED BY <1>1, <1>2, <4>1, <4>2, <4>3
    <3> QED BY <3>1, <3>2
  <2>3. Choosing'
    BY <1>1, <2>1, <2>2, SameWords DEF Choosing
  <2>4. Initializing'
    BY <1>1, <2>1, SameWords DEF Inv, Initializing, OptionsRead
  <2>5. Types' /\ Constructing' /\ Deleting' /\ Printing' /\ CrashesOnly'
    BY <1>1, <2>1, <2>2
    DEF Inv, Types, Constructing, Deleting, Printing, CrashesOnly, Over
  <2> QED BY <2>3, <2>4, <2>5 DEF Inv
<1> QED BY <1>6, <1>7

LEMMA RunTestNext ==
  ASSUME Inv, RunTest
  PROVE  Inv'
<1>1. /\ phase = "main" /\ phase' = "print" /\ next > Len(args) /\ next' = next + 1
      /\ UNCHANGED <<args, debugArgs, enableFlags, randomYield, testnum, alive,
                     freed, todo, userAbort>>
  BY DEF RunTest, options, objects
<1>2. Choosing'
  <2>1. next - 1 = Len(args)
    BY <1>1, LenProperties DEF Inv, Types, Choosing
  <2>2. testnum = TestOf(Len(args))
    BY <1>1, <2>1 DEF Inv, Choosing
  <2> QED BY <1>1, <2>2, SameWords DEF Choosing
<1>3. Initializing'
  BY <1>1, SameWords DEF Inv, Initializing, OptionsRead
<1>4. Printing'
  <2>1. output = {}
    BY <1>1 DEF Inv, Printing
  <2>2. output' = IF testnum \in {1, 2} /\ DebugIsEnabled
                  THEN {"Entering the test"} ELSE {}
    BY <2>1 DEF RunTest, DEBUG
  <2> QED BY <1>1, <2>2 DEF Printing, DebugIsEnabled
<1>5. Types' /\ Constructing' /\ Deleting' /\ CrashesOnly'
  BY <1>1 DEF Inv, Types, Constructing, Deleting, CrashesOnly, Over
<1> QED BY <1>2, <1>3, <1>4, <1>5 DEF Inv

LEMMA PrintWordNext ==
  ASSUME Inv, PrintWord
  PROVE  Inv'
<1>1. /\ phase = "print" /\ phase' \in {"print", "finish"}
      /\ next' \in {next, next + 1}
      /\ \/ output' = output \/ output' = output \cup {"copyright"}
         \/ output' = output \cup {}
      /\ UNCHANGED <<args, debugArgs, enableFlags, randomYield, testnum, alive,
                     freed, todo, userAbort>>
  BY DEF PrintWord, options, objects
<1>2. Choosing' /\ Initializing'
  BY <1>1, SameWords DEF Inv, Choosing, Initializing, OptionsRead
<1>3. Printing'
  BY <1>1 DEF Inv, Printing, DebugIsEnabled
<1>4. next' \in Nat \ {0}
  BY <1>1 DEF Inv, Types
<1>5. Types' /\ Constructing' /\ Deleting' /\ CrashesOnly'
  BY <1>1, <1>4 DEF Inv, Types, Constructing, Deleting, CrashesOnly, Over
<1> QED BY <1>2, <1>3, <1>5 DEF Inv

\* Cleanup, after the machine has halted or by ctrl-C.
LEMMA CleanupNext ==
  ASSUME Inv, Halt \/ UserAbort
  PROVE  Inv'
<1>1. /\ phase' = "cleanup" /\ todo' = <<"timer", "scheduler", "interrupt">>
      /\ UNCHANGED <<args, next, debugArgs, enableFlags, randomYield, testnum,
                     alive, freed, output>>
      /\ userAbort' \/ freed = {}
  BY DEF Halt, UserAbort, Cleanup, options, Inv, Deleting, Over
<1>2. Types'
  <2>1. <<"timer", "scheduler", "interrupt">> \in Seq(Object)
    BY DEF Object
  <2> QED BY <1>1, <2>1 DEF Inv, Types
<1>3. Deleting'
  <2>1. ASSUME NEW j \in 1..Len(todo'), NEW i \in 1..(j - 1), todo'[i] = todo'[j]
        PROVE  FALSE
    BY <1>1, <2>1
  <2> QED BY <1>1, <2>1 DEF Deleting, Over
<1>4. Initializing' /\ Choosing' /\ Constructing' /\ Printing' /\ CrashesOnly'
  BY <1>1 DEF Initializing, Choosing, Constructing, Printing, CrashesOnly
<1> QED BY <1>2, <1>3, <1>4 DEF Inv

LEMMA DeleteNext ==
  ASSUME Inv, Delete
  PROVE  Inv'
<1>1. /\ phase = "cleanup" /\ todo # <<>> /\ todo' = Tail(todo)
      /\ phase' = "cleanup" \/ (phase' = "crashed" /\ Head(todo) \in freed)
      /\ freed' = freed \cup ({Head(todo)} \cap alive)
      /\ UNCHANGED <<args, next, debugArgs, enableFlags, randomYield, testnum,
                     userAbort, output>>
  BY DEF Delete, options
<1>2. todo \in Seq(Object)
  BY DEF Inv, Types
<1>3. Types'
  BY <1>1, <1>2, HeadAndTail DEF Inv, Types
<1>4. Deleting'
  <2> SUFFICES ASSUME ~userAbort, NEW j \in 1..Len(todo')
               PROVE  todo'[j] \notin freed' \cup {todo'[i] : i \in 1..(j - 1)}
    BY <1>1 DEF Deleting, Over
  <2> DEFINE r == Tail(todo)
  <2>1. /\ j \in 1..Len(r) /\ Head(todo) = todo[1]
        /\ \A i \in 1..Len(r) : i + 1 \in 1..Len(todo) /\ r[i] = todo[i + 1]
        /\ \A k \in 1..Len(r) : {todo[i] : i \in 1..((k + 1) - 1)}
                                  = {todo[1]} \cup {r[i] : i \in 1..(k - 1)}
    BY <1>1, <1>2, HeadAndTail
  <2> HIDE DEF r
  <2>2. r = todo'
    BY <1>1 DEF r
  <2>3. j + 1 \in 1..Len(todo) /\ todo'[j] = todo[j + 1]
    BY <2>1, <2>2
  <2>4. todo[j + 1] \notin freed \cup {todo[i] : i \in 1..((j + 1) - 1)}
    BY <1>1, <2>3 DEF Inv, Deleting
  <2>5. todo'[j] \notin freed \cup {todo[1]} \cup {todo'[i] : i \in 1..(j - 1)}
    BY <2>1, <2>2, <2>3, <2>4
  <2> QED BY <1>1, <2>1, <2>5
<1>5. CrashesOnly'
  <2> SUFFICES ASSUME phase' = "crashed" PROVE userAbort' /\ freed' # {}
    BY DEF CrashesOnly
  <2>1. Head(todo) \in freed /\ freed' # {}
    BY <1>1
  <2>2. 1 \in 1..Len(todo) /\ Head(todo) = todo[1]
    BY <1>1, <1>2, HeadAndTail
  <2> QED BY <1>1, <2>1, <2>2 DEF Inv, Deleting
<1>6. Initializing' /\ Choosing' /\ Constructing' /\ Printing'
  BY <1>1 DEF Initializing, Choosing, Constructing, Printing
<1> QED BY <1>3, <1>4, <1>5, <1>6 DEF Inv

LEMMA InvNext == Inv /\ [Next]_vars => Inv'
<1> SUFFICES ASSUME Inv, [Next]_vars PROVE Inv'
  OBVIOUS
<1>1. CASE Exit
  BY <1>1 DEF Exit, options, objects, Inv, Types, Initializing, Choosing,
              Constructing, Deleting, Printing, CrashesOnly, Over
<1>2. CASE UNCHANGED vars
  <2>1. UNCHANGED <<args, next, phase, debugArgs, enableFlags, randomYield,
                    testnum, alive, freed, todo, userAbort, output>>
    BY <1>2 DEF vars
  <2>2. Initializing' /\ Choosing'
    BY <2>1, SameWords DEF Inv, Initializing, Choosing, OptionsRead
  <2>3. CrashesOnly'
    BY <2>1 DEF Inv, CrashesOnly, IsOption, IsOperand
  <2>4. Types' /\ Deleting'
    BY <2>1 DEF Inv, Types, Deleting
  <2>5. Constructing'
    BY <2>1 DEF Inv, Constructing
  <2>6. Printing'
    BY <2>1 DEF Inv, Printing, DebugIsEnabled
  <2> QED BY <2>2, <2>3, <2>4, <2>5, <2>6 DEF Inv
<1> QED
  BY <1>1, <1>2, EnterMainNext, InitializeWordNext, DebugInitNext, ConstructNext,
     InitializedNext, MainWordNext, RunTestNext, PrintWordNext, CleanupNext,
     DeleteNext DEF Next, Step, Terminated

\* After each word both passes have done what the words before it ask for, every
\* object is made after those it needs, and none is deleted twice by one Cleanup.
THEOREM InvCorrect == Spec => []Inv
BY InvInit, InvNext, PTL DEF Spec

-----------------------------------------------------------------------------
(* The theorems. *)

\* The last word alone decides which test runs, on every command line.
THEOREM TestChosenCorrect == Spec => []TestChosen
<1>1. Inv => TestChosen
  <2> SUFFICES ASSUME Inv, phase \in {"print", "finish"}
               PROVE  testnum = IF args # <<>> /\ IsOperand({"-q"}, Len(args))
                                THEN atoi(args[Len(args)]) ELSE 1
    BY DEF TestChosen
  <2>1. testnum = TestOf(Len(args)) /\ args \in Seq(Word)
    BY DEF Inv, Choosing, Types
  <2>2. args # <<>> <=> Len(args) > 0
    BY <2>1, EmptySeq, LenProperties
  <2> QED BY <2>1, <2>2 DEF TestOf
<1> QED BY <1>1, InvCorrect, PTL

\* The timer, the debug flags and the messages are what the options among the
\* words ask for, on every command line.
THEOREM OptionsObeyedCorrect == Spec => []OptionsObeyed
<1>1. Inv => OptionsObeyed
  <2> SUFFICES ASSUME Inv, phase \in {"print", "finish"}
               PROVE  OptionsObeyed
    BY DEF OptionsObeyed
  <2>1. AskedFor(Len(args), randomYield, debugArgs) /\ enableFlags = debugArgs
    BY DEF Inv, Initializing, OptionsRead
  <2>2. "timer" \in alive <=> randomYield
    BY DEF Inv, Constructing
  <2>3. /\ "Entering the test" \in output <=> DebugIsEnabled /\ testnum \in {1, 2}
        /\ "Entering main" \notin output
    BY DEF Inv, Printing
  <2> QED
    BY <2>1, <2>2, <2>3
    DEF OptionsObeyed, AskedFor, DashDs, InitializeOptions
<1> QED BY <1>1, InvCorrect, PTL

\* The process crashes on a -q without operand or on a ctrl-C during Cleanup, and
\* for no other reason.
THEOREM CrashesOnlyCorrect == Spec => []CrashesOnly
<1>1. Inv => CrashesOnly
  BY DEF Inv
<1> QED BY <1>1, InvCorrect, PTL
=============================================================================
