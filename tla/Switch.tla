------------------------------- MODULE Switch -------------------------------
(***************************************************************************)
(* The context switch: SWITCH and ThreadRoot of switch.s with the offsets  *)
(* of switch.h, StackAllocate of thread.cc and the part of Run around      *)
(* SWITCH, instruction by instruction on memory and registers.  One of     *)
(* three hosts is chosen at the start: the i386 that the Makefile builds,  *)
(* the MIPS and the Snake; the SPARC, whose register windows the hardware  *)
(* spills, is left out.                                                    *)
(*                                                                         *)
(* Scheduling is left open: the current thread may switch to any thread    *)
(* that can run, itself included (see SwitchAway in Threads).  The         *)
(* procedures of threads are external: compiled code, which saves the      *)
(* callee-saved registers on its stack before it uses them and leaves      *)
(* anything in the others.  Memory is words, addressed <<kind, thread, i>>:*)
(* word i of a thread's Thread object or of its stack.                     *)
(***************************************************************************)
EXTENDS Naturals, Sequences, SequencesExt

CONSTANTS
  Thread, Main,   \* the threads; the one that main() runs in
  StackSize       \* words in a stack

ASSUME SwitchAssumption == Main \in Thread /\ StackSize \in Nat /\ StackSize > 36

VARIABLES
  host,                 \* the architecture the program was compiled for
  cpu,                  \* registers, pc, memory, and whether a wild write happened
  currentThread,
  threadToBeDestroyed,  \* a set: empty or one thread
  finished,             \* threads that called Finish
  calls,                \* history: what ThreadRoot called, the argument included
  kept                  \* history: pc, sp, callee-saved registers at the last SWITCH

vars == <<host, cpu, currentThread, threadToBeDestroyed, finished, calls, kept>>

-----------------------------------------------------------------------------
(* The hosts. *)

MachineStateSize == 18

\* What the first words of a Thread object hold, from stackTop on ("pc" is the
\* return address of SWITCH), and how ThreadRoot names the initial registers.
i386 ==
  [layout |-> <<"esp", "eax", "ebx", "ecx", "edx", "ebp", "esi", "edi", "pc">>,
   sp |-> "esp", link |-> "pc",
   InitialPC |-> "esi", InitialArg |-> "edx", WhenDonePC |-> "edi", StartupPC |-> "ecx",
   calleeSaved |-> <<"ebx", "ebp", "esi", "edi">>,
   scratch |-> {"eax", "ecx", "edx", "_eax_save"}]

MIPS ==
  [layout |-> <<"sp", "s0", "s1", "s2", "s3", "s4", "s5", "s6", "s7", "fp", "ra">>,
   sp |-> "sp", link |-> "ra",
   InitialPC |-> "s0", InitialArg |-> "s1", WhenDonePC |-> "s2", StartupPC |-> "s3",
   calleeSaved |-> <<"s0", "s1", "s2", "s3", "s4", "s5", "s6", "s7", "fp">>,
   scratch |-> {"arg0", "arg1"}]

SNAKE ==
  [layout |-> <<"sp", "r3", "r4", "r5", "r6", "r7", "r8", "r9", "r10", "r11", "r12",
                "r13", "r14", "r15", "r16", "r17", "r18", "rp">>,
   sp |-> "sp", link |-> "rp",
   InitialPC |-> "r3", InitialArg |-> "r4", WhenDonePC |-> "r5", StartupPC |-> "r6",
   calleeSaved |-> <<"r3", "r4", "r5", "r6", "r7", "r8", "r9", "r10", "r11", "r12",
                     "r13", "r14", "r15", "r16", "r17", "r18">>,
   scratch |-> {"arg0", "arg1"}]

Host == CASE host = "i386" -> i386 [] host = "MIPS" -> MIPS [] OTHER -> SNAKE

\* The offset of r in a Thread object, in words; machineState starts at 1.
Offset(r) == (CHOOSE i \in 1..Len(Host.layout) : Host.layout[i] = r) - 1

-----------------------------------------------------------------------------
(* Words and instructions. *)

Junk == <<"junk", "", 0>>
Zero == <<"zero", "", 0>>
Code(name) == <<"code", name, 0>>
Object(t) == <<"thread", t, 0>>
At(t, r) == <<"thread", t, Offset(r)>>   \* the word of the object that holds r
Func(t) == <<"func", t, 0>>
Arg(t) == <<"arg", t, 0>>
Plus(a, n) == <<a[1], a[2], a[3] + n>>
Minus(a, n) == <<a[1], a[2], a[3] - n>>

Set(m, r, w) == [m EXCEPT !.regs[r] = w]

Store(m, a, w) ==
  IF a \in DOMAIN m.mem THEN [m EXCEPT !.mem[a] = w] ELSE [m EXCEPT !.wild = TRUE]

Load(m, r, a) == Set(m, r, IF a \in DOMAIN m.mem THEN m.mem[a] ELSE Junk)

\* Stacks grow upward on the Snake.
Push(m, w) ==
  LET sp == m.regs[Host.sp]
  IN  IF host = "SNAKE" THEN Set(Store(m, sp, w), Host.sp, Plus(sp, 1))
                        ELSE Set(Store(m, Minus(sp, 1), w), Host.sp, Minus(sp, 1))

Pop(m, r) ==
  LET sp == m.regs[Host.sp]
  IN  IF host = "SNAKE" THEN Set(Load(m, r, Minus(sp, 1)), Host.sp, Minus(sp, 1))
                        ELSE Set(Load(m, r, sp), Host.sp, Plus(sp, 1))

Jump(m, w) == [m EXCEPT !.pc = w]

\* The 386 pushes the return address; the others leave it in a register.
Call(m, target, ret) ==
  Jump(IF host = "i386" THEN Push(m, ret) ELSE Set(m, Host.link, ret), target)

Ret(m) ==
  LET n == IF host = "i386" THEN Pop(m, "pc") ELSE m
  IN  Jump(n, n.regs[Host.link])

\* <<"mov", to, from, 0>>, <<"ld", r, base, offset>>, <<"st", r, base, offset>>,
\* <<"push", r, "", 0>> and <<"pop", r, "", 0>>.
Execute(m, i) ==
  CASE i[1] = "mov"  -> Set(m, i[2], m.regs[i[3]])
    [] i[1] = "ld"   -> Load(m, i[2], Plus(m.regs[i[3]], i[4]))
    [] i[1] = "st"   -> Store(m, Plus(m.regs[i[3]], i[4]), m.regs[i[2]])
    [] i[1] = "push" -> Push(m, m.regs[i[2]])
    [] i[1] = "pop"  -> Pop(m, i[2])

\* The machine after the instructions of code, one after the other.
Execution(m, code) ==
  LET after[n \in 0..Len(code)] ==
        IF n = 0 THEN m ELSE Execute(after[n - 1], code[n])
  IN  after[Len(code)]

-----------------------------------------------------------------------------
(* switch.s *)

Saves(registers, base) ==
  [i \in 1..Len(registers) |-> <<"st", registers[i], base, Offset(registers[i])>>]

Restores(registers, base) ==
  [i \in 1..Len(registers) |-> <<"ld", registers[i], base, Offset(registers[i])>>]

\* Mutant of ReturnSlot: 12(%esp).
ReturnSlotTooHigh == 3

\* Where the 386 stores the new thread's return address: 4(%esp), a word above the
\* one that "ret" pops, an argument of SWITCH or the margin of a new stack.
ReturnSlot == 1

\* SWITCH on the 386: the return address goes through ebx, eax through _eax_save.
SWITCH386 ==
  << <<"mov", "_eax_save", "eax", 0>>, <<"ld", "eax", "esp", 1>> >>
  \o Saves(<<"ebx", "ecx", "edx", "esi", "edi", "ebp", "esp">>, "eax")
  \o << <<"mov", "ebx", "_eax_save", 0>>, <<"st", "ebx", "eax", Offset("eax")>>,
        <<"ld", "ebx", "esp", 0>>, <<"st", "ebx", "eax", Offset("pc")>>,
        <<"ld", "eax", "esp", 2>>,
        <<"ld", "ebx", "eax", Offset("eax")>>, <<"mov", "_eax_save", "ebx", 0>> >>
  \o Restores(<<"ebx", "ecx", "edx", "esi", "edi", "ebp", "esp">>, "eax")
  \o << <<"ld", "eax", "eax", Offset("pc")>>, <<"st", "eax", "esp", ReturnSlot>>,
        <<"mov", "eax", "_eax_save", 0>> >>

\* On the MIPS and the Snake all registers are saved, then all restored.  The Snake
\* restores the last one in the delay slot of its return, before it takes effect.
SwitchRISC == Saves(Host.layout, "arg0") \o Restores(Host.layout, "arg1")

\* Mutant of SwitchCode: a register is restored before it is saved.
SwitchCodeRestoresFirst ==
  IF host = "i386" THEN SWITCH386
  ELSE Restores(<<Host.calleeSaved[1]>>, "arg1") \o SwitchRISC

SwitchCode == IF host = "i386" THEN SWITCH386 ELSE SwitchRISC

\* The instructions of ThreadRoot up to its first call: the 386 opens a frame and
\* pushes the argument, the MIPS clears fp.
ThreadRootEntry(m) ==
  CASE host = "i386" ->
         LET n == Push(m, m.regs["ebp"])
         IN  Push(Set(n, "ebp", n.regs["esp"]), n.regs[Host.InitialArg])
    [] host = "MIPS" -> Set(m, "fp", Zero)
    [] OTHER -> m

\* Mutant of LoadArgument: the argument register is taken as it is.
LoadArgumentNever(m) == m

\* The argument register of InitialPC is loaded after StartupPC has returned.
LoadArgument(m) == IF host = "i386" THEN m ELSE Set(m, "arg0", m.regs[Host.InitialArg])

\* The argument that a procedure called now would find.
Argument(m) == IF host = "i386" THEN m.mem[m.regs["esp"]] ELSE m.regs["arg0"]

-----------------------------------------------------------------------------
(* External: compiled procedures. *)

Frame == IF host = "i386" THEN Host.calleeSaved ELSE Append(Host.calleeSaved, Host.link)

Compute(m, t, v) ==
  [m EXCEPT !.regs = [r \in DOMAIN @ |->
     IF Contains(Host.calleeSaved, r) THEN <<v, t, r>>
     ELSE IF r = Host.sp THEN @[r] ELSE Junk]]

Pushes(registers) == [i \in 1..Len(registers) |-> <<"push", registers[i], "", 0>>]
Pops(registers) == [i \in 1..Len(registers) |-> <<"pop", registers[i], "", 0>>]

Prologue(m, t) == Compute(Execution(m, Pushes(Frame)), t, "v1")

Epilogue(m) == Execution(m, Pops(Reverse(Frame)))

\* The procedures: every thread's own, InterruptEnable and ThreadFinish.
Procedure == {Func(t) : t \in Thread} \cup {Code("InterruptEnable"), Code("ThreadFinish")}

-----------------------------------------------------------------------------
Stack(t) == {<<"stack", t, i>> : i \in 0..(StackSize - 1)}
Words(t) == {<<"thread", t, i>> : i \in 0..MachineStateSize}

Registers == {Host.layout[i] : i \in 1..Len(Host.layout)} \cup Host.scratch

\* The main thread runs on the process's stack, somewhere in the middle of it.
Init ==
  /\ host \in {"i386", "MIPS", "SNAKE"}
  /\ cpu = [regs |-> [r \in Registers |->
                        IF r = Host.sp THEN <<"stack", Main, StackSize \div 2>> ELSE Junk],
            mem |-> [a \in Stack(Main) \cup UNION {Words(t) : t \in Thread} |-> Junk],
            pc |-> Func(Main), wild |-> FALSE]
  /\ currentThread = Main
  /\ threadToBeDestroyed = {} /\ finished = {}
  /\ calls = [t \in Thread |-> <<>>]
  /\ kept = [t \in Thread |-> <<>>]

Forked(t) == t # Main /\ <<"stack", t, 0>> \in DOMAIN cpu.mem

Fencepost(t) == <<"stack", t, IF host = "SNAKE" THEN StackSize - 1 ELSE 0>>

CheckOverflow(t) == Forked(t) => cpu.mem[Fencepost(t)] = Code("STACK_FENCEPOST")

\* Mutant of FirstFrame: nothing above the stack pointer.
FirstFrameAtEnd(t) == <<"stack", t, IF host = "SNAKE" THEN 16 ELSE StackSize>>

\* Where the stack of a new thread begins.
FirstFrame(t) == <<"stack", t, IF host = "SNAKE" THEN 16 ELSE StackSize - 4>>

\* Where its stack pointer starts: the 386 finds a return address there.
StackTop(t) == IF host = "i386" THEN Minus(FirstFrame(t), 1) ELSE FirstFrame(t)

\* What StackAllocate leaves at the address a of the memory mem.
Laid(mem, t, a) ==
  CASE a = Object(t) -> StackTop(t)
    [] a = At(t, Host.link) -> Code("ThreadRoot")
    [] a = At(t, Host.StartupPC) -> Code("InterruptEnable")
    [] a = At(t, Host.InitialPC) -> Func(t)
    [] a = At(t, Host.InitialArg) -> Arg(t)
    [] a = At(t, Host.WhenDonePC) -> Code("ThreadFinish")
    [] a = StackTop(t) /\ host = "i386" -> Code("ThreadRoot")
    [] a = Fencepost(t) -> Code("STACK_FENCEPOST")
    [] OTHER -> IF a \in Stack(t) THEN Junk ELSE mem[a]

Fork(t) ==
  /\ cpu.pc = Func(currentThread)
  /\ t # Main /\ ~Forked(t) /\ t \notin finished
  /\ cpu' = [cpu EXCEPT !.mem = [a \in DOMAIN @ \cup Stack(t) |-> Laid(@, t, a)]]
  /\ UNCHANGED <<host, currentThread, threadToBeDestroyed, finished, calls, kept>>

-----------------------------------------------------------------------------
(* Run. *)

CanRun == {t \in Thread : t \notin finished /\ (t = Main \/ Forked(t))}

\* The pushes of the 386, or the argument registers, for SWITCH(old, new).
PassThreads(m, new) ==
  IF host = "i386"
  THEN Push(Push(m, Object(new)), Object(currentThread))
  ELSE Set(Set(m, "arg0", Object(currentThread)), "arg1", Object(new))

\* The current procedure calls Run, by way of Yield or Sleep, and Run SWITCH.
Run(new) ==
  LET m == PassThreads(Push(cpu, cpu.pc), new)
  IN  /\ cpu.pc \in Procedure
      /\ CheckOverflow(currentThread)
      /\ cpu' = Ret(Execution(Call(m, Code("SWITCH"), Code("Run")), SwitchCode))
      /\ currentThread' = new
      /\ kept' = [kept EXCEPT ![currentThread] =
                    [pc |-> cpu.pc,
                     regs |-> [r \in {Host.sp} \cup ToSet(Host.calleeSaved) |-> m.regs[r]]]]
      /\ UNCHANGED <<host, calls>>

Yield ==
  /\ cpu.pc # Code("ThreadFinish")
  /\ \E t \in CanRun : Run(t)
  /\ UNCHANGED <<threadToBeDestroyed, finished>>

\* main() ends in Finish as well.
Finish ==
  /\ cpu.pc = Code("ThreadFinish") \/ cpu.pc = Func(Main)
  /\ \E t \in CanRun \ {currentThread} : Run(t)
  /\ threadToBeDestroyed' = {currentThread}
  /\ finished' = finished \cup {currentThread}

\* What "delete threadToBeDestroyed" frees.
Deleted(t) == Words(t) \cup IF t = Main THEN {} ELSE Stack(t)

\* SWITCH has returned in Run: the carcass is deleted and Run returns.
AfterSWITCH ==
  LET freed == UNION {Deleted(t) : t \in threadToBeDestroyed}
      m == IF host = "i386" THEN Pop(Pop(cpu, "pc"), "pc") ELSE cpu
      n == Pop(m, Host.link)
  IN  /\ cpu.pc = Code("Run")
      /\ cpu' = [Jump(n, n.regs[Host.link]) EXCEPT
                   !.mem = [a \in DOMAIN @ \ freed |-> @[a]]]
      /\ threadToBeDestroyed' = {}
      /\ UNCHANGED <<host, currentThread, finished, calls, kept>>

-----------------------------------------------------------------------------
(* ThreadRoot and the procedures it calls. *)

\* ThreadRoot calls the procedure in register r, to go on at ret.
RootCalls(m, r, ret, recorded) ==
  /\ cpu' = Prologue(Call(m, m.regs[r], ret), currentThread)
  /\ calls' = [calls EXCEPT ![currentThread] = @ \o <<m.regs[r]>> \o recorded]
  /\ UNCHANGED <<host, currentThread, threadToBeDestroyed, finished, kept>>

ThreadRoot ==
  \/ /\ cpu.pc = Code("ThreadRoot")
     /\ RootCalls(ThreadRootEntry(cpu), Host.StartupPC, Code("started"), <<>>)
  \/ /\ cpu.pc = Code("started")
     /\ LET m == LoadArgument(cpu)
        IN  RootCalls(m, Host.InitialPC, Code("returned"), <<Argument(m)>>)
  \/ /\ cpu.pc = Code("returned")
     /\ RootCalls(cpu, Host.WhenDonePC, Code("NOT REACHED"), <<>>)

\* The procedure works on, or returns to ThreadRoot.
Work ==
  /\ cpu.pc = Func(currentThread)
  /\ \E v \in {"v1", "v2"} : cpu' = Compute(cpu, currentThread, v)
  /\ UNCHANGED <<host, currentThread, threadToBeDestroyed, finished, calls, kept>>

Return ==
  /\ cpu.pc \in Procedure \ {Code("ThreadFinish"), Func(Main)}
  /\ cpu' = Ret(Epilogue(cpu))
  /\ UNCHANGED <<host, currentThread, threadToBeDestroyed, finished, calls, kept>>

\* Finish with nobody left to run: the machine halts.
Halted ==
  /\ cpu.pc = Code("ThreadFinish") /\ CanRun \subseteq {currentThread}
  /\ UNCHANGED vars

Next ==
  \/ \E t \in Thread : Fork(t)
  \/ Yield \/ Finish \/ AfterSWITCH \/ ThreadRoot \/ Work \/ Return \/ Halted

Spec == Init /\ [][Next]_vars

-----------------------------------------------------------------------------
(* Properties. *)

\* A thread that gets the CPU back in Run finds its stack pointer and the
\* callee-saved registers as they were when it called SWITCH, whatever the
\* threads in between did with theirs.
ContextKept ==
  cpu.pc = Code("Run") =>
    \A r \in DOMAIN kept[currentThread].regs :
      cpu.regs[r] = kept[currentThread].regs[r]

\* Run then returns into the procedure that gave up the CPU: nobody wrote on the
\* part of the stack that leads there, StackAllocate and SWITCH included.
ReturnsToCaller ==
  [][cpu.pc = Code("Run") => cpu'.pc = kept[currentThread].pc]_vars

\* ThreadRoot "enables interrupts, calls (*func)(arg), calls Thread::Finish", in
\* this order and with this thread's func and arg, although InterruptEnable may
\* switch away at once and the registers are all that ThreadRoot has.
EntersProcedure ==
  \A t \in Thread :
    IsPrefix(calls[t],
      <<Code("InterruptEnable"), Func(t), Arg(t), Code("ThreadFinish")>>)

\* Every word written is in a live Thread object or stack, the stack in use is
\* the current thread's, and no fencepost is overwritten ("-4 to be on the safe
\* side!").
InBounds ==
  /\ ~cpu.wild
  /\ cpu.regs[Host.sp] \in Stack(currentThread)
  /\ \A t \in Thread : CheckOverflow(t)
=============================================================================
