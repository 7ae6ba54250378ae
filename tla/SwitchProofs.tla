---------------------------- MODULE SwitchProofs ----------------------------
(***************************************************************************)
(* Proofs about Switch: for any threads, stacks of any size that is large  *)
(* enough, and each of the three hosts.  The invariant tells, for every    *)
(* thread, which words of its Thread object and its stack hold what; the   *)
(* lemmas go from a single instruction to rows of them, to SWITCH, to Run  *)
(* and the other actions.                                                  *)
(***************************************************************************)
EXTENDS Switch, SequenceTheorems, WellFoundedInduction, TLAPS

-----------------------------------------------------------------------------
(* Addresses. *)

\* The registers that a procedure finds unchanged when a call returns.
CalleeSaved == ToSet(Host.calleeSaved)

\* Where the stack pointer of t starts, and where it is at depth d, when d words have
\* been pushed on what the stack starts with; the d-th of these words.
Base(t) ==
  IF t = Main THEN StackSize \div 2 ELSE IF host = "SNAKE" THEN 16 ELSE StackSize - 4

SP(t, d) == <<"stack", t, IF host = "SNAKE" THEN Base(t) + d ELSE Base(t) - d>>
Slot(t, d) == <<"stack", t, IF host = "SNAKE" THEN Base(t) + d - 1 ELSE Base(t) - d>>

\* The depth of ThreadRoot, of a procedure that it has called and of the frame of that
\* procedure; main() has no caller.
RootDepth == IF host = "i386" THEN 2 ELSE 0
CallDepth == IF host = "i386" THEN 3 ELSE 0
Inside(t) == IF t = Main THEN 0 ELSE CallDepth + Len(Frame)

\* The depth at which Run has called SWITCH, and at which SWITCH leaves the stack.
RunDepth(t) == Inside(t) + IF host = "i386" THEN 3 ELSE 1
SwitchDepth(t) == Inside(t) + IF host = "i386" THEN 4 ELSE 1

-----------------------------------------------------------------------------
(* What the memory and the registers hold for a thread. *)

IE == Code("InterruptEnable")
TF == Code("ThreadFinish")

\* The frame of a procedure of t that returns to ret in ThreadRoot.
ReturnsTo(mem, t, ret) ==
  /\ \A i \in 1..Len(Frame) :
       /\ Frame[i] = Host.InitialPC => mem[Slot(t, CallDepth + i)] = Func(t)
       /\ Frame[i] = Host.InitialArg => mem[Slot(t, CallDepth + i)] = Arg(t)
       /\ Frame[i] = Host.WhenDonePC => mem[Slot(t, CallDepth + i)] = TF
       /\ Frame[i] = Host.link => mem[Slot(t, CallDepth + i)] = ret
  /\ host = "i386" => mem[Slot(t, 2)] = Arg(t) /\ mem[Slot(t, 3)] = ret

\* Thread t has called the procedure p, called being the history of ThreadRoot's calls.
InProcedure(mem, t, p, called) ==
  \/ t = Main /\ p = Func(Main) /\ called = <<>>
  \/ /\ t # Main /\ p = IE /\ called = <<IE>>
     /\ ReturnsTo(mem, t, Code("started"))
  \/ /\ t # Main /\ p = Func(t) /\ called = <<IE, Func(t), Arg(t)>>
     /\ ReturnsTo(mem, t, Code("returned"))
  \/ t # Main /\ p = TF /\ called = <<IE, Func(t), Arg(t), TF>>

\* Thread t is in Run, called by the procedure that k, the history, tells.
InRun(mem, t, called, k) ==
  /\ InProcedure(mem, t, k.pc, called)
  /\ mem[Slot(t, Inside(t) + 1)] = k.pc
  /\ DOMAIN k.regs = {Host.sp} \cup CalleeSaved
  /\ k.regs[Host.sp] = SP(t, RunDepth(t))

\* Thread t has been switched away from.
Suspended(mem, t, called, k) ==
  /\ InRun(mem, t, called, k)
  /\ \A r \in CalleeSaved : mem[At(t, r)] = k.regs[r]
  /\ mem[At(t, Host.sp)] = SP(t, SwitchDepth(t))
  /\ mem[At(t, Host.link)] = Code("Run")
  /\ host = "i386" => mem[Slot(t, SwitchDepth(t))] = Code("Run")

\* Thread t has been forked and never run.
Fresh(mem, t, called) ==
  /\ t # Main /\ called = <<>>
  /\ mem[At(t, Host.sp)] = SP(t, IF host = "i386" THEN 1 ELSE 0)
  /\ mem[At(t, Host.link)] = Code("ThreadRoot")
  /\ mem[At(t, Host.StartupPC)] = IE
  /\ mem[At(t, Host.InitialPC)] = Func(t)
  /\ mem[At(t, Host.InitialArg)] = Arg(t)
  /\ mem[At(t, Host.WhenDonePC)] = TF
  /\ host = "i386" => mem[Slot(t, 1)] = Code("ThreadRoot")

\* The current thread is in ThreadRoot.
InRoot(c, t, called) ==
  \/ /\ c.pc = Code("ThreadRoot") /\ called = <<>>
     /\ c.regs[Host.sp] = SP(t, 0)
     /\ c.regs[Host.StartupPC] = IE
     /\ c.regs[Host.InitialPC] = Func(t)
     /\ c.regs[Host.InitialArg] = Arg(t)
     /\ c.regs[Host.WhenDonePC] = TF
  \/ /\ c.pc = Code("started") /\ called = <<IE>>
     /\ c.regs[Host.sp] = SP(t, RootDepth)
     /\ c.regs[Host.InitialPC] = Func(t)
     /\ IF host = "i386" THEN c.mem[Slot(t, 2)] = Arg(t)
                         ELSE c.regs[Host.InitialArg] = Arg(t)
     /\ c.regs[Host.WhenDonePC] = TF
  \/ /\ c.pc = Code("returned") /\ called = <<IE, Func(t), Arg(t)>>
     /\ c.regs[Host.sp] = SP(t, RootDepth)
     /\ c.regs[Host.WhenDonePC] = TF

\* The current thread is in Run, after SWITCH, in a procedure of its own, or in ThreadRoot.
Running(c, t, called, k) ==
  \/ /\ c.pc = Code("Run")
     /\ InRun(c.mem, t, called, k)
     /\ \A r \in {Host.sp} \cup CalleeSaved : c.regs[r] = k.regs[r]
  \/ /\ InProcedure(c.mem, t, c.pc, called)
     /\ c.regs[Host.sp] = SP(t, Inside(t))
  \/ t # Main /\ InRoot(c, t, called)

-----------------------------------------------------------------------------
(* The invariant, of the machine c with the current thread and the rest. *)

\* c has the fields, registers and memory that a machine has.
Machine(c) ==
  /\ c = [regs |-> c.regs, mem |-> c.mem, pc |-> c.pc, wild |-> c.wild]
  /\ c.regs = [r \in Registers |-> c.regs[r]]
  /\ c.mem = [a \in DOMAIN c.mem |-> c.mem[a]]

HasStack(mem, t) == t = Main \/ <<"stack", t, 0>> \in DOMAIN mem

\* The objects of the threads that have not finished and the stacks not yet freed are there,
\* whole, and the fenceposts stand.
Memory(mem, fin) ==
  /\ \A t \in Thread \ fin : Words(t) \subseteq DOMAIN mem
  /\ \A t \in Thread : HasStack(mem, t) => Stack(t) \subseteq DOMAIN mem
  /\ \A t \in Thread :
       HasStack(mem, t) /\ t # Main => mem[Fencepost(t)] = Code("STACK_FENCEPOST")

\* What ThreadRoot may have called for t.
CallsSoFar(t) ==
  {<<>>, <<IE>>, <<IE, Func(t), Arg(t)>>, <<IE, Func(t), Arg(t), TF>>}

\* Every unfinished thread with a stack is the current one, or fresh, or suspended; the
\* others have made no call.
Coherent(c, cur, tbd, fin, cs, ks) ==
  /\ Machine(c) /\ c.wild = FALSE
  /\ Memory(c.mem, fin)
  /\ cur \in Thread \ fin /\ HasStack(c.mem, cur) /\ tbd \subseteq fin
  /\ Running(c, cur, cs[cur], ks[cur])
  /\ \A t \in Thread \ (fin \cup {cur}) :
       HasStack(c.mem, t) => \/ Fresh(c.mem, t, cs[t])
                             \/ Suspended(c.mem, t, cs[t], ks[t])
  /\ \A t \in Thread : ~HasStack(c.mem, t) /\ t \notin fin => cs[t] = <<>>
  /\ \A t \in Thread : cs[t] \in CallsSoFar(t)
  /\ cs = [t \in Thread |-> cs[t]] /\ ks = [t \in Thread |-> ks[t]]

Inv ==
  /\ host \in {"i386", "MIPS", "SNAKE"}
  /\ Coherent(cpu, currentThread, threadToBeDestroyed, finished, calls, kept)

-----------------------------------------------------------------------------
(* Executing instructions one after the other. *)

\* Induction over a set of numbers, from the well-foundedness of <.
LEMMA Induction ==
  ASSUME NEW S \in SUBSET Nat, 0 \in S, \A n \in Nat : n \in S => n + 1 \in S
  PROVE  S = Nat
<1> SUFFICES ASSUME Nat \ S # {} PROVE FALSE
  OBVIOUS
<1>1. \E x \in Nat \ S : \A y \in Nat \ S : ~(<<y, x>> \in OpToRel(<, Nat))
  BY NatLessThanWellFounded, WFMin
<1>2. PICK x \in Nat \ S : \A y \in Nat \ S : ~(y < x)
  BY <1>1 DEF OpToRel
<1>3. x - 1 \in Nat /\ x - 1 < x /\ (x - 1) + 1 = x
  BY <1>2
<1>4. x - 1 \in S
  BY <1>2, <1>3
<1> QED BY <1>2, <1>3, <1>4

\* The machines e[0], e[1], ... that code goes through from m on.
Executes(e, m, code) ==
  e[0] = m /\ \A n \in 1..Len(code) : e[n] = Execute(e[n - 1], code[n])

\* Execution is where the instructions lead, step by step.
LEMMA ExecutionSteps ==
  ASSUME NEW m, NEW code, Len(code) \in Nat
  PROVE  \E e : Executes(e, m, code) /\ Execution(m, code) = e[Len(code)]
<1> DEFINE Step(f, n) == IF n = 0 THEN m ELSE Execute(f[n - 1], code[n])
           Runs(k) == \E f : f = [n \in 0..k |-> Step(f, n)]
           S == {k \in Nat : Runs(k)}
           Fun(f) == f = [n \in 0..Len(code) |-> Step(f, n)]
           e == CHOOSE f : Fun(f)
<1>1. 0 \in S
  <2>1. [n \in 0..0 |-> m] = [n \in 0..0 |-> Step([k \in 0..0 |-> m], n)]
    OBVIOUS
  <2> QED BY <2>1
<1>2. ASSUME NEW k \in Nat, k \in S PROVE k + 1 \in S
  <2>1. PICK f : f = [n \in 0..k |-> Step(f, n)]
    BY <1>2
  <2> DEFINE g == [n \in 0..(k + 1) |-> IF n = k + 1 THEN Step(f, k + 1) ELSE f[n]]
  <2> HIDE DEF Step
  <2>2. ASSUME NEW n \in 0..(k + 1) PROVE g[n] = Step(g, n)
    <3>1. CASE n = 0
      BY <2>1, <3>1 DEF Step
    <3>2. CASE n = k + 1
      <4>1. n - 1 = k /\ k \in 0..(k + 1) /\ k # k + 1 /\ n # 0
        BY <3>2
      <4>2. g[n - 1] = f[n - 1]
        BY <4>1
      <4> QED BY <3>2, <4>1, <4>2 DEF Step
    <3>3. CASE n \in 1..k
      <4>1. n \in 0..k /\ n - 1 \in 0..(k + 1) /\ n - 1 # k + 1 /\ n # k + 1 /\ n # 0
        BY <3>3
      <4>2. g[n] = f[n] /\ g[n - 1] = f[n - 1] /\ f[n] = Step(f, n)
        BY <2>1, <4>1
      <4> QED BY <4>1, <4>2 DEF Step
    <3> QED BY <3>1, <3>2, <3>3
  <2>3. g = [n \in 0..(k + 1) |-> Step(g, n)]
    BY <2>2
  <2> HIDE DEF g
  <2>4. Runs(k + 1)
    BY <2>3, Zenon
  <2> QED BY <2>4
<1>3. Runs(Len(code))
  <2>1. S = Nat
    BY <1>1, <1>2, Induction
  <2> QED BY <2>1
<1>4. Fun(e)
  <2>1. PICK f : Fun(f)
    BY <1>3
  <2> QED BY <2>1
<1>5. Execution(m, code) = e[Len(code)]
  BY DEF Execution
<1>6. Executes(e, m, code)
  <2> HIDE DEF e
  <2>1. e[0] = m
    BY <1>4
  <2>2. ASSUME NEW n \in 1..Len(code) PROVE e[n] = Execute(e[n - 1], code[n])
    BY <1>4
  <2> QED BY <2>1, <2>2 DEF Executes
<1> QED BY <1>5, <1>6

\* Any such machines lead to the same one.
LEMMA ExecutionUnique ==
  ASSUME NEW m, NEW code, Len(code) \in Nat, NEW f, Executes(f, m, code)
  PROVE  Execution(m, code) = f[Len(code)]
<1>1. PICK e : Executes(e, m, code) /\ Execution(m, code) = e[Len(code)]
  BY ExecutionSteps
<1> DEFINE S == {n \in Nat : n \in 0..Len(code) => e[n] = f[n]}
<1>2. 0 \in S
  BY <1>1 DEF Executes
<1>3. ASSUME NEW n \in Nat, n \in S PROVE n + 1 \in S
  <2> SUFFICES ASSUME n + 1 \in 0..Len(code) PROVE e[n + 1] = f[n + 1]
    OBVIOUS
  <2>1. n + 1 \in 1..Len(code) /\ n \in 0..Len(code) /\ (n + 1) - 1 = n
    OBVIOUS
  <2>2. e[n] = f[n]
    BY <1>3, <2>1
  <2> QED BY <1>1, <2>1, <2>2 DEF Executes
<1>4. S = Nat
  BY <1>2, <1>3, Induction
<1>5. Len(code) \in S
  BY <1>4
<1> QED BY <1>1, <1>5

\* p is a sequence, of anything.
Program(p) == Len(p) \in Nat /\ p = [i \in 1..Len(p) |-> p[i]]

LEMMA ProgramConcat ==
  ASSUME NEW p, NEW q, Program(p), Program(q)
  PROVE  /\ Program(p \o q) /\ Len(p \o q) = Len(p) + Len(q)
         /\ \A i \in 1..Len(p) : (p \o q)[i] = p[i]
         /\ \A i \in 1..Len(q) : (p \o q)[Len(p) + i] = q[i]
<1> DEFINE S == {p[i] : i \in 1..Len(p)} \cup {q[i] : i \in 1..Len(q)}
<1>1. p \in Seq(S) /\ q \in Seq(S)
  BY DEF Program
<1>2. /\ p \o q \in Seq(S) /\ Len(p \o q) = Len(p) + Len(q)
      /\ \A i \in 1..(Len(p) + Len(q)) :
           (p \o q)[i] = IF i <= Len(p) THEN p[i] ELSE q[i - Len(p)]
  BY <1>1, ConcatProperties
<1>3. Len(p) \in Nat /\ Len(q) \in Nat
  BY DEF Program
<1>4. Program(p \o q)
  <2> DEFINE r == p \o q
  <2> HIDE DEF r
  <2>1. r \in [1..Len(r) -> S] /\ Len(r) \in Nat
    BY <1>2, LenProperties DEF r
  <2>2. r = [i \in 1..Len(r) |-> r[i]]
    BY <2>1
  <2> QED BY <2>1, <2>2 DEF Program, r
<1>5. \A i \in 1..Len(p) : (p \o q)[i] = p[i]
  BY <1>2, <1>3
<1>6. ASSUME NEW i \in 1..Len(q) PROVE (p \o q)[Len(p) + i] = q[i]
  <2>1. /\ Len(p) + i \in 1..(Len(p) + Len(q)) /\ ~(Len(p) + i <= Len(p))
        /\ (Len(p) + i) - Len(p) = i
    BY <1>3
  <2> QED BY <1>2, <2>1
<1> QED BY <1>2, <1>4, <1>5, <1>6

\* p and then q.
LEMMA ExecutionConcat ==
  ASSUME NEW m, NEW p, NEW q, Program(p), Program(q)
  PROVE  Execution(m, p \o q) = Execution(Execution(m, p), q)
<1> DEFINE n == Execution(m, p)
           r == p \o q
<1>0. Len(p) \in Nat /\ Len(q) \in Nat /\ Len(r) = Len(p) + Len(q)
  BY ProgramConcat DEF Program
<1> HIDE DEF r
<1>1. PICK e : Executes(e, m, r) /\ Execution(m, r) = e[Len(r)]
  BY <1>0, ExecutionSteps
<1>2. Executes(e, m, p)
  <2>1. ASSUME NEW i \in 1..Len(p) PROVE e[i] = Execute(e[i - 1], p[i])
    <3>1. i \in 1..Len(r) /\ r[i] = p[i]
      BY <1>0, ProgramConcat DEF r
    <3> QED BY <1>1, <3>1 DEF Executes
  <2> QED BY <1>1, <2>1 DEF Executes
<1>3. n = e[Len(p)]
  BY <1>0, <1>2, ExecutionUnique
<1> DEFINE f == [i \in 0..Len(q) |-> e[Len(p) + i]]
<1>4. Executes(f, n, q)
  <2>1. f[0] = n
    BY <1>0, <1>3
  <2>2. ASSUME NEW i \in 1..Len(q) PROVE f[i] = Execute(f[i - 1], q[i])
    <3>1. /\ Len(p) + i \in 1..Len(r) /\ (Len(p) + i) - 1 = Len(p) + (i - 1)
          /\ i \in 0..Len(q) /\ i - 1 \in 0..Len(q)
      BY <1>0
    <3>2. r[Len(p) + i] = q[i]
      BY ProgramConcat DEF r
    <3>3. e[Len(p) + i] = Execute(e[Len(p) + (i - 1)], q[i])
      BY <1>1, <3>1, <3>2 DEF Executes
    <3> QED BY <3>1, <3>3
  <2> HIDE DEF f, n
  <2> QED BY <2>1, <2>2 DEF Executes
<1>5. Execution(n, q) = f[Len(q)]
  <2> HIDE DEF f, n
  <2> QED BY <1>0, <1>4, ExecutionUnique
<1> QED BY <1>0, <1>1, <1>5 DEF r

-----------------------------------------------------------------------------
(* The hosts. *)

LayoutOf(H) == {H.layout[i] : i \in 1..Len(H.layout)}
CalleeSavedOf(H) == {H.calleeSaved[i] : i \in 1..Len(H.calleeSaved)}

Layout == LayoutOf(Host)

Hosts == host \in {"i386", "MIPS", "SNAKE"}

\* What the three architectures have in common.
WellFormed(H) ==
  /\ Program(H.layout) /\ Len(H.layout) \in 1..18
  /\ Program(H.calleeSaved) /\ Len(H.calleeSaved) \in 1..16
  /\ \A i, j \in 1..Len(H.layout) : H.layout[i] = H.layout[j] => i = j
  /\ \A i, j \in 1..Len(H.calleeSaved) : H.calleeSaved[i] = H.calleeSaved[j] => i = j
  /\ CalleeSavedOf(H) \subseteq LayoutOf(H) \ {H.sp, H.link}
  /\ {H.sp, H.link, H.InitialPC, H.InitialArg, H.WhenDonePC, H.StartupPC}
       \subseteq LayoutOf(H)
  /\ H.layout[1] = H.sp
  /\ H.sp \notin {H.link, H.InitialPC, H.InitialArg, H.WhenDonePC, H.StartupPC}
  /\ H.link \notin {H.InitialPC, H.InitialArg, H.WhenDonePC, H.StartupPC}
  /\ H.InitialPC \notin {H.InitialArg, H.WhenDonePC, H.StartupPC}
  /\ H.InitialArg \notin {H.WhenDonePC, H.StartupPC}
  /\ H.WhenDonePC # H.StartupPC
  /\ {H.InitialPC, H.WhenDonePC} \subseteq CalleeSavedOf(H)

\* The MIPS and the Snake pass arguments in registers that a Thread object does not
\* hold, and keep InitialArg in a callee-saved register.
Risc(H) ==
  /\ H.InitialArg \in CalleeSavedOf(H)
  /\ {"arg0", "arg1"} \cap LayoutOf(H) = {}
  /\ H.scratch = {"arg0", "arg1"}

\* An architecture is well-formed if its registers have places of their own: place[i]
\* is that of the i-th callee-saved register, and l, p, a, w and s are those of link,
\* InitialPC, InitialArg, WhenDonePC and StartupPC.
HasPlaces(H, place, l, p, a, w, s) ==
  /\ Program(H.layout) /\ Len(H.layout) \in 1..18
  /\ Program(H.calleeSaved) /\ Len(H.calleeSaved) \in 1..16
  /\ \A i, j \in 1..Len(H.layout) : H.layout[i] = H.layout[j] => i = j
  /\ {l, p, a, w, s} \subseteq 2..Len(H.layout)
  /\ l \notin {p, a, w, s} /\ p \notin {a, w, s} /\ a \notin {w, s} /\ w # s
  /\ H.layout[1] = H.sp /\ H.layout[l] = H.link /\ H.layout[p] = H.InitialPC
  /\ H.layout[a] = H.InitialArg /\ H.layout[w] = H.WhenDonePC
  /\ H.layout[s] = H.StartupPC
  /\ \A i, j \in 1..Len(H.calleeSaved) : place[i] = place[j] => i = j
  /\ \A i \in 1..Len(H.calleeSaved) :
       /\ place[i] \in 2..Len(H.layout) /\ place[i] # l
       /\ H.layout[place[i]] = H.calleeSaved[i]
  /\ \E i \in 1..Len(H.calleeSaved) : place[i] = p
  /\ \E i \in 1..Len(H.calleeSaved) : place[i] = w

\* Where the registers stand in a layout says which of them differ.
LEMMA Arranged ==
  ASSUME NEW H, NEW place, NEW l, NEW p, NEW a, NEW w, NEW s,
         HasPlaces(H, place, l, p, a, w, s)
  PROVE  WellFormed(H)
<1> USE DEF HasPlaces
<1> DEFINE L == Len(H.layout)
           C == Len(H.calleeSaved)
<1>0. 1 \in 1..L /\ \A k \in 2..L : k \in 1..L /\ k # 1
  OBVIOUS
<1>1. \A i, j \in 1..C : H.calleeSaved[i] = H.calleeSaved[j] => i = j
  <2> TAKE i, j \in 1..C
  <2> HAVE H.calleeSaved[i] = H.calleeSaved[j]
  <2>1. place[i] \in 1..L /\ place[j] \in 1..L /\ H.layout[place[i]] = H.layout[place[j]]
    BY <1>0
  <2> QED BY <2>1
<1>2. CalleeSavedOf(H) \subseteq LayoutOf(H) \ {H.sp, H.link}
  <2> SUFFICES ASSUME NEW i \in 1..C
               PROVE  H.calleeSaved[i] \in LayoutOf(H) \ {H.sp, H.link}
    BY DEF CalleeSavedOf
  <2>1. place[i] \in 1..L /\ place[i] # 1 /\ place[i] # l /\ l \in 1..L
    BY <1>0
  <2>2. H.layout[place[i]] # H.layout[1] /\ H.layout[place[i]] # H.layout[l]
    BY <1>0, <2>1
  <2>3. H.layout[1] = H.sp /\ H.layout[l] = H.link
    OBVIOUS
  <2>4. H.layout[place[i]] = H.calleeSaved[i]
    OBVIOUS
  <2> HIDE DEF HasPlaces
  <2>5. H.layout[place[i]] \in LayoutOf(H)
    BY <2>1 DEF LayoutOf
  <2> QED BY <2>2, <2>3, <2>4, <2>5
<1>3. {H.sp, H.link, H.InitialPC, H.InitialArg, H.WhenDonePC, H.StartupPC}
        \subseteq LayoutOf(H)
  BY <1>0 DEF LayoutOf
<1>4. /\ H.sp \notin {H.link, H.InitialPC, H.InitialArg, H.WhenDonePC, H.StartupPC}
      /\ H.link \notin {H.InitialPC, H.InitialArg, H.WhenDonePC, H.StartupPC}
      /\ H.InitialPC \notin {H.InitialArg, H.WhenDonePC, H.StartupPC}
      /\ H.InitialArg \notin {H.WhenDonePC, H.StartupPC}
      /\ H.WhenDonePC # H.StartupPC
  <2>1. /\ {1, l, p, a, w, s} \subseteq 1..L /\ 1 \notin {l, p, a, w, s}
        /\ l \notin {p, a, w, s} /\ p \notin {a, w, s} /\ a \notin {w, s} /\ w # s
    BY <1>0
  <2>2. \A i, j \in {1, l, p, a, w, s} : H.layout[i] = H.layout[j] => i = j
    BY <2>1
  <2>3. /\ H.layout[1] = H.sp /\ H.layout[l] = H.link /\ H.layout[p] = H.InitialPC
        /\ H.layout[a] = H.InitialArg /\ H.layout[w] = H.WhenDonePC
        /\ H.layout[s] = H.StartupPC
    OBVIOUS
  <2> HIDE DEF HasPlaces
  <2> QED BY <2>1, <2>2, <2>3
<1>5. {H.InitialPC, H.WhenDonePC} \subseteq CalleeSavedOf(H)
  <2>1. PICK i \in 1..C, j \in 1..C : place[i] = p /\ place[j] = w
    OBVIOUS
  <2>2. H.calleeSaved[i] = H.InitialPC /\ H.calleeSaved[j] = H.WhenDonePC
    BY <2>1
  <2> HIDE DEF HasPlaces
  <2>3. H.calleeSaved[i] \in CalleeSavedOf(H) /\ H.calleeSaved[j] \in CalleeSavedOf(H)
    BY DEF CalleeSavedOf
  <2> QED BY <2>2, <2>3
<1> QED BY <1>1, <1>2, <1>3, <1>4, <1>5 DEF WellFormed

LEMMA SnakeWellFormed == WellFormed(SNAKE) /\ Risc(SNAKE)
<1> DEFINE place == [i \in 1..16 |-> i + 1]
<1>1. /\ Program(SNAKE.layout) /\ Len(SNAKE.layout) = 18
      /\ Program(SNAKE.calleeSaved) /\ Len(SNAKE.calleeSaved) = 16
  BY DEF SNAKE, Program
<1>2. \A i, j \in 1..18 : SNAKE.layout[i] = SNAKE.layout[j] => i = j
  BY DEF SNAKE
<1>3. \A i \in 1..16 : SNAKE.layout[i + 1] = SNAKE.calleeSaved[i]
  BY DEF SNAKE
<1>4. /\ SNAKE.layout[1] = SNAKE.sp /\ SNAKE.layout[2] = SNAKE.InitialPC
      /\ SNAKE.layout[3] = SNAKE.InitialArg /\ SNAKE.layout[4] = SNAKE.WhenDonePC
      /\ SNAKE.layout[5] = SNAKE.StartupPC /\ SNAKE.layout[18] = SNAKE.link
      /\ SNAKE.scratch = {"arg0", "arg1"} /\ SNAKE.calleeSaved[2] = SNAKE.InitialArg
  BY DEF SNAKE
<1>5. \A i \in 1..18 : SNAKE.layout[i] # "arg0" /\ SNAKE.layout[i] # "arg1"
  BY DEF SNAKE
<1>6. /\ \A i, j \in 1..16 : place[i] = place[j] => i = j
      /\ \A i \in 1..16 : /\ place[i] \in 2..18 /\ place[i] # 18
                          /\ SNAKE.layout[place[i]] = SNAKE.calleeSaved[i]
      /\ 1 \in 1..16 /\ place[1] = 2 /\ 3 \in 1..16 /\ place[3] = 4
  BY <1>3
<1>7. WellFormed(SNAKE)
  <2> HIDE DEF place
  <2>1. /\ {18, 2, 3, 4, 5} \subseteq 2..18 /\ 18 \notin {2, 3, 4, 5}
        /\ 2 \notin {3, 4, 5} /\ 3 \notin {4, 5} /\ 4 # 5
    OBVIOUS
  <2>2. (\E i \in 1..16 : place[i] = 2) /\ \E i \in 1..16 : place[i] = 4
    BY <1>6
  <2>3. \A i, j \in 1..16 : place[i] = place[j] => i = j
    BY <1>6
  <2>4. \A i \in 1..16 : /\ place[i] \in 2..18 /\ place[i] # 18
                         /\ SNAKE.layout[place[i]] = SNAKE.calleeSaved[i]
    BY <1>6
  <2>5. /\ Len(SNAKE.layout) \in 1..18 /\ Len(SNAKE.calleeSaved) \in 1..16
    BY <1>1
  <2>6. /\ {18, 2, 3, 4, 5} \subseteq 2..Len(SNAKE.layout)
        /\ \A i, j \in 1..Len(SNAKE.calleeSaved) : place[i] = place[j] => i = j
        /\ \E i \in 1..Len(SNAKE.calleeSaved) : place[i] = 2
        /\ \E i \in 1..Len(SNAKE.calleeSaved) : place[i] = 4
    BY ONLY <1>1, <2>1, <2>2, <2>3
  <2>7. \A i \in 1..Len(SNAKE.calleeSaved) :
          /\ place[i] \in 2..Len(SNAKE.layout) /\ place[i] # 18
          /\ SNAKE.layout[place[i]] = SNAKE.calleeSaved[i]
    BY ONLY <1>1, <2>4
  <2>8. \A i, j \in 1..Len(SNAKE.layout) : SNAKE.layout[i] = SNAKE.layout[j] => i = j
    BY ONLY <1>1, <1>2
  <2>9. HasPlaces(SNAKE, place, 18, 2, 3, 4, 5)
    BY ONLY <1>1, <1>4, <2>1, <2>5, <2>6, <2>7, <2>8, Zenon DEF HasPlaces
  <2> QED BY <2>9, Arranged
<1> QED BY <1>1, <1>4, <1>5, <1>7 DEF Risc, LayoutOf, CalleeSavedOf

LEMMA MipsWellFormed == WellFormed(MIPS) /\ Risc(MIPS)
<1> DEFINE place == [i \in 1..9 |-> i + 1]
<1>1. /\ Program(MIPS.layout) /\ Len(MIPS.layout) = 11
      /\ Program(MIPS.calleeSaved) /\ Len(MIPS.calleeSaved) = 9
  BY DEF MIPS, Program
<1>2. \A i, j \in 1..11 : MIPS.layout[i] = MIPS.layout[j] => i = j
  BY DEF MIPS
<1>3. \A i \in 1..9 : MIPS.layout[i + 1] = MIPS.calleeSaved[i]
  BY DEF MIPS
<1>4. /\ MIPS.layout[1] = MIPS.sp /\ MIPS.layout[2] = MIPS.InitialPC
      /\ MIPS.layout[3] = MIPS.InitialArg /\ MIPS.layout[4] = MIPS.WhenDonePC
      /\ MIPS.layout[5] = MIPS.StartupPC /\ MIPS.layout[11] = MIPS.link
      /\ MIPS.scratch = {"arg0", "arg1"} /\ MIPS.calleeSaved[2] = MIPS.InitialArg
  BY DEF MIPS
<1>5. \A i \in 1..11 : MIPS.layout[i] # "arg0" /\ MIPS.layout[i] # "arg1"
  BY DEF MIPS
<1>6. /\ \A i, j \in 1..9 : place[i] = place[j] => i = j
      /\ \A i \in 1..9 : /\ place[i] \in 2..11 /\ place[i] # 11
                         /\ MIPS.layout[place[i]] = MIPS.calleeSaved[i]
      /\ 1 \in 1..9 /\ place[1] = 2 /\ 3 \in 1..9 /\ place[3] = 4
  BY <1>3
<1>7. WellFormed(MIPS)
  <2> HIDE DEF place
  <2>1. /\ {11, 2, 3, 4, 5} \subseteq 2..11 /\ 11 \notin {2, 3, 4, 5}
        /\ 2 \notin {3, 4, 5} /\ 3 \notin {4, 5} /\ 4 # 5
    OBVIOUS
  <2>2. (\E i \in 1..9 : place[i] = 2) /\ \E i \in 1..9 : place[i] = 4
    BY <1>6
  <2>3. \A i, j \in 1..9 : place[i] = place[j] => i = j
    BY <1>6
  <2>4. \A i \in 1..9 : /\ place[i] \in 2..11 /\ place[i] # 11
                         /\ MIPS.layout[place[i]] = MIPS.calleeSaved[i]
    BY <1>6
  <2>5. /\ Len(MIPS.layout) \in 1..18 /\ Len(MIPS.calleeSaved) \in 1..16
    BY <1>1
  <2>6. /\ {11, 2, 3, 4, 5} \subseteq 2..Len(MIPS.layout)
        /\ \A i, j \in 1..Len(MIPS.calleeSaved) : place[i] = place[j] => i = j
        /\ \E i \in 1..Len(MIPS.calleeSaved) : place[i] = 2
        /\ \E i \in 1..Len(MIPS.calleeSaved) : place[i] = 4
    BY ONLY <1>1, <2>1, <2>2, <2>3
  <2>7. \A i \in 1..Len(MIPS.calleeSaved) :
          /\ place[i] \in 2..Len(MIPS.layout) /\ place[i] # 11
          /\ MIPS.layout[place[i]] = MIPS.calleeSaved[i]
    BY ONLY <1>1, <2>4
  <2>8. \A i, j \in 1..Len(MIPS.layout) : MIPS.layout[i] = MIPS.layout[j] => i = j
    BY ONLY <1>1, <1>2
  <2>9. HasPlaces(MIPS, place, 11, 2, 3, 4, 5)
    BY ONLY <1>1, <1>4, <2>1, <2>5, <2>6, <2>7, <2>8, Zenon DEF HasPlaces
  <2> QED BY <2>9, Arranged
<1> QED BY <1>1, <1>4, <1>5, <1>7 DEF Risc, LayoutOf, CalleeSavedOf

LEMMA I386WellFormed == WellFormed(i386)
<1> DEFINE place == [i \in 1..4 |-> IF i = 1 THEN 3 ELSE i + 4]
<1>1. /\ Program(i386.layout) /\ Len(i386.layout) = 9
      /\ Program(i386.calleeSaved) /\ Len(i386.calleeSaved) = 4
  BY DEF i386, Program
<1>2. \A i, j \in 1..9 : i386.layout[i] = i386.layout[j] => i = j
  BY DEF i386
<1>3. \A i \in 1..4 : i386.layout[place[i]] = i386.calleeSaved[i]
  BY DEF i386
<1>4. /\ i386.layout[1] = i386.sp /\ i386.layout[7] = i386.InitialPC
      /\ i386.layout[5] = i386.InitialArg /\ i386.layout[8] = i386.WhenDonePC
      /\ i386.layout[4] = i386.StartupPC /\ i386.layout[9] = i386.link
  BY DEF i386
<1>5. /\ \A i, j \in 1..4 : place[i] = place[j] => i = j
      /\ \A i \in 1..4 : /\ place[i] \in 2..9 /\ place[i] # 9
                         /\ i386.layout[place[i]] = i386.calleeSaved[i]
      /\ 3 \in 1..4 /\ place[3] = 7 /\ 4 \in 1..4 /\ place[4] = 8
  BY <1>3
<1> HIDE DEF place
<1>6. HasPlaces(i386, place, 9, 7, 5, 8, 4)
  BY <1>1, <1>2, <1>4, <1>5 DEF HasPlaces
<1> QED BY <1>6, Arranged

LEMMA HostIs ==
  /\ host = "i386" => Host = i386
  /\ host = "MIPS" => Host = MIPS
  /\ host = "SNAKE" => Host = SNAKE
<1>1. host = "i386" => Host = i386
  BY DEF Host
<1>2. host = "MIPS" => Host = MIPS
  BY DEF Host
<1>3. host = "SNAKE" => Host = SNAKE
  BY DEF Host
<1> QED BY <1>1, <1>2, <1>3

LEMMA HostWellFormed ==
  ASSUME Hosts
  PROVE  WellFormed(Host) /\ (host # "i386" => Risc(Host))
BY HostIs, SnakeWellFormed, MipsWellFormed, I386WellFormed DEF Hosts

\* Every register of a Thread object has a word of its own, stackTop the first.
LEMMA Offsets ==
  ASSUME Hosts
  PROVE  /\ \A r \in Layout : Offset(r) \in 0..17 /\ Host.layout[Offset(r) + 1] = r
         /\ Offset(Host.sp) = 0
<1>1. WellFormed(Host)
  BY HostWellFormed
<1>2. ASSUME NEW r \in Layout
      PROVE  /\ Offset(r) + 1 \in 1..Len(Host.layout)
             /\ Host.layout[Offset(r) + 1] = r /\ Offset(r) \in 0..17
  <2>1. \E i \in 1..Len(Host.layout) : Host.layout[i] = r
    BY DEF Layout, LayoutOf
  <2>2. PICK i \in 1..Len(Host.layout) : Host.layout[i] = r /\ Offset(r) = i - 1
    BY <2>1 DEF Offset
  <2>3. \A l \in 1..18 : \A k \in 1..l : k - 1 \in 0..17 /\ (k - 1) + 1 = k
    OBVIOUS
  <2>4. i - 1 \in 0..17 /\ (i - 1) + 1 = i
    BY <1>1, <2>3 DEF WellFormed
  <2> QED BY <2>2, <2>4
<1>3. Offset(Host.sp) = 0
  <2>1. Host.sp \in Layout /\ Host.layout[1] = Host.sp /\ Len(Host.layout) \in 1..18
    BY <1>1 DEF WellFormed, Layout
  <2>2. 1 \in 1..Len(Host.layout)
    BY <2>1
  <2>3. Offset(Host.sp) + 1 = 1
    BY <1>1, <1>2, <2>1, <2>2 DEF WellFormed
  <2> QED BY <1>2, <2>1, <2>3
<1> QED BY <1>2, <1>3

\* The words of a Thread object are apart from each other and from every stack.
LEMMA ObjectWords ==
  ASSUME Hosts
  PROVE  /\ \A t, u : \A r, s \in Layout : At(t, r) = At(u, s) => t = u /\ r = s
         /\ \A t : \A r \in Layout : At(t, r) \in Words(t)
         /\ \A t : \A r \in Layout : Plus(Object(t), Offset(r)) = At(t, r)
         /\ \A t : At(t, Host.sp) = Object(t)
         /\ \A t, u : Words(t) \cap Stack(u) = {}
         /\ \A t, u : t # u => Words(t) \cap Words(u) = {} /\ Stack(t) \cap Stack(u) = {}
<1>1. ASSUME NEW t, NEW u, NEW r \in Layout, NEW s \in Layout, At(t, r) = At(u, s)
      PROVE  t = u /\ r = s
  <2>1. t = u /\ Offset(r) = Offset(s)
    BY <1>1 DEF At
  <2> QED BY <2>1, Offsets
<1>2. ASSUME NEW t, NEW r \in Layout
      PROVE  At(t, r) \in Words(t) /\ Plus(Object(t), Offset(r)) = At(t, r)
  <2>1. Offset(r) \in 0..17
    BY Offsets
  <2>2. At(t, r) \in Words(t)
    BY <2>1 DEF At, Words, MachineStateSize
  <2>3. Plus(Object(t), Offset(r)) = <<"thread", t, 0 + Offset(r)>>
    BY DEF Plus, Object
  <2>4. 0 + Offset(r) = Offset(r)
    BY <2>1
  <2> QED BY <2>2, <2>3, <2>4 DEF At
<1>3. \A t : At(t, Host.sp) = Object(t)
  BY Offsets DEF At, Object
<1>4. \A t, u : Words(t) \cap Stack(u) = {}
  BY DEF Words, Stack
<1>5. \A t, u : t # u => Words(t) \cap Words(u) = {} /\ Stack(t) \cap Stack(u) = {}
  BY DEF Words, Stack
<1> QED BY <1>1, <1>2, <1>3, <1>4, <1>5

\* No stack grows deeper than this.
Deep(t) == IF t = Main THEN 4 ELSE 18

\* The words that threads use of their stacks lie within them, apart from each other and
\* from the fenceposts: here the size of a stack matters.
LEMMA Slots ==
  ASSUME Hosts
  PROVE  /\ \A t, u : \A d, e \in Nat : Slot(t, d) = Slot(u, e) => t = u /\ d = e
         /\ \A t : \A d \in 1..Deep(t) : Slot(t, d) \in Stack(t)
         /\ \A t : \A d \in 0..Deep(t) : SP(t, d) \in Stack(t)
         /\ \A t, u : \A d \in 1..Deep(t) : u # Main => Slot(t, d) # Fencepost(u)
         /\ \A t : Fencepost(t) \in Stack(t)
<1>0. StackSize \in Nat /\ StackSize > 36
  BY SwitchAssumption
<1> DEFINE half == StackSize \div 2
<1>1. half \in Nat /\ 2 * half <= StackSize /\ StackSize <= 2 * half + 1
  BY <1>0
<1> HIDE DEF half
<1>2. \A t : Base(t) \in Nat
  BY <1>0, <1>1 DEF Base, half
<1>3. ASSUME NEW t, NEW u, NEW d \in Nat, NEW e \in Nat, Slot(t, d) = Slot(u, e)
      PROVE  t = u /\ d = e
  <2>1. t = u
    BY <1>3 DEF Slot
  <2>2. (IF host = "SNAKE" THEN Base(t) + d - 1 ELSE Base(t) - d) =
        (IF host = "SNAKE" THEN Base(t) + e - 1 ELSE Base(t) - e)
    BY <1>3, <2>1 DEF Slot
  <2> QED BY <1>2, <2>1, <2>2
<1>4. ASSUME NEW t, NEW d \in 1..Deep(t)
      PROVE  /\ IF host = "SNAKE" THEN Base(t) + d - 1 \in 0..(StackSize - 2)
                                  ELSE Base(t) - d \in 1..(StackSize - 1)
             /\ t # Main /\ host = "SNAKE" => Base(t) + d - 1 < StackSize - 1
             /\ t # Main /\ host # "SNAKE" => Base(t) - d > 0
  BY <1>0, <1>1 DEF Base, Deep, half
<1>5. ASSUME NEW t, NEW d \in 0..Deep(t)
      PROVE  (IF host = "SNAKE" THEN Base(t) + d ELSE Base(t) - d) \in 0..(StackSize - 1)
  BY <1>0, <1>1 DEF Base, Deep, half
<1>6. ASSUME NEW t, NEW d \in 1..Deep(t) PROVE Slot(t, d) \in Stack(t)
  <2>1. (IF host = "SNAKE" THEN Base(t) + d - 1 ELSE Base(t) - d) \in 0..(StackSize - 1)
    BY <1>0, <1>4
  <2> QED BY <2>1 DEF Slot, Stack
<1>7. \A t : \A d \in 0..Deep(t) : SP(t, d) \in Stack(t)
  BY <1>5 DEF SP, Stack
<1>8. ASSUME NEW t, NEW u, NEW d \in 1..Deep(t), u # Main, Slot(t, d) = Fencepost(u)
      PROVE  FALSE
  <2>1. (IF host = "SNAKE" THEN Base(t) + d - 1 ELSE Base(t) - d) =
        (IF host = "SNAKE" THEN StackSize - 1 ELSE 0)
    BY <1>8 DEF Slot, Fencepost
  <2> QED BY <1>0, <1>4, <2>1
<1>9. ASSUME NEW t PROVE Fencepost(t) \in Stack(t)
  <2>1. (IF host = "SNAKE" THEN StackSize - 1 ELSE 0) \in 0..(StackSize - 1)
    BY <1>0
  <2> QED BY <2>1 DEF Fencepost, Stack
<1> QED BY <1>3, <1>6, <1>7, <1>8, <1>9

LEMMA CalleeSavedIs == ASSUME Hosts PROVE CalleeSaved = CalleeSavedOf(Host)
<1>1. Program(Host.calleeSaved)
  BY HostWellFormed DEF WellFormed
<1>2. DOMAIN Host.calleeSaved = 1..Len(Host.calleeSaved)
  BY <1>1 DEF Program
<1> QED BY <1>2 DEF CalleeSaved, CalleeSavedOf, ToSet

\* What a procedure saves: the callee-saved registers, and the return address unless
\* the call has pushed it.
LEMMA Frames ==
  ASSUME Hosts
  PROVE  /\ Program(Frame) /\ Len(Frame) \in 1..17 /\ (host = "i386" => Len(Frame) = 4)
         /\ \A i, j \in 1..Len(Frame) : Frame[i] = Frame[j] => i = j
         /\ {Frame[i] : i \in 1..Len(Frame)} =
              CalleeSaved \cup IF host = "i386" THEN {} ELSE {Host.link}
<1>1. /\ Program(Host.calleeSaved) /\ Len(Host.calleeSaved) \in 1..16
      /\ \A i, j \in 1..Len(Host.calleeSaved) :
           Host.calleeSaved[i] = Host.calleeSaved[j] => i = j
      /\ Host.link \notin CalleeSavedOf(Host)
  BY HostWellFormed DEF WellFormed
<1>2. CASE host = "i386"
  <2>1. Frame = Host.calleeSaved
    BY <1>2 DEF Frame
  <2>2. Host = i386 /\ Len(i386.calleeSaved) = 4
    BY <1>2, HostIs DEF i386
  <2> QED BY <1>1, <1>2, <2>1, <2>2, CalleeSavedIs DEF CalleeSavedOf
<1>3. CASE host # "i386"
  <2> DEFINE s == Host.calleeSaved
             n == Len(s)
             S == CalleeSavedOf(Host) \cup {Host.link}
  <2>1. Frame = Append(s, Host.link)
    BY <1>3 DEF Frame
  <2>2. s \in Seq(S)
    BY <1>1 DEF Program, CalleeSavedOf
  <2>3. /\ Len(Frame) = n + 1 /\ Frame \in Seq(S)
        /\ \A i \in 1..n : Frame[i] = s[i]
        /\ Frame[n + 1] = Host.link
    BY <2>1, <2>2, AppendProperties
  <2>4. Program(Frame)
    <3>1. Frame \in [1..Len(Frame) -> S] /\ Len(Frame) \in Nat
      BY <2>3, LenProperties
    <3> QED BY <3>1 DEF Program
  <2>5. \A i \in 1..n : s[i] # Host.link
    BY <1>1 DEF CalleeSavedOf
  <2> HIDE DEF s, n, S
  <2>6. n \in 1..16 /\ \A i, j \in 1..n : s[i] = s[j] => i = j
    BY <1>1 DEF s, n
  <2>7. \A i, j \in 1..Len(Frame) : Frame[i] = Frame[j] => i = j
    BY <2>3, <2>5, <2>6
  <2>8. {Frame[i] : i \in 1..Len(Frame)} = {s[i] : i \in 1..n} \cup {Host.link}
    <3>1. ASSUME NEW i \in 1..Len(Frame)
          PROVE  Frame[i] \in {s[k] : k \in 1..n} \cup {Host.link}
      BY <2>3, <2>6
    <3>2. ASSUME NEW i \in 1..n PROVE s[i] \in {Frame[k] : k \in 1..Len(Frame)}
      <4>1. i \in 1..Len(Frame) /\ Frame[i] = s[i]
        BY <2>3, <2>6
      <4> QED BY <4>1
    <3>3. Host.link \in {Frame[k] : k \in 1..Len(Frame)}
      <4>1. n + 1 \in 1..Len(Frame)
        BY <2>3, <2>6
      <4> QED BY <2>3, <4>1
    <3> QED BY <3>1, <3>2, <3>3
  <2>9. {s[i] : i \in 1..n} = CalleeSaved
    BY CalleeSavedIs DEF CalleeSavedOf, s, n
  <2> QED BY <1>3, <2>3, <2>4, <2>6, <2>7, <2>8, <2>9
<1> QED BY <1>2, <1>3

\* How deep a thread goes.
LEMMA Depths ==
  ASSUME Hosts
  PROVE  /\ \A t : /\ Inside(t) \in 0..17 /\ RunDepth(t) \in Nat /\ SwitchDepth(t) \in Nat
                   /\ Inside(t) < RunDepth(t) /\ RunDepth(t) <= SwitchDepth(t)
                   /\ SwitchDepth(t) <= Deep(t)
                   /\ host = "i386" => /\ RunDepth(t) = Inside(t) + 3
                                       /\ SwitchDepth(t) = Inside(t) + 4
                   /\ host # "i386" => /\ RunDepth(t) = Inside(t) + 1
                                       /\ SwitchDepth(t) = Inside(t) + 1
                   /\ t # Main => Inside(t) = CallDepth + Len(Frame) /\ Deep(t) = 18
                   /\ t = Main => Inside(t) = 0
         /\ host = "i386" => RootDepth = 2 /\ CallDepth = 3
         /\ host # "i386" => RootDepth = 0 /\ CallDepth = 0
<1>1. Len(Frame) \in 1..17 /\ (host = "i386" => Len(Frame) = 4)
  BY Frames
<1>2. /\ host = "i386" => RootDepth = 2 /\ CallDepth = 3
      /\ host # "i386" => RootDepth = 0 /\ CallDepth = 0
  BY DEF CallDepth, RootDepth
<1>3. ASSUME NEW t
      PROVE  /\ host = "i386" => Inside(t) + 4 <= Deep(t)
             /\ Inside(t) \in 0..17 /\ Inside(t) + 1 <= Deep(t)
             /\ t # Main => Inside(t) = CallDepth + Len(Frame) /\ Deep(t) = 18
             /\ t = Main => Inside(t) = 0
  <2>1. CASE t = Main
    BY <2>1 DEF Inside, Deep
  <2>2. CASE t # Main
    <3>1. Inside(t) = CallDepth + Len(Frame) /\ Deep(t) = 18
      BY <2>2 DEF Inside, Deep
    <3>2. CASE host = "i386"
      <4>1. Inside(t) = 3 + 4
        BY <1>1, <1>2, <3>1, <3>2
      <4>2. Inside(t) = 7
        BY <4>1
      <4> QED BY <2>2, <3>1, <3>2, <4>2
    <3>3. CASE host # "i386"
      <4>1. Inside(t) = 0 + Len(Frame)
        BY <1>2, <3>1, <3>3
      <4>2. \A n \in 1..17 : 0 + n \in 0..17 /\ (0 + n) + 1 <= 18
        OBVIOUS
      <4> QED BY <1>1, <2>2, <3>1, <3>3, <4>1, <4>2
    <3> QED BY <3>2, <3>3
  <2> QED BY <2>1, <2>2
<1>4. ASSUME NEW t
      PROVE  /\ host = "i386" => /\ RunDepth(t) = Inside(t) + 3
                                 /\ SwitchDepth(t) = Inside(t) + 4
             /\ host # "i386" => /\ RunDepth(t) = Inside(t) + 1
                                 /\ SwitchDepth(t) = Inside(t) + 1
  BY DEF RunDepth, SwitchDepth
<1>5. ASSUME NEW t
      PROVE  /\ RunDepth(t) \in Nat /\ SwitchDepth(t) \in Nat
             /\ Inside(t) < RunDepth(t) /\ RunDepth(t) <= SwitchDepth(t)
             /\ SwitchDepth(t) <= Deep(t)
  <2>1. Deep(t) \in Nat
    BY DEF Deep
  <2>2. \A n \in 0..17 :
          /\ n + 1 \in Nat /\ n < n + 1
          /\ n + 3 \in Nat /\ n + 4 \in Nat /\ n < n + 3 /\ n + 3 <= n + 4
    OBVIOUS
  <2>3. CASE host = "i386"
    BY <1>3, <1>4, <2>1, <2>2, <2>3
  <2>4. CASE host # "i386"
    <3>1. RunDepth(t) = Inside(t) + 1 /\ SwitchDepth(t) = Inside(t) + 1
      BY <1>4, <2>4
    <3>2. Inside(t) + 1 <= Inside(t) + 1
      BY <1>3
    <3> QED BY <1>3, <2>1, <2>2, <3>1, <3>2
  <2> QED BY <2>3, <2>4
<1> QED BY <1>2, <1>3, <1>4, <1>5

\* The same of one thread.
Measured(t) ==
  /\ Inside(t) \in 0..17 /\ Deep(t) \in Nat /\ Inside(t) + 1 <= Deep(t)
  /\ host = "i386" => /\ RunDepth(t) = Inside(t) + 3 /\ SwitchDepth(t) = Inside(t) + 4
                      /\ Inside(t) + 4 <= Deep(t)
  /\ host # "i386" => RunDepth(t) = Inside(t) + 1 /\ SwitchDepth(t) = Inside(t) + 1

LEMMA DepthsOf ==
  ASSUME Hosts, NEW t
  PROVE  Measured(t)
<1>1. /\ Inside(t) \in 0..17 /\ RunDepth(t) \in Nat /\ SwitchDepth(t) \in Nat
      /\ Inside(t) < RunDepth(t) /\ RunDepth(t) <= SwitchDepth(t)
      /\ SwitchDepth(t) <= Deep(t)
      /\ host = "i386" => RunDepth(t) = Inside(t) + 3 /\ SwitchDepth(t) = Inside(t) + 4
      /\ host # "i386" => RunDepth(t) = Inside(t) + 1 /\ SwitchDepth(t) = Inside(t) + 1
  BY Depths
<1>2. Deep(t) \in Nat
  BY DEF Deep
<1>3. Inside(t) + 1 <= Deep(t)
  BY <1>1, <1>2
<1> QED BY <1>1, <1>2, <1>3 DEF Measured

LEMMA InsideDeep ==
  ASSUME Hosts, NEW t
  PROVE  Inside(t) + 1 <= Deep(t)
BY DepthsOf DEF Measured

\* The registers that the proofs are about.
LEMMA RegisterFacts ==
  ASSUME Hosts
  PROVE  /\ Layout \subseteq Registers
         /\ CalleeSaved \subseteq Layout \ {Host.sp, Host.link}
         /\ {Host.sp, Host.link, Host.InitialPC, Host.InitialArg, Host.WhenDonePC,
             Host.StartupPC} \subseteq Layout
         /\ {Host.InitialPC, Host.WhenDonePC} \subseteq CalleeSaved
         /\ Host.sp \notin {Host.link, Host.InitialPC, Host.InitialArg, Host.WhenDonePC,
                            Host.StartupPC}
         /\ Host.link \notin {Host.InitialPC, Host.InitialArg, Host.WhenDonePC,
                              Host.StartupPC}
         /\ Host.InitialPC \notin {Host.InitialArg, Host.WhenDonePC, Host.StartupPC}
         /\ Host.InitialArg \notin {Host.WhenDonePC, Host.StartupPC}
         /\ Host.WhenDonePC # Host.StartupPC
         /\ host # "i386" => /\ Host.InitialArg \in CalleeSaved
                             /\ {"arg0", "arg1"} \subseteq Registers \ Layout
<1>1. WellFormed(Host) /\ (host # "i386" => Risc(Host))
  BY HostWellFormed
<1>2. Registers = Layout \cup Host.scratch
  BY DEF Registers, Layout, LayoutOf
<1>3. CalleeSaved = CalleeSavedOf(Host)
  BY CalleeSavedIs
<1> QED BY <1>1, <1>2, <1>3 DEF WellFormed, Risc, Layout

-----------------------------------------------------------------------------
(* Instructions. *)

\* The machine n is m but for the registers R and the addresses A.
Becomes(m, n, R, A) ==
  /\ Machine(n) /\ n.pc = m.pc /\ n.wild = m.wild /\ DOMAIN n.mem = DOMAIN m.mem
  /\ \A r \in Registers \ R : n.regs[r] = m.regs[r]
  /\ \A a \in DOMAIN m.mem \ A : n.mem[a] = m.mem[a]

LEMMA BecomesTwice ==
  ASSUME NEW m, NEW n, NEW o, NEW R, NEW A, NEW R2, NEW A2,
         Becomes(m, n, R, A), Becomes(n, o, R2, A2)
  PROVE  Becomes(m, o, R \cup R2, A \cup A2)
BY DEF Becomes

LEMMA BecomesMore ==
  ASSUME NEW m, NEW n, NEW R, NEW A, NEW R2, NEW A2,
         Becomes(m, n, R, A), R \subseteq R2, A \subseteq A2
  PROVE  Becomes(m, n, R2, A2)
BY DEF Becomes

\* Of the machine m, n has register r set to w; n has w stored at a.
IsSet(m, n, r, w) == Becomes(m, n, {r}, {}) /\ n.regs[r] = w /\ n.mem = m.mem
IsStored(m, n, a, w) == Becomes(m, n, {}, {a}) /\ n.mem[a] = w /\ n.regs = m.regs

LEMMA SetDoes ==
  ASSUME NEW m, Machine(m), NEW r \in Registers, NEW w
  PROVE  IsSet(m, Set(m, r, w), r, w)
<1> DEFINE n == Set(m, r, w)
<1>1. n = [regs |-> [m.regs EXCEPT ![r] = w], mem |-> m.mem, pc |-> m.pc, wild |-> m.wild]
  BY DEF Machine, Set
<1>2. /\ n.regs = [m.regs EXCEPT ![r] = w] /\ n.mem = m.mem /\ n.pc = m.pc
      /\ n.wild = m.wild /\ n = [regs |-> n.regs, mem |-> n.mem, pc |-> n.pc, wild |-> n.wild]
  BY <1>1
<1> HIDE DEF n
<1>3. n.regs = [s \in Registers |-> IF s = r THEN w ELSE m.regs[s]]
  BY <1>2 DEF Machine
<1> QED BY <1>2, <1>3 DEF Machine, Becomes, IsSet, n

LEMMA StoreDoes ==
  ASSUME NEW m, Machine(m), NEW a \in DOMAIN m.mem, NEW w
  PROVE  IsStored(m, Store(m, a, w), a, w)
<1> DEFINE n == Store(m, a, w)
<1>1. n = [regs |-> m.regs, mem |-> [m.mem EXCEPT ![a] = w], pc |-> m.pc, wild |-> m.wild]
  BY DEF Machine, Store
<1>2. /\ n.mem = [m.mem EXCEPT ![a] = w] /\ n.regs = m.regs /\ n.pc = m.pc
      /\ n.wild = m.wild /\ n = [regs |-> n.regs, mem |-> n.mem, pc |-> n.pc, wild |-> n.wild]
  BY <1>1
<1> HIDE DEF n
<1>3. n.mem = [b \in DOMAIN m.mem |-> IF b = a THEN w ELSE m.mem[b]]
  BY <1>2 DEF Machine
<1> QED BY <1>2, <1>3 DEF Machine, Becomes, IsStored, n

LEMMA LoadDoes ==
  ASSUME NEW m, Machine(m), NEW r \in Registers, NEW a \in DOMAIN m.mem
  PROVE  IsSet(m, Load(m, r, a), r, m.mem[a])
<1>1. Load(m, r, a) = Set(m, r, m.mem[a])
  BY DEF Load
<1> QED BY <1>1, SetDoes

LEMMA JumpDoes ==
  ASSUME NEW m, Machine(m), NEW w
  PROVE  /\ Machine(Jump(m, w)) /\ Jump(m, w).pc = w /\ Jump(m, w).regs = m.regs
         /\ Jump(m, w).mem = m.mem /\ Jump(m, w).wild = m.wild
<1>1. Jump(m, w) = [regs |-> m.regs, mem |-> m.mem, pc |-> w, wild |-> m.wild]
  BY DEF Machine, Jump
<1> QED BY <1>1 DEF Machine

\* A push moves the stack pointer from p to q and writes at a; a pop moves it back.
Adjacent(p, q, a) ==
  /\ host = "SNAKE" => p = a /\ Plus(p, 1) = q /\ Minus(q, 1) = p
  /\ host # "SNAKE" => q = a /\ Minus(p, 1) = q /\ Plus(q, 1) = p

LEMMA SlotsAdjacent ==
  ASSUME NEW t, NEW d \in Nat
  PROVE  Adjacent(SP(t, d), SP(t, d + 1), Slot(t, d + 1))
<1>0. Base(t) \in Nat
  <2>1. StackSize \in Nat /\ StackSize > 36 /\ StackSize \div 2 \in Nat
    BY SwitchAssumption
  <2> QED BY <2>1 DEF Base
<1>1. CASE host = "SNAKE"
  <2>1. /\ SP(t, d) = <<"stack", t, Base(t) + d>>
        /\ SP(t, d + 1) = <<"stack", t, Base(t) + (d + 1)>>
        /\ Slot(t, d + 1) = <<"stack", t, (Base(t) + (d + 1)) - 1>>
    BY <1>0, <1>1 DEF SP, Slot
  <2>2. /\ (Base(t) + (d + 1)) - 1 = Base(t) + d
        /\ (Base(t) + d) + 1 = Base(t) + (d + 1)
    BY <1>0
  <2>3. /\ Plus(SP(t, d), 1) = <<"stack", t, (Base(t) + d) + 1>>
        /\ Minus(SP(t, d + 1), 1) = <<"stack", t, (Base(t) + (d + 1)) - 1>>
    BY <2>1 DEF Plus, Minus
  <2> QED BY <1>1, <2>1, <2>2, <2>3 DEF Adjacent
<1>2. CASE host # "SNAKE"
  <2>1. /\ SP(t, d) = <<"stack", t, Base(t) - d>>
        /\ SP(t, d + 1) = <<"stack", t, Base(t) - (d + 1)>>
        /\ Slot(t, d + 1) = <<"stack", t, Base(t) - (d + 1)>>
    BY <1>0, <1>2 DEF SP, Slot
  <2>2. /\ (Base(t) - d) - 1 = Base(t) - (d + 1)
        /\ (Base(t) - (d + 1)) + 1 = Base(t) - d
    BY <1>0
  <2>3. /\ Minus(SP(t, d), 1) = <<"stack", t, (Base(t) - d) - 1>>
        /\ Plus(SP(t, d + 1), 1) = <<"stack", t, (Base(t) - (d + 1)) + 1>>
    BY <2>1 DEF Plus, Minus
  <2> QED BY <1>2, <2>1, <2>2, <2>3 DEF Adjacent
<1> QED BY <1>1, <1>2

LEMMA SPIsRegister == ASSUME Hosts PROVE Host.sp \in Registers
BY RegisterFacts

\* The machine n is m after w has been pushed at a, or r popped.
IsPushed(m, n, q, a, w) ==
  Becomes(m, n, {Host.sp}, {a}) /\ n.regs[Host.sp] = q /\ n.mem[a] = w
IsPopped(m, n, p, a, r) ==
  /\ Becomes(m, n, {Host.sp, r}, {}) /\ n.mem = m.mem
  /\ n.regs[Host.sp] = p /\ n.regs[r] = m.mem[a]

LEMMA PushDoes ==
  ASSUME Hosts, NEW m, Machine(m), NEW p, NEW q, NEW a, Adjacent(p, q, a),
         m.regs[Host.sp] = p, a \in DOMAIN m.mem, NEW w
  PROVE  IsPushed(m, Push(m, w), q, a, w)
<1> DEFINE n == Store(m, a, w)
           o == Set(n, Host.sp, q)
<1>1. Push(m, w) = o
  <2>1. CASE host = "SNAKE"
    BY <2>1 DEF Adjacent, Push
  <2>2. CASE host # "SNAKE"
    BY <2>2 DEF Adjacent, Push
  <2> QED BY <2>1, <2>2
<1>2. IsStored(m, n, a, w)
  BY StoreDoes
<1>3. IsSet(n, o, Host.sp, q)
  BY <1>2, SetDoes, SPIsRegister DEF IsStored, Becomes
<1> HIDE DEF n, o
<1>4. Becomes(m, o, {Host.sp}, {a})
  BY <1>2, <1>3 DEF IsStored, IsSet, Becomes
<1> QED BY <1>1, <1>2, <1>3, <1>4 DEF IsPushed, IsStored, IsSet

LEMMA PopDoes ==
  ASSUME Hosts, NEW m, Machine(m), NEW p, NEW q, NEW a, Adjacent(p, q, a),
         m.regs[Host.sp] = q, a \in DOMAIN m.mem, NEW r \in Registers, r # Host.sp
  PROVE  IsPopped(m, Pop(m, r), p, a, r)
<1> DEFINE n == Load(m, r, a)
           o == Set(n, Host.sp, p)
<1>1. Pop(m, r) = o
  <2>1. CASE host = "SNAKE"
    BY <2>1 DEF Adjacent, Pop
  <2>2. CASE host # "SNAKE"
    BY <2>2 DEF Adjacent, Pop
  <2> QED BY <2>1, <2>2
<1>2. IsSet(m, n, r, m.mem[a])
  BY LoadDoes
<1>3. IsSet(n, o, Host.sp, p)
  BY <1>2, SetDoes, SPIsRegister DEF IsSet, Becomes
<1> HIDE DEF n, o
<1>4. Becomes(m, o, {Host.sp, r}, {})
  BY <1>2, <1>3 DEF IsSet, Becomes
<1>5. o.regs[r] = n.regs[r]
  BY <1>3 DEF IsSet, Becomes
<1> QED BY <1>1, <1>2, <1>3, <1>4, <1>5 DEF IsPopped, IsSet

LEMMA ExecuteMov ==
  ASSUME NEW m, NEW i, NEW r, NEW b, i = <<"mov", r, b, 0>>
  PROVE  Execute(m, i) = Set(m, r, m.regs[b])
<1>1. i[1] = "mov" /\ i[2] = r /\ i[3] = b
  OBVIOUS
<1>2. i[1] = "mov" => Execute(m, i) = Set(m, i[2], m.regs[i[3]])
  BY Zenon DEF Execute
<1> QED BY <1>1, <1>2

LEMMA ExecuteLd ==
  ASSUME NEW m, NEW i, NEW r, NEW b, NEW n, i = <<"ld", r, b, n>>
  PROVE  Execute(m, i) = Load(m, r, Plus(m.regs[b], n))
<1>1. i[1] = "ld" /\ i[2] = r /\ i[3] = b /\ i[4] = n
  OBVIOUS
<1>2. i[1] = "ld" => Execute(m, i) = Load(m, i[2], Plus(m.regs[i[3]], i[4]))
  BY Zenon DEF Execute
<1> QED BY <1>1, <1>2

LEMMA ExecuteSt ==
  ASSUME NEW m, NEW i, NEW r, NEW b, NEW n, i = <<"st", r, b, n>>
  PROVE  Execute(m, i) = Store(m, Plus(m.regs[b], n), m.regs[r])
<1>1. i[1] = "st" /\ i[2] = r /\ i[3] = b /\ i[4] = n
  OBVIOUS
<1>2. i[1] = "st" => Execute(m, i) = Store(m, Plus(m.regs[i[3]], i[4]), m.regs[i[2]])
  BY Zenon DEF Execute
<1> QED BY <1>1, <1>2

LEMMA ExecutePush ==
  ASSUME NEW m, NEW i, NEW r, i = <<"push", r, "", 0>>
  PROVE  Execute(m, i) = Push(m, m.regs[r])
<1>1. i[1] = "push" /\ i[2] = r
  OBVIOUS
<1>2. i[1] = "push" => Execute(m, i) = Push(m, m.regs[i[2]])
  BY Zenon DEF Execute
<1> QED BY <1>1, <1>2

LEMMA ExecutePop ==
  ASSUME NEW m, NEW i, NEW r, i = <<"pop", r, "", 0>>
  PROVE  Execute(m, i) = Pop(m, r)
<1>1. i[1] = "pop" /\ i[2] = r
  OBVIOUS
<1>2. i[1] = "pop" => Execute(m, i) = Pop(m, i[2])
  BY Zenon DEF Execute
<1> QED BY <1>1, <1>2

LEMMA PushesAre ==
  ASSUME NEW rs, Len(rs) \in Nat
  PROVE  /\ Len(Pushes(rs)) = Len(rs)
         /\ \A i \in 1..Len(rs) : Pushes(rs)[i] = <<"push", rs[i], "", 0>>
<1>1. Len(Pushes(rs)) = Len(rs)
  BY DEF Pushes
<1>2. ASSUME NEW i \in 1..Len(rs) PROVE Pushes(rs)[i] = <<"push", rs[i], "", 0>>
  BY DEF Pushes
<1> QED BY <1>1, <1>2

LEMMA PopsAre ==
  ASSUME NEW rs, Len(rs) \in Nat
  PROVE  /\ Len(Pops(Reverse(rs))) = Len(rs)
         /\ \A i \in 1..Len(rs) :
              Pops(Reverse(rs))[i] = <<"pop", rs[Len(rs) - i + 1], "", 0>>
<1>1. Len(Reverse(rs)) = Len(rs)
  BY DEF Reverse
<1>2. ASSUME NEW i \in 1..Len(rs) PROVE Reverse(rs)[i] = rs[Len(rs) - i + 1]
  BY DEF Reverse
<1>3. Len(Pops(Reverse(rs))) = Len(rs)
  BY <1>1 DEF Pops
<1>4. ASSUME NEW i \in 1..Len(rs)
      PROVE  Pops(Reverse(rs))[i] = <<"pop", Reverse(rs)[i], "", 0>>
  BY <1>1 DEF Pops
<1> QED BY <1>2, <1>3, <1>4

\* The n words of the stack of t above depth d.
Above(t, d, n) == {Slot(t, d + i) : i \in 1..n}

\* The registers rs end up in the next words of the stack, in order, or get what is there.
ArePushed(m, n, rs, t, d) ==
  /\ Becomes(m, n, {Host.sp}, Above(t, d, Len(rs)))
  /\ n.regs[Host.sp] = SP(t, d + Len(rs))
  /\ \A i \in 1..Len(rs) : n.mem[Slot(t, d + i)] = m.regs[rs[i]]
ArePopped(m, n, rs, t, d) ==
  /\ Becomes(m, n, {Host.sp} \cup {rs[i] : i \in 1..Len(rs)}, {})
  /\ n.mem = m.mem /\ n.regs[Host.sp] = SP(t, d)
  /\ \A i \in 1..Len(rs) : n.regs[rs[i]] = m.mem[Slot(t, d + i)]

\* A row of pushes, of any length.
LEMMA PushesDo ==
  ASSUME Hosts, NEW m, Machine(m), NEW rs, Len(rs) \in Nat,
         \A i \in 1..Len(rs) : rs[i] \in Registers \ {Host.sp},
         NEW t, NEW d \in Nat, m.regs[Host.sp] = SP(t, d),
         \A i \in 1..Len(rs) : Slot(t, d + i) \in DOMAIN m.mem
  PROVE  ArePushed(m, Execution(m, Pushes(rs)), rs, t, d)
<1> DEFINE L == Len(rs)
           code == Pushes(rs)
<1>1. Len(code) = L /\ \A i \in 1..L : code[i] = <<"push", rs[i], "", 0>>
  BY PushesAre
<1> HIDE DEF code
<1>2. \E e : Executes(e, m, code) /\ Execution(m, code) = e[Len(code)]
  <2>1. Len(code) \in Nat
    BY <1>1
  <2> QED BY <2>1, ExecutionSteps, Zenon
<1>3. PICK e : Executes(e, m, code) /\ Execution(m, code) = e[L]
  BY <1>1, <1>2
<1> DEFINE P(k) == /\ Becomes(m, e[k], {Host.sp}, Above(t, d, k))
                   /\ e[k].regs[Host.sp] = SP(t, d + k)
                   /\ \A i \in 1..k : e[k].mem[Slot(t, d + i)] = m.regs[rs[i]]
           S == {k \in Nat : k <= L => P(k)}
<1>4. 0 \in S
  <2>1. e[0] = m /\ d + 0 = d
    BY <1>3 DEF Executes
  <2>2. Becomes(m, m, {Host.sp}, Above(t, d, 0))
    BY DEF Becomes
  <2> QED BY <2>1, <2>2
<1>5. ASSUME NEW k \in Nat, k \in S PROVE k + 1 \in S
  <2> SUFFICES ASSUME k + 1 <= L PROVE P(k + 1)
    OBVIOUS
  <2> DEFINE f == d + k
             g == d + (k + 1)
             a == Slot(t, g)
             r == rs[k + 1]
             o == e[k]
             n == e[k + 1]
  <2>1. P(k) /\ k + 1 \in 1..L /\ (k + 1) - 1 = k /\ f \in Nat
        /\ g = f + 1 /\ k \in 0..L
    BY <1>5
  <2>2. n = Push(o, o.regs[r])
    <3>1. code[k + 1] = <<"push", r, "", 0>>
      BY <1>1, <2>1
    <3>2. n = Execute(o, code[k + 1])
      BY <1>1, <1>3, <2>1 DEF Executes
    <3> HIDE DEF o, n, r
    <3> QED BY <3>1, <3>2, ExecutePush
  <2>3. /\ Becomes(m, o, {Host.sp}, Above(t, d, k)) /\ Machine(o)
        /\ o.regs[Host.sp] = SP(t, f) /\ a \in DOMAIN o.mem
    BY <2>1 DEF Becomes
  <2>4. IsPushed(o, n, SP(t, g), a, o.regs[r])
    <3>1. Adjacent(SP(t, f), SP(t, g), a)
      BY <2>1, SlotsAdjacent
    <3> HIDE DEF o, n, r, f, g, a, P
    <3> QED BY <2>2, <2>3, <3>1, PushDoes
  <2>5. o.regs[r] = m.regs[r]
    BY <2>1, <2>3 DEF Becomes
  <2>6. Becomes(m, n, {Host.sp}, Above(t, d, k + 1))
    <3>1. Becomes(m, n, {Host.sp} \cup {Host.sp}, Above(t, d, k) \cup {a})
      <4> HIDE DEF o, n, a
      <4> QED BY <2>3, <2>4, BecomesTwice DEF IsPushed
    <3>2. /\ {Host.sp} \cup {Host.sp} \subseteq {Host.sp}
          /\ Above(t, d, k) \cup {a} \subseteq Above(t, d, k + 1)
      BY <2>1 DEF Above
    <3> HIDE DEF n, a, P
    <3> QED BY <3>1, <3>2, BecomesMore
  <2>7. ASSUME NEW i \in 1..(k + 1) PROVE n.mem[Slot(t, d + i)] = m.regs[rs[i]]
    <3>1. CASE i = k + 1
      BY <2>4, <2>5, <3>1 DEF IsPushed
    <3>2. CASE i # k + 1
      <4>1. i \in 1..k /\ d + i \in Nat /\ d + (k + 1) \in Nat /\ d + i # d + (k + 1)
            /\ i \in 1..L
        BY <2>1, <3>2
      <4>2. Slot(t, d + i) # a
        BY <4>1, Slots
      <4>3. Slot(t, d + i) \in DOMAIN o.mem
        BY <2>3, <4>1 DEF Becomes
      <4>4. n.mem[Slot(t, d + i)] = o.mem[Slot(t, d + i)]
        BY <2>4, <4>2, <4>3 DEF IsPushed, Becomes
      <4> QED BY <2>1, <4>1, <4>4
    <3> QED BY <3>1, <3>2
  <2> QED BY <2>4, <2>6, <2>7 DEF IsPushed
<1>6. P(L)
  <2> HIDE DEF P
  <2>1. S = Nat
    BY <1>4, <1>5, Induction
  <2> QED BY <2>1
<1> QED BY <1>3, <1>6 DEF code, ArePushed

\* The same in the other direction.
LEMMA PopsDo ==
  ASSUME Hosts, NEW m, Machine(m), NEW rs, Program(rs),
         \A i \in 1..Len(rs) : rs[i] \in Registers \ {Host.sp},
         \A i, j \in 1..Len(rs) : rs[i] = rs[j] => i = j,
         NEW t, NEW d \in Nat, m.regs[Host.sp] = SP(t, d + Len(rs)),
         \A i \in 1..Len(rs) : Slot(t, d + i) \in DOMAIN m.mem
  PROVE  ArePopped(m, Execution(m, Pops(Reverse(rs))), rs, t, d)
<1> DEFINE L == Len(rs)
           code == Pops(Reverse(rs))
<1>0. L \in Nat
  BY DEF Program
<1>1. Len(code) = L /\ \A i \in 1..L : code[i] = <<"pop", rs[L - i + 1], "", 0>>
  BY <1>0, PopsAre
<1> HIDE DEF code
<1>2. \E e : Executes(e, m, code) /\ Execution(m, code) = e[Len(code)]
  <2>1. Len(code) \in Nat
    BY <1>0, <1>1
  <2> QED BY <2>1, ExecutionSteps, Zenon
<1>3. PICK e : Executes(e, m, code) /\ Execution(m, code) = e[L]
  BY <1>1, <1>2
<1> DEFINE All == {Host.sp} \cup {rs[i] : i \in 1..L}
           P(k) == /\ Becomes(m, e[k], All, {}) /\ e[k].mem = m.mem
                   /\ e[k].regs[Host.sp] = SP(t, d + (L - k))
                   /\ \A i \in (L - k + 1)..L : e[k].regs[rs[i]] = m.mem[Slot(t, d + i)]
           S == {k \in Nat : k <= L => P(k)}
<1>4. 0 \in S
  <2>1. e[0] = m /\ d + (L - 0) = d + L /\ (L - 0 + 1)..L = {}
    BY <1>0, <1>3 DEF Executes
  <2>2. Becomes(m, m, All, {})
    BY DEF Becomes
  <2> QED BY <2>1, <2>2
<1>5. ASSUME NEW k \in Nat, k \in S PROVE k + 1 \in S
  <2> SUFFICES ASSUME k + 1 <= L PROVE P(k + 1)
    OBVIOUS
  <2> DEFINE j == L - k
             f == d + (L - (k + 1))
             g == d + j
             a == Slot(t, g)
             r == rs[j]
             o == e[k]
             n == e[k + 1]
  <2>0. \A l, c \in Nat : c + 1 <= l =>
          /\ c <= l /\ c + 1 \in 1..l /\ (c + 1) - 1 = c
          /\ l - (c + 1) + 1 = l - c /\ l - c \in 1..l
          /\ l - (c + 1) \in Nat /\ l - c = (l - (c + 1)) + 1
          /\ \A i \in (l - (c + 1) + 1)..l : i # l - c => i \in (l - c + 1)..l /\ i \in 1..l
          /\ \A x \in Nat : x + (l - (c + 1)) \in Nat /\ x + (l - c) = (x + (l - (c + 1))) + 1
    OBVIOUS
  <2>1. /\ k + 1 \in 1..L /\ (k + 1) - 1 = k /\ L - (k + 1) + 1 = j /\ j \in 1..L
        /\ f \in Nat /\ g = f + 1 /\ k <= L
    BY <1>0, <2>0
  <2>2. P(k)
    BY <1>5, <2>1
  <2>3. n = Pop(o, r)
    <3>1. code[k + 1] = <<"pop", r, "", 0>>
      BY <1>1, <2>1
    <3>2. n = Execute(o, code[k + 1])
      BY <1>1, <1>3, <2>1 DEF Executes
    <3> HIDE DEF o, n, r
    <3> QED BY <3>1, <3>2, ExecutePop
  <2>4. /\ Becomes(m, o, All, {}) /\ Machine(o) /\ o.mem = m.mem
        /\ o.regs[Host.sp] = SP(t, g) /\ a \in DOMAIN o.mem
    BY <2>1, <2>2 DEF Becomes
  <2>5. r \in Registers /\ r # Host.sp /\ r \in All
    BY <2>1
  <2>6. IsPopped(o, n, SP(t, f), a, r)
    <3>1. Adjacent(SP(t, f), SP(t, g), a)
      BY <2>1, SlotsAdjacent
    <3> HIDE DEF o, n, r, j, f, g, a, P
    <3> QED BY <2>3, <2>4, <2>5, <3>1, PopDoes
  <2>7. Becomes(m, n, All, {})
    <3> HIDE DEF o, n, r, All
    <3>1. Becomes(m, n, All \cup {Host.sp, r}, {} \cup {})
      BY <2>4, <2>6, BecomesTwice DEF IsPopped
    <3>2. All \cup {Host.sp, r} \subseteq All /\ {} \cup {} \subseteq {}
      BY <2>5 DEF All
    <3> QED BY <3>1, <3>2, BecomesMore
  <2>8. ASSUME NEW i \in (L - (k + 1) + 1)..L PROVE n.regs[rs[i]] = m.mem[Slot(t, d + i)]
    <3>1. CASE i = j
      BY <2>4, <2>6, <3>1 DEF IsPopped
    <3>2. CASE i # j
      <4>1. i \in (L - k + 1)..L /\ i \in 1..L
        BY <1>0, <2>0, <3>2
      <4>2. rs[i] # r /\ rs[i] # Host.sp /\ rs[i] \in Registers
        BY <2>1, <3>2, <4>1
      <4>3. n.regs[rs[i]] = o.regs[rs[i]]
        BY <2>6, <4>2 DEF IsPopped, Becomes
      <4> QED BY <2>2, <4>1, <4>3
    <3> QED BY <3>1, <3>2
  <2> QED BY <2>4, <2>6, <2>7, <2>8 DEF IsPopped
<1>6. P(L)
  <2> HIDE DEF P
  <2>1. S = Nat
    BY <1>4, <1>5, Induction
  <2> QED BY <1>0, <2>1
<1>7. d + (L - L) = d /\ L - L + 1 = 1
  BY <1>0
<1> QED BY <1>3, <1>6, <1>7 DEF code, ArePopped

LEMMA SavesAre ==
  ASSUME NEW rs, Len(rs) \in Nat, NEW base
  PROVE  /\ Program(Saves(rs, base)) /\ Len(Saves(rs, base)) = Len(rs)
         /\ \A i \in 1..Len(rs) : Saves(rs, base)[i] = <<"st", rs[i], base, Offset(rs[i])>>
<1>1. Len(Saves(rs, base)) = Len(rs)
  BY DEF Saves
<1>2. ASSUME NEW i \in 1..Len(rs)
      PROVE  Saves(rs, base)[i] = <<"st", rs[i], base, Offset(rs[i])>>
  BY DEF Saves
<1>3. Saves(rs, base) = [i \in 1..Len(rs) |-> Saves(rs, base)[i]]
  BY DEF Saves
<1> QED BY <1>1, <1>2, <1>3 DEF Program

LEMMA RestoresAre ==
  ASSUME NEW rs, Len(rs) \in Nat, NEW base
  PROVE  /\ Program(Restores(rs, base)) /\ Len(Restores(rs, base)) = Len(rs)
         /\ \A i \in 1..Len(rs) :
              Restores(rs, base)[i] = <<"ld", rs[i], base, Offset(rs[i])>>
<1>1. Len(Restores(rs, base)) = Len(rs)
  BY DEF Restores
<1>2. ASSUME NEW i \in 1..Len(rs)
      PROVE  Restores(rs, base)[i] = <<"ld", rs[i], base, Offset(rs[i])>>
  BY DEF Restores
<1>3. Restores(rs, base) = [i \in 1..Len(rs) |-> Restores(rs, base)[i]]
  BY DEF Restores
<1> QED BY <1>1, <1>2, <1>3 DEF Program

\* The words of t's Thread object that hold the first k of the registers rs.
Fields(t, rs, k) == {At(t, rs[i]) : i \in 1..k}
First(rs, k) == {rs[i] : i \in 1..k}

\* The registers rs are in t's Thread object; they are as it says.
IsSaved(m, n, t, rs, k) ==
  /\ Becomes(m, n, {}, Fields(t, rs, k)) /\ n.regs = m.regs
  /\ \A i \in 1..k : n.mem[At(t, rs[i])] = m.regs[rs[i]]
IsRestored(m, n, t, rs, k) ==
  /\ Becomes(m, n, First(rs, k), {}) /\ n.mem = m.mem
  /\ \A i \in 1..k : n.regs[rs[i]] = m.mem[At(t, rs[i])]

\* A row of stores into a Thread object, and of loads from one.
LEMMA SavesDo ==
  ASSUME Hosts, NEW m, Machine(m), NEW rs, Len(rs) \in Nat,
         \A i \in 1..Len(rs) : rs[i] \in Layout,
         \A i, j \in 1..Len(rs) : rs[i] = rs[j] => i = j,
         NEW t, NEW base, m.regs[base] = Object(t), Words(t) \subseteq DOMAIN m.mem
  PROVE  IsSaved(m, Execution(m, Saves(rs, base)), t, rs, Len(rs))
<1> DEFINE L == Len(rs)
           code == Saves(rs, base)
<1>1. Len(code) = L /\ Len(code) \in Nat
      /\ \A i \in 1..L : code[i] = <<"st", rs[i], base, Offset(rs[i])>>
  BY SavesAre
<1> HIDE DEF code
<1>2. \E e : Executes(e, m, code) /\ Execution(m, code) = e[Len(code)]
  BY <1>1, ExecutionSteps, Zenon
<1>3. PICK e : Executes(e, m, code) /\ Execution(m, code) = e[L]
  BY <1>1, <1>2
<1> DEFINE S == {k \in Nat : k <= L => IsSaved(m, e[k], t, rs, k)}
<1>4. 0 \in S
  <2>1. e[0] = m
    BY <1>3 DEF Executes
  <2>2. IsSaved(m, m, t, rs, 0)
    BY DEF IsSaved, Becomes
  <2> QED BY <2>1, <2>2
<1>5. ASSUME NEW k \in Nat, k \in S PROVE k + 1 \in S
  <2> SUFFICES ASSUME k + 1 <= L PROVE IsSaved(m, e[k + 1], t, rs, k + 1)
    OBVIOUS
  <2> DEFINE r == rs[k + 1]
             a == At(t, r)
             o == e[k]
             n == e[k + 1]
  <2>1. k <= L /\ k + 1 \in 1..L /\ (k + 1) - 1 = k
    OBVIOUS
  <2>2. IsSaved(m, o, t, rs, k)
    BY <1>5, <2>1
  <2>3. r \in Layout
    BY <2>1
  <2>4. n = Store(o, a, o.regs[r])
    <3>1. code[k + 1] = <<"st", r, base, Offset(r)>>
      BY <1>1, <2>1
    <3>2. n = Execute(o, code[k + 1])
      BY <1>1, <1>3, <2>1 DEF Executes
    <3>3. Plus(o.regs[base], Offset(r)) = a
      BY <2>2, <2>3, ObjectWords DEF IsSaved
    <3> HIDE DEF o, n, r, a
    <3>4. n = Store(o, Plus(o.regs[base], Offset(r)), o.regs[r])
      BY <3>1, <3>2, ExecuteSt
    <3> QED BY <3>3, <3>4
  <2>5. Machine(o) /\ a \in DOMAIN o.mem
    BY <2>2, <2>3, ObjectWords DEF IsSaved, Becomes
  <2>6. IsStored(o, n, a, o.regs[r])
    <3> HIDE DEF o, n, r, a
    <3> QED BY <2>4, <2>5, StoreDoes
  <2>7. n.regs = m.regs /\ n.mem[a] = m.regs[r]
    BY <2>2, <2>6 DEF IsSaved, IsStored
  <2>8. Becomes(m, n, {}, Fields(t, rs, k + 1))
    <3>1. Fields(t, rs, k) \cup {a} \subseteq Fields(t, rs, k + 1)
      BY <2>1 DEF Fields
    <3> HIDE DEF o, n, a
    <3> QED BY <2>2, <2>6, <3>1 DEF IsSaved, IsStored, Becomes
  <2>9. ASSUME NEW i \in 1..(k + 1) PROVE n.mem[At(t, rs[i])] = m.regs[rs[i]]
    <3>1. CASE i = k + 1
      BY <2>7, <3>1
    <3>2. CASE i # k + 1
      <4>1. i \in 1..k /\ i \in 1..L
        BY <2>1, <3>2
      <4>2. rs[i] # r /\ rs[i] \in Layout
        BY <2>1, <3>2, <4>1
      <4>3. At(t, rs[i]) # a /\ At(t, rs[i]) \in DOMAIN o.mem
        BY <2>2, <2>3, <4>2, ObjectWords DEF IsSaved, Becomes
      <4>4. n.mem[At(t, rs[i])] = o.mem[At(t, rs[i])]
        BY <2>6, <4>3 DEF IsStored, Becomes
      <4> QED BY <2>2, <4>1, <4>4 DEF IsSaved
    <3> QED BY <3>1, <3>2
  <2> QED BY <2>7, <2>8, <2>9 DEF IsSaved
<1>6. S = Nat
  BY <1>4, <1>5, Induction
<1>7. IsSaved(m, e[L], t, rs, L)
  BY <1>6
<1> QED BY <1>3, <1>7 DEF code

LEMMA RestoresDo ==
  ASSUME Hosts, NEW m, Machine(m), NEW rs, Len(rs) \in Nat,
         \A i \in 1..Len(rs) : rs[i] \in Layout,
         \A i, j \in 1..Len(rs) : rs[i] = rs[j] => i = j,
         NEW t, NEW base \in Registers, \A i \in 1..Len(rs) : rs[i] # base,
         m.regs[base] = Object(t), Words(t) \subseteq DOMAIN m.mem
  PROVE  IsRestored(m, Execution(m, Restores(rs, base)), t, rs, Len(rs))
<1> DEFINE L == Len(rs)
           code == Restores(rs, base)
<1>1. Len(code) = L /\ Len(code) \in Nat
      /\ \A i \in 1..L : code[i] = <<"ld", rs[i], base, Offset(rs[i])>>
  BY RestoresAre
<1> HIDE DEF code
<1>2. \E e : Executes(e, m, code) /\ Execution(m, code) = e[Len(code)]
  BY <1>1, ExecutionSteps, Zenon
<1>3. PICK e : Executes(e, m, code) /\ Execution(m, code) = e[L]
  BY <1>1, <1>2
<1> DEFINE S == {k \in Nat : k <= L => IsRestored(m, e[k], t, rs, k)}
<1>4. 0 \in S
  <2>1. e[0] = m
    BY <1>3 DEF Executes
  <2>2. IsRestored(m, m, t, rs, 0)
    BY DEF IsRestored, Becomes
  <2> QED BY <2>1, <2>2
<1>5. ASSUME NEW k \in Nat, k \in S PROVE k + 1 \in S
  <2> SUFFICES ASSUME k + 1 <= L PROVE IsRestored(m, e[k + 1], t, rs, k + 1)
    OBVIOUS
  <2> DEFINE r == rs[k + 1]
             a == At(t, r)
             o == e[k]
             n == e[k + 1]
  <2>1. k <= L /\ k + 1 \in 1..L /\ (k + 1) - 1 = k
    OBVIOUS
  <2>2. IsRestored(m, o, t, rs, k)
    BY <1>5, <2>1
  <2>3. r \in Layout /\ r \in Registers /\ r \in First(rs, k + 1)
        /\ First(rs, k) \subseteq First(rs, k + 1)
    BY <2>1, RegisterFacts DEF First
  <2>4. n = Load(o, r, a)
    <3>1. code[k + 1] = <<"ld", r, base, Offset(r)>>
      BY <1>1, <2>1
    <3>2. n = Execute(o, code[k + 1])
      BY <1>1, <1>3, <2>1 DEF Executes
    <3>3. base \notin First(rs, k)
      BY <2>1 DEF First
    <3>4. o.regs[base] = Object(t)
      BY <2>2, <3>3 DEF IsRestored, Becomes
    <3>5. Plus(o.regs[base], Offset(r)) = a
      BY <2>3, <3>4, ObjectWords
    <3> HIDE DEF o, n, r, a
    <3>6. n = Load(o, r, Plus(o.regs[base], Offset(r)))
      BY <3>1, <3>2, ExecuteLd
    <3> QED BY <3>5, <3>6
  <2>5. Machine(o) /\ a \in DOMAIN o.mem /\ o.mem = m.mem
    BY <2>2, <2>3, ObjectWords DEF IsRestored, Becomes
  <2>6. IsSet(o, n, r, o.mem[a])
    <3> HIDE DEF o, n, r, a
    <3> QED BY <2>3, <2>4, <2>5, LoadDoes
  <2>7. n.mem = m.mem /\ n.regs[r] = m.mem[a]
    BY <2>5, <2>6 DEF IsSet
  <2>8. Becomes(m, n, First(rs, k + 1), {})
    <3> HIDE DEF o, n, a, r
    <3> QED BY <2>2, <2>3, <2>6 DEF IsRestored, IsSet, Becomes
  <2>9. ASSUME NEW i \in 1..(k + 1) PROVE n.regs[rs[i]] = m.mem[At(t, rs[i])]
    <3>1. CASE i = k + 1
      BY <2>7, <3>1
    <3>2. CASE i # k + 1
      <4>1. i \in 1..k /\ i \in 1..L
        BY <2>1, <3>2
      <4>2. rs[i] # r /\ rs[i] \in Registers
        BY <2>1, <3>2, <4>1, RegisterFacts
      <4>3. n.regs[rs[i]] = o.regs[rs[i]]
        BY <2>6, <4>2 DEF IsSet, Becomes
      <4> QED BY <2>2, <4>1, <4>3 DEF IsRestored
    <3> QED BY <3>1, <3>2
  <2> QED BY <2>7, <2>8, <2>9 DEF IsRestored
<1>6. S = Nat
  BY <1>4, <1>5, Induction
<1>7. IsRestored(m, e[L], t, rs, L)
  BY <1>6
<1> QED BY <1>3, <1>7 DEF code

-----------------------------------------------------------------------------
(* SWITCH. *)

\* SWITCH(old, new) has led from the machine m to n: the registers of the one thread
\* are in its object, and those of the other are as its object says.  The 386 has also
\* written at q.
Switched(m, n, old, new, q) ==
  /\ Machine(n) /\ n.wild = m.wild /\ DOMAIN n.mem = DOMAIN m.mem
  /\ \A r \in CalleeSaved \cup {Host.sp} : n.mem[At(old, r)] = m.regs[r]
  /\ n.mem[At(old, Host.link)] = Code("Run")
  /\ \A a \in DOMAIN m.mem \ Words(old) :
       (host = "i386" => a # q) => n.mem[a] = m.mem[a]
  /\ \A r \in CalleeSaved \cup {Host.sp, Host.InitialArg, Host.StartupPC} :
       n.regs[r] = n.mem[At(new, r)]
  /\ host # "i386" => n.regs[Host.link] = n.mem[At(new, Host.link)]

\* SWITCH on the MIPS and the Snake: stores, then loads, of every register of the layout.
LEMMA SwitchDoes ==
  ASSUME Hosts, host # "i386", NEW m, Machine(m), NEW old, NEW new,
         Words(old) \subseteq DOMAIN m.mem, Words(new) \subseteq DOMAIN m.mem,
         m.regs["arg0"] = Object(old), m.regs["arg1"] = Object(new),
         m.regs[Host.link] = Code("Run"), NEW q
  PROVE  Switched(m, Execution(m, SwitchCode), old, new, q)
<1> DEFINE rs == Host.layout
           L == Len(rs)
           n == Execution(m, Saves(rs, "arg0"))
           o == Execution(n, Restores(rs, "arg1"))
<1>1. /\ L \in Nat /\ \A i \in 1..L : rs[i] \in Layout
      /\ \A i, j \in 1..L : rs[i] = rs[j] => i = j
  BY HostWellFormed DEF WellFormed, Layout, LayoutOf
<1>2. /\ {"arg0", "arg1"} \subseteq Registers
      /\ \A i \in 1..L : rs[i] # "arg0" /\ rs[i] # "arg1"
  BY <1>1, RegisterFacts
<1>3. Execution(m, SwitchCode) = o
  <2>1. SwitchCode = Saves(rs, "arg0") \o Restores(rs, "arg1")
    BY DEF SwitchCode, SwitchRISC
  <2>2. Program(Saves(rs, "arg0")) /\ Program(Restores(rs, "arg1"))
    BY <1>1, SavesAre, RestoresAre
  <2> QED BY <2>1, <2>2, ExecutionConcat
<1>4. IsSaved(m, n, old, rs, L)
  <2> HIDE DEF rs
  <2> QED BY <1>1, SavesDo
<1> HIDE DEF n, rs
<1>5. Machine(n) /\ n.regs["arg1"] = Object(new) /\ Words(new) \subseteq DOMAIN n.mem
  BY <1>4 DEF IsSaved, Becomes
<1>6. IsRestored(n, o, new, rs, L)
  BY <1>1, <1>2, <1>5, RestoresDo
<1> HIDE DEF o
<1>7. ASSUME NEW r \in Layout
      PROVE  /\ o.mem[At(old, r)] = m.regs[r] /\ o.regs[r] = o.mem[At(new, r)]
  <2>1. PICK i \in 1..L : rs[i] = r
    BY DEF Layout, LayoutOf, rs
  <2> QED BY <1>4, <1>6, <2>1 DEF IsSaved, IsRestored
<1>8. Fields(old, rs, L) \subseteq Words(old)
  BY <1>1, ObjectWords DEF Fields
<1>9. \A a \in DOMAIN m.mem \ Words(old) : o.mem[a] = m.mem[a]
  BY <1>4, <1>6, <1>8 DEF IsSaved, IsRestored, Becomes
<1>10. Machine(o) /\ o.wild = m.wild /\ DOMAIN o.mem = DOMAIN m.mem
  BY <1>4, <1>6 DEF IsSaved, IsRestored, Becomes
<1>11. CalleeSaved \cup {Host.sp, Host.InitialArg, Host.StartupPC, Host.link} \subseteq Layout
  BY RegisterFacts
<1>12. Switched(m, o, old, new, q)
  BY <1>7, <1>9, <1>10, <1>11 DEF Switched
<1> QED BY <1>3, <1>12

LEMMA I386Facts ==
  ASSUME host = "i386"
  PROVE  /\ Hosts /\ Host.sp = "esp" /\ Host.link = "pc" /\ Host.InitialArg = "edx"
         /\ Host.StartupPC = "ecx"
         /\ CalleeSaved = {"ebx", "ebp", "esi", "edi"}
         /\ {"esp", "eax", "ebx", "ecx", "edx", "ebp", "esi", "edi", "pc"} \subseteq Layout
         /\ "_eax_save" \in Registers
<1>1. Host = i386 /\ Hosts
  BY HostIs DEF Hosts
<1>2. /\ i386.sp = "esp" /\ i386.link = "pc" /\ i386.InitialArg = "edx"
      /\ i386.StartupPC = "ecx" /\ "_eax_save" \in i386.scratch
  BY DEF i386
<1>3. Len(i386.calleeSaved) = 4 /\ Len(i386.layout) = 9
  BY DEF i386
<1>4. CalleeSaved = {"ebx", "ebp", "esi", "edi"}
  <2>1. /\ i386.calleeSaved[1] = "ebx" /\ i386.calleeSaved[2] = "ebp"
        /\ i386.calleeSaved[3] = "esi" /\ i386.calleeSaved[4] = "edi"
    BY DEF i386
  <2>2. \A i \in 1..4 : i = 1 \/ i = 2 \/ i = 3 \/ i = 4
    OBVIOUS
  <2>3. CalleeSaved = {i386.calleeSaved[i] : i \in 1..4}
    BY <1>1, <1>3, CalleeSavedIs DEF CalleeSavedOf
  <2> QED BY <2>1, <2>2, <2>3
<1>5. {"esp", "eax", "ebx", "ecx", "edx", "ebp", "esi", "edi", "pc"} \subseteq Layout
  <2>1. /\ i386.layout[1] = "esp" /\ i386.layout[2] = "eax" /\ i386.layout[3] = "ebx"
        /\ i386.layout[4] = "ecx" /\ i386.layout[5] = "edx" /\ i386.layout[6] = "ebp"
        /\ i386.layout[7] = "esi" /\ i386.layout[8] = "edi" /\ i386.layout[9] = "pc"
    BY DEF i386
  <2>2. Layout = {i386.layout[i] : i \in 1..9}
    BY <1>1, <1>3 DEF Layout, LayoutOf
  <2> QED BY <2>1, <2>2
<1>6. "_eax_save" \in Registers
  BY <1>1, <1>2 DEF Registers
<1> QED BY <1>1, <1>2, <1>4, <1>5, <1>6

\* What two, three and seven instructions lead to.
LEMMA TwoInstructions ==
  ASSUME NEW p, Len(p) = 2, NEW m, NEW e1, NEW e2,
         e1 = Execute(m, p[1]), e2 = Execute(e1, p[2])
  PROVE  Execution(m, p) = e2
<1>0. \E x : Executes(x, m, p) /\ Execution(m, p) = x[Len(p)]
  <2>1. Len(p) \in Nat
    OBVIOUS
  <2> QED BY <2>1, ExecutionSteps, Zenon
<1>1. PICK x : Executes(x, m, p) /\ Execution(m, p) = x[Len(p)]
  BY <1>0
<1>2. x[0] = m /\ x[1] = Execute(x[0], p[1]) /\ x[2] = Execute(x[1], p[2])
  BY <1>1 DEF Executes
<1> QED BY <1>1, <1>2

LEMMA ThreeInstructions ==
  ASSUME NEW p, Len(p) = 3, NEW m, NEW e1, NEW e2, NEW e3,
         e1 = Execute(m, p[1]), e2 = Execute(e1, p[2]), e3 = Execute(e2, p[3])
  PROVE  Execution(m, p) = e3
<1>0. \E x : Executes(x, m, p) /\ Execution(m, p) = x[Len(p)]
  <2>1. Len(p) \in Nat
    OBVIOUS
  <2> QED BY <2>1, ExecutionSteps, Zenon
<1>1. PICK x : Executes(x, m, p) /\ Execution(m, p) = x[Len(p)]
  BY <1>0
<1>2. /\ x[0] = m /\ x[1] = Execute(x[0], p[1]) /\ x[2] = Execute(x[1], p[2])
      /\ x[3] = Execute(x[2], p[3])
  BY <1>1 DEF Executes
<1> QED BY <1>1, <1>2

LEMMA SevenInstructions ==
  ASSUME NEW p, Len(p) = 7, NEW m,
         NEW e1, NEW e2, NEW e3, NEW e4, NEW e5, NEW e6, NEW e7,
         e1 = Execute(m, p[1]), e2 = Execute(e1, p[2]), e3 = Execute(e2, p[3]),
         e4 = Execute(e3, p[4]), e5 = Execute(e4, p[5]), e6 = Execute(e5, p[6]),
         e7 = Execute(e6, p[7])
  PROVE  Execution(m, p) = e7
<1>0. \E x : Executes(x, m, p) /\ Execution(m, p) = x[Len(p)]
  <2>1. Len(p) \in Nat
    OBVIOUS
  <2> QED BY <2>1, ExecutionSteps, Zenon
<1>1. PICK x : Executes(x, m, p) /\ Execution(m, p) = x[Len(p)]
  BY <1>0
<1>2. /\ x[0] = m /\ x[1] = Execute(x[0], p[1]) /\ x[2] = Execute(x[1], p[2])
      /\ x[3] = Execute(x[2], p[3]) /\ x[4] = Execute(x[3], p[4])
      /\ x[5] = Execute(x[4], p[5]) /\ x[6] = Execute(x[5], p[6])
      /\ x[7] = Execute(x[6], p[7])
  BY <1>1 DEF Executes
<1> QED BY <1>1, <1>2

\* SWITCH on the 386, the stack of the old thread holding the return address and the
\* two threads; q is the word above the new thread's stack pointer.
LEMMA SwitchDoes386 ==
  ASSUME host = "i386", NEW m, Machine(m), NEW old, NEW new,
         Words(old) \subseteq DOMAIN m.mem, Words(new) \subseteq DOMAIN m.mem,
         NEW p, m.regs[Host.sp] = p,
         {Plus(p, 0), Plus(p, 1), Plus(p, 2)} \subseteq DOMAIN m.mem \ Words(old),
         m.mem[Plus(p, 0)] = Code("Run"), m.mem[Plus(p, 1)] = Object(old),
         m.mem[Plus(p, 2)] = Object(new),
         NEW q, q = Plus(IF new = old THEN p ELSE m.mem[At(new, Host.sp)], 1),
         q \in DOMAIN m.mem \ (Words(old) \cup Words(new))
  PROVE  Switched(m, Execution(m, SwitchCode), old, new, q)
<1> DEFINE rs == <<"ebx", "ecx", "edx", "esi", "edi", "ebp", "esp">>
           D == DOMAIN m.mem
<1>1. /\ Hosts /\ Host.sp = "esp" /\ Host.link = "pc" /\ Host.InitialArg = "edx"
      /\ Host.StartupPC = "ecx" /\ CalleeSaved = {"ebx", "ebp", "esi", "edi"}
      /\ {"esp", "eax", "ebx", "ecx", "edx", "ebp", "esi", "edi", "pc"} \subseteq Layout
      /\ {"esp", "eax", "ebx", "ecx", "edx", "ebp", "esi", "edi", "pc", "_eax_save"}
           \subseteq Registers
  BY I386Facts, RegisterFacts
<1>2. /\ Len(rs) = 7 /\ \A i \in 1..7 : rs[i] \in Layout /\ rs[i] # "eax"
      /\ \A i, j \in 1..7 : rs[i] = rs[j] => i = j
      /\ \A r \in CalleeSaved \cup {"esp", "ecx", "edx"} : \E i \in 1..7 : rs[i] = r
  <2>1. /\ rs[1] = "ebx" /\ rs[2] = "ecx" /\ rs[3] = "edx" /\ rs[4] = "esi"
        /\ rs[5] = "edi" /\ rs[6] = "ebp" /\ rs[7] = "esp" /\ Len(rs) = 7
    OBVIOUS
  <2>2. \A i, j \in 1..7 : rs[i] = rs[j] => i = j
    OBVIOUS
  <2>3. \A i \in 1..7 : rs[i] \in {"ebx", "ecx", "edx", "esi", "edi", "ebp", "esp"}
    OBVIOUS
  <2> HIDE DEF rs
  <2> QED BY <1>1, <2>1, <2>2, <2>3
<1> HIDE DEF rs
<1> DEFINE e1 == Set(m, "_eax_save", m.regs["eax"])
           e2 == Load(e1, "eax", Plus(e1.regs["esp"], 1))
           n == Execution(e2, Saves(rs, "eax"))
           b1 == Set(n, "ebx", n.regs["_eax_save"])
           b2 == Store(b1, Plus(b1.regs["eax"], Offset("eax")), b1.regs["ebx"])
           b3 == Load(b2, "ebx", Plus(b2.regs["esp"], 0))
           b4 == Store(b3, Plus(b3.regs["eax"], Offset("pc")), b3.regs["ebx"])
           b5 == Load(b4, "eax", Plus(b4.regs["esp"], 2))
           b6 == Load(b5, "ebx", Plus(b5.regs["eax"], Offset("eax")))
           b7 == Set(b6, "_eax_save", b6.regs["ebx"])
           o == Execution(b7, Restores(rs, "eax"))
           c1 == Load(o, "eax", Plus(o.regs["eax"], Offset("pc")))
           c2 == Store(c1, Plus(c1.regs["esp"], 1), c1.regs["eax"])
           c3 == Set(c2, "eax", c2.regs["_eax_save"])
<1>3. Execution(m, SwitchCode) = c3
  <2> DEFINE A == << <<"mov", "_eax_save", "eax", 0>>, <<"ld", "eax", "esp", 1>> >>
             B == << <<"mov", "ebx", "_eax_save", 0>>,
                     <<"st", "ebx", "eax", Offset("eax")>>,
                     <<"ld", "ebx", "esp", 0>>, <<"st", "ebx", "eax", Offset("pc")>>,
                     <<"ld", "eax", "esp", 2>>,
                     <<"ld", "ebx", "eax", Offset("eax")>>,
                     <<"mov", "_eax_save", "ebx", 0>> >>
             C == << <<"ld", "eax", "eax", Offset("pc")>>,
                     <<"st", "eax", "esp", 1>>, <<"mov", "eax", "_eax_save", 0>> >>
             sv == Saves(rs, "eax")
             rst == Restores(rs, "eax")
  <2>1. SwitchCode = (((A \o sv) \o B) \o rst) \o C
    BY DEF SwitchCode, SWITCH386, ReturnSlot, rs
  <2>2. Program(A) /\ Program(B) /\ Program(C)
    BY DEF Program
  <2>3. Program(sv) /\ Program(rst)
    BY <1>2, SavesAre, RestoresAre
  <2>4. Execution(m, A) = e2
    <3>1. /\ Len(A) = 2 /\ A[1] = <<"mov", "_eax_save", "eax", 0>>
          /\ A[2] = <<"ld", "eax", "esp", 1>>
      OBVIOUS
    <3> HIDE DEF A
    <3>2. e1 = Execute(m, A[1])
      BY <3>1, ExecuteMov
    <3> HIDE DEF e1
    <3>3. e2 = Execute(e1, A[2])
      BY <3>1, ExecuteLd
    <3> HIDE DEF e2
    <3> QED BY <3>1, <3>2, <3>3, TwoInstructions
  <2>5. Execution(n, B) = b7
    <3>0. /\ Len(B) = 7 /\ B[1] = <<"mov", "ebx", "_eax_save", 0>>
          /\ B[2] = <<"st", "ebx", "eax", Offset("eax")>>
          /\ B[3] = <<"ld", "ebx", "esp", 0>>
          /\ B[4] = <<"st", "ebx", "eax", Offset("pc")>>
          /\ B[5] = <<"ld", "eax", "esp", 2>>
          /\ B[6] = <<"ld", "ebx", "eax", Offset("eax")>>
          /\ B[7] = <<"mov", "_eax_save", "ebx", 0>>
      OBVIOUS
    <3> HIDE DEF n, B
    <3>1. b1 = Execute(n, B[1])
      BY <3>0, ExecuteMov
    <3> HIDE DEF b1
    <3>2. b2 = Execute(b1, B[2])
      BY <3>0, ExecuteSt
    <3> HIDE DEF b2
    <3>3. b3 = Execute(b2, B[3])
      BY <3>0, ExecuteLd
    <3> HIDE DEF b3
    <3>4. b4 = Execute(b3, B[4])
      BY <3>0, ExecuteSt
    <3> HIDE DEF b4
    <3>5. b5 = Execute(b4, B[5])
      BY <3>0, ExecuteLd
    <3> HIDE DEF b5
    <3>6. b6 = Execute(b5, B[6])
      BY <3>0, ExecuteLd
    <3> HIDE DEF b6
    <3>7. b7 = Execute(b6, B[7])
      BY <3>0, ExecuteMov
    <3> HIDE DEF b7
    <3> QED BY <3>0, <3>1, <3>2, <3>3, <3>4, <3>5, <3>6, <3>7, SevenInstructions
  <2>6. Execution(o, C) = c3
    <3>0. /\ Len(C) = 3 /\ C[1] = <<"ld", "eax", "eax", Offset("pc")>>
          /\ C[2] = <<"st", "eax", "esp", 1>> /\ C[3] = <<"mov", "eax", "_eax_save", 0>>
      OBVIOUS
    <3> HIDE DEF o, C
    <3>1. c1 = Execute(o, C[1])
      BY <3>0, ExecuteLd
    <3> HIDE DEF c1
    <3>2. c2 = Execute(c1, C[2])
      BY <3>0, ExecuteSt
    <3> HIDE DEF c2
    <3>3. c3 = Execute(c2, C[3])
      BY <3>0, ExecuteMov
    <3> HIDE DEF c3
    <3> QED BY <3>0, <3>1, <3>2, <3>3, ThreeInstructions
  <2>7. n = Execution(e2, sv) /\ o = Execution(b7, rst)
    OBVIOUS
  <2> HIDE DEF A, B, C, sv, rst, e2, n, b7, o, c3
  <2>8. Program(A \o sv) /\ Program((A \o sv) \o B) /\ Program(((A \o sv) \o B) \o rst)
    BY <2>2, <2>3, ProgramConcat
  <2>9. Execution(m, A \o sv) = n
    BY <2>2, <2>3, <2>4, <2>7, ExecutionConcat
  <2>10. Execution(m, (A \o sv) \o B) = b7
    BY <2>2, <2>5, <2>8, <2>9, ExecutionConcat
  <2>11. Execution(m, ((A \o sv) \o B) \o rst) = o
    BY <2>3, <2>7, <2>8, <2>10, ExecutionConcat
  <2> QED BY <2>1, <2>2, <2>6, <2>8, <2>11, ExecutionConcat
<1>4. \A i \in 1..7 : rs[i] \notin {"eax", "_eax_save"}
  BY DEF rs
<1>5. /\ IsSet(m, e1, "_eax_save", m.regs["eax"])
      /\ IsSet(e1, e2, "eax", Object(old))
  <2>1. IsSet(m, e1, "_eax_save", m.regs["eax"])
    BY <1>1, SetDoes
  <2> HIDE DEF e1
  <2>2. /\ Machine(e1) /\ e1.mem = m.mem /\ e1.regs["esp"] = p
    BY <1>1, <2>1 DEF IsSet, Becomes
  <2>3. e2 = Load(e1, "eax", Plus(p, 1)) /\ Plus(p, 1) \in DOMAIN e1.mem
    BY <2>2
  <2> HIDE DEF e2
  <2>4. IsSet(e1, e2, "eax", e1.mem[Plus(p, 1)])
    BY <1>1, <2>2, <2>3, LoadDoes
  <2> QED BY <2>1, <2>2, <2>4
<1> HIDE DEF e1, e2
<1>6. /\ Machine(e2) /\ e2.mem = m.mem /\ e2.regs["eax"] = Object(old)
      /\ e2.pc = m.pc /\ e2.wild = m.wild
      /\ \A r \in Registers \ {"eax", "_eax_save"} : e2.regs[r] = m.regs[r]
  BY <1>5 DEF IsSet, Becomes
<1>7. IsSaved(e2, n, old, rs, 7)
  <2>1. /\ Len(rs) \in Nat /\ \A i \in 1..Len(rs) : rs[i] \in Layout
        /\ \A i, j \in 1..Len(rs) : rs[i] = rs[j] => i = j
    BY <1>2
  <2>2. Words(old) \subseteq DOMAIN e2.mem
    BY <1>6
  <2>3. IsSaved(e2, n, old, rs, Len(rs))
    BY <1>1, <1>6, <2>1, <2>2, SavesDo
  <2> HIDE DEF n
  <2> QED BY <1>2, <2>3
<1> HIDE DEF n
<1>8. /\ Machine(n) /\ DOMAIN n.mem = D /\ n.regs = e2.regs
      /\ n.pc = m.pc /\ n.wild = m.wild
      /\ \A i \in 1..7 : n.mem[At(old, rs[i])] = m.regs[rs[i]]
      /\ \A a \in D \ Words(old) : n.mem[a] = m.mem[a]
  <2>1. Fields(old, rs, 7) \subseteq Words(old)
    BY <1>1, <1>2, ObjectWords DEF Fields
  <2>2. \A i \in 1..7 : n.mem[At(old, rs[i])] = m.regs[rs[i]]
    BY <1>1, <1>2, <1>4, <1>6, <1>7, RegisterFacts DEF IsSaved
  <2> QED BY <1>6, <1>7, <2>1, <2>2 DEF IsSaved, Becomes
<1>9. /\ At(old, "eax") \in D /\ At(old, "pc") \in D /\ At(new, "eax") \in D
      /\ At(new, "pc") \in D
      /\ Plus(Object(old), Offset("eax")) = At(old, "eax")
      /\ Plus(Object(old), Offset("pc")) = At(old, "pc")
      /\ Plus(Object(new), Offset("eax")) = At(new, "eax")
      /\ Plus(Object(new), Offset("pc")) = At(new, "pc")
  BY <1>1, ObjectWords
<1>10. IsSet(n, b1, "ebx", n.regs["_eax_save"])
  BY <1>1, <1>8, SetDoes
<1> HIDE DEF b1
<1>11. IsStored(b1, b2, At(old, "eax"), b1.regs["ebx"])
  <2>1. b1.regs["eax"] = Object(old) /\ Machine(b1) /\ DOMAIN b1.mem = D
    BY <1>1, <1>6, <1>8, <1>10 DEF IsSet, Becomes
  <2>2. b2 = Store(b1, At(old, "eax"), b1.regs["ebx"])
    BY <1>9, <2>1
  <2> HIDE DEF b2
  <2> QED BY <1>9, <2>1, <2>2, StoreDoes
<1> HIDE DEF b2
<1>12. /\ Machine(b2) /\ DOMAIN b2.mem = D /\ b2.pc = m.pc /\ b2.wild = m.wild
       /\ b2.regs["eax"] = Object(old) /\ b2.regs["esp"] = p
       /\ \A i \in 1..7 : b2.mem[At(old, rs[i])] = m.regs[rs[i]]
       /\ \A a \in D \ Words(old) : b2.mem[a] = m.mem[a]
  <2>1. \A i \in 1..7 : At(old, rs[i]) \in D \ {At(old, "eax")}
    BY <1>1, <1>2, ObjectWords
  <2>2. At(old, "eax") \in Words(old)
    BY <1>1, ObjectWords
  <2>3. \A a \in D \ {At(old, "eax")} : b2.mem[a] = n.mem[a]
    BY <1>8, <1>10, <1>11 DEF IsSet, IsStored, Becomes
  <2>4. b2.regs["eax"] = Object(old) /\ b2.regs["esp"] = p
    BY <1>1, <1>6, <1>8, <1>10, <1>11 DEF IsSet, IsStored, Becomes
  <2>5. Machine(b2) /\ DOMAIN b2.mem = D /\ b2.pc = m.pc /\ b2.wild = m.wild
    BY <1>8, <1>10, <1>11 DEF IsSet, IsStored, Becomes
  <2> QED BY <1>8, <2>1, <2>2, <2>3, <2>4, <2>5
<1>13. IsSet(b2, b3, "ebx", Code("Run"))
  <2>1. b3 = Load(b2, "ebx", Plus(p, 0)) /\ b2.mem[Plus(p, 0)] = Code("Run")
        /\ Plus(p, 0) \in DOMAIN b2.mem
    BY <1>12
  <2> HIDE DEF b3
  <2> QED BY <1>1, <1>12, <2>1, LoadDoes
<1> HIDE DEF b3
<1>14. IsStored(b3, b4, At(old, "pc"), Code("Run"))
  <2>1. b3.regs["eax"] = Object(old) /\ Machine(b3) /\ DOMAIN b3.mem = D
        /\ b3.regs["ebx"] = Code("Run")
    BY <1>1, <1>12, <1>13 DEF IsSet, Becomes
  <2>2. b4 = Store(b3, At(old, "pc"), Code("Run"))
    BY <1>9, <2>1
  <2> HIDE DEF b4
  <2> QED BY <1>9, <2>1, <2>2, StoreDoes
<1> HIDE DEF b4
<1>15. /\ Machine(b4) /\ DOMAIN b4.mem = D /\ b4.pc = m.pc /\ b4.wild = m.wild
       /\ b4.regs["esp"] = p
       /\ b4.mem[At(old, "pc")] = Code("Run")
       /\ \A i \in 1..7 : b4.mem[At(old, rs[i])] = m.regs[rs[i]]
       /\ \A a \in D \ Words(old) : b4.mem[a] = m.mem[a]
  <2>1. \A i \in 1..7 : At(old, rs[i]) \in D \ {At(old, "pc")}
    <3>1. \A i \in 1..7 : rs[i] # "pc"
      BY DEF rs
    <3> QED BY <1>1, <1>2, <3>1, ObjectWords
  <2>2. At(old, "pc") \in Words(old)
    BY <1>1, ObjectWords
  <2>3. \A a \in D \ {At(old, "pc")} : b4.mem[a] = b2.mem[a]
    BY <1>12, <1>13, <1>14 DEF IsSet, IsStored, Becomes
  <2>4. b4.regs["esp"] = p /\ b4.mem[At(old, "pc")] = Code("Run")
    BY <1>1, <1>12, <1>13, <1>14 DEF IsSet, IsStored, Becomes
  <2>5. Machine(b4) /\ DOMAIN b4.mem = D /\ b4.pc = m.pc /\ b4.wild = m.wild
    BY <1>12, <1>13, <1>14 DEF IsSet, IsStored, Becomes
  <2> QED BY <1>12, <2>1, <2>2, <2>3, <2>4, <2>5
<1>16. IsSet(b4, b5, "eax", Object(new))
  <2>1. b5 = Load(b4, "eax", Plus(p, 2)) /\ b4.mem[Plus(p, 2)] = Object(new)
        /\ Plus(p, 2) \in DOMAIN b4.mem
    BY <1>15
  <2> HIDE DEF b5
  <2> QED BY <1>1, <1>15, <2>1, LoadDoes
<1> HIDE DEF b5
<1>17. \E w : IsSet(b5, b6, "ebx", w)
  <2>1. b5.regs["eax"] = Object(new) /\ Machine(b5) /\ DOMAIN b5.mem = D
    BY <1>15, <1>16 DEF IsSet, Becomes
  <2>2. b6 = Load(b5, "ebx", At(new, "eax"))
    BY <1>9, <2>1
  <2> HIDE DEF b6
  <2>3. IsSet(b5, b6, "ebx", b5.mem[At(new, "eax")])
    BY <1>1, <1>9, <2>1, <2>2, LoadDoes
  <2> QED BY <2>3
<1> HIDE DEF b6
<1>18. IsSet(b6, b7, "_eax_save", b6.regs["ebx"])
  BY <1>1, <1>17, SetDoes DEF IsSet, Becomes
<1> HIDE DEF b7
<1>19. /\ Machine(b7) /\ b7.mem = b4.mem /\ b7.wild = m.wild
       /\ b7.regs["eax"] = Object(new) /\ b7.regs["esp"] = p
  <2>1. b7.regs["eax"] = Object(new)
    BY <1>1, <1>16, <1>17, <1>18 DEF IsSet, Becomes
  <2> QED BY <1>1, <1>15, <1>16, <1>17, <1>18, <2>1 DEF IsSet, Becomes
<1>20. IsRestored(b7, o, new, rs, 7)
  <2>1. Words(new) \subseteq DOMAIN b7.mem
    BY <1>15, <1>19
  <2>2. /\ Len(rs) \in Nat /\ \A i \in 1..Len(rs) : rs[i] \in Layout /\ rs[i] # "eax"
        /\ \A i, j \in 1..Len(rs) : rs[i] = rs[j] => i = j
    BY <1>2
  <2>3. IsRestored(b7, o, new, rs, Len(rs))
    BY <1>1, <1>19, <2>1, <2>2, RestoresDo
  <2> HIDE DEF o
  <2> QED BY <1>2, <2>3
<1> HIDE DEF o
<1>21. /\ Machine(o) /\ o.mem = b4.mem /\ o.wild = m.wild
       /\ o.regs["eax"] = Object(new)
       /\ \A i \in 1..7 : o.regs[rs[i]] = b4.mem[At(new, rs[i])]
  <2>1. "eax" \in Registers \ First(rs, 7)
    BY <1>1, <1>2 DEF First
  <2> QED BY <1>19, <1>20, <2>1 DEF IsRestored, Becomes
<1>22. Plus(o.regs["esp"], 1) = q
  <2>1. PICK i \in 1..7 : rs[i] = "esp"
    BY <1>2
  <2>2. o.regs["esp"] = b4.mem[At(new, "esp")]
    BY <1>21, <2>1
  <2>3. CASE new = old
    BY <1>1, <1>15, <2>1, <2>2, <2>3
  <2>4. CASE new # old
    <3>1. At(new, "esp") \in D \ Words(old)
      BY <1>1, <2>4, ObjectWords
    <3> QED BY <1>1, <1>15, <2>2, <2>4, <3>1
  <2> QED BY <2>3, <2>4
<1>23. IsSet(o, c1, "eax", b4.mem[At(new, "pc")])
  <2>1. c1 = Load(o, "eax", At(new, "pc"))
    BY <1>9, <1>21
  <2> HIDE DEF c1
  <2> QED BY <1>1, <1>9, <1>15, <1>21, <2>1, LoadDoes
<1> HIDE DEF c1
<1>24. IsStored(c1, c2, q, c1.regs["eax"])
  <2>1. c1.regs["esp"] = o.regs["esp"] /\ Machine(c1) /\ DOMAIN c1.mem = D
    BY <1>1, <1>15, <1>21, <1>23 DEF IsSet, Becomes
  <2>2. c2 = Store(c1, q, c1.regs["eax"])
    BY <1>22, <2>1
  <2> HIDE DEF c2
  <2> QED BY <2>1, <2>2, StoreDoes
<1> HIDE DEF c2
<1>25. IsSet(c2, c3, "eax", c2.regs["_eax_save"])
  BY <1>1, <1>24, SetDoes DEF IsStored, Becomes
<1> HIDE DEF c3
<1>26. /\ Machine(c3) /\ c3.wild = m.wild /\ DOMAIN c3.mem = D
       /\ \A a \in D \ {q} : c3.mem[a] = b4.mem[a]
       /\ \A r \in Registers \ {"eax"} : c3.regs[r] = o.regs[r]
  BY <1>15, <1>21, <1>23, <1>24, <1>25 DEF IsSet, IsStored, Becomes
<1>27. ASSUME NEW r \in CalleeSaved \cup {"esp", "ecx", "edx"}
       PROVE  c3.mem[At(old, r)] = m.regs[r] /\ c3.regs[r] = c3.mem[At(new, r)]
  <2>1. PICK i \in 1..7 : rs[i] = r
    BY <1>2
  <2>2. r \in Layout /\ r \in Registers \ {"eax"}
    BY <1>1, <1>2, <2>1, RegisterFacts
  <2>3. At(old, r) \in D \ {q} /\ At(new, r) \in D \ {q}
    BY <1>1, <2>2, ObjectWords
  <2>4. b4.mem[At(old, r)] = m.regs[r] /\ o.regs[r] = b4.mem[At(new, r)]
    BY <1>15, <1>21, <2>1
  <2> QED BY <1>26, <2>2, <2>3, <2>4
<1>28. c3.mem[At(old, "pc")] = Code("Run")
  <2>1. At(old, "pc") \in D \ {q}
    BY <1>1, ObjectWords
  <2> QED BY <1>15, <1>26, <2>1
<1>29. c3.regs["esp"] = o.regs["esp"]
  BY <1>1, <1>26
<1>30. \A a \in D \ Words(old) : a # q => c3.mem[a] = m.mem[a]
  BY <1>15, <1>26
<1>31. Switched(m, c3, old, new, q)
  BY <1>1, <1>22, <1>26, <1>27, <1>28, <1>29, <1>30 DEF Switched
<1> QED BY <1>3, <1>31

-----------------------------------------------------------------------------
(* What becomes of a thread when the memory changes around it. *)

\* The stack of t is the same up to depth d.
SameStack(mem, n, t, d) == \A e \in 1..d : n[Slot(t, e)] = mem[Slot(t, e)]
SameObject(mem, n, t) == \A a \in Words(t) : n[a] = mem[a]

LEMMA SameStackLess ==
  ASSUME NEW mem, NEW n, NEW t, NEW d \in Nat, NEW e \in Nat, SameStack(mem, n, t, d),
         e <= d
  PROVE  SameStack(mem, n, t, e)
BY DEF SameStack

LEMMA ReturnsToKept ==
  ASSUME Hosts, NEW mem, NEW n, NEW t, NEW ret, t # Main, ReturnsTo(mem, t, ret),
         SameStack(mem, n, t, Inside(t))
  PROVE  ReturnsTo(n, t, ret)
<1>1. Inside(t) = CallDepth + Len(Frame) /\ Len(Frame) \in 1..17 /\ Inside(t) \in 0..17
  BY Depths, Frames
<1>2. /\ CallDepth \in Nat /\ (host = "i386" => CallDepth = 3)
  BY Depths
<1>3. ASSUME NEW i \in 1..Len(Frame)
      PROVE  n[Slot(t, CallDepth + i)] = mem[Slot(t, CallDepth + i)]
  <2>1. CallDepth + i \in 1..Inside(t)
    BY <1>1, <1>2
  <2> QED BY <2>1 DEF SameStack
<1>4. CASE host = "i386"
  <2>1. 2 \in 1..Inside(t) /\ 3 \in 1..Inside(t)
    BY <1>1, <1>2, <1>4
  <2>2. n[Slot(t, 2)] = mem[Slot(t, 2)] /\ n[Slot(t, 3)] = mem[Slot(t, 3)]
    BY <2>1 DEF SameStack
  <2> QED BY <1>3, <2>2 DEF ReturnsTo
<1>5. CASE host # "i386"
  BY <1>3, <1>5 DEF ReturnsTo
<1> QED BY <1>4, <1>5

\* What a thread is in depends on its own words only.
LEMMA InProcedureKept ==
  ASSUME Hosts, NEW mem, NEW n, NEW t, NEW p, NEW called, InProcedure(mem, t, p, called),
         SameStack(mem, n, t, Inside(t))
  PROVE  InProcedure(n, t, p, called)
BY ReturnsToKept DEF InProcedure

LEMMA InRunKept ==
  ASSUME Hosts, NEW mem, NEW n, NEW t, NEW called, NEW k, InRun(mem, t, called, k),
         SameStack(mem, n, t, Inside(t) + 1)
  PROVE  InRun(n, t, called, k)
<1>1. Inside(t) \in Nat
  BY Depths
<1>2. Inside(t) + 1 \in Nat /\ Inside(t) <= Inside(t) + 1
      /\ Inside(t) + 1 \in 1..(Inside(t) + 1)
  BY <1>1
<1>3. InProcedure(n, t, k.pc, called)
  BY <1>1, <1>2, SameStackLess, InProcedureKept DEF InRun
<1>4. n[Slot(t, Inside(t) + 1)] = mem[Slot(t, Inside(t) + 1)]
  BY <1>2 DEF SameStack
<1> QED BY <1>3, <1>4 DEF InRun

LEMMA SuspendedKept ==
  ASSUME Hosts, NEW mem, NEW n, NEW t, NEW called, NEW k, Suspended(mem, t, called, k),
         SameObject(mem, n, t), SameStack(mem, n, t, Inside(t) + 1),
         host = "i386" =>
           n[Slot(t, SwitchDepth(t))] = mem[Slot(t, SwitchDepth(t))]
  PROVE  Suspended(n, t, called, k)
<1>1. InRun(n, t, called, k)
  BY InRunKept DEF Suspended
<1>2. \A r \in Layout : n[At(t, r)] = mem[At(t, r)]
  BY ObjectWords DEF SameObject
<1> QED BY <1>1, <1>2, RegisterFacts DEF Suspended

LEMMA FreshKept ==
  ASSUME Hosts, NEW mem, NEW n, NEW t, NEW called, Fresh(mem, t, called),
         SameObject(mem, n, t), host = "i386" => n[Slot(t, 1)] = mem[Slot(t, 1)]
  PROVE  Fresh(n, t, called)
<1>2. \A r \in Layout : n[At(t, r)] = mem[At(t, r)]
  BY ObjectWords DEF SameObject
<1> QED BY <1>2, RegisterFacts DEF Fresh

\* A thread that does not run.
Asleep(mem, t, called, k) == Fresh(mem, t, called) \/ Suspended(mem, t, called, k)

\* Nothing happens to a thread whose object and stack nobody touches.
LEMMA AsleepKept ==
  ASSUME Hosts, NEW mem, NEW n, NEW t, NEW called, NEW k, Asleep(mem, t, called, k),
         \A a \in Words(t) \cup Stack(t) : n[a] = mem[a]
  PROVE  Asleep(n, t, called, k)
<1>1. SameObject(mem, n, t)
  BY DEF SameObject
<1>2. \A d \in 1..Deep(t) : n[Slot(t, d)] = mem[Slot(t, d)]
  BY Slots
<1>3. /\ Inside(t) \in Nat /\ Deep(t) \in Nat /\ SwitchDepth(t) \in Nat
      /\ Inside(t) < SwitchDepth(t) /\ SwitchDepth(t) <= Deep(t)
  <2>1. Deep(t) \in Nat
    BY DEF Deep
  <2>2. /\ Inside(t) \in 0..17 /\ RunDepth(t) \in Nat /\ SwitchDepth(t) \in Nat
        /\ Inside(t) < RunDepth(t) /\ RunDepth(t) <= SwitchDepth(t)
        /\ SwitchDepth(t) <= Deep(t)
    BY Depths
  <2> QED BY <2>1, <2>2
<1>4. \A e \in 1..(Inside(t) + 1) : e \in 1..Deep(t)
  BY <1>3
<1>5. SwitchDepth(t) \in 1..Deep(t) /\ 1 \in 1..Deep(t)
  BY <1>3
<1>6. SameStack(mem, n, t, Inside(t) + 1)
  BY <1>2, <1>4 DEF SameStack
<1> QED BY <1>1, <1>2, <1>5, <1>6, SuspendedKept, FreshKept DEF Asleep

\* The word above the stack pointer of a thread, which the 386 writes on: nothing is
\* there, or an argument of SWITCH.
LEMMA WordAbove ==
  ASSUME host = "i386", NEW mem, NEW t, NEW called, NEW k, Asleep(mem, t, called, k),
         NEW q, q = Plus(mem[At(t, Host.sp)], 1)
  PROVE  /\ Fresh(mem, t, called) => q = Slot(t, 0)
         /\ Suspended(mem, t, called, k) => q = Slot(t, Inside(t) + 3)
         /\ q \in Stack(t) /\ \A u : u # Main => q # Fencepost(u)
<1> DEFINE d == Inside(t)
<1>1. Hosts
  BY DEF Hosts
<1>2. /\ d \in 0..17 /\ SwitchDepth(t) = d + 4 /\ d + 4 <= Deep(t) /\ Deep(t) \in Nat
  <2>1. Measured(t)
    BY <1>1, DepthsOf
  <2> QED BY <2>1 DEF Measured
<1> HIDE DEF d
<1>3. CASE Fresh(mem, t, called)
  <2>1. mem[At(t, Host.sp)] = SP(t, 1)
    BY <1>3 DEF Fresh
  <2>2. Adjacent(SP(t, 0), SP(t, 0 + 1), Slot(t, 0 + 1)) /\ 0 + 1 = 1
    BY SlotsAdjacent
  <2>3. Plus(SP(t, 1), 1) = SP(t, 0)
    BY <2>2 DEF Adjacent
  <2>4. SP(t, 0) = Slot(t, 0)
    BY DEF SP, Slot
  <2>5. q = Slot(t, 0)
    BY <2>1, <2>3, <2>4
  <2>6. ~Suspended(mem, t, called, k)
    <3>1. Code("ThreadRoot") # Code("Run")
      BY DEF Code
    <3> QED BY <1>3, <3>1 DEF Fresh, Suspended
  <2>7. 0 \in 0..Deep(t)
    BY <1>2
  <2>8. Slot(t, 0) \in Stack(t)
    BY <1>1, <2>4, <2>7, Slots
  <2>9. ASSUME NEW u PROVE Slot(t, 0) # Fencepost(u)
    <3>1. StackSize \in Nat /\ StackSize > 36
      BY SwitchAssumption
    <3> DEFINE x == Base(t) - 0
    <3>2. x # 0
      BY <3>1 DEF Base
    <3>3. Slot(t, 0) = <<"stack", t, x>> /\ Fencepost(u) = <<"stack", u, 0>>
      BY DEF Slot, Fencepost
    <3> HIDE DEF x
    <3> QED BY <3>2, <3>3
  <2> QED BY <2>5, <2>6, <2>8, <2>9
<1>4. CASE Suspended(mem, t, called, k)
  <2>1. mem[At(t, Host.sp)] = SP(t, d + 4)
    BY <1>2, <1>4 DEF Suspended
  <2>2. d + 3 \in Nat /\ (d + 3) + 1 = d + 4 /\ d + 3 \in 1..Deep(t)
    BY <1>2
  <2>3. Adjacent(SP(t, d + 3), SP(t, d + 4), Slot(t, d + 4))
    BY <2>2, SlotsAdjacent
  <2>4. Plus(SP(t, d + 4), 1) = SP(t, d + 3)
    BY <2>3 DEF Adjacent
  <2>5. SP(t, d + 3) = Slot(t, d + 3)
    BY DEF SP, Slot
  <2>6. q = Slot(t, d + 3)
    BY <2>1, <2>4, <2>5
  <2>7. ~Fresh(mem, t, called)
    <3>1. Code("ThreadRoot") # Code("Run")
      BY DEF Code
    <3> QED BY <1>4, <3>1 DEF Fresh, Suspended
  <2>8. Slot(t, d + 3) \in Stack(t) /\ \A u : u # Main => Slot(t, d + 3) # Fencepost(u)
    BY <1>1, <2>2, Slots
  <2> QED BY <2>6, <2>7, <2>8 DEF d
<1> QED BY <1>3, <1>4 DEF Asleep

\* The thread that SWITCH leaves alone but for that word.
LEMMA AsleepSwitched ==
  ASSUME Hosts, NEW mem, NEW n, NEW t, NEW called, NEW k, Asleep(mem, t, called, k),
         NEW q, host = "i386" => q = Plus(mem[At(t, Host.sp)], 1),
         \A a \in Words(t) : n[a] = mem[a],
         \A a \in Stack(t) : (host = "i386" => a # q) => n[a] = mem[a]
  PROVE  Asleep(n, t, called, k)
<1>1. CASE host # "i386"
  BY <1>1, AsleepKept
<1> SUFFICES ASSUME host = "i386" PROVE Asleep(n, t, called, k)
  BY <1>1
<1> DEFINE d == Inside(t)
<1>2. /\ d \in 0..17 /\ SwitchDepth(t) = d + 4 /\ d + 4 <= Deep(t) /\ Deep(t) \in Nat
  <2>1. Measured(t)
    BY DepthsOf
  <2> QED BY <2>1 DEF Measured
<1>3. SameObject(mem, n, t)
  BY DEF SameObject
<1>4. \A e \in 1..Deep(t) : Slot(t, e) # q => n[Slot(t, e)] = mem[Slot(t, e)]
  BY Slots
<1>5. CASE Fresh(mem, t, called)
  <2>1. q = Slot(t, 0)
    BY <1>5, WordAbove DEF Asleep
  <2>2. Slot(t, 1) # q
    BY <2>1, Slots
  <2>3. 1 \in 1..Deep(t)
    BY <1>2
  <2>4. n[Slot(t, 1)] = mem[Slot(t, 1)]
    BY <1>4, <2>2, <2>3
  <2> QED BY <1>3, <1>5, <2>4, FreshKept DEF Asleep
<1>6. CASE Suspended(mem, t, called, k)
  <2>1. q = Slot(t, d + 3)
    BY <1>6, WordAbove DEF Asleep
  <2> HIDE DEF d
  <2>2. ASSUME NEW e \in 1..Deep(t), e # d + 3 PROVE n[Slot(t, e)] = mem[Slot(t, e)]
    <3>1. d + 3 \in Nat /\ e \in Nat
      BY <1>2
    <3>2. Slot(t, e) # q
      BY <2>1, <2>2, <3>1, Slots
    <3> QED BY <1>4, <3>2
  <2>3. \A e \in 1..(d + 1) : e \in 1..Deep(t) /\ e # d + 3
    BY <1>2
  <2>4. SameStack(mem, n, t, d + 1)
    BY <2>2, <2>3 DEF SameStack
  <2>5. d + 4 \in 1..Deep(t) /\ d + 4 # d + 3
    BY <1>2
  <2>6. n[Slot(t, SwitchDepth(t))] = mem[Slot(t, SwitchDepth(t))]
    BY <1>2, <2>2, <2>5
  <2> QED BY <1>3, <1>6, <2>4, <2>6, SuspendedKept DEF Asleep, d
<1> QED BY <1>5, <1>6 DEF Asleep

\* The thread whose registers SWITCH has restored goes on where it was.
LEMMA Wakes ==
  ASSUME Hosts, NEW m, Machine(m), NEW t, NEW called, NEW k, Asleep(m.mem, t, called, k),
         Stack(t) \subseteq DOMAIN m.mem,
         \A r \in CalleeSaved \cup {Host.sp, Host.InitialArg, Host.StartupPC} :
           m.regs[r] = m.mem[At(t, r)],
         host # "i386" => m.regs[Host.link] = m.mem[At(t, Host.link)]
  PROVE  /\ Running(Ret(m), t, called, k) /\ Machine(Ret(m))
         /\ Ret(m).mem = m.mem /\ Ret(m).wild = m.wild
<1> DEFINE n == IF host = "i386" THEN Pop(m, "pc") ELSE m
           o == Jump(n, n.regs[Host.link])
<1>1. Ret(m) = o
  BY DEF Ret
<1>2. /\ Machine(n) /\ n.mem = m.mem /\ n.wild = m.wild
      /\ \A r \in Registers \ {Host.sp, Host.link} : n.regs[r] = m.regs[r]
      /\ Fresh(m.mem, t, called) =>
           n.regs[Host.sp] = SP(t, 0) /\ n.regs[Host.link] = Code("ThreadRoot")
      /\ Suspended(m.mem, t, called, k) =>
           n.regs[Host.sp] = SP(t, RunDepth(t)) /\ n.regs[Host.link] = Code("Run")
  <2>1. CASE host # "i386"
    <3>1. SwitchDepth(t) = RunDepth(t)
      BY <2>1, Depths
    <3> QED BY <2>1, <3>1 DEF Fresh, Suspended
  <2>2. CASE host = "i386"
    <3>1. Host.link = "pc" /\ "pc" \in Registers /\ "pc" # Host.sp
      BY <2>2, I386Facts, RegisterFacts
    <3>2. ASSUME NEW d \in Nat, d + 1 <= Deep(t), m.regs[Host.sp] = SP(t, d + 1)
          PROVE  IsPopped(m, n, SP(t, d), Slot(t, d + 1), "pc")
      <4>1. d + 1 \in 1..Deep(t)
        <5>1. Deep(t) \in Nat
          BY DEF Deep
        <5> QED BY <3>2, <5>1
      <4>2. Slot(t, d + 1) \in DOMAIN m.mem
        BY <4>1, Slots
      <4>3. Adjacent(SP(t, d), SP(t, d + 1), Slot(t, d + 1))
        BY SlotsAdjacent
      <4>4. n = Pop(m, "pc")
        BY <2>2
      <4> HIDE DEF n
      <4> QED BY <3>1, <3>2, <4>2, <4>3, <4>4, PopDoes
    <3> HIDE DEF n
    <3>3. CASE Fresh(m.mem, t, called)
      <4>1. m.regs[Host.sp] = SP(t, 1) /\ m.mem[Slot(t, 1)] = Code("ThreadRoot")
        BY <2>2, <3>3 DEF Fresh
      <4>2. 0 \in Nat /\ 0 + 1 = 1 /\ 1 <= Deep(t)
        BY DEF Deep
      <4>3. IsPopped(m, n, SP(t, 0), Slot(t, 1), "pc")
        BY <3>2, <4>1, <4>2
      <4>4. ~Suspended(m.mem, t, called, k)
        <5>1. Code("ThreadRoot") # Code("Run")
          BY DEF Code
        <5> QED BY <3>3, <5>1 DEF Fresh, Suspended
      <4> QED BY <3>1, <4>1, <4>3, <4>4 DEF IsPopped, Becomes
    <3>4. CASE Suspended(m.mem, t, called, k)
      <4> DEFINE d == RunDepth(t)
                 s == SwitchDepth(t)
      <4>1. d \in Nat /\ s = d + 1 /\ s <= Deep(t)
        <5>1. /\ Inside(t) \in 0..17 /\ RunDepth(t) = Inside(t) + 3
              /\ SwitchDepth(t) = Inside(t) + 4 /\ SwitchDepth(t) <= Deep(t)
          BY <2>2, Depths
        <5> QED BY <5>1
      <4>2. m.regs[Host.sp] = SP(t, s) /\ m.mem[Slot(t, s)] = Code("Run")
        BY <2>2, <3>4 DEF Suspended
      <4> HIDE DEF d, s
      <4>3. IsPopped(m, n, SP(t, d), Slot(t, s), "pc")
        BY <3>2, <4>1, <4>2
      <4>4. ~Fresh(m.mem, t, called)
        <5>1. Code("ThreadRoot") # Code("Run")
          BY DEF Code
        <5> QED BY <3>4, <5>1 DEF Fresh, Suspended
      <4> QED BY <3>1, <4>2, <4>3, <4>4 DEF IsPopped, Becomes, d
    <3> QED BY <3>3, <3>4 DEF Asleep
  <2> QED BY <2>1, <2>2
<1> HIDE DEF n
<1>3. /\ Machine(o) /\ o.pc = n.regs[Host.link] /\ o.regs = n.regs
      /\ o.mem = m.mem /\ o.wild = m.wild
  BY <1>2, JumpDoes
<1> HIDE DEF o
<1>4. ASSUME NEW r \in CalleeSaved \cup {Host.InitialArg, Host.StartupPC}
      PROVE  o.regs[r] = m.mem[At(t, r)]
  <2>1. r \in Registers \ {Host.sp, Host.link}
    BY RegisterFacts
  <2> QED BY <1>2, <1>3, <2>1
<1>5. CASE Fresh(m.mem, t, called)
  <2>1. /\ o.pc = Code("ThreadRoot") /\ o.regs[Host.sp] = SP(t, 0)
    BY <1>2, <1>3, <1>5
  <2>2. InRoot(o, t, called)
    BY <1>4, <1>5, <2>1, RegisterFacts DEF Fresh, InRoot
  <2> QED BY <1>1, <1>3, <1>5, <2>2 DEF Running, Fresh
<1>6. CASE Suspended(m.mem, t, called, k)
  <2>1. o.pc = Code("Run") /\ o.regs[Host.sp] = SP(t, RunDepth(t))
    BY <1>2, <1>3, <1>6
  <2>2. InRun(o.mem, t, called, k) /\ k.regs[Host.sp] = SP(t, RunDepth(t))
    BY <1>3, <1>6 DEF Suspended, InRun
  <2>3. \A r \in CalleeSaved : o.regs[r] = k.regs[r]
    BY <1>4, <1>6 DEF Suspended
  <2> QED BY <1>1, <1>3, <2>1, <2>2, <2>3 DEF Running
<1> QED BY <1>5, <1>6 DEF Asleep

-----------------------------------------------------------------------------
(* Run. *)

\* What Run has done when SWITCH begins: it has pushed the pc, p, and either pushed the
\* two threads and the return address or loaded registers with them.  The 386 uses four
\* words of the stack, the others one.
Used == IF host = "i386" THEN 4 ELSE 1

Prepared(c, m, t, new, p) ==
  /\ Machine(m) /\ m.wild = c.wild /\ DOMAIN m.mem = DOMAIN c.mem
  /\ \A a \in DOMAIN c.mem \ Above(t, Inside(t), Used) : m.mem[a] = c.mem[a]
  /\ \A r \in CalleeSaved : m.regs[r] = c.regs[r]
  /\ m.mem[Slot(t, Inside(t) + 1)] = p
  /\ m.regs[Host.sp] = SP(t, SwitchDepth(t))
  /\ host = "i386" => /\ m.mem[Slot(t, Inside(t) + 2)] = Object(new)
                      /\ m.mem[Slot(t, Inside(t) + 3)] = Object(t)
                      /\ m.mem[Slot(t, Inside(t) + 4)] = Code("Run")
  /\ host # "i386" => /\ m.regs["arg0"] = Object(t) /\ m.regs["arg1"] = Object(new)
                      /\ m.regs[Host.link] = Code("Run")

\* The registers when Run calls SWITCH, m, are those of c but for the stack pointer.
Passed(c, m, t) ==
  /\ m.regs[Host.sp] = SP(t, RunDepth(t))
  /\ \A r \in CalleeSaved : m.regs[r] = c.regs[r]

\* The call of Run and its call of SWITCH leave the arguments where SWITCH takes them.
LEMMA RunPrepares ==
  ASSUME Hosts, NEW c, Machine(c), NEW new, NEW p,
         NEW t, t = currentThread, Stack(t) \subseteq DOMAIN c.mem,
         c.regs[Host.sp] = SP(t, Inside(t))
  PROVE  LET m == PassThreads(Push(c, p), new)
         IN  Passed(c, m, t) /\ Prepared(c, Call(m, Code("SWITCH"), Code("Run")), t, new, p)
<1> DEFINE d == Inside(t)
           D == DOMAIN c.mem
           m0 == Push(c, p)
           m == PassThreads(m0, new)
           w == IF host = "i386" THEN Push(m, Code("Run")) ELSE Set(m, Host.link, Code("Run"))
           n == Call(m, Code("SWITCH"), Code("Run"))
<1>1. /\ d \in 0..17 /\ d + 1 <= Deep(t) /\ Deep(t) \in Nat
      /\ host = "i386" => d + 4 <= Deep(t)
      /\ host = "i386" => RunDepth(t) = d + 3 /\ SwitchDepth(t) = d + 4
      /\ host # "i386" => RunDepth(t) = d + 1 /\ SwitchDepth(t) = d + 1
  <2>1. Measured(t)
    BY DepthsOf
  <2> QED BY <2>1 DEF Measured
<1> HIDE DEF d
<1>2. /\ d + 1 \in Nat /\ d + 2 \in Nat /\ d + 3 \in Nat /\ d + 4 \in Nat
      /\ (d + 1) + 1 = d + 2 /\ (d + 2) + 1 = d + 3 /\ (d + 3) + 1 = d + 4
      /\ d + 1 \in 1..Deep(t)
      /\ host = "i386" => {d + 2, d + 3, d + 4} \subseteq 1..Deep(t)
  BY <1>1
<1>3. /\ Slot(t, d + 1) \in D
      /\ host = "i386" => {Slot(t, d + 2), Slot(t, d + 3), Slot(t, d + 4)} \subseteq D
  <2>1. \A e \in 1..Deep(t) : Slot(t, e) \in D
    BY Slots
  <2> QED BY <1>2, <2>1
<1>4. /\ Adjacent(SP(t, d), SP(t, d + 1), Slot(t, d + 1))
      /\ Adjacent(SP(t, d + 1), SP(t, d + 2), Slot(t, d + 2))
      /\ Adjacent(SP(t, d + 2), SP(t, d + 3), Slot(t, d + 3))
      /\ Adjacent(SP(t, d + 3), SP(t, d + 4), Slot(t, d + 4))
  BY <1>1, <1>2, SlotsAdjacent
<1>5. /\ Slot(t, d + 1) \in Above(t, d, Used)
      /\ host = "i386" =>
           {Slot(t, d + 2), Slot(t, d + 3), Slot(t, d + 4)} \subseteq Above(t, d, Used)
  BY DEF Above, Used
<1>6. /\ Slot(t, d + 1) \notin {Slot(t, d + 2), Slot(t, d + 3), Slot(t, d + 4)}
      /\ Slot(t, d + 2) \notin {Slot(t, d + 3), Slot(t, d + 4)}
      /\ Slot(t, d + 3) # Slot(t, d + 4)
  <2>1. d + 1 # d + 2 /\ d + 1 # d + 3 /\ d + 1 # d + 4 /\ d + 2 # d + 3 /\ d + 2 # d + 4
        /\ d + 3 # d + 4
    BY <1>1
  <2> QED BY <1>2, <2>1, Slots
<1> DEFINE s1 == Slot(t, d + 1)
           s2 == Slot(t, d + 2)
           s3 == Slot(t, d + 3)
           s4 == Slot(t, d + 4)
           p1 == SP(t, d + 1)
           p2 == SP(t, d + 2)
           p3 == SP(t, d + 3)
           p4 == SP(t, d + 4)
<1>7. IsPushed(c, m0, p1, s1, p)
  <2>1. c.regs[Host.sp] = SP(t, d)
    BY DEF d
  <2> QED BY <1>3, <1>4, <2>1, PushDoes
<1> HIDE DEF m0
<1>8. /\ Host.sp \notin CalleeSaved /\ CalleeSaved \subseteq Registers
      /\ Host.link \notin CalleeSaved /\ Host.link \in Registers /\ Host.sp # Host.link
      /\ Host.sp \in Registers
  BY RegisterFacts
<1>9. n = Jump(w, Code("SWITCH"))
  BY DEF Call
<1>10. CASE host = "i386"
  <2> DEFINE m1 == Push(m0, Object(new))
  <2>1. m = Push(m1, Object(t)) /\ w = Push(m, Code("Run"))
    BY <1>10 DEF PassThreads
  <2>2. {s1, s2, s3, s4} \subseteq D
    BY <1>3, <1>10
  <2> HIDE DEF m, w, n, s1, s2, s3, s4, p1, p2, p3, p4
  <2>3. Adjacent(p1, p2, s2) /\ Adjacent(p2, p3, s3) /\ Adjacent(p3, p4, s4)
    BY <1>4 DEF s1, s2, s3, s4, p1, p2, p3, p4
  <2>4. IsPushed(m0, m1, p2, s2, Object(new))
    <3>1. Machine(m0) /\ m0.regs[Host.sp] = p1 /\ s2 \in DOMAIN m0.mem
      BY <1>7, <2>2 DEF IsPushed, Becomes
    <3> QED BY <2>3, <3>1, PushDoes
  <2> HIDE DEF m1
  <2>5. IsPushed(m1, m, p3, s3, Object(t))
    <3>1. Machine(m1) /\ m1.regs[Host.sp] = p2 /\ s3 \in DOMAIN m1.mem
      BY <1>7, <2>2, <2>4 DEF IsPushed, Becomes
    <3> QED BY <2>1, <2>3, <3>1, PushDoes
  <2>6. IsPushed(m, w, p4, s4, Code("Run"))
    <3>1. Machine(m) /\ m.regs[Host.sp] = p3 /\ s4 \in DOMAIN m.mem
      BY <1>7, <2>2, <2>4, <2>5 DEF IsPushed, Becomes
    <3> QED BY <2>1, <2>3, <3>1, PushDoes
  <2>7. /\ Machine(n) /\ n.regs = w.regs /\ n.mem = w.mem /\ n.wild = w.wild
    BY <1>9, <2>6, JumpDoes DEF IsPushed, Becomes
  <2>8. /\ \A r \in CalleeSaved : m.regs[r] = c.regs[r] /\ w.regs[r] = c.regs[r]
        /\ m.regs[Host.sp] = p3 /\ w.regs[Host.sp] = p4
    BY <1>7, <1>8, <2>4, <2>5, <2>6 DEF IsPushed, Becomes
  <2>9. /\ DOMAIN w.mem = D /\ w.wild = c.wild
        /\ \A a \in D \ {s1, s2, s3, s4} : w.mem[a] = c.mem[a]
    BY <1>7, <2>4, <2>5, <2>6 DEF IsPushed, Becomes
  <2>10. w.mem[s1] = p /\ w.mem[s2] = Object(new) /\ w.mem[s3] = Object(t)
         /\ w.mem[s4] = Code("Run")
    <3>1. s1 \notin {s2, s3, s4} /\ s2 \notin {s3, s4} /\ s3 # s4
      BY <1>6 DEF s1, s2, s3, s4
    <3> QED BY <1>7, <2>2, <2>4, <2>5, <2>6, <3>1 DEF IsPushed, Becomes
  <2>11. Passed(c, m, t)
    BY <1>1, <1>10, <2>8 DEF Passed, p3
  <2>12. Prepared(c, n, t, new, p)
    <3>1. \A a \in D \ Above(t, d, Used) : n.mem[a] = c.mem[a]
      BY <1>5, <1>10, <2>7, <2>9 DEF s1, s2, s3, s4
    <3>2. /\ n.mem[Slot(t, d + 1)] = p /\ n.mem[Slot(t, d + 2)] = Object(new)
          /\ n.mem[Slot(t, d + 3)] = Object(t) /\ n.mem[Slot(t, d + 4)] = Code("Run")
          /\ n.regs[Host.sp] = SP(t, SwitchDepth(t))
      BY <1>1, <1>10, <2>7, <2>8, <2>10 DEF s1, s2, s3, s4, p4
    <3> QED BY <1>10, <2>7, <2>8, <2>9, <3>1, <3>2 DEF Prepared, d
  <2> QED BY <2>11, <2>12 DEF m, n, m0
<1>11. CASE host # "i386"
  <2> DEFINE m1 == Set(m0, "arg0", Object(t))
  <2>1. m = Set(m1, "arg1", Object(new)) /\ w = Set(m, Host.link, Code("Run"))
    BY <1>11 DEF PassThreads
  <2>2. {"arg0", "arg1"} \subseteq Registers \ Layout /\ "arg0" # "arg1"
    BY <1>11, RegisterFacts
  <2>3. Host.sp \in Layout /\ Host.link \in Layout /\ CalleeSaved \subseteq Layout
    BY RegisterFacts
  <2> HIDE DEF m, w, n, s1, s2, s3, s4, p1, p2, p3, p4
  <2>4. IsSet(m0, m1, "arg0", Object(t))
    BY <1>7, <2>2, SetDoes DEF IsPushed, Becomes
  <2> HIDE DEF m1
  <2>5. IsSet(m1, m, "arg1", Object(new))
    BY <2>1, <2>2, <2>4, SetDoes DEF IsSet, Becomes
  <2>6. IsSet(m, w, Host.link, Code("Run"))
    BY <1>8, <2>1, <2>5, SetDoes DEF IsSet, Becomes
  <2>7. /\ Machine(n) /\ n.regs = w.regs /\ n.mem = w.mem /\ n.wild = w.wild
    BY <1>9, <2>6, JumpDoes DEF IsSet, Becomes
  <2>8. /\ \A r \in CalleeSaved : m.regs[r] = c.regs[r] /\ w.regs[r] = c.regs[r]
        /\ m.regs[Host.sp] = p1 /\ w.regs[Host.sp] = p1
    BY <1>7, <1>8, <2>2, <2>3, <2>4, <2>5, <2>6 DEF IsPushed, IsSet, Becomes
  <2>9. /\ DOMAIN w.mem = D /\ w.wild = c.wild /\ w.mem[s1] = p
        /\ \A a \in D \ {s1} : w.mem[a] = c.mem[a]
    BY <1>7, <2>4, <2>5, <2>6 DEF IsPushed, IsSet, Becomes
  <2>10. w.regs["arg0"] = Object(t) /\ w.regs["arg1"] = Object(new)
         /\ w.regs[Host.link] = Code("Run")
    BY <2>2, <2>3, <2>4, <2>5, <2>6 DEF IsSet, Becomes
  <2>11. Passed(c, m, t)
    BY <1>1, <1>11, <2>8 DEF Passed, p1
  <2>12. Prepared(c, n, t, new, p)
    <3>1. \A a \in D \ Above(t, d, Used) : n.mem[a] = c.mem[a]
      BY <1>5, <2>7, <2>9 DEF s1
    <3>2. n.mem[Slot(t, d + 1)] = p /\ n.regs[Host.sp] = SP(t, SwitchDepth(t))
      BY <1>1, <1>11, <2>7, <2>8, <2>9 DEF s1, p1
    <3> QED BY <1>11, <2>7, <2>8, <2>9, <2>10, <3>1, <3>2 DEF Prepared, d
  <2> QED BY <2>11, <2>12 DEF m, n, m0
<1> QED BY <1>10, <1>11

\* SWITCH in Run, from the machine m that Run has prepared to n: every thread but the
\* new one, and that one too, is asleep in n.mem, and n has the registers of the new one.
Slept(mem, fin, cs, ks) ==
  \A u \in Thread \ fin : HasStack(mem, u) => Asleep(mem, u, cs[u], ks[u])

\* The thread that calls SWITCH is suspended after it.
LEMMA OldAsleep ==
  ASSUME Hosts, NEW c, NEW m, NEW n, NEW t, NEW new, NEW p, NEW called, NEW k,
         Stack(t) \subseteq DOMAIN c.mem,
         Prepared(c, m, t, new, p), NEW q, Switched(m, n, t, new, q),
         InProcedure(c.mem, t, p, called),
         k.pc = p, DOMAIN k.regs = {Host.sp} \cup CalleeSaved,
         k.regs[Host.sp] = SP(t, RunDepth(t)),
         \A r \in CalleeSaved : k.regs[r] = c.regs[r],
         host = "i386" => q = Slot(t, Inside(t) + 3) \/ q \notin Stack(t)
  PROVE  Asleep(n.mem, t, called, k)
<1> DEFINE d == Inside(t)
<1>1. /\ d \in 0..17 /\ d + 1 <= Deep(t) /\ Deep(t) \in Nat
      /\ host = "i386" => SwitchDepth(t) = d + 4 /\ d + 4 <= Deep(t)
  <2>1. Measured(t)
    BY DepthsOf
  <2> QED BY <2>1 DEF Measured
<1>2. ASSUME NEW e \in 1..Deep(t), e # d + 3
      PROVE  n.mem[Slot(t, e)] = m.mem[Slot(t, e)]
  <2>1. Slot(t, e) \in Stack(t)
    BY Slots
  <2>2. Slot(t, e) \in DOMAIN m.mem \ Words(t)
    BY <2>1, ObjectWords DEF Prepared
  <2>3. host = "i386" => Slot(t, e) # q
    <3>1. d + 3 \in Nat /\ e \in Nat
      BY <1>1
    <3>2. Slot(t, e) # Slot(t, d + 3)
      BY <1>2, <3>1, Slots
    <3> QED BY <2>1, <3>2
  <2> QED BY <2>2, <2>3 DEF Switched
<1>3. ASSUME NEW e \in 1..d PROVE m.mem[Slot(t, e)] = c.mem[Slot(t, e)]
  <2>1. e \in 1..Deep(t) /\ e \in Nat /\ \A i \in 1..Used : d + i \in Nat /\ e # d + i
    BY <1>1 DEF Used
  <2>2. Slot(t, e) \in Stack(t)
    BY <2>1, Slots
  <2>3. \A i \in 1..Used : Slot(t, e) # Slot(t, d + i)
    BY <2>1, Slots
  <2>4. Slot(t, e) \notin Above(t, d, Used)
    BY <2>3 DEF Above
  <2> QED BY <2>2, <2>4 DEF Prepared
<1>4. InProcedure(n.mem, t, p, called)
  <2>1. \A e \in 1..d : e \in 1..Deep(t) /\ e # d + 3
    BY <1>1
  <2>2. SameStack(c.mem, n.mem, t, d)
    BY <1>2, <1>3, <2>1 DEF SameStack
  <2> QED BY <2>2, InProcedureKept
<1>5. n.mem[Slot(t, d + 1)] = p
  <2>1. d + 1 \in 1..Deep(t) /\ d + 1 # d + 3
    BY <1>1
  <2>2. n.mem[Slot(t, d + 1)] = m.mem[Slot(t, d + 1)]
    BY <1>2, <2>1
  <2> QED BY <2>2 DEF Prepared
<1>6. InRun(n.mem, t, called, k)
  BY <1>4, <1>5 DEF InRun
<1>7. host = "i386" => n.mem[Slot(t, SwitchDepth(t))] = Code("Run")
  <2> SUFFICES ASSUME host = "i386" PROVE n.mem[Slot(t, SwitchDepth(t))] = Code("Run")
    OBVIOUS
  <2>1. d + 4 \in 1..Deep(t) /\ d + 4 # d + 3
    BY <1>1
  <2>2. n.mem[Slot(t, d + 4)] = m.mem[Slot(t, d + 4)]
    BY <1>2, <2>1
  <2> QED BY <1>1, <2>2 DEF Prepared
<1>8. /\ \A r \in CalleeSaved : n.mem[At(t, r)] = k.regs[r]
      /\ n.mem[At(t, Host.sp)] = SP(t, SwitchDepth(t))
      /\ n.mem[At(t, Host.link)] = Code("Run")
  BY DEF Switched, Prepared
<1>9. Suspended(n.mem, t, called, k)
  BY <1>6, <1>7, <1>8 DEF Suspended
<1> QED BY <1>9 DEF Asleep

LEMMA Below ==
  ASSUME host = "i386", NEW t, NEW d \in Nat, NEW e \in Nat, NEW i \in Nat, e + i = d
  PROVE  Plus(SP(t, d), i) = Slot(t, e)
<1>1. Base(t) \in Nat
  <2>1. StackSize \in Nat /\ StackSize > 36 /\ StackSize \div 2 \in Nat
    BY SwitchAssumption
  <2> QED BY <2>1 DEF Base
<1>2. (Base(t) - d) + i = Base(t) - e
  BY <1>1
<1>3. SP(t, d) = <<"stack", t, Base(t) - d>> /\ Slot(t, e) = <<"stack", t, Base(t) - e>>
  BY DEF SP, Slot
<1>4. Plus(SP(t, d), i) = <<"stack", t, (Base(t) - d) + i>>
  BY <1>3 DEF Plus
<1> QED BY <1>2, <1>3, <1>4

\* Thread t may switch to new in c, called by the procedure p.
MayRun(c, fin, t, new, p, cs, ks) ==
  /\ Machine(c) /\ Memory(c.mem, fin)
  /\ t \in Thread \ fin /\ t = currentThread /\ HasStack(c.mem, t)
  /\ new \in Thread \ fin /\ HasStack(c.mem, new)
  /\ InProcedure(c.mem, t, p, cs[t])
  /\ c.regs[Host.sp] = SP(t, Inside(t))
  /\ \A u \in Thread \ (fin \cup {t}) :
       HasStack(c.mem, u) => Asleep(c.mem, u, cs[u], ks[u])
  /\ ks = [u \in Thread |-> ks[u]]

\* It does: m is the machine that has put down the arguments, n the one after SWITCH.
Goes(c, m, n, t, new, p, ks, ks2) ==
  /\ m = PassThreads(Push(c, p), new)
  /\ ks2 = [ks EXCEPT ![t] =
       [pc |-> p, regs |-> [r \in {Host.sp} \cup CalleeSaved |-> m.regs[r]]]]
  /\ n = Ret(Execution(Call(m, Code("SWITCH"), Code("Run")), SwitchCode))

DidRun(c, n, fin, new, cs, ks2) ==
  /\ Machine(n) /\ n.wild = c.wild /\ DOMAIN n.mem = DOMAIN c.mem
  /\ Memory(n.mem, fin) /\ Running(n, new, cs[new], ks2[new])
  /\ Slept(n.mem, fin, cs, ks2)

\* SWITCH suspends the old thread, wakes the new one and leaves the rest asleep, whether or
\* not the two are the same.
LEMMA RunDoes ==
  ASSUME Hosts, NEW c, NEW fin, NEW t, NEW new, NEW p, NEW cs, NEW ks,
         MayRun(c, fin, t, new, p, cs, ks),
         NEW m, NEW n, NEW ks2, Goes(c, m, n, t, new, p, ks, ks2)
  PROVE  DidRun(c, n, fin, new, cs, ks2)
<1> SUFFICES
      ASSUME Machine(c), Memory(c.mem, fin),
             t \in Thread \ fin, t = currentThread, HasStack(c.mem, t),
             new \in Thread \ fin, HasStack(c.mem, new), InProcedure(c.mem, t, p, cs[t]),
             c.regs[Host.sp] = SP(t, Inside(t)),
             \A u \in Thread \ (fin \cup {t}) :
               HasStack(c.mem, u) => Asleep(c.mem, u, cs[u], ks[u]),
             ks = [u \in Thread |-> ks[u]],
             m = PassThreads(Push(c, p), new),
             ks2 = [ks EXCEPT ![t] =
               [pc |-> p, regs |-> [r \in {Host.sp} \cup CalleeSaved |-> m.regs[r]]]],
             n = Ret(Execution(Call(m, Code("SWITCH"), Code("Run")), SwitchCode))
      PROVE  /\ Machine(n) /\ n.wild = c.wild /\ DOMAIN n.mem = DOMAIN c.mem
             /\ Memory(n.mem, fin) /\ Running(n, new, cs[new], ks2[new])
             /\ Slept(n.mem, fin, cs, ks2)
  BY DEF MayRun, Goes, DidRun
<1> DEFINE m1 == Call(m, Code("SWITCH"), Code("Run"))
           s == Execution(m1, SwitchCode)
           D == DOMAIN c.mem
           d == Inside(t)
           k == ks2[t]
<1>1. /\ Words(t) \subseteq D /\ Words(new) \subseteq D /\ Stack(t) \subseteq D
      /\ Stack(new) \subseteq D
  BY DEF Memory
<1>2. Passed(c, m, t) /\ Prepared(c, m1, t, new, p)
  BY <1>1, RunPrepares
<1>3. /\ k.pc = p /\ DOMAIN k.regs = {Host.sp} \cup CalleeSaved
      /\ k.regs[Host.sp] = SP(t, RunDepth(t))
      /\ \A r \in CalleeSaved : k.regs[r] = c.regs[r]
      /\ \A u \in Thread : u # t => ks2[u] = ks[u]
  <2>1. k = [pc |-> p, regs |-> [r \in {Host.sp} \cup CalleeSaved |-> m.regs[r]]]
    OBVIOUS
  <2>2. \A u \in Thread : u # t => ks2[u] = ks[u]
    OBVIOUS
  <2> HIDE DEF k
  <2> QED BY <1>2, <2>1, <2>2 DEF Passed
<1> HIDE DEF m1, k
<1>4. /\ d \in 0..17 /\ Deep(t) \in Nat
      /\ host = "i386" => SwitchDepth(t) = d + 4 /\ d + 4 <= Deep(t)
  <2>1. Measured(t)
    BY DepthsOf
  <2> QED BY <2>1 DEF Measured
<1>5. /\ Above(t, d, Used) \subseteq Stack(t)
      /\ \A u \in Thread : u # Main => Fencepost(u) \notin Above(t, d, Used)
  <2>1. ASSUME NEW i \in 1..Used PROVE d + i \in 1..Deep(t)
    <3>1. d + Used <= Deep(t)
      <4>1. d + 1 <= Deep(t)
        BY InsideDeep
      <4> QED BY <1>4, <4>1 DEF Used
    <3> QED BY <1>4, <3>1 DEF Used
  <2> QED BY <2>1, Slots DEF Above
<1>6. /\ \A u, v : Words(u) \cap Stack(v) = {}
      /\ \A u, v : u # v => Words(u) \cap Words(v) = {} /\ Stack(u) \cap Stack(v) = {}
      /\ \A u : At(u, Host.sp) \in Words(u)
  BY ObjectWords, RegisterFacts
\* The word that the 386 writes on.
<1> DEFINE q == Plus(IF new = t THEN SP(t, SwitchDepth(t)) ELSE c.mem[At(new, Host.sp)], 1)
<1>7. host = "i386" =>
        /\ q \in Stack(new) /\ \A u : u # Main => q # Fencepost(u)
        /\ new = t => q = Slot(t, d + 3)
  <2> SUFFICES ASSUME host = "i386"
               PROVE  /\ q \in Stack(new) /\ \A u : u # Main => q # Fencepost(u)
                      /\ new = t => q = Slot(t, d + 3)
    OBVIOUS
  <2>1. CASE new = t
    <3>1. d + 3 \in Nat /\ (d + 3) + 1 = d + 4 /\ d + 3 \in 1..Deep(t)
      BY <1>4
    <3>2. Adjacent(SP(t, d + 3), SP(t, d + 4), Slot(t, d + 4))
      BY <3>1, SlotsAdjacent
    <3>3. Plus(SP(t, d + 4), 1) = SP(t, d + 3)
      BY <3>2 DEF Adjacent
    <3>4. q = Slot(t, d + 3)
      BY <1>4, <2>1, <3>3 DEF SP, Slot
    <3> HIDE DEF q
    <3> QED BY <2>1, <3>1, <3>4, Slots
  <2>2. CASE new # t
    <3>1. Asleep(c.mem, new, cs[new], ks[new])
      BY <2>2
    <3>2. q = Plus(c.mem[At(new, Host.sp)], 1)
      BY <2>2
    <3> HIDE DEF q
    <3> QED BY <2>2, <3>1, <3>2, WordAbove
  <2> QED BY <2>1, <2>2
<1> HIDE DEF d
<1>8. /\ Machine(m1) /\ m1.wild = c.wild /\ DOMAIN m1.mem = D
      /\ m1.regs[Host.sp] = SP(t, SwitchDepth(t))
      /\ \A a \in D \ Stack(t) : m1.mem[a] = c.mem[a]
      /\ \A u \in Thread :
           u # Main /\ Fencepost(u) \in D => m1.mem[Fencepost(u)] = c.mem[Fencepost(u)]
  BY <1>2, <1>5 DEF Prepared, d
<1>9. Switched(m1, s, t, new, q)
  <2>1. CASE host # "i386"
    <3>1. m1.regs["arg0"] = Object(t) /\ m1.regs["arg1"] = Object(new)
          /\ m1.regs[Host.link] = Code("Run")
      BY <1>2, <2>1 DEF Prepared
    <3> QED BY <1>1, <1>8, <2>1, <3>1, SwitchDoes
  <2>2. CASE host = "i386"
    <3> DEFINE x == SP(t, d + 4)
               s2 == Slot(t, d + 2)
               s3 == Slot(t, d + 3)
               s4 == Slot(t, d + 4)
    <3>1. /\ d + 2 \in Nat /\ d + 3 \in Nat /\ d + 4 \in Nat
          /\ (d + 2) + 2 = d + 4 /\ (d + 3) + 1 = d + 4 /\ (d + 4) + 0 = d + 4
          /\ {d + 2, d + 3, d + 4} \subseteq 1..Deep(t)
      BY <1>4, <2>2
    <3>2. Plus(x, 0) = s4 /\ Plus(x, 1) = s3 /\ Plus(x, 2) = s2
      BY <2>2, <3>1, Below
    <3>3. {s2, s3, s4} \subseteq D \ Words(t)
      BY <1>1, <1>6, <3>1, Slots
    <3>4. /\ m1.mem[s2] = Object(new) /\ m1.mem[s3] = Object(t) /\ m1.mem[s4] = Code("Run")
          /\ m1.regs[Host.sp] = x
      BY <1>2, <1>4, <2>2 DEF Prepared, d
    <3>5. q = Plus(IF new = t THEN x ELSE m1.mem[At(new, Host.sp)], 1)
      <4>1. At(new, Host.sp) \in D \ Stack(t)
        BY <1>1, <1>6
      <4> QED BY <1>4, <1>8, <2>2, <4>1
    <3>6. q \in DOMAIN m1.mem \ (Words(t) \cup Words(new))
      BY <1>1, <1>6, <1>7, <1>8, <2>2
    <3> HIDE DEF q, x, s2, s3, s4
    <3> QED BY <1>1, <1>8, <2>2, <3>2, <3>3, <3>4, <3>5, <3>6, SwitchDoes386
  <2> QED BY <2>1, <2>2
<1> HIDE DEF s
<1>10. /\ Machine(s) /\ s.wild = c.wild /\ DOMAIN s.mem = D
       /\ \A r \in CalleeSaved \cup {Host.sp, Host.InitialArg, Host.StartupPC} :
            s.regs[r] = s.mem[At(new, r)]
       /\ host # "i386" => s.regs[Host.link] = s.mem[At(new, Host.link)]
  BY <1>8, <1>9 DEF Switched
<1>11. Asleep(s.mem, t, cs[t], k)
  <2>1. q = Slot(t, d + 3) \/ q \notin Stack(t) \/ host # "i386"
    BY <1>6, <1>7
  <2>2. host = "i386" => q = Slot(t, Inside(t) + 3) \/ q \notin Stack(t)
    BY <2>1 DEF d
  <2>3. PICK called : called = cs[t]
    OBVIOUS
  <2>4. InProcedure(c.mem, t, p, called)
    BY <2>3
  <2> HIDE DEF q
  <2>5. Asleep(s.mem, t, called, k)
    BY <1>1, <1>2, <1>3, <1>9, <2>2, <2>4, OldAsleep
  <2> QED BY <2>3, <2>5
<1>12. ASSUME NEW u \in Thread \ (fin \cup {t}), HasStack(s.mem, u)
       PROVE  Asleep(s.mem, u, cs[u], ks2[u])
  <2>1. HasStack(c.mem, u) /\ Words(u) \subseteq D /\ Stack(u) \subseteq D
    BY <1>10, <1>12 DEF HasStack, Memory
  <2>2. Asleep(c.mem, u, cs[u], ks2[u])
    BY <1>3, <2>1
  <2>3. \A a \in (Words(u) \cup Stack(u)) \ {q} : s.mem[a] = c.mem[a]
    <3>1. \A a \in Words(u) \cup Stack(u) : a \in D \ (Words(t) \cup Stack(t))
      BY <1>6, <2>1
    <3> HIDE DEF q
    <3> QED BY <1>8, <1>9, <3>1 DEF Switched
  <2>4. host # "i386" => \A a \in Words(u) \cup Stack(u) : s.mem[a] = c.mem[a]
    <3>1. \A a \in Words(u) \cup Stack(u) : a \in D \ (Words(t) \cup Stack(t))
      BY <1>6, <2>1
    <3> HIDE DEF q
    <3> QED BY <1>8, <1>9, <3>1 DEF Switched
  <2>5. CASE host = "i386" /\ u = new
    <3>1. q = Plus(c.mem[At(u, Host.sp)], 1)
      BY <2>5
    <3>2. q \notin Words(u)
      BY <1>6, <1>7, <2>5
    <3> HIDE DEF q
    <3>3. /\ \A a \in Words(u) : s.mem[a] = c.mem[a]
          /\ \A a \in Stack(u) : (host = "i386" => a # q) => s.mem[a] = c.mem[a]
      BY <2>3, <2>5, <3>2
    <3>4. host = "i386" => q = Plus(c.mem[At(u, Host.sp)], 1)
      BY <3>1
    <3> QED BY <2>2, <3>3, <3>4, AsleepSwitched
  <2>6. CASE host = "i386" /\ u # new
    <3>1. q \notin Words(u) \cup Stack(u)
      BY <1>6, <1>7, <2>6
    <3> HIDE DEF q
    <3> QED BY <2>2, <2>3, <3>1, AsleepKept
  <2>7. CASE host # "i386"
    BY <2>2, <2>4, <2>7, AsleepKept
  <2> QED BY <2>5, <2>6, <2>7
<1>13. Slept(s.mem, fin, cs, ks2)
  BY <1>11, <1>12 DEF Slept, k
<1>14. Memory(s.mem, fin)
  <2>1. \A u \in Thread \ fin : Words(u) \subseteq DOMAIN s.mem
    BY <1>10 DEF Memory
  <2>2. \A u : HasStack(s.mem, u) <=> HasStack(c.mem, u)
    BY <1>10 DEF HasStack
  <2>3. \A u \in Thread : HasStack(s.mem, u) => Stack(u) \subseteq DOMAIN s.mem
    BY <1>10, <2>2 DEF Memory
  <2>4. ASSUME NEW u \in Thread, HasStack(s.mem, u), u # Main
        PROVE  s.mem[Fencepost(u)] = Code("STACK_FENCEPOST")
    <3>1. Fencepost(u) \in Stack(u) /\ Stack(u) \subseteq D
      BY <1>10, <2>3, <2>4, Slots
    <3>2. c.mem[Fencepost(u)] = Code("STACK_FENCEPOST")
      BY <2>2, <2>4 DEF Memory
    <3>3. Fencepost(u) \in D \ Words(t)
      BY <1>6, <3>1
    <3>4. host = "i386" => Fencepost(u) # q
      BY <1>7, <2>4
    <3> HIDE DEF q
    <3>5. s.mem[Fencepost(u)] = m1.mem[Fencepost(u)]
      BY <1>8, <1>9, <3>3, <3>4 DEF Switched
    <3> QED BY <1>8, <2>4, <3>2, <3>3, <3>5
  <2> QED BY <2>1, <2>3, <2>4 DEF Memory
<1>15. n = Ret(s)
  BY DEF s, m1
<1>16. Running(n, new, cs[new], ks2[new]) /\ Machine(n) /\ n.mem = s.mem /\ n.wild = s.wild
  <2>1. Asleep(s.mem, new, cs[new], ks2[new])
    <3>1. HasStack(s.mem, new)
      BY <1>10 DEF HasStack
    <3> QED BY <1>13, <3>1 DEF Slept
  <2>2. Stack(new) \subseteq DOMAIN s.mem
    BY <1>1, <1>10
  <2>3. PICK called, k2 : called = cs[new] /\ k2 = ks2[new]
    OBVIOUS
  <2>4. Asleep(s.mem, new, called, k2)
    BY <2>1, <2>3
  <2>5. /\ Running(Ret(s), new, called, k2) /\ Machine(Ret(s))
        /\ Ret(s).mem = s.mem /\ Ret(s).wild = s.wild
    BY <1>10, <2>2, <2>4, Wakes
  <2> QED BY <1>15, <2>3, <2>5
<1> QED BY <1>10, <1>13, <1>14, <1>16

-----------------------------------------------------------------------------
(* Where the current thread is. *)

\* The places in the code are different.
LEMMA Codes ==
  /\ \A t : Func(t) \notin {IE, TF, Code("Run"), Code("ThreadRoot"), Code("started"),
                            Code("returned")}
  /\ \A t, u : Func(t) = Func(u) => t = u
  /\ IE \notin {TF, Code("Run"), Code("ThreadRoot"), Code("started"), Code("returned")}
  /\ TF \notin {Code("Run"), Code("ThreadRoot"), Code("started"), Code("returned")}
  /\ Code("Run") \notin {Code("ThreadRoot"), Code("started"), Code("returned")}
  /\ Code("ThreadRoot") \notin {Code("started"), Code("returned")}
  /\ Code("started") # Code("returned")
BY DEF Func, Code, IE, TF

\* Where the current thread is can be told from its pc.
LEMMA Whereabouts ==
  ASSUME NEW c, NEW t, NEW called, NEW k, Running(c, t, called, k)
  PROVE  /\ c.pc = Code("Run") =>
              /\ InRun(c.mem, t, called, k)
              /\ \A r \in {Host.sp} \cup CalleeSaved : c.regs[r] = k.regs[r]
         /\ c.pc \in Procedure =>
              InProcedure(c.mem, t, c.pc, called) /\ c.regs[Host.sp] = SP(t, Inside(t))
         /\ c.pc \in {Code("ThreadRoot"), Code("started"), Code("returned")} =>
              t # Main /\ InRoot(c, t, called)
<1>1. Procedure \cap {Code("Run"), Code("ThreadRoot"), Code("started"), Code("returned")} = {}
  BY Codes DEF Procedure, IE, TF
<1>2. \A p : InProcedure(c.mem, t, p, called) => p \in {Func(t), IE, TF}
  BY DEF InProcedure
<1>3. InRoot(c, t, called) =>
        c.pc \in {Code("ThreadRoot"), Code("started"), Code("returned")}
  BY DEF InRoot
<1> QED BY <1>1, <1>2, <1>3, Codes DEF Running

-----------------------------------------------------------------------------
(* The actions. *)

\* What the current thread may change alone: its registers and its stack.
LEMMA Alone ==
  ASSUME Hosts, NEW c, NEW cur, NEW tbd, NEW fin, NEW cs, NEW ks,
         Coherent(c, cur, tbd, fin, cs, ks),
         NEW n, Machine(n), n.wild = c.wild, DOMAIN n.mem = DOMAIN c.mem,
         NEW d, d \in 0..Deep(cur),
         \A a \in DOMAIN c.mem \ Above(cur, 0, d) : n.mem[a] = c.mem[a],
         NEW cs2, cs2 = [t \in Thread |-> cs2[t]], cs2[cur] \in CallsSoFar(cur),
         \A t \in Thread : t # cur => cs2[t] = cs[t],
         Running(n, cur, cs2[cur], ks[cur])
  PROVE  Coherent(n, cur, tbd, fin, cs2, ks)
<1>1. Machine(c) /\ c.wild = FALSE /\ Memory(c.mem, fin) /\ cur \in Thread \ fin
      /\ HasStack(c.mem, cur) /\ tbd \subseteq fin
  BY DEF Coherent
<1>2. \A t : HasStack(n.mem, t) <=> HasStack(c.mem, t)
  BY DEF HasStack
<1>3. Above(cur, 0, d) \subseteq Stack(cur)
      /\ \A t : t # Main => Fencepost(t) \notin Above(cur, 0, d)
  <2>1. ASSUME NEW i \in 1..d PROVE 0 + i = i /\ i \in 1..Deep(cur)
    <3>1. Deep(cur) \in Nat
      BY DEF Deep
    <3> QED BY <3>1
  <2> QED BY <2>1, Slots DEF Above
<1>4. Memory(n.mem, fin)
  <2>1. ASSUME NEW t \in Thread, HasStack(n.mem, t), t # Main
        PROVE  n.mem[Fencepost(t)] = Code("STACK_FENCEPOST")
    <3>1. c.mem[Fencepost(t)] = Code("STACK_FENCEPOST") /\ Stack(t) \subseteq DOMAIN c.mem
      BY <1>1, <1>2, <2>1 DEF Memory
    <3>2. Fencepost(t) \in DOMAIN c.mem
      BY <3>1, Slots
    <3> QED BY <1>3, <2>1, <3>1, <3>2
  <2> QED BY <1>1, <1>2, <2>1 DEF Memory
<1>5. ASSUME NEW t \in Thread \ (fin \cup {cur}), HasStack(n.mem, t)
      PROVE  Asleep(n.mem, t, cs2[t], ks[t])
  <2>1. Asleep(c.mem, t, cs2[t], ks[t])
    BY <1>2, <1>5 DEF Coherent, Asleep
  <2>2. Words(t) \cup Stack(t) \subseteq DOMAIN c.mem
    BY <1>1, <1>2, <1>5 DEF Memory
  <2>3. \A a \in Words(t) \cup Stack(t) : n.mem[a] = c.mem[a]
    BY <1>3, <1>5, <2>2, ObjectWords
  <2> QED BY <2>1, <2>3, AsleepKept
<1>6. /\ \A t \in Thread : ~HasStack(n.mem, t) /\ t \notin fin => cs2[t] = <<>>
      /\ \A t \in Thread : cs2[t] \in CallsSoFar(t)
      /\ ks = [t \in Thread |-> ks[t]]
  BY <1>1, <1>2 DEF Coherent
<1> QED BY <1>1, <1>2, <1>4, <1>5, <1>6 DEF Coherent, Asleep

LEMMA ComputeDoes ==
  ASSUME Hosts, NEW m, Machine(m), NEW t, NEW v
  PROVE  LET n == Compute(m, t, v)
         IN  /\ Machine(n) /\ n.mem = m.mem /\ n.pc = m.pc /\ n.wild = m.wild
             /\ n.regs[Host.sp] = m.regs[Host.sp]
<1> DEFINE f == [r \in Registers |->
                  IF Contains(Host.calleeSaved, r) THEN <<v, t, r>>
                  ELSE IF r = Host.sp THEN m.regs[r] ELSE Junk]
           n == Compute(m, t, v)
<1>1. n = [regs |-> f, mem |-> m.mem, pc |-> m.pc, wild |-> m.wild]
  BY DEF Machine, Compute
<1>2. Host.sp \in Registers /\ ~Contains(Host.calleeSaved, Host.sp)
  BY HostWellFormed, RegisterFacts DEF WellFormed, CalleeSavedOf, Contains
<1>3. f[Host.sp] = m.regs[Host.sp] /\ f = [r \in Registers |-> f[r]]
  BY <1>2
<1> HIDE DEF f, n
<1>4. /\ n.regs = f /\ n.mem = m.mem /\ n.pc = m.pc /\ n.wild = m.wild
      /\ n = [regs |-> n.regs, mem |-> n.mem, pc |-> n.pc, wild |-> n.wild]
  BY <1>1
<1>5. Machine(n)
  BY <1>3, <1>4 DEF Machine
<1> QED BY <1>3, <1>4, <1>5 DEF n

LEMMA FrameRegisters ==
  ASSUME Hosts
  PROVE  /\ Len(Frame) \in Nat
         /\ \A i \in 1..Len(Frame) : Frame[i] \in Registers \ {Host.sp}
         /\ \A i, j \in 1..Len(Frame) : Frame[i] = Frame[j] => i = j
         /\ \A r \in CalleeSaved : \E i \in 1..Len(Frame) : Frame[i] = r
         /\ host # "i386" => \E i \in 1..Len(Frame) : Frame[i] = Host.link
         /\ host = "i386" => \A i \in 1..Len(Frame) : Frame[i] \in CalleeSaved
<1>1. Len(Frame) \in 1..17
  BY Frames
<1>2. {Frame[i] : i \in 1..Len(Frame)} =
        CalleeSaved \cup IF host = "i386" THEN {} ELSE {Host.link}
  BY Frames
<1>3. \A i \in 1..Len(Frame) : Frame[i] \in CalleeSaved \cup {Host.link}
  BY <1>2
<1>4. host = "i386" => \A i \in 1..Len(Frame) : Frame[i] \in CalleeSaved
  BY <1>2
<1>5. \A r \in CalleeSaved : \E i \in 1..Len(Frame) : Frame[i] = r
  BY <1>2
<1>6. host # "i386" => \E i \in 1..Len(Frame) : Frame[i] = Host.link
  BY <1>2
<1>7. \A i, j \in 1..Len(Frame) : Frame[i] = Frame[j] => i = j
  BY Frames
<1>8. CalleeSaved \cup {Host.link} \subseteq Registers \ {Host.sp}
  BY RegisterFacts
<1> QED BY <1>1, <1>3, <1>4, <1>5, <1>6, <1>7, <1>8

\* ThreadRoot has called target, to return to ret, and target has saved the registers:
\* n is the machine, m that before the call.
Called(m, n, t, target, ret) ==
  /\ Machine(n) /\ n.wild = m.wild /\ DOMAIN n.mem = DOMAIN m.mem /\ n.pc = target
  /\ n.regs[Host.sp] = SP(t, Inside(t))
  /\ \A a \in DOMAIN m.mem \ Above(t, 0, Inside(t)) : n.mem[a] = m.mem[a]
  /\ \A i \in 1..Len(Frame) :
       n.mem[Slot(t, CallDepth + i)] =
         IF Frame[i] = Host.link THEN ret ELSE m.regs[Frame[i]]
  /\ host = "i386" => /\ n.mem[Slot(t, 3)] = ret
                      /\ n.mem[Slot(t, 2)] = m.mem[Slot(t, 2)]

\* A call from ThreadRoot up to the end of the callee's prologue.
LEMMA CallDoes ==
  ASSUME Hosts, NEW m, Machine(m), NEW t, t # Main, m.regs[Host.sp] = SP(t, RootDepth),
         Stack(t) \subseteq DOMAIN m.mem, NEW target, NEW ret
  PROVE  Called(m, Prologue(Call(m, target, ret), t), t, target, ret)
<1> DEFINE x == IF host = "i386" THEN Push(m, ret) ELSE Set(m, Host.link, ret)
           y == Call(m, target, ret)
           z == Execution(y, Pushes(Frame))
           n == Prologue(y, t)
           L == Len(Frame)
<1>1. /\ L \in 1..17 /\ Inside(t) = CallDepth + L /\ Deep(t) = 18 /\ Inside(t) \in 0..17
      /\ (host = "i386" => RootDepth = 2 /\ CallDepth = 3 /\ L = 4)
      /\ host # "i386" => RootDepth = 0 /\ CallDepth = 0
  BY Depths, Frames
<1>2. /\ Host.link \in Registers /\ Host.sp \in Registers /\ Host.link # Host.sp
      /\ Host.link \notin CalleeSaved
  BY RegisterFacts
<1>3. CallDepth \in Nat
  BY <1>1
<1>4. \A d \in 1..18 : Slot(t, d) \in DOMAIN m.mem
  BY <1>1, Slots
<1>5. y = Jump(x, target)
  BY DEF Call
<1>6. /\ Machine(x) /\ x.wild = m.wild /\ DOMAIN x.mem = DOMAIN m.mem
      /\ x.regs[Host.sp] = SP(t, CallDepth)
      /\ \A a \in DOMAIN m.mem : (host = "i386" => a # Slot(t, 3)) => x.mem[a] = m.mem[a]
      /\ \A r \in Registers \ {Host.sp, Host.link} : x.regs[r] = m.regs[r]
      /\ host = "i386" => x.mem[Slot(t, 3)] = ret
      /\ host # "i386" => x.regs[Host.link] = ret
  <2>1. CASE host = "i386"
    <3>1. Adjacent(SP(t, 2), SP(t, 2 + 1), Slot(t, 2 + 1)) /\ 2 + 1 = 3
      BY SlotsAdjacent
    <3>2. Adjacent(SP(t, 2), SP(t, 3), Slot(t, 3))
      BY <3>1
    <3>3. Slot(t, 3) \in DOMAIN m.mem /\ m.regs[Host.sp] = SP(t, 2)
      BY <1>1, <1>4, <2>1
    <3>4. x = Push(m, ret)
      BY <2>1
    <3> HIDE DEF x
    <3>5. IsPushed(m, x, SP(t, 3), Slot(t, 3), ret)
      BY <3>2, <3>3, <3>4, PushDoes
    <3> QED BY <1>1, <2>1, <3>5 DEF IsPushed, Becomes
  <2>2. CASE host # "i386"
    <3>1. x = Set(m, Host.link, ret)
      BY <2>2
    <3> HIDE DEF x
    <3>2. IsSet(m, x, Host.link, ret)
      BY <1>2, <3>1, SetDoes
    <3> QED BY <1>1, <1>2, <2>2, <3>2 DEF IsSet, Becomes
  <2> QED BY <2>1, <2>2
<1> HIDE DEF x
<1>7. /\ Machine(y) /\ y.pc = target /\ y.regs = x.regs /\ y.mem = x.mem /\ y.wild = x.wild
  BY <1>5, <1>6, JumpDoes
<1>8. n = Compute(z, t, "v1")
  BY DEF Prologue
<1> HIDE DEF y, n
<1>9. ArePushed(y, z, Frame, t, CallDepth)
  <2>1. y.regs[Host.sp] = SP(t, CallDepth)
    BY <1>6, <1>7
  <2>2. \A i \in 1..L : Slot(t, CallDepth + i) \in DOMAIN y.mem
    <3>1. \A i \in 1..L : CallDepth + i \in 1..18
      <4>1. \A d, l \in Nat : d + l \in 0..17 => \A i \in 1..l : d + i \in 1..18
        OBVIOUS
      <4>2. L \in Nat /\ CallDepth + L \in 0..17
        BY <1>1, FrameRegisters
      <4> HIDE DEF L
      <4> QED BY <1>3, <4>1, <4>2
    <3> QED BY <1>4, <1>6, <1>7, <3>1
  <2>3. /\ L \in Nat /\ \A i \in 1..L : Frame[i] \in Registers \ {Host.sp}
    BY FrameRegisters
  <2> QED BY <1>3, <1>7, <2>1, <2>2, <2>3, PushesDo
<1> HIDE DEF z
<1>10. /\ Machine(n) /\ n.mem = z.mem /\ n.pc = target /\ n.wild = m.wild
       /\ DOMAIN n.mem = DOMAIN m.mem /\ n.regs[Host.sp] = SP(t, Inside(t))
  <2>1. Machine(z) /\ z.pc = y.pc /\ z.wild = y.wild /\ DOMAIN z.mem = DOMAIN y.mem
    BY <1>9 DEF ArePushed, Becomes
  <2>2. z.regs[Host.sp] = SP(t, Inside(t))
    BY <1>1, <1>9 DEF ArePushed
  <2> QED BY <1>6, <1>7, <1>8, <2>1, <2>2, ComputeDoes
<1>11. /\ Above(t, CallDepth, L) \subseteq Above(t, 0, Inside(t))
       /\ host = "i386" => Slot(t, 3) \in Above(t, 0, Inside(t))
  <2>1. ASSUME NEW i \in 1..L PROVE Slot(t, CallDepth + i) \in Above(t, 0, Inside(t))
    <3>1. CallDepth + i \in 1..Inside(t) /\ 0 + (CallDepth + i) = CallDepth + i
      BY <1>1
    <3> QED BY <3>1 DEF Above
  <2>2. ASSUME host = "i386" PROVE Slot(t, 3) \in Above(t, 0, Inside(t))
    <3>1. 3 \in 1..Inside(t) /\ 0 + 3 = 3
      BY <1>1, <2>2
    <3> QED BY <3>1 DEF Above
  <2> QED BY <2>1, <2>2 DEF Above
<1>12. \A a \in DOMAIN m.mem \ Above(t, 0, Inside(t)) : n.mem[a] = m.mem[a]
  <2>1. \A a \in DOMAIN m.mem \ Above(t, CallDepth, L) : n.mem[a] = x.mem[a]
    BY <1>6, <1>7, <1>9, <1>10 DEF ArePushed, Becomes
  <2>2. \A a \in DOMAIN m.mem \ Above(t, 0, Inside(t)) : x.mem[a] = m.mem[a]
    BY <1>6, <1>11
  <2> QED BY <1>11, <2>1, <2>2
<1>13. ASSUME NEW i \in 1..L
       PROVE  n.mem[Slot(t, CallDepth + i)] =
                IF Frame[i] = Host.link THEN ret ELSE m.regs[Frame[i]]
  <2>1. /\ Frame[i] \in Registers \ {Host.sp}
        /\ host = "i386" => Frame[i] \in CalleeSaved
    BY FrameRegisters
  <2>2. n.mem[Slot(t, CallDepth + i)] = x.regs[Frame[i]]
    BY <1>7, <1>9, <1>10 DEF ArePushed
  <2>3. CASE Frame[i] = Host.link
    <3>1. host # "i386"
      BY <1>2, <2>1, <2>3
    <3> QED BY <1>6, <2>2, <2>3, <3>1
  <2>4. CASE Frame[i] # Host.link
    <3>1. x.regs[Frame[i]] = m.regs[Frame[i]]
      BY <1>6, <2>1, <2>4
    <3> QED BY <2>2, <2>4, <3>1
  <2> QED BY <2>3, <2>4
<1>14. host = "i386" => n.mem[Slot(t, 3)] = ret /\ n.mem[Slot(t, 2)] = m.mem[Slot(t, 2)]
  <2> SUFFICES ASSUME host = "i386"
               PROVE  n.mem[Slot(t, 3)] = ret /\ n.mem[Slot(t, 2)] = m.mem[Slot(t, 2)]
    OBVIOUS
  <2>1. Slot(t, 3) \notin Above(t, CallDepth, L) /\ Slot(t, 2) \notin Above(t, CallDepth, L)
    <3>1. \A i \in 1..L : CallDepth + i \in Nat /\ CallDepth + i # 3 /\ CallDepth + i # 2
      BY <1>1
    <3>2. \A i \in 1..L : Slot(t, CallDepth + i) # Slot(t, 3)
                          /\ Slot(t, CallDepth + i) # Slot(t, 2)
      BY <3>1, Slots
    <3> QED BY <3>2 DEF Above
  <2>2. Slot(t, 2) # Slot(t, 3)
    BY Slots
  <2>3. Slot(t, 2) \in DOMAIN m.mem /\ Slot(t, 3) \in DOMAIN m.mem
    BY <1>4
  <2> QED BY <1>6, <1>7, <1>9, <1>10, <2>1, <2>2, <2>3 DEF ArePushed, Becomes
<1>15. Called(m, n, t, target, ret)
  BY <1>10, <1>12, <1>13, <1>14 DEF Called
<1> QED BY <1>15 DEF n, y

\* ThreadRoot is ready for its first call, n being the machine and m that before.
Entered(m, n, t) ==
  /\ Machine(n) /\ n.wild = m.wild /\ DOMAIN n.mem = DOMAIN m.mem
  /\ n.regs[Host.sp] = SP(t, RootDepth)
  /\ \A a \in DOMAIN m.mem \ Above(t, 0, Inside(t)) : n.mem[a] = m.mem[a]
  /\ \A r \in {Host.StartupPC, Host.InitialPC, Host.InitialArg, Host.WhenDonePC} :
       n.regs[r] = m.regs[r]
  /\ host = "i386" => n.mem[Slot(t, 2)] = m.regs[Host.InitialArg]

\* ThreadRoot up to its first call keeps what SWITCH has loaded.
LEMMA EntryDoes ==
  ASSUME Hosts, NEW m, Machine(m), NEW t, t # Main, m.regs[Host.sp] = SP(t, 0),
         Stack(t) \subseteq DOMAIN m.mem
  PROVE  Entered(m, ThreadRootEntry(m), t)
<1> DEFINE n == ThreadRootEntry(m)
<1>1. CASE host = "SNAKE"
  <2>1. n = m
    BY <1>1, Zenon DEF ThreadRootEntry
  <2>2. RootDepth = 0
    BY <1>1 DEF RootDepth
  <2> HIDE DEF n
  <2>3. Entered(m, n, t)
    BY <1>1, <2>1, <2>2 DEF Entered
  <2> QED BY <2>3 DEF n
<1>2. CASE host = "MIPS"
  <2>1. n = Set(m, "fp", Zero)
    BY <1>2, Zenon DEF ThreadRootEntry
  <2>2. RootDepth = 0
    BY <1>2 DEF RootDepth
  <2>3. /\ "fp" \in Registers
        /\ "fp" \notin {Host.sp, Host.StartupPC, Host.InitialPC, Host.InitialArg,
                        Host.WhenDonePC}
    <3>1. Host = MIPS
      BY <1>2, HostIs
    <3>2. Len(MIPS.layout) = 11 /\ MIPS.layout[10] = "fp"
      BY DEF MIPS
    <3>3. "fp" \in Layout
      BY <3>1, <3>2 DEF Layout, LayoutOf
    <3>4. "fp" \notin {MIPS.sp, MIPS.StartupPC, MIPS.InitialPC, MIPS.InitialArg,
                       MIPS.WhenDonePC}
      BY DEF MIPS
    <3> QED BY <3>1, <3>3, <3>4, RegisterFacts
  <2> HIDE DEF n
  <2>4. IsSet(m, n, "fp", Zero)
    BY <2>1, <2>3, SetDoes
  <2>5. Entered(m, n, t)
    BY <1>2, <2>2, <2>3, <2>4, RegisterFacts DEF Entered, IsSet, Becomes
  <2> QED BY <2>5 DEF n
<1>3. CASE host = "i386"
  <2> DEFINE x == Push(m, m.regs["ebp"])
             y == Set(x, "ebp", x.regs["esp"])
  <2>1. n = Push(y, x.regs[Host.InitialArg])
    BY <1>3, Zenon DEF ThreadRootEntry
  <2>2. /\ Host.sp = "esp" /\ Host.InitialArg = "edx" /\ "ebp" \in Registers
        /\ "ebp" \notin {Host.sp, Host.StartupPC, Host.InitialPC, Host.InitialArg,
                         Host.WhenDonePC}
        /\ Host.sp \notin {Host.StartupPC, Host.InitialPC, Host.InitialArg, Host.WhenDonePC}
        /\ {Host.StartupPC, Host.InitialPC, Host.InitialArg, Host.WhenDonePC}
             \subseteq Registers
    <3>1. Host = i386
      BY <1>3, HostIs
    <3>2. "ebp" \notin {i386.sp, i386.StartupPC, i386.InitialPC, i386.InitialArg,
                        i386.WhenDonePC}
      BY DEF i386
    <3> QED BY <1>3, <3>1, <3>2, I386Facts, RegisterFacts
  <2>3. /\ RootDepth = 2 /\ Inside(t) = 7 /\ Deep(t) = 18
    <3>1. CallDepth = 3 /\ Len(Frame) = 4 /\ Inside(t) = CallDepth + Len(Frame)
          /\ Deep(t) = 18 /\ RootDepth = 2
      BY <1>3, Depths, Frames
    <3> QED BY <3>1
  <2>4. /\ Slot(t, 1) \in DOMAIN m.mem /\ Slot(t, 2) \in DOMAIN m.mem
        /\ Slot(t, 1) # Slot(t, 2)
    <3>1. 1 \in 1..Deep(t) /\ 2 \in 1..Deep(t)
      BY <2>3
    <3> QED BY <3>1, Slots
  <2>5. Adjacent(SP(t, 0), SP(t, 1), Slot(t, 1)) /\ Adjacent(SP(t, 1), SP(t, 2), Slot(t, 2))
    <3>1. /\ Adjacent(SP(t, 0), SP(t, 0 + 1), Slot(t, 0 + 1)) /\ 0 + 1 = 1
          /\ Adjacent(SP(t, 1), SP(t, 1 + 1), Slot(t, 1 + 1)) /\ 1 + 1 = 2
      BY SlotsAdjacent
    <3> QED BY <3>1
  <2>6. Slot(t, 1) \in Above(t, 0, Inside(t)) /\ Slot(t, 2) \in Above(t, 0, Inside(t))
    <3>1. 1 \in 1..7 /\ 2 \in 1..7 /\ 0 + 1 = 1 /\ 0 + 2 = 2
      OBVIOUS
    <3> QED BY <2>3, <3>1 DEF Above
  <2> HIDE DEF n
  <2>7. IsPushed(m, x, SP(t, 1), Slot(t, 1), m.regs["ebp"])
    BY <2>4, <2>5, PushDoes
  <2> HIDE DEF x
  <2>8. IsSet(x, y, "ebp", x.regs["esp"])
    BY <2>2, <2>7, SetDoes DEF IsPushed, Becomes
  <2> HIDE DEF y
  <2>9. IsPushed(y, n, SP(t, 2), Slot(t, 2), x.regs[Host.InitialArg])
    <3>1. Machine(y) /\ y.regs[Host.sp] = SP(t, 1) /\ Slot(t, 2) \in DOMAIN y.mem
      BY <2>2, <2>4, <2>7, <2>8, SPIsRegister DEF IsPushed, IsSet, Becomes
    <3> QED BY <2>1, <2>5, <3>1, PushDoes
  <2>10. /\ \A r \in {Host.StartupPC, Host.InitialPC, Host.InitialArg, Host.WhenDonePC} :
              n.regs[r] = m.regs[r] /\ x.regs[r] = m.regs[r]
    BY <2>2, <2>7, <2>8, <2>9 DEF IsPushed, IsSet, Becomes
  <2>11. /\ Machine(n) /\ n.wild = m.wild /\ DOMAIN n.mem = DOMAIN m.mem
         /\ \A a \in DOMAIN m.mem \ {Slot(t, 1), Slot(t, 2)} : n.mem[a] = m.mem[a]
         /\ n.regs[Host.sp] = SP(t, 2) /\ n.mem[Slot(t, 2)] = x.regs[Host.InitialArg]
    BY <2>7, <2>8, <2>9 DEF IsPushed, IsSet, Becomes
  <2>12. Entered(m, n, t)
    BY <2>3, <2>6, <2>10, <2>11 DEF Entered
  <2> QED BY <2>12 DEF n
<1> QED BY <1>1, <1>2, <1>3 DEF Hosts

\* What Inv says of the current thread.
LEMMA Now ==
  ASSUME Inv
  PROVE  /\ Hosts /\ Coherent(cpu, currentThread, threadToBeDestroyed, finished, calls, kept)
         /\ Machine(cpu) /\ cpu.wild = FALSE /\ Memory(cpu.mem, finished)
         /\ currentThread \in Thread \ finished /\ HasStack(cpu.mem, currentThread)
         /\ Stack(currentThread) \subseteq DOMAIN cpu.mem
         /\ threadToBeDestroyed \subseteq finished
         /\ Running(cpu, currentThread, calls[currentThread], kept[currentThread])
         /\ calls = [t \in Thread |-> calls[t]] /\ kept = [t \in Thread |-> kept[t]]
         /\ \A t \in Thread : calls[t] \in CallsSoFar(t)
<1>1. Hosts
  BY DEF Inv, Hosts
<1>2. Coherent(cpu, currentThread, threadToBeDestroyed, finished, calls, kept)
  BY DEF Inv
<1>3. Memory(cpu.mem, finished) /\ currentThread \in Thread \ finished
      /\ HasStack(cpu.mem, currentThread)
  BY <1>2 DEF Coherent
<1>4. Stack(currentThread) \subseteq DOMAIN cpu.mem
  BY <1>3 DEF Memory
<1> QED BY <1>1, <1>2, <1>3, <1>4 DEF Coherent

\* A procedure works: only registers change.
LEMMA WorkKeeps ==
  ASSUME Inv, Work
  PROVE  Coherent(cpu', currentThread', threadToBeDestroyed', finished', calls', kept')
<1> DEFINE t == currentThread
           n == cpu'
<1>1. PICK v : n = Compute(cpu, t, v)
  BY DEF Work
<1>2. /\ cpu.pc = Func(t) /\ threadToBeDestroyed' = threadToBeDestroyed
      /\ finished' = finished /\ calls' = calls /\ kept' = kept /\ currentThread' = t
  BY DEF Work
<1>3. /\ Machine(n) /\ n.mem = cpu.mem /\ n.pc = cpu.pc /\ n.wild = cpu.wild
      /\ n.regs[Host.sp] = cpu.regs[Host.sp]
  BY <1>1, Now, ComputeDoes
<1>4. cpu.pc \in Procedure
  BY <1>2, Now DEF Procedure
<1>5. Running(n, t, calls[t], kept[t])
  <2>1. /\ InProcedure(cpu.mem, t, cpu.pc, calls[t])
        /\ cpu.regs[Host.sp] = SP(t, Inside(t))
    BY <1>4, Now, Whereabouts
  <2> QED BY <1>3, <2>1 DEF Running
<1> HIDE DEF n
<1>6. Coherent(n, t, threadToBeDestroyed, finished, calls, kept)
  <2>1. 0 \in 0..Deep(t)
    BY DEF Deep
  <2>2. /\ Coherent(cpu, t, threadToBeDestroyed, finished, calls, kept)
        /\ DOMAIN n.mem = DOMAIN cpu.mem
        /\ \A a \in DOMAIN cpu.mem \ Above(t, 0, 0) : n.mem[a] = cpu.mem[a]
        /\ calls = [u \in Thread |-> calls[u]] /\ calls[t] \in CallsSoFar(t)
        /\ \A u \in Thread : u # t => calls[u] = calls[u]
    BY <1>3, Now
  <2>3. Hosts
    BY Now
  <2> HIDE DEF t
  <2> QED BY <1>3, <1>5, <2>1, <2>2, <2>3, Alone
<1> QED BY <1>2, <1>6 DEF n

\* A procedure returns to ThreadRoot with the registers that ThreadRoot had.
LEMMA ReturnKeeps ==
  ASSUME Inv, Return
  PROVE  Coherent(cpu', currentThread', threadToBeDestroyed', finished', calls', kept')
<1> DEFINE t == currentThread
           c == cpu
           m == Epilogue(c)
           n == Ret(m)
           x == IF host = "i386" THEN Pop(m, "pc") ELSE m
           called == calls[t]
<1>1. /\ cpu' = n /\ threadToBeDestroyed' = threadToBeDestroyed
      /\ finished' = finished /\ calls' = calls /\ kept' = kept /\ currentThread' = t
      /\ c.pc \in Procedure /\ c.pc # TF /\ c.pc # Func(Main)
  BY DEF Return, TF
<1>2. /\ InProcedure(c.mem, t, c.pc, called)
      /\ c.regs[Host.sp] = SP(t, Inside(t))
  BY <1>1, Now, Whereabouts
<1>3. PICK ret \in {Code("started"), Code("returned")} :
        /\ t # Main /\ ReturnsTo(c.mem, t, ret)
        /\ ret = Code("started") => called = <<IE>>
        /\ ret = Code("returned") => called = <<IE, Func(t), Arg(t)>>
  BY <1>1, <1>2, Codes DEF InProcedure
<1>4. /\ Len(Frame) \in 1..17 /\ Inside(t) = CallDepth + Len(Frame)
      /\ Deep(t) = 18 /\ Inside(t) \in 0..17
      /\ host = "i386" => RootDepth = 2 /\ CallDepth = 3
      /\ host # "i386" => RootDepth = 0 /\ CallDepth = 0
  BY <1>3, Now, Depths, Frames
<1>5. /\ Hosts /\ Machine(c) /\ Stack(t) \subseteq DOMAIN c.mem
  BY Now
<1>6. ArePopped(c, m, Frame, t, CallDepth)
  <2>1. /\ CallDepth \in Nat /\ \A i \in 1..Len(Frame) : CallDepth + i \in 1..18
    <3>1. CallDepth \in Nat
      BY <1>4
    <3>2. \A d, l \in Nat : d + l \in 0..17 => \A i \in 1..l : d + i \in 1..18
      OBVIOUS
    <3>3. Len(Frame) \in Nat /\ CallDepth + Len(Frame) \in 0..17
      BY <1>4
    <3> QED BY <3>1, <3>2, <3>3
  <2>2. \A i \in 1..Len(Frame) : Slot(t, CallDepth + i) \in DOMAIN c.mem
    BY <1>4, <1>5, <2>1, Slots
  <2>3. c.regs[Host.sp] = SP(t, CallDepth + Len(Frame))
    BY <1>2, <1>4
  <2>4. m = Execution(c, Pops(Reverse(Frame)))
    BY DEF Epilogue
  <2>5. /\ Program(Frame) /\ \A i \in 1..Len(Frame) : Frame[i] \in Registers \ {Host.sp}
        /\ \A i, j \in 1..Len(Frame) : Frame[i] = Frame[j] => i = j
    BY <1>5, Frames, FrameRegisters
  <2> HIDE DEF c, m, t
  <2> QED BY <1>5, <2>1, <2>2, <2>3, <2>4, <2>5, PopsDo
<1> HIDE DEF m
<1>7. /\ Machine(m) /\ m.wild = c.wild /\ m.mem = c.mem /\ m.regs[Host.sp] = SP(t, CallDepth)
      /\ m.regs[Host.InitialPC] = Func(t) /\ m.regs[Host.WhenDonePC] = TF
      /\ host # "i386" => m.regs[Host.InitialArg] = Arg(t) /\ m.regs[Host.link] = ret
  <2>1. \A i \in 1..Len(Frame) : m.regs[Frame[i]] = c.mem[Slot(t, CallDepth + i)]
    BY <1>6 DEF ArePopped
  <2>2. PICK i \in 1..Len(Frame) : Frame[i] = Host.InitialPC
    BY <1>5, FrameRegisters, RegisterFacts
  <2>3. PICK j \in 1..Len(Frame) : Frame[j] = Host.WhenDonePC
    BY <1>5, FrameRegisters, RegisterFacts
  <2>4. m.regs[Host.InitialPC] = Func(t) /\ m.regs[Host.WhenDonePC] = TF
    BY <1>3, <2>1, <2>2, <2>3 DEF ReturnsTo
  <2>5. host # "i386" => m.regs[Host.InitialArg] = Arg(t) /\ m.regs[Host.link] = ret
    <3> SUFFICES ASSUME host # "i386"
                 PROVE  m.regs[Host.InitialArg] = Arg(t) /\ m.regs[Host.link] = ret
      OBVIOUS
    <3>1. PICK k \in 1..Len(Frame) : Frame[k] = Host.InitialArg
      BY <1>5, FrameRegisters, RegisterFacts
    <3>2. PICK l \in 1..Len(Frame) : Frame[l] = Host.link
      BY <1>5, FrameRegisters
    <3> QED BY <1>3, <2>1, <3>1, <3>2 DEF ReturnsTo
  <2> QED BY <1>6, <2>4, <2>5 DEF ArePopped, Becomes
<1>8. /\ Machine(x) /\ x.wild = c.wild /\ x.mem = c.mem /\ x.regs[Host.sp] = SP(t, RootDepth)
      /\ x.regs[Host.InitialPC] = Func(t) /\ x.regs[Host.WhenDonePC] = TF
      /\ host # "i386" => x.regs[Host.InitialArg] = Arg(t)
      /\ x.regs[Host.link] = ret
  <2>1. CASE host # "i386"
    BY <1>4, <1>7, <2>1
  <2>2. CASE host = "i386"
    <3>1. Adjacent(SP(t, 2), SP(t, 2 + 1), Slot(t, 2 + 1)) /\ 2 + 1 = 3
      BY SlotsAdjacent
    <3>2. 3 \in 1..Deep(t)
      BY <1>4
    <3>3. Slot(t, 3) \in DOMAIN m.mem
      BY <1>5, <1>7, <3>2, Slots
    <3>4. /\ Host.link = "pc" /\ "pc" \in Registers /\ "pc" # Host.sp
      BY <2>2, I386Facts, RegisterFacts
    <3>5. x = Pop(m, "pc") /\ m.regs[Host.sp] = SP(t, 3)
      BY <1>4, <1>7, <2>2
    <3> HIDE DEF x, t, c
    <3>6. IsPopped(m, x, SP(t, 2), Slot(t, 3), "pc")
      BY <1>5, <1>7, <3>1, <3>3, <3>4, <3>5, PopDoes
    <3>7. c.mem[Slot(t, 3)] = ret
      BY <1>3, <2>2 DEF ReturnsTo
    <3>8. {Host.InitialPC, Host.WhenDonePC} \subseteq Registers \ {Host.sp, "pc"}
      BY <1>5, <3>4, RegisterFacts
    <3> QED BY <1>4, <1>7, <2>2, <3>4, <3>6, <3>7, <3>8 DEF IsPopped, Becomes
  <2> QED BY <2>1, <2>2
<1>9. n = Jump(x, x.regs[Host.link])
  BY DEF Ret
<1> HIDE DEF x, n
<1>10. /\ Machine(n) /\ n.wild = c.wild /\ n.mem = c.mem /\ n.regs = x.regs /\ n.pc = ret
  BY <1>8, <1>9, JumpDoes
<1>11. InRoot(n, t, called)
  <2>1. host = "i386" => n.mem[Slot(t, 2)] = Arg(t)
    BY <1>3, <1>10 DEF ReturnsTo
  <2> QED BY <1>3, <1>8, <1>10, <2>1 DEF InRoot
<1>12. Coherent(n, t, threadToBeDestroyed, finished, calls, kept)
  <2>1. 0 \in 0..Deep(t)
    BY DEF Deep
  <2>2. /\ Coherent(c, t, threadToBeDestroyed, finished, calls, kept)
        /\ DOMAIN n.mem = DOMAIN c.mem
        /\ \A a \in DOMAIN c.mem \ Above(t, 0, 0) : n.mem[a] = c.mem[a]
        /\ calls = [u \in Thread |-> calls[u]] /\ calls[t] \in CallsSoFar(t)
        /\ \A u \in Thread : u # t => calls[u] = calls[u]
    BY <1>10, Now
  <2>3. Running(n, t, calls[t], kept[t])
    BY <1>3, <1>11 DEF Running
  <2> HIDE DEF t, c, called
  <2> QED BY <1>5, <1>10, <2>1, <2>2, <2>3, Alone
<1> QED BY <1>1, <1>12

\* Sequences with the same elements are the same.
LEMMA ConcatIs ==
  ASSUME NEW p, NEW q, NEW r, Program(p), Program(q), Program(r),
         Len(r) = Len(p) + Len(q), \A i \in 1..Len(p) : r[i] = p[i],
         \A i \in 1..Len(q) : r[Len(p) + i] = q[i]
  PROVE  p \o q = r
<1> DEFINE s == p \o q
<1>1. /\ Program(s) /\ Len(s) = Len(p) + Len(q)
      /\ \A i \in 1..Len(p) : s[i] = p[i]
      /\ \A i \in 1..Len(q) : s[Len(p) + i] = q[i]
  BY ProgramConcat
<1> HIDE DEF s
<1>2. ASSUME NEW i \in 1..Len(r) PROVE s[i] = r[i]
  <2>1. Len(p) \in Nat /\ Len(q) \in Nat
    BY DEF Program
  <2>2. CASE i \in 1..Len(p)
    BY <1>1, <2>2
  <2>3. CASE i \notin 1..Len(p)
    <3>1. i - Len(p) \in 1..Len(q) /\ Len(p) + (i - Len(p)) = i
      BY <2>1, <2>3
    <3> QED BY <1>1, <3>1
  <2> QED BY <2>2, <2>3
<1>3. s = [i \in 1..Len(r) |-> s[i]] /\ r = [i \in 1..Len(r) |-> r[i]]
  BY <1>1 DEF Program
<1>4. s = r
  BY <1>2, <1>3
<1> QED BY <1>4 DEF s

LEMMA FirstCall ==
  ASSUME NEW a, NEW s, s = <<>>
  PROVE  s \o <<a>> \o <<>> = <<a>>
<1>1. Program(s) /\ Program(<<a>>) /\ Len(s) = 0 /\ Len(<<a>>) = 1
  BY DEF Program
<1>2. s \o <<a>> = <<a>>
  BY <1>1, ConcatIs
<1> QED BY <1>1, <1>2, ConcatIs

LEMMA SecondConcat ==
  ASSUME NEW a, NEW b, NEW c, NEW s, Program(s), Len(s) = 1, s[1] = a
  PROVE  s \o <<b>> \o <<c>> = <<a, b, c>>
<1> DEFINE p == <<b>>
           q == <<c>>
           u == <<a, b>>
           r == <<a, b, c>>
<1>1. /\ Program(p) /\ Len(p) = 1 /\ p[1] = b
      /\ Program(q) /\ Len(q) = 1 /\ q[1] = c
      /\ Program(u) /\ Len(u) = 2 /\ u[1] = a /\ u[2] = b
      /\ Program(r) /\ Len(r) = 3 /\ r[1] = a /\ r[2] = b /\ r[3] = c
  BY DEF Program
<1> HIDE DEF p, q, u, r
<1>2. s \o p = u
  <2>1. /\ Len(u) = Len(s) + Len(p) /\ \A i \in 1..Len(s) : u[i] = s[i]
        /\ \A i \in 1..Len(p) : u[Len(s) + i] = p[i]
    BY <1>1
  <2> QED BY <1>1, <2>1, ConcatIs
<1>3. u \o q = r
  <2>1. /\ Len(r) = Len(u) + Len(q) /\ \A i \in 1..Len(u) : r[i] = u[i]
        /\ \A i \in 1..Len(q) : r[Len(u) + i] = q[i]
    BY <1>1
  <2> QED BY <1>1, <2>1, ConcatIs
<1> QED BY <1>2, <1>3 DEF p, q, r

LEMMA SecondCall ==
  ASSUME NEW a, NEW b, NEW c, NEW s, s = <<a>>
  PROVE  s \o <<b>> \o <<c>> = <<a, b, c>>
<1>1. Program(s) /\ Len(s) = 1 /\ s[1] = a
  BY DEF Program
<1> QED BY <1>1, SecondConcat

LEMMA ThirdConcat ==
  ASSUME NEW a, NEW b, NEW c, NEW d, NEW s, Program(s), Len(s) = 3,
         s[1] = a, s[2] = b, s[3] = c
  PROVE  s \o <<d>> \o <<>> = <<a, b, c, d>>
<1> DEFINE p == <<d>>
           q == <<>>
           r == <<a, b, c, d>>
<1>1. /\ Program(p) /\ Len(p) = 1 /\ p[1] = d /\ Program(q) /\ Len(q) = 0
      /\ Program(r) /\ Len(r) = 4 /\ r[1] = a /\ r[2] = b /\ r[3] = c /\ r[4] = d
  BY DEF Program
<1> HIDE DEF p, q, r
<1>2. s \o p = r
  <2>1. /\ Len(r) = Len(s) + Len(p) /\ \A i \in 1..Len(s) : r[i] = s[i]
        /\ \A i \in 1..Len(p) : r[Len(s) + i] = p[i]
    BY <1>1
  <2> QED BY <1>1, <2>1, ConcatIs
<1>3. r \o q = r
  <2>1. /\ Len(r) = Len(r) + Len(q) /\ \A i \in 1..Len(r) : r[i] = r[i]
        /\ \A i \in 1..Len(q) : r[Len(r) + i] = q[i]
    BY <1>1
  <2> QED BY <1>1, <2>1, ConcatIs
<1> QED BY <1>2, <1>3 DEF p, q, r

LEMMA ThirdCall ==
  ASSUME NEW a, NEW b, NEW c, NEW d, NEW s, s = <<a, b, c>>
  PROVE  s \o <<d>> \o <<>> = <<a, b, c, d>>
<1>1. PICK z : z = s
  OBVIOUS
<1>2. Program(z) /\ Len(z) = 3 /\ z[1] = a /\ z[2] = b /\ z[3] = c
  BY <1>1 DEF Program
<1>3. z \o <<d>> \o <<>> = <<a, b, c, d>>
  BY <1>2, ThirdConcat, Zenon
<1> QED BY <1>1, <1>3, Zenon

\* The frame of the procedure called holds what ThreadRoot will want.
LEMMA FrameReturns ==
  ASSUME Hosts, NEW m, NEW n, NEW t, NEW p, NEW ret, Called(m, n, t, p, ret),
         m.regs[Host.InitialPC] = Func(t), m.regs[Host.WhenDonePC] = TF,
         host # "i386" => m.regs[Host.InitialArg] = Arg(t),
         host = "i386" => m.mem[Slot(t, 2)] = Arg(t)
  PROVE  ReturnsTo(n.mem, t, ret)
<1>1. Host.link \notin {Host.InitialPC, Host.InitialArg, Host.WhenDonePC}
  BY RegisterFacts
<1>2. host = "i386" => \A i \in 1..Len(Frame) : Frame[i] # Host.InitialArg
  <2> SUFFICES ASSUME host = "i386", NEW i \in 1..Len(Frame)
               PROVE  Frame[i] # Host.InitialArg
    OBVIOUS
  <2>1. Frame[i] \in {"ebx", "ebp", "esi", "edi"} /\ Host.InitialArg = "edx"
    BY FrameRegisters, I386Facts
  <2> QED BY <2>1
<1>3. ASSUME NEW i \in 1..Len(Frame)
      PROVE  /\ Frame[i] = Host.InitialPC => n.mem[Slot(t, CallDepth + i)] = Func(t)
             /\ Frame[i] = Host.InitialArg => n.mem[Slot(t, CallDepth + i)] = Arg(t)
             /\ Frame[i] = Host.WhenDonePC => n.mem[Slot(t, CallDepth + i)] = TF
             /\ Frame[i] = Host.link => n.mem[Slot(t, CallDepth + i)] = ret
  <2>1. n.mem[Slot(t, CallDepth + i)] =
          IF Frame[i] = Host.link THEN ret ELSE m.regs[Frame[i]]
    BY DEF Called
  <2> QED BY <1>1, <1>2, <2>1
<1>4. host = "i386" => n.mem[Slot(t, 2)] = Arg(t) /\ n.mem[Slot(t, 3)] = ret
  BY DEF Called
<1> QED BY <1>3, <1>4 DEF ReturnsTo

\* Only the stack of the current thread has changed.
LEMMA CallCoheres ==
  ASSUME Inv, NEW n, NEW t, t = currentThread, NEW cs2,
         Machine(n), n.wild = cpu.wild, DOMAIN n.mem = DOMAIN cpu.mem,
         \A a \in DOMAIN cpu.mem \ Above(t, 0, Inside(t)) : n.mem[a] = cpu.mem[a],
         Inside(t) \in 0..Deep(t),
         cs2 = [u \in Thread |-> cs2[u]], cs2[t] \in CallsSoFar(t),
         \A u \in Thread : u # t => cs2[u] = calls[u],
         Running(n, t, cs2[t], kept[t])
  PROVE  Coherent(n, t, threadToBeDestroyed, finished, cs2, kept)
<1>1. Hosts /\ Coherent(cpu, t, threadToBeDestroyed, finished, calls, kept)
  BY Now
<1> QED BY <1>1, Alone

\* A call of ThreadRoot, by way of the machine m.
LEMMA RootCallKeeps ==
  ASSUME Inv, NEW m, NEW n, NEW t, t = currentThread, t # Main, NEW p, NEW ret,
         NEW cs2, NEW called,
         cs2 = [calls EXCEPT ![t] = called], called \in CallsSoFar(t),
         Machine(m), m.wild = cpu.wild, DOMAIN m.mem = DOMAIN cpu.mem,
         \A a \in DOMAIN cpu.mem \ Above(t, 0, Inside(t)) : m.mem[a] = cpu.mem[a],
         Called(m, n, t, p, ret), InProcedure(n.mem, t, p, called)
  PROVE  Coherent(n, t, threadToBeDestroyed, finished, cs2, kept)
<1>1. /\ Machine(n) /\ n.wild = cpu.wild /\ DOMAIN n.mem = DOMAIN cpu.mem /\ n.pc = p
      /\ \A a \in DOMAIN cpu.mem \ Above(t, 0, Inside(t)) : n.mem[a] = cpu.mem[a]
      /\ n.regs[Host.sp] = SP(t, Inside(t))
  BY DEF Called
<1>2. Running(n, t, called, kept[t])
  BY <1>1 DEF Running
<1>3. /\ cs2 = [u \in Thread |-> cs2[u]] /\ cs2[t] = called
      /\ \A u \in Thread : u # t => cs2[u] = calls[u]
  BY Now
<1>4. Inside(t) \in 0..Deep(t)
  <2>1. Inside(t) \in 0..17 /\ Deep(t) = 18
    BY Now, Depths
  <2> QED BY <2>1
<1>5. Running(n, t, cs2[t], kept[t]) /\ cs2[t] \in CallsSoFar(t)
  BY <1>2, <1>3
<1> QED BY <1>1, <1>3, <1>4, <1>5, CallCoheres

\* ThreadRoot calls InterruptEnable, the thread's procedure and Finish.
LEMMA ThreadRootKeeps ==
  ASSUME Inv, ThreadRoot
  PROVE  Coherent(cpu', currentThread', threadToBeDestroyed', finished', calls', kept')
<1> DEFINE t == currentThread
           c == cpu
           called == calls[t]
<1>1. /\ Hosts /\ Machine(c) /\ Stack(t) \subseteq DOMAIN c.mem
      /\ Running(c, t, called, kept[t]) /\ t \in Thread
      /\ called \in CallsSoFar(t) /\ calls = [u \in Thread |-> calls[u]]
  BY Now
<1>2. /\ c.pc \in {Code("ThreadRoot"), Code("started"), Code("returned")}
      /\ threadToBeDestroyed' = threadToBeDestroyed
      /\ finished' = finished /\ kept' = kept /\ currentThread' = t
  BY DEF ThreadRoot, RootCalls
<1>3. t # Main /\ InRoot(c, t, called)
  BY <1>1, <1>2, Whereabouts
<1>4. CASE c.pc = Code("ThreadRoot")
  <2> DEFINE m == ThreadRootEntry(c)
             n == Prologue(Call(m, m.regs[Host.StartupPC], Code("started")), t)
  <2>1. /\ cpu' = n
        /\ calls' = [calls EXCEPT ![t] = @ \o <<m.regs[Host.StartupPC]>> \o <<>>]
    BY <1>4, Codes DEF ThreadRoot, RootCalls
  <2>2. /\ called = <<>> /\ c.regs[Host.sp] = SP(t, 0) /\ c.regs[Host.StartupPC] = IE
        /\ c.regs[Host.InitialPC] = Func(t) /\ c.regs[Host.InitialArg] = Arg(t)
        /\ c.regs[Host.WhenDonePC] = TF
    BY <1>3, <1>4, Codes DEF InRoot
  <2> HIDE DEF t, c, called
  <2>3. Entered(c, m, t)
    BY <1>1, <1>3, <2>2, EntryDoes
  <2> HIDE DEF m
  <2>4. /\ Machine(m) /\ m.wild = c.wild /\ DOMAIN m.mem = DOMAIN c.mem
        /\ \A a \in DOMAIN c.mem \ Above(t, 0, Inside(t)) : m.mem[a] = c.mem[a]
        /\ m.regs[Host.sp] = SP(t, RootDepth)
        /\ m.regs[Host.StartupPC] = IE /\ m.regs[Host.InitialPC] = Func(t)
        /\ m.regs[Host.InitialArg] = Arg(t) /\ m.regs[Host.WhenDonePC] = TF
        /\ host = "i386" => m.mem[Slot(t, 2)] = Arg(t)
    BY <2>2, <2>3 DEF Entered
  <2>5. n = Prologue(Call(m, IE, Code("started")), t)
    BY <2>4
  <2> HIDE DEF n
  <2>6. Called(m, n, t, IE, Code("started"))
    <3>1. Stack(t) \subseteq DOMAIN m.mem
      BY <1>1, <2>4
    <3> QED BY <1>1, <1>3, <2>4, <2>5, <3>1, CallDoes
  <2>7. ReturnsTo(n.mem, t, Code("started"))
    BY <1>1, <2>4, <2>6, FrameReturns
  <2>8. InProcedure(n.mem, t, IE, <<IE>>)
    BY <1>3, <2>7 DEF InProcedure
  <2>9. calls' = [calls EXCEPT ![t] = <<IE>>]
    <3>1. called \o <<m.regs[Host.StartupPC]>> \o <<>> = <<IE>>
      BY <2>2, <2>4, FirstCall
    <3> QED BY <2>1, <3>1 DEF called
  <2>10. <<IE>> \in CallsSoFar(t)
    BY DEF CallsSoFar
  <2>11. Coherent(n, t, threadToBeDestroyed, finished, calls', kept)
    BY <1>3, <2>4, <2>6, <2>8, <2>9, <2>10, RootCallKeeps DEF t, c
  <2> QED BY <1>2, <2>1, <2>11 DEF t
<1>5. CASE c.pc = Code("started")
  <2> DEFINE m == LoadArgument(c)
             n == Prologue(Call(m, m.regs[Host.InitialPC], Code("returned")), t)
  <2>1. /\ cpu' = n
        /\ calls' =
             [calls EXCEPT ![t] = @ \o <<m.regs[Host.InitialPC]>> \o <<Argument(m)>>]
    BY <1>5, Codes DEF ThreadRoot, RootCalls
  <2>2. /\ called = <<IE>> /\ c.regs[Host.sp] = SP(t, RootDepth)
        /\ c.regs[Host.InitialPC] = Func(t) /\ c.regs[Host.WhenDonePC] = TF
        /\ IF host = "i386" THEN c.mem[Slot(t, 2)] = Arg(t)
                            ELSE c.regs[Host.InitialArg] = Arg(t)
    BY <1>3, <1>5, Codes DEF InRoot
  <2> HIDE DEF t, c, called
  <2>3. /\ Machine(m) /\ m.wild = c.wild /\ m.mem = c.mem
        /\ m.regs[Host.sp] = SP(t, RootDepth)
        /\ m.regs[Host.InitialPC] = Func(t) /\ m.regs[Host.WhenDonePC] = TF
        /\ host # "i386" => m.regs[Host.InitialArg] = Arg(t)
        /\ Argument(m) = Arg(t)
    <3>1. CASE host = "i386"
      <4>1. m = c
        BY <3>1 DEF LoadArgument
      <4>2. Argument(m) = m.mem[m.regs["esp"]]
        BY <3>1 DEF Argument
      <4>3. Host.sp = "esp" /\ RootDepth = 2 /\ SP(t, 2) = Slot(t, 2)
        BY <3>1, I386Facts DEF RootDepth, SP, Slot
      <4> HIDE DEF m
      <4> QED BY <1>1, <2>2, <3>1, <4>1, <4>2, <4>3
    <3>2. CASE host # "i386"
      <4>1. m = Set(c, "arg0", c.regs[Host.InitialArg])
        BY <3>2 DEF LoadArgument
      <4>2. Argument(m) = m.regs["arg0"]
        BY <3>2 DEF Argument
      <4>3. /\ "arg0" \in Registers \ Layout
            /\ {Host.sp, Host.InitialPC, Host.InitialArg, Host.WhenDonePC} \subseteq Layout
            /\ Layout \subseteq Registers
        BY <1>1, <3>2, RegisterFacts
      <4> HIDE DEF m
      <4>4. IsSet(c, m, "arg0", c.regs[Host.InitialArg])
        BY <1>1, <4>1, <4>3, SetDoes
      <4> QED BY <2>2, <3>2, <4>2, <4>3, <4>4 DEF IsSet, Becomes
    <3> QED BY <3>1, <3>2
  <2> HIDE DEF m
  <2>4. n = Prologue(Call(m, Func(t), Code("returned")), t)
    BY <2>3
  <2> HIDE DEF n
  <2>5. Called(m, n, t, Func(t), Code("returned"))
    <3>1. Stack(t) \subseteq DOMAIN m.mem
      BY <1>1, <2>3
    <3> QED BY <1>1, <1>3, <2>3, <2>4, <3>1, CallDoes
  <2>6. ReturnsTo(n.mem, t, Code("returned"))
    <3>1. host = "i386" => m.mem[Slot(t, 2)] = Arg(t)
      BY <2>2, <2>3
    <3> QED BY <1>1, <2>3, <2>5, <3>1, FrameReturns
  <2>7. InProcedure(n.mem, t, Func(t), <<IE, Func(t), Arg(t)>>)
    BY <1>3, <2>6 DEF InProcedure
  <2>8. calls' = [calls EXCEPT ![t] = <<IE, Func(t), Arg(t)>>]
    <3>1. called \o <<m.regs[Host.InitialPC]>> \o <<Argument(m)>> = <<IE, Func(t), Arg(t)>>
      <4>1. called \o <<Func(t)>> \o <<Arg(t)>> = <<IE, Func(t), Arg(t)>>
        BY <2>2, SecondCall
      <4> QED BY <2>3, <4>1
    <3> QED BY <2>1, <3>1 DEF called
  <2>9. <<IE, Func(t), Arg(t)>> \in CallsSoFar(t)
    BY DEF CallsSoFar
  <2>10. Coherent(n, t, threadToBeDestroyed, finished, calls', kept)
    <3>1. \A a \in DOMAIN c.mem \ Above(t, 0, Inside(t)) : m.mem[a] = c.mem[a]
      BY <2>3
    <3> QED BY <1>3, <2>3, <2>5, <2>7, <2>8, <2>9, <3>1, RootCallKeeps DEF t, c
  <2> QED BY <1>2, <2>1, <2>10 DEF t
<1>6. CASE c.pc = Code("returned")
  <2> DEFINE n == Prologue(Call(c, c.regs[Host.WhenDonePC], Code("NOT REACHED")), t)
  <2>1. /\ cpu' = n
        /\ calls' = [calls EXCEPT ![t] = @ \o <<c.regs[Host.WhenDonePC]>> \o <<>>]
    BY <1>6, Codes DEF ThreadRoot, RootCalls
  <2>2. /\ called = <<IE, Func(t), Arg(t)>> /\ c.regs[Host.sp] = SP(t, RootDepth)
        /\ c.regs[Host.WhenDonePC] = TF
    BY <1>3, <1>6, Codes DEF InRoot
  <2> HIDE DEF t, c, called
  <2>3. n = Prologue(Call(c, TF, Code("NOT REACHED")), t)
    BY <2>2
  <2> HIDE DEF n
  <2>4. Called(c, n, t, TF, Code("NOT REACHED"))
    BY <1>1, <1>3, <2>2, <2>3, CallDoes
  <2>5. InProcedure(n.mem, t, TF, <<IE, Func(t), Arg(t), TF>>)
    BY <1>3 DEF InProcedure
  <2>6. calls' = [calls EXCEPT ![t] = <<IE, Func(t), Arg(t), TF>>]
    <3>1. called \o <<c.regs[Host.WhenDonePC]>> \o <<>> = <<IE, Func(t), Arg(t), TF>>
      BY <2>2, ThirdCall
    <3> QED BY <2>1, <3>1 DEF called
  <2>7. <<IE, Func(t), Arg(t), TF>> \in CallsSoFar(t)
    BY DEF CallsSoFar
  <2>8. Coherent(n, t, threadToBeDestroyed, finished, calls', kept)
    <3>1. \A a \in DOMAIN c.mem \ Above(t, 0, Inside(t)) : c.mem[a] = c.mem[a]
      OBVIOUS
    <3> QED BY <1>1, <1>3, <2>4, <2>5, <2>6, <2>7, <3>1, RootCallKeeps DEF t, c
  <2> QED BY <1>2, <2>1, <2>8 DEF t
<1> QED BY <1>2, <1>4, <1>5, <1>6

-----------------------------------------------------------------------------
(* AfterSWITCH. *)

\* The machine in which Run has taken its arguments and its return address off the
\* stack.
Unwound(c) == Pop(IF host = "i386" THEN Pop(Pop(c, "pc"), "pc") ELSE c, Host.link)

\* On the way back from Run the stack is where the procedure left it.
LEMMA RunReturns ==
  ASSUME Hosts, NEW c, Machine(c), NEW t, NEW p, Stack(t) \subseteq DOMAIN c.mem,
         c.regs[Host.sp] = SP(t, RunDepth(t)), c.mem[Slot(t, Inside(t) + 1)] = p
  PROVE  /\ Machine(Unwound(c)) /\ Unwound(c).wild = c.wild /\ Unwound(c).mem = c.mem
         /\ Unwound(c).regs[Host.sp] = SP(t, Inside(t))
         /\ Unwound(c).regs[Host.link] = p
<1> DEFINE x == IF host = "i386" THEN Pop(Pop(c, "pc"), "pc") ELSE c
           n == Pop(x, Host.link)
<1>1. PICK d \in Nat :
        /\ d = Inside(t) /\ d + 1 \in 1..Deep(t)
        /\ host = "i386" => RunDepth(t) = d + 3 /\ {d + 2, d + 3} \subseteq 1..Deep(t)
        /\ host # "i386" => RunDepth(t) = d + 1
  <2>1. /\ Inside(t) \in 0..17 /\ RunDepth(t) \in Nat /\ SwitchDepth(t) \in Nat
        /\ Inside(t) < RunDepth(t) /\ RunDepth(t) <= SwitchDepth(t)
        /\ SwitchDepth(t) <= Deep(t) /\ Deep(t) \in Nat
        /\ host = "i386" => RunDepth(t) = Inside(t) + 3
        /\ host # "i386" => RunDepth(t) = Inside(t) + 1
    BY Depths DEF Deep
  <2> QED BY <2>1
<1>2. /\ Adjacent(SP(t, d), SP(t, d + 1), Slot(t, d + 1))
      /\ Adjacent(SP(t, d + 1), SP(t, d + 2), Slot(t, d + 2))
      /\ Adjacent(SP(t, d + 2), SP(t, d + 3), Slot(t, d + 3))
  <2>1. d + 1 \in Nat /\ d + 2 \in Nat /\ (d + 1) + 1 = d + 2 /\ (d + 2) + 1 = d + 3
    OBVIOUS
  <2> QED BY <2>1, SlotsAdjacent
<1>3. /\ Machine(x) /\ x.wild = c.wild /\ x.mem = c.mem
      /\ x.regs[Host.sp] = SP(t, d + 1)
  <2>1. CASE host # "i386"
    BY <1>1, <2>1
  <2>2. CASE host = "i386"
    <3> DEFINE y == Pop(c, "pc")
    <3>1. "pc" \in Registers /\ "pc" # Host.sp
      BY <2>2, I386Facts, RegisterFacts
    <3>2. Slot(t, d + 2) \in DOMAIN c.mem /\ Slot(t, d + 3) \in DOMAIN c.mem
      BY <1>1, <2>2, Slots
    <3>3. c.regs[Host.sp] = SP(t, d + 3)
      BY <1>1, <2>2
    <3>4. IsPopped(c, y, SP(t, d + 2), Slot(t, d + 3), "pc")
      BY <1>2, <3>1, <3>2, <3>3, PopDoes
    <3>5. x = Pop(y, "pc")
      BY <2>2
    <3> HIDE DEF x, y
    <3>6. Machine(y) /\ y.mem = c.mem /\ y.wild = c.wild /\ y.regs[Host.sp] = SP(t, d + 2)
      BY <3>4 DEF IsPopped, Becomes
    <3>7. IsPopped(y, x, SP(t, d + 1), Slot(t, d + 2), "pc")
      BY <1>2, <3>1, <3>2, <3>5, <3>6, PopDoes
    <3> QED BY <3>6, <3>7 DEF IsPopped, Becomes
  <2> QED BY <2>1, <2>2
<1>4. n = Unwound(c)
  BY DEF Unwound
<1> HIDE DEF x
<1>5. IsPopped(x, n, SP(t, d), Slot(t, d + 1), Host.link)
  <2>1. Slot(t, d + 1) \in DOMAIN x.mem
    BY <1>1, <1>3, Slots
  <2>2. Host.link \in Registers /\ Host.link # Host.sp
    BY RegisterFacts
  <2> QED BY <1>2, <1>3, <2>1, <2>2, PopDoes
<1> HIDE DEF n
<1>6. /\ Machine(n) /\ n.wild = c.wild /\ n.mem = c.mem
      /\ n.regs[Host.sp] = SP(t, d) /\ n.regs[Host.link] = c.mem[Slot(t, d + 1)]
  BY <1>3, <1>5 DEF IsPopped, Becomes
<1> QED BY <1>1, <1>4, <1>6

\* The words freed are those of the threads of tbd and of no other.
Apart(tbd, freed) ==
  /\ \A t : t \notin tbd => Words(t) \cap freed = {} /\ Stack(t) \cap freed = {}
  /\ Stack(Main) \cap freed = {}
  /\ \A t \in tbd : t # Main => <<"stack", t, 0>> \in freed

LEMMA DeletedApart ==
  ASSUME Hosts, NEW tbd, NEW freed, freed = UNION {Deleted(u) : u \in tbd}
  PROVE  Apart(tbd, freed)
<1>1. ASSUME NEW u PROVE Deleted(u) \subseteq Words(u) \cup Stack(u)
  BY DEF Deleted
<1>2. ASSUME NEW t, t \notin tbd
      PROVE  Words(t) \cap freed = {} /\ Stack(t) \cap freed = {}
  <2>1. ASSUME NEW u \in tbd
        PROVE  (Words(t) \cup Stack(t)) \cap (Words(u) \cup Stack(u)) = {}
    BY <1>2, ObjectWords
  <2> QED BY <1>1, <2>1
<1>3. Stack(Main) \cap freed = {}
  <2>1. ASSUME NEW u \in tbd PROVE Stack(Main) \cap Deleted(u) = {}
    <3>1. CASE u = Main
      <4>1. Deleted(u) = Words(u)
        BY <3>1 DEF Deleted
      <4> QED BY <4>1, ObjectWords
    <3>2. CASE u # Main
      BY <1>1, <3>2, ObjectWords
    <3> QED BY <3>1, <3>2
  <2> QED BY <2>1
<1>4. ASSUME NEW t \in tbd, t # Main PROVE <<"stack", t, 0>> \in freed
  <2>1. 0 \in 0..(StackSize - 1)
    BY SwitchAssumption
  <2>2. <<"stack", t, 0>> \in Stack(t)
    BY <2>1 DEF Stack
  <2>3. Stack(t) \subseteq Deleted(t)
    BY <1>4 DEF Deleted
  <2> QED BY <2>2, <2>3
<1> QED BY <1>2, <1>3, <1>4 DEF Apart

\* Deleting finished threads disturbs nobody.
LEMMA DeletedCoheres ==
  ASSUME Hosts, NEW c, NEW cur, NEW tbd, NEW fin, NEW cs, NEW ks,
         Coherent(c, cur, tbd, fin, cs, ks), NEW n, Machine(n), n.wild = c.wild,
         NEW freed, Apart(tbd, freed),
         DOMAIN n.mem = DOMAIN c.mem \ freed, \A a \in DOMAIN n.mem : n.mem[a] = c.mem[a],
         Running(n, cur, cs[cur], ks[cur])
  PROVE  Coherent(n, cur, {}, fin, cs, ks)
<1>1. /\ Machine(c) /\ c.wild = FALSE /\ Memory(c.mem, fin) /\ cur \in Thread \ fin
      /\ HasStack(c.mem, cur) /\ tbd \subseteq fin
  BY DEF Coherent
<1>2. \A t \in Thread : HasStack(n.mem, t) =>
        HasStack(c.mem, t) /\ Stack(t) \cap freed = {}
  BY DEF HasStack, Apart
<1>3. \A t \in Thread \ fin :
        /\ Words(t) \cap freed = {} /\ Stack(t) \cap freed = {}
        /\ HasStack(c.mem, t) => HasStack(n.mem, t)
  <2> TAKE t \in Thread \ fin
  <2>1. Words(t) \cap freed = {} /\ Stack(t) \cap freed = {}
    BY <1>1 DEF Apart
  <2>2. <<"stack", t, 0>> \in Stack(t)
    <3>1. 0 \in 0..(StackSize - 1)
      BY SwitchAssumption
    <3> QED BY <3>1 DEF Stack
  <2> QED BY <2>1, <2>2 DEF HasStack
<1>4. Memory(n.mem, fin)
  <2>1. ASSUME NEW t \in Thread \ fin PROVE Words(t) \subseteq DOMAIN n.mem
    BY <1>1, <1>3 DEF Memory
  <2>2. ASSUME NEW t \in Thread, HasStack(n.mem, t) PROVE Stack(t) \subseteq DOMAIN n.mem
    BY <1>1, <1>2, <2>2 DEF Memory
  <2>3. ASSUME NEW t \in Thread, HasStack(n.mem, t), t # Main
        PROVE  n.mem[Fencepost(t)] = Code("STACK_FENCEPOST")
    <3>1. c.mem[Fencepost(t)] = Code("STACK_FENCEPOST")
      BY <1>1, <1>2, <2>3 DEF Memory
    <3>2. Fencepost(t) \in DOMAIN n.mem
      BY <2>2, <2>3, Slots
    <3> QED BY <3>1, <3>2
  <2> QED BY <2>1, <2>2, <2>3 DEF Memory
<1>5. ASSUME NEW t \in Thread \ (fin \cup {cur}), HasStack(n.mem, t)
      PROVE  Asleep(n.mem, t, cs[t], ks[t])
  <2>1. HasStack(c.mem, t)
    BY <1>2, <1>5
  <2>2. Asleep(c.mem, t, cs[t], ks[t])
    BY <2>1 DEF Coherent, Asleep
  <2>3. \A a \in Words(t) \cup Stack(t) : n.mem[a] = c.mem[a]
    BY <1>4, <1>5 DEF Memory
  <2> QED BY <2>2, <2>3, AsleepKept
<1>6. /\ HasStack(n.mem, cur) /\ {} \subseteq fin
      /\ \A t \in Thread : ~HasStack(n.mem, t) /\ t \notin fin => cs[t] = <<>>
      /\ \A t \in Thread : cs[t] \in CallsSoFar(t)
      /\ cs = [t \in Thread |-> cs[t]] /\ ks = [t \in Thread |-> ks[t]]
  BY <1>1, <1>3 DEF Coherent
<1> QED BY <1>1, <1>4, <1>5, <1>6 DEF Coherent, Asleep

LEMMA AfterSWITCHKeeps ==
  ASSUME Inv, AfterSWITCH
  PROVE  /\ Coherent(cpu', currentThread', threadToBeDestroyed', finished', calls', kept')
         /\ cpu'.pc = kept[currentThread].pc
<1> DEFINE t == currentThread
           k == kept[t]
           called == calls[t]
           freed == UNION {Deleted(u) : u \in threadToBeDestroyed}
           n == Unwound(cpu)
           j == Jump(n, n.regs[Host.link])
           o == [j EXCEPT !.mem = [a \in DOMAIN @ \ freed |-> @[a]]]
<1>1. /\ cpu.pc = Code("Run") /\ cpu' = o /\ threadToBeDestroyed' = {}
      /\ currentThread' = t /\ finished' = finished /\ calls' = calls /\ kept' = kept
  BY DEF AfterSWITCH, Unwound
<1>2. /\ Hosts /\ Machine(cpu) /\ Stack(t) \subseteq DOMAIN cpu.mem
      /\ Running(cpu, t, called, k)
      /\ Coherent(cpu, t, threadToBeDestroyed, finished, calls, kept)
  BY Now
<1>3. /\ InRun(cpu.mem, t, called, k)
      /\ \A r \in {Host.sp} \cup CalleeSaved : cpu.regs[r] = k.regs[r]
  BY <1>1, <1>2, Whereabouts
<1>4. /\ InProcedure(cpu.mem, t, k.pc, called)
      /\ cpu.mem[Slot(t, Inside(t) + 1)] = k.pc
      /\ cpu.regs[Host.sp] = SP(t, RunDepth(t))
  BY <1>3 DEF InRun
<1> HIDE DEF t, k, called
<1>5. /\ Machine(n) /\ n.wild = cpu.wild /\ n.mem = cpu.mem
      /\ n.regs[Host.sp] = SP(t, Inside(t)) /\ n.regs[Host.link] = k.pc
  BY <1>2, <1>4, RunReturns
<1> HIDE DEF n, freed
<1>6. /\ Machine(j) /\ j.wild = cpu.wild /\ j.mem = cpu.mem /\ j.regs = n.regs
      /\ j.pc = k.pc
  BY <1>5, JumpDoes
<1> HIDE DEF j
<1>7. j = [regs |-> j.regs, mem |-> j.mem, pc |-> j.pc, wild |-> j.wild]
  BY <1>6 DEF Machine
<1>8. /\ o.regs = n.regs /\ o.pc = k.pc /\ o.wild = cpu.wild
      /\ o.mem = [a \in DOMAIN cpu.mem \ freed |-> cpu.mem[a]]
      /\ o = [regs |-> o.regs, mem |-> o.mem, pc |-> o.pc, wild |-> o.wild]
  BY <1>5, <1>6, <1>7
<1> HIDE DEF o
<1>9. /\ Machine(o) /\ DOMAIN o.mem = DOMAIN cpu.mem \ freed
      /\ \A a \in DOMAIN o.mem : o.mem[a] = cpu.mem[a]
  BY <1>5, <1>8 DEF Machine
<1>10. t \notin threadToBeDestroyed
  BY <1>2 DEF Coherent
<1>11. Apart(threadToBeDestroyed, freed)
  BY <1>2, DeletedApart DEF freed
<1>12. InProcedure(o.mem, t, k.pc, called)
  <2>1. \A e \in 1..Inside(t) : Slot(t, e) \in Stack(t)
    <3>1. Inside(t) \in 0..17 /\ Inside(t) <= Deep(t) /\ Deep(t) \in Nat
      <4>1. /\ Inside(t) \in 0..17 /\ RunDepth(t) \in Nat /\ SwitchDepth(t) \in Nat
            /\ Inside(t) < RunDepth(t) /\ RunDepth(t) <= SwitchDepth(t)
            /\ SwitchDepth(t) <= Deep(t) /\ Deep(t) \in Nat
        BY <1>2, Depths DEF Deep
      <4> QED BY <4>1
    <3>2. \A e \in 1..Inside(t) : e \in 1..Deep(t)
      BY <3>1
    <3> QED BY <1>2, <3>2, Slots
  <2>2. Stack(t) \cap freed = {}
    BY <1>10, <1>11 DEF Apart
  <2>3. SameStack(cpu.mem, o.mem, t, Inside(t))
    BY <1>2, <1>9, <2>1, <2>2 DEF SameStack
  <2> QED BY <1>2, <1>4, <2>3, InProcedureKept
<1>13. Running(o, t, called, k)
  BY <1>5, <1>8, <1>12 DEF Running
<1>14. Coherent(o, t, {}, finished, calls, kept)
  <2>1. Running(o, t, calls[t], kept[t])
    BY <1>13 DEF called, k
  <2> QED BY <1>2, <1>8, <1>9, <1>11, <2>1, DeletedCoheres
<1> QED BY <1>1, <1>8, <1>14 DEF t, k

-----------------------------------------------------------------------------
(* Yield and Finish. *)

\* Run keeps the invariant, with the current thread among the finished ones or not.
LEMMA RunCoheres ==
  ASSUME Inv, NEW new \in CanRun, Run(new), NEW fin, finished \subseteq fin, new \notin fin,
         NEW tbd, tbd \subseteq fin
  PROVE  Coherent(cpu', currentThread', tbd, fin, calls', kept')
<1> DEFINE t == currentThread
           c == cpu
           n == cpu'
           m == PassThreads(Push(c, c.pc), new)
           ks2 == kept'
<1>1. /\ c.pc \in Procedure /\ currentThread' = new /\ calls' = calls
      /\ n = Ret(Execution(Call(m, Code("SWITCH"), Code("Run")), SwitchCode))
      /\ ks2 = [kept EXCEPT ![t] =
           [pc |-> c.pc, regs |-> [r \in {Host.sp} \cup CalleeSaved |-> m.regs[r]]]]
  BY DEF Run, CalleeSaved
<1>2. /\ Hosts /\ Machine(c) /\ c.wild = FALSE /\ Memory(c.mem, finished)
      /\ t \in Thread \ finished /\ HasStack(c.mem, t)
      /\ calls = [u \in Thread |-> calls[u]] /\ kept = [u \in Thread |-> kept[u]]
      /\ \A u \in Thread : calls[u] \in CallsSoFar(u)
      /\ Coherent(c, t, threadToBeDestroyed, finished, calls, kept)
  BY Now
<1>3. InProcedure(c.mem, t, c.pc, calls[t]) /\ c.regs[Host.sp] = SP(t, Inside(t))
  BY <1>1, Now, Whereabouts
<1>4. new \in Thread \ finished /\ HasStack(c.mem, new)
  BY DEF CanRun, Forked, HasStack
<1>5. \A u \in Thread \ (finished \cup {t}) :
        HasStack(c.mem, u) => Asleep(c.mem, u, calls[u], kept[u])
  BY <1>2 DEF Coherent, Asleep
<1>6. t = currentThread /\ m = PassThreads(Push(c, c.pc), new)
  OBVIOUS
<1> HIDE DEF t, c, n, m, ks2
<1>7. /\ Machine(n) /\ n.wild = c.wild /\ DOMAIN n.mem = DOMAIN c.mem
      /\ Memory(n.mem, finished) /\ Running(n, new, calls[new], ks2[new])
      /\ Slept(n.mem, finished, calls, ks2)
  <2>1. Goes(c, m, n, t, new, c.pc, kept, ks2)
    BY <1>1, <1>6 DEF Goes
  <2>2. MayRun(c, finished, t, new, c.pc, calls, kept)
    BY <1>2, <1>3, <1>4, <1>5, <1>6 DEF MayRun
  <2>3. DidRun(c, n, finished, new, calls, ks2)
    BY <1>2, <2>1, <2>2, RunDoes
  <2> QED BY <2>3 DEF DidRun
<1>8. Memory(n.mem, fin)
  BY <1>7 DEF Memory
<1>9. \A u : HasStack(n.mem, u) <=> HasStack(c.mem, u)
  BY <1>7 DEF HasStack
<1>10. ks2 = [u \in Thread |-> ks2[u]]
  BY <1>1, <1>2
<1>11. \A u \in Thread \ (fin \cup {new}) :
         HasStack(n.mem, u) => \/ Fresh(n.mem, u, calls[u])
                               \/ Suspended(n.mem, u, calls[u], ks2[u])
  BY <1>7 DEF Slept, Asleep
<1>12. \A u \in Thread : ~HasStack(n.mem, u) /\ u \notin fin => calls[u] = <<>>
  BY <1>2, <1>9 DEF Coherent
<1>13. new \in Thread \ fin /\ HasStack(n.mem, new) /\ n.wild = FALSE
  BY <1>2, <1>4, <1>7, <1>9
<1>14. Coherent(n, new, tbd, fin, calls, ks2)
  BY <1>2, <1>7, <1>8, <1>10, <1>11, <1>12, <1>13 DEF Coherent
<1> QED BY <1>1, <1>14 DEF n, ks2

LEMMA YieldKeeps ==
  ASSUME Inv, Yield
  PROVE  Coherent(cpu', currentThread', threadToBeDestroyed', finished', calls', kept')
<1>1. PICK new \in CanRun : Run(new)
  BY DEF Yield
<1>2. new \notin finished /\ threadToBeDestroyed \subseteq finished
  BY Now DEF CanRun
<1>3. threadToBeDestroyed' = threadToBeDestroyed /\ finished' = finished
  BY DEF Yield
<1>4. Coherent(cpu', currentThread', threadToBeDestroyed, finished, calls', kept')
  BY <1>1, <1>2, RunCoheres
<1> QED BY <1>3, <1>4

LEMMA FinishKeeps ==
  ASSUME Inv, Finish
  PROVE  Coherent(cpu', currentThread', threadToBeDestroyed', finished', calls', kept')
<1>1. PICK new \in CanRun \ {currentThread} : Run(new)
  BY DEF Finish
<1>2. PICK fin, tbd : fin = finished \cup {currentThread} /\ tbd = {currentThread}
  OBVIOUS
<1>3. finished \subseteq fin /\ new \notin fin /\ tbd \subseteq fin
  BY <1>1, <1>2 DEF CanRun
<1>4. Coherent(cpu', currentThread', tbd, fin, calls', kept')
  BY <1>1, <1>3, RunCoheres
<1>5. threadToBeDestroyed' = tbd /\ finished' = fin
  BY <1>2 DEF Finish
<1> QED BY <1>4, <1>5

-----------------------------------------------------------------------------
(* Fork. *)

LEMMA TopIs ==
  ASSUME Hosts, NEW t, t # Main
  PROVE  StackTop(t) = SP(t, IF host = "i386" THEN 1 ELSE 0)
<1>1. CASE host = "i386"
  <2>1. Base(t) = StackSize - 4
    BY <1>1 DEF Base
  <2>2. SP(t, 1) = <<"stack", t, (StackSize - 4) - 1>>
    BY <1>1, <2>1 DEF SP
  <2>3. FirstFrame(t) = <<"stack", t, StackSize - 4>>
    BY <1>1 DEF FirstFrame
  <2> QED BY <1>1, <2>2, <2>3 DEF Minus, StackTop
<1>2. CASE host = "SNAKE"
  <2>1. SP(t, 0) = <<"stack", t, 16 + 0>> /\ 16 + 0 = 16
    BY <1>2 DEF SP, Base
  <2> QED BY <1>2, <2>1 DEF FirstFrame, StackTop
<1>3. CASE host = "MIPS"
  <2>1. Base(t) = StackSize - 4
    BY <1>3 DEF Base
  <2>2. SP(t, 0) = <<"stack", t, (StackSize - 4) - 0>> /\ (StackSize - 4) - 0 = StackSize - 4
    BY <1>3, <2>1, SwitchAssumption DEF SP
  <2> QED BY <1>3, <2>2 DEF FirstFrame, StackTop
<1> QED BY <1>1, <1>2, <1>3 DEF Hosts

\* The addresses that StackAllocate writes at are all different.
LEMMA LaidApart ==
  ASSUME Hosts, NEW t, t # Main
  PROVE  /\ Object(t) \notin {At(t, Host.link), At(t, Host.StartupPC),
              At(t, Host.InitialPC), At(t, Host.InitialArg), At(t, Host.WhenDonePC)}
         /\ At(t, Host.link) \notin {At(t, Host.StartupPC), At(t, Host.InitialPC),
              At(t, Host.InitialArg), At(t, Host.WhenDonePC)}
         /\ At(t, Host.StartupPC) \notin {At(t, Host.InitialPC), At(t, Host.InitialArg),
              At(t, Host.WhenDonePC)}
         /\ At(t, Host.InitialPC) \notin {At(t, Host.InitialArg), At(t, Host.WhenDonePC)}
         /\ At(t, Host.InitialArg) # At(t, Host.WhenDonePC)
         /\ {Object(t), At(t, Host.link), At(t, Host.StartupPC),
             At(t, Host.InitialPC), At(t, Host.InitialArg), At(t, Host.WhenDonePC)}
              \subseteq Words(t)
         /\ StackTop(t) \in Stack(t) /\ Fencepost(t) \in Stack(t)
         /\ host = "i386" => StackTop(t) # Fencepost(t) /\ StackTop(t) = Slot(t, 1)
         /\ Words(t) \cap Stack(t) = {}
<1>1. \A r, s \in Layout : At(t, r) = At(t, s) => r = s
  BY ObjectWords
<1>2. \A r \in Layout : At(t, r) \in Words(t)
  BY ObjectWords
<1>3. Words(t) \cap Stack(t) = {}
  BY ObjectWords
<1>4. Fencepost(t) \in Stack(t)
  BY Slots
<1>5. 0 \in 0..Deep(t) /\ 1 \in 0..Deep(t) /\ 1 \in 1..Deep(t)
  BY DEF Deep
<1>6. StackTop(t) \in Stack(t)
  BY <1>5, Slots, TopIs
<1>7. host = "i386" => StackTop(t) = Slot(t, 1)
  BY TopIs DEF SP, Slot
<1>8. Slot(t, 1) # Fencepost(t)
  BY <1>5, Slots
<1>9. Object(t) = At(t, Host.sp)
  BY ObjectWords
<1> QED BY <1>1, <1>2, <1>3, <1>4, <1>6, <1>7, <1>8, <1>9, RegisterFacts

\* What StackAllocate leaves at each of them, and elsewhere.
LEMMA LaidIs ==
  ASSUME Hosts, NEW mem, NEW t, t # Main
  PROVE  /\ Laid(mem, t, Object(t)) = StackTop(t)
         /\ Laid(mem, t, At(t, Host.link)) = Code("ThreadRoot")
         /\ Laid(mem, t, At(t, Host.StartupPC)) = IE
         /\ Laid(mem, t, At(t, Host.InitialPC)) = Func(t)
         /\ Laid(mem, t, At(t, Host.InitialArg)) = Arg(t)
         /\ Laid(mem, t, At(t, Host.WhenDonePC)) = TF
         /\ host = "i386" => Laid(mem, t, StackTop(t)) = Code("ThreadRoot")
         /\ Laid(mem, t, Fencepost(t)) = Code("STACK_FENCEPOST")
         /\ \A a : a \notin Words(t) \cup Stack(t) => Laid(mem, t, a) = mem[a]
<1>1. \A a : a \in Words(t) => a # Fencepost(t) /\ a # StackTop(t)
  BY LaidApart
<1>2. Laid(mem, t, Object(t)) = StackTop(t)
  <2>1. PICK a : a = Object(t)
    OBVIOUS
  <2>2. /\ a # At(t, Host.link) /\ a # At(t, Host.StartupPC) /\ a # At(t, Host.InitialPC)
        /\ a # At(t, Host.InitialArg) /\ a # At(t, Host.WhenDonePC)
        /\ a # Fencepost(t) /\ a # StackTop(t)
    BY <1>1, <2>1, LaidApart
  <2>3. Laid(mem, t, a) = StackTop(t)
    BY <2>1, <2>2, Zenon DEF Laid, IE, TF
  <2> QED BY <2>1, <2>3
<1>3. Laid(mem, t, At(t, Host.link)) = Code("ThreadRoot")
  <2>1. PICK a : a = At(t, Host.link)
    OBVIOUS
  <2>2. /\ a # Object(t) /\ a # At(t, Host.StartupPC) /\ a # At(t, Host.InitialPC)
        /\ a # At(t, Host.InitialArg) /\ a # At(t, Host.WhenDonePC)
        /\ a # Fencepost(t) /\ a # StackTop(t)
    BY <1>1, <2>1, LaidApart
  <2>3. Laid(mem, t, a) = Code("ThreadRoot")
    BY <2>1, <2>2, Zenon DEF Laid, IE, TF
  <2> QED BY <2>1, <2>3
<1>4. Laid(mem, t, At(t, Host.StartupPC)) = IE
  <2>1. PICK a : a = At(t, Host.StartupPC)
    OBVIOUS
  <2>2. /\ a # Object(t) /\ a # At(t, Host.link) /\ a # At(t, Host.InitialPC)
        /\ a # At(t, Host.InitialArg) /\ a # At(t, Host.WhenDonePC)
        /\ a # Fencepost(t) /\ a # StackTop(t)
    BY <1>1, <2>1, LaidApart
  <2>3. Laid(mem, t, a) = IE
    BY <2>1, <2>2, Zenon DEF Laid, IE, TF
  <2> QED BY <2>1, <2>3
<1>5. Laid(mem, t, At(t, Host.InitialPC)) = Func(t)
  <2>1. PICK a : a = At(t, Host.InitialPC)
    OBVIOUS
  <2>2. /\ a # Object(t) /\ a # At(t, Host.link) /\ a # At(t, Host.StartupPC)
        /\ a # At(t, Host.InitialArg) /\ a # At(t, Host.WhenDonePC)
        /\ a # Fencepost(t) /\ a # StackTop(t)
    BY <1>1, <2>1, LaidApart
  <2>3. Laid(mem, t, a) = Func(t)
    BY <2>1, <2>2, Zenon DEF Laid, IE, TF
  <2> QED BY <2>1, <2>3
<1>6. Laid(mem, t, At(t, Host.InitialArg)) = Arg(t)
  <2>1. PICK a : a = At(t, Host.InitialArg)
    OBVIOUS
  <2>2. /\ a # Object(t) /\ a # At(t, Host.link) /\ a # At(t, Host.StartupPC)
        /\ a # At(t, Host.InitialPC) /\ a # At(t, Host.WhenDonePC)
        /\ a # Fencepost(t) /\ a # StackTop(t)
    BY <1>1, <2>1, LaidApart
  <2>3. Laid(mem, t, a) = Arg(t)
    BY <2>1, <2>2, Zenon DEF Laid, IE, TF
  <2> QED BY <2>1, <2>3
<1>7. Laid(mem, t, At(t, Host.WhenDonePC)) = TF
  <2>1. PICK a : a = At(t, Host.WhenDonePC)
    OBVIOUS
  <2>2. /\ a # Object(t) /\ a # At(t, Host.link) /\ a # At(t, Host.StartupPC)
        /\ a # At(t, Host.InitialPC) /\ a # At(t, Host.InitialArg)
        /\ a # Fencepost(t) /\ a # StackTop(t)
    BY <1>1, <2>1, LaidApart
  <2>3. Laid(mem, t, a) = TF
    BY <2>1, <2>2, Zenon DEF Laid, IE, TF
  <2> QED BY <2>1, <2>3
<1>8. \A a : a \in Stack(t) =>
        /\ a # Object(t) /\ a # At(t, Host.link) /\ a # At(t, Host.StartupPC)
        /\ a # At(t, Host.InitialPC) /\ a # At(t, Host.InitialArg)
        /\ a # At(t, Host.WhenDonePC)
  BY LaidApart
<1>9. host = "i386" => Laid(mem, t, StackTop(t)) = Code("ThreadRoot")
  <2> SUFFICES ASSUME host = "i386" PROVE Laid(mem, t, StackTop(t)) = Code("ThreadRoot")
    OBVIOUS
  <2>1. PICK a : a = StackTop(t)
    OBVIOUS
  <2>2. /\ a # Object(t) /\ a # At(t, Host.link) /\ a # At(t, Host.StartupPC)
        /\ a # At(t, Host.InitialPC) /\ a # At(t, Host.InitialArg)
        /\ a # At(t, Host.WhenDonePC) /\ a # Fencepost(t)
    BY <1>8, <2>1, LaidApart
  <2>3. Laid(mem, t, a) = Code("ThreadRoot")
    BY <2>1, <2>2, Zenon DEF Laid, IE, TF
  <2> QED BY <2>1, <2>3
<1>10. Laid(mem, t, Fencepost(t)) = Code("STACK_FENCEPOST")
  <2>1. PICK a : a = Fencepost(t)
    OBVIOUS
  <2>2. /\ a # Object(t) /\ a # At(t, Host.link) /\ a # At(t, Host.StartupPC)
        /\ a # At(t, Host.InitialPC) /\ a # At(t, Host.InitialArg)
        /\ a # At(t, Host.WhenDonePC) /\ (host = "i386" => a # StackTop(t))
    BY <1>8, <2>1, LaidApart
  <2>3. Laid(mem, t, a) = Code("STACK_FENCEPOST")
    BY <2>1, <2>2, Zenon DEF Laid, IE, TF
  <2> QED BY <2>1, <2>3
<1>11. ASSUME NEW a, a \notin Words(t) \cup Stack(t) PROVE Laid(mem, t, a) = mem[a]
  <2>1. /\ a # Object(t) /\ a # At(t, Host.link) /\ a # At(t, Host.StartupPC)
        /\ a # At(t, Host.InitialPC) /\ a # At(t, Host.InitialArg)
        /\ a # At(t, Host.WhenDonePC) /\ a # StackTop(t) /\ a # Fencepost(t)
    BY <1>11, LaidApart
  <2>2. a \notin Stack(t)
    BY <1>11
  <2> QED BY <2>1, <2>2, Zenon DEF Laid, IE, TF
<1> QED BY <1>2, <1>3, <1>4, <1>5, <1>6, <1>7, <1>9, <1>10, <1>11

LEMMA LaidElsewhere ==
  ASSUME Hosts, NEW mem, NEW t, t # Main, NEW a, a \notin Words(t) \cup Stack(t)
  PROVE  Laid(mem, t, a) = mem[a]
<1>1. \A b : b \notin Words(t) \cup Stack(t) => Laid(mem, t, b) = mem[b]
  BY LaidIs
<1> QED BY <1>1

\* n is c after StackAllocate of t, and what that means.
Lays(c, n, t) ==
  n = [c EXCEPT !.mem = [a \in DOMAIN @ \cup Stack(t) |-> Laid(@, t, a)]]

HasLaid(c, n, t) ==
  /\ Machine(n) /\ n.regs = c.regs /\ n.pc = c.pc /\ n.wild = c.wild
  /\ DOMAIN n.mem = DOMAIN c.mem \cup Stack(t)
  /\ \A a \in DOMAIN n.mem : n.mem[a] = Laid(c.mem, t, a)

LEMMA ForkLays ==
  ASSUME NEW c, Machine(c), NEW t, NEW n, Lays(c, n, t)
  PROVE  HasLaid(c, n, t)
<1>1. c = [regs |-> c.regs, mem |-> c.mem, pc |-> c.pc, wild |-> c.wild]
  BY DEF Machine
<1>2. /\ n.regs = c.regs /\ n.pc = c.pc /\ n.wild = c.wild
      /\ n.mem = [a \in DOMAIN c.mem \cup Stack(t) |-> Laid(c.mem, t, a)]
      /\ n = [regs |-> n.regs, mem |-> n.mem, pc |-> n.pc, wild |-> n.wild]
  BY <1>1 DEF Lays
<1>3. n.regs = [r \in Registers |-> n.regs[r]]
  BY <1>2 DEF Machine
<1>4. /\ DOMAIN n.mem = DOMAIN c.mem \cup Stack(t)
      /\ \A a \in DOMAIN n.mem : n.mem[a] = Laid(c.mem, t, a)
      /\ n.mem = [a \in DOMAIN n.mem |-> n.mem[a]]
  BY <1>2
<1> QED BY <1>2, <1>3, <1>4 DEF Machine, HasLaid

\* Where a thread's stack is, and that no other stack has its first word.
LEMMA FirstWord ==
  /\ \A t : <<"stack", t, 0>> \in Stack(t)
  /\ \A t, u : <<"stack", u, 0>> \in Stack(t) => t = u
<1>1. 0 \in 0..(StackSize - 1)
  BY SwitchAssumption
<1> QED BY <1>1 DEF Stack

\* StackAllocate makes t fresh and writes on no other thread's words.
LEMMA ForkCoheres ==
  ASSUME Hosts, NEW c, NEW cur, NEW tbd, NEW fin, NEW cs, NEW ks,
         Coherent(c, cur, tbd, fin, cs, ks),
         InProcedure(c.mem, cur, c.pc, cs[cur]), c.regs[Host.sp] = SP(cur, Inside(cur)),
         NEW t \in Thread \ fin, t # Main, ~HasStack(c.mem, t),
         NEW n, Machine(n), n.regs = c.regs, n.pc = c.pc, n.wild = c.wild,
         DOMAIN n.mem = DOMAIN c.mem \cup Stack(t),
         \A a \in DOMAIN n.mem : n.mem[a] = Laid(c.mem, t, a)
  PROVE  Coherent(n, cur, tbd, fin, cs, ks)
<1>1. /\ c.wild = FALSE /\ Memory(c.mem, fin) /\ cur \in Thread \ fin
      /\ HasStack(c.mem, cur) /\ tbd \subseteq fin /\ cs[t] = <<>>
      /\ \A u \in Thread : ~HasStack(c.mem, u) /\ u \notin fin => cs[u] = <<>>
  BY DEF Coherent
<1>2. ASSUME NEW u, u # t, NEW a \in (Words(u) \cup Stack(u)) \cap DOMAIN c.mem
      PROVE  n.mem[a] = c.mem[a]
  <2>1. a \notin Words(t) \cup Stack(t)
    BY <1>2, ObjectWords
  <2>2. Laid(c.mem, t, a) = c.mem[a]
    BY <2>1, LaidElsewhere
  <2> QED BY <1>2, <2>2
<1>3. /\ HasStack(n.mem, t)
      /\ \A u : u # t => (HasStack(n.mem, u) <=> HasStack(c.mem, u))
  BY FirstWord DEF HasStack
<1>4. Words(t) \cup Stack(t) \subseteq DOMAIN n.mem
  BY <1>1 DEF Memory
<1>5. Memory(n.mem, fin)
  <2>1. ASSUME NEW u \in Thread \ fin PROVE Words(u) \subseteq DOMAIN n.mem
    BY <1>1 DEF Memory
  <2>2. ASSUME NEW u \in Thread, HasStack(n.mem, u) PROVE Stack(u) \subseteq DOMAIN n.mem
    BY <1>1, <1>3, <1>4, <2>2 DEF Memory
  <2>3. ASSUME NEW u \in Thread, HasStack(n.mem, u), u # Main
        PROVE  n.mem[Fencepost(u)] = Code("STACK_FENCEPOST")
    <3>1. Fencepost(u) \in Stack(u)
      BY Slots
    <3>2. CASE u = t
      <4>1. Laid(c.mem, t, Fencepost(t)) = Code("STACK_FENCEPOST")
        BY LaidIs
      <4> QED BY <1>4, <3>1, <3>2, <4>1
    <3>3. CASE u # t
      <4>1. c.mem[Fencepost(u)] = Code("STACK_FENCEPOST") /\ Stack(u) \subseteq DOMAIN c.mem
        BY <1>1, <1>3, <2>3, <3>3 DEF Memory
      <4> QED BY <1>2, <3>1, <3>3, <4>1
    <3> QED BY <3>2, <3>3
  <2> QED BY <2>1, <2>2, <2>3 DEF Memory
<1>6. Fresh(n.mem, t, cs[t])
  <2>1. /\ At(t, Host.sp) = Object(t)
        /\ {Object(t), At(t, Host.link), At(t, Host.StartupPC), At(t, Host.InitialPC),
            At(t, Host.InitialArg), At(t, Host.WhenDonePC)} \subseteq DOMAIN n.mem
        /\ StackTop(t) \in DOMAIN n.mem
    BY <1>4, LaidApart, ObjectWords
  <2>2. /\ Laid(c.mem, t, Object(t)) = StackTop(t)
        /\ Laid(c.mem, t, At(t, Host.link)) = Code("ThreadRoot")
        /\ Laid(c.mem, t, At(t, Host.StartupPC)) = IE
        /\ Laid(c.mem, t, At(t, Host.InitialPC)) = Func(t)
        /\ Laid(c.mem, t, At(t, Host.InitialArg)) = Arg(t)
        /\ Laid(c.mem, t, At(t, Host.WhenDonePC)) = TF
        /\ host = "i386" => Laid(c.mem, t, StackTop(t)) = Code("ThreadRoot")
    BY LaidIs
  <2>3. StackTop(t) = SP(t, IF host = "i386" THEN 1 ELSE 0)
    BY TopIs
  <2>4. host = "i386" => StackTop(t) = Slot(t, 1)
    BY LaidApart
  <2> QED BY <1>1, <2>1, <2>2, <2>3, <2>4 DEF Fresh
<1>7. ASSUME NEW u \in Thread \ (fin \cup {cur}), HasStack(n.mem, u)
      PROVE  Asleep(n.mem, u, cs[u], ks[u])
  <2>1. CASE u = t
    BY <1>6, <2>1 DEF Asleep
  <2>2. CASE u # t
    <3>1. HasStack(c.mem, u)
      BY <1>3, <1>7, <2>2
    <3>2. Asleep(c.mem, u, cs[u], ks[u])
      BY <3>1 DEF Coherent, Asleep
    <3>3. Words(u) \cup Stack(u) \subseteq DOMAIN c.mem
      BY <1>1, <3>1 DEF Memory
    <3>4. \A a \in Words(u) \cup Stack(u) : n.mem[a] = c.mem[a]
      BY <1>2, <2>2, <3>3
    <3> QED BY <3>2, <3>4, AsleepKept
  <2> QED BY <2>1, <2>2
<1>8. Running(n, cur, cs[cur], ks[cur])
  <2>1. cur # t /\ Stack(cur) \subseteq DOMAIN c.mem
    BY <1>1 DEF Memory
  <2>2. \A e \in 1..Inside(cur) : Slot(cur, e) \in Stack(cur)
    <3>1. Inside(cur) \in 0..17 /\ Inside(cur) + 1 <= Deep(cur) /\ Deep(cur) \in Nat
      BY Depths, InsideDeep DEF Deep
    <3>2. \A e \in 1..Inside(cur) : e \in 1..Deep(cur)
      BY <3>1
    <3> QED BY <3>2, Slots
  <2>3. SameStack(c.mem, n.mem, cur, Inside(cur))
    BY <1>2, <2>1, <2>2 DEF SameStack
  <2>4. InProcedure(n.mem, cur, n.pc, cs[cur])
    BY <2>3, InProcedureKept
  <2> QED BY <2>4 DEF Running
<1>9. /\ HasStack(n.mem, cur) /\ n.wild = FALSE
      /\ \A u \in Thread : ~HasStack(n.mem, u) /\ u \notin fin => cs[u] = <<>>
      /\ \A u \in Thread : cs[u] \in CallsSoFar(u)
      /\ cs = [u \in Thread |-> cs[u]] /\ ks = [u \in Thread |-> ks[u]]
  BY <1>1, <1>3 DEF Coherent
<1> QED BY <1>1, <1>5, <1>7, <1>8, <1>9 DEF Coherent, Asleep

LEMMA ForkKeeps ==
  ASSUME Inv, NEW t \in Thread, Fork(t)
  PROVE  Coherent(cpu', currentThread', threadToBeDestroyed', finished', calls', kept')
<1> DEFINE cur == currentThread
           c == cpu
           n == cpu'
<1>1. /\ c.pc = Func(cur) /\ t # Main /\ t \notin finished /\ ~HasStack(c.mem, t)
      /\ Lays(c, n, t)
      /\ currentThread' = cur /\ threadToBeDestroyed' = threadToBeDestroyed
      /\ finished' = finished /\ calls' = calls /\ kept' = kept
  BY DEF Fork, Forked, HasStack, Lays
<1>2. /\ Hosts /\ Machine(c) /\ cur \in Thread
      /\ Coherent(c, cur, threadToBeDestroyed, finished, calls, kept)
  BY Now
<1>3. c.pc \in Procedure
  BY <1>1, <1>2 DEF Procedure
<1>4. InProcedure(c.mem, cur, c.pc, calls[cur]) /\ c.regs[Host.sp] = SP(cur, Inside(cur))
  BY <1>3, Now, Whereabouts
<1> HIDE DEF cur, c, n
<1>5. /\ Machine(n) /\ n.regs = c.regs /\ n.pc = c.pc /\ n.wild = c.wild
      /\ DOMAIN n.mem = DOMAIN c.mem \cup Stack(t)
      /\ \A a \in DOMAIN n.mem : n.mem[a] = Laid(c.mem, t, a)
  <2>1. HasLaid(c, n, t)
    BY <1>1, <1>2, ForkLays
  <2> QED BY <2>1 DEF HasLaid
<1>6. Coherent(n, cur, threadToBeDestroyed, finished, calls, kept)
  BY <1>1, <1>2, <1>4, <1>5, ForkCoheres
<1> QED BY <1>1, <1>6 DEF n, cur

-----------------------------------------------------------------------------
(* The host never changes: what a definition says of given values holds in the next *)
(* state when it holds in this one.                                                 *)

LEMMA SameHost ==
  ASSUME host' = host
  PROVE  /\ Host' = Host /\ Registers' = Registers /\ CalleeSaved' = CalleeSaved
         /\ Frame' = Frame /\ RootDepth' = RootDepth /\ CallDepth' = CallDepth
<1>1. Host' = Host
  BY Zenon DEF Host
<1>2. Registers' = Registers
  BY <1>1, Zenon DEF Registers
<1>3. CalleeSaved' = CalleeSaved
  BY <1>1, Zenon DEF CalleeSaved
<1>4. Frame' = Frame
  BY <1>1, Zenon DEF Frame
<1>5. RootDepth' = RootDepth /\ CallDepth' = CallDepth
  BY DEF RootDepth, CallDepth
<1> QED BY <1>1, <1>2, <1>3, <1>4, <1>5

LEMMA SameAddresses ==
  ASSUME host' = host
  PROVE  /\ \A t, r : At(t, r)' = At(t, r)
         /\ \A t, d : SP(t, d)' = SP(t, d) /\ Slot(t, d)' = Slot(t, d)
         /\ \A t : /\ Inside(t)' = Inside(t) /\ RunDepth(t)' = RunDepth(t)
                   /\ SwitchDepth(t)' = SwitchDepth(t) /\ Fencepost(t)' = Fencepost(t)
<1>1. ASSUME NEW r PROVE Offset(r)' = Offset(r)
  BY SameHost, Zenon DEF Offset
<1>2. ASSUME NEW t, NEW r PROVE At(t, r)' = At(t, r)
  BY <1>1 DEF At
<1>3. ASSUME NEW t PROVE Base(t)' = Base(t)
  BY DEF Base
<1>4. ASSUME NEW t, NEW d PROVE SP(t, d)' = SP(t, d) /\ Slot(t, d)' = Slot(t, d)
  BY <1>3 DEF SP, Slot
<1>5. ASSUME NEW t PROVE Inside(t)' = Inside(t)
  BY SameHost DEF Inside
<1>6. ASSUME NEW t PROVE RunDepth(t)' = RunDepth(t) /\ SwitchDepth(t)' = SwitchDepth(t)
  BY <1>5 DEF RunDepth, SwitchDepth
<1>7. ASSUME NEW t PROVE Fencepost(t)' = Fencepost(t)
  BY DEF Fencepost
<1> QED BY <1>2, <1>4, <1>5, <1>6, <1>7

LEMMA SameMachine ==
  ASSUME host' = host, NEW c
  PROVE  Machine(c)' <=> Machine(c)
BY SameHost DEF Machine

LEMMA SameMemory ==
  ASSUME host' = host, NEW mem, NEW fin
  PROVE  Memory(mem, fin)' <=> Memory(mem, fin)
BY SameAddresses DEF Memory

LEMMA SameReturns ==
  ASSUME host' = host, NEW mem, NEW t, NEW ret
  PROVE  ReturnsTo(mem, t, ret)' <=> ReturnsTo(mem, t, ret)
BY SameHost, SameAddresses DEF ReturnsTo

LEMMA SameInProcedure ==
  ASSUME host' = host, NEW mem, NEW t, NEW p, NEW called
  PROVE  InProcedure(mem, t, p, called)' <=> InProcedure(mem, t, p, called)
BY SameReturns DEF InProcedure

LEMMA SameInRun ==
  ASSUME host' = host, NEW mem, NEW t, NEW called, NEW k
  PROVE  InRun(mem, t, called, k)' <=> InRun(mem, t, called, k)
BY SameHost, SameAddresses, SameInProcedure DEF InRun

LEMMA SameSuspended ==
  ASSUME host' = host, NEW mem, NEW t, NEW called, NEW k
  PROVE  Suspended(mem, t, called, k)' <=> Suspended(mem, t, called, k)
BY SameHost, SameAddresses, SameInRun DEF Suspended

LEMMA SameFresh ==
  ASSUME host' = host, NEW mem, NEW t, NEW called
  PROVE  Fresh(mem, t, called)' <=> Fresh(mem, t, called)
BY SameHost, SameAddresses DEF Fresh

LEMMA SameInRoot ==
  ASSUME host' = host, NEW c, NEW t, NEW called
  PROVE  InRoot(c, t, called)' <=> InRoot(c, t, called)
BY SameHost, SameAddresses DEF InRoot

LEMMA SameRunning ==
  ASSUME host' = host, NEW c, NEW t, NEW called, NEW k
  PROVE  Running(c, t, called, k)' <=> Running(c, t, called, k)
BY SameHost, SameAddresses, SameInRun, SameInProcedure, SameInRoot DEF Running

LEMMA SameCoherent ==
  ASSUME host' = host, NEW c, NEW cur, NEW tbd, NEW fin, NEW cs, NEW ks
  PROVE  Coherent(c, cur, tbd, fin, cs, ks)' <=> Coherent(c, cur, tbd, fin, cs, ks)
BY SameMachine, SameMemory, SameRunning, SameFresh, SameSuspended DEF Coherent

LEMMA NextInv ==
  ASSUME Inv, host' = host,
         Coherent(cpu', currentThread', threadToBeDestroyed', finished', calls', kept')
  PROVE  Inv'
BY SameCoherent DEF Inv

-----------------------------------------------------------------------------
(* The invariant. *)

LEMMA InitInv == Init => Inv
<1> SUFFICES ASSUME Init PROVE Inv
  OBVIOUS
<1> DEFINE c == cpu
           objects == UNION {Words(t) : t \in Thread}
<1>1. /\ Hosts /\ currentThread = Main /\ threadToBeDestroyed = {} /\ finished = {}
      /\ calls = [t \in Thread |-> <<>>] /\ kept = [t \in Thread |-> <<>>]
      /\ c = [regs |-> [r \in Registers |->
                 IF r = Host.sp THEN <<"stack", Main, StackSize \div 2>> ELSE Junk],
              mem |-> [a \in Stack(Main) \cup objects |-> Junk],
              pc |-> Func(Main), wild |-> FALSE]
  BY DEF Init, Hosts
<1>2. Main \in Thread /\ StackSize \in Nat
  BY SwitchAssumption
<1> HIDE DEF c, objects
<1>3. /\ Machine(c) /\ c.wild = FALSE /\ c.pc = Func(Main)
      /\ DOMAIN c.mem = Stack(Main) \cup objects
      /\ c.regs[Host.sp] = <<"stack", Main, StackSize \div 2>>
  <2>1. Host.sp \in Registers
    BY <1>1, SPIsRegister
  <2>2. /\ c.regs = [r \in Registers |->
             IF r = Host.sp THEN <<"stack", Main, StackSize \div 2>> ELSE Junk]
        /\ c.mem = [a \in Stack(Main) \cup objects |-> Junk]
        /\ c.pc = Func(Main) /\ c.wild = FALSE
        /\ c = [regs |-> c.regs, mem |-> c.mem, pc |-> c.pc, wild |-> c.wild]
    BY <1>1
  <2>3. c.regs = [r \in Registers |-> c.regs[r]] /\ c.mem = [a \in DOMAIN c.mem |-> c.mem[a]]
    BY <2>2
  <2>4. c.regs[Host.sp] = <<"stack", Main, StackSize \div 2>>
    BY <2>1, <2>2
  <2> QED BY <2>2, <2>3, <2>4 DEF Machine
<1>4. \A t \in Thread : HasStack(c.mem, t) => t = Main
  <2> SUFFICES ASSUME NEW t \in Thread, t # Main PROVE ~HasStack(c.mem, t)
    OBVIOUS
  <2>1. <<"stack", t, 0>> \notin Stack(Main)
    BY FirstWord
  <2>2. \A u : <<"stack", t, 0>> \notin Words(u)
    BY <1>1, FirstWord, ObjectWords
  <2> QED BY <1>3, <2>1, <2>2 DEF HasStack, objects
<1>5. Memory(c.mem, {})
  <2>1. \A t \in Thread : Words(t) \subseteq objects
    BY DEF objects
  <2> QED BY <1>3, <1>4, <2>1 DEF Memory
<1>6. Running(c, Main, <<>>, <<>>)
  <2>1. SP(Main, 0) = <<"stack", Main, StackSize \div 2>>
    <3>1. StackSize \div 2 \in Int /\ \A i \in Int : i + 0 = i /\ i - 0 = i
      BY <1>2
    <3>2. Base(Main) = StackSize \div 2
      BY DEF Base
    <3> QED BY <3>1, <3>2 DEF SP
  <2>2. Inside(Main) = 0
    BY DEF Inside
  <2> QED BY <1>3, <2>1, <2>2 DEF Running, InProcedure
<1>7. HasStack(c.mem, Main) /\ \A t \in Thread : calls[t] = <<>> /\ kept[t] = <<>>
  BY <1>1 DEF HasStack
<1>8. \A t \in Thread : calls[t] \in CallsSoFar(t)
  BY <1>7 DEF CallsSoFar
<1>9. /\ calls = [t \in Thread |-> calls[t]] /\ kept = [t \in Thread |-> kept[t]]
  BY <1>1
<1>10. PICK cs, ks : cs = calls /\ ks = kept
  OBVIOUS
<1>11. /\ Running(c, Main, cs[Main], ks[Main]) /\ \A t \in Thread : cs[t] = <<>>
       /\ \A t \in Thread : cs[t] \in CallsSoFar(t)
       /\ cs = [t \in Thread |-> cs[t]] /\ ks = [t \in Thread |-> ks[t]]
  BY <1>2, <1>6, <1>7, <1>8, <1>9, <1>10
<1>12. Coherent(c, Main, {}, {}, cs, ks)
  BY <1>2, <1>3, <1>4, <1>5, <1>7, <1>11 DEF Coherent
<1>13. Coherent(cpu, currentThread, threadToBeDestroyed, finished, calls, kept)
  BY <1>1, <1>10, <1>12 DEF c
<1> QED BY <1>1, <1>13 DEF Inv, Hosts

\* Every action keeps the invariant.
LEMMA StepInv ==
  ASSUME Inv, [Next]_vars
  PROVE  Inv'
<1>1. ASSUME NEW t \in Thread, Fork(t) PROVE Inv'
  <2>1. host' = host
    BY <1>1 DEF Fork
  <2> QED BY <1>1, <2>1, ForkKeeps, NextInv
<1>2. CASE Yield
  <2>1. host' = host
    BY <1>2 DEF Yield, Run
  <2> QED BY <1>2, <2>1, YieldKeeps, NextInv
<1>3. CASE Finish
  <2>1. host' = host
    BY <1>3 DEF Finish, Run
  <2> QED BY <1>3, <2>1, FinishKeeps, NextInv
<1>4. CASE AfterSWITCH
  <2>1. host' = host
    BY <1>4 DEF AfterSWITCH
  <2>2. Coherent(cpu', currentThread', threadToBeDestroyed', finished', calls', kept')
    BY <1>4, AfterSWITCHKeeps
  <2> QED BY <2>1, <2>2, NextInv
<1>5. CASE ThreadRoot
  <2>1. host' = host
    BY <1>5 DEF ThreadRoot, RootCalls
  <2> QED BY <1>5, <2>1, ThreadRootKeeps, NextInv
<1>6. CASE Work
  <2>1. host' = host
    BY <1>6 DEF Work
  <2> QED BY <1>6, <2>1, WorkKeeps, NextInv
<1>7. CASE Return
  <2>1. host' = host
    BY <1>7 DEF Return
  <2> QED BY <1>7, <2>1, ReturnKeeps, NextInv
<1>8. CASE Halted \/ UNCHANGED vars
  <2>1. /\ host' = host /\ cpu' = cpu /\ currentThread' = currentThread
        /\ threadToBeDestroyed' = threadToBeDestroyed /\ finished' = finished
        /\ calls' = calls /\ kept' = kept
    BY <1>8 DEF Halted, vars
  <2>2. Coherent(cpu', currentThread', threadToBeDestroyed', finished', calls', kept')
    BY <2>1 DEF Inv
  <2> QED BY <2>1, <2>2, NextInv
<1> QED BY <1>1, <1>2, <1>3, <1>4, <1>5, <1>6, <1>7, <1>8 DEF Next

\* On every host, in every state, the memory and the registers hold for each thread what
\* Coherent says: an unfinished thread that is not running is as Fork or as SWITCH left
\* it, and the current thread is in ThreadRoot, in a procedure of its own or in Run.
THEOREM InvCorrect == Spec => []Inv
<1>1. Inv /\ [Next]_vars => Inv'
  BY StepInv
<1> QED BY InitInv, <1>1, PTL DEF Spec

-----------------------------------------------------------------------------
(* The properties. *)

LEMMA InvContextKept == Inv => ContextKept
<1> SUFFICES ASSUME Inv, cpu.pc = Code("Run"), NEW r \in DOMAIN kept[currentThread].regs
             PROVE  cpu.regs[r] = kept[currentThread].regs[r]
  BY DEF ContextKept
<1> DEFINE k == kept[currentThread]
<1>1. Running(cpu, currentThread, calls[currentThread], k)
  BY Now
<1> HIDE DEF k
<1>2. /\ InRun(cpu.mem, currentThread, calls[currentThread], k)
      /\ \A q \in {Host.sp} \cup CalleeSaved : cpu.regs[q] = k.regs[q]
  BY <1>1, Whereabouts
<1>3. DOMAIN k.regs = {Host.sp} \cup CalleeSaved
  BY <1>2 DEF InRun
<1> QED BY <1>2, <1>3 DEF k

\* A thread that gets the CPU back finds the stack pointer and the callee-saved
\* registers that it had when it called SWITCH: SWITCH saves and restores every one of
\* them, and no other thread writes in the Thread object in between.
THEOREM ContextKeptCorrect == Spec => []ContextKept
BY InvCorrect, InvContextKept, PTL

LEMMA PrefixOfCalls ==
  ASSUME NEW a, NEW b, NEW c, NEW d, NEW s,
         s \in {<<>>, <<a>>, <<a, b, c>>, <<a, b, c, d>>}
  PROVE  IsPrefix(s, <<a, b, c, d>>)
<1> DEFINE u == <<a, b, c, d>>
<1>1. /\ Program(u) /\ Len(u) = 4
      /\ u[1] = a /\ u[2] = b /\ u[3] = c /\ u[4] = d
  BY DEF Program
<1>2. PICK z : z = s
  OBVIOUS
<1>3. Len(z) \in 0..4 /\ \A i \in 1..Len(z) : z[i] = u[i]
  <2>1. CASE s = <<>>
    BY <1>2, <2>1
  <2>2. CASE s = <<a>>
    BY <1>2, <2>2
  <2>3. CASE s = <<a, b, c>>
    BY <1>2, <2>3
  <2>4. CASE s = <<a, b, c, d>>
    BY <1>2, <2>4
  <2> QED BY <2>1, <2>2, <2>3, <2>4
<1> HIDE DEF u
<1>4. SubSeq(z, 1, Len(z)) = SubSeq(u, 1, Len(z))
  <2>1. \A i \in 1..Len(z) : i \in 1..(1 + Len(z) - 1)
    BY <1>3
  <2> QED BY <1>1, <1>3, <2>1
<1>5. IsPrefix(z, u)
  BY <1>1, <1>3, <1>4 DEF IsPrefix
<1> QED BY <1>2, <1>5 DEF u

LEMMA InvEntersProcedure == Inv => EntersProcedure
<1> SUFFICES ASSUME Inv, NEW t \in Thread
             PROVE  IsPrefix(calls[t],
                      <<Code("InterruptEnable"), Func(t), Arg(t), Code("ThreadFinish")>>)
  BY DEF EntersProcedure
<1>1. calls[t] \in CallsSoFar(t)
  BY Now
<1>2. calls[t] \in {<<>>, <<IE>>, <<IE, Func(t), Arg(t)>>, <<IE, Func(t), Arg(t), TF>>}
  BY <1>1 DEF CallsSoFar
<1>3. IsPrefix(calls[t], <<IE, Func(t), Arg(t), TF>>)
  BY <1>2, PrefixOfCalls
<1> QED BY <1>3 DEF IE, TF

\* ThreadRoot enables interrupts, then calls the procedure that the thread was forked
\* with, with its argument, then Finish, however often the thread loses the CPU in
\* between.
THEOREM EntersProcedureCorrect == Spec => []EntersProcedure
BY InvCorrect, InvEntersProcedure, PTL

\* The stack pointer is on the current thread's stack.
LEMMA RunningInStack ==
  ASSUME Hosts, NEW c, NEW t, NEW called, NEW k, Running(c, t, called, k)
  PROVE  c.regs[Host.sp] \in Stack(t)
<1>1. /\ RunDepth(t) \in 0..Deep(t) /\ Inside(t) \in 0..Deep(t)
      /\ t # Main => 0 \in 0..Deep(t) /\ RootDepth \in 0..Deep(t)
  <2>1. /\ Inside(t) \in 0..17 /\ RunDepth(t) \in Nat /\ SwitchDepth(t) \in Nat
        /\ Inside(t) < RunDepth(t) /\ RunDepth(t) <= SwitchDepth(t)
        /\ SwitchDepth(t) <= Deep(t) /\ Deep(t) \in Nat
    BY Depths DEF Deep
  <2>2. t # Main => Deep(t) = 18 /\ RootDepth \in 0..2
    BY Depths DEF RootDepth, Deep
  <2> QED BY <2>1, <2>2
<1>2. \A d \in 0..Deep(t) : SP(t, d) \in Stack(t)
  BY Slots
<1>3. /\ SP(t, RunDepth(t)) \in Stack(t) /\ SP(t, Inside(t)) \in Stack(t)
      /\ t # Main => SP(t, 0) \in Stack(t) /\ SP(t, RootDepth) \in Stack(t)
  BY <1>1, <1>2
<1>4. CASE /\ InRun(c.mem, t, called, k)
           /\ \A r \in {Host.sp} \cup CalleeSaved : c.regs[r] = k.regs[r]
  BY <1>3, <1>4 DEF InRun
<1>5. CASE c.regs[Host.sp] = SP(t, Inside(t))
  BY <1>3, <1>5
<1>6. CASE t # Main /\ InRoot(c, t, called)
  BY <1>3, <1>6 DEF InRoot
<1> QED BY <1>4, <1>5, <1>6 DEF Running

LEMMA InvInBounds == Inv => InBounds
<1> SUFFICES ASSUME Inv PROVE InBounds
  OBVIOUS
<1>1. /\ Hosts /\ cpu.wild = FALSE /\ Memory(cpu.mem, finished)
      /\ Running(cpu, currentThread, calls[currentThread], kept[currentThread])
  BY Now
<1>2. cpu.regs[Host.sp] \in Stack(currentThread)
  BY <1>1, RunningInStack
<1>3. \A t \in Thread : CheckOverflow(t)
  BY <1>1 DEF Memory, HasStack, CheckOverflow, Forked
<1> QED BY <1>1, <1>2, <1>3 DEF InBounds

\* No word is written outside the live Thread objects and stacks, the stack in use is
\* the current thread's, and the fenceposts stand: the 386 writes the return address of
\* SWITCH a word above the stack pointer, where a new stack has words to spare.
THEOREM InBoundsCorrect == Spec => []InBounds
BY InvCorrect, InvInBounds, PTL

LEMMA StepReturnsToCaller ==
  ASSUME Inv, [Next]_vars, cpu.pc = Code("Run"), ~UNCHANGED vars
  PROVE  cpu'.pc = kept[currentThread].pc
<1>1. /\ \A t : cpu.pc # Func(t) /\ cpu.pc # IE /\ cpu.pc # TF
      /\ cpu.pc \notin {Code("ThreadRoot"), Code("started"), Code("returned")}
  BY Codes
<1>2. cpu.pc \notin Procedure
  BY <1>1 DEF Procedure, IE, TF
<1>3. ~Yield /\ ~Finish /\ ~Return
  BY <1>2 DEF Yield, Finish, Return, Run
<1>4. ~ThreadRoot
  BY <1>1 DEF ThreadRoot
<1>5. ~Work /\ \A t : ~Fork(t)
  BY <1>1 DEF Work, Fork
<1>6. ~Halted
  BY <1>1 DEF Halted, TF
<1>7. AfterSWITCH
  BY <1>3, <1>4, <1>5, <1>6 DEF Next
<1> QED BY <1>7, AfterSWITCHKeeps

\* Run returns, after SWITCH, into the procedure that gave up the CPU: the return
\* address on the thread's stack outlives the writes of StackAllocate, of SWITCH and of
\* the threads that ran in between, and the delete of a finished one.
THEOREM ReturnsToCallerCorrect == Spec => ReturnsToCaller
<1>1. Inv /\ [Next]_vars =>
        [cpu.pc = Code("Run") => cpu'.pc = kept[currentThread].pc]_vars
  BY StepReturnsToCaller
<1> QED BY <1>1, InvCorrect, PTL DEF Spec, ReturnsToCaller
=============================================================================
