-------------------------- MODULE KernelEntryProofs --------------------------
(***************************************************************************)
(* Proofs about KernelEntry, for any number of CPUs and States.            *)
(***************************************************************************)
EXTENDS KernelEntry, TLAPS

-----------------------------------------------------------------------------
(* The inductive invariant.                                                *)

Pcs == {"boot", "sched", "resume", "resumeIret", "user", "syscall", "syscallStack",
        "handler", "return", "sysret", "kernel", "isr", "routine", "routineDone",
        "iret", "panic", "lost"}

Stacks   == Cpus \union States
Contexts == [pc : Pcs, rsp : Stacks \union {UserStack}, critical : BOOLEAN]
Frames   == [vector : Vectors, words : {5, 6}, user : BOOLEAN, swapped : BOOLEAN,
             context : Contexts]

Registers == [pc : Pcs, rsp : Stacks \union {UserStack}, critical : BOOLEAN,
              gs : Cpus \union {UserGs}, alt : Cpus \union {UserGs},
              top : States \union {NoState}, state : States \union {NoState}]

TypeInv ==
    /\ cpu \in [Cpus -> Registers]
    /\ stack \in [Stacks -> Seq(Frames)]
    /\ state \in [States -> [life : {"none", "ready", "running"}, context : Contexts]]
    /\ Nmi \in routines
    /\ lstar \subseteq Cpus
    /\ ist = IF lstar = {} THEN {} ELSE {Nmi}

\* A stack with one frame on it, and that frame.
One(x) == Len(stack[x]) = 1
Bottom(x) == stack[x][1]

\* A frame of an interrupt or exception other than an NMI on stack x: what it
\* interrupted ran on x itself, or was user code, and its words are what the
\* exit code expects.
FrameOf(x, f, pcs) ==
    /\ f.vector # Nmi
    /\ f.words = Pushed(f.vector)
    /\ f.context.pc \in pcs
    /\ f.user = (f.context.pc = "user")
    /\ f.context.rsp = IF f.user THEN UserStack ELSE x

InState == {"user", "handler", "kernel"}

\* What a State that is saved continues with.
SavedOk(s) ==
    LET k == state[s].context IN
    /\ k.pc \in {"user", "handler", "kernel", "routine"}
    /\ k.rsp = IF k.pc = "user" THEN UserStack ELSE s
    /\ k.pc # "routine" => stack[s] = <<>>
    /\ k.pc = "routine" => /\ One(s)
                           /\ FrameOf(s, Bottom(s), InState)
                           /\ Bottom(s).swapped = Bottom(s).user

\* What a CPU does apart from an NMI that it handles: between two States, for its
\* State, or for an interrupt.  g is the base of GS.
Between(c, pc, rsp, g) ==
    /\ pc \in {"boot", "sched", "resume", "resumeIret"}
    /\ rsp = c
    /\ stack[c] = <<>>
    /\ pc \in {"boot", "sched"} => cpu[c].state = NoState /\ g = c
    /\ pc \in {"resume", "resumeIret"} =>
          /\ cpu[c].state \in States /\ SavedOk(cpu[c].state)
          /\ g = IF pc = "resumeIret" /\ state[cpu[c].state].context.pc = "user"
                 THEN UserGs ELSE c

ForState(c, pc, rsp, g) ==
    /\ pc \in {"user", "syscall", "syscallStack", "handler", "return", "sysret", "kernel",
               "lost"}
    /\ cpu[c].state \in States
    /\ stack[cpu[c].state] = <<>>
    /\ rsp = IF pc \in {"handler", "kernel"} THEN cpu[c].state ELSE UserStack
    /\ g = IF pc \in {"user", "syscall", "sysret", "lost"} THEN UserGs ELSE c

ForInterrupt(c, pc, rsp, g) ==
    /\ pc \in {"isr", "routine", "routineDone", "iret", "panic"}
    /\ rsp = IF cpu[c].state = NoState THEN c ELSE cpu[c].state
    /\ One(rsp)
    /\ FrameOf(rsp, Bottom(rsp), IF cpu[c].state = NoState THEN {"sched"} ELSE InState)
    /\ pc = "isr" => ~Bottom(rsp).swapped
    /\ pc # "isr" => Bottom(rsp).swapped = Bottom(rsp).user
    /\ g = IF pc \in {"isr", "iret"} /\ Bottom(rsp).user THEN UserGs ELSE c

Doing(c, pc, rsp, g) ==
    Between(c, pc, rsp, g) \/ ForState(c, pc, rsp, g) \/ ForInterrupt(c, pc, rsp, g)

\* An NMI runs alone on the stack of the CPU, over what the State did.
InNmi(c) == cpu[c].rsp = c /\ One(c) /\ Bottom(c).vector = Nmi

NmiOk(c) ==
    LET f == Bottom(c) IN
    /\ cpu[c].pc \in {"isr", "routine", "routineDone", "iret"}
    /\ cpu[c].state \in States
    /\ f.words = 5
    /\ f.context.pc # "lost"
    /\ cpu[c].pc = "isr" => ~f.swapped
    /\ cpu[c].pc \in {"routine", "routineDone"} => cpu[c].gs = c
    /\ Doing(c, f.context.pc, f.context.rsp,
             IF cpu[c].pc \in {"routine", "routineDone"} /\ f.swapped
             THEN cpu[c].alt ELSE cpu[c].gs)

\* One of the two bases is the data of the CPU, the other that of user code.
GsPair(c, g, a) == \/ g = c /\ a = UserGs
                   \/ g = UserGs /\ a = c

CpuInv(c) ==
    /\ GsPair(c, cpu[c].gs, cpu[c].alt)
    /\ cpu[c].pc # "boot" => c \in lstar
    /\ cpu[c].state # NoState => /\ state[cpu[c].state].life = "running"
                                 /\ cpu[c].top = cpu[c].state
    /\ IF InNmi(c) THEN NmiOk(c) ELSE Doing(c, cpu[c].pc, cpu[c].rsp, cpu[c].gs)

\* A State runs on one CPU, and one that waits can be continued.
StateInv ==
    /\ \A s \in States : state[s].life = "ready" => SavedOk(s)
    /\ \A c, d \in Cpus : cpu[c].state # NoState /\ cpu[c].state = cpu[d].state => c = d

Inv == TypeInv /\ StateInv /\ \A c \in Cpus : CpuInv(c)

-----------------------------------------------------------------------------
(* Lemmas.                                                                 *)

\* The element of a sequence of one.
LEMMA OneElement ==
    ASSUME NEW S, NEW q \in Seq(S), Len(q) = 1
    PROVE  q[1] \in S
  OBVIOUS

\* What Append and Pop leave of the short stacks of this module.
LEMMA ShortStack ==
    ASSUME NEW S, NEW q \in Seq(S), NEW f \in S
    PROVE  /\ <<f>> \in Seq(S) /\ Len(<<f>>) = 1 /\ <<f>>[1] = f
           /\ q = <<>> => Append(q, f) = <<f>>
           /\ Len(q) = 1 => SubSeq(q, 1, Len(q) - 1) = <<>>
           /\ Len(q) = 1 => q # <<>> /\ q[1] \in S
<1>1. <<f>> \in Seq(S) /\ Len(<<f>>) = 1 /\ <<f>>[1] = f
  OBVIOUS
<1>2. q = <<>> => Append(q, f) = <<f>>
  OBVIOUS
<1>3. Len(q) = 1 => q # <<>> /\ q[1] \in S
  <2>1. q = <<>> => Len(q) = 0
    OBVIOUS
  <2>2. QED
    BY <2>1, OneElement
<1>4. Len(q) = 1 => SubSeq(q, 1, Len(q) - 1) = <<>>
  OBVIOUS
<1>5. QED
  BY <1>1, <1>2, <1>3, <1>4

\* What a CPU does is untouched by a step that leaves its registers, its stack
\* and its State alone.
LEMMA OtherCpu ==
    ASSUME Inv, NEW d \in Cpus,
           cpu'[d] = cpu[d], stack'[d] = stack[d], d \in lstar => d \in lstar',
           cpu[d].state \in States => /\ stack'[cpu[d].state] = stack[cpu[d].state]
                                      /\ state'[cpu[d].state] = state[cpu[d].state]
    PROVE  CpuInv(d)'
<1> USE DEF Inv, CpuInv
<1>1. InNmi(d)' = InNmi(d)
  BY DEF InNmi, One, Bottom
<1>2. GsPair(d, cpu[d].gs, cpu[d].alt)'
  BY DEF GsPair
<1>3. cpu[d].state \in States \union {NoState}
  BY DEF TypeInv, Registers
<1>4. cpu[d].state \in States => SavedOk(cpu[d].state)' = SavedOk(cpu[d].state)
  BY DEF SavedOk, One, Bottom
<1>5. ASSUME NEW pc, NEW rsp, NEW g, Doing(d, pc, rsp, g)
      PROVE  Doing(d, pc, rsp, g)'
  <2>1. Between(d, pc, rsp, g) => Between(d, pc, rsp, g)'
    BY <1>3, <1>4 DEF Between
  <2>2. ForState(d, pc, rsp, g) => ForState(d, pc, rsp, g)'
    BY <1>3 DEF ForState
  <2>3. ForInterrupt(d, pc, rsp, g) => ForInterrupt(d, pc, rsp, g)'
    BY <1>3 DEF ForInterrupt, One, Bottom
  <2>4. QED
    BY <1>5, <2>1, <2>2, <2>3 DEF Doing
<1>6. NmiOk(d) => NmiOk(d)'
  BY <1>5 DEF NmiOk, Bottom
<1>7. QED
  BY <1>1, <1>2, <1>3, <1>5, <1>6

\* A step that sets registers of one CPU, and otherwise at most its own stack
\* and that of its State, disturbs no other CPU and no State that waits.
LEMMA Local ==
    ASSUME Inv, NEW c \in Cpus, NEW r \in Registers,
           cpu' = [cpu EXCEPT ![c] = r],
           r.state = cpu[c].state, r.top = cpu[c].top,
           r.pc # "boot" => c \in lstar',
           GsPair(c, r.gs, r.alt),
           stack' \in [Stacks -> Seq(Frames)],
           \A x \in Stacks \ {c, cpu[c].state} : stack'[x] = stack[x],
           UNCHANGED <<state, routines>>,
           lstar \subseteq lstar', lstar' \subseteq Cpus,
           ist' = IF lstar' = {} THEN {} ELSE {Nmi},
           IF InNmi(c)' THEN NmiOk(c)' ELSE Doing(c, r.pc, r.rsp, r.gs)'
    PROVE  Inv'
<1>1. cpu' \in [Cpus -> Registers] /\ cpu'[c] = r /\ \A d \in Cpus \ {c} : cpu'[d] = cpu[d]
  BY DEF Inv, TypeInv
<1>2. TypeInv'
  BY <1>1 DEF Inv, TypeInv
<1>3. ASSUME NEW d \in Cpus \ {c}
      PROVE  CpuInv(d)'
  <2>1. cpu[d].state \in States => cpu[d].state # cpu[c].state
    BY <1>3, StackAssumption DEF Inv, StateInv
  <2>2. d # c /\ d # cpu[c].state
    BY <1>3, StackAssumption DEF Inv, TypeInv, Registers
  <2>3. stack'[d] = stack[d]
    BY <2>2 DEF Stacks
  <2>4. cpu[d].state \in States => stack'[cpu[d].state] = stack[cpu[d].state]
    BY <2>1, StackAssumption DEF Stacks
  <2>5. QED
    BY <1>1, <1>3, <2>3, <2>4, OtherCpu
<1>4. ASSUME NEW s \in States, state'[s].life = "ready"
      PROVE  SavedOk(s)'
  <2>1. s # cpu[c].state /\ s # c
    BY <1>4, StackAssumption DEF Inv, CpuInv
  <2>2. stack'[s] = stack[s]
    BY <2>1 DEF Stacks
  <2>3. SavedOk(s)
    BY <1>4 DEF Inv, StateInv
  <2>4. QED
    BY <2>2, <2>3 DEF SavedOk, One, Bottom
<1>5. \A d, e \in Cpus : cpu'[d].state # NoState /\ cpu'[d].state = cpu'[e].state => d = e
  BY <1>1 DEF Inv, StateInv
<1>6. CpuInv(c)'
  BY <1>1 DEF CpuInv, Inv
<1>7. QED
  BY <1>1, <1>2, <1>3, <1>4, <1>5, <1>6 DEF Inv, StateInv

\* Where a CPU that runs for its State is, and that no NMI is handled there.
LEMMA InForState ==
    ASSUME Inv, NEW c \in Cpus,
           cpu[c].pc \in {"user", "syscall", "syscallStack", "handler", "return",
                          "sysret", "kernel", "lost"}
    PROVE  /\ ~InNmi(c)
           /\ ForState(c, cpu[c].pc, cpu[c].rsp, cpu[c].gs)
           /\ GsPair(c, cpu[c].gs, cpu[c].alt) /\ c \in lstar
           /\ state[cpu[c].state].life = "running" /\ cpu[c].top = cpu[c].state
<1>1. CpuInv(c)
  BY DEF Inv
<1>2. ~InNmi(c)
  BY <1>1 DEF CpuInv, NmiOk
<1>3. ForState(c, cpu[c].pc, cpu[c].rsp, cpu[c].gs)
  BY <1>1, <1>2 DEF CpuInv, Doing, Between, ForInterrupt
<1>4. QED
  BY <1>1, <1>2, <1>3, StackAssumption DEF CpuInv, ForState

\* A step that stays with the State, on the stack that goes with where it is.
LEMMA StaysForState ==
    ASSUME Inv, NEW c \in Cpus, NEW r \in Registers,
           cpu' = [cpu EXCEPT ![c] = r],
           c \in lstar, r.state \in States,
           r.state = cpu[c].state, r.top = cpu[c].top,
           GsPair(c, r.gs, r.alt),
           stack' \in [Stacks -> Seq(Frames)], stack'[r.state] = <<>>,
           \A x \in Stacks \ {c, cpu[c].state} : stack'[x] = stack[x],
           UNCHANGED <<state, ist, lstar, routines>>,
           r.pc \in {"user", "syscall", "syscallStack", "handler", "return", "sysret", "kernel",
                     "lost"},
           r.rsp = IF r.pc \in {"handler", "kernel"} THEN r.state ELSE UserStack,
           r.gs = IF r.pc \in {"user", "syscall", "sysret", "lost"} THEN UserGs ELSE c
    PROVE  Inv'
<1>1. cpu'[c] = r
  BY DEF Inv, TypeInv
<1>2. ForState(c, r.pc, r.rsp, r.gs)'
  BY <1>1 DEF ForState
<1>3. r.rsp # c
  BY StackAssumption
<1>4. ~InNmi(c)'
  BY <1>1, <1>3 DEF InNmi
<1>5. ist' = IF lstar' = {} THEN {} ELSE {Nmi}
  BY DEF Inv, TypeInv
<1>6. Doing(c, r.pc, r.rsp, r.gs)'
  BY <1>2 DEF Doing
<1>7. lstar \subseteq lstar' /\ lstar' \subseteq Cpus
  BY DEF Inv, TypeInv
<1>8. QED
  BY <1>4, <1>5, <1>6, <1>7, Local

\* SYSCALL and its swapgs.
LEMMA SyscallSteps ==
    ASSUME Inv, NEW c \in Cpus, Syscall(c) \/ SyscallSwap(c)
    PROVE  Inv'
<1>1. cpu[c] \in Registers /\ stack \in [Stacks -> Seq(Frames)]
  BY DEF Inv, TypeInv
<1>2. CASE Syscall(c)
  <2> DEFINE r == [cpu[c] EXCEPT !.pc = "syscall", !.critical = TRUE]
  <2>1. ForState(c, "user", cpu[c].rsp, cpu[c].gs) /\ c \in lstar
        /\ GsPair(c, cpu[c].gs, cpu[c].alt) /\ cpu[c].top = cpu[c].state
    BY <1>2, InForState DEF Syscall
  <2>2. "syscall" \in Pcs
    BY DEF Pcs
  <2>3. r \in Registers /\ cpu' = [cpu EXCEPT ![c] = r]
    BY <1>1, <1>2, <2>1, <2>2 DEF Syscall, Registers
  <2>4. /\ r.pc = "syscall" /\ r.state = cpu[c].state /\ r.top = cpu[c].top
        /\ r.rsp = IF r.pc \in {"handler", "kernel"} THEN r.state ELSE UserStack
        /\ r.gs = IF r.pc \in {"user", "syscall", "sysret", "lost"} THEN UserGs ELSE c
        /\ GsPair(c, r.gs, r.alt)
    BY <1>1, <2>1, GsAssumption DEF Registers, ForState, GsPair, UserGs
  <2> HIDE DEF r
  <2>5. /\ stack' = stack /\ UNCHANGED <<state, ist, lstar, routines>>
        /\ r.state \in States /\ stack'[r.state] = <<>>
    BY <1>2, <2>1, <2>4 DEF Syscall, ForState
  <2>6. QED
    BY <1>1, <2>1, <2>3, <2>4, <2>5, StaysForState
<1>3. CASE SyscallSwap(c)
  <2> DEFINE r == [cpu[c] EXCEPT !.pc = "syscallStack", !.gs = cpu[c].alt, !.alt = cpu[c].gs]
  <2>1. ForState(c, "syscall", cpu[c].rsp, cpu[c].gs) /\ c \in lstar
        /\ GsPair(c, cpu[c].gs, cpu[c].alt) /\ cpu[c].top = cpu[c].state
    BY <1>3, InForState DEF SyscallSwap
  <2>2. "syscallStack" \in Pcs
    BY DEF Pcs
  <2>3. r \in Registers /\ cpu' = [cpu EXCEPT ![c] = r]
    BY <1>1, <1>3, <2>1, <2>2 DEF SyscallSwap, Registers, Swapgs
  <2>4. /\ r.pc = "syscallStack" /\ r.state = cpu[c].state /\ r.top = cpu[c].top
        /\ r.rsp = IF r.pc \in {"handler", "kernel"} THEN r.state ELSE UserStack
        /\ r.gs = IF r.pc \in {"user", "syscall", "sysret", "lost"} THEN UserGs ELSE c
        /\ GsPair(c, r.gs, r.alt)
    BY <1>1, <2>1, GsAssumption DEF Registers, ForState, GsPair, UserGs
  <2> HIDE DEF r
  <2>5. /\ stack' = stack /\ UNCHANGED <<state, ist, lstar, routines>>
        /\ r.state \in States /\ stack'[r.state] = <<>>
    BY <1>3, <2>1, <2>4 DEF SyscallSwap, ForState
  <2>6. QED
    BY <1>1, <2>1, <2>3, <2>4, <2>5, StaysForState
<1>4. QED
  BY <1>2, <1>3

\* The way back to user code.
LEMMA ReturnSteps ==
    ASSUME Inv, NEW c \in Cpus, HandlerReturns(c) \/ ReturnSwap(c) \/ Sysret(c)
    PROVE  Inv'
<1>1. cpu[c] \in Registers /\ stack \in [Stacks -> Seq(Frames)]
  BY DEF Inv, TypeInv
<1>2. CASE HandlerReturns(c)
  <2> DEFINE r == [cpu[c] EXCEPT !.pc = "return", !.rsp = UserStack]
  <2>1. ForState(c, "handler", cpu[c].rsp, cpu[c].gs) /\ c \in lstar
        /\ GsPair(c, cpu[c].gs, cpu[c].alt) /\ cpu[c].top = cpu[c].state
    BY <1>2, InForState DEF HandlerReturns
  <2>2. "return" \in Pcs
    BY DEF Pcs
  <2>3. r \in Registers /\ cpu' = [cpu EXCEPT ![c] = r]
    BY <1>1, <1>2, <2>1, <2>2 DEF HandlerReturns, Registers
  <2>4. /\ r.pc = "return" /\ r.state = cpu[c].state /\ r.top = cpu[c].top
        /\ r.rsp = IF r.pc \in {"handler", "kernel"} THEN r.state ELSE UserStack
        /\ r.gs = IF r.pc \in {"user", "syscall", "sysret", "lost"} THEN UserGs ELSE c
        /\ GsPair(c, r.gs, r.alt)
    BY <1>1, <2>1, GsAssumption DEF Registers, ForState, GsPair, UserGs
  <2> HIDE DEF r
  <2>5. /\ stack' = stack /\ UNCHANGED <<state, ist, lstar, routines>>
        /\ r.state \in States /\ stack'[r.state] = <<>>
    BY <1>2, <2>1, <2>4 DEF HandlerReturns, ForState
  <2>6. QED
    BY <1>1, <2>1, <2>3, <2>4, <2>5, StaysForState
<1>3. CASE ReturnSwap(c)
  <2> DEFINE r == [cpu[c] EXCEPT !.pc = "sysret", !.gs = cpu[c].alt, !.alt = cpu[c].gs]
  <2>1. ForState(c, "return", cpu[c].rsp, cpu[c].gs) /\ c \in lstar
        /\ GsPair(c, cpu[c].gs, cpu[c].alt) /\ cpu[c].top = cpu[c].state
    BY <1>3, InForState DEF ReturnSwap
  <2>2. "sysret" \in Pcs
    BY DEF Pcs
  <2>3. r \in Registers /\ cpu' = [cpu EXCEPT ![c] = r]
    BY <1>1, <1>3, <2>1, <2>2 DEF ReturnSwap, Registers, Swapgs
  <2>4. /\ r.pc = "sysret" /\ r.state = cpu[c].state /\ r.top = cpu[c].top
        /\ r.rsp = IF r.pc \in {"handler", "kernel"} THEN r.state ELSE UserStack
        /\ r.gs = IF r.pc \in {"user", "syscall", "sysret", "lost"} THEN UserGs ELSE c
        /\ GsPair(c, r.gs, r.alt)
    BY <1>1, <2>1, GsAssumption DEF Registers, ForState, GsPair, UserGs
  <2> HIDE DEF r
  <2>5. /\ stack' = stack /\ UNCHANGED <<state, ist, lstar, routines>>
        /\ r.state \in States /\ stack'[r.state] = <<>>
    BY <1>3, <2>1, <2>4 DEF ReturnSwap, ForState
  <2>6. QED
    BY <1>1, <2>1, <2>3, <2>4, <2>5, StaysForState
<1>4. CASE Sysret(c)
  <2> DEFINE r == [cpu[c] EXCEPT !.pc = "user", !.critical = FALSE]
  <2>1. ForState(c, "sysret", cpu[c].rsp, cpu[c].gs) /\ c \in lstar
        /\ GsPair(c, cpu[c].gs, cpu[c].alt) /\ cpu[c].top = cpu[c].state
    BY <1>4, InForState DEF Sysret
  <2>2. "user" \in Pcs
    BY DEF Pcs
  <2>3. r \in Registers /\ cpu' = [cpu EXCEPT ![c] = r]
    BY <1>1, <1>4, <2>1, <2>2 DEF Sysret, Registers
  <2>4. /\ r.pc = "user" /\ r.state = cpu[c].state /\ r.top = cpu[c].top
        /\ r.rsp = IF r.pc \in {"handler", "kernel"} THEN r.state ELSE UserStack
        /\ r.gs = IF r.pc \in {"user", "syscall", "sysret", "lost"} THEN UserGs ELSE c
        /\ GsPair(c, r.gs, r.alt)
    BY <1>1, <2>1, GsAssumption DEF Registers, ForState, GsPair, UserGs
  <2> HIDE DEF r
  <2>5. /\ stack' = stack /\ UNCHANGED <<state, ist, lstar, routines>>
        /\ r.state \in States /\ stack'[r.state] = <<>>
    BY <1>4, <2>1, <2>4 DEF Sysret, ForState
  <2>6. QED
    BY <1>1, <2>1, <2>3, <2>4, <2>5, StaysForState
<1>5. QED
  BY <1>2, <1>3, <1>4


\* SYSCALL takes the stack of the State, from its top.
LEMMA SyscallStackStep ==
    ASSUME Inv, NEW c \in Cpus, SyscallStack(c)
    PROVE  Inv'
<1> DEFINE r == [cpu[c] EXCEPT !.pc = "handler", !.rsp = cpu[c].top]
<1>1. cpu[c] \in Registers /\ stack \in [Stacks -> Seq(Frames)]
  BY DEF Inv, TypeInv
<1>2. ForState(c, "syscallStack", cpu[c].rsp, cpu[c].gs) /\ c \in lstar
      /\ GsPair(c, cpu[c].gs, cpu[c].alt) /\ cpu[c].top = cpu[c].state
  BY InForState DEF SyscallStack
<1>3. cpu[c].gs = c /\ cpu[c].state \in States
  BY <1>2 DEF ForState
<1>4. "handler" \in Pcs /\ cpu[c].top \in Stacks
  BY <1>2, <1>3 DEF Pcs, Stacks
<1>5. r \in Registers /\ cpu' = [cpu EXCEPT ![c] = r]
  BY <1>1, <1>3, <1>4 DEF SyscallStack, Registers
<1>6. /\ r.pc = "handler" /\ r.state = cpu[c].state /\ r.top = cpu[c].top
      /\ r.rsp = r.state /\ r.gs = c /\ GsPair(c, r.gs, r.alt)
  BY <1>1, <1>2, <1>3 DEF Registers, GsPair
<1> HIDE DEF r
<1>7. stack' = [stack EXCEPT ![r.state] = <<>>] /\ UNCHANGED <<state, ist, lstar, routines>>
  BY <1>2, <1>3, <1>6 DEF SyscallStack
<1>8. r.state \in Stacks /\ <<>> \in Seq(Frames)
  BY <1>3, <1>6 DEF Stacks
<1>9. stack' \in [Stacks -> Seq(Frames)] /\ stack'[r.state] = <<>>
      /\ \A x \in Stacks \ {c, cpu[c].state} : stack'[x] = stack[x]
  BY <1>1, <1>6, <1>7, <1>8
<1>10. QED
  BY <1>2, <1>3, <1>5, <1>6, <1>7, <1>9, StaysForState

\* Where a CPU between two States is, and that no NMI is handled there.
LEMMA InBetween ==
    ASSUME Inv, NEW c \in Cpus, cpu[c].pc \in {"boot", "sched", "resume", "resumeIret"}
    PROVE  /\ ~InNmi(c)
           /\ Between(c, cpu[c].pc, cpu[c].rsp, cpu[c].gs)
           /\ GsPair(c, cpu[c].gs, cpu[c].alt)
           /\ cpu[c].pc # "boot" => c \in lstar
           /\ cpu[c].pc \in {"resume", "resumeIret"} =>
                  state[cpu[c].state].life = "running" /\ cpu[c].top = cpu[c].state
<1>1. CpuInv(c)
  BY DEF Inv
<1>2. ~InNmi(c)
  BY <1>1 DEF CpuInv, NmiOk
<1>3. Between(c, cpu[c].pc, cpu[c].rsp, cpu[c].gs)
  BY <1>1, <1>2 DEF CpuInv, Doing, ForState, ForInterrupt
<1>4. QED
  BY <1>1, <1>2, <1>3, StackAssumption DEF CpuInv, Between

\* A step between two States, with the stack of the CPU empty before and after.
LEMMA StaysBetween ==
    ASSUME Inv, NEW c \in Cpus, NEW r \in Registers,
           cpu' = [cpu EXCEPT ![c] = r],
           r.state = cpu[c].state, r.top = cpu[c].top,
           r.pc # "boot" => c \in lstar',
           GsPair(c, r.gs, r.alt),
           UNCHANGED <<stack, state, routines>>,
           lstar \subseteq lstar', lstar' \subseteq Cpus,
           ist' = IF lstar' = {} THEN {} ELSE {Nmi},
           Between(c, r.pc, r.rsp, r.gs)
    PROVE  Inv'
<1>1. cpu'[c] = r /\ stack \in [Stacks -> Seq(Frames)] /\ c \in Stacks
  BY DEF Inv, TypeInv, Stacks
<1>2. SavedOk(r.state) => SavedOk(r.state)'
  BY DEF SavedOk, One, Bottom
<1>3. Between(c, r.pc, r.rsp, r.gs)'
  BY <1>1, <1>2 DEF Between
<1>4. stack'[c] = <<>>
  BY DEF Between
<1>5. ~InNmi(c)'
  BY <1>4 DEF InNmi, One
<1>6. QED
  BY <1>1, <1>3, <1>5, Local DEF Doing

\* Critical sections, the registers for system calls and RunSync.
LEMMA KernelSteps ==
    ASSUME Inv, NEW c \in Cpus,
           (\E b \in BOOLEAN : SetCritical(c, b)) \/ SetCpuRegisters(c) \/ RunSync(c)
    PROVE  Inv'
<1>1. cpu[c] \in Registers /\ stack \in [Stacks -> Seq(Frames)]
      /\ lstar \subseteq Cpus /\ ist = IF lstar = {} THEN {} ELSE {Nmi}
  BY DEF Inv, TypeInv
<1>2. ASSUME NEW b \in BOOLEAN, SetCritical(c, b)
      PROVE  Inv'
  <2> DEFINE r == [cpu[c] EXCEPT !.critical = b]
  <2>1. r \in Registers /\ cpu' = [cpu EXCEPT ![c] = r]
    BY <1>1, <1>2 DEF SetCritical, Registers
  <2>2. /\ r.pc = cpu[c].pc /\ r.rsp = cpu[c].rsp /\ r.gs = cpu[c].gs /\ r.alt = cpu[c].alt
        /\ r.state = cpu[c].state /\ r.top = cpu[c].top
    BY <1>1 DEF Registers
  <2> HIDE DEF r
  <2>3. UNCHANGED <<stack, state, ist, lstar, routines>>
    BY <1>2 DEF SetCritical
  <2>4. CASE cpu[c].pc = "sched"
    BY <1>1, <2>1, <2>2, <2>3, <2>4, InBetween, StaysBetween
  <2>5. CASE cpu[c].pc \in {"handler", "kernel"}
    <3>1. ForState(c, cpu[c].pc, cpu[c].rsp, cpu[c].gs) /\ c \in lstar
          /\ GsPair(c, cpu[c].gs, cpu[c].alt)
      BY <2>5, InForState
    <3>2. /\ r.state \in States /\ stack'[r.state] = <<>>
          /\ r.rsp = r.state /\ r.gs = c
      BY <2>2, <2>3, <2>5, <3>1 DEF ForState
    <3>3. QED
      BY <1>1, <2>1, <2>2, <2>3, <2>5, <3>1, <3>2, StaysForState
  <2>6. QED
    BY <1>2, <2>4, <2>5 DEF SetCritical
<1>3. CASE SetCpuRegisters(c)
  <2>1. cpu' = [cpu EXCEPT ![c] = cpu[c]]
    BY <1>3 DEF SetCpuRegisters, Inv, TypeInv
  <2>2. /\ lstar \subseteq lstar' /\ lstar' \subseteq Cpus
        /\ ist' = IF lstar' = {} THEN {} ELSE {Nmi}
        /\ UNCHANGED <<stack, state, routines>> /\ cpu[c].pc = "boot"
    BY <1>1, <1>3 DEF SetCpuRegisters, CpuRegisters
  <2>3. QED
    BY <1>1, <2>1, <2>2, InBetween, StaysBetween
<1>4. CASE RunSync(c)
  <2>1. c \in Stacks
    BY DEF Stacks
  <2>2. PICK r \in Registers :
          /\ cpu' = [cpu EXCEPT ![c] = r]
          /\ r.pc = "sched" /\ r.rsp = c /\ r.gs = cpu[c].gs /\ r.alt = cpu[c].alt
          /\ r.state = cpu[c].state /\ r.top = cpu[c].top
    <3> DEFINE r == [cpu[c] EXCEPT !.pc = "sched", !.rsp = c]
    <3>1. "sched" \in Pcs
      BY DEF Pcs
    <3>2. r \in Registers /\ cpu' = [cpu EXCEPT ![c] = r]
      BY <1>1, <1>4, <2>1, <3>1 DEF RunSync, Registers
    <3>3. /\ r.pc = "sched" /\ r.rsp = c /\ r.gs = cpu[c].gs /\ r.alt = cpu[c].alt
          /\ r.state = cpu[c].state /\ r.top = cpu[c].top
      BY <1>1 DEF Registers
    <3> HIDE DEF r
    <3>4. QED
      BY <3>2, <3>3
  <2>3. r \in Registers /\ r.state = cpu[c].state /\ r.top = cpu[c].top
        /\ cpu' = [cpu EXCEPT ![c] = r] /\ r.pc = "sched" /\ r.rsp = c
        /\ r.gs = cpu[c].gs /\ r.alt = cpu[c].alt
    BY <2>2
  <2>4. GsPair(c, cpu[c].gs, cpu[c].alt) /\ c \in lstar /\ cpu[c].state = NoState /\ CpuInv(c)
    BY <1>4 DEF RunSync, Inv, CpuInv
  <2>5. ~InNmi(c)
    BY <2>4, StackAssumption DEF CpuInv, NmiOk
  <2>6. cpu[c].gs = c
    <3>1. cpu[c].pc \in {"boot", "sched", "routine"}
          /\ Doing(c, cpu[c].pc, cpu[c].rsp, cpu[c].gs)
      BY <1>4, <2>4, <2>5 DEF RunSync, CpuInv
    <3>2. QED
      BY <3>1 DEF Doing, Between, ForState, ForInterrupt
  <2>7. stack' = [stack EXCEPT ![c] = <<>>] /\ UNCHANGED <<state, ist, lstar, routines>>
    BY <1>4 DEF RunSync
  <2>8. <<>> \in Seq(Frames)
    OBVIOUS
  <2>9. stack' \in [Stacks -> Seq(Frames)] /\ stack'[c] = <<>>
        /\ \A x \in Stacks \ {c} : stack'[x] = stack[x]
    BY <1>1, <2>1, <2>7, <2>8
  <2>10. cpu'[c] = r
    BY <2>2 DEF Inv, TypeInv
  <2>11. Between(c, r.pc, r.rsp, r.gs)'
    BY <2>3, <2>4, <2>6, <2>9, <2>10 DEF Between
  <2>12. ~InNmi(c)'
    <3>1. Len(<<>>) = 0
      OBVIOUS
    <3>2. QED
      BY <2>9, <3>1 DEF InNmi, One
  <2>13. Doing(c, r.pc, r.rsp, r.gs)'
    BY <2>11 DEF Doing
  <2>14. c \in lstar' /\ GsPair(c, r.gs, r.alt) /\ lstar \subseteq lstar' /\ lstar' \subseteq Cpus
         /\ ist' = IF lstar' = {} THEN {} ELSE {Nmi}
    BY <1>1, <2>3, <2>4, <2>7
  <2>15. QED
    BY <2>2, <2>3, <2>7, <2>9, <2>12, <2>13, <2>14, Local
<1>5. QED
  BY <1>2, <1>3, <1>4


-----------------------------------------------------------------------------
(* Interrupts and exceptions.                                              *)

\* A stack of one frame, as a whole and after a field of the frame is set.
LEMMA OneFrame ==
    ASSUME NEW S, NEW q \in Seq(S), Len(q) = 1
    PROVE  q # <<>> /\ q = <<q[1]>> /\ \A g \in S : [q EXCEPT ![Len(q)] = g] = <<g>>
<1>1. q = <<q[1]>> /\ (q = <<>> => Len(q) = 0)
  OBVIOUS
<1>2. ASSUME NEW g \in S
      PROVE  [q EXCEPT ![Len(q)] = g] = <<g>>
  OBVIOUS
<1>3. QED
  BY <1>1, <1>2

\* A CPU that handles an interrupt other than an NMI.
LEMMA InInterrupt ==
    ASSUME Inv, NEW c \in Cpus, ~InNmi(c),
           cpu[c].pc \in {"isr", "routine", "routineDone", "iret", "panic"}
    PROVE  /\ ForInterrupt(c, cpu[c].pc, cpu[c].rsp, cpu[c].gs)
           /\ GsPair(c, cpu[c].gs, cpu[c].alt) /\ c \in lstar
           /\ cpu[c].rsp \in Stacks
           /\ Top(cpu[c].rsp) = Bottom(cpu[c].rsp) /\ Bottom(cpu[c].rsp) \in Frames
           /\ stack[cpu[c].rsp] = <<Bottom(cpu[c].rsp)>>
<1>1. CpuInv(c) /\ cpu[c] \in Registers /\ stack \in [Stacks -> Seq(Frames)]
  BY DEF Inv, TypeInv
<1>2. ForInterrupt(c, cpu[c].pc, cpu[c].rsp, cpu[c].gs)
  BY <1>1 DEF CpuInv, Doing, ForState, Between
<1>3. GsPair(c, cpu[c].gs, cpu[c].alt) /\ c \in lstar
  BY <1>1 DEF CpuInv
<1>4. cpu[c].rsp \in Stacks
  BY <1>1, <1>2 DEF ForInterrupt, Stacks, Registers
<1>5. stack[cpu[c].rsp] \in Seq(Frames) /\ Len(stack[cpu[c].rsp]) = 1
  BY <1>1, <1>2, <1>4 DEF ForInterrupt, One
<1>6. QED
  BY <1>2, <1>3, <1>4, <1>5, OneFrame, OneElement DEF Top, Bottom

\* A step that handles an interrupt on the stack that belongs to it.
LEMMA StaysInterrupt ==
    ASSUME Inv, NEW c \in Cpus, NEW r \in Registers, NEW f \in Frames, NEW x,
           cpu' = [cpu EXCEPT ![c] = r], stack' = [stack EXCEPT ![x] = <<f>>],
           r.state = cpu[c].state, r.top = cpu[c].top,
           c \in lstar, GsPair(c, r.gs, r.alt),
           UNCHANGED <<state, ist, lstar, routines>>,
           x = IF r.state = NoState THEN c ELSE r.state, r.rsp = x,
           FrameOf(x, f, IF r.state = NoState THEN {"sched"} ELSE InState),
           r.pc \in {"isr", "routine", "routineDone", "iret", "panic"},
           r.pc = "isr" => ~f.swapped,
           r.pc # "isr" => f.swapped = f.user,
           r.gs = IF r.pc \in {"isr", "iret"} /\ f.user THEN UserGs ELSE c
    PROVE  Inv'
<1>1. stack \in [Stacks -> Seq(Frames)] /\ x \in Stacks /\ cpu'[c] = r
      /\ lstar \subseteq Cpus /\ ist = IF lstar = {} THEN {} ELSE {Nmi}
  BY DEF Inv, TypeInv, Registers, Stacks
<1>2. <<f>> \in Seq(Frames) /\ Len(<<f>>) = 1 /\ <<f>>[1] = f
  OBVIOUS
<1>3. /\ stack' \in [Stacks -> Seq(Frames)] /\ stack'[x] = <<f>>
      /\ \A y \in Stacks \ {x} : stack'[y] = stack[y]
  BY <1>1, <1>2
<1>4. One(x)' /\ Bottom(x)' = f
  BY <1>2, <1>3 DEF One, Bottom
<1>5. ForInterrupt(c, r.pc, r.rsp, r.gs)'
  BY <1>1, <1>4 DEF ForInterrupt
<1>6. ~InNmi(c)'
  BY <1>1, <1>4 DEF InNmi, FrameOf
<1>7. QED
  BY <1>1, <1>3, <1>5, <1>6, Local DEF Doing

\* What a State does under an NMI stays as it is while only the stack of the CPU
\* changes.
LEMMA UnderNmi ==
    ASSUME Inv, NEW c \in Cpus, NEW pc, NEW rsp, NEW g, Doing(c, pc, rsp, g),
           rsp # c, cpu'[c].state = cpu[c].state,
           \A x \in Stacks \ {c} : stack'[x] = stack[x]
    PROVE  Doing(c, pc, rsp, g)'
<1>1. cpu[c].state \in States \union {NoState}
  BY DEF Inv, TypeInv, Registers
<1>2. ~Between(c, pc, rsp, g)
  BY DEF Between
<1>3. cpu[c].state \in States => stack'[cpu[c].state] = stack[cpu[c].state]
  BY StackAssumption DEF Stacks
<1>4. ForState(c, pc, rsp, g) => ForState(c, pc, rsp, g)'
  BY <1>3 DEF ForState
<1>5. ForInterrupt(c, pc, rsp, g) => ForInterrupt(c, pc, rsp, g)'
  BY <1>1, <1>3 DEF ForInterrupt, One, Bottom
<1>6. QED
  BY <1>2, <1>4, <1>5 DEF Doing

\* A step that handles an NMI, alone on the stack of the CPU.
LEMMA StaysInNmi ==
    ASSUME Inv, NEW c \in Cpus, NEW r \in Registers, NEW f \in Frames, NEW g,
           cpu' = [cpu EXCEPT ![c] = r], stack' = [stack EXCEPT ![c] = <<f>>],
           r.state = cpu[c].state, r.top = cpu[c].top,
           c \in lstar, GsPair(c, r.gs, r.alt),
           UNCHANGED <<state, ist, lstar, routines>>,
           r.state \in States, r.rsp = c,
           f.vector = Nmi, f.words = 5, f.context.rsp # c, f.context.pc # "lost",
           r.pc \in {"isr", "routine", "routineDone", "iret"},
           r.pc = "isr" => ~f.swapped,
           r.pc \in {"routine", "routineDone"} => r.gs = c,
           g = IF r.pc \in {"routine", "routineDone"} /\ f.swapped THEN r.alt ELSE r.gs,
           Doing(c, f.context.pc, f.context.rsp, g)
    PROVE  Inv'
<1>1. stack \in [Stacks -> Seq(Frames)] /\ c \in Stacks /\ cpu'[c] = r
      /\ lstar \subseteq Cpus /\ ist = IF lstar = {} THEN {} ELSE {Nmi}
  BY DEF Inv, TypeInv, Stacks
<1>2. <<f>> \in Seq(Frames) /\ Len(<<f>>) = 1 /\ <<f>>[1] = f
  OBVIOUS
<1>3. /\ stack' \in [Stacks -> Seq(Frames)] /\ stack'[c] = <<f>>
      /\ \A y \in Stacks \ {c} : stack'[y] = stack[y]
  BY <1>1, <1>2
<1>4. One(c)' /\ Bottom(c)' = f
  BY <1>2, <1>3 DEF One, Bottom
<1>5. Doing(c, f.context.pc, f.context.rsp, g)'
  BY <1>1, <1>3, UnderNmi
<1>6. InNmi(c)' /\ NmiOk(c)'
  BY <1>1, <1>4, <1>5 DEF InNmi, NmiOk
<1>7. QED
  BY <1>1, <1>3, <1>6, Local


\* A CPU that handles an NMI.
LEMMA HandlesNmi ==
    ASSUME Inv, NEW c \in Cpus, InNmi(c)
    PROVE  /\ NmiOk(c) /\ GsPair(c, cpu[c].gs, cpu[c].alt) /\ c \in lstar
           /\ Top(c) = Bottom(c) /\ Bottom(c) \in Frames /\ stack[c] = <<Bottom(c)>>
           /\ Bottom(c).context.rsp # c
<1>1. CpuInv(c) /\ cpu[c] \in Registers /\ stack[c] \in Seq(Frames) /\ Len(stack[c]) = 1
  BY DEF Inv, TypeInv, Stacks, InNmi, One
<1>2. NmiOk(c) /\ GsPair(c, cpu[c].gs, cpu[c].alt) /\ c \in lstar
  BY <1>1 DEF CpuInv, NmiOk
<1>3. stack[c] # <<>>
  BY <1>1, OneFrame
<1>4. Bottom(c).context.rsp # c
  BY <1>2, <1>3, StackAssumption DEF NmiOk, Doing, Between, ForState, ForInterrupt
<1>5. QED
  BY <1>1, <1>2, <1>4, OneFrame, OneElement DEF Top, Bottom

\* The frame that a vector pushes.
LEMMA PushedFrame ==
    ASSUME NEW p \in Pcs, NEW x \in Stacks \union {UserStack}, NEW k \in BOOLEAN,
           NEW v \in Vectors, NEW u \in BOOLEAN, NEW b \in BOOLEAN
    PROVE  [vector |-> v, words |-> Pushed(v), user |-> u, swapped |-> b,
            context |-> Context(p, x, k)] \in Frames
<1>1. Pushed(v) \in {5, 6}
  BY DEF Pushed
<1>2. Context(p, x, k) \in Contexts
  BY DEF Context, Contexts
<1>3. QED
  BY <1>1, <1>2 DEF Frames

\* An NMI comes.
LEMMA NmiStep ==
    ASSUME Inv, NEW c \in Cpus, Interrupt(c, Nmi)
    PROVE  Inv'
<1> DEFINE f == [vector |-> Nmi, words |-> Pushed(Nmi), user |-> IsFromUser(c),
                 swapped |-> FALSE,
                 context |-> Context(cpu[c].pc, cpu[c].rsp, cpu[c].critical)]
           r == [cpu[c] EXCEPT !.pc = "isr", !.rsp = c, !.critical = TRUE]
<1>1. cpu[c] \in Registers /\ CpuInv(c) /\ ist = IF lstar = {} THEN {} ELSE {Nmi}
  BY DEF Inv, TypeInv
<1>2. cpu[c].rsp # c /\ cpu[c].state # NoState /\ cpu[c].pc # "lost"
  BY DEF Interrupt, MayCome, Nmi, GeneralProtection, PageFault
<1>3. cpu[c].state \in States
  BY <1>1, <1>2 DEF Registers
<1>4. ~InNmi(c)
  BY <1>2 DEF InNmi
<1>5. Doing(c, cpu[c].pc, cpu[c].rsp, cpu[c].gs) /\ GsPair(c, cpu[c].gs, cpu[c].alt)
  BY <1>1, <1>4 DEF CpuInv
<1>6. c \in lstar
  BY <1>1, <1>2, <1>5 DEF CpuInv, Doing, Between, ForState, ForInterrupt
<1>7. StackFor(c, Nmi) = c
  BY <1>1, <1>6 DEF StackFor
<1>8. c # UserStack /\ c \in Stacks
  BY StackAssumption DEF Stacks
<1>9. "isr" \in Pcs /\ Nmi \in Vectors /\ Pushed(Nmi) = 5
  BY DEF Pcs, Vectors, Pushed, PushesCode, Nmi
<1>10. f \in Frames
  BY <1>1, <1>9, PushedFrame DEF Registers, IsFromUser
<1>11. /\ f.vector = Nmi /\ f.words = 5 /\ ~f.swapped
       /\ f.context.pc = cpu[c].pc /\ f.context.rsp = cpu[c].rsp
  BY <1>9 DEF Context
<1>12. r \in Registers
  BY <1>1, <1>8, <1>9 DEF Registers
<1>13. /\ r.pc = "isr" /\ r.rsp = c /\ r.gs = cpu[c].gs /\ r.alt = cpu[c].alt
       /\ r.state = cpu[c].state /\ r.top = cpu[c].top
  BY <1>1 DEF Registers
<1>14. /\ cpu' = [cpu EXCEPT ![c] = r] /\ stack' = [stack EXCEPT ![c] = <<f>>]
       /\ UNCHANGED <<state, ist, lstar, routines>>
  BY <1>2, <1>7, <1>8 DEF Interrupt
<1> HIDE DEF f, r
<1>15. QED
  BY <1>2, <1>3, <1>5, <1>6, <1>10, <1>11, <1>12, <1>13, <1>14, StaysInNmi

\* What a fault at sysret does: the frame goes to the user stack.
LEMMA SysretFaults ==
    ASSUME Inv, NEW c \in Cpus, NEW v \in Vectors, v # Nmi, cpu[c].pc = "sysret",
           Interrupt(c, v)
    PROVE  v = GeneralProtection /\ Inv'
<1> DEFINE r == [cpu[c] EXCEPT !.pc = "lost"]
<1>1. /\ cpu[c] \in Registers /\ stack \in [Stacks -> Seq(Frames)]
      /\ ist = IF lstar = {} THEN {} ELSE {Nmi}
  BY DEF Inv, TypeInv
<1>2. v = GeneralProtection
  BY DEF Interrupt, MayCome, InCode
<1>3. ForState(c, "sysret", cpu[c].rsp, cpu[c].gs) /\ c \in lstar
      /\ GsPair(c, cpu[c].gs, cpu[c].alt) /\ cpu[c].top = cpu[c].state
  BY InForState
<1>4. cpu[c].rsp = UserStack /\ cpu[c].gs = UserGs /\ cpu[c].state \in States
      /\ stack[cpu[c].state] = <<>>
  BY <1>3 DEF ForState
<1>5. StackFor(c, v) = UserStack
  BY <1>1, <1>4 DEF StackFor, IsFromUser
<1>6. "lost" \in Pcs
  BY DEF Pcs
<1>7. r \in Registers /\ cpu' = [cpu EXCEPT ![c] = r]
  BY <1>1, <1>5, <1>6 DEF Interrupt, Goto, Registers
<1>8. /\ r.pc = "lost" /\ r.rsp = UserStack /\ r.gs = UserGs /\ r.alt = cpu[c].alt
      /\ r.state = cpu[c].state /\ r.top = cpu[c].top
  BY <1>1, <1>4 DEF Registers
<1> HIDE DEF r
<1>9. stack' = stack /\ UNCHANGED <<state, ist, lstar, routines>>
  BY <1>5 DEF Interrupt
<1>10. Inv'
  BY <1>1, <1>3, <1>4, <1>7, <1>8, <1>9, StaysForState
<1>11. QED
  BY <1>2, <1>10

\* An interrupt or an exception other than an NMI comes to running code.
LEMMA InterruptStep ==
    ASSUME Inv, NEW c \in Cpus, NEW v \in Vectors, v # Nmi, cpu[c].pc # "sysret",
           Interrupt(c, v)
    PROVE  Inv'
<1> DEFINE x == StackFor(c, v)
           f == [vector |-> v, words |-> Pushed(v), user |-> IsFromUser(c),
                 swapped |-> FALSE,
                 context |-> Context(cpu[c].pc, cpu[c].rsp, cpu[c].critical)]
           r == [cpu[c] EXCEPT !.pc = "isr", !.rsp = x, !.critical = TRUE]
<1>1. /\ cpu[c] \in Registers /\ stack \in [Stacks -> Seq(Frames)] /\ c \in Stacks
      /\ ist = IF lstar = {} THEN {} ELSE {Nmi}
  BY DEF Inv, TypeInv, Stacks
<1>2. cpu[c].pc \in InCode
  BY DEF Interrupt, MayCome, InCode, Nmi
<1>3. x = IF cpu[c].pc = "user" THEN cpu[c].top ELSE cpu[c].rsp
  BY <1>1 DEF StackFor, IsFromUser
<1>4. /\ GsPair(c, cpu[c].gs, cpu[c].alt) /\ c \in lstar
      /\ x = IF cpu[c].state = NoState THEN c ELSE cpu[c].state
      /\ cpu[c].state = NoState => cpu[c].pc = "sched"
      /\ cpu[c].state # NoState => cpu[c].pc \in InState
      /\ stack[x] = <<>>
      /\ cpu[c].rsp = IF cpu[c].pc = "user" THEN UserStack ELSE x
      /\ cpu[c].gs = IF cpu[c].pc = "user" THEN UserGs ELSE c
  <2>1. CASE cpu[c].pc = "sched"
    <3>1. Between(c, "sched", cpu[c].rsp, cpu[c].gs) /\ c \in lstar
          /\ GsPair(c, cpu[c].gs, cpu[c].alt)
      BY <2>1, InBetween
    <3>2. QED
      BY <1>3, <2>1, <3>1 DEF Between
  <2>2. CASE cpu[c].pc \in InState
    <3>1. ForState(c, cpu[c].pc, cpu[c].rsp, cpu[c].gs) /\ c \in lstar
          /\ GsPair(c, cpu[c].gs, cpu[c].alt) /\ cpu[c].top = cpu[c].state
      BY <2>2, InForState DEF InState
    <3>2. cpu[c].state \in States /\ cpu[c].state # NoState
      BY <3>1, StackAssumption DEF ForState
    <3>3. QED
      BY <1>3, <2>2, <3>1, <3>2 DEF ForState, InState
  <2>3. QED
    BY <1>2, <2>1, <2>2 DEF InCode, InState
<1>5. x \in Stacks /\ x # UserStack
  BY <1>1, <1>4, StackAssumption DEF Registers, Stacks
<1>6. "isr" \in Pcs
  BY DEF Pcs
<1>7. f \in Frames
  BY <1>1, PushedFrame DEF Registers, IsFromUser
<1>8. FrameOf(x, f, IF cpu[c].state = NoState THEN {"sched"} ELSE InState) /\ ~f.swapped
      /\ f.user = (cpu[c].pc = "user")
  BY <1>4 DEF FrameOf, Context, IsFromUser
<1>9. r \in Registers
  BY <1>1, <1>5, <1>6 DEF Registers
<1>10. /\ r.pc = "isr" /\ r.rsp = x /\ r.gs = cpu[c].gs /\ r.alt = cpu[c].alt
       /\ r.state = cpu[c].state /\ r.top = cpu[c].top
  BY <1>1 DEF Registers
<1>11. /\ cpu' = [cpu EXCEPT ![c] = r] /\ UNCHANGED <<state, ist, lstar, routines>>
       /\ stack' = [stack EXCEPT ![x] = IF x # cpu[c].rsp THEN <<f>> ELSE Append(@, f)]
  BY <1>5 DEF Interrupt
<1> HIDE DEF f, r, x
<1>12. Append(stack[x], f) = <<f>>
  BY <1>4, <1>7
<1>13. stack' = [stack EXCEPT ![x] = <<f>>]
  BY <1>11, <1>12
<1>14. /\ x = IF r.state = NoState THEN c ELSE r.state
       /\ FrameOf(x, f, IF r.state = NoState THEN {"sched"} ELSE InState)
       /\ r.gs = IF r.pc \in {"isr", "iret"} /\ f.user THEN UserGs ELSE c
       /\ GsPair(c, r.gs, r.alt) /\ c \in lstar
  BY <1>4, <1>8, <1>10
<1>15. cpu' = [cpu EXCEPT ![c] = r] /\ UNCHANGED <<state, ist, lstar, routines>>
  BY <1>11
<1>16. QED
  BY <1>7, <1>8, <1>9, <1>10, <1>13, <1>14, <1>15, StaysInterrupt


\* The frame on a stack after SwapScope has noted what it did.
LEMMA NotedFrame ==
    ASSUME stack \in [Stacks -> Seq(Frames)], NEW x \in Stacks, One(x), NEW b \in BOOLEAN
    PROVE  /\ [Bottom(x) EXCEPT !.swapped = b] \in Frames
           /\ [stack EXCEPT ![x][Len(stack[x])].swapped = b]
              = [stack EXCEPT ![x] = <<[Bottom(x) EXCEPT !.swapped = b]>>]
<1> DEFINE g == [Bottom(x) EXCEPT !.swapped = b]
<1>1. stack[x] \in Seq(Frames) /\ Len(stack[x]) = 1
  BY DEF One
<1>2. Bottom(x) \in Frames
  BY <1>1, OneElement DEF Bottom
<1>3. g \in Frames
  BY <1>2 DEF Frames
<1>4. [stack[x] EXCEPT ![Len(stack[x])] = g] = <<g>>
  BY <1>1, <1>3, OneFrame
<1>5. [stack EXCEPT ![x][Len(stack[x])].swapped = b]
      = [stack EXCEPT ![x] = [stack[x] EXCEPT ![Len(stack[x])] =
                                  [stack[x][Len(stack[x])] EXCEPT !.swapped = b]]]
  OBVIOUS
<1>6. [stack[x][Len(stack[x])] EXCEPT !.swapped = b] = g
  BY <1>1 DEF Bottom
<1>7. QED
  BY <1>3, <1>4, <1>5, <1>6

\* The registers after a swapgs or without one.
LEMMA SwapOrNot ==
    ASSUME Inv, NEW c \in Cpus, NEW p \in Pcs, NEW b \in BOOLEAN,
           IF b THEN Swapgs(c, p) ELSE Goto(c, p)
    PROVE  \E r \in Registers :
              /\ cpu' = [cpu EXCEPT ![c] = r]
              /\ r.pc = p /\ r.rsp = cpu[c].rsp /\ r.state = cpu[c].state /\ r.top = cpu[c].top
              /\ r.gs = IF b THEN cpu[c].alt ELSE cpu[c].gs
              /\ r.alt = IF b THEN cpu[c].gs ELSE cpu[c].alt
<1>1. cpu[c] \in Registers
  BY DEF Inv, TypeInv
<1>2. CASE b
  <2> DEFINE r == [cpu[c] EXCEPT !.pc = p, !.gs = cpu[c].alt, !.alt = cpu[c].gs]
  <2>1. r \in Registers /\ cpu' = [cpu EXCEPT ![c] = r]
    BY <1>1, <1>2 DEF Swapgs, Registers
  <2>2. /\ r.pc = p /\ r.rsp = cpu[c].rsp /\ r.state = cpu[c].state /\ r.top = cpu[c].top
        /\ r.gs = cpu[c].alt /\ r.alt = cpu[c].gs
    BY <1>1 DEF Registers
  <2> HIDE DEF r
  <2>3. QED
    BY <1>2, <2>1, <2>2
<1>3. CASE ~b
  <2> DEFINE r == [cpu[c] EXCEPT !.pc = p]
  <2>1. r \in Registers /\ cpu' = [cpu EXCEPT ![c] = r]
    BY <1>1, <1>3 DEF Goto, Registers
  <2>2. /\ r.pc = p /\ r.rsp = cpu[c].rsp /\ r.state = cpu[c].state /\ r.top = cpu[c].top
        /\ r.gs = cpu[c].gs /\ r.alt = cpu[c].alt
    BY <1>1 DEF Registers
  <2> HIDE DEF r
  <2>3. QED
    BY <1>3, <2>1, <2>2
<1>4. QED
  BY <1>2, <1>3

\* SwapScope is entered and the routine is looked up.
LEMMA EnterScopeStep ==
    ASSUME Inv, NEW c \in Cpus, EnterScope(c)
    PROVE  Inv'
<1> DEFINE x == cpu[c].rsp
           b == MustSwap(c, Top(x))
           v == Top(x).vector
           p == IF IsHandled(v) THEN "routine" ELSE IF v < 240 THEN "panic" ELSE "routineDone"
           f == [Bottom(x) EXCEPT !.swapped = b]
<1>1. stack \in [Stacks -> Seq(Frames)] /\ cpu[c].pc = "isr" /\ Nmi \in routines
  BY DEF Inv, TypeInv, EnterScope
<1>2. /\ stack' = [stack EXCEPT ![x][Len(stack[x])].swapped = b]
      /\ IF b THEN Swapgs(c, p) ELSE Goto(c, p)
  BY DEF EnterScope
<1>3. p \in Pcs /\ p \in {"routine", "panic", "routineDone"}
  BY DEF Pcs
<1>4. UNCHANGED <<state, ist, lstar, routines>>
  BY DEF EnterScope
<1>5. CASE InNmi(c)
  <2>1. /\ NmiOk(c) /\ GsPair(c, cpu[c].gs, cpu[c].alt) /\ c \in lstar
        /\ Top(c) = Bottom(c) /\ Bottom(c) \in Frames /\ Bottom(c).context.rsp # c
        /\ x = c /\ One(c) /\ Bottom(c).vector = Nmi
    BY <1>5, HandlesNmi DEF InNmi
  <2>2. b = (cpu[c].gs = UserGs)
    BY <2>1 DEF MustSwap
  <2>3. b \in BOOLEAN
    BY <2>2
  <2>4. p = "routine"
    BY <1>1, <2>1 DEF IsHandled
  <2>5. c \in Stacks
    BY DEF Stacks
  <2>6. f \in Frames /\ stack' = [stack EXCEPT ![c] = <<f>>]
    BY <1>1, <1>2, <2>1, <2>3, <2>5, NotedFrame
  <2>7. PICK r \in Registers :
          /\ cpu' = [cpu EXCEPT ![c] = r]
          /\ r.pc = p /\ r.rsp = cpu[c].rsp /\ r.state = cpu[c].state /\ r.top = cpu[c].top
          /\ r.gs = IF b THEN cpu[c].alt ELSE cpu[c].gs
          /\ r.alt = IF b THEN cpu[c].gs ELSE cpu[c].alt
    <3> HIDE DEF b, p
    <3>1. QED
      BY <1>2, <1>3, <2>3, SwapOrNot
  <2>8. /\ f.vector = Nmi /\ f.words = 5 /\ f.context = Bottom(c).context /\ f.swapped = b
    BY <2>1, <2>2 DEF NmiOk, Frames
  <2> HIDE DEF f, b, p
  <2>9. r.gs = c /\ GsPair(c, r.gs, r.alt) /\ cpu[c].gs = IF b THEN r.alt ELSE r.gs
    BY <2>1, <2>2, <2>7, GsAssumption DEF GsPair, UserGs
  <2>10. Doing(c, f.context.pc, f.context.rsp, cpu[c].gs) /\ r.state \in States
    BY <1>1, <2>1, <2>7, <2>8 DEF NmiOk
  <2>11. r.pc = "routine" /\ r.rsp = c /\ c \in lstar /\ f.context.rsp # c
         /\ f.context.pc # "lost"
    BY <2>1, <2>4, <2>7, <2>8 DEF NmiOk
  <2>12. /\ cpu' = [cpu EXCEPT ![c] = r] /\ r.state = cpu[c].state /\ r.top = cpu[c].top
         /\ cpu[c].gs = IF r.pc \in {"routine", "routineDone"} /\ f.swapped THEN r.alt ELSE r.gs
    BY <2>7, <2>8, <2>9, <2>11
  <2>13. QED
    BY <1>4, <2>6, <2>8, <2>9, <2>10, <2>11, <2>12, StaysInNmi
<1>6. CASE ~InNmi(c)
  <2>1. /\ ForInterrupt(c, "isr", x, cpu[c].gs) /\ GsPair(c, cpu[c].gs, cpu[c].alt)
        /\ c \in lstar /\ x \in Stacks /\ Top(x) = Bottom(x) /\ Bottom(x) \in Frames
    BY <1>1, <1>6, InInterrupt
  <2>2. b = Bottom(x).user
    BY <2>1 DEF MustSwap, ForInterrupt, FrameOf
  <2>3. b \in BOOLEAN
    BY <2>1, <2>2 DEF Frames
  <2>4. f \in Frames /\ stack' = [stack EXCEPT ![x] = <<f>>]
    BY <1>1, <1>2, <2>1, <2>3, NotedFrame DEF ForInterrupt
  <2>5. PICK r \in Registers :
          /\ cpu' = [cpu EXCEPT ![c] = r]
          /\ r.pc = p /\ r.rsp = cpu[c].rsp /\ r.state = cpu[c].state /\ r.top = cpu[c].top
          /\ r.gs = IF b THEN cpu[c].alt ELSE cpu[c].gs
          /\ r.alt = IF b THEN cpu[c].gs ELSE cpu[c].alt
    <3> HIDE DEF b, p
    <3>1. QED
      BY <1>2, <1>3, <2>3, SwapOrNot
  <2>6. /\ f.vector = Bottom(x).vector /\ f.words = Bottom(x).words
        /\ f.context = Bottom(x).context /\ f.user = Bottom(x).user /\ f.swapped = b
    BY <2>1 DEF Frames
  <2>7. FrameOf(x, f, IF r.state = NoState THEN {"sched"} ELSE InState)
        /\ x = IF r.state = NoState THEN c ELSE r.state
    BY <2>1, <2>5, <2>6 DEF ForInterrupt, FrameOf
  <2>8. r.gs = c /\ GsPair(c, r.gs, r.alt) /\ f.swapped = f.user
    BY <2>1, <2>2, <2>5, <2>6, GsAssumption DEF GsPair, UserGs, ForInterrupt
  <2>9. r.pc \in {"routine", "panic", "routineDone"} /\ r.rsp = x /\ c \in lstar
    BY <1>3, <2>1, <2>5
  <2>10. cpu' = [cpu EXCEPT ![c] = r] /\ r.state = cpu[c].state /\ r.top = cpu[c].top
    BY <2>5
  <2> HIDE DEF f, b, p, x
  <2>11. QED
    BY <1>4, <2>4, <2>7, <2>8, <2>9, <2>10, StaysInterrupt
<1>7. QED
  BY <1>5, <1>6


\* The routine returns and SwapScope is left.
LEMMA LeaveSteps ==
    ASSUME Inv, NEW c \in Cpus, RoutineReturns(c) \/ LeaveScope(c)
    PROVE  Inv'
<1> DEFINE x == cpu[c].rsp
           f == Bottom(x)
           b == cpu[c].pc = "routineDone" /\ f.swapped
           p == IF cpu[c].pc = "routine" THEN "routineDone" ELSE "iret"
<1>1. stack \in [Stacks -> Seq(Frames)] /\ cpu[c].pc \in {"routine", "routineDone"}
  BY DEF Inv, TypeInv, RoutineReturns, LeaveScope
<1>2. UNCHANGED <<stack, state, ist, lstar, routines>>
  BY DEF RoutineReturns, LeaveScope
<1>3. p \in Pcs /\ p = IF cpu[c].pc = "routine" THEN "routineDone" ELSE "iret"
  BY DEF Pcs
<1>4. b \in BOOLEAN /\ b = (cpu[c].pc = "routineDone" /\ f.swapped)
  OBVIOUS
<1>5. ASSUME Top(x) = Bottom(x)
      PROVE  \E r \in Registers :
          /\ cpu' = [cpu EXCEPT ![c] = r]
          /\ r.pc = p /\ r.rsp = x /\ r.state = cpu[c].state /\ r.top = cpu[c].top
          /\ r.gs = IF b THEN cpu[c].alt ELSE cpu[c].gs
          /\ r.alt = IF b THEN cpu[c].gs ELSE cpu[c].alt
  <2>1. IF b THEN Swapgs(c, p) ELSE Goto(c, p)
    BY <1>5 DEF RoutineReturns, LeaveScope
  <2> HIDE DEF b, p
  <2>2. b \in BOOLEAN
    BY <1>4
  <2>3. QED
    BY <1>3, <2>1, <2>2, SwapOrNot
<1>6. CASE InNmi(c)
  <2>1. /\ NmiOk(c) /\ GsPair(c, cpu[c].gs, cpu[c].alt) /\ c \in lstar
        /\ Top(c) = Bottom(c) /\ Bottom(c) \in Frames /\ Bottom(c).context.rsp # c
        /\ x = c /\ Bottom(c).vector = Nmi /\ stack[c] = <<Bottom(c)>>
    BY <1>6, HandlesNmi DEF InNmi
  <2>2. PICK r \in Registers :
          /\ cpu' = [cpu EXCEPT ![c] = r]
          /\ r.pc = p /\ r.rsp = x /\ r.state = cpu[c].state /\ r.top = cpu[c].top
          /\ r.gs = IF b THEN cpu[c].alt ELSE cpu[c].gs
          /\ r.alt = IF b THEN cpu[c].gs ELSE cpu[c].alt
    BY <1>5, <2>1
  <2> DEFINE g == IF f.swapped THEN cpu[c].alt ELSE cpu[c].gs
  <2>3. cpu[c].gs = c /\ Doing(c, f.context.pc, f.context.rsp, g)
        /\ f.words = 5 /\ f.context.pc # "lost" /\ r.state \in States
    BY <1>1, <2>1, <2>2 DEF NmiOk
  <2> HIDE DEF b, p
  <2>4. GsPair(c, r.gs, r.alt) /\ (r.pc = "routineDone" => r.gs = c)
    BY <1>1, <1>3, <1>4, <2>1, <2>2, <2>3 DEF GsPair
  <2>5. g = IF r.pc \in {"routine", "routineDone"} /\ f.swapped THEN r.alt ELSE r.gs
    BY <1>1, <1>3, <1>4, <2>2
  <2>6. stack' = [stack EXCEPT ![c] = <<f>>]
    BY <1>1, <1>2, <2>1
  <2>7. r.pc \in {"routineDone", "iret"} /\ r.rsp = c /\ f \in Frames /\ f.vector = Nmi
        /\ f.context.rsp # c /\ c \in lstar
    BY <1>3, <2>1, <2>2
  <2>8. cpu' = [cpu EXCEPT ![c] = r] /\ r.state = cpu[c].state /\ r.top = cpu[c].top
    BY <2>2
  <2> HIDE DEF f, g
  <2>9. QED
    BY <1>2, <2>3, <2>4, <2>5, <2>6, <2>7, <2>8, StaysInNmi
<1>7. CASE ~InNmi(c)
  <2>1. /\ ForInterrupt(c, cpu[c].pc, x, cpu[c].gs) /\ GsPair(c, cpu[c].gs, cpu[c].alt)
        /\ c \in lstar /\ x \in Stacks /\ Top(x) = Bottom(x) /\ f \in Frames
        /\ stack[x] = <<f>>
    BY <1>1, <1>7, InInterrupt
  <2>2. PICK r \in Registers :
          /\ cpu' = [cpu EXCEPT ![c] = r]
          /\ r.pc = p /\ r.rsp = x /\ r.state = cpu[c].state /\ r.top = cpu[c].top
          /\ r.gs = IF b THEN cpu[c].alt ELSE cpu[c].gs
          /\ r.alt = IF b THEN cpu[c].gs ELSE cpu[c].alt
    BY <1>5, <2>1
  <2>3. /\ FrameOf(x, f, IF r.state = NoState THEN {"sched"} ELSE InState)
        /\ x = IF r.state = NoState THEN c ELSE r.state
        /\ f.swapped = f.user /\ cpu[c].gs = c
    BY <1>1, <2>1, <2>2 DEF ForInterrupt
  <2> HIDE DEF b, p
  <2>4. GsPair(c, r.gs, r.alt)
        /\ r.gs = IF r.pc \in {"isr", "iret"} /\ f.user THEN UserGs ELSE c
    BY <1>1, <1>3, <1>4, <2>1, <2>2, <2>3, GsAssumption DEF GsPair, UserGs
  <2>5. stack' = [stack EXCEPT ![x] = <<f>>]
    BY <1>1, <1>2, <2>1
  <2>6. r.pc \in {"routineDone", "iret"} /\ r.rsp = x /\ c \in lstar /\ f \in Frames
    BY <1>3, <2>1, <2>2
  <2>7. cpu' = [cpu EXCEPT ![c] = r] /\ r.state = cpu[c].state /\ r.top = cpu[c].top
    BY <2>2
  <2> HIDE DEF f, x
  <2>8. QED
    BY <1>2, <2>3, <2>4, <2>5, <2>6, <2>7, StaysInterrupt
<1>8. QED
  BY <1>6, <1>7

\* The return from an interrupt, to where it came from.
LEMMA IretStep ==
    ASSUME Inv, NEW c \in Cpus, Iret(c)
    PROVE  Inv'
<1> DEFINE x == cpu[c].rsp
           f == Bottom(x)
<1>1. /\ stack \in [Stacks -> Seq(Frames)] /\ cpu[c].pc = "iret" /\ cpu[c] \in Registers
      /\ lstar \subseteq Cpus /\ ist = IF lstar = {} THEN {} ELSE {Nmi}
  BY DEF Inv, TypeInv, Iret
<1>2. UNCHANGED <<state, ist, lstar, routines>>
  BY DEF Iret
<1>3. ASSUME f \in Frames, x \in Stacks, Top(x) = f, stack[x] = <<f>>, f.words = Pushed(f.vector)
      PROVE  /\ stack' = [stack EXCEPT ![x] = <<>>]
             /\ \E r \in Registers :
                   /\ cpu' = [cpu EXCEPT ![c] = r]
                   /\ r.pc = f.context.pc /\ r.rsp = f.context.rsp /\ r.gs = cpu[c].gs
                   /\ r.alt = cpu[c].alt /\ r.state = cpu[c].state /\ r.top = cpu[c].top
  <2> DEFINE r == [cpu[c] EXCEPT !.pc = f.context.pc, !.rsp = f.context.rsp,
                                 !.critical = f.context.critical]
  <2>1. f.words - Discarded(f.vector) = 5
    <3>1. f.vector \in Vectors
      BY <1>3 DEF Frames
    <3>2. QED
      BY <1>3, <3>1 DEF Vectors, Nmi, GeneralProtection, PageFault, Timer, Spurious,
                        Pushed, PushesCode, Discarded, HasCode
  <2>2. cpu' = [cpu EXCEPT ![c] = r]
    BY <1>3, <2>1 DEF Iret
  <2>3. f.context \in Contexts
    BY <1>3 DEF Frames
  <2>4. /\ f.context.pc \in Pcs /\ f.context.rsp \in Stacks \union {UserStack}
        /\ f.context.critical \in BOOLEAN
    BY <2>3 DEF Contexts
  <2>5. r \in Registers
    BY <1>1, <2>4 DEF Registers
  <2>6. /\ r.pc = f.context.pc /\ r.rsp = f.context.rsp /\ r.gs = cpu[c].gs
        /\ r.alt = cpu[c].alt /\ r.state = cpu[c].state /\ r.top = cpu[c].top
    BY <1>1 DEF Registers
  <2>7. <<f>> \in Seq(Frames) /\ Len(<<f>>) = 1
    BY <1>3
  <2>8. SubSeq(stack[x], 1, Len(stack[x]) - 1) = <<>>
    BY <1>3, <2>7, ShortStack
  <2>9. stack' = [stack EXCEPT ![x] = <<>>]
    BY <2>8 DEF Iret, Pop
  <2> HIDE DEF r
  <2>10. QED
    BY <2>2, <2>5, <2>6, <2>9
<1>4. ASSUME x \in Stacks, stack' = [stack EXCEPT ![x] = <<>>]
      PROVE  /\ stack' \in [Stacks -> Seq(Frames)] /\ stack'[x] = <<>>
             /\ \A y \in Stacks \ {x} : stack'[y] = stack[y]
  <2>1. <<>> \in Seq(Frames)
    OBVIOUS
  <2>2. QED
    BY <1>1, <1>4, <2>1
<1>5. CASE InNmi(c)
  <2>1. /\ NmiOk(c) /\ GsPair(c, cpu[c].gs, cpu[c].alt) /\ c \in lstar
        /\ Top(c) = Bottom(c) /\ Bottom(c) \in Frames /\ Bottom(c).context.rsp # c
        /\ x = c /\ Bottom(c).vector = Nmi /\ stack[c] = <<Bottom(c)>>
    BY <1>5, HandlesNmi DEF InNmi
  <2>2. f.words = Pushed(f.vector) /\ c \in Stacks
    BY <2>1 DEF NmiOk, Pushed, PushesCode, Nmi, Stacks
  <2>3. PICK r \in Registers :
        /\ cpu' = [cpu EXCEPT ![c] = r] /\ stack' = [stack EXCEPT ![x] = <<>>]
        /\ r.pc = f.context.pc /\ r.rsp = f.context.rsp /\ r.gs = cpu[c].gs
        /\ r.alt = cpu[c].alt /\ r.state = cpu[c].state /\ r.top = cpu[c].top
    BY <1>3, <2>1, <2>2
  <2>4. /\ stack' \in [Stacks -> Seq(Frames)] /\ stack'[c] = <<>>
        /\ \A y \in Stacks \ {c} : stack'[y] = stack[y]
    BY <1>4, <2>1, <2>2, <2>3
  <2>5. cpu'[c] = r
    BY <2>3 DEF Inv, TypeInv
  <2>6. Doing(c, r.pc, r.rsp, r.gs) /\ r.rsp # c
    BY <1>1, <2>1, <2>3 DEF NmiOk
  <2>7. Doing(c, r.pc, r.rsp, r.gs)'
    BY <2>3, <2>4, <2>5, <2>6, UnderNmi
  <2>8. ~InNmi(c)'
    BY <2>5, <2>6 DEF InNmi
  <2>9. GsPair(c, r.gs, r.alt) /\ c \in lstar
    BY <2>1, <2>3
  <2>10. cpu' = [cpu EXCEPT ![c] = r] /\ r.state = cpu[c].state /\ r.top = cpu[c].top
         /\ r \in Registers
    BY <2>3
  <2>11. QED
    BY <1>1, <1>2, <2>4, <2>7, <2>8, <2>9, <2>10, Local
<1>6. CASE ~InNmi(c)
  <2>1. /\ ForInterrupt(c, "iret", x, cpu[c].gs) /\ GsPair(c, cpu[c].gs, cpu[c].alt)
        /\ c \in lstar /\ x \in Stacks /\ Top(x) = Bottom(x) /\ f \in Frames
        /\ stack[x] = <<f>>
    BY <1>1, <1>6, InInterrupt
  <2>2. f.words = Pushed(f.vector)
    BY <2>1 DEF ForInterrupt, FrameOf
  <2>3. PICK r \in Registers :
        /\ cpu' = [cpu EXCEPT ![c] = r] /\ stack' = [stack EXCEPT ![x] = <<>>]
        /\ r.pc = f.context.pc /\ r.rsp = f.context.rsp /\ r.gs = cpu[c].gs
        /\ r.alt = cpu[c].alt /\ r.state = cpu[c].state /\ r.top = cpu[c].top
    BY <1>3, <2>1, <2>2
  <2>4. /\ stack' \in [Stacks -> Seq(Frames)] /\ stack'[x] = <<>>
        /\ \A y \in Stacks \ {x} : stack'[y] = stack[y]
    BY <1>4, <2>1, <2>3
  <2>5. cpu'[c] = r /\ GsPair(c, r.gs, r.alt) /\ c \in lstar
    BY <2>1, <2>3 DEF Inv, TypeInv
  <2>6. x = IF r.state = NoState THEN c ELSE r.state
    BY <2>1, <2>3 DEF ForInterrupt
  <2>7. cpu' = [cpu EXCEPT ![c] = r] /\ r.state = cpu[c].state /\ r.top = cpu[c].top
        /\ r \in Registers
    BY <2>3
  <2>8. CASE r.state = NoState
    <3>1. r.pc = "sched" /\ r.rsp = c /\ r.gs = c /\ x = c
      BY <2>1, <2>3, <2>6, <2>8 DEF ForInterrupt, FrameOf
    <3>2. Between(c, r.pc, r.rsp, r.gs)'
      BY <2>4, <2>5, <2>8, <3>1 DEF Between
    <3>3. ~InNmi(c)'
      <4>1. stack'[c] = <<>>
        BY <2>4, <3>1
      <4>2. QED
        BY <4>1 DEF InNmi, One
    <3>4. \A y \in Stacks \ {c, cpu[c].state} : stack'[y] = stack[y]
      BY <2>4, <3>1
    <3>5. QED
      BY <1>1, <1>2, <2>4, <2>5, <2>7, <3>2, <3>3, <3>4, Local DEF Doing
  <2>9. CASE r.state # NoState
    <3>1. /\ r.pc \in InState /\ r.rsp = IF r.pc = "user" THEN UserStack ELSE x
          /\ r.gs = IF r.pc = "user" THEN UserGs ELSE c
      BY <2>1, <2>3, <2>9 DEF ForInterrupt, FrameOf
    <3>2. r.state \in States /\ x = r.state
      BY <2>6, <2>7, <2>9 DEF Registers
    <3>3. \A y \in Stacks \ {c, cpu[c].state} : stack'[y] = stack[y]
      BY <2>4, <2>7, <3>2
    <3>4. QED
      BY <1>2, <2>4, <2>5, <2>7, <3>1, <3>2, <3>3, StaysForState DEF InState
  <2>10. QED
    BY <2>8, <2>9
<1>7. QED
  BY <1>5, <1>6

-----------------------------------------------------------------------------
(* States.                                                                 *)

\* A State is created or deleted while no CPU runs it.
LEMMA ObjectSteps ==
    ASSUME Inv, NEW s \in States, New(s) \/ Delete(s)
    PROVE  Inv'
<1>1. /\ state \in [States -> [life : {"none", "ready", "running"}, context : Contexts]]
      /\ stack \in [Stacks -> Seq(Frames)] /\ state[s].life # "running"
  BY DEF Inv, TypeInv, New, Delete
<1>2. PICK o \in {NewUser, NewKernel(s), NoObject} :
          state' = [state EXCEPT ![s] = o]
  BY DEF New, Delete
<1>3. stack' = [stack EXCEPT ![s] = <<>>] /\ UNCHANGED <<cpu, ist, lstar, routines>>
  BY DEF New, Delete
<1>4. o \in [life : {"none", "ready", "running"}, context : Contexts]
  <2>1. /\ Context("user", UserStack, FALSE) \in Contexts
        /\ Context("kernel", s, FALSE) \in Contexts
    BY DEF Context, Contexts, Pcs, Stacks
  <2>2. /\ NewUser \in [life : {"none", "ready", "running"}, context : Contexts]
        /\ NewKernel(s) \in [life : {"none", "ready", "running"}, context : Contexts]
        /\ NoObject \in [life : {"none", "ready", "running"}, context : Contexts]
    BY <2>1 DEF NewUser, NewKernel, NoObject
  <2>3. QED
    BY <2>2
<1>5. s \in Stacks /\ <<>> \in Seq(Frames)
  BY DEF Stacks
<1>6. /\ stack' \in [Stacks -> Seq(Frames)] /\ stack'[s] = <<>>
      /\ \A x \in Stacks \ {s} : stack'[x] = stack[x]
  BY <1>1, <1>3, <1>5
<1>7. /\ state' \in [States -> [life : {"none", "ready", "running"}, context : Contexts]]
      /\ state'[s] = o /\ \A t \in States \ {s} : state'[t] = state[t]
  BY <1>1, <1>2, <1>4
<1>8. TypeInv'
  BY <1>3, <1>6, <1>7 DEF Inv, TypeInv
<1>9. ASSUME NEW d \in Cpus
      PROVE  CpuInv(d)'
  <2>1. d # s /\ d \in Stacks
    BY StackAssumption DEF Stacks
  <2>2. cpu[d].state \in States => cpu[d].state # s
    BY <1>1, StackAssumption DEF Inv, CpuInv
  <2>3. QED
    BY <1>3, <1>6, <1>7, <2>1, <2>2, OtherCpu DEF Stacks
<1>10. ASSUME NEW t \in States, state'[t].life = "ready"
       PROVE  SavedOk(t)'
  <2>1. CASE t = s
    <3>1. o.life = "ready" /\ NoObject.life = "none"
      BY <1>7, <1>10, <2>1 DEF NoObject
    <3>2. o = NewUser \/ o = NewKernel(s)
      BY <1>2, <3>1
    <3>3. \/ o.context.pc = "user" /\ o.context.rsp = UserStack
          \/ o.context.pc = "kernel" /\ o.context.rsp = s
      BY <3>2 DEF NewUser, NewKernel, Context
    <3>4. QED
      BY <1>6, <1>7, <2>1, <3>3 DEF SavedOk
  <2>2. CASE t # s
    <3>1. SavedOk(t) /\ state'[t] = state[t] /\ stack'[t] = stack[t]
      BY <1>6, <1>7, <1>10, <2>2 DEF Inv, StateInv, Stacks
    <3>2. QED
      BY <3>1 DEF SavedOk, One, Bottom
  <2>3. QED
    BY <2>1, <2>2
<1>11. QED
  BY <1>3, <1>8, <1>9, <1>10 DEF Inv, StateInv

\* SuspendAndCall, from a handler, a kernel function or an interrupt routine.
LEMMA SuspendStep ==
    ASSUME Inv, NEW c \in Cpus, SuspendAndCall(c)
    PROVE  Inv'
<1> DEFINE s == cpu[c].state
<1>1. /\ cpu[c] \in Registers /\ stack \in [Stacks -> Seq(Frames)]
      /\ state \in [States -> [life : {"none", "ready", "running"}, context : Contexts]]
      /\ cpu \in [Cpus -> Registers] /\ CpuInv(c)
  BY DEF Inv, TypeInv
<1>2. /\ cpu[c].pc \in {"handler", "kernel", "routine"} /\ s \in States /\ cpu[c].rsp = s
  BY <1>1 DEF SuspendAndCall, Registers
<1>3. ~InNmi(c)
  BY <1>2, StackAssumption DEF InNmi
<1>4. /\ cpu[c].gs = c /\ GsPair(c, cpu[c].gs, cpu[c].alt) /\ c \in lstar
      /\ cpu[c].pc # "routine" => stack[s] = <<>>
      /\ cpu[c].pc = "routine" => /\ One(s)
                                  /\ FrameOf(s, Bottom(s), InState)
                                  /\ Bottom(s).swapped = Bottom(s).user
  <2>1. CASE cpu[c].pc = "routine"
    <3>1. ForInterrupt(c, "routine", s, cpu[c].gs) /\ c \in lstar
          /\ GsPair(c, cpu[c].gs, cpu[c].alt)
      BY <1>2, <1>3, <2>1, InInterrupt
    <3>2. QED
      BY <1>2, <2>1, <3>1, StackAssumption DEF ForInterrupt
  <2>2. CASE cpu[c].pc # "routine"
    <3>1. ForState(c, cpu[c].pc, s, cpu[c].gs) /\ c \in lstar
          /\ GsPair(c, cpu[c].gs, cpu[c].alt)
      BY <1>2, <2>2, InForState
    <3>2. QED
      BY <1>2, <2>2, <3>1 DEF ForState
  <2>3. QED
    BY <2>1, <2>2
<1>5. PICK r \in Registers :
          /\ cpu' = [cpu EXCEPT ![c] = r]
          /\ r.pc = "sched" /\ r.rsp = c /\ r.state = NoState
          /\ r.gs = cpu[c].gs /\ r.alt = cpu[c].alt
  <2> DEFINE r == [cpu[c] EXCEPT !.pc = "sched", !.rsp = c, !.state = NoState]
  <2>1. "sched" \in Pcs /\ c \in Stacks
    BY DEF Pcs, Stacks
  <2>2. r \in Registers /\ cpu' = [cpu EXCEPT ![c] = r]
    BY <1>1, <2>1 DEF SuspendAndCall, Registers
  <2>3. /\ r.pc = "sched" /\ r.rsp = c /\ r.state = NoState
        /\ r.gs = cpu[c].gs /\ r.alt = cpu[c].alt
    BY <1>1 DEF Registers
  <2> HIDE DEF r
  <2>4. QED
    BY <2>2, <2>3
<1>6. /\ cpu' \in [Cpus -> Registers] /\ cpu'[c] = r
      /\ \A d \in Cpus \ {c} : cpu'[d] = cpu[d]
  BY <1>1, <1>5
<1>7. PICK o \in [life : {"none", "ready", "running"}, context : Contexts] :
          /\ state' = [state EXCEPT ![s] = o]
          /\ o.life = "ready" /\ o.context.pc = cpu[c].pc /\ o.context.rsp = s
  <2> DEFINE o == [life |-> "ready", context |-> Context(cpu[c].pc, s, TRUE)]
  <2>1. state' = [state EXCEPT ![s] = o]
    BY DEF SuspendAndCall
  <2>2. Context(cpu[c].pc, s, TRUE) \in Contexts
    BY <1>1, <1>2 DEF Context, Contexts, Registers, Stacks
  <2>3. o \in [life : {"none", "ready", "running"}, context : Contexts]
    BY <2>2
  <2>4. o.life = "ready" /\ o.context.pc = cpu[c].pc /\ o.context.rsp = s
    BY DEF Context
  <2> HIDE DEF o
  <2>5. QED
    BY <2>1, <2>3, <2>4
<1>8. /\ state' \in [States -> [life : {"none", "ready", "running"}, context : Contexts]]
      /\ state'[s] = o /\ \A t \in States \ {s} : state'[t] = state[t]
  BY <1>1, <1>2, <1>7
<1>9. c \in Stacks /\ <<>> \in Seq(Frames) /\ stack' = [stack EXCEPT ![c] = <<>>]
      /\ UNCHANGED <<ist, lstar, routines>>
  BY DEF Stacks, SuspendAndCall
<1>10. /\ stack' \in [Stacks -> Seq(Frames)] /\ stack'[c] = <<>>
       /\ \A x \in Stacks \ {c} : stack'[x] = stack[x]
  BY <1>1, <1>9
<1>11. TypeInv'
  BY <1>6, <1>8, <1>9, <1>10 DEF Inv, TypeInv
<1>12. ASSUME NEW d \in Cpus \ {c}
       PROVE  CpuInv(d)'
  <2>1. cpu[d].state \in States => cpu[d].state # s /\ cpu[d].state # c
    BY <1>2, <1>12, StackAssumption DEF Inv, StateInv
  <2>2. stack'[d] = stack[d]
    BY <1>10, <1>12 DEF Stacks
  <2>3. cpu[d].state \in States => /\ stack'[cpu[d].state] = stack[cpu[d].state]
                                   /\ state'[cpu[d].state] = state[cpu[d].state]
    BY <1>8, <1>10, <2>1 DEF Stacks
  <2>4. QED
    BY <1>6, <1>9, <1>12, <2>2, <2>3, OtherCpu
<1>13. CpuInv(c)'
  <2>1. Between(c, r.pc, r.rsp, r.gs)'
    BY <1>4, <1>5, <1>6, <1>10 DEF Between
  <2>2. ~InNmi(c)'
    BY <1>10 DEF InNmi, One
  <2>3. QED
    BY <1>4, <1>5, <1>6, <1>9, <2>1, <2>2 DEF CpuInv, Doing
<1>14. ASSUME NEW t \in States, state'[t].life = "ready"
       PROVE  SavedOk(t)'
  <2>1. stack'[t] = stack[t]
    BY <1>10, StackAssumption DEF Stacks
  <2>2. CASE t = s
    BY <1>2, <1>4, <1>7, <1>8, <2>1, <2>2 DEF SavedOk, One, Bottom
  <2>3. CASE t # s
    <3>1. SavedOk(t) /\ state'[t] = state[t]
      BY <1>8, <1>14, <2>3 DEF Inv, StateInv
    <3>2. QED
      BY <2>1, <3>1 DEF SavedOk, One, Bottom
  <2>4. QED
    BY <2>2, <2>3
<1>15. \A d, e \in Cpus : cpu'[d].state # NoState /\ cpu'[d].state = cpu'[e].state => d = e
  BY <1>5, <1>6 DEF Inv, StateInv
<1>16. QED
  BY <1>11, <1>12, <1>13, <1>14, <1>15 DEF Inv, StateInv

\* A CPU takes a State that waits.
LEMMA ResumeStep ==
    ASSUME Inv, NEW c \in Cpus, NEW s \in States, Resume(c, s)
    PROVE  Inv'
<1>1. /\ cpu[c] \in Registers /\ stack \in [Stacks -> Seq(Frames)]
      /\ state \in [States -> [life : {"none", "ready", "running"}, context : Contexts]]
      /\ cpu \in [Cpus -> Registers]
  BY DEF Inv, TypeInv
<1>2. cpu[c].pc = "sched" /\ state[s].life = "ready" /\ UNCHANGED <<stack, ist, lstar, routines>>
  BY DEF Resume
<1>3. /\ Between(c, "sched", cpu[c].rsp, cpu[c].gs) /\ c \in lstar
      /\ GsPair(c, cpu[c].gs, cpu[c].alt)
  BY <1>2, InBetween
<1>4. PICK r \in Registers :
          /\ cpu' = [cpu EXCEPT ![c] = r]
          /\ r.pc = "resume" /\ r.rsp = cpu[c].rsp /\ r.state = s /\ r.top = s
          /\ r.gs = cpu[c].gs /\ r.alt = cpu[c].alt
  <2> DEFINE r == [cpu[c] EXCEPT !.pc = "resume", !.top = s, !.state = s]
  <2>1. "resume" \in Pcs
    BY DEF Pcs
  <2>2. r \in Registers /\ cpu' = [cpu EXCEPT ![c] = r]
    BY <1>1, <2>1 DEF Resume, AsyncKernelTop, Registers
  <2>3. /\ r.pc = "resume" /\ r.rsp = cpu[c].rsp /\ r.state = s /\ r.top = s
        /\ r.gs = cpu[c].gs /\ r.alt = cpu[c].alt
    BY <1>1 DEF Registers
  <2> HIDE DEF r
  <2>4. QED
    BY <2>2, <2>3
<1>5. /\ cpu' \in [Cpus -> Registers] /\ cpu'[c] = r
      /\ \A d \in Cpus \ {c} : cpu'[d] = cpu[d]
  BY <1>1, <1>4
<1>6. PICK o \in [life : {"none", "ready", "running"}, context : Contexts] :
          /\ state' = [state EXCEPT ![s] = o]
          /\ o.life = "running" /\ o.context = state[s].context
  <2> DEFINE o == [state[s] EXCEPT !.life = "running"]
  <2>1. state' = [state EXCEPT ![s] = o]
    BY DEF Resume
  <2>2. o \in [life : {"none", "ready", "running"}, context : Contexts]
        /\ o.life = "running" /\ o.context = state[s].context
    BY <1>1
  <2> HIDE DEF o
  <2>3. QED
    BY <2>1, <2>2
<1>7. /\ state' \in [States -> [life : {"none", "ready", "running"}, context : Contexts]]
      /\ state'[s] = o /\ \A t \in States \ {s} : state'[t] = state[t]
  BY <1>1, <1>6
<1>8. TypeInv'
  BY <1>2, <1>5, <1>7 DEF Inv, TypeInv
<1>9. \A d \in Cpus : cpu[d].state # s
  BY <1>2, StackAssumption DEF Inv, CpuInv
<1>10. ASSUME NEW d \in Cpus \ {c}
       PROVE  CpuInv(d)'
  BY <1>2, <1>5, <1>7, <1>9, <1>10, OtherCpu
<1>11. SavedOk(s)'
  <2>1. SavedOk(s)
    BY <1>2 DEF Inv, StateInv
  <2>2. QED
    BY <1>2, <1>6, <1>7, <2>1 DEF SavedOk, One, Bottom
<1>12. CpuInv(c)'
  <2>1. Between(c, r.pc, r.rsp, r.gs)'
    BY <1>2, <1>3, <1>4, <1>5, <1>11 DEF Between
  <2>2. ~InNmi(c)'
    BY <2>1 DEF InNmi, One, Between
  <2>3. QED
    BY <1>2, <1>3, <1>4, <1>5, <1>6, <1>7, <2>1, <2>2 DEF CpuInv, Doing
<1>13. ASSUME NEW t \in States, state'[t].life = "ready"
       PROVE  SavedOk(t)'
  <2>1. t # s
    BY <1>6, <1>7, <1>13
  <2>2. SavedOk(t) /\ state'[t] = state[t]
    BY <1>7, <1>13, <2>1 DEF Inv, StateInv
  <2>3. QED
    BY <1>2, <2>2 DEF SavedOk, One, Bottom
<1>14. \A d, e \in Cpus : cpu'[d].state # NoState /\ cpu'[d].state = cpu'[e].state => d = e
  BY <1>4, <1>5, <1>9 DEF Inv, StateInv
<1>15. QED
  BY <1>8, <1>10, <1>12, <1>13, <1>14 DEF Inv, StateInv

\* GS is set for where the State goes on.
LEMMA ResumeSwapStep ==
    ASSUME Inv, NEW c \in Cpus, ResumeSwap(c)
    PROVE  Inv'
<1> DEFINE b == state[cpu[c].state].context.pc = "user"
<1>1. /\ lstar \subseteq Cpus /\ ist = IF lstar = {} THEN {} ELSE {Nmi}
  BY DEF Inv, TypeInv
<1>2. cpu[c].pc = "resume" /\ UNCHANGED <<stack, state, ist, lstar, routines>>
  BY DEF ResumeSwap
<1>3. /\ Between(c, "resume", cpu[c].rsp, cpu[c].gs) /\ c \in lstar
      /\ GsPair(c, cpu[c].gs, cpu[c].alt)
  BY <1>2, InBetween
<1>4. PICK r \in Registers :
          /\ cpu' = [cpu EXCEPT ![c] = r]
          /\ r.pc = "resumeIret" /\ r.rsp = cpu[c].rsp
          /\ r.state = cpu[c].state /\ r.top = cpu[c].top
          /\ r.gs = IF b THEN cpu[c].alt ELSE cpu[c].gs
          /\ r.alt = IF b THEN cpu[c].gs ELSE cpu[c].alt
  <2>1. IF b THEN Swapgs(c, "resumeIret") ELSE Goto(c, "resumeIret")
    BY DEF ResumeSwap
  <2>2. b \in BOOLEAN /\ "resumeIret" \in Pcs
    BY DEF Pcs
  <2> HIDE DEF b
  <2>3. QED
    BY <2>1, <2>2, SwapOrNot
<1>5. Between(c, r.pc, r.rsp, r.gs) /\ GsPair(c, r.gs, r.alt)
  BY <1>3, <1>4, GsAssumption DEF Between, GsPair, UserGs
<1>6. cpu' = [cpu EXCEPT ![c] = r] /\ r.state = cpu[c].state /\ r.top = cpu[c].top
  BY <1>4
<1>7. QED
  BY <1>1, <1>2, <1>3, <1>5, <1>6, StaysBetween

\* The State goes on: in user code, in a function of the kernel, or in the routine
\* of an interrupt that it was suspended in.
LEMMA ResumeIretStep ==
    ASSUME Inv, NEW c \in Cpus, ResumeIret(c)
    PROVE  Inv'
<1> DEFINE s == cpu[c].state
           k == state[s].context
<1>1. cpu[c] \in Registers /\ stack \in [Stacks -> Seq(Frames)]
      /\ state \in [States -> [life : {"none", "ready", "running"}, context : Contexts]]
  BY DEF Inv, TypeInv
<1>2. cpu[c].pc = "resumeIret" /\ UNCHANGED <<stack, state, ist, lstar, routines>>
  BY DEF ResumeIret
<1>3. /\ Between(c, "resumeIret", cpu[c].rsp, cpu[c].gs) /\ c \in lstar
      /\ GsPair(c, cpu[c].gs, cpu[c].alt)
  BY <1>2, InBetween
<1>4. s \in States /\ SavedOk(s) /\ cpu[c].gs = IF k.pc = "user" THEN UserGs ELSE c
  BY <1>3 DEF Between
<1>5. PICK r \in Registers :
          /\ cpu' = [cpu EXCEPT ![c] = r]
          /\ r.pc = k.pc /\ r.rsp = k.rsp
          /\ r.state = s /\ r.top = cpu[c].top
          /\ r.gs = cpu[c].gs /\ r.alt = cpu[c].alt
  <2> DEFINE r == [cpu[c] EXCEPT !.pc = k.pc, !.rsp = k.rsp, !.critical = k.critical]
  <2>1. k \in Contexts
    BY <1>1, <1>4
  <2>2. k.pc \in Pcs /\ k.rsp \in Stacks \union {UserStack} /\ k.critical \in BOOLEAN
    BY <2>1 DEF Contexts
  <2>3. cpu' = [cpu EXCEPT ![c] = r]
    BY DEF ResumeIret
  <2>4. r \in Registers
    BY <1>1, <2>2 DEF Registers
  <2>5. /\ r.pc = k.pc /\ r.rsp = k.rsp
        /\ r.state = s /\ r.top = cpu[c].top
        /\ r.gs = cpu[c].gs /\ r.alt = cpu[c].alt
    BY <1>1 DEF Registers
  <2> HIDE DEF r
  <2>6. QED
    BY <2>3, <2>4, <2>5
<1>6. /\ cpu' = [cpu EXCEPT ![c] = r] /\ r.state = cpu[c].state /\ r.top = cpu[c].top
      /\ GsPair(c, r.gs, r.alt) /\ c \in lstar /\ r.state \in States
  BY <1>3, <1>4, <1>5
<1>7. /\ r.rsp = IF r.pc = "user" THEN UserStack ELSE s
      /\ r.gs = IF r.pc = "user" THEN UserGs ELSE c
  BY <1>4, <1>5 DEF SavedOk
<1>8. CASE k.pc = "routine"
  <2>1. /\ One(s) /\ FrameOf(s, Bottom(s), InState) /\ Bottom(s).swapped = Bottom(s).user
        /\ s \in Stacks
    BY <1>4, <1>8 DEF SavedOk, Stacks
  <2>2. stack[s] \in Seq(Frames) /\ Len(stack[s]) = 1
    BY <1>1, <2>1 DEF One
  <2>3. Bottom(s) \in Frames /\ stack[s] = <<Bottom(s)>>
    BY <2>2, OneFrame, OneElement DEF Bottom
  <2>4. stack' = [stack EXCEPT ![s] = <<Bottom(s)>>]
    BY <1>1, <1>2, <2>3
  <2>5. /\ r.pc = "routine" /\ r.rsp = s /\ r.gs = c /\ r.state # NoState /\ s = r.state
    BY <1>5, <1>6, <1>7, <1>8, StackAssumption
  <2>6. /\ s = IF r.state = NoState THEN c ELSE r.state
        /\ FrameOf(s, Bottom(s), IF r.state = NoState THEN {"sched"} ELSE InState)
        /\ r.gs = IF r.pc \in {"isr", "iret"} /\ Bottom(s).user THEN UserGs ELSE c
    BY <2>1, <2>5
  <2>7. r.pc = "routine" /\ r.rsp = s /\ Bottom(s).swapped = Bottom(s).user
    BY <2>1, <2>5
  <2> HIDE DEF s, k
  <2>8. QED
    BY <1>2, <1>6, <2>3, <2>4, <2>6, <2>7, StaysInterrupt
<1>9. CASE k.pc # "routine"
  <2>1. r.pc \in InState /\ stack[s] = <<>>
    BY <1>4, <1>5, <1>9 DEF SavedOk, InState
  <2>2. stack'[r.state] = <<>> /\ stack' \in [Stacks -> Seq(Frames)]
    BY <1>1, <1>2, <1>5, <2>1
  <2>3. QED
    BY <1>2, <1>5, <1>6, <1>7, <2>1, <2>2, StaysForState DEF InState
<1>10. QED
  BY <1>8, <1>9

-----------------------------------------------------------------------------
(* The theorems.                                                           *)

\* No CPU runs a State at first, and each has GS set.
LEMMA InitInv == Init => Inv
<1> SUFFICES ASSUME Init
             PROVE  Inv
  OBVIOUS
<1>1. /\ "boot" \in Pcs /\ <<>> \in Seq(Frames) /\ Len(<<>>) = 0
      /\ Context("user", UserStack, FALSE) \in Contexts
  BY DEF Pcs, Context, Contexts
<1>2. cpu \in [Cpus -> Registers]
  BY <1>1 DEF Init, Registers, Stacks
<1>3. state \in [States -> [life : {"none", "ready", "running"}, context : Contexts]]
  BY <1>1 DEF Init, NoObject
<1>4. TypeInv
  BY <1>1, <1>2, <1>3 DEF Init, TypeInv, Stacks
<1>5. \A c \in Cpus : CpuInv(c)
  BY <1>1 DEF Init, CpuInv, GsPair, InNmi, One, Doing, Between, Stacks
<1>6. StateInv
  BY DEF Init, StateInv, NoObject
<1>7. QED
  BY <1>4, <1>5, <1>6 DEF Inv

\* Every step keeps the invariant.
LEMMA NextInv == Inv /\ [Next]_vars => Inv'
<1> SUFFICES ASSUME Inv, [Next]_vars
             PROVE  Inv'
  OBVIOUS
<1>1. CASE UNCHANGED vars
  <2>1. TypeInv'
    BY <1>1 DEF vars, Inv, TypeInv
  <2>2. StateInv'
    BY <1>1 DEF vars, Inv, StateInv, SavedOk, One, Bottom
  <2>3. ASSUME NEW d \in Cpus
        PROVE  CpuInv(d)'
    BY <1>1, OtherCpu DEF vars
  <2>4. QED
    BY <2>1, <2>2, <2>3 DEF Inv
<1>2. ASSUME NEW c \in Cpus, NEW v \in Vectors, Interrupt(c, v)
      PROVE  Inv'
  BY <1>2, NmiStep, InterruptStep, SysretFaults
<1>3. QED
  BY <1>1, <1>2, KernelSteps, SyscallSteps, SyscallStackStep, ReturnSteps, EnterScopeStep,
     LeaveSteps, IretStep, SuspendStep, ResumeStep, ResumeSwapStep, ResumeIretStep,
     ObjectSteps DEF Next

\* The invariant holds in every reachable state.
LEMMA InvHolds == Spec => []Inv
<1>1. QED
  BY InitInv, NextInv, PTL DEF Spec

\* SwapScope, the handler of system calls and State::Resume leave GS at the data
\* of the CPU in the kernel and at that of user code outside, wherever an
\* interrupt, an NMI or a migration falls, except in the handler of a sysret that
\* faults (handler.s:23), which has the GS of user code.
THEOREM GsIsAlwaysOwn == Spec => []GsIsOwn
<1>1. Inv => GsIsOwn
  <2> SUFFICES ASSUME Inv, NEW c \in Cpus
               PROVE  /\ {cpu[c].gs, cpu[c].alt} = {c, UserGs}
                      /\ cpu[c].pc \in {"routine", "handler", "kernel", "sched", "panic"}
                            => cpu[c].gs = c
                      /\ cpu[c].pc \in {"user", "lost"} => cpu[c].gs = UserGs
    BY DEF GsIsOwn
  <2>1. CpuInv(c)
    BY DEF Inv
  <2>2. {cpu[c].gs, cpu[c].alt} = {c, UserGs}
    BY <2>1 DEF CpuInv, GsPair
  <2>3. CASE InNmi(c)
    BY <2>1, <2>2, <2>3 DEF CpuInv, NmiOk
  <2>4. CASE ~InNmi(c)
    BY <2>1, <2>2, <2>4 DEF CpuInv, Doing, Between, ForState, ForInterrupt
  <2>5. QED
    BY <2>3, <2>4
<1>2. QED
  BY <1>1, InvHolds, PTL

\* Cpu::SetAsyncKernelTop and State::Resume keep an empty stack of the State that
\* runs ready for the next entry from user code.
THEOREM EntryStackIsFree == Spec => []EntryStackFree
<1>1. Inv => EntryStackFree
  <2> SUFFICES ASSUME Inv, NEW c \in Cpus,
                      cpu[c].pc \in {"user", "syscall", "syscallStack"}
               PROVE  cpu[c].top = cpu[c].state /\ stack[cpu[c].top] = <<>>
    BY DEF EntryStackFree
  <2>1. QED
    BY InForState DEF ForState
<1>2. QED
  BY <1>1, InvHolds, PTL

\* What a step of a CPU does to where it is, when it gets lost.
LEMMA GetsLost ==
    ASSUME Inv, Next, NEW c \in Cpus, cpu[c].pc # "lost", cpu'[c].pc = "lost"
    PROVE  cpu[c].pc = "sysret" /\ Interrupt(c, GeneralProtection)
<1>1. /\ cpu \in [Cpus -> Registers]
      /\ ist = IF lstar = {} THEN {} ELSE {Nmi}
  BY DEF Inv, TypeInv
<1>2. ASSUME NEW d \in Cpus,
             \/ SetCpuRegisters(d) \/ RunSync(d) \/ Syscall(d)
             \/ HandlerReturns(d) \/ Sysret(d) \/ SuspendAndCall(d)
             \/ \E b \in BOOLEAN : SetCritical(d, b)
             \/ \E s \in States : Resume(d, s)
      PROVE  cpu'[c].pc \in {cpu[c].pc, "sched", "syscall", "return", "user", "resume"}
  <2>1. CASE SetCpuRegisters(d)
    BY <2>1 DEF SetCpuRegisters
  <2>2. CASE RunSync(d)
    BY <1>1, <2>2 DEF RunSync, Registers
  <2>3. CASE Syscall(d)
    BY <1>1, <2>3 DEF Syscall, Registers
  <2>4. CASE HandlerReturns(d) \/ Sysret(d)
    BY <1>1, <2>4 DEF HandlerReturns, Sysret, Registers
  <2>5. CASE SuspendAndCall(d)
    BY <1>1, <2>5 DEF SuspendAndCall, Registers
  <2>6. CASE \E b \in BOOLEAN : SetCritical(d, b)
    BY <1>1, <2>6 DEF SetCritical, Registers
  <2>7. CASE \E s \in States : Resume(d, s)
    BY <1>1, <2>7 DEF Resume, Registers
  <2>8. QED
    BY <1>2, <2>1, <2>2, <2>3, <2>4, <2>5, <2>6, <2>7
<1>3. ASSUME NEW d \in Cpus,
             \/ SyscallSwap(d) \/ ReturnSwap(d) \/ EnterScope(d)
             \/ RoutineReturns(d) \/ LeaveScope(d) \/ ResumeSwap(d)
      PROVE  FALSE
  <2>1. ASSUME NEW p, p # "lost", Swapgs(d, p) \/ Goto(d, p)
        PROVE  FALSE
    BY <1>1, <2>1 DEF Swapgs, Goto, Registers
  <2>2. QED
    BY <1>3, <2>1 DEF SyscallSwap, ReturnSwap, EnterScope, RoutineReturns, LeaveScope, ResumeSwap
<1>4. ASSUME NEW d \in Cpus, SyscallStack(d)
      PROVE  FALSE
  <2>1. cpu[d].gs = d
    BY <1>4, InForState DEF SyscallStack, ForState
  <2>2. QED
    BY <1>1, <1>4, <2>1 DEF SyscallStack, Registers
<1>5. ASSUME NEW d \in Cpus, Iret(d)
      PROVE  FALSE
  <2> DEFINE f == Top(cpu[d].rsp)
  <2>1. cpu[d].pc = "iret"
    BY <1>5 DEF Iret
  <2>2. f.vector \in Vectors /\ f.words = Pushed(f.vector) /\ f.context.pc # "lost"
    <3>1. CASE InNmi(d)
      BY <3>1, HandlesNmi DEF InNmi, NmiOk, Frames, Pushed, PushesCode, Nmi
    <3>2. CASE ~InNmi(d)
      BY <2>1, <3>2, InInterrupt DEF ForInterrupt, FrameOf, InState, Frames
    <3>3. QED
      BY <3>1, <3>2
  <2>3. f.words - Discarded(f.vector) = 5
    BY <2>2 DEF Vectors, Nmi, GeneralProtection, PageFault, Timer, Spurious, Pushed,
                PushesCode, Discarded, HasCode
  <2>4. cpu' = [cpu EXCEPT ![d].pc = f.context.pc, ![d].rsp = f.context.rsp,
                           ![d].critical = f.context.critical]
    BY <1>5, <2>3 DEF Iret
  <2> HIDE DEF f
  <2>5. QED
    BY <1>1, <2>2, <2>4 DEF Registers
<1>6. ASSUME NEW d \in Cpus, ResumeIret(d)
      PROVE  FALSE
  <2>1. state[cpu[d].state].context.pc # "lost"
    BY <1>6, InBetween DEF ResumeIret, Between, SavedOk
  <2>2. QED
    BY <1>1, <1>6, <2>1 DEF ResumeIret, Registers
<1>7. ASSUME NEW d \in Cpus, NEW v \in Vectors, Interrupt(d, v)
      PROVE  cpu[c].pc = "sysret" /\ Interrupt(c, GeneralProtection)
  <2>1. d = c
    BY <1>1, <1>7 DEF Interrupt, Goto, Registers
  <2>2. StackFor(c, v) = UserStack
    BY <1>1, <1>7, <2>1 DEF Interrupt, Registers
  <2>3. v # Nmi
    <3>1. SUFFICES ASSUME v = Nmi
                   PROVE  FALSE
      OBVIOUS
    <3>2. cpu[c].rsp # c /\ cpu[c].state # NoState /\ CpuInv(c)
      BY <1>7, <2>1, <3>1 DEF Interrupt, MayCome, Nmi, GeneralProtection, PageFault, Inv
    <3>3. c \in lstar
      BY <3>2 DEF CpuInv, InNmi, Doing, Between, ForState, ForInterrupt
    <3>4. QED
      BY <1>1, <2>2, <3>1, <3>3, StackAssumption DEF StackFor
  <2>4. cpu[c].pc \in InCode \union {"sysret"}
    BY <1>7, <2>1, <2>3 DEF Interrupt, MayCome, InCode
  <2>5. cpu[c].pc \notin InCode
    <3>1. StackFor(c, v) = IF cpu[c].pc = "user" THEN cpu[c].top ELSE cpu[c].rsp
      BY <1>1, <2>3 DEF StackFor, IsFromUser
    <3>2. cpu[c].pc = "sched" => cpu[c].rsp = c
      BY InBetween DEF Between
    <3>3. cpu[c].pc \in InState => cpu[c].top \in States /\ cpu[c].top = cpu[c].state
      BY InForState DEF ForState, InState
    <3>4. cpu[c].pc \in {"handler", "kernel"} => cpu[c].rsp = cpu[c].state
      BY InForState DEF ForState
    <3>5. QED
      BY <2>2, <3>1, <3>2, <3>3, <3>4, StackAssumption DEF InCode, InState
  <2>6. cpu[c].pc = "sysret"
    BY <2>4, <2>5
  <2>7. QED
    BY <1>7, <2>1, <2>3, <2>6, SysretFaults
<1>8. QED
  <2>1. ASSUME NEW s \in States, New(s) \/ Delete(s)
        PROVE  FALSE
    BY <2>1 DEF New, Delete
  <2>2. QED
    BY <1>2, <1>4, <1>5, <1>6, <1>7, <1>3, <2>1 DEF Next

\* No entry or exit of the kernel uses a stack pointer of user code, or a frame
\* that does not have the words that iretq takes, except the fault of a sysret to
\* an address that is not canonical (handler.s:23).
THEOREM IsLostOnlyBySysret == Spec => LostOnlyBySysret
<1>1. Inv /\ [Next]_vars =>
         [\A c \in Cpus :
            cpu[c].pc # "lost" /\ cpu'[c].pc = "lost" =>
                cpu[c].pc = "sysret" /\ Interrupt(c, GeneralProtection)]_vars
  BY GetsLost
<1>2. QED
  BY <1>1, InvHolds, PTL DEF Spec, LostOnlyBySysret

=============================================================================
