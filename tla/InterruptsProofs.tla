--------------------------- MODULE InterruptsProofs ---------------------------
(***************************************************************************)
(* Proofs about Interrupts, for any number of CPUs and pins and any table  *)
(* that gives the two lines pins of their own.                             *)
(***************************************************************************)
EXTENDS Interrupts, TLAPS

-----------------------------------------------------------------------------
(* The inductive invariant.                                                *)

Lines == {PitIrq, DriverIrq}

VectorOf(irq) == IF irq = PitIrq THEN Pit ELSE Driver

\* What MapIrq writes, and what it has yet to write after each access.
Mapped(irq)  == Entry(FALSE, VectorOf(irq), Flags(irq))
MapAll(irq)  == EntryWrites(Pin(irq), Mapped(irq))
MapHigh(irq) == <<Write("high", Pin(irq), Boot), Write("low", Pin(irq), Mapped(irq))>>
MapLow(irq)  == <<Write("low", Pin(irq), Mapped(irq))>>
Mask(pin)    == <<Write("low", pin, MaskedEntry)>>
Version      == <<Write("version", 0, 0)>>

\* The pin of the register that is next.
PinOf(writes) == Head(writes).reg[2]

\* Where a CPU is in an operation of the I/O APIC, where it goes on after it, and
\* where it may be interrupted.
Accessing  == {"reg", "data"}
Operating  == {"table", "reg", "data"}
Resumable  == {"idle", "window", "pitMap", "pitMask", "maskPins", "clockDone"}
Afterwards == {"idle", "maskPins", "clockDone"}
Stopped    == {"send", "halted"}
CpuPcs     == Operating \union Resumable \union Stopped \union {"isr", "iret", "routine", "haltCpu",
                                                         "wait"}

CpuStates(todos) ==
    [pc : CpuPcs, critical : BOOLEAN, todo : todos, next : Afterwards, saved : Resumable, vector : Int]

\* The vectors that are requested of a local APIC.
Requests == {Pit, Invlpg, Driver, PanicIpi}

Entries == [masked : BOOLEAN, vector : Int, flags : Int]

CpuType == cpu \in [Cpus -> CpuStates({cpu[c].todo : c \in Cpus})]

TypeInv ==
    /\ CpuType
    /\ low \in [Pins -> Entries] /\ want \in [Pins -> Entries] /\ high \in [Pins -> Cpus]
    /\ irr \in [Cpus -> SUBSET Requests]
    /\ ready \subseteq Modules
    /\ idt \in {"none", "pic", "isr"}
    /\ tableLock \in Cpus \union {NoCpu} /\ regLock \in Cpus \union {NoCpu}

\* The locks, and what a CPU that is using the I/O APIC has yet to write.
LockInv(c) ==
    /\ tableLock = c <=> cpu[c].pc \in Accessing /\ cpu[c].todo # Version
    /\ regLock = c <=> cpu[c].pc = "data"
    /\ cpu[c].pc = "data" => sel = Head(cpu[c].todo).reg
    /\ cpu[c].pc = "table" =>
          (\E irq \in Lines : cpu[c].todo = MapAll(irq) /\ VectorOf(irq) \in routines)
             \/ cpu[c].todo = Mask(PinOf(cpu[c].todo))

\* The entry that the holder of the table lock is writing: it is masked before its
\* destination changes.
WriteInv(c) ==
    cpu[c].pc \in Accessing /\ cpu[c].todo # Version =>
        \/ \E irq \in Lines :
              /\ VectorOf(irq) \in routines
              /\ want[Pin(irq)] = Mapped(irq)
              /\ \A p \in Pins \ {Pin(irq)} : low[p] = want[p]
              /\ \/ cpu[c].todo = MapAll(irq)
                 \/ cpu[c].todo = MapHigh(irq) /\ low[Pin(irq)] = MaskedEntry
                 \/ cpu[c].todo = MapLow(irq) /\ low[Pin(irq)] = MaskedEntry /\ high[Pin(irq)] = Boot
        \/ LET p == PinOf(cpu[c].todo) IN
              /\ cpu[c].todo = Mask(p)
              /\ p \in Pins => want[p] = MaskedEntry
              /\ \A q \in Pins \ {p} : low[q] = want[q]

\* The entries: one that is not masked is that of a line whose routine is set.
EntryInv ==
    /\ \A p \in Pins : ~low[p].masked =>
          /\ high[p] = Boot
          /\ \E irq \in Lines : p = Pin(irq) /\ low[p] = Mapped(irq) /\ VectorOf(irq) \in routines
    /\ tableLock = NoCpu => low = want

IoInv == (\A c \in Cpus : LockInv(c) /\ WriteInv(c)) /\ EntryInv

\* The gates, and the modules that set them up.
GateInv ==
    /\ picBase = IF "pic" \in ready THEN PicVectors ELSE 8
    /\ idt # "none" => "pic" \in ready
    /\ {"critical", "ioapic", "domains"} \intersect ready # {} \/ routines # {} => idt # "none"
    /\ "panic" \in ready => PanicIpi \in routines
    /\ "tlb" \in ready => Invlpg \in routines

\* No CPU is interrupted before there are gates, or by a vector nobody handles.
HandledInv(c) ==
    /\ irr[c] \subseteq routines
    /\ ~cpu[c].critical \/ cpu[c].pc \notin Stopped \union {"idle"} => idt # "none"
    /\ cpu[c].pc = "isr" => cpu[c].vector \in routines \/ cpu[c].vector >= PicVectors
    /\ cpu[c].pc = "pitMap" \/ cpu[c].saved = "pitMap" => Pit \in routines
    /\ cpu[c].pc = "send" /\ cpu[c].todo # <<>> => PanicIpi \in routines

Inv == TypeInv /\ IoInv /\ GateInv /\ \A c \in Cpus : HandledInv(c)

-----------------------------------------------------------------------------
(* What a CPU has yet to write.                                            *)

LEMMA OneWrite ==
    ASSUME NEW w
    PROVE  Head(<<w>>) = w /\ Tail(<<w>>) = <<>> /\ <<w>>[Len(<<w>>)] = w /\ <<w>> # <<>>
  OBVIOUS

LEMMA Registers ==
    ASSUME NEW word, NEW pin, NEW value
    PROVE  /\ Write(word, pin, value).reg = <<word, pin>> /\ Write(word, pin, value).value = value
           /\ Write(word, pin, value).reg[1] = word /\ Write(word, pin, value).reg[2] = pin
  BY DEF Write

\* The writes of an operation, from the first to the last one.
LEMMA Writes ==
    /\ \A irq :
          /\ Head(MapAll(irq)) = Write("low", Pin(irq), MaskedEntry) /\ Tail(MapAll(irq)) = MapHigh(irq)
          /\ MapAll(irq)[Len(MapAll(irq))] = Write("low", Pin(irq), Mapped(irq))
          /\ Head(MapHigh(irq)) = Write("high", Pin(irq), Boot) /\ Tail(MapHigh(irq)) = MapLow(irq)
          /\ Head(MapLow(irq)) = Write("low", Pin(irq), Mapped(irq)) /\ Tail(MapLow(irq)) = <<>>
          /\ MapHigh(irq) # <<>> /\ MapLow(irq) # <<>>
    /\ \A p : /\ Head(Mask(p)) = Write("low", p, MaskedEntry) /\ Tail(Mask(p)) = <<>>
              /\ Mask(p)[Len(Mask(p))] = Write("low", p, MaskedEntry)
              /\ PinOf(Mask(p)) = p
    /\ Head(Version) = Write("version", 0, 0) /\ Tail(Version) = <<>>
<1>1. ASSUME NEW irq
      PROVE  /\ Head(MapAll(irq)) = Write("low", Pin(irq), MaskedEntry)
             /\ Tail(MapAll(irq)) = MapHigh(irq)
             /\ MapAll(irq)[Len(MapAll(irq))] = Write("low", Pin(irq), Mapped(irq))
             /\ Head(MapHigh(irq)) = Write("high", Pin(irq), Boot) /\ Tail(MapHigh(irq)) = MapLow(irq)
             /\ Head(MapLow(irq)) = Write("low", Pin(irq), Mapped(irq)) /\ Tail(MapLow(irq)) = <<>>
             /\ MapHigh(irq) # <<>> /\ MapLow(irq) # <<>>
  BY DEF MapAll, MapHigh, MapLow, EntryWrites
<1>2. ASSUME NEW p
      PROVE  /\ Head(Mask(p)) = Write("low", p, MaskedEntry) /\ Tail(Mask(p)) = <<>>
             /\ Mask(p)[Len(Mask(p))] = Write("low", p, MaskedEntry)
             /\ PinOf(Mask(p)) = p
  BY OneWrite, Registers DEF Mask, PinOf
<1>3. Head(Version) = Write("version", 0, 0) /\ Tail(Version) = <<>>
  BY OneWrite DEF Version
<1>4. QED
  BY <1>1, <1>2, <1>3

\* None of these is a read of the version.
LEMMA NotVersion ==
    /\ \A irq : MapAll(irq) # Version /\ MapHigh(irq) # Version /\ MapLow(irq) # Version
    /\ \A p : Mask(p) # Version
  BY Writes, Registers

-----------------------------------------------------------------------------
(* The state of a CPU.                                                     *)

\* A step that gives the fields of CPU c these values.
Becomes(c, pc, critical, todo, next, saved, vector) ==
    /\ CpuType'
    /\ cpu'[c].pc = pc /\ cpu'[c].critical = critical /\ cpu'[c].todo = todo
    /\ cpu'[c].next = next /\ cpu'[c].saved = saved /\ cpu'[c].vector = vector
    /\ \A d \in Cpus \ {c} : cpu'[d] = cpu[d]

\* How Panic, SendPanic, OpenWindow (as well as Ask and Answered) and Access change it.
Halting(c, p, t)        == cpu' = [cpu EXCEPT ![c].pc = p, ![c].critical = TRUE, ![c].todo = t]
Sending(c, t)           == cpu' = [cpu EXCEPT ![c].todo = t]
Opening(c, p, k)        == cpu' = [cpu EXCEPT ![c].pc = p, ![c].critical = k]
Accessed(c, t, p, n, k) ==
    cpu' = [cpu EXCEPT ![c].todo = t, ![c].pc = p, ![c].next = n, ![c].critical = k]

\* One field at a time.
LEMMA SetField ==
    ASSUME NEW T, NEW f \in [Cpus -> CpuStates(T)], NEW c \in Cpus
    PROVE  /\ \A p \in CpuPcs : [f EXCEPT ![c].pc = p] \in [Cpus -> CpuStates(T)]
           /\ \A k \in BOOLEAN : [f EXCEPT ![c].critical = k] \in [Cpus -> CpuStates(T)]
           /\ \A t \in T : [f EXCEPT ![c].todo = t] \in [Cpus -> CpuStates(T)]
           /\ \A n \in Afterwards : [f EXCEPT ![c].next = n] \in [Cpus -> CpuStates(T)]
           /\ \A s \in Resumable : [f EXCEPT ![c].saved = s] \in [Cpus -> CpuStates(T)]
           /\ \A v \in Int : [f EXCEPT ![c].vector = v] \in [Cpus -> CpuStates(T)]
<1>1. ASSUME NEW p \in CpuPcs
      PROVE  [f EXCEPT ![c].pc = p] \in [Cpus -> CpuStates(T)]
  <2>1. [f[c] EXCEPT !.pc = p] \in CpuStates(T)
    BY DEF CpuStates
  <2>2. QED
    BY <2>1
<1>2. ASSUME NEW k \in BOOLEAN
      PROVE  [f EXCEPT ![c].critical = k] \in [Cpus -> CpuStates(T)]
  <2>1. [f[c] EXCEPT !.critical = k] \in CpuStates(T)
    BY DEF CpuStates
  <2>2. QED
    BY <2>1
<1>3. ASSUME NEW t \in T
      PROVE  [f EXCEPT ![c].todo = t] \in [Cpus -> CpuStates(T)]
  <2>1. [f[c] EXCEPT !.todo = t] \in CpuStates(T)
    BY DEF CpuStates
  <2>2. QED
    BY <2>1
<1>4. ASSUME NEW n \in Afterwards
      PROVE  [f EXCEPT ![c].next = n] \in [Cpus -> CpuStates(T)]
  <2>1. [f[c] EXCEPT !.next = n] \in CpuStates(T)
    BY DEF CpuStates
  <2>2. QED
    BY <2>1
<1>5. ASSUME NEW s \in Resumable
      PROVE  [f EXCEPT ![c].saved = s] \in [Cpus -> CpuStates(T)]
  <2>1. [f[c] EXCEPT !.saved = s] \in CpuStates(T)
    BY DEF CpuStates
  <2>2. QED
    BY <2>1
<1>6. ASSUME NEW v \in Int
      PROVE  [f EXCEPT ![c].vector = v] \in [Cpus -> CpuStates(T)]
  <2>1. [f[c] EXCEPT !.vector = v] \in CpuStates(T)
    BY DEF CpuStates
  <2>2. QED
    BY <2>1
<1>7. QED
  BY <1>1, <1>2, <1>3, <1>4, <1>5, <1>6

\* The set of the sequences does not matter.
LEMMA Typed ==
    ASSUME NEW T, NEW f \in [Cpus -> CpuStates(T)]
    PROVE  f \in [Cpus -> CpuStates({f[d].todo : d \in Cpus})]
<1> DEFINE U == {f[d].todo : d \in Cpus}
<1>1. ASSUME NEW d \in Cpus
      PROVE  f[d] \in CpuStates(U)
  <2>1. f[d] \in CpuStates(T) /\ f[d].todo \in U
    OBVIOUS
  <2> HIDE DEF U
  <2>2. QED
    BY <2>1 DEF CpuStates
<1>2. QED
  BY <1>1

LEMMA Widened ==
    ASSUME CpuType, NEW t
    PROVE  \E T : t \in T /\ cpu \in [Cpus -> CpuStates(T)]
<1> DEFINE T == {cpu[c].todo : c \in Cpus} \union {t}
<1>1. cpu \in [Cpus -> CpuStates(T)]
  BY DEF CpuType, CpuStates
<1>2. QED
  BY <1>1

\* The fields of a CPU.
LEMMA Fields ==
    ASSUME CpuType, NEW c \in Cpus
    PROVE  /\ cpu[c].pc \in CpuPcs /\ cpu[c].critical \in BOOLEAN
           /\ cpu[c].next \in Afterwards /\ cpu[c].saved \in Resumable /\ cpu[c].vector \in Int
  BY DEF CpuType, CpuStates

\* What the actions do with the fields.
LEMMA GotoBecomes ==
    ASSUME CpuType, NEW c \in Cpus, NEW p \in CpuPcs, Goto(c, p)
    PROVE  Becomes(c, p, cpu[c].critical, cpu[c].todo, cpu[c].next, cpu[c].saved, cpu[c].vector)
<1>1. PICK T : <<>> \in T /\ cpu \in [Cpus -> CpuStates(T)]
  BY Widened
<1>2. cpu' \in [Cpus -> CpuStates(T)]
  BY <1>1, SetField DEF Goto
<1>3. CpuType'
  BY <1>2, Typed DEF CpuType
<1>4. QED
  BY <1>1, <1>3 DEF Becomes, Goto, CpuStates

LEMMA OperateBecomes ==
    ASSUME CpuType, NEW c \in Cpus, NEW t, NEW n \in Afterwards, Operate(c, t, n)
    PROVE  Becomes(c, "table", TRUE, t, n, cpu[c].saved, cpu[c].vector)
<1>1. PICK T : t \in T /\ cpu \in [Cpus -> CpuStates(T)]
  BY Widened
<1>2. cpu' \in [Cpus -> CpuStates(T)]
  <2> DEFINE f == [cpu EXCEPT ![c].pc = "table"]
             g == [f EXCEPT ![c].critical = TRUE]
             h == [g EXCEPT ![c].todo = t]
  <2>1. cpu' = [h EXCEPT ![c].next = n]
    BY DEF Operate
  <2>2. f \in [Cpus -> CpuStates(T)]
    BY <1>1, Fields, SetField DEF CpuPcs, Operating, Resumable, Stopped
  <2> HIDE DEF f
  <2>3. g \in [Cpus -> CpuStates(T)]
    BY <1>1, <2>2, Fields, SetField DEF CpuPcs, Operating, Resumable, Stopped
  <2> HIDE DEF g
  <2>4. h \in [Cpus -> CpuStates(T)]
    BY <1>1, <2>3, Fields, SetField DEF CpuPcs, Operating, Resumable, Stopped
  <2> HIDE DEF h
  <2>5. QED
    BY <2>1, <2>4, SetField
<1>3. CpuType'
  BY <1>2, Typed DEF CpuType
<1>4. QED
  BY <1>1, <1>3 DEF Becomes, Operate, CpuStates

LEMMA ReadRegBecomes ==
    ASSUME CpuType, NEW c \in Cpus, ReadReg(c)
    PROVE  Becomes(c, "reg", TRUE, Version, "idle", cpu[c].saved, cpu[c].vector)
<1>1. PICK T : Version \in T /\ cpu \in [Cpus -> CpuStates(T)]
  BY Widened
<1>2. cpu' \in [Cpus -> CpuStates(T)]
  <2> DEFINE f == [cpu EXCEPT ![c].pc = "reg"]
             g == [f EXCEPT ![c].critical = TRUE]
             h == [g EXCEPT ![c].todo = Version]
  <2>1. cpu' = [h EXCEPT ![c].next = "idle"]
    BY DEF ReadReg, Version
  <2>2. f \in [Cpus -> CpuStates(T)]
    BY <1>1, Fields, SetField DEF CpuPcs, Operating, Resumable, Stopped, Afterwards
  <2> HIDE DEF f
  <2>3. g \in [Cpus -> CpuStates(T)]
    BY <1>1, <2>2, Fields, SetField DEF CpuPcs, Operating, Resumable, Stopped, Afterwards
  <2> HIDE DEF g
  <2>4. h \in [Cpus -> CpuStates(T)]
    BY <1>1, <2>3, Fields, SetField DEF CpuPcs, Operating, Resumable, Stopped, Afterwards
  <2> HIDE DEF h
  <2>5. QED
    BY <2>1, <2>4, SetField DEF Afterwards
<1>3. CpuType'
  BY <1>2, Typed DEF CpuType
<1>4. QED
  BY <1>1, <1>3 DEF Becomes, ReadReg, Version, CpuStates

LEMMA VectorBecomes ==
    ASSUME CpuType, NEW c \in Cpus, NEW v \in Int, cpu[c].pc \in Resumable, Vector(c, v)
    PROVE  Becomes(c, "isr", TRUE, cpu[c].todo, cpu[c].next, cpu[c].pc, v)
<1>1. PICK T : <<>> \in T /\ cpu \in [Cpus -> CpuStates(T)]
  BY Widened
<1>2. cpu' \in [Cpus -> CpuStates(T)]
  <2> DEFINE f == [cpu EXCEPT ![c].pc = "isr"]
             g == [f EXCEPT ![c].saved = cpu[c].pc]
             h == [g EXCEPT ![c].vector = v]
  <2>1. cpu' = [h EXCEPT ![c].critical = TRUE]
    BY DEF Vector
  <2>2. f \in [Cpus -> CpuStates(T)]
    BY <1>1, Fields, SetField DEF CpuPcs
  <2> HIDE DEF f
  <2>3. g \in [Cpus -> CpuStates(T)]
    BY <1>1, <2>2, Fields, SetField DEF CpuPcs
  <2> HIDE DEF g
  <2>4. h \in [Cpus -> CpuStates(T)]
    BY <1>1, <2>3, Fields, SetField DEF CpuPcs
  <2> HIDE DEF h
  <2>5. QED
    BY <2>1, <2>4, SetField
<1>3. CpuType'
  BY <1>2, Typed DEF CpuType
<1>4. QED
  BY <1>1, <1>3 DEF Becomes, Vector, CpuStates

LEMMA IretBecomes ==
    ASSUME CpuType, NEW c \in Cpus, Iret(c)
    PROVE  Becomes(c, cpu[c].saved, FALSE, cpu[c].todo, cpu[c].next, "idle", cpu[c].vector)
<1>1. PICK T : <<>> \in T /\ cpu \in [Cpus -> CpuStates(T)]
  BY Widened
<1>2. cpu' \in [Cpus -> CpuStates(T)]
  <2> DEFINE f == [cpu EXCEPT ![c].pc = cpu[c].saved]
             g == [f EXCEPT ![c].critical = FALSE]
  <2>1. cpu' = [g EXCEPT ![c].saved = "idle"]
    BY DEF Iret
  <2>2. f \in [Cpus -> CpuStates(T)]
    BY <1>1, Fields, SetField DEF CpuPcs, Resumable
  <2> HIDE DEF f
  <2>3. g \in [Cpus -> CpuStates(T)]
    BY <1>1, <2>2, Fields, SetField DEF CpuPcs, Resumable
  <2> HIDE DEF g
  <2>4. QED
    BY <2>1, <2>3, SetField DEF Resumable
<1>3. CpuType'
  BY <1>2, Typed DEF CpuType
<1>4. QED
  BY <1>1, <1>3 DEF Becomes, Iret, CpuStates

LEMMA HandleBecomes ==
    ASSUME CpuType, NEW c \in Cpus, NEW p \in CpuPcs, NEW v \in Int, Handle(c, p, v)
    PROVE  Becomes(c, p, cpu[c].critical, cpu[c].todo, cpu[c].next, cpu[c].saved, v)
<1>1. PICK T : <<>> \in T /\ cpu \in [Cpus -> CpuStates(T)]
  BY Widened
<1>2. cpu' \in [Cpus -> CpuStates(T)]
  <2> DEFINE f == [cpu EXCEPT ![c].pc = p]
  <2>1. cpu' = [f EXCEPT ![c].vector = v]
    BY DEF Handle
  <2>2. f \in [Cpus -> CpuStates(T)]
    BY <1>1, SetField
  <2> HIDE DEF f
  <2>3. QED
    BY <2>1, <2>2, SetField
<1>3. CpuType'
  BY <1>2, Typed DEF CpuType
<1>4. QED
  BY <1>1, <1>3 DEF Becomes, Handle, CpuStates

LEMMA HaltBecomes ==
    ASSUME CpuType, NEW c \in Cpus, HaltCpu(c)
    PROVE  Becomes(c, "halted", cpu[c].critical, cpu[c].todo, cpu[c].next, "idle", cpu[c].vector)
<1>1. PICK T : <<>> \in T /\ cpu \in [Cpus -> CpuStates(T)]
  BY Widened
<1>2. cpu' \in [Cpus -> CpuStates(T)]
  <2> DEFINE f == [cpu EXCEPT ![c].pc = "halted"]
  <2>1. cpu' = [f EXCEPT ![c].saved = "idle"]
    BY DEF HaltCpu
  <2>2. f \in [Cpus -> CpuStates(T)]
    BY <1>1, SetField DEF CpuPcs, Stopped
  <2> HIDE DEF f
  <2>3. QED
    BY <2>1, <2>2, SetField DEF Resumable
<1>3. CpuType'
  BY <1>2, Typed DEF CpuType
<1>4. QED
  BY <1>1, <1>3 DEF Becomes, HaltCpu, CpuStates

LEMMA PanicBecomes ==
    ASSUME CpuType, NEW c \in Cpus, NEW p \in Stopped, NEW t, Halting(c, p, t)
    PROVE  Becomes(c, p, TRUE, t, cpu[c].next, cpu[c].saved, cpu[c].vector)
<1>1. PICK T : t \in T /\ cpu \in [Cpus -> CpuStates(T)]
  BY Widened
<1>2. cpu' \in [Cpus -> CpuStates(T)]
  <2> DEFINE f == [cpu EXCEPT ![c].pc = p]
             g == [f EXCEPT ![c].critical = TRUE]
  <2>1. cpu' = [g EXCEPT ![c].todo = t]
    BY DEF Halting
  <2>2. f \in [Cpus -> CpuStates(T)]
    BY <1>1, Fields, SetField DEF CpuPcs
  <2> HIDE DEF f
  <2>3. g \in [Cpus -> CpuStates(T)]
    BY <1>1, <2>2, Fields, SetField DEF CpuPcs
  <2> HIDE DEF g
  <2>4. QED
    BY <1>1, <2>1, <2>3, SetField
<1>3. CpuType'
  BY <1>2, Typed DEF CpuType
<1>4. QED
  BY <1>1, <1>3 DEF Becomes, Halting, CpuStates

LEMMA SendBecomes ==
    ASSUME CpuType, NEW c \in Cpus, NEW t, Sending(c, t)
    PROVE  Becomes(c, cpu[c].pc, cpu[c].critical, t, cpu[c].next, cpu[c].saved, cpu[c].vector)
<1>1. PICK T : t \in T /\ cpu \in [Cpus -> CpuStates(T)]
  BY Widened
<1>2. cpu' \in [Cpus -> CpuStates(T)]
  BY <1>1, SetField DEF Sending
<1>3. CpuType'
  BY <1>2, Typed DEF CpuType
<1>4. QED
  BY <1>1, <1>3 DEF Becomes, Sending, CpuStates

LEMMA WindowBecomes ==
    ASSUME CpuType, NEW c \in Cpus, NEW p \in CpuPcs, NEW k \in BOOLEAN, Opening(c, p, k)
    PROVE  Becomes(c, p, k, cpu[c].todo, cpu[c].next, cpu[c].saved, cpu[c].vector)
<1>1. PICK T : <<>> \in T /\ cpu \in [Cpus -> CpuStates(T)]
  BY Widened
<1>2. cpu' \in [Cpus -> CpuStates(T)]
  <2> DEFINE f == [cpu EXCEPT ![c].pc = p]
  <2>1. cpu' = [f EXCEPT ![c].critical = k]
    BY DEF Opening
  <2>2. f \in [Cpus -> CpuStates(T)]
    BY <1>1, SetField
  <2> HIDE DEF f
  <2>3. QED
    BY <2>1, <2>2, SetField
<1>3. CpuType'
  BY <1>2, Typed DEF CpuType
<1>4. QED
  BY <1>1, <1>3 DEF Becomes, Opening, CpuStates

LEMMA AccessBecomes ==
    ASSUME CpuType, NEW c \in Cpus, NEW t, NEW p \in CpuPcs, NEW n \in Afterwards, NEW k \in BOOLEAN,
           Accessed(c, t, p, n, k)
    PROVE  Becomes(c, p, k, t, n, cpu[c].saved, cpu[c].vector)
<1>1. PICK T : t \in T /\ cpu \in [Cpus -> CpuStates(T)]
  BY Widened
<1>2. cpu' \in [Cpus -> CpuStates(T)]
  <2> DEFINE f == [cpu EXCEPT ![c].todo = t]
             g == [f EXCEPT ![c].pc = p]
             h == [g EXCEPT ![c].next = n]
  <2>1. cpu' = [h EXCEPT ![c].critical = k]
    BY DEF Accessed
  <2>2. f \in [Cpus -> CpuStates(T)]
    BY <1>1, Fields, SetField
  <2> HIDE DEF f
  <2>3. g \in [Cpus -> CpuStates(T)]
    BY <1>1, <2>2, Fields, SetField
  <2> HIDE DEF g
  <2>4. h \in [Cpus -> CpuStates(T)]
    BY <1>1, <2>3, Fields, SetField
  <2> HIDE DEF h
  <2>5. QED
    BY <2>1, <2>4, SetField
<1>3. CpuType'
  BY <1>2, Typed DEF CpuType
<1>4. QED
  BY <1>1, <1>3 DEF Becomes, Accessed, CpuStates

-----------------------------------------------------------------------------
(* Steps outside the operations of the I/O APIC.                           *)

\* CPU c is not in an operation, and enters none or stands at the beginning of one.
Begins(c) ==
    \/ cpu[c].pc \notin Operating
    \/ /\ cpu[c].pc = "table"
       /\ \/ \E irq \in Lines : cpu[c].todo = MapAll(irq) /\ VectorOf(irq) \in routines
          \/ cpu[c].todo = Mask(PinOf(cpu[c].todo))
    \/ cpu[c].pc = "reg" /\ cpu[c].todo = Version

\* Nothing of it changes for a CPU that goes on where it is.
LEMMA Stays ==
    ASSUME UNCHANGED ioVars, routines \subseteq routines', NEW c \in Cpus, LockInv(c), WriteInv(c),
           cpu'[c].pc = cpu[c].pc, cpu'[c].todo = cpu[c].todo
    PROVE  LockInv(c)' /\ WriteInv(c)'
<1>1. LockInv(c)'
  BY DEF LockInv, ioVars
<1>2. WriteInv(c)'
  BY DEF WriteInv, ioVars
<1>3. QED
  BY <1>1, <1>2

LEMMA Enters ==
    ASSUME UNCHANGED ioVars, NEW c \in Cpus, LockInv(c), cpu[c].pc \notin Operating, Begins(c)'
    PROVE  LockInv(c)' /\ WriteInv(c)'
<1>1. tableLock # c /\ regLock # c
  BY DEF LockInv, Operating, Accessing
<1>2. LockInv(c)'
  BY <1>1 DEF LockInv, ioVars, Begins, Operating, Accessing
<1>3. WriteInv(c)'
  BY DEF WriteInv, Begins, Operating, Accessing
<1>4. QED
  BY <1>2, <1>3

LEMMA Outside ==
    ASSUME IoInv, UNCHANGED ioVars, routines \subseteq routines', NEW c \in Cpus,
           cpu[c].pc \notin Operating, Begins(c)', \A d \in Cpus \ {c} : cpu'[d] = cpu[d]
    PROVE  IoInv'
<1>1. LockInv(c)' /\ WriteInv(c)'
  BY Enters DEF IoInv
<1>2. ASSUME NEW d \in Cpus \ {c}
      PROVE  LockInv(d)' /\ WriteInv(d)'
  BY Stays DEF IoInv
<1>3. EntryInv'
  BY DEF IoInv, EntryInv, ioVars
<1>4. QED
  BY <1>1, <1>2, <1>3 DEF IoInv

\* Steps that leave all CPUs where they are.
LEMMA InPlace ==
    ASSUME IoInv, UNCHANGED ioVars, routines \subseteq routines',
           \A d \in Cpus : cpu'[d].pc = cpu[d].pc /\ cpu'[d].todo = cpu[d].todo
    PROVE  IoInv'
<1>1. ASSUME NEW d \in Cpus
      PROVE  LockInv(d)' /\ WriteInv(d)'
  BY Stays DEF IoInv
<1>2. EntryInv'
  BY DEF IoInv, EntryInv, ioVars
<1>3. QED
  BY <1>1, <1>2 DEF IoInv

-----------------------------------------------------------------------------
(* The steps of an operation of the I/O APIC.                              *)

\* Only one CPU writes entries, and only one is between its two accesses.
LEMMA Apart ==
    ASSUME IoInv, NEW d \in Cpus, cpu'[d] = cpu[d], routines' = routines,
           tableLock # d, tableLock' # d, regLock # d, regLock' # d
    PROVE  LockInv(d)' /\ WriteInv(d)'
<1>1. LockInv(d)
  BY DEF IoInv
<1>2. cpu[d].pc # "data" /\ ~(cpu[d].pc \in Accessing /\ cpu[d].todo # Version)
  BY <1>1 DEF LockInv
<1>3. LockInv(d)'
  BY <1>1, <1>2 DEF LockInv
<1>4. WriteInv(d)'
  BY <1>2 DEF WriteInv
<1>5. QED
  BY <1>3, <1>4

LEMMA EntryTypes ==
    MaskedEntry \in Entries /\ (\A irq : Mapped(irq) \in Entries) /\ MaskedEntry.masked
  BY DEF MaskedEntry, Mapped, Entry, Entries, Flags, VectorOf, Pit, Driver

LEMMA SeizeTableKeeps ==
    ASSUME TypeInv, IoInv, NEW c \in Cpus, SeizeTable(c)
    PROVE  CpuType' /\ want' \in [Pins -> Entries] /\ IoInv'
<1> DEFINE last == cpu[c].todo[Len(cpu[c].todo)]
<1>1. Becomes(c, "reg", cpu[c].critical, cpu[c].todo, cpu[c].next, cpu[c].saved, cpu[c].vector)
  BY GotoBecomes DEF TypeInv, SeizeTable, CpuPcs, Operating
<1>2. /\ cpu'[c].pc = "reg" /\ cpu'[c].todo = cpu[c].todo
      /\ \A d \in Cpus \ {c} : cpu'[d] = cpu[d]
  BY <1>1 DEF Becomes
<1>3. /\ cpu[c].pc = "table" /\ tableLock = NoCpu /\ tableLock' = c
      /\ want' = IF last.reg[2] \in Pins THEN [want EXCEPT ![last.reg[2]] = last.value] ELSE want
      /\ UNCHANGED <<routines, low, high, sel, regLock>>
  BY DEF SeizeTable
<1>4. low = want /\ tableLock' # NoCpu
  BY <1>3, CpuAssumption DEF IoInv, EntryInv
<1>5. regLock # c
  BY <1>3 DEF IoInv, LockInv
<1>6. ASSUME NEW irq \in Lines, cpu[c].todo = MapAll(irq), VectorOf(irq) \in routines
      PROVE  want' \in [Pins -> Entries] /\ WriteInv(c)' /\ cpu[c].todo # Version
  <2>1. Pin(irq) \in Pins /\ last = Write("low", Pin(irq), Mapped(irq))
    BY <1>6, Writes, PinAssumption DEF Lines
  <2>2. last.reg[2] = Pin(irq) /\ last.value = Mapped(irq)
    BY <2>1, Registers
  <2> HIDE DEF last
  <2>3. want' = [want EXCEPT ![Pin(irq)] = Mapped(irq)] /\ want \in [Pins -> Entries]
    BY <1>3, <2>1, <2>2 DEF TypeInv
  <2>4. want' \in [Pins -> Entries] /\ want'[Pin(irq)] = Mapped(irq)
        /\ \A p \in Pins \ {Pin(irq)} : low'[p] = want'[p]
    BY <1>3, <1>4, <2>1, <2>3, EntryTypes
  <2>5. WriteInv(c)'
    BY <1>2, <1>3, <1>6, <2>4 DEF WriteInv
  <2>6. QED
    BY <1>6, <2>4, <2>5, NotVersion
<1>7. ASSUME cpu[c].todo = Mask(PinOf(cpu[c].todo))
      PROVE  want' \in [Pins -> Entries] /\ WriteInv(c)' /\ cpu[c].todo # Version
  <2>1. PICK p : p = PinOf(cpu[c].todo) /\ cpu[c].todo = Mask(p)
    BY <1>7
  <2>2. last = Write("low", p, MaskedEntry)
    BY <2>1, Writes
  <2>3. last.reg[2] = p /\ last.value = MaskedEntry
    BY <2>2, Registers
  <2> HIDE DEF last
  <2>4. want \in [Pins -> Entries]
        /\ want' = IF p \in Pins THEN [want EXCEPT ![p] = MaskedEntry] ELSE want
    BY <1>3, <2>3 DEF TypeInv
  <2>5. want' \in [Pins -> Entries] /\ (p \in Pins => want'[p] = MaskedEntry)
        /\ \A q \in Pins \ {p} : low'[q] = want'[q]
    BY <1>3, <1>4, <2>4, EntryTypes
  <2>6. PinOf(cpu[c].todo)' = p /\ cpu'[c].todo = Mask(p)
    BY <1>2, <2>1 DEF PinOf
  <2>7. WriteInv(c)'
    BY <2>5, <2>6 DEF WriteInv
  <2>8. QED
    BY <2>1, <2>5, <2>7, NotVersion
<1>8. want' \in [Pins -> Entries] /\ WriteInv(c)' /\ cpu[c].todo # Version
  BY <1>3, <1>6, <1>7 DEF IoInv, LockInv
<1>9. LockInv(c)'
  BY <1>2, <1>3, <1>5, <1>8 DEF LockInv, Accessing
<1>10. ASSUME NEW d \in Cpus \ {c}
       PROVE  LockInv(d)' /\ WriteInv(d)'
  <2>1. tableLock # d /\ tableLock' # d /\ cpu'[d] = cpu[d]
    BY <1>2, <1>3, CpuAssumption
  <2>2. LockInv(d)'
    BY <1>3, <2>1 DEF IoInv, LockInv
  <2>3. WriteInv(d)'
    BY <2>1 DEF IoInv, LockInv, WriteInv
  <2>4. QED
    BY <2>2, <2>3
<1>11. EntryInv'
  BY <1>3, <1>4 DEF IoInv, EntryInv
<1>12. CpuType'
  BY <1>1 DEF Becomes
<1>13. QED
  BY <1>8, <1>9, <1>10, <1>11, <1>12 DEF IoInv

LEMMA SelectKeeps ==
    ASSUME TypeInv, IoInv, NEW c \in Cpus, Select(c)
    PROVE  CpuType' /\ IoInv'
<1>1. Becomes(c, "data", cpu[c].critical, cpu[c].todo, cpu[c].next, cpu[c].saved, cpu[c].vector)
  BY GotoBecomes DEF TypeInv, Select, CpuPcs, Operating
<1>2. /\ cpu'[c].pc = "data" /\ cpu'[c].todo = cpu[c].todo
      /\ \A d \in Cpus \ {c} : cpu'[d] = cpu[d]
  BY <1>1 DEF Becomes
<1>3. /\ cpu[c].pc = "reg" /\ regLock = NoCpu /\ regLock' = c /\ sel' = Head(cpu[c].todo).reg
      /\ UNCHANGED <<routines, low, high, tableLock, want>>
  BY DEF Select, CanSelect
<1>4. LockInv(c)'
  BY <1>2, <1>3 DEF IoInv, LockInv, Accessing
<1>5. WriteInv(c)'
  BY <1>2, <1>3 DEF IoInv, WriteInv, Accessing
<1>6. ASSUME NEW d \in Cpus \ {c}
      PROVE  LockInv(d)' /\ WriteInv(d)'
  <2>1. regLock # d /\ regLock' # d /\ cpu'[d] = cpu[d]
    BY <1>2, <1>3, CpuAssumption
  <2>2. LockInv(d)'
    BY <1>3, <2>1 DEF IoInv, LockInv
  <2>3. WriteInv(d)'
    BY <1>3, <2>1 DEF IoInv, WriteInv
  <2>4. QED
    BY <2>2, <2>3
<1>7. EntryInv'
  BY <1>3 DEF IoInv, EntryInv
<1>8. QED
  BY <1>1, <1>4, <1>5, <1>6, <1>7 DEF IoInv, Becomes

\* What the access does to CPU c, and to the locks.
LEMMA AccessMoves ==
    ASSUME TypeInv, IoInv, NEW c \in Cpus, Access(c)
    PROVE  /\ CpuType'
           /\ cpu[c].pc = "data" /\ regLock = c /\ sel = Head(cpu[c].todo).reg
           /\ regLock' = NoCpu /\ UNCHANGED <<routines, sel, want>>
           /\ cpu'[c].todo = Tail(cpu[c].todo)
           /\ cpu'[c].critical = (Tail(cpu[c].todo) # <<>>)
           /\ Tail(cpu[c].todo) = <<>> => cpu'[c].pc = cpu[c].next
           /\ Tail(cpu[c].todo) # <<>> => cpu'[c].pc = "reg"
           /\ cpu'[c].saved = cpu[c].saved
           /\ \A d \in Cpus \ {c} : cpu'[d] = cpu[d]
<1> DEFINE rest == Tail(cpu[c].todo)
           p    == IF rest = <<>> THEN cpu[c].next ELSE "reg"
           n    == IF rest = <<>> THEN "idle" ELSE cpu[c].next
           k    == rest # <<>>
<1>1. cpu[c].pc = "data" /\ regLock' = NoCpu /\ UNCHANGED <<routines, sel, want>>
  BY DEF Access
<1>2. regLock = c /\ sel = Head(cpu[c].todo).reg
  BY <1>1 DEF IoInv, LockInv
<1>3. Accessed(c, rest, p, n, k)
  <2>1. PICK T : cpu \in [Cpus -> CpuStates(T)]
    BY Widened DEF TypeInv
  <2>2. QED
    BY <2>1 DEF Access, Accessed, CpuStates
<1>4. p \in CpuPcs /\ n \in Afterwards /\ k \in BOOLEAN
  BY Fields DEF TypeInv, CpuPcs, Operating, Resumable, Afterwards
<1>5. Becomes(c, p, k, rest, n, cpu[c].saved, cpu[c].vector)
  <2> HIDE DEF p, n, k, rest
  <2>1. QED
    BY <1>3, <1>4, AccessBecomes DEF TypeInv
<1>6. QED
  BY <1>1, <1>2, <1>5 DEF Becomes

\* Reading the version changes no entry.
LEMMA AccessVersion ==
    ASSUME TypeInv, IoInv, NEW c \in Cpus, Access(c), cpu[c].todo = Version
    PROVE  UNCHANGED <<low, high>> /\ IoInv'
<1>1. Head(cpu[c].todo).reg[1] = "version" /\ Tail(cpu[c].todo) = <<>>
  BY Writes, Registers
<1>2. tableLock # c
  BY DEF IoInv, LockInv
<1>3. UNCHANGED <<low, high, tableLock>>
  BY <1>1, <1>2 DEF Access
<1>4. cpu'[c].pc \in Afterwards
  BY <1>1, AccessMoves, Fields DEF TypeInv
<1>5. LockInv(c)' /\ WriteInv(c)'
  BY <1>2, <1>3, <1>4, AccessMoves, CpuAssumption DEF LockInv, WriteInv, Afterwards, Accessing
<1>6. ASSUME NEW d \in Cpus \ {c}
      PROVE  LockInv(d)' /\ WriteInv(d)'
  <2>1. cpu'[d] = cpu[d] /\ regLock # d /\ regLock' # d /\ UNCHANGED <<routines, sel, want>>
    BY AccessMoves, CpuAssumption
  <2>2. LockInv(d)'
    BY <1>3, <2>1 DEF IoInv, LockInv
  <2>3. WriteInv(d)'
    BY <1>3, <2>1 DEF IoInv, WriteInv
  <2>4. QED
    BY <2>2, <2>3
<1>7. EntryInv'
  BY <1>3, AccessMoves DEF IoInv, EntryInv
<1>8. QED
  BY <1>3, <1>5, <1>6, <1>7 DEF IoInv

\* An access of the holder of the table lock keeps the others out.
LEMMA AccessAlone ==
    ASSUME TypeInv, IoInv, NEW c \in Cpus, Access(c), cpu[c].todo # Version
    PROVE  /\ tableLock = c
           /\ tableLock' = IF Tail(cpu[c].todo) = <<>> THEN NoCpu ELSE c
           /\ \A d \in Cpus \ {c} : LockInv(d)' /\ WriteInv(d)'
<1>1. tableLock = c
  BY AccessMoves DEF IoInv, LockInv, Accessing
<1>2. tableLock' = IF Tail(cpu[c].todo) = <<>> THEN NoCpu ELSE c
  BY <1>1 DEF Access
<1>3. ASSUME NEW d \in Cpus \ {c}
      PROVE  LockInv(d)' /\ WriteInv(d)'
  <2>1. /\ cpu'[d] = cpu[d] /\ routines' = routines
        /\ tableLock # d /\ tableLock' # d /\ regLock # d /\ regLock' # d
    BY <1>1, <1>2, AccessMoves, CpuAssumption
  <2>2. QED
    BY <2>1, Apart
<1>4. QED
  BY <1>1, <1>2, <1>3

\* The last write of an operation.
LEMMA AccessLast ==
    ASSUME TypeInv, IoInv, NEW c \in Cpus, Access(c), cpu[c].todo # Version, Tail(cpu[c].todo) = <<>>
    PROVE  tableLock' = NoCpu /\ \A d \in Cpus : LockInv(d)' /\ WriteInv(d)'
<1>1. tableLock' = NoCpu /\ \A d \in Cpus \ {c} : LockInv(d)' /\ WriteInv(d)'
  BY AccessAlone
<1>2. cpu'[c].pc \in Afterwards
  BY AccessMoves, Fields DEF TypeInv
<1>3. LockInv(c)' /\ WriteInv(c)'
  BY <1>1, <1>2, AccessMoves, CpuAssumption DEF LockInv, WriteInv, Afterwards, Accessing
<1>4. QED
  BY <1>1, <1>3

\* One of the others.
LEMMA AccessFirst ==
    ASSUME TypeInv, IoInv, NEW c \in Cpus, Access(c), cpu[c].todo # Version, Tail(cpu[c].todo) # <<>>,
           Tail(cpu[c].todo) # Version
    PROVE  tableLock' # NoCpu /\ LockInv(c)' /\ \A d \in Cpus \ {c} : LockInv(d)' /\ WriteInv(d)'
<1>1. tableLock' = c /\ \A d \in Cpus \ {c} : LockInv(d)' /\ WriteInv(d)'
  BY AccessAlone
<1>2. LockInv(c)'
  BY <1>1, AccessMoves, CpuAssumption DEF LockInv, Accessing
<1>3. QED
  BY <1>1, <1>2, CpuAssumption

\* What it stores.
LEMMA StoresLow ==
    ASSUME TypeInv, IoInv, NEW c \in Cpus, Access(c), NEW p, NEW e,
           Head(cpu[c].todo) = Write("low", p, e)
    PROVE  /\ low' = IF p \in Pins THEN [low EXCEPT ![p] = e] ELSE low
           /\ high' = high
<1>1. sel[1] = "low" /\ sel[2] = p
  BY AccessMoves, Registers
<1>2. Head(cpu[c].todo).reg[1] = "low" /\ Head(cpu[c].todo).value = e
  BY Registers
<1>3. low' = Stored(low, "low", e) /\ high' = Stored(high, "high", e)
  BY <1>2 DEF Access
<1>4. QED
  BY <1>1, <1>3 DEF Stored

LEMMA StoresHigh ==
    ASSUME TypeInv, IoInv, NEW c \in Cpus, Access(c), NEW p, NEW e,
           Head(cpu[c].todo) = Write("high", p, e)
    PROVE  /\ high' = IF p \in Pins THEN [high EXCEPT ![p] = e] ELSE high
           /\ low' = low
<1>1. sel[1] = "high" /\ sel[2] = p
  BY AccessMoves, Registers
<1>2. Head(cpu[c].todo).reg[1] = "high" /\ Head(cpu[c].todo).value = e
  BY Registers
<1>3. low' = Stored(low, "low", e) /\ high' = Stored(high, "high", e)
  BY <1>2 DEF Access
<1>4. QED
  BY <1>1, <1>3 DEF Stored

LEMMA AccessKeeps ==
    ASSUME TypeInv, IoInv, NEW c \in Cpus, Access(c)
    PROVE  low' \in [Pins -> Entries] /\ high' \in [Pins -> Cpus] /\ IoInv'
<1> DEFINE todo == cpu[c].todo
<1>1. low \in [Pins -> Entries] /\ high \in [Pins -> Cpus] /\ want \in [Pins -> Entries]
  BY DEF TypeInv
<1>2. UNCHANGED <<routines, want>> /\ cpu'[c].todo = Tail(todo) /\ cpu[c].pc \in Accessing
  BY AccessMoves DEF Accessing
<1>3. EntryInv
  BY DEF IoInv
<1>4. CASE todo = Version
  BY <1>1, <1>4, AccessVersion
<1>5. ASSUME todo # Version, NEW irq \in Lines, VectorOf(irq) \in routines, want[Pin(irq)] = Mapped(irq),
             \A p \in Pins \ {Pin(irq)} : low[p] = want[p]
      PROVE  /\ todo = MapAll(irq) => low' \in [Pins -> Entries] /\ high' \in [Pins -> Cpus] /\ IoInv'
             /\ todo = MapHigh(irq) /\ low[Pin(irq)] = MaskedEntry =>
                   low' \in [Pins -> Entries] /\ high' \in [Pins -> Cpus] /\ IoInv'
             /\ todo = MapLow(irq) /\ low[Pin(irq)] = MaskedEntry /\ high[Pin(irq)] = Boot =>
                   low' \in [Pins -> Entries] /\ high' \in [Pins -> Cpus] /\ IoInv'
  <2>1. Pin(irq) \in Pins
    BY PinAssumption DEF Lines
  <2>2. CASE todo = MapAll(irq)
    <3>1. low' = [low EXCEPT ![Pin(irq)] = MaskedEntry] /\ high' = high
      BY <2>1, <2>2, Writes, StoresLow
    <3>2. Tail(todo) = MapHigh(irq) /\ Tail(todo) # <<>> /\ Tail(todo) # Version
      BY <2>2, Writes, NotVersion
    <3>3. /\ low' \in [Pins -> Entries] /\ low'[Pin(irq)] = MaskedEntry
          /\ \A p \in Pins \ {Pin(irq)} : low'[p] = low[p]
      BY <1>1, <2>1, <3>1, EntryTypes
    <3>4. WriteInv(c)'
      BY <1>2, <1>5, <3>2, <3>3 DEF WriteInv
    <3>5. tableLock' # NoCpu /\ LockInv(c)' /\ \A d \in Cpus \ {c} : LockInv(d)' /\ WriteInv(d)'
      BY <1>5, <3>2, AccessFirst
    <3>6. EntryInv'
      BY <1>2, <1>3, <3>1, <3>3, <3>5, EntryTypes DEF EntryInv
    <3>7. QED
      BY <1>1, <2>2, <3>1, <3>3, <3>4, <3>5, <3>6, NotVersion DEF IoInv
  <2>3. CASE todo = MapHigh(irq) /\ low[Pin(irq)] = MaskedEntry
    <3>1. high' = [high EXCEPT ![Pin(irq)] = Boot] /\ low' = low
      BY <2>1, <2>3, Writes, StoresHigh
    <3>2. Tail(todo) = MapLow(irq) /\ Tail(todo) # <<>> /\ Tail(todo) # Version
      BY <2>3, Writes, NotVersion
    <3>3. /\ high' \in [Pins -> Cpus] /\ high'[Pin(irq)] = Boot
          /\ \A p \in Pins \ {Pin(irq)} : high'[p] = high[p]
      BY <1>1, <2>1, <3>1, CpuAssumption
    <3>4. WriteInv(c)'
      BY <1>2, <1>5, <2>3, <3>1, <3>2, <3>3 DEF WriteInv
    <3>5. tableLock' # NoCpu /\ LockInv(c)' /\ \A d \in Cpus \ {c} : LockInv(d)' /\ WriteInv(d)'
      BY <1>5, <3>2, AccessFirst
    <3>6. EntryInv'
      BY <1>2, <1>3, <2>3, <3>1, <3>3, <3>5, EntryTypes DEF EntryInv
    <3>7. low' \in [Pins -> Entries] /\ high' \in [Pins -> Cpus] /\ IoInv'
      BY <1>1, <3>1, <3>3, <3>4, <3>5, <3>6 DEF IoInv
    <3>8. QED
      BY <3>7
  <2>4. CASE todo = MapLow(irq) /\ low[Pin(irq)] = MaskedEntry /\ high[Pin(irq)] = Boot
    <3>1. low' = [low EXCEPT ![Pin(irq)] = Mapped(irq)] /\ high' = high
      BY <2>1, <2>4, Writes, StoresLow
    <3>2. Tail(todo) = <<>>
      BY <2>4, Writes
    <3>3. /\ low' \in [Pins -> Entries] /\ low'[Pin(irq)] = Mapped(irq)
          /\ \A p \in Pins \ {Pin(irq)} : low'[p] = low[p]
      BY <1>1, <2>1, <3>1, EntryTypes
    <3>4. tableLock' = NoCpu /\ \A d \in Cpus : LockInv(d)' /\ WriteInv(d)'
      BY <1>5, <3>2, AccessLast
    <3>5. low' = want'
      BY <1>1, <1>2, <1>5, <3>3
    <3>6. EntryInv'
      BY <1>2, <1>3, <1>5, <2>4, <3>1, <3>3, <3>5 DEF EntryInv
    <3>7. low' \in [Pins -> Entries] /\ high' \in [Pins -> Cpus] /\ IoInv'
      BY <1>1, <3>1, <3>3, <3>4, <3>6 DEF IoInv
    <3>8. QED
      BY <3>7
  <2>5. QED
    BY <2>2, <2>3, <2>4
<1>6. ASSUME todo # Version, NEW p, todo = Mask(p), p \in Pins => want[p] = MaskedEntry,
             \A q \in Pins \ {p} : low[q] = want[q]
      PROVE  low' \in [Pins -> Entries] /\ high' \in [Pins -> Cpus] /\ IoInv'
  <2>1. low' = (IF p \in Pins THEN [low EXCEPT ![p] = MaskedEntry] ELSE low) /\ high' = high
    BY <1>6, Writes, StoresLow
  <2>2. Tail(todo) = <<>>
    BY <1>6, Writes
  <2>3. /\ low' \in [Pins -> Entries] /\ (p \in Pins => low'[p] = MaskedEntry)
        /\ \A q \in Pins \ {p} : low'[q] = low[q]
    BY <1>1, <2>1, EntryTypes
  <2>4. tableLock' = NoCpu /\ \A d \in Cpus : LockInv(d)' /\ WriteInv(d)'
    BY <1>6, <2>2, AccessLast
  <2>5. low' = want'
    BY <1>1, <1>2, <1>6, <2>3
  <2>6. EntryInv'
    BY <1>2, <1>3, <2>1, <2>3, <2>5, EntryTypes DEF EntryInv
  <2>7. QED
    BY <1>1, <2>1, <2>3, <2>4, <2>6 DEF IoInv
<1>7. CASE todo # Version
  <2>1. WriteInv(c)
    BY DEF IoInv
  <2>2. CASE \E irq \in Lines :
              /\ VectorOf(irq) \in routines
              /\ want[Pin(irq)] = Mapped(irq)
              /\ \A p \in Pins \ {Pin(irq)} : low[p] = want[p]
              /\ \/ todo = MapAll(irq)
                 \/ todo = MapHigh(irq) /\ low[Pin(irq)] = MaskedEntry
                 \/ todo = MapLow(irq) /\ low[Pin(irq)] = MaskedEntry /\ high[Pin(irq)] = Boot
    BY <1>5, <1>7, <2>2
  <2>3. CASE /\ todo = Mask(PinOf(todo))
             /\ PinOf(todo) \in Pins => want[PinOf(todo)] = MaskedEntry
             /\ \A q \in Pins \ {PinOf(todo)} : low[q] = want[q]
    BY <1>6, <1>7, <2>3
  <2>4. QED
    BY <1>2, <1>7, <2>1, <2>2, <2>3 DEF WriteInv
<1>8. QED
  BY <1>4, <1>7

-----------------------------------------------------------------------------
(* The whole invariant.                                                    *)

\* There are gates as soon as one of these modules is ready, or a routine set.
LEMMA Gates ==
    ASSUME GateInv, "critical" \in ready \/ "ioapic" \in ready \/ "domains" \in ready \/ routines # {}
    PROVE  idt # "none"
  BY DEF GateInv

\* A step of CPU c that does not go on with an operation.
LEMMA StepKeeps ==
    ASSUME Inv, UNCHANGED ioVars, NEW c \in Cpus, cpu[c].pc \notin Operating, CpuType', Begins(c)',
           HandledInv(c)', \A d \in Cpus \ {c} : cpu'[d] = cpu[d],
           routines \subseteq routines', irr' \in [Cpus -> SUBSET Requests],
           \A d \in Cpus : irr'[d] \subseteq routines',
           ready' \subseteq Modules, idt' \in {"none", "pic", "isr"}, idt # "none" => idt' # "none",
           GateInv'
    PROVE  Inv'
<1>1. TypeInv'
  BY DEF Inv, TypeInv, ioVars
<1>2. IoInv'
  BY Outside DEF Inv
<1>3. ASSUME NEW d \in Cpus \ {c}
      PROVE  HandledInv(d)'
  BY DEF Inv, HandledInv
<1>4. QED
  BY <1>1, <1>2, <1>3 DEF Inv

\* The same when the modules stay as they are.
LEMMA CpuStep ==
    ASSUME Inv, UNCHANGED <<bootVars, ioVars, irr>>, NEW c \in Cpus, cpu[c].pc \notin Operating,
           CpuType', Begins(c)', HandledInv(c)', \A d \in Cpus \ {c} : cpu'[d] = cpu[d],
           routines \subseteq routines', idt # "none" \/ routines' = routines
    PROVE  Inv'
<1>1. GateInv'
  BY DEF Inv, GateInv, bootVars
<1>2. /\ irr' \in [Cpus -> SUBSET Requests] /\ \A d \in Cpus : irr'[d] \subseteq routines'
      /\ ready' \subseteq Modules /\ idt' \in {"none", "pic", "isr"} /\ idt' = idt
  BY DEF Inv, TypeInv, HandledInv, bootVars
<1>3. QED
  BY <1>1, <1>2, StepKeeps

\* The operations that a step begins.
LEMMA MapBegins ==
    ASSUME CpuType, NEW c \in Cpus, NEW irq \in Lines, NEW n \in Afterwards,
           MapIrq(c, irq, VectorOf(irq), n), VectorOf(irq) \in routines'
    PROVE  Begins(c)' /\ Becomes(c, "table", TRUE, MapAll(irq), n, cpu[c].saved, cpu[c].vector)
<1>1. Operate(c, MapAll(irq), n)
  BY DEF MapIrq, MapAll, Mapped
<1>2. Becomes(c, "table", TRUE, MapAll(irq), n, cpu[c].saved, cpu[c].vector)
  BY <1>1, OperateBecomes
<1>3. QED
  BY <1>2 DEF Becomes, Begins

LEMMA MaskBegins ==
    ASSUME CpuType, NEW c \in Cpus, NEW p, NEW n \in Afterwards, MaskPin(c, p, n)
    PROVE  Begins(c)' /\ Becomes(c, "table", TRUE, Mask(p), n, cpu[c].saved, cpu[c].vector)
<1>1. Operate(c, Mask(p), n)
  BY DEF MaskPin, Mask
<1>2. Becomes(c, "table", TRUE, Mask(p), n, cpu[c].saved, cpu[c].vector)
  BY <1>1, OperateBecomes
<1>3. PinOf(cpu[c].todo)' = p
  <2>1. PinOf(Mask(p)) = p /\ cpu'[c].todo = Mask(p)
    BY <1>2, Writes DEF Becomes
  <2>2. QED
    BY <2>1 DEF PinOf
<1>4. QED
  BY <1>2, <1>3 DEF Becomes, Begins

\* A CPU that begins an operation, with the gates set.
LEMMA OperationKeeps ==
    ASSUME Inv, NEW c \in Cpus, cpu[c].pc \notin Operating, NEW t, NEW n,
           UNCHANGED <<bootVars, ioVars, irr>>, routines \subseteq routines', idt # "none",
           Begins(c)', Becomes(c, "table", TRUE, t, n, cpu[c].saved, cpu[c].vector)
    PROVE  Inv'
<1>1. HandledInv(c)'
  BY DEF Inv, HandledInv, Becomes, bootVars, TypeInv
<1>2. QED
  BY <1>1, CpuStep DEF Becomes

LEMMA DriverKeeps ==
    ASSUME Inv, NEW c \in Cpus, PitMap(c) \/ PitMask(c) \/ MapDriver(c) \/ MaskDriver(c)
    PROVE  Inv'
<1>1. CpuType /\ GateInv /\ HandledInv(c)
  BY DEF Inv, TypeInv
<1>2. PitIrq \in Lines /\ VectorOf(PitIrq) = Pit /\ DriverIrq \in Lines /\ VectorOf(DriverIrq) = Driver
  BY PinAssumption DEF Lines, VectorOf
<1>3. CASE PitMap(c)
  <2>1. PICK n \in Afterwards : MapIrq(c, PitIrq, Pit, n)
    BY <1>3 DEF PitMap, Afterwards
  <2>2. /\ cpu[c].pc = "pitMap" /\ Pit \in routines /\ UNCHANGED <<bootVars, routines, ioVars, irr>>
        /\ idt # "none"
    BY <1>1, <1>3 DEF PitMap, HandledInv, apicVars, Stopped
  <2>3. Begins(c)' /\ Becomes(c, "table", TRUE, MapAll(PitIrq), n, cpu[c].saved, cpu[c].vector)
    BY <1>1, <1>2, <2>1, <2>2, MapBegins
  <2>4. QED
    BY <2>2, <2>3, OperationKeeps DEF Operating
<1>4. CASE PitMask(c)
  <2>1. MaskPin(c, Pin(Pit), "idle") /\ "idle" \in Afterwards
    BY <1>4 DEF PitMask, MaskIrq, Afterwards
  <2>2. cpu[c].pc = "pitMask" /\ UNCHANGED <<bootVars, routines, ioVars, irr>> /\ idt # "none"
    BY <1>1, <1>4 DEF PitMask, HandledInv, apicVars, Stopped
  <2>3. Begins(c)' /\ Becomes(c, "table", TRUE, Mask(Pin(Pit)), "idle", cpu[c].saved, cpu[c].vector)
    BY <1>1, <2>1, MaskBegins
  <2>4. QED
    BY <2>2, <2>3, OperationKeeps DEF Operating
<1>5. CASE MapDriver(c)
  <2>1. MapIrq(c, DriverIrq, Driver, "idle") /\ "idle" \in Afterwards /\ Driver \in routines'
    BY <1>5 DEF MapDriver, Afterwards
  <2>2. /\ cpu[c].pc = "idle" /\ UNCHANGED <<bootVars, ioVars, irr>> /\ routines \subseteq routines'
        /\ idt # "none"
    BY <1>1, <1>5, Gates DEF MapDriver, IsFree, apicVars
  <2>3. Begins(c)' /\ Becomes(c, "table", TRUE, MapAll(DriverIrq), "idle", cpu[c].saved, cpu[c].vector)
    BY <1>1, <1>2, <2>1, MapBegins
  <2>4. QED
    BY <2>2, <2>3, OperationKeeps DEF Operating
<1>6. CASE MaskDriver(c)
  <2>1. MaskPin(c, Pin(DriverIrq), "idle") /\ "idle" \in Afterwards
    BY <1>6 DEF MaskDriver, MaskIrq, Afterwards
  <2>2. cpu[c].pc = "idle" /\ UNCHANGED <<bootVars, routines, ioVars, irr>> /\ idt # "none"
    BY <1>1, <1>6, Gates DEF MaskDriver, IsFree, apicVars
  <2>3. Begins(c)' /\ Becomes(c, "table", TRUE, Mask(Pin(DriverIrq)), "idle", cpu[c].saved, cpu[c].vector)
    BY <1>1, <2>1, MaskBegins
  <2>4. QED
    BY <2>2, <2>3, OperationKeeps DEF Operating
<1>7. QED
  BY <1>3, <1>4, <1>5, <1>6

\* A CPU that goes on elsewhere, with the gates set.
LEMMA MoveKeeps ==
    ASSUME Inv, NEW c \in Cpus, cpu[c].pc \notin Operating,
           NEW p \in Resumable \union {"iret", "routine", "haltCpu", "halted"},
           NEW k, NEW s \in {cpu[c].saved, "idle"}, NEW v,
           Becomes(c, p, k, cpu[c].todo, cpu[c].next, s, v),
           UNCHANGED <<bootVars, ioVars, irr>>, routines \subseteq routines', idt # "none",
           p = "pitMap" => Pit \in routines'
    PROVE  Inv'
<1>1. p \notin Operating
  BY DEF Resumable, Operating
<1>2. Begins(c)'
  BY <1>1 DEF Becomes, Begins
<1>3. p # "isr" /\ p # "send"
  BY DEF Resumable
<1>4. HandledInv(c)'
  BY <1>3 DEF Inv, HandledInv, Becomes, bootVars
<1>5. QED
  BY <1>2, <1>4, CpuStep DEF Becomes

LEMMA GotoKeeps ==
    ASSUME Inv, NEW c \in Cpus, cpu[c].pc \notin Operating,
           NEW p \in Resumable \union {"iret", "routine", "haltCpu", "halted"}, Goto(c, p),
           UNCHANGED <<bootVars, ioVars, irr>>, routines \subseteq routines', idt # "none",
           p = "pitMap" => Pit \in routines'
    PROVE  Inv'
<1>1. p \in CpuPcs
  BY DEF CpuPcs, Resumable, Stopped
<1>2. Becomes(c, p, cpu[c].critical, cpu[c].todo, cpu[c].next, cpu[c].saved, cpu[c].vector)
  BY <1>1, GotoBecomes DEF Inv, TypeInv
<1>3. QED
  BY <1>2, MoveKeeps

LEMMA PitKeeps ==
    ASSUME Inv, NEW c \in Cpus, StartPit(c) \/ StopPit(c)
    PROVE  Inv'
<1>1. GateInv
  BY DEF Inv
<1>2. cpu[c].pc = "idle" /\ UNCHANGED <<bootVars, ioVars, irr>> /\ idt # "none"
  BY <1>1, Gates DEF StartPit, StopPit, IsFree, apicVars
<1>3. CASE StartPit(c)
  BY <1>2, <1>3, GotoKeeps DEF StartPit, Start, Operating, Resumable
<1>4. CASE StopPit(c)
  BY <1>2, <1>4, GotoKeeps DEF StopPit, Stop, Operating, Resumable
<1>5. QED
  BY <1>3, <1>4

LEMMA ReadRegKeeps ==
    ASSUME Inv, NEW c \in Cpus, ReadReg(c)
    PROVE  Inv'
<1>1. cpu[c].pc = "idle" /\ UNCHANGED <<bootVars, routines, ioVars, irr>> /\ idt # "none"
  BY Gates DEF Inv, ReadReg, IsFree, apicVars
<1>2. Becomes(c, "reg", TRUE, Version, "idle", cpu[c].saved, cpu[c].vector)
  BY ReadRegBecomes DEF Inv, TypeInv
<1>3. Begins(c)'
  BY <1>2 DEF Becomes, Begins
<1>4. HandledInv(c)'
  BY <1>1, <1>2 DEF Inv, HandledInv, Becomes, bootVars
<1>5. QED
  BY <1>1, <1>2, <1>3, <1>4, CpuStep DEF Becomes, Operating

\* An interrupt is taken only after the gates are set, and has a routine or is spurious.
LEMMA VectorKeeps ==
    ASSUME Inv, NEW c \in Cpus, Interruptible(c), NEW v \in Int, v \in routines \/ v >= PicVectors,
           Vector(c, v), UNCHANGED <<bootVars, routines, ioVars>>,
           irr' \in [Cpus -> SUBSET Requests], \A d \in Cpus : irr'[d] \subseteq irr[d]
    PROVE  Inv'
<1>1. cpu[c].pc \in Resumable /\ cpu[c].pc \notin Operating /\ idt # "none"
  BY DEF Inv, HandledInv, Interruptible, Resumable, Operating
<1>2. Becomes(c, "isr", TRUE, cpu[c].todo, cpu[c].next, cpu[c].pc, v)
  BY <1>1, VectorBecomes DEF Inv, TypeInv
<1>3. Begins(c)'
  BY <1>2 DEF Becomes, Begins, Operating
<1>4. \A d \in Cpus : irr'[d] \subseteq routines'
  BY DEF Inv, HandledInv
<1>5. HandledInv(c)'
  BY <1>1, <1>2, <1>4 DEF Inv, HandledInv, Becomes, bootVars
<1>6. GateInv' /\ ready' \subseteq Modules /\ idt' \in {"none", "pic", "isr"} /\ idt' = idt
  BY DEF Inv, TypeInv, GateInv, bootVars
<1>7. QED
  BY <1>1, <1>2, <1>3, <1>4, <1>5, <1>6, StepKeeps DEF Becomes

LEMMA TakeSpuriousKeeps ==
    ASSUME Inv, NEW c \in Cpus, TakeSpurious(c)
    PROVE  Inv'
<1>1. Interruptible(c) /\ UNCHANGED <<bootVars, routines, ioVars, irr>>
  BY DEF TakeSpurious, apicVars
<1>2. picBase = PicVectors
  BY <1>1 DEF Inv, GateInv, HandledInv, Interruptible
<1>3. PICK v \in Int : v >= PicVectors /\ Vector(c, v)
  <2>1. picBase + 7 \in Int /\ picBase + 7 >= PicVectors /\ Spurious \in Int /\ Spurious >= PicVectors
    BY <1>2 DEF PicVectors, Spurious
  <2>2. QED
    BY <2>1 DEF TakeSpurious
<1>4. irr' \in [Cpus -> SUBSET Requests] /\ \A d \in Cpus : irr'[d] \subseteq irr[d]
  BY <1>1 DEF Inv, TypeInv
<1>5. QED
  BY <1>1, <1>3, <1>4, VectorKeeps

LEMMA TakeInterruptKeeps ==
    ASSUME Inv, NEW c \in Cpus, TakeInterrupt(c)
    PROVE  Inv'
<1> DEFINE v == Max(irr[c])
<1>1. irr[c] \subseteq {32, 34, 48, 239} /\ irr[c] # {}
  BY DEF Inv, TypeInv, TakeInterrupt, Requests, Pit, Invlpg, Driver, PanicIpi
<1>2. v \in irr[c]
  <2>1. \E x \in irr[c] : \A y \in irr[c] : x >= y
    <3>1. CASE 239 \in irr[c]
      BY <1>1, <3>1
    <3>2. CASE 239 \notin irr[c] /\ 48 \in irr[c]
      BY <1>1, <3>2
    <3>3. CASE 239 \notin irr[c] /\ 48 \notin irr[c] /\ 34 \in irr[c]
      BY <1>1, <3>3
    <3>4. CASE 239 \notin irr[c] /\ 48 \notin irr[c] /\ 34 \notin irr[c]
      BY <1>1, <3>4
    <3>5. QED
      BY <3>1, <3>2, <3>3, <3>4
  <2>2. QED
    BY <2>1 DEF Max
<1>3. /\ Interruptible(c) /\ Vector(c, v) /\ UNCHANGED <<bootVars, routines, ioVars>>
      /\ irr' = [irr EXCEPT ![c] = @ \ {v}]
  BY DEF TakeInterrupt
<1> HIDE DEF v
<1>4. v \in Int /\ v \in routines
  BY <1>1, <1>2 DEF Inv, HandledInv
<1>5. irr' \in [Cpus -> SUBSET Requests] /\ \A d \in Cpus : irr'[d] \subseteq irr[d]
  BY <1>3 DEF Inv, TypeInv
<1>6. QED
  BY <1>3, <1>4, <1>5, VectorKeeps

LEMMA IsrKeeps ==
    ASSUME Inv, NEW c \in Cpus, Isr(c)
    PROVE  Inv'
<1>1. cpu[c].pc = "isr" /\ UNCHANGED <<bootVars, routines, ioVars, irr>>
  BY DEF Isr, apicVars
<1>2. idt \in {"pic", "isr"} /\ (cpu[c].vector \in routines \/ cpu[c].vector >= PicVectors)
  BY <1>1 DEF Inv, TypeInv, HandledInv, Stopped
<1>3. Handler(cpu[c].vector) \in {"iret", "haltCpu", "routine"}
  <2>1. CASE idt = "pic"
    BY <2>1 DEF Handler
  <2>2. CASE idt = "isr" /\ cpu[c].vector \in routines
    BY <2>2 DEF Handler
  <2>3. CASE idt = "isr" /\ cpu[c].vector \notin routines
    BY <1>2, <2>3 DEF Handler
  <2>4. QED
    BY <1>2, <2>1, <2>2, <2>3
<1>4. PICK p \in {"iret", "haltCpu", "routine"}, v \in Int : Handle(c, p, v)
  <2>1. cpu[c].vector \in Int
    BY Fields DEF Inv, TypeInv
  <2>2. QED
    BY <1>3, <2>1 DEF Isr
<1>5. Becomes(c, p, cpu[c].critical, cpu[c].todo, cpu[c].next, cpu[c].saved, v)
  BY <1>4, HandleBecomes DEF Inv, TypeInv, CpuPcs
<1>6. QED
  BY <1>1, <1>2, <1>5, MoveKeeps DEF Operating, Resumable

LEMMA RoutineKeeps ==
    ASSUME Inv, NEW c \in Cpus, Routine(c) \/ HaltCpu(c)
    PROVE  Inv'
<1>1. cpu[c].pc \in {"routine", "haltCpu"} /\ UNCHANGED <<bootVars, routines, ioVars, irr>>
  BY DEF Routine, HaltCpu
<1>2. idt # "none" /\ cpu[c].pc \notin Operating
  BY <1>1 DEF Inv, HandledInv, Stopped, Operating
<1>3. CASE Routine(c)
  <2>1. Handle(c, "iret", 0) /\ CpuType /\ "iret" \in CpuPcs /\ 0 \in Int
    BY <1>3 DEF Routine, Inv, TypeInv, CpuPcs
  <2>2. Becomes(c, "iret", cpu[c].critical, cpu[c].todo, cpu[c].next, cpu[c].saved, 0)
    BY <2>1, HandleBecomes
  <2>3. QED
    BY <1>1, <1>2, <2>2, MoveKeeps DEF Resumable
<1>4. CASE HaltCpu(c)
  <2>1. Becomes(c, "halted", cpu[c].critical, cpu[c].todo, cpu[c].next, "idle", cpu[c].vector)
    BY <1>4, HaltBecomes DEF Inv, TypeInv
  <2>2. QED
    BY <1>1, <1>2, <2>1, MoveKeeps DEF Resumable
<1>5. QED
  BY <1>3, <1>4

\* A CPU asks the others only when the routine for it is set, and goes on when all
\* have answered.
LEMMA WaitKeeps ==
    ASSUME Inv, NEW c \in Cpus, Ask(c) \/ Answered(c)
    PROVE  Inv'
<1>1. CASE Ask(c)
  <2>1. /\ cpu[c].pc = "idle" /\ UNCHANGED <<bootVars, routines, ioVars>>
        /\ Opening(c, "wait", TRUE) /\ Invlpg \in routines
        /\ irr' = [d \in Cpus |-> IF d = c THEN irr[d] ELSE irr[d] \union {Invlpg}]
    BY <1>1 DEF Ask, IsFree, Opening, Inv, GateInv
  <2>2. idt # "none"
    BY <2>1, Gates DEF Inv
  <2>3. Becomes(c, "wait", TRUE, cpu[c].todo, cpu[c].next, cpu[c].saved, cpu[c].vector)
    BY <2>1, WindowBecomes DEF Inv, TypeInv, CpuPcs
  <2>4. irr' \in [Cpus -> SUBSET Requests]
    <3>1. \A d \in Cpus : irr[d] \subseteq Requests /\ Invlpg \in Requests
      BY DEF Inv, TypeInv, Requests
    <3>2. QED
      BY <2>1, <3>1
  <2>5. \A d \in Cpus : irr'[d] \subseteq routines'
    BY <2>1 DEF Inv, HandledInv
  <2>6. Begins(c)'
    BY <2>3 DEF Becomes, Begins, Operating
  <2>7. HandledInv(c)'
    BY <2>1, <2>2, <2>3, <2>5 DEF Inv, HandledInv, Becomes, bootVars
  <2>8. GateInv' /\ ready' \subseteq Modules /\ idt' \in {"none", "pic", "isr"} /\ idt' = idt
    BY <2>1 DEF Inv, TypeInv, GateInv, bootVars
  <2>9. QED
    BY <2>1, <2>3, <2>4, <2>5, <2>6, <2>7, <2>8, StepKeeps DEF Becomes, Operating
<1>2. CASE Answered(c)
  <2>1. cpu[c].pc = "wait" /\ UNCHANGED <<bootVars, routines, ioVars, irr>>
        /\ Opening(c, "idle", FALSE)
    BY <1>2 DEF Answered, Opening, apicVars
  <2>2. idt # "none"
    BY <2>1 DEF Inv, HandledInv, Stopped
  <2>3. Becomes(c, "idle", FALSE, cpu[c].todo, cpu[c].next, cpu[c].saved, cpu[c].vector)
    BY <2>1, WindowBecomes DEF Inv, TypeInv, CpuPcs, Resumable
  <2>4. /\ cpu[c].pc \notin Operating /\ "idle" \in Resumable /\ "idle" # "pitMap"
        /\ UNCHANGED <<bootVars, ioVars, irr>> /\ routines \subseteq routines'
    BY <2>1 DEF Operating, Resumable
  <2>5. QED
    BY <2>2, <2>3, <2>4, MoveKeeps
<1>3. QED
  BY <1>1, <1>2

LEMMA IretKeeps ==
    ASSUME Inv, NEW c \in Cpus, Iret(c)
    PROVE  Inv'
<1>1. cpu[c].pc = "iret" /\ UNCHANGED <<bootVars, routines, ioVars, irr>>
  BY DEF Iret, apicVars
<1>2. idt # "none" /\ cpu[c].pc \notin Operating
  BY <1>1 DEF Inv, HandledInv, Stopped, Operating
<1>3. Becomes(c, cpu[c].saved, FALSE, cpu[c].todo, cpu[c].next, "idle", cpu[c].vector)
  BY IretBecomes DEF Inv, TypeInv
<1>4. cpu[c].saved \in Resumable
  BY Fields DEF Inv, TypeInv
<1>5. Begins(c)'
  BY <1>3, <1>4 DEF Becomes, Begins, Operating, Resumable
<1>6. cpu[c].saved # "isr" /\ cpu[c].saved # "send"
  BY <1>4 DEF Resumable
<1>7. HandledInv(c)'
  BY <1>1, <1>2, <1>3, <1>6 DEF Inv, HandledInv, Becomes, bootVars
<1>8. QED
  BY <1>1, <1>2, <1>3, <1>5, <1>7, CpuStep DEF Becomes

\* The first CPU that panics sends the interrupt only if its routine is set.
LEMMA PanicKeeps ==
    ASSUME Inv, NEW c \in Cpus, Panic(c)
    PROVE  Inv'
<1> DEFINE t == IF "panic" \in ready THEN SetToSeq(Others(c)) ELSE <<>>
           p == IF panics > 0 THEN "halted" ELSE "send"
<1>1. cpu[c].pc # "unhandled"
  BY Fields DEF Inv, TypeInv, CpuPcs, Operating, Resumable, Stopped
<1>2. cpu[c].pc = "idle" /\ UNCHANGED <<bootVars, routines, ioVars, irr>>
  BY <1>1 DEF Panic, IsFree, apicVars
<1>3. Halting(c, p, t)
  BY DEF Panic, Halting
<1>4. p \in Stopped /\ (t # <<>> => PanicIpi \in routines)
  BY DEF Stopped, Inv, GateInv
<1> HIDE DEF p, t
<1>5. Becomes(c, p, TRUE, t, cpu[c].next, cpu[c].saved, cpu[c].vector)
  BY <1>3, <1>4, PanicBecomes DEF Inv, TypeInv
<1>6. Begins(c)'
  BY <1>4, <1>5 DEF Becomes, Begins, Operating, Stopped
<1>7. p # "isr" /\ p # "pitMap"
  BY <1>4 DEF Stopped
<1>8. HandledInv(c)'
  BY <1>2, <1>4, <1>5, <1>7 DEF Inv, HandledInv, Becomes, bootVars
<1>9. QED
  BY <1>2, <1>5, <1>6, <1>8, CpuStep DEF Becomes, Operating

LEMMA SendPanicKeeps ==
    ASSUME Inv, NEW c \in Cpus, SendPanic(c)
    PROVE  Inv'
<1>1. cpu[c].pc = "send" /\ UNCHANGED <<bootVars, routines, ioVars>>
  BY DEF SendPanic
<1>2. CASE cpu[c].todo = <<>>
  <2>1. Goto(c, "halted") /\ UNCHANGED irr
    BY <1>2 DEF SendPanic
  <2>2. Becomes(c, "halted", cpu[c].critical, cpu[c].todo, cpu[c].next, cpu[c].saved, cpu[c].vector)
    BY <2>1, GotoBecomes DEF Inv, TypeInv, CpuPcs, Stopped
  <2>3. Begins(c)'
    BY <2>2 DEF Becomes, Begins, Operating
  <2>4. HandledInv(c)'
    BY <1>1, <2>1, <2>2 DEF Inv, HandledInv, Becomes, bootVars, Stopped
  <2>5. QED
    BY <1>1, <2>1, <2>2, <2>3, <2>4, CpuStep DEF Becomes, Operating
<1>3. CASE cpu[c].todo # <<>>
  <2>1. /\ Sending(c, Tail(cpu[c].todo))
        /\ irr' = [irr EXCEPT ![Head(cpu[c].todo)] = @ \union {PanicIpi}]
    BY <1>3 DEF SendPanic, Sending
  <2>2. PanicIpi \in routines
    BY <1>1, <1>3 DEF Inv, HandledInv
  <2>3. Becomes(c, "send", cpu[c].critical, Tail(cpu[c].todo), cpu[c].next, cpu[c].saved, cpu[c].vector)
    BY <1>1, <2>1, SendBecomes DEF Inv, TypeInv
  <2>4. /\ irr' \in [Cpus -> SUBSET Requests]
        /\ \A d \in Cpus : irr'[d] \subseteq routines'
    <3>1. \A d \in Cpus : irr'[d] \subseteq irr[d] \union {PanicIpi}
      BY <2>1 DEF Inv, TypeInv
    <3>2. irr' \in [Cpus -> SUBSET Requests]
      BY <2>1 DEF Inv, TypeInv, Requests
    <3>3. QED
      BY <1>1, <2>2, <3>1, <3>2 DEF Inv, HandledInv
  <2>5. Begins(c)'
    BY <2>3 DEF Becomes, Begins, Operating
  <2>6. HandledInv(c)'
    BY <1>1, <2>2, <2>3, <2>4 DEF Inv, HandledInv, Becomes, bootVars, Stopped
  <2>7. GateInv' /\ ready' \subseteq Modules /\ idt' \in {"none", "pic", "isr"} /\ idt' = idt
    BY <1>1 DEF Inv, TypeInv, GateInv, bootVars
  <2>8. QED
    BY <1>1, <2>3, <2>4, <2>5, <2>6, <2>7, StepKeeps DEF Becomes, Operating
<1>4. QED
  BY <1>2, <1>3

\* A line whose entry is not masked asks for a vector that has a routine.
LEMMA RaiseKeeps ==
    ASSUME Inv, NEW irq \in Lines, Raise(irq)
    PROVE  Inv'
<1>1. UNCHANGED <<bootVars, routines, ioVars, cpu>> /\ Pin(irq) \in Pins /\ ~low[Pin(irq)].masked
  BY PinAssumption DEF Raise, Lines
<1>2. irr' = [irr EXCEPT ![high[Pin(irq)]] = @ \union {low[Pin(irq)].vector}]
  BY DEF Raise
<1>3. PICK line \in Lines : low[Pin(irq)] = Mapped(line) /\ VectorOf(line) \in routines
  BY <1>1 DEF Inv, IoInv, EntryInv
<1>4. /\ low[Pin(irq)].vector \in routines \intersect Requests
  BY <1>3 DEF Mapped, Entry, VectorOf, Requests
<1>5. irr' \in [Cpus -> SUBSET Requests]
  BY <1>2, <1>4 DEF Inv, TypeInv
<1>6. \A d \in Cpus : irr'[d] \subseteq irr[d] \union {low[Pin(irq)].vector}
  BY <1>2 DEF Inv, TypeInv
<1>7. TypeInv'
  BY <1>1, <1>5 DEF Inv, TypeInv, CpuType, ioVars, bootVars
<1>8. IoInv'
  BY <1>1, InPlace DEF Inv
<1>9. GateInv'
  BY <1>1 DEF Inv, GateInv, bootVars
<1>10. ASSUME NEW d \in Cpus
       PROVE  HandledInv(d)'
  <2>1. irr'[d] \subseteq routines'
    BY <1>1, <1>4, <1>6 DEF Inv, HandledInv
  <2>2. QED
    BY <1>1, <2>1 DEF Inv, HandledInv, bootVars
<1>11. QED
  BY <1>7, <1>8, <1>9, <1>10 DEF Inv

-----------------------------------------------------------------------------
(* Initialization.                                                         *)

\* A module that is initialized in one step.
LEMMA AtOnceKeeps ==
    ASSUME Inv, NEW m \in Modules, CanInitialize(m), UNCHANGED <<idt, ioVars, irr, cpu>>,
           routines \subseteq routines', ready' = ready \union {m}, GateInv'
    PROVE  Inv'
<1>1. Boot \in Cpus /\ cpu[Boot].pc = "idle"
  BY CpuAssumption DEF CanInitialize
<1>2. CpuType' /\ (\A d \in Cpus \ {Boot} : cpu'[d] = cpu[d]) /\ Begins(Boot)'
  BY <1>1 DEF Inv, TypeInv, CpuType, Begins, Operating
<1>3. /\ irr' \in [Cpus -> SUBSET Requests] /\ (\A d \in Cpus : irr'[d] \subseteq routines')
      /\ ready' \subseteq Modules /\ idt' \in {"none", "pic", "isr"}
  BY DEF Inv, TypeInv, HandledInv
<1>4. HandledInv(Boot)'
  BY <1>1 DEF Inv, HandledInv
<1>5. QED
  BY <1>1, <1>2, <1>3, <1>4, StepKeeps DEF Operating

\* The last step of a module.
LEMMA DoneKeeps ==
    ASSUME Inv, NEW m \in Modules, cpu[Boot].pc \in Resumable \ {"idle"}, Goto(Boot, "idle"),
           ready' = ready \union {m}, UNCHANGED <<picBase, routines, ioVars, irr>>,
           idt' \in {idt, "isr"}, m \notin {"pic", "tlb", "panic"}
    PROVE  Inv'
<1>1. Boot \in Cpus
  BY CpuAssumption
<1>2. idt # "none" /\ idt' # "none" /\ cpu[Boot].pc \notin Operating
  BY <1>1 DEF Inv, HandledInv, Stopped, Resumable, Operating
<1>3. Becomes(Boot, "idle", cpu[Boot].critical, cpu[Boot].todo, cpu[Boot].next, cpu[Boot].saved,
              cpu[Boot].vector)
  BY <1>1, GotoBecomes DEF Inv, TypeInv, CpuPcs, Resumable
<1>4. Begins(Boot)'
  BY <1>3 DEF Becomes, Begins, Operating
<1>5. HandledInv(Boot)'
  BY <1>1, <1>2, <1>3 DEF Inv, HandledInv, Becomes
<1>6. GateInv'
  BY <1>2 DEF Inv, GateInv
<1>7. /\ irr' \in [Cpus -> SUBSET Requests] /\ (\A d \in Cpus : irr'[d] \subseteq routines')
      /\ ready' \subseteq Modules /\ idt' \in {"none", "pic", "isr"}
  BY DEF Inv, TypeInv, HandledInv
<1>8. QED
  BY <1>1, <1>2, <1>3, <1>4, <1>5, <1>6, <1>7, StepKeeps DEF Becomes

LEMMA InitializeKeeps ==
    ASSUME Inv, InitializePic \/ InitializeIrt \/ InitializeLapic \/ InitializeTlb
           \/ InitializePanic
    PROVE  Inv'
<1>1. Modules = {"pic", "irt", "critical", "ioapic", "lapic", "clock", "domains", "tlb", "panic"}
  BY DEF Modules, Deps
<1>2. CASE InitializePic
  <2>1. GateInv'
    BY <1>2 DEF Inv, GateInv, InitializePic, Remap
  <2>2. QED
    BY <1>1, <1>2, <2>1, AtOnceKeeps DEF InitializePic, apicVars
<1>3. CASE InitializeIrt
  <2>1. GateInv'
    BY <1>3 DEF Inv, GateInv, InitializeIrt
  <2>2. QED
    BY <1>1, <1>3, <2>1, AtOnceKeeps DEF InitializeIrt, apicVars
<1>4. CASE InitializeLapic
  <2>1. GateInv'
    BY <1>4 DEF Inv, GateInv, InitializeLapic
  <2>2. QED
    BY <1>1, <1>4, <2>1, AtOnceKeeps DEF InitializeLapic, apicVars
<1>5. CASE InitializePanic
  <2>1. "domains" \in ready
    BY <1>5 DEF InitializePanic, CanInitialize, Deps
  <2>2. GateInv'
    BY <1>5, <2>1 DEF Inv, GateInv, InitializePanic
  <2>3. QED
    BY <1>1, <1>5, <2>2, AtOnceKeeps DEF InitializePanic, apicVars
<1>6. CASE InitializeTlb
  <2>1. "domains" \in ready
    BY <1>6 DEF InitializeTlb, CanInitialize, Deps
  <2>2. GateInv'
    BY <1>6, <2>1 DEF Inv, GateInv, InitializeTlb
  <2>3. QED
    BY <1>1, <1>6, <2>2, AtOnceKeeps DEF InitializeTlb, apicVars
<1>7. QED
  BY <1>2, <1>3, <1>4, <1>5, <1>6

LEMMA CriticalKeeps ==
    ASSUME Inv, OpenWindow \/ CloseWindow
    PROVE  Inv'
<1>1. Boot \in Cpus
  BY CpuAssumption
<1>2. CASE OpenWindow
  <2>1. /\ cpu[Boot].pc = "idle" /\ "pic" \in ready /\ Opening(Boot, "window", FALSE) /\ idt' = "pic"
        /\ UNCHANGED <<ready, picBase, routines, ioVars, irr>>
    BY <1>2 DEF OpenWindow, CanInitialize, Deps, Opening, ConfigurePicEoi, apicVars
  <2>2. Becomes(Boot, "window", FALSE, cpu[Boot].todo, cpu[Boot].next, cpu[Boot].saved, cpu[Boot].vector)
    BY <1>1, <2>1, WindowBecomes DEF Inv, TypeInv, CpuPcs, Resumable
  <2>3. Begins(Boot)'
    BY <2>2 DEF Becomes, Begins, Operating
  <2>4. HandledInv(Boot)'
    BY <1>1, <2>1, <2>2 DEF Inv, HandledInv, Becomes
  <2>5. GateInv'
    BY <2>1 DEF Inv, GateInv
  <2>6. /\ irr' \in [Cpus -> SUBSET Requests]
        /\ (\A d \in Cpus : irr'[d] \subseteq routines') /\ ready' \subseteq Modules
    BY <2>1 DEF Inv, TypeInv, HandledInv
  <2>7. QED
    BY <1>1, <2>1, <2>2, <2>3, <2>4, <2>5, <2>6, StepKeeps DEF Becomes, Operating
<1>3. CASE CloseWindow
  <2>1. "critical" \in Modules
    BY DEF Modules, Deps
  <2>2. QED
    BY <1>3, <2>1, DoneKeeps DEF CloseWindow, Configure, Resumable, apicVars
<1>4. QED
  BY <1>2, <1>3

LEMMA IOApicKeeps ==
    ASSUME Inv, InitializeIOApic \/ MaskPins
    PROVE  Inv'
<1>1. Boot \in Cpus
  BY CpuAssumption
<1>2. CASE InitializeIOApic
  <2>1. /\ cpu[Boot].pc = "idle" /\ "critical" \in ready /\ Goto(Boot, "maskPins")
        /\ UNCHANGED <<bootVars, routines, ioVars, irr>>
    BY <1>2, PinAssumption DEF InitializeIOApic, CanInitialize, Deps, apicVars
  <2>2. idt # "none"
    BY <2>1, Gates DEF Inv
  <2>3. QED
    BY <1>1, <2>1, <2>2, GotoKeeps DEF Operating, Resumable
<1>3. CASE MaskPins
  <2> DEFINE left == {p \in Pins : low[p] # MaskedEntry}
  <2>1. cpu[Boot].pc = "maskPins" /\ UNCHANGED <<picBase, idt, routines, ioVars, irr>>
    BY <1>3 DEF MaskPins, apicVars
  <2>2. idt # "none"
    BY <1>1, <2>1 DEF Inv, HandledInv, Stopped
  <2>3. CASE left # {}
    <3>1. PICK p : MaskPin(Boot, p, "maskPins") /\ UNCHANGED ready
      BY <1>3, <2>3 DEF MaskPins
    <3>2. /\ Begins(Boot)'
          /\ Becomes(Boot, "table", TRUE, Mask(p), "maskPins", cpu[Boot].saved, cpu[Boot].vector)
      BY <1>1, <3>1, MaskBegins DEF Inv, TypeInv, Afterwards
    <3>3. QED
      BY <1>1, <2>1, <2>2, <3>1, <3>2, OperationKeeps DEF Operating, bootVars
  <2>4. CASE left = {}
    <3>1. Goto(Boot, "idle") /\ ready' = ready \union {"ioapic"} /\ "ioapic" \in Modules
      BY <1>3, <2>4 DEF MaskPins, Modules, Deps
    <3>2. QED
      BY <2>1, <3>1, DoneKeeps DEF Resumable
  <2>5. QED
    BY <2>3, <2>4
<1>4. QED
  BY <1>2, <1>3

LEMMA ClockKeeps ==
    ASSUME Inv, InitializeClock \/ ClockDone
    PROVE  Inv'
<1>1. Boot \in Cpus /\ "clock" \in Modules
  BY CpuAssumption DEF Modules, Deps
<1>2. CASE InitializeClock
  <2>1. /\ CanInitialize("clock") /\ cpu[Boot].pc = "idle" /\ "ioapic" \in ready
        /\ UNCHANGED <<picBase, idt, ioVars, irr>>
    BY <1>2 DEF InitializeClock, CanInitialize, Deps, apicVars
  <2>2. idt # "none"
    BY <2>1, Gates DEF Inv
  <2>3. CASE StartHpet
    <3>1. GateInv'
      BY <2>1, <2>2, <2>3 DEF Inv, GateInv, StartHpet
    <3>2. QED
      BY <1>1, <2>1, <2>3, <3>1, AtOnceKeeps DEF StartHpet
  <2>4. CASE Start(Boot) /\ UNCHANGED ready
    BY <1>1, <2>1, <2>2, <2>4, GotoKeeps DEF Start, bootVars, Operating, Resumable
  <2>5. QED
    BY <1>2, <2>3, <2>4 DEF InitializeClock
<1>3. CASE ClockDone
  BY <1>1, <1>3, DoneKeeps DEF ClockDone, Resumable, apicVars
<1>4. QED
  BY <1>2, <1>3

LEMMA DomainsKeeps ==
    ASSUME Inv, InitializeDomains
    PROVE  Inv'
<1>1. /\ "critical" \in ready /\ ready' = ready \union {"domains"} /\ "domains" \in Modules
      /\ cpu' = [c \in Cpus |-> [cpu[c] EXCEPT !.critical = FALSE]]
      /\ UNCHANGED <<picBase, idt, routines, ioVars, irr>>
  BY DEF InitializeDomains, CanInitialize, Deps, Modules, apicVars
<1>2. idt # "none"
  BY <1>1, Gates DEF Inv
<1>3. PICK T : cpu \in [Cpus -> CpuStates(T)]
  BY Widened DEF Inv, TypeInv
<1>4. \A c \in Cpus : [cpu[c] EXCEPT !.critical = FALSE] \in CpuStates(T)
  BY <1>3 DEF CpuStates
<1>5. cpu' \in [Cpus -> CpuStates(T)]
  BY <1>1, <1>4
<1>6. CpuType'
  BY <1>5, Typed DEF CpuType
<1>7. \A c \in Cpus : /\ cpu'[c].pc = cpu[c].pc /\ cpu'[c].todo = cpu[c].todo
                      /\ cpu'[c].vector = cpu[c].vector /\ cpu'[c].saved = cpu[c].saved
  BY <1>1, <1>3 DEF CpuStates
<1>8. TypeInv'
  BY <1>1, <1>6 DEF Inv, TypeInv, ioVars
<1>9. IoInv'
  BY <1>1, <1>7, InPlace DEF Inv
<1>10. GateInv'
  BY <1>1, <1>2 DEF Inv, GateInv
<1>11. \A c \in Cpus : HandledInv(c)'
  BY <1>1, <1>2, <1>7 DEF Inv, HandledInv
<1>12. QED
  BY <1>8, <1>9, <1>10, <1>11 DEF Inv

-----------------------------------------------------------------------------
(* The operations of the I/O APIC again, and the theorems.                 *)

\* A step of an operation keeps the rest of the invariant.
LEMMA OperatingKeeps ==
    ASSUME Inv, NEW c \in Cpus, SeizeTable(c) \/ Select(c) \/ Access(c)
    PROVE  Inv'
<1>1. TypeInv /\ IoInv /\ GateInv /\ HandledInv(c)
  BY DEF Inv
<1>2. UNCHANGED <<bootVars, routines, irr>>
  BY DEF SeizeTable, Select, Access, apicVars
<1>3. idt # "none"
  BY <1>1 DEF HandledInv, SeizeTable, Select, Access, Stopped
<1>4. GateInv'
  BY <1>1, <1>2 DEF GateInv, bootVars
<1>5. ASSUME NEW d \in Cpus, cpu'[d] = cpu[d]
      PROVE  HandledInv(d)'
  BY <1>2, <1>5 DEF Inv, HandledInv, bootVars
<1>6. CASE SeizeTable(c)
  <2>1. CpuType' /\ want' \in [Pins -> Entries] /\ IoInv'
    BY <1>1, <1>6, SeizeTableKeeps
  <2>2. TypeInv'
    BY <1>1, <1>2, <1>6, <2>1 DEF TypeInv, SeizeTable, bootVars
  <2>3. Becomes(c, "reg", cpu[c].critical, cpu[c].todo, cpu[c].next, cpu[c].saved, cpu[c].vector)
    BY <1>1, <1>6, GotoBecomes DEF TypeInv, SeizeTable, CpuPcs, Operating
  <2>4. HandledInv(c)'
    BY <1>1, <1>2, <1>3, <2>3 DEF HandledInv, Becomes, bootVars
  <2>5. QED
    BY <1>4, <1>5, <2>1, <2>2, <2>3, <2>4 DEF Inv, Becomes
<1>7. CASE Select(c)
  <2>1. CpuType' /\ IoInv'
    BY <1>1, <1>7, SelectKeeps
  <2>2. TypeInv'
    BY <1>1, <1>2, <1>7, <2>1 DEF TypeInv, Select, bootVars
  <2>3. Becomes(c, "data", cpu[c].critical, cpu[c].todo, cpu[c].next, cpu[c].saved, cpu[c].vector)
    BY <1>1, <1>7, GotoBecomes DEF TypeInv, Select, CpuPcs, Operating
  <2>4. HandledInv(c)'
    BY <1>1, <1>2, <1>3, <2>3 DEF HandledInv, Becomes, bootVars
  <2>5. QED
    BY <1>4, <1>5, <2>1, <2>2, <2>3, <2>4 DEF Inv, Becomes
<1>8. CASE Access(c)
  <2>1. low' \in [Pins -> Entries] /\ high' \in [Pins -> Cpus] /\ IoInv'
    BY <1>1, <1>8, AccessKeeps
  <2>2. /\ CpuType' /\ cpu'[c].saved = cpu[c].saved /\ regLock' = NoCpu /\ want' = want
        /\ \A d \in Cpus \ {c} : cpu'[d] = cpu[d]
    BY <1>1, <1>8, AccessMoves
  <2>3. tableLock' \in {tableLock, NoCpu}
    BY <1>8 DEF Access
  <2>4. TypeInv'
    BY <1>1, <1>2, <2>1, <2>2, <2>3 DEF TypeInv, bootVars
  <2>5. cpu'[c].pc \in Afterwards \union {"reg"}
    BY <1>1, <1>8, AccessMoves, Fields DEF TypeInv
  <2>6. cpu'[c].pc \notin {"isr", "pitMap", "send"}
    BY <2>5 DEF Afterwards
  <2>7. HandledInv(c)'
    BY <1>1, <1>2, <1>3, <2>2, <2>6 DEF HandledInv, bootVars
  <2>8. QED
    BY <1>4, <1>5, <2>1, <2>2, <2>4, <2>7 DEF Inv
<1>9. QED
  BY <1>6, <1>7, <1>8

LEMMA InitInv ==
    Init => Inv
<1> SUFFICES ASSUME Init
             PROVE  Inv
  OBVIOUS
<1>1. TypeInv
  <2>1. cpu \in [Cpus -> CpuStates({<<>>})]
    BY DEF Init, CpuStates, CpuPcs, Resumable, Afterwards
  <2>2. CpuType
    BY <2>1, Typed DEF CpuType
  <2>3. low \in [Pins -> Entries] /\ want \in [Pins -> Entries] /\ high \in [Pins -> Cpus]
    BY ResetAssumption DEF Init, Unwritten, Entry, Entries
  <2>4. QED
    BY <2>2, <2>3 DEF Init, TypeInv
<1>2. \A c \in Cpus : cpu[c].pc = "idle" /\ cpu[c].critical /\ cpu[c].saved = "idle"
  BY DEF Init
<1>3. EntryInv
  BY DEF Init, EntryInv, Unwritten, Entry
<1>4. \A c \in Cpus : LockInv(c) /\ WriteInv(c)
  BY <1>2, CpuAssumption DEF Init, LockInv, WriteInv, Accessing
<1>5. GateInv
  BY DEF Init, GateInv
<1>6. \A c \in Cpus : HandledInv(c)
  BY <1>2 DEF Init, HandledInv
<1>7. QED
  BY <1>1, <1>3, <1>4, <1>5, <1>6 DEF Inv, IoInv

LEMMA NextInv ==
    Inv /\ [Next]_vars => Inv'
<1> SUFFICES ASSUME Inv, [Next]_vars
             PROVE  Inv'
  OBVIOUS
<1>1. CASE UNCHANGED vars
  <2>1. UNCHANGED <<bootVars, routines, ioVars, irr, cpu>>
    BY <1>1 DEF vars, apicVars
  <2>2. TypeInv'
    BY <2>1 DEF Inv, TypeInv, CpuType, bootVars, ioVars
  <2>3. IoInv'
    BY <2>1, InPlace DEF Inv
  <2>4. GateInv' /\ \A c \in Cpus : HandledInv(c)'
    BY <2>1 DEF Inv, GateInv, HandledInv, bootVars
  <2>5. QED
    BY <2>2, <2>3, <2>4 DEF Inv
<1>2. ASSUME NEW c \in Cpus, Progress(c)
      PROVE  Inv'
  BY <1>2, OperatingKeeps, DriverKeeps, IsrKeeps, RoutineKeeps, IretKeeps, WaitKeeps, SendPanicKeeps,
     IOApicKeeps, CriticalKeeps, ClockKeeps DEF Progress
<1>3. ASSUME NEW c \in Cpus, Choice(c)
      PROVE  Inv'
  BY <1>3, PitKeeps, DriverKeeps, ReadRegKeeps, TakeSpuriousKeeps, WaitKeeps, PanicKeeps DEF Choice
<1>4. ASSUME NEW c \in Cpus, TakeInterrupt(c)
      PROVE  Inv'
  BY <1>4, TakeInterruptKeeps
<1>5. ASSUME \/ InitializePic \/ InitializeIrt \/ OpenWindow \/ InitializeIOApic \/ InitializeLapic
             \/ InitializeClock \/ InitializeDomains \/ InitializeTlb
             \/ InitializePanic
      PROVE  Inv'
  BY <1>5, InitializeKeeps, CriticalKeeps, IOApicKeeps, ClockKeeps, DomainsKeeps
<1>6. ASSUME NEW irq \in {PitIrq, DriverIrq}, Raise(irq)
      PROVE  Inv'
  BY <1>6, RaiseKeeps DEF Lines
<1>7. QED
  BY <1>1, <1>2, <1>3, <1>4, <1>5, <1>6 DEF Next

\* Whatever the CPUs, the drivers and the panics do, no redirection entry mixes the
\* words of two operations: IOApic::lock and IOApic::tableLock are enough.
THEOREM EntriesAreIntact == Spec => []RedirectionIntact
<1>1. Inv => RedirectionIntact
  <2> SUFFICES ASSUME Inv
               PROVE  RedirectionIntact
    OBVIOUS
  <2>1. EntryInv
    BY DEF Inv, IoInv
  <2>2. ASSUME NEW irq \in Lines, ~low[Pin(irq)].masked
        PROVE  low[Pin(irq)] = Mapped(irq) /\ high[Pin(irq)] = Boot
    <3>1. Pin(irq) \in Pins
      BY PinAssumption DEF Lines
    <3>2. PICK line \in Lines : Pin(irq) = Pin(line) /\ low[Pin(irq)] = Mapped(line)
      BY <2>1, <2>2, <3>1 DEF EntryInv
    <3>3. line = irq
      BY <3>2, PinAssumption DEF Lines
    <3>4. QED
      BY <2>1, <2>2, <3>1, <3>2, <3>3 DEF EntryInv
  <2>3. \A irq : /\ Mapped(irq).vector = (IF irq = PitIrq THEN Pit ELSE Driver)
                 /\ Mapped(irq).flags = Flags(irq)
    BY DEF Mapped, Entry, VectorOf
  <2>4. QED
    BY <2>1, <2>2, <2>3 DEF RedirectionIntact, EntryInv, Lines
<1>2. QED
  BY <1>1, InitInv, NextInv, PTL DEF Spec

\* No interrupt finds a table without gates or without a routine, from the first module
\* that is initialized to the last panic: the modules' dependencies (Deps), the window of
\* CriticalModule and the routine that Pit::Stop leaves are enough for it.
THEOREM InterruptsAreHandled == Spec => []AlwaysHandled
<1>1. Inv => AlwaysHandled
  BY Fields DEF Inv, TypeInv, AlwaysHandled, CpuPcs, Operating, Resumable, Stopped
<1>2. QED
  BY <1>1, InitInv, NextInv, PTL DEF Spec

=============================================================================
