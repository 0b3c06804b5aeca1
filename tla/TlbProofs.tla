------------------------------ MODULE TlbProofs ------------------------------
(***************************************************************************)
(* Proofs about Tlb, for any number of CPUs, maps and pages.               *)
(***************************************************************************)
EXTENDS Tlb, FiniteSetTheorems, TLAPS

Tables == [Addrs -> Frames \union {NoFrame}]

-----------------------------------------------------------------------------
(* The operators the model is built from.                                  *)

\* SetPages returns a table: frames go in, a table comes out.
LEMMA SetPagesType ==
    ASSUME NEW t \in Tables, NEW r, NEW f \in Frames \union {NoFrame}
    PROVE  SetPages(t, r, f) \in Tables
BY DEF SetPages, Tables

\* KernelPart returns a table.
LEMMA KernelPartType ==
    ASSUME NEW t \in Tables
    PROVE  KernelPart(t) \in Tables
BY DEF KernelPart, Tables

\* Invlpgs returns a table.
LEMMA InvlpgsType ==
    ASSUME NEW t \in Tables, NEW r
    PROVE  Invlpgs(t, r) \in Tables
<1>1. [a \in Addrs |-> NoFrame] \in Tables
  BY DEF Tables
<1>2. QED
  BY <1>1, SetPagesType, KernelPartType DEF Invlpgs

\* Invlpgs only ever removes translations.
LEMMA InvlpgsRemoves ==
    ASSUME NEW t \in Tables, NEW r, NEW a \in Addrs
    PROVE  Invlpgs(t, r)[a] \in {t[a], NoFrame}
BY DEF Invlpgs, SetPages, KernelPart

\* Invlpgs removes every translation of its range, the range being one that
\* does not end at KernelEnd when it is above the limit.
LEMMA InvlpgsRemovesRange ==
    ASSUME NoLastRange, NEW t \in Tables, NEW r \in Requests, NEW a \in Pages(r)
    PROVE  a \in Addrs /\ Invlpgs(t, r)[a] = NoFrame
<1>1. /\ r.start \in Nat
      /\ r.size \in Nat
      /\ r.start + r.size <= AddrEnd
      /\ r.start < KernelEnd => r.start + r.size <= KernelEnd
      /\ KernelEnd \in Int /\ AddrEnd \in Int /\ FlushLimit \in Int
  BY RequestAssumption, AddrAssumption, LimitAssumption DEF Addrs
<1>2. a \in Addrs
  BY <1>1 DEF Pages, Addrs
<1>3. CASE r.size > FlushLimit /\ r.start + r.size < KernelEnd
  BY <1>2, <1>3 DEF Invlpgs
<1>4. CASE r.size > FlushLimit /\ ~(r.start + r.size < KernelEnd)
  <2>1. ~(r.start < KernelEnd)
    BY <1>4 DEF NoLastRange
  <2>2. ~(a < KernelEnd)
    BY <1>1, <2>1 DEF Pages
  <2>3. QED
    BY <1>2, <1>4, <2>2 DEF Invlpgs, KernelPart
<1>5. CASE ~(r.size > FlushLimit)
  BY <1>2, <1>5 DEF Invlpgs, SetPages
<1>6. QED
  BY <1>3, <1>4, <1>5

-----------------------------------------------------------------------------
(* Type correctness.                                                       *)

\* The initial state is well typed.
LEMMA InitType ==
    ASSUME Init
    PROVE  TypeOK
<1>1. ready \in BOOLEAN
  BY DEF Init
<1>2. pending \in [Cpus -> BOOLEAN]
  BY DEF Init
<1> QED
  BY <1>1, <1>2 DEF Init, TypeOK, Maps, Requested, Pcs

\* Every action keeps the types.
LEMMA NextType ==
    ASSUME TypeOK, [Next]_vars
    PROVE  TypeOK'
<1> USE DEF TypeOK
<1>1. CASE Initialize
  BY <1>1 DEF Initialize, mapVars, ipiVars, cpuVars
<1>2. ASSUME NEW c \in Cpus, NEW a \in Addrs, Fill(c, a)
      PROVE  TypeOK'
  <2>1. pt[Owner(cr3[c], a)][a] \in Frames \union {NoFrame}
    BY DEF Owner, Maps
  <2>2. QED
    BY <1>2, <2>1 DEF Fill, mapVars, ipiVars, cpuVars
<1>3. ASSUME NEW c \in Cpus, NEW m \in Maps, SetBegin(c, m)
      PROVE  TypeOK'
  BY <1>3 DEF SetBegin, WillSetAddressSpace, Goto, Pcs, mapVars, ipiVars
<1>4. ASSUME NEW c \in Cpus, NEW r \in Requests, NEW f \in Frames, Map(c, r, f)
      PROVE  TypeOK'
  <2>1. SetPages(pt[cr3[c]], r, f) \in Tables
    BY SetPagesType DEF Tables
  <2>2. QED
    BY <1>4, <2>1 DEF Map, Tables, ipiVars, cpuVars
<1>5. ASSUME NEW c \in Cpus, NEW r \in Requests, NEW f \in Frames \union {NoFrame},
             NEW flush, Change(c, r, f, flush)
      PROVE  TypeOK'
  <2>1. SetPages(pt[cr3[c]], r, f) \in Tables
    BY SetPagesType DEF Tables
  <2>2. pt' \in [Maps -> Tables]
    BY <1>5, <2>1 DEF Change, Tables
  <2>3. pc' \in [Cpus -> Pcs]
    BY <1>5 DEF Change, Goto, Pcs, MapLockPcs
  <2>4. mapLock' \in [Maps -> Cpus \union {NoCpu}] /\ op' \in [Cpus -> Requested]
    BY <1>5 DEF Change, Requested
  <2>5. QED
    BY <1>5, <2>2, <2>3, <2>4 DEF Change, Tables, ipiVars, cpuVars
<1>6. ASSUME NEW c \in Cpus, SetCr3(c)
      PROVE  TypeOK'
  <2>1. KernelPart(tlb[c]) \in Tables
    BY KernelPartType DEF Tables
  <2>2. QED
    BY <1>6, <2>1 DEF SetCr3, Goto, Pcs, Tables, mapVars, ipiVars
<1>7. ASSUME NEW c \in Cpus, FlushLocal(c) \/ FlushSelf(c)
      PROVE  TypeOK'
  <2>1. Invlpgs(tlb[c], op[c]) \in Tables
    BY InvlpgsType DEF Tables
  <2>2. tlb' \in [Cpus -> Tables]
    BY <1>7, <2>1 DEF FlushLocal, FlushSelf, Tables
  <2>3. pc' \in [Cpus -> Pcs]
    BY <1>7 DEF FlushLocal, FlushSelf, Goto, Pcs, MapLockPcs, TlbLockPcs
  <2>4. UNCHANGED <<ready, mapVars, tlbLock, op, todo, ipiVars, cpuVars>>
    BY <1>7 DEF FlushLocal, FlushSelf
  <2>5. QED
    BY <2>2, <2>3, <2>4 DEF Tables, mapVars, ipiVars, cpuVars
<1>8. ASSUME NEW c \in Cpus, Acquire(c) \/ Unlock(c) \/ SentAll(c) \/ WaitOver(c)
      PROVE  TypeOK'
  BY <1>8 DEF Acquire, Unlock, SentAll, WaitOver, Goto, Pcs, MapLockPcs, TlbLockPcs,
              mapVars, ipiVars, cpuVars
<1>9. ASSUME NEW c \in Cpus, Publish(c)
      PROVE  TypeOK'
  BY <1>9 DEF Publish, Goto, Pcs, MapLockPcs, TlbLockPcs, mapVars, cpuVars
<1>10. ASSUME NEW c \in Cpus, NEW d \in todo[c], Skip(c, d) \/ SendIpi(c, d)
       PROVE  TypeOK'
  <2>1. CASE Skip(c, d)
    BY <2>1 DEF Skip, mapVars, ipiVars, cpuVars
  <2>2. CASE SendIpi(c, d)
    <3>1. d \in Cpus /\ pending' = [pending EXCEPT ![d] = TRUE]
      BY <2>2 DEF SendIpi
    <3>2. pending' \in [Cpus -> BOOLEAN]
      BY <3>1
    <3>3. QED
      BY <2>2, <3>2 DEF SendIpi, Goto, Pcs, MapLockPcs, TlbLockPcs, mapVars, cpuVars
  <2>3. QED
    BY <1>10, <2>1, <2>2
<1>11. ASSUME NEW c \in Cpus, CountIpi(c)
       PROVE  TypeOK'
  BY <1>11 DEF CountIpi, Goto, Pcs, MapLockPcs, TlbLockPcs, mapVars, cpuVars
<1>12. ASSUME NEW c \in Cpus, Leave(c)
       PROVE  TypeOK'
  BY <1>12 DEF Leave, Goto, Pcs, Requested, ipiVars, cpuVars
<1>13. ASSUME NEW c \in Cpus, HandleInvlpgs(c)
       PROVE  TypeOK'
  <2>1. Invlpgs(tlb[c], invl) \in Tables
    BY InvlpgsType DEF Tables
  <2>2. QED
    BY <1>13, <2>1 DEF HandleInvlpgs, Tables, mapVars, cpuVars
<1>14. ASSUME NEW c \in Cpus, TakeIpi(c) \/ HandleCount(c) \/ HandleEoi(c)
       PROVE  TypeOK'
  <2>1. CASE TakeIpi(c)
    BY <2>1 DEF TakeIpi, mapVars, cpuVars
  <2>2. CASE HandleCount(c)
    BY <2>2 DEF HandleCount, mapVars, cpuVars
  <2>3. CASE HandleEoi(c)
    BY <2>3 DEF HandleEoi, mapVars, cpuVars
  <2>4. QED
    BY <1>14, <2>1, <2>2, <2>3
<1>15. CASE UNCHANGED vars
  BY <1>15 DEF vars
<1>16. ASSUME NEW c \in Cpus, Call(c)
       PROVE  TypeOK'
  BY <1>16, <1>3, <1>4, <1>5 DEF Call, MapAt, Overwrote, Unmap
<1>17. ASSUME NEW c \in Cpus, Distribute(c)
       PROVE  TypeOK'
  BY <1>17, <1>7, <1>8, <1>9, <1>10, <1>11 DEF Distribute
<1> QED
  BY <1>1, <1>2, <1>6, <1>12, <1>13, <1>14, <1>15, <1>16, <1>17
     DEF Next, HandleNotification

\* TypeOK holds in every state, before Tlb::Initialize and after it.
THEOREM TypeCorrect == Spec => []TypeOK
<1>1. Init => TypeOK
  BY InitType
<1>2. TypeOK /\ [Step]_vars => TypeOK'
  BY NextType DEF Step
<1>3. QED
  BY <1>1, <1>2, PTL DEF Spec

-----------------------------------------------------------------------------
(* The inductive invariant, one lemma per part.                            *)

\* A critical section of the model is never interrupted, so locks stay with
\* the CPU whose program counter claims them.
LEMMA NextLock ==
    ASSUME TypeOK, LockInv, [Next]_vars
    PROVE  LockInv'
<1> USE DEF TypeOK, LockInv, Goto, Pcs, MapLockPcs, TlbLockPcs, mapVars, ipiVars,
            cpuVars
<1>0. \A c \in Cpus : c # NoCpu
  BY CpuAssumption
<1>1. CASE Initialize
  BY <1>1 DEF Initialize
<1>2. ASSUME NEW c \in Cpus, NEW a \in Addrs, Fill(c, a)
      PROVE  LockInv'
  BY <1>2 DEF Fill
<1>3. ASSUME NEW c \in Cpus, NEW m \in Maps, SetBegin(c, m)
      PROVE  LockInv'
  BY <1>3 DEF SetBegin
<1>4. ASSUME NEW c \in Cpus, NEW r \in Requests, NEW f \in Frames, Map(c, r, f)
      PROVE  LockInv'
  BY <1>4 DEF Map
<1>5. ASSUME NEW c \in Cpus, NEW r \in Requests, NEW f, NEW flush,
             Change(c, r, f, flush)
      PROVE  LockInv'
  BY <1>0, <1>5 DEF Change, CanOperate
<1>6. ASSUME NEW c \in Cpus, SetCr3(c)
      PROVE  LockInv'
  BY <1>6 DEF SetCr3
<1>7. ASSUME NEW c \in Cpus, FlushLocal(c) \/ FlushSelf(c)
      PROVE  LockInv'
  BY <1>7 DEF FlushLocal, FlushSelf
<1>8. ASSUME NEW c \in Cpus, Acquire(c)
      PROVE  LockInv'
  BY <1>0, <1>8 DEF Acquire
<1>9. ASSUME NEW c \in Cpus, Unlock(c)
      PROVE  LockInv'
  BY <1>0, <1>9 DEF Unlock
<1>10. ASSUME NEW c \in Cpus, Publish(c) \/ CountIpi(c) \/ SentAll(c) \/ WaitOver(c)
       PROVE  LockInv'
  BY <1>10 DEF Publish, CountIpi, SentAll, WaitOver
<1>11. ASSUME NEW c \in Cpus, NEW d \in todo[c], Skip(c, d) \/ SendIpi(c, d)
       PROVE  LockInv'
  BY <1>11 DEF Skip, SendIpi
<1>12. ASSUME NEW c \in Cpus, Leave(c)
       PROVE  LockInv'
  BY <1>0, <1>12 DEF Leave
<1>13. ASSUME NEW c \in Cpus, TakeIpi(c) \/ HandleNotification(c)
       PROVE  LockInv'
  BY <1>13 DEF TakeIpi, HandleNotification, HandleInvlpgs, HandleCount, HandleEoi
<1>14. CASE UNCHANGED vars
  BY <1>14 DEF vars
<1>15. ASSUME NEW c \in Cpus, Call(c)
       PROVE  LockInv'
  BY <1>15, <1>3, <1>4, <1>5 DEF Call, MapAt, Overwrote, Unmap
<1>16. ASSUME NEW c \in Cpus, Distribute(c)
       PROVE  LockInv'
  BY <1>16, <1>7, <1>8, <1>9, <1>10, <1>11 DEF Distribute
<1> QED
  BY <1>1, <1>2, <1>6, <1>12, <1>13, <1>14, <1>15, <1>16 DEF Next

\* Interrupts suspend noncritical code only, and Set() is the only place where
\* the announced map and the loaded one differ.  When the module is initialized
\* every CPU is in the map that currentMap says, the global one.
LEMMA NextCpu ==
    ASSUME TypeOK, CpuInv, [Step]_vars
    PROVE  CpuInv'
<1> USE DEF TypeOK, CpuInv, Goto, Running, NoncriticalPcs, mapVars, ipiVars, cpuVars
<1>1. CASE Initialize /\ OneUses'
  <2>1. /\ ~ready /\ ready' /\ \A c \in Cpus : pc[c] = "run"
        /\ UNCHANGED <<pc, isr, currentMap, cr3, entering>>
    BY <1>1 DEF Initialize
  <2>2. \A c \in Cpus : cr3'[c] = Global
    BY <1>1, <2>1 DEF OneUses
  <2> QED
    BY <2>1, <2>2
<1>2. ASSUME NEW c \in Cpus, NEW a \in Addrs, Fill(c, a)
      PROVE  CpuInv'
  BY <1>2 DEF Fill
<1>3. ASSUME NEW c \in Cpus, NEW m \in Maps, SetBegin(c, m)
      PROVE  CpuInv'
  BY <1>3 DEF SetBegin, WillSetAddressSpace
<1>4. ASSUME NEW c \in Cpus, NEW r \in Requests, NEW f \in Frames, Map(c, r, f)
      PROVE  CpuInv'
  BY <1>4 DEF Map
<1>5. ASSUME NEW c \in Cpus, NEW r \in Requests, NEW f, NEW flush,
             Change(c, r, f, flush)
      PROVE  CpuInv'
  BY <1>5 DEF Change, CanOperate
<1>6. ASSUME NEW c \in Cpus, SetCr3(c)
      PROVE  CpuInv'
  BY <1>6 DEF SetCr3
<1>7. ASSUME NEW c \in Cpus, FlushLocal(c) \/ FlushSelf(c)
      PROVE  CpuInv'
  <2>1. /\ UNCHANGED <<ready, isr, currentMap, cr3, entering>> /\ isr[c] = "none"
        /\ \E p \in {"leave", "publish"} : pc' = [pc EXCEPT ![c] = p]
        /\ pc[c] # "cr3"
    BY <1>7 DEF FlushLocal, FlushSelf
  <2> QED
    BY <2>1
<1>8. ASSUME NEW c \in Cpus, Acquire(c) \/ Unlock(c)
      PROVE  CpuInv'
  BY <1>8 DEF Acquire, Unlock
<1>9. ASSUME NEW c \in Cpus, Publish(c) \/ CountIpi(c) \/ SentAll(c) \/ WaitOver(c)
      PROVE  CpuInv'
  BY <1>9 DEF Publish, CountIpi, SentAll, WaitOver
<1>10. ASSUME NEW c \in Cpus, NEW d \in todo[c], Skip(c, d) \/ SendIpi(c, d)
       PROVE  CpuInv'
  BY <1>10 DEF Skip, SendIpi
<1>11. ASSUME NEW c \in Cpus, Leave(c)
       PROVE  CpuInv'
  BY <1>11 DEF Leave
<1>12. ASSUME NEW c \in Cpus, TakeIpi(c)
       PROVE  CpuInv'
  BY <1>12 DEF TakeIpi, Noncritical
<1>13. ASSUME NEW c \in Cpus, HandleNotification(c)
       PROVE  CpuInv'
  BY <1>13 DEF HandleNotification, HandleInvlpgs, HandleCount, HandleEoi
<1>14. CASE UNCHANGED vars
  BY <1>14 DEF vars
<1>15. ASSUME NEW c \in Cpus, Call(c)
       PROVE  CpuInv'
  BY <1>15, <1>3, <1>4, <1>5 DEF Call, MapAt, Overwrote, Unmap
<1>16. ASSUME NEW c \in Cpus, Distribute(c)
       PROVE  CpuInv'
  BY <1>16, <1>7, <1>8, <1>9, <1>10 DEF Distribute
<1>17. Initialize => ~ready
  BY DEF Initialize
<1> QED
  BY <1>1, <1>2, <1>6, <1>11, <1>12, <1>13, <1>14, <1>15, <1>16, <1>17 DEF Step, Next

\* Until the module is initialized nobody holds Tlb::lock and no IPI is sent.
LEMMA Early ==
    ASSUME TypeOK, LockInv, BootInv, IpiInv, ~ready
    PROVE  \A c \in Cpus :
              /\ pc[c] \in {"run", "cr3", "lock", "leave"}
              /\ isr[c] = "none" /\ ~pending[c]
<1>1. \A c \in Cpus : pc[c] \notin TlbLockPcs
  BY CpuAssumption DEF BootInv, LockInv
<1>2. \A c \in Cpus : c \notin Outstanding
  BY <1>1 DEF IpiInv, ShootPcs, TlbLockPcs
<1> QED
  BY <1>1, <1>2 DEF TypeOK, BootInv, Outstanding, Pcs, MapLockPcs, TlbLockPcs

\* So a CPU that holds it, or takes an IPI, does so in the initialized system.
LEMMA Initialized ==
    ASSUME TypeOK, LockInv, BootInv, IpiInv, NEW c \in Cpus,
           pc[c] \in TlbLockPcs \/ isr[c] # "none" \/ pending[c]
    PROVE  ready
BY Early DEF TypeOK, TlbLockPcs

LEMMA NextBoot ==
    ASSUME TypeOK, LockInv, BootInv, IpiInv, [Step]_vars
    PROVE  BootInv'
<1> SUFFICES ASSUME ~ready'
             PROVE  OneUses' /\ tlbLock' = NoCpu /\ \A c \in Cpus : isr'[c] = "none"
  BY DEF BootInv
<1>1. CASE UNCHANGED vars
  BY <1>1 DEF vars, BootInv, OneUses, IsUnused
<1>2. CASE Step
  <2>1. ASSUME NEW c \in Cpus, Call(c) \/ SetCr3(c) \/ Leave(c) \/ \E a \in Addrs : Fill(c, a)
        PROVE  UNCHANGED <<ready, tlbLock, isr>>
    BY <2>1 DEF Call, SetBegin, Map, MapAt, Unmap, Change, SetCr3, Leave, Fill, ipiVars
  <2>2. ASSUME NEW c \in Cpus, Distribute(c)
        PROVE  ready' = ready /\ isr' = isr
    BY <2>2 DEF Distribute, FlushLocal, Acquire, FlushSelf, Publish, Skip, SendIpi, CountIpi, SentAll,
       WaitOver, Unlock, ipiVars
  <2>3. ASSUME NEW c \in Cpus, TakeIpi(c) \/ HandleNotification(c)
        PROVE  ready' = ready /\ tlbLock' = tlbLock
    BY <2>3 DEF HandleNotification, TakeIpi, HandleInvlpgs, HandleCount, HandleEoi
  <2>4. ~Initialize
    BY DEF Initialize
  <2>5. PICK c \in Cpus : \/ Call(c) \/ SetCr3(c) \/ Leave(c) \/ \E a \in Addrs : Fill(c, a)
                         \/ Distribute(c) \/ TakeIpi(c) \/ HandleNotification(c)
    BY <1>2, <2>4 DEF Step, Next
  <2>6. ~ready /\ OneUses'
    BY <1>2, <2>1, <2>2, <2>3, <2>5 DEF Step
  <2>7. \A x \in Cpus : /\ pc[x] \in {"run", "cr3", "lock", "leave"}
                        /\ isr[x] = "none" /\ ~pending[x]
    BY <2>6, Early
  <2>8. ~(TakeIpi(c) \/ HandleNotification(c))
    BY <2>7 DEF TakeIpi, HandleNotification, HandleInvlpgs, HandleCount, HandleEoi
  <2>9. ASSUME Distribute(c)
        PROVE  tlbLock' = tlbLock
    BY <2>6, <2>7, <2>9 DEF Distribute, FlushLocal, Acquire, FlushSelf, Publish, Skip, SendIpi,
       CountIpi, SentAll, WaitOver, Unlock
  <2> QED
    BY <2>1, <2>2, <2>5, <2>6, <2>8, <2>9 DEF BootInv
<1> QED
  BY <1>1, <1>2

\* Tlb::lock lets one CPU at a time send.
LEMMA UniqueSender ==
    ASSUME LockInv, NEW c \in Cpus, NEW d \in Cpus,
           pc[c] \in TlbLockPcs, pc[d] \in TlbLockPcs
    PROVE  c = d
BY DEF LockInv

\* There are finitely many answers to wait for.
LEMMA OutstandingFinite ==
    IsFiniteSet(Outstanding) /\ Cardinality(Outstanding) \in Nat
<1>1. Outstanding \in SUBSET Cpus
  BY DEF Outstanding
<1>2. IsFiniteSet(Outstanding)
  BY <1>1, CpuAssumption, FS_Subset
<1>3. QED
  BY <1>2, FS_CardinalityType

\* While the CPU that holds the lock is neither sending nor waiting, every IPI
\* has been answered: nobody reads invlAddress and invlSize when they change.
LEMMA NothingOutstanding ==
    ASSUME LockInv, IpiInv, NEW c \in Cpus, pc[c] \in TlbLockPcs,
           pc[c] \notin ShootPcs
    PROVE  Outstanding = {}
<1>1. ASSUME NEW x \in Outstanding
      PROVE  FALSE
  <2>1. PICK d \in Cpus : pc[d] \in ShootPcs
    BY DEF IpiInv, Outstanding
  <2>2. d = c
    BY <2>1, UniqueSender DEF ShootPcs, TlbLockPcs
  <2>3. QED
    BY <2>1, <2>2
<1>2. QED
  BY <1>1

\* When the count is back to zero after the last IPI, every IPI has been
\* answered.
LEMMA NothingOutstandingAtEnd ==
    ASSUME CountInv, NEW c \in Cpus, pc[c] = "wait", ipiCount = 0
    PROVE  Outstanding = {}
<1>1. Cardinality(Outstanding) = 0
  BY OutstandingFinite DEF CountInv, ShootPcs
<1>2. QED
  BY <1>1, OutstandingFinite, FS_EmptySet

\* The CPUs the loop has not reached have no IPI to answer.
LEMMA TodoNotOutstanding ==
    ASSUME LockInv, IpiInv, NEW c \in Cpus, pc[c] \in ShootPcs, NEW d \in todo[c]
    PROVE  d \notin Outstanding
<1>1. SUFFICES ASSUME d \in Outstanding
               PROVE  FALSE
  OBVIOUS
<1>2. PICK e \in Cpus : pc[e] \in ShootPcs /\ d \notin todo[e]
  BY <1>1 DEF IpiInv, Outstanding
<1>3. e = c
  BY <1>2, UniqueSender DEF ShootPcs, TlbLockPcs
<1>4. QED
  BY <1>2, <1>3

\* A step that leaves the shootdown in progress, if any, where it is.
Quiet ==
    /\ UNCHANGED <<invl, ipiCount, pending, isr, todo>>
    /\ \A x \in Cpus : pc[x] \in ShootPcs \/ pc'[x] \in ShootPcs =>
                           pc'[x] = pc[x] /\ op'[x] = op[x]

\* Calls, address space switches and everything outside of the sending loop
\* and the handler leave the shootdown in progress alone.
LEMMA QuietSteps ==
    ASSUME TypeOK, [Next]_vars
    PROVE  \/ Quiet
           \/ \E c \in Cpus :
                 \/ Publish(c) \/ CountIpi(c) \/ SentAll(c) \/ WaitOver(c)
                 \/ \E d \in todo[c] : Skip(c, d) \/ SendIpi(c, d)
                 \/ TakeIpi(c) \/ HandleInvlpgs(c) \/ HandleCount(c) \/ HandleEoi(c)
<1> USE DEF TypeOK, Quiet, Goto, ShootPcs, mapVars, ipiVars, cpuVars
<1>1. CASE Initialize
  BY <1>1 DEF Initialize
<1>2. ASSUME NEW c \in Cpus, NEW a \in Addrs, Fill(c, a)
      PROVE  Quiet
  BY <1>2 DEF Fill
<1>3. ASSUME NEW c \in Cpus, NEW m \in Maps, SetBegin(c, m)
      PROVE  Quiet
  BY <1>3 DEF SetBegin
<1>4. ASSUME NEW c \in Cpus, NEW r \in Requests, NEW f \in Frames, Map(c, r, f)
      PROVE  Quiet
  BY <1>4 DEF Map
<1>5. ASSUME NEW c \in Cpus, NEW r \in Requests, NEW f, NEW flush,
             Change(c, r, f, flush)
      PROVE  Quiet
  BY <1>5 DEF Change, CanOperate
<1>6. ASSUME NEW c \in Cpus, SetCr3(c)
      PROVE  Quiet
  BY <1>6 DEF SetCr3
<1>7. ASSUME NEW c \in Cpus, FlushLocal(c) \/ FlushSelf(c)
      PROVE  Quiet
  BY <1>7 DEF FlushLocal, FlushSelf
<1>8. ASSUME NEW c \in Cpus, Acquire(c) \/ Unlock(c)
      PROVE  Quiet
  BY <1>8 DEF Acquire, Unlock
<1>9. ASSUME NEW c \in Cpus, Leave(c)
      PROVE  Quiet
  BY <1>9 DEF Leave
<1>10. CASE UNCHANGED vars
  BY <1>10 DEF vars
<1>11. ASSUME NEW c \in Cpus, Call(c)
       PROVE  Quiet
  BY <1>11, <1>3, <1>4, <1>5 DEF Call, MapAt, Overwrote, Unmap
<1>12. QED
  BY <1>1, <1>2, <1>6, <1>7, <1>8, <1>9, <1>10, <1>11
     DEF Next, Distribute, HandleNotification

\* Every answer is owed to the CPU that is sending or waiting, and to no other.
LEMMA NextIpi ==
    ASSUME TypeOK, LockInv, CpuInv, IpiInv, CountInv, [Next]_vars
    PROVE  IpiInv'
<1> USE DEF TypeOK, Goto, mapVars, ipiVars, cpuVars
<1>1. CASE Quiet
  BY <1>1 DEF Quiet, IpiInv, Outstanding, ShootPcs
<1>2. ASSUME NEW c \in Cpus, Publish(c)
      PROVE  IpiInv'
  <2>1. Outstanding = {}
    BY <1>2, NothingOutstanding DEF Publish, ShootPcs, TlbLockPcs
  <2>2. Outstanding' = {}
    BY <1>2, <2>1 DEF Publish, Outstanding
  <2>3. \A x \in Cpus : pc'[x] \in ShootPcs => x = c
    BY <1>2, UniqueSender DEF Publish, ShootPcs, TlbLockPcs
  <2>4. QED
    BY <1>2, <2>2, <2>3 DEF Publish, IpiInv, ShootPcs
<1>3. ASSUME NEW c \in Cpus, CountIpi(c) \/ SentAll(c)
      PROVE  IpiInv'
  <2>1. CASE CountIpi(c)
    BY <2>1 DEF CountIpi, IpiInv, Outstanding, ShootPcs
  <2>2. CASE SentAll(c)
    BY <2>2 DEF SentAll, IpiInv, Outstanding, ShootPcs
  <2>3. QED
    BY <1>3, <2>1, <2>2
<1>4. ASSUME NEW c \in Cpus, WaitOver(c)
      PROVE  IpiInv'
  <2>1. Outstanding = {}
    BY <1>4, NothingOutstandingAtEnd DEF WaitOver
  <2>2. Outstanding' = {}
    BY <1>4, <2>1 DEF WaitOver, Outstanding
  <2>3. QED
    BY <1>4, <2>2 DEF WaitOver, IpiInv, ShootPcs
<1>5. ASSUME NEW c \in Cpus, NEW d \in todo[c], Skip(c, d)
      PROVE  IpiInv'
  BY <1>5 DEF Skip, IpiInv, Outstanding, ShootPcs
<1>6. ASSUME NEW c \in Cpus, NEW d \in todo[c], SendIpi(c, d)
      PROVE  IpiInv'
  <2>1. d \in Cpus /\ d # c
    BY <1>6 DEF SendIpi, IpiInv, ShootPcs
  <2>2. d \notin Outstanding
    BY <1>6, TodoNotOutstanding DEF SendIpi, ShootPcs
  <2>3. Outstanding' = Outstanding \union {d}
    BY <1>6, <2>1 DEF SendIpi, Outstanding
  <2>4. isr[d] \in {"none", "eoi"}
    BY <2>1, <2>2 DEF Outstanding
  <2>5. pc' = [pc EXCEPT ![c] = "count"] /\ todo' = [todo EXCEPT ![c] = @ \ {d}]
    BY <1>6 DEF SendIpi
  <2>6. ASSUME NEW x \in Cpus
        PROVE  /\ pending'[x] => isr'[x] \in {"none", "eoi"}
               /\ pc'[x] \in ShootPcs => invl' = op'[x] /\ x \notin todo'[x]
               /\ pc'[x] = "wait" => todo'[x] = {}
    BY <1>6, <2>1, <2>4 DEF SendIpi, IpiInv, ShootPcs
  <2>7. ASSUME NEW x \in Outstanding'
        PROVE  \E e \in Cpus : pc'[e] \in ShootPcs /\ e # x /\ x \notin todo'[e]
    <3>1. CASE x = d
      BY <2>1, <2>5, <3>1 DEF ShootPcs
    <3>2. CASE x \in Outstanding
      <4>1. PICK e \in Cpus : pc[e] \in ShootPcs /\ e # x /\ x \notin todo[e]
        BY <3>2 DEF IpiInv, Outstanding
      <4>2. QED
        BY <2>5, <4>1 DEF ShootPcs
    <3>3. QED
      BY <2>3, <3>1, <3>2
  <2>8. QED
    BY <2>6, <2>7 DEF IpiInv
<1>7. ASSUME NEW c \in Cpus, TakeIpi(c)
      PROVE  IpiInv'
  BY <1>7 DEF TakeIpi, IpiInv, Outstanding
<1>8. ASSUME NEW c \in Cpus, HandleInvlpgs(c)
      PROVE  IpiInv'
  BY <1>8 DEF HandleInvlpgs, IpiInv, Outstanding
<1>9. ASSUME NEW c \in Cpus, HandleCount(c)
      PROVE  IpiInv'
  BY <1>9 DEF HandleCount, IpiInv, Outstanding
<1>10. ASSUME NEW c \in Cpus, HandleEoi(c)
       PROVE  IpiInv'
  BY <1>10 DEF HandleEoi, IpiInv, Outstanding
<1>11. QED
  BY QuietSteps, <1>1, <1>2, <1>3, <1>4, <1>5, <1>6, <1>7, <1>8, <1>9, <1>10

\* The sender and the handlers keep ipiCount equal to the answers it waits for.
LEMMA NextCount ==
    ASSUME TypeOK, LockInv, CpuInv, IpiInv, CountInv, [Next]_vars
    PROVE  CountInv'
<1> USE DEF TypeOK, Goto, mapVars, ipiVars, cpuVars
<1>1. CASE Quiet
  <2>1. Outstanding' = Outstanding
    BY <1>1 DEF Quiet, Outstanding
  <2>2. QED
    BY <1>1, <2>1 DEF Quiet, CountInv, ShootPcs
<1>2. ASSUME NEW c \in Cpus, Publish(c)
      PROVE  CountInv'
  <2>1. Outstanding = {}
    BY <1>2, NothingOutstanding DEF Publish, ShootPcs, TlbLockPcs
  <2>2. Outstanding' = {}
    BY <1>2, <2>1 DEF Publish, Outstanding
  <2>3. \A x \in Cpus : pc'[x] \in ShootPcs => x = c
    BY <1>2, UniqueSender DEF Publish, ShootPcs, TlbLockPcs
  <2>4. ipiCount' = 0 /\ Cardinality(Outstanding)' = 0 /\ pc'[c] # "count"
    BY <1>2, <2>2, FS_EmptySet DEF Publish
  <2>5. QED
    BY <2>3, <2>4 DEF CountInv, ShootPcs
<1>3. ASSUME NEW c \in Cpus, CountIpi(c) \/ SentAll(c) \/ WaitOver(c)
      PROVE  CountInv'
  <2>1. Outstanding' = Outstanding
    BY <1>3 DEF CountIpi, SentAll, WaitOver, Outstanding
  <2>2. \A x \in Cpus : pc[x] \in ShootPcs => x = c
    BY <1>3, UniqueSender DEF CountIpi, SentAll, WaitOver, ShootPcs, TlbLockPcs
  <2>3. Cardinality(Outstanding)' = Cardinality(Outstanding)
    BY <2>1
  <2>4. \A x \in Cpus : pc'[x] \in ShootPcs => x = c
    BY <1>3, <2>2 DEF CountIpi, SentAll, WaitOver
  <2>5. CASE CountIpi(c)
    <3>1. ipiCount + 1 = Cardinality(Outstanding)
      BY <2>5 DEF CountIpi, CountInv
    <3>2. ipiCount' = Cardinality(Outstanding)' /\ pc'[c] # "count"
      BY <2>3, <2>5, <3>1 DEF CountIpi
    <3>3. QED
      BY <2>4, <3>2 DEF CountInv, ShootPcs
  <2>6. CASE SentAll(c) \/ WaitOver(c)
    <3>1. ipiCount = Cardinality(Outstanding)
      BY <2>6 DEF SentAll, WaitOver, CountInv
    <3>2. ipiCount' = Cardinality(Outstanding)' /\ pc'[c] # "count"
      BY <2>3, <2>6, <3>1 DEF SentAll, WaitOver
    <3>3. QED
      BY <2>4, <3>2 DEF CountInv, ShootPcs
  <2>7. QED
    BY <1>3, <2>5, <2>6
<1>4. ASSUME NEW c \in Cpus, NEW d \in todo[c], Skip(c, d)
      PROVE  CountInv'
  <2>1. Outstanding' = Outstanding
    BY <1>4 DEF Skip, Outstanding
  <2>2. QED
    BY <1>4, <2>1 DEF Skip, CountInv
<1>5. ASSUME NEW c \in Cpus, NEW d \in todo[c], SendIpi(c, d)
      PROVE  CountInv'
  <2>1. d \in Cpus
    OBVIOUS
  <2>2. d \notin Outstanding
    BY <1>5, TodoNotOutstanding DEF SendIpi, ShootPcs
  <2>3. Outstanding' = Outstanding \union {d}
    BY <1>5, <2>1 DEF SendIpi, Outstanding
  <2>4. Cardinality(Outstanding') = Cardinality(Outstanding) + 1
    BY <2>2, <2>3, OutstandingFinite, FS_AddElement
  <2>5. \A x \in Cpus : pc[x] \in ShootPcs => x = c
    BY <1>5, UniqueSender DEF SendIpi, ShootPcs, TlbLockPcs
  <2>6. ipiCount = Cardinality(Outstanding)
    BY <1>5 DEF SendIpi, CountInv
  <2>7. ipiCount' + 1 = Cardinality(Outstanding)'
    BY <1>5, <2>4, <2>6 DEF SendIpi
  <2>8. /\ pc'[c] = "count"
        /\ \A x \in Cpus : pc'[x] \in ShootPcs => x = c
    BY <1>5, <2>5 DEF SendIpi
  <2>9. QED
    BY <2>7, <2>8 DEF CountInv, ShootPcs
<1>6. ASSUME NEW c \in Cpus, TakeIpi(c) \/ HandleInvlpgs(c) \/ HandleEoi(c)
      PROVE  CountInv'
  <2>1. Outstanding' = Outstanding
    BY <1>6 DEF TakeIpi, HandleInvlpgs, HandleEoi, Outstanding
  <2>2. QED
    BY <1>6, <2>1 DEF TakeIpi, HandleInvlpgs, HandleEoi, CountInv
<1>7. ASSUME NEW c \in Cpus, HandleCount(c)
      PROVE  CountInv'
  <2>1. c \in Outstanding
    BY <1>7 DEF HandleCount, Outstanding
  <2>2. Outstanding' = Outstanding \ {c}
    BY <1>7 DEF HandleCount, Outstanding, IpiInv
  <2>3. Cardinality(Outstanding') = Cardinality(Outstanding) - 1
    BY <2>1, <2>2, OutstandingFinite, FS_RemoveElement
  <2>4. /\ pc' = pc
        /\ ipiCount' = ipiCount - 1
        /\ Cardinality(Outstanding)' = Cardinality(Outstanding) - 1
    BY <1>7, <2>3 DEF HandleCount
  <2>5. ASSUME NEW x \in Cpus
        PROVE  /\ pc[x] \in {"send", "wait"} =>
                      ipiCount' = Cardinality(Outstanding)'
               /\ pc[x] = "count" => ipiCount' + 1 = Cardinality(Outstanding)'
    <3>1. ipiCount \in Int /\ Cardinality(Outstanding) \in Int
      BY OutstandingFinite
    <3>2. pc[x] \in {"send", "wait"} => ipiCount = Cardinality(Outstanding)
      BY DEF CountInv
    <3>3. pc[x] = "count" => ipiCount + 1 = Cardinality(Outstanding)
      BY DEF CountInv
    <3>4. QED
      BY <2>4, <3>1, <3>2, <3>3
  <2>6. QED
    BY <2>4, <2>5 DEF CountInv
<1>8. QED
  BY QuietSteps, <1>1, <1>2, <1>3, <1>4, <1>5, <1>6, <1>7

\* A step that changes no table, no cache, no loaded map and no request, and
\* takes no flush away, keeps StaleInv.
LEMMA StaleKept ==
    ASSUME StaleInv, UNCHANGED <<pt, tlb, cr3, op>>,
           \A d, x \in Cpus : AwaitsFlush(d, x) => AwaitsFlush(d, x)',
           \A x \in Cpus : pc[x] = "cr3" => pc'[x] = "cr3"
    PROVE  StaleInv'
<1>1. SUFFICES ASSUME NEW x \in Cpus, NEW a \in Addrs, Stale(x, a)'
               PROVE  FlushAhead(x, a)'
  BY DEF StaleInv
<1>2. FlushAhead(x, a)
  BY <1>1 DEF StaleInv, Stale
<1>3. QED
  BY <1>2 DEF FlushAhead

\* After Invlpgs a cache is stale only where it was, and outside of the range.
LEMMA StaleAfterInvlpgs ==
    ASSUME TypeOK, NoLastRange, NEW c \in Cpus, NEW r \in Requests,
           NEW a \in Addrs, UNCHANGED <<pt, cr3>>,
           tlb' = [tlb EXCEPT ![c] = Invlpgs(@, r)], Stale(c, a)'
    PROVE  Stale(c, a) /\ a \notin Pages(r)
<1>1. tlb[c] \in Tables
  BY DEF TypeOK, Tables
<1>2. tlb'[c] = Invlpgs(tlb[c], r)
  BY DEF TypeOK
<1>3. tlb'[c][a] \in {tlb[c][a], NoFrame}
  BY <1>1, <1>2, InvlpgsRemoves
<1>4. a \in Pages(r) => tlb'[c][a] = NoFrame
  BY <1>1, <1>2, InvlpgsRemovesRange
<1>5. QED
  BY <1>3, <1>4 DEF Stale

\* Nobody can have an old translation of a page of a map whose lock is free.
LEMMA FreshWhenUnlocked ==
    ASSUME TypeOK, LockInv, StaleInv, NEW c \in Cpus, NEW r \in Requests,
           CanOperate(c, r), NEW x \in Cpus, NEW a \in Addrs,
           Owner(cr3[x], a) = cr3[c], Stale(x, a)
    PROVE  pc[x] = "cr3" /\ a >= KernelEnd
<1>1. ASSUME NEW d \in Cpus, cr3[d] = Owner(cr3[x], a), AwaitsFlush(d, x)
      PROVE  FALSE
  <2>1. pc[d] \in MapLockPcs
    BY <1>1 DEF AwaitsFlush, MapLockPcs, TlbLockPcs, ShootPcs
  <2>2. mapLock[cr3[c]] = d
    BY <1>1, <2>1 DEF LockInv
  <2>3. QED
    BY <2>2, CpuAssumption DEF CanOperate
<1>2. FlushAhead(x, a)
  BY DEF StaleInv
<1>3. QED
  BY <1>1, <1>2 DEF FlushAhead

\* A cached translation goes stale only when a CPU changes the page, and that
\* CPU does not stop before it is gone.
LEMMA NextStale ==
    ASSUME NoLastRange, IInv, [Next]_vars
    PROVE  StaleInv'
<1> USE DEF IInv, TypeOK, Goto, mapVars, ipiVars, cpuVars
<1>1. CASE Initialize
  BY <1>1, StaleKept DEF Initialize, AwaitsFlush
<1>2. ASSUME NEW c \in Cpus, NEW b \in Addrs, Fill(c, b)
      PROVE  StaleInv'
  <2>1. SUFFICES ASSUME NEW x \in Cpus, NEW a \in Addrs, Stale(x, a)'
                 PROVE  FlushAhead(x, a)'
    BY DEF StaleInv
  <2>2. ~(x = c /\ a = b)
    BY <1>2, <2>1 DEF Fill, Stale
  <2>3. Stale(x, a)
    BY <1>2, <2>1, <2>2 DEF Fill, Stale
  <2>4. QED
    BY <1>2, <2>3 DEF Fill, StaleInv, FlushAhead, AwaitsFlush
<1>3. ASSUME NEW c \in Cpus, NEW m \in Maps, SetBegin(c, m)
      PROVE  StaleInv'
  BY <1>3, StaleKept DEF SetBegin, AwaitsFlush, ShootPcs
<1>4. ASSUME NEW c \in Cpus, NEW r \in Requests, NEW f \in Frames, Map(c, r, f)
      PROVE  StaleInv'
  <2>1. SUFFICES ASSUME NEW x \in Cpus, NEW a \in Addrs, Stale(x, a)'
                 PROVE  FlushAhead(x, a)'
    BY DEF StaleInv
  <2>2. CASE Owner(cr3[x], a) = cr3[c]
    <3>1. Stale(x, a)
      BY <1>4, <2>1, <2>2 DEF Map, SetPages, Stale
    <3>2. QED
      BY <1>4, <2>2, <3>1, FreshWhenUnlocked DEF Map, FlushAhead
  <2>3. CASE Owner(cr3[x], a) # cr3[c]
    <3>1. Stale(x, a)
      BY <1>4, <2>1, <2>3 DEF Map, Stale, Owner, Maps
    <3>2. QED
      BY <1>4, <3>1 DEF Map, StaleInv, FlushAhead, AwaitsFlush
  <2>4. QED
    BY <2>2, <2>3
<1>5. ASSUME NEW c \in Cpus, NEW r \in Requests, NEW f, NEW flush,
             Change(c, r, f, flush),
             flush \/ \A a \in Pages(r) : pt[cr3[c]][a] = NoFrame
      PROVE  StaleInv'
  <2>1. SUFFICES ASSUME NEW x \in Cpus, NEW a \in Addrs, Stale(x, a)'
                 PROVE  FlushAhead(x, a)'
    BY DEF StaleInv
  <2>2. /\ pc[c] = "run"
        /\ pc' = [pc EXCEPT ![c] = IF flush THEN "lock" ELSE "leave"]
        /\ op' = [op EXCEPT ![c] = r]
        /\ pt' = [pt EXCEPT ![cr3[c]] = SetPages(@, r, f)]
        /\ UNCHANGED <<tlb, cr3, todo, pending, isr>>
    BY <1>5 DEF Change, CanOperate
  <2>3. CASE FlushAhead(x, a)
    <3>1. CASE pc[x] = "cr3" /\ a >= KernelEnd
      BY <2>2, <3>1 DEF FlushAhead
    <3>2. ASSUME NEW d \in Cpus, cr3[d] = Owner(cr3[x], a), a \in Pages(op[d]),
                 AwaitsFlush(d, x)
          PROVE  FlushAhead(x, a)'
      <4>1. d # c
        BY <2>2, <3>2 DEF AwaitsFlush, ShootPcs
      <4>2. op'[d] = op[d] /\ pc'[d] = pc[d]
        BY <2>2, <4>1
      <4>3. AwaitsFlush(d, x)'
        BY <2>2, <3>2, <4>2 DEF AwaitsFlush
      <4>4. QED
        BY <2>2, <3>2, <4>2, <4>3 DEF FlushAhead
    <3>3. QED
      BY <2>3, <3>1, <3>2 DEF FlushAhead
  <2>4. CASE ~FlushAhead(x, a)
    <3>1. ~Stale(x, a)
      BY <2>4 DEF StaleInv
    <3>2. Owner(cr3[x], a) = cr3[c] /\ a \in Pages(r)
      BY <2>1, <2>2, <3>1 DEF Stale, SetPages, Owner, Maps
    <3>3. flush
      BY <1>5, <2>1, <2>2, <3>1, <3>2 DEF Stale
    <3>4. pc'[c] = "lock" /\ op'[c] = r
      BY <2>2, <3>3
    <3>5. QED
      BY <2>2, <3>2, <3>4 DEF FlushAhead, AwaitsFlush
  <2>5. QED
    BY <2>3, <2>4
<1>6. ASSUME NEW c \in Cpus, SetCr3(c)
      PROVE  StaleInv'
  <2>1. SUFFICES ASSUME NEW x \in Cpus, NEW a \in Addrs, Stale(x, a)'
                 PROVE  FlushAhead(x, a)'
    BY DEF StaleInv
  <2>2. /\ pc[c] = "cr3"
        /\ pc' = [pc EXCEPT ![c] = "run"]
        /\ cr3' = [cr3 EXCEPT ![c] = entering[c]]
        /\ tlb' = [tlb EXCEPT ![c] = KernelPart(@)]
        /\ UNCHANGED <<pt, op, todo, pending, isr>>
    BY <1>6 DEF SetCr3
  <2>3. x = c => a < KernelEnd
    BY <2>1, <2>2 DEF Stale, KernelPart
  <2>4. Owner(cr3[x], a)' = Owner(cr3[x], a)
    BY <2>2, <2>3 DEF Owner
  <2>5. Stale(x, a)
    BY <2>1, <2>2, <2>3, <2>4 DEF Stale, KernelPart
  <2>6. FlushAhead(x, a)
    BY <2>5 DEF StaleInv
  <2>7. CASE pc[x] = "cr3" /\ a >= KernelEnd
    <3>1. KernelEnd \in Int /\ a \in Int
      BY AddrAssumption DEF Addrs
    <3>2. x # c
      BY <2>3, <2>7, <3>1
    <3>3. QED
      BY <2>2, <2>7, <3>2 DEF FlushAhead
  <2>8. ASSUME NEW d \in Cpus, cr3[d] = Owner(cr3[x], a), a \in Pages(op[d]),
               AwaitsFlush(d, x)
        PROVE  FlushAhead(x, a)'
    <3>1. d # c
      BY <2>2, <2>8 DEF AwaitsFlush, ShootPcs
    <3>2. cr3'[d] = cr3[d] /\ pc'[d] = pc[d]
      BY <2>2, <3>1
    <3>3. AwaitsFlush(d, x)'
      BY <2>2, <2>8, <3>2 DEF AwaitsFlush
    <3>4. QED
      BY <2>2, <2>4, <2>8, <3>2, <3>3 DEF FlushAhead
  <2>9. QED
    BY <2>6, <2>7, <2>8 DEF FlushAhead
<1>7. ASSUME NEW c \in Cpus, FlushSelf(c)
      PROVE  StaleInv'
  <2>1. SUFFICES ASSUME NEW x \in Cpus, NEW a \in Addrs, Stale(x, a)'
                 PROVE  FlushAhead(x, a)'
    BY DEF StaleInv
  <2>2. /\ pc[c] = "critical"
        /\ pc' = [pc EXCEPT ![c] = "publish"]
        /\ tlb' = [tlb EXCEPT ![c] = Invlpgs(@, op[c])]
        /\ UNCHANGED <<pt, cr3, op, todo, pending, isr>>
    BY <1>7 DEF FlushSelf
  <2>3. op[c] \in Requests
    BY <2>2 DEF LockInv, MapLockPcs, TlbLockPcs
  <2>4. Stale(x, a) /\ ~(x = c /\ a \in Pages(op[c]))
    <3>1. CASE x = c
      BY <2>1, <2>2, <2>3, <3>1, StaleAfterInvlpgs
    <3>2. CASE x # c
      BY <2>1, <2>2, <3>2 DEF Stale
    <3>3. QED
      BY <3>1, <3>2
  <2>5. FlushAhead(x, a)
    BY <2>4 DEF StaleInv
  <2>6. QED
    BY <2>2, <2>4, <2>5 DEF FlushAhead, AwaitsFlush, ShootPcs
<1>8. ASSUME NEW c \in Cpus, FlushLocal(c)
      PROVE  StaleInv'
  <2>1. SUFFICES ASSUME NEW x \in Cpus, NEW a \in Addrs, Stale(x, a)'
                 PROVE  FlushAhead(x, a)'
    BY DEF StaleInv
  <2>2. /\ pc[c] = "lock" /\ ~ready
        /\ pc' = [pc EXCEPT ![c] = "leave"]
        /\ tlb' = [tlb EXCEPT ![c] = Invlpgs(@, op[c])]
        /\ UNCHANGED <<pt, cr3, op>>
    BY <1>8 DEF FlushLocal
  <2>3. op[c] \in Requests
    BY <2>2 DEF LockInv, MapLockPcs
  <2>4. Stale(x, a) /\ ~(x = c /\ a \in Pages(op[c]))
    <3>1. CASE x = c
      BY <2>1, <2>2, <2>3, <3>1, StaleAfterInvlpgs
    <3>2. CASE x # c
      BY <2>1, <2>2, <3>2 DEF Stale
    <3>3. QED
      BY <3>1, <3>2
  <2>5. \A d \in Cpus : d = c \/ IsUnused(d)
    BY <2>2 DEF BootInv, OneUses, IsUnused
  <2>6. x = c
    BY <2>4, <2>5 DEF Stale, IsUnused
  <2>7. FlushAhead(x, a)
    BY <2>4 DEF StaleInv
  <2>8. PICK d \in Cpus : a \in Pages(op[d]) /\ AwaitsFlush(d, x)
    BY <2>2, <2>6, <2>7 DEF FlushAhead
  <2>9. d = c
    BY <2>5, <2>8 DEF IsUnused, AwaitsFlush, ShootPcs
  <2>10. QED
    BY <2>4, <2>6, <2>8, <2>9
<1>9. ASSUME NEW c \in Cpus, Acquire(c) \/ Unlock(c) \/ CountIpi(c) \/ SentAll(c)
      PROVE  StaleInv'
  BY <1>9, StaleKept DEF Acquire, Unlock, CountIpi, SentAll, AwaitsFlush, ShootPcs
<1>10. ASSUME NEW c \in Cpus, Publish(c)
       PROVE  StaleInv'
  BY <1>10, StaleKept DEF Publish, AwaitsFlush, ShootPcs
<1>11. ASSUME NEW c \in Cpus, NEW d \in todo[c], Skip(c, d)
       PROVE  StaleInv'
  <2>1. SUFFICES ASSUME NEW x \in Cpus, NEW a \in Addrs, Stale(x, a)'
                 PROVE  FlushAhead(x, a)'
    BY DEF StaleInv
  <2>2. /\ pc[c] = "send"
        /\ op[c].start >= KernelEnd
        /\ currentMap[d] # currentMap[c]
        /\ todo' = [todo EXCEPT ![c] = @ \ {d}]
        /\ UNCHANGED <<pt, pc, op, pending, isr, cr3, tlb>>
    BY <1>11 DEF Skip, Skipped
  <2>3. FlushAhead(x, a)
    BY <2>1, <2>2 DEF StaleInv, Stale
  <2>4. ASSUME x = d, cr3[c] = Owner(cr3[d], a), a \in Pages(op[c])
        PROVE  pc[d] = "cr3" /\ a >= KernelEnd
    <3>1. op[c].start \in Int /\ op[c].size \in Int /\ KernelEnd \in Int
      BY <2>2, RequestAssumption, AddrAssumption
         DEF LockInv, MapLockPcs, TlbLockPcs, Addrs
    <3>2. a >= KernelEnd /\ ~(a < KernelEnd)
      BY <2>2, <2>4, <3>1 DEF Pages
    <3>3. cr3[c] = cr3[d]
      BY <2>4, <3>2 DEF Owner
    <3>4. ready
      BY <2>2, Initialized DEF TlbLockPcs
    <3>5. currentMap[c] = cr3[c]
      BY <2>2, <3>4 DEF CpuInv
    <3>6. QED
      BY <2>2, <3>2, <3>3, <3>4, <3>5 DEF CpuInv
  <2>5. QED
    BY <2>2, <2>3, <2>4 DEF FlushAhead, AwaitsFlush
<1>12. ASSUME NEW c \in Cpus, NEW d \in todo[c], SendIpi(c, d)
       PROVE  StaleInv'
  <2>1. /\ pc[c] = "send"
        /\ pc' = [pc EXCEPT ![c] = "count"]
        /\ todo' = [todo EXCEPT ![c] = @ \ {d}]
        /\ pending' = [pending EXCEPT ![d] = TRUE]
        /\ d \in Cpus
        /\ UNCHANGED <<pt, op, isr, cr3, tlb>>
    BY <1>12 DEF SendIpi
  <2>2. \A e, x \in Cpus : AwaitsFlush(e, x) => AwaitsFlush(e, x)'
    BY <2>1 DEF AwaitsFlush, ShootPcs
  <2>3. QED
    BY <2>1, <2>2, StaleKept
<1>13. ASSUME NEW c \in Cpus, WaitOver(c)
       PROVE  StaleInv'
  <2>1. Outstanding = {}
    BY <1>13, NothingOutstandingAtEnd DEF WaitOver
  <2>2. todo[c] = {}
    BY <1>13 DEF WaitOver, IpiInv
  <2>3. \A x \in Cpus : ~AwaitsFlush(c, x)
    BY <1>13, <2>1, <2>2 DEF WaitOver, AwaitsFlush, Outstanding
  <2>4. \A e, x \in Cpus : AwaitsFlush(e, x) => AwaitsFlush(e, x)'
    BY <1>13, <2>3 DEF WaitOver, AwaitsFlush
  <2>5. QED
    BY <1>13, <2>4, StaleKept DEF WaitOver
<1>14. ASSUME NEW c \in Cpus, Leave(c)
       PROVE  StaleInv'
  <2>1. SUFFICES ASSUME NEW x \in Cpus, NEW a \in Addrs, Stale(x, a)'
                 PROVE  FlushAhead(x, a)'
    BY DEF StaleInv
  <2>2. FlushAhead(x, a)
    BY <1>14, <2>1 DEF Leave, StaleInv, Stale
  <2>3. QED
    BY <1>14, <2>2 DEF Leave, FlushAhead, AwaitsFlush, ShootPcs
<1>15. ASSUME NEW c \in Cpus, TakeIpi(c)
       PROVE  StaleInv'
  BY <1>15, StaleKept DEF TakeIpi, AwaitsFlush
<1>16. ASSUME NEW c \in Cpus, HandleInvlpgs(c)
       PROVE  StaleInv'
  <2>1. SUFFICES ASSUME NEW x \in Cpus, NEW a \in Addrs, Stale(x, a)'
                 PROVE  FlushAhead(x, a)'
    BY DEF StaleInv
  <2>2. /\ isr[c] = "invlpg"
        /\ isr' = [isr EXCEPT ![c] = "count"]
        /\ tlb' = [tlb EXCEPT ![c] = Invlpgs(@, invl)]
        /\ UNCHANGED <<pt, pc, cr3, op, todo, pending>>
    BY <1>16 DEF HandleInvlpgs
  <2>3. PICK s \in Cpus : pc[s] \in ShootPcs /\ invl = op[s]
    BY <2>2 DEF IpiInv, Outstanding
  <2>4. invl \in Requests
    BY <2>3 DEF LockInv, ShootPcs, MapLockPcs, TlbLockPcs
  <2>5. Stale(x, a) /\ ~(x = c /\ a \in Pages(op[s]))
    <3>1. CASE x = c
      BY <2>1, <2>2, <2>3, <2>4, <3>1, StaleAfterInvlpgs
    <3>2. CASE x # c
      BY <2>1, <2>2, <3>2 DEF Stale
    <3>3. QED
      BY <3>1, <3>2
  <2>6. FlushAhead(x, a)
    BY <2>5 DEF StaleInv
  <2>7. \A d \in Cpus : pc[d] \in ShootPcs => d = s
    BY <2>3, UniqueSender DEF ShootPcs, TlbLockPcs
  <2>8. QED
    BY <2>2, <2>5, <2>6, <2>7 DEF FlushAhead, AwaitsFlush
<1>17. ASSUME NEW c \in Cpus, HandleCount(c) \/ HandleEoi(c)
       PROVE  StaleInv'
  BY <1>17, StaleKept DEF HandleCount, HandleEoi, AwaitsFlush
<1>18. CASE UNCHANGED vars
  BY <1>18, StaleKept DEF vars, AwaitsFlush
<1>19. ASSUME NEW c \in Cpus, Call(c)
       PROVE  StaleInv'
  BY <1>19, <1>3, <1>4, <1>5 DEF Call, MapAt, Overwrote, Unmap
<1>20. ASSUME NEW c \in Cpus, Distribute(c)
       PROVE  StaleInv'
  BY <1>20, <1>7, <1>8, <1>9, <1>10, <1>11, <1>12, <1>13 DEF Distribute
<1> QED
  BY <1>1, <1>2, <1>6, <1>14, <1>15, <1>16, <1>17, <1>18, <1>19, <1>20
     DEF Next, HandleNotification

-----------------------------------------------------------------------------
(* The theorems.                                                           *)

\* The inductive invariant holds from the first state on.
LEMMA InitIInv ==
    ASSUME Init
    PROVE  IInv
<1>1. TypeOK
  BY InitType
<1>2. LockInv
  BY CpuAssumption
     DEF Init, LockInv, TlbLockPcs, MapLockPcs
<1>3. CpuInv /\ BootInv
  BY DEF Init, CpuInv, NoncriticalPcs, BootInv, OneUses, IsUnused
<1>4. IpiInv /\ CountInv
  BY DEF Init, IpiInv, CountInv, Outstanding, ShootPcs
<1>5. StaleInv
  BY DEF Init, StaleInv, Stale
<1>6. QED
  BY <1>1, <1>2, <1>3, <1>4, <1>5 DEF IInv

\* The inductive invariant, for every number of CPUs, maps and pages and every
\* set of requests none of which is a large kernel range ending at KernelEnd.
THEOREM Invariance ==
    ASSUME NoLastRange
    PROVE  Spec => []IInv
<1>1. Init => IInv
  BY InitIInv
<1>2. ASSUME IInv, [Step]_vars
      PROVE  IInv'
  <2>1. [Next]_vars
    BY <1>2 DEF Step
  <2>2. TypeOK' /\ LockInv' /\ CpuInv' /\ BootInv'
    BY <1>2, <2>1, NextType, NextLock, NextCpu, NextBoot DEF IInv
  <2>3. IpiInv' /\ CountInv'
    BY <1>2, <2>1, NextIpi, NextCount DEF IInv
  <2>4. StaleInv'
    BY <1>2, <2>1, NextStale
  <2> QED
    BY <2>2, <2>3, <2>4 DEF IInv
<1>3. QED
  BY <1>1, <1>2, PTL DEF Spec

\* Coherence: when DistributeInvlpg has returned, no CPU has an old translation
\* of the pages, except inside of the critical section of MemoryMap::Set().
THEOREM Coherence ==
    ASSUME NoLastRange
    PROVE  Spec => []NoStaleTranslation
<1>1. IInv => NoStaleTranslation
  BY DEF IInv, StaleInv, FlushAhead, AwaitsFlush, NoStaleTranslation, Flushing,
         ShootPcs
<1>2. QED
  BY <1>1, Invariance, PTL

\* No Invlpg IPI is sent to a CPU whose request bit is still set.
THEOREM IpiNeverLost ==
    ASSUME NoLastRange
    PROVE  Spec => []NoIpiLost
<1>1. IInv => NoIpiLost
  BY TodoNotOutstanding DEF IInv, NoIpiLost, ShootPcs
<1>2. QED
  BY <1>1, Invariance, PTL

\* The count the sender spins on is the number of CPUs still to answer.
THEOREM CountExact ==
    ASSUME NoLastRange
    PROVE  Spec => []CountsOutstanding
<1>1. IInv => CountsOutstanding
  BY DEF IInv, CountInv, IpiInv, CountsOutstanding, Outstanding
<1>2. QED
  BY <1>1, Invariance, PTL

-----------------------------------------------------------------------------
(* The refinement of Translation.                                          *)

\* The places of the initialized system in which an operation is under way for the callers.
BusyPcs == {"lock", "critical", "publish", "send", "count", "wait"}

\* Before it is initialized an operation that does not flush has to leave as well.
IsBusy(c) == pc[c] \in BusyPcs \/ (~ready /\ pc[c] = "leave")

LEMMA BusyIs ==
    ASSUME IInv, NEW c \in Cpus
    PROVE  /\ IsBusy(c) => Busy(c) = op[c] /\ op[c] # NoRequest /\ op[c] \in Requests
           /\ ~IsBusy(c) => Busy(c) = NoRequest
<1>1. pc[c] \in MapLockPcs \ (IF ready THEN {"unlock", "leave"} ELSE {}) <=> IsBusy(c)
  <2>1. CASE ready
    BY <2>1 DEF IsBusy, BusyPcs, MapLockPcs, TlbLockPcs
  <2>2. CASE ~ready
    BY <2>2, Early DEF IInv, IsBusy, BusyPcs, MapLockPcs, TlbLockPcs
  <2> QED
    BY <2>1, <2>2
<1>2. ASSUME IsBusy(c)
      PROVE  op[c] \in Requests /\ op[c] # NoRequest
  <2>1. op[c] \in Requests
    BY <1>2 DEF IInv, LockInv, IsBusy, BusyPcs, MapLockPcs, TlbLockPcs
  <2>2. op[c].size # 0 /\ NoRequest.size = 0
    BY <2>1, RequestAssumption DEF NoRequest
  <2>3. QED
    BY <2>1, <2>2
<1>3. QED
  BY <1>1, <1>2 DEF Busy

\* A step that callers do not see.
LEMMA Unseen ==
    ASSUME pt' = pt, \A x \in Cpus : Space(x)' = Space(x) /\ Busy(x)' = Busy(x) /\ View(x)' = View(x)
    PROVE  UNCHANGED Abstract!absVars
<1>1. [x \in Cpus |-> Space(x)]' = [x \in Cpus |-> Space(x)]
  OBVIOUS
<1>2. [x \in Cpus |-> Busy(x)]' = [x \in Cpus |-> Busy(x)]
  OBVIOUS
<1>3. [x \in Cpus |-> View(x)]' = [x \in Cpus |-> View(x)]
  OBVIOUS
<1>4. QED
  BY <1>1, <1>2, <1>3 DEF Abstract!absVars

LEMMA InitRefines ==
    ASSUME Init
    PROVE  Abstract!Init
<1>1. /\ \A c \in Cpus : Space(c) = Global /\ Busy(c) = NoRequest /\ View(c) = [a \in Addrs |-> NoFrame]
      /\ pt = [m \in Maps |-> [a \in Addrs |-> NoFrame]]
  BY DEF Init, Space, Busy, View, MapLockPcs, TlbLockPcs
<1>2. QED
  BY <1>1 DEF Abstract!Init, Abstract!Maps, Abstract!Addrs, Maps, Addrs

LEMMA SetRefines ==
    ASSUME IInv, NEW c \in Cpus, NEW m \in Maps, SetBegin(c, m)
    PROVE  Abstract!Next
<1>1. /\ pc[c] = "run" /\ pc' = [pc EXCEPT ![c] = "cr3"] /\ entering' = [entering EXCEPT ![c] = m]
      /\ UNCHANGED <<ready, pt, op, cr3, tlb>>
  BY DEF SetBegin, Goto, mapVars
<1>2. Busy(c) = NoRequest /\ \A x \in Cpus : Busy(x)' = Busy(x)
  BY <1>1 DEF IInv, TypeOK, Busy, MapLockPcs, TlbLockPcs
<1>3. /\ Space(c)' = m /\ View(c)' = KernelPart(View(c))
      /\ \A x \in Cpus \ {c} : Space(x)' = Space(x) /\ View(x)' = View(x)
  BY <1>1 DEF IInv, TypeOK, Space, View
<1>4. [x \in Cpus |-> Busy(x)]' = [x \in Cpus |-> Busy(x)] /\ [x \in Cpus |-> Busy(x)][c] = NoRequest
  BY <1>2
<1>5. [x \in Cpus |-> Space(x)]' = [[x \in Cpus |-> Space(x)] EXCEPT ![c] = m]
  BY <1>3
<1>6. [x \in Cpus |-> View(x)]' = [[x \in Cpus |-> View(x)] EXCEPT ![c] = KernelPart(@)]
  BY <1>3
<1>7. Abstract!Switch(c, m)
  BY <1>1, <1>4, <1>5, <1>6 DEF Abstract!Switch, Abstract!KernelPart, KernelPart, Abstract!Addrs, Addrs
<1>8. QED
  BY <1>7 DEF Abstract!Next, Abstract!Maps, Maps

\* Loading CR3 is not seen: the callers see the new map since SetBegin.
LEMMA Cr3Refines ==
    ASSUME IInv, NEW c \in Cpus, SetCr3(c)
    PROVE  UNCHANGED Abstract!absVars
<1>1. /\ pc[c] = "cr3" /\ pc' = [pc EXCEPT ![c] = "run"] /\ cr3' = [cr3 EXCEPT ![c] = entering[c]]
      /\ tlb' = [tlb EXCEPT ![c] = KernelPart(@)] /\ UNCHANGED <<ready, pt, op, entering>>
  BY DEF SetCr3, Goto, mapVars
<1>2. \A x \in Cpus : Busy(x)' = Busy(x)
  BY <1>1 DEF IInv, TypeOK, Busy, MapLockPcs, TlbLockPcs
<1>3. \A x \in Cpus : Space(x)' = Space(x) /\ View(x)' = View(x)
  BY <1>1 DEF IInv, TypeOK, Space, View
<1>4. QED
  BY <1>1, <1>2, <1>3, Unseen

\* A page that the page walker caches: inside of Set() a user page is not seen.
LEMMA FillRefines ==
    ASSUME IInv, NEW c \in Cpus, NEW a \in Addrs, Fill(c, a)
    PROVE  Abstract!Next \/ UNCHANGED Abstract!absVars
<1> DEFINE f == pt[Owner(cr3[c], a)][a]
<1>1. tlb' = [tlb EXCEPT ![c] = [@ EXCEPT ![a] = f]] /\ UNCHANGED <<ready, pt, pc, op, cr3, entering>>
  BY DEF Fill, mapVars, cpuVars
<1>2. tlb \in [Cpus -> [Addrs -> Frames \union {NoFrame}]]
  BY DEF IInv, TypeOK
<1>3. \A x \in Cpus : Busy(x)' = Busy(x) /\ Space(x)' = Space(x)
  BY <1>1 DEF Busy, Space
<1>4. \A x \in Cpus \ {c} : View(x)' = View(x)
  BY <1>1, <1>2 DEF View
<1>5. tlb'[c] = [tlb[c] EXCEPT ![a] = f]
  BY <1>1, <1>2
<1>6. CASE pc[c] = "cr3" /\ ~(a < KernelEnd)
  <2>1. View(c)' = View(c)
    BY <1>1, <1>2, <1>5, <1>6 DEF View, KernelPart
  <2>2. QED
    BY <1>1, <1>3, <1>4, <2>1, Unseen
<1>7. CASE pc[c] # "cr3" \/ a < KernelEnd
  <2>1. f = pt[Owner(Space(c), a)][a]
    BY <1>7 DEF Space, Owner
  <2> HIDE DEF f
  <2>2. View(c)' = [View(c) EXCEPT ![a] = f]
    BY <1>1, <1>2, <1>5, <1>7 DEF View, KernelPart
  <2>3. [x \in Cpus |-> View(x)]' = [[x \in Cpus |-> View(x)] EXCEPT ![c] = [@ EXCEPT ![a] = f]]
    BY <1>4, <2>2
  <2>4. [x \in Cpus |-> Busy(x)]' = [x \in Cpus |-> Busy(x)]
    BY <1>3
  <2>5. [x \in Cpus |-> Space(x)]' = [x \in Cpus |-> Space(x)] /\ [x \in Cpus |-> Space(x)][c] = Space(c)
    BY <1>3
  <2>6. Abstract!Fill(c, a)
    BY <1>1, <2>1, <2>3, <2>4, <2>5 DEF Abstract!Fill, Abstract!Owner, Owner
  <2>7. QED
    BY <2>6 DEF Abstract!Next, Abstract!Addrs, Addrs
<1>8. QED
  BY <1>6, <1>7

\* Invlpgs, on the CPU that distributes and on those that it tells.
LEMMA InvlpgsRefines ==
    ASSUME IInv, NEW c \in Cpus, pc[c] # "cr3", pc'[c] # "cr3", NEW r,
           tlb' = [tlb EXCEPT ![c] = Invlpgs(@, r)], pt' = pt,
           \A x \in Cpus : Space(x)' = Space(x) /\ Busy(x)' = Busy(x),
           \A x \in Cpus \ {c} : View(x)' = View(x)
    PROVE  Abstract!Next
<1> DEFINE t == Invlpgs(tlb[c], r)
           S == {a \in Addrs : t[a] = NoFrame}
<1>1. tlb[c] \in Tables /\ t \in Tables
  BY InvlpgsType DEF IInv, TypeOK, Tables
<1>2. View(c) = tlb[c] /\ View(c)' = t
  BY DEF View, IInv, TypeOK
<1>3. \A a \in Addrs : t[a] \in {tlb[c][a], NoFrame}
  BY <1>1, InvlpgsRemoves
<1> HIDE DEF t
<1>4. t = [a \in Addrs |-> IF a \in S THEN NoFrame ELSE View(c)[a]]
  BY <1>1, <1>2, <1>3 DEF Tables
<1>5. S \in SUBSET Addrs
  OBVIOUS
<1> HIDE DEF S
<1>6. [x \in Cpus |-> View(x)]' =
        [[x \in Cpus |-> View(x)] EXCEPT ![c] = [a \in Addrs |-> IF a \in S THEN NoFrame ELSE @[a]]]
  BY <1>2, <1>4
<1>7. [x \in Cpus |-> Busy(x)]' = [x \in Cpus |-> Busy(x)]
  OBVIOUS
<1>8. [x \in Cpus |-> Space(x)]' = [x \in Cpus |-> Space(x)]
  OBVIOUS
<1>9. Abstract!Drop(c)
  BY <1>5, <1>6, <1>7, <1>8 DEF Abstract!Drop, Abstract!Addrs, Addrs
<1>10. QED
  BY <1>9 DEF Abstract!Next

\* Nobody else changes a map whose lock is free.
LEMMA NobodyChanges ==
    ASSUME IInv, NEW c \in Cpus, NEW r \in Requests, CanOperate(c, r)
    PROVE  /\ Busy(c) = NoRequest /\ Space(c) = cr3[c] /\ Owner(cr3[c], r.start) = cr3[c]
           /\ \A d \in Cpus : Busy(d) # NoRequest => Owner(Space(d), Busy(d).start) # cr3[c]
<1>1. pc[c] = "run" /\ (r.start < KernelEnd <=> cr3[c] = Global) /\ mapLock[cr3[c]] = NoCpu
  BY DEF CanOperate
<1>2. Busy(c) = NoRequest
  BY <1>1, BusyIs DEF IsBusy, BusyPcs
<1>3. Space(c) = cr3[c] /\ Owner(cr3[c], r.start) = cr3[c]
  BY <1>1 DEF Space, Owner
<1>4. ASSUME NEW d \in Cpus, Busy(d) # NoRequest
      PROVE  Owner(Space(d), Busy(d).start) # cr3[c]
  <2>1. IsBusy(d) /\ Busy(d) = op[d]
    BY <1>4, BusyIs
  <2>2. pc[d] \in MapLockPcs /\ Space(d) = cr3[d]
    BY <2>1 DEF IsBusy, BusyPcs, MapLockPcs, TlbLockPcs, Space
  <2>3. mapLock[cr3[d]] = d /\ Owner(cr3[d], op[d].start) = cr3[d]
    BY <2>2 DEF IInv, LockInv, Owner
  <2>4. QED
    BY <1>1, <2>1, <2>2, <2>3, CpuAssumption
<1>5. QED
  BY <1>2, <1>3, <1>4

\* Pages that were not mapped.
LEMMA FreshRefines ==
    ASSUME IInv, NEW c \in Cpus, NEW r \in Requests, NEW f \in Frames, CanOperate(c, r),
           \A a \in Pages(r) : pt[cr3[c]][a] = NoFrame,
           pt' = [pt EXCEPT ![cr3[c]] = SetPages(@, r, f)],
           \A x \in Cpus : Space(x)' = Space(x) /\ Busy(x)' = Busy(x) /\ View(x)' = View(x)
    PROVE  Abstract!Next
<1> DEFINE busyF  == [x \in Cpus |-> Busy(x)]
           spaceF == [x \in Cpus |-> Space(x)]
<1>1. busyF[c] = NoRequest /\ Owner(spaceF[c], r.start) = cr3[c]
      /\ \A d \in Cpus : busyF[d] # NoRequest => Owner(spaceF[d], busyF[d].start) # cr3[c]
  BY NobodyChanges
<1>2. busyF' = busyF /\ spaceF' = spaceF /\ [x \in Cpus |-> View(x)]' = [x \in Cpus |-> View(x)]
  OBVIOUS
<1>3. Abstract!MapFresh(c, r, f)
  BY <1>1, <1>2 DEF Abstract!MapFresh, Abstract!ChangesMap, Abstract!Owner, Owner, Abstract!Pages, Pages,
     Abstract!SetPages, SetPages, Abstract!Addrs, Addrs
<1>4. QED
  BY <1>3 DEF Abstract!Next

\* Pages that a CPU may have cached, and all pages before the module is initialized.
LEMMA ChangeRefines ==
    ASSUME IInv, NEW c \in Cpus, NEW r \in Requests, NEW f \in Frames \union {NoFrame},
           NEW flush \in BOOLEAN, Change(c, r, f, flush), flush \/ ~ready
    PROVE  Abstract!Next
<1> DEFINE busyF  == [x \in Cpus |-> Busy(x)]
           spaceF == [x \in Cpus |-> Space(x)]
<1>1. /\ CanOperate(c, r) /\ pc[c] = "run"
      /\ pc' = [pc EXCEPT ![c] = IF flush THEN "lock" ELSE "leave"]
      /\ op' = [op EXCEPT ![c] = r]
      /\ pt' = [pt EXCEPT ![cr3[c]] = SetPages(@, r, f)]
      /\ UNCHANGED <<ready, cr3, entering, tlb>>
  BY DEF Change, CanOperate, Goto, cpuVars
<1>2. /\ Busy(c)' = r /\ (\A x \in Cpus \ {c} : Busy(x)' = Busy(x))
      /\ \A x \in Cpus : Space(x)' = Space(x) /\ View(x)' = View(x)
  BY <1>1 DEF IInv, TypeOK, Busy, Space, View, MapLockPcs, TlbLockPcs
<1>3. busyF[c] = NoRequest /\ Owner(spaceF[c], r.start) = cr3[c]
      /\ \A d \in Cpus : busyF[d] # NoRequest => Owner(spaceF[d], busyF[d].start) # cr3[c]
  BY <1>1, NobodyChanges
<1>4. busyF' = [busyF EXCEPT ![c] = r] /\ spaceF' = spaceF
      /\ [x \in Cpus |-> View(x)]' = [x \in Cpus |-> View(x)]
  BY <1>2
<1>5. Abstract!Begin(c, r, f)
  BY <1>1, <1>3, <1>4 DEF Abstract!Begin, Abstract!ChangesMap, Abstract!Owner, Owner,
     Abstract!SetPages, SetPages, Abstract!Addrs, Addrs, Abstract!Pages, Pages
<1>6. QED
  BY <1>5 DEF Abstract!Next

\* UserMap::MapAt that overwrote nothing.
LEMMA QuietChangeRefines ==
    ASSUME IInv, ready, NEW c \in Cpus, NEW r \in Requests, NEW f \in Frames,
           Change(c, r, f, FALSE), \A a \in Pages(r) : pt[cr3[c]][a] = NoFrame
    PROVE  Abstract!Next
<1>1. /\ CanOperate(c, r) /\ pc[c] = "run" /\ pc' = [pc EXCEPT ![c] = "leave"]
      /\ op' = [op EXCEPT ![c] = r]
      /\ pt' = [pt EXCEPT ![cr3[c]] = SetPages(@, r, f)]
      /\ UNCHANGED <<ready, cr3, entering, tlb>>
  BY DEF Change, CanOperate, Goto, cpuVars
<1>2. \A x \in Cpus : Space(x)' = Space(x) /\ View(x)' = View(x) /\ Busy(x)' = Busy(x)
  BY <1>1 DEF IInv, TypeOK, Busy, Space, View, MapLockPcs, TlbLockPcs
<1>3. QED
  BY <1>1, <1>2, FreshRefines

\* An operation that nobody waits for any more is over for the callers: no CPU of the
\* map has an old translation of its pages.
LEMMA FinishRefines ==
    ASSUME IInv, NEW c \in Cpus, IsBusy(c), Busy(c)' = NoRequest, pt' = pt,
           \A x \in Cpus : ~AwaitsFlush(c, x),
           \A x \in Cpus : Space(x)' = Space(x) /\ View(x)' = View(x),
           \A x \in Cpus \ {c} : Busy(x)' = Busy(x)
    PROVE  Abstract!Next
<1> DEFINE busyF  == [x \in Cpus |-> Busy(x)]
           spaceF == [x \in Cpus |-> Space(x)]
           viewF  == [x \in Cpus |-> View(x)]
<1>1. pc[c] \in MapLockPcs /\ pc[c] # "cr3"
  BY DEF IsBusy, BusyPcs, MapLockPcs, TlbLockPcs
<1>2. Busy(c) = op[c] /\ op[c] # NoRequest /\ op[c] \in Requests
  BY BusyIs
<1>5. Space(c) = cr3[c] /\ Owner(cr3[c], op[c].start) = cr3[c] /\ mapLock[cr3[c]] = c
  BY <1>1 DEF Space, IInv, LockInv, Owner
<1>6. ASSUME NEW d \in Cpus, NEW a \in Pages(op[c]), Owner(Space(d), a) = cr3[c],
             View(d)[a] # NoFrame, View(d)[a] # pt[Owner(Space(d), a)][a]
      PROVE  FALSE
  <2>1. a \in Addrs
    <3>1. /\ op[c].start \in Int /\ op[c].start >= 0 /\ op[c].size \in Int
          /\ op[c].start + op[c].size <= AddrEnd /\ AddrEnd \in Int
      BY <1>2, RequestAssumption, AddrAssumption DEF Addrs
    <3>2. QED
      BY <3>1 DEF Pages, Addrs
  <2>2. pc[d] = "cr3" => a < KernelEnd
    BY <1>6, <2>1 DEF View, KernelPart
  <2>3. Owner(Space(d), a) = Owner(cr3[d], a) /\ View(d)[a] = tlb[d][a]
    BY <2>1, <2>2 DEF Space, View, Owner, KernelPart
  <2>4. Stale(d, a)
    BY <1>6, <2>3 DEF Stale
  <2>5. a \in Int /\ KernelEnd \in Int
    BY <2>1, AddrAssumption DEF Addrs
  <2>6. ~(pc[d] = "cr3" /\ a >= KernelEnd)
    BY <2>2, <2>5
  <2>7. PICK e \in Cpus : cr3[e] = Owner(cr3[d], a) /\ AwaitsFlush(e, d)
    BY <2>1, <2>4, <2>6 DEF IInv, StaleInv, FlushAhead
  <2>8. mapLock[cr3[e]] = e
    BY <2>7 DEF AwaitsFlush, ShootPcs, IInv, LockInv, MapLockPcs, TlbLockPcs
  <2>9. e = c
    BY <1>5, <1>6, <2>3, <2>7, <2>8
  <2>10. QED
    BY <2>7, <2>9
<1>7. /\ busyF[c] = op[c] /\ busyF[c] # NoRequest
      /\ Owner(spaceF[c], busyF[c].start) = cr3[c]
      /\ \A d \in Cpus, a \in Pages(busyF[c]) :
            Owner(spaceF[d], a) = cr3[c] =>
                ~(viewF[d][a] # NoFrame /\ viewF[d][a] # pt[Owner(spaceF[d], a)][a])
  BY <1>2, <1>5, <1>6
<1>8. spaceF' = spaceF
  OBVIOUS
<1>9. viewF' = viewF
  OBVIOUS
<1>10. busyF' = [busyF EXCEPT ![c] = NoRequest]
  OBVIOUS
<1>11. Abstract!Finish(c)
  BY <1>7, <1>8, <1>9, <1>10 DEF Abstract!Finish, Abstract!ChangesMap, Abstract!Stale, Abstract!Owner, Owner,
     Abstract!Pages, Pages
<1>12. QED
  BY <1>11 DEF Abstract!Next

\* The wait ends.
LEMMA WaitOverRefines ==
    ASSUME IInv, NEW c \in Cpus, WaitOver(c)
    PROVE  Abstract!Next
<1>1. /\ pc[c] = "wait" /\ pc' = [pc EXCEPT ![c] = "unlock"]
      /\ UNCHANGED <<ready, pt, op, cr3, entering, tlb>>
  BY DEF WaitOver, Goto, mapVars, cpuVars
<1>2. ready /\ pc \in [Cpus -> Pcs]
  BY <1>1, Initialized DEF IInv, TypeOK, TlbLockPcs
<1>3. /\ \A x \in Cpus : Space(x)' = Space(x) /\ View(x)' = View(x)
      /\ \A x \in Cpus \ {c} : Busy(x)' = Busy(x)
  BY <1>1, <1>2 DEF Busy, Space, View
<1>4. IsBusy(c) /\ Busy(c)' = NoRequest
  BY <1>1, <1>2 DEF IsBusy, BusyPcs, Busy
<1>5. \A x \in Cpus : ~AwaitsFlush(c, x)
  <2>1. Outstanding = {} /\ todo[c] = {}
    BY <1>1, NothingOutstandingAtEnd DEF WaitOver, IInv, IpiInv
  <2>2. QED
    BY <1>1, <2>1 DEF AwaitsFlush, Outstanding
<1>6. QED
  BY <1>1, <1>3, <1>4, <1>5, FinishRefines

\* Before the module is initialized the operation is over when it gives up the lock.
LEMMA EarlyLeaveRefines ==
    ASSUME IInv, ~ready, NEW c \in Cpus, Leave(c)
    PROVE  Abstract!Next
<1>1. /\ pc[c] = "leave" /\ pc' = [pc EXCEPT ![c] = "run"] /\ op' = [op EXCEPT ![c] = NoRequest]
      /\ UNCHANGED <<ready, pt, cr3, entering, tlb>>
  BY DEF Leave, Goto, cpuVars
<1>2. pc \in [Cpus -> Pcs] /\ op \in [Cpus -> Requested]
  BY DEF IInv, TypeOK
<1>3. /\ \A x \in Cpus : Space(x)' = Space(x) /\ View(x)' = View(x)
      /\ \A x \in Cpus \ {c} : Busy(x)' = Busy(x)
  BY <1>1, <1>2 DEF Busy, Space, View
<1>4. IsBusy(c) /\ Busy(c)' = NoRequest
  BY <1>1, <1>2 DEF IsBusy, Busy
<1>5. \A x \in Cpus : ~AwaitsFlush(c, x)
  BY <1>1 DEF AwaitsFlush, ShootPcs
<1>6. QED
  BY <1>1, <1>3, <1>4, <1>5, FinishRefines

\* The rest of DistributeInvlpg and of HandleNotification.
LEMMA UnseenSteps ==
    ASSUME IInv, NEW c \in Cpus,
           \/ Acquire(c) \/ Publish(c) \/ CountIpi(c) \/ SentAll(c) \/ Unlock(c)
           \/ Leave(c) /\ ready
           \/ \E d \in todo[c] : Skip(c, d) \/ SendIpi(c, d)
           \/ TakeIpi(c) \/ HandleCount(c) \/ HandleEoi(c)
    PROVE  UNCHANGED Abstract!absVars
<1>1. pc \in [Cpus -> Pcs] /\ (ready \/ UNCHANGED <<pc, op>>)
  <2>1. pc[c] \in TlbLockPcs => ready
    BY Initialized DEF IInv
  <2> QED
    BY <2>1 DEF IInv, TypeOK, TlbLockPcs, Acquire, Publish, CountIpi, SentAll, Unlock, Skip, SendIpi,
       TakeIpi, HandleCount, HandleEoi
<1>2. /\ UNCHANGED <<ready, pt, cr3, entering, tlb>>
      /\ \/ op' = op
         \/ pc[c] = "leave" /\ pc'[c] = "run" /\ op' = [op EXCEPT ![c] = NoRequest]
      /\ \/ pc' = pc
         \/ pc[c] \in BusyPcs /\ \E p \in BusyPcs : pc' = [pc EXCEPT ![c] = p]
         \/ pc[c] \in {"unlock", "leave"} /\ \E p \in {"leave", "run"} : pc' = [pc EXCEPT ![c] = p]
  BY <1>1 DEF Acquire, Publish, CountIpi, SentAll, Unlock, Leave, Skip, SendIpi, TakeIpi, HandleCount,
     HandleEoi, Goto, BusyPcs, mapVars, cpuVars
<1>3. \A x \in Cpus : Space(x)' = Space(x) /\ View(x)' = View(x)
  BY <1>1, <1>2 DEF Space, View, BusyPcs
<1>4. \A x \in Cpus : Busy(x)' = Busy(x)
  BY <1>1, <1>2 DEF Busy, BusyPcs, MapLockPcs, TlbLockPcs, IInv, TypeOK
<1>5. QED
  BY <1>2, <1>3, <1>4, Unseen

LEMMA FlushRefines ==
    ASSUME IInv, NEW c \in Cpus, FlushLocal(c) \/ FlushSelf(c) \/ HandleInvlpgs(c)
    PROVE  Abstract!Next
<1>1. pc \in [Cpus -> Pcs]
  BY DEF IInv, TypeOK
<1>2. PICK r : tlb' = [tlb EXCEPT ![c] = Invlpgs(@, r)]
  BY DEF FlushLocal, FlushSelf, HandleInvlpgs
<1>3. /\ UNCHANGED <<ready, pt, op, cr3, entering>> /\ pc[c] # "cr3"
      /\ \/ pc' = pc
         \/ pc[c] = "critical" /\ pc' = [pc EXCEPT ![c] = "publish"]
         \/ ~ready /\ pc[c] = "lock" /\ pc' = [pc EXCEPT ![c] = "leave"]
  BY DEF FlushLocal, FlushSelf, HandleInvlpgs, Goto, mapVars, cpuVars, IInv, CpuInv, NoncriticalPcs
<1>4. \A x \in Cpus : Space(x)' = Space(x) /\ Busy(x)' = Busy(x)
  BY <1>1, <1>3 DEF Space, Busy, MapLockPcs, TlbLockPcs
<1>5. \A x \in Cpus \ {c} : View(x)' = View(x)
  BY <1>1, <1>2, <1>3 DEF View, IInv, TypeOK
<1>6. pc'[c] # "cr3"
  BY <1>1, <1>3
<1>7. QED
  BY <1>2, <1>3, <1>4, <1>5, <1>6, InvlpgsRefines

LEMMA NextRefines ==
    ASSUME IInv, [Next]_vars
    PROVE  [Abstract!Next]_(Abstract!absVars)
<1>1. CASE Initialize
  <2>1. (\A x \in Cpus : pc[x] = "run") /\ UNCHANGED <<pt, pc, op, cr3, entering, tlb>>
    BY <1>1 DEF Initialize, mapVars, cpuVars
  <2>2. \A x \in Cpus : Space(x)' = Space(x) /\ Busy(x)' = Busy(x) /\ View(x)' = View(x)
    BY <2>1 DEF Space, Busy, View, MapLockPcs, TlbLockPcs
  <2>3. QED
    BY <2>1, <2>2, Unseen
<1>2. ASSUME NEW c \in Cpus, Call(c)
      PROVE  Abstract!Next
  <2>1. ASSUME NEW r \in Requests, NEW f \in Frames, Map(c, r, f)
        PROVE  Abstract!Next
    <3>1. /\ CanOperate(c, r) /\ (\A a \in Pages(r) : pt[cr3[c]][a] = NoFrame)
          /\ pt' = [pt EXCEPT ![cr3[c]] = SetPages(@, r, f)]
          /\ UNCHANGED <<ready, pc, op, cr3, entering, tlb>>
      BY <2>1 DEF Map, cpuVars
    <3>2. \A x \in Cpus : Space(x)' = Space(x) /\ Busy(x)' = Busy(x) /\ View(x)' = View(x)
      BY <3>1 DEF Space, Busy, View
    <3>3. QED
      BY <3>1, <3>2, FreshRefines
  <2>2. ASSUME NEW r \in Requests, NEW f \in Frames, MapAt(c, r, f)
        PROVE  Abstract!Next
    <3>1. CASE cr3[c] = Global \/ Overwrote(c, r) \/ ~ready
      <4>1. PICK flush \in BOOLEAN : Change(c, r, f, flush) /\ (flush \/ ~ready)
        BY <2>2, <3>1 DEF MapAt, Overwrote
      <4>2. QED
        BY <4>1, ChangeRefines
    <3>2. CASE ready /\ ~(cr3[c] = Global \/ Overwrote(c, r))
      <4>1. Change(c, r, f, FALSE)
        BY <2>2, <3>2 DEF MapAt, Change
      <4>2. \A a \in Pages(r) : pt[cr3[c]][a] = NoFrame
        BY <3>2 DEF Overwrote
      <4>3. QED
        BY <3>2, <4>1, <4>2, QuietChangeRefines
    <3>3. QED
      BY <3>1, <3>2
  <2>3. ASSUME NEW r \in Requests, Unmap(c, r)
        PROVE  Abstract!Next
    BY <2>3, ChangeRefines DEF Unmap
  <2>4. QED
    BY <1>2, <2>1, <2>2, <2>3, SetRefines DEF Call
<1>3. ASSUME NEW c \in Cpus, Distribute(c)
      PROVE  Abstract!Next \/ UNCHANGED Abstract!absVars
  BY <1>3, FlushRefines, UnseenSteps, WaitOverRefines DEF Distribute
<1>4. CASE UNCHANGED vars
  <2>1. UNCHANGED <<ready, pt, pc, op, cr3, entering, tlb>>
    BY <1>4 DEF vars
  <2>2. \A x \in Cpus : Space(x)' = Space(x) /\ Busy(x)' = Busy(x) /\ View(x)' = View(x)
    BY <2>1 DEF Space, Busy, View
  <2>3. QED
    BY <2>1, <2>2, Unseen
<1>5. QED
  BY <1>1, <1>2, <1>3, <1>4, FillRefines, Cr3Refines, EarlyLeaveRefines, UnseenSteps, FlushRefines DEF Next, HandleNotification

\* The maps implement Translation, before Tlb::Initialize and after it: a shootdown, with its locks, IPIs and
\* counter, is one operation that ends when no CPU can use an old translation, and
\* MemoryMap::Set() one step.
THEOREM Implementation ==
    ASSUME NoLastRange
    PROVE  Spec => ImplementsTranslation
<1>1. Init => Abstract!Init
  BY InitRefines
<1>2. IInv /\ [Step]_vars => [Abstract!Next]_(Abstract!absVars)
  BY NextRefines DEF Step
<1>3. QED
  BY <1>1, <1>2, Invariance, PTL DEF Spec, ImplementsTranslation, Abstract!Spec

=============================================================================
