--------------------------- MODULE ModuleInitProofs ---------------------------
(***************************************************************************)
(* Proofs about Wakeup and ModuleInit, for any number of CPUs and any      *)
(* length of MicroSleep: the invariant of the mailboxes, and on top of it  *)
(* that of the modules which initialize the CPUs through them.             *)
(***************************************************************************)
EXTENDS ModuleInit, FiniteSetTheorems, TLAPS

-----------------------------------------------------------------------------
(* Wakeup: for any number of messages and nested handlers.                 *)

\* What CPU c does in a step of Next.
Step(c) ==
    \/ \E flag \in BOOLEAN : SetCritical(c, flag)
    \/ \E d \in Cpus, m \in Messages : RunAsync(c, d, m)
    \/ Send(c)
    \/ TakeWakeup(c)
    \/ HandleWakeup(c)
    \/ Return(c)

\* Every step keeps the variables within their types.
LEMMA NextType ==
    ASSUME TypeOK, LockInv, [Next]_vars
    PROVE  TypeOK'
<1> USE DepthAssumption DEF TypeOK, Pcs, SenderPcs, HandlerPcs, LockInv, Inside, NoJob, NothingLoaded
<1>1. CASE UNCHANGED vars
  BY <1>1 DEF vars, boxVars
<1>2. ASSUME NEW c \in Cpus, Step(c)
      PROVE  TypeOK'
  <2>1. CASE \E flag \in BOOLEAN : SetCritical(c, flag)
    BY <2>1 DEF SetCritical, Goto, boxVars
  <2>2. CASE \E d \in Cpus, m \in Messages : RunAsync(c, d, m)
    BY <2>2 DEF RunAsync, Goto, boxVars
  <2>3. CASE Seize(c)
    BY <2>3 DEF Seize, Goto, boxVars
  <2>4. CASE StoreFunc(c)
    BY <2>4 DEF StoreFunc, Goto, boxVars
  <2>5. CASE StoreArg(c)
    BY <2>5 DEF StoreArg, Goto, boxVars
  <2>6. CASE Release(c)
    BY <2>6 DEF Release, Goto, boxVars
  <2>7. CASE SendIpi(c)
    BY <2>7 DEF SendIpi, Goto, boxVars
  <2>8. CASE TakeWakeup(c)
    BY <2>8 DEF TakeWakeup, Goto, boxVars
  <2>9. CASE SendEoi(c)
    BY <2>9 DEF SendEoi, Goto, boxVars
  <2>10. CASE HandlerSeize(c)
    BY <2>10 DEF HandlerSeize, Goto, boxVars
  <2>11. CASE LoadFunc(c)
    BY <2>11 DEF LoadFunc, Goto, boxVars
  <2>12. CASE LoadArg(c)
    BY <2>12 DEF LoadArg, Goto, boxVars
  <2>13. CASE ClearFunc(c)
    BY <2>13 DEF ClearFunc, Goto, boxVars
  <2>14. CASE HandlerCall(c)
    <3>1. depth[c] \in Nat /\ depth[c] + 1 \in 0 .. MaxDepth
      BY <2>14 DEF HandlerCall
    <3>2. crit' \in [Cpus -> BOOLEAN] /\ depth' \in [Cpus -> 0 .. MaxDepth]
      <4>1. CASE got[c].func = NoFunc
        <5>1. crit' = [crit EXCEPT ![c] = FALSE] /\ depth' = depth
          BY <2>14, <4>1 DEF HandlerCall
        <5>2. QED
          BY <5>1
      <4>2. CASE got[c].func # NoFunc
        <5>1. crit' = crit /\ depth' = [depth EXCEPT ![c] = depth[c] + 1]
          BY <2>14, <4>2 DEF HandlerCall
        <5>2. QED
          BY <3>1, <5>1
      <4>3. QED
        BY <4>1, <4>2
    <3>3. QED
      BY <2>14, <3>2 DEF HandlerCall, Goto, boxVars
  <2>15. CASE Return(c)
    BY <2>15 DEF Return, Goto, boxVars
  <2>16. QED
    BY <1>2, <2>1, <2>2, <2>3, <2>4, <2>5, <2>6, <2>7,
       <2>8, <2>9, <2>10, <2>11, <2>12, <2>13, <2>14, <2>15
       DEF Step, Send, HandleWakeup
<1>3. QED
  BY <1>1, <1>2 DEF Next, Step

\* Every step keeps each mailbox locked by the CPU that uses it.
LEMMA NextLock ==
    ASSUME TypeOK, LockInv, [Next]_vars
    PROVE  LockInv'
<1> USE HolderAssumption, DepthAssumption DEF TypeOK, LockInv, Inside, SenderPcs, Pcs, HandlerPcs
<1>1. CASE UNCHANGED vars
  BY <1>1 DEF vars, boxVars
<1>2. ASSUME NEW c \in Cpus, Step(c)
      PROVE  LockInv'
  <2>1. CASE \E flag \in BOOLEAN : SetCritical(c, flag)
    BY <2>1 DEF SetCritical, Goto, boxVars
  <2>2. CASE \E d \in Cpus, m \in Messages : RunAsync(c, d, m)
    BY <2>2 DEF RunAsync, Goto, boxVars
  <2>3. CASE Seize(c)
    BY <2>3 DEF Seize, Goto, boxVars
  <2>4. CASE StoreFunc(c)
    BY <2>4 DEF StoreFunc, Goto, boxVars
  <2>5. CASE StoreArg(c)
    BY <2>5 DEF StoreArg, Goto, boxVars
  <2>6. CASE Release(c)
    BY <2>6 DEF Release, Goto, boxVars
  <2>7. CASE SendIpi(c)
    BY <2>7 DEF SendIpi, Goto, boxVars
  <2>8. CASE TakeWakeup(c)
    BY <2>8 DEF TakeWakeup, Goto, boxVars
  <2>9. CASE SendEoi(c)
    BY <2>9 DEF SendEoi, Goto, boxVars
  <2>10. CASE HandlerSeize(c)
    BY <2>10 DEF HandlerSeize, Goto, boxVars
  <2>11. CASE LoadFunc(c)
    BY <2>11 DEF LoadFunc, Goto, boxVars
  <2>12. CASE LoadArg(c)
    BY <2>12 DEF LoadArg, Goto, boxVars
  <2>13. CASE ClearFunc(c)
    BY <2>13 DEF ClearFunc, Goto, boxVars
  <2>14. CASE HandlerCall(c)
    BY <2>14 DEF HandlerCall, Goto, boxVars
  <2>15. CASE Return(c)
    BY <2>15 DEF Return, Goto, boxVars
  <2>16. QED
    BY <1>2, <2>1, <2>2, <2>3, <2>4, <2>5, <2>6, <2>7,
       <2>8, <2>9, <2>10, <2>11, <2>12, <2>13, <2>14, <2>15
       DEF Step, Send, HandleWakeup
<1>3. QED
  BY <1>1, <1>2 DEF Next, Step

\* Every step keeps the fields of a mailbox together.
LEMMA NextBox ==
    ASSUME TypeOK, LockInv, BoxInv, LoadInv, [Next]_vars
    PROVE  BoxInv'
<1> USE MessageAssumption, EmptyAssumption DEF TypeOK, LockInv, BoxInv, LoadInv, Inside, SenderPcs, HandlerPcs
<1>1. CASE UNCHANGED vars
  BY <1>1 DEF vars, boxVars
<1>2. ASSUME NEW c \in Cpus, Step(c)
      PROVE  BoxInv'
  <2>1. CASE \E flag \in BOOLEAN : SetCritical(c, flag)
    BY <2>1 DEF SetCritical, Goto, boxVars
  <2>2. CASE \E d \in Cpus, m \in Messages : RunAsync(c, d, m)
    BY <2>2 DEF RunAsync, Goto, boxVars
  <2>3. CASE Seize(c)
    BY <2>3 DEF Seize, Goto, boxVars
  <2>4. CASE StoreFunc(c)
    BY <2>4 DEF StoreFunc, Goto, boxVars
  <2>5. CASE StoreArg(c)
    BY <2>5 DEF StoreArg, Goto, boxVars
  <2>6. CASE Release(c)
    BY <2>6 DEF Release, Goto, boxVars
  <2>7. CASE SendIpi(c)
    BY <2>7 DEF SendIpi, Goto, boxVars
  <2>8. CASE TakeWakeup(c)
    BY <2>8 DEF TakeWakeup, Goto, boxVars
  <2>9. CASE SendEoi(c)
    BY <2>9 DEF SendEoi, Goto, boxVars
  <2>10. CASE HandlerSeize(c)
    BY <2>10 DEF HandlerSeize, Goto, boxVars
  <2>11. CASE LoadFunc(c)
    BY <2>11 DEF LoadFunc, Goto, boxVars
  <2>12. CASE LoadArg(c)
    BY <2>12 DEF LoadArg, Goto, boxVars
  <2>13. CASE ClearFunc(c)
    BY <2>13 DEF ClearFunc, Goto, boxVars
  <2>14. CASE HandlerCall(c)
    BY <2>14 DEF HandlerCall, Goto, boxVars
  <2>15. CASE Return(c)
    BY <2>15 DEF Return, Goto, boxVars
  <2>16. QED
    BY <1>2, <2>1, <2>2, <2>3, <2>4, <2>5, <2>6, <2>7,
       <2>8, <2>9, <2>10, <2>11, <2>12, <2>13, <2>14, <2>15
       DEF Step, Send, HandleWakeup
<1>3. QED
  BY <1>1, <1>2 DEF Next, Step

\* Every step keeps what a handler has loaded in agreement with the mailbox.
LEMMA NextLoad ==
    ASSUME TypeOK, LockInv, BoxInv, LoadInv, [Next]_vars
    PROVE  LoadInv'
<1> USE MessageAssumption, EmptyAssumption DEF TypeOK, LockInv, BoxInv, LoadInv, Inside, SenderPcs, HandlerPcs
<1>1. CASE UNCHANGED vars
  BY <1>1 DEF vars, boxVars
<1>2. ASSUME NEW c \in Cpus, Step(c)
      PROVE  LoadInv'
  <2>1. CASE \E flag \in BOOLEAN : SetCritical(c, flag)
    BY <2>1 DEF SetCritical, Goto, boxVars
  <2>2. CASE \E d \in Cpus, m \in Messages : RunAsync(c, d, m)
    BY <2>2 DEF RunAsync, Goto, boxVars
  <2>3. CASE Seize(c)
    BY <2>3 DEF Seize, Goto, boxVars
  <2>4. CASE StoreFunc(c)
    BY <2>4 DEF StoreFunc, Goto, boxVars
  <2>5. CASE StoreArg(c)
    BY <2>5 DEF StoreArg, Goto, boxVars
  <2>6. CASE Release(c)
    BY <2>6 DEF Release, Goto, boxVars
  <2>7. CASE SendIpi(c)
    BY <2>7 DEF SendIpi, Goto, boxVars
  <2>8. CASE TakeWakeup(c)
    BY <2>8 DEF TakeWakeup, Goto, boxVars
  <2>9. CASE SendEoi(c)
    BY <2>9 DEF SendEoi, Goto, boxVars
  <2>10. CASE HandlerSeize(c)
    BY <2>10 DEF HandlerSeize, Goto, boxVars
  <2>11. CASE LoadFunc(c)
    BY <2>11 DEF LoadFunc, Goto, boxVars
  <2>12. CASE LoadArg(c)
    BY <2>12 DEF LoadArg, Goto, boxVars
  <2>13. CASE ClearFunc(c)
    BY <2>13 DEF ClearFunc, Goto, boxVars
  <2>14. CASE HandlerCall(c)
    BY <2>14 DEF HandlerCall, Goto, boxVars
  <2>15. CASE Return(c)
    BY <2>15 DEF Return, Goto, boxVars
  <2>16. QED
    BY <1>2, <2>1, <2>2, <2>3, <2>4, <2>5, <2>6, <2>7,
       <2>8, <2>9, <2>10, <2>11, <2>12, <2>13, <2>14, <2>15
       DEF Step, Send, HandleWakeup
<1>3. QED
  BY <1>1, <1>2 DEF Next, Step

\* Every step keeps a Wakeup under way for every message that is waiting.
LEMMA NextForgotten ==
    ASSUME TypeOK, NoMessageForgotten, [Next]_vars
    PROVE  NoMessageForgotten'
<1> USE MessageAssumption DEF TypeOK, NoMessageForgotten, WakeupUnderWay
<1>1. CASE UNCHANGED vars
  BY <1>1 DEF vars, boxVars
<1>2. ASSUME NEW c \in Cpus, Step(c)
      PROVE  NoMessageForgotten'
  <2>1. CASE \E flag \in BOOLEAN : SetCritical(c, flag)
    BY <2>1 DEF SetCritical, Goto, boxVars
  <2>2. CASE \E d \in Cpus, m \in Messages : RunAsync(c, d, m)
    BY <2>2 DEF RunAsync, Goto, boxVars
  <2>3. CASE Seize(c)
    BY <2>3 DEF Seize, Goto, boxVars
  <2>4. CASE StoreFunc(c)
    BY <2>4 DEF StoreFunc, Goto, boxVars
  <2>5. CASE StoreArg(c)
    BY <2>5 DEF StoreArg, Goto, boxVars
  <2>6. CASE Release(c)
    BY <2>6 DEF Release, Goto, boxVars
  <2>7. CASE SendIpi(c)
    BY <2>7 DEF SendIpi, Goto, boxVars
  <2>8. CASE TakeWakeup(c)
    BY <2>8 DEF TakeWakeup, Goto, boxVars
  <2>9. CASE SendEoi(c)
    BY <2>9 DEF SendEoi, Goto, boxVars
  <2>10. CASE HandlerSeize(c)
    BY <2>10 DEF HandlerSeize, Goto, boxVars
  <2>11. CASE LoadFunc(c)
    BY <2>11 DEF LoadFunc, Goto, boxVars
  <2>12. CASE LoadArg(c)
    BY <2>12 DEF LoadArg, Goto, boxVars
  <2>13. CASE ClearFunc(c)
    BY <2>13 DEF ClearFunc, Goto, boxVars
  <2>14. CASE HandlerCall(c)
    BY <2>14 DEF HandlerCall, Goto, boxVars
  <2>15. CASE Return(c)
    BY <2>15 DEF Return, Goto, boxVars
  <2>16. QED
    BY <1>2, <2>1, <2>2, <2>3, <2>4, <2>5, <2>6, <2>7,
       <2>8, <2>9, <2>10, <2>11, <2>12, <2>13, <2>14, <2>15
       DEF Step, Send, HandleWakeup
<1>3. QED
  BY <1>1, <1>2 DEF Next, Step

\* The inductive invariant holds from the first state on.
LEMMA InitIInv ==
    ASSUME Init
    PROVE  IInv
<1>1. TypeOK
  BY DepthAssumption DEF Init, TypeOK, Pcs, NoJob, NothingLoaded
<1>2. LockInv
  BY HolderAssumption DEF Init, LockInv, Inside, SenderPcs, HandlerPcs
<1>3. BoxInv /\ LoadInv /\ NoMessageForgotten
  BY MessageAssumption
     DEF Init, BoxInv, LoadInv, NoMessageForgotten, HandlerPcs
<1>4. QED
  BY <1>1, <1>2, <1>3 DEF IInv

\* The inductive invariant of the mailbox protocol.
THEOREM Invariance == Spec => []IInv
<1>1. Init => IInv
  BY InitIInv
<1>2. IInv /\ [Next]_vars => IInv'
  BY NextType, NextLock, NextBox, NextLoad, NextForgotten DEF IInv
<1>3. QED
  BY <1>1, <1>2, PTL DEF Spec

\* HandleWakeup runs a function with the argument RunAsync was given for it and
\* never what an uninitialized mailbox holds.
THEOREM CallsAreIntact == Spec => []CallsWhatWasSent
<1>1. IInv => CallsWhatWasSent
  BY DEF IInv, LoadInv, CallsWhatWasSent
<1>2. QED
  BY <1>1, Invariance, PTL

\* A message RunAsync has stored always has a Wakeup under way.
THEOREM MessagesAreReceived == Spec => []NoMessageForgotten
<1>1. IInv => NoMessageForgotten
  BY DEF IInv
<1>2. QED
  BY <1>1, Invariance, PTL

-----------------------------------------------------------------------------
(* The inductive invariant.                                                *)

\* Initialize of module m has sent its message to c, or called it on the boot CPU.
Sent(m, c) ==
    \/ m \notin todo
    \/ module = m /\ stage \in {"self", "wait", "next", "poll"}
    \/ module = m /\ stage \in {"post", "count"} /\ c # Boot /\ c \notin left

\* The function of module m has not begun on c, or has come to its end there.
Fresh(m, c)    == IF m = SetCpuRegisters THEN regs[c] = "unset" ELSE body[c] = "start"
Finished(m, c) == IF m = SetCpuRegisters THEN regs[c] = "set" ELSE body[c] = "done"

\* The message of c is on its way: it is being sent, requested, or received.
Posting(c)   == pc[Boot] \in SenderPcs /\ job[Boot].to = c
Receiving(c) == pc[c] \in HandlerPcs
InTransit(c) == Posting(c) \/ pending[c] \/ Receiving(c)

Asleep(c) == running[c] = <<Calibrate>> /\ body[c] = "asleep"

StageInv ==
    /\ todo \subseteq Messages /\ left \subseteq Cpus
    /\ module \in Messages \union {NoFunc}
    /\ stage \in {"idle", "post", "count", "self", "wait", "next", "poll"}
    /\ module \in todo <=> stage # "idle"
    /\ stage \in {"count", "wait"} => module = SetCpuRegisters
    /\ stage \in {"next", "poll"} => module = Calibrate
    /\ stage \in {"post", "count"} => Boot \notin left
    /\ stage \notin {"post", "count"} => pc[Boot] = "run"

FunctionTypeInv ==
    /\ running \in [Cpus -> {<<>>, <<SetCpuRegisters>>, <<Calibrate>>}]
    /\ regs \in [Cpus -> {"unset", "counted", "set"}]
    /\ body \in [Cpus -> {"start", "asleep", "stop", "mark", "done"}]
    /\ counting \in [Cpus -> BOOLEAN] /\ calibrated \in [Cpus -> BOOLEAN]
    /\ initCount \in Int

\* The boot CPU sends, to the others only, and never receives.
BootInv ==
    /\ pc[Boot] \notin HandlerPcs /\ ~pending[Boot] /\ depth[Boot] = 0
    /\ pc[Boot] \in SenderPcs =>
          /\ job[Boot].msg = module /\ job[Boot].to \notin left /\ job[Boot].to # Boot
    /\ running[Boot] = IF stage = "self" THEN <<module>> ELSE <<>>
    /\ stage \in {"wait", "next", "poll"} => Finished(module, Boot)
    /\ \A m \in Messages : m \notin todo => Finished(m, Boot)

\* A message is on its way in one form at a time, alone in the mailbox, to a CPU that
\* is idle when it receives it.
Letter(c) ==
    /\ pc[c] \notin SenderPcs
    /\ ~(Posting(c) /\ (pending[c] \/ Receiving(c))) /\ ~(pending[c] /\ Receiving(c))
    /\ func[c] \in Messages <=>
          \/ Posting(c) /\ pc[Boot] \in {"arg", "release", "ipi"}
          \/ pending[c]
          \/ pc[c] \in {"eoi", "hseize", "hfunc", "harg", "hclear"}
    /\ func[c] \in Messages => func[c] = module
    /\ pc[c] = "hrelease" => got[c].func = module
    /\ Receiving(c) => running[c] = <<>>
    /\ InTransit(c) => stage # "idle" /\ Sent(module, c) /\ Fresh(module, c)
                       /\ running[c] # <<module>>

TransitInv == \A c \in Cpus \ {Boot} : Letter(c)

\* HandleWakeup runs one function, in a critical section unless that sleeps.
FrameInv ==
    \A c \in Cpus \ {Boot} :
        /\ depth[c] = IF running[c] = <<>> THEN 0 ELSE 1
        /\ pc[c] = "run" => (crit[c] <=> running[c] # <<>> /\ ~Asleep(c))

\* A function runs where its message has been sent, and from its beginning to its end.
RunInv ==
    /\ \A c \in Cpus, m \in Messages :
          /\ ~Sent(m, c) => Fresh(m, c) /\ running[c] # <<m>>
          /\ Fresh(m, c) \/ Finished(m, c) \/ running[c] = <<m>>
          /\ c # Boot /\ Sent(m, c) /\ Fresh(m, c) /\ running[c] # <<m>> =>
                InTransit(c) /\ module = m
    /\ \A c \in Cpus :
          /\ calibrated[c] <=> body[c] = "done"
          /\ counting[c] <=> body[c] \in {"asleep", "stop"}

\* What the loops at the end of the two methods have waited for.
WaitInv ==
    /\ SetCpuRegisters \notin todo => \A c \in Cpus : regs[c] # "unset"
    /\ Calibrate \notin todo => \A c \in Cpus : body[c] = "done"
    /\ stage \in {"next", "poll"} => \A c \in Cpus \ left : body[c] = "done"

InitInv ==
    /\ IInv /\ StageInv /\ FunctionTypeInv /\ BootInv /\ TransitInv /\ FrameInv /\ RunInv
    /\ WaitInv /\ CountsAreBalanced

-----------------------------------------------------------------------------
(* Facts about single steps.                                               *)

\* The stacks of functions are short.
LEMMA Frames ==
    \A m, n : /\ <<m>> # <<>> /\ Head(<<m>>) = m /\ Tail(<<m>>) = <<>> /\ <<m>> \o <<>> = <<m>>
              /\ <<m>> = <<n>> => m = n
<1> TAKE m, n
<1>1. <<m>> # <<>> /\ Head(<<m>>) = m /\ Tail(<<m>>) = <<>>
  OBVIOUS
<1>2. <<m>> \o <<>> = <<m>>
  OBVIOUS
<1>3. <<m>> = <<n>> => m = n
  OBVIOUS
<1>4. QED
  BY <1>1, <1>2, <1>3

LEMMA InFrame ==
    ASSUME FunctionTypeInv, NEW c \in Cpus, NEW f \in Messages
    PROVE  In(c, f) <=> pc[c] = "run" /\ running[c] = <<f>>
<1>1. running[c] \in {<<>>, <<SetCpuRegisters>>, <<Calibrate>>}
  BY DEF FunctionTypeInv
<1>2. CASE running[c] = <<>>
  BY <1>2, Frames DEF In
<1>3. ASSUME NEW m, running[c] = <<m>>
      PROVE  In(c, f) <=> pc[c] = "run" /\ running[c] = <<f>>
  BY <1>3, Frames DEF In
<1>4. QED
  BY <1>1, <1>2, <1>3

\* The sets that are counted are finite.
LEMMA Counts ==
    ASSUME StageInv
    PROVE  /\ IsFiniteSet(Uncounted) /\ Cardinality(Uncounted) \in Nat
           /\ IsFiniteSet(left) /\ Cardinality(left) \in Nat
           /\ Cardinality(Cpus) \in Nat /\ Ahead \in Nat
<1>1. Uncounted \in SUBSET Cpus /\ left \in SUBSET Cpus
  BY DEF Uncounted, StageInv
<1>2. IsFiniteSet(Uncounted) /\ IsFiniteSet(left) /\ IsFiniteSet(Cpus)
  BY <1>1, FiniteAssumption, FS_Subset
<1>3. Cardinality(Uncounted) \in Nat /\ Cardinality(left) \in Nat /\ Cardinality(Cpus) \in Nat
  BY <1>2, FS_CardinalityType
<1>4. QED
  BY <1>2, <1>3 DEF Ahead

\* Every step is one of the mailboxes, or leaves them alone.
LEMMA WakeupStep ==
    ASSUME StageInv, [InitNext]_allVars
    PROVE  [Next]_vars
<1>1. CASE UNCHANGED allVars
  BY <1>1 DEF allVars
<1>2. CASE PitPulse \/ PitInterrupt
  BY <1>2 DEF PitPulse, PitInterrupt
<1>3. ASSUME NEW c \in Cpus, NEW flag \in BOOLEAN, SetCritical(c, flag)
      PROVE  Next
  BY <1>3 DEF Next
<1>4. CASE Initialize
  <2> USE BootAssumption
  <2>1. ASSUME NEW m \in todo, Enter(m)
        PROVE  Next
    BY <1>3, <2>1 DEF Enter
  <2>2. ASSUME NEW d \in left, Post(d)
        PROVE  Next
    <3>1. module \in Messages /\ d \in Cpus
      BY <2>2 DEF StageInv, Post
    <3>2. QED
      BY <2>2, <3>1 DEF Post, Next
  <2>3. ASSUME NEW d \in left, Polled(d)
        PROVE  Next
    BY <1>3, <2>3 DEF Polled
  <2>4. CASE CountPost \/ CallSelf \/ SelfReturns
    BY <2>4 DEF CountPost, CallSelf, SelfReturns
  <2>5. CASE WaitOver \/ Poll \/ TimersDone
    BY <1>3, <2>5 DEF WaitOver, Poll, TimersDone, ModuleDone
  <2>6. QED
    BY <1>4, <2>1, <2>2, <2>3, <2>4, <2>5 DEF Initialize
<1>5. ASSUME NEW c \in Cpus, Function(c)
      PROVE  [Next]_vars
  BY <1>3, <1>5 DEF Function, CountDown, WriteMsrs, StartCount, Awake, StopCount, Mark
<1>6. ASSUME NEW c \in Cpus, Deliver(c)
      PROVE  Next
  BY <1>6 DEF Deliver, CallFunction, FunctionReturns, HandleWakeup, Next
<1>7. QED
  BY <1>1, <1>2, <1>4, <1>5, <1>6 DEF InitNext

-----------------------------------------------------------------------------
(* The mailboxes.                                                          *)

\* Who takes which step of Wakeup.
LEMMA Roles ==
    ASSUME InitInv, NEW c \in Cpus, Deliver(c)
    PROVE  \/ c = Boot /\ Send(Boot) /\ UNCHANGED running
           \/ /\ c # Boot
              /\ \/ /\ TakeWakeup(c) \/ SendEoi(c) \/ HandlerSeize(c) \/ LoadFunc(c)
                         \/ LoadArg(c) \/ ClearFunc(c)
                    /\ UNCHANGED running
                 \/ CallFunction(c)
                 \/ FunctionReturns(c)
<1>1. CASE c = Boot
  <2>1. pc[Boot] \notin HandlerPcs /\ ~pending[Boot] /\ depth[Boot] = 0
    BY DEF InitInv, BootInv
  <2>2. QED
    BY <1>1, <2>1 DEF Deliver, TakeWakeup, SendEoi, HandlerSeize, LoadFunc, LoadArg, ClearFunc,
                      CallFunction, HandlerCall, FunctionReturns, Return, HandlerPcs
<1>2. CASE c # Boot
  <2>1. pc[c] \notin SenderPcs
    BY <1>2 DEF InitInv, TransitInv, Letter
  <2>2. ~Send(c)
    BY <2>1 DEF Send, Seize, StoreFunc, StoreArg, Release, SendIpi, SenderPcs
  <2>3. QED
    BY <1>2, <2>2 DEF Deliver
<1>3. QED
  BY <1>1, <1>2

\* The rest of a RunAsync of the boot CPU.
LEMMA SendKeeps ==
    ASSUME InitInv, Send(Boot), UNCHANGED <<loopVars, running, initCount, regs, bodyVars>>
    PROVE  /\ StageInv' /\ FunctionTypeInv' /\ BootInv' /\ TransitInv' /\ FrameInv' /\ RunInv'
           /\ WaitInv' /\ CountsAreBalanced'
<1> USE BootAssumption
<1>1. IInv /\ StageInv /\ FunctionTypeInv /\ BootInv /\ TransitInv /\ FrameInv /\ RunInv /\ WaitInv
      /\ CountsAreBalanced
  BY DEF InitInv
<1>2. TypeOK /\ LockInv /\ LoadInv
  BY <1>1 DEF IInv
<1>3. PICK d : d = job[Boot].to /\ d \in Cpus \ {Boot} /\ pc[Boot] \in SenderPcs
               /\ job[Boot].msg = module /\ d \notin left /\ module \in Messages
  <2>1. pc[Boot] \in SenderPcs
    BY DEF Send, Seize, StoreFunc, StoreArg, Release, SendIpi, SenderPcs
  <2>2. job[Boot] \in [to : Cpus, msg : Messages]
    BY <1>2, <2>1 DEF LockInv
  <2>3. QED
    BY <1>1, <2>1, <2>2 DEF BootInv
<1>4. UNCHANGED <<todo, module, stage, left, running, initCount, regs, body, counting, calibrated>>
      /\ UNCHANGED <<crit, depth, got>>
  BY DEF loopVars, bodyVars, Send, Seize, StoreFunc, StoreArg, Release, SendIpi, boxVars
<1>5. /\ \A c \in Cpus \ {Boot} : pc'[c] = pc[c]
      /\ pc'[Boot] \in SenderPcs \union {"run"}
      /\ pc'[Boot] \in SenderPcs => job' = job
      /\ \A c \in Cpus \ {d} : pending'[c] = pending[c] /\ func'[c] = func[c]
  BY <1>2, <1>3 DEF Send, Seize, StoreFunc, StoreArg, Release, SendIpi, TypeOK, Goto, SenderPcs,
                    boxVars
<1>6. \A c \in Cpus \ {Boot} : InTransit(c)' <=> InTransit(c)
  BY <1>2, <1>3, <1>5 DEF Send, Seize, StoreFunc, StoreArg, Release, SendIpi, TypeOK, Goto, SenderPcs,
                    boxVars, InTransit, Posting, Receiving
<1>7. /\ \A c \in Cpus, m \in Messages : Sent(m, c)' <=> Sent(m, c)
      /\ \A c \in Cpus, m \in Messages : Fresh(m, c)' <=> Fresh(m, c)
      /\ \A c \in Cpus, m \in Messages : Finished(m, c)' <=> Finished(m, c)
      /\ \A c \in Cpus : Asleep(c)' <=> Asleep(c)
  BY <1>4 DEF Sent, Fresh, Finished, Asleep
<1>8. StageInv' /\ FunctionTypeInv' /\ WaitInv'
  BY <1>1, <1>3, <1>4, <1>5 DEF StageInv, FunctionTypeInv, WaitInv, SenderPcs
<1>9. CountsAreBalanced'
  BY <1>1, <1>4 DEF CountsAreBalanced, Ahead, Uncounted, Initialized
<1>10. BootInv'
  <2>1. ~pending'[Boot] /\ pc'[Boot] \notin HandlerPcs
    BY <1>1, <1>3, <1>5 DEF BootInv, SenderPcs, HandlerPcs
  <2>2. pc'[Boot] \in SenderPcs => job' = job
    BY <1>5
  <2>3. stage \in {"wait", "next", "poll"} => module \in Messages
    BY <1>3
  <2>4. QED
    BY <1>1, <1>3, <1>4, <1>7, <2>1, <2>2, <2>3 DEF BootInv
<1>11. FrameInv'
  BY <1>1, <1>4, <1>5, <1>7 DEF FrameInv
<1>12. RunInv'
  BY <1>1, <1>4, <1>6, <1>7 DEF RunInv
<1>13. TransitInv'
  <2> SUFFICES ASSUME NEW c \in Cpus \ {Boot}
               PROVE  Letter(c)'
    BY DEF TransitInv
  <2> USE DEF Letter
  <2>1. Letter(c)
    BY <1>1 DEF TransitInv
  <2>2. /\ pc'[c] \notin SenderPcs /\ (Receiving(c)' <=> Receiving(c))
        /\ pc'[c] = "hrelease" => got'[c].func = module'
        /\ Receiving(c)' => running'[c] = <<>>
    BY <1>4, <1>5, <2>1 DEF Receiving
  <2>3. InTransit(c)' => stage' # "idle" /\ Sent(module, c)' /\ Fresh(module, c)'
                         /\ running'[c] # <<module'>>
    BY <1>3, <1>4, <1>6, <1>7, <2>1 DEF Sent, Fresh
  <2>4. CASE c = d
    <3>1. Posting(c) /\ ~pending[c] /\ ~Receiving(c) /\ c = job[Boot].to
      BY <1>3, <2>1, <2>4 DEF Posting
    <3>2. /\ ~(Posting(c)' /\ (pending'[c] \/ Receiving(c)')) /\ ~(pending'[c] /\ Receiving(c)')
          /\ func'[c] \in Messages <=>
                \/ Posting(c)' /\ pc'[Boot] \in {"arg", "release", "ipi"}
                \/ pending'[c]
                \/ pc'[c] \in {"eoi", "hseize", "hfunc", "harg", "hclear"}
          /\ func'[c] \in Messages => func'[c] = module'
      BY <1>2, <1>3, <1>4, <1>5, <2>1, <2>2, <3>1 DEF Send, Seize, StoreFunc, StoreArg, Release, SendIpi,
           TypeOK, Goto, SenderPcs, HandlerPcs, boxVars, Posting, Receiving
    <3>3. QED
      BY <2>2, <2>3, <3>2
  <2>5. CASE c # d
    <3>1. ~Posting(c) /\ ~Posting(c)' /\ pending'[c] = pending[c] /\ func'[c] = func[c]
          /\ pc'[c] = pc[c]
      BY <1>3, <1>5, <2>5 DEF Posting
    <3>2. QED
      BY <1>4, <2>1, <2>2, <2>3, <3>1
  <2>6. QED
    BY <2>4, <2>5
<1>14. QED
  BY <1>8, <1>9, <1>10, <1>11, <1>12, <1>13

\* HandleWakeup on another CPU: every step but the call and the return of the function.
LEMMA HandlerKeeps ==
    ASSUME InitInv, NEW c \in Cpus \ {Boot},
           TakeWakeup(c) \/ SendEoi(c) \/ HandlerSeize(c) \/ LoadFunc(c) \/ LoadArg(c)
               \/ ClearFunc(c),
           UNCHANGED <<loopVars, running, initCount, regs, bodyVars>>
    PROVE  /\ StageInv' /\ FunctionTypeInv' /\ BootInv' /\ TransitInv' /\ FrameInv' /\ RunInv'
           /\ WaitInv' /\ CountsAreBalanced'
<1> USE BootAssumption
<1>1. IInv /\ StageInv /\ FunctionTypeInv /\ BootInv /\ TransitInv /\ FrameInv /\ RunInv /\ WaitInv
      /\ CountsAreBalanced
  BY DEF InitInv
<1>2. TypeOK /\ LockInv /\ LoadInv
  BY <1>1 DEF IInv
<1>3. UNCHANGED <<todo, module, stage, left, running, initCount, regs, body, counting, calibrated>>
      /\ UNCHANGED <<depth, job>>
  BY DEF loopVars, bodyVars, TakeWakeup, SendEoi, HandlerSeize, LoadFunc, LoadArg, ClearFunc, boxVars
<1>4. /\ \A d \in Cpus \ {c} : /\ pc'[d] = pc[d] /\ crit'[d] = crit[d] /\ func'[d] = func[d]
                               /\ got'[d] = got[d] /\ pending'[d] = pending[d]
      /\ pc'[c] \in HandlerPcs
      /\ pc[c] \in HandlerPcs \union {"run"}
  BY <1>2 DEF TakeWakeup, SendEoi, HandlerSeize, LoadFunc, LoadArg, ClearFunc, TypeOK, Goto, HandlerPcs,
              boxVars
<1>5. \A d \in Cpus \ {Boot} : InTransit(d)' <=> InTransit(d)
  <2>1. InTransit(c) /\ InTransit(c)'
    BY <1>4 DEF TakeWakeup, SendEoi, HandlerSeize, LoadFunc, LoadArg, ClearFunc, InTransit, Receiving,
                HandlerPcs
  <2>2. \A d \in Cpus \ {Boot, c} : InTransit(d)' <=> InTransit(d)
    BY <1>3, <1>4 DEF InTransit, Posting, Receiving
  <2>3. QED
    BY <2>1, <2>2
<1>6. /\ \A d \in Cpus, m \in Messages : Sent(m, d)' <=> Sent(m, d)
      /\ \A d \in Cpus, m \in Messages : Fresh(m, d)' <=> Fresh(m, d)
      /\ \A d \in Cpus, m \in Messages : Finished(m, d)' <=> Finished(m, d)
      /\ \A d \in Cpus : Asleep(d)' <=> Asleep(d)
  BY <1>3 DEF Sent, Fresh, Finished, Asleep
<1>7. StageInv' /\ FunctionTypeInv' /\ WaitInv'
  BY <1>1, <1>3, <1>4 DEF StageInv, FunctionTypeInv, WaitInv
<1>8. CountsAreBalanced'
  BY <1>1, <1>3 DEF CountsAreBalanced, Ahead, Uncounted, Initialized
<1>9. BootInv'
  <2>1. stage \in {"wait", "next", "poll"} => module \in Messages
    BY <1>1, FunctionAssumption DEF StageInv
  <2>2. QED
    BY <1>1, <1>3, <1>4, <1>6, <2>1 DEF BootInv
<1>10. FrameInv'
  <2>1. pc'[c] # "run"
    BY <1>4 DEF HandlerPcs
  <2>2. QED
    BY <1>1, <1>3, <1>4, <1>6, <2>1 DEF FrameInv
<1>11. RunInv'
  BY <1>1, <1>3, <1>5, <1>6 DEF RunInv
<1>12. running[c] = <<>> /\ module \in Messages
  <2>1. InTransit(c)
    BY <1>4 DEF TakeWakeup, SendEoi, HandlerSeize, LoadFunc, LoadArg, ClearFunc, InTransit, Receiving,
                HandlerPcs
  <2>2. stage # "idle" /\ Fresh(module, c) /\ running[c] # <<module>>
    BY <1>1, <2>1 DEF TransitInv, Letter
  <2>3. module \in Messages
    BY <1>1, <2>2 DEF StageInv
  <2>4. CASE Receiving(c)
    BY <1>1, <2>3, <2>4 DEF TransitInv, Letter
  <2>5. CASE TakeWakeup(c)
    <3>1. ~crit[c] /\ pc[c] = "run"
      BY <2>5 DEF TakeWakeup
    <3>2. running[c] = <<>> \/ Asleep(c)
      BY <1>1, <3>1 DEF FrameInv
    <3>3. ASSUME Asleep(c)
          PROVE  FALSE
      <4>1. module = SetCpuRegisters /\ body[c] = "asleep" /\ running[c] = <<Calibrate>>
        BY <2>2, <2>3, <3>3, FunctionAssumption DEF Asleep, Fresh
      <4>2. ~Sent(Calibrate, c)
        BY <1>1, <4>1, FunctionAssumption DEF WaitInv, Sent
      <4>3. QED
        BY <1>1, <4>1, <4>2, FunctionAssumption DEF RunInv
    <3>4. QED
      BY <2>3, <3>2, <3>3
  <2>6. QED
    BY <1>4, <2>4, <2>5 DEF Receiving, SendEoi, HandlerSeize, LoadFunc, LoadArg, ClearFunc, HandlerPcs
<1>13. TransitInv'
  <2> SUFFICES ASSUME NEW d \in Cpus \ {Boot}
               PROVE  Letter(d)'
    BY DEF TransitInv
  <2> USE DEF Letter
  <2>1. Letter(d)
    BY <1>1 DEF TransitInv
  <2>2. InTransit(d)' => stage' # "idle" /\ Sent(module, d)' /\ Fresh(module, d)'
                         /\ running'[d] # <<module'>>
    BY <1>3, <1>5, <1>12, <2>1 DEF Sent, Fresh
  <2>3. Posting(d)' <=> Posting(d)
    BY <1>3, <1>4 DEF Posting
  <2>4. CASE d = c
    <3>1. ~Posting(c)
      BY <1>4, <2>1, <2>4 DEF TakeWakeup, SendEoi, HandlerSeize, LoadFunc, LoadArg, ClearFunc, Receiving,
                              HandlerPcs
    <3>2. pc'[c] \notin SenderPcs /\ ~pending'[c] /\ Receiving(c)'
      BY <1>2, <1>4, <2>1, <2>4 DEF TakeWakeup, SendEoi, HandlerSeize, LoadFunc, LoadArg, ClearFunc,
                                    TypeOK, Receiving, HandlerPcs, SenderPcs
    <3>3. func'[c] \in Messages <=> pc'[c] \in {"eoi", "hseize", "hfunc", "harg", "hclear"}
      BY <1>2, <1>4, <2>1, <2>4, <3>1, MessageAssumption
         DEF TakeWakeup, SendEoi, HandlerSeize, LoadFunc, LoadArg, ClearFunc, TypeOK, Goto, HandlerPcs,
             Receiving, boxVars
    <3>4. func'[c] \in Messages => func'[c] = module
      BY <1>2, <2>1, <2>4, MessageAssumption
         DEF TakeWakeup, SendEoi, HandlerSeize, LoadFunc, LoadArg, ClearFunc, TypeOK, boxVars
    <3>5. pc'[c] = "hrelease" => got'[c].func = module
      <4>1. ASSUME pc'[c] = "hrelease"
            PROVE  pc[c] = "hclear" /\ got' = got
        BY <1>2, <4>1 DEF TakeWakeup, SendEoi, HandlerSeize, LoadFunc, LoadArg, ClearFunc, TypeOK, Goto
      <4>2. pc[c] = "hclear" => got[c].func = module
        BY <1>2, <2>1, <2>4 DEF LoadInv
      <4>3. QED
        BY <4>1, <4>2
    <3>6. QED
      BY <1>3, <1>12, <2>2, <2>3, <2>4, <3>1, <3>2, <3>3, <3>4, <3>5
  <2>5. CASE d # c
    <3>1. /\ pc'[d] = pc[d] /\ func'[d] = func[d] /\ got'[d] = got[d] /\ pending'[d] = pending[d]
          /\ pc'[Boot] = pc[Boot]
      BY <1>4, <2>5
    <3>2. Receiving(d)' <=> Receiving(d)
      BY <3>1 DEF Receiving
    <3>3. QED
      BY <1>3, <2>1, <2>2, <2>3, <3>1, <3>2
  <2>6. QED
    BY <2>4, <2>5
<1>14. QED
  BY <1>7, <1>8, <1>9, <1>10, <1>11, <1>13

\* HandleWakeup calls the function, which no other one is under.
LEMMA CallKeeps ==
    ASSUME InitInv, NEW c \in Cpus \ {Boot}, CallFunction(c) \/ FunctionReturns(c),
           UNCHANGED <<loopVars, initCount, regs, bodyVars>>
    PROVE  /\ StageInv' /\ FunctionTypeInv' /\ BootInv' /\ TransitInv' /\ FrameInv' /\ RunInv'
           /\ WaitInv' /\ CountsAreBalanced'
<1> USE BootAssumption
<1>1. IInv /\ StageInv /\ FunctionTypeInv /\ BootInv /\ TransitInv /\ FrameInv /\ RunInv /\ WaitInv
      /\ CountsAreBalanced
  BY DEF InitInv
<1>2. TypeOK /\ LockInv /\ LoadInv
  BY <1>1 DEF IInv
<1>3. UNCHANGED <<todo, module, stage, left, initCount, regs, body, counting, calibrated>>
      /\ UNCHANGED <<job, func, pending>>
  BY DEF loopVars, bodyVars, CallFunction, HandlerCall, FunctionReturns, Return, boxVars
<1>4. /\ \A d \in Cpus \ {c} : /\ pc'[d] = pc[d] /\ crit'[d] = crit[d] /\ got'[d] = got[d]
                               /\ depth'[d] = depth[d] /\ running'[d] = running[d]
      /\ pc'[c] = "run"
  BY <1>1, <1>2 DEF CallFunction, HandlerCall, FunctionReturns, Return, TypeOK, FunctionTypeInv, Goto
<1>5. /\ \A d \in Cpus, m \in Messages : Sent(m, d)' <=> Sent(m, d)
      /\ \A d \in Cpus, m \in Messages : Fresh(m, d)' <=> Fresh(m, d)
      /\ \A d \in Cpus, m \in Messages : Finished(m, d)' <=> Finished(m, d)
  BY <1>3 DEF Sent, Fresh, Finished
<1>6. \A d \in Cpus \ {Boot} : Posting(d)' <=> Posting(d)
  BY <1>3, <1>4 DEF Posting
<1>7. \A d \in Cpus \ {Boot, c} : (InTransit(d)' <=> InTransit(d)) /\ (Receiving(d)' <=> Receiving(d))
  BY <1>3, <1>4, <1>6 DEF InTransit, Receiving
<1>8. StageInv' /\ WaitInv'
  BY <1>1, <1>3, <1>4 DEF StageInv, WaitInv
<1>9. CountsAreBalanced'
  BY <1>1, <1>3 DEF CountsAreBalanced, Ahead, Uncounted, Initialized
<1>10. BootInv'
  <2>1. stage \in {"wait", "next", "poll"} => module \in Messages
    BY <1>1, FunctionAssumption DEF StageInv
  <2>2. QED
    BY <1>1, <1>3, <1>4, <1>5, <2>1 DEF BootInv
<1>11. \A d \in Cpus \ {Boot, c} : Asleep(d)' <=> Asleep(d)
  BY <1>3, <1>4 DEF Asleep
<1>12. ASSUME running'[c] \in {<<>>, <<SetCpuRegisters>>, <<Calibrate>>},
              depth'[c] = IF running'[c] = <<>> THEN 0 ELSE 1,
              crit'[c] <=> running'[c] # <<>> /\ ~Asleep(c)',
              ~Receiving(c)', func[c] \in Messages <=>
                  (Posting(c) /\ pc[Boot] \in {"arg", "release", "ipi"}) \/ pending[c],
              InTransit(c)' => InTransit(c) /\ running'[c] # <<module>>,
              \A m \in Messages :
                  /\ ~Sent(m, c) => running'[c] # <<m>>
                  /\ Fresh(m, c) \/ Finished(m, c) \/ running'[c] = <<m>>
                  /\ Sent(m, c) /\ Fresh(m, c) /\ running'[c] # <<m>> => InTransit(c)' /\ module = m
       PROVE  FunctionTypeInv' /\ TransitInv' /\ FrameInv' /\ RunInv'
  <2>1. FunctionTypeInv'
    <3>1. running' = [running EXCEPT ![c] = running'[c]]
      <4>1. running' \in [Cpus -> {running'[d] : d \in Cpus}]
        BY <1>1 DEF CallFunction, FunctionReturns, FunctionTypeInv
      <4>2. QED
        BY <1>1, <1>4, <4>1 DEF FunctionTypeInv
    <3>2. QED
      BY <1>1, <1>3, <1>12, <3>1 DEF FunctionTypeInv
  <2>2. FrameInv'
    BY <1>1, <1>4, <1>11, <1>12 DEF FrameInv
  <2>3. RunInv'
    <3>1. ASSUME NEW d \in Cpus, NEW m \in Messages
          PROVE  /\ ~Sent(m, d) => Fresh(m, d) /\ running'[d] # <<m>>
                 /\ Fresh(m, d) \/ Finished(m, d) \/ running'[d] = <<m>>
                 /\ d # Boot /\ Sent(m, d) /\ Fresh(m, d) /\ running'[d] # <<m>> =>
                       InTransit(d)' /\ module = m
      BY <1>1, <1>4, <1>7, <1>12 DEF RunInv
    <3>2. \A d \in Cpus :
             /\ calibrated'[d] <=> body'[d] = "done"
             /\ counting'[d] <=> body'[d] \in {"asleep", "stop"}
      BY <1>1, <1>3 DEF RunInv
    <3>3. QED
      BY <1>3, <1>5, <3>1, <3>2 DEF RunInv
  <2>4. TransitInv'
    <3> SUFFICES ASSUME NEW d \in Cpus \ {Boot}
                 PROVE  Letter(d)'
      BY DEF TransitInv
    <3> USE DEF Letter
    <3>1. Letter(d)
      BY <1>1 DEF TransitInv
    <3>2. InTransit(d)' => stage' # "idle" /\ Sent(module, d)' /\ Fresh(module, d)'
                           /\ running'[d] # <<module'>>
      BY <1>3, <1>4, <1>7, <1>12, <3>1 DEF Sent, Fresh
    <3>3. pc'[Boot] = pc[Boot] /\ pending'[d] = pending[d] /\ func'[d] = func[d] /\ module' = module
      BY <1>3, <1>4
    <3>4. CASE d = c
      <4>1. pc'[d] = "run" /\ ~Receiving(d)'
        BY <1>4, <1>12, <3>4
      <4>2. QED
        BY <1>6, <1>12, <3>1, <3>2, <3>3, <3>4, <4>1 DEF SenderPcs
    <3>5. CASE d # c
      <4>1. pc'[d] = pc[d] /\ got'[d] = got[d] /\ running'[d] = running[d]
            /\ (Receiving(d)' <=> Receiving(d))
        BY <1>4, <1>7, <3>5
      <4>2. QED
        BY <1>6, <3>1, <3>2, <3>3, <4>1
    <3>6. QED
      BY <3>4, <3>5
  <2>5. QED
    BY <2>1, <2>2, <2>3, <2>4
<1>13. CASE CallFunction(c)
  <2>1. /\ pc[c] = "hrelease" /\ Receiving(c)
        /\ Receiving(c)' <=> FALSE
    BY <1>4, <1>13 DEF CallFunction, HandlerCall, Receiving, HandlerPcs
  <2>2. /\ got[c].func = module /\ running[c] = <<>> /\ ~Posting(c) /\ ~pending[c] /\ func[c] \notin Messages
        /\ stage # "idle" /\ Sent(module, c) /\ Fresh(module, c)
    BY <1>1, <2>1 DEF TransitInv, Letter, InTransit
  <2>3. module \in Messages /\ module # NoFunc
    BY <1>1, <2>2, MessageAssumption DEF StageInv
  <2>4. running'[c] = <<module>> /\ depth'[c] = depth[c] + 1 /\ crit' = crit
    <3>1. running' = [running EXCEPT ![c] = <<module>> \o running[c]]
      BY <1>13, <2>2, <2>3 DEF CallFunction
    <3>2. running'[c] = <<module>> \o <<>>
      BY <1>1, <2>2, <3>1 DEF FunctionTypeInv
    <3>3. QED
      BY <1>2, <1>13, <2>2, <2>3, <3>2, Frames DEF CallFunction, HandlerCall, TypeOK
  <2>5. crit[c] /\ depth[c] = 0
    BY <1>1, <1>2, <2>1, <2>2 DEF LockInv, FrameInv
  <2>6. ~Asleep(c)' /\ running'[c] # <<>> /\ running'[c] \in {<<>>, <<SetCpuRegisters>>, <<Calibrate>>}
    <3>1. body'[c] = body[c]
      BY <1>3
    <3>2. Asleep(c)' => module = Calibrate /\ body[c] = "asleep"
      BY <2>4, <3>1, Frames DEF Asleep
    <3>3. QED
      BY <2>2, <2>3, <2>4, <3>2, Frames, FunctionAssumption DEF Fresh
  <2>7. ~InTransit(c)'
    BY <1>3, <1>6, <2>1, <2>2 DEF InTransit
  <2>8. \A m \in Messages : (m = module <=> running'[c] = <<m>>) /\ running[c] # <<m>>
    BY <2>2, <2>4, Frames
  <2>9. \A m \in Messages :
                  /\ ~Sent(m, c) => running'[c] # <<m>>
                  /\ Fresh(m, c) \/ Finished(m, c) \/ running'[c] = <<m>>
                  /\ Sent(m, c) /\ Fresh(m, c) /\ running'[c] # <<m>> => InTransit(c)' /\ module = m
    BY <1>1, <2>2, <2>8 DEF RunInv
  <2>10. FunctionTypeInv' /\ TransitInv' /\ FrameInv' /\ RunInv'
    BY <1>12, <2>1, <2>2, <2>4, <2>5, <2>6, <2>7, <2>9
  <2>11. QED
    BY <1>8, <1>9, <1>10, <2>10
<1>14. CASE FunctionReturns(c)
  <2>1. PICK f \in Messages : Ended(c, f)
    BY <1>14 DEF FunctionReturns
  <2>2. pc[c] = "run" /\ running[c] = <<f>> /\ Finished(f, c) /\ ~Fresh(f, c)
    BY <1>1, <2>1, InFrame DEF Ended, Finished, Fresh
  <2>3. running'[c] = <<>> /\ depth'[c] = depth[c] - 1 /\ ~crit'[c]
    <3>1. running'[c] = Tail(running[c])
      BY <1>1, <1>14 DEF FunctionReturns, FunctionTypeInv
    <3>2. QED
      BY <1>2, <1>14, <2>2, <3>1, Frames DEF FunctionReturns, Return, TypeOK
  <2>4. depth[c] = 1
    BY <1>1, <2>2, Frames DEF FrameInv
  <2>5. ~Receiving(c) /\ ~Receiving(c)' /\ (InTransit(c)' <=> InTransit(c))
    BY <1>3, <1>4, <1>6, <2>2 DEF Receiving, InTransit, HandlerPcs
  <2>6. func[c] \in Messages <=> (Posting(c) /\ pc[Boot] \in {"arg", "release", "ipi"}) \/ pending[c]
    BY <1>1, <2>2 DEF TransitInv, Letter
  <2>7. \A m \in Messages : (running[c] = <<m>> <=> m = f) /\ running'[c] # <<m>>
    BY <2>2, <2>3, Frames
  <2>8. \A m \in Messages :
                  /\ ~Sent(m, c) => running'[c] # <<m>>
                  /\ Fresh(m, c) \/ Finished(m, c) \/ running'[c] = <<m>>
                  /\ Sent(m, c) /\ Fresh(m, c) /\ running'[c] # <<m>> => InTransit(c)' /\ module = m
    BY <1>1, <2>2, <2>5, <2>7 DEF RunInv
  <2>9. running'[c] # <<module>> /\ running'[c] \in {<<>>, <<SetCpuRegisters>>, <<Calibrate>>}
    BY <2>3, Frames
  <2>10. FunctionTypeInv' /\ TransitInv' /\ FrameInv' /\ RunInv'
    BY <1>12, <2>3, <2>4, <2>5, <2>6, <2>8, <2>9
  <2>11. QED
    BY <1>8, <1>9, <1>10, <2>10
<1>15. QED
  BY <1>13, <1>14

-----------------------------------------------------------------------------
(* The functions.                                                          *)

\* What every step of a function f on CPU c has in common.
LEMMA FunctionStep ==
    ASSUME InitInv, NEW c \in Cpus, NEW f \in Messages, In(c, f),
           UNCHANGED <<loopVars, running, pc, depth, job, func, got, pending>>,
           FunctionTypeInv',
           \A d \in Cpus \ {c} : /\ regs'[d] = regs[d] /\ body'[d] = body[d] /\ crit'[d] = crit[d]
                                 /\ counting'[d] = counting[d] /\ calibrated'[d] = calibrated[d],
           IF f = SetCpuRegisters THEN UNCHANGED body ELSE UNCHANGED regs,
           ~Finished(f, c), ~Fresh(f, c)',
           c # Boot => (crit'[c] <=> ~Asleep(c)'),
           calibrated'[c] <=> body'[c] = "done",
           counting'[c] <=> body'[c] \in {"asleep", "stop"}
    PROVE  StageInv' /\ BootInv' /\ TransitInv' /\ FrameInv' /\ RunInv' /\ WaitInv'
<1> USE BootAssumption
<1>1. StageInv /\ FunctionTypeInv /\ BootInv /\ TransitInv /\ FrameInv /\ RunInv /\ WaitInv
  BY DEF InitInv
<1>2. UNCHANGED <<todo, module, stage, left, running, pc, depth, job, func, got, pending>>
  BY DEF loopVars
<1>3. pc[c] = "run" /\ running[c] = <<f>> /\ running[c] # <<>> /\ \A m \in Messages : running[c] = <<m>> <=> m = f
  BY <1>1, InFrame, Frames
<1>4. /\ \A d \in Cpus, m \in Messages : Sent(m, d)' <=> Sent(m, d)
      /\ \A d \in Cpus : Posting(d)' <=> Posting(d)
      /\ \A d \in Cpus : Receiving(d)' <=> Receiving(d)
      /\ \A d \in Cpus : InTransit(d)' <=> InTransit(d)
  BY <1>2 DEF Sent, Posting, Receiving, InTransit
<1>5. /\ \A d \in Cpus, m \in Messages :
            (d # c \/ m # f) => (Fresh(m, d)' <=> Fresh(m, d)) /\ (Finished(m, d)' <=> Finished(m, d))
      /\ \A d \in Cpus \ {c} : Asleep(d)' <=> Asleep(d)
  BY <1>2, FunctionAssumption DEF Fresh, Finished, Asleep
<1>6. Sent(f, c) /\ (c = Boot => f \in todo)
  BY <1>1, <1>3 DEF RunInv, BootInv
<1>7. StageInv'
  BY <1>1, <1>2 DEF StageInv
<1>8. BootInv'
  <2>1. c = Boot => stage = "self" /\ module = f
    BY <1>1, <1>3, Frames DEF BootInv
  <2>2. stage \in {"wait", "next", "poll"} => c # Boot /\ module \in Messages
    BY <1>1, <2>1, FunctionAssumption DEF StageInv
  <2>3. QED
    BY <1>1, <1>2, <1>5, <1>6, <2>1, <2>2 DEF BootInv
<1>9. FrameInv'
  BY <1>1, <1>2, <1>3, <1>5 DEF FrameInv
<1>10. TransitInv'
  <2>1. ASSUME NEW d \in Cpus \ {Boot}, InTransit(d)
        PROVE  stage # "idle" /\ Sent(module, d)' /\ Fresh(module, d)' /\ running[d] # <<module>>
    <3>1. stage # "idle" /\ Sent(module, d) /\ Fresh(module, d) /\ running[d] # <<module>>
      BY <1>1, <2>1 DEF TransitInv, Letter
    <3>2. module \in Messages /\ module' = module
      BY <1>1, <1>2, <3>1 DEF StageInv
    <3>3. module # f \/ d # c
      BY <1>3, <3>1
    <3>4. (Fresh(module, d)' <=> Fresh(module, d)) /\ (Sent(module, d)' <=> Sent(module, d))
      BY <1>2, <1>4, <1>5, <3>2, <3>3 DEF Fresh, Sent
    <3>5. QED
      BY <3>1, <3>4
  <2>2. QED
    BY <1>1, <1>2, <1>4, <2>1 DEF TransitInv, Letter
<1>11. RunInv'
  <2>1. ASSUME NEW d \in Cpus, NEW m \in Messages
        PROVE  /\ ~Sent(m, d) => Fresh(m, d)' /\ running[d] # <<m>>
               /\ Fresh(m, d)' \/ Finished(m, d)' \/ running[d] = <<m>>
               /\ d # Boot /\ Sent(m, d) /\ Fresh(m, d)' /\ running[d] # <<m>> =>
                     InTransit(d) /\ module = m
    <3>1. CASE d = c /\ m = f
      BY <1>3, <1>6, <3>1
    <3>2. CASE d # c \/ m # f
      BY <1>1, <1>5, <3>2 DEF RunInv
    <3>3. QED
      BY <3>1, <3>2
  <2>2. \A d \in Cpus :
          /\ calibrated'[d] <=> body'[d] = "done"
          /\ counting'[d] <=> body'[d] \in {"asleep", "stop"}
    <3>1. \A d \in Cpus \ {c} :
             /\ calibrated'[d] <=> body'[d] = "done"
             /\ counting'[d] <=> body'[d] \in {"asleep", "stop"}
      BY <1>1 DEF RunInv
    <3>2. QED
      BY <3>1
  <2>3. QED
    BY <1>2, <1>4, <2>1, <2>2 DEF RunInv
<1>12. WaitInv'
  <2>1. ASSUME NEW d \in Cpus
        PROVE  (regs[d] # "unset" => regs'[d] # "unset") /\ (body[d] = "done" => body'[d] = "done")
    BY FunctionAssumption DEF Fresh, Finished
  <2>2. QED
    BY <1>1, <1>2, <2>1 DEF WaitInv
<1>13. QED
  BY <1>7, <1>8, <1>9, <1>10, <1>11, <1>12

\* Every step of a function keeps the invariant.
LEMMA FunctionKeeps ==
    ASSUME InitInv, NEW c \in Cpus, Function(c)
    PROVE  /\ StageInv' /\ FunctionTypeInv' /\ BootInv' /\ TransitInv' /\ FrameInv' /\ RunInv'
           /\ WaitInv' /\ CountsAreBalanced'
<1> USE BootAssumption, FunctionAssumption
<1>1. StageInv /\ FunctionTypeInv /\ FrameInv /\ RunInv /\ CountsAreBalanced /\ TypeOK
  BY DEF InitInv, IInv
<1>2. /\ calibrated[c] <=> body[c] = "done"
      /\ counting[c] <=> body[c] \in {"asleep", "stop"}
  BY <1>1 DEF RunInv
<1>3. ASSUME UNCHANGED <<loopVars, initCount, regs>>
      PROVE  CountsAreBalanced'
  BY <1>1, <1>3 DEF CountsAreBalanced, Ahead, Uncounted, Initialized, loopVars
<1>4. ASSUME NEW f \in Messages, In(c, f)
      PROVE  /\ pc[c] = "run" /\ running[c] = <<f>> /\ running[c] # <<>>
             /\ c # Boot => (crit[c] <=> ~Asleep(c))
             /\ running[c] = <<Calibrate>> => f = Calibrate
  BY <1>1, <1>4, InFrame, Frames DEF FrameInv
<1>5. CASE CountDown(c)
  <2> USE <1>5 DEF CountDown
  <2>1. In(c, SetCpuRegisters) /\ regs[c] = "unset" /\ UNCHANGED <<vars, loopVars, running, bodyVars>>
    OBVIOUS
  <2>2. FunctionTypeInv'
    BY <1>1, <2>1 DEF FunctionTypeInv, bodyVars
  <2>3. /\ UNCHANGED <<loopVars, running, pc, depth, job, func, got, pending, body, crit, counting,
                       calibrated>>
        /\ regs'[c] = "counted" /\ \A d \in Cpus \ {c} : regs'[d] = regs[d]
    BY <1>1, <2>1 DEF FunctionTypeInv, vars, bodyVars
  <2>4. ~Finished(SetCpuRegisters, c) /\ ~Fresh(SetCpuRegisters, c)' /\ (Asleep(c)' <=> Asleep(c))
    BY <2>1, <2>3 DEF Finished, Fresh, Asleep
  <2>5. StageInv' /\ BootInv' /\ TransitInv' /\ FrameInv' /\ RunInv' /\ WaitInv'
    <3>1. c # Boot => (crit'[c] <=> ~Asleep(c)')
      BY <1>4, <2>1, <2>3, <2>4
    <3>2. IF SetCpuRegisters = SetCpuRegisters THEN UNCHANGED body ELSE UNCHANGED regs
      BY <2>3
    <3>3. (calibrated'[c] <=> body'[c] = "done") /\ (counting'[c] <=> body'[c] \in {"asleep", "stop"})
      BY <1>2, <2>3
    <3>4. QED
      BY <2>1, <2>2, <2>3, <2>4, <3>1, <3>2, <3>3, FunctionStep
  <2>6. CountsAreBalanced'
    <3>1. Uncounted' = Uncounted \ {c} /\ c \in Uncounted
      BY <2>1, <2>3 DEF Uncounted
    <3>2. Cardinality(Uncounted') = Cardinality(Uncounted) - 1
      BY <1>1, <3>1, Counts, FS_RemoveElement
    <3>3. Ahead' = Ahead
      BY <2>1 DEF Ahead, Initialized, loopVars
    <3>4. Ahead \in Int /\ Cardinality(Uncounted) \in Int
      BY <1>1, Counts
    <3>5. initCount' = initCount - 1 /\ initCount \in Int
      BY <1>1 DEF FunctionTypeInv
    <3>6. QED
      BY <1>1, <3>2, <3>3, <3>4, <3>5 DEF CountsAreBalanced
  <2>7. QED
    BY <2>2, <2>5, <2>6
<1>6. CASE WriteMsrs(c)
  <2>1. /\ In(c, SetCpuRegisters) /\ regs[c] = "counted"
        /\ UNCHANGED <<vars, loopVars, running, initCount, bodyVars>>
        /\ regs' = [regs EXCEPT ![c] = "set"]
    BY <1>6 DEF WriteMsrs
  <2>2. FunctionTypeInv'
    BY <1>1, <2>1 DEF FunctionTypeInv, bodyVars
  <2>3. /\ UNCHANGED <<loopVars, running, pc, depth, job, func, got, pending, body, crit, counting,
                       calibrated>>
        /\ regs'[c] = "set" /\ \A d \in Cpus \ {c} : regs'[d] = regs[d]
    BY <1>1, <2>1 DEF FunctionTypeInv, vars, bodyVars
  <2>4. ~Finished(SetCpuRegisters, c) /\ ~Fresh(SetCpuRegisters, c)' /\ (Asleep(c)' <=> Asleep(c))
    BY <2>1, <2>3 DEF Finished, Fresh, Asleep
  <2>5. StageInv' /\ BootInv' /\ TransitInv' /\ FrameInv' /\ RunInv' /\ WaitInv'
    <3>1. c # Boot => (crit'[c] <=> ~Asleep(c)')
      BY <1>4, <2>1, <2>3, <2>4
    <3>2. IF SetCpuRegisters = SetCpuRegisters THEN UNCHANGED body ELSE UNCHANGED regs
      BY <2>3
    <3>3. (calibrated'[c] <=> body'[c] = "done") /\ (counting'[c] <=> body'[c] \in {"asleep", "stop"})
      BY <1>2, <2>3
    <3>4. QED
      BY <2>1, <2>2, <2>3, <2>4, <3>1, <3>2, <3>3, FunctionStep
  <2>6. CountsAreBalanced'
    <3>1. Uncounted' = Uncounted
      BY <2>1, <2>3 DEF Uncounted
    <3>2. QED
      BY <1>1, <2>1, <3>1 DEF CountsAreBalanced, Ahead, Initialized, loopVars
  <2>7. QED
    BY <2>2, <2>5, <2>6
<1>7. CASE StartCount(c) \/ Awake(c) \/ StopCount(c) \/ Mark(c)
  <2>1. In(c, Calibrate) /\ UNCHANGED <<loopVars, running, initCount, regs>>
        /\ UNCHANGED <<pc, depth, job, func, got, pending>>
    BY <1>7 DEF StartCount, Awake, StopCount, Mark, SetCritical, boxVars, vars
  <2>2. running[c] = <<Calibrate>> /\ running' = running
    BY <1>4, <2>1
  <2>3. FunctionTypeInv'
    BY <1>1, <1>7, <2>1 DEF FunctionTypeInv, StartCount, Awake, StopCount, Mark
  <2>4. \A d \in Cpus \ {c} : /\ body'[d] = body[d] /\ crit'[d] = crit[d]
                              /\ counting'[d] = counting[d] /\ calibrated'[d] = calibrated[d]
    BY <1>1, <1>7 DEF FunctionTypeInv, TypeOK, StartCount, Awake, StopCount, Mark, SetCritical, vars
  <2>5. /\ body[c] # "done" /\ body'[c] # "start"
        /\ calibrated'[c] <=> body'[c] = "done"
        /\ counting'[c] <=> body'[c] \in {"asleep", "stop"}
    BY <1>1, <1>2, <1>7 DEF FunctionTypeInv, StartCount, Awake, StopCount, Mark
  <2>6. c # Boot => (crit'[c] <=> body'[c] # "asleep")
    <3>1. c # Boot => (crit[c] <=> body[c] # "asleep")
      BY <1>4, <2>1, <2>2 DEF Asleep
    <3>2. QED
      BY <1>1, <1>7, <3>1 DEF FunctionTypeInv, TypeOK, StartCount, Awake, StopCount, Mark,
                              SetCritical, vars
  <2>7. StageInv' /\ BootInv' /\ TransitInv' /\ FrameInv' /\ RunInv' /\ WaitInv'
    <3>1. c # Boot => (crit'[c] <=> ~Asleep(c)')
      BY <2>2, <2>6 DEF Asleep
    <3>2. IF Calibrate = SetCpuRegisters THEN UNCHANGED body ELSE UNCHANGED regs
      BY <2>1
    <3>3. ~Finished(Calibrate, c) /\ ~Fresh(Calibrate, c)'
      BY <2>5 DEF Finished, Fresh
    <3>4. \A d \in Cpus \ {c} : /\ regs'[d] = regs[d] /\ body'[d] = body[d] /\ crit'[d] = crit[d]
                                /\ counting'[d] = counting[d] /\ calibrated'[d] = calibrated[d]
      BY <2>1, <2>4
    <3>5. QED
      BY <2>1, <2>3, <2>5, <3>1, <3>2, <3>3, <3>4, FunctionStep
  <2>8. QED
    BY <1>3, <2>1, <2>3, <2>7
<1>8. QED
  BY <1>5, <1>6, <1>7 DEF Function

-----------------------------------------------------------------------------
(* The two Initialize methods.                                             *)

\* What the steps of Initialize that send nothing have in common: the other CPUs do
\* not notice them.
LEMMA QuietStep ==
    ASSUME InitInv, StageInv', FunctionTypeInv',
           UNCHANGED <<pc, job, func, got, pending, depth, regs, bodyVars>>,
           \A c \in Cpus \ {Boot} : crit'[c] = crit[c] /\ running'[c] = running[c],
           \A c \in Cpus \ {Boot}, m \in Messages : Sent(m, c)' <=> Sent(m, c),
           module' = module \/ stage = "idle",
           stage' = "idle" => \A c \in Cpus \ {Boot} : ~InTransit(c),
           \A m \in Messages :
               /\ ~Sent(m, Boot)' => Fresh(m, Boot) /\ running'[Boot] # <<m>>
               /\ Fresh(m, Boot) \/ Finished(m, Boot) \/ running'[Boot] = <<m>>
    PROVE  TransitInv' /\ FrameInv' /\ RunInv'
<1> USE BootAssumption
<1>1. StageInv /\ TransitInv /\ FrameInv /\ RunInv
  BY DEF InitInv
<1>2. UNCHANGED <<pc, job, func, got, pending, depth, regs, body, counting, calibrated>>
  BY DEF bodyVars
<1>3. /\ \A c \in Cpus, m \in Messages : Fresh(m, c)' <=> Fresh(m, c)
      /\ \A c \in Cpus, m \in Messages : Finished(m, c)' <=> Finished(m, c)
      /\ \A c \in Cpus : (Posting(c)' <=> Posting(c)) /\ (Receiving(c)' <=> Receiving(c))
      /\ \A c \in Cpus : InTransit(c)' <=> InTransit(c)
      /\ \A c \in Cpus \ {Boot} : Asleep(c)' <=> Asleep(c)
  BY <1>2 DEF Fresh, Finished, Posting, Receiving, InTransit, Asleep
<1>4. FrameInv'
  BY <1>1, <1>2, <1>3 DEF FrameInv
<1>5. stage = "idle" => \A c \in Cpus \ {Boot} : ~InTransit(c) /\ func[c] \notin Messages
  BY <1>1 DEF TransitInv, Letter, InTransit, Receiving, HandlerPcs
<1>6. TransitInv'
  <2> SUFFICES ASSUME NEW c \in Cpus \ {Boot}
               PROVE  Letter(c)'
    BY DEF TransitInv
  <2> USE DEF Letter
  <2>1. Letter(c)
    BY <1>1 DEF TransitInv
  <2>2. CASE stage = "idle"
    <3>1. ~InTransit(c) /\ func[c] \notin Messages /\ pc[c] # "hrelease"
      BY <1>5, <2>2 DEF InTransit, Receiving, HandlerPcs
    <3>2. QED
      BY <1>2, <1>3, <2>1, <3>1
  <2>3. CASE stage # "idle" /\ module' = module
    <3>1. module \in Messages
      BY <1>1, <2>3 DEF StageInv
    <3>2. (Sent(module, c)' <=> Sent(module, c)) /\ (Fresh(module, c)' <=> Fresh(module, c))
      BY <1>3, <2>3, <3>1 DEF Sent, Fresh
    <3>3. QED
      BY <1>2, <1>3, <2>1, <2>3, <3>2
  <2>4. QED
    BY <2>2, <2>3
<1>7. RunInv'
  <2>1. ASSUME NEW c \in Cpus, NEW m \in Messages
        PROVE  /\ ~Sent(m, c)' => Fresh(m, c) /\ running'[c] # <<m>>
               /\ Fresh(m, c) \/ Finished(m, c) \/ running'[c] = <<m>>
               /\ c # Boot /\ Sent(m, c)' /\ Fresh(m, c) /\ running'[c] # <<m>> =>
                     InTransit(c) /\ module' = m
    <3>1. CASE c = Boot
      BY <3>1
    <3>2. CASE c # Boot
      BY <1>1, <1>5, <3>2 DEF RunInv
    <3>3. QED
      BY <3>1, <3>2
  <2>2. \A c \in Cpus :
          /\ calibrated'[c] <=> body'[c] = "done"
          /\ counting'[c] <=> body'[c] \in {"asleep", "stop"}
    BY <1>1, <1>2 DEF RunInv
  <2>3. QED
    BY <1>3, <2>1, <2>2 DEF RunInv
<1>8. QED
  BY <1>4, <1>6, <1>7

\* Initialize calls RunAsync for the next CPU, whose mailbox is empty.
LEMMA PostKeeps ==
    ASSUME InitInv, NEW d \in left, Post(d)
    PROVE  /\ StageInv' /\ FunctionTypeInv' /\ BootInv' /\ TransitInv' /\ FrameInv' /\ RunInv'
           /\ WaitInv' /\ CountsAreBalanced'
<1> USE BootAssumption
<1>1. StageInv /\ FunctionTypeInv /\ BootInv /\ TransitInv /\ FrameInv /\ RunInv /\ WaitInv
      /\ CountsAreBalanced /\ TypeOK
  BY DEF InitInv, IInv
<1>2. /\ stage = "post" /\ d \in Cpus \ {Boot} /\ module \in Messages /\ module \in todo
      /\ pc[Boot] = "run"
  BY <1>1 DEF Post, RunAsync, StageInv
<1>3. /\ UNCHANGED <<todo, module, running, initCount, regs, body, counting, calibrated>>
      /\ UNCHANGED <<crit, depth, func, got, pending>>
      /\ left' = left \ {d}
      /\ stage' = IF module = SetCpuRegisters THEN "count" ELSE "post"
  BY DEF Post, RunAsync, bodyVars, boxVars
<1>4. /\ pc'[Boot] = "seize" /\ \A c \in Cpus \ {Boot} : pc'[c] = pc[c]
      /\ job'[Boot].to = d /\ job'[Boot].msg = module
  BY <1>1 DEF Post, RunAsync, Goto, TypeOK
<1>5. ~Sent(module, d) /\ Fresh(module, d) /\ running[d] # <<module>>
  <2>1. ~Sent(module, d)
    BY <1>2 DEF Sent
  <2>2. QED
    BY <1>1, <1>2, <2>1 DEF RunInv
<1>6. ~pending[d] /\ ~Receiving(d)
  BY <1>1, <1>2, <1>5 DEF TransitInv, Letter, InTransit
<1>7. /\ \A c \in Cpus, m \in Messages : Fresh(m, c)' <=> Fresh(m, c)
      /\ \A c \in Cpus, m \in Messages : Finished(m, c)' <=> Finished(m, c)
      /\ \A c \in Cpus \ {Boot} : ~Posting(c) /\ (Posting(c)' <=> c = d) /\ (Receiving(c)' <=> Receiving(c))
      /\ \A c \in Cpus : Asleep(c)' <=> Asleep(c)
  BY <1>2, <1>3, <1>4 DEF Fresh, Finished, Posting, Receiving, Asleep, SenderPcs
<1>8. /\ \A c \in Cpus, m \in Messages : Sent(m, c)' <=> Sent(m, c) \/ (m = module /\ c = d)
      /\ \A c \in Cpus \ {Boot} : InTransit(c)' <=> InTransit(c) \/ c = d
  <2>1. \A c \in Cpus, m \in Messages : Sent(m, c)' <=> Sent(m, c) \/ (m = module /\ c = d)
    BY <1>2, <1>3 DEF Sent
  <2>2. \A c \in Cpus \ {Boot} : InTransit(c)' <=> InTransit(c) \/ c = d
    BY <1>3, <1>7 DEF InTransit
  <2>3. QED
    BY <2>1, <2>2
<1>9. StageInv'
  BY <1>1, <1>2, <1>3, <1>4 DEF StageInv
<1>10. FunctionTypeInv' /\ WaitInv'
  BY <1>1, <1>2, <1>3 DEF FunctionTypeInv, WaitInv
<1>11. BootInv'
  <2>1. pc'[Boot] \notin HandlerPcs /\ stage' # "self" /\ stage' \notin {"wait", "next", "poll"}
    BY <1>3, <1>4 DEF HandlerPcs
  <2>2. running[Boot] = <<>>
    BY <1>1, <1>2 DEF BootInv
  <2>3. QED
    BY <1>1, <1>2, <1>3, <1>4, <1>7, <2>1, <2>2 DEF BootInv
<1>12. FrameInv'
  BY <1>1, <1>3, <1>4, <1>7 DEF FrameInv
<1>13. RunInv'
  <2>1. ASSUME NEW c \in Cpus, NEW m \in Messages
        PROVE  /\ ~Sent(m, c)' => Fresh(m, c) /\ running[c] # <<m>>
               /\ Fresh(m, c) \/ Finished(m, c) \/ running[c] = <<m>>
               /\ c # Boot /\ Sent(m, c)' /\ Fresh(m, c) /\ running[c] # <<m>> =>
                     InTransit(c)' /\ module = m
    <3>1. CASE c = d /\ m = module
      BY <1>2, <1>5, <1>8, <3>1
    <3>2. CASE ~(c = d /\ m = module)
      BY <1>1, <1>8, <3>2 DEF RunInv
    <3>3. QED
      BY <3>1, <3>2
  <2>2. \A c \in Cpus :
          /\ calibrated'[c] <=> body'[c] = "done"
          /\ counting'[c] <=> body'[c] \in {"asleep", "stop"}
    BY <1>1, <1>3 DEF RunInv
  <2>3. QED
    BY <1>3, <1>7, <2>1, <2>2 DEF RunInv
<1>14. TransitInv'
  <2> SUFFICES ASSUME NEW c \in Cpus \ {Boot}
               PROVE  Letter(c)'
    BY DEF TransitInv
  <2> USE DEF Letter
  <2>1. Letter(c)
    BY <1>1 DEF TransitInv
  <2>2. InTransit(c)' => stage' # "idle" /\ Sent(module, c)' /\ Fresh(module, c)'
                         /\ running'[c] # <<module'>>
    <3>1. InTransit(c)' => Sent(module, c) \/ c = d
      BY <1>8, <2>1
    <3>2. InTransit(c)' => Fresh(module, c) /\ running[c] # <<module>>
      BY <1>5, <1>8, <2>1
    <3>3. (Sent(module, c)' <=> Sent(module, c) \/ c = d) /\ (Fresh(module, c)' <=> Fresh(module, c))
      BY <1>2, <1>3, <1>7, <1>8 DEF Sent, Fresh
    <3>4. QED
      BY <1>3, <3>1, <3>2, <3>3
  <2>3. pc'[Boot] \notin {"arg", "release", "ipi"} /\ pc[Boot] \notin {"arg", "release", "ipi"}
    BY <1>2, <1>4
  <2>4. QED
    BY <1>3, <1>4, <1>6, <1>7, <2>1, <2>2, <2>3
<1>15. CountsAreBalanced'
  <2>1. Uncounted' = Uncounted
    BY <1>3 DEF Uncounted
  <2>2. Cardinality(left') = Cardinality(left) - 1
    BY <1>1, <1>3, Counts, FS_RemoveElement
  <2>3. Ahead' = Ahead
    BY <1>1, <1>2, <1>3, <2>2, Counts, FunctionAssumption DEF Ahead, Initialized
  <2>4. QED
    BY <1>1, <1>3, <2>1, <2>3 DEF CountsAreBalanced
<1>16. QED
  BY <1>9, <1>10, <1>11, <1>12, <1>13, <1>14, <1>15

\* Initialize enters its critical section.
LEMMA EnterKeeps ==
    ASSUME InitInv, NEW m \in todo, Enter(m)
    PROVE  /\ StageInv' /\ FunctionTypeInv' /\ BootInv' /\ TransitInv' /\ FrameInv' /\ RunInv'
           /\ WaitInv' /\ CountsAreBalanced'
<1> USE BootAssumption, FunctionAssumption
<1>1. StageInv /\ FunctionTypeInv /\ BootInv /\ RunInv /\ WaitInv /\ CountsAreBalanced /\ TypeOK
  BY DEF InitInv, IInv
<1>2. /\ stage = "idle" /\ stage' = "post" /\ module' = m /\ m \in Messages /\ left' = Cpus \ {Boot}
      /\ module \notin todo /\ pc[Boot] = "run"
  BY <1>1 DEF Enter, StageInv
<1>3. UNCHANGED <<pc, job, func, got, pending, depth, todo, running, initCount, regs, bodyVars>>
  BY DEF Enter, SetCritical, boxVars
<1>4. StageInv' /\ FunctionTypeInv' /\ WaitInv'
  BY <1>1, <1>2, <1>3 DEF StageInv, FunctionTypeInv, WaitInv, bodyVars
<1>5. \A c \in Cpus, n \in Messages : (Sent(n, c)' <=> Sent(n, c)) /\ (Sent(n, c) <=> n \notin todo)
  BY <1>2, <1>3 DEF Sent
<1>6. BootInv'
  <2>1. \A n \in Messages : Finished(n, Boot)' <=> Finished(n, Boot)
    BY <1>3 DEF Finished, bodyVars
  <2>2. pc[Boot] \notin SenderPcs /\ pc[Boot] \notin HandlerPcs
    BY <1>2 DEF SenderPcs, HandlerPcs
  <2>3. QED
    BY <1>1, <1>2, <1>3, <2>1, <2>2 DEF BootInv
<1>7. TransitInv' /\ FrameInv' /\ RunInv'
  <2>1. \A c \in Cpus \ {Boot} : crit'[c] = crit[c] /\ running'[c] = running[c]
    BY <1>1, <1>3 DEF Enter, SetCritical, TypeOK
  <2>2. \A n \in Messages :
            /\ ~Sent(n, Boot)' => Fresh(n, Boot) /\ running'[Boot] # <<n>>
            /\ Fresh(n, Boot) \/ Finished(n, Boot) \/ running'[Boot] = <<n>>
    BY <1>1, <1>3, <1>5 DEF RunInv
  <2>3. \A c \in Cpus \ {Boot}, n \in Messages : Sent(n, c)' <=> Sent(n, c)
    BY <1>5
  <2>4. UNCHANGED <<pc, job, func, got, pending, depth, regs, bodyVars>> /\ stage' # "idle"
    BY <1>2, <1>3
  <2>5. QED
    BY <1>2, <1>4, <2>1, <2>2, <2>3, <2>4, QuietStep
<1>8. CountsAreBalanced'
  <2>1. Uncounted' = Uncounted
    BY <1>3 DEF Uncounted
  <2>2. Cardinality(Cpus \ {Boot}) = Cardinality(Cpus) - 1
    BY FiniteAssumption, FS_RemoveElement
  <2>3. Ahead' = Ahead
    BY <1>1, <1>2, <1>3, <2>2, Counts DEF Ahead, Initialized
  <2>4. QED
    BY <1>1, <1>3, <2>1, <2>3 DEF CountsAreBalanced
<1>9. QED
  BY <1>4, <1>6, <1>7, <1>8

\* ++initCount, and the call of the function on the boot CPU itself.
LEMMA CallSelfKeeps ==
    ASSUME InitInv, CountPost \/ CallSelf
    PROVE  /\ StageInv' /\ FunctionTypeInv' /\ BootInv' /\ TransitInv' /\ FrameInv' /\ RunInv'
           /\ WaitInv' /\ CountsAreBalanced'
<1> USE BootAssumption, FunctionAssumption
<1>1. StageInv /\ FunctionTypeInv /\ BootInv /\ RunInv /\ WaitInv /\ CountsAreBalanced /\ TypeOK
  BY DEF InitInv, IInv
<1>2. /\ stage \in {"post", "count"} /\ pc[Boot] = "run" /\ module \in Messages /\ module \in todo
      /\ stage' = IF stage = "count" THEN "post" ELSE "self"
      /\ stage = "post" => left = {}
      /\ stage = "count" => module = SetCpuRegisters
  BY <1>1 DEF CountPost, CallSelf, StageInv
<1>3. UNCHANGED <<vars, todo, module, left, regs, bodyVars>>
  BY DEF CountPost, CallSelf
<1>4. /\ running[Boot] = <<>>
      /\ running' = IF stage = "count" THEN running ELSE [running EXCEPT ![Boot] = <<module>>]
      /\ initCount' = IF module = SetCpuRegisters THEN initCount + 1 ELSE initCount
  BY <1>1, <1>2 DEF CountPost, CallSelf, BootInv
<1>5. StageInv' /\ FunctionTypeInv' /\ WaitInv'
  <2>1. StageInv' /\ WaitInv'
    BY <1>1, <1>2, <1>3 DEF StageInv, WaitInv, vars, bodyVars
  <2>2. initCount' \in Int
    BY <1>1, <1>4 DEF FunctionTypeInv
  <2>3. running' \in [Cpus -> {<<>>, <<SetCpuRegisters>>, <<Calibrate>>}]
    BY <1>1, <1>2, <1>4 DEF FunctionTypeInv
  <2>4. QED
    BY <1>1, <1>3, <2>1, <2>2, <2>3 DEF FunctionTypeInv, bodyVars
<1>6. /\ \A c \in Cpus \ {Boot}, n \in Messages : Sent(n, c)' <=> Sent(n, c)
      /\ \A n \in Messages : Sent(n, Boot)' <=> Sent(n, Boot) \/ (n = module /\ stage = "post")
  BY <1>2, <1>3 DEF Sent
<1>7. BootInv'
  <2>1. \A n \in Messages : Finished(n, Boot)' <=> Finished(n, Boot)
    BY <1>3 DEF Finished, bodyVars
  <2>2. pc[Boot] \notin SenderPcs /\ pc[Boot] \notin HandlerPcs
    BY <1>2 DEF SenderPcs, HandlerPcs
  <2>3. running'[Boot] = IF stage' = "self" THEN <<module>> ELSE <<>>
    BY <1>1, <1>2, <1>4 DEF FunctionTypeInv
  <2>4. QED
    BY <1>1, <1>2, <1>3, <2>1, <2>2, <2>3 DEF BootInv, vars
<1>8. TransitInv' /\ FrameInv' /\ RunInv'
  <2>1. \A c \in Cpus \ {Boot} : crit'[c] = crit[c] /\ running'[c] = running[c]
    BY <1>1, <1>3, <1>4 DEF FunctionTypeInv, vars
  <2>2. \A n \in Messages :
            /\ ~Sent(n, Boot)' => Fresh(n, Boot) /\ running'[Boot] # <<n>>
            /\ Fresh(n, Boot) \/ Finished(n, Boot) \/ running'[Boot] = <<n>>
    <3>1. running'[Boot] = IF stage = "post" THEN <<module>> ELSE <<>>
      BY <1>1, <1>2, <1>4 DEF FunctionTypeInv
    <3>2. \A n \in Messages : ~Sent(n, Boot) => Fresh(n, Boot)
      BY <1>1 DEF RunInv
    <3>3. \A n \in Messages : Fresh(n, Boot) \/ Finished(n, Boot)
      BY <1>1, <1>4, Frames DEF RunInv
    <3>4. \A n \in Messages : ~Sent(n, Boot)' => running'[Boot] # <<n>>
      BY <1>2, <1>6, <3>1, Frames
    <3>5. QED
      BY <1>6, <3>2, <3>3, <3>4
  <2>3. UNCHANGED <<pc, job, func, got, pending, depth, regs, bodyVars>> /\ stage' # "idle"
        /\ module' = module
    BY <1>2, <1>3 DEF vars
  <2>4. \A c \in Cpus \ {Boot}, n \in Messages : Sent(n, c)' <=> Sent(n, c)
    BY <1>6
  <2>5. QED
    BY <1>5, <2>1, <2>2, <2>3, <2>4, QuietStep
<1>9. CountsAreBalanced'
  <2>1. Uncounted' = Uncounted
    BY <1>3 DEF Uncounted
  <2>2. Cardinality({}) = 0
    BY FS_EmptySet
  <2>3. Ahead' = IF module = SetCpuRegisters THEN Ahead - 1 ELSE Ahead
    <3>1. CASE module # SetCpuRegisters
      BY <1>3, <3>1 DEF Ahead, Initialized
    <3>2. CASE module = SetCpuRegisters /\ stage = "post"
      <4>1. Ahead = 0 + 1 /\ Ahead' = 0
        BY <1>2, <1>3, <2>2, <3>2 DEF Ahead, Initialized
      <4>2. QED
        BY <3>2, <4>1
    <3>3. CASE module = SetCpuRegisters /\ stage = "count"
      <4>1. Ahead = Cardinality(left) + 2 /\ Ahead' = Cardinality(left) + 1
        BY <1>2, <1>3, <3>3 DEF Ahead, Initialized
      <4>2. QED
        BY <1>1, <3>3, <4>1, Counts
    <3>4. QED
      BY <1>2, <3>1, <3>2, <3>3
  <2>4. initCount \in Int /\ Ahead \in Int
    BY <1>1, Counts DEF FunctionTypeInv
  <2>5. QED
    BY <1>1, <1>4, <2>1, <2>3, <2>4 DEF CountsAreBalanced
<1>10. QED
  BY <1>5, <1>7, <1>8, <1>9

\* The function returns on the boot CPU, and the loops of TimerModule go on.
LEMMA LoopKeeps ==
    ASSUME InitInv, SelfReturns \/ Poll \/ \E d \in left : Polled(d)
    PROVE  /\ StageInv' /\ FunctionTypeInv' /\ BootInv' /\ TransitInv' /\ FrameInv' /\ RunInv'
           /\ WaitInv' /\ CountsAreBalanced'
<1> USE BootAssumption, FunctionAssumption
<1>1. StageInv /\ FunctionTypeInv /\ BootInv /\ RunInv /\ WaitInv /\ CountsAreBalanced /\ TypeOK
  BY DEF InitInv, IInv
<1>2. /\ stage \in {"self", "next", "poll"} /\ stage' \in {"wait", "next", "poll"}
      /\ pc[Boot] = "run" /\ module \in Messages /\ module \in todo
      /\ stage' = "wait" => module = SetCpuRegisters
      /\ stage' \in {"next", "poll"} => module = Calibrate
      /\ left' \subseteq Cpus
  BY <1>1 DEF SelfReturns, Poll, Polled, StageInv
<1>3. UNCHANGED <<pc, job, func, got, pending, depth, todo, module, initCount, regs, bodyVars>>
  BY DEF SelfReturns, Poll, Polled, SetCritical, boxVars, vars
<1>4. /\ \A c \in Cpus \ {Boot} : crit'[c] = crit[c] /\ running'[c] = running[c]
      /\ running'[Boot] = <<>>
      /\ running' \in [Cpus -> {<<>>, <<SetCpuRegisters>>, <<Calibrate>>}]
  <2>1. CASE SelfReturns
    <3>1. running' = [running EXCEPT ![Boot] = Tail(running[Boot])] /\ crit' = crit
      BY <2>1 DEF SelfReturns, vars
    <3>2. running[Boot] = <<module>>
      BY <1>1, <2>1 DEF SelfReturns, BootInv
    <3>3. running' = [running EXCEPT ![Boot] = <<>>]
      BY <3>1, <3>2, Frames
    <3>4. QED
      BY <1>1, <3>1, <3>3 DEF FunctionTypeInv
  <2>2. CASE Poll \/ \E d \in left : Polled(d)
    <3>1. running' = running /\ \A c \in Cpus \ {Boot} : crit'[c] = crit[c]
      BY <1>1, <2>2 DEF Poll, Polled, SetCritical, TypeOK
    <3>2. stage # "self"
      BY <2>2 DEF Poll, Polled
    <3>3. QED
      BY <1>1, <3>1, <3>2 DEF FunctionTypeInv, BootInv
  <2>3. QED
    BY <2>1, <2>2
<1>5. StageInv' /\ FunctionTypeInv'
  <2>1. StageInv'
    BY <1>1, <1>2, <1>3 DEF StageInv
  <2>2. QED
    BY <1>1, <1>3, <1>4, <2>1 DEF FunctionTypeInv, bodyVars
<1>6. WaitInv'
  <2>1. UNCHANGED <<todo, regs, body>>
    BY <1>3 DEF bodyVars
  <2>2. ASSUME stage' \in {"next", "poll"}, NEW c \in Cpus \ left'
        PROVE  body[c] = "done"
    <3>1. CASE SelfReturns
      BY <2>2, <3>1 DEF SelfReturns
    <3>2. CASE Poll
      BY <1>1, <2>2, <3>2 DEF Poll, WaitInv
    <3>3. ASSUME NEW d \in left, Polled(d)
          PROVE  body[c] = "done"
      <4>1. CASE c = d
        BY <1>1, <3>3, <4>1 DEF Polled, RunInv
      <4>2. CASE c # d
        BY <1>1, <2>2, <3>3, <4>2 DEF Polled, WaitInv
      <4>3. QED
        BY <4>1, <4>2
    <3>4. QED
      BY <3>1, <3>2, <3>3
  <2>3. QED
    BY <1>1, <2>1, <2>2 DEF WaitInv
<1>7. Finished(module, Boot)
  <2>1. CASE SelfReturns
    BY <2>1 DEF SelfReturns, Ended, Finished
  <2>2. CASE Poll \/ \E d \in left : Polled(d)
    BY <1>1, <2>2 DEF Poll, Polled, BootInv
  <2>3. QED
    BY <2>1, <2>2
<1>8. BootInv'
  <2>1. (\A n \in Messages : Finished(n, Boot)' <=> Finished(n, Boot)) /\ Finished(module, Boot)'
    BY <1>3, <1>7 DEF Finished, bodyVars
  <2>2. pc[Boot] \notin SenderPcs /\ pc[Boot] \notin HandlerPcs
    BY <1>2 DEF SenderPcs, HandlerPcs
  <2>3. QED
    BY <1>1, <1>2, <1>3, <1>4, <2>1, <2>2 DEF BootInv
<1>9. TransitInv' /\ FrameInv' /\ RunInv'
  <2>1. \A c \in Cpus, n \in Messages : Sent(n, c)' <=> Sent(n, c)
    BY <1>2, <1>3 DEF Sent
  <2>2. ASSUME NEW n \in Messages
        PROVE  /\ ~Sent(n, Boot)' => Fresh(n, Boot) /\ running'[Boot] # <<n>>
               /\ Fresh(n, Boot) \/ Finished(n, Boot) \/ running'[Boot] = <<n>>
    <3>1. running'[Boot] # <<n>> /\ (running[Boot] = <<n>> => n = module)
      BY <1>1, <1>4, Frames DEF BootInv
    <3>2. QED
      BY <1>1, <1>7, <2>1, <3>1 DEF RunInv
  <2>3. UNCHANGED <<pc, job, func, got, pending, depth, regs, bodyVars>> /\ stage' # "idle"
        /\ module' = module
    BY <1>2, <1>3
  <2>4. QED
    BY <1>4, <1>5, <2>1, <2>2, <2>3, QuietStep
<1>10. CountsAreBalanced'
  <2>1. Uncounted' = Uncounted
    BY <1>3 DEF Uncounted
  <2>2. Ahead' = Ahead
    BY <1>1, <1>2, <1>3 DEF Ahead, Initialized
  <2>3. QED
    BY <1>1, <1>3, <2>1, <2>2 DEF CountsAreBalanced
<1>11. QED
  BY <1>5, <1>6, <1>8, <1>9, <1>10

\* Initialize returns: no message of its module is on its way any more.
LEMMA DoneKeeps ==
    ASSUME InitInv, WaitOver \/ TimersDone
    PROVE  /\ StageInv' /\ FunctionTypeInv' /\ BootInv' /\ TransitInv' /\ FrameInv' /\ RunInv'
           /\ WaitInv' /\ CountsAreBalanced'
<1> USE BootAssumption, FunctionAssumption
<1>1. StageInv /\ FunctionTypeInv /\ BootInv /\ TransitInv /\ RunInv /\ WaitInv /\ CountsAreBalanced
      /\ TypeOK
  BY DEF InitInv, IInv
<1>2. /\ stage \in {"wait", "next"} /\ stage' = "idle" /\ pc[Boot] = "run" /\ module \in Messages
      /\ module \in todo /\ todo' = todo \ {module} /\ UNCHANGED <<module, left>>
      /\ running[Boot] = <<>>
  BY <1>1 DEF WaitOver, TimersDone, ModuleDone, StageInv, BootInv
<1>3. UNCHANGED <<pc, job, func, got, pending, depth, running, initCount, regs, bodyVars>>
  BY DEF WaitOver, TimersDone, ModuleDone, SetCritical, boxVars
<1>4. \A c \in Cpus : ~Fresh(module, c) /\ (module = Calibrate => body[c] = "done")
  <2>1. CASE WaitOver
    <3>1. stage = "wait" /\ module = SetCpuRegisters /\ initCount = 0
      BY <1>1, <2>1 DEF WaitOver, StageInv
    <3>2. Ahead = 0
      BY <1>2, <3>1 DEF Ahead, Initialized
    <3>3. Cardinality(Uncounted) = 0 /\ IsFiniteSet(Uncounted)
      BY <1>1, <3>1, <3>2, Counts DEF CountsAreBalanced
    <3>4. Uncounted = {}
      BY <3>3, FS_EmptySet
    <3>5. QED
      BY <3>1, <3>4 DEF Uncounted, Fresh
  <2>2. CASE TimersDone
    <3>1. stage = "next" /\ module = Calibrate /\ left = {}
      BY <1>1, <2>2 DEF TimersDone, StageInv
    <3>2. QED
      BY <1>1, <3>1 DEF WaitInv, Fresh
  <2>3. QED
    BY <2>1, <2>2
<1>5. \A c \in Cpus \ {Boot} : ~InTransit(c)
  BY <1>1, <1>4 DEF TransitInv, Letter
<1>6. StageInv' /\ FunctionTypeInv'
  BY <1>1, <1>2, <1>3 DEF StageInv, FunctionTypeInv, bodyVars
<1>7. WaitInv'
  <2>1. module = SetCpuRegisters => \A c \in Cpus : regs[c] # "unset"
    BY <1>4 DEF Fresh
  <2>2. QED
    BY <1>1, <1>2, <1>3, <1>4, <2>1 DEF WaitInv, bodyVars
<1>8. BootInv'
  <2>1. (\A n \in Messages : Finished(n, Boot)' <=> Finished(n, Boot)) /\ Finished(module, Boot)
    BY <1>1, <1>2, <1>3 DEF Finished, bodyVars, BootInv
  <2>2. pc[Boot] \notin SenderPcs /\ pc[Boot] \notin HandlerPcs
    BY <1>2 DEF SenderPcs, HandlerPcs
  <2>3. QED
    BY <1>1, <1>2, <1>3, <2>1, <2>2 DEF BootInv
<1>9. TransitInv' /\ FrameInv' /\ RunInv'
  <2>1. \A c \in Cpus, n \in Messages : Sent(n, c)' <=> Sent(n, c)
    BY <1>2, <1>3 DEF Sent
  <2>2. \A n \in Messages :
               /\ ~Sent(n, Boot)' => Fresh(n, Boot) /\ running'[Boot] # <<n>>
               /\ Fresh(n, Boot) \/ Finished(n, Boot) \/ running'[Boot] = <<n>>
    BY <1>1, <1>3, <2>1 DEF RunInv
  <2>3. \A c \in Cpus \ {Boot} : crit'[c] = crit[c] /\ running'[c] = running[c]
    BY <1>1, <1>3 DEF WaitOver, TimersDone, ModuleDone, SetCritical, TypeOK
  <2>4. UNCHANGED <<pc, job, func, got, pending, depth, regs, bodyVars>> /\ module' = module
    BY <1>2, <1>3
  <2>5. QED
    BY <1>5, <1>6, <2>1, <2>2, <2>3, <2>4, QuietStep
<1>10. CountsAreBalanced'
  <2>1. Uncounted' = Uncounted
    BY <1>3 DEF Uncounted
  <2>2. Ahead' = Ahead
    BY <1>1, <1>2 DEF Ahead, Initialized, StageInv
  <2>3. QED
    BY <1>1, <1>3, <2>1, <2>2 DEF CountsAreBalanced
<1>11. QED
  BY <1>6, <1>7, <1>8, <1>9, <1>10

-----------------------------------------------------------------------------
(* The theorems.                                                           *)

\* Every CPU is idle and no message is on its way when the modules are initialized.
LEMMA InitHolds ==
    ASSUME InitState
    PROVE  InitInv
<1> USE BootAssumption, FunctionAssumption
<1>1. IInv
  BY InitIInv DEF InitState
<1>2. StageInv /\ FunctionTypeInv /\ WaitInv
  BY MessageAssumption DEF InitState, Init, StageInv, FunctionTypeInv, WaitInv
<1>3. BootInv
  BY DEF InitState, Init, BootInv, SenderPcs, HandlerPcs
<1>4. TransitInv /\ FrameInv
  BY MessageAssumption DEF InitState, Init, TransitInv, Letter, FrameInv, InTransit, Posting, Receiving,
                           SenderPcs, HandlerPcs
<1>5. RunInv
  <2>1. \A c \in Cpus, m \in Messages : ~Sent(m, c) /\ Fresh(m, c) /\ running[c] # <<m>>
    BY MessageAssumption, Frames DEF InitState, Sent, Fresh
  <2>2. QED
    BY <2>1 DEF RunInv, InitState
<1>6. CountsAreBalanced
  <2>1. Uncounted = Cpus /\ initCount = 0
    BY DEF InitState, Uncounted
  <2>2. Ahead = Cardinality(Cpus)
    BY MessageAssumption DEF InitState, Ahead, Initialized
  <2>3. Cardinality(Cpus) \in Nat
    BY FiniteAssumption, FS_CardinalityType
  <2>4. QED
    BY <2>1, <2>2, <2>3 DEF CountsAreBalanced
<1>7. QED
  BY <1>1, <1>2, <1>3, <1>4, <1>5, <1>6 DEF InitInv

\* Every step keeps the invariant.
LEMMA NextHolds ==
    ASSUME InitInv, [InitNext]_allVars
    PROVE  InitInv'
<1>1. IInv'
  <2>1. [Next]_vars /\ IInv
    BY WakeupStep DEF InitInv
  <2>2. QED
    BY <2>1, NextType, NextLock, NextBox, NextLoad, NextForgotten DEF IInv
<1>2. /\ StageInv' /\ FunctionTypeInv' /\ BootInv' /\ TransitInv' /\ FrameInv' /\ RunInv'
      /\ WaitInv' /\ CountsAreBalanced'
  <2>1. CASE UNCHANGED allVars \/ PitPulse \/ PitInterrupt
    <3>1. UNCHANGED <<pc, crit, depth, job, func, got, pending, todo, module, stage, left, running,
                      initCount, regs, body, counting, calibrated>>
      BY <2>1 DEF allVars, initVars, vars, PitPulse, PitInterrupt, loopVars, bodyVars
    <3>2. StageInv' /\ FunctionTypeInv' /\ BootInv' /\ FrameInv' /\ WaitInv' /\ CountsAreBalanced'
      BY <3>1 DEF InitInv, StageInv, FunctionTypeInv, BootInv, FrameInv, WaitInv, CountsAreBalanced,
                  Ahead, Uncounted, Initialized, Finished, Asleep
    <3>3. TransitInv'
      BY <3>1 DEF InitInv, TransitInv, Letter, Posting, Receiving, InTransit, Sent, Fresh
    <3>4. RunInv'
      BY <3>1 DEF InitInv, RunInv, Posting, Receiving, InTransit, Sent, Fresh, Finished
    <3>5. QED
      BY <3>2, <3>3, <3>4
  <2>2. CASE Initialize
    BY <2>2, EnterKeeps, PostKeeps, CallSelfKeeps, LoopKeeps, DoneKeeps DEF Initialize
  <2>3. ASSUME NEW c \in Cpus, Function(c)
        PROVE  /\ StageInv' /\ FunctionTypeInv' /\ BootInv' /\ TransitInv' /\ FrameInv' /\ RunInv'
               /\ WaitInv' /\ CountsAreBalanced'
    BY <2>3, FunctionKeeps
  <2>4. ASSUME NEW c \in Cpus, Deliver(c)
        PROVE  /\ StageInv' /\ FunctionTypeInv' /\ BootInv' /\ TransitInv' /\ FrameInv' /\ RunInv'
               /\ WaitInv' /\ CountsAreBalanced'
    <3>1. UNCHANGED <<loopVars, initCount, regs, bodyVars>>
      BY <2>4 DEF Deliver
    <3>2. QED
      BY <2>4, <3>1, Roles, SendKeeps, HandlerKeeps, CallKeeps
  <2>5. QED
    BY <2>1, <2>2, <2>3, <2>4 DEF InitNext
<1>3. QED
  BY <1>1, <1>2 DEF InitInv

\* The invariant of the two modules and their mailboxes.
LEMMA Initialization == InitSpec => []InitInv
  BY InitHolds, NextHolds, PTL DEF InitSpec

\* initCount is what SyscallModule::Initialize takes it for, however the CPUs' counting
\* down interleaves with its counting up: the loop ends when every CPU has counted
\* down, and not before.
THEOREM CountIsBalanced == InitSpec => []CountsAreBalanced
<1>1. InitInv => CountsAreBalanced
  BY DEF InitInv
<1>2. QED
  BY <1>1, Initialization, PTL

\* RunAsync never finds a message in a mailbox, whichever module comes first.
THEOREM NoMessageIsOverwritten == InitSpec => []NoMessageOverwritten
<1>1. InitInv => NoMessageOverwritten
  <2> SUFFICES ASSUME InitInv, pc[Boot] = "func"
               PROVE  func[job[Boot].to] \notin Messages
    BY DEF NoMessageOverwritten
  <2>1. Posting(job[Boot].to) /\ pc[Boot] \in SenderPcs
    BY DEF Posting, SenderPcs
  <2>2. job[Boot].to \in Cpus \ {Boot}
    BY <2>1, BootAssumption DEF InitInv, IInv, LockInv, BootInv
  <2>3. QED
    BY <2>1, <2>2 DEF InitInv, TransitInv, Letter, Receiving, HandlerPcs
<1>2. QED
  BY <1>1, Initialization, PTL

\* No CPU runs two functions at a time, though CalibrateMethod sleeps with interrupts on
\* after its EOI.
THEOREM NeverNested == InitSpec => []NotNested
<1>1. InitInv => NotNested
  <2> SUFFICES ASSUME InitInv, NEW c \in Cpus
               PROVE  Len(running[c]) <= 1
    BY DEF NotNested
  <2>1. running[c] \in {<<>>, <<SetCpuRegisters>>, <<Calibrate>>}
    BY DEF InitInv, FunctionTypeInv
  <2>2. Len(<<>>) = 0 /\ Len(<<SetCpuRegisters>>) = 1 /\ Len(<<Calibrate>>) = 1
    OBVIOUS
  <2>3. 0 <= 1 /\ 1 <= 1
    OBVIOUS
  <2>4. QED
    BY <2>1, <2>2, <2>3, Zenon
<1>2. QED
  BY <1>1, Initialization, PTL

\* Whatever the two modules send is received, as it was sent.
THEOREM InitMessagesArrive == InitSpec => [](CallsWhatWasSent /\ NoMessageForgotten)
<1>1. InitInv => CallsWhatWasSent /\ NoMessageForgotten
  BY DEF InitInv, IInv, LoadInv, CallsWhatWasSent
<1>2. QED
  BY <1>1, Initialization, PTL

\* No CPU is still calibrating when the LapicTimer vector gets its handler.
THEOREM NoCalibrationIsLeft == InitSpec => []NoCalibrationLeft
<1>1. InitInv => NoCalibrationLeft
  BY DEF InitInv, WaitInv, RunInv, NoCalibrationLeft, Initialized
<1>2. QED
  BY <1>1, Initialization, PTL

=============================================================================
