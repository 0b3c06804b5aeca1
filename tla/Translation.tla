----------------------------- MODULE Translation -----------------------------
(***************************************************************************)
(* What the memory maps promise their callers about cached translations,   *)
(* with no IPIs, locks or counters in it.                                  *)
(*                                                                         *)
(* A CPU runs in one address space at a time and keeps a cache of the      *)
(* translations it has used.  Changing a page table entry that a CPU may   *)
(* have cached is an operation with a beginning and an end: between the    *)
(* two a CPU may still use the old translation, after the end none may.    *)
(* Entering an address space is atomic.                                    *)
(***************************************************************************)
EXTENDS AddressSpace

CONSTANT Idle   \* the CPU has no page table operation under way

VARIABLES
    pt,      \* pt[m][a]: the frame m's own table maps page a to
    space,   \* space[c]: the address space CPU c is in
    view,    \* view[c][a]: the translation CPU c has cached for a
    busy     \* busy[c]: the range CPU c is changing, or Idle

absVars == <<pt, space, view, busy>>

Stale(c, a) ==
    view[c][a] # NoFrame /\ view[c][a] # pt[Owner(space[c], a)][a]

\* CPU d is changing some page of map m.
ChangesMap(d, m) == busy[d] # Idle /\ Owner(space[d], busy[d].start) = m

Init ==
    /\ pt = [m \in Maps |-> [a \in Addrs |-> NoFrame]]
    /\ space = [c \in Cpus |-> Global]
    /\ view = [c \in Cpus |-> [a \in Addrs |-> NoFrame]]
    /\ busy = [c \in Cpus |-> Idle]

\* Pages that were not mapped are mapped: nobody has to be told.
MapFresh(c, r, f) ==
    LET m == Owner(space[c], r.start) IN
    /\ busy[c] = Idle
    /\ \A d \in Cpus : ~ChangesMap(d, m)
    /\ \A a \in Pages(r) : pt[m][a] = NoFrame
    /\ pt' = [pt EXCEPT ![m] = SetPages(@, r, f)]
    /\ UNCHANGED <<space, view, busy>>

\* Pages are unmapped or pointed elsewhere.
Begin(c, r, f) ==
    LET m == Owner(space[c], r.start) IN
    /\ busy[c] = Idle
    /\ \A d \in Cpus : ~ChangesMap(d, m)
    /\ pt' = [pt EXCEPT ![m] = SetPages(@, r, f)]
    /\ busy' = [busy EXCEPT ![c] = r]
    /\ UNCHANGED <<space, view>>

\* The operation may return only when no CPU in the map can use an old
\* translation.
Finish(c) ==
    /\ busy[c] # Idle
    /\ \A d \in Cpus, a \in Pages(busy[c]) :
          ChangesMap(c, Owner(space[d], a)) => ~Stale(d, a)
    /\ busy' = [busy EXCEPT ![c] = Idle]
    /\ UNCHANGED <<pt, space, view>>

Fill(c, a) ==
    /\ view' = [view EXCEPT ![c] = [@ EXCEPT ![a] = pt[Owner(space[c], a)][a]]]
    /\ UNCHANGED <<pt, space, busy>>

\* A CPU forgets some of its translations.
Drop(c) ==
    /\ \E S \in SUBSET Addrs :
          view' = [view EXCEPT ![c] = [a \in Addrs |->
                                         IF a \in S THEN NoFrame ELSE @[a]]]
    /\ UNCHANGED <<pt, space, busy>>

\* Entering a map drops the translations of the user half.
Switch(c, m) ==
    /\ busy[c] = Idle
    /\ space' = [space EXCEPT ![c] = m]
    /\ view' = [view EXCEPT ![c] = KernelPart(@)]
    /\ UNCHANGED <<pt, busy>>

Next ==
    \E c \in Cpus :
        \/ \E r \in Requests, f \in Frames : MapFresh(c, r, f)
        \/ \E r \in Requests, f \in Frames \union {NoFrame} : Begin(c, r, f)
        \/ Finish(c)
        \/ \E a \in Addrs : Fill(c, a)
        \/ Drop(c)
        \/ \E m \in Maps : Switch(c, m)

Spec == Init /\ [][Next]_absVars
=============================================================================
