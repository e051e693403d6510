------------------------------- MODULE HwPool -------------------------------
(***************************************************************************)
(* The pool of hardware units (mem_alloc.c): one array of flags behind     *)
(* alloc_/free_ of OHCI EDs and TDs, which search from unit 0, and of EHCI *)
(* QHs, qTDs, iTDs and siTDs, which search from the unit after _sidx.      *)
(*                                                                         *)
(* The main loop tests a flag and sets it in two accesses.  A handler may  *)
(* preempt it between any two, and frees units (of transfers that are      *)
(* done) and allocates units (for a callback that submits again) itself.   *)
(* Handlers do not preempt each other, so what a handler does is one step. *)
(* The usage counters are only printed and are left out.                   *)
(***************************************************************************)
EXTENDS Integers, FiniteSets

CONSTANTS
    N,         \* HW_MEM_UNIT_NUM
    MaxHeld    \* bound: clients of a unit that a handler takes

ASSUME HwPoolAssumption == N \in Nat \ {0} /\ MaxHeld \in Nat \ {0}

Unit == 0 .. N - 1

VARIABLES
    used,      \* units whose _hw_unit_used is set
    sidx,      \* _sidx
    main,      \* where the main loop is: a search of some kind, at unit i
    held,      \* history: how many clients hold a unit
    shared,    \* history: units taken by a handler between test and set
    seen,      \* history: units found used by the search of the main loop
    moved      \* history: a handler allocated during that search

vars == <<used, sidx, main, held, shared, seen, moved>>

Idle == [pc |-> "idle", rot |-> FALSE, i |-> 0, from |-> 0]

Init ==
    /\ used = {} /\ sidx = 0 /\ main = Idle
    /\ held = [u \in Unit |-> 0]
    /\ shared = {} /\ seen = {} /\ moved = FALSE

\* Mutant of First: the search begins one unit too late.
FirstLate(rot, s) == IF rot THEN (s + 2) % N ELSE 0

\* The unit a search begins with: EHCI units after _sidx, OHCI units at 0.
First(rot, s) == IF rot THEN (s + 1) % N ELSE 0

\* Mutant of Succ: the rotating search does not wrap around.
SuccNoWrap(rot, i) == i + 1

\* The unit after i; the linear search runs up to N.
Succ(rot, i) == IF rot THEN (i + 1) % N ELSE i + 1

\* The values at which a search ends.  _sidx is not volatile: the build may
\* read it again in each turn or keep the value it began with.
Ends(rot, from) == IF rot THEN {from, sidx} ELSE {N}

\* alloc_*: the search starts.
AllocStart(rot) ==
    /\ main.pc = "idle"
    /\ main' = [pc |-> "look", rot |-> rot, i |-> First(rot, sidx), from |-> sidx]
    /\ UNCHANGED <<used, sidx, held, shared, seen, moved>>

\* One turn of the search: the end is tested, then the flag of unit i.
Look ==
    /\ main.pc = "look"
    /\ \/ /\ main.i \in Ends(main.rot, main.from)
          /\ main' = [main EXCEPT !.pc = "failed"]
          /\ UNCHANGED <<seen, moved>>
       \/ /\ Ends(main.rot, main.from) # {main.i}
          /\ IF main.i \in used
             THEN /\ main' = [main EXCEPT !.i = Succ(main.rot, main.i)]
                  /\ seen' = seen \cup {main.i} /\ UNCHANGED moved
             ELSE /\ main' = [main EXCEPT !.pc = "set"]
                  /\ seen' = {} /\ moved' = FALSE
    /\ UNCHANGED <<used, sidx, held, shared>>

\* Mutant of Take: the flag is not set.
TakeUnset(u) == used' = used

\* The flag of unit u is set, and u handed out.
Take(u) == used' = used \cup {u}

SetFlag ==
    /\ main.pc = "set"
    /\ Take(main.i)
    /\ held' = [held EXCEPT ![main.i] = @ + 1]
    /\ main' = IF main.rot THEN [main EXCEPT !.pc = "index"] ELSE Idle
    /\ UNCHANGED <<sidx, shared, seen, moved>>

\* _sidx = i
SetIndex ==
    /\ main.pc = "index"
    /\ sidx' = main.i
    /\ main' = Idle
    /\ UNCHANGED <<used, held, shared, seen, moved>>

\* NULL is returned.
Fail ==
    /\ main.pc = "failed"
    /\ main' = Idle
    /\ seen' = {} /\ moved' = FALSE
    /\ UNCHANGED <<used, sidx, held, shared>>

\* What free_* does to the pool for unit u; a unit that nobody holds any more,
\* and that the main loop is not about to take, is not shared any more.
Release(u) ==
    /\ held[u] > 0
    /\ used' = used \ {u}
    /\ held' = [held EXCEPT ![u] = @ - 1]
    /\ shared' = IF held[u] = 1 /\ ~ (main.pc = "set" /\ main.i = u)
                 THEN shared \ {u} ELSE shared

\* A client in the main loop frees a unit.
Free ==
    /\ main.pc = "idle"
    /\ \E u \in Unit : Release(u)
    /\ UNCHANGED <<sidx, main, seen, moved>>

\* A handler frees a unit, whatever the main loop is doing.
HandlerFree ==
    /\ \E u \in Unit : Release(u)
    /\ UNCHANGED <<sidx, main, seen, moved>>

\* The unit at which a search that is not disturbed ends: the first free one
\* in its order, among those it looks at.
Found(rot, u) ==
    /\ u \in Unit \ used
    /\ rot => u # sidx
    /\ \A v \in Unit \ used :
          IF rot THEN v # sidx => (u - sidx) % N <= (v - sidx) % N ELSE u <= v

\* A callback in a handler allocates a unit (and takes _sidx there).
HandlerAlloc(rot) ==
    /\ \E u \in Unit :
          /\ Found(rot, u) /\ held[u] < MaxHeld
          /\ used' = used \cup {u}
          /\ held' = [held EXCEPT ![u] = @ + 1]
          /\ sidx' = IF rot THEN u ELSE sidx
          /\ shared' = IF main.pc = "set" /\ main.i = u
                       THEN shared \cup {u} ELSE shared
    /\ moved' = (moved \/ main.pc = "look")
    /\ UNCHANGED <<main, seen>>

Next == \/ \E rot \in BOOLEAN : AllocStart(rot) \/ HandlerAlloc(rot)
        \/ Look \/ SetFlag \/ SetIndex \/ Fail \/ Free \/ HandlerFree

Spec == Init /\ [][Next]_vars

(***************************************************************************)
(* Properties.                                                             *)
(***************************************************************************)

\* Type invariant.
TypeOK ==
    /\ used \subseteq Unit /\ sidx \in Unit
    /\ main \in [pc : {"idle", "look", "set", "index", "failed"}, rot : BOOLEAN,
                 i : 0 .. N, from : Unit]
    /\ held \in [Unit -> Nat] /\ shared \subseteq Unit
    /\ seen \subseteq Unit /\ moved \in BOOLEAN

\* A unit is in the hands of one client and its flag says so, whatever handlers
\* free while the main loop is searching: the only way to a unit with two
\* clients, or to a flag cleared under a client, is an allocation by a handler
\* that falls between the main loop's test and set of that very unit.
Exclusive ==
    \A u \in Unit \ shared :
        /\ held[u] \in {0, 1}
        /\ u \in used <=> held[u] = 1
        /\ main.pc = "set" /\ main.i = u => held[u] = 0

\* An allocation fails only after every flag was found set, but for the one of
\* the unit that _sidx named: no free unit is passed over, unless a handler
\* that allocates moved _sidx into the way of the search.
FailsHonest ==
    main.pc = "failed" =>
        \/ moved
        \/ seen = Unit \ (IF main.rot THEN {main.from} ELSE {})
==============================================================================
