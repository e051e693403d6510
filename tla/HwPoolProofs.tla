---------------------------- MODULE HwPoolProofs ----------------------------
(***************************************************************************)
(* Proofs about HwPool, for a pool of any size.                            *)
(***************************************************************************)
EXTENDS HwPool, TLAPS

(***************************************************************************)
(* The inductive invariant.                                                *)
(***************************************************************************)

\* The index of a search names a unit, but for the end of a linear one.
IndexInv ==
    /\ main.rot => main.i \in Unit
    /\ main.pc \in {"set", "index"} => main.i \in Unit

\* The units that a search which began after (or, linear, at) its start and
\* has come to unit i has behind it.
Behind(rot, from, i) ==
    {v \in Unit : IF ~ rot THEN v < i
                  ELSE IF i > from THEN from < v /\ v < i
                  ELSE from < v \/ v < i}

\* As long as no handler allocates, _sidx stays where the search found it, and
\* the units behind the search are those it has found used.  When it has
\* failed, it has come round.
SearchInv ==
    /\ main.pc \in {"idle", "set", "index"} => seen = {} /\ ~ moved
    /\ main.pc = "look" /\ ~ moved =>
          /\ sidx = main.from
          /\ seen = Behind(main.rot, main.from, main.i)
    /\ main.pc = "failed" => FailsHonest

Inv == TypeOK /\ IndexInv /\ Exclusive /\ SearchInv

(***************************************************************************)
(* The order of a search.                                                  *)
(***************************************************************************)

\* (i + 1) % HW_MEM_UNIT_NUM is the next index, or 0 after the last.
LEMMA NextIndex ==
    ASSUME NEW i \in Unit
    PROVE  /\ (i + 1) % N \in Unit
           /\ (i + 1) % N = IF i + 1 = N THEN 0 ELSE i + 1
<1>1. CASE i + 1 = N
  <2>1. N % N = 0
    BY HwPoolAssumption
  <2> QED  BY <1>1, <2>1, HwPoolAssumption DEF Unit
<1>2. CASE i + 1 # N
  <2>1. (i + 1) % N = i + 1
    BY <1>2, HwPoolAssumption DEF Unit
  <2> QED  BY <1>2, <2>1, HwPoolAssumption DEF Unit
<1> QED  BY <1>1, <1>2

\* A search has no unit behind it when it begins.
LEMMA BehindFirst ==
    ASSUME NEW rot \in BOOLEAN, NEW s \in Unit
    PROVE  /\ First(rot, s) \in Unit
           /\ Behind(rot, s, First(rot, s)) = {}
<1>1. CASE rot
  BY <1>1, NextIndex, HwPoolAssumption DEF First, Behind, Unit
<1>2. CASE ~ rot
  BY <1>2, HwPoolAssumption DEF First, Behind, Unit
<1> QED  BY <1>1, <1>2

\* One turn of a search that has not ended puts one more unit behind it.
LEMMA BehindSucc ==
    ASSUME NEW rot \in BOOLEAN, NEW from \in Unit, NEW i \in Unit,
           rot => i # from
    PROVE  Behind(rot, from, Succ(rot, i)) = Behind(rot, from, i) \cup {i}
<1>1. CASE rot /\ i + 1 = N
  <2>1. Succ(rot, i) = 0
    BY <1>1, NextIndex DEF Succ
  <2>2. Behind(rot, from, 0) = {v \in Unit : from < v}
    BY <1>1, HwPoolAssumption DEF Behind, Unit
  <2>3. Behind(rot, from, i) = {v \in Unit : from < v /\ v < i}
    BY <1>1, HwPoolAssumption DEF Behind, Unit
  <2>4. \A v \in Unit : from < v <=> (from < v /\ v < i) \/ v = i
    BY <1>1, HwPoolAssumption DEF Unit
  <2>5. {v \in Unit : from < v} = {v \in Unit : from < v /\ v < i} \cup {i}
    BY <2>4
  <2> QED  BY <2>1, <2>2, <2>3, <2>5
<1>2. CASE ~ (rot /\ i + 1 = N)
  <2>1. Succ(rot, i) = i + 1
    BY <1>2, NextIndex DEF Succ
  <2>2. CASE rot
    BY <1>2, <2>1, <2>2, HwPoolAssumption DEF Behind, Unit
  <2>3. CASE ~ rot
    BY <2>1, <2>3, HwPoolAssumption DEF Behind, Unit
  <2> QED  BY <2>2, <2>3
<1> QED  BY <1>1, <1>2

\* A search that has ended has every unit behind it, but for the one a rotating
\* search began after.
LEMMA BehindEnd ==
    ASSUME NEW rot \in BOOLEAN, NEW from \in Unit
    PROVE  Behind(rot, from, IF rot THEN from ELSE N)
               = Unit \ (IF rot THEN {from} ELSE {})
BY HwPoolAssumption DEF Behind, Unit

(***************************************************************************)
(* The invariant holds at first, and every step preserves it.              *)
(***************************************************************************)

\* Between two calls the record of the search is well formed.
LEMMA IdleType ==
    Idle \in [pc : {"idle", "look", "set", "index", "failed"}, rot : BOOLEAN,
              i : 0 .. N, from : Unit]
BY HwPoolAssumption DEF Idle, Unit

LEMMA InitInv == Init => Inv
<1> SUFFICES ASSUME Init PROVE Inv
  OBVIOUS
<1>1. TypeOK
  <2>1. 0 \in Unit /\ held \in [Unit -> Nat]
    BY HwPoolAssumption DEF Init, Unit
  <2>2. main \in [pc : {"idle", "look", "set", "index", "failed"}, rot : BOOLEAN,
                  i : 0 .. N, from : Unit]
    BY IdleType, Zenon DEF Init
  <2> QED  BY <2>1, <2>2 DEF Init, TypeOK
<1>2. Exclusive
  <2>1. \A u \in Unit : held[u] = 0 /\ u \notin used
    BY DEF Init
  <2> QED  BY <2>1 DEF Exclusive
<1>3. IndexInv /\ SearchInv
  BY DEF Init, Idle, IndexInv, SearchInv
<1> QED  BY <1>1, <1>2, <1>3 DEF Inv

\* The types, and the range of the index.
LEMMA TypeStep == Inv /\ [Next]_vars => TypeOK' /\ IndexInv'
<1> SUFFICES ASSUME TypeOK, IndexInv, [Next]_vars
             PROVE  TypeOK' /\ IndexInv'
  BY DEF Inv
<1> USE DEF TypeOK, IndexInv
<1>1. ASSUME NEW rot \in BOOLEAN, AllocStart(rot) PROVE TypeOK' /\ IndexInv'
  <2>1. First(rot, sidx) \in Unit
    BY BehindFirst
  <2> QED  BY <1>1, <2>1, HwPoolAssumption DEF AllocStart, Unit
<1>2. ASSUME NEW rot \in BOOLEAN, HandlerAlloc(rot) PROVE TypeOK' /\ IndexInv'
  BY <1>2 DEF HandlerAlloc, Found
<1>3. ASSUME Look PROVE TypeOK' /\ IndexInv'
  <2>1. CASE main' = [main EXCEPT !.pc = "failed"]
    BY <1>3, <2>1 DEF Look
  <2>2. CASE main' = [main EXCEPT !.pc = "set"] /\ Ends(main.rot, main.from) # {main.i}
    <3>1. main.i \in Unit
      BY <2>2, HwPoolAssumption DEF Ends, Unit
    <3> QED  BY <1>3, <2>2, <3>1 DEF Look
  <2>3. CASE /\ main' = [main EXCEPT !.i = Succ(main.rot, main.i)]
             /\ main.i \in used /\ main.pc = "look"
    <3>1. Succ(main.rot, main.i) \in 0 .. N
      BY <2>3, NextIndex, HwPoolAssumption DEF Succ, Unit
    <3>2. main.rot => Succ(main.rot, main.i) \in Unit
      BY <2>3, NextIndex DEF Succ
    <3> QED  BY <1>3, <2>3, <3>1, <3>2 DEF Look
  <2> QED  BY <1>3, <2>1, <2>2, <2>3 DEF Look
<1>4. ASSUME SetFlag PROVE TypeOK' /\ IndexInv'
  <2>1. used' \subseteq Unit /\ held' \in [Unit -> Nat]
    BY <1>4 DEF SetFlag, Take
  <2>2. CASE main' = Idle
    BY <1>4, <2>1, <2>2, IdleType DEF SetFlag, Idle
  <2>3. CASE main' = [main EXCEPT !.pc = "index"] /\ main.pc = "set"
    BY <1>4, <2>1, <2>3 DEF SetFlag
  <2> QED  BY <1>4, <2>2, <2>3 DEF SetFlag
<1>5. ASSUME SetIndex PROVE TypeOK' /\ IndexInv'
  BY <1>5, IdleType DEF SetIndex, Idle
<1>6. ASSUME Fail PROVE TypeOK' /\ IndexInv'
  BY <1>6, IdleType DEF Fail, Idle
<1>7. ASSUME Free \/ HandlerFree PROVE TypeOK' /\ IndexInv'
  BY <1>7 DEF Free, HandlerFree, Release
<1>8. ASSUME UNCHANGED vars PROVE TypeOK' /\ IndexInv'
  BY <1>8 DEF vars
<1> QED  BY <1>1, <1>2, <1>3, <1>4, <1>5, <1>6, <1>7, <1>8 DEF Next

\* What one release does to the unit's clients.
LEMMA ReleaseExclusive ==
    ASSUME TypeOK, Exclusive, NEW u \in Unit, Release(u), main' = main
    PROVE  Exclusive'
BY DEF TypeOK, Exclusive, Release

\* A unit outside the history shared has one client at most.
LEMMA ExclusiveStep == Inv /\ [Next]_vars => Exclusive'
<1> SUFFICES ASSUME TypeOK, IndexInv, Exclusive, [Next]_vars PROVE Exclusive'
  BY DEF Inv
<1>1. ASSUME NEW rot \in BOOLEAN, AllocStart(rot) PROVE Exclusive'
  BY <1>1 DEF AllocStart, Exclusive
<1>2. ASSUME NEW rot \in BOOLEAN, HandlerAlloc(rot) PROVE Exclusive'
  BY <1>2 DEF HandlerAlloc, Found, Exclusive, TypeOK
<1>3. ASSUME Look PROVE Exclusive'
  BY <1>3 DEF Look, Exclusive, TypeOK
<1>4. ASSUME SetFlag PROVE Exclusive'
  BY <1>4 DEF SetFlag, Take, Idle, Exclusive, TypeOK, IndexInv
<1>5. ASSUME SetIndex PROVE Exclusive'
  BY <1>5 DEF SetIndex, Idle, Exclusive
<1>6. ASSUME Fail PROVE Exclusive'
  BY <1>6 DEF Fail, Idle, Exclusive
<1>7. ASSUME Free \/ HandlerFree PROVE Exclusive'
  BY <1>7, ReleaseExclusive DEF Free, HandlerFree
<1>8. ASSUME UNCHANGED vars PROVE Exclusive'
  BY <1>8 DEF vars, Exclusive
<1> QED  BY <1>1, <1>2, <1>3, <1>4, <1>5, <1>6, <1>7, <1>8 DEF Next

\* One turn of the search keeps account of the units it has passed.
LEMMA LookSearch ==
    ASSUME TypeOK, IndexInv, SearchInv, Look
    PROVE  SearchInv'
<1>1. CASE moved
  <2>1. CASE main' = [main EXCEPT !.pc = "set"] /\ seen' = {} /\ ~ moved'
    BY <2>1 DEF Look, SearchInv, TypeOK
  <2>2. CASE main'.pc \in {"look", "failed"} /\ moved'
    BY <2>2 DEF SearchInv, FailsHonest
  <2> QED  BY <1>1, <2>1, <2>2 DEF Look, TypeOK
<1>2. CASE ~ moved
  <2>1. /\ main.pc = "look" /\ sidx = main.from
        /\ seen = Behind(main.rot, main.from, main.i)
        /\ main.from \in Unit /\ main.rot \in BOOLEAN
    BY <1>2 DEF Look, SearchInv, TypeOK
  <2>2. Ends(main.rot, main.from) = {IF main.rot THEN main.from ELSE N}
    BY <2>1 DEF Ends
  <2>3. CASE /\ main.i \in Ends(main.rot, main.from)
             /\ main' = [main EXCEPT !.pc = "failed"]
             /\ UNCHANGED <<seen, moved>>
    <3>1. main.i = IF main.rot THEN main.from ELSE N
      BY <2>2, <2>3
    <3>2. seen = Unit \ (IF main.rot THEN {main.from} ELSE {})
      BY <2>1, <3>1, BehindEnd
    <3> QED  BY <2>3, <3>2 DEF SearchInv, FailsHonest, TypeOK
  <2>4. CASE /\ Ends(main.rot, main.from) # {main.i} /\ main.i \in used
             /\ main' = [main EXCEPT !.i = Succ(main.rot, main.i)]
             /\ seen' = seen \cup {main.i} /\ UNCHANGED moved
    <3>1. main.i \in Unit /\ (main.rot => main.i # main.from)
      BY <2>2, <2>4 DEF TypeOK
    <3>2. Behind(main.rot, main.from, Succ(main.rot, main.i)) = seen \cup {main.i}
      BY <2>1, <3>1, BehindSucc
    <3>3. /\ main'.pc = "look" /\ main'.from = main.from /\ main'.rot = main.rot
          /\ main'.i = Succ(main.rot, main.i)
      BY <2>1, <2>4 DEF TypeOK
    <3>4. sidx' = sidx
      BY DEF Look
    <3>5. seen' = Behind(main'.rot, main'.from, main'.i)
      BY <2>4, <3>2, <3>3
    <3> QED  BY <2>1, <3>3, <3>4, <3>5 DEF SearchInv, Behind, Unit
  <2>5. CASE main' = [main EXCEPT !.pc = "set"] /\ seen' = {} /\ ~ moved'
    BY <2>5 DEF SearchInv, TypeOK
  <2> QED  BY <2>3, <2>4, <2>5 DEF Look
<1> QED  BY <1>1, <1>2 DEF TypeOK

\* The account of the search survives whatever handlers do.
LEMMA SearchStep == Inv /\ [Next]_vars => SearchInv'
<1> SUFFICES ASSUME TypeOK, IndexInv, SearchInv, [Next]_vars PROVE SearchInv'
  BY DEF Inv
<1>1. ASSUME NEW rot \in BOOLEAN, AllocStart(rot) PROVE SearchInv'
  <2>1. /\ main.pc = "idle" /\ seen' = {} /\ ~ moved' /\ sidx' = sidx
        /\ main' = [pc |-> "look", rot |-> rot, i |-> First(rot, sidx),
                    from |-> sidx]
    BY <1>1 DEF AllocStart, SearchInv
  <2>2. Behind(rot, sidx, First(rot, sidx)) = {}
    BY BehindFirst DEF TypeOK
  <2>3. seen' = Behind(main'.rot, main'.from, main'.i)
    BY <2>1, <2>2
  <2> QED  BY <2>1, <2>3 DEF SearchInv, Behind, Unit
<1>2. ASSUME NEW rot \in BOOLEAN, HandlerAlloc(rot) PROVE SearchInv'
  <2>1. main' = main /\ seen' = seen /\ moved' = (moved \/ main.pc = "look")
    BY <1>2 DEF HandlerAlloc
  <2> QED  BY <2>1 DEF SearchInv, FailsHonest
<1>3. ASSUME Look PROVE SearchInv'
  BY <1>3, LookSearch
<1>4. ASSUME SetFlag PROVE SearchInv'
  BY <1>4 DEF SetFlag, Idle, SearchInv, TypeOK
<1>5. ASSUME SetIndex PROVE SearchInv'
  BY <1>5 DEF SetIndex, Idle, SearchInv, TypeOK
<1>6. ASSUME Fail PROVE SearchInv'
  BY <1>6 DEF Fail, Idle, SearchInv
<1>7. ASSUME Free \/ HandlerFree PROVE SearchInv'
  <2>1. UNCHANGED <<sidx, main, seen, moved>>
    BY <1>7 DEF Free, HandlerFree
  <2> QED  BY <2>1 DEF SearchInv, FailsHonest, Behind, Unit
<1>8. ASSUME UNCHANGED vars PROVE SearchInv'
  <2>1. UNCHANGED <<sidx, main, seen, moved>>
    BY <1>8 DEF vars
  <2> QED  BY <2>1 DEF SearchInv, FailsHonest, Behind, Unit
<1> QED  BY <1>1, <1>2, <1>3, <1>4, <1>5, <1>6, <1>7, <1>8 DEF Next

LEMMA Invariant == Spec => []Inv
<1>1. Inv /\ [Next]_vars => Inv'
  BY TypeStep, ExclusiveStep, SearchStep DEF Inv
<1> QED  BY InitInv, <1>1, PTL DEF Spec

(***************************************************************************)
(* The theorems.                                                           *)
(***************************************************************************)

\* The flags, _sidx and the indices of the searches stay in their ranges: the
\* rotating search of alloc_ehci_QH and the others wraps inside the pool.
THEOREM TypeCorrect == Spec => []TypeOK
<1>1. Inv => TypeOK
  BY DEF Inv
<1> QED  BY Invariant, <1>1, PTL

\* In a pool of any size, a unit goes to two clients of alloc_* only through
\* an allocation by a handler between the main loop's test and set of its flag.
THEOREM ExclusiveAlways == Spec => []Exclusive
<1>1. Inv => Exclusive
  BY DEF Inv
<1> QED  BY Invariant, <1>1, PTL

\* alloc_* returns NULL only after it has found every flag set that it looks
\* at, all but that of _sidx, whatever handlers free meanwhile and wherever the
\* search began, unless a handler that allocates moved _sidx.
THEOREM FailsHonestAlways == Spec => []FailsHonest
<1>1. Inv => FailsHonest
  BY DEF Inv, SearchInv, FailsHonest
<1> QED  BY Invariant, <1>1, PTL
==============================================================================
