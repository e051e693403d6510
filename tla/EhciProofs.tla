----------------------------- MODULE EhciProofs -----------------------------
(***************************************************************************)
(* Proofs about Ehci, for any number of units, endpoints and qTDs of a     *)
(* transfer: the safety invariants and what the mark in Token protects.    *)
(***************************************************************************)
EXTENDS Ehci, FiniteSetTheorems, TLAPS

(***************************************************************************)
(* The inductive invariant.                                                *)
(***************************************************************************)

\* The main loop is inside a submission.
Sub == main.pc \in {"alloc", "append", "activate", "start"}

\* A quit waits for its QH to be freed.
Removes(q) == main.pc \in {"clear", "delay"} /\ main.q = q /\ q \in removing

OnList(t) == \E q \in Unit : t \in list[q]

\* A unit that is free is on no list, and nothing is left in it; only a QH
\* has lists and an overlay, and only a qTD on a list has been written.
UnitInv ==
    /\ \A u \in Unit : kind[u] # "QH" => list[u] = {} /\ doneList[u] = {} /\ ol[u] = NULL
    /\ \A u \in Unit : kind[u] # "qTD" => utrOf[u] = NULL
    /\ \A u \in Unit : token[u] # "mark" => OnList(u)
    /\ \A q \in Unit : \A t \in list[q] \cup doneList[q] : kind[t] = "qTD"
    /\ \A q, r \in Unit : \A t \in list[q] : t \in list[r] => q = r
    /\ \A q, r \in Unit : \A t \in doneList[q] : t \in doneList[r] => q = r
    /\ \A q, r \in Unit : \A t \in list[q] : t \notin doneList[r]

\* A linked QH or one that waits for its removal is a QH, and in one of these
\* places only; the only one that waits is the one of the quit under way.
QhInv ==
    /\ \A q \in Linked \cup removing : kind[q] = "QH"
    /\ \A q \in Unit : ~ (q \in async /\ q \in periodic)
    /\ \A q \in removing : q \notin Linked /\ Removes(q)

\* The QH of an endpoint is linked, or new and in the hands of a submission,
\* and no other endpoint's; only the quit under way may still point to one
\* that is gone.
PipeInv ==
    /\ \A e \in Ep : pipe[e] # NULL =>
          \/ main.pc = "clear" /\ main.e = e
          \/ /\ kind[pipe[e]] = "QH" /\ pipe[e] \notin removing
             /\ pipe[e] \in Linked \/ (Sub /\ main.e = e /\ main.new)
    /\ \A e, f \in Ep : pipe[e] # NULL /\ pipe[e] = pipe[f] => e = f

\* Where the main loop is, its local variables agree with the endpoint.
MainInv ==
    /\ main.pc # "idle" => main.e \in Ep
    /\ main.pc = "wait" => main.e \in CtrlEp /\ pipe[main.e] # NULL
    /\ main.pc \in {"unlink", "clear"} => main.q \in Unit /\ pipe[main.e] = main.q
    /\ main.pc = "clear" => main.q \in removing \/ kind[main.q] # "QH"
    /\ main.pc = "delay" => main.q \in Unit /\ pipe[main.e] = NULL
    /\ ~ Sub => main.mine = {}

\* A qTD on a qtd_list is one of the endpoint of its QH, whose request has
\* been submitted and not been signalled.
OwnerInv ==
    \A q \in Unit : \A t \in list[q] :
        /\ utrOf[t] \in Ep /\ live[utrOf[t]] /\ calls[utrOf[t]] = 0
        /\ \/ pipe[utrOf[t]] = q
           \/ Removes(q) /\ main.e = utrOf[t]
        /\ pos[t] >= 1
        /\ \A v \in list[q] : pos[v] = pos[t] => v = t

\* No request is signalled twice or after its release; one that has not been
\* signalled is under submission, has a qTD on a list or is about to be
\* signalled by the handler.
RequestInv ==
    /\ lateTo = {}
    /\ \A e \in Ep : calls[e] <= 1
    /\ \A e \in Ep : live[e] /\ calls[e] = 0 =>
          \/ Sub /\ main.e = e
          \/ \E t \in Unit : OnList(t) /\ utrOf[t] = e
          \/ isr.pc = "visit" /\ isr.utr = e
    /\ \A e \in AsyncEp : isDone[e] => ~ live[e] \/ calls[e] = 1

\* The controller holds a linked QH, or one that waits for its removal: since
\* the last doorbell was answered, or with one under way when it was unlinked.
HeldInv ==
    /\ hc # NULL => \/ hc \in Linked
                    \/ hc \in removing /\ (early \/ ("IAA" \notin usts /\ ~ isr.iaa))
    /\ isr.pc = "iaa" => isr.iaa
    /\ isr.pc = "off" => ~ isr.iaa

\* What the handler still has to visit is linked, and what it has found is
\* the request of the endpoint of the QH it is at.
IsrInv ==
    /\ isr.pc \in {"async", "visit"} => isr.todo \subseteq async
    /\ isr.pc \in {"periodic", "callback"} =>
          isr.todo \subseteq periodic /\ \A q \in isr.todo : list[q] # {}
    /\ isr.pc = "async" => isr.utr = NULL
    /\ isr.pc = "visit" => isr.q \in async
    /\ isr.pc = "visit" /\ isr.utr # NULL =>
          /\ isr.utr \in Ep /\ live[isr.utr] /\ calls[isr.utr] = 0
          /\ pipe[isr.utr] = isr.q /\ ~ (Sub /\ main.e = isr.utr)
    /\ isr.pc = "callback" =>
          /\ isr.q \in periodic /\ isr.q \notin isr.todo /\ list[isr.q] = {}
          /\ isr.utr \in Ep /\ live[isr.utr] /\ calls[isr.utr] = 1
          /\ pipe[isr.utr] = isr.q /\ ~ (Sub /\ main.e = isr.utr)

\* The qTDs that the controller has not executed yet are chained from the
\* overlay of the QH, in the order of their places; a QH under submission has
\* no overlay yet.
ChainInv ==
    /\ \A q \in Unit : ol[q] # NULL =>
          /\ ol[q] \in list[q] /\ token[ol[q]] = "active"
          /\ ~ (Sub /\ q = main.q)
          /\ \A t \in list[q] : token[t] = "active" => pos[t] >= pos[ol[q]]
    /\ \A q \in Unit : \A t \in list[q] :
          token[t] = "active" /\ nxt[t] # NULL =>
             /\ nxt[t] \in list[q] /\ pos[nxt[t]] = pos[t] + 1
             /\ token[nxt[t]] = "active" \/ (Sub /\ q = main.q)

\* Under submission: the qTDs on the list are active but for the last one,
\* which is being written, and the ones in the hands of the main loop follow
\* them in their places.
SubInv ==
    /\ \A q \in Unit : \A t \in list[q] : token[t] = "mark" =>
          main.pc = "activate" /\ q = main.q /\ t \in main.mine
    /\ Sub =>
       /\ main.q \in Unit /\ kind[main.q] = "QH" /\ pipe[main.e] = main.q
       /\ live[main.e] /\ calls[main.e] = 0
       /\ main.new => main.q \notin Linked /\ doneList[main.q] = {}
       /\ \A t \in list[main.q] :
             \/ pos[t] <= main.k /\ token[t] = "active"
             \/ main.pc = "activate" /\ t \in main.mine /\ pos[t] = main.k + 1
       /\ \A t \in main.mine :
             /\ kind[t] = "qTD" /\ token[t] = "mark" /\ utrOf[t] = main.e
             /\ nxt[t] = NULL /\ pos[t] > main.k
             /\ pos[t] <= main.k + Cardinality(main.mine)
             /\ \A q \in Unit : t \notin doneList[q]
             /\ \A q \in Unit : t \in list[q] => main.pc = "activate"
                                   /\ q = main.q /\ pos[t] = main.k + 1
       /\ \A t, v \in main.mine : pos[t] = pos[v] => t = v
       /\ IsFiniteSet(main.mine)
       /\ main.pc = "alloc" =>
             IF main.e \in CtrlEp
             THEN main.k = 0 /\ list[main.q] = {}
                  /\ Cardinality(main.mine) + main.miss < main.n
             ELSE main.mine = {}
       /\ main.pc \in {"append", "activate"} /\ main.e \notin CtrlEp =>
             Cardinality(main.mine) = 1
       /\ main.pc \in {"append", "activate"} /\ main.e \in CtrlEp =>
             main.k + Cardinality(main.mine) = main.n
       /\ main.pc = "activate" =>
             \A t \in main.mine : pos[t] = main.k + 1 => t \in list[main.q]
       /\ main.pc = "start" => main.mine = {}

Inv == /\ TypeOK /\ UnitInv /\ QhInv /\ PipeInv /\ MainInv /\ OwnerInv
       /\ RequestInv /\ HeldInv /\ IsrInv /\ ChainInv /\ SubInv
       /\ NoLeak

IInv == ~ fault => Inv

(***************************************************************************)
(* The operators of the model.                                             *)
(***************************************************************************)

\* Reclaiming qTDs moves them from qtd_list to done_list and leaves the types
\* alone.
LEMMA ReclaimEffect ==
    ASSUME TypeOK, NEW q \in Unit, NEW S \in SUBSET Unit, Reclaim(q, S)
    PROVE  /\ list' = [list EXCEPT ![q] = @ \ S]
           /\ doneList' = [doneList EXCEPT ![q] = @ \cup S]
           /\ token' = [u \in Unit |-> IF u \in S THEN "mark" ELSE token[u]]
           /\ pos' = [u \in Unit |-> IF u \in S THEN 0 ELSE pos[u]]
           /\ nxt' = [u \in Unit |-> IF u \in S THEN NULL ELSE nxt[u]]
           /\ utrOf' = utrOf
           /\ status' \in [Ep -> {"ok", "err", "abort"}]
<1>1. status' \in [Ep -> {"ok", "err", "abort"}]
  BY DEF Reclaim, TypeOK
<1>2. QED BY <1>1 DEF Reclaim, Retired

\* What freeing units and dropping QHs does to the descriptors as long as the
\* controller does not hold one of them: they are as good as cleared.
Wiped(S) ==
    /\ kind' = [u \in Unit |-> IF u \in S THEN "free" ELSE kind[u]]
    /\ token' = [u \in Unit |-> IF u \in S THEN "mark" ELSE token[u]]
    /\ utrOf' = [u \in Unit |-> IF u \in S THEN NULL ELSE utrOf[u]]
    /\ pos' = [u \in Unit |-> IF u \in S THEN 0 ELSE pos[u]]
    /\ nxt' = [u \in Unit |-> IF u \in S THEN NULL ELSE nxt[u]]

Dropped(S) ==
    /\ list' = [u \in Unit |-> IF u \in S THEN {} ELSE list[u]]
    /\ ol' = [u \in Unit |-> IF u \in S THEN NULL ELSE ol[u]]
    /\ halt' = [u \in Unit |-> halt[u] /\ u \notin S]

\* Nothing is left in a unit that the controller does not reach.
LEMMA FreeNotHeld ==
    ASSUME NEW S, hc \notin S, FreeUnits(S)
    PROVE  Wiped(S)
<1>1. S \ Reached(S) = S
  BY DEF Reached
<1>2. QED BY <1>1 DEF FreeUnits, Wiped

\* Nor in a QH that it does not hold.
LEMMA DropNotHeld ==
    ASSUME NEW S, hc \notin S, DropQhs(S)
    PROVE  Dropped(S)
<1>1. S \ {hc} = S
  OBVIOUS
<1>2. QED BY <1>1 DEF DropQhs, Dropped

\* The controller does not hold what a refused submission frees: its QH is new
\* and not linked yet.
LEMMA RefusedNotHeld ==
    ASSUME Inv, XferNoMem
    PROVE  hc \notin Refused
<1>1. SUFFICES ASSUME hc \in Refused PROVE FALSE
  OBVIOUS
<1>2. main.pc = "alloc" /\ Sub
  BY DEF XferNoMem, MainAt, Sub
<1>3. \A t \in main.mine \cup list[main.q] : t \in Unit /\ kind[t] = "qTD"
  BY <1>2 DEF Inv, TypeOK, MainRec, SubInv, UnitInv
<1>4. /\ main.q \in Unit /\ kind[main.q] = "QH" /\ main.q \notin removing
      /\ main.new => main.q \notin Linked
  BY <1>2 DEF Inv, SubInv, QhInv, Removes
<1>5. hc # NULL /\ hc \in Linked \cup removing
  BY <1>1, <1>3, <1>4, EhciAssumption DEF Refused, Inv, HeldInv
<1>6. QED BY <1>1, <1>3, <1>4, <1>5 DEF Refused, Inv, QhInv

\* Nor what iaad_remove_qh frees, or it is the fault of an early doorbell.
LEMMA RemovedNotHeld ==
    ASSUME Inv, ~ fault', IsrIaa
    PROVE  /\ hc \notin removing \cup RemovedQtds \cup UNION {doneList[q] : q \in Linked}
           /\ hc \notin removing
<1>1. hc \notin removing
  BY DEF IsrIaa
<1>2. \A t \in RemovedQtds \cup UNION {doneList[q] : q \in Linked} :
         t \in Unit /\ kind[t] = "qTD"
  BY DEF RemovedQtds, Linked, Inv, TypeOK, UnitInv
<1>3. hc # NULL => kind[hc] = "QH"
  BY <1>1 DEF Inv, HeldInv, QhInv
<1>4. QED BY <1>1, <1>2, <1>3, EhciAssumption

\* A step that records a fault only if one happens records none.
LEMMA NoNewFault ==
    ASSUME TypeOK, NEW P, fault' = (fault \/ P), ~ fault, ~ fault'
    PROVE  fault' = fault /\ ~ P
<1>1. fault \in BOOLEAN
  BY DEF TypeOK
<1>2. ~ P
  BY Zenon
<1>3. fault' \in BOOLEAN
  BY Zenon
<1>4. QED BY <1>1, <1>2, <1>3

\* Giving a request back to its client leaves the types alone.
LEMMA ReleasedType ==
    ASSUME TypeOK, NEW e \in Ep, Released(e)
    PROVE  /\ live' \in [Ep -> BOOLEAN] /\ isDone' \in [Ep -> BOOLEAN]
           /\ status' \in [Ep -> {"ok", "err", "abort"}] /\ calls' \in [Ep -> 0 .. 2]
           /\ lateTo' \subseteq Ep
BY DEF TypeOK, Released

\* A submission to e of n qTDs starts on QH u: what XferStart does, with the
\* old and the new QH under one description.
Starts(e, n, u) ==
    /\ isr.pc = "off" /\ main.pc = "idle" /\ Submits(e)
    /\ main' \in MainRec
    /\ main'.pc = IF n = 0 THEN "start" ELSE "alloc"
    /\ main'.e = e /\ main'.q = u /\ main'.mine = {}
    /\ main'.k = 0 /\ main'.n = n /\ main'.miss = 0
    /\ pipe[e] = NULL => main'.new
    /\ main'.new => pipe[e] = NULL
    /\ \/ pipe[e] = u /\ u # NULL /\ u \in Linked
       \/ pipe[e] = NULL /\ kind[u] = "free" /\ doneList[u] = {} /\ u \notin Linked
    /\ u \notin removing /\ list[u] = {} /\ ol[u] = NULL
    /\ kind' = [kind EXCEPT ![u] = "QH"] /\ pipe' = [pipe EXCEPT ![e] = u]
    /\ \A v \in Unit : kind'[v] # kind[v] => v = u /\ kind[u] = "free"
    /\ kind' \in [Unit -> {"free", "QH", "qTD"}] /\ pipe' \in [Ep -> UnitOrNull]
    /\ halt' \in [Unit -> BOOLEAN]
    /\ live' = [live EXCEPT ![e] = TRUE]
    /\ isDone' = [isDone EXCEPT ![e] = @ /\ live[e]]
    /\ status' = [status EXCEPT ![e] = "ok"]
    /\ calls' = [calls EXCEPT ![e] = 0]
    /\ UNCHANGED <<list, doneList, ol, qtdVars, linkVars, lostVars, hcVars, isr, lateTo>>

\* XferStart is a start, on the old QH of the endpoint or on a new one.
LEMMA StartEffect ==
    ASSUME Inv, XferStart
    PROVE  \E e \in Ep, n \in Nat, u \in Unit : Starts(e, n, u)
<1> DEFINE At(n) == IF n = 0 THEN "start" ELSE "alloc"
<1>1. PICK e \in Ep, n \in 0 .. MaxQtd + 3 :
         /\ isr.pc = "off" /\ main.pc = "idle" /\ Submits(e)
         /\ \/ /\ pipe[e] # NULL /\ list[pipe[e]] = {}
               /\ main' = [MainIdle EXCEPT !.pc = At(n), !.e = e,
                                           !.q = pipe[e], !.n = n]
               /\ UNCHANGED <<kind, pipe, qhVars, qtdVars>>
            \/ /\ pipe[e] = NULL
               /\ \E u \in Free :
                     /\ NewQh(e, u)
                     /\ main' = [MainIdle EXCEPT !.pc = At(n), !.e = e,
                                       !.q = u, !.new = TRUE, !.n = n]
         /\ live' = [live EXCEPT ![e] = TRUE]
         /\ isDone' = [isDone EXCEPT ![e] = @ /\ live[e]]
         /\ status' = [status EXCEPT ![e] = "ok"]
         /\ calls' = [calls EXCEPT ![e] = 0]
         /\ UNCHANGED <<linkVars, lostVars, hcVars, isr, lateTo>>
  BY Zenon DEF XferStart, MainAt
<1>2. \E u \in Unit, new \in BOOLEAN :
         /\ main' = [pc |-> At(n), e |-> e, q |-> u, new |-> new,
                     n |-> n, k |-> 0, miss |-> 0, mine |-> {}]
         /\ \/ /\ new = FALSE /\ pipe[e] = u /\ pipe[e] # NULL /\ list[u] = {}
               /\ UNCHANGED <<kind, pipe, qhVars, qtdVars>>
            \/ new = TRUE /\ pipe[e] = NULL /\ kind[u] = "free" /\ NewQh(e, u)
  <2>1. CASE pipe[e] # NULL
    <3>1. pipe[e] \in Unit
      BY <2>1 DEF Inv, TypeOK, UnitOrNull
    <3>2. list[pipe[e]] = {} /\ UNCHANGED <<kind, pipe, qhVars, qtdVars>>
          /\ main' = [MainIdle EXCEPT !.pc = At(n), !.e = e, !.q = pipe[e], !.n = n]
      BY <1>1, <2>1
    <3>3. main' = [pc |-> At(n), e |-> e, q |-> pipe[e], new |-> FALSE,
                     n |-> n, k |-> 0, miss |-> 0, mine |-> {}]
      BY <3>2 DEF MainIdle
    <3>4. QED BY <2>1, <3>1, <3>2, <3>3
  <2>2. CASE pipe[e] = NULL
    <3>1. PICK u \in Free : NewQh(e, u) /\ main' = [MainIdle EXCEPT !.pc = At(n),
                               !.e = e, !.q = u, !.new = TRUE, !.n = n]
      BY <1>1, <2>2
    <3>2. main' = [pc |-> At(n), e |-> e, q |-> u, new |-> TRUE,
                     n |-> n, k |-> 0, miss |-> 0, mine |-> {}]
      BY <3>1 DEF MainIdle
    <3>3. QED BY <2>2, <3>1, <3>2 DEF Free
  <2>3. QED BY <2>1, <2>2
<1>3. PICK u \in Unit, new \in BOOLEAN :
         /\ main' = [pc |-> At(n), e |-> e, q |-> u, new |-> new,
                     n |-> n, k |-> 0, miss |-> 0, mine |-> {}]
         /\ \/ /\ new = FALSE /\ pipe[e] = u /\ pipe[e] # NULL /\ list[u] = {}
               /\ UNCHANGED <<kind, pipe, qhVars, qtdVars>>
            \/ new = TRUE /\ pipe[e] = NULL /\ kind[u] = "free" /\ NewQh(e, u)
  BY <1>2
\* A free unit has nothing to clear.
<1>4. UNCHANGED <<list, doneList, ol, qtdVars>>
  <2>1. CASE UNCHANGED <<qhVars, qtdVars>>
    BY <2>1 DEF qhVars
  <2>2. CASE kind[u] = "free" /\ NewQh(e, u)
    <3>1. ol[u] = NULL /\ token[u] = "mark" /\ utrOf[u] = NULL
      BY <2>2 DEF Inv, UnitInv, OnList
    <3>2. ol' = ol /\ token' = token /\ utrOf' = utrOf
      BY <2>2, <3>1 DEF NewQh, Inv, TypeOK
    <3>3. QED BY <2>2, <3>2 DEF NewQh, qtdVars
  <2>3. QED BY <1>3, <2>1, <2>2
<1>5. /\ isr.pc = "off" /\ main.pc = "idle" /\ Submits(e)
      /\ live' = [live EXCEPT ![e] = TRUE]
      /\ isDone' = [isDone EXCEPT ![e] = @ /\ live[e]]
      /\ status' = [status EXCEPT ![e] = "ok"]
      /\ calls' = [calls EXCEPT ![e] = 0]
      /\ UNCHANGED <<list, doneList, ol, qtdVars, linkVars, lostVars, hcVars, isr, lateTo>>
  BY <1>1, <1>4
<1>6. /\ main'.pc = IF n = 0 THEN "start" ELSE "alloc"
      /\ main'.e = e /\ main'.q = u /\ main'.mine = {}
      /\ main'.k = 0 /\ main'.n = n /\ n \in Nat /\ main'.miss = 0
      /\ pipe[e] = NULL => main'.new
      /\ main'.new => pipe[e] = NULL
  BY <1>3, EhciAssumption
<1>7. main' \in MainRec
  BY <1>1, <1>4, <1>3, <1>6, EhciAssumption DEF MainRec, MainPc, UnitOrNull,
     EpOrNull
<1>8. /\ kind' = [kind EXCEPT ![u] = "QH"] /\ pipe' = [pipe EXCEPT ![e] = u]
      /\ kind' \in [Unit -> {"free", "QH", "qTD"}] /\ pipe' \in [Ep -> UnitOrNull]
      /\ halt' \in [Unit -> BOOLEAN]
      /\ (pipe[e] = u /\ u # NULL /\ u \in Linked) \/ (pipe[e] = NULL /\ kind[u] = "free")
      /\ u \notin removing
      /\ list[u] = {} /\ ol[u] = NULL
      /\ pipe[e] = NULL => doneList[u] = {} /\ u \notin Linked
      /\ \A v \in Unit : kind'[v] # kind[v] => v = u /\ kind[u] = "free"
  <2>1. CASE pipe[e] = u /\ pipe[e] # NULL /\ UNCHANGED <<kind, pipe, qhVars>> /\ list[u] = {}
    <3>1. kind[u] = "QH" /\ u \in Linked /\ u \notin removing /\ ol[u] = NULL
      BY <1>1, <2>1 DEF Inv, TypeOK, PipeInv, Sub, ChainInv, UnitOrNull
    <3>2. kind' = [kind EXCEPT ![u] = "QH"] /\ pipe' = [pipe EXCEPT ![e] = u]
      BY <2>1, <3>1 DEF Inv, TypeOK
    <3>3. QED BY <1>1, <2>1, <3>1, <3>2 DEF Inv, TypeOK, qhVars
  <2>2. CASE pipe[e] = NULL /\ kind[u] = "free" /\ NewQh(e, u)
    <3>1. u \notin Linked /\ u \notin removing /\ list[u] = {} /\ ol[u] = NULL /\ doneList[u] = {}
      BY <2>2 DEF Inv, QhInv, UnitInv
    <3>2. QED BY <2>2, <3>1 DEF NewQh, Inv, TypeOK, UnitOrNull
  <2>3. QED BY <1>3, <2>1, <2>2
<1>9. Starts(e, n, u) /\ n \in Nat
  BY <1>5, <1>6, <1>7, <1>8 DEF Starts
<1> QED BY <1>9

\* Calling requests back leaves the types alone.
LEMMA SignalType ==
    ASSUME TypeOK, NEW S \in SUBSET Ep, Signal(S)
    PROVE  /\ isDone' \in [Ep -> BOOLEAN] /\ calls' \in [Ep -> 0 .. 2] /\ lateTo' \subseteq Ep
BY DEF TypeOK, Signal

\* Requests that wait for their callback are called back once, and none of
\* them late.
LEMMA SignalEffect ==
    ASSUME TypeOK, lateTo = {}, NEW S \in SUBSET Ep, Signal(S),
           \A e \in S : live[e] /\ calls[e] = 0
    PROVE  /\ calls' = [e \in Ep |-> IF e \in S THEN 1 ELSE calls[e]]
           /\ lateTo' = {}
           /\ \A e \in Ep : isDone'[e] => e \in S \/ isDone[e]
<1>1. \A e \in Ep : (IF e \in S /\ calls[e] < 2 THEN calls[e] + 1 ELSE calls[e])
                    = (IF e \in S THEN 1 ELSE calls[e])
  OBVIOUS
<1>2. calls' = [e \in Ep |-> IF e \in S THEN 1 ELSE calls[e]]
  BY <1>1 DEF Signal
<1>3. QED BY <1>2 DEF Signal

\* What the handler reclaims from a linked QH does not disturb the submission
\* under way, whose qTDs are marked or active.
LEMMA ReclaimSub ==
    ASSUME Inv, NEW q \in Linked, q \in Unit, NEW S \in SUBSET list[q], Reclaim(q, S),
           \A t \in S : token[t] \in {"ok", "err"},
           UNCHANGED <<kind, linkVars, epVars, main, live>>,
           Sub => calls'[main.e] = calls[main.e]
    PROVE  SubInv'
<1>1. S \in SUBSET Unit
  BY DEF Inv, TypeOK
<1>2. /\ list' = [list EXCEPT ![q] = @ \ S]
      /\ doneList' = [doneList EXCEPT ![q] = @ \cup S]
      /\ token' = [u \in Unit |-> IF u \in S THEN "mark" ELSE token[u]]
      /\ pos' = [u \in Unit |-> IF u \in S THEN 0 ELSE pos[u]]
      /\ nxt' = [u \in Unit |-> IF u \in S THEN NULL ELSE nxt[u]]
      /\ utrOf' = utrOf
  BY <1>1, ReclaimEffect DEF Inv
<1>3. \A r \in Unit : \A x \in list'[r] :
         x \in Unit /\ x \notin S /\ x \in list[r]
         /\ token'[x] = token[x] /\ pos'[x] = pos[x] /\ nxt'[x] = nxt[x]
  <2>1. SUFFICES ASSUME NEW r \in Unit, NEW x \in list'[r]
                 PROVE  x \in Unit /\ x \notin S /\ x \in list[r]
    BY <1>2
  <2>2. x \in list[r] /\ x \in Unit /\ (r = q => x \notin S)
    BY <1>2, <2>1 DEF Inv, TypeOK
  <2>3. QED BY <2>2 DEF Inv, UnitInv
<1>4. \A r \in Unit : \A x \in list'[r] : token'[x] = "mark" =>
         main'.pc = "activate" /\ r = main'.q /\ x \in main'.mine
  BY <1>3 DEF Inv, SubInv
<1>5. CASE Sub
  <2>1. /\ main.q \in Unit /\ kind[main.q] = "QH" /\ pipe[main.e] = main.q
        /\ live[main.e] /\ calls[main.e] = 0
        /\ main.new => main.q \notin Linked /\ doneList[main.q] = {}
    BY <1>5 DEF Inv, SubInv
  <2>2. S = {} \/ main.q # q
    BY <1>5 DEF Inv, SubInv
  <2>3. list'[main.q] = list[main.q] /\ doneList'[main.q] = doneList[main.q]
    <3>1. CASE main.q # q
      BY <1>2, <2>1, <3>1 DEF Inv, TypeOK
    <3>2. CASE S = {}
      BY <1>2, <2>1, <3>2 DEF Inv, TypeOK
    <3>3. QED BY <2>2, <3>1, <3>2
  <2>4. /\ main'.q \in Unit /\ kind'[main'.q] = "QH" /\ pipe'[main'.e] = main'.q
        /\ live'[main'.e] /\ calls'[main'.e] = 0
        /\ main'.new => main'.q \notin Linked' /\ doneList'[main'.q] = {}
    BY <1>5, <2>1, <2>3 DEF Linked, linkVars, epVars
  <2>5. \A x \in main.mine : /\ x \in Unit /\ x \notin S
                             /\ token'[x] = token[x] /\ pos'[x] = pos[x] /\ nxt'[x] = nxt[x]
                             /\ \A r \in Unit : x \in doneList'[r] => x \in doneList[r]
    <3>1. \A x \in main.mine : x \in Unit /\ token[x] = "mark"
      BY <1>5 DEF Inv, TypeOK, MainRec, SubInv
    <3>2. \A x \in main.mine : x \in Unit /\ x \notin S
      BY <3>1
    <3>3. \A x \in main.mine : token'[x] = token[x] /\ pos'[x] = pos[x] /\ nxt'[x] = nxt[x]
      BY <1>2, <3>2
    <3>4. ASSUME NEW x \in main.mine, NEW r \in Unit, x \in doneList'[r]
          PROVE  x \in doneList[r]
      BY <1>2, <3>2, <3>4 DEF Inv, TypeOK
    <3>5. QED BY <3>2, <3>3, <3>4
  <2>6. \A x \in list'[main.q] :
         \/ pos'[x] <= main.k /\ token'[x] = "active"
         \/ main.pc = "activate" /\ x \in main.mine /\ pos'[x] = main.k + 1
    BY <1>3, <1>5, <2>3 DEF Inv, SubInv
  <2>7. \A x \in main.mine :
         /\ kind[x] = "qTD" /\ token'[x] = "mark" /\ utrOf[x] = main.e
         /\ nxt'[x] = NULL /\ pos'[x] > main.k
         /\ pos'[x] <= main.k + Cardinality(main.mine)
         /\ \A r \in Unit : x \notin doneList'[r]
         /\ \A r \in Unit : x \in list'[r] => main.pc = "activate"
                               /\ r = main.q /\ pos'[x] = main.k + 1
    BY <1>3, <1>5, <2>5 DEF Inv, SubInv
  <2>8. \A x, y \in main.mine : pos'[x] = pos'[y] => x = y
    BY <1>5, <2>5 DEF Inv, SubInv
  <2>9. main.pc = "activate" =>
           \A x \in main.mine : pos'[x] = main.k + 1 => x \in list'[main.q]
    BY <1>5, <2>3, <2>5 DEF Inv, SubInv
  <2>10. QED
    <3>1. /\ IsFiniteSet(main.mine)
          /\ main.pc = "alloc" =>
               IF main.e \in CtrlEp
               THEN main.k = 0 /\ list'[main.q] = {}
                    /\ Cardinality(main.mine) + main.miss < main.n
               ELSE main.mine = {}
          /\ main.pc \in {"append", "activate"} /\ main.e \notin CtrlEp =>
               Cardinality(main.mine) = 1
          /\ main.pc \in {"append", "activate"} /\ main.e \in CtrlEp =>
               main.k + Cardinality(main.mine) = main.n
          /\ main.pc = "start" => main.mine = {}
      BY <1>5, <2>3 DEF Inv, SubInv
    <3>2. main' = main /\ kind' = kind /\ utrOf' = utrOf
      BY <1>2
    <3>3. QED BY <1>4, <1>5, <2>6, <2>7, <2>8, <2>9, <2>4, <3>1, <3>2 DEF SubInv,
       Sub
<1>6. CASE ~ Sub
  BY <1>4, <1>6 DEF SubInv, Sub
<1>7. QED BY <1>5, <1>6

(***************************************************************************)
(* The main loop.                                                          *)
(***************************************************************************)

\* A submission starts: the endpoint's QH is empty, or new and nobody else's.
LEMMA XferStartInv ==
    ASSUME Inv, ~ fault, ~ fault', XferStart
    PROVE  Inv'
<1>1. PICK e \in Ep, n \in Nat, u \in Unit : Starts(e, n, u)
  BY StartEffect
<1>2. \A f \in Ep : pipe[f] = u => f = e
  BY <1>1, EhciAssumption DEF Starts, Inv, TypeOK, PipeInv, QhInv, Sub
<1>3. \A q \in Unit : \A t \in list[q] : utrOf[t] \in Ep /\ utrOf[t] # e /\ pipe[utrOf[t]] = q
  BY <1>1, EhciAssumption DEF Starts, Inv, TypeOK, OwnerInv, Removes, Submits
<1>4. TypeOK'
  BY <1>1, EhciAssumption DEF Starts, Inv, TypeOK, qtdVars, linkVars, lostVars,
     hcVars
<1>5. UnitInv'
  BY <1>1 DEF Starts, Inv, TypeOK, UnitInv, OnList, qtdVars
<1>6. QhInv'
  BY <1>1 DEF Starts, Inv, TypeOK, QhInv, Removes, Linked, linkVars
<1>7. PipeInv'
  BY <1>1, <1>2, EhciAssumption DEF Starts, Inv, TypeOK, PipeInv, Sub, Linked,
     linkVars
<1>8. MainInv'
  BY <1>1 DEF Starts, Inv, TypeOK, MainInv, Sub, linkVars, Ep
<1>9. OwnerInv'
  BY <1>1, <1>3, EhciAssumption DEF Starts, Inv, TypeOK, OwnerInv, qtdVars
<1>10. RequestInv'
  BY <1>1, EhciAssumption DEF Starts, Inv, TypeOK, RequestInv, Sub, OnList,
     qtdVars, Ep, AsyncEp, IntEp, Submits
<1>11. HeldInv'
  BY <1>1 DEF Starts, Inv, HeldInv, Linked, linkVars, hcVars
<1>12. IsrInv'
  BY <1>1 DEF Starts, Inv, IsrInv
<1>13. ChainInv'
  BY <1>1 DEF Starts, Inv, TypeOK, ChainInv, Sub, qtdVars
<1>14. SubInv'
  <2>1. IsFiniteSet({}) /\ Cardinality({}) = 0
    BY FS_EmptySet
  <2>2. QED
    BY <1>1, <2>1, EhciAssumption DEF Starts, Inv, TypeOK, SubInv, Sub, Linked,
       qtdVars, linkVars
<1>15. NoLeak'
  <2>1. main.mine = {}
    BY <1>1 DEF Starts, Inv, MainInv, Sub
  <2>2. ASSUME NEW v \in Unit, kind'[v] = "QH"
        PROVE  v \in removing' \cup orphan' \/ \E f \in Ep : pipe'[f] = v
    <3>1. CASE v = u
      BY <3>1, <1>1 DEF Starts, Inv, TypeOK
    <3>2. CASE v # u
      <4>1. kind[v] = "QH"
        BY <2>2, <3>2, <1>1 DEF Starts, Inv, TypeOK
      <4>2. CASE v \in removing \cup orphan
        BY <4>2, <1>1 DEF Starts, linkVars, lostVars
      <4>3. CASE \E f \in Ep : pipe[f] = v
        BY <4>3, <3>2, <1>1, EhciAssumption DEF Starts, Inv, TypeOK
      <4>4. QED BY <4>1, <4>2, <4>3 DEF Starts, Inv, NoLeak
    <3>3. QED BY <3>1, <3>2
  <2>3. ASSUME NEW v \in Unit, kind'[v] = "qTD"
        PROVE  \E q \in Unit : v \in list'[q] \cup doneList'[q]
    BY <2>1, <2>3, <1>1 DEF Starts, Inv, TypeOK, NoLeak
  <2>4. QED BY <2>2, <2>3 DEF NoLeak
<1> QED BY <1>4, <1>5, <1>6, <1>7, <1>8, <1>9, <1>10, <1>11, <1>12, <1>13, <1>14,
   <1>15 DEF Inv

\* A qTD is allocated for the submission: it was free, so on no list.
LEMMA XferAllocQtdInv ==
    ASSUME Inv, ~ fault, ~ fault', XferAllocQtd
    PROVE  Inv'
<1> DEFINE c == Cardinality(main.mine)
<1>1. PICK t \in Free :
         /\ AllocQtd(t, main.e, main.k + c + 1)
         /\ main' = [main EXCEPT
               !.mine = @ \cup {t},
               !.pc = IF LastAlloc THEN "append" ELSE "alloc"]
         /\ LastAlloc => main.miss = 0
  <2>1. ~ (LastAlloc /\ main.miss > 0)
    BY DEF XferAllocQtd
  <2>2. main.miss \in Nat
    BY DEF Inv, TypeOK, MainRec
  <2>3. (IF ~ LastAlloc THEN "alloc" ELSE IF main.miss > 0 THEN "trap" ELSE "append")
           = IF LastAlloc THEN "append" ELSE "alloc"
    BY <2>1
  <2>4. LastAlloc => main.miss = 0
    BY <2>1, <2>2
  <2>5. PICK t \in Free :
           /\ AllocQtd(t, main.e, main.k + c + 1)
           /\ main' = [main EXCEPT !.mine = @ \cup {t},
                 !.pc = IF ~ LastAlloc THEN "alloc"
                        ELSE IF main.miss > 0 THEN "trap" ELSE "append"]
    BY DEF XferAllocQtd
  <2>6. QED BY <2>3, <2>4, <2>5
<1>2. /\ isr.pc = "off" /\ main.pc = "alloc"
      /\ UNCHANGED <<qhVars, linkVars, epVars, hcVars, isr, utrVars>>
  <2>1. fault' = fault
    BY NoNewFault DEF Inv, XferAllocQtd
  <2>2. QED BY <2>1 DEF XferAllocQtd, MainAt, epVars, lostVars
<1>3. /\ t \in Unit /\ kind[t] = "free" /\ t \notin main.mine
      /\ IsFiniteSet(main.mine) /\ c \in Nat
      /\ \A q \in Unit : t \notin list[q] /\ t \notin doneList[q]
  BY <1>1, <1>2, FS_CardinalityType DEF Free, Inv, SubInv, Sub, UnitInv
<1>4. IsFiniteSet(main.mine \cup {t}) /\ Cardinality(main.mine \cup {t}) = c + 1
  BY <1>3, FS_AddElement
<1>5. PICK p \in Nat : p = main.k + c + 1
  BY <1>3 DEF Inv, TypeOK, MainRec
<1>6. /\ kind' = [kind EXCEPT ![t] = "qTD"] /\ token' = [token EXCEPT ![t] = "mark"]
      /\ utrOf' = [utrOf EXCEPT ![t] = main.e] /\ pos' = [pos EXCEPT ![t] = p]
      /\ nxt' = [nxt EXCEPT ![t] = NULL]
  BY <1>1, <1>5 DEF AllocQtd
<1>7. /\ main'.e = main.e /\ main'.q = main.q /\ main'.new = main.new /\ main'.n = main.n
      /\ main'.k = main.k /\ main'.mine = main.mine \cup {t} /\ main'.miss = main.miss
      /\ main'.pc \in {"alloc", "append"} /\ main.miss \in Nat
      /\ main'.pc = "alloc" => main.e \in CtrlEp /\ c + 1 + main.miss < main.n
      /\ main'.pc = "append" => (main.e \in CtrlEp => c + 1 = main.n)
  <2>1. main.miss \in Nat /\ main.n \in Nat /\ (main.e \in CtrlEp => c + main.miss < main.n)
    BY <1>2 DEF Inv, TypeOK, MainRec, SubInv, Sub
  <2>2. LastAlloc => (main.e \in CtrlEp => c + 1 = main.n)
    BY <1>1, <1>3, <2>1 DEF LastAlloc
  <2>3. ~ LastAlloc => main.e \in CtrlEp /\ c + 1 + main.miss < main.n
    BY <1>3, <2>1 DEF LastAlloc
  <2>4. QED BY <1>1, <2>1, <2>2, <2>3 DEF Inv, TypeOK, MainRec
<1>8. main' \in MainRec
  BY <1>1, <1>3 DEF Inv, TypeOK, MainRec, MainPc
<1>9. TypeOK'
  BY <1>2, <1>3, <1>6, <1>8 DEF Inv, TypeOK, MainRec, UnitOrNull, qhVars, linkVars,
     epVars, lostVars, hcVars, utrVars
<1>10. UnitInv'
  BY <1>2, <1>3, <1>6, <1>7 DEF Inv, UnitInv, TypeOK, OnList, qhVars, qtdVars
<1>11. QhInv'
  BY <1>2, <1>3, <1>6, <1>7 DEF Inv, QhInv, TypeOK, Removes, Linked, linkVars, MainRec
<1>12. PipeInv'
  BY <1>2, <1>3, <1>6, <1>7 DEF Inv, PipeInv, TypeOK, Sub, Linked, linkVars, epVars, MainRec, Ep
<1>13. MainInv'
  BY <1>2, <1>3, <1>6, <1>7 DEF Inv, MainInv, TypeOK, Sub, linkVars, epVars, MainRec, Ep
<1>14. OwnerInv'
  BY <1>2, <1>3, <1>6, <1>7 DEF Inv, OwnerInv, UnitInv, TypeOK, Removes, qhVars, epVars, utrVars, Ep
<1>15. RequestInv'
  <2>1. \A q \in Unit : \A v \in list[q] : utrOf'[v] = utrOf[v]
    BY <1>2, <1>3, <1>6 DEF Inv, TypeOK
  <2>2. QED BY <1>2, <1>7, <2>1 DEF Inv, TypeOK, RequestInv, OnList, Sub, qhVars,
     utrVars
<1>16. HeldInv'
  BY <1>2, <1>3, <1>6, <1>7 DEF Inv, HeldInv, TypeOK, Linked, linkVars, hcVars, IsrRec
<1>17. IsrInv'
  BY <1>2, <1>3, <1>6, <1>7 DEF Inv, IsrInv, TypeOK, Sub, qhVars, linkVars, epVars, utrVars, MainRec,
     IsrRec, Ep
<1>18. ChainInv'
  BY <1>2, <1>3, <1>6, <1>7 DEF Inv, ChainInv, UnitInv, TypeOK, Sub, qhVars, Ep
<1>19. SubInv'
  <2>1. \A v \in main.mine : v # t /\ pos[v] > main.k /\ pos[v] <= main.k + c /\ pos[v] < p
    BY <1>2, <1>3, <1>5 DEF Inv, SubInv, Sub, TypeOK, MainRec
  <2>2. \A q \in Unit : \A v \in list[q] : v # t /\ token'[v] = token[v] /\ pos'[v] = pos[v]
    BY <1>3, <1>6 DEF Inv, TypeOK
  <2>3. main.e \in CtrlEp => main.k = 0 /\ list[main.q] = {}
    BY <1>2 DEF Inv, SubInv, Sub
  <2>4. main.e \notin CtrlEp => c = 0
    BY <1>2, FS_EmptySet DEF Inv, SubInv, Sub
  <2>5. /\ main.q \in Unit /\ kind[main.q] = "QH" /\ pipe[main.e] = main.q
        /\ live[main.e] /\ calls[main.e] = 0
        /\ main.new => main.q \notin Linked /\ doneList[main.q] = {}
        /\ main.k \in Nat /\ main.n \in Nat /\ main.mine \subseteq Unit
    BY <1>2 DEF Inv, SubInv, Sub, TypeOK, MainRec
  <2>6. \A q \in Unit : \A v \in list'[q] : token'[v] # "mark"
    BY <1>2, <2>2 DEF Inv, SubInv, qhVars
  <2>7. \A v \in list'[main'.q] : pos'[v] <= main'.k /\ token'[v] = "active"
    BY <1>2, <1>7, <2>2, <2>5 DEF Inv, SubInv, Sub, qhVars
  <2>8. \A v \in main'.mine :
          /\ kind'[v] = "qTD" /\ token'[v] = "mark" /\ utrOf'[v] = main'.e
          /\ nxt'[v] = NULL /\ pos'[v] > main'.k /\ pos'[v] <= main'.k + (c + 1)
          /\ \A q \in Unit : v \notin doneList'[q]
          /\ \A q \in Unit : v \notin list'[q]
    BY <1>2, <1>3, <1>5, <1>6, <1>7, <2>1, <2>5 DEF Inv, SubInv, Sub, TypeOK,
       qhVars
  <2>9. \A v, w \in main'.mine : pos'[v] = pos'[w] => v = w
    BY <1>2, <1>3, <1>5, <1>6, <1>7, <2>1, <2>5 DEF Inv, SubInv, Sub, TypeOK
  <2>10. /\ kind'[main'.q] = "QH" /\ pipe'[main'.e] = main'.q /\ main'.q \in Unit
         /\ live'[main'.e] /\ calls'[main'.e] = 0
         /\ main'.new => main'.q \notin Linked' /\ doneList'[main'.q] = {}
    BY <1>2, <1>3, <1>6, <1>7, <2>5 DEF Inv, TypeOK, qhVars, epVars, linkVars,
       utrVars, Linked
  <2>11. Cardinality(main'.mine) = c + 1 /\ IsFiniteSet(main'.mine)
    BY <1>4, <1>7
  <2>12. main'.pc = "alloc" => main'.e \in CtrlEp /\ main'.k = 0 /\ list'[main'.q] = {}
                                /\ c + 1 + main'.miss < main'.n
    BY <1>2, <1>7, <2>3 DEF qhVars
  <2>13. /\ main'.pc = "append" /\ main'.e \notin CtrlEp => c + 1 = 1
         /\ main'.pc = "append" /\ main'.e \in CtrlEp => main'.k + (c + 1) = main'.n
    BY <1>3, <1>7, <2>3, <2>4, <2>5
  <2>14. QED
    BY <1>7, <2>6, <2>7, <2>8, <2>9, <2>10, <2>11, <2>12, <2>13 DEF SubInv, Sub
<1>20. NoLeak'
  BY <1>2, <1>3, <1>6, <1>7 DEF Inv, NoLeak, TypeOK, qhVars, linkVars, epVars, lostVars, MainRec, Ep
<1> QED BY <1>9, <1>10, <1>11, <1>12, <1>13, <1>14, <1>15, <1>16, <1>17, <1>18, <1>19,
   <1>20 DEF Inv

\* No unit is left for a qTD: what the submission holds is freed, and nothing
\* else refers to it unless an old QH keeps its list.
LEMMA XferNoMemInv ==
    ASSUME Inv, ~ fault, ~ fault', XferNoMem
    PROVE  Inv'
<1>0. hc \notin Refused
  BY RefusedNotHeld
<1>1. /\ isr.pc = "off" /\ main.pc = "alloc" /\ main' = MainIdle
      /\ Wiped(Refused) /\ Dropped(Refused \cap {main.q}) /\ Released(main.e)
      /\ IF main.e \in CtrlEp \/ main.new THEN ClearPipe(main.e) ELSE UNCHANGED pipe
      /\ orphan' = IF main.e \in CtrlEp THEN orphan \cup {main.q} ELSE orphan
      /\ UNCHANGED <<doneList, linkVars, hcVars, isr>>
      /\ list'[main.q] = {} /\ fault' = fault
  <2>1. fault' = fault /\ list'[main.q] = {}
    BY NoNewFault DEF Inv, XferNoMem
  <2>2. Wiped(Refused)
    BY <1>0, FreeNotHeld DEF XferNoMem
  <2>3. Dropped(Refused \cap {main.q})
    BY <1>0, DropNotHeld DEF XferNoMem
  <2>4. QED BY <2>1, <2>2, <2>3 DEF XferNoMem, MainAt
<1>2. /\ main.e \in Ep /\ main.q \in Unit /\ pipe[main.e] = main.q /\ kind[main.q] = "QH"
      /\ main'.pc = "idle" /\ main'.mine = {} /\ main'.e = NULL
  BY <1>1, EhciAssumption DEF Inv, MainInv, SubInv, Sub, MainIdle
<1>3. main' \in MainRec
  BY <1>1 DEF MainRec, MainPc, MainIdle, EpOrNull, UnitOrNull
<1>4. TypeOK'
  <2>1. /\ kind' \in [Unit -> {"free", "QH", "qTD"}] /\ pos' \in [Unit -> Nat]
        /\ token' \in [Unit -> {"mark", "active", "ok", "err"}]
        /\ utrOf' \in [Unit -> EpOrNull] /\ nxt' \in [Unit -> UnitOrNull]
    BY <1>1 DEF Wiped, Inv, TypeOK, UnitOrNull, EpOrNull
  <2>2. /\ list' \in [Unit -> SUBSET Unit] /\ ol' \in [Unit -> UnitOrNull]
        /\ halt' \in [Unit -> BOOLEAN]
    BY <1>1 DEF Dropped, Inv, TypeOK, UnitOrNull
  <2>3. /\ live' \in [Ep -> BOOLEAN] /\ isDone' \in [Ep -> BOOLEAN]
        /\ status' \in [Ep -> {"ok", "err", "abort"}] /\ calls' \in [Ep -> 0 .. 2]
        /\ lateTo' \subseteq Ep
    BY <1>1, <1>2, ReleasedType DEF Inv
  <2>4. pipe' \in [Ep -> UnitOrNull] /\ orphan' \subseteq Unit
    BY <1>1, <1>2 DEF ClearPipe, Inv, TypeOK, UnitOrNull
  <2>5. fault' \in BOOLEAN
    BY <1>1 DEF Inv, TypeOK
  <2>6. QED BY <1>1, <1>3, <2>1, <2>2, <2>3, <2>4, <2>5 DEF Inv, TypeOK, linkVars,
     hcVars
<1>16. /\ \A q \in Unit : list'[q] = IF q = main.q THEN {} ELSE list[q]
       /\ \A q \in Unit : ol'[q] = IF q \in Refused THEN NULL ELSE ol[q]
       /\ ol[main.q] = NULL
       /\ \A u \in Unit \ Refused : /\ kind'[u] = kind[u] /\ token'[u] = token[u]
                                    /\ utrOf'[u] = utrOf[u] /\ pos'[u] = pos[u]
                                    /\ nxt'[u] = nxt[u]
       /\ \A u \in Unit \cap Refused : kind'[u] = "free" /\ token'[u] = "mark" /\ utrOf'[u] = NULL
       /\ doneList' = doneList
  <2>1. \A t \in main.mine \cup list[main.q] : kind[t] = "qTD"
    BY <1>1, <1>2 DEF Inv, SubInv, Sub, UnitInv
  <2>2. \A q \in Unit : q \in Refused /\ q # main.q => ol[q] = NULL
    BY <1>2, <2>1 DEF Refused, Inv, UnitInv
  <2>3. ol[main.q] = NULL
    BY <1>1, <1>2 DEF Inv, ChainInv, Sub
  <2>4. QED BY <1>1, <1>2, <2>2, <2>3 DEF Wiped, Dropped, Inv, TypeOK
<1>17. \A q \in Unit : \A t \in list'[q] :
          q # main.q /\ t \in list[q] /\ t \in Unit \ Refused /\ q \notin Refused
  <2>1. SUFFICES ASSUME NEW q \in Unit, NEW t \in list'[q]
                 PROVE  q # main.q /\ t \in list[q] /\ t \in Unit \ Refused /\ q \notin Refused
    OBVIOUS
  <2>2. q # main.q /\ t \in list[q] /\ t \in Unit
    BY <1>16, <2>1 DEF Inv, TypeOK
  <2>3. kind[q] = "QH" /\ kind[t] = "qTD" /\ t \notin list[main.q] /\ t \notin main.mine
    BY <1>1, <1>2, <2>2 DEF Inv, UnitInv, SubInv, Sub
  <2>4. \A u \in main.mine \cup list[main.q] : kind[u] = "qTD"
    BY <1>1, <1>2 DEF Inv, SubInv, Sub, UnitInv
  <2>5. QED BY <1>2, <2>2, <2>3, <2>4 DEF Refused
<1>5. UnitInv'
  <2>1. \A q \in Unit : \A t \in doneList[q] : t \in Unit \ Refused /\ kind[t] = "qTD"
    <3>1. ASSUME NEW q \in Unit, NEW t \in doneList[q]
          PROVE  t \in Unit /\ t \notin main.mine /\ t \notin list[main.q] /\ kind[t] = "qTD"
      BY <1>1, <1>2, <3>1 DEF Inv, TypeOK, UnitInv, SubInv, Sub
    <3>2. QED BY <1>2, <3>1 DEF Refused
  <2>2. \A u \in Unit : token'[u] # "mark" => \E q \in Unit : u \in list'[q]
    <3>1. SUFFICES ASSUME NEW u \in Unit, token'[u] # "mark" PROVE \E q \in Unit : u \in list'[q]
      OBVIOUS
    <3>2. u \notin Refused /\ token[u] # "mark"
      BY <1>16, <3>1
    <3>3. PICK q \in Unit : u \in list[q]
      BY <3>2 DEF Inv, UnitInv, OnList
    <3>4. q # main.q
      <4>1. CASE main.e \in CtrlEp
        BY <1>1, <3>3, <4>1 DEF Inv, SubInv, Sub
      <4>2. CASE main.e \notin CtrlEp
        BY <3>2, <3>3, <4>2 DEF Refused
      <4>3. QED BY <4>1, <4>2
    <3>5. QED BY <1>16, <3>3, <3>4
  <2>3. \A u \in Unit : kind'[u] # "QH" => list'[u] = {} /\ doneList'[u] = {} /\ ol'[u] = NULL
    <3>1. ASSUME NEW u \in Unit \cap Refused PROVE doneList[u] = {}
      <4>1. u = main.q => main.new
        BY <1>1, <1>2, <3>1 DEF Refused, Inv, SubInv, Sub, UnitInv
      <4>2. u # main.q => kind[u] = "qTD"
        BY <1>1, <1>2, <3>1 DEF Refused, Inv, SubInv, Sub, UnitInv
      <4>3. QED BY <1>1, <4>1, <4>2 DEF Inv, SubInv, Sub, UnitInv
    <3>2. \A u \in Unit \cap Refused : list'[u] = {}
      BY <1>17
    <3>3. QED BY <1>16, <3>1, <3>2 DEF Inv, UnitInv
  <2>4. QED BY <1>16, <1>17, <2>1, <2>2, <2>3 DEF Inv, UnitInv, OnList
<1>6. QhInv'
  BY <1>1, <1>2 DEF Inv, QhInv, SubInv, UnitInv, TypeOK, Sub, Removes, Linked, linkVars,
      Wiped, Refused, Dropped, ClearPipe, Released,
     MainIdle, Ep
<1>7. PipeInv'
  <2>1. ASSUME NEW e \in Ep, pipe'[e] # NULL
        PROVE  pipe'[e] = pipe[e] /\ kind'[pipe[e]] = "QH" /\ pipe[e] \in Linked
               /\ pipe[e] \notin removing
    <3>1. pipe'[e] = pipe[e]
      BY <1>1, <1>2, <2>1 DEF ClearPipe, Inv, TypeOK
    <3>2. pipe[e] \in Unit
      BY <3>1, <2>1 DEF Inv, TypeOK, UnitOrNull
    <3>3. e = main.e => ~ main.new /\ main.e \notin CtrlEp
      BY <1>1, <1>2, <2>1 DEF ClearPipe, Inv, TypeOK
    <3>4. kind[pipe[e]] = "QH" /\ pipe[e] \notin removing /\ pipe[e] \in Linked
      BY <1>1, <2>1, <3>1, <3>3 DEF Inv, PipeInv
    <3>5. pipe[e] \notin Refused
      <4>1. e # main.e => pipe[e] # main.q
        BY <1>2, <3>2, EhciAssumption DEF Inv, PipeInv
      <4>2. \A t \in main.mine \cup list[main.q] : kind[t] = "qTD"
        BY <1>1, <1>2 DEF Inv, SubInv, Sub, UnitInv
      <4>3. QED BY <3>3, <3>4, <4>1, <4>2 DEF Refused
    <3>6. QED BY <1>1, <3>1, <3>2, <3>4, <3>5 DEF Wiped
  <2>2. QED BY <1>1, <2>1 DEF Inv, PipeInv, Linked, linkVars
<1>8. MainInv'
  BY <1>1, <1>2 DEF Inv, MainInv, TypeOK, Sub, linkVars, epVars, MainRec, Wiped,
     Refused, Dropped, ClearPipe, Released, MainIdle, Ep
<1>9. OwnerInv'
  <2>1. SUFFICES ASSUME NEW q \in Unit, NEW t \in list'[q]
                 PROVE  /\ utrOf'[t] \in Ep /\ live'[utrOf'[t]] /\ calls'[utrOf'[t]] = 0
                        /\ pipe'[utrOf'[t]] = q /\ pos'[t] >= 1
                        /\ \A v \in list'[q] : pos'[v] = pos'[t] => v = t
    BY DEF OwnerInv
  <2>2. /\ q # main.q /\ t \in list[q] /\ t \in Unit \ Refused
        /\ \A v \in list'[q] : v \in list[q] /\ v \in Unit \ Refused
    BY <1>17, <2>1
  <2>3. /\ utrOf[t] \in Ep /\ live[utrOf[t]] /\ calls[utrOf[t]] = 0
        /\ pipe[utrOf[t]] = q /\ pos[t] >= 1
        /\ \A v \in list[q] : pos[v] = pos[t] => v = t
    BY <1>1, <2>2 DEF Inv, OwnerInv, Removes
  <2>4. utrOf[t] # main.e
    BY <1>2, <2>2, <2>3
  <2>5. /\ live'[utrOf[t]] = live[utrOf[t]] /\ calls'[utrOf[t]] = calls[utrOf[t]]
        /\ pipe'[utrOf[t]] = pipe[utrOf[t]]
    BY <1>1, <1>2, <2>3, <2>4 DEF Released, ClearPipe, Inv, TypeOK
  <2>6. QED BY <1>16, <2>2, <2>3, <2>5
<1>10. RequestInv'
  <2>1. ASSUME NEW e \in Ep, live'[e], calls'[e] = 0
        PROVE  \E t \in Unit, q \in Unit : t \in list'[q] /\ utrOf'[t] = e
    <3>1. e # main.e /\ live[e] /\ calls[e] = 0
      BY <1>1, <1>2, <2>1 DEF Released, Inv, TypeOK
    <3>2. PICK t \in Unit, q \in Unit : t \in list[q] /\ utrOf[t] = e
      BY <1>1, <3>1 DEF Inv, RequestInv, Sub, OnList
    <3>3. q # main.q
      <4>1. pipe[e] = q
        BY <1>1, <3>2 DEF Inv, OwnerInv, Removes
      <4>2. QED BY <1>2, <3>1, <4>1, EhciAssumption DEF Inv, PipeInv
    <3>4. t \notin Refused /\ q \notin Refused
      BY <1>1, <1>2, <3>1, <3>2, <3>3 DEF Refused, Inv, SubInv, Sub, UnitInv
    <3>5. QED BY <1>1, <3>2, <3>3, <3>4 DEF Wiped, Dropped
  <2>2. \A e \in AsyncEp : isDone'[e] => ~ live'[e] \/ calls'[e] = 1
    BY <1>1, <1>2 DEF Released, Inv, TypeOK, RequestInv, AsyncEp, Ep
  <2>3. lateTo' = {} /\ \A e \in Ep : calls'[e] <= 1
    BY <1>1, <1>2 DEF Released, Inv, TypeOK, RequestInv
  <2>4. QED BY <2>1, <2>2, <2>3 DEF RequestInv, OnList
<1>11. HeldInv'
  BY <1>1, <1>2 DEF Inv, HeldInv, TypeOK, Linked, linkVars, hcVars, IsrRec, Wiped,
     Refused, Dropped, ClearPipe, Released, MainIdle
<1>12. IsrInv'
  BY <1>1, <1>2 DEF Inv, IsrInv, TypeOK, Sub, qhVars, linkVars, epVars, utrVars, MainRec,
     IsrRec, Wiped, Refused, Dropped, ClearPipe,
     Released, MainIdle, Ep
<1>13. ChainInv'
  <2>1. \A q \in Unit : ol'[q] # NULL =>
          /\ q # main.q /\ ol'[q] = ol[q] /\ ol[q] \in list'[q] /\ token[ol[q]] = "active"
          /\ \A t \in list[q] : token[t] = "active" => pos[t] >= pos[ol[q]]
    BY <1>16 DEF Inv, ChainInv
  <2>2. \A q \in Unit : \A t \in list'[q] :
          /\ t \in list[q] /\ q # main.q /\ token'[t] = token[t] /\ pos'[t] = pos[t]
          /\ nxt'[t] = nxt[t]
    BY <1>16, <1>17
  <2>3. \A q \in Unit : \A t \in list'[q] :
          token[t] = "active" /\ nxt[t] # NULL =>
             /\ nxt[t] \in list'[q] /\ pos[nxt[t]] = pos[t] + 1
             /\ token[nxt[t]] = "active"
    BY <1>16, <2>2 DEF Inv, ChainInv
  <2>4. ~ Sub'
    BY <1>2 DEF Sub
  <2>5. \A q \in Unit : ol'[q] # NULL =>
          /\ ol'[q] \in list'[q] /\ token'[ol'[q]] = "active"
          /\ \A t \in list'[q] : token'[t] = "active" => pos'[t] >= pos'[ol'[q]]
    BY <2>1, <2>2
  <2>6. \A q \in Unit : \A t \in list'[q] :
          token'[t] = "active" /\ nxt'[t] # NULL =>
             /\ nxt'[t] \in list'[q] /\ pos'[nxt'[t]] = pos'[t] + 1
             /\ token'[nxt'[t]] = "active"
    BY <2>2, <2>3
  <2>7. QED BY <2>4, <2>5, <2>6 DEF ChainInv
<1>14. SubInv'
  <2>1. ~ Sub'
    BY <1>2 DEF Sub
  <2>2. \A q \in Unit : \A t \in list'[q] : token'[t] # "mark"
    BY <1>1, <1>16, <1>17 DEF Inv, SubInv
  <2>3. QED BY <2>1, <2>2 DEF SubInv
<1>15. NoLeak'
  BY <1>1, <1>2, SMTT(30) DEF Inv, NoLeak, SubInv, TypeOK, Sub, linkVars, MainRec,
     Wiped, Refused, Dropped, ClearPipe, Released, MainIdle, Ep
<1> QED BY <1>4, <1>5, <1>6, <1>7, <1>8, <1>9, <1>10, <1>11, <1>12, <1>13, <1>14,
   <1>15 DEF Inv

\* An allocation that is not tested fails: one less can be missing.
LEMMA XferMissQtdInv ==
    ASSUME Inv, ~ fault, ~ fault', XferMissQtd
    PROVE  Inv'
<1>1. /\ isr.pc = "off" /\ main.pc = "alloc" /\ ~ LastAlloc
      /\ main' = [main EXCEPT !.miss = @ + 1]
      /\ UNCHANGED <<kind, qhVars, qtdVars, linkVars, epVars, hcVars, isr, utrVars>>
  BY DEF XferMissQtd, MainAt
<1>2. /\ main'.pc = "alloc" /\ main'.e = main.e /\ main'.q = main.q
      /\ main'.new = main.new /\ main'.n = main.n /\ main'.k = main.k
      /\ main'.mine = main.mine /\ main'.miss = main.miss + 1 /\ main' \in MainRec
  BY <1>1 DEF Inv, TypeOK, MainRec
<1>3. TypeOK'
  BY <1>1, <1>2 DEF Inv, TypeOK, qhVars, qtdVars, linkVars, epVars, lostVars, hcVars,
     utrVars
<1>4. UnitInv' /\ OwnerInv' /\ HeldInv' /\ QhInv'
  BY <1>1, <1>2 DEF Inv, UnitInv, OwnerInv, HeldInv, QhInv, OnList, Removes, Linked,
     qhVars, qtdVars, linkVars, epVars, hcVars, utrVars
<1>5. PipeInv' /\ MainInv' /\ RequestInv' /\ IsrInv'
  BY <1>1, <1>2 DEF Inv, PipeInv, MainInv, RequestInv, IsrInv, OnList, Sub, Linked,
     qhVars, qtdVars, linkVars, epVars, utrVars
<1>6. ChainInv' /\ NoLeak'
  BY <1>1, <1>2 DEF Inv, ChainInv, NoLeak, Sub, qhVars, qtdVars, linkVars, epVars,
     lostVars
<1>7. SubInv'
  <2>1. /\ IsFiniteSet(main.mine) /\ main.miss \in Nat /\ main.n \in Nat
        /\ main.e \in CtrlEp /\ Cardinality(main.mine) + main.miss < main.n
    BY <1>1 DEF Inv, SubInv, Sub, TypeOK, MainRec, LastAlloc
  <2>2. Cardinality(main.mine) \in Nat
    BY <2>1, FS_CardinalityType
  <2>3. Cardinality(main.mine) + (main.miss + 1) < main.n
    BY <1>1, <2>1, <2>2 DEF LastAlloc
  <2>4. QED
    BY <1>1, <1>2, <2>1, <2>3 DEF Inv, SubInv, Sub, Linked, qhVars, qtdVars, linkVars,
       epVars, utrVars
<1> QED BY <1>3, <1>4, <1>5, <1>6, <1>7 DEF Inv

\* A control request is refused for its buffer: the QH that is lost has no qTD,
\* for its endpoint has nothing outstanding.
LEMMA XferOverrunInv ==
    ASSUME Inv, ~ fault, ~ fault', XferOverrun
    PROVE  Inv'
<1>1. PICK e \in CtrlEp : /\ Submits(e) /\ pipe[e] # NULL /\ ClearPipe(e)
                          /\ orphan' = orphan \cup {pipe[e]}
  BY DEF XferOverrun
<1>2. /\ isr.pc = "off" /\ main.pc = "idle" /\ ~ Sub
      /\ UNCHANGED <<kind, qhVars, qtdVars, linkVars, fault, hcVars, main, isr, utrVars>>
  BY DEF XferOverrun, MainAt, Sub
<1>3. /\ e \in Ep /\ pipe[e] \in Unit /\ pipe' = [pipe EXCEPT ![e] = NULL] /\ ~ live[e]
      /\ e \notin IntEp
  BY <1>1, EhciAssumption DEF ClearPipe, Inv, TypeOK, UnitOrNull, Ep, IntEp, AsyncEp, Submits
<1>4. \A q \in Unit : \A t \in list[q] : utrOf[t] # e
  BY <1>3 DEF Inv, OwnerInv
<1>5. TypeOK'
  BY <1>1, <1>2, <1>3 DEF Inv, TypeOK, UnitOrNull, qhVars, qtdVars, linkVars, hcVars,
     utrVars
<1>6. UnitInv' /\ HeldInv' /\ QhInv' /\ RequestInv'
  BY <1>2 DEF Inv, UnitInv, HeldInv, QhInv, RequestInv, OnList, Removes, Linked, Sub,
     qhVars, qtdVars, linkVars, hcVars, utrVars
<1>7. PipeInv' /\ MainInv'
  BY <1>2, <1>3 DEF Inv, TypeOK, PipeInv, MainInv, Sub, Linked, linkVars
<1>8. OwnerInv'
  BY <1>2, <1>3, <1>4 DEF Inv, TypeOK, OwnerInv, Removes, qhVars, qtdVars, linkVars,
     utrVars
<1>9. IsrInv' /\ ChainInv' /\ SubInv'
  BY <1>2 DEF Inv, IsrInv, ChainInv, SubInv, Sub, qhVars, qtdVars, linkVars, utrVars
<1>10. NoLeak'
  BY <1>1, <1>2, <1>3 DEF Inv, TypeOK, NoLeak, qhVars, linkVars
<1> QED BY <1>5, <1>6, <1>7, <1>8, <1>9, <1>10 DEF Inv

\* A bulk transfer without a qTD is a fault.
LEMMA XferGoEmptyInv ==
    ASSUME Inv, ~ fault, ~ fault', XferGoEmpty
    PROVE  Inv'
BY DEF XferGoEmpty

\* The next qTD is put on the list, still marked, and linked from the one
\* before.
LEMMA XferAppendInv ==
    ASSUME Inv, ~ fault, ~ fault', XferAppend
    PROVE  Inv'
<1>1. TypeOK'
  <2>1. main' \in MainRec
    BY DEF XferAppend, MainAt, Inv, TypeOK, MainRec, MainPc
  <2>2. PICK t \in main.mine :
          /\ list' = [list EXCEPT ![main.q] = @ \cup {t}]
          /\ nxt' = [u \in Unit |->
                        IF u \in list[main.q] /\ pos[u] = main.k THEN t ELSE nxt[u]]
    BY DEF XferAppend
  <2>3. t \in Unit
    BY DEF Inv, TypeOK, MainRec
  <2>4. list' \in [Unit -> SUBSET Unit] /\ nxt' \in [Unit -> UnitOrNull]
    BY <2>2, <2>3 DEF Inv, TypeOK, UnitOrNull
  <2>5. QED BY <2>1, <2>4 DEF XferAppend, Inv, TypeOK, linkVars, epVars, lostVars,
     hcVars, utrVars
<1>2. UnitInv'
  BY DEF Inv, UnitInv, SubInv, TypeOK, Sub, OnList, XferAppend, MainAt, Ep
<1>3. QhInv'
  BY DEF Inv, QhInv, TypeOK, Removes, Linked, linkVars, MainRec, XferAppend, MainAt
<1>4. PipeInv'
  BY DEF Inv, PipeInv, TypeOK, Sub, Linked, linkVars, epVars, MainRec, XferAppend,
     MainAt, Ep
<1>5. MainInv'
  BY DEF Inv, MainInv, TypeOK, Sub, linkVars, epVars, MainRec, XferAppend, MainAt,
     Ep
<1>6. OwnerInv'
  BY DEF Inv, OwnerInv, MainInv, SubInv, TypeOK, Removes, epVars, utrVars, MainRec,
     XferAppend, MainAt, Ep
<1>7. RequestInv'
  BY DEF Inv, RequestInv, TypeOK, Sub, OnList, qhVars, qtdVars, utrVars, MainRec,
     IsrRec, XferAppend, MainAt, Ep, AsyncEp
<1>8. HeldInv'
  BY DEF Inv, HeldInv, TypeOK, Linked, linkVars, hcVars, IsrRec, XferAppend, MainAt
<1>9. IsrInv'
  BY DEF Inv, IsrInv, TypeOK, Sub, qhVars, linkVars, epVars, utrVars, MainRec,
     IsrRec, XferAppend, MainAt, Ep
<1>10. ChainInv'
  BY DEF Inv, ChainInv, OwnerInv, SubInv, TypeOK, Sub, Removes, XferAppend, MainAt,
     Ep
<1>11. SubInv'
  BY DEF Inv, SubInv, TypeOK, Sub, Linked, qhVars, qtdVars, linkVars, epVars,
     utrVars, MainRec, XferAppend, MainAt
<1>12. NoLeak'
  BY DEF Inv, NoLeak, TypeOK, qhVars, linkVars, epVars, lostVars, MainRec,
     XferAppend, MainAt, Ep
<1> QED BY <1>1, <1>2, <1>3, <1>4, <1>5, <1>6, <1>7, <1>8, <1>9, <1>10, <1>11,
   <1>12 DEF Inv

\* The mark is taken off: from now on the controller may execute the qTD.
LEMMA XferActivateInv ==
    ASSUME Inv, ~ fault, ~ fault', XferActivate
    PROVE  Inv'
<1> DEFINE c == Cardinality(main.mine)
<1>1. PICK t \in main.mine :
         /\ pos[t] = main.k + 1
         /\ token' = [token EXCEPT ![t] = "active"]
         /\ main' = [main EXCEPT
                !.mine = @ \ {t}, !.k = @ + 1,
                !.pc = IF main.k + 1 = main.n THEN "start"
                       ELSE IF main.e \in CtrlEp THEN "append" ELSE "alloc"]
  BY DEF XferActivate
<1>2. /\ isr.pc = "off" /\ main.pc = "activate"
      /\ UNCHANGED <<kind, qhVars, utrOf, pos, nxt, linkVars, epVars, hcVars, isr, utrVars>>
  BY DEF XferActivate, MainAt
<1>3. /\ t \in Unit /\ t \in list[main.q] /\ main.q \in Unit
      /\ IsFiniteSet(main.mine) /\ c \in Nat /\ main.k \in Nat /\ main.n \in Nat
  BY <1>1, <1>2, FS_CardinalityType DEF Inv, TypeOK, MainRec, SubInv, Sub
<1>4. IsFiniteSet(main.mine \ {t}) /\ Cardinality(main.mine \ {t}) = c - 1
  BY <1>3, FS_RemoveElement
<1>5. PICK k \in Nat : k = main.k + 1
  BY <1>3
<1>6. PICK pc \in MainPc :
         /\ main' = [main EXCEPT !.mine = main.mine \ {t}, !.k = k, !.pc = pc]
         /\ \/ pc = "start" /\ main.k + 1 = main.n
            \/ pc = "append" /\ main.e \in CtrlEp /\ main.k + 1 # main.n
            \/ pc = "alloc" /\ main.e \notin CtrlEp /\ main.k + 1 # main.n
  BY <1>1, <1>5 DEF Inv, TypeOK, MainRec, MainPc
<1>7. /\ main'.e = main.e /\ main'.q = main.q /\ main'.new = main.new /\ main'.n = main.n
      /\ main'.k = main.k + 1 /\ main'.mine = main.mine \ {t}
      /\ \/ main'.pc = "start" /\ main.k + 1 = main.n
         \/ main'.pc = "append" /\ main.e \in CtrlEp /\ main.k + 1 # main.n
         \/ main'.pc = "alloc" /\ main.e \notin CtrlEp /\ main.k + 1 # main.n
  BY <1>5, <1>6 DEF Inv, TypeOK, MainRec
<1>8. main' \in MainRec
  BY <1>6 DEF Inv, TypeOK, MainRec
<1>9. TypeOK'
  <2>1. token' \in [Unit -> {"mark", "active", "ok", "err"}]
    BY <1>1, <1>3 DEF Inv, TypeOK
  <2>2. QED
    BY <1>2, <1>8, <2>1 DEF Inv, TypeOK, qhVars, linkVars, epVars, lostVars,
       hcVars, utrVars
<1>10. UnitInv'
  BY <1>1, <1>2, <1>3 DEF Inv, TypeOK, UnitInv, OnList, qhVars
<1>11. QhInv'
  BY DEF Inv, QhInv, TypeOK, Removes, Linked, linkVars, MainRec, XferActivate,
     MainAt
<1>12. PipeInv'
  BY DEF Inv, PipeInv, TypeOK, Sub, Linked, linkVars, epVars, MainRec,
     XferActivate, MainAt, Ep
<1>13. MainInv'
  BY DEF Inv, MainInv, TypeOK, Sub, linkVars, epVars, MainRec, XferActivate,
     MainAt, Ep
<1>14. OwnerInv'
  BY DEF Inv, OwnerInv, TypeOK, Removes, qhVars, qtdVars, linkVars, epVars,
     utrVars, MainRec, XferActivate, MainAt, Ep
<1>15. RequestInv'
  BY DEF Inv, RequestInv, TypeOK, Sub, OnList, qhVars, qtdVars, utrVars, MainRec,
     IsrRec, XferActivate, MainAt, Ep, AsyncEp
<1>16. HeldInv'
  BY DEF Inv, HeldInv, TypeOK, Linked, linkVars, hcVars, IsrRec, XferActivate,
     MainAt
<1>17. IsrInv'
  BY DEF Inv, IsrInv, TypeOK, Sub, qhVars, linkVars, epVars, utrVars, MainRec,
     IsrRec, XferActivate, MainAt, Ep
<1>18. ChainInv'
  BY DEF Inv, ChainInv, SubInv, TypeOK, Sub, qhVars, XferActivate, MainAt, Ep
<1>19. SubInv'
  <2>1. /\ main.q \in Unit /\ kind[main.q] = "QH" /\ pipe[main.e] = main.q
        /\ live[main.e] /\ calls[main.e] = 0
        /\ main.new => main.q \notin Linked /\ doneList[main.q] = {}
        /\ main.mine \subseteq Unit
        /\ main.e \notin CtrlEp => c = 1
        /\ main.e \in CtrlEp => main.k + c = main.n
    BY <1>2 DEF Inv, SubInv, Sub, TypeOK, MainRec
  <2>2. \A v \in main.mine : v # t => pos[v] > main.k + 1
    BY <1>1, <1>2, <1>3 DEF Inv, SubInv, Sub, TypeOK, MainRec
  <2>3. \A v \in main.mine \ {t} : \A q \in Unit : v \notin list[q]
    BY <1>2, <1>3, <2>2 DEF Inv, SubInv, Sub
  <2>4. \A q \in Unit : \A v \in list'[q] : token'[v] # "mark"
    <3>1. SUFFICES ASSUME NEW q \in Unit, NEW v \in list[q], v # t
                   PROVE  token[v] # "mark"
      BY <1>1, <1>2, <1>3 DEF Inv, TypeOK, qhVars
    <3>2. QED BY <1>2, <2>3, <3>1 DEF Inv, SubInv
  <2>5. \A v \in list'[main'.q] : pos'[v] <= main'.k /\ token'[v] = "active"
    <3>1. \A v \in list[main.q] : v # t => pos[v] <= main.k /\ token[v] = "active"
      BY <1>2, <1>3, <2>3 DEF Inv, SubInv, Sub
    <3>2. QED
      BY <1>1, <1>2, <1>3, <1>7, <3>1 DEF Inv, TypeOK, qhVars
  <2>6. \A v \in main'.mine :
          /\ kind'[v] = "qTD" /\ token'[v] = "mark" /\ utrOf'[v] = main'.e
          /\ nxt'[v] = NULL /\ pos'[v] > main'.k /\ pos'[v] <= main'.k + (c - 1)
          /\ \A q \in Unit : v \notin doneList'[q]
          /\ \A q \in Unit : v \notin list'[q]
    BY <1>1, <1>2, <1>3, <1>7, <2>1, <2>2, <2>3 DEF Inv, SubInv, Sub, TypeOK,
       qhVars
  <2>7. \A v, w \in main'.mine : pos'[v] = pos'[w] => v = w
    BY <1>2, <1>7 DEF Inv, SubInv, Sub
  <2>8. /\ kind'[main'.q] = "QH" /\ pipe'[main'.e] = main'.q /\ main'.q \in Unit
        /\ live'[main'.e] /\ calls'[main'.e] = 0
        /\ main'.new => main'.q \notin Linked' /\ doneList'[main'.q] = {}
    BY <1>2, <1>7, <2>1 DEF qhVars, epVars, linkVars, utrVars, Linked
  <2>9. Cardinality(main'.mine) = c - 1 /\ IsFiniteSet(main'.mine)
    BY <1>4, <1>7
  <2>10. /\ main'.pc = "alloc" => main'.e \notin CtrlEp
         /\ main'.pc = "append" => main'.e \in CtrlEp /\ main'.k + (c - 1) = main'.n
    BY <1>3, <1>7, <2>1
  <2>11. main'.pc \in {"alloc", "start"} => main'.mine = {}
    <3>1. main'.pc \in {"alloc", "start"} => c - 1 = 0
      BY <1>3, <1>7, <2>1
    <3>2. QED BY <1>4, <1>7, <3>1, FS_EmptySet
  <2>12. QED
    BY <1>7, <2>4, <2>5, <2>6, <2>7, <2>8, <2>9, <2>10, <2>11 DEF SubInv, Sub
<1>20. NoLeak'
  BY <1>2, <1>3, <1>7 DEF Inv, NoLeak, qhVars, linkVars, epVars, lostVars
<1> QED BY <1>9, <1>10, <1>11, <1>12, <1>13, <1>14, <1>15, <1>16, <1>17, <1>18, <1>19,
   <1>20 DEF Inv

\* The QH is linked, or its overlay is set to the first qTD.
LEMMA XferGoInv ==
    ASSUME Inv, ~ fault, ~ fault', XferGo
    PROVE  Inv'
<1>1. TypeOK'
  <2>1. main' \in MainRec
    BY DEF XferGo, MainAt, Inv, TypeOK, MainRec, MainPc, MainIdle, EpOrNull,
       UnitOrNull
  <2>2. main.q \in Unit /\ main.new \in BOOLEAN
    BY DEF XferGo, MainAt, Inv, TypeOK, SubInv, Sub, MainRec
  <2>3. ol' \in [Unit -> UnitOrNull]
    BY <2>2 DEF XferGo, Inv, TypeOK, UnitOrNull
  <2>4. halt' \in [Unit -> BOOLEAN]
    BY <2>2 DEF XferGo, Inv, TypeOK
  <2>5. async' \subseteq Unit /\ periodic' \subseteq Unit
    BY <2>2 DEF XferGo, LinkQh, Inv, TypeOK
  <2>6. QED BY <2>1, <2>3, <2>4, <2>5 DEF XferGo, Inv, TypeOK, qtdVars, epVars,
     lostVars, hcVars, utrVars
<1>2. UnitInv'
  BY DEF Inv, UnitInv, TypeOK, OnList, qhVars, qtdVars, XferGo, MainAt, LinkQh,
     MainIdle
<1>3. QhInv'
  BY EhciAssumption DEF Inv, QhInv, SubInv, TypeOK, Sub, Removes, Linked, XferGo,
     MainAt, LinkQh, MainIdle, Ep
<1>4. PipeInv'
  BY DEF Inv, PipeInv, SubInv, TypeOK, Linked, epVars, XferGo, MainAt, LinkQh,
     MainIdle, Ep, AsyncEp, IntEp
<1>5. MainInv'
  BY EhciAssumption DEF Inv, MainInv, SubInv, TypeOK, Sub, epVars, XferGo, MainAt,
     LinkQh, MainIdle, Ep
<1>6. OwnerInv'
  BY DEF Inv, OwnerInv, TypeOK, Removes, qhVars, qtdVars, linkVars, epVars,
     utrVars, MainRec, XferGo, MainAt, LinkQh, MainIdle, Ep
<1>7. RequestInv'
  BY EhciAssumption DEF Inv, RequestInv, OwnerInv, PipeInv, MainInv, SubInv,
     TypeOK, Removes, OnList, qtdVars, utrVars, MainRec, XferGo, MainAt, LinkQh,
     MainIdle, Ep, AsyncEp
<1>8. HeldInv'
  BY DEF Inv, HeldInv, TypeOK, Linked, linkVars, hcVars, IsrRec, XferGo, MainAt,
     LinkQh, MainIdle
<1>9. IsrInv'
  BY DEF Inv, IsrInv, TypeOK, Sub, qhVars, linkVars, epVars, utrVars, MainRec,
     IsrRec, XferGo, MainAt, LinkQh, MainIdle, Ep
<1>10. ChainInv'
  BY DEF Inv, ChainInv, OwnerInv, SubInv, TypeOK, Sub, qtdVars, XferGo, MainAt,
     LinkQh, MainIdle, Ep
<1>11. SubInv'
  BY DEF Inv, SubInv, TypeOK, Sub, Linked, qhVars, qtdVars, linkVars, epVars,
     utrVars, MainRec, XferGo, MainAt, LinkQh, MainIdle
<1>12. NoLeak'
  BY DEF Inv, NoLeak, SubInv, TypeOK, Sub, epVars, lostVars, XferGo, MainAt,
     LinkQh, MainIdle, Ep
<1> QED BY <1>1, <1>2, <1>3, <1>4, <1>5, <1>6, <1>7, <1>8, <1>9, <1>10, <1>11,
   <1>12 DEF Inv

\* usbh_ctrl_xfer sees its request done and gives it back.
LEMMA CtrlDoneInv ==
    ASSUME Inv, ~ fault, ~ fault', CtrlDone
    PROVE  Inv'
<1>1. TypeOK'
  <2>1. main' \in MainRec
    BY DEF Inv, TypeOK, UnitOrNull, EpOrNull, MainPc, MainRec, CtrlDone, MainAt,
       Released, MainIdle, Ep, AsyncEp, IntEp
  <2>2. isr' \in IsrRec
    BY DEF Inv, TypeOK, CtrlDone, MainAt, Released, MainIdle, Ep, AsyncEp, IntEp
  <2>3. QED
    BY <2>1, <2>2 DEF Inv, TypeOK, MainInv, qhVars, qtdVars, linkVars, epVars,
       lostVars, hcVars, CtrlDone, MainAt, Released, MainIdle, Ep, AsyncEp, IntEp
<1>2. UnitInv'
  BY DEF Inv, UnitInv, TypeOK, OnList, qhVars, qtdVars, CtrlDone, MainAt, Released,
     MainIdle
<1>3. QhInv'
  BY DEF Inv, QhInv, TypeOK, Removes, Linked, linkVars, MainRec, CtrlDone, MainAt,
     Released, MainIdle
<1>4. PipeInv'
  BY DEF Inv, PipeInv, TypeOK, Sub, Linked, linkVars, epVars, MainRec, CtrlDone,
     MainAt, Released, MainIdle, Ep
<1>5. MainInv'
  BY DEF Inv, MainInv, TypeOK, Sub, linkVars, epVars, MainRec, CtrlDone, MainAt,
     Released, MainIdle, Ep
<1>6. OwnerInv'
  <2>1. \A q \in Unit : \A t \in list[q] : utrOf[t] # main.e
    BY DEF CtrlDone, MainAt, Inv, OwnerInv, RequestInv, MainInv, AsyncEp
  <2>2. QED BY <2>1 DEF CtrlDone, MainAt, Released, Inv, TypeOK, OwnerInv, QhInv,
     Removes, qhVars, qtdVars, linkVars, epVars
<1>7. RequestInv'
  BY DEF Inv, RequestInv, TypeOK, Sub, OnList, qhVars, qtdVars, utrVars, MainRec,
     IsrRec, CtrlDone, MainAt, Released, MainIdle, Ep, AsyncEp
<1>8. HeldInv'
  BY DEF Inv, HeldInv, TypeOK, Linked, linkVars, hcVars, IsrRec, CtrlDone, MainAt,
     Released, MainIdle
<1>9. IsrInv'
  BY DEF Inv, IsrInv, TypeOK, Sub, qhVars, linkVars, epVars, utrVars, MainRec,
     IsrRec, CtrlDone, MainAt, Released, MainIdle, Ep
<1>10. ChainInv'
  BY DEF Inv, ChainInv, TypeOK, Sub, qhVars, qtdVars, MainRec, CtrlDone, MainAt,
     Released, MainIdle
<1>11. SubInv'
  BY DEF Inv, SubInv, TypeOK, Sub, Linked, qhVars, qtdVars, linkVars, epVars,
     utrVars, MainRec, CtrlDone, MainAt, Released, MainIdle
<1>12. NoLeak'
  <2>1. main.mine = {}
    BY DEF CtrlDone, MainAt, Inv, MainInv, Sub
  <2>2. QED BY <2>1 DEF CtrlDone, Inv, NoLeak, qhVars, linkVars, epVars, lostVars
<1> QED BY <1>1, <1>2, <1>3, <1>4, <1>5, <1>6, <1>7, <1>8, <1>9, <1>10, <1>11,
   <1>12 DEF Inv

\* msc_bulk_transfer sees its request done and gives it back.
LEMMA BulkDoneInv ==
    ASSUME Inv, ~ fault, ~ fault', BulkDone
    PROVE  Inv'
<1>1. TypeOK'
  <2>1. main' \in MainRec
    BY DEF Inv, TypeOK, BulkDone, MainAt, Released, Ep, AsyncEp, IntEp
  <2>2. isr' \in IsrRec
    BY DEF Inv, TypeOK, BulkDone, MainAt, Released, Ep, AsyncEp, IntEp
  <2>3. QED
    BY <2>1, <2>2 DEF Inv, TypeOK, qhVars, qtdVars, linkVars, epVars, lostVars,
       hcVars, BulkDone, MainAt, Released, Ep, AsyncEp, IntEp
<1>2. UnitInv'
  BY DEF Inv, UnitInv, TypeOK, OnList, qhVars, qtdVars, BulkDone, MainAt, Released
<1>3. QhInv'
  BY DEF Inv, QhInv, TypeOK, Removes, Linked, linkVars, MainRec, BulkDone, MainAt,
     Released
<1>4. PipeInv'
  BY DEF Inv, PipeInv, TypeOK, Sub, Linked, linkVars, epVars, MainRec, BulkDone,
     MainAt, Released, Ep
<1>5. MainInv'
  BY DEF Inv, MainInv, TypeOK, Sub, linkVars, epVars, MainRec, BulkDone, MainAt,
     Released, Ep
<1>6. OwnerInv'
  <2>1. PICK e \in BulkEp : live[e] /\ isDone[e] /\ Released(e)
    BY DEF BulkDone
  <2>2. \A q \in Unit : \A t \in list[q] : utrOf[t] # e
    BY <2>1 DEF Inv, OwnerInv, RequestInv, AsyncEp
  <2>3. QED BY <2>1, <2>2 DEF BulkDone, Released, Inv, TypeOK, OwnerInv, Removes,
     qhVars, qtdVars, linkVars, epVars
<1>7. RequestInv'
  BY DEF Inv, RequestInv, TypeOK, Sub, OnList, qhVars, qtdVars, utrVars, MainRec,
     IsrRec, BulkDone, MainAt, Released, Ep, AsyncEp
<1>8. HeldInv'
  BY DEF Inv, HeldInv, TypeOK, Linked, linkVars, hcVars, IsrRec, BulkDone, MainAt,
     Released
<1>9. IsrInv'
  BY DEF Inv, IsrInv, TypeOK, Sub, qhVars, linkVars, epVars, utrVars, MainRec,
     IsrRec, BulkDone, MainAt, Released, Ep
<1>10. ChainInv'
  BY DEF Inv, ChainInv, TypeOK, Sub, qhVars, qtdVars, MainRec, BulkDone, MainAt,
     Released
<1>11. SubInv'
  BY DEF Inv, SubInv, TypeOK, Sub, Linked, qhVars, qtdVars, linkVars, epVars,
     utrVars, MainRec, BulkDone, MainAt, Released
<1>12. NoLeak'
  BY DEF Inv, NoLeak, TypeOK, qhVars, linkVars, epVars, lostVars, MainRec,
     BulkDone, MainAt, Released, Ep
<1> QED BY <1>1, <1>2, <1>3, <1>4, <1>5, <1>6, <1>7, <1>8, <1>9, <1>10, <1>11,
   <1>12 DEF Inv

\* A quit begins: the endpoint has a QH.
LEMMA QuitStartInv ==
    ASSUME Inv, ~ fault, ~ fault', QuitStart
    PROVE  Inv'
<1>1. /\ isr.pc = "off" /\ main.pc \in {"idle", "wait"}
      /\ UNCHANGED <<kind, qhVars, qtdVars, linkVars, epVars, hcVars, isr, utrVars>>
  BY DEF QuitStart, MainAt
<1>2. \E e \in Ep :
         /\ pipe[e] # NULL /\ main'.pc = "unlink" /\ main'.e = e /\ main'.q = pipe[e]
         /\ main'.mine = {} /\ main' \in MainRec
  <2>1. pipe \in [Ep -> UnitOrNull]
    BY DEF Inv, TypeOK
  <2>2. CASE main.pc = "wait"
    <3>1. main.e \in Ep /\ pipe[main.e] # NULL /\ main.mine = {}
      BY <2>2 DEF Inv, MainInv, Sub
    <3>2. main' = [main EXCEPT !.pc = "unlink", !.q = pipe[main.e]]
      BY <2>2 DEF QuitStart, MainAt
    <3>3. QED BY <2>1, <3>1, <3>2 DEF Inv, TypeOK, MainRec, MainPc
  <2>3. CASE main.pc = "idle"
    <3>1. PICK e \in Ep : /\ pipe[e] # NULL
                          /\ main' = [MainIdle EXCEPT !.pc = "unlink", !.e = e,
                                                      !.q = pipe[e]]
      BY <2>3 DEF QuitStart, MainAt
    <3>2. main' = [pc |-> "unlink", e |-> e, q |-> pipe[e], new |-> FALSE,
                   n |-> 0, k |-> 0, miss |-> 0, mine |-> {}]
      BY <3>1 DEF MainIdle
    <3>3. main' \in MainRec
      <4>1. pipe[e] \in UnitOrNull /\ e \in EpOrNull /\ "unlink" \in MainPc
        BY <2>1, <3>1 DEF MainPc, EpOrNull
      <4>2. QED BY <3>2, <4>1 DEF MainRec
    <3>4. /\ main'.pc = "unlink" /\ main'.e = e /\ main'.q = pipe[e]
          /\ main'.mine = {}
      BY <3>2
    <3>5. QED BY <3>1, <3>3, <3>4
  <2>4. QED BY <1>1, <2>2, <2>3
<1>3. PICK e \in Ep :
         /\ pipe[e] # NULL /\ main'.pc = "unlink" /\ main'.e = e /\ main'.q = pipe[e]
         /\ main'.mine = {} /\ main' \in MainRec
  BY <1>2
<1>4. main.mine = {} /\ pipe[e] \in Unit
  BY <1>1, <1>3 DEF Inv, MainInv, Sub, TypeOK, UnitOrNull
<1>5. TypeOK'
  BY <1>1, <1>3, <1>4 DEF Inv, TypeOK, qhVars, qtdVars, linkVars, epVars, lostVars,
     hcVars, utrVars
<1>6. UnitInv'
  BY <1>1, <1>3, <1>4 DEF Inv, UnitInv, OnList, qhVars, qtdVars
<1>7. QhInv'
  BY <1>1, <1>3, <1>4 DEF Inv, QhInv, Removes, Linked, linkVars
<1>8. PipeInv'
  BY <1>1, <1>3, <1>4 DEF Inv, PipeInv, Sub, Linked, linkVars, epVars
<1>9. MainInv'
  BY <1>1, <1>3, <1>4 DEF Inv, MainInv, Sub, linkVars, epVars
<1>10. OwnerInv'
  BY <1>1, <1>3, <1>4 DEF Inv, OwnerInv, Removes, qhVars, qtdVars, linkVars,
     epVars, utrVars
<1>11. RequestInv'
  BY <1>1, <1>3, <1>4 DEF Inv, RequestInv, Sub, OnList, qhVars, qtdVars, utrVars
<1>12. HeldInv'
  BY <1>1, <1>3, <1>4 DEF Inv, HeldInv, Linked, linkVars, hcVars
<1>13. IsrInv'
  BY <1>1, <1>3, <1>4 DEF Inv, IsrInv, Sub, qhVars, linkVars, epVars, utrVars
<1>14. ChainInv'
  BY <1>1, <1>3, <1>4 DEF Inv, ChainInv, Sub, qhVars, qtdVars
<1>15. SubInv'
  BY <1>1, <1>3, <1>4 DEF Inv, SubInv, Sub, Linked, qhVars, qtdVars, linkVars,
     epVars, utrVars
<1>16. NoLeak'
  BY <1>1, <1>3, <1>4 DEF Inv, NoLeak, qhVars, linkVars, epVars, lostVars
<1> QED BY <1>5, <1>6, <1>7, <1>8, <1>9, <1>10, <1>11, <1>12, <1>13, <1>14, <1>15,
   <1>16 DEF Inv

\* The QH is unlinked and waits for the doorbell; the controller may still
\* hold it.
LEMMA move_qh_to_remove_listInv ==
    ASSUME Inv, ~ fault, ~ fault', move_qh_to_remove_list
    PROVE  Inv'
<1>1. TypeOK'
  <2>1. main' \in MainRec
    BY DEF move_qh_to_remove_list, Inv, TypeOK, MainRec, MainPc
  <2>2. /\ async' \subseteq Unit /\ periodic' \subseteq Unit /\ removing' \subseteq Unit
        /\ iaad' \in BOOLEAN /\ early' \in BOOLEAN
    BY DEF move_qh_to_remove_list, Unlink, Linked, Inv, TypeOK, linkVars
  <2>3. QED BY <2>1, <2>2 DEF move_qh_to_remove_list, Inv, TypeOK, qhVars, qtdVars,
     epVars, lostVars, utrVars
<1>2. UnitInv'
  BY DEF Inv, UnitInv, TypeOK, OnList, qhVars, qtdVars, move_qh_to_remove_list,
     MainAt, Unlink
<1>3. QhInv'
  BY DEF Inv, QhInv, TypeOK, Removes, Linked, linkVars, MainRec,
     move_qh_to_remove_list, MainAt, Unlink
<1>4. PipeInv'
  BY DEF Inv, PipeInv, MainInv, TypeOK, Linked, linkVars, epVars,
     move_qh_to_remove_list, MainAt, Unlink, Ep
<1>5. MainInv'
  BY EhciAssumption DEF Inv, MainInv, PipeInv, TypeOK, Sub, epVars,
     move_qh_to_remove_list, MainAt, Unlink, Ep
<1>6. OwnerInv'
  BY DEF Inv, OwnerInv, TypeOK, Removes, qhVars, qtdVars, linkVars, epVars,
     utrVars, MainRec, move_qh_to_remove_list, MainAt, Unlink, Ep
<1>7. RequestInv'
  BY DEF Inv, RequestInv, TypeOK, Sub, OnList, qhVars, qtdVars, utrVars, MainRec,
     IsrRec, move_qh_to_remove_list, MainAt, Unlink, Ep, AsyncEp
<1>8. HeldInv'
  <2>1. /\ isr.pc = "off" /\ UNCHANGED <<usts, hc, isr>> /\ ~ isr.iaa
        /\ (Unlink(main.q) \/ UNCHANGED linkVars)
    BY DEF move_qh_to_remove_list, MainAt, Inv, HeldInv
  <2>2. CASE UNCHANGED linkVars
    BY <2>1, <2>2 DEF Inv, HeldInv, Linked, linkVars
  <2>3. CASE Unlink(main.q)
    <3>1. removing \subseteq {}
      BY DEF move_qh_to_remove_list, MainAt, Inv, QhInv, Removes
    <3>2. QED BY <2>1, <2>3, <3>1 DEF Unlink, Inv, HeldInv, Linked
  <2>4. QED BY <2>1, <2>2, <2>3
<1>9. IsrInv'
  BY DEF Inv, IsrInv, TypeOK, Sub, qhVars, linkVars, epVars, utrVars, MainRec,
     IsrRec, move_qh_to_remove_list, MainAt, Unlink, Ep
<1>10. ChainInv'
  BY DEF Inv, ChainInv, TypeOK, Sub, qhVars, qtdVars, MainRec,
     move_qh_to_remove_list, MainAt, Unlink
<1>11. SubInv'
  BY DEF Inv, SubInv, TypeOK, Sub, Linked, qhVars, qtdVars, linkVars, epVars,
     utrVars, MainRec, move_qh_to_remove_list, MainAt, Unlink
<1>12. NoLeak'
  BY DEF Inv, NoLeak, TypeOK, qhVars, linkVars, epVars, lostVars, MainRec,
     move_qh_to_remove_list, MainAt, Unlink, Ep
<1> QED BY <1>1, <1>2, <1>3, <1>4, <1>5, <1>6, <1>7, <1>8, <1>9, <1>10, <1>11,
   <1>12 DEF Inv

\* hw_pipe is cleared.
LEMMA QuitClearInv ==
    ASSUME Inv, ~ fault, ~ fault', QuitClear
    PROVE  Inv'
<1>1. TypeOK'
  <2>1. main' \in MainRec
    BY DEF Inv, TypeOK, MainPc, MainRec, QuitClear, MainAt, ClearPipe, Ep, AsyncEp,
       IntEp
  <2>2. isr' \in IsrRec
    BY DEF Inv, TypeOK, QuitClear, MainAt, ClearPipe, Ep, AsyncEp, IntEp
  <2>3. QED
    BY <2>1, <2>2 DEF Inv, TypeOK, qhVars, qtdVars, linkVars, lostVars, hcVars,
       utrVars, UnitOrNull, QuitClear, MainAt, ClearPipe, Ep, AsyncEp, IntEp
<1>2. UnitInv'
  BY DEF Inv, UnitInv, TypeOK, OnList, qhVars, qtdVars, QuitClear, MainAt,
     ClearPipe
<1>3. QhInv'
  BY DEF Inv, QhInv, TypeOK, Removes, Linked, linkVars, MainRec, QuitClear, MainAt,
     ClearPipe
<1>4. PipeInv'
  BY DEF Inv, PipeInv, TypeOK, Sub, Linked, linkVars, epVars, MainRec, QuitClear,
     MainAt, ClearPipe, Ep
<1>5. MainInv'
  BY DEF Inv, MainInv, TypeOK, Sub, linkVars, epVars, MainRec, QuitClear, MainAt,
     ClearPipe, Ep
<1>6. OwnerInv'
  BY DEF Inv, OwnerInv, MainInv, UnitInv, TypeOK, Removes, qhVars, qtdVars,
     linkVars, utrVars, QuitClear, MainAt, ClearPipe, Ep
<1>7. RequestInv'
  BY DEF Inv, RequestInv, TypeOK, Sub, OnList, qhVars, qtdVars, utrVars, MainRec,
     IsrRec, QuitClear, MainAt, ClearPipe, Ep, AsyncEp
<1>8. HeldInv'
  BY DEF Inv, HeldInv, TypeOK, Linked, linkVars, hcVars, IsrRec, QuitClear, MainAt,
     ClearPipe
<1>9. IsrInv'
  BY DEF Inv, IsrInv, TypeOK, Sub, qhVars, linkVars, epVars, utrVars, MainRec,
     IsrRec, QuitClear, MainAt, ClearPipe, Ep
<1>10. ChainInv'
  BY DEF Inv, ChainInv, TypeOK, Sub, qhVars, qtdVars, MainRec, QuitClear, MainAt,
     ClearPipe
<1>11. SubInv'
  BY DEF Inv, SubInv, TypeOK, Sub, Linked, qhVars, qtdVars, linkVars, epVars,
     utrVars, MainRec, QuitClear, MainAt, ClearPipe
<1>12. NoLeak'
  BY DEF Inv, NoLeak, MainInv, TypeOK, qhVars, linkVars, lostVars, QuitClear,
     MainAt, ClearPipe, Ep
<1> QED BY <1>1, <1>2, <1>3, <1>4, <1>5, <1>6, <1>7, <1>8, <1>9, <1>10, <1>11,
   <1>12 DEF Inv

\* The delay of ehci_quit_xfer is over and the QH is gone.
LEMMA QuitDelayInv ==
    ASSUME Inv, ~ fault, ~ fault', QuitDelay
    PROVE  Inv'
<1>1. TypeOK'
  <2>1. main' \in MainRec
    BY DEF Inv, TypeOK, UnitOrNull, EpOrNull, MainPc, MainRec, QuitDelay, MainAt,
       Released, MainIdle, Ep, AsyncEp, IntEp
  <2>2. isr' \in IsrRec
    BY DEF Inv, TypeOK, QuitDelay, MainAt, Released, MainIdle, Ep, AsyncEp, IntEp
  <2>3. QED
    BY <2>1, <2>2 DEF Inv, TypeOK, MainInv, qhVars, qtdVars, linkVars, epVars,
       lostVars, hcVars, QuitDelay, MainAt, Released, MainIdle, Ep, AsyncEp, IntEp
<1>2. UnitInv'
  BY DEF Inv, UnitInv, TypeOK, OnList, qhVars, qtdVars, QuitDelay, MainAt,
     Released, MainIdle
<1>3. QhInv'
  BY DEF Inv, QhInv, TypeOK, Removes, Linked, linkVars, MainRec, QuitDelay, MainAt,
     Released, MainIdle
<1>4. PipeInv'
  BY DEF Inv, PipeInv, TypeOK, Sub, Linked, linkVars, epVars, MainRec, QuitDelay,
     MainAt, Released, MainIdle, Ep
<1>5. MainInv'
  BY DEF Inv, MainInv, TypeOK, Sub, linkVars, epVars, MainRec, QuitDelay, MainAt,
     Released, MainIdle, Ep
<1>6. OwnerInv'
  BY EhciAssumption DEF Inv, OwnerInv, MainInv, TypeOK, Removes, qhVars, qtdVars,
     epVars, QuitDelay, MainAt, Released, MainIdle, Ep
<1>7. RequestInv'
  BY DEF Inv, RequestInv, TypeOK, Sub, OnList, qhVars, qtdVars, utrVars, MainRec,
     IsrRec, QuitDelay, MainAt, Released, MainIdle, Ep, AsyncEp
<1>8. HeldInv'
  BY DEF Inv, HeldInv, TypeOK, Linked, linkVars, hcVars, IsrRec, QuitDelay, MainAt,
     Released, MainIdle
<1>9. IsrInv'
  BY DEF Inv, IsrInv, TypeOK, Sub, qhVars, linkVars, epVars, utrVars, MainRec,
     IsrRec, QuitDelay, MainAt, Released, MainIdle, Ep
<1>10. ChainInv'
  BY DEF Inv, ChainInv, TypeOK, Sub, qhVars, qtdVars, MainRec, QuitDelay, MainAt,
     Released, MainIdle
<1>11. SubInv'
  BY DEF Inv, SubInv, TypeOK, Sub, Linked, qhVars, qtdVars, linkVars, epVars,
     utrVars, MainRec, QuitDelay, MainAt, Released, MainIdle
<1>12. NoLeak'
  BY EhciAssumption DEF Inv, NoLeak, MainInv, TypeOK, Sub, qhVars, linkVars,
     epVars, lostVars, QuitDelay, MainAt, Released, MainIdle, Ep
<1> QED BY <1>1, <1>2, <1>3, <1>4, <1>5, <1>6, <1>7, <1>8, <1>9, <1>10, <1>11,
   <1>12 DEF Inv

(***************************************************************************)
(* The interrupt handler.                                                  *)
(***************************************************************************)

\* The handler begins: what it is going to visit is linked.
LEMMA IsrEnterInv ==
    ASSUME Inv, ~ fault, ~ fault', IsrEnter
    PROVE  Inv'
<1>1. /\ isr' = [IsrOff EXCEPT
                    !.pc = IF "USBINT" \in usts THEN "async" ELSE "iaa",
                    !.todo = IF "USBINT" \in usts THEN AsyncScan ELSE {},
                    !.iaa = Answered]
      /\ usts # {} /\ usts' = {}
  BY DEF IsrEnter
<1>2. PICK a \in BOOLEAN :
      /\ isr' = [pc |-> IF "USBINT" \in usts THEN "async" ELSE "iaa",
                 todo |-> IF "USBINT" \in usts THEN AsyncScan ELSE {}, q |-> NULL, at |-> 0,
                 utr |-> NULL, iaa |-> a]
      /\ a <=> "IAA" \in usts
      /\ usts # {} /\ usts' = {}
  <2>1. CASE "IAA" \in usts
    <3>1. Answered = TRUE
      BY <2>1 DEF Answered
    <3>2. QED BY <1>1, <2>1, <3>1 DEF IsrOff
  <2>2. CASE "IAA" \notin usts
    <3>1. Answered = FALSE
      BY <2>2 DEF Answered
    <3>2. QED BY <1>1, <2>2, <3>1 DEF IsrOff
  <2>3. QED BY <2>1, <2>2
<1>3. UNCHANGED <<kind, qhVars, qtdVars, linkVars, epVars, iaad, hc, main, utrVars>>
  BY DEF IsrEnter
<1>4. TypeOK'
  <2>1. isr' \in IsrRec
    <3>1. (IF "USBINT" \in usts THEN AsyncScan ELSE {}) \in SUBSET Unit
      BY DEF AsyncScan, Inv, TypeOK
    <3>2. (IF "USBINT" \in usts THEN "async" ELSE "iaa") \in IsrPc
      BY DEF IsrPc
    <3>3. QED BY <1>2, <3>1, <3>2 DEF IsrRec, UnitOrNull, EpOrNull
  <2>2. QED BY <1>2, <1>3, <2>1 DEF Inv, TypeOK, qhVars, qtdVars, linkVars, epVars,
     lostVars, utrVars
<1>5. UnitInv'
  BY DEF Inv, UnitInv, TypeOK, OnList, qhVars, qtdVars, IsrEnter, IsrOff,
     AsyncScan, Answered
<1>6. QhInv'
  BY DEF Inv, QhInv, TypeOK, Removes, Linked, linkVars, MainRec, IsrEnter, IsrOff,
     AsyncScan, Answered
<1>7. PipeInv'
  BY DEF Inv, PipeInv, TypeOK, Sub, Linked, linkVars, epVars, MainRec, IsrEnter,
     IsrOff, AsyncScan, Answered, Ep
<1>8. MainInv'
  BY DEF Inv, MainInv, TypeOK, Sub, linkVars, epVars, MainRec, IsrEnter, IsrOff,
     AsyncScan, Answered, Ep
<1>9. OwnerInv'
  BY DEF Inv, OwnerInv, TypeOK, Removes, qhVars, qtdVars, linkVars, epVars,
     utrVars, MainRec, IsrEnter, IsrOff, AsyncScan, Answered, Ep
<1>10. RequestInv'
  BY DEF Inv, RequestInv, TypeOK, Sub, OnList, qhVars, qtdVars, utrVars, MainRec,
     IsrRec, IsrEnter, IsrOff, AsyncScan, Answered, Ep, AsyncEp
<1>11. HeldInv'
  <2>1. isr'.pc = "iaa" => isr'.iaa
    BY <1>2 DEF Inv, TypeOK
  <2>2. QED BY <1>2, <1>3, <2>1 DEF Inv, HeldInv, Linked, linkVars
<1>12. IsrInv'
  BY DEF Inv, IsrInv, TypeOK, Sub, qhVars, linkVars, epVars, utrVars, MainRec,
     IsrRec, IsrEnter, IsrOff, AsyncScan, Answered, Ep
<1>13. ChainInv'
  BY DEF Inv, ChainInv, TypeOK, Sub, qhVars, qtdVars, MainRec, IsrEnter, IsrOff,
     AsyncScan, Answered
<1>14. SubInv'
  BY DEF Inv, SubInv, TypeOK, Sub, Linked, qhVars, qtdVars, linkVars, epVars,
     utrVars, MainRec, IsrEnter, IsrOff, AsyncScan, Answered
<1>15. NoLeak'
  BY DEF Inv, NoLeak, TypeOK, qhVars, linkVars, epVars, lostVars, MainRec,
     IsrEnter, IsrOff, AsyncScan, Answered, Ep
<1> QED BY <1>4, <1>5, <1>6, <1>7, <1>8, <1>9, <1>10, <1>11, <1>12, <1>13, <1>14,
   <1>15 DEF Inv

\* The scan of the ring goes to the next QH.
LEMMA IsrNextQhInv ==
    ASSUME Inv, ~ fault, ~ fault', IsrNextQh
    PROVE  Inv'
<1>1. PICK q \in isr.todo : isr' = [isr EXCEPT !.pc = "visit", !.todo = @ \ {q}, !.q = q]
  BY DEF IsrNextQh
<1>2. /\ isr.pc = "async"
      /\ UNCHANGED <<kind, qhVars, qtdVars, linkVars, epVars, hcVars, main, utrVars>>
  BY DEF IsrNextQh
<1>3. /\ q \in Unit /\ isr'.pc = "visit" /\ isr'.todo = isr.todo \ {q} /\ isr'.q = q
      /\ isr'.utr = isr.utr /\ isr'.iaa = isr.iaa
  BY <1>1 DEF Inv, TypeOK, IsrRec
<1>4. TypeOK'
  <2>1. isr' \in IsrRec
    BY <1>1, <1>3 DEF IsrRec, IsrPc, UnitOrNull, Inv, TypeOK
  <2>2. QED BY <1>2, <2>1 DEF Inv, TypeOK, qhVars, qtdVars, linkVars, epVars,
     lostVars, hcVars, utrVars
<1>5. UnitInv'
  BY DEF Inv, UnitInv, TypeOK, OnList, qhVars, qtdVars, IsrNextQh
<1>6. QhInv'
  BY DEF Inv, QhInv, TypeOK, Removes, Linked, linkVars, MainRec, IsrNextQh
<1>7. PipeInv'
  BY DEF Inv, PipeInv, TypeOK, Sub, Linked, linkVars, epVars, MainRec, IsrNextQh,
     Ep
<1>8. MainInv'
  BY DEF Inv, MainInv, TypeOK, Sub, linkVars, epVars, MainRec, IsrNextQh, Ep
<1>9. OwnerInv'
  BY DEF Inv, OwnerInv, TypeOK, Removes, qhVars, qtdVars, linkVars, epVars,
     utrVars, MainRec, IsrNextQh, Ep
<1>10. RequestInv'
  BY DEF Inv, RequestInv, TypeOK, Sub, OnList, qhVars, qtdVars, utrVars, MainRec,
     IsrRec, IsrNextQh, Ep, AsyncEp
<1>11. HeldInv'
  BY DEF Inv, HeldInv, TypeOK, Linked, linkVars, hcVars, IsrRec, IsrNextQh
<1>12. IsrInv'
  BY <1>2, <1>3 DEF Inv, IsrInv, qhVars, linkVars, epVars, utrVars
<1>13. ChainInv'
  BY DEF Inv, ChainInv, TypeOK, Sub, qhVars, qtdVars, MainRec, IsrNextQh
<1>14. SubInv'
  BY DEF Inv, SubInv, TypeOK, Sub, Linked, qhVars, qtdVars, linkVars, epVars,
     utrVars, MainRec, IsrNextQh
<1>15. NoLeak'
  BY DEF Inv, NoLeak, TypeOK, qhVars, linkVars, epVars, lostVars, MainRec,
     IsrNextQh, Ep
<1> QED BY <1>4, <1>5, <1>6, <1>7, <1>8, <1>9, <1>10, <1>11, <1>12, <1>13, <1>14,
   <1>15 DEF Inv

\* The scan of the ring ends and that of the interrupt chains may begin.
LEMMA IsrAsyncEndInv ==
    ASSUME Inv, ~ fault, ~ fault', IsrAsyncEnd
    PROVE  Inv'
<1>1. TypeOK'
  <2>1. main' \in MainRec
    BY DEF Inv, TypeOK, IsrAsyncEnd, PeriodicScan, Ep, AsyncEp, IntEp
  <2>2. isr' \in IsrRec
    BY DEF Inv, TypeOK, IsrPc, IsrRec, IsrAsyncEnd, PeriodicScan, Ep, AsyncEp,
       IntEp
  <2>3. QED
    BY <2>1, <2>2 DEF Inv, TypeOK, qhVars, qtdVars, linkVars, epVars, lostVars,
       hcVars, utrVars, IsrAsyncEnd, PeriodicScan, Ep, AsyncEp, IntEp
<1>2. UnitInv'
  BY DEF Inv, UnitInv, TypeOK, OnList, qhVars, qtdVars, IsrAsyncEnd, PeriodicScan
<1>3. QhInv'
  BY DEF Inv, QhInv, TypeOK, Removes, Linked, linkVars, MainRec, IsrAsyncEnd,
     PeriodicScan
<1>4. PipeInv'
  BY DEF Inv, PipeInv, TypeOK, Sub, Linked, linkVars, epVars, MainRec, IsrAsyncEnd,
     PeriodicScan, Ep
<1>5. MainInv'
  BY DEF Inv, MainInv, TypeOK, Sub, linkVars, epVars, MainRec, IsrAsyncEnd,
     PeriodicScan, Ep
<1>6. OwnerInv'
  BY DEF Inv, OwnerInv, TypeOK, Removes, qhVars, qtdVars, linkVars, epVars,
     utrVars, MainRec, IsrAsyncEnd, PeriodicScan, Ep
<1>7. RequestInv'
  BY DEF Inv, RequestInv, TypeOK, Sub, OnList, qhVars, qtdVars, utrVars, MainRec,
     IsrRec, IsrAsyncEnd, PeriodicScan, Ep, AsyncEp
<1>8. HeldInv'
  BY DEF Inv, HeldInv, TypeOK, Linked, linkVars, hcVars, IsrRec, IsrAsyncEnd,
     PeriodicScan
<1>9. IsrInv'
  BY DEF Inv, IsrInv, TypeOK, Sub, qhVars, linkVars, epVars, utrVars, MainRec,
     IsrRec, IsrAsyncEnd, PeriodicScan, Ep
<1>10. ChainInv'
  BY DEF Inv, ChainInv, TypeOK, Sub, qhVars, qtdVars, MainRec, IsrAsyncEnd,
     PeriodicScan
<1>11. SubInv'
  BY DEF Inv, SubInv, TypeOK, Sub, Linked, qhVars, qtdVars, linkVars, epVars,
     utrVars, MainRec, IsrAsyncEnd, PeriodicScan
<1>12. NoLeak'
  BY DEF Inv, NoLeak, TypeOK, qhVars, linkVars, epVars, lostVars, MainRec,
     IsrAsyncEnd, PeriodicScan, Ep
<1> QED BY <1>1, <1>2, <1>3, <1>4, <1>5, <1>6, <1>7, <1>8, <1>9, <1>10, <1>11,
   <1>12 DEF Inv

\* The handler visits a qTD and reclaims it if the controller is through with
\* it.
LEMMA IsrVisitInv ==
    ASSUME Inv, ~ fault, ~ fault', IsrVisit
    PROVE  Inv'
<1>1. PICK t \in Ahead :
         IF visit_qtd(t)
         THEN /\ Reclaim(isr.q, {t})
              /\ isr' = [isr EXCEPT !.at = pos[t], !.utr = utrOf[t]]
         ELSE /\ isr' = [isr EXCEPT !.at = pos[t]]
              /\ UNCHANGED <<list, doneList, qtdVars, status>>
  BY DEF IsrVisit
<1>2. isr.pc = "visit" /\ UNCHANGED <<kind, ol, halt, linkVars, epVars, hcVars, main, live, isDone,
                                      calls, lateTo>>
  BY DEF IsrVisit
<1> DEFINE q == isr.q
           e == utrOf[t]
<1>3. /\ q \in async /\ q \in Unit /\ t \in list[q] /\ t \in Unit
      /\ e \in Ep /\ live[e] /\ calls[e] = 0 /\ pipe[e] = q
  <2>1. q \in async /\ q \in Unit /\ t \in list[q] /\ t \in Unit
    BY <1>1, <1>2 DEF Ahead, Inv, TypeOK, IsrInv
  <2>2. q \notin removing
    BY <2>1 DEF Inv, QhInv, Linked
  <2>3. QED BY <2>1, <2>2 DEF Inv, OwnerInv, Removes
<1>4. isr.utr # NULL => isr.utr = e
  BY <1>2, <1>3, EhciAssumption DEF Inv, IsrInv, PipeInv
<1>5. /\ isr' \in IsrRec
      /\ isr'.pc = "visit" /\ isr'.todo = isr.todo /\ isr'.q = q /\ isr'.iaa = isr.iaa
      /\ isr'.utr = e \/ (isr'.utr = isr.utr /\ ~ visit_qtd(t))
  <2>1. pos[t] \in Nat /\ e \in EpOrNull
    BY <1>3 DEF Inv, TypeOK, EpOrNull
  <2>2. CASE visit_qtd(t)
    BY <1>1, <1>2, <2>1, <2>2, ZenonT(30) DEF Inv, TypeOK, IsrRec
  <2>3. CASE ~ visit_qtd(t)
    BY <1>1, <1>2, <2>1, <2>3 DEF Inv, TypeOK, IsrRec
  <2>4. QED BY <2>2, <2>3
<1>6. CASE ~ visit_qtd(t)
  <2>1. UNCHANGED <<list, doneList, qtdVars, status>>
    BY <1>1, <1>6
  <2>2. isr'.utr = isr.utr
    BY <1>1, <1>6 DEF Inv, TypeOK, IsrRec
  <2>3. QED
    <3>1. TypeOK'
      BY <1>2, <1>5, <2>1 DEF Inv, TypeOK, qtdVars, linkVars, epVars, lostVars,
         hcVars
    <3>2. UnitInv'
      BY <1>2, <1>5, <2>1, <2>2 DEF Inv, UnitInv, OnList, qtdVars
    <3>3. QhInv'
      BY <1>2, <1>5, <2>1, <2>2 DEF Inv, QhInv, Removes, Linked, linkVars
    <3>4. PipeInv'
      BY <1>2, <1>5, <2>1, <2>2 DEF Inv, PipeInv, Sub, Linked, linkVars, epVars
    <3>5. MainInv'
      BY <1>2, <1>5, <2>1, <2>2 DEF Inv, MainInv, Sub, linkVars, epVars
    <3>6. OwnerInv'
      BY <1>2, <1>5, <2>1, <2>2 DEF Inv, OwnerInv, Removes, qtdVars, linkVars,
         epVars
    <3>7. RequestInv'
      BY <1>2, <1>5, <2>1, <2>2 DEF Inv, RequestInv, Sub, OnList, qtdVars
    <3>8. HeldInv'
      BY <1>2, <1>5, <2>1, <2>2 DEF Inv, HeldInv, Linked, linkVars, hcVars
    <3>9. IsrInv'
      BY <1>2, <1>5, <2>1, <2>2 DEF Inv, IsrInv, Sub, linkVars, epVars
    <3>10. ChainInv'
      BY <1>2, <1>5, <2>1, <2>2 DEF Inv, ChainInv, Sub, qtdVars
    <3>11. SubInv'
      BY <1>2, <1>5, <2>1, <2>2 DEF Inv, SubInv, Sub, Linked, qtdVars, linkVars,
         epVars
    <3>12. NoLeak'
      BY <1>2, <1>5, <2>1, <2>2 DEF Inv, NoLeak, linkVars, epVars, lostVars
    <3> QED BY <3>1, <3>2, <3>3, <3>4, <3>5, <3>6, <3>7, <3>8, <3>9, <3>10, <3>11,
       <3>12 DEF Inv
<1>7. CASE visit_qtd(t)
  <2>1. /\ list' = [list EXCEPT ![q] = @ \ {t}]
        /\ doneList' = [doneList EXCEPT ![q] = @ \cup {t}]
        /\ token' = [token EXCEPT ![t] = "mark"] /\ pos' = [pos EXCEPT ![t] = 0]
        /\ nxt' = [nxt EXCEPT ![t] = NULL] /\ utrOf' = utrOf
        /\ status' \in [Ep -> {"ok", "err", "abort"}]
    <3>1. Reclaim(q, {t})
      BY <1>1, <1>7
    <3>2. QED BY <3>1, <1>3, ReclaimEffect DEF Inv, TypeOK
  <2>2. isr'.utr = e
    BY <1>1, <1>7 DEF Inv, TypeOK, IsrRec
  <2>3. token[t] \in {"ok", "err"}
    BY <1>7, <1>3 DEF visit_qtd, Inv, TypeOK
  <2>4. \A x \in Unit : OnList(x)' => OnList(x) /\ x # t
    BY <1>3, <2>1 DEF OnList, Inv, TypeOK, UnitInv
  <2>5. kind[q] = "QH" /\ kind[t] = "qTD" /\ t \notin main.mine /\ ~ (Sub /\ main.q = q)
    BY <1>3, <2>3 DEF Inv, UnitInv, MainInv, SubInv
  <2>6. TypeOK'
    BY <1>2, <1>3, <1>5, <2>1 DEF Inv, TypeOK, UnitOrNull, linkVars, epVars,
       lostVars, hcVars
  <2>7. UnitInv'
    BY <1>2, <1>3, <1>4, <1>5, <2>1, <2>2, <2>3, <2>5 DEF Inv, TypeOK, UnitInv,
       OnList
  <2>8. QhInv'
    BY <1>2, <1>3, <1>4, <1>5, <2>1, <2>2, <2>3, <2>5 DEF Inv, TypeOK, QhInv,
       Removes, Linked, linkVars
  <2>9. PipeInv'
    BY <1>2, <1>3, <1>4, <1>5, <2>1, <2>2, <2>3, <2>5 DEF Inv, TypeOK, PipeInv,
       Sub, Linked, linkVars, epVars
  <2>10. MainInv'
    BY <1>2, <1>3, <1>4, <1>5, <2>1, <2>2, <2>3, <2>5 DEF Inv, TypeOK, MainInv,
       Sub, linkVars, epVars
  <2>11. OwnerInv'
    BY <1>2, <1>3, <1>4, <1>5, <2>1, <2>2, <2>3, <2>5, EhciAssumption DEF Inv,
       TypeOK, OwnerInv, UnitInv, Removes, OnList, linkVars, epVars
  <2>12. RequestInv'
    BY <1>2, <1>3, <1>4, <1>5, <2>1, <2>2, <2>3, <2>5, EhciAssumption DEF Inv,
       TypeOK, RequestInv, OwnerInv, Sub, Removes, OnList, linkVars, epVars
  <2>13. HeldInv'
    BY <1>2, <1>3, <1>4, <1>5, <2>1, <2>2, <2>3, <2>5 DEF Inv, TypeOK, HeldInv,
       Linked, linkVars, hcVars
  <2>14. IsrInv'
    <3>1. ~ (Sub /\ main.e = e)
      BY <1>3, <2>5 DEF Inv, SubInv
    <3>2. QED BY <1>2, <1>3, <1>5, <2>2, <3>1 DEF Inv, IsrInv, Sub, linkVars,
       epVars
  <2>15. ChainInv'
    <3>1. \A r \in Unit : \A x \in list'[r] :
             x \in Unit /\ x # t /\ x \in list[r]
             /\ token'[x] = token[x] /\ pos'[x] = pos[x] /\ nxt'[x] = nxt[x]
      BY <1>3, <2>1, <2>4 DEF OnList, Inv, TypeOK
    <3>2. \A r \in Unit : \A x \in list[r] : x # t => x \in list'[r]
      BY <1>3, <2>1 DEF Inv, TypeOK
    <3>3. \A r \in Unit : ol[r] # t
      BY <2>3, <1>3, EhciAssumption DEF Inv, ChainInv
    <3>4. \A r \in Unit : \A x \in list[r] : token[x] = "active" => nxt[x] # t
      BY <1>3, <2>3, <2>5, EhciAssumption DEF Inv, ChainInv, UnitInv
    <3>5. QED BY <1>2, <3>1, <3>2, <3>3, <3>4 DEF Inv, ChainInv, Sub
  <2>16. SubInv'
    <3>1. {t} \in SUBSET list[q] /\ Reclaim(q, {t}) /\ \A x \in {t} : token[x] \in {"ok", "err"}
      BY <1>1, <1>3, <1>7, <2>3
    <3>2. q \in Linked
      BY <1>3 DEF Linked
    <3>3. QED BY <1>2, <1>3, <3>1, <3>2, ReclaimSub
  <2>17. NoLeak'
    BY <1>2, <1>3, <1>4, <1>5, <2>1, <2>2, <2>3, <2>5 DEF Inv, TypeOK, NoLeak,
       linkVars, epVars, lostVars
  <2> QED BY <2>6, <2>7, <2>8, <2>9, <2>10, <2>11, <2>12, <2>13, <2>14, <2>15,
     <2>16, <2>17 DEF Inv
<1> QED BY <1>6, <1>7

\* The handler has visited the qTDs of a QH, and calls the request back if
\* none is left.
LEMMA IsrVisitedInv ==
    ASSUME Inv, ~ fault, ~ fault', IsrVisited
    PROVE  Inv'
<1>1. /\ isr.pc = "visit"
      /\ isr' = [isr EXCEPT !.pc = "async", !.q = NULL, !.at = 0, !.utr = NULL]
      /\ UNCHANGED <<kind, qhVars, qtdVars, linkVars, epVars, usts, hc, main, live, status>>
  BY DEF IsrVisited
<1>2. /\ isr' \in IsrRec
      /\ isr'.pc = "async" /\ isr'.todo = isr.todo /\ isr'.utr = NULL /\ isr'.iaa = isr.iaa
  BY <1>1 DEF Inv, TypeOK, IsrRec, IsrPc, UnitOrNull, EpOrNull
<1>3. \/ /\ list[isr.q] = {} /\ isr.utr # NULL /\ Signal({isr.utr}) /\ iaad' = TRUE
      \/ (list[isr.q] = {} => isr.utr = NULL) /\ UNCHANGED <<isDone, calls, lateTo, iaad>>
  BY DEF IsrVisited, AllDone
<1>4. isr.utr # NULL => /\ isr.utr \in Ep /\ live[isr.utr] /\ calls[isr.utr] = 0
                        /\ pipe[isr.utr] = isr.q /\ ~ (Sub /\ main.e = isr.utr)
  BY <1>1 DEF Inv, IsrInv
<1>5. TypeOK'
  <2>1. /\ isDone' \in [Ep -> BOOLEAN] /\ calls' \in [Ep -> 0 .. 2] /\ lateTo' \subseteq Ep
        /\ iaad' \in BOOLEAN
    <3>1. CASE isr.utr # NULL /\ Signal({isr.utr}) /\ iaad' = TRUE
      <4>1. {isr.utr} \in SUBSET Ep
        BY <1>4, <3>1
      <4>2. QED BY <3>1, <4>1, SignalType DEF Inv
    <3>2. CASE UNCHANGED <<isDone, calls, lateTo, iaad>>
      BY <3>2 DEF Inv, TypeOK
    <3>3. QED BY <1>3, <3>1, <3>2
  <2>2. QED BY <1>1, <1>2, <2>1 DEF Inv, TypeOK, qhVars, qtdVars, linkVars, epVars,
     lostVars
<1>6. UnitInv'
  BY DEF Inv, UnitInv, TypeOK, OnList, qhVars, qtdVars, IsrVisited, AllDone,
     Signal, Ahead
<1>7. QhInv'
  BY DEF Inv, QhInv, TypeOK, Removes, Linked, linkVars, MainRec, IsrVisited,
     AllDone, Signal, Ahead
<1>8. PipeInv'
  BY DEF Inv, PipeInv, TypeOK, Sub, Linked, linkVars, epVars, MainRec, IsrVisited,
     AllDone, Signal, Ahead, Ep
<1>9. MainInv'
  BY DEF Inv, MainInv, TypeOK, Sub, linkVars, epVars, MainRec, IsrVisited, AllDone,
     Signal, Ahead, Ep
<1>10. OwnerInv'
  BY EhciAssumption DEF Inv, OwnerInv, MainInv, IsrInv, TypeOK, Removes, qhVars,
     qtdVars, linkVars, epVars, IsrVisited, AllDone, Signal, Ahead, Ep
<1>11. RequestInv'
  <2>1. CASE list[isr.q] = {} /\ isr.utr # NULL /\ Signal({isr.utr})
    <3>1. /\ calls' = [calls EXCEPT ![isr.utr] = 1] /\ lateTo' = {}
          /\ \A e \in Ep : isDone'[e] => e = isr.utr \/ isDone[e]
      <4>1. {isr.utr} \in SUBSET Ep /\ \A e \in {isr.utr} : live[e] /\ calls[e] = 0
        BY <1>4, <2>1
      <4>2. QED BY <1>4, <2>1, <4>1, SignalEffect DEF Inv, TypeOK, RequestInv
    <3>2. QED BY <1>1, <1>2, <1>4, <2>1, <3>1 DEF Inv, TypeOK, RequestInv, OnList,
       Sub, AsyncEp, Ep, qhVars, qtdVars
  <2>2. CASE (list[isr.q] = {} => isr.utr = NULL) /\ UNCHANGED <<isDone, calls, lateTo>>
    <3>1. isr.utr # NULL => \E t \in Unit : OnList(t) /\ utrOf[t] = isr.utr
      <4>1. SUFFICES ASSUME isr.utr # NULL
                     PROVE  \E t \in Unit : OnList(t) /\ utrOf[t] = isr.utr
        OBVIOUS
      <4>2. isr.q \in Unit /\ isr.q \notin removing
        BY <1>1 DEF Inv, IsrInv, TypeOK, QhInv, Linked
      <4>3. PICK t \in list[isr.q] : TRUE
        BY <2>2, <4>1
      <4>4. utrOf[t] \in Ep /\ pipe[utrOf[t]] = isr.q /\ t \in Unit
        BY <4>2, <4>3 DEF Inv, OwnerInv, Removes, TypeOK
      <4>5. utrOf[t] = isr.utr
        BY <1>4, <4>1, <4>2, <4>4, EhciAssumption DEF Inv, PipeInv
      <4>6. QED BY <4>2, <4>3, <4>4, <4>5 DEF OnList
    <3>2. QED BY <1>1, <1>2, <1>4, <2>2, <3>1, EhciAssumption DEF Inv, RequestInv,
       OnList, Sub, qhVars, qtdVars
  <2>3. QED BY <1>3, <2>1, <2>2
<1>12. HeldInv'
  BY DEF Inv, HeldInv, TypeOK, Linked, linkVars, hcVars, IsrRec, IsrVisited,
     AllDone, Signal, Ahead
<1>13. IsrInv'
  BY DEF Inv, IsrInv, TypeOK, Sub, qhVars, linkVars, epVars, utrVars, MainRec,
     IsrRec, IsrVisited, AllDone, Signal, Ahead, Ep
<1>14. ChainInv'
  BY DEF Inv, ChainInv, TypeOK, Sub, qhVars, qtdVars, MainRec, IsrVisited, AllDone,
     Signal, Ahead
<1>15. SubInv'
  <2>1. Sub => calls'[main.e] = calls[main.e]
    BY <1>3, <1>4 DEF Signal, Inv, TypeOK, MainInv, Sub
  <2>2. QED BY <1>1, <2>1 DEF Inv, SubInv, Sub, Linked, qhVars, qtdVars, linkVars,
     epVars
<1>16. NoLeak'
  BY DEF Inv, NoLeak, TypeOK, qhVars, linkVars, epVars, lostVars, MainRec,
     IsrVisited, AllDone, Signal, Ahead, Ep
<1> QED BY <1>5, <1>6, <1>7, <1>8, <1>9, <1>10, <1>11, <1>12, <1>13, <1>14, <1>15,
   <1>16 DEF Inv

\* The handler visits a QH of the interrupt chains.
LEMMA IsrPeriodicInv ==
    ASSUME Inv, ~ fault, ~ fault', IsrPeriodic
    PROVE  Inv'
<1>1. /\ isr.pc = "periodic"
      /\ UNCHANGED <<kind, ol, halt, linkVars, epVars, usts, hc, main, live>>
  BY DEF IsrPeriodic
<1>2. PICK q \in isr.todo :
         LET gone == {t \in list[q] : visit_qtd(t)}
             done == IF gone # {} THEN gone ELSE doneList[q]
             over == list[q] \ gone = {} /\ done # {}
             utr  == utrOf[CHOOSE t \in done : TRUE]
         IN  /\ Reclaim(q, gone)
             /\ IF over THEN Signal({utr}) /\ iaad' = TRUE
                        ELSE UNCHANGED <<isDone, calls, lateTo, iaad>>
             /\ isr' = [isr EXCEPT
                   !.todo = @ \ {q},
                   !.q = IF over THEN q ELSE NULL,
                   !.utr = IF over THEN utr ELSE NULL,
                   !.pc = IF over THEN "callback" ELSE "periodic"]
  BY DEF IsrPeriodic
<1> DEFINE gone == {t \in list[q] : visit_qtd(t)}
<1>3. /\ q \in Unit /\ q \in periodic /\ q \notin removing /\ list[q] # {} /\ kind[q] = "QH"
      /\ gone \in SUBSET Unit /\ gone \subseteq list[q]
  BY <1>1 DEF Inv, TypeOK, IsrRec, IsrInv, QhInv, Linked
<1>4. PICK t \in list[q] :
         \/ /\ list[q] = gone
            /\ Signal({utrOf[t]}) /\ iaad' = TRUE
            /\ isr' = [isr EXCEPT !.todo = @ \ {q}, !.q = q, !.utr = utrOf[t], !.pc = "callback"]
         \/ /\ list[q] # gone /\ t \notin gone
            /\ UNCHANGED <<isDone, calls, lateTo, iaad>>
            /\ isr' = [isr EXCEPT !.todo = @ \ {q}, !.q = NULL, !.utr = NULL, !.pc = "periodic"]
  <2>1. CASE list[q] = gone
    <3>1. gone # {} /\ list[q] \ gone = {}
      BY <1>3, <2>1
    <3>2. (CHOOSE t \in gone : TRUE) \in list[q]
      BY <2>1, <3>1
    <3>3. QED BY <1>2, <2>1, <3>1, <3>2
  <2>2. CASE list[q] # gone
    <3>1. PICK t \in list[q] : t \notin gone
      BY <1>3, <2>2
    <3>2. list[q] \ gone # {}
      BY <3>1
    <3>3. QED BY <1>2, <2>2, <3>1, <3>2
  <2>3. QED BY <2>1, <2>2
<1> DEFINE e == utrOf[t]
<1>5. e \in Ep /\ live[e] /\ calls[e] = 0 /\ pipe[e] = q /\ t \in Unit
  BY <1>3, <1>4 DEF Inv, OwnerInv, Removes, TypeOK
<1>6. /\ list' = [list EXCEPT ![q] = @ \ gone]
      /\ doneList' = [doneList EXCEPT ![q] = @ \cup gone]
      /\ token' = [u \in Unit |-> IF u \in gone THEN "mark" ELSE token[u]]
      /\ pos' = [u \in Unit |-> IF u \in gone THEN 0 ELSE pos[u]]
      /\ nxt' = [u \in Unit |-> IF u \in gone THEN NULL ELSE nxt[u]]
      /\ utrOf' = utrOf
      /\ status' \in [Ep -> {"ok", "err", "abort"}]
  BY <1>2, <1>3, ReclaimEffect DEF Inv
<1>7. \A x \in gone : token[x] \in {"ok", "err"} /\ kind[x] = "qTD" /\ x \notin main.mine
  BY <1>3 DEF visit_qtd, Inv, TypeOK, UnitInv, SubInv, MainInv
<1>8. /\ isr' \in IsrRec /\ isr'.todo = isr.todo \ {q} /\ isr'.iaa = isr.iaa
      /\ \/ isr'.pc = "callback" /\ isr'.q = q /\ isr'.utr = e /\ list[q] = gone /\ Signal({e})
            /\ iaad' = TRUE
         \/ isr'.pc = "periodic" /\ list[q] # gone /\ t \notin gone
            /\ UNCHANGED <<isDone, calls, lateTo, iaad>>
  <2>1. q \in UnitOrNull /\ e \in EpOrNull /\ NULL \in UnitOrNull /\ NULL \in EpOrNull
    BY <1>3, <1>5 DEF UnitOrNull, EpOrNull
  <2>2. CASE /\ list[q] = gone /\ Signal({e}) /\ iaad' = TRUE
             /\ isr' = [isr EXCEPT !.todo = @ \ {q}, !.q = q, !.utr = e, !.pc = "callback"]
    <3> HIDE DEF gone, e
    <3> QED BY <2>1, <2>2 DEF Inv, TypeOK, IsrRec, IsrPc
  <2>3. CASE /\ list[q] # gone /\ t \notin gone /\ UNCHANGED <<isDone, calls, lateTo, iaad>>
             /\ isr' = [isr EXCEPT !.todo = @ \ {q}, !.q = NULL, !.utr = NULL, !.pc = "periodic"]
    <3> HIDE DEF gone, e
    <3> QED BY <2>1, <2>3 DEF Inv, TypeOK, IsrRec, IsrPc
  <2>4. QED BY <1>4, <2>2, <2>3
<1> HIDE DEF gone, e
<1>9. /\ lateTo' = {}
      /\ \/ isr'.pc = "callback" /\ calls' = [calls EXCEPT ![e] = 1]
            /\ \A f \in Ep : isDone'[f] => f = e \/ isDone[f]
         \/ isr'.pc = "periodic" /\ calls' = calls /\ isDone' = isDone
  <2>1. lateTo = {} /\ TypeOK
    BY DEF Inv, RequestInv
  <2>2. CASE Signal({e}) /\ isr'.pc = "callback"
    <3>1. {e} \in SUBSET Ep /\ \A f \in {e} : live[f] /\ calls[f] = 0
      BY <1>5
    <3>2. /\ calls' = [f \in Ep |-> IF f \in {e} THEN 1 ELSE calls[f]] /\ lateTo' = {}
          /\ \A f \in Ep : isDone'[f] => f \in {e} \/ isDone[f]
      BY <2>1, <2>2, <3>1, SignalEffect
    <3>3. QED BY <2>1, <2>2, <3>2, <1>5 DEF TypeOK
  <2>3. QED BY <1>8, <2>1, <2>2
<1>10. TypeOK'
  <2>1. /\ isDone' \in [Ep -> BOOLEAN] /\ calls' \in [Ep -> 0 .. 2] /\ lateTo' \subseteq Ep
        /\ iaad' \in BOOLEAN
    <3>1. CASE Signal({e}) /\ iaad' = TRUE
      <4>1. {e} \in SUBSET Ep
        BY <1>5
      <4>2. QED BY <3>1, <4>1, SignalType DEF Inv
    <3>2. CASE UNCHANGED <<isDone, calls, lateTo, iaad>>
      BY <3>2 DEF Inv, TypeOK
    <3>3. QED BY <1>8, <3>1, <3>2
  <2>2. /\ list' \in [Unit -> SUBSET Unit] /\ doneList' \in [Unit -> SUBSET Unit]
        /\ token' \in [Unit -> {"mark", "active", "ok", "err"}] /\ pos' \in [Unit -> Nat]
        /\ nxt' \in [Unit -> UnitOrNull]
    BY <1>3, <1>6 DEF Inv, TypeOK, UnitOrNull
  <2>3. QED BY <1>1, <1>6, <1>8, <2>1, <2>2 DEF Inv, TypeOK, linkVars, epVars,
     lostVars
<1>11. UnitInv'
  BY DEF Inv, UnitInv, TypeOK, OnList, qhVars, qtdVars, IsrPeriodic, visit_qtd,
     Reclaim, Retired, Failed, Signal
<1>12. QhInv'
  BY DEF Inv, QhInv, TypeOK, Removes, Linked, linkVars, MainRec, IsrPeriodic,
     visit_qtd, Reclaim, Retired, Failed, Signal
<1>13. PipeInv'
  BY DEF Inv, PipeInv, TypeOK, Sub, Linked, linkVars, epVars, MainRec, IsrPeriodic,
     visit_qtd, Reclaim, Retired, Failed, Signal, Ep
<1>14. MainInv'
  BY DEF Inv, MainInv, TypeOK, Sub, linkVars, epVars, MainRec, IsrPeriodic,
     visit_qtd, Reclaim, Retired, Failed, Signal, Ep
<1>15. OwnerInv'
  <2>1. \A r \in Unit : \A x \in list'[r] :
           /\ x \in Unit /\ x \in list[r] /\ pos'[x] = pos[x]
           /\ isr'.pc = "callback" => utrOf[x] # e
    <3>1. SUFFICES ASSUME NEW r \in Unit, NEW x \in list'[r]
                   PROVE  /\ x \in Unit /\ x \in list[r] /\ pos'[x] = pos[x]
                          /\ isr'.pc = "callback" => utrOf[x] # e
      OBVIOUS
    <3>2. x \in Unit /\ x \in list[r] /\ x \notin gone
      BY <1>3, <1>6, <3>1 DEF Inv, TypeOK, UnitInv
    <3>3. isr'.pc = "callback" => r # q
      BY <1>3, <1>6, <1>8, <3>1 DEF Inv, TypeOK
    <3>4. r # q => utrOf[x] # e
      BY <1>3, <1>5, <3>2, EhciAssumption DEF Inv, OwnerInv, PipeInv, Removes,
         MainInv
    <3>5. QED BY <1>6, <3>2, <3>3, <3>4
  <2>2. \A f \in Ep : f # e \/ isr'.pc = "periodic" => calls'[f] = calls[f]
    BY <1>5, <1>9 DEF Inv, TypeOK
  <2>3. \A r \in Unit : \A x \in list'[r] :
           utrOf[x] \in Ep /\ live[utrOf[x]] /\ calls'[utrOf[x]] = 0
    BY <1>8, <2>1, <2>2 DEF Inv, OwnerInv
  <2>4. \A r \in Unit : \A x \in list'[r] :
           /\ pipe[utrOf[x]] = r \/ (Removes(r) /\ main.e = utrOf[x])
           /\ pos'[x] >= 1
           /\ \A y \in list'[r] : pos'[y] = pos'[x] => y = x
    BY <2>1 DEF Inv, OwnerInv
  <2>5. /\ pipe' = pipe /\ main' = main /\ removing' = removing /\ live' = live /\ utrOf' = utrOf
    BY <1>1, <1>6 DEF linkVars, epVars
  <2>6. QED BY <2>3, <2>4, <2>5 DEF OwnerInv, Removes
<1>16. RequestInv'
  <2>1. ASSUME NEW f \in Ep, live'[f], calls'[f] = 0
        PROVE  \/ Sub' /\ main'.e = f
               \/ \E x, r \in Unit : x \in list'[r] /\ utrOf'[x] = f
    <3>1. live[f] /\ calls[f] = 0 /\ (f = e => isr'.pc = "periodic")
      BY <1>1, <1>5, <1>9, <2>1 DEF Inv, TypeOK
    <3>2. CASE Sub /\ main.e = f
      BY <1>1, <3>2 DEF Sub
    <3>3. CASE f = e
      BY <1>3, <1>4, <1>5, <1>6, <1>8, <3>1, <3>3 DEF Inv, TypeOK, e
    <3>4. CASE f # e /\ ~ (Sub /\ main.e = f)
      <4>1. PICK x, r \in Unit : x \in list[r] /\ utrOf[x] = f
        BY <1>1, <3>1, <3>4 DEF Inv, RequestInv, OnList
      <4>2. r # q
        BY <1>3, <1>5, <3>4, <4>1, EhciAssumption DEF Inv, OwnerInv, PipeInv,
           Removes
      <4>3. x \in list'[r]
        BY <1>6, <4>1, <4>2 DEF Inv, TypeOK
      <4>4. QED BY <1>6, <4>1, <4>3
    <3>5. QED BY <3>2, <3>3, <3>4
  <2>2. lateTo' = {} /\ \A f \in Ep : calls'[f] <= 1
    BY <1>5, <1>9 DEF Inv, TypeOK, RequestInv
  <2>3. \A f \in AsyncEp : isDone'[f] => ~ live'[f] \/ calls'[f] = 1
    BY <1>1, <1>5, <1>9 DEF Inv, TypeOK, RequestInv, AsyncEp, Ep
  <2>4. QED BY <2>1, <2>2, <2>3 DEF RequestInv, OnList
<1>17. HeldInv'
  BY DEF Inv, HeldInv, TypeOK, Linked, linkVars, hcVars, IsrRec, IsrPeriodic,
     visit_qtd, Reclaim, Retired, Failed, Signal
<1>18. IsrInv'
  <2>1. \A r \in isr'.todo : r \in periodic /\ list'[r] # {}
    BY <1>1, <1>6, <1>8 DEF Inv, TypeOK, IsrInv, IsrRec
  <2>2. CASE isr'.pc = "periodic"
    BY <1>1, <2>1, <2>2 DEF IsrInv, linkVars
  <2>3. CASE isr'.pc = "callback"
    <3>1. list[q] = gone /\ isr'.q = q /\ isr'.utr = e
      BY <1>8, <2>3
    <3>2. list'[q] = {}
      BY <1>3, <1>6, <3>1 DEF Inv, TypeOK
    <3>3. calls'[e] = 1
      BY <1>5, <1>9, <2>3 DEF Inv, TypeOK
    <3>4. ~ (Sub /\ main.e = e)
      BY <1>3, <1>4, <1>5, <1>7, <3>1 DEF Inv, SubInv
    <3>5. QED
      BY <1>1, <1>3, <1>5, <1>8, <2>1, <2>3, <3>1, <3>2, <3>3, <3>4 DEF IsrInv,
         Sub, linkVars, epVars
  <2>4. QED BY <1>8, <2>2, <2>3
<1>19. ChainInv'
  BY SMTT(30) DEF Inv, ChainInv, SubInv, TypeOK, Sub, IsrPeriodic, visit_qtd, Reclaim,
     Retired, Failed, Signal, Ep
<1>20. SubInv'
  <2>1. q \in Linked /\ gone \in SUBSET list[q] /\ \A x \in gone : token[x] \in {"ok", "err"}
    BY <1>3, <1>7 DEF Linked
  <2>2. Sub => calls'[main.e] = calls[main.e]
    <3>1. isr'.pc = "callback" => ~ (Sub /\ main.e = e)
      BY <1>3, <1>4, <1>5, <1>7, <1>8 DEF Inv, SubInv
    <3>2. QED BY <1>5, <1>9, <3>1 DEF Inv, TypeOK, MainInv, Sub
  <2>3. Reclaim(q, gone)
    BY <1>2 DEF gone
  <2>4. QED BY <1>1, <1>3, <2>1, <2>2, <2>3, ReclaimSub
<1>21. NoLeak'
  BY DEF Inv, NoLeak, TypeOK, qhVars, linkVars, epVars, lostVars, MainRec,
     IsrPeriodic, visit_qtd, Reclaim, Retired, Failed, Signal, Ep
<1> QED BY <1>10, <1>11, <1>12, <1>13, <1>14, <1>15, <1>16, <1>17, <1>18, <1>19, <1>20,
   <1>21 DEF Inv

\* The scan of the interrupt chains ends.
LEMMA IsrPeriodicEndInv ==
    ASSUME Inv, ~ fault, ~ fault', IsrPeriodicEnd
    PROVE  Inv'
<1>1. TypeOK'
  <2>1. main' \in MainRec
    BY DEF Inv, TypeOK, IsrPeriodicEnd, IsrOff, Ep, AsyncEp, IntEp
  <2>2. isr' \in IsrRec
    BY DEF Inv, TypeOK, UnitOrNull, EpOrNull, IsrPc, IsrRec, IsrPeriodicEnd,
       IsrOff, Ep, AsyncEp, IntEp
  <2>3. QED
    BY <2>1, <2>2 DEF Inv, TypeOK, qhVars, qtdVars, linkVars, epVars, lostVars,
       hcVars, utrVars, IsrPeriodicEnd, IsrOff, Ep, AsyncEp, IntEp
<1>2. UnitInv'
  BY DEF Inv, UnitInv, TypeOK, OnList, qhVars, qtdVars, IsrPeriodicEnd, IsrOff
<1>3. QhInv'
  BY DEF Inv, QhInv, TypeOK, Removes, Linked, linkVars, MainRec, IsrPeriodicEnd,
     IsrOff
<1>4. PipeInv'
  BY DEF Inv, PipeInv, TypeOK, Sub, Linked, linkVars, epVars, MainRec,
     IsrPeriodicEnd, IsrOff, Ep
<1>5. MainInv'
  BY DEF Inv, MainInv, TypeOK, Sub, linkVars, epVars, MainRec, IsrPeriodicEnd,
     IsrOff, Ep
<1>6. OwnerInv'
  BY DEF Inv, OwnerInv, TypeOK, Removes, qhVars, qtdVars, linkVars, epVars,
     utrVars, MainRec, IsrPeriodicEnd, IsrOff, Ep
<1>7. RequestInv'
  BY DEF Inv, RequestInv, TypeOK, Sub, OnList, qhVars, qtdVars, utrVars, MainRec,
     IsrRec, IsrPeriodicEnd, IsrOff, Ep, AsyncEp
<1>8. HeldInv'
  BY DEF Inv, HeldInv, TypeOK, Linked, linkVars, hcVars, IsrRec, IsrPeriodicEnd,
     IsrOff
<1>9. IsrInv'
  BY DEF Inv, IsrInv, TypeOK, Sub, qhVars, linkVars, epVars, utrVars, MainRec,
     IsrRec, IsrPeriodicEnd, IsrOff, Ep
<1>10. ChainInv'
  BY DEF Inv, ChainInv, TypeOK, Sub, qhVars, qtdVars, MainRec, IsrPeriodicEnd,
     IsrOff
<1>11. SubInv'
  BY DEF Inv, SubInv, TypeOK, Sub, Linked, qhVars, qtdVars, linkVars, epVars,
     utrVars, MainRec, IsrPeriodicEnd, IsrOff
<1>12. NoLeak'
  BY DEF Inv, NoLeak, TypeOK, qhVars, linkVars, epVars, lostVars, MainRec,
     IsrPeriodicEnd, IsrOff, Ep
<1> QED BY <1>1, <1>2, <1>3, <1>4, <1>5, <1>6, <1>7, <1>8, <1>9, <1>10, <1>11,
   <1>12 DEF Inv

\* The callback of an interrupt transfer resubmits inside the handler, or
\* gives its request back.
LEMMA IsrCallbackInv ==
    ASSUME Inv, ~ fault, ~ fault', IsrCallback
    PROVE  Inv'
<1> DEFINE q == isr.q
           e == isr.utr
<1>1. /\ isr.pc = "callback"
      /\ isr' = [isr EXCEPT !.pc = "periodic", !.q = NULL, !.utr = NULL]
      /\ UNCHANGED <<doneList, halt, linkVars, epVars, hcVars, main, isDone, status, lateTo>>
  BY DEF IsrCallback
<1>2. /\ q \in Unit /\ q \in periodic /\ q \notin isr.todo /\ list[q] = {}
      /\ e \in Ep /\ live[e] /\ calls[e] = 1 /\ pipe[e] = q /\ ~ (Sub /\ main.e = e)
  BY <1>1 DEF Inv, IsrInv, TypeOK
<1>3. /\ isr' \in IsrRec /\ isr'.pc = "periodic" /\ isr'.todo = isr.todo /\ isr'.iaa = isr.iaa
  BY <1>1 DEF Inv, TypeOK, IsrRec, IsrPc, UnitOrNull, EpOrNull
<1>4. kind[q] = "QH" /\ q \notin removing
  BY <1>2 DEF Inv, QhInv, Linked
<1>5. ~ (Sub /\ main.q = q)
  BY <1>2, EhciAssumption DEF Inv, SubInv, PipeInv, MainInv, Sub
<1>6. \A r \in Unit : \A x \in list[r] : utrOf[x] # e
  BY <1>2 DEF Inv, OwnerInv
<1>7. CASE /\ live' = [live EXCEPT ![e] = @ /\ ~ (e \in HidEp /\ status[e] = "ok")]
           /\ UNCHANGED <<kind, qtdVars, list, ol, calls>>
  <2>1. /\ live' \in [Ep -> BOOLEAN] /\ \A f \in Ep : f # e => live'[f] = live[f]
        /\ live'[e] => live[e]
    BY <1>2, <1>7 DEF Inv, TypeOK
  <2>2. UNCHANGED <<kind, qtdVars, list, ol, calls>>
    BY <1>7
  <2>3. TypeOK'
    BY <1>1, <1>3, <2>1, <2>2 DEF Inv, TypeOK, qtdVars, linkVars, epVars, lostVars,
       hcVars
  <2>4. UnitInv'
    BY <1>1, <1>2, <1>3, <1>6, <2>1, <2>2 DEF Inv, UnitInv, OnList, qtdVars
  <2>5. QhInv'
    BY <1>1, <1>2, <1>3, <1>6, <2>1, <2>2 DEF Inv, QhInv, Removes, Linked, linkVars
  <2>6. PipeInv'
    BY <1>1, <1>2, <1>3, <1>6, <2>1, <2>2 DEF Inv, PipeInv, Sub, Linked, Ep,
       linkVars, epVars
  <2>7. MainInv'
    BY <1>1, <1>2, <1>3, <1>6, <2>1, <2>2 DEF Inv, MainInv, Sub, Ep, linkVars,
       epVars
  <2>8. OwnerInv'
    BY <1>1, <1>2, <1>3, <1>6, <2>1, <2>2 DEF Inv, OwnerInv, Removes, Ep, qtdVars,
       linkVars, epVars
  <2>9. RequestInv'
    BY <1>1, <1>2, <1>3, <1>6, <2>1, <2>2 DEF Inv, RequestInv, TypeOK, Sub, OnList,
       AsyncEp, Ep, qtdVars
  <2>10. HeldInv'
    BY <1>1, <1>2, <1>3, <1>6, <2>1, <2>2 DEF Inv, HeldInv, Linked, linkVars,
       hcVars
  <2>11. IsrInv'
    BY <1>1, <1>2, <1>3, <1>6, <2>1, <2>2 DEF Inv, IsrInv, Sub, Ep, linkVars,
       epVars
  <2>12. ChainInv'
    BY <1>1, <1>2, <1>3, <1>6, <2>1, <2>2 DEF Inv, ChainInv, Sub, qtdVars
  <2>13. SubInv'
    BY <1>1, <1>2, <1>3, <1>6, <2>1, <2>2 DEF Inv, SubInv, MainInv, Sub, Linked,
       Ep, qtdVars, linkVars, epVars
  <2>14. NoLeak'
    BY <1>1, <1>2, <1>3, <1>6, <2>1, <2>2 DEF Inv, NoLeak, Ep, linkVars, epVars,
       lostVars
  <2>15. QED BY <2>3, <2>4, <2>5, <2>6, <2>7, <2>8, <2>9, <2>10, <2>11, <2>12,
     <2>13, <2>14 DEF Inv
<1>8. ASSUME NEW t \in Free,
             /\ kind' = [kind EXCEPT ![t] = "qTD"]
             /\ token' = [token EXCEPT ![t] = "active"]
             /\ utrOf' = [utrOf EXCEPT ![t] = e]
             /\ pos' = [pos EXCEPT ![t] = 1]
             /\ nxt' = [nxt EXCEPT ![t] = NULL]
             /\ list' = [list EXCEPT ![q] = {t}]
             /\ ol' = [ol EXCEPT ![q] = t]
             /\ calls' = [calls EXCEPT ![e] = 0]
             /\ UNCHANGED live /\ e \in HidEp
      PROVE  Inv'
  <2> HIDE DEF q, e
  <2>1. /\ t \in Unit /\ kind[t] = "free" /\ t # q /\ t \notin Linked /\ t \notin removing
        /\ t \notin main.mine /\ list[t] = {} /\ doneList[t] = {} /\ ol[t] = NULL
        /\ \A r \in Unit : t \notin list[r] /\ t \notin doneList[r]
        /\ ~ (Sub /\ main.q = t)
    BY <1>4 DEF Free, Inv, QhInv, UnitInv, SubInv, MainInv
  <2>2. \A r \in Unit : r # q => list'[r] = list[r] /\ ol'[r] = ol[r]
    BY <1>8 DEF Inv, TypeOK
  <2>3. list'[q] = {t} /\ ol'[q] = t
    BY <1>2, <1>8 DEF Inv, TypeOK
  <2>4. \A x \in Unit : x # t =>
           /\ kind'[x] = kind[x] /\ token'[x] = token[x] /\ utrOf'[x] = utrOf[x]
           /\ pos'[x] = pos[x] /\ nxt'[x] = nxt[x]
    BY <1>8 DEF Inv, TypeOK
  <2>5. kind'[t] = "qTD" /\ token'[t] = "active" /\ utrOf'[t] = e /\ pos'[t] = 1 /\ nxt'[t] = NULL
    BY <1>8, <2>1 DEF Inv, TypeOK
  <2>6. calls'[e] = 0 /\ \A f \in Ep : f # e => calls'[f] = calls[f]
    BY <1>2, <1>8 DEF Inv, TypeOK
  <2>7. TypeOK'
    <3>1. /\ kind' \in [Unit -> {"free", "QH", "qTD"}] /\ pos' \in [Unit -> Nat]
          /\ token' \in [Unit -> {"mark", "active", "ok", "err"}]
          /\ utrOf' \in [Unit -> EpOrNull] /\ nxt' \in [Unit -> UnitOrNull]
          /\ list' \in [Unit -> SUBSET Unit] /\ ol' \in [Unit -> UnitOrNull]
          /\ calls' \in [Ep -> 0 .. 2]
      BY <1>2, <1>8, <2>1 DEF Inv, TypeOK, UnitOrNull, EpOrNull
    <3>2. QED BY <1>1, <1>3, <1>8, <3>1 DEF Inv, TypeOK, linkVars, epVars,
       lostVars, hcVars
  <2>8. UnitInv'
    BY <1>1, <1>2, <1>3, <1>4, <1>5, <1>6, <1>8, <2>1, <2>2, <2>3, <2>4, <2>5, <2>6
       DEF Inv, TypeOK, UnitInv, OnList
  <2>9. QhInv'
    BY <1>1, <1>2, <1>3, <1>4, <1>5, <1>6, <1>8, <2>1, <2>2, <2>3, <2>4, <2>5, <2>6
       DEF Inv, TypeOK, QhInv, Removes, Linked, linkVars
  <2>10. PipeInv'
    BY <1>1, <1>2, <1>3, <1>4, <1>5, <1>6, <1>8, <2>1, <2>2, <2>3, <2>4, <2>5, <2>6
       DEF Inv, TypeOK, PipeInv, Sub, Linked, Ep, linkVars, epVars
  <2>11. MainInv'
    BY <1>1, <1>2, <1>3, <1>4, <1>5, <1>6, <1>8, <2>1, <2>2, <2>3, <2>4, <2>5, <2>6
       DEF Inv, TypeOK, MainInv, Sub, Ep, linkVars, epVars
  <2>12. OwnerInv'
    BY <1>1, <1>2, <1>3, <1>4, <1>5, <1>6, <1>8, <2>1, <2>2, <2>3, <2>4, <2>5, <2>6
       DEF Inv, TypeOK, OwnerInv, Removes, Ep, linkVars, epVars
  <2>13. RequestInv'
    <3>1. ASSUME NEW f \in Ep, live'[f], calls'[f] = 0
          PROVE  \/ Sub' /\ main'.e = f
                 \/ \E x, r \in Unit : x \in list'[r] /\ utrOf'[x] = f
      <4>1. CASE f = e
        BY <1>2, <2>1, <2>3, <2>5, <4>1
      <4>2. CASE f # e
        <5>1. \/ Sub /\ main.e = f
              \/ \E x, r \in Unit : x \in list[r] /\ utrOf[x] = f
          BY <1>1, <1>8, <2>6, <3>1, <4>2 DEF Inv, RequestInv, OnList
        <5>2. CASE \E x, r \in Unit : x \in list[r] /\ utrOf[x] = f
          BY <1>2, <2>1, <2>2, <2>4, <5>2
        <5>3. QED BY <1>1, <5>1, <5>2 DEF Sub
      <4>3. QED BY <4>1, <4>2
    <3>2. lateTo' = {} /\ \A f \in Ep : calls'[f] <= 1
      BY <1>1, <2>6 DEF Inv, RequestInv
    <3>3. e \notin AsyncEp
      BY <1>8, EhciAssumption DEF IntEp
    <3>4. \A f \in AsyncEp : isDone'[f] => ~ live'[f] \/ calls'[f] = 1
      BY <1>1, <1>8, <2>6, <3>3 DEF Inv, RequestInv, AsyncEp, Ep
    <3>5. QED BY <3>1, <3>2, <3>4 DEF RequestInv, OnList
  <2>14. HeldInv'
    BY <1>1, <1>2, <1>3, <1>4, <1>5, <1>6, <1>8, <2>1, <2>2, <2>3, <2>4, <2>5, <2>6
       DEF Inv, TypeOK, HeldInv, Linked, linkVars, hcVars
  <2>15. IsrInv'
    BY <1>1, <1>2, <1>3, <1>4, <1>5, <1>6, <1>8, <2>1, <2>2, <2>3, <2>4, <2>5, <2>6
       DEF Inv, TypeOK, IsrInv, Sub, Ep, linkVars, epVars
  <2>16. ChainInv'
    BY <1>1, <1>2, <1>3, <1>4, <1>5, <1>6, <1>8, <2>1, <2>2, <2>3, <2>4, <2>5, <2>6
       DEF Inv, TypeOK, ChainInv, Sub
  <2>17. SubInv'
    BY <1>1, <1>2, <1>3, <1>4, <1>5, <1>6, <1>8, <2>1, <2>2, <2>3, <2>4, <2>5, <2>6
       DEF Inv, TypeOK, SubInv, Sub, Linked, linkVars, epVars
  <2>18. NoLeak'
    BY <1>1, <1>2, <1>3, <1>4, <1>5, <1>6, <1>8, <2>1, <2>2, <2>3, <2>4, <2>5, <2>6
       DEF Inv, TypeOK, NoLeak, Ep, linkVars, epVars, lostVars
  <2>19. QED BY <2>7, <2>8, <2>9, <2>10, <2>11, <2>12, <2>13, <2>14, <2>15, <2>16,
     <2>17, <2>18 DEF Inv
<1>9. QED
  <2>1. CASE e \in HidEp /\ status[e] = "ok" /\ Free # {}
    BY <1>8, <2>1 DEF IsrCallback
  <2>2. CASE ~ (e \in HidEp /\ status[e] = "ok" /\ Free # {})
    BY <1>7, <2>2 DEF IsrCallback
  <2>3. QED BY <2>1, <2>2

\* iaad_remove_qh frees the QHs that wait, with their qTDs, and aborts their
\* requests.
LEMMA IsrIaaInv ==
    ASSUME Inv, ~ fault, ~ fault', IsrIaa
    PROVE  Inv'
<1> DEFINE D == UNION {doneList[q] : q \in Linked}
           F == removing \cup RemovedQtds \cup D
<1>0. hc \notin F /\ hc \notin removing
  BY RemovedNotHeld
<1>1. /\ isr.pc = "iaa" /\ isr' = IsrOff
      /\ UNCHANGED <<epVars, hcVars, main, live, async, periodic, early>>
      /\ removing' = {}
      /\ Wiped(F) /\ Dropped(removing) /\ Signal(Aborted)
      /\ doneList' = [u \in Unit |-> IF u \in removing \cup Linked THEN {} ELSE doneList[u]]
      /\ status' = [e \in Ep |-> IF e \in Aborted THEN "abort" ELSE status[e]]
  <2>1. fault' = fault
    BY NoNewFault DEF Inv, IsrIaa
  <2>2. Wiped(F)
    BY <1>0, FreeNotHeld DEF IsrIaa, iaad_remove_qh
  <2>3. Dropped(removing)
    BY <1>0, DropNotHeld DEF IsrIaa, iaad_remove_qh
  <2>4. QED BY <2>1, <2>2, <2>3 DEF IsrIaa, iaad_remove_qh, epVars, lostVars
<1>2. isr' \in IsrRec /\ isr'.pc = "off" /\ isr'.iaa = FALSE
  BY <1>1 DEF IsrOff, IsrRec, IsrPc, UnitOrNull, EpOrNull
<1>3. \A e \in Aborted : /\ e \in Ep /\ live[e] /\ calls[e] = 0 /\ main.e = e
                         /\ main.pc \in {"clear", "delay"}
  <2>1. SUFFICES ASSUME NEW q \in removing, NEW t \in list[q]
                 PROVE  /\ utrOf[t] \in Ep /\ live[utrOf[t]] /\ calls[utrOf[t]] = 0
                        /\ main.e = utrOf[t] /\ main.pc \in {"clear", "delay"}
    BY DEF Aborted
  <2>2. q \in Unit /\ Removes(q) /\ t \in Unit
    BY <2>1 DEF Inv, TypeOK, QhInv
  <2>3. /\ utrOf[t] \in Ep /\ live[utrOf[t]] /\ calls[utrOf[t]] = 0
        /\ pipe[utrOf[t]] = q \/ main.e = utrOf[t]
    BY <2>1, <2>2 DEF Inv, OwnerInv
  <2>4. pipe[utrOf[t]] = q => main.e = utrOf[t]
    BY <2>1, <2>2, <2>3, EhciAssumption DEF Inv, PipeInv
  <2>5. QED BY <2>2, <2>3, <2>4 DEF Removes
<1>4. /\ calls' = [e \in Ep |-> IF e \in Aborted THEN 1 ELSE calls[e]]
      /\ lateTo' = {} /\ \A e \in Ep : isDone'[e] => e \in Aborted \/ isDone[e]
      /\ isDone' \in [Ep -> BOOLEAN] /\ calls' \in [Ep -> 0 .. 2]
  <2>1. TypeOK /\ lateTo = {} /\ Aborted \in SUBSET Ep
    BY <1>3 DEF Inv, RequestInv
  <2>2. \A e \in Aborted : live[e] /\ calls[e] = 0
    BY <1>3
  <2>3. QED BY <1>1, <2>1, <2>2, SignalEffect, SignalType
<1>5. F \in SUBSET Unit /\ removing \subseteq F
  BY DEF RemovedQtds, Linked, Inv, TypeOK
<1>6. \A q \in Unit \ removing : \A t \in list[q] : t \notin F
  BY DEF RemovedQtds, Linked, Inv, TypeOK, UnitInv, QhInv
<1>7. /\ \A q \in Unit \ removing : list'[q] = list[q] /\ ol'[q] = ol[q]
      /\ \A q \in removing : list'[q] = {} /\ ol'[q] = NULL
      /\ \A t \in Unit \ F : /\ token'[t] = token[t] /\ utrOf'[t] = utrOf[t]
                             /\ pos'[t] = pos[t] /\ nxt'[t] = nxt[t]
  BY <1>1 DEF Wiped, Dropped, Inv, TypeOK
<1>8. Sub' = Sub /\ main' = main /\ pipe' = pipe /\ live' = live
  BY <1>1 DEF Sub, epVars
<1> HIDE DEF F
<1>9. TypeOK'
  <2>1. main' \in MainRec
    BY <1>0, <1>1 DEF Inv, TypeOK, F, Wiped, Dropped, RemovedQtds,
       Aborted, Signal, IsrOff, Ep, AsyncEp, IntEp
  <2>2. isr' \in IsrRec
    BY <1>0, <1>1 DEF Inv, TypeOK, UnitOrNull, EpOrNull, IsrPc, IsrRec, F, Wiped, Dropped, RemovedQtds, Aborted, Signal, IsrOff,
       Ep, AsyncEp, IntEp
  <2>3. QED
    BY <1>0, <1>1, <2>1, <2>2 DEF Inv, TypeOK, OwnerInv, epVars, lostVars, hcVars, UnitOrNull,
       EpOrNull, F, Wiped, Dropped, RemovedQtds, Aborted,
       Signal, IsrOff, Ep, AsyncEp, IntEp
<1>10. UnitInv'
  BY <1>0, <1>1 DEF Inv, UnitInv, QhInv, TypeOK, OnList, Linked, F, Wiped, Dropped, RemovedQtds, Aborted, Signal, IsrOff, Ep
<1>11. QhInv'
  BY <1>0, <1>1 DEF Inv, QhInv, UnitInv, TypeOK, Linked, F, Wiped,
     Dropped, RemovedQtds, Aborted, Signal, IsrOff, Ep
<1>12. PipeInv'
  BY <1>0, <1>1 DEF Inv, PipeInv, SubInv, UnitInv, TypeOK, Sub, Linked, epVars, F, Wiped, Dropped, RemovedQtds, Aborted, Signal, IsrOff, Ep
<1>13. MainInv'
  BY <1>0, <1>1 DEF Inv, MainInv, TypeOK, Sub, linkVars, epVars, MainRec, F, Wiped, Dropped, RemovedQtds, Aborted, Signal, IsrOff, Ep
<1>14. OwnerInv'
  <2>1. SUFFICES ASSUME NEW q \in Unit, NEW t \in list'[q]
                 PROVE  /\ utrOf'[t] \in Ep /\ live[utrOf'[t]] /\ calls'[utrOf'[t]] = 0
                        /\ pipe[utrOf'[t]] = q
                        /\ pos'[t] >= 1
                        /\ \A v \in list'[q] : pos'[v] = pos'[t] => v = t
    BY <1>8 DEF OwnerInv
  <2>2. q \notin removing /\ t \in list[q] /\ t \in Unit /\ list'[q] = list[q]
    BY <1>7, <2>1 DEF Inv, TypeOK
  <2>3. \A v \in list[q] : v \in Unit /\ pos'[v] = pos[v] /\ utrOf'[v] = utrOf[v]
    BY <1>6, <1>7, <2>2 DEF Inv, TypeOK
  <2>4. /\ utrOf[t] \in Ep /\ live[utrOf[t]] /\ calls[utrOf[t]] = 0
        /\ pipe[utrOf[t]] = q /\ pos[t] >= 1
    BY <2>2 DEF Inv, OwnerInv, Removes
  <2>5. utrOf[t] \notin Aborted
    <3>1. SUFFICES ASSUME NEW r \in removing, NEW x \in list[r], utrOf[x] = utrOf[t] PROVE FALSE
      BY DEF Aborted
    <3>2. r \in Unit /\ r # q /\ Removes(r)
      BY <2>2, <3>1 DEF Inv, TypeOK, QhInv
    <3>3. main.e = utrOf[t]
      BY <2>4, <3>1, <3>2 DEF Inv, OwnerInv
    <3>4. pipe[main.e] = r \/ pipe[main.e] = NULL \/ q \in removing
      BY <3>2 DEF Inv, MainInv, Removes
    <3>5. QED BY <2>2, <2>4, <3>2, <3>3, <3>4, EhciAssumption
  <2>6. calls'[utrOf[t]] = 0
    BY <1>4, <2>4, <2>5
  <2>7. \A v \in list[q] : pos[v] = pos[t] => v = t
    BY <2>2 DEF Inv, OwnerInv
  <2>8. QED BY <2>2, <2>3, <2>4, <2>6, <2>7
<1>15. RequestInv'
  <2>1. ASSUME NEW e \in Ep, live[e], calls'[e] = 0, ~ (Sub /\ main.e = e)
        PROVE  \E t, q \in Unit : t \in list'[q] /\ utrOf'[t] = e
    <3>1. calls[e] = 0 /\ e \notin Aborted
      BY <1>4, <2>1
    <3>2. PICK t, q \in Unit : t \in list[q] /\ utrOf[t] = e
      BY <1>1, <2>1, <3>1 DEF Inv, RequestInv, OnList
    <3>3. q \notin removing
      BY <3>1, <3>2 DEF Aborted
    <3>4. QED BY <1>6, <1>7, <3>2, <3>3
  <2>2. lateTo' = {} /\ \A e \in Ep : calls'[e] <= 1
    BY <1>4 DEF Inv, RequestInv
  <2>3. \A e \in AsyncEp : isDone'[e] => ~ live[e] \/ calls'[e] = 1
    BY <1>4 DEF Inv, RequestInv, AsyncEp, Ep
  <2>4. QED BY <1>8, <2>1, <2>2, <2>3 DEF RequestInv, OnList
<1>16. HeldInv'
  BY <1>0, <1>1 DEF Inv, HeldInv, TypeOK, Linked, linkVars, hcVars, IsrRec, F, Wiped, Dropped, RemovedQtds, Aborted, Signal, IsrOff
<1>17. IsrInv'
  BY <1>0, <1>1 DEF Inv, IsrInv, TypeOK, Sub, qhVars, linkVars, epVars, utrVars, MainRec,
     IsrRec, F, Wiped, Dropped, RemovedQtds, Aborted,
     Signal, IsrOff, Ep
<1>18. ChainInv'
  <2>1. \A q \in Unit : \A t \in list'[q] : q \notin removing /\ t \in list[q] /\ t \in Unit \ F
    BY <1>6, <1>7 DEF Inv, TypeOK
  <2>2. \A q \in Unit : ol'[q] # NULL => q \notin removing /\ ol'[q] = ol[q] /\ ol[q] \in list'[q]
    BY <1>7 DEF Inv, ChainInv
  <2>3. \A q \in Unit : ol'[q] # NULL =>
          /\ ol'[q] \in list'[q] /\ token'[ol'[q]] = "active"
          /\ ~ (Sub' /\ q = main'.q)
          /\ \A t \in list'[q] : token'[t] = "active" => pos'[t] >= pos'[ol'[q]]
    <3>1. SUFFICES ASSUME NEW q \in Unit, ol'[q] # NULL
                   PROVE  /\ ol'[q] \in list'[q] /\ token'[ol'[q]] = "active"
                          /\ ~ (Sub /\ q = main.q)
                          /\ \A t \in list'[q] : token'[t] = "active" => pos'[t] >= pos'[ol'[q]]
      BY <1>8
    <3>2. ol'[q] = ol[q] /\ ol[q] \in list'[q]
      BY <2>2, <3>1
    <3>3. \A t \in list'[q] : t \in list[q] /\ token'[t] = token[t] /\ pos'[t] = pos[t]
      BY <1>7, <2>1
    <3>4. QED BY <3>1, <3>2, <3>3 DEF Inv, ChainInv
  <2>4. \A q \in Unit : \A t \in list'[q] :
          token'[t] = "active" /\ nxt'[t] # NULL =>
             /\ nxt'[t] \in list'[q] /\ pos'[nxt'[t]] = pos'[t] + 1
             /\ token'[nxt'[t]] = "active" \/ (Sub' /\ q = main'.q)
    <3>1. SUFFICES ASSUME NEW q \in Unit, NEW t \in list'[q], token'[t] = "active", nxt'[t] # NULL
                   PROVE  /\ nxt'[t] \in list'[q] /\ pos'[nxt'[t]] = pos'[t] + 1
                          /\ token'[nxt'[t]] = "active" \/ (Sub /\ q = main.q)
      BY <1>8
    <3>2. /\ q \notin removing /\ t \in list[q] /\ t \in Unit \ F /\ list'[q] = list[q]
      BY <1>7, <2>1, <3>1
    <3>3. nxt'[t] = nxt[t] /\ token[t] = "active" /\ pos'[t] = pos[t]
      BY <1>7, <3>1, <3>2
    <3>4. /\ nxt[t] \in list[q] /\ pos[nxt[t]] = pos[t] + 1
          /\ token[nxt[t]] = "active" \/ (Sub /\ q = main.q)
      BY <3>1, <3>2, <3>3 DEF Inv, ChainInv
    <3>5. nxt[t] \in Unit \ F
      BY <2>1, <3>2, <3>4
    <3>6. QED BY <1>7, <3>2, <3>3, <3>4, <3>5
  <2>5. QED BY <2>3, <2>4 DEF ChainInv
<1>19. SubInv'
  BY <1>0, <1>1 DEF Inv, SubInv, UnitInv, QhInv, MainInv, TypeOK, Sub, Removes, Linked,
     epVars, MainRec, F, Wiped, Dropped, RemovedQtds,
     Aborted, Signal, IsrOff, Ep
<1>20. NoLeak'
  BY <1>0, <1>1 DEF Inv, NoLeak, TypeOK, qhVars, linkVars, epVars, lostVars, MainRec, F, Wiped, Dropped, RemovedQtds, Aborted, Signal, IsrOff, Ep
<1> QED BY <1>9, <1>10, <1>11, <1>12, <1>13, <1>14, <1>15, <1>16, <1>17, <1>18, <1>19,
   <1>20 DEF Inv

(***************************************************************************)
(* The controller.                                                         *)
(***************************************************************************)

\* The controller comes to a linked QH.
LEMMA HcFetchInv ==
    ASSUME Inv, ~ fault, ~ fault', HcFetch
    PROVE  Inv'
<1>1. TypeOK'
  <2>1. main' \in MainRec
    BY DEF Inv, TypeOK, HcFetch, Ep, AsyncEp, IntEp
  <2>2. isr' \in IsrRec
    BY DEF Inv, TypeOK, HcFetch, Ep, AsyncEp, IntEp
  <2>3. QED
    BY <2>1, <2>2 DEF Inv, TypeOK, Linked, qhVars, qtdVars, linkVars, epVars,
       lostVars, utrVars, UnitOrNull, HcFetch, Ep, AsyncEp, IntEp
<1>2. UnitInv'
  BY DEF Inv, UnitInv, TypeOK, OnList, qhVars, qtdVars, HcFetch
<1>3. QhInv'
  BY DEF Inv, QhInv, TypeOK, Removes, Linked, linkVars, MainRec, HcFetch
<1>4. PipeInv'
  BY DEF Inv, PipeInv, TypeOK, Sub, Linked, linkVars, epVars, MainRec, HcFetch, Ep
<1>5. MainInv'
  BY DEF Inv, MainInv, TypeOK, Sub, linkVars, epVars, MainRec, HcFetch, Ep
<1>6. OwnerInv'
  BY DEF Inv, OwnerInv, TypeOK, Removes, qhVars, qtdVars, linkVars, epVars,
     utrVars, MainRec, HcFetch, Ep
<1>7. RequestInv'
  BY DEF Inv, RequestInv, TypeOK, Sub, OnList, qhVars, qtdVars, utrVars, MainRec,
     IsrRec, HcFetch, Ep, AsyncEp
<1>8. HeldInv'
  BY DEF Inv, HeldInv, TypeOK, Linked, linkVars, hcVars, IsrRec, HcFetch
<1>9. IsrInv'
  BY DEF Inv, IsrInv, TypeOK, Sub, qhVars, linkVars, epVars, utrVars, MainRec,
     IsrRec, HcFetch, Ep
<1>10. ChainInv'
  BY DEF Inv, ChainInv, TypeOK, Sub, qhVars, qtdVars, MainRec, HcFetch
<1>11. SubInv'
  BY DEF Inv, SubInv, TypeOK, Sub, Linked, qhVars, qtdVars, linkVars, epVars,
     utrVars, MainRec, HcFetch
<1>12. NoLeak'
  BY DEF Inv, NoLeak, TypeOK, qhVars, linkVars, epVars, lostVars, MainRec, HcFetch,
     Ep
<1> QED BY <1>1, <1>2, <1>3, <1>4, <1>5, <1>6, <1>7, <1>8, <1>9, <1>10, <1>11,
   <1>12 DEF Inv

\* The controller leaves a QH.
LEMMA HcDropInv ==
    ASSUME Inv, ~ fault, ~ fault', HcDrop
    PROVE  Inv'
<1>1. TypeOK'
  <2>1. main' \in MainRec
    BY DEF Inv, TypeOK, HcDrop, Ep, AsyncEp, IntEp
  <2>2. isr' \in IsrRec
    BY DEF Inv, TypeOK, HcDrop, Ep, AsyncEp, IntEp
  <2>3. QED
    BY <2>1, <2>2 DEF Inv, TypeOK, qhVars, qtdVars, epVars, lostVars, utrVars,
       UnitOrNull, HcDrop, Ep, AsyncEp, IntEp
<1>2. UnitInv'
  BY DEF Inv, UnitInv, TypeOK, OnList, qhVars, qtdVars, HcDrop
<1>3. QhInv'
  BY DEF Inv, QhInv, TypeOK, Removes, Linked, linkVars, MainRec, HcDrop
<1>4. PipeInv'
  BY DEF Inv, PipeInv, TypeOK, Sub, Linked, linkVars, epVars, MainRec, HcDrop, Ep
<1>5. MainInv'
  BY DEF Inv, MainInv, TypeOK, Sub, linkVars, epVars, MainRec, HcDrop, Ep
<1>6. OwnerInv'
  BY DEF Inv, OwnerInv, TypeOK, Removes, qhVars, qtdVars, linkVars, epVars,
     utrVars, MainRec, HcDrop, Ep
<1>7. RequestInv'
  BY DEF Inv, RequestInv, TypeOK, Sub, OnList, qhVars, qtdVars, utrVars, MainRec,
     IsrRec, HcDrop, Ep, AsyncEp
<1>8. HeldInv'
  BY DEF Inv, HeldInv, TypeOK, Linked, linkVars, hcVars, IsrRec, HcDrop
<1>9. IsrInv'
  BY DEF Inv, IsrInv, TypeOK, Sub, qhVars, linkVars, epVars, utrVars, MainRec,
     IsrRec, HcDrop, Ep
<1>10. ChainInv'
  BY DEF Inv, ChainInv, TypeOK, Sub, qhVars, qtdVars, MainRec, HcDrop
<1>11. SubInv'
  BY DEF Inv, SubInv, TypeOK, Sub, Linked, qhVars, qtdVars, linkVars, epVars,
     utrVars, MainRec, HcDrop
<1>12. NoLeak'
  BY DEF Inv, NoLeak, TypeOK, qhVars, linkVars, epVars, lostVars, MainRec, HcDrop,
     Ep
<1> QED BY <1>1, <1>2, <1>3, <1>4, <1>5, <1>6, <1>7, <1>8, <1>9, <1>10, <1>11,
   <1>12 DEF Inv

\* The controller completes the qTD in the overlay and goes to the next.
LEMMA HcRetireInv ==
    ASSUME Inv, ~ fault, ~ fault', HcRetire
    PROVE  Inv'
<1> DEFINE t == ol[hc]
<1>1. /\ hc \in Unit /\ t \in Unit /\ token[t] = "active" /\ t \in list[hc]
      /\ ol' = [ol EXCEPT ![hc] = nxt[t]]
      /\ UNCHANGED <<kind, list, doneList, utrOf, pos, nxt, linkVars, epVars, iaad,
                   hc, main, isr, utrVars>>
  BY EhciAssumption DEF HcRetire, Inv, TypeOK, UnitOrNull, ChainInv
<1>2. PICK s \in {"ok", "err"} : token' = [token EXCEPT ![t] = s]
  BY DEF HcRetire
<1>3. halt' \in [Unit -> BOOLEAN] /\ usts' \subseteq {"USBINT", "IAA"}
      /\ ("IAA" \in usts' => "IAA" \in usts)
  BY DEF HcRetire, Inv, TypeOK
<1>4. TypeOK'
  BY <1>1, <1>2, <1>3 DEF Inv, TypeOK, linkVars, epVars, lostVars, utrVars
<1>5. UnitInv'
  BY <1>1, <1>2 DEF Inv, UnitInv, OnList, ChainInv, TypeOK
<1>6. QhInv'
  BY DEF Inv, QhInv, TypeOK, Removes, Linked, linkVars, MainRec, HcRetire
<1>7. PipeInv'
  BY DEF Inv, PipeInv, TypeOK, Sub, Linked, linkVars, epVars, MainRec, HcRetire, Ep
<1>8. MainInv'
  BY DEF Inv, MainInv, TypeOK, Sub, linkVars, epVars, MainRec, HcRetire, Ep
<1>9. OwnerInv'
  BY DEF Inv, OwnerInv, TypeOK, Removes, qhVars, qtdVars, linkVars, epVars,
     utrVars, MainRec, HcRetire, Ep
<1>10. RequestInv'
  BY DEF Inv, RequestInv, TypeOK, Sub, OnList, qhVars, qtdVars, utrVars, MainRec,
     IsrRec, HcRetire, Ep, AsyncEp
<1>11. HeldInv'
  BY DEF Inv, HeldInv, TypeOK, Linked, linkVars, hcVars, IsrRec, HcRetire
<1>12. IsrInv'
  BY DEF Inv, IsrInv, TypeOK, Sub, qhVars, linkVars, epVars, utrVars, MainRec,
     IsrRec, HcRetire, Ep
<1>13. ChainInv'
  <2>1. nxt[t] # NULL => /\ nxt[t] \in list[hc] /\ pos[nxt[t]] = pos[t] + 1
                         /\ nxt[t] # t /\ token[nxt[t]] = "active"
    BY <1>1, EhciAssumption DEF Inv, ChainInv, TypeOK
  <2>2. \A x \in Unit : x # t => token'[x] = token[x]
    BY <1>2 DEF Inv, TypeOK
  <2>3. token'[t] # "active"
    BY <1>1, <1>2 DEF Inv, TypeOK
  <2>4. \A x \in list[hc] : token[x] = "active" /\ x # t => pos[x] >= pos[t] + 1 /\ nxt[x] # t
    <3>1. SUFFICES ASSUME NEW x \in list[hc], token[x] = "active", x # t
                   PROVE  pos[x] >= pos[t] + 1 /\ nxt[x] # t
      OBVIOUS
    <3>2. pos[x] >= pos[t] /\ pos[x] # pos[t] /\ pos[x] \in Nat /\ pos[t] \in Nat
      BY <1>1, <3>1, EhciAssumption DEF Inv, ChainInv, OwnerInv, TypeOK
    <3>3. nxt[x] = t => pos[t] = pos[x] + 1
      BY <1>1, <3>1, EhciAssumption DEF Inv, ChainInv
    <3>4. QED BY <3>2, <3>3
  <2>5. \A q \in Unit : q # hc => t \notin list[q] /\ ol'[q] = ol[q]
    BY <1>1 DEF Inv, UnitInv, TypeOK
  <2>6. ol'[hc] = nxt[t]
    BY <1>1 DEF Inv, TypeOK
  <2>7. \A q \in Unit : ol'[q] # NULL =>
          /\ ol'[q] \in list'[q] /\ token'[ol'[q]] = "active"
          /\ ~ (Sub' /\ q = main'.q)
          /\ \A x \in list'[q] : token'[x] = "active" => pos'[x] >= pos'[ol'[q]]
    <3>1. SUFFICES ASSUME NEW q \in Unit, ol'[q] # NULL
                   PROVE  /\ ol'[q] \in list[q] /\ token'[ol'[q]] = "active"
                          /\ ~ (Sub /\ q = main.q)
                          /\ \A x \in list[q] : token'[x] = "active" => pos[x] >= pos[ol'[q]]
      BY <1>1 DEF Sub
    <3>2. CASE q = hc
      <4>1. ~ (Sub /\ hc = main.q)
        BY <1>1, EhciAssumption DEF Inv, ChainInv
      <4>2. QED BY <1>1, <3>1, <3>2, <4>1, <2>1, <2>2, <2>3, <2>4, <2>6 DEF Inv,
         TypeOK
    <3>3. CASE q # hc
      <4>1. \A x \in list[q] : token'[x] = token[x]
        BY <2>2, <2>5, <3>3 DEF Inv, TypeOK
      <4>2. QED BY <2>5, <3>1, <3>3, <4>1 DEF Inv, ChainInv
    <3>4. QED BY <3>2, <3>3
  <2>8. \A q \in Unit : \A x \in list'[q] :
          token'[x] = "active" /\ nxt'[x] # NULL =>
             /\ nxt'[x] \in list'[q] /\ pos'[nxt'[x]] = pos'[x] + 1
             /\ token'[nxt'[x]] = "active" \/ (Sub' /\ q = main'.q)
    <3>1. SUFFICES ASSUME NEW q \in Unit, NEW x \in list[q], token'[x] = "active", nxt[x] # NULL
                   PROVE  /\ nxt[x] \in list[q] /\ pos[nxt[x]] = pos[x] + 1
                          /\ token'[nxt[x]] = "active" \/ (Sub /\ q = main.q)
      BY <1>1 DEF Sub
    <3>2. x \in Unit /\ x # t /\ token[x] = "active"
      BY <2>2, <2>3, <3>1 DEF Inv, TypeOK
    <3>3. /\ nxt[x] \in list[q] /\ pos[nxt[x]] = pos[x] + 1
          /\ token[nxt[x]] = "active" \/ (Sub /\ q = main.q)
      BY <3>1, <3>2 DEF Inv, ChainInv
    <3>4. nxt[x] # t /\ nxt[x] \in Unit
      BY <2>4, <2>5, <3>1, <3>2, <3>3 DEF Inv, TypeOK
    <3>5. QED BY <2>2, <3>3, <3>4
  <2>9. QED BY <2>7, <2>8 DEF ChainInv
<1>14. SubInv'
  BY DEF Inv, SubInv, OwnerInv, ChainInv, TypeOK, Sub, Removes, Linked, linkVars,
     epVars, utrVars, UnitOrNull, MainRec, HcRetire, Ep, AsyncEp, IntEp
<1>15. NoLeak'
  BY DEF Inv, NoLeak, TypeOK, qhVars, linkVars, epVars, lostVars, MainRec,
     HcRetire, Ep
<1> QED BY <1>4, <1>5, <1>6, <1>7, <1>8, <1>9, <1>10, <1>11, <1>12, <1>13, <1>14,
   <1>15 DEF Inv

\* The controller answers the doorbell, when it holds no QH that was unlinked
\* before.
LEMMA HcAdvanceInv ==
    ASSUME Inv, ~ fault, ~ fault', HcAdvance
    PROVE  Inv'
<1>1. TypeOK'
  <2>1. main' \in MainRec
    BY DEF Inv, TypeOK, HcAdvance, Ep, AsyncEp, IntEp
  <2>2. isr' \in IsrRec
    BY DEF Inv, TypeOK, HcAdvance, Ep, AsyncEp, IntEp
  <2>3. QED
    BY <2>1, <2>2 DEF Inv, TypeOK, qhVars, qtdVars, linkVars, epVars, lostVars,
       utrVars, HcAdvance, Ep, AsyncEp, IntEp
<1>2. UnitInv'
  BY DEF Inv, UnitInv, TypeOK, OnList, qhVars, qtdVars, HcAdvance
<1>3. QhInv'
  BY DEF Inv, QhInv, TypeOK, Removes, Linked, linkVars, MainRec, HcAdvance
<1>4. PipeInv'
  BY DEF Inv, PipeInv, TypeOK, Sub, Linked, linkVars, epVars, MainRec, HcAdvance,
     Ep
<1>5. MainInv'
  BY DEF Inv, MainInv, TypeOK, Sub, linkVars, epVars, MainRec, HcAdvance, Ep
<1>6. OwnerInv'
  BY DEF Inv, OwnerInv, TypeOK, Removes, qhVars, qtdVars, linkVars, epVars,
     utrVars, MainRec, HcAdvance, Ep
<1>7. RequestInv'
  BY DEF Inv, RequestInv, TypeOK, Sub, OnList, qhVars, qtdVars, utrVars, MainRec,
     IsrRec, HcAdvance, Ep, AsyncEp
<1>8. HeldInv'
  BY DEF Inv, HeldInv, TypeOK, Linked, linkVars, hcVars, IsrRec, HcAdvance
<1>9. IsrInv'
  BY DEF Inv, IsrInv, TypeOK, Sub, qhVars, linkVars, epVars, utrVars, MainRec,
     IsrRec, HcAdvance, Ep
<1>10. ChainInv'
  BY DEF Inv, ChainInv, TypeOK, Sub, qhVars, qtdVars, MainRec, HcAdvance
<1>11. SubInv'
  BY DEF Inv, SubInv, TypeOK, Sub, Linked, qhVars, qtdVars, linkVars, epVars,
     utrVars, MainRec, HcAdvance
<1>12. NoLeak'
  BY DEF Inv, NoLeak, TypeOK, qhVars, linkVars, epVars, lostVars, MainRec,
     HcAdvance, Ep
<1> QED BY <1>1, <1>2, <1>3, <1>4, <1>5, <1>6, <1>7, <1>8, <1>9, <1>10, <1>11,
   <1>12 DEF Inv

\* A fault is recorded for good.
LEMMA FaultKept ==
    ASSUME [Next]_vars, ~ fault'
    PROVE  ~ fault
<1>1. CASE UNCHANGED vars
  BY <1>1 DEF vars, epVars, lostVars
<1>2. CASE XferNoMem
  BY <1>2 DEF XferNoMem
<1>3. CASE MainNext
  BY <1>2, <1>3 DEF MainNext, XferStart, XferAllocQtd, XferAppend, XferActivate,
     XferMissQtd, XferOverrun, XferGo, XferGoEmpty, CtrlDone, BulkDone, QuitStart,
     move_qh_to_remove_list, QuitClear, QuitDelay, epVars, lostVars
<1>4. CASE IsrNext
  BY <1>4 DEF IsrNext, IsrEnter, IsrNextQh, IsrAsyncEnd, IsrVisit, IsrVisited,
     IsrPeriodic, IsrPeriodicEnd, IsrCallback, IsrIaa, epVars, lostVars
<1>5. CASE HcNext
  BY <1>5 DEF HcNext, HcFetch, HcDrop, HcRetire, HcAdvance, epVars, lostVars
<1>6. QED BY <1>1, <1>3, <1>4, <1>5 DEF Next

(***************************************************************************)
(* All steps together, and the theorems.                                   *)
(***************************************************************************)

\* No unit is in use at first.
LEMMA InitInv ==
    ASSUME Init
    PROVE  Inv
<1>1. TypeOK
  <2>1. main \in MainRec
    BY DEF Init, MainIdle, MainRec, MainPc, UnitOrNull, EpOrNull
  <2>2. isr \in IsrRec
    BY DEF Init, IsrOff, IsrRec, IsrPc, UnitOrNull, EpOrNull
  <2>3. /\ kind \in [Unit -> {"free", "QH", "qTD"}]
        /\ list \in [Unit -> SUBSET Unit] /\ doneList \in [Unit -> SUBSET Unit]
        /\ ol \in [Unit -> UnitOrNull] /\ halt \in [Unit -> BOOLEAN]
        /\ token \in [Unit -> {"mark", "active", "ok", "err"}]
        /\ utrOf \in [Unit -> EpOrNull] /\ pos \in [Unit -> Nat]
        /\ nxt \in [Unit -> UnitOrNull]
    BY DEF Init, UnitOrNull, EpOrNull
  <2>4. /\ pipe \in [Ep -> UnitOrNull]
        /\ live \in [Ep -> BOOLEAN] /\ isDone \in [Ep -> BOOLEAN]
        /\ status \in [Ep -> {"ok", "err", "abort"}] /\ calls \in [Ep -> 0 .. 2]
    BY DEF Init, UnitOrNull
  <2>5. QED BY <2>1, <2>2, <2>3, <2>4 DEF Init, TypeOK, UnitOrNull
<1>2. UnitInv /\ QhInv /\ PipeInv /\ NoLeak
  BY DEF Init, UnitInv, QhInv, PipeInv, NoLeak, Linked
<1>3. MainInv /\ OwnerInv /\ HeldInv /\ IsrInv /\ ChainInv /\ SubInv
  BY DEF Init, MainInv, OwnerInv, HeldInv, IsrInv, ChainInv, SubInv, Sub, MainIdle,
     IsrOff
<1>4. RequestInv
  BY DEF Init, RequestInv, AsyncEp, Ep
<1>5. QED BY <1>1, <1>2, <1>3, <1>4 DEF Inv

\* Nothing happens.
LEMMA StutterInv ==
    ASSUME Inv, UNCHANGED vars
    PROVE  Inv'
<1>1. TypeOK' /\ UnitInv' /\ QhInv' /\ PipeInv'
  BY DEF Inv, TypeOK, UnitInv, QhInv, PipeInv, vars, qhVars, qtdVars, linkVars,
     epVars, lostVars, hcVars, utrVars, OnList, Linked, Removes, Sub
<1>2. MainInv' /\ OwnerInv' /\ RequestInv' /\ HeldInv' /\ IsrInv'
  BY DEF Inv, MainInv, OwnerInv, RequestInv, HeldInv, IsrInv, vars, qhVars,
     qtdVars, linkVars, epVars, hcVars, utrVars, OnList, Linked, Removes, Sub
<1>3. ChainInv' /\ SubInv' /\ NoLeak'
  BY DEF Inv, ChainInv, SubInv, NoLeak, vars, qhVars, qtdVars, linkVars, epVars,
     lostVars, hcVars, utrVars, OnList, Linked, Removes, Sub
<1>4. QED BY <1>1, <1>2, <1>3 DEF Inv

\* One step of the main loop, of the handler or of the controller.
LEMMA NextInv ==
    ASSUME Inv, ~ fault, ~ fault', [Next]_vars
    PROVE  Inv'
<1>1. CASE MainNext
  BY <1>1, XferStartInv, XferAllocQtdInv, XferMissQtdInv, XferNoMemInv,
     XferOverrunInv, XferGoEmptyInv, XferAppendInv,
     XferActivateInv, XferGoInv, CtrlDoneInv, BulkDoneInv, QuitStartInv,
     move_qh_to_remove_listInv, QuitClearInv, QuitDelayInv DEF MainNext
<1>2. CASE IsrNext
  BY <1>2, IsrEnterInv, IsrNextQhInv, IsrAsyncEndInv, IsrVisitInv, IsrVisitedInv,
     IsrPeriodicInv, IsrPeriodicEndInv, IsrCallbackInv, IsrIaaInv DEF IsrNext
<1>3. CASE HcNext
  BY <1>3, HcFetchInv, HcDropInv, HcRetireInv, HcAdvanceInv DEF HcNext
<1>4. QED BY <1>1, <1>2, <1>3, StutterInv DEF Next

\* The invariant holds until one of the faults has happened (ehci.c:483-527,
\* 605-618, 941): main loop, handler and controller agree at every point of their
\* interleaving on which unit is whose.
THEOREM InvHolds == Spec => []IInv
<1>1. Init => IInv
  BY InitInv DEF IInv
<1>2. IInv /\ [Next]_vars => IInv'
  BY FaultKept, NextInv DEF IInv
<1>3. QED BY <1>1, <1>2, PTL DEF Spec

\* Type correctness, up to the same point.
THEOREM TypeOKAlways == Spec => [](~ fault => TypeOK)
<1>1. IInv => (~ fault => TypeOK)
  BY DEF IInv, Inv
<1>2. QED BY <1>1, InvHolds, PTL

\* What the controller can reach, and what waits for removal, is an allocated
\* QH and in one place only (ehci.c:303-355, 932-997).
THEOREM QhsAllocatedAlways == Spec => []QhsAllocated
<1>1. IInv => QhsAllocated
  BY DEF IInv, Inv, QhInv, TypeOK, QhsAllocated
<1>2. QED BY <1>1, InvHolds, PTL

\* No qTD is freed under a list or is on two (ehci.c:357-369, 799-876).
THEOREM QtdsOnOneListAlways == Spec => []QtdsOnOneList
<1>1. ASSUME Inv PROVE QtdsOnOneList
  <2>1. \A q \in Unit : \A t \in list[q] \cup doneList[q] : kind[q] = "QH" /\ kind[t] = "qTD"
    BY <1>1 DEF Inv, UnitInv
  <2>2. \A q \in Unit : list[q] \cap doneList[q] = {}
    BY <1>1 DEF Inv, UnitInv
  <2>3. \A q, r \in Unit : q # r =>
          (list[q] \cup doneList[q]) \cap (list[r] \cup doneList[r]) = {}
    BY <1>1 DEF Inv, UnitInv
  <2>4. QED BY <2>1, <2>2, <2>3 DEF QtdsOnOneList
<1>2. IInv => QtdsOnOneList
  BY <1>1 DEF IInv, QtdsOnOneList
<1>3. QED BY <1>2, InvHolds, PTL

\* The controller holds an allocated QH, and the handler is about to free it
\* only if a doorbell was under way when the QH was unlinked (ehci.c:941).
THEOREM HeldIsAllocatedAlways == Spec => []HeldIsAllocated
<1>1. IInv => HeldIsAllocated
  BY DEF IInv, Inv, HeldInv, QhInv, HeldIsAllocated
<1>2. QED BY <1>1, InvHolds, PTL

\* hw_pipe does not outlive its QH, but for the window of ehci_quit_xfer
\* (ehci.c:785-793).
THEOREM PipesAliveAlways == Spec => []PipesAlive
<1>1. IInv => PipesAlive
  BY DEF IInv, Inv, PipeInv, PipesAlive
<1>2. QED BY <1>1, InvHolds, PTL

\* No unit is lost, but for the QH of a control transfer refused for want of
\* memory or for the span of its buffer (ehci.c:457-460, usb_core.c:338-344).
THEOREM NoLeakAlways == Spec => []NoLeak
<1>1. IInv => NoLeak
  BY DEF IInv, Inv, NoLeak
<1>2. QED BY <1>1, InvHolds, PTL

\* An endpoint whose client has nothing outstanding has an empty QH, so that
\* the next submission is not refused as busy (ehci.c:586-588).
THEOREM NotBusyAlways == Spec => []NotBusy
<1>1. ASSUME Inv, NEW e \in Ep, Submits(e), main.e # e, pipe[e] # NULL
      PROVE  list[pipe[e]] = {}
  <2>1. SUFFICES ASSUME NEW t \in list[pipe[e]] PROVE FALSE
    OBVIOUS
  <2>2. pipe[e] \in Unit
    BY <1>1 DEF Inv, TypeOK, UnitOrNull
  <2>3. /\ utrOf[t] \in Ep /\ live[utrOf[t]] /\ calls[utrOf[t]] = 0
        /\ pipe[utrOf[t]] = pipe[e] \/ (Removes(pipe[e]) /\ main.e = utrOf[t])
    BY <1>1, <2>2 DEF Inv, OwnerInv
  <2>4. pipe[utrOf[t]] = pipe[e]
    BY <1>1, <2>2, <2>3 DEF Inv, PipeInv, QhInv, Removes
  <2>5. utrOf[t] = e
    BY <1>1, <2>3, <2>4 DEF Inv, PipeInv
  <2>6. QED BY <1>1, <2>3, <2>5 DEF Submits
<1>2. IInv => NotBusy
  BY <1>1 DEF IInv, NotBusy
<1>3. QED BY <1>2, InvHolds, PTL

\* No step of the handler takes a marked qTD, which the main loop is still
\* writing, off a list (ehci.c:801).
THEOREM MarkRespectedAlways == Spec => MarkRespected
<1>1. ASSUME Inv, ~ fault, [Next]_vars, NEW q \in Unit, NEW t \in list[q], token[t] = "mark",
             isr.pc # "off"
      PROVE  t \in list'[q]
  <2>1. CASE UNCHANGED vars
    BY <1>1, <2>1 DEF vars, qhVars
  <2>2. CASE MainNext
    BY <1>1, <2>2 DEF MainNext, XferStart, XferAllocQtd, XferMissQtd,
       XferNoMem, XferOverrun, XferAppend, XferActivate, XferGo, XferGoEmpty, CtrlDone, BulkDone, QuitStart, move_qh_to_remove_list,
       QuitClear, QuitDelay, MainAt
  <2>3. CASE IsrVisit
    BY <1>1, <2>3 DEF IsrVisit, Reclaim, visit_qtd, Inv, TypeOK
  <2>4. CASE IsrPeriodic
    <3>1. PICK r \in isr.todo : list' = [list EXCEPT ![r] = @ \ {u \in list[r] : visit_qtd(u)}]
      BY <2>4 DEF IsrPeriodic, Reclaim
    <3>2. QED BY <1>1, <3>1 DEF visit_qtd, Inv, TypeOK
  <2>5. CASE IsrCallback
    <3>1. list[isr.q] = {}
      BY <1>1, <2>5 DEF IsrCallback, Inv, IsrInv
    <3>2. list' = list \/ \E u \in Free : list' = [list EXCEPT ![isr.q] = {u}]
      BY <2>5 DEF IsrCallback
    <3>3. QED BY <1>1, <3>1, <3>2 DEF Inv, TypeOK
  <2>6. CASE IsrIaa
    <3>1. list' = [u \in Unit |-> IF u \in removing THEN {} ELSE list[u]]
      BY <2>6 DEF IsrIaa, iaad_remove_qh, DropQhs
    <3>2. q \notin removing
      BY <1>1 DEF Inv, SubInv, QhInv, Removes
    <3>3. QED BY <1>1, <3>1, <3>2
  <2>7. CASE UNCHANGED list
    BY <1>1, <2>7
  <2>8. QED
    BY <1>1, <2>1, <2>2, <2>3, <2>4, <2>5, <2>6, <2>7 DEF Next, IsrNext, HcNext,
       IsrEnter, IsrNextQh, IsrAsyncEnd, IsrVisited, IsrPeriodicEnd, HcFetch,
       HcDrop, HcRetire, HcAdvance, qhVars
<1>2. IInv /\ [Next]_vars =>
        [\A q \in Unit : \A t \in list[q] :
            ~ fault /\ token[t] = "mark" /\ isr.pc # "off" => t \in list'[q]]_vars
  BY <1>1 DEF IInv
<1>3. QED BY <1>2, InvHolds, PTL DEF Spec, MarkRespected
=============================================================================
