---------------------------- MODULE EhciRefines ----------------------------
(***************************************************************************)
(* The proof that Ehci implements Transfer, by the refinement mapping of   *)
(* Ehci (RequestState, Exposed) and the invariant of EhciProofs.           *)
(***************************************************************************)
EXTENDS EhciProofs

(***************************************************************************)
(* The refinement mapping under the invariant.                             *)
(***************************************************************************)

\* The place of a request, with the impossible case left out.
Place(e) == IF ~ live[e] THEN "idle"
            ELSE IF calls[e] = 1 THEN "signalled"
            ELSE IF Sub /\ main.e = e THEN "offered" ELSE "accepted"

\* The invariant keeps requests out of the place no step of Transfer leads to.
LEMMA PlaceOfRequest ==
    ASSUME Inv
    PROVE  \A e \in Ep : RequestState(e) = Place(e)
<1>1. lateTo = {} /\ \A e \in Ep : calls[e] \in 0 .. 2 /\ calls[e] <= 1
  BY DEF Inv, TypeOK, RequestInv
<1>2. QED BY <1>1 DEF RequestState, Place, Sub

\* The same after a step.
LEMMA PlaceOfRequestNext ==
    ASSUME Inv'
    PROVE  \A e \in Ep : RequestState(e)' = Place(e)'
<1>1. lateTo' = {} /\ \A e \in Ep : calls'[e] \in 0 .. 2 /\ calls'[e] <= 1
  BY DEF Inv, TypeOK, RequestInv
<1>2. QED BY <1>1 DEF RequestState, Place, Sub

\* The controller may access a buffer only while its request is pending.
LEMMA ExposedIsPending ==
    ASSUME Inv, NEW e \in Ep, Exposed(e)
    PROVE  live[e] /\ calls[e] = 0
BY DEF Exposed, Inv, UnitInv, OnList, OwnerInv

\* The same after a step.
LEMMA ExposedIsPendingNext ==
    ASSUME Inv', NEW e \in Ep, Exposed(e)'
    PROVE  live'[e] /\ calls'[e] = 0
BY DEF Exposed, Inv, UnitInv, OnList, OwnerInv

\* A step that moves no request and exposes or retires nothing.
LEMMA StepStutters ==
    ASSUME Inv, Inv',
           \A e \in Ep : Place(e)' = Place(e),
           \A e \in Ep : Exposed(e)' <=> Exposed(e)
    PROVE  UNCHANGED Promise!vars
<1>1. \A e \in Ep : RequestState(e)' = RequestState(e)
  BY PlaceOfRequest, PlaceOfRequestNext
<1>2. \A e \in Ep : Exposed(e)' = Exposed(e)
  BY DEF Exposed
<1>3. QED BY <1>1, <1>2 DEF Promise!vars

\* A step that moves one request.
LEMMA StepMoves ==
    ASSUME Inv, Inv', NEW r \in Ep, NEW s, NEW d \in BOOLEAN,
           Place(r)' = s, Exposed(r)' <=> d,
           \A e \in Ep : e # r => Place(e)' = Place(e),
           \A e \in Ep : e # r => (Exposed(e)' <=> Exposed(e))
    PROVE  Promise!Move(r, s, d)
<1>1. \A e \in Ep : RequestState(e)' = IF e = r THEN s ELSE RequestState(e)
  BY PlaceOfRequest, PlaceOfRequestNext
<1>2. \A e \in Ep : Exposed(e)' = IF e = r THEN d ELSE Exposed(e)
  BY DEF Exposed
<1>3. QED BY <1>1, <1>2 DEF Promise!Move

\* A step that calls requests back.
LEMMA StepSignals ==
    ASSUME Inv, Inv', NEW S \in SUBSET Ep, S # {},
           \A e \in S : live[e] /\ calls[e] = 0,
           \A e \in S : live'[e] /\ calls'[e] = 1,
           \A e \in Ep \ S : Place(e)' = Place(e) /\ (Exposed(e)' <=> Exposed(e))
    PROVE  Promise!Next
<1>1. \A e \in S : RequestState(e) \in {"offered", "accepted"}
  BY PlaceOfRequest DEF Place
<1>2. \A e \in Ep : RequestState(e)' = IF e \in S THEN "signalled" ELSE RequestState(e)
  BY PlaceOfRequest, PlaceOfRequestNext DEF Place
<1>3. \A e \in S : ~ Exposed(e)'
  BY ExposedIsPendingNext
<1>4. \A e \in Ep : Exposed(e)' = (Exposed(e) /\ e \notin S)
  BY <1>3 DEF Exposed
<1>5. Promise!Signal(S)
  BY <1>1, <1>2, <1>4 DEF Promise!Signal
<1>6. QED BY <1>5 DEF Promise!Next

\* A step that changes nothing a request's place depends on.
LEMMA QuietStutters ==
    ASSUME Inv, Inv', UNCHANGED <<live, calls>>,
           \A e \in Ep : (Sub' /\ main'.e = e) <=> (Sub /\ main.e = e),
           \A t \in Unit : /\ token'[t] = "active" <=> token[t] = "active"
                           /\ token[t] = "active" => utrOf'[t] = utrOf[t]
    PROVE  UNCHANGED Promise!vars
<1>1. \A e \in Ep : Place(e)' = Place(e)
  BY DEF Place
<1>2. \A e \in Ep : Exposed(e)' <=> Exposed(e)
  BY DEF Exposed
<1>3. QED BY <1>1, <1>2, StepStutters

\* The steps that only move the program counters, link or unlink, or let the
\* controller fetch and leave a QH.
LEMMA QuietSteps ==
    ASSUME Inv, Inv',
           \/ XferMissQtd \/ XferOverrun \/ XferAppend \/ QuitStart \/ move_qh_to_remove_list \/ QuitClear
           \/ IsrEnter \/ IsrNextQh \/ IsrAsyncEnd \/ IsrPeriodicEnd
           \/ HcFetch \/ HcDrop \/ HcAdvance
    PROVE  UNCHANGED Promise!vars
<1>1. UNCHANGED <<live, calls, token, utrOf>>
  BY DEF XferMissQtd, XferOverrun, XferAppend, QuitStart, move_qh_to_remove_list,
         QuitClear, IsrEnter, IsrNextQh, IsrAsyncEnd, IsrPeriodicEnd, HcFetch, HcDrop, HcAdvance,
         utrVars, qtdVars
<1>2. (Sub' <=> Sub) /\ (Sub => main'.e = main.e)
  <2>1. CASE XferMissQtd \/ XferAppend
    BY <2>1 DEF XferMissQtd, XferAppend, MainAt, Sub, Inv, TypeOK, MainRec
  <2>2. CASE QuitStart
    <3>1. main.pc \in {"idle", "wait"}
      BY <2>2 DEF QuitStart, MainAt
    <3>2. main'.pc = "unlink"
      BY <2>2, ZenonT(30) DEF QuitStart, MainIdle, Inv, TypeOK, MainRec
    <3>3. QED BY <3>1, <3>2 DEF Sub
  <2>3. CASE move_qh_to_remove_list \/ QuitClear
    BY <2>3 DEF move_qh_to_remove_list, QuitClear, MainAt, Sub, Inv, TypeOK, MainRec
  <2>4. CASE UNCHANGED main
    BY <2>4 DEF Sub
  <2>5. QED
    BY <2>1, <2>2, <2>3, <2>4 DEF XferOverrun, IsrEnter, IsrNextQh, IsrAsyncEnd,
       IsrPeriodicEnd, HcFetch, HcDrop, HcAdvance
<1>3. QED BY <1>1, <1>2, QuietStutters

\* A qTD is allocated: it is marked, so the controller does not touch the
\* buffer yet.
LEMMA AllocStep ==
    ASSUME Inv, Inv', ~ fault', XferAllocQtd
    PROVE  UNCHANGED Promise!vars
<1>1. UNCHANGED <<live, calls>>
  BY DEF XferAllocQtd, utrVars
<1>2. Sub /\ Sub' /\ main'.e = main.e
  <2>1. main'.e = main.e /\ main.pc = "alloc"
    BY DEF XferAllocQtd, MainAt, Inv, TypeOK, MainRec
  <2>2. ~ (LastAlloc /\ main.miss > 0)
    BY DEF XferAllocQtd
  <2>3. main'.pc \in {"alloc", "append"}
    BY <2>2 DEF XferAllocQtd, Inv, TypeOK, MainRec
  <2>4. QED BY <2>1, <2>3 DEF Sub
<1>3. PICK u \in Free : AllocQtd(u, main.e, main.k + Cardinality(main.mine) + 1)
  BY DEF XferAllocQtd
<1>4. u \in Unit /\ token[u] # "active"
  BY <1>3 DEF Free, Inv, UnitInv, OnList
<1>5. \A t \in Unit : t # u => token'[t] = token[t] /\ utrOf'[t] = utrOf[t]
  BY <1>3 DEF AllocQtd, Inv, TypeOK
<1>6. token'[u] # "active"
  BY <1>3, <1>4 DEF AllocQtd, Inv, TypeOK
<1>7. QED BY <1>1, <1>2, <1>4, <1>5, <1>6, QuietStutters

\* The handler reclaims a qTD that has been executed: the request is not
\* called back yet.
LEMMA VisitStep ==
    ASSUME Inv, Inv', IsrVisit
    PROVE  UNCHANGED Promise!vars
<1>1. UNCHANGED <<live, calls, main>>
  BY DEF IsrVisit
<1>2. PICK t \in Ahead : IF visit_qtd(t) THEN Reclaim(isr.q, {t})
                         ELSE UNCHANGED qtdVars
  BY DEF IsrVisit
<1>3. \A u \in Unit : /\ token'[u] = "active" <=> token[u] = "active"
                      /\ utrOf'[u] = utrOf[u]
  BY <1>2 DEF Reclaim, Retired, visit_qtd, qtdVars, Inv, TypeOK
<1>4. QED BY <1>1, <1>3, QuietStutters DEF Sub

\* A client submits: its request was idle, or has been called back.
LEMMA OfferStep ==
    ASSUME Inv, Inv', XferStart
    PROVE  Promise!Next
<1>1. PICK e \in Ep, n \in Nat, u \in Unit : Starts(e, n, u)
  BY StartEffect
<1>2. /\ main.pc = "idle" /\ Submits(e) /\ main'.pc \in {"start", "alloc"} /\ main'.e = e
      /\ live' = [live EXCEPT ![e] = TRUE] /\ calls' = [calls EXCEPT ![e] = 0]
      /\ UNCHANGED <<token, utrOf>>
  BY <1>1 DEF Starts, qtdVars
<1>3. Place(e) \in {"idle", "signalled"}
  <2>1. calls[e] \in 0 .. 2 /\ calls[e] <= 1
    BY DEF Inv, TypeOK, RequestInv
  <2>2. QED BY <1>2, <2>1 DEF Place, Submits
<1>4. Place(e)' = "offered"
  BY <1>2 DEF Place, Sub, Inv, TypeOK
<1>5. \A f \in Ep : f # e => Place(f)' = Place(f)
  BY <1>2 DEF Place, Sub, Inv, TypeOK
<1>6. \A f \in Ep : Exposed(f)' <=> Exposed(f)
  BY <1>2 DEF Exposed
<1>7. ~ Exposed(e)
  BY <1>3, ExposedIsPending DEF Place
<1>8. Promise!Move(e, "offered", FALSE)
  BY <1>4, <1>5, <1>6, <1>7, StepMoves
<1>9. Promise!Offer(e)
  BY <1>3, <1>8, PlaceOfRequest DEF Promise!Offer
<1>10. QED BY <1>9 DEF Promise!Next

\* Out of memory: the submission fails and none of its qTDs is left to the
\* controller.
LEMMA RefuseStep ==
    ASSUME Inv, Inv', XferNoMem
    PROVE  Promise!Next
<1>1. /\ main.pc = "alloc" /\ main'.pc = "idle" /\ Wiped(Refused)
  BY RefusedNotHeld, FreeNotHeld DEF XferNoMem, MainAt, MainIdle
<1>2. PICK e \in Ep : e = main.e
  BY <1>1 DEF Inv, MainInv
<1>3. /\ live' = [live EXCEPT ![e] = FALSE] /\ calls' = [calls EXCEPT ![e] = 0]
  BY <1>2 DEF XferNoMem, Released
<1>4. ~ live'[e] /\ \A f \in Ep : f # e => live'[f] = live[f] /\ calls'[f] = calls[f]
  BY <1>3 DEF Inv, TypeOK
<1>5. main.q \in Unit /\ pipe[e] = main.q /\ Sub /\ ~ Sub' /\ live[e] /\ calls[e] = 0
  BY <1>1, <1>2 DEF Inv, SubInv, Sub
<1>6. Place(e) = "offered" /\ Place(e)' = "idle"
  BY <1>2, <1>4, <1>5 DEF Place
<1>7. \A f \in Ep : f # e => Place(f)' = Place(f)
  BY <1>2, <1>4, <1>5 DEF Place
<1>8. ~ Exposed(e)'
  BY <1>4, ExposedIsPendingNext
<1>9. ASSUME NEW f \in Ep, f # e
      PROVE  Exposed(f)' <=> Exposed(f)
  <2>1. \A t \in Unit : utrOf[t] = f /\ token[t] = "active" => t \notin Refused
    <3>1. SUFFICES ASSUME NEW t \in Unit, utrOf[t] = f, token[t] = "active", t \in Refused
                   PROVE  FALSE
      OBVIOUS
    <3>2. PICK q \in Unit : t \in list[q]
      BY <3>1 DEF Inv, UnitInv, OnList
    <3>3. pipe[f] = q
      BY <1>1, <3>1, <3>2 DEF Inv, OwnerInv, Removes
    <3>4. q # main.q
      BY <1>5, <1>9, <3>3, EhciAssumption DEF Inv, PipeInv
    <3>5. t \notin list[main.q] /\ t # main.q
      BY <1>5, <3>2, <3>4 DEF Inv, UnitInv, SubInv
    <3>6. t \notin main.mine
      BY <1>5, <3>1 DEF Inv, SubInv
    <3>7. QED BY <3>1, <3>5, <3>6 DEF Refused
  <2>2. QED BY <1>1, <2>1, EhciAssumption DEF Wiped, Exposed
<1>10. FALSE \in BOOLEAN /\ (Exposed(e)' <=> FALSE)
  BY <1>8
<1>11. Promise!Move(e, "idle", FALSE)
  BY <1>6, <1>7, <1>9, <1>10, StepMoves
<1>12. Promise!Refuse(e)
  BY <1>6, <1>11, PlaceOfRequest DEF Promise!Refuse
<1>13. QED BY <1>12 DEF Promise!Next

\* A qTD becomes active: the controller may access the buffer of a request
\* that is still being submitted.
LEMMA ExposeStep ==
    ASSUME Inv, Inv', XferActivate
    PROVE  Promise!Next
<1>1. /\ main.pc = "activate" /\ main'.e = main.e
      /\ main'.pc \in {"start", "append", "alloc"}
      /\ UNCHANGED <<live, calls, utrOf>>
  BY DEF XferActivate, MainAt, Inv, TypeOK, MainRec, utrVars
<1>2. PICK t \in main.mine : token' = [token EXCEPT ![t] = "active"]
  BY DEF XferActivate
<1>3. PICK e \in Ep : e = main.e
  BY <1>1 DEF Inv, MainInv
<1>4. Sub /\ Sub' /\ t \in Unit /\ utrOf[t] = e /\ main'.e = e
  BY <1>1, <1>2, <1>3 DEF Sub, Inv, SubInv, TypeOK, MainRec
<1>5. \A f \in Ep : Place(f)' = Place(f)
  BY <1>1, <1>4 DEF Place
<1>6. Place(e) = "offered"
  BY <1>3, <1>4 DEF Place, Inv, SubInv
<1>7. Exposed(e)' <=> TRUE
  BY <1>1, <1>2, <1>4 DEF Exposed, Inv, TypeOK
<1>8. \A f \in Ep : f # e => (Exposed(f)' <=> Exposed(f))
  BY <1>1, <1>2, <1>4 DEF Exposed, Inv, TypeOK
<1>9. TRUE \in BOOLEAN /\ Place(e)' = "offered"
  BY <1>5, <1>6
<1>10. Promise!Move(e, "offered", TRUE)
  BY <1>5, <1>7, <1>8, <1>9, StepMoves
<1>11. Promise!Expose(e)
  BY <1>6, <1>10, PlaceOfRequest DEF Promise!Expose
<1>12. QED BY <1>11 DEF Promise!Next

\* The submission returns.
LEMMA AcceptStep ==
    ASSUME Inv, Inv', XferGo
    PROVE  Promise!Next
<1>1. /\ main.pc = "start" /\ main'.pc \in {"idle", "wait"}
      /\ UNCHANGED <<live, calls, token, utrOf>>
  BY DEF XferGo, MainAt, MainIdle, utrVars, qtdVars
<1>2. PICK e \in Ep : e = main.e
  BY <1>1 DEF Inv, MainInv
<1>3. Sub /\ ~ Sub' /\ live[e] /\ calls[e] = 0
  BY <1>1, <1>2 DEF Sub, Inv, SubInv
<1>4. Place(e) = "offered" /\ Place(e)' = "accepted"
  BY <1>1, <1>2, <1>3 DEF Place
<1>5. \A f \in Ep : f # e => Place(f)' = Place(f)
  BY <1>1, <1>2, <1>3 DEF Place
<1>6. \A f \in Ep : Exposed(f)' <=> Exposed(f)
  BY <1>1 DEF Exposed
<1>7. CASE Exposed(e)'
  <2>1. TRUE \in BOOLEAN /\ (Exposed(e)' <=> TRUE)
    BY <1>7
  <2>2. Promise!Move(e, "accepted", TRUE)
    BY <1>4, <1>5, <1>6, <2>1, StepMoves
  <2>3. Promise!Accept(e)
    BY <1>4, <2>2, PlaceOfRequest DEF Promise!Accept
  <2>4. QED BY <2>3 DEF Promise!Next
<1>8. CASE ~ Exposed(e)'
  <2>1. FALSE \in BOOLEAN /\ (Exposed(e)' <=> FALSE)
    BY <1>8
  <2>2. Promise!Move(e, "accepted", FALSE)
    BY <1>4, <1>5, <1>6, <2>1, StepMoves
  <2>3. Promise!Accept(e)
    BY <1>4, <2>2, PlaceOfRequest DEF Promise!Accept
  <2>4. QED BY <2>3 DEF Promise!Next
<1>9. QED BY <1>7, <1>8

\* A client takes back a request that has been called back.
LEMMA ReleaseStep ==
    ASSUME Inv, Inv', NEW e \in Ep, ~ live[e] \/ calls[e] = 1,
           Released(e), UNCHANGED <<token, utrOf>>,
           \A f \in Ep : f # e => ((Sub' /\ main'.e = f) <=> (Sub /\ main.e = f))
    PROVE  Promise!Next \/ UNCHANGED Promise!vars
<1>1. Place(e)' = "idle" /\ \A f \in Ep : f # e => Place(f)' = Place(f)
  BY DEF Released, Place, Inv, TypeOK
<1>2. \A f \in Ep : Exposed(f)' <=> Exposed(f)
  BY DEF Exposed
<1>3. CASE ~ live[e]
  BY <1>1, <1>2, <1>3, StepStutters DEF Place
<1>4. CASE live[e] /\ calls[e] = 1
  <2>1. Place(e) = "signalled" /\ ~ Exposed(e)
    BY <1>4, ExposedIsPending DEF Place
  <2>2. Promise!Move(e, "idle", FALSE)
    BY <1>1, <1>2, <2>1, StepMoves
  <2>3. Promise!Release(e)
    BY <2>1, <2>2, PlaceOfRequest DEF Promise!Release
  <2>4. QED BY <2>3 DEF Promise!Next
<1>5. QED BY <1>3, <1>4

\* The client sees bIsTransferDone: the callback has been made.
LEMMA DoneStep ==
    ASSUME Inv, Inv', CtrlDone \/ BulkDone
    PROVE  Promise!Next \/ UNCHANGED Promise!vars
<1>1. CASE CtrlDone
  <2>1. /\ main.pc = "wait" /\ main'.pc = "idle" /\ isDone[main.e]
        /\ UNCHANGED <<token, utrOf>>
    BY <1>1 DEF CtrlDone, MainAt, MainIdle, qtdVars
  <2>2. PICK e \in AsyncEp : e = main.e
    BY <2>1 DEF Inv, MainInv, AsyncEp
  <2>3. e \in Ep /\ Released(e) /\ ~ Sub /\ ~ Sub'
    BY <1>1, <2>1, <2>2 DEF CtrlDone, Sub, AsyncEp, Ep
  <2>4. ~ live[e] \/ calls[e] = 1
    BY <2>1, <2>2 DEF Inv, RequestInv
  <2>5. QED BY <2>1, <2>3, <2>4, ReleaseStep
<1>2. CASE BulkDone
  <2>1. PICK e \in BulkEp : isDone[e] /\ Released(e)
    BY <1>2 DEF BulkDone
  <2>2. e \in AsyncEp /\ e \in Ep
    BY DEF AsyncEp, Ep
  <2>3. ~ live[e] \/ calls[e] = 1
    BY <2>1, <2>2 DEF Inv, RequestInv
  <2>4. UNCHANGED <<token, utrOf, main>>
    BY <1>2 DEF BulkDone, qtdVars
  <2>5. QED BY <2>1, <2>2, <2>3, <2>4, ReleaseStep DEF Sub
<1>3. QED BY <1>1, <1>2

\* A quit ends: the request has been aborted, or called back before.
LEMMA QuitStep ==
    ASSUME Inv, Inv', QuitDelay
    PROVE  Promise!Next \/ UNCHANGED Promise!vars
<1>1. /\ main.pc = "delay" /\ main'.pc = "idle" /\ main.q \notin removing
      /\ isr.pc = "off" /\ UNCHANGED <<token, utrOf>>
  BY DEF QuitDelay, MainAt, MainIdle, qtdVars
<1>2. PICK e \in Ep : e = main.e
  BY <1>1 DEF Inv, MainInv
<1>3. Released(e) /\ ~ Sub /\ ~ Sub' /\ pipe[e] = NULL
  BY <1>1, <1>2 DEF QuitDelay, Sub, Inv, MainInv
<1>4. \A q \in Unit : \A t \in list[q] : utrOf[t] # e
  BY <1>1, <1>3, EhciAssumption DEF Inv, OwnerInv, Removes
<1>5. ~ live[e] \/ calls[e] = 1
  <2>1. calls[e] \in 0 .. 2 /\ calls[e] <= 1
    BY DEF Inv, TypeOK, RequestInv
  <2>2. ~ (live[e] /\ calls[e] = 0)
    BY <1>1, <1>3, <1>4 DEF Inv, RequestInv, OnList
  <2>3. QED BY <2>1, <2>2
<1>6. QED BY <1>1, <1>3, <1>5, ReleaseStep

\* The handler calls back requests of S, and the qTDs it takes off the lists
\* are none of another request's that the controller may execute.
LEMMA CallBackStep ==
    ASSUME Inv, Inv', NEW S \in SUBSET Ep, Signal(S), UNCHANGED <<live, main>>,
           \A e \in S : live[e] /\ calls[e] = 0,
           \A e \in Ep \ S : Exposed(e)' <=> Exposed(e)
    PROVE  Promise!Next \/ UNCHANGED Promise!vars
<1>1. calls' = [e \in Ep |-> IF e \in S THEN 1 ELSE calls[e]]
  BY SignalEffect DEF Inv, RequestInv
<1>2. \A e \in Ep \ S : Place(e)' = Place(e)
  BY <1>1 DEF Place, Sub
<1>3. \A e \in S : live'[e] /\ calls'[e] = 1
  BY <1>1
<1>4. CASE S = {}
  BY <1>2, <1>4, StepStutters
<1>5. CASE S # {}
  BY <1>2, <1>3, <1>5, StepSignals
<1>6. QED BY <1>4, <1>5

\* The handler calls back a request whose qTDs are all reclaimed, if there is
\* one.
LEMMA VisitedStep ==
    ASSUME Inv, Inv', IsrVisited
    PROVE  Promise!Next \/ UNCHANGED Promise!vars
<1>1. isr.pc = "visit" /\ UNCHANGED <<live, main, token, utrOf>>
  BY DEF IsrVisited, qtdVars
<1>2. \A e \in Ep : Exposed(e)' <=> Exposed(e)
  BY <1>1 DEF Exposed
<1>3. CASE AllDone
  <2>1. Signal({isr.utr})
    BY <1>3 DEF IsrVisited
  <2>2. isr.utr \in Ep /\ live[isr.utr] /\ calls[isr.utr] = 0
    BY <1>1, <1>3 DEF AllDone, Inv, IsrInv
  <2>3. QED BY <1>1, <1>2, <2>1, <2>2, CallBackStep
<1>4. CASE ~ AllDone
  <2>1. UNCHANGED calls
    BY <1>4 DEF IsrVisited
  <2>2. QED BY <1>1, <2>1, QuietStutters DEF Sub
<1>5. QED BY <1>3, <1>4

\* The same for an interrupt transfer.
LEMMA PeriodicStep ==
    ASSUME Inv, Inv', IsrPeriodic
    PROVE  Promise!Next \/ UNCHANGED Promise!vars
<1>1. isr.pc = "periodic" /\ UNCHANGED <<live, main>>
  BY DEF IsrPeriodic
<1>2. PICK q \in isr.todo :
         LET gone == {t \in list[q] : visit_qtd(t)}
             done == IF gone # {} THEN gone ELSE doneList[q]
             over == list[q] \ gone = {} /\ done # {}
             utr  == utrOf[CHOOSE t \in done : TRUE]
         IN  /\ Reclaim(q, gone)
             /\ IF over THEN Signal({utr}) /\ iaad' = TRUE
                        ELSE UNCHANGED <<isDone, calls, lateTo, iaad>>
             /\ isr' = [isr EXCEPT
                   !.todo = @ \ {q},
                   !.q = IF over THEN q ELSE NULL,
                   !.utr = IF over THEN utr ELSE NULL,
                   !.pc = IF over THEN "callback" ELSE "periodic"]
  BY DEF IsrPeriodic
<1> DEFINE gone == {t \in list[q] : visit_qtd(t)}
<1>3. q \in Unit /\ list[q] # {} /\ gone \in SUBSET Unit
  BY <1>1 DEF Inv, TypeOK, IsrRec, IsrInv
<1>4. \A t \in Unit : (token'[t] = "active" <=> token[t] = "active") /\ utrOf'[t] = utrOf[t]
  BY <1>2, <1>3 DEF Reclaim, Retired, visit_qtd, Inv, TypeOK
<1>5. \A e \in Ep : Exposed(e)' <=> Exposed(e)
  BY <1>4 DEF Exposed
<1>6. CASE list[q] = gone
  <2>1. gone # {} /\ list[q] \ gone = {}
    BY <1>3, <1>6
  <2>2. PICK t \in list[q] : t = CHOOSE u \in gone : TRUE
    BY <1>6, <2>1
  <2>3. Signal({utrOf[t]})
    BY <1>2, <2>1, <2>2
  <2>4. utrOf[t] \in Ep /\ live[utrOf[t]] /\ calls[utrOf[t]] = 0
    BY <1>3 DEF Inv, OwnerInv
  <2>5. QED BY <1>1, <1>5, <2>3, <2>4, CallBackStep
<1>7. CASE list[q] # gone
  <2>1. list[q] \ gone # {}
    BY <1>7
  <2>2. UNCHANGED calls
    BY <1>2, <2>1
  <2>3. QED BY <1>1, <1>4, <2>2, QuietStutters DEF Sub
<1>8. QED BY <1>6, <1>7

\* iaad_remove_qh calls back each request that has qTDs on a QH it frees,
\* once, and the controller is through with them.
LEMMA AbortStep ==
    ASSUME Inv, Inv', ~ fault', IsrIaa
    PROVE  Promise!Next \/ UNCHANGED Promise!vars
<1> DEFINE F == removing \cup RemovedQtds \cup UNION {doneList[q] : q \in Linked}
<1>1. Signal(Aborted) /\ Wiped(F) /\ UNCHANGED <<live, main>>
  BY RemovedNotHeld, FreeNotHeld DEF IsrIaa, iaad_remove_qh
<1>2. \A q \in removing : \A t \in list[q] :
         utrOf[t] \in Ep /\ live[utrOf[t]] /\ calls[utrOf[t]] = 0
  BY DEF Inv, OwnerInv, TypeOK
<1>3. /\ Aborted \in SUBSET Ep
      /\ \A e \in Aborted : live[e] /\ calls[e] = 0
  BY <1>2 DEF Aborted
<1>4. \A t \in Unit : token[t] = "active" /\ t \in F => utrOf[t] \in Aborted
  <2>1. SUFFICES ASSUME NEW t \in Unit, token[t] = "active", t \in F
                 PROVE  utrOf[t] \in Aborted
    OBVIOUS
  <2>2. PICK q \in Unit : t \in list[q]
    BY <2>1 DEF Inv, UnitInv, OnList
  <2>3. t \notin removing /\ \A r \in Unit : t \notin doneList[r]
    BY <2>2 DEF Inv, UnitInv, QhInv
  <2>4. \E r \in removing : t \in list[r]
    BY <2>1, <2>3 DEF RemovedQtds, Linked, Inv, TypeOK
  <2>5. QED BY <2>4 DEF Aborted
<1>5. \A t \in Unit : IF t \in F THEN token'[t] # "active"
                      ELSE token'[t] = token[t] /\ utrOf'[t] = utrOf[t]
  BY <1>1 DEF Wiped
<1>6. \A e \in Ep \ Aborted : Exposed(e)' <=> Exposed(e)
  BY <1>4, <1>5 DEF Exposed
<1>7. QED BY <1>1, <1>3, <1>6, CallBackStep

\* The callback of an interrupt transfer offers its request again inside the
\* handler, or gives it up.
LEMMA ResubmitStep ==
    ASSUME Inv, Inv', IsrCallback
    PROVE  Promise!Next \/ UNCHANGED Promise!vars
<1>1. isr.pc = "callback" /\ UNCHANGED main
  BY DEF IsrCallback
<1>2. PICK e \in Ep : e = isr.utr /\ live[e] /\ calls[e] = 1 /\ ~ (Sub /\ main.e = e)
  BY <1>1 DEF Inv, IsrInv
<1>3. Place(e) = "signalled" /\ ~ Exposed(e)
  BY <1>2, ExposedIsPending DEF Place
<1>4. CASE \E t \in Free : /\ token' = [token EXCEPT ![t] = "active"]
                           /\ utrOf' = [utrOf EXCEPT ![t] = e]
                           /\ calls' = [calls EXCEPT ![e] = 0]
                           /\ UNCHANGED live
  <2>1. PICK t \in Free : /\ token' = [token EXCEPT ![t] = "active"]
                          /\ utrOf' = [utrOf EXCEPT ![t] = e]
    BY <1>4
  <2>2. t \in Unit /\ token[t] # "active"
    BY DEF Free, Inv, UnitInv, OnList
  <2>3. /\ live'[e] /\ calls'[e] = 0
        /\ \A f \in Ep : f # e => live'[f] = live[f] /\ calls'[f] = calls[f]
    BY <1>2, <1>4 DEF Inv, TypeOK
  <2>4. /\ token'[t] = "active" /\ utrOf'[t] = e
        /\ \A u \in Unit : u # t => token'[u] = token[u] /\ utrOf'[u] = utrOf[u]
    BY <2>1, <2>2 DEF Inv, TypeOK
  <2>5. Place(e)' = "accepted"
    BY <1>1, <1>2, <2>3 DEF Place, Sub
  <2>6. \A f \in Ep : f # e => Place(f)' = Place(f)
    BY <1>1, <2>3 DEF Place, Sub
  <2>7. TRUE \in BOOLEAN /\ (Exposed(e)' <=> TRUE)
    BY <2>2, <2>4 DEF Exposed
  <2>8. \A f \in Ep : f # e => (Exposed(f)' <=> Exposed(f))
    BY <2>2, <2>4 DEF Exposed
  <2>9. Promise!Move(e, "accepted", TRUE)
    BY <2>5, <2>6, <2>7, <2>8, StepMoves
  <2>10. Promise!Resubmit(e)
    BY <1>3, <2>9, PlaceOfRequest DEF Promise!Resubmit
  <2>11. QED BY <2>10 DEF Promise!Next
<1>5. CASE /\ live' = [live EXCEPT ![e] =
                           @ /\ ~ (e \in HidEp /\ status[e] = "ok")]
           /\ UNCHANGED <<token, utrOf, calls>>
  <2>1. \A f \in Ep : f # e => live'[f] = live[f]
    BY <1>5 DEF Inv, TypeOK
  <2>2. \A f \in Ep : f # e => Place(f)' = Place(f)
    BY <1>1, <1>5, <2>1 DEF Place, Sub
  <2>3. \A f \in Ep : Exposed(f)' <=> Exposed(f)
    BY <1>5 DEF Exposed
  <2>4. CASE live'[e]
    <3>1. Place(e)' = "signalled"
      BY <1>2, <1>5, <2>4 DEF Place
    <3>2. QED BY <1>3, <2>2, <2>3, <3>1, StepStutters
  <2>5. CASE ~ live'[e]
    <3>1. Place(e)' = "idle"
      BY <2>5 DEF Place
    <3>2. FALSE \in BOOLEAN /\ (Exposed(e)' <=> FALSE)
      BY <1>3, <2>3
    <3>3. Promise!Move(e, "idle", FALSE)
      BY <2>2, <2>3, <3>1, <3>2, StepMoves
    <3>4. Promise!Release(e)
      BY <1>3, <3>3, PlaceOfRequest DEF Promise!Release
    <3>5. QED BY <3>4 DEF Promise!Next
  <2>6. QED BY <2>4, <2>5
<1>6. QED BY <1>2, <1>4, <1>5 DEF IsrCallback, qtdVars

\* The controller executes a qTD: the buffer may be left alone from then on,
\* or not yet.
LEMMA RetireStep ==
    ASSUME Inv, Inv', HcRetire
    PROVE  Promise!Next \/ UNCHANGED Promise!vars
<1>1. UNCHANGED <<live, calls, main, utrOf>>
  BY DEF HcRetire, utrVars
<1>2. PICK t \in Unit : /\ t = ol[hc] /\ token[t] = "active" /\ t \in list[hc] /\ hc \in Unit
  BY EhciAssumption DEF HcRetire, Inv, TypeOK, UnitOrNull, ChainInv
<1>3. PICK s \in {"ok", "err"} : token' = [token EXCEPT ![t] = s]
  BY <1>2 DEF HcRetire
<1>4. PICK e \in Ep : e = utrOf[t] /\ live[e] /\ calls[e] = 0
  BY <1>2 DEF Inv, OwnerInv
<1>5. token'[t] # "active" /\ \A u \in Unit : u # t => token'[u] = token[u]
  BY <1>3 DEF Inv, TypeOK
<1>6. \A f \in Ep : Place(f)' = Place(f)
  BY <1>1 DEF Place, Sub
<1>7. \A f \in Ep : f # e => (Exposed(f)' <=> Exposed(f))
  BY <1>1, <1>4, <1>5 DEF Exposed
<1>8. Exposed(e)
  BY <1>2, <1>4 DEF Exposed
<1>9. CASE Exposed(e)'
  BY <1>6, <1>7, <1>8, <1>9, StepStutters
<1>10. CASE ~ Exposed(e)'
  <2>1. FALSE \in BOOLEAN /\ (Exposed(e)' <=> FALSE)
    BY <1>10
  <2>2. Place(e) \in {"offered", "accepted"}
    BY <1>4 DEF Place
  <2>3. Promise!Move(e, Place(e), FALSE)
    BY <1>6, <1>7, <2>1, StepMoves
  <2>4. Promise!Retire(e)
    BY <2>2, <2>3, PlaceOfRequest DEF Promise!Retire
  <2>5. QED BY <2>4 DEF Promise!Next
<1>11. QED BY <1>9, <1>10

\* Every step is one of Transfer or leaves it alone.
LEMMA StepImplements ==
    ASSUME Inv, Inv', ~ fault', Next
    PROVE  Promise!Next \/ UNCHANGED Promise!vars
<1>1. CASE MainNext
  <2>1. ~ XferGoEmpty
    BY DEF XferGoEmpty
  <2>2. QED BY <1>1, <2>1, OfferStep, AllocStep, RefuseStep, ExposeStep, AcceptStep,
     DoneStep, QuitStep, QuietSteps DEF MainNext
<1>2. CASE IsrNext
  BY <1>2, VisitStep, VisitedStep, PeriodicStep, ResubmitStep, AbortStep, QuietSteps DEF IsrNext
<1>3. CASE HcNext
  BY <1>3, RetireStep, QuietSteps DEF HcNext
<1>4. QED BY <1>1, <1>2, <1>3 DEF Next

\* The EHCI driver implements Transfer, the promise of usb_core.c:367-399: a
\* request is refused at once or called back exactly once, its buffer is left
\* alone from then on, and it is not released before.  It does as long as none of
\* the four faults has happened: after them freed qTDs are executed or called back
\* again (ehci.c:607-618, 941), or there is no qTD (ehci.c:483-527, 605).
THEOREM Refinement == Spec /\ []~ fault => Implements
<1>1. Init => Promise!Init
  <2>1. SUFFICES ASSUME Init PROVE Promise!Init
    OBVIOUS
  <2>2. \A e \in Ep : RequestState(e) = "idle" /\ Exposed(e) = FALSE
    <3>1. lateTo = {} /\ \A e \in Ep : ~ live[e] /\ calls[e] = 0
      BY <2>1 DEF Init
    <3>2. \A t \in Unit : token[t] # "active"
      BY <2>1 DEF Init
    <3>3. QED BY <3>1, <3>2 DEF RequestState, Exposed
  <2>3. QED BY <2>2 DEF Promise!Init
<1>2. IInv /\ IInv' /\ ~ fault /\ ~ fault' /\ [Next]_vars => [Promise!Next]_(Promise!vars)
  <2>1. SUFFICES ASSUME Inv, Inv', ~ fault', [Next]_vars
                 PROVE  Promise!Next \/ UNCHANGED Promise!vars
    BY DEF IInv
  <2>2. CASE UNCHANGED vars
    <3>1. UNCHANGED <<live, calls, token, utrOf, main>>
      BY <2>2 DEF vars, qtdVars, utrVars
    <3>2. QED BY <2>1, <3>1, QuietStutters DEF Sub
  <2>3. QED BY <2>1, <2>2, StepImplements
<1>3. Spec => []IInv
  BY InvHolds
<1>4. QED BY <1>1, <1>2, <1>3, PTL DEF Spec, Implements, Promise!Spec
=============================================================================
