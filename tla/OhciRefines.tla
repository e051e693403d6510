---------------------------- MODULE OhciRefines ----------------------------
(***************************************************************************)
(* The proof that Ohci implements Transfer, by the refinement mapping of   *)
(* Ohci (RequestState, Exposed) and the invariant of OhciProofs.           *)
(***************************************************************************)
EXTENDS OhciProofs

(***************************************************************************)
(* The refinement mapping under the invariant.                             *)
(***************************************************************************)

\* Where a request is, with the impossible case left out.
At(e) == IF ~ live[e] THEN "idle"
         ELSE IF calls[e] = 1 THEN "signalled"
         ELSE IF Sub /\ main.e = e THEN "offered" ELSE "accepted"

\* The dummy, which the controller does not execute.
Least(e) == IF e \in IntEp THEN 1 ELSE 0

\* A linked ED of e has a TD to execute.
Runs(e) == \E d \in Linked : info[d] = e /\ Len(chain[d]) > Least(e)

\* The TDs of a linked ED are its endpoint's, and owed.
LEMMA LinkedTds ==
    ASSUME Inv, NEW d \in Linked
    PROVE  /\ d \in Unit /\ info[d] \in Ep /\ chain[d] \in Seq(Unit) /\ Once(chain[d])
           /\ \A t \in Elems(chain[d]) : t \in Unit /\ utrOf[t] = info[d] /\ t \in Owed(info[d])
<1>1. d \in Unit /\ chain[d] \in Seq(Unit) /\ Once(chain[d])
  BY DEF Linked, Inv, TypeOK, UnitOrNull, PlaceInv
<1>2. info[d] \in Ep
  BY DEF Linked, Inv, EdInv, Ep
<1>3. ~ (main.pc = "go" /\ main.new /\ main.ed = d)
  BY DEF Inv, SubInv, Sub
<1>4. \A t \in Elems(chain[d]) : t \in Unit /\ utrOf[t] = info[d]
  BY <1>1, <1>3, ElemsOf DEF Inv, TdInv
<1>5. \A t \in Elems(chain[d]) : t \in Owed(info[d])
  BY <1>1, <1>4 DEF Owed
<1>6. QED BY <1>1, <1>2, <1>4, <1>5

\* The controller may access the buffer of e when a linked ED of e has a TD
\* to execute.
LEMMA ExposedRuns ==
    ASSUME Inv, NEW e \in Ep
    PROVE  Exposed(e) <=> Runs(e)
<1>1. ASSUME NEW d \in Linked
      PROVE  (\E i \in DOMAIN Pending(d) : utrOf[Pending(d)[i]] = e) <=>
                info[d] = e /\ Len(chain[d]) > Least(e)
  <2>1. /\ chain[d] \in Seq(Unit) /\ Len(chain[d]) \in Nat /\ DOMAIN chain[d] = 1 .. Len(chain[d])
    BY LinkedTds
  <2>2. \A i \in 1 .. Len(chain[d]) : utrOf[chain[d][i]] = info[d]
    <3>1. \A i \in 1 .. Len(chain[d]) : chain[d][i] \in Elems(chain[d])
      BY <2>1 DEF Elems
    <3>2. QED BY <3>1, LinkedTds
  <2>3. CASE info[d] \in IntEp
    <3>1. Pending(d) = SubSeq(chain[d], 1, Len(chain[d]) - 1)
      BY <2>3 DEF Pending
    <3>2. /\ DOMAIN Pending(d) = 1 .. Len(chain[d]) - 1
          /\ \A i \in 1 .. Len(chain[d]) - 1 : Pending(d)[i] = chain[d][i]
      BY <2>1, <3>1
    <3>3. (\E i \in DOMAIN Pending(d) : utrOf[Pending(d)[i]] = e) <=>
             info[d] = e /\ Len(chain[d]) - 1 >= 1
      <4>1. ASSUME info[d] = e, Len(chain[d]) - 1 >= 1
            PROVE  \E i \in DOMAIN Pending(d) : utrOf[Pending(d)[i]] = e
        <5>1. 1 \in DOMAIN Pending(d) /\ 1 \in 1 .. Len(chain[d])
          BY <2>1, <3>2, <4>1
        <5>2. utrOf[Pending(d)[1]] = e
          BY <2>2, <3>2, <4>1, <5>1
        <5>3. QED BY <5>1, <5>2
      <4>2. ASSUME NEW i \in DOMAIN Pending(d), utrOf[Pending(d)[i]] = e
            PROVE  info[d] = e /\ Len(chain[d]) - 1 >= 1
        BY <2>1, <2>2, <3>2, <4>2
      <4>3. QED BY <4>1, <4>2
    <3>4. QED BY <2>1, <2>3, <3>3 DEF Least
  <2>4. CASE info[d] \notin IntEp
    <3>1. Pending(d) = chain[d]
      BY <2>4 DEF Pending
    <3>2. (\E i \in DOMAIN Pending(d) : utrOf[Pending(d)[i]] = e) <=>
             info[d] = e /\ Len(chain[d]) >= 1
      <4>1. ASSUME info[d] = e, Len(chain[d]) >= 1
            PROVE  \E i \in DOMAIN Pending(d) : utrOf[Pending(d)[i]] = e
        <5>1. 1 \in DOMAIN Pending(d) /\ 1 \in 1 .. Len(chain[d])
          BY <2>1, <3>1, <4>1
        <5>2. utrOf[Pending(d)[1]] = e
          BY <2>2, <3>1, <4>1, <5>1
        <5>3. QED BY <5>1, <5>2
      <4>2. ASSUME NEW i \in DOMAIN Pending(d), utrOf[Pending(d)[i]] = e
            PROVE  info[d] = e /\ Len(chain[d]) >= 1
        BY <2>1, <2>2, <3>1, <4>2
      <4>3. QED BY <4>1, <4>2
    <3>3. QED BY <2>1, <2>4, <3>2 DEF Least
  <2>5. QED BY <2>3, <2>4
<1>2. QED BY <1>1 DEF Exposed, Runs

\* A request with a TD to execute has not been called back.
LEMMA RunsIsPending ==
    ASSUME Inv, NEW e \in Ep, Runs(e)
    PROVE  live[e] /\ calls[e] = 0
<1>1. CASE Sub /\ main.e = e
  BY <1>1 DEF Inv, SubInv
<1>2. CASE ~ (Sub /\ main.e = e)
  <2>1. PICK d \in Linked : info[d] = e /\ Len(chain[d]) > Least(e)
    BY DEF Runs
  <2>2. /\ chain[d] \in Seq(Unit) /\ Once(chain[d]) /\ Elems(chain[d]) \subseteq Owed(e)
        /\ Len(chain[d]) \in Nat /\ DOMAIN chain[d] = 1 .. Len(chain[d])
    BY <2>1, LinkedTds
  <2>3. Owed(e) \in SUBSET Unit /\ Cardinality(Owed(e)) \in Nat /\ InHand(e) = 0
        /\ cnt[e] + Dummies(e) = Cardinality(Owed(e)) + InHand(e) /\ cnt[e] \in Int
    <3>1. Owed(e) \in SUBSET Unit /\ InHand(e) = 0
      BY <1>2 DEF Owed, InHand
    <3>2. QED BY <3>1, UnitsFinite, OhciAssumption DEF Inv, TypeOK, CountInv
  <2>4. chain[d][1] \in Owed(e)
    <3>1. 1 \in DOMAIN chain[d]
      BY <2>1, <2>2 DEF Least
    <3>2. chain[d][1] \in Elems(chain[d])
      BY <3>1 DEF Elems
    <3>3. QED BY <2>2, <3>2
  <2>5. cnt[e] >= 1
    <3>1. CASE e \in IntEp
      <4>1. Len(chain[d]) > 1
        BY <2>1, <3>1 DEF Least
      <4>2. 1 \in DOMAIN chain[d] /\ 2 \in DOMAIN chain[d]
        BY <2>2, <4>1
      <4>3. chain[d][2] \in Elems(chain[d]) /\ chain[d][1] # chain[d][2]
        BY <2>2, <4>2 DEF Elems, Once
      <4>4. chain[d][2] \in Owed(e) \ {chain[d][1]}
        BY <2>2, <4>3
      <4>5. Cardinality(Owed(e) \ {chain[d][1]}) = Cardinality(Owed(e)) - 1
        BY <2>3, <2>4, CountUnits
      <4>6. /\ Owed(e) \ {chain[d][1]} \in SUBSET Unit
            /\ Cardinality(Owed(e) \ {chain[d][1]}) \in Nat
        BY <2>3, UnitsFinite
      <4>7. Cardinality(Owed(e) \ {chain[d][1]}) # 0
        BY <4>4, <4>6, CountUnits
      <4>8. Dummies(e) \in {0, 1}
        BY DEF Dummies
      <4>9. QED BY <2>3, <4>5, <4>6, <4>7, <4>8
    <3>2. CASE e \notin IntEp
      <4>1. Dummies(e) = 0
        BY <3>2 DEF Dummies
      <4>2. Cardinality(Owed(e)) # 0
        BY <2>3, <2>4, CountUnits
      <4>3. QED BY <2>3, <4>1, <4>2
    <3>3. QED BY <3>1, <3>2
  <2>6. QED BY <1>2, <2>5 DEF Inv, RequestInv
<1>3. QED BY <1>1, <1>2

\* The mapping, and that the controller may access a buffer only while its
\* request is pending.
LEMMA Mapping ==
    Inv => \A e \in Ep : /\ RequestState(e) = At(e) /\ (Exposed(e) <=> Runs(e))
                         /\ Runs(e) => live[e] /\ calls[e] = 0
<1>1. SUFFICES ASSUME Inv, NEW e \in Ep PROVE RequestState(e) = At(e)
  BY ExposedRuns, RunsIsPending
<1>2. late \subseteq dropped
  BY <1>1 DEF Inv, RequestInv
<1>3. calls[e] \in 0 .. 2 /\ calls[e] <= 1
  BY <1>1 DEF Inv, TypeOK, RequestInv
<1>4. e \notin late \ dropped /\ ~ (calls[e] > 1)
  BY <1>2, <1>3
<1>5. QED BY <1>4 DEF RequestState, At, Sub

\* The same after a step.
LEMMA MappingNext ==
    Inv' => (\A e \in Ep : /\ RequestState(e) = At(e) /\ (Exposed(e) <=> Runs(e))
                           /\ Runs(e) => live[e] /\ calls[e] = 0)'
BY Mapping, PTL

(***************************************************************************)
(* Steps of Transfer.                                                      *)
(***************************************************************************)

\* A step that moves no request and exposes or retires nothing.
LEMMA StepStutters ==
    ASSUME Inv, Inv',
           \A e \in Ep : At(e)' = At(e),
           \A e \in Ep : Runs(e)' <=> Runs(e)
    PROVE  UNCHANGED Promise!vars
<1>1. \A e \in Ep : RequestState(e)' = RequestState(e)
  BY Mapping, MappingNext
<1>2. \A e \in Ep : Exposed(e)' <=> Exposed(e)
  BY Mapping, MappingNext
<1>3. \A e \in Ep : Exposed(e)' = Exposed(e)
  BY <1>2 DEF Exposed
<1>4. QED BY <1>1, <1>3 DEF Promise!vars

\* A step that moves one request.
LEMMA StepMoves ==
    ASSUME Inv, Inv', NEW r \in Ep, NEW s, NEW d \in BOOLEAN,
           At(r)' = s, Runs(r)' <=> d,
           \A e \in Ep : e # r => At(e)' = At(e),
           \A e \in Ep : e # r => (Runs(e)' <=> Runs(e))
    PROVE  Promise!Move(r, s, d)
<1>1. \A e \in Ep : RequestState(e)' = IF e = r THEN s ELSE RequestState(e)
  BY Mapping, MappingNext
<1>2. \A e \in Ep : Exposed(e)' <=> IF e = r THEN d ELSE Exposed(e)
  BY Mapping, MappingNext
<1>3. \A e \in Ep : Exposed(e)' = IF e = r THEN d ELSE Exposed(e)
  BY <1>2 DEF Exposed
<1>4. QED BY <1>1, <1>3 DEF Promise!Move

\* What a request is depends on live, calls and the submission under way.
LEMMA AtKept ==
    ASSUME NEW e \in Ep, live'[e] = live[e], calls'[e] = calls[e],
           (Sub' /\ main'.e = e) <=> (Sub /\ main.e = e)
    PROVE  At(e)' = At(e)
BY DEF At

\* Whether the controller has a TD depends on the linked EDs.
LEMMA RunsKept ==
    ASSUME Inv, Inv', NEW e \in Ep,
           \A d \in Linked : info[d] = e /\ Len(chain[d]) > Least(e) =>
                d \in Linked' /\ info'[d] = e /\ Len(chain'[d]) > Least(e),
           \A d \in Linked' : info'[d] = e /\ Len(chain'[d]) > Least(e) =>
                d \in Linked /\ info[d] = e /\ Len(chain[d]) > Least(e)
    PROVE  Runs(e)' <=> Runs(e)
<1>1. Least(e)' = Least(e)
  BY DEF Least
<1>2. Runs(e)' <=> \E d \in Linked' : info'[d] = e /\ Len(chain'[d]) > Least(e)
  BY <1>1 DEF Runs
<1>3. Runs(e) <=> \E d \in Linked : info[d] = e /\ Len(chain[d]) > Least(e)
  BY DEF Runs
<1>4. QED BY <1>2, <1>3

\* The linked EDs and their TDs stay.
LEMMA LinkedKept ==
    ASSUME Inv, Inv', Linked' = Linked,
           \A d \in Linked : info'[d] = info[d] /\ chain'[d] = chain[d]
    PROVE  \A e \in Ep : Runs(e)' <=> Runs(e)
<1>1. SUFFICES ASSUME NEW e \in Ep PROVE Runs(e)' <=> Runs(e)
  OBVIOUS
<1>2. QED BY RunsKept

\* A step that changes nothing a request depends on.
LEMMA QuietStutters ==
    ASSUME Inv, Inv', UNCHANGED <<live, calls>>, Linked' = Linked,
           \A d \in Linked : info'[d] = info[d] /\ chain'[d] = chain[d],
           \A e \in Ep : (Sub' /\ main'.e = e) <=> (Sub /\ main.e = e)
    PROVE  UNCHANGED Promise!vars
<1>1. \A e \in Ep : At(e)' = At(e)
  BY AtKept
<1>2. QED BY <1>1, LinkedKept, StepStutters

\* The steps that only move the program counters or hand the done queue over.
LEMMA QuietSteps ==
    ASSUME Inv, Inv',
           \/ QuitSkip \/ QuitClear \/ QuitEnable
           \/ IsrEnter \/ IsrRemoved \/ IsrTake \/ IsrEnd
           \/ HcFetch \/ HcDrop \/ HcSof \/ UNCHANGED vars
    PROVE  UNCHANGED Promise!vars
<1>1. UNCHANGED <<live, calls, info, chain, ctrlHead, bulk, intr>>
  BY DEF QuitSkip, QuitClear, QuitEnable, IsrEnter, IsrRemoved, IsrTake, IsrEnd,
         HcFetch, HcDrop, HcSof, utrVars, edVars, linkVars, vars
<1>2. Linked' = Linked
  BY <1>1 DEF Linked
<1>3. (~ Sub /\ ~ Sub') \/ main' = main
  <2>1. CASE QuitSkip
    <3>1. main.pc \in {"idle", "wait"}
      BY <2>1 DEF QuitSkip, MainAt
    <3>2. main'.pc = "clear"
      BY <2>1 DEF QuitSkip, MainIdle
    <3>3. QED BY <3>1, <3>2 DEF Sub
  <2>2. CASE QuitClear \/ QuitEnable
    BY <2>2 DEF QuitClear, QuitEnable, MainAt, Sub, Inv, TypeOK, MainRec
  <2>3. QED
    BY <2>1, <2>2 DEF IsrEnter, IsrRemoved, IsrTake, IsrEnd, HcFetch, HcDrop, HcSof, vars
<1>4. \A e \in Ep : (Sub' /\ main'.e = e) <=> (Sub /\ main.e = e)
  BY <1>3 DEF Sub
<1>5. QED BY <1>1, <1>2, <1>4, QuietStutters

\* A submission takes units: none of them is linked yet.
LEMMA AllocSteps ==
    ASSUME Inv, Inv', XferTd \/ XferEd \/ XferDummy
    PROVE  UNCHANGED Promise!vars
<1>1. UNCHANGED <<live, calls, ctrlHead, bulk, intr>>
  BY DEF XferTd, XferEd, XferDummy, utrVars, linkVars
<1>2. Linked' = Linked /\ Linked \subseteq Unit
  BY <1>1 DEF Linked, Inv, TypeOK, UnitOrNull
<1>3. Sub /\ Sub' /\ main'.e = main.e
  <2>1. CASE XferTd
    <3>1. main.pc = "alloc" /\ main'.e = main.e /\ main'.pc \in {"alloc", "go", "ed"}
      <4>1. main \in MainRec
        BY DEF Inv, TypeOK
      <4>2. PICK t \in Free, y \in {"alloc", "go", "ed"} :
              main.pc = "alloc" /\ main' = [main EXCEPT !.tds = Append(@, t), !.pc = y]
        BY <2>1 DEF XferTd, MainAt
      <4>3. QED BY <4>1, <4>2 DEF MainRec
    <3>2. QED BY <3>1 DEF Sub
  <2>2. CASE XferDummy
    BY <2>2 DEF XferDummy, MainAt, Sub, Inv, TypeOK, MainRec
  <2>3. CASE XferEd
    <3> DEFINE p == CASE main.e \in BulkEp -> "alloc"
                      [] main.e \in IntEp /\ Existing(main.e) = {} -> "dummy"
                      [] OTHER -> "go"
               b == Existing(main.e) = {}
    <3>1. p \in {"alloc", "dummy", "go"}
      OBVIOUS
    <3>2. main.pc = "ed" /\ \E d \in Unit : main' = [main EXCEPT !.ed = d, !.new = b, !.pc = p]
      BY <2>3 DEF XferEd, MainAt
    <3> HIDE DEF p, b
    <3>3. QED BY <3>1, <3>2 DEF Sub, Inv, TypeOK, MainRec
  <2>4. QED BY <2>1, <2>2, <2>3
<1>4. \A d \in Linked : info'[d] = info[d] /\ chain'[d] = chain[d]
  <2>1. CASE XferTd
    BY <2>1 DEF XferTd, edVars
  <2>2. CASE XferEd
    <3>1. chain' = chain
      BY <2>2 DEF XferEd
    <3>2. info' = info \/ \E d \in Free : info' = [info EXCEPT ![d] = main.e]
      BY <2>2 DEF XferEd, AllocEd
    <3>3. QED BY <1>2, <3>1, <3>2, FreeIsNowhere DEF Inv, TypeOK
  <2>3. CASE XferDummy
    <3>1. info' = info /\ \E t \in Free : chain' = [chain EXCEPT ![main.ed] = <<t>>]
      BY <2>3 DEF XferDummy
    <3>2. main.ed \notin Linked
      BY <1>3, <2>3 DEF XferDummy, MainAt, Inv, SubInv
    <3>3. QED BY <1>2, <3>1, <3>2 DEF Inv, TypeOK
  <2>4. QED BY <2>1, <2>2, <2>3
<1>5. QED BY <1>1, <1>2, <1>3, <1>4, QuietStutters

\* A client hands a UTR in.
LEMMA OfferStep ==
    ASSUME Inv, Inv', XferStart
    PROVE  Promise!Next
<1>1. PICK e \in Ep : \E n \in TdCounts(e) :
          /\ ~ live[e]
          /\ main' = [MainIdle EXCEPT !.e = e, !.n = n,
                          !.pc = IF e \in BulkEp THEN "ed" ELSE "alloc"]
          /\ live' = [live EXCEPT ![e] = TRUE]
          /\ calls' = [calls EXCEPT ![e] = 0]
  BY DEF XferStart
<1>2. /\ main.pc = "idle" /\ UNCHANGED <<info, chain, ctrlHead, bulk, intr>>
  BY DEF XferStart, MainAt, edVars, linkVars
<1>3. main'.e = e /\ (main'.pc = "ed" \/ main'.pc = "alloc")
  BY <1>1 DEF MainIdle
<1>4. ~ Sub /\ Sub'
  BY <1>2, <1>3 DEF Sub
<1>5. /\ ~ live[e] /\ live'[e] /\ calls'[e] = 0
      /\ \A f \in Ep : f # e => live'[f] = live[f] /\ calls'[f] = calls[f]
  BY <1>1 DEF Inv, TypeOK
<1>6. At(e) = "idle" /\ At(e)' = "offered"
  BY <1>3, <1>4, <1>5 DEF At
<1>7. \A f \in Ep : f # e => At(f)' = At(f)
  BY <1>3, <1>4, <1>5, AtKept
<1>8. \A f \in Ep : Runs(f)' <=> Runs(f)
  BY <1>2, LinkedKept DEF Linked
<1>9. Runs(e)' <=> FALSE
  BY <1>5, <1>8, Mapping
<1>10. Promise!Move(e, "offered", FALSE)
  BY <1>6, <1>7, <1>8, <1>9, StepMoves
<1>11. Promise!Offer(e)
  BY <1>6, <1>10, Mapping DEF Promise!Offer
<1>12. QED BY <1>11 DEF Promise!Next

\* Out of memory: the submission fails, and nothing it frees is linked.
LEMMA RefuseStep ==
    ASSUME Inv, Inv', XferNoMem, ~ stale'
    PROVE  Promise!Next
<1>1. /\ main.pc \in {"alloc", "ed", "dummy"} /\ FreeUnits(Refused) /\ Released(main.e)
      /\ main'.pc = "idle" /\ UNCHANGED <<ctrlHead, bulk, intr>>
      /\ ~ (main.e \in BulkEp /\ main.pc = "alloc")
  BY DEF XferNoMem, MainIdle, linkVars
<1>2. PICK e \in Ep : e = main.e
  BY <1>1 DEF Inv, MainInv
<1>3. Sub /\ ~ Sub' /\ live[e] /\ calls[e] = 0
  BY <1>1, <1>2 DEF Sub, Inv, SubInv
<1>4. ~ live'[e] /\ \A f \in Ep : f # e => live'[f] = live[f] /\ calls'[f] = calls[f]
  BY <1>1, <1>2, ReleasedEffect
<1>5. At(e) = "offered" /\ At(e)' = "idle"
  BY <1>2, <1>3, <1>4 DEF At
<1>6. \A f \in Ep : f # e => At(f)' = At(f)
  BY <1>2, <1>3, <1>4, AtKept
<1>7. Linked' = Linked /\ \A d \in Linked : d \in Unit /\ d \notin Refused
  <2>1. Linked' = Linked /\ Linked \subseteq Unit
    BY <1>1 DEF Linked, Inv, TypeOK, UnitOrNull
  <2>2. \A d \in Refused : d \notin Linked
    BY <1>1, RefusedIsApart
  <2>3. QED BY <2>1, <2>2
<1>8. \A f \in Ep : Runs(f)' <=> Runs(f)
  <2>1. \A d \in Linked : info'[d] = info[d] /\ chain'[d] = chain[d]
    BY <1>1, <1>7 DEF FreeUnits
  <2>2. QED BY <1>7, <2>1, LinkedKept
<1>9. Runs(e)' <=> FALSE
  BY <1>4, MappingNext
<1>10. Promise!Move(e, "idle", FALSE)
  BY <1>5, <1>6, <1>8, <1>9, StepMoves
<1>11. Promise!Refuse(e)
  BY <1>5, <1>10, Mapping DEF Promise!Refuse
<1>12. QED BY <1>11 DEF Promise!Next

\* A submission returns with its request accepted.
LEMMA AcceptStep ==
    ASSUME Inv, Inv', main.pc = "go", main'.pc \in {"idle", "wait"}, UNCHANGED <<live, calls>>,
           \A f \in Ep : f # main.e => (Runs(f)' <=> Runs(f))
    PROVE  Promise!Next
<1>1. PICK e \in Ep : e = main.e
  BY DEF Inv, MainInv
<1>2. Sub /\ ~ Sub' /\ live[e] /\ calls[e] = 0
  BY <1>1 DEF Sub, Inv, SubInv
<1>3. At(e) = "offered" /\ At(e)' = "accepted"
  BY <1>1, <1>2 DEF At
<1>4. \A f \in Ep : f # e => At(f)' = At(f)
  BY <1>1, <1>2, AtKept
<1>5. \E d \in BOOLEAN : Runs(e)' <=> d
  OBVIOUS
<1>6. PICK d \in BOOLEAN : Runs(e)' <=> d
  BY <1>5
<1>7. Promise!Move(e, "accepted", d)
  BY <1>1, <1>3, <1>4, <1>6, StepMoves
<1>8. Promise!Accept(e)
  BY <1>3, <1>7, Mapping DEF Promise!Accept
<1>9. QED BY <1>8 DEF Promise!Next

\* The ED of a control or bulk transfer is linked with its TDs; the control
\* ED it takes the place of had none left.
LEMMA ListGoStep ==
    ASSUME Inv, Inv', CtrlGo \/ BulkGo
    PROVE  Promise!Next
<1>1. /\ main.pc = "go" /\ main.e \notin IntEp
      /\ UNCHANGED <<live, calls, info, intr>> /\ chain' = [chain EXCEPT ![main.ed] = main.tds]
  BY OhciAssumption DEF CtrlGo, BulkGo, MainAt, utrVars
<1>2. main'.pc \in {"idle", "wait"}
  <2>1. MainIdle.pc = "idle" /\ [MainIdle EXCEPT !.pc = "wait", !.e = main.e].pc = "wait"
    BY DEF MainIdle
  <2>2. main' = MainIdle \/ main' = [MainIdle EXCEPT !.pc = "wait", !.e = main.e]
    BY DEF CtrlGo, BulkGo
  <2>3. QED BY <2>1, <2>2, Zenon
<1>3. main.ed \in Unit /\ info[main.ed] = main.e
  BY <1>1 DEF Inv, SubInv, Sub
<1>4. \A u \in Unit : u # main.ed => chain'[u] = chain[u]
  BY <1>1, <1>3 DEF Inv, TypeOK
<1>5. \A u \in Unit : chain[u] # <<>> => u # main.ed /\ info[u] # main.e /\ info[u] \notin CtrlEp
  BY <1>1, GoFindsNone
<1>6. \/ bulk' = bulk /\ ctrlHead' = main.ed
      \/ bulk' = bulk \cup {main.ed} /\ ctrlHead' = ctrlHead
  BY DEF CtrlGo, BulkGo
<1>7. ASSUME NEW f \in Ep, f # main.e
      PROVE  Runs(f)' <=> Runs(f)
  <2>1. ASSUME NEW d \in Linked, info[d] = f, Len(chain[d]) > Least(f)
        PROVE  d \in Linked' /\ info'[d] = f /\ Len(chain'[d]) > Least(f)
    <3>1. d \in Unit /\ chain[d] \in Seq(Unit) /\ Len(chain[d]) # 0
      BY <2>1, LinkedTds DEF Least
    <3>2. chain[d] # <<>>
      BY <3>1
    <3>3. d # main.ed /\ info[d] \notin CtrlEp
      BY <3>1, <3>2, <1>5
    <3>4. d # ctrlHead
      BY <3>1, <3>3, OhciAssumption DEF Inv, EdInv
    <3>5. d \in Linked'
      BY <1>1, <1>6, <3>1, <3>4, OhciAssumption DEF Linked
    <3>6. QED BY <1>1, <1>4, <2>1, <3>1, <3>3, <3>5
  <2>2. ASSUME NEW d \in Linked', info'[d] = f, Len(chain'[d]) > Least(f)
        PROVE  d \in Linked /\ info[d] = f /\ Len(chain[d]) > Least(f)
    <3>1. d # main.ed
      BY <1>1, <1>3, <1>7, <2>2
    <3>2. d \in Linked
      BY <1>1, <1>6, <3>1 DEF Linked
    <3>3. d \in Unit
      BY <3>2, LinkedTds
    <3>4. QED BY <1>1, <1>4, <2>2, <3>1, <3>2, <3>3
  <2>3. QED BY <2>1, <2>2, RunsKept
<1>8. QED BY <1>1, <1>2, <1>7, AcceptStep

\* An interrupt transfer takes the dummy of its ED.
LEMMA IntGoStep ==
    ASSUME Inv, Inv', IntGo
    PROVE  Promise!Next
<1>1. /\ main.pc = "go" /\ main.e \in IntEp /\ main'.pc = "idle"
      /\ UNCHANGED <<live, calls, info, bulk, ctrlHead>> /\ intr' = intr \cup {main.ed}
      /\ chain' = [chain EXCEPT ![main.ed] = Append(@, main.tds[1])]
  BY DEF IntGo, MainAt, MainIdle, Extend
<1>2. main.ed \in Unit /\ info[main.ed] = main.e
  BY <1>1, GoFindsDummy
<1>3. \A u \in Unit : u # main.ed => chain'[u] = chain[u]
  BY <1>1, <1>2 DEF Inv, TypeOK
<1>4. ASSUME NEW f \in Ep, f # main.e
      PROVE  Runs(f)' <=> Runs(f)
  <2>1. \A d \in Linked : d \in Linked' /\ d \in Unit
    BY <1>1, LinkedTds DEF Linked
  <2>2. \A d \in Linked' : d # main.ed => d \in Linked
    BY <1>1 DEF Linked
  <2>3. ASSUME NEW d \in Linked, info[d] = f, Len(chain[d]) > Least(f)
        PROVE  d \in Linked' /\ info'[d] = f /\ Len(chain'[d]) > Least(f)
    <3>1. d # main.ed
      BY <1>2, <1>4, <2>3
    <3>2. QED BY <1>1, <1>3, <2>1, <2>3, <3>1
  <2>4. ASSUME NEW d \in Linked', info'[d] = f, Len(chain'[d]) > Least(f)
        PROVE  d \in Linked /\ info[d] = f /\ Len(chain[d]) > Least(f)
    <3>1. d # main.ed
      BY <1>1, <1>2, <1>4, <2>4
    <3>2. QED BY <1>1, <1>3, <2>1, <2>2, <2>4, <3>1
  <2>5. QED BY <2>3, <2>4, RunsKept
<1>5. QED BY <1>1, <1>4, AcceptStep

\* A client takes back a request that has been called back.
LEMMA ReleaseStep ==
    ASSUME Inv, Inv', NEW e \in Ep, ~ live[e] \/ calls[e] = 1, ~ live'[e],
           \A f \in Ep : f # e => live'[f] = live[f] /\ calls'[f] = calls[f],
           \A f \in Ep : f # e => ((Sub' /\ main'.e = f) <=> (Sub /\ main.e = f)),
           UNCHANGED <<info, chain, ctrlHead, bulk, intr>>
    PROVE  Promise!Next \/ UNCHANGED Promise!vars
<1>1. At(e)' = "idle" /\ \A f \in Ep : f # e => At(f)' = At(f)
  <2>1. At(e)' = "idle"
    BY DEF At
  <2>2. QED BY <2>1, AtKept
<1>2. \A f \in Ep : Runs(f)' <=> Runs(f)
  BY LinkedKept DEF Linked
<1>3. CASE ~ live[e]
  <2>1. At(e) = "idle"
    BY <1>3 DEF At
  <2>2. QED BY <1>1, <1>2, <2>1, StepStutters
<1>4. CASE live[e] /\ calls[e] = 1
  <2>1. At(e) = "signalled" /\ ~ Runs(e)
    BY <1>4, Mapping DEF At
  <2>2. Runs(e)' <=> FALSE
    BY <1>2, <2>1
  <2>3. Promise!Move(e, "idle", FALSE)
    BY <1>1, <1>2, <2>2, StepMoves
  <2>4. Promise!Release(e)
    BY <2>1, <2>3, Mapping DEF Promise!Release
  <2>5. QED BY <2>4 DEF Promise!Next
<1>5. QED BY <1>3, <1>4

\* The client sees bIsTransferDone, or ohci_quit_xfer is over.
LEMMA DoneStep ==
    ASSUME Inv, Inv', CtrlDone \/ BulkDone \/ QuitDelay
    PROVE  Promise!Next \/ UNCHANGED Promise!vars
<1>1. UNCHANGED <<info, chain, ctrlHead, bulk, intr>>
  BY DEF CtrlDone, BulkDone, QuitDelay, edVars, linkVars
<1>2. PICK e \in Ep : Released(e) /\ (~ live[e] \/ calls[e] = 1)
  <2>1. CASE CtrlDone
    <3>1. main.e \in CtrlEp /\ isDone[main.e] /\ Released(main.e)
      BY <2>1 DEF CtrlDone, MainAt, Inv, MainInv
    <3>2. main.e \in Ep \ IntEp
      BY <3>1, OhciAssumption DEF Ep
    <3>3. QED BY <3>1, <3>2 DEF Inv, RequestInv
  <2>2. CASE BulkDone
    <3>1. PICK e \in BulkEp : isDone[e] /\ Released(e)
      BY <2>2 DEF BulkDone
    <3>2. e \in Ep \ IntEp
      BY OhciAssumption DEF Ep
    <3>3. QED BY <3>1, <3>2 DEF Inv, RequestInv
  <2>3. CASE QuitDelay
    BY <2>3, QuitOwesNone DEF QuitDelay
  <2>4. QED BY <2>1, <2>2, <2>3
<1>3. ~ live'[e] /\ \A f \in Ep : f # e => live'[f] = live[f] /\ calls'[f] = calls[f]
  BY <1>2, ReleasedEffect
<1>4. ~ Sub /\ ~ Sub'
  <2>1. main.pc \in {"idle", "wait", "delay"} /\ (main' = main \/ main' = MainIdle)
    BY DEF CtrlDone, BulkDone, QuitDelay, MainAt
  <2>2. QED BY <2>1 DEF Sub, MainIdle
<1>5. QED BY <1>1, <1>2, <1>3, <1>4, ReleaseStep

\* A step that may call a request back, and may be the end of its TDs.
LEMMA CountedStep ==
    ASSUME Inv, Inv', NEW e \in Ep, UNCHANGED <<live, main>>,
           \/ calls' = calls
           \/ live[e] /\ calls[e] = 0 /\ calls' = [calls EXCEPT ![e] = 1],
           \A f \in Ep : f # e => (Runs(f)' <=> Runs(f)),
           Runs(e)' => Runs(e)
    PROVE  Promise!Next \/ UNCHANGED Promise!vars
<1>1. Sub' = Sub
  BY DEF Sub
<1>2. \A f \in Ep : f # e => At(f)' = At(f)
  <2>1. \A f \in Ep : f # e => calls'[f] = calls[f]
    BY DEF Inv, TypeOK
  <2>2. QED BY <1>1, <2>1, AtKept
<1>3. CASE calls' = calls
  <2>1. At(e)' = At(e)
    BY <1>1, <1>3, AtKept
  <2>2. CASE Runs(e)' <=> Runs(e)
    <3>1. \A f \in Ep : At(f)' = At(f)
      BY <1>2, <2>1
    <3>2. \A f \in Ep : Runs(f)' <=> Runs(f)
      BY <2>2
    <3>3. QED BY <3>1, <3>2, StepStutters
  <2>3. CASE Runs(e) /\ ~ Runs(e)'
    <3>1. At(e) \in {"offered", "accepted"}
      BY <2>3, Mapping DEF At
    <3>2. Runs(e)' <=> FALSE
      BY <2>3
    <3>3. Promise!Move(e, At(e), FALSE)
      BY <1>2, <2>1, <3>2, StepMoves
    <3>4. Promise!Retire(e)
      BY <3>1, <3>3, Mapping DEF Promise!Retire
    <3>5. QED BY <3>4 DEF Promise!Next
  <2>4. QED BY <2>2, <2>3
<1>4. CASE live[e] /\ calls[e] = 0 /\ calls' = [calls EXCEPT ![e] = 1]
  <2>1. calls'[e] = 1 /\ live'[e]
    BY <1>4 DEF Inv, TypeOK
  <2>2. At(e) \in {"offered", "accepted"} /\ At(e)' = "signalled"
    BY <1>4, <2>1 DEF At
  <2>3. ~ Runs(e)'
    BY <2>1, MappingNext
  <2>4. \A f \in Ep : RequestState(f)' = IF f \in {e} THEN "signalled" ELSE RequestState(f)
    BY <1>2, <2>2, Mapping, MappingNext
  <2>5. \A f \in Ep : Exposed(f)' <=> (Exposed(f) /\ f \notin {e})
    BY <2>3, Mapping, MappingNext
  <2>6. \A f \in Ep : Exposed(f)' = (Exposed(f) /\ f \notin {e})
    BY <2>5 DEF Exposed
  <2>7. RequestState(e) \in {"offered", "accepted"}
    BY <2>2, Mapping
  <2>8. Promise!Signal({e})
    BY <2>4, <2>6, <2>7 DEF Promise!Signal
  <2>9. QED BY <2>8 DEF Promise!Next
<1>5. QED BY <1>3, <1>4

\* td_cnt goes through 0 while the request has not been called back.
LEMMA CountCalls ==
    ASSUME Inv, NEW e \in Ep, NEW k \in Nat, NEW st, Count(e, k, st), ~ (Sub /\ main.e = e)
    PROVE  \/ calls' = calls
           \/ live[e] /\ calls[e] = 0 /\ calls' = [calls EXCEPT ![e] = 1]
<1>1. calls' = [calls EXCEPT ![e] = IF cnt[e] \in 1 .. k /\ calls[e] < 2 THEN calls[e] + 1
                                    ELSE calls[e]]
  BY DEF Count
<1>2. CASE cnt[e] \in 1 .. k
  <2>1. live[e] /\ calls[e] = 0
    BY <1>2 DEF Inv, RequestInv
  <2>2. QED BY <1>1, <1>2, <2>1
<1>3. CASE cnt[e] \notin 1 .. k
  <2>1. calls' = calls
    BY <1>1, <1>3 DEF Inv, TypeOK
  <2>2. QED BY <2>1
<1>4. QED BY <1>2, <1>3

\* td_done counts one TD.
LEMMA TdStep ==
    ASSUME Inv, Inv', IsrTd
    PROVE  Promise!Next \/ UNCHANGED Promise!vars
<1>1. isr.pc = "done" /\ isr.todo # <<>> /\ UNCHANGED <<ctrlHead, bulk, intr, main, live>>
  BY DEF IsrTd, linkVars
<1>2. PICK t \in Unit : t = Last(isr.todo)
  BY <1>1, NextTd
<1>3. PICK e \in Ep : e = utrOf[t]
  BY <1>1, <1>2, NextTd
<1>4. t \notin Linked /\ ~ (Sub /\ main.e = e)
  BY <1>1, <1>2, <1>3, NextTd
<1>5. \/ calls' = calls
      \/ live[e] /\ calls[e] = 0 /\ calls' = [calls EXCEPT ![e] = 1]
  <2>1. td_done(t)
    BY <1>2 DEF IsrTd, Last
  <2>2. Count(e, 1, IF t \in bad THEN "err" ELSE status[e])
    BY <1>3, <2>1 DEF td_done
  <2>3. QED BY <1>4, <2>2, CountCalls
<1>6. Linked' = Linked /\ \A d \in Linked : info'[d] = info[d] /\ chain'[d] = chain[d]
  <2>1. Linked' = Linked /\ \A d \in Linked : d \in Unit /\ d # t
    BY <1>1, <1>4, LinkedTds DEF Linked
  <2>2. UNCHANGED <<info, chain>> \/ FreeUnits({t})
    BY <1>2 DEF IsrTd, Last, edVars
  <2>3. QED BY <2>1, <2>2 DEF FreeUnits
<1>7. \A f \in Ep : Runs(f)' <=> Runs(f)
  BY <1>6, LinkedKept
<1>8. QED BY <1>1, <1>5, <1>7, CountedStep

\* An ED goes, or loses TDs, of e and of nobody else.
LEMMA FewerTds ==
    ASSUME Inv, Inv', NEW e \in Ep,
           \A d \in Linked' : /\ d \in Linked /\ info'[d] = info[d]
                              /\ Len(chain'[d]) <= Len(chain[d]),
           \A d \in Linked : info[d] # e => d \in Linked' /\ chain'[d] = chain[d]
    PROVE  /\ Runs(e)' => Runs(e)
           /\ \A f \in Ep : f # e => (Runs(f)' <=> Runs(f))
<1>1. ASSUME NEW f \in Ep, f # e PROVE Runs(f)' <=> Runs(f)
  BY <1>1, RunsKept
<1>2. ASSUME Runs(e)' PROVE Runs(e)
  <2>1. PICK d \in Linked' : info'[d] = e /\ Len(chain'[d]) > Least(e)
    BY <1>2 DEF Runs, Least
  <2>2. d \in Linked /\ info[d] = e /\ Len(chain'[d]) <= Len(chain[d]) /\ d \in Unit
    BY <2>1, LinkedTds
  <2>3. Len(chain'[d]) \in Nat /\ Len(chain[d]) \in Nat /\ Least(e) \in Nat
    BY <2>2 DEF Inv, TypeOK, Least
  <2>4. QED BY <2>1, <2>2, <2>3 DEF Runs
<1>3. QED BY <1>1, <1>2

\* remove_ed counts the TDs of an ED that it takes away.
LEMMA RemoveStep ==
    ASSUME Inv, Inv', remove_ed
    PROVE  Promise!Next \/ UNCHANGED Promise!vars
<1>1. PICK d \in removing :
          LET tds == IF Found(d) THEN Elems(chain[d]) ELSE {}
              f   == info[d]
          IN  /\ Unlink(d)
              /\ FreeUnits({d} \cup tds)
              /\ IF tds # {}
                 THEN Count(f, Cardinality(tds),
                            IF cnt[f] \in 1 .. Cardinality(tds) THEN "abort"
                            ELSE status[f])
                 ELSE UNCHANGED <<cnt, isDone, calls, status, late>>
  BY DEF remove_ed
<1>2. isr.pc = "remove" /\ UNCHANGED <<main, live>>
  BY DEF remove_ed
<1>3. PICK e \in Ep : e = main.e
  BY <1>2, RemovedEd
<1> DEFINE T == Elems(chain[d])
<1>4. /\ d \in Unit /\ info[d] = e /\ ~ Sub
      /\ \A t \in T : t \in Unit /\ t \notin Linked
      /\ T \in SUBSET Owed(e) /\ (IF Found(d) THEN Elems(chain[d]) ELSE {}) = T
  BY <1>2, <1>3, RemovedEd
<1>5. /\ Unlink(d) /\ FreeUnits({d} \cup T)
      /\ IF T # {}
         THEN Count(e, Cardinality(T), IF cnt[e] \in 1 .. Cardinality(T) THEN "abort" ELSE status[e])
         ELSE UNCHANGED <<cnt, isDone, calls, status, late>>
  BY <1>1, <1>4
<1>6. Cardinality(T) \in Nat
  <2>1. T \in SUBSET Unit
    BY <1>4 DEF Owed
  <2>2. QED BY <2>1, UnitsFinite
<1> HIDE DEF T
<1>7. \/ calls' = calls
      \/ live[e] /\ calls[e] = 0 /\ calls' = [calls EXCEPT ![e] = 1]
  BY <1>4, <1>5, <1>6, CountCalls
<1>8. /\ Linked' = Linked \ {d} /\ \A u \in Linked : u \in Unit
  BY <1>4, <1>5, LinkedTds, OhciAssumption DEF Unlink, Linked
<1>9. \A u \in Linked' : /\ u \in Linked /\ info'[u] = info[u] /\ chain'[u] = chain[u]
  BY <1>4, <1>5, <1>8 DEF FreeUnits
<1>10. \A u \in Linked' : Len(chain'[u]) <= Len(chain[u])
  <2>1. \A u \in Linked' : Len(chain[u]) \in Nat
    BY <1>9, LinkedTds
  <2>2. QED BY <1>9, <2>1
<1>11. \A u \in Linked : info[u] # e => u \in Linked' /\ chain'[u] = chain[u]
  BY <1>4, <1>8, <1>9
<1>12. Runs(e)' => Runs(e)
  BY <1>9, <1>10, <1>11, FewerTds
<1>13. \A f \in Ep : f # e => (Runs(f)' <=> Runs(f))
  BY <1>9, <1>10, <1>11, FewerTds
<1>14. QED BY <1>2, <1>7, <1>12, <1>13, CountedStep

\* The controller executes a TD.
LEMMA RetireStep ==
    ASSUME Inv, Inv', HcRetire
    PROVE  Promise!Next \/ UNCHANGED Promise!vars
<1>1. PICK d \in Unit : d = hc
  BY HeldIsLinked DEF HcRetire
<1>2. d \in Linked /\ info[d] \in Ep /\ chain[d] # <<>>
  BY <1>1, HeldIsLinked DEF HcRetire
<1>3. /\ chain' = [chain EXCEPT ![d] = Tail(chain[d])]
      /\ UNCHANGED <<info, ctrlHead, bulk, intr, main, live, calls>>
  BY <1>1 DEF HcRetire, linkVars, utrVars
<1>4. /\ chain'[d] = Tail(chain[d]) /\ \A u \in Unit : u # d => chain'[u] = chain[u]
  BY <1>3 DEF Inv, TypeOK
<1>5. Linked' = Linked /\ \A u \in Linked : u \in Unit /\ chain[u] \in Seq(Unit)
  BY <1>3, LinkedTds DEF Linked
<1>6. \A u \in Linked : Len(chain'[u]) <= Len(chain[u])
  <2>1. Len(Tail(chain[d])) <= Len(chain[d])
    BY <1>2, <1>5
  <2>2. \A u \in Linked : u # d => Len(chain'[u]) <= Len(chain[u])
    BY <1>4, <1>5
  <2>3. QED BY <1>4, <2>1, <2>2
<1>7. \A u \in Linked : info[u] # info[d] => chain'[u] = chain[u]
  BY <1>4, <1>5
<1>8. PICK e \in Ep : e = info[d]
  BY <1>2
<1>9. /\ \A u \in Linked' : /\ u \in Linked /\ info'[u] = info[u]
                            /\ Len(chain'[u]) <= Len(chain[u])
      /\ \A u \in Linked : info[u] # e => u \in Linked' /\ chain'[u] = chain[u]
  BY <1>3, <1>5, <1>6, <1>7, <1>8
<1>10. Runs(e)' => Runs(e)
  BY <1>9, FewerTds
<1>11. \A f \in Ep : f # e => (Runs(f)' <=> Runs(f))
  BY <1>9, FewerTds
<1>12. QED BY <1>3, <1>10, <1>11, CountedStep

\* The callback of an interrupt transfer submits its request again, on the ED
\* that is still linked, or gives it up.
LEMMA CallbackStep ==
    ASSUME Inv, Inv', IsrCallback, again' = {}
    PROVE  Promise!Next \/ UNCHANGED Promise!vars
<1>1. /\ isr.pc = "callback" /\ UNCHANGED <<main, ctrlHead, bulk>>
      /\ \/ Resubmit(Last(isr.todo), utrOf[Last(isr.todo)])
         \/ ResubmitFails(Last(isr.todo), utrOf[Last(isr.todo)])
  BY Zenon DEF IsrCallback, Last
<1>2. isr.todo # <<>>
  BY <1>1, CallbackOwes
<1>3. PICK t \in Unit : t = Last(isr.todo)
  BY <1>1, <1>2, NextTd
<1>4. PICK e \in Ep : e = utrOf[t]
  BY <1>1, <1>3, CallbackOwes
<1>5. /\ e \in IntEp /\ e \notin CtrlEp /\ e \notin BulkEp
      /\ live[e] /\ calls[e] = 1 /\ ~ (Sub /\ main.e = e)
  BY <1>1, <1>3, <1>4, CallbackOwes
<1>6. At(e) = "signalled" /\ Sub' = Sub
  BY <1>1, <1>5 DEF At, Sub
<1>7. CASE Resubmit(t, e)
  <2>1. PICK new \in Free, d \in Unit, x \in Unit :
          /\ d \in Existing(e)
          /\ chain' = [chain EXCEPT ![d] = IF @ = <<>> THEN <<x, new>> ELSE Append(@, new)]
          /\ info' = [info EXCEPT ![d] = e]
          /\ intr' = intr \cup {d}
          /\ calls' = [calls EXCEPT ![e] = 0]
          /\ live' = live
    <3>1. PICK new \in Free, d \in Unit, x \in Unit :
          /\ IF Existing(e) = {}
             THEN {d, x} \subseteq Free \ {new} /\ d # x
             ELSE d \in Existing(e) /\ x = Last(chain[d])
          /\ kind' = [kind EXCEPT ![t] = "free", ![new] = "TD", ![d] = "ED", ![x] = "TD"]
          /\ chain' = [chain EXCEPT ![d] = IF @ = <<>> THEN <<x, new>> ELSE Append(@, new)]
          /\ utrOf' = [utrOf EXCEPT ![t] = NULL, ![new] = e, ![x] = e]
          /\ info' = [info EXCEPT ![d] = e]
          /\ intr' = intr \cup {d}
          /\ pipe' = [pipe EXCEPT ![e] = d]
          /\ cnt' = [cnt EXCEPT ![e] = 1]
          /\ calls' = [calls EXCEPT ![e] = 0]
          /\ again' = IF Existing(e) = {} THEN again \cup {e} ELSE again
          /\ UNCHANGED <<live, orphan, dropped, stale>>
      BY <1>7, Zenon DEF Resubmit, Last
    <3>2. Existing(e) # {}
      BY <3>1
    <3>3. d \in Existing(e) /\ live' = live
      BY <3>1, <3>2
    <3>4. QED BY <3>1, <3>3
  <2>2. d \in intr /\ info[d] = e /\ d \in Linked /\ chain[d] # <<>> /\ chain[d] \in Seq(Unit)
    <3>1. d \in bulk \cup intr /\ info[d] = e
      BY <1>5, <2>1 DEF Existing
    <3>2. d \in intr
      BY <1>5, <3>1 DEF Inv, EdInv
    <3>3. QED BY <3>1, <3>2 DEF Inv, EdInv, Linked, TypeOK
  <2>3. new \in Unit
    BY DEF Free
  <2>4. /\ info' = info /\ intr' = intr /\ Linked' = Linked
        /\ chain'[d] = Append(chain[d], new)
        /\ \A u \in Unit : u # d => chain'[u] = chain[u]
    <3>1. info' = info /\ intr' = intr
      BY <2>1, <2>2 DEF Inv, TypeOK
    <3>2. chain'[d] = Append(chain[d], new) /\ \A u \in Unit : u # d => chain'[u] = chain[u]
      BY <2>1, <2>2 DEF Inv, TypeOK
    <3>3. QED BY <1>1, <3>1, <3>2 DEF Linked
  <2>5. /\ live'[e] /\ calls'[e] = 0
        /\ \A f \in Ep : f # e => live'[f] = live[f] /\ calls'[f] = calls[f]
    BY <1>5, <2>1 DEF Inv, TypeOK
  <2>6. At(e)' = "accepted"
    BY <1>1, <1>5, <1>6, <2>5 DEF At
  <2>7. \A f \in Ep : f # e => At(f)' = At(f)
    BY <1>1, <1>6, <2>5, AtKept
  <2>8. Runs(e)'
    <3>1. Len(chain[d]) \in Nat /\ Len(chain[d]) # 0 /\ Len(chain'[d]) = Len(chain[d]) + 1
      BY <2>2, <2>3, <2>4, ElemsAppend, ElemsOf
    <3>2. Len(chain'[d]) > Least(e)
      BY <3>1 DEF Least
    <3>3. QED BY <2>2, <2>4, <3>2 DEF Runs, Least
  <2>9. \A f \in Ep : f # e => (Runs(f)' <=> Runs(f))
    <3>1. ASSUME NEW f \in Ep, f # e PROVE Runs(f)' <=> Runs(f)
      <4>1. \A u \in Linked : info[u] = f => u \in Unit /\ u # d
        BY <2>2, <3>1, LinkedTds
      <4>2. QED BY <2>4, <4>1, RunsKept
    <3>2. QED BY <3>1
  <2>10. TRUE \in BOOLEAN /\ (Runs(e)' <=> TRUE)
    BY <2>8
  <2>11. Promise!Move(e, "accepted", TRUE)
    BY <2>6, <2>7, <2>9, <2>10, StepMoves
  <2>12. Promise!Resubmit(e)
    BY <1>6, <2>11, Mapping DEF Promise!Resubmit
  <2>13. QED BY <2>12 DEF Promise!Next
<1>8. CASE ResubmitFails(t, e)
  <2>1. live' = [live EXCEPT ![e] = FALSE] /\ UNCHANGED <<info, chain, intr, calls>>
    BY <1>8 DEF ResubmitFails
  <2>2. ~ live'[e] /\ \A f \in Ep : f # e => live'[f] = live[f] /\ calls'[f] = calls[f]
    BY <2>1 DEF Inv, TypeOK
  <2>3. QED BY <1>1, <1>5, <1>6, <2>1, <2>2, ReleaseStep
<1>9. QED BY <1>1, <1>3, <1>4, <1>7, <1>8

\* Every step is one of Transfer or leaves it alone.
LEMMA StepImplements ==
    ASSUME Inv, Inv', Sane', [Next]_vars
    PROVE  Promise!Next \/ UNCHANGED Promise!vars
<1>1. again' = {} /\ ~ stale'
  BY DEF Sane
<1>2. CASE MainNext
  BY <1>1, <1>2, OfferStep, AllocSteps, RefuseStep, ListGoStep, IntGoStep, DoneStep, QuietSteps
     DEF MainNext
<1>3. CASE IsrNext
  BY <1>1, <1>3, RemoveStep, TdStep, CallbackStep, QuietSteps DEF IsrNext
<1>4. CASE HcNext
  BY <1>4, RetireStep, QuietSteps DEF HcNext
<1>5. CASE UNCHANGED vars
  BY <1>5, QuietSteps
<1>6. QED BY <1>2, <1>3, <1>4, <1>5 DEF Next

\* The OHCI driver implements Transfer, the promise of usb_core.c:367-399: a
\* request is refused at once or called back exactly once, its buffer is left
\* alone from then on, and it is not released before. It does as long as no
\* bulk submission runs out of memory after it has its ED, which it frees
\* although hw_pipe and perhaps the bulk list still lead to it (ohci.c:579-587),
\* and no callback submits a transfer while its ED is being removed.
THEOREM Refinement == Spec /\ []Sane => Implements
<1>1. Init => Promise!Init
  <2>1. SUFFICES ASSUME Init PROVE Promise!Init
    OBVIOUS
  <2>2. \A e \in Ep : RequestState(e) = "idle" /\ Exposed(e) = FALSE
    <3>1. late = {} /\ \A e \in Ep : ~ live[e] /\ calls[e] = 0
      BY <2>1 DEF Init
    <3>2. Linked = {}
      BY <2>1 DEF Init, Linked
    <3>3. \A e \in Ep : RequestState(e) = "idle"
      BY <3>1 DEF RequestState
    <3>4. \A e \in Ep : Exposed(e) = FALSE
      BY <3>2 DEF Exposed
    <3>5. QED BY <3>3, <3>4
  <2>3. QED BY <2>2 DEF Promise!Init
<1>2. IInv /\ IInv' /\ Sane /\ Sane' /\ [Next]_vars => [Promise!Next]_(Promise!vars)
  BY StepImplements DEF IInv
<1>3. Spec => []IInv
  BY InvHolds
<1>4. QED BY <1>1, <1>2, <1>3, PTL DEF Spec, Implements, Promise!Spec
=============================================================================
