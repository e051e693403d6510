-------------------------------- MODULE Ehci --------------------------------
(***************************************************************************)
(* Control, bulk and interrupt transfers of the EHCI driver                *)
(* (src_core/ehci.c), with the descriptor units of mem_alloc.c they use.   *)
(*                                                                         *)
(* Three actors share the queue heads (QH) and transfer descriptors (qTD): *)
(*   - the main loop, which submits a transfer (ehci_ctrl_xfer,            *)
(*     ehci_bulk_xfer, ehci_int_xfer) and quits one (ehci_quit_xfer);      *)
(*   - EHCI_IRQHandler, which preempts the main loop between any two of    *)
(*     its accesses to a list, and runs to its end;                        *)
(*   - the host controller, which runs beside both: it executes qTDs of    *)
(*     the QH it holds and answers the async-advance doorbell.             *)
(*                                                                         *)
(* A linked list is the set of its members; the order of a QH's qtd_list   *)
(* is given by pos.  The ring behind _H_qh and the chain behind _Iqh are   *)
(* the sets async and periodic.  One transfer request (UTR) stands for     *)
(* each endpoint: a QH takes one transfer at a time.  calls and lateTo     *)
(* are history variables.                                                  *)
(***************************************************************************)
EXTENDS Integers, FiniteSets

CONSTANTS
    Unit,      \* hardware units (_hw_mem_pool)
    CtrlEp,    \* default control endpoints
    BulkEp,    \* bulk endpoints
    HubEp,     \* interrupt endpoints whose callback is hub_status_irq
    HidEp,     \* interrupt endpoints whose callback resubmits (hid_read_irq)
    Stages,    \* numbers of qTDs of a control transfer: 2, or 3 with data
    MaxQtd,    \* bound: qTDs of one bulk transfer (16 KB each)
    Spare,     \* bound: free units when a transfer of several qTDs starts
    MaxDone,   \* bound: qTDs on done lists while the doorbell is unanswered
    NULL

Ep     == CtrlEp \cup BulkEp \cup HubEp \cup HidEp
IntEp  == HubEp \cup HidEp
AsyncEp == CtrlEp \cup BulkEp

ASSUME EhciAssumption ==
    /\ NULL \notin Unit \cup Ep
    /\ CtrlEp \cap BulkEp = {} /\ AsyncEp \cap IntEp = {}
    /\ HubEp \cap HidEp = {}
    /\ Stages \subseteq {2, 3}
    /\ MaxQtd \in Nat \ {0} /\ Spare \in Nat /\ MaxDone \in Nat

VARIABLES
    kind,      \* what each unit is handed out as
    list,      \* qh->qtd_list
    doneList,  \* qh->done_list
    ol,        \* qh->OL_Next_qTD
    halt,      \* the halt bit of qh->OL_Token
    token,     \* qtd->Token: "mark" while being written
    utrOf,     \* qtd->utr
    pos,       \* place of a qTD in its transfer
    nxt,       \* qtd->Next_qTD (NULL: _ghost_qtd or list end)
    async,     \* QHs linked behind _H_qh
    periodic,  \* QHs linked behind _Iqh[]
    removing,  \* qh_remove_list
    pipe,      \* ep->hw_pipe
    iaad,      \* the doorbell bit of UCMDR
    usts,      \* the interrupt bits of USTSR
    hc,        \* the QH the controller holds
    main,      \* where the main loop is
    isr,       \* where the interrupt handler is
    live,      \* the endpoint's UTR is with the driver or its client
    isDone,    \* utr->bIsTransferDone
    status,    \* utr->status
    calls,     \* history: completions signalled for the current submission
    lateTo,    \* history: endpoints signalled after their UTR was released
    orphan,    \* history: QHs whose pipe usbh_ctrl_xfer dropped on a failure
    early,     \* history: the QH held was unlinked with a doorbell under way
    fault      \* history: one of the faults told under Properties has happened

qhVars   == <<list, doneList, ol, halt>>
qtdVars  == <<token, utrOf, pos, nxt>>
linkVars == <<async, periodic, removing, early>>
utrVars  == <<live, isDone, status, calls, lateTo>>
lostVars == <<orphan, fault>>
epVars   == <<pipe, lostVars>>
hcVars   == <<iaad, usts, hc>>
vars     == <<kind, qhVars, qtdVars, linkVars, epVars, hcVars, main, isr, utrVars>>

Free   == {u \in Unit : kind[u] = "free"}
Linked == async \cup periodic

MainIdle == [pc |-> "idle", e |-> NULL, q |-> NULL, new |-> FALSE,
             n |-> 0, k |-> 0, miss |-> 0, mine |-> {}]
IsrOff   == [pc |-> "off", todo |-> {}, q |-> NULL, at |-> 0, utr |-> NULL,
             iaa |-> FALSE]

\* The main loop runs only while the handler does not.
MainAt(pc) == isr.pc = "off" /\ main.pc = pc

Init ==
    /\ kind = [u \in Unit |-> "free"]
    /\ list = [u \in Unit |-> {}] /\ doneList = [u \in Unit |-> {}]
    /\ ol = [u \in Unit |-> NULL] /\ halt = [u \in Unit |-> FALSE]
    /\ token = [u \in Unit |-> "mark"] /\ utrOf = [u \in Unit |-> NULL]
    /\ pos = [u \in Unit |-> 0] /\ nxt = [u \in Unit |-> NULL]
    /\ async = {} /\ periodic = {} /\ removing = {}
    /\ pipe = [e \in Ep |-> NULL]
    /\ iaad = FALSE /\ usts = {} /\ hc = NULL
    /\ main = MainIdle /\ isr = IsrOff
    /\ live = [e \in Ep |-> FALSE] /\ isDone = [e \in Ep |-> FALSE]
    /\ status = [e \in Ep |-> "ok"] /\ calls = [e \in Ep |-> 0]
    /\ lateTo = {} /\ orphan = {} /\ early = FALSE /\ fault = FALSE

(***************************************************************************)
(* Units.  Freeing a unit clears its flag and leaves what it holds.  That  *)
(* matters to a controller which still holds the QH (Reached); of every    *)
(* other unit it is forgotten, for alloc_ehci_QH and alloc_ehci_qTD clear  *)
(* it.  Any free unit may be chosen: which one mem_alloc.c takes makes no  *)
(* difference here.                                                        *)
(***************************************************************************)

\* Of the units of S, those the controller goes on with: the QH it holds and
\* the qTDs of that QH.
Reached(S) == IF hc \in S THEN S \cap ({hc} \cup list[hc]) ELSE {}

FreeUnits(S) ==
    LET gone == S \ Reached(S)
    IN  /\ kind' = [u \in Unit |-> IF u \in S THEN "free" ELSE kind[u]]
        /\ token' = [u \in Unit |-> IF u \in gone THEN "mark" ELSE token[u]]
        /\ utrOf' = [u \in Unit |-> IF u \in gone THEN NULL ELSE utrOf[u]]
        /\ pos' = [u \in Unit |-> IF u \in gone THEN 0 ELSE pos[u]]
        /\ nxt' = [u \in Unit |-> IF u \in gone THEN NULL ELSE nxt[u]]

\* The fields of a qTD on a done list are not used again, but for its utr.
Retired(S) ==
    /\ token' = [u \in Unit |-> IF u \in S THEN "mark" ELSE token[u]]
    /\ pos' = [u \in Unit |-> IF u \in S THEN 0 ELSE pos[u]]
    /\ nxt' = [u \in Unit |-> IF u \in S THEN NULL ELSE nxt[u]]
    /\ UNCHANGED utrOf

AllocQtd(t, e, p) ==
    /\ kind' = [kind EXCEPT ![t] = "qTD"]
    /\ token' = [token EXCEPT ![t] = "mark"]
    /\ utrOf' = [utrOf EXCEPT ![t] = e]
    /\ pos' = [pos EXCEPT ![t] = p]
    /\ nxt' = [nxt EXCEPT ![t] = NULL]

(***************************************************************************)
(* Submission by the main loop.                                            *)
(***************************************************************************)

\* Number of qTDs: SETUP, DATA if any, STATUS; 16 KB pieces, none of no data;
\* one.
QtdCounts(e) == CASE e \in CtrlEp -> Stages
                  [] e \in BulkEp -> 0 .. MaxQtd
                  [] OTHER        -> {1}

\* A client hands a UTR in: a new one, or for a hub the one whose completion
\* hub_polling has handled.
Submits(e) ==
    \/ ~ live[e]
    \/ e \in HubEp /\ calls[e] > 0 /\ status[e] = "ok"

\* The free unit u becomes the QH of e: cleared, halted, on no schedule yet.
NewQh(e, u) ==
    /\ kind' = [kind EXCEPT ![u] = "QH"]
    /\ pipe' = [pipe EXCEPT ![e] = u]
    /\ halt' = [halt EXCEPT ![u] = TRUE] /\ ol' = [ol EXCEPT ![u] = NULL]
    /\ token' = [token EXCEPT ![u] = "mark"] /\ utrOf' = [utrOf EXCEPT ![u] = NULL]
    /\ UNCHANGED <<list, doneList, pos, nxt>>

\* The start of the xfer functions: the QH of the endpoint, or a new one.
\* (An endpoint whose QH still has qTDs is refused with QH_BUSY; NotBusy says
\* that this does not happen to a client with nothing outstanding.)
XferStart ==
    /\ MainAt("idle")
    /\ \E e \in Ep, n \in 0 .. MaxQtd + 3 :
          /\ Submits(e) /\ n \in QtdCounts(e)
          /\ n > 1 => Cardinality(Free) >= Spare
          /\ \/ /\ pipe[e] # NULL /\ list[pipe[e]] = {}
                /\ main' = [MainIdle EXCEPT
                      !.pc = IF n = 0 THEN "start" ELSE "alloc",
                      !.e = e, !.q = pipe[e], !.n = n]
                /\ UNCHANGED <<kind, pipe, qhVars, qtdVars>>
             \/ /\ pipe[e] = NULL
                /\ \E u \in Free :
                      /\ NewQh(e, u)
                      /\ main' = [MainIdle EXCEPT
                            !.pc = IF n = 0 THEN "start" ELSE "alloc",
                            !.e = e, !.q = u, !.new = TRUE, !.n = n]
          /\ live' = [live EXCEPT ![e] = TRUE]
          /\ isDone' = [isDone EXCEPT ![e] = @ /\ live[e]]
          /\ status' = [status EXCEPT ![e] = "ok"]
          /\ calls' = [calls EXCEPT ![e] = 0]
    /\ UNCHANGED <<linkVars, lostVars, hcVars, isr, lateTo>>

\* The allocation under way is the last one of a control transfer (the qTD of
\* the STATUS stage), or the only one before the next append.
LastAlloc == main.e \in CtrlEp => Cardinality(main.mine) + main.miss + 1 = main.n

\* ehci_ctrl_xfer allocates all its qTDs before it uses one, the others each
\* one before it is appended.  Only the last one is tested for NULL: if it
\* comes and one before it did not, ehci_ctrl_xfer writes through NULL.
XferAllocQtd ==
    /\ MainAt("alloc")
    /\ \E t \in Free :
          /\ AllocQtd(t, main.e, main.k + Cardinality(main.mine) + 1)
          /\ main' = [main EXCEPT
                !.mine = @ \cup {t},
                !.pc = IF ~ LastAlloc THEN "alloc"
                       ELSE IF main.miss > 0 THEN "trap" ELSE "append"]
    /\ fault' = (fault \/ (LastAlloc /\ main.miss > 0))
    /\ UNCHANGED <<qhVars, linkVars, pipe, orphan, hcVars, isr, utrVars>>

\* An allocation of ehci_ctrl_xfer that is not tested returns NULL.
XferMissQtd ==
    /\ MainAt("alloc") /\ Free = {} /\ ~ LastAlloc
    /\ main' = [main EXCEPT !.miss = @ + 1]
    /\ UNCHANGED <<kind, qhVars, qtdVars, linkVars, epVars, hcVars, isr, utrVars>>

\* The UTR is freed.
Released(e) ==
    /\ live' = [live EXCEPT ![e] = FALSE]
    /\ isDone' = [isDone EXCEPT ![e] = FALSE]
    /\ status' = [status EXCEPT ![e] = "ok"]
    /\ calls' = [calls EXCEPT ![e] = 0]
    /\ UNCHANGED lateTo

\* Mutant of Refused: a new QH is forgotten.
RefusedKeepsQh == IF main.e \in CtrlEp THEN main.mine ELSE list[main.q]

\* What a refused submission frees.  Control: the qTDs, not the QH.  Bulk and
\* interrupt: the qTDs built so far and a new QH.
Refused == IF main.e \in CtrlEp THEN main.mine
           ELSE list[main.q] \cup (IF main.new THEN {main.q} ELSE {})

\* Mutant of DropQhs: qtd_list is not cleared.
DropQhsKeepList(S) ==
    /\ ol' = [u \in Unit |-> IF u \in S THEN NULL ELSE ol[u]]
    /\ halt' = [u \in Unit |-> halt[u] /\ u \notin S]
    /\ UNCHANGED list

\* The QHs of S are freed, their qTDs popped from qtd_list.  The overlay stays;
\* it matters in the QH the controller holds.
DropQhs(S) ==
    /\ list' = [u \in Unit |-> IF u \in S THEN {} ELSE list[u]]
    /\ ol' = [u \in Unit |-> IF u \in S \ {hc} THEN NULL ELSE ol[u]]
    /\ halt' = [u \in Unit |-> halt[u] /\ u \notin S \ {hc}]

\* Mutant of ClearPipe: the assignment is missing.
ClearPipeNot(e) == UNCHANGED pipe

\* hw_pipe = NULL
ClearPipe(e) == pipe' = [pipe EXCEPT ![e] = NULL]

\* No unit for a qTD.  usbh_ctrl_xfer clears ep0.hw_pipe, whose QH is lost; an
\* old QH of another endpoint keeps its qtd_list pointer.
XferNoMem ==
    /\ MainAt("alloc") /\ Free = {} /\ LastAlloc
    /\ FreeUnits(Refused)
    /\ DropQhs(Refused \cap {main.q})
    /\ IF main.e \in CtrlEp \/ main.new THEN ClearPipe(main.e) ELSE UNCHANGED pipe
    /\ orphan' = IF main.e \in CtrlEp THEN orphan \cup {main.q} ELSE orphan
    /\ fault' = (fault \/ (list'[main.q] # {}))
    /\ Released(main.e)
    /\ main' = MainIdle
    /\ UNCHANGED <<doneList, linkVars, hcVars, isr>>

\* A control request whose buffer spans more than five pages is refused before
\* anything else.  usbh_ctrl_xfer clears ep0.hw_pipe all the same, and the QH of
\* the device, linked as it is, is lost.
XferOverrun ==
    /\ MainAt("idle")
    /\ \E e \in CtrlEp :
          /\ Submits(e) /\ pipe[e] # NULL
          /\ ClearPipe(e)
          /\ orphan' = orphan \cup {pipe[e]}
    /\ UNCHANGED <<kind, qhVars, qtdVars, linkVars, fault, hcVars, main, isr, utrVars>>

\* append_to_qtd_list_of_QH, and the link from the qTD before.
XferAppend ==
    /\ MainAt("append")
    /\ \E t \in main.mine :
          /\ pos[t] = main.k + 1
          /\ list' = [list EXCEPT ![main.q] = @ \cup {t}]
          /\ nxt' = [u \in Unit |->
                        IF u \in list[main.q] /\ pos[u] = main.k THEN t ELSE nxt[u]]
    /\ main' = [main EXCEPT !.pc = "activate"]
    /\ UNCHANGED <<kind, doneList, ol, halt, token, utrOf, pos, linkVars, epVars,
                   hcVars, isr, utrVars>>

\* The Token of the appended qTD is written.
XferActivate ==
    /\ MainAt("activate")
    /\ \E t \in main.mine :
          /\ pos[t] = main.k + 1
          /\ token' = [token EXCEPT ![t] = "active"]
          /\ main' = [main EXCEPT
                !.mine = @ \ {t}, !.k = @ + 1,
                !.pc = IF main.k + 1 = main.n THEN "start"
                       ELSE IF main.e \in CtrlEp THEN "append" ELSE "alloc"]
    /\ UNCHANGED <<kind, qhVars, utrOf, pos, nxt, linkVars, epVars, hcVars, isr,
                   utrVars>>

\* A new QH is linked behind _H_qh, or behind the _Iqh[] node of its interval.
LinkQh(e, q) ==
    /\ async' = IF main.new /\ e \in AsyncEp THEN async \cup {q} ELSE async
    /\ periodic' = IF main.new /\ e \in IntEp THEN periodic \cup {q} ELSE periodic

\* The overlay of the QH is set and a new QH linked.  The overlay token, and
\* with it the halt bit, is rewritten for control and for a new QH only.
\* usbh_ctrl_xfer then waits; the others return.
XferGo ==
    /\ MainAt("start")
    /\ \E t \in list[main.q] :
          pos[t] = 1 /\ ol' = [ol EXCEPT ![main.q] = t]
    /\ halt' = [halt EXCEPT ![main.q] = IF main.new \/ main.e \in CtrlEp
                                        THEN FALSE ELSE @]
    /\ LinkQh(main.e, main.q)
    /\ main' = IF main.e \in CtrlEp
               THEN [MainIdle EXCEPT !.pc = "wait", !.e = main.e]
               ELSE MainIdle
    /\ UNCHANGED <<kind, list, doneList, qtdVars, removing, early, epVars, hcVars, isr,
                   utrVars>>

\* ehci_bulk_xfer without data has built no qTD.  On a new QH it copies the
\* buffer pointers of qTD NULL; an old QH gets NULL for its next qTD, and the
\* request, accepted, will not be heard of again.
XferGoEmpty ==
    /\ MainAt("start") /\ list[main.q] = {}
    /\ ol' = [ol EXCEPT ![main.q] = NULL]
    /\ main' = IF main.new THEN [main EXCEPT !.pc = "trap"] ELSE MainIdle
    /\ fault' = TRUE
    /\ UNCHANGED <<kind, list, doneList, halt, qtdVars, linkVars, pipe, orphan, hcVars,
                   isr, utrVars>>

\* usbh_ctrl_xfer sees bIsTransferDone, or the client of a bulk transfer
\* does, and frees the UTR.
CtrlDone ==
    /\ MainAt("wait") /\ isDone[main.e]
    /\ Released(main.e)
    /\ main' = MainIdle
    /\ UNCHANGED <<kind, qhVars, qtdVars, linkVars, epVars, hcVars, isr>>

BulkDone ==
    /\ MainAt("idle")
    /\ \E e \in BulkEp : live[e] /\ isDone[e] /\ Released(e)
    /\ UNCHANGED <<kind, qhVars, qtdVars, linkVars, epVars, hcVars, main, isr>>

(***************************************************************************)
(* ehci_quit_xfer by the main loop: the time-out of a control transfer, or *)
(* a client giving an endpoint up.                                         *)
(***************************************************************************)

QuitStart ==
    \/ /\ MainAt("wait")
       /\ main' = [main EXCEPT !.pc = "unlink", !.q = pipe[main.e]]
       /\ UNCHANGED <<kind, qhVars, qtdVars, linkVars, epVars, hcVars, isr, utrVars>>
    \/ /\ MainAt("idle")
       /\ \E e \in Ep : /\ pipe[e] # NULL
                        /\ main' = [MainIdle EXCEPT !.pc = "unlink", !.e = e,
                                                    !.q = pipe[e]]
       /\ UNCHANGED <<kind, qhVars, qtdVars, linkVars, epVars, hcVars, isr, utrVars>>

\* Mutants of Unlink: the periodic chain is not searched; the doorbell is not
\* rung.
UnlinkAsyncOnly(q) ==
    /\ async' = async \ {q} /\ removing' = removing \cup {q} /\ iaad' = TRUE
    /\ UNCHANGED <<periodic, early>>

UnlinkSilent(q) ==
    /\ async' = async \ {q} /\ periodic' = periodic \ {q}
    /\ removing' = removing \cup {q}
    /\ UNCHANGED <<iaad, early>>

\* The QH q leaves its list for qh_remove_list and the doorbell is rung.
Unlink(q) ==
    /\ async' = async \ {q}
    /\ periodic' = periodic \ {q}
    /\ removing' = removing \cup {q}
    /\ iaad' = TRUE
    /\ early' = (early \/ (hc = q /\ (iaad \/ "IAA" \in usts)))

\* move_qh_to_remove_list, between DISABLE_EHCI_IRQ and ENABLE_EHCI_IRQ.
move_qh_to_remove_list ==
    /\ MainAt("unlink")
    /\ main' = [main EXCEPT !.pc = "clear"]
    /\ IF main.q \in Linked \ removing
       THEN Unlink(main.q)
       ELSE UNCHANGED <<linkVars, iaad>>
    /\ UNCHANGED <<kind, qhVars, qtdVars, epVars, usts, hc, isr, utrVars>>

QuitClear ==
    /\ MainAt("clear")
    /\ ClearPipe(main.e)
    /\ main' = [main EXCEPT !.pc = "delay"]
    /\ UNCHANGED <<kind, qhVars, qtdVars, linkVars, lostVars, hcVars, isr, utrVars>>

\* delay_us(2000), taken to be long enough for the doorbell to be answered,
\* and the release of the UTR by the caller.
QuitDelay ==
    /\ MainAt("delay") /\ main.q \notin removing
    /\ Released(main.e)
    /\ main' = MainIdle
    /\ UNCHANGED <<kind, qhVars, qtdVars, linkVars, epVars, hcVars, isr>>

(***************************************************************************)
(* EHCI_IRQHandler.                                                        *)
(***************************************************************************)

\* A scan has nothing to do at a QH without a qTD on its qtd_list: those QHs
\* are left out.
AsyncScan == {q \in async : list[q] # {}}

\* Mutant of PeriodicScan: an empty QH is not passed over.
PeriodicScanAll == {q \in periodic : list[q] \cup doneList[q] # {}}

PeriodicScan == {q \in periodic : list[q] # {}}

\* Mutant of Answered: IAA is not tested.
AnsweredAlways == TRUE

\* The doorbell was answered.
Answered == "IAA" \in usts

\* The handler goes through the asynchronous scan and the periodic scan if
\* USBINT was set, and through iaad_remove_qh if IAA was.
IsrEnter ==
    /\ isr.pc = "off" /\ usts # {}
    /\ isr' = [IsrOff EXCEPT
          !.pc = IF "USBINT" \in usts THEN "async" ELSE "iaa",
          !.todo = IF "USBINT" \in usts THEN AsyncScan ELSE {},
          !.iaa = Answered]
    /\ usts' = {}
    /\ UNCHANGED <<kind, qhVars, qtdVars, linkVars, epVars, iaad, hc, main, utrVars>>

IsrNextQh ==
    /\ isr.pc = "async"
    /\ \E q \in isr.todo :
          isr' = [isr EXCEPT !.pc = "visit", !.todo = @ \ {q}, !.q = q]
    /\ UNCHANGED <<kind, qhVars, qtdVars, linkVars, epVars, hcVars, main, utrVars>>

IsrAsyncEnd ==
    /\ isr.pc = "async" /\ isr.todo = {}
    /\ isr' = [isr EXCEPT !.pc = "periodic", !.todo = PeriodicScan]
    /\ UNCHANGED <<kind, qhVars, qtdVars, linkVars, epVars, hcVars, main, utrVars>>

\* Mutant of visit_qtd: the mark is not tested.
VisitUnmarked(t) == token[t] # "active"

\* visit_qtd: the qTD is to be reclaimed.
visit_qtd(t) == token[t] \notin {"mark", "active"}

\* visit_qtd reports an error of t to the UTR of e.
Failed(t, e) == utrOf[t] = e /\ token[t] = "err"

\* The qTDs of S leave the qtd_list of q for its done_list.
Reclaim(q, S) ==
    /\ list' = [list EXCEPT ![q] = @ \ S]
    /\ doneList' = [doneList EXCEPT ![q] = @ \cup S]
    /\ Retired(S)
    /\ status' = [e \in Ep |-> IF status[e] = "ok" /\ \E t \in S : Failed(t, e)
                               THEN "err" ELSE status[e]]

\* Mutant of Ahead: the scan goes on along the done_list, and so ends, after
\* the first qTD it reclaims.
AheadLost == {t \in list[isr.q] : pos[t] > isr.at /\ isr.utr = NULL}

\* The qTDs of qh->qtd_list still ahead of the scan.
Ahead == {t \in list[isr.q] : pos[t] > isr.at}

\* One turn of the inner loop of scan_asynchronous_list.
IsrVisit ==
    /\ isr.pc = "visit"
    /\ \E t \in Ahead :
          /\ \A u \in Ahead : pos[t] <= pos[u]
          /\ IF visit_qtd(t)
             THEN /\ Reclaim(isr.q, {t})
                  /\ isr' = [isr EXCEPT !.at = pos[t], !.utr = utrOf[t]]
             ELSE /\ isr' = [isr EXCEPT !.at = pos[t]]
                  /\ UNCHANGED <<list, doneList, qtdVars, status>>
    /\ UNCHANGED <<kind, ol, halt, linkVars, epVars, hcVars, main, live, isDone,
                   calls, lateTo>>

\* bIsTransferDone is set and the callback made.
Signal(S) ==
    /\ isDone' = [e \in Ep |-> e \in S \/ isDone[e]]
    /\ calls' = [e \in Ep |-> IF e \in S /\ calls[e] < 2
                              THEN calls[e] + 1 ELSE calls[e]]
    /\ lateTo' = lateTo \cup (S \ {e \in Ep : live[e]})

\* Mutant of AllDone: qtd_list is not tested.
AllDoneEarly == isr.utr # NULL

\* All qTDs of the QH are done, and some in this scan.
AllDone == list[isr.q] = {} /\ isr.utr # NULL

\* The end of the scan of one QH: if it emptied the list, the transfer is over.
IsrVisited ==
    /\ isr.pc = "visit" /\ Ahead = {}
    /\ IF AllDone
       THEN Signal({isr.utr}) /\ iaad' = TRUE
       ELSE UNCHANGED <<isDone, calls, lateTo, iaad>>
    /\ isr' = [isr EXCEPT !.pc = "async", !.q = NULL, !.at = 0, !.utr = NULL]
    /\ UNCHANGED <<kind, qhVars, qtdVars, linkVars, epVars, usts, hc, main, live,
                   status>>

\* One QH of scan_periodic_frame_list: its qTD is moved to the done_list if
\* it is completed.  The transfer is over if the qtd_list is then empty; its
\* UTR is that of the head of the done_list.
IsrPeriodic ==
    /\ isr.pc = "periodic"
    /\ \E q \in isr.todo :
          LET gone == {t \in list[q] : visit_qtd(t)}
              done == IF gone # {} THEN gone ELSE doneList[q]
              over == list[q] \ gone = {} /\ done # {}
              utr  == utrOf[CHOOSE t \in done : TRUE]
          IN  /\ Reclaim(q, gone)
              /\ IF over THEN Signal({utr}) /\ iaad' = TRUE
                         ELSE UNCHANGED <<isDone, calls, lateTo, iaad>>
              /\ isr' = [isr EXCEPT
                    !.todo = @ \ {q},
                    !.q = IF over THEN q ELSE NULL,
                    !.utr = IF over THEN utr ELSE NULL,
                    !.pc = IF over THEN "callback" ELSE "periodic"]
    /\ UNCHANGED <<kind, ol, halt, linkVars, epVars, usts, hc, main, live>>

IsrPeriodicEnd ==
    /\ isr.pc = "periodic" /\ isr.todo = {}
    /\ isr' = IF isr.iaa THEN [isr EXCEPT !.pc = "iaa"] ELSE IsrOff
    /\ UNCHANGED <<kind, qhVars, qtdVars, linkVars, epVars, hcVars, main, utrVars>>

\* The callback of an interrupt transfer.  hub_status_irq, and hid_read_irq
\* on an error, leave the driver alone.  hid_read_irq otherwise calls
\* usbh_int_xfer with the same UTR, and frees the UTR if that fails.
IsrCallback ==
    /\ isr.pc = "callback"
    /\ isr' = [isr EXCEPT !.pc = "periodic", !.q = NULL, !.utr = NULL]
    /\ IF isr.utr \in HidEp /\ status[isr.utr] = "ok" /\ Free # {}
       THEN \E t \in Free :
              /\ kind' = [kind EXCEPT ![t] = "qTD"]
              /\ token' = [token EXCEPT ![t] = "active"]
              /\ utrOf' = [utrOf EXCEPT ![t] = isr.utr]
              /\ pos' = [pos EXCEPT ![t] = 1]
              /\ nxt' = [nxt EXCEPT ![t] = NULL]
              /\ list' = [list EXCEPT ![isr.q] = {t}]
              /\ ol' = [ol EXCEPT ![isr.q] = t]
              /\ calls' = [calls EXCEPT ![isr.utr] = 0]
              /\ UNCHANGED live
       ELSE /\ live' = [live EXCEPT ![isr.utr] =
                            @ /\ ~ (isr.utr \in HidEp /\ status[isr.utr] = "ok")]
            /\ UNCHANGED <<kind, qtdVars, list, ol, calls>>
    /\ UNCHANGED <<doneList, halt, linkVars, epVars, hcVars, main, isDone, status,
                   lateTo>>

\* Mutants: the done_list of a removed QH is forgotten; a transfer without a
\* qTD left is aborted too.
RemovedQtdsNotDone == UNION {list[q] : q \in removing}
AbortedDone == {utrOf[t] : t \in UNION {list[q] \cup doneList[q] : q \in removing}}

\* The qTDs freed with the QHs of qh_remove_list, and the requests aborted.
RemovedQtds == UNION {list[q] \cup doneList[q] : q \in removing}
Aborted     == {utrOf[t] : t \in UNION {list[q] : q \in removing}}

\* iaad_remove_qh: the QHs of qh_remove_list are freed with their qTDs, a
\* transfer that still had some is aborted, and the done lists of the linked
\* QHs are freed.
iaad_remove_qh ==
    /\ FreeUnits(removing \cup RemovedQtds \cup UNION {doneList[q] : q \in Linked})
    /\ DropQhs(removing)
    /\ doneList' = [u \in Unit |-> IF u \in removing \cup Linked
                                   THEN {} ELSE doneList[u]]
    /\ removing' = {}
    /\ status' = [e \in Ep |-> IF e \in Aborted THEN "abort" ELSE status[e]]
    /\ Signal(Aborted)
    /\ UNCHANGED <<async, periodic, early>>

IsrIaa ==
    /\ isr.pc = "iaa"
    /\ iaad_remove_qh
    /\ isr' = IsrOff
    /\ fault' = (fault \/ hc \in removing)
    /\ UNCHANGED <<pipe, orphan, hcVars, main, live>>

(***************************************************************************)
(* The host controller.                                                    *)
(***************************************************************************)

\* The controller comes to a linked QH with a qTD to execute and holds it.
HcFetch ==
    /\ hc = NULL
    /\ \E q \in Linked : /\ ~ halt[q] /\ ol[q] # NULL
                         /\ token[ol[q]] = "active"
                         /\ hc' = q
    /\ UNCHANGED <<kind, qhVars, qtdVars, linkVars, epVars, iaad, usts, main, isr,
                   utrVars>>

HcDrop ==
    /\ hc # NULL
    /\ hc' = NULL /\ early' = FALSE
    /\ UNCHANGED <<kind, qhVars, qtdVars, async, periodic, removing, epVars, iaad,
                   usts, main, isr, utrVars>>

\* A qTD is retired: completed, with an interrupt if it asks for one or was
\* short; or failed, which halts the QH and interrupts if it asks for one.
HcRetire ==
    /\ hc # NULL /\ ~ halt[hc]
    /\ Cardinality(UNION {doneList[q] : q \in Linked}) < MaxDone
    /\ LET t == ol[hc]
       IN  /\ t # NULL
           /\ token[t] = "active"
           /\ ol' = [ol EXCEPT ![hc] = nxt[t]]
           /\ \/ /\ token' = [token EXCEPT ![t] = "ok"]
                 /\ \E short \in BOOLEAN :
                       usts' = usts \cup (IF short \/ nxt[t] = NULL
                                          THEN {"USBINT"} ELSE {})
                 /\ UNCHANGED halt
              \/ /\ token' = [token EXCEPT ![t] = "err"]
                 /\ halt' = [halt EXCEPT ![hc] = TRUE]
                 /\ usts' = usts \cup (IF nxt[t] = NULL THEN {"USBINT"} ELSE {})
    /\ UNCHANGED <<kind, list, doneList, utrOf, pos, nxt, linkVars, epVars, iaad,
                   hc, main, isr, utrVars>>

\* The doorbell is answered when the controller holds no QH.
HcAdvance ==
    /\ iaad /\ hc = NULL
    /\ iaad' = FALSE
    /\ usts' = usts \cup {"IAA"}
    /\ UNCHANGED <<kind, qhVars, qtdVars, linkVars, epVars, hc, main, isr, utrVars>>

(***************************************************************************)
(* The specification.                                                      *)
(***************************************************************************)

MainNext == \/ XferStart \/ XferAllocQtd \/ XferMissQtd \/ XferNoMem
            \/ XferOverrun \/ XferAppend \/ XferActivate \/ XferGo
            \/ XferGoEmpty \/ CtrlDone \/ BulkDone
            \/ QuitStart \/ move_qh_to_remove_list \/ QuitClear \/ QuitDelay
IsrNext  == \/ IsrEnter \/ IsrNextQh \/ IsrAsyncEnd \/ IsrVisit \/ IsrVisited
            \/ IsrPeriodic \/ IsrPeriodicEnd \/ IsrCallback \/ IsrIaa
HcNext   == HcFetch \/ HcDrop \/ HcRetire \/ HcAdvance

Next == MainNext \/ IsrNext \/ HcNext

Spec == Init /\ [][Next]_vars

\* A call of the main loop into the driver goes on to its end.
Call == \/ XferAllocQtd \/ XferMissQtd \/ XferNoMem \/ XferAppend
        \/ XferActivate \/ XferGo \/ XferGoEmpty \/ CtrlDone
        \/ move_qh_to_remove_list \/ QuitClear \/ QuitDelay

\* The handler runs when an interrupt is pending and comes to its end, and so
\* does a call of the main loop; the controller leaves a QH and answers the
\* doorbell.  A device may keep the controller waiting for ever, and a client
\* need not submit, quit or look at anything.
Fairness == /\ WF_vars(IsrNext) /\ WF_vars(Call)
            /\ WF_vars(HcDrop) /\ WF_vars(HcAdvance)

FairSpec == Spec /\ Fairness

(***************************************************************************)
(* Properties.                                                             *)
(*                                                                         *)
(* Four faults of the code leave it with descriptors that are freed or not *)
(* there at all:                                                           *)
(*   - a bulk submission that runs out of units half way frees the qTDs it *)
(*     has put on the qtd_list, and leaves the pointers to them on an old  *)
(*     QH (ehci.c:607-618);                                                *)
(*   - a control submission writes through a qTD that was not allocated    *)
(*     (ehci.c:483-527);                                                   *)
(*   - a bulk submission without data has no qTD (ehci.c:605, 656, 663);   *)
(*   - iaad_remove_qh frees a QH that the controller holds (ehci.c:941).   *)
(* From then on (fault) nothing is promised any more; the properties are   *)
(* about the time before, and the last ones about the faults themselves.   *)
(***************************************************************************)

UnitOrNull == Unit \cup {NULL}
EpOrNull   == Ep \cup {NULL}

MainPc == {"idle", "alloc", "append", "activate", "start", "wait", "unlink",
           "clear", "delay", "trap"}
IsrPc  == {"off", "async", "visit", "periodic", "callback", "iaa"}

MainRec == [pc : MainPc, e : EpOrNull, q : UnitOrNull, new : BOOLEAN,
            n : Nat, k : Nat, miss : Nat, mine : SUBSET Unit]
IsrRec  == [pc : IsrPc, todo : SUBSET Unit, q : UnitOrNull, at : Nat,
            utr : EpOrNull, iaa : BOOLEAN]

\* Type invariant: the ranges of the descriptors, of the lists, and of the
\* places where main loop and handler are.
TypeOK ==
    /\ kind \in [Unit -> {"free", "QH", "qTD"}]
    /\ list \in [Unit -> SUBSET Unit] /\ doneList \in [Unit -> SUBSET Unit]
    /\ ol \in [Unit -> UnitOrNull] /\ halt \in [Unit -> BOOLEAN]
    /\ token \in [Unit -> {"mark", "active", "ok", "err"}]
    /\ utrOf \in [Unit -> EpOrNull] /\ pos \in [Unit -> Nat]
    /\ nxt \in [Unit -> UnitOrNull]
    /\ async \subseteq Unit /\ periodic \subseteq Unit /\ removing \subseteq Unit
    /\ pipe \in [Ep -> UnitOrNull]
    /\ iaad \in BOOLEAN /\ usts \subseteq {"USBINT", "IAA"} /\ hc \in UnitOrNull
    /\ main \in MainRec /\ isr \in IsrRec
    /\ live \in [Ep -> BOOLEAN] /\ isDone \in [Ep -> BOOLEAN]
    /\ status \in [Ep -> {"ok", "err", "abort"}] /\ calls \in [Ep -> 0 .. 2]
    /\ lateTo \subseteq Ep /\ orphan \subseteq Unit
    /\ early \in BOOLEAN /\ fault \in BOOLEAN

\* Every QH that the controller can reach or that waits on qh_remove_list is
\* an allocated QH, and it is in one of the three places only.
QhsAllocated == ~ fault =>
    /\ \A q \in Linked \cup removing : kind[q] = "QH"
    /\ async \cap periodic = {} /\ Linked \cap removing = {}

\* A qTD on a qtd_list or a done_list is allocated and on that list alone:
\* whatever the handler reclaims while the main loop is half way through a
\* submission, no descriptor is freed under a list or put on a second one.
QtdsOnOneList == ~ fault =>
    /\ \A q \in Unit : \A t \in list[q] \cup doneList[q] :
          kind[q] = "QH" /\ kind[t] = "qTD"
    /\ \A q \in Unit : list[q] \cap doneList[q] = {}
    /\ \A q, r \in Unit : q # r =>
          (list[q] \cup doneList[q]) \cap (list[r] \cup doneList[r]) = {}

\* A QH is freed on the IAA interrupt after it was unlinked, when the controller
\* does not hold it any more: the only way to a handler that is about to free the
\* QH held is an answer to a doorbell that was under way when the QH was
\* unlinked, on which iaad_remove_qh frees the whole of qh_remove_list.
HeldIsAllocated == ~ fault /\ hc # NULL =>
    kind[hc] = "QH" /\ (isr.pc = "iaa" /\ hc \in removing => early)

\* ep->hw_pipe never outlives its QH, but for the window in ehci_quit_xfer
\* between the unlinking and the assignment of NULL.
PipesAlive == ~ fault =>
    \A e \in Ep : pipe[e] # NULL =>
        \/ kind[pipe[e]] = "QH"
        \/ main.pc = "clear" /\ main.e = e

\* Nothing else than the QH of a control transfer that was refused, for want of
\* memory or for the span of its buffer, is lost: each QH is an endpoint's or
\* waits for its removal, and each qTD is on a list or in the hands of the main
\* loop.
NoLeak == ~ fault =>
    \A u \in Unit :
        /\ kind[u] = "QH" => u \in removing \cup orphan \/ \E e \in Ep : pipe[e] = u
        /\ kind[u] = "qTD" => \/ u \in main.mine
                              \/ \E q \in Unit : u \in list[q] \cup doneList[q]

\* An endpoint whose client has nothing outstanding has an empty QH, so that
\* the next transfer is not refused with USBH_ERR_EHCI_QH_BUSY.
NotBusy == ~ fault =>
    \A e \in Ep : Submits(e) /\ main.e # e /\ pipe[e] # NULL
                    => list[pipe[e]] = {}

\* The handler never takes a qTD that the main loop is still writing off a
\* list: that is what the mark in Token is for.
MarkRespected ==
    [][\A q \in Unit : \A t \in list[q] :
          ~ fault /\ token[t] = "mark" /\ isr.pc # "off" => t \in list'[q]]_vars

\* The place of a request in the specification Transfer; "broken", which no
\* step of it leads to, if it is called back twice or after its release.
RequestState(e) ==
    IF e \in lateTo \/ calls[e] > 1 THEN "broken"
    ELSE IF ~ live[e] THEN "idle"
    ELSE IF calls[e] = 1 THEN "signalled"
    ELSE IF main.e = e /\ main.pc \in {"alloc", "append", "activate", "start"}
    THEN "offered" ELSE "accepted"

\* The controller may access the buffer of e: a qTD of it is active.
Exposed(e) ==
    \E t \in Unit : utrOf[t] = e /\ token[t] = "active"

Promise == INSTANCE Transfer WITH
               Req <- Ep,
               st  <- [e \in Ep |-> RequestState(e)],
               dma <- [e \in Ep |-> Exposed(e)]

\* The driver keeps its promise to the clients (usb_core.c:367-399): a request
\* is refused at once or called back once, its buffer is left alone from then
\* on, and it is not released before, through completion, time-out, abort by
\* iaad_remove_qh and resubmission inside the handler.
Implements == Promise!Spec

\* A QH on qh_remove_list is eventually freed.
RemovedIsFreed == \A q \in Unit : q \in removing ~> q \notin removing

\* Once the controller has completed every qTD of a transfer, the transfer is
\* eventually signalled: no completion falls between two scans.
CompletedIsSignalled ==
    \A e \in AsyncEp :
        (/\ pipe[e] # NULL
         /\ list[pipe[e]] # {}
         /\ \A t \in list[pipe[e]] : token[t] = "ok") ~> calls[e] > 0

\* What the comments and the documentation say, and the code does not keep.

\* "USB stack will later call back utr->func() once the bulk transfer was done
\* or aborted": a bulk transfer that the controller has ended with an error is
\* eventually called back.
FailedIsSignalled ==
    \A e \in BulkEp :
        (/\ ~ fault /\ pipe[e] # NULL
         /\ \E t \in list[pipe[e]] : token[t] = "err") ~> calls[e] > 0

\* "Force to quit an UTR transfer" and "it will be removed on the next IAAD
\* interrupt": the buffer of a request that has been called back is left alone,
\* and so it is when the request was aborted.
AbortedIsQuiet == \A e \in Ep : calls[e] = 1 => ~ Exposed(e)

\* "out of memory?": ehci_ctrl_xfer returns USBH_ERR_MEMORY_OUT unless it has
\* all its qTDs.
OutOfMemoryIsTold == main.pc = "trap" => main.miss = 0
==============================================================================
