-------------------------------- MODULE Ohci --------------------------------
(***************************************************************************)
(* Control, bulk and interrupt transfers of the OHCI driver                *)
(* (src_core/ohci.c), with the descriptor units of mem_alloc.c they use.   *)
(*                                                                         *)
(* As in Ehci, three actors share the descriptors: the main loop, which    *)
(* submits and quits transfers; OHCI_IRQHandler, which preempts it between *)
(* any two accesses and runs to its end; and the host controller.  The     *)
(* controller holds an endpoint descriptor (ED) only within a frame.  It   *)
(* puts the transfer descriptors (TD) it retires on a done queue, which it *)
(* hands over at a start of frame if the driver has taken the one before.  *)
(*                                                                         *)
(* chain[ed] is the list of TDs from HeadP; an interrupt ED ends with the  *)
(* dummy TD that TailP points to, the others have TailP = 0.  The lists of *)
(* EDs are sets.  One transfer request (UTR) stands for each endpoint.     *)
(***************************************************************************)
EXTENDS Integers, Sequences, FiniteSets

CONSTANTS
    Unit,      \* hardware units (_hw_mem_pool), without those of _Ied[]
    CtrlEp,    \* default control endpoints
    BulkEp,    \* bulk endpoints
    IntEp,     \* interrupt endpoints, whose callback resubmits (hid_read_irq)
    QuitEp,    \* endpoints that a client gives up (usbh_quit_utr)
    Stages,    \* numbers of TDs of a control transfer: 2, or 3 with data
    MaxTd,     \* bound: TDs of one bulk transfer (4 KB each)
    Spare,     \* bound: free units when a bulk transfer starts
    NULL

Ep == CtrlEp \cup BulkEp \cup IntEp

ASSUME OhciAssumption ==
    /\ NULL \notin Unit \cup Ep /\ IsFiniteSet(Unit)
    /\ CtrlEp \cap BulkEp = {} /\ (CtrlEp \cup BulkEp) \cap IntEp = {}
    /\ QuitEp \subseteq Ep
    /\ Stages \subseteq {2, 3} /\ MaxTd \in Nat \ {0} /\ Spare \in Nat

VARIABLES
    kind,      \* what each unit is handed out as
    info,      \* ed->Info: the endpoint of an ED
    chain,     \* the TDs from ed->HeadP on
    skip,      \* EDs with ED_SKIP
    halt,      \* EDs with the halt bit of HeadP
    utrOf,     \* td->utr
    bad,       \* TDs retired with an error
    ctrlHead,  \* HcControlHeadED (whose NextED is 0)
    bulk,      \* EDs behind HcBulkHeadED
    intr,      \* EDs behind _Ied[]
    removing,  \* ed_remove_list
    pipe,      \* ep->hw_pipe
    done,      \* the done queue inside the controller, latest TD first
    hcca,      \* _hcca->done_head
    sts,       \* HcInterruptStatus: SF, WDH
    sfe,       \* SF in HcInterruptEnable
    hc,        \* the ED the controller holds
    main,      \* where the main loop is
    isr,       \* where the interrupt handler is
    live,      \* the endpoint's UTR is with the driver or its client
    isDone,    \* utr->bIsTransferDone
    status,    \* utr->status
    cnt,       \* utr->td_cnt
    calls,     \* history: completions signalled for the current submission
    late,      \* history: endpoints whose UTR was written to after its release
    orphan,    \* history: units that a failed submission forgets
    dropped,   \* history: endpoints whose UTR a failed callback freed
    again,     \* history: endpoints resubmitted while their ED was removed
    stale      \* history: a refused bulk submission has freed its ED

lostVars == <<orphan, dropped, again, stale>>
edVars   == <<info, chain, skip, halt>>
linkVars == <<ctrlHead, bulk, intr, removing>>
hcVars   == <<done, hcca, sts, sfe, hc>>
utrVars  == <<live, isDone, status, cnt, calls, late>>
vars     == <<kind, edVars, utrOf, bad, linkVars, pipe, hcVars, main, isr,
              utrVars, lostVars>>

Free   == {u \in Unit : kind[u] = "free"}
Linked == bulk \cup intr \cup ({ctrlHead} \ {NULL})

Elems(s) == {s[i] : i \in DOMAIN s}

MainIdle == [pc |-> "idle", e |-> NULL, ed |-> NULL, new |-> FALSE, n |-> 0,
             tds |-> <<>>]
IsrOff   == [pc |-> "off", wdh |-> FALSE, todo |-> <<>>, rest |-> {}]

\* The main loop runs only while the handler does not.
MainAt(pc) == isr.pc = "off" /\ main.pc = pc

\* After ohci_init, whose last delay outlasts the first start of frame.
Init ==
    /\ kind = [u \in Unit |-> "free"] /\ info = [u \in Unit |-> NULL]
    /\ chain = [u \in Unit |-> <<>>] /\ skip = {} /\ halt = {}
    /\ utrOf = [u \in Unit |-> NULL] /\ bad = {}
    /\ ctrlHead = NULL /\ bulk = {} /\ intr = {} /\ removing = {}
    /\ pipe = [e \in Ep |-> NULL]
    /\ done = <<>> /\ hcca = <<>> /\ sts = {} /\ sfe = FALSE /\ hc = NULL
    /\ main = MainIdle /\ isr = IsrOff
    /\ live = [e \in Ep |-> FALSE] /\ isDone = [e \in Ep |-> FALSE]
    /\ status = [e \in Ep |-> "ok"] /\ cnt = [e \in Ep |-> 0]
    /\ calls = [e \in Ep |-> 0] /\ late = {}
    /\ orphan = {} /\ dropped = {} /\ again = {} /\ stale = FALSE

(***************************************************************************)
(* Units.  alloc_ohci_* clears a unit, so what a free one held is          *)
(* forgotten.  Any free unit may be chosen: which one the search finds     *)
(* makes no difference here (see HwPool for the search).                   *)
(***************************************************************************)

FreeUnits(S) ==
    /\ kind' = [u \in Unit |-> IF u \in S THEN "free" ELSE kind[u]]
    /\ info' = [u \in Unit |-> IF u \in S THEN NULL ELSE info[u]]
    /\ chain' = [u \in Unit |-> IF u \in S THEN <<>> ELSE chain[u]]
    /\ skip' = skip \ S /\ halt' = halt \ S
    /\ utrOf' = [u \in Unit |-> IF u \in S THEN NULL ELSE utrOf[u]]
    /\ bad' = bad \ S

AllocTd(u, e) ==
    /\ kind' = [kind EXCEPT ![u] = "TD"]
    /\ utrOf' = [utrOf EXCEPT ![u] = e]

AllocEd(u, e) ==
    /\ kind' = [kind EXCEPT ![u] = "ED"]
    /\ info' = [info EXCEPT ![u] = e]

(***************************************************************************)
(* Submission by the main loop.                                            *)
(***************************************************************************)

\* SETUP, DATA if any, STATUS; 4 KB pieces; the next dummy.
TdCounts(e) == CASE e \in CtrlEp -> Stages
                 [] e \in BulkEp -> 1 .. MaxTd
                 [] OTHER        -> {1}

\* A client hands a new UTR in.  Control and interrupt transfers begin with
\* their TDs, bulk ones with the ED.
XferStart ==
    /\ MainAt("idle")
    /\ \E e \in Ep : \E n \in TdCounts(e) :
          /\ ~ live[e]
          /\ e \in BulkEp => Cardinality(Free) >= Spare
          /\ main' = [MainIdle EXCEPT !.e = e, !.n = n,
                          !.pc = IF e \in BulkEp THEN "ed" ELSE "alloc"]
          /\ live' = [live EXCEPT ![e] = TRUE]
          /\ isDone' = [isDone EXCEPT ![e] = FALSE]
          /\ status' = [status EXCEPT ![e] = "ok"]
          /\ cnt' = [cnt EXCEPT ![e] = 0]
          /\ calls' = [calls EXCEPT ![e] = 0]
    /\ UNCHANGED <<kind, edVars, utrOf, bad, linkVars, pipe, hcVars, isr, late,
                   lostVars>>

\* A TD is allocated; ohci_bulk_xfer counts it at once.
XferTd ==
    /\ MainAt("alloc")
    /\ \E t \in Free :
          /\ AllocTd(t, main.e)
          /\ main' = [main EXCEPT
                !.tds = Append(@, t),
                !.pc = IF Len(main.tds) + 1 < main.n THEN "alloc"
                       ELSE IF main.e \in BulkEp THEN "go" ELSE "ed"]
    /\ cnt' = [cnt EXCEPT ![main.e] = IF main.e \in BulkEp THEN @ + 1 ELSE @]
    /\ UNCHANGED <<edVars, bad, linkVars, pipe, hcVars, isr, live, isDone, status,
                   calls, late, lostVars>>

\* The EDs that the search finds for e: control takes hw_pipe; bulk and
\* interrupt compare Info along the list, which an ED with ED_SKIP fails.
Existing(e) ==
    IF e \in CtrlEp THEN {pipe[e]} \ {NULL}
    ELSE {d \in (bulk \cup intr) \ skip : info[d] = e}

\* The ED of the endpoint is found, or a new one allocated.  An interrupt ED
\* needs a dummy TD next.  (A bulk ED that still has TDs is refused with
\* EP_BUSY, which Implements rules out for a client with nothing outstanding.)
XferEd ==
    /\ MainAt("ed")
    /\ \E d \in Unit :
          /\ \/ /\ d \in Existing(main.e)
                /\ main.e \in BulkEp => chain[d] = <<>>
                /\ UNCHANGED <<kind, info>>
             \/ /\ Existing(main.e) = {} /\ d \in Free
                /\ AllocEd(d, main.e)
          /\ pipe' = [pipe EXCEPT ![main.e] = IF main.e \in BulkEp THEN d ELSE @]
          /\ main' = [main EXCEPT
                !.ed = d, !.new = Existing(main.e) = {},
                !.pc = CASE main.e \in BulkEp -> "alloc"
                         [] main.e \in IntEp /\ Existing(main.e) = {} -> "dummy"
                         [] OTHER -> "go"]
    /\ UNCHANGED <<chain, skip, halt, utrOf, bad, linkVars, hcVars, isr, utrVars,
                   lostVars>>

\* The first dummy TD of a new interrupt ED.
XferDummy ==
    /\ MainAt("dummy")
    /\ \E t \in Free : /\ AllocTd(t, NULL)
                       /\ chain' = [chain EXCEPT ![main.ed] = <<t>>]
    /\ main' = [main EXCEPT !.pc = "go"]
    /\ UNCHANGED <<info, skip, halt, bad, linkVars, pipe, hcVars, isr, utrVars,
                   lostVars>>

\* The UTR is freed.
Released(e) ==
    /\ live' = [live EXCEPT ![e] = FALSE]
    /\ isDone' = [isDone EXCEPT ![e] = FALSE]
    /\ status' = [status EXCEPT ![e] = "ok"]
    /\ cnt' = [cnt EXCEPT ![e] = 0]
    /\ calls' = [calls EXCEPT ![e] = 0]
    /\ UNCHANGED late

\* What a submission frees that runs out of units: its TDs, and the ED that
\* it has, old or new.  ohci_int_xfer forgets its TD if there is none for the
\* ED.
Refused ==
    IF main.pc = "ed" /\ main.e \in IntEp THEN {}
    ELSE Elems(main.tds) \cup ({main.ed} \ {NULL})

\* No unit.  usbh_ctrl_xfer clears ep0.hw_pipe, whose ED is forgotten.  (A
\* control transfer without a unit for td_setup tries the others first.)
XferNoMem ==
    /\ main.pc \in {"alloc", "ed", "dummy"} /\ isr.pc = "off" /\ Free = {}
    /\ main.pc = "ed" => Existing(main.e) = {}
    /\ FreeUnits(Refused)
    /\ pipe' = [pipe EXCEPT ![main.e] = IF main.e \in CtrlEp THEN NULL ELSE @]
    /\ orphan' = orphan \cup (IF main.e \in CtrlEp THEN {pipe[main.e]} \ {NULL}
                              ELSE Elems(main.tds) \ Refused)
    /\ stale' = (stale \/ (main.e \in BulkEp /\ main.pc = "alloc"))
    /\ Released(main.e)
    /\ main' = MainIdle
    /\ UNCHANGED <<linkVars, hcVars, isr, dropped, again>>

\* ohci_ctrl_xfer: the ED is rewritten and becomes the control list.  The
\* controller does not look at that list before CLF is written, last: it is
\* taken to have cleared CLF when it came to the end of the transfer before.
CtrlGo ==
    /\ MainAt("go") /\ main.e \in CtrlEp
    /\ chain' = [chain EXCEPT ![main.ed] = main.tds]
    /\ skip' = skip \ {main.ed} /\ halt' = halt \ {main.ed}
    /\ ctrlHead' = main.ed
    /\ cnt' = [cnt EXCEPT ![main.e] = main.n]
    /\ pipe' = [pipe EXCEPT ![main.e] = main.ed]
    /\ main' = [MainIdle EXCEPT !.pc = "wait", !.e = main.e]
    /\ UNCHANGED <<kind, info, utrOf, bad, bulk, intr, removing, hcVars, isr, live,
                   isDone, status, calls, late, lostVars>>

\* ohci_bulk_xfer: HeadP is written, which clears the halt bit.
BulkGo ==
    /\ MainAt("go") /\ main.e \in BulkEp
    /\ chain' = [chain EXCEPT ![main.ed] = main.tds]
    /\ halt' = halt \ {main.ed}
    /\ bulk' = bulk \cup {main.ed}
    /\ main' = MainIdle
    /\ UNCHANGED <<kind, info, skip, utrOf, bad, ctrlHead, intr, removing, pipe,
                   hcVars, isr, utrVars, lostVars>>

\* The dummy TD of d is filled for the request of e, and t is the next dummy.
Extend(d, t, e) ==
    /\ chain' = [chain EXCEPT ![d] = Append(@, t)]
    /\ utrOf' = [utrOf EXCEPT ![t] = e, ![chain[d][Len(chain[d])]] = e]

\* ohci_int_xfer: TailP is moved; the halt bit of HeadP stays as it is.
IntGo ==
    /\ MainAt("go") /\ main.e \in IntEp
    /\ Extend(main.ed, main.tds[1], main.e)
    /\ intr' = intr \cup {main.ed}
    /\ cnt' = [cnt EXCEPT ![main.e] = 1]
    /\ pipe' = [pipe EXCEPT ![main.e] = main.ed]
    /\ main' = MainIdle
    /\ UNCHANGED <<kind, info, skip, halt, bad, ctrlHead, bulk, removing, hcVars,
                   isr, live, isDone, status, calls, late, lostVars>>

\* usbh_ctrl_xfer, or the client of a bulk transfer, sees bIsTransferDone and
\* frees the UTR.
CtrlDone ==
    /\ MainAt("wait") /\ isDone[main.e]
    /\ Released(main.e)
    /\ main' = MainIdle
    /\ UNCHANGED <<kind, edVars, utrOf, bad, linkVars, pipe, hcVars, isr, lostVars>>

BulkDone ==
    /\ MainAt("idle")
    /\ \E e \in BulkEp : live[e] /\ isDone[e] /\ Released(e)
    /\ UNCHANGED <<kind, edVars, utrOf, bad, linkVars, pipe, hcVars, main, isr,
                   lostVars>>

(***************************************************************************)
(* ohci_quit_xfer by the main loop: the time-out of a control transfer, or *)
(* a client giving an endpoint up.                                         *)
(***************************************************************************)

\* add_to_ED_remove_list, in three steps: the ED is marked and listed with the
\* interrupt disabled, a start of frame that is past is forgotten, and the
\* next one is asked for.
QuitSkip ==
    /\ \E e \in Ep :
          /\ \/ MainAt("wait") /\ e = main.e
             \/ MainAt("idle") /\ e \in QuitEp
          /\ pipe[e] # NULL
          /\ skip' = skip \cup {pipe[e]}
          /\ removing' = removing \cup {pipe[e]}
          /\ main' = [MainIdle EXCEPT !.pc = "clear", !.e = e, !.ed = pipe[e]]
    /\ UNCHANGED <<kind, info, chain, halt, utrOf, bad, ctrlHead, bulk, intr, pipe,
                   hcVars, isr, utrVars, lostVars>>

\* Mutant of ClearSF: the bit is left as it is.
ClearSFNot == UNCHANGED sts

ClearSF == sts' = sts \ {"SF"}

QuitClear ==
    /\ MainAt("clear")
    /\ ClearSF
    /\ main' = [main EXCEPT !.pc = "enable"]
    /\ UNCHANGED <<kind, edVars, utrOf, bad, linkVars, pipe, done, hcca, sfe, hc,
                   isr, utrVars, lostVars>>

QuitEnable ==
    /\ MainAt("enable")
    /\ sfe' = TRUE
    /\ main' = [main EXCEPT !.pc = "delay"]
    /\ UNCHANGED <<kind, edVars, utrOf, bad, linkVars, pipe, done, hcca, sts, hc,
                   isr, utrVars, lostVars>>

\* Mutant of ClearPipe: the assignment is missing.
ClearPipeNot(e) == UNCHANGED pipe

\* hw_pipe = NULL
ClearPipe(e) == pipe' = [pipe EXCEPT ![e] = NULL]

\* The TDs retired and not yet given to td_done.
Retired == Elems(done) \cup Elems(hcca) \cup Elems(isr.todo)

\* delay_us(2000), two frames: taken to be long enough for the ED to be removed
\* and the TDs retired before to be handled.  The caller then frees the UTR.
QuitDelay ==
    /\ MainAt("delay") /\ main.ed \notin removing
    /\ \A t \in Retired : utrOf[t] # main.e
    /\ ClearPipe(main.e)
    /\ Released(main.e)
    /\ main' = MainIdle
    /\ UNCHANGED <<kind, edVars, utrOf, bad, linkVars, hcVars, isr, lostVars>>

(***************************************************************************)
(* OHCI_IRQHandler.                                                        *)
(***************************************************************************)

\* The handler reads HcInterruptStatus, and looks at SF only if it is enabled.
IsrEnter ==
    /\ isr.pc = "off"
    /\ \/ /\ sfe /\ "SF" \in sts
          /\ isr' = [IsrOff EXCEPT !.pc = "remove", !.wdh = "WDH" \in sts]
       \/ /\ ~ (sfe /\ "SF" \in sts) /\ "WDH" \in sts
          /\ isr' = [IsrOff EXCEPT !.pc = "take", !.wdh = TRUE,
                                   !.rest = sts \ {"WDH"}]
    /\ UNCHANGED <<kind, edVars, utrOf, bad, linkVars, pipe, hcVars, main, utrVars,
                   lostVars>>

\* utr->td_cnt of e goes down by k; on the way through 0 the request is
\* signalled, with status st.
Count(e, k, st) ==
    LET over == cnt[e] \in 1 .. k
    IN  /\ cnt' = [cnt EXCEPT ![e] = @ - k]
        /\ isDone' = [isDone EXCEPT ![e] = @ \/ over]
        /\ calls' = [calls EXCEPT ![e] = IF over /\ @ < 2 THEN @ + 1 ELSE @]
        /\ status' = [status EXCEPT ![e] = st]
        /\ late' = IF live[e] THEN late ELSE late \cup {e}

\* Mutant of Found: the interrupt table is not searched.
FoundNotInt(d) == d = ctrlHead \/ d \in bulk

\* remove_ed finds d on the list of its kind.
Found(d) == d = ctrlHead \/ d \in bulk \cup intr

\* Mutant of Unlink: a control ED stays the head of its list.
UnlinkNotHead(d) == UNCHANGED ctrlHead /\ bulk' = bulk \ {d} /\ intr' = intr \ {d}

\* d leaves its list.
Unlink(d) ==
    /\ ctrlHead' = IF ctrlHead = d THEN NULL ELSE ctrlHead
    /\ bulk' = bulk \ {d}
    /\ intr' = intr \ {d}

\* remove_ed for one ED: unlinked and freed with its TDs, the dummy of an
\* interrupt ED included, which counts like the others.
remove_ed ==
    /\ isr.pc = "remove"
    /\ \E d \in removing :
          LET tds == IF Found(d) THEN Elems(chain[d]) ELSE {}
              e   == info[d]
          IN  /\ Unlink(d)
              /\ FreeUnits({d} \cup tds)
              /\ IF tds # {}
                 THEN Count(e, Cardinality(tds),
                            IF cnt[e] \in 1 .. Cardinality(tds) THEN "abort"
                            ELSE status[e])
                 ELSE UNCHANGED <<cnt, isDone, calls, status, late>>
              /\ removing' = removing \ {d}
    /\ UNCHANGED <<pipe, hcVars, main, isr, live, lostVars>>

\* The rest of the SF branch.
IsrRemoved ==
    /\ isr.pc = "remove" /\ removing = {}
    /\ sts' = sts \ {"SF"} /\ sfe' = FALSE
    /\ isr' = IF isr.wdh THEN [isr EXCEPT !.pc = "take"] ELSE IsrOff
    /\ UNCHANGED <<kind, edVars, utrOf, bad, linkVars, pipe, done, hcca, hc, main,
                   utrVars, lostVars>>

\* The done queue is taken, and the controller may write the next one.
IsrTake ==
    /\ isr.pc = "take"
    /\ hcca' = <<>> /\ sts' = sts \ {"WDH"}
    /\ isr' = [isr EXCEPT !.pc = "done", !.todo = hcca]
    /\ UNCHANGED <<kind, edVars, utrOf, bad, linkVars, pipe, done, sfe, hc, main,
                   utrVars, lostVars>>

\* Mutant of td_done: the first TD that failed ends the request.
td_doneEarly(t) ==
    Count(utrOf[t], IF t \in bad /\ cnt[utrOf[t]] > 0 THEN cnt[utrOf[t]] ELSE 1,
          IF t \in bad THEN "err" ELSE status[utrOf[t]])

\* Mutant of td_done: the count goes down by two.
td_doneTwice(t) ==
    Count(utrOf[t], 2, IF t \in bad THEN "err" ELSE status[utrOf[t]])

\* td_done for TD t, without the callback.
td_done(t) ==
    Count(utrOf[t], 1, IF t \in bad THEN "err" ELSE status[utrOf[t]])

\* One TD of the reversed queue is done and freed.  A callback that resubmits
\* comes before the unit is freed.
IsrTd ==
    /\ isr.pc = "done" /\ isr.todo # <<>>
    /\ LET t == isr.todo[Len(isr.todo)]
           e == utrOf[t]
       IN  /\ td_done(t)
           /\ IF e \in IntEp /\ cnt[e] = 1 /\ t \notin bad /\ status[e] = "ok"
              THEN /\ isr' = [isr EXCEPT !.pc = "callback"]
                   /\ UNCHANGED <<kind, edVars, utrOf, bad>>
              ELSE /\ isr' = [isr EXCEPT !.todo = SubSeq(@, 1, Len(@) - 1)]
                   /\ FreeUnits({t})
    /\ UNCHANGED <<linkVars, pipe, hcVars, main, live, lostVars>>

\* hid_read_irq: usbh_int_xfer with the same UTR, as XferTd, XferEd, XferDummy
\* and IntGo in one; t is the TD just done, and x the dummy that is filled.
\* If the old ED has ED_SKIP, a second one is made.
Resubmit(t, e) ==
    \E new \in Free, d, x \in Unit :
        /\ IF Existing(e) = {}
           THEN {d, x} \subseteq Free \ {new} /\ d # x
           ELSE d \in Existing(e) /\ x = chain[d][Len(chain[d])]
        /\ kind' = [kind EXCEPT ![t] = "free", ![new] = "TD", ![d] = "ED", ![x] = "TD"]
        /\ chain' = [chain EXCEPT ![d] = IF @ = <<>> THEN <<x, new>>
                                         ELSE Append(@, new)]
        /\ utrOf' = [utrOf EXCEPT ![t] = NULL, ![new] = e, ![x] = e]
        /\ info' = [info EXCEPT ![d] = e]
        /\ intr' = intr \cup {d}
        /\ pipe' = [pipe EXCEPT ![e] = d]
        /\ cnt' = [cnt EXCEPT ![e] = 1]
        /\ calls' = [calls EXCEPT ![e] = 0]
        /\ again' = IF Existing(e) = {} THEN again \cup {e} ELSE again
        /\ UNCHANGED <<live, orphan, dropped, stale>>

\* The resubmission fails, and hid_read_irq frees the UTR.
ResubmitFails(t, e) ==
    LET lost == IF Cardinality(Free) = 1 THEN Free ELSE {}
    IN  /\ Cardinality(Free) < IF Existing(e) = {} THEN 3 ELSE 1
        /\ kind' = [u \in Unit |-> CASE u = t       -> "free"
                                     [] u \in lost  -> "TD"
                                     [] OTHER       -> kind[u]]
        /\ utrOf' = [u \in Unit |-> CASE u = t      -> NULL
                                      [] u \in lost -> e
                                      [] OTHER      -> utrOf[u]]
        /\ orphan' = orphan \cup lost
        /\ live' = [live EXCEPT ![e] = FALSE]
        /\ dropped' = dropped \cup {e}
        /\ UNCHANGED <<info, chain, intr, pipe, cnt, calls, again, stale>>

IsrCallback ==
    /\ isr.pc = "callback"
    /\ LET t == isr.todo[Len(isr.todo)]
       IN  Resubmit(t, utrOf[t]) \/ ResubmitFails(t, utrOf[t])
    /\ isr' = [isr EXCEPT !.pc = "done", !.todo = SubSeq(@, 1, Len(@) - 1)]
    /\ UNCHANGED <<skip, halt, bad, ctrlHead, bulk, removing, hcVars, main, isDone,
                   status, late>>

\* The end: status bits that were seen and not handled are cleared.
IsrEnd ==
    /\ isr.pc = "done" /\ isr.todo = <<>>
    /\ isr' = IsrOff
    /\ sts' = sts \ isr.rest
    /\ UNCHANGED <<kind, edVars, utrOf, bad, linkVars, pipe, done, hcca, sfe, hc, main,
                   utrVars, lostVars>>

(***************************************************************************)
(* The host controller.                                                    *)
(***************************************************************************)

\* The TDs of d that the controller may execute: not the dummy.
Pending(d) == IF info[d] \in IntEp
              THEN SubSeq(chain[d], 1, Len(chain[d]) - 1) ELSE chain[d]

\* The controller comes to an ED with a TD to execute and holds it.
HcFetch ==
    /\ hc = NULL
    /\ \E d \in Linked \ (skip \cup halt) : Pending(d) # <<>> /\ hc' = d
    /\ UNCHANGED <<kind, edVars, utrOf, bad, linkVars, pipe, done, hcca, sts, sfe,
                   main, isr, utrVars, lostVars>>

\* The TD is not finished in this turn.
HcDrop ==
    /\ hc # NULL
    /\ hc' = NULL
    /\ UNCHANGED <<kind, edVars, utrOf, bad, linkVars, pipe, done, hcca, sts, sfe,
                   main, isr, utrVars, lostVars>>

\* A TD is retired to the done queue, and the ED halted if it failed.
HcRetire ==
    /\ hc # NULL /\ kind[hc] = "ED" /\ Pending(hc) # <<>>
    /\ LET t == Head(chain[hc])
       IN  /\ chain' = [chain EXCEPT ![hc] = Tail(@)]
           /\ done' = <<t>> \o done
           /\ \/ UNCHANGED <<bad, halt>>
              \/ bad' = bad \cup {t} /\ halt' = halt \cup {hc}
    /\ hc' = NULL
    /\ UNCHANGED <<kind, info, skip, utrOf, linkVars, pipe, hcca, sts, sfe, main, isr,
                   utrVars, lostVars>>

\* A frame starts; the done queue is handed over if the last one was taken.
HcSof ==
    /\ hc = NULL
    /\ IF done # <<>> /\ "WDH" \notin sts
       THEN hcca' = done /\ done' = <<>> /\ sts' = sts \cup {"SF", "WDH"}
       ELSE sts' = sts \cup {"SF"} /\ UNCHANGED <<hcca, done>>
    /\ UNCHANGED <<kind, edVars, utrOf, bad, linkVars, pipe, sfe, hc, main, isr,
                   utrVars, lostVars>>

(***************************************************************************)
(* The specification.                                                      *)
(***************************************************************************)

MainNext == \/ XferStart \/ XferTd \/ XferEd \/ XferDummy \/ XferNoMem
            \/ CtrlGo \/ BulkGo \/ IntGo \/ CtrlDone \/ BulkDone
            \/ QuitSkip \/ QuitClear \/ QuitEnable \/ QuitDelay
IsrNext  == \/ IsrEnter \/ remove_ed \/ IsrRemoved \/ IsrTake \/ IsrTd
            \/ IsrCallback \/ IsrEnd
HcNext   == HcFetch \/ HcDrop \/ HcRetire \/ HcSof

Next == MainNext \/ IsrNext \/ HcNext

Spec == Init /\ [][Next]_vars

(***************************************************************************)
(* Properties.                                                             *)
(***************************************************************************)

UnitOrNull == Unit \cup {NULL}
EpOrNull   == Ep \cup {NULL}

MainPc == {"idle", "alloc", "ed", "dummy", "go", "wait", "clear", "enable", "delay"}
IsrPc  == {"off", "remove", "take", "done", "callback"}

MainRec == [pc : MainPc, e : EpOrNull, ed : UnitOrNull, new : BOOLEAN, n : Nat,
            tds : Seq(Unit)]
IsrRec  == [pc : IsrPc, wdh : BOOLEAN, todo : Seq(Unit), rest : SUBSET {"SF"}]

\* Type invariant: the ranges of the descriptors, of the lists and of the
\* local variables of main loop and handler; td_cnt is never more than one
\* below zero.
TypeOK ==
    /\ kind \in [Unit -> {"free", "ED", "TD"}] /\ info \in [Unit -> EpOrNull]
    /\ chain \in [Unit -> Seq(Unit)]
    /\ skip \subseteq Unit /\ halt \subseteq Unit /\ bad \subseteq Unit
    /\ bulk \subseteq Unit /\ intr \subseteq Unit /\ removing \subseteq Unit
    /\ utrOf \in [Unit -> EpOrNull] /\ ctrlHead \in UnitOrNull
    /\ pipe \in [Ep -> UnitOrNull]
    /\ done \in Seq(Unit) /\ hcca \in Seq(Unit)
    /\ sts \subseteq {"SF", "WDH"} /\ sfe \in BOOLEAN /\ hc \in UnitOrNull
    /\ main \in MainRec /\ isr \in IsrRec
    /\ live \in [Ep -> BOOLEAN] /\ isDone \in [Ep -> BOOLEAN]
    /\ status \in [Ep -> {"ok", "err", "abort"}]
    /\ cnt \in [Ep -> -1 .. MaxTd + 3] /\ calls \in [Ep -> 0 .. 2]
    /\ late \subseteq Ep /\ orphan \subseteq Unit
    /\ dropped \subseteq Ep /\ again \subseteq Ep /\ stale \in BOOLEAN

\* The places in which a TD can be, and the TDs in each of them.
Place == ({"ed"} \X Unit) \cup ({"main", "done", "hcca", "isr"} \X {NULL})

Tds(p) == CASE p[1] = "ed"   -> chain[p[2]]
            [] p[1] = "main" -> main.tds
            [] p[1] = "done" -> done
            [] p[1] = "hcca" -> hcca
            [] p[1] = "isr"  -> isr.todo

\* A descriptor that the driver or the controller can still come to is
\* allocated, and a TD is in one place only, and once: on an ED, on a done
\* queue, in the handler or in the hands of the main loop.  So nothing is freed under the
\* controller or twice, whatever completes while an ED is being removed.
UnitsInPlace ==
    /\ \A d \in Linked \cup removing : kind[d] = "ED"
    /\ \A p \in Place : \A i \in DOMAIN Tds(p) : kind[Tds(p)[i]] = "TD"
    /\ \A p, q \in Place : \A i \in DOMAIN Tds(p), j \in DOMAIN Tds(q) :
          Tds(p)[i] = Tds(q)[j] => p = q /\ i = j

\* An ED is freed at a start of frame after it was marked with ED_SKIP, so the
\* controller never holds one that is gone: add_to_ED_remove_list forgets the
\* start of frame that is past before it asks for the next.
HeldIsAllocated == hc # NULL => kind[hc] = "ED"

\* ep->hw_pipe is NULL or points to an ED, but for the end of ohci_quit_xfer.
PipesAlive ==
    \A e \in Ep : pipe[e] # NULL =>
        \/ kind[pipe[e]] = "ED"
        \/ main.pc \in {"clear", "enable", "delay"} /\ main.e = e

\* Nothing else is lost than the ED of a control transfer refused for want of
\* memory and the TD of an interrupt transfer refused for want of an ED: each
\* ED is its endpoint's, awaits removal or is being set up, and each TD is in
\* a place from which it is freed.
NoLeak ==
    \A u \in Unit \ orphan :
        /\ kind[u] = "ED" => \/ u \in removing \/ u = main.ed
                             \/ \E e \in Ep : pipe[e] = u
        /\ kind[u] = "TD" => \E p \in Place : u \in Elems(Tds(p))

\* The place of a request in the specification Transfer; "broken", which no
\* step of it leads to, if it is called back twice or written to after its
\* release, other than by the dummy TD of a request that its callback freed.
RequestState(e) ==
    IF e \in late \ dropped \/ calls[e] > 1 THEN "broken"
    ELSE IF ~ live[e] THEN "idle"
    ELSE IF calls[e] = 1 THEN "signalled"
    ELSE IF main.e = e /\ main.pc \in {"alloc", "ed", "dummy", "go"}
    THEN "offered" ELSE "accepted"

\* The controller may access the buffer of e.
Exposed(e) ==
    \E d \in Linked : \E i \in DOMAIN Pending(d) : utrOf[Pending(d)[i]] = e

Promise == INSTANCE Transfer WITH
               Req <- Ep,
               st  <- [e \in Ep |-> RequestState(e)],
               dma <- [e \in Ep |-> Exposed(e)]

\* The driver keeps its promise to the clients (usb_core.c:367-399): a request
\* is refused at once or called back once, its buffer is left alone from then
\* on, and it is not released before, through completion, halted EDs, time-out
\* and removal, as long as no callback submits it again during its removal.
Implements == Promise!Spec

\* "Force to quit an UTR transfer" (usb_core.c:419): when ohci_quit_xfer has
\* returned, the controller does not access the buffer of the request.
QuitIsQuiet == \A e \in Ep : ~ live[e] => ~ Exposed(e)
==============================================================================
