------------------------------ MODULE Transfer ------------------------------
(***************************************************************************)
(* What a host controller driver promises to the client of a transfer      *)
(* request (UTR), as usb_core.c documents it: the request is refused at    *)
(* once, or it is accepted and later called back exactly once, done or     *)
(* aborted.  From then on the controller does not touch the client's       *)
(* buffer, and only then does the request go back to its client.           *)
(*                                                                         *)
(* Ehci and Ohci implement this specification.                             *)
(***************************************************************************)
CONSTANT Req       \* transfer requests

VARIABLES
    st,            \* where each request is
    dma            \* the controller may access the buffer of the request

vars == <<st, dma>>

State == {"idle", "offered", "accepted", "signalled"}

Init == st = [r \in Req |-> "idle"] /\ dma = [r \in Req |-> FALSE]

Move(r, s, d) == st' = [st EXCEPT ![r] = s] /\ dma' = [dma EXCEPT ![r] = d]

\* The client calls usbh_..._xfer, with a new request or with one that it has
\* been called back for.
Offer(r) == st[r] \in {"idle", "signalled"} /\ Move(r, "offered", FALSE)

\* The call ends: with an error, or with the request accepted.
Refuse(r) == st[r] = "offered" /\ Move(r, "idle", FALSE)
Accept(r) == st[r] = "offered" /\ \E d \in BOOLEAN : Move(r, "accepted", d)

\* Descriptors of the request become visible to the controller during the
\* call; it is through with them at some time after that.
Expose(r) == st[r] = "offered" /\ Move(r, "offered", TRUE)
Retire(r) == st[r] \in {"offered", "accepted"} /\ Move(r, st[r], FALSE)

\* Requests are called back, several at a time if they are aborted.
Signal(R) ==
    /\ R # {} /\ \A r \in R : st[r] \in {"offered", "accepted"}
    /\ st' = [r \in Req |-> IF r \in R THEN "signalled" ELSE st[r]]
    /\ dma' = [r \in Req |-> dma[r] /\ r \notin R]

\* The callback submits the request again, or the client frees it.
Resubmit(r) == st[r] = "signalled" /\ Move(r, "accepted", TRUE)
Release(r)  == st[r] = "signalled" /\ Move(r, "idle", FALSE)

Next == \/ \E r \in Req : \/ Offer(r) \/ Refuse(r) \/ Accept(r) \/ Expose(r)
                          \/ Retire(r) \/ Resubmit(r) \/ Release(r)
        \/ \E R \in SUBSET Req : Signal(R)

Spec == Init /\ [][Next]_vars
==============================================================================
