------------------------------- MODULE MCEhci -------------------------------
(* Model checking of Ehci. *)
EXTENDS Ehci

\* The units of the pool are interchangeable: it is enough to look at the
\* behaviours in which a bulk or hub endpoint takes the highest
\* free unit and any other endpoint the lowest.
OwnEnd ==
    \A u, v \in Unit :
        kind[u] = "free" /\ kind'[u] # "free" /\ kind[v] = "free" =>
            IF isr.pc = "off" /\ main'.e \in BulkEp \cup HubEp
            THEN u >= v ELSE u <= v

\* A behaviour is followed up to a fault, and up to the handler that is about to
\* free the QH the controller holds: the controller may also have left the QH
\* just before, and these behaviours are followed.
BeforeFault == ~ fault /\ ~ (isr.pc = "iaa" /\ hc \in removing)

\* One QH is lost by usbh_ctrl_xfer: with two of five units gone no control
\* transfer gets through.
OneOrphan == Cardinality(orphan) <= 1
==============================================================================
