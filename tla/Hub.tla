-------------------------------- MODULE Hub --------------------------------
(***************************************************************************)
(* The hub driver (src_core/hub.c) with the root hub polling of the EHCI   *)
(* driver and the device list it maintains through connect_device and      *)
(* disconnect_device: how the list follows what is plugged in.             *)
(*                                                                         *)
(* Three actors: the main loop, which calls usbh_pooling_hubs again and    *)
(* again; the interrupt handler, which reports a hub's status change       *)
(* (hub_status_irq); and the world, which plugs and unplugs devices at     *)
(* any moment, also between two control requests of the main loop.         *)
(*                                                                         *)
(* A place is a port: <<controller, 1>> or <<hub, port>>.  A place of the  *)
(* world and a pointer of the driver are tied by addr: the device          *)
(* structure whose address a plugged device answers to.  thing (of a       *)
(* device structure) and hub (of a hub structure) are history fields.      *)
(*                                                                         *)
(* The device list is the set of its members: a search that stops at the   *)
(* first of several that fit may stop at any of them.                      *)
(***************************************************************************)
EXTENDS Integers, Sequences, FiniteSets

CONSTANTS
    NCtrl,     \* number of EHCI controllers, each with one root port
    Hubs,      \* hubs of the world
    Funcs,     \* other devices of the world
    NPorts,    \* ports of a hub (bNbrPorts)
    MaxHub,    \* MAX_HUB_DEVICE
    MaxDev,    \* device structures the memory pool has room for
    Plugs, Unplugs,  \* bounds: how often the world plugs and unplugs
    Fails,     \* bound: control requests that fail while the hub is there
    Events,    \* bound: changes of a hub's own status (power, over-current)
    NULL

Ctrls  == 1..NCtrl
Things == Hubs \cup Funcs
Ports  == 1..NPorts
Dev    == 1..MaxDev
Root(c) == <<c, 1>>
Places == (Ctrls \X {1}) \cup (Hubs \X Ports)

\* a device structure, a hub structure, and a call of disconnect_device with
\* the loop variable of the hub_disconnect it leads to
UdevRec  == [dev: Dev, parent: 0..MaxHub, port: Nat, hc: Ctrls,
             thing: Things \cup {NULL}]
HubRec   == [iface: Dev, pos: Seq(Nat), sc: SUBSET (0..NPorts),
             waits: BOOLEAN, hc: Ctrls, hub: Hubs]
FrameRec == [dev: Dev, port: 1..(NPorts + 1)]

\* where hub_polling may be with a hub in its hands, and the main loop at all
Handling == {"hubStatus", "port", "pstat", "pclear", "pconn", "preset",
             "pother", "resubmit"}
Labels   == Handling \cup {"rh", "rhDrop", "rhSettle", "connect", "probe", "hub"}

ASSUME HubAssumption ==
    /\ NCtrl \in Nat \ {0} /\ NPorts \in Nat \ {0} /\ MaxHub \in Nat \ {0}
    /\ MaxDev \in Nat
    /\ Hubs \cap Funcs = {} /\ Ctrls \cap Things = {}
    /\ NULL \notin Things \cup Dev \cup HubRec
    /\ {Plugs, Unplugs, Fails, Events} \subseteq Nat

VARIABLES
    plug,      \* what is plugged into each place
    powered,   \* the places with port power
    chg,       \* change bits of each place: "conn", "reset"
    hchg,      \* hubs with a change of their own status
    addr,      \* the device structure whose address a thing answers to
    left,      \* what remains of the bounds
    udevs,     \* g_udev_list
    hubs,      \* g_hub_dev
    pc,        \* where usbh_pooling_hubs is
    ctrl, idx, port, ret, change,  \* its local variables
    st,        \* wPortStatus and wPortChange as last read
    udev,      \* the device structure connect_device works on
    stack      \* the nested calls of disconnect_device

world == <<plug, powered, chg, hchg, addr>>
loop  == <<ctrl, idx, port, ret, change, st>>
vars  == <<world, left, udevs, hubs, pc, loop, udev, stack>>

-----------------------------------------------------------------------------
(* The device list and the table of hubs. *)

\* ehci_find_device_by_port: the device on the root port of controller c
ehci_find_device_by_port(c) ==
    {u \in udevs : u.hc = c /\ u.parent = 0 /\ u.port = 1}

HubIdx == {i \in 1..MaxHub : hubs[i] # NULL}

\* the first hub with position identifier id, 0 if there is none
HubAt(id) ==
    LET S == {i \in HubIdx : hubs[i].pos = id}
    IN  IF S = {} THEN 0 ELSE CHOOSE i \in S : \A j \in S : i <= j

\* usbh_find_device: the device under port p of the hub with identifier id
usbh_find_device(id, p) ==
    {u \in udevs : HubAt(id) # 0 /\ u.parent = HubAt(id) /\ u.port = p}

\* find_hub_device: the hub structure of device structure d
find_hub_device(d) == {i \in HubIdx : hubs[i].iface = d}

Listed(d) == \E u \in udevs : u.dev = d

\* the list without d (free_device); d's address is nobody's from then on
Unchain(d) == {u \in udevs : u.dev # d}
NoAddr(d)  == [t \in Things |-> IF addr[t] = d THEN NULL ELSE addr[t]]

FreeDev == {d \in Dev : ~Listed(d)}

\* alloc_device: a zeroed structure, which the caller fills and passes on
alloc_device(parent, p, hc) ==
    \E d \in FreeDev :
       /\ \A e \in FreeDev : d <= e
       /\ udevs' = udevs \cup {[dev |-> d, parent |-> parent, port |-> p,
                                hc |-> hc, thing |-> NULL]}
       /\ udev' = d

-----------------------------------------------------------------------------
(* The world. *)

\* the things at or below t, and those that hang from a controller
Below(t) ==
    LET R[n \in 0..Cardinality(Hubs)] ==
            IF n = 0 THEN {t}
            ELSE R[n-1] \cup {plug[q] : q \in {q \in Places : q[1] \in R[n-1]}}
    IN  R[Cardinality(Hubs)] \ {NULL}

OnBus == UNION {Below(plug[Root(c)]) : c \in {c \in Ctrls : plug[Root(c)] # NULL}}

Changed(q) == [chg EXCEPT ![q] = IF q \in powered THEN @ \cup {"conn"} ELSE @]

\* t is plugged into the free place q
Plug(q, t) ==
    /\ left.plug > 0
    /\ plug[q] = NULL /\ \A r \in Places : plug[r] # t
    /\ q[1] \in Ctrls \cup (OnBus \ Below(t))
    /\ plug' = [plug EXCEPT ![q] = t]
    /\ chg' = Changed(q)
    /\ left' = [left EXCEPT !.plug = @ - 1]
    /\ UNCHANGED <<powered, hchg, addr, udevs, hubs, pc, loop, udev, stack>>

\* what is plugged into q is pulled out, with all that hangs from it
Unplug(q) ==
    /\ left.unplug > 0
    /\ plug[q] # NULL
    /\ LET gone == Below(plug[q])
       IN /\ plug' = [plug EXCEPT ![q] = NULL]
          /\ powered' = {r \in powered : r[1] \notin gone}
          /\ chg' = [r \in Places |->
                       IF r[1] \in gone THEN {} ELSE Changed(q)[r]]
          /\ hchg' = hchg \ gone
          /\ addr' = [t \in Things |-> IF t \in gone THEN NULL ELSE addr[t]]
    /\ left' = [left EXCEPT !.unplug = @ - 1]
    /\ UNCHANGED <<udevs, hubs, pc, loop, udev, stack>>

\* a configured hub loses local power or sees an over-current
HubEvent(h) ==
    /\ left.event > 0
    /\ addr[h] # NULL /\ h \notin hchg
    /\ hchg' = hchg \cup {h}
    /\ left' = [left EXCEPT !.event = @ - 1]
    /\ UNCHANGED <<plug, powered, chg, addr, udevs, hubs, pc, loop, udev, stack>>

\* the status change bitmap of hub h
Pending(h) == {p \in Ports : chg[<<h, p>>] # {}} \cup
              (IF h \in hchg THEN {0} ELSE {})

\* does the hub of structure i answer the requests sent through it?
Answers(i) == addr[hubs[i].hub] = hubs[i].iface

\* a request through hub structure i fails
RequestFails(i) ==
    \/ ~Answers(i) /\ UNCHANGED left
    \/ Answers(i) /\ left.fail > 0 /\ left' = [left EXCEPT !.fail = @ - 1]

\* hub_status_irq after a completed interrupt transfer
hub_status_irq(i) ==
    /\ i \in HubIdx /\ hubs[i].waits
    /\ Answers(i) /\ Pending(hubs[i].hub) # {}
    /\ hubs' = [hubs EXCEPT ![i].sc = @ \cup Pending(hubs[i].hub),
                            ![i].waits = FALSE]
    /\ UNCHANGED <<world, left, udevs, pc, loop, udev, stack>>

\* hub_status_irq after a transfer that failed: it returns at once
StatusFails(i) ==
    /\ i \in HubIdx /\ hubs[i].waits /\ left.fail > 0
    /\ hubs' = [hubs EXCEPT ![i].waits = FALSE]
    /\ left' = [left EXCEPT !.fail = @ - 1]
    /\ UNCHANGED <<world, udevs, pc, loop, udev, stack>>

-----------------------------------------------------------------------------
(* disconnect_device and hub_disconnect. *)

Call(d) == <<[dev |-> d, port |-> 1]>> \o stack
Returns == Tail(stack)

\* hub_disconnect's loop: the device under the next port goes first
hub_disconnect(i) ==
    /\ Head(stack).port <= NPorts
    /\ LET found == usbh_find_device(hubs[i].pos, Head(stack).port)
           on    == <<[Head(stack) EXCEPT !.port = @ + 1]>> \o Returns
       IN \/ found = {} /\ stack' = on
          \/ \E u \in found : stack' = <<[dev |-> u.dev, port |-> 1]>> \o on
    /\ UNCHANGED <<world, left, udevs, hubs, pc, loop, udev>>

\* mutant: the loop over the ports stops before the last one
DisconnectedEarly(d) ==
    /\ find_hub_device(d) = {} \/ Head(stack).port >= NPorts
    /\ hubs' = [i \in 1..MaxHub |->
                  IF i \in find_hub_device(d) THEN NULL ELSE hubs[i]]
    /\ udevs' = Unchain(d)
    /\ addr' = NoAddr(d)
    /\ stack' = Returns
    /\ UNCHANGED <<plug, powered, chg, hchg, left, pc, loop, udev>>

\* mutant: free_hub_device is forgotten
DisconnectedKeepsHub(d) ==
    /\ find_hub_device(d) = {} \/ Head(stack).port > NPorts
    /\ udevs' = Unchain(d)
    /\ addr' = NoAddr(d)
    /\ stack' = Returns
    /\ UNCHANGED <<plug, powered, chg, hchg, left, hubs, pc, loop, udev>>

\* the rest of hub_disconnect, and of disconnect_device: the hub structure,
\* the address and the device structure are freed
Disconnected(d) ==
    /\ find_hub_device(d) = {} \/ Head(stack).port > NPorts
    /\ hubs' = [i \in 1..MaxHub |->
                  IF i \in find_hub_device(d) THEN NULL ELSE hubs[i]]
    /\ udevs' = Unchain(d)
    /\ addr' = NoAddr(d)
    /\ stack' = Returns
    /\ UNCHANGED <<plug, powered, chg, hchg, left, pc, loop, udev>>

disconnect_device ==
    /\ stack # <<>>
    /\ LET d == Head(stack).dev
       IN \/ \E i \in find_hub_device(d) : hub_disconnect(i)
          \/ Disconnected(d)

-----------------------------------------------------------------------------
(* ehci_rh_polling.  The de-bounce holds the main loop until the port has  *)
(* been stable for half a second; nothing is plugged or pulled between its *)
(* last look at the port and the end of the port reset.                    *)

At(l) == pc = l /\ stack = <<>>

\* the loops of usbh_pooling_hubs: the next controller, then the hubs
NextCtrl ==
    IF ctrl < NCtrl
    THEN pc' = "rh" /\ ctrl' = ctrl + 1 /\ UNCHANGED <<idx, port, ret, change, st>>
    ELSE /\ pc' = "hub" /\ ctrl' = 1 /\ idx' = 1 /\ change' = FALSE
         /\ ret' = "none" /\ UNCHANGED <<port, st>>

RhPoll ==
    /\ At("rh")
    /\ IF "conn" \in chg[Root(ctrl)]
       THEN pc' = "rhDrop" /\ UNCHANGED loop
       ELSE NextCtrl
    /\ UNCHANGED <<world, left, udevs, hubs, udev, stack>>

\* the devices known on the port are disconnected
RhDrop ==
    /\ At("rhDrop")
    /\ \/ /\ ehci_find_device_by_port(ctrl) = {}
          /\ pc' = "rhSettle" /\ UNCHANGED stack
       \/ \E u \in ehci_find_device_by_port(ctrl) :
             stack' = Call(u.dev) /\ UNCHANGED pc
    /\ UNCHANGED <<world, left, udevs, hubs, loop, udev>>

\* the stable port is acknowledged; what is there is reset and enumerated
RhSettle ==
    /\ At("rhSettle")
    /\ chg' = [chg EXCEPT ![Root(ctrl)] = {}]
    /\ \/ /\ plug[Root(ctrl)] = NULL
          /\ pc' = "rh" /\ UNCHANGED <<udevs, udev, loop>>
       \/ /\ plug[Root(ctrl)] # NULL /\ FreeDev = {}
          /\ NextCtrl /\ UNCHANGED <<udevs, udev>>
       \/ /\ plug[Root(ctrl)] # NULL /\ alloc_device(0, 1, ctrl)
          /\ pc' = "connect" /\ UNCHANGED loop
    /\ UNCHANGED <<plug, powered, hchg, addr, left, hubs, stack>>

-----------------------------------------------------------------------------
(* connect_device, for the device structure udev. *)

New == CHOOSE u \in udevs : u.dev = udev

\* where it is plugged in
NewPlace == IF New.parent = 0 THEN Root(New.hc)
            ELSE <<hubs[New.parent].hub, New.port>>

Reachable(q) == q \in powered /\ plug[q] # NULL /\
                (New.parent # 0 => Answers(New.parent))

\* connect_device returns to its caller
Connected == pc' = (IF New.parent = 0 THEN "rh" ELSE "pother") /\ udev' = NULL

\* do_port_reset on a hub's port leaves the reset change bit set
Resets(q) == IF q[1] \in Hubs THEN [chg EXCEPT ![q] = @ \cup {"reset"}] ELSE chg

\* address, descriptors and configuration
Configured ==
    /\ At("connect") /\ Reachable(NewPlace)
    /\ LET t == plug[NewPlace]
       IN /\ udevs' = Unchain(udev) \cup {[New EXCEPT !.thing = t]}
          /\ addr' = [addr EXCEPT ![t] = udev]
          /\ chg' = Resets(NewPlace)
          /\ IF t \in Hubs THEN pc' = "probe" /\ UNCHANGED udev ELSE Connected
    /\ UNCHANGED <<plug, powered, hchg, left, hubs, loop, stack>>

\* a request, before or after the reset, is not answered: the caller frees
\* the device structure
ConnectFails ==
    /\ At("connect")
    /\ \/ ~Reachable(NewPlace) /\ UNCHANGED left
       \/ /\ Reachable(NewPlace) /\ left.fail > 0
          /\ left' = [left EXCEPT !.fail = @ - 1]
    /\ udevs' = Unchain(udev)
    /\ chg' \in {chg, IF Reachable(NewPlace) THEN Resets(NewPlace) ELSE chg}
    /\ Connected
    /\ UNCHANGED <<plug, powered, hchg, addr, hubs, loop, stack>>

\* alloc_hub_device: the first free entry of the table
FreeHub == {i \in 1..MaxHub : hubs[i] = NULL}
alloc_hub_device(h) ==
    \E i \in FreeHub :
       (\A j \in FreeHub : i <= j) /\ hubs' = [hubs EXCEPT ![i] = h]

\* the position identifier: the port numbers on the way from the root port
PosId(u) == IF u.parent = 0 THEN <<u.port>>
            ELSE Append(hubs[u.parent].pos, u.port)

\* hub_probe: the ports P get their power, and the status request is submitted
HubProbed(P) ==
    /\ At("probe") /\ FreeHub # {}
    /\ addr[New.thing] = udev
    /\ Cardinality(Ports \ P) <= left.fail
    /\ left' = [left EXCEPT !.fail = @ - Cardinality(Ports \ P)]
    /\ alloc_hub_device([iface |-> udev, pos |-> PosId(New), sc |-> {},
                         waits |-> TRUE, hc |-> New.hc, hub |-> New.thing])
    /\ powered' = powered \cup ({New.thing} \X P)
    /\ chg' = [q \in Places |->
                 IF q \in {New.thing} \X P /\ plug[q] # NULL
                 THEN {"conn"} ELSE chg[q]]
    /\ Connected
    /\ UNCHANGED <<plug, hchg, addr, udevs, loop, stack>>

\* the table of hubs is full, or the hub descriptor cannot be read: the
\* interface has no driver, and connect_device succeeds all the same
ProbeFails ==
    /\ At("probe")
    /\ \/ FreeHub = {} /\ UNCHANGED left
       \/ FreeHub # {} /\ addr[New.thing] # udev /\ UNCHANGED left
       \/ /\ FreeHub # {} /\ addr[New.thing] = udev /\ left.fail > 0
          /\ left' = [left EXCEPT !.fail = @ - 1]
    /\ Connected
    /\ UNCHANGED <<world, udevs, hubs, loop, stack>>

connect_device ==
    \/ Configured \/ ConnectFails
    \/ \E P \in SUBSET Ports : HubProbed(P)
    \/ ProbeFails

-----------------------------------------------------------------------------
(* hub_polling. *)

\* the next entry of the table; a change found starts the polling again
HubScan ==
    /\ At("hub")
    /\ IF idx > MaxHub
       THEN IF change
            THEN /\ idx' = 1 /\ change' = FALSE /\ ret' = "none"
                 /\ UNCHANGED <<pc, port>>
            ELSE pc' = "rh" /\ UNCHANGED <<idx, port, ret, change>>
       ELSE IF hubs[idx] = NULL \/ hubs[idx].sc = {}
            THEN idx' = idx + 1 /\ UNCHANGED <<pc, port, ret, change>>
            ELSE /\ change' = TRUE /\ port' = 1
                 /\ pc' = IF 0 \in hubs[idx].sc THEN "hubStatus" ELSE "port"
                 /\ UNCHANGED <<idx, ret>>
    /\ UNCHANGED <<world, left, udevs, hubs, ctrl, st, udev, stack>>

\* hub_status_change, whose result is not looked at
hub_status_change ==
    /\ At("hubStatus")
    /\ \/ Answers(idx) /\ hchg' = hchg \ {hubs[idx].hub} /\ UNCHANGED left
       \/ RequestFails(idx) /\ UNCHANGED hchg
    /\ pc' = "port"
    /\ UNCHANGED <<plug, powered, chg, addr, udevs, hubs, loop, udev, stack>>

\* mutant: one port too many
NextPortLate ==
    /\ At("port")
    /\ IF port > NPorts + 1 THEN pc' = "resubmit" /\ UNCHANGED port
       ELSE IF port \in hubs[idx].sc THEN pc' = "pstat" /\ UNCHANGED port
       ELSE port' = port + 1 /\ UNCHANGED pc
    /\ UNCHANGED <<world, left, udevs, hubs, ctrl, idx, ret, change, st, udev, stack>>

\* the loop over the ports
NextPort ==
    /\ At("port")
    /\ IF port > NPorts THEN pc' = "resubmit" /\ UNCHANGED port
       ELSE IF port \in hubs[idx].sc THEN pc' = "pstat" /\ UNCHANGED port
       ELSE port' = port + 1 /\ UNCHANGED pc
    /\ UNCHANGED <<world, left, udevs, hubs, ctrl, idx, ret, change, st, udev, stack>>

Here == <<hubs[idx].hub, port>>

\* port_status_change: the status is read ...
get_port_status ==
    /\ At("pstat") /\ Answers(idx)
    /\ st' = [conn |-> plug[Here] # NULL, chg |-> chg[Here]]
    /\ pc' = IF "conn" \in chg[Here] THEN "pclear" ELSE "pother"
    /\ UNCHANGED <<world, left, udevs, hubs, ctrl, idx, port, ret, change, udev, stack>>

\* ... the connection change is cleared ...
ClearConnection ==
    /\ At("pclear") /\ Answers(idx)
    /\ chg' = [chg EXCEPT ![Here] = @ \ {"conn"}]
    /\ pc' = "pconn"
    /\ UNCHANGED <<plug, powered, hchg, addr, left, udevs, hubs, loop, udev, stack>>

\* the device known on the port
Old == usbh_find_device(hubs[idx].pos, port)

\* mutant: a device left over is not looked for before the next one comes
DropOldOnlyGone ==
    /\ At("pconn")
    /\ \/ (Old = {} \/ st.conn) /\ UNCHANGED stack
       \/ ~st.conn /\ \E u \in Old : stack' = Call(u.dev)
    /\ pc' = IF st.conn THEN "preset" ELSE "pother"
    /\ UNCHANGED <<world, left, udevs, hubs, loop, udev>>


\* mutant: the hub's own device is taken for the one below it
DropOldHub ==
    /\ At("pconn")
    /\ \/ Old = {} /\ UNCHANGED stack
       \/ Old # {} /\ stack' = Call(hubs[idx].iface)
    /\ pc' = IF st.conn THEN "preset" ELSE "pother"
    /\ UNCHANGED <<world, left, udevs, hubs, loop, udev>>

\* ... and port_connect_change acts on the status read before: first the
\* device known on the port is disconnected
DropOld ==
    /\ At("pconn")
    /\ \/ Old = {} /\ UNCHANGED stack
       \/ \E u \in Old : stack' = Call(u.dev)
    /\ pc' = IF st.conn THEN "preset" ELSE "pother"
    /\ UNCHANGED <<world, left, udevs, hubs, loop, udev>>

\* do_port_reset, the status after it, and alloc_device
ResetPort ==
    /\ At("preset") /\ Answers(idx)
    /\ chg' = IF plug[Here] = NULL THEN chg ELSE Resets(Here)
    /\ \/ FreeDev = {} /\ pc' = "pother" /\ UNCHANGED <<udevs, udev>>
       \/ alloc_device(idx, port, hubs[idx].hc) /\ pc' = "connect"
    /\ UNCHANGED <<plug, powered, hchg, addr, left, hubs, loop, stack>>

\* the reset fails, or the reading of the status while it lasts or after it;
\* port_status_change does not look at the result
ResetFails ==
    /\ At("preset") /\ RequestFails(idx)
    /\ chg' \in {chg, IF Answers(idx) /\ plug[Here] # NULL
                      THEN Resets(Here) ELSE chg}
    /\ pc' = "pother"
    /\ UNCHANGED <<plug, powered, hchg, addr, udevs, hubs, loop, udev, stack>>

\* mutant: the end of the reset is not acknowledged
ClearOthersNot ==
    /\ At("pother")
    /\ ret' = "ok" /\ port' = port + 1 /\ pc' = "port"
    /\ UNCHANGED <<world, left, udevs, hubs, ctrl, idx, change, st, udev, stack>>

\* mutant: port_status_change returns no result
ClearOthersNoRet ==
    /\ At("pother")
    /\ st.chg \ {"conn"} # {} => Answers(idx)
    /\ chg' = [chg EXCEPT ![Here] = @ \ (st.chg \ {"conn"})]
    /\ port' = port + 1 /\ pc' = "port"
    /\ UNCHANGED <<plug, powered, hchg, addr, left, udevs, hubs, ctrl, idx,
                   ret, change, st, udev, stack>>

\* the other change bits, as read before, are cleared
ClearOthers ==
    /\ At("pother")
    /\ st.chg \ {"conn"} # {} => Answers(idx)
    /\ chg' = [chg EXCEPT ![Here] = @ \ (st.chg \ {"conn"})]
    /\ ret' = "ok" /\ port' = port + 1 /\ pc' = "port"
    /\ UNCHANGED <<plug, powered, hchg, addr, left, udevs, hubs, ctrl, idx,
                   change, st, udev, stack>>

\* a request of port_status_change fails: the other ports are skipped
PortFails ==
    /\ \/ At("pstat") \/ At("pclear")
       \/ At("pother") /\ st.chg \ {"conn"} # {}
    /\ RequestFails(idx)
    /\ ret' = "err" /\ pc' = "resubmit"
    /\ UNCHANGED <<world, udevs, hubs, ctrl, idx, port, change, st, udev, stack>>

\* is the status request submitted again?  ret may not have been assigned
Resubmits == CASE ret = "ok" -> {TRUE} [] ret = "err" -> {FALSE}
               [] OTHER -> BOOLEAN

\* the end of a hub's turn: the status request is submitted again, or
\* usbh_int_xfer fails, or it is not called.  The next hub finds ret as it is
\* left here.
Resubmit ==
    /\ At("resubmit")
    /\ \E b \in BOOLEAN :
         /\ hubs' = [hubs EXCEPT ![idx].sc = {}, ![idx].waits = b]
         /\ \/ TRUE \in Resubmits /\ b /\ ret' = "ok" /\ UNCHANGED left
            \/ /\ TRUE \in Resubmits /\ ~b /\ ret' = "err"
               /\ left.fail > 0 /\ left' = [left EXCEPT !.fail = @ - 1]
            \/ FALSE \in Resubmits /\ ~b /\ UNCHANGED <<ret, left>>
    /\ idx' = idx + 1 /\ pc' = "hub"
    /\ UNCHANGED <<world, udevs, ctrl, port, change, st, udev, stack>>

hub_polling ==
    \/ HubScan \/ hub_status_change \/ NextPort
    \/ get_port_status \/ ClearConnection \/ DropOld
    \/ ResetPort \/ ResetFails \/ ClearOthers \/ PortFails \/ Resubmit

-----------------------------------------------------------------------------

Init ==
    /\ plug = [q \in Places |-> NULL]
    /\ powered = {Root(c) : c \in Ctrls}
    /\ chg = [q \in Places |-> {}]
    /\ hchg = {}
    /\ addr = [t \in Things |-> NULL]
    /\ left = [plug |-> Plugs, unplug |-> Unplugs, fail |-> Fails, event |-> Events]
    /\ udevs = {} /\ udev = NULL
    /\ hubs = [i \in 1..MaxHub |-> NULL]
    /\ pc = "rh" /\ ctrl = 1 /\ idx = 1 /\ port = 1
    /\ ret = "none" /\ change = FALSE
    /\ st = [conn |-> FALSE, chg |-> {}]
    /\ stack = <<>>

MainLoop == RhPoll \/ RhDrop \/ RhSettle \/ connect_device \/ hub_polling
            \/ disconnect_device

World == \/ \E q \in Places, t \in Things : Plug(q, t)
         \/ \E q \in Places : Unplug(q)
         \/ \E h \in Hubs : HubEvent(h)

Next == World \/ MainLoop
        \/ \E i \in 1..MaxHub : hub_status_irq(i) \/ StatusFails(i)

Spec == Init /\ [][Next]_vars

\* The application keeps polling, and a hub answers a waiting status request.
Fairness == WF_vars(MainLoop) /\ \A i \in 1..MaxHub : WF_vars(hub_status_irq(i))

FairSpec == Spec /\ Fairness

-----------------------------------------------------------------------------
(* Properties. *)

\* All hubs hang from one controller.  A position identifier does not name
\* the controller (hub.c:235): with hubs below both it may name two hubs.
HubsTogether == \A i, j \in HubIdx : hubs[i].hc = hubs[j].hc

\* Type invariant: the ranges of the world, of the two tables and of the
\* local variables of usbh_pooling_hubs.
TypeOK ==
    /\ plug \in [Places -> Things \cup {NULL}]
    /\ powered \subseteq Places
    /\ chg \in [Places -> SUBSET {"conn", "reset"}]
    /\ hchg \subseteq Hubs
    /\ addr \in [Things -> Dev \cup {NULL}]
    /\ left \in [plug: Nat, unplug: Nat, fail: Nat, event: Nat]
    /\ udevs \subseteq UdevRec /\ hubs \in [1..MaxHub -> HubRec \cup {NULL}]
    /\ udev \in Dev \cup {NULL} /\ stack \in Seq(FrameRec)
    /\ pc \in Labels
    /\ ctrl \in Ctrls /\ idx \in 1..(MaxHub + 1) /\ port \in 1..(NPorts + 1)
    /\ ret \in {"none", "ok", "err"} /\ change \in BOOLEAN
    /\ st \in [conn: BOOLEAN, chg: SUBSET {"conn", "reset"}]

\* A listed device hangs from a root port or from a hub structure in use,
\* and that hub is itself a listed device: hub_disconnect frees a hub only
\* after every device below it (hub.c:335-359).
ParentsLive ==
    \A u \in udevs : u.parent # 0 =>
        u.parent \in HubIdx /\ Listed(hubs[u.parent].iface)

\* No port has two device structures: a device left over from before is
\* disconnected before the next one is enumerated, whatever happened to the
\* port in between (hub.c:456-462, ehci.c:1119-1125).
OnePerPort ==
    \A u, v \in udevs :
        u # v /\ u.parent = v.parent /\ u.hc = v.hc => u.port # v.port

\* A hub structure in use belongs to one listed device, which is a hub, and
\* no two belong to the same: neither a probe that fails half way nor a
\* disconnection leaves an entry of g_hub_dev behind.
HubsOwned ==
    \A i \in HubIdx :
        /\ \E u \in udevs : u.dev = hubs[i].iface /\ u.thing = hubs[i].hub
        /\ \A j \in HubIdx : hubs[i].iface = hubs[j].iface => i = j

\* usbh_find_device, asked with the identifier of a hub, returns the device
\* whose parent is that very hub, if there is one, and nothing else
\* ("Find the device under the specified hub port", hub.c:704).
FindsUnderHub ==
    \A i \in HubIdx, p \in Ports :
        usbh_find_device(hubs[i].pos, p) = {u \in udevs : u.parent = i /\ u.port = p}

\* While hub_polling works on a hub, across the disconnections and the
\* enumeration it starts, the entry of g_hub_dev it points to stays in use.
HandledIsLive ==
    pc \in Handling => idx \in HubIdx

\* Hub structure i will hear of no change any more: its status request is not
\* pending and there is no report left to work on.  Mute(h): no structure
\* hears what hub h has to report.
Deaf(i) == ~hubs[i].waits /\ hubs[i].sc = {}
Mute(h) == ~ \E i \in HubIdx : hubs[i].hub = h /\ Answers(i) /\ ~Deaf(i)
SomeDeaf == \E i \in HubIdx : Answers(i) /\ Deaf(i)

\* A hub that answers is deaf only after a request that failed, or after a
\* change of a hub's own status (hub.c:575, 594-617): a turn in which every
\* port was looked at ends with the status request pending again.
HubsListen ==
    \A i \in HubIdx :
        Answers(i) /\ Deaf(i) => left.fail < Fails \/ left.event < Events

\* A change that a configured hub has to report is eventually read and
\* cleared, or the hub goes ("If there's any hub port change found, USB stack
\* will manage the hub events", hub.c:639-640).
Managed ==
    \A h \in Hubs :
        (~Mute(h) /\ Pending(h) # {}) ~> (addr[h] = NULL \/ Pending(h) = {})

\* What the code does keep: such a change is read and cleared, or the hub
\* goes, or becomes deaf.
ManagedUnlessDeaf ==
    \A h \in Hubs : (~Mute(h) /\ Pending(h) # {}) ~> (Mute(h) \/ Pending(h) = {})


\* A device that stays plugged in is eventually enumerated ("USB stack
\* enumerates newly connected devices", hub.c:641).
Recognised ==
    \A t \in Things : (t \in OnBus) ~> (t \notin OnBus \/ addr[t] # NULL)
=============================================================================
