----------------------------- MODULE HubProofs -----------------------------
(***************************************************************************)
(* Proofs about Hub, for any number of hubs, ports, entries of g_hub_dev   *)
(* and device structures, and for trees of any depth.                      *)
(***************************************************************************)
EXTENDS Hub, FiniteSetTheorems, SequenceTheorems, WellFoundedInduction, TLAPS

(***************************************************************************)
(* The inductive invariant.                                                *)
(***************************************************************************)

\* No two hubs have the same position identifier.
UniqueIds == \A i, j \in HubIdx : hubs[i].pos = hubs[j].pos => i = j

\* Each device structure is on the list once and hangs from a root port or
\* from a port of a hub structure in use.
DevicesHang ==
    /\ \A u, v \in udevs : u.dev = v.dev => u = v
    /\ \A u \in udevs :
          IF u.parent = 0 THEN u.port = 1
          ELSE /\ u.parent \in HubIdx /\ u.port \in Ports
               /\ u.hc = hubs[u.parent].hc

\* A hub structure has the controller and the position of its device.
HubsPlaced ==
    \A i \in HubIdx : \A u \in udevs :
        u.dev = hubs[i].iface => hubs[i].hc = u.hc /\ hubs[i].pos = PosId(u)

Tree == DevicesHang /\ OnePerPort /\ HubsOwned /\ HubsPlaced

\* The device that connect_device works on is listed, and no hub yet.
NewInv ==
    pc \in {"connect", "probe"} =>
        /\ find_hub_device(udev) = {}
        /\ \E u \in udevs :
              /\ u.dev = udev
              /\ u.parent # 0 => u.parent = idx /\ port \in Ports
              /\ pc = "probe" => u.thing \in Hubs

\* Devices are disconnected in three places only, and where the next one is
\* enumerated the port has none left.
LoopInv ==
    /\ stack # <<>> => pc \in {"rhDrop", "preset", "pother"}
    /\ pc = "rhSettle" => ehci_find_device_by_port(ctrl) = {}
    /\ pc \in {"pstat", "pclear", "pconn", "preset", "pother"} => port \in Ports
    /\ pc = "preset" =>
          \A u \in udevs : u.parent = idx /\ u.port = port =>
              stack # <<>> /\ u.dev = stack[Len(stack)].dev

\* How far a device is from its root port.
Depth(u) == IF u.parent = 0 THEN 0 ELSE Len(hubs[u.parent].pos)

\* The nested calls go down the tree: a call is for a device further away
\* than the one of the call it is nested in, and below the hub that
\* hub_polling works on.  The ports that a call has passed have no device but
\* the one of the next call.
FramesOf(s) ==
    /\ \A k \in 1..Len(s) : Listed(s[k].dev)
    /\ \A j, k \in 1..Len(s) : \A u, v \in udevs :
          j < k /\ u.dev = s[j].dev /\ v.dev = s[k].dev
              => Depth(v) < Depth(u)
    /\ \A k \in 1..Len(s) : \A i \in find_hub_device(s[k].dev) :
          \A u \in udevs : u.parent = i =>
              u.port >= s[k].port \/ (k > 1 /\ u.dev = s[k - 1].dev)
    /\ pc \in {"preset", "pother"} =>
          \A k \in 1..Len(s) : \A i \in find_hub_device(s[k].dev) :
              Len(hubs[idx].pos) < Len(hubs[i].pos)

Frames == FramesOf(stack)

Inv == TypeOK /\ Tree /\ HandledIsLive /\ NewInv /\ LoopInv /\ Frames

(***************************************************************************)
(* The operators of the model.                                             *)
(***************************************************************************)

\* A call is put on the stack: the others move up by one.
LEMMA PushSeq ==
    ASSUME NEW s \in Seq(FrameRec), NEW f \in FrameRec
    PROVE  /\ <<f>> \o s \in Seq(FrameRec) /\ <<f>> \o s # <<>>
           /\ Len(<<f>> \o s) = Len(s) + 1
           /\ (<<f>> \o s)[1] = f
           /\ \A k \in 1..Len(s) : (<<f>> \o s)[k + 1] = s[k]
<1>1. <<f>> \in Seq(FrameRec) /\ Len(<<f>>) = 1 /\ <<f>>[1] = f
  OBVIOUS
<1>2. Len(s) \in Nat
  BY LenProperties
<1>3. /\ <<f>> \o s \in Seq(FrameRec) /\ Len(<<f>> \o s) = Len(<<f>>) + Len(s)
      /\ \A i \in 1 .. Len(<<f>>) + Len(s) :
            (<<f>> \o s)[i] = IF i <= Len(<<f>>) THEN <<f>>[i] ELSE s[i - Len(<<f>>)]
  BY <1>1, ConcatProperties
<1>4. /\ (<<f>> \o s)[1] = f
      /\ \A k \in 1..Len(s) : (<<f>> \o s)[k + 1] = s[k]
  BY <1>1, <1>2, <1>3
<1>5. <<f>> \o s # <<>>
  BY <1>1, <1>2, <1>3, EmptySeq
<1>6. QED BY <1>1, <1>2, <1>3, <1>4, <1>5

\* A call returns: the others move down by one.
LEMMA PopSeq ==
    ASSUME NEW s \in Seq(FrameRec), s # <<>>
    PROVE  /\ Len(s) \in Nat \ {0} /\ Head(s) = s[1] /\ Head(s) \in FrameRec
           /\ Tail(s) \in Seq(FrameRec) /\ Len(Tail(s)) = Len(s) - 1
           /\ \A k \in 1..Len(s) - 1 : Tail(s)[k] = s[k + 1]
<1>1. Len(s) \in Nat \ {0}
  BY EmptySeq, LenProperties
<1>2. /\ Head(s) \in FrameRec /\ Tail(s) \in Seq(FrameRec) /\ Len(Tail(s)) = Len(s) - 1
      /\ \A k \in 1..Len(Tail(s)) : Tail(s)[k] = s[k + 1]
  BY HeadTailProperties
<1>3. QED BY <1>1, <1>2

\* With unique identifiers usbh_find_device finds what hangs from the hub.
LEMMA FindDevice ==
    ASSUME TypeOK, UniqueIds, NEW i \in HubIdx, NEW p \in Ports
    PROVE  usbh_find_device(hubs[i].pos, p) = {u \in udevs : u.parent = i /\ u.port = p}
<1>1. {j \in HubIdx : hubs[j].pos = hubs[i].pos} = {i}
  BY DEF UniqueIds
<1>2. i \in 1..MaxHub
  BY DEF HubIdx
<1>3. HubAt(hubs[i].pos) = i
  BY <1>1, <1>2, HubAssumption DEF HubAt
<1>4. i # 0
  BY <1>2, HubAssumption
<1>5. QED BY <1>3, <1>4 DEF usbh_find_device

\* The position of a device is one longer than its distance.
LEMMA PosIdLength ==
    ASSUME TypeOK, DevicesHang, NEW u \in udevs
    PROVE  /\ PosId(u) \in Seq(Nat) /\ Depth(u) \in Nat
           /\ Len(PosId(u)) = Depth(u) + 1
<1>1. u \in UdevRec /\ u.port \in Nat
  BY DEF TypeOK, UdevRec
<1>2. CASE u.parent = 0
  BY <1>1, <1>2 DEF PosId, Depth
<1>3. CASE u.parent # 0
  <2>1. u.parent \in HubIdx
    BY <1>3 DEF DevicesHang
  <2>2. hubs[u.parent] \in HubRec
    BY <2>1 DEF TypeOK, HubIdx
  <2>3. hubs[u.parent].pos \in Seq(Nat)
    BY <2>2 DEF HubRec
  <2>4. QED BY <1>1, <1>3, <2>3, AppendProperties, LenProperties DEF PosId, Depth
<1>4. QED BY <1>2, <1>3

\* What is in a position of the tree has its type.
LEMMA RecordTypes ==
    ASSUME TypeOK
    PROVE  /\ \A u \in udevs : u.dev \in Dev /\ u.hc \in Ctrls /\ u.port \in Nat
                               /\ u.parent \in 0..MaxHub
           /\ \A i \in HubIdx : /\ i \in 1..MaxHub /\ hubs[i] \in HubRec
                                /\ hubs[i].iface \in Dev /\ hubs[i].hub \in Hubs
                                /\ hubs[i].hc \in Ctrls /\ hubs[i].pos \in Seq(Nat)
                                /\ Len(hubs[i].pos) \in Nat
           /\ Len(stack) \in Nat
           /\ \A k \in 1..Len(stack) : stack[k] \in FrameRec /\ stack[k].dev \in Dev
                                       /\ stack[k].port \in 1..(NPorts + 1)
<1>1. \A u \in udevs : u.dev \in Dev /\ u.hc \in Ctrls /\ u.port \in Nat
                       /\ u.parent \in 0..MaxHub
  BY DEF TypeOK, UdevRec
<1>2. \A i \in HubIdx : i \in 1..MaxHub /\ hubs[i] \in HubRec
  BY DEF TypeOK, HubIdx
<1>3. \A h \in HubRec : h.iface \in Dev /\ h.hub \in Hubs /\ h.hc \in Ctrls
                        /\ h.pos \in Seq(Nat) /\ Len(h.pos) \in Nat
  BY LenProperties DEF HubRec
<1>4. Len(stack) \in Nat /\ \A k \in 1..Len(stack) : stack[k] \in FrameRec
  BY ElementOfSeq, LenProperties DEF TypeOK
<1>5. \A f \in FrameRec : f.dev \in Dev /\ f.port \in 1..(NPorts + 1)
  BY DEF FrameRec
<1>6. QED BY <1>1, <1>2, <1>3, <1>4, <1>5

\* A request that fails is counted.
LEMMA FailLeft ==
    ASSUME TypeOK,
           left' = left \/ (left.fail > 0 /\ left' = [left EXCEPT !.fail = @ - 1])
    PROVE  left' \in [plug: Nat, unplug: Nat, fail: Nat, event: Nat]
<1>1. CASE left' = left
  BY <1>1 DEF TypeOK
<1>2. CASE left.fail > 0 /\ left' = [left EXCEPT !.fail = @ - 1]
  <2>1. PICK n \in Nat : n = left.fail - 1
    BY <1>2 DEF TypeOK
  <2>2. left' = [left EXCEPT !.fail = n]
    BY <1>2, <2>1
  <2>3. QED BY <2>2 DEF TypeOK
<1>3. QED BY <1>1, <1>2

(***************************************************************************)
(* Steps that leave the tree as it is.                                     *)
(***************************************************************************)

\* The list stays, and of the hub structures only sc and waits may change.
SameTree ==
    /\ udevs' = udevs
    /\ \A i \in 1..MaxHub :
          /\ hubs'[i] = NULL <=> hubs[i] = NULL
          /\ hubs[i] # NULL =>
                /\ hubs'[i].iface = hubs[i].iface /\ hubs'[i].pos = hubs[i].pos
                /\ hubs'[i].hc = hubs[i].hc /\ hubs'[i].hub = hubs[i].hub

\* Then every question about the tree has the same answer.
LEMMA SameTreeAnswers ==
    ASSUME TypeOK, SameTree
    PROVE  /\ HubIdx' = HubIdx
           /\ \A d : find_hub_device(d)' = find_hub_device(d)
           /\ \A d : Listed(d)' <=> Listed(d)
<1>1. HubIdx' = HubIdx
  BY DEF SameTree, HubIdx
<1>2. ASSUME NEW d PROVE find_hub_device(d)' = find_hub_device(d)
  BY <1>1 DEF SameTree, find_hub_device, HubIdx
<1>3. ASSUME NEW d PROVE Listed(d)' <=> Listed(d)
  BY DEF SameTree, Listed
<1>4. QED BY <1>1, <1>2, <1>3

\* So the tree keeps its shape, and each device its distance.
LEMMA SameTreeTree ==
    ASSUME TypeOK, Tree, SameTree
    PROVE  Tree' /\ \A u \in udevs : Depth(u)' = Depth(u)
<1>1. HubIdx' = HubIdx /\ udevs' = udevs
  BY SameTreeAnswers DEF SameTree
<1>2. \A i \in HubIdx : /\ hubs'[i].iface = hubs[i].iface /\ hubs'[i].pos = hubs[i].pos
                        /\ hubs'[i].hc = hubs[i].hc /\ hubs'[i].hub = hubs[i].hub
  BY DEF SameTree, HubIdx
<1>3. \A u \in udevs : u.parent = 0 \/ u.parent \in HubIdx
  BY DEF Tree, DevicesHang
<1>4. DevicesHang'
  BY <1>1, <1>2, <1>3 DEF Tree, DevicesHang
<1>5. OnePerPort'
  BY <1>1 DEF Tree, OnePerPort
<1>6. HubsOwned'
  BY <1>1, <1>2 DEF Tree, HubsOwned
<1>7. \A u \in udevs : PosId(u)' = PosId(u) /\ Depth(u)' = Depth(u)
  BY <1>1, <1>2, <1>3 DEF PosId, Depth
<1>8. HubsPlaced'
  BY <1>1, <1>2, <1>7 DEF Tree, HubsPlaced
<1>9. QED BY <1>4, <1>5, <1>6, <1>7, <1>8 DEF Tree

\* So has a call that is under way, if it is left alone.
LEMMA SameTreeFrames ==
    ASSUME Inv, SameTree, stack' = stack, stack # <<>> => UNCHANGED <<pc, idx>>
    PROVE  Frames'
<1>1. CASE stack = <<>>
  <2>1. Len(stack') = 0
    BY <1>1
  <2>2. QED BY <2>1 DEF Frames, FramesOf
<1>2. CASE stack # <<>>
  <2>1. UNCHANGED <<pc, idx, udevs, stack>>
    BY <1>2 DEF SameTree
  <2>2. /\ HubIdx' = HubIdx
        /\ \A d : find_hub_device(d)' = find_hub_device(d)
        /\ \A d : Listed(d)' <=> Listed(d)
    BY SameTreeAnswers DEF Inv
  <2>3. \A u \in udevs : Depth(u)' = Depth(u)
    BY SameTreeTree DEF Inv
  <2>4. \A i \in HubIdx : hubs'[i].pos = hubs[i].pos
    BY DEF SameTree, HubIdx
  <2>5. pc \in {"preset", "pother"} => idx \in HubIdx
    BY DEF Inv, HandledIsLive, Handling
  <2>6. \A k \in 1..Len(stack) : find_hub_device(stack[k].dev) \subseteq HubIdx
    BY DEF find_hub_device
  <2>7. \A k \in 1..Len(stack) : Listed(stack[k].dev)'
    BY <2>2 DEF Inv, Frames, FramesOf
  <2>8. \A j, k \in 1..Len(stack) : \A u, v \in udevs :
          j < k /\ u.dev = stack[j].dev /\ v.dev = stack[k].dev
              => Depth(v)' < Depth(u)'
    BY <2>3 DEF Inv, Frames, FramesOf
  <2>9. \A k \in 1..Len(stack) : \A i \in find_hub_device(stack[k].dev)' :
          \A u \in udevs : u.parent = i =>
              u.port >= stack[k].port \/ (k > 1 /\ u.dev = stack[k - 1].dev)
    BY <2>2 DEF Inv, Frames, FramesOf
  <2>10. pc \in {"preset", "pother"} =>
          \A k \in 1..Len(stack) : \A i \in find_hub_device(stack[k].dev)' :
              Len(hubs'[idx].pos) < Len(hubs'[i].pos)
    BY <2>2, <2>4, <2>5, <2>6 DEF Inv, Frames, FramesOf
  <2>11. QED BY <2>1, <2>7, <2>8, <2>9, <2>10 DEF Frames, FramesOf
<1>3. QED BY <1>1, <1>2

\* Such a step preserves the invariant if it makes no call, and moves nowhere
\* while one is under way.
LEMMA SameTreeInv ==
    ASSUME Inv, SameTree, stack' = stack, stack # <<>> => UNCHANGED <<pc, idx>>,
           TypeOK', HandledIsLive', NewInv', LoopInv'
    PROVE  Inv'
BY SameTreeTree, SameTreeFrames DEF Inv

\* A step of another actor.
LEMMA OthersInv ==
    ASSUME Inv, SameTree, UNCHANGED <<pc, loop, udev, stack>>, TypeOK'
    PROVE  Inv'
<1>1. /\ HubIdx' = HubIdx /\ udevs' = udevs
      /\ find_hub_device(udev)' = find_hub_device(udev)
  <2>1. \A d : find_hub_device(d)' = find_hub_device(d)
    BY SameTreeAnswers DEF Inv
  <2>2. udev' = udev
    OBVIOUS
  <2>3. QED BY <2>1, <2>2, SameTreeAnswers DEF Inv, SameTree, find_hub_device
<1>2. HandledIsLive'
  BY <1>1 DEF Inv, HandledIsLive, loop
<1>3. NewInv'
  BY <1>1 DEF Inv, NewInv, loop
<1>4. LoopInv'
  BY <1>1 DEF Inv, LoopInv, ehci_find_device_by_port, loop
<1>5. QED BY <1>2, <1>3, <1>4, SameTreeInv DEF loop

(***************************************************************************)
(* The world and the interrupt handler.                                    *)
(***************************************************************************)

\* The world plugs a device in: the driver's tables do not change.
LEMMA PlugInv ==
    ASSUME Inv, NEW q \in Places, NEW t \in Things, Plug(q, t)
    PROVE  Inv'
<1>1. SameTree /\ UNCHANGED <<pc, loop, udev, stack>>
  BY DEF Plug, SameTree
<1>2. left' \in [plug: Nat, unplug: Nat, fail: Nat, event: Nat]
  <2>1. PICK n \in Nat : n = left.plug - 1
    BY DEF Plug, Inv, TypeOK
  <2>2. left' = [left EXCEPT !.plug = n]
    BY <2>1 DEF Plug
  <2>3. QED BY <2>2 DEF Inv, TypeOK
<1>3. plug' \in [Places -> Things \cup {NULL}] /\ chg' \in [Places -> SUBSET {"conn", "reset"}]
  BY DEF Plug, Changed, Inv, TypeOK
<1>4. TypeOK'
  BY <1>2, <1>3 DEF Plug, Inv, TypeOK, loop
<1>5. QED BY <1>1, <1>4, OthersInv

\* The world pulls a device out: the driver's tables do not change, though
\* what hung from it has lost its address.
LEMMA UnplugInv ==
    ASSUME Inv, NEW q \in Places, Unplug(q)
    PROVE  Inv'
<1>1. SameTree /\ UNCHANGED <<pc, loop, udev, stack>>
  BY DEF Unplug, SameTree
<1>2. left' \in [plug: Nat, unplug: Nat, fail: Nat, event: Nat]
  <2>1. PICK n \in Nat : n = left.unplug - 1
    BY DEF Unplug, Inv, TypeOK
  <2>2. left' = [left EXCEPT !.unplug = n]
    BY <2>1 DEF Unplug
  <2>3. QED BY <2>2 DEF Inv, TypeOK
<1>3. PICK gone :
        /\ plug' = [plug EXCEPT ![q] = NULL]
        /\ powered' = {r \in powered : r[1] \notin gone}
        /\ chg' = [r \in Places |-> IF r[1] \in gone THEN {} ELSE Changed(q)[r]]
        /\ hchg' = hchg \ gone
        /\ addr' = [t \in Things |-> IF t \in gone THEN NULL ELSE addr[t]]
  BY Zenon DEF Unplug
<1>4. Changed(q) \in [Places -> SUBSET {"conn", "reset"}]
  BY DEF Changed, Inv, TypeOK
<1>5. chg' \in [Places -> SUBSET {"conn", "reset"}]
  BY <1>3, <1>4
<1>6. /\ plug' \in [Places -> Things \cup {NULL}] /\ powered' \subseteq Places
      /\ hchg' \subseteq Hubs /\ addr' \in [Things -> Dev \cup {NULL}]
  BY <1>3 DEF Inv, TypeOK
<1>7. TypeOK'
  BY <1>2, <1>5, <1>6 DEF Unplug, Inv, TypeOK, loop
<1>8. QED BY <1>1, <1>7, OthersInv

\* A hub's own status changes.
LEMMA HubEventInv ==
    ASSUME Inv, NEW h \in Hubs, HubEvent(h)
    PROVE  Inv'
<1>1. SameTree /\ UNCHANGED <<pc, loop, udev, stack>>
  BY DEF HubEvent, SameTree
<1>2. left' \in [plug: Nat, unplug: Nat, fail: Nat, event: Nat]
  <2>1. PICK n \in Nat : n = left.event - 1
    BY DEF HubEvent, Inv, TypeOK
  <2>2. left' = [left EXCEPT !.event = n]
    BY <2>1 DEF HubEvent
  <2>3. QED BY <2>2 DEF Inv, TypeOK
<1>3. TypeOK'
  BY <1>2 DEF HubEvent, Inv, TypeOK, loop
<1>4. QED BY <1>1, <1>3, OthersInv

\* sc_bitmap and the pending request of one hub change: the table keeps its
\* type and the tree its shape.
LEMMA HubChangeTypes ==
    ASSUME TypeOK, NEW i \in HubIdx, NEW s \in SUBSET (0..NPorts), NEW b \in BOOLEAN,
           hubs' = [hubs EXCEPT ![i].sc = s, ![i].waits = b], udevs' = udevs
    PROVE  hubs' \in [1..MaxHub -> HubRec \cup {NULL}] /\ SameTree
<1>1. i \in 1..MaxHub /\ hubs[i] \in HubRec
  BY RecordTypes
<1>2. [[hubs[i] EXCEPT !.sc = s] EXCEPT !.waits = b] \in HubRec
  BY <1>1 DEF HubRec
<1>3. PICK h \in HubRec : h = [[hubs[i] EXCEPT !.sc = s] EXCEPT !.waits = b]
  BY <1>2
<1>4. /\ h.iface = hubs[i].iface /\ h.pos = hubs[i].pos
      /\ h.hc = hubs[i].hc /\ h.hub = hubs[i].hub
  BY <1>1, <1>3 DEF HubRec
<1>5. hubs' = [hubs EXCEPT ![i] = h]
  BY <1>1, <1>3 DEF TypeOK
<1>6. hubs' \in [1..MaxHub -> HubRec \cup {NULL}]
  BY <1>5 DEF TypeOK
<1>7. NULL \notin HubRec
  BY HubAssumption
<1>8. \A j \in 1..MaxHub : hubs'[j] = IF j = i THEN h ELSE hubs[j]
  BY <1>5 DEF TypeOK
<1>9. SameTree
  BY <1>1, <1>4, <1>7, <1>8 DEF SameTree
<1>10. QED BY <1>6, <1>9

\* A hub reports ports it has, or itself.
LEMMA PendingType ==
    ASSUME NEW h
    PROVE  Pending(h) \subseteq 0..NPorts
BY HubAssumption DEF Pending, Ports

\* hub_status_irq with a report, at any moment of the main loop.
LEMMA HubStatusIrqInv ==
    ASSUME Inv, NEW i \in 1..MaxHub, hub_status_irq(i)
    PROVE  Inv'
<1>1. i \in HubIdx
  BY DEF hub_status_irq
<1>2. hubs[i] \in HubRec /\ hubs[i].sc \in SUBSET (0..NPorts)
  BY <1>1, RecordTypes DEF Inv, HubRec
<1>3. PICK s \in SUBSET (0..NPorts) : s = hubs[i].sc \cup Pending(hubs[i].hub)
  BY <1>2, PendingType
<1>4. hubs' = [hubs EXCEPT ![i].sc = s, ![i].waits = FALSE]
  BY <1>3 DEF hub_status_irq
<1>5. hubs' \in [1..MaxHub -> HubRec \cup {NULL}] /\ SameTree
  <2>1. udevs' = udevs
    BY DEF hub_status_irq
  <2>2. QED BY <1>1, <1>4, <2>1, HubChangeTypes DEF Inv
<1>6. UNCHANGED <<world, left, udevs, pc, loop, udev, stack>>
  BY DEF hub_status_irq
<1>7. TypeOK'
  BY <1>5, <1>6 DEF Inv, TypeOK, world, loop
<1>8. QED BY <1>5, <1>6, <1>7, OthersInv

\* hub_status_irq after a failed transfer.
LEMMA StatusFailsInv ==
    ASSUME Inv, NEW i \in 1..MaxHub, StatusFails(i)
    PROVE  Inv'
<1>1. i \in HubIdx
  BY DEF StatusFails
<1>2. hubs[i] \in HubRec /\ hubs[i].sc \in SUBSET (0..NPorts)
  BY <1>1, RecordTypes DEF Inv, HubRec
<1>3. hubs' = [hubs EXCEPT ![i].sc = hubs[i].sc, ![i].waits = FALSE]
  BY <1>2 DEF StatusFails, Inv, TypeOK, HubRec
<1>4. hubs' \in [1..MaxHub -> HubRec \cup {NULL}] /\ SameTree
  <2>1. udevs' = udevs
    BY DEF StatusFails
  <2>2. QED BY <1>1, <1>2, <1>3, <2>1, HubChangeTypes DEF Inv
<1>5. UNCHANGED <<world, udevs, pc, loop, udev, stack>>
  BY DEF StatusFails
<1>6. left' \in [plug: Nat, unplug: Nat, fail: Nat, event: Nat]
  BY FailLeft DEF Inv, StatusFails
<1>7. TypeOK'
  BY <1>4, <1>5, <1>6 DEF Inv, TypeOK, world, loop
<1>8. QED BY <1>4, <1>5, <1>7, OthersInv

(***************************************************************************)
(* disconnect_device.                                                      *)
(***************************************************************************)

\* The loop of hub_disconnect goes on with the next port.
LEMMA HubDisconnectInv ==
    ASSUME Inv, UniqueIds, stack # <<>>,
           NEW i \in find_hub_device(Head(stack).dev), hub_disconnect(i)
    PROVE  Inv'
<1> DEFINE n == Len(stack)
<1>1. /\ n \in Nat \ {0} /\ Head(stack) = stack[1] /\ stack[1] \in FrameRec
      /\ Tail(stack) \in Seq(FrameRec) /\ Len(Tail(stack)) = n - 1
      /\ \A k \in 1..n - 1 : Tail(stack)[k] = stack[k + 1]
  BY PopSeq DEF Inv, TypeOK
<1>2. PICK p \in Ports : p = stack[1].port
  BY <1>1, HubAssumption DEF hub_disconnect, FrameRec, Ports
<1>3. i \in HubIdx /\ hubs[i].iface = stack[1].dev
  BY <1>1 DEF find_hub_device
<1>4. usbh_find_device(hubs[i].pos, p) = {u \in udevs : u.parent = i /\ u.port = p}
  BY <1>3, FindDevice DEF Inv
<1>5. PICK pn \in 1..NPorts + 1 : pn = p + 1
  BY HubAssumption DEF Ports
<1>6. PICK f \in FrameRec : /\ f = [stack[1] EXCEPT !.port = pn]
                            /\ f.dev = stack[1].dev /\ f.port = pn
  <2>1. [stack[1] EXCEPT !.port = pn] \in FrameRec
    BY <1>1 DEF FrameRec
  <2>2. /\ [stack[1] EXCEPT !.port = pn].dev = stack[1].dev
        /\ [stack[1] EXCEPT !.port = pn].port = pn
    BY <1>1 DEF FrameRec
  <2>3. QED BY <2>1, <2>2
<1>7. PICK on \in Seq(FrameRec) :
        /\ on # <<>> /\ Len(on) = n /\ on[1] = f
        /\ \A k \in 2..n : on[k] = stack[k]
        /\ \/ usbh_find_device(hubs[i].pos, p) = {} /\ stack' = on
           \/ \E u \in usbh_find_device(hubs[i].pos, p) :
                 stack' = <<[dev |-> u.dev, port |-> 1]>> \o on
  <2>1. /\ <<f>> \o Tail(stack) \in Seq(FrameRec) /\ <<f>> \o Tail(stack) # <<>>
        /\ Len(<<f>> \o Tail(stack)) = Len(Tail(stack)) + 1
        /\ (<<f>> \o Tail(stack))[1] = f
        /\ \A k \in 1..Len(Tail(stack)) : (<<f>> \o Tail(stack))[k + 1] = Tail(stack)[k]
    BY <1>1, PushSeq
  <2>2. \A k \in 2..n : (<<f>> \o Tail(stack))[k] = stack[k]
    <3>1. SUFFICES ASSUME NEW k \in 2..n PROVE (<<f>> \o Tail(stack))[k] = stack[k]
      OBVIOUS
    <3>2. PICK j \in 1..n - 1 : k = j + 1
      BY <1>1
    <3>3. QED BY <1>1, <2>1, <3>2
  <2>3. [Head(stack) EXCEPT !.port = @ + 1] = f
    BY <1>1, <1>2, <1>5, <1>6
  <2>4. Len(<<f>> \o Tail(stack)) = n
    BY <1>1, <2>1
  <2>5. \/ usbh_find_device(hubs[i].pos, p) = {} /\ stack' = <<f>> \o Tail(stack)
        \/ \E u \in usbh_find_device(hubs[i].pos, p) :
              stack' = <<[dev |-> u.dev, port |-> 1]>> \o (<<f>> \o Tail(stack))
    <3>1. Head(stack).port = p
      BY <1>1, <1>2
    <3>2. QED BY <2>3, <3>1, Zenon DEF hub_disconnect, Returns
  <2>6. QED BY <2>1, <2>2, <2>4, <2>5
<1>8. \A k \in 1..n : on[k].dev = stack[k].dev /\ on[k].port >= stack[k].port
  <2>1. \A k \in 1..n : stack[k].port \in Nat /\ (k = 1 \/ k \in 2..n)
    BY <1>1, RecordTypes, HubAssumption DEF Inv
  <2>2. on[1].dev = stack[1].dev /\ on[1].port >= stack[1].port
    BY <1>2, <1>5, <1>6, <1>7, HubAssumption DEF Ports
  <2>3. QED BY <1>7, <2>1, <2>2
<1>9. UNCHANGED <<world, left, udevs, hubs, pc, loop, udev>>
  BY DEF hub_disconnect
<1>10. SameTree
  BY <1>9 DEF SameTree
<1>11. /\ HubIdx' = HubIdx
       /\ \A d : find_hub_device(d)' = find_hub_device(d)
       /\ \A d : Listed(d)' <=> Listed(d)
  BY <1>10, SameTreeAnswers DEF Inv
<1>12. Tree' /\ \A u \in udevs : Depth(u)' = Depth(u)
  BY <1>10, SameTreeTree DEF Inv
<1>13. \A j \in find_hub_device(stack[1].dev) : j = i
  BY <1>3 DEF Inv, Tree, HubsOwned, find_hub_device
<1>14. pc \in {"rhDrop", "preset", "pother"}
  BY DEF Inv, LoopInv
<1>15. HandledIsLive' /\ NewInv'
  BY <1>9, <1>11, <1>14 DEF Inv, HandledIsLive, NewInv, loop
<1>16. ASSUME NEW s, FramesOf(s), stack' = s PROVE Frames'
  BY <1>9, <1>16, <1>11 DEF Frames, FramesOf, Listed, find_hub_device, Depth, loop
<1>17. CASE usbh_find_device(hubs[i].pos, p) = {} /\ stack' = on
  <2>1. stack' \in Seq(FrameRec) /\ stack' # <<>> /\ Len(stack') = n
    BY <1>7, <1>17
  <2>2. TypeOK'
    BY <1>9, <2>1 DEF Inv, TypeOK, world, loop
  <2>3. LoopInv'
    BY <1>1, <1>8, <1>9, <1>14, <1>17, <2>1 DEF Inv, LoopInv, loop
  <2>4. \A k \in 1..n : Listed(on[k].dev)
    BY <1>8, <1>17 DEF Inv, Frames, FramesOf
  <2>5. \A j, k \in 1..n : \A u, v \in udevs :
          j < k /\ u.dev = on[j].dev /\ v.dev = on[k].dev
              => Depth(v) < Depth(u)
    BY <1>8, <1>12, <1>17 DEF Inv, Frames, FramesOf
  <2>6. ASSUME NEW k \in 1..n, NEW j \in find_hub_device(on[k].dev),
               NEW u \in udevs, u.parent = j
        PROVE  u.port >= on[k].port \/ (k > 1 /\ u.dev = on[k - 1].dev)
    <3>1. j \in find_hub_device(stack[k].dev)
      BY <1>8, <1>17
    <3>2. u.port >= stack[k].port \/ (k > 1 /\ u.dev = stack[k - 1].dev)
      BY <2>6, <3>1 DEF Inv, Frames, FramesOf
    <3>3. CASE k = 1
      <4>1. j = i /\ u.port # p /\ u.port >= p
        BY <1>2, <1>4, <1>13, <1>17, <2>6, <3>1, <3>2, <3>3
      <4>2. u.port \in Nat /\ p \in Nat
        BY RecordTypes, HubAssumption DEF Inv, Ports
      <4>3. on[k].port = p + 1
        BY <1>5, <1>6, <1>7, <3>3
      <4>4. QED BY <4>1, <4>2, <4>3
    <3>4. CASE k > 1
      <4>1. k \in 2..n /\ k - 1 \in 1..n
        BY <1>1, <3>4
      <4>2. on[k] = stack[k] /\ on[k - 1].dev = stack[k - 1].dev
        BY <1>7, <1>8, <4>1
      <4>3. QED BY <3>2, <3>4, <4>2
    <3>5. QED BY <1>1, <3>3, <3>4
  <2>7. pc \in {"preset", "pother"} =>
          \A k \in 1..n : \A j \in find_hub_device(on[k].dev) :
              Len(hubs[idx].pos) < Len(hubs[j].pos)
    BY <1>8, <1>17 DEF Inv, Frames, FramesOf
  <2>8. FramesOf(on)
    BY <1>7, <2>4, <2>5, <2>6, <2>7 DEF FramesOf
  <2>9. QED BY <1>12, <1>15, <1>17, <1>16, <2>2, <2>3, <2>8 DEF Inv
<1>18. CASE \E u \in usbh_find_device(hubs[i].pos, p) :
               stack' = <<[dev |-> u.dev, port |-> 1]>> \o on
  <2>1. PICK w \in udevs : /\ w.parent = i /\ w.port = p
                           /\ stack' = <<[dev |-> w.dev, port |-> 1]>> \o on
    BY <1>4, <1>18
  <2>2. PICK g \in FrameRec : /\ g = [dev |-> w.dev, port |-> 1]
                              /\ g.dev = w.dev /\ g.port = 1
    <3>1. w.dev \in Dev /\ 1 \in 1..NPorts + 1
      BY RecordTypes, HubAssumption DEF Inv
    <3>2. [dev |-> w.dev, port |-> 1] \in FrameRec
      BY <3>1 DEF FrameRec
    <3>3. QED BY <3>2
  <2>3. PICK s \in Seq(FrameRec) :
           /\ stack' = s /\ s # <<>> /\ Len(s) = n + 1
           /\ s[1] = g /\ \A k \in 1..n : s[k + 1] = on[k]
    <3>1. /\ <<g>> \o on \in Seq(FrameRec) /\ <<g>> \o on # <<>>
          /\ Len(<<g>> \o on) = Len(on) + 1 /\ (<<g>> \o on)[1] = g
          /\ \A k \in 1..Len(on) : (<<g>> \o on)[k + 1] = on[k]
      BY PushSeq
    <3>2. stack' = <<g>> \o on
      BY <2>1, <2>2
    <3>3. Len(on) = n
      BY <1>7
    <3>4. QED BY <3>1, <3>2, <3>3
  <2>4. \A k \in 1..n : s[k + 1].dev = stack[k].dev
    BY <1>8, <2>3
  <2>5. TypeOK'
    BY <1>9, <2>1, <2>3 DEF Inv, TypeOK, world, loop
  <2>6. s[Len(s)].dev = stack[n].dev
    BY <1>1, <2>3, <2>4
  <2>7. LoopInv'
    BY <1>9, <1>14, <2>1, <2>3, <2>6 DEF Inv, LoopInv, ehci_find_device_by_port, loop
  <2>8. ASSUME NEW k \in 1..n + 1 PROVE k = 1 \/ \E j \in 1..n : k = j + 1
    <3>1. k # 1 => k - 1 \in 1..n /\ k = (k - 1) + 1
      BY <1>1
    <3>2. QED BY <3>1
  <2>9. Listed(w.dev)
    BY DEF Listed
  <2>10. \A k \in 1..n + 1 : Listed(s[k].dev)
    BY <2>2, <2>3, <2>4, <2>8, <2>9 DEF Inv, Frames, FramesOf
  <2>11. /\ \A u \in udevs : Depth(u) \in Nat
         /\ \A v \in udevs : v.dev = stack[1].dev => Depth(v) < Depth(w)
    <3>1. w.parent # 0 /\ Depth(w) = Len(hubs[i].pos)
      BY <1>3, <2>1, RecordTypes DEF Depth, Inv
    <3>2. \A u \in udevs : Depth(u) \in Nat /\ Len(PosId(u)) = Depth(u) + 1
      BY PosIdLength DEF Inv, Tree
    <3>3. \A v \in udevs : v.dev = stack[1].dev => hubs[i].pos = PosId(v)
      BY <1>3 DEF Inv, Tree, HubsPlaced
    <3>4. QED BY <3>1, <3>2, <3>3
  <2>12. \A k \in 1..n : \A v \in udevs : v.dev = stack[k].dev => Depth(v) < Depth(w)
    <3>1. PICK x \in udevs : x.dev = stack[1].dev
      BY <1>1 DEF Inv, Frames, FramesOf, Listed
    <3>2. \A k \in 1..n : \A v \in udevs : v.dev = stack[k].dev /\ 1 < k => Depth(v) < Depth(x)
      BY <1>1, <3>1 DEF Inv, Frames, FramesOf
    <3>3. \A k \in 1..n : k = 1 \/ 1 < k
      BY <1>1
    <3>4. QED BY <2>11, <3>1, <3>2, <3>3
  <2>13. ASSUME NEW j \in 1..n + 1, NEW k \in 1..n + 1, NEW u \in udevs, NEW v \in udevs,
                j < k, u.dev = s[j].dev, v.dev = s[k].dev
         PROVE  Depth(v) < Depth(u)
    <3>1. PICK kk \in 1..n : k = kk + 1
      BY <1>1, <2>8, <2>13
    <3>2. v.dev = stack[kk].dev
      BY <2>4, <2>13, <3>1
    <3>3. CASE j = 1
      <4>1. u = w
        BY <2>2, <2>3, <2>13, <3>3 DEF Inv, Tree, DevicesHang
      <4>2. QED BY <2>12, <3>2, <4>1
    <3>4. CASE \E jj \in 1..n : j = jj + 1
      <4>1. PICK jj \in 1..n : j = jj + 1
        BY <3>4
      <4>2. u.dev = stack[jj].dev /\ jj < kk
        BY <1>1, <2>4, <2>13, <3>1, <4>1
      <4>3. QED BY <3>2, <4>2 DEF Inv, Frames, FramesOf
    <3>5. QED BY <2>8, <3>3, <3>4
  <2>14. ASSUME NEW k \in 1..n + 1, NEW j \in find_hub_device(s[k].dev),
                NEW u \in udevs, u.parent = j
         PROVE  u.port >= s[k].port \/ (k > 1 /\ u.dev = s[k - 1].dev)
    <3>1. u.port \in Ports /\ p \in Nat /\ u.port \in Nat /\ u.port >= 1
      <4>1. j # 0
        BY RecordTypes DEF find_hub_device, Inv
      <4>2. u.port \in Ports
        BY <2>14, <4>1 DEF Inv, Tree, DevicesHang
      <4>3. QED BY <4>2, HubAssumption DEF Ports
    <3>2. CASE k = 1
      BY <2>2, <2>3, <3>1, <3>2
    <3>3. CASE \E m \in 1..n : k = m + 1
      <4>1. PICK m \in 1..n : k = m + 1
        BY <3>3
      <4>2. j \in find_hub_device(stack[m].dev)
        BY <2>4, <4>1
      <4>3. u.port >= stack[m].port \/ (m > 1 /\ u.dev = stack[m - 1].dev)
        BY <2>14, <4>2 DEF Inv, Frames, FramesOf
      <4>4. CASE m = 1
        <5>1. j = i /\ u.port >= p
          BY <1>2, <1>13, <4>2, <4>3, <4>4
        <5>2. s[k].port = p + 1 /\ k > 1 /\ s[k - 1].dev = w.dev
          <6>1. k = 2 /\ s[1] = g /\ g.dev = w.dev /\ s[k] = on[1]
            BY <1>1, <2>2, <2>3, <4>1, <4>4
          <6>2. QED BY <1>5, <1>6, <1>7, <6>1
        <5>3. u.port = p => u = w
          <6>1. i # 0
            BY <1>3, HubAssumption DEF HubIdx
          <6>2. u.parent = i /\ w.parent = i
            BY <2>1, <2>14, <5>1
          <6>3. u.hc = hubs[i].hc /\ w.hc = hubs[i].hc
            BY <6>1, <6>2 DEF Inv, Tree, DevicesHang
          <6>4. QED BY <2>1, <6>2, <6>3 DEF Inv, Tree, OnePerPort
        <5>4. QED BY <3>1, <5>1, <5>2, <5>3
      <4>5. CASE m > 1
        <5>1. s[k] = stack[m]
          BY <1>1, <1>7, <2>3, <4>1, <4>5
        <5>2. k - 1 = (m - 1) + 1 /\ m - 1 \in 1..n /\ k > 1
          BY <1>1, <4>1, <4>5
        <5>3. s[k - 1].dev = stack[m - 1].dev
          BY <2>4, <5>2
        <5>4. QED BY <4>3, <5>1, <5>2, <5>3
      <4>6. QED BY <1>1, <4>4, <4>5
    <3>4. QED BY <2>8, <3>2, <3>3
  <2>15. ASSUME pc \in {"preset", "pother"},
                NEW k \in 1..n + 1, NEW j \in find_hub_device(s[k].dev)
         PROVE  Len(hubs[idx].pos) < Len(hubs[j].pos)
    <3>1. idx \in HubIdx
      BY <2>15 DEF Inv, HandledIsLive, Handling
    <3>2. \A m \in HubIdx : Len(hubs[m].pos) \in Nat
      BY RecordTypes DEF Inv
    <3>3. Len(hubs[idx].pos) < Len(hubs[i].pos)
      BY <1>1, <2>15 DEF Inv, Frames, FramesOf
    <3>4. CASE k = 1
      <4>1. j \in HubIdx /\ hubs[j].iface = w.dev
        BY <2>2, <2>3, <3>4 DEF find_hub_device
      <4>2. hubs[j].pos = PosId(w)
        BY <4>1 DEF Inv, Tree, HubsPlaced
      <4>3. Len(PosId(w)) = Depth(w) + 1 /\ Depth(w) = Len(hubs[i].pos)
        <5>1. w.parent # 0
          BY <1>3, <2>1, RecordTypes DEF Inv
        <5>2. QED BY <2>1, <5>1, PosIdLength DEF Depth, Inv, Tree
      <4>4. Len(hubs[j].pos) = Len(hubs[i].pos) + 1
        BY <4>2, <4>3
      <4>5. QED BY <1>3, <3>1, <3>2, <3>3, <4>4
    <3>5. CASE \E m \in 1..n : k = m + 1
      <4>1. PICK m \in 1..n : k = m + 1
        BY <3>5
      <4>2. QED BY <2>4, <2>15, <4>1 DEF Inv, Frames, FramesOf
    <3>6. QED BY <2>8, <3>4, <3>5
  <2>16. FramesOf(s)
    BY <2>3, <2>10, <2>13, <2>14, <2>15 DEF FramesOf
  <2>17. QED BY <1>12, <1>15, <1>16, <2>3, <2>5, <2>7, <2>16 DEF Inv
<1>19. QED BY <1>7, <1>17, <1>18

\* The device of the call is freed, with its hub structure if it has one.
LEMMA DisconnectedInv ==
    ASSUME Inv, stack # <<>>, NEW d, d = Head(stack).dev, Disconnected(d)
    PROVE  Inv'
<1> DEFINE n == Len(stack)
<1> DEFINE gone == find_hub_device(d)
<1>1. /\ n \in Nat \ {0} /\ Head(stack) = stack[1] /\ stack[1] \in FrameRec
      /\ Tail(stack) \in Seq(FrameRec) /\ Len(Tail(stack)) = n - 1
      /\ \A k \in 1..n - 1 : Tail(stack)[k] = stack[k + 1]
  BY PopSeq DEF Inv, TypeOK
<1>2. /\ gone = {} \/ stack[1].port > NPorts
      /\ hubs' = [i \in 1..MaxHub |-> IF i \in gone THEN NULL ELSE hubs[i]]
      /\ udevs' = {u \in udevs : u.dev # d}
      /\ addr' = NoAddr(d)
      /\ stack' = Tail(stack)
      /\ UNCHANGED <<plug, powered, chg, hchg, left, pc, loop, udev>>
  BY <1>1 DEF Disconnected, Unchain, Returns
<1>3. d = stack[1].dev /\ \E w \in udevs : w.dev = d
  BY <1>1 DEF Inv, Frames, FramesOf, Listed
<1>4. gone \subseteq HubIdx /\ HubIdx \subseteq 1..MaxHub /\ 0 \notin HubIdx
  BY DEF find_hub_device, HubIdx
<1>5. \A i \in gone : \A u \in udevs : u.parent # i
  <2>1. SUFFICES ASSUME NEW i \in gone, NEW u \in udevs, u.parent = i PROVE FALSE
    OBVIOUS
  <2>2. u.port >= stack[1].port
    BY <1>1, <1>3, <2>1 DEF Inv, Frames, FramesOf
  <2>3. u.port \in Ports
    BY <1>4, <2>1 DEF Inv, Tree, DevicesHang
  <2>4. stack[1].port > NPorts /\ stack[1].port \in Nat
    BY <1>1, <1>2, <2>1 DEF FrameRec
  <2>5. QED BY <2>2, <2>3, <2>4, HubAssumption DEF Ports
<1>6. HubIdx' = HubIdx \ gone /\ \A i \in HubIdx' : hubs'[i] = hubs[i]
  BY <1>2 DEF HubIdx
<1>7. \A u \in udevs' : u \in udevs /\ u.dev # d
                        /\ (u.parent = 0 \/ (u.parent \in HubIdx /\ u.parent \in HubIdx'))
  BY <1>2, <1>5, <1>6 DEF Inv, Tree, DevicesHang
<1>8. \A u \in udevs' : PosId(u)' = PosId(u) /\ Depth(u)' = Depth(u)
  BY <1>6, <1>7 DEF PosId, Depth
<1>9. TypeOK'
  <2>1. hubs' \in [1..MaxHub -> HubRec \cup {NULL}]
    BY <1>2 DEF Inv, TypeOK
  <2>2. addr' \in [Things -> Dev \cup {NULL}]
    BY <1>2 DEF NoAddr, Inv, TypeOK
  <2>3. QED BY <1>1, <1>2, <2>1, <2>2 DEF Inv, TypeOK, loop
<1>10. Tree'
  <2>1. DevicesHang'
    BY <1>6, <1>7 DEF Inv, Tree, DevicesHang
  <2>2. OnePerPort'
    BY <1>7 DEF Inv, Tree, OnePerPort
  <2>3. HubsOwned'
    <3>1. \A i \in HubIdx' : i \in HubIdx /\ hubs[i].iface # d
      BY <1>6 DEF find_hub_device
    <3>2. ASSUME NEW i \in HubIdx'
          PROVE  \E u \in udevs' : u.dev = hubs'[i].iface /\ u.thing = hubs'[i].hub
      <4>1. PICK u \in udevs : u.dev = hubs[i].iface /\ u.thing = hubs[i].hub
        BY <3>1 DEF Inv, Tree, HubsOwned
      <4>2. u \in udevs'
        BY <1>2, <3>1, <4>1
      <4>3. QED BY <1>6, <4>1, <4>2
    <3>3. \A i, j \in HubIdx' : hubs'[i].iface = hubs'[j].iface => i = j
      BY <1>6, <3>1 DEF Inv, Tree, HubsOwned
    <3>4. QED BY <3>2, <3>3 DEF HubsOwned
  <2>4. HubsPlaced'
    BY <1>6, <1>7, <1>8 DEF Inv, Tree, HubsPlaced
  <2>5. QED BY <2>1, <2>2, <2>3, <2>4 DEF Tree
<1>11. pc' = pc /\ idx' = idx /\ port' = port /\ pc \in {"rhDrop", "preset", "pother"}
  BY <1>2 DEF Inv, LoopInv, loop
<1>12. HandledIsLive'
  <2>1. SUFFICES ASSUME pc \in {"preset", "pother"} PROVE idx \in HubIdx /\ idx \notin gone
    BY <1>6, <1>11 DEF HandledIsLive, Handling
  <2>2. idx \in HubIdx
    BY <2>1 DEF Inv, HandledIsLive, Handling
  <2>3. \A i \in gone : Len(hubs[idx].pos) < Len(hubs[i].pos)
    BY <1>1, <1>3, <2>1 DEF Inv, Frames, FramesOf
  <2>4. Len(hubs[idx].pos) \in Nat
    BY <2>2, RecordTypes DEF Inv
  <2>5. QED BY <2>2, <2>3, <2>4
<1>13. NewInv'
  BY <1>11 DEF NewInv
<1>14. \A k \in 1..n - 1 : stack'[k] = stack[k + 1] /\ k + 1 \in 1..n /\ stack[k + 1].dev # d
  <2>1. SUFFICES ASSUME NEW k \in 1..n - 1, stack[k + 1].dev = d PROVE FALSE
    BY <1>1, <1>2
  <2>2. PICK w \in udevs : w.dev = d
    BY <1>3
  <2>3. Depth(w) < Depth(w)
    BY <1>1, <1>3, <2>1, <2>2 DEF Inv, Frames, FramesOf
  <2>4. Depth(w) \in Nat
    BY PosIdLength DEF Inv, Tree
  <2>5. QED BY <2>3, <2>4
<1>15. LoopInv'
  <2>1. ASSUME pc = "preset", NEW u \in udevs', u.parent = idx, u.port = port
        PROVE  stack' # <<>> /\ u.dev = stack'[Len(stack')].dev
    <3>1. u.dev = stack[n].dev /\ u.dev # d
      BY <1>7, <2>1 DEF Inv, LoopInv
    <3>2. n - 1 \in 1..n - 1 /\ n = (n - 1) + 1 /\ n > 1
      BY <1>1, <1>3, <3>1
    <3>3. Len(stack') = n - 1 /\ stack'[n - 1] = stack[n]
      BY <1>1, <1>2, <1>14, <3>2
    <3>4. QED BY <1>1, <3>1, <3>2, <3>3
  <2>2. QED BY <1>2, <1>11, <2>1 DEF Inv, LoopInv, loop
<1>16. Frames'
  <2>1. Len(stack') = n - 1 /\ n - 1 \in Nat
    BY <1>1, <1>2
  <2>2. \A k \in 1..n - 1 : \E u \in udevs' : u.dev = stack'[k].dev
    BY <1>2, <1>14 DEF Inv, Frames, FramesOf, Listed
  <2>3. ASSUME NEW j \in 1..n - 1, NEW k \in 1..n - 1, NEW u \in udevs', NEW v \in udevs',
               j < k, u.dev = stack'[j].dev, v.dev = stack'[k].dev
        PROVE  Depth(v)' < Depth(u)'
    <3>1. j + 1 < k + 1 /\ u.dev = stack[j + 1].dev /\ v.dev = stack[k + 1].dev
      BY <1>1, <1>14, <2>3
    <3>2. QED BY <1>7, <1>8, <1>14, <3>1 DEF Inv, Frames, FramesOf
  <2>4. ASSUME NEW k \in 1..n - 1, NEW i \in HubIdx', hubs'[i].iface = stack'[k].dev
        PROVE  i \in find_hub_device(stack[k + 1].dev)
    BY <1>6, <1>14, <2>4 DEF find_hub_device
  <2>5. ASSUME NEW k \in 1..n - 1, NEW i \in HubIdx', hubs'[i].iface = stack'[k].dev,
               NEW u \in udevs', u.parent = i
        PROVE  u.port >= stack'[k].port \/ (k > 1 /\ u.dev = stack'[k - 1].dev)
    <3>1. u.port >= stack[k + 1].port \/ (k + 1 > 1 /\ u.dev = stack[(k + 1) - 1].dev)
      BY <1>7, <1>14, <2>4, <2>5 DEF Inv, Frames, FramesOf
    <3>2. (k + 1) - 1 = k /\ (k = 1 \/ (k > 1 /\ k - 1 \in 1..n - 1 /\ (k - 1) + 1 = k))
      BY <1>1
    <3>3. k = 1 => u.dev # stack[k].dev
      BY <1>3, <1>7
    <3>4. k > 1 => stack'[k - 1] = stack[k]
      BY <1>1, <1>14, <3>2
    <3>5. QED BY <1>14, <3>1, <3>2, <3>3, <3>4
  <2>6. ASSUME pc \in {"preset", "pother"}, NEW k \in 1..n - 1,
               NEW i \in HubIdx', hubs'[i].iface = stack'[k].dev
        PROVE  Len(hubs'[idx].pos) < Len(hubs'[i].pos)
    <3>1. idx \in HubIdx'
      BY <1>11, <1>12, <2>6 DEF HandledIsLive, Handling
    <3>2. Len(hubs[idx].pos) < Len(hubs[i].pos)
      BY <1>14, <2>4, <2>6 DEF Inv, Frames, FramesOf
    <3>3. QED BY <1>6, <3>1, <3>2
  <2>7. QED BY <1>11, <2>1, <2>2, <2>3, <2>5, <2>6 DEF Frames, FramesOf, Listed, find_hub_device
<1>17. QED BY <1>9, <1>10, <1>12, <1>13, <1>15, <1>16 DEF Inv

\* Both halves of disconnect_device together.
LEMMA DisconnectDeviceInv ==
    ASSUME Inv, UniqueIds, disconnect_device
    PROVE  Inv'
BY HubDisconnectInv, DisconnectedInv DEF disconnect_device

(***************************************************************************)
(* ehci_rh_polling.                                                        *)
(***************************************************************************)

\* Where the polling goes next.
LEMMA NextCtrlEffect ==
    ASSUME Inv, stack = <<>>, NextCtrl
    PROVE  /\ pc' \in {"rh", "hub"} /\ ctrl' \in Ctrls /\ idx' \in 1..(MaxHub + 1)
           /\ ret' \in {"none", "ok", "err"} /\ change' \in BOOLEAN
           /\ UNCHANGED <<port, st>>
<1>1. CASE ctrl < NCtrl
  BY <1>1, HubAssumption DEF NextCtrl, Inv, TypeOK, Ctrls
<1>2. CASE ~ (ctrl < NCtrl)
  <2>1. /\ pc' = "hub" /\ ctrl' = 1 /\ idx' = 1 /\ change' = FALSE
        /\ ret' = "none" /\ UNCHANGED <<port, st>>
    BY <1>2 DEF NextCtrl
  <2>2. change' \in BOOLEAN
    BY <2>1
  <2>3. QED BY <2>1, <2>2, HubAssumption DEF Ctrls
<1>3. QED BY <1>1, <1>2

\* Where the main loop is neither at a hub nor at a device.
LEMMA IdleParts ==
    ASSUME stack' = <<>>, pc' \in {"rh", "rhDrop", "hub"}
    PROVE  HandledIsLive' /\ NewInv' /\ LoopInv'
BY DEF HandledIsLive, Handling, NewInv, LoopInv

\* ehci_rh_polling looks at a root port.
LEMMA RhPollInv ==
    ASSUME Inv, RhPoll
    PROVE  Inv'
<1>1. stack = <<>> /\ UNCHANGED <<world, left, udevs, hubs, udev, stack>>
  BY DEF RhPoll, At
<1>2. /\ pc' \in {"rh", "rhDrop", "hub"} /\ ctrl' \in Ctrls /\ idx' \in 1..(MaxHub + 1)
      /\ ret' \in {"none", "ok", "err"} /\ change' \in BOOLEAN
      /\ UNCHANGED <<port, st>>
  <2>1. CASE "conn" \in chg[Root(ctrl)]
    BY <2>1 DEF RhPoll, loop, Inv, TypeOK
  <2>2. CASE "conn" \notin chg[Root(ctrl)]
    BY <1>1, <2>2, NextCtrlEffect DEF RhPoll
  <2>3. QED BY <2>1, <2>2
<1>3. TypeOK'
  BY <1>1, <1>2 DEF Inv, TypeOK, Labels, world
<1>4. SameTree
  BY <1>1 DEF SameTree
<1>5. QED BY <1>1, <1>2, <1>3, <1>4, IdleParts, SameTreeInv

\* A first call of disconnect_device.
LEMMA FirstCall ==
    ASSUME TypeOK, Tree, stack = <<>>, NEW u \in udevs,
           idx \in HubIdx /\ pc' \in {"preset", "pother"} => u.parent = idx,
           pc' \in {"preset", "pother"} => idx \in HubIdx,
           stack' = Call(u.dev), UNCHANGED <<udevs, hubs, idx>>
    PROVE  /\ stack' \in Seq(FrameRec) /\ stack' # <<>> /\ Len(stack') = 1
           /\ stack'[1].dev = u.dev /\ Frames'
<1>1. PICK f \in FrameRec : f = [dev |-> u.dev, port |-> 1] /\ f.dev = u.dev /\ f.port = 1
  <2>1. u.dev \in Dev /\ 1 \in 1..NPorts + 1
    BY RecordTypes, HubAssumption
  <2>2. [dev |-> u.dev, port |-> 1] \in FrameRec
    BY <2>1 DEF FrameRec
  <2>3. QED BY <2>2
<1>2. stack' = <<f>>
  BY <1>1 DEF Call
<1>3. stack' \in Seq(FrameRec) /\ stack' # <<>> /\ Len(stack') = 1 /\ stack'[1] = f
  BY <1>2
<1>4. Listed(u.dev)
  BY DEF Listed
<1>5. \A i \in find_hub_device(u.dev) : \A v \in udevs : v.parent = i => v.port >= 1
  <2>1. SUFFICES ASSUME NEW i \in HubIdx, NEW v \in udevs, v.parent = i PROVE v.port >= 1
    BY DEF find_hub_device
  <2>2. v.port \in Ports
    BY <2>1, RecordTypes DEF Tree, DevicesHang
  <2>3. QED BY <2>2, HubAssumption DEF Ports
<1>6. ASSUME pc' \in {"preset", "pother"}, NEW i \in find_hub_device(u.dev)
      PROVE  Len(hubs[idx].pos) < Len(hubs[i].pos)
  <2>1. i \in HubIdx /\ hubs[i].iface = u.dev
    BY DEF find_hub_device
  <2>2. idx \in HubIdx /\ u.parent = idx
    BY <1>6
  <2>3. hubs[i].pos = PosId(u)
    BY <2>1 DEF Tree, HubsPlaced
  <2>4. Len(PosId(u)) = Depth(u) + 1
    BY PosIdLength DEF Tree
  <2>5. Depth(u) = Len(hubs[idx].pos) /\ Len(hubs[idx].pos) \in Nat
    BY <2>2, RecordTypes DEF Depth
  <2>6. QED BY <2>3, <2>4, <2>5
<1>7. \A k \in 1..1 : k = 1
  OBVIOUS
<1>8. Frames'
  BY <1>1, <1>3, <1>4, <1>5, <1>6, <1>7 DEF Frames, FramesOf, Listed, find_hub_device, HubIdx
<1>9. QED BY <1>1, <1>3, <1>8

\* ehci_rh_polling disconnects what it knows on the port, or finds nothing
\* left.
LEMMA RhDropInv ==
    ASSUME Inv, RhDrop
    PROVE  Inv'
<1>1. stack = <<>> /\ pc = "rhDrop" /\ UNCHANGED <<world, left, udevs, hubs, loop, udev>>
  BY DEF RhDrop, At
<1>2. SameTree
  BY <1>1 DEF SameTree
<1>3. CASE ehci_find_device_by_port(ctrl) = {} /\ pc' = "rhSettle" /\ UNCHANGED stack
  <2>1. TypeOK'
    BY <1>1, <1>3 DEF Inv, TypeOK, Labels, world, loop
  <2>2. HandledIsLive' /\ NewInv'
    BY <1>3 DEF HandledIsLive, Handling, NewInv
  <2>3. LoopInv'
    BY <1>1, <1>3 DEF LoopInv, ehci_find_device_by_port, loop
  <2>4. QED BY <1>1, <1>2, <1>3, <2>1, <2>2, <2>3, SameTreeInv
<1>4. CASE \E u \in ehci_find_device_by_port(ctrl) : stack' = Call(u.dev) /\ UNCHANGED pc
  <2>1. PICK u \in udevs : stack' = Call(u.dev) /\ pc' = pc
    BY <1>4 DEF ehci_find_device_by_port
  <2>2. stack' \in Seq(FrameRec) /\ Frames'
    BY <1>1, <2>1, FirstCall DEF Inv, loop
  <2>3. TypeOK'
    BY <1>1, <2>1, <2>2 DEF Inv, TypeOK, Labels, world, loop
  <2>4. HandledIsLive' /\ NewInv' /\ LoopInv'
    BY <1>1, <2>1 DEF HandledIsLive, Handling, NewInv, LoopInv
  <2>5. Tree'
    BY <1>2, SameTreeTree DEF Inv
  <2>6. QED BY <2>2, <2>3, <2>4, <2>5 DEF Inv
<1>5. QED BY <1>3, <1>4 DEF RhDrop

\* A device structure is put on the list for a place that has none.
LEMMA AllocDeviceTree ==
    ASSUME Inv, NEW parent, NEW p, NEW hc \in Ctrls, alloc_device(parent, p, hc),
           UNCHANGED hubs,
           IF parent = 0 THEN p = 1
           ELSE parent \in HubIdx /\ p \in Ports /\ hc = hubs[parent].hc,
           \A u \in udevs : u.parent = parent /\ u.hc = hc => u.port # p
    PROVE  /\ Tree' /\ udevs' \subseteq UdevRec /\ udev' \in Dev
           /\ find_hub_device(udev)' = {} /\ HubIdx' = HubIdx
           /\ \E u \in udevs' : u.dev = udev' /\ u.parent = parent
<1>1. PICK d \in FreeDev :
        /\ udevs' = udevs \cup {[dev |-> d, parent |-> parent, port |-> p,
                                 hc |-> hc, thing |-> NULL]}
        /\ udev' = d
  BY DEF alloc_device
<1>2. d \in Dev /\ \A u \in udevs : u.dev # d
  BY DEF FreeDev, Listed
<1>3. PICK r \in UdevRec : /\ udevs' = udevs \cup {r}
                           /\ r.dev = d /\ r.parent = parent /\ r.port = p /\ r.hc = hc
  <2>1. parent \in 0..MaxHub /\ p \in Nat
    BY HubAssumption DEF HubIdx, Ports
  <2>2. [dev |-> d, parent |-> parent, port |-> p, hc |-> hc, thing |-> NULL] \in UdevRec
    BY <1>2, <2>1 DEF UdevRec
  <2>3. QED BY <1>1, <2>2
<1>4. HubIdx' = HubIdx
  BY DEF HubIdx
<1>5. \A i \in HubIdx : hubs[i].iface # d
  BY <1>2 DEF Inv, Tree, HubsOwned
<1>6. DevicesHang'
  BY <1>2, <1>3, <1>4 DEF Inv, Tree, DevicesHang
<1>7. OnePerPort'
  BY <1>3 DEF Inv, Tree, OnePerPort
<1>8. HubsOwned'
  BY <1>3, <1>4 DEF Inv, Tree, HubsOwned
<1>9. HubsPlaced'
  BY <1>3, <1>4, <1>5 DEF Inv, Tree, HubsPlaced, PosId
<1>10. find_hub_device(udev)' = {}
  BY <1>1, <1>4, <1>5 DEF find_hub_device
<1>11. udevs' \subseteq UdevRec
  BY <1>3 DEF Inv, TypeOK
<1>12. QED BY <1>1, <1>2, <1>3, <1>4, <1>6, <1>7, <1>8, <1>9, <1>10, <1>11 DEF Tree

\* ehci_rh_polling starts an enumeration: the port has no other device.
LEMMA RhSettleInv ==
    ASSUME Inv, RhSettle
    PROVE  Inv'
<1>1. /\ stack = <<>> /\ pc = "rhSettle"
      /\ UNCHANGED <<plug, powered, hchg, addr, left, hubs, stack>>
  BY DEF RhSettle, At
<1>2. chg' \in [Places -> SUBSET {"conn", "reset"}]
  BY DEF RhSettle, Inv, TypeOK
<1>3. Len(stack') = 0
  BY <1>1
<1>4. Frames'
  BY <1>3 DEF Frames, FramesOf
<1>5. CASE pc' = "rh" /\ UNCHANGED <<udevs, udev, loop>>
  <2>1. TypeOK'
    BY <1>1, <1>2, <1>5 DEF Inv, TypeOK, Labels, loop
  <2>2. SameTree
    BY <1>1, <1>5 DEF SameTree
  <2>3. QED BY <1>1, <1>5, <2>1, <2>2, IdleParts, SameTreeInv
<1>6. CASE NextCtrl /\ UNCHANGED <<udevs, udev>>
  <2>1. /\ pc' \in {"rh", "hub"} /\ ctrl' \in Ctrls /\ idx' \in 1..(MaxHub + 1)
        /\ ret' \in {"none", "ok", "err"} /\ change' \in BOOLEAN
        /\ UNCHANGED <<port, st>>
    BY <1>1, <1>6, NextCtrlEffect
  <2>2. TypeOK'
    BY <1>1, <1>2, <1>6, <2>1 DEF Inv, TypeOK, Labels
  <2>3. SameTree
    BY <1>1, <1>6 DEF SameTree
  <2>4. QED BY <1>1, <2>1, <2>2, <2>3, IdleParts, SameTreeInv
<1>7. CASE alloc_device(0, 1, ctrl) /\ pc' = "connect" /\ UNCHANGED loop
  <2>1. ctrl \in Ctrls /\ \A u \in udevs : u.parent = 0 /\ u.hc = ctrl => u.port # 1
    BY <1>1 DEF Inv, TypeOK, LoopInv, ehci_find_device_by_port
  <2>2. /\ Tree' /\ udevs' \subseteq UdevRec /\ udev' \in Dev
        /\ find_hub_device(udev)' = {} /\ HubIdx' = HubIdx
        /\ \E u \in udevs' : u.dev = udev' /\ u.parent = 0
    BY <1>1, <1>7, <2>1, AllocDeviceTree
  <2>3. TypeOK'
    BY <1>1, <1>2, <1>7, <2>2 DEF Inv, TypeOK, Labels, loop
  <2>4. HandledIsLive' /\ NewInv' /\ LoopInv'
    BY <1>1, <1>7, <2>2 DEF HandledIsLive, Handling, NewInv, LoopInv
  <2>5. QED BY <1>4, <2>2, <2>3, <2>4 DEF Inv
<1>8. QED BY <1>5, <1>6, <1>7 DEF RhSettle

(***************************************************************************)
(* connect_device.                                                         *)
(***************************************************************************)

\* New is the device structure udev.
LEMMA NewIsListed ==
    ASSUME Inv, pc \in {"connect", "probe"}
    PROVE  /\ New \in udevs /\ New.dev = udev /\ stack = <<>>
           /\ find_hub_device(udev) = {}
           /\ New.parent # 0 => New.parent = idx /\ idx \in HubIdx /\ port \in Ports
           /\ pc = "probe" => New.thing \in Hubs
<1>1. PICK u \in udevs : /\ u.dev = udev
                         /\ u.parent # 0 => u.parent = idx /\ port \in Ports
                         /\ pc = "probe" => u.thing \in Hubs
  BY DEF Inv, NewInv
<1>2. New = u
  BY <1>1 DEF New, Inv, Tree, DevicesHang
<1>3. stack = <<>> /\ find_hub_device(udev) = {}
  BY DEF Inv, LoopInv, NewInv
<1>4. u.parent # 0 => u.parent \in HubIdx
  BY DEF Inv, Tree, DevicesHang
<1>5. QED BY <1>1, <1>2, <1>3, <1>4

\* connect_device returns to the polling of the root port or of the hub.
LEMMA ConnectedParts ==
    ASSUME Inv, pc \in {"connect", "probe"}, Connected, UNCHANGED <<loop, stack>>,
           HubIdx \subseteq HubIdx'
    PROVE  /\ HandledIsLive' /\ NewInv' /\ LoopInv' /\ Frames'
           /\ pc' \in Labels /\ udev' = NULL
<1>1. /\ stack = <<>>
      /\ New.parent # 0 => New.parent = idx /\ idx \in HubIdx /\ port \in Ports
  BY NewIsListed
<1>2. pc' = "rh" \/ (pc' = "pother" /\ idx \in HubIdx /\ port \in Ports)
  BY <1>1 DEF Connected
<1>3. Len(stack') = 0
  BY <1>1
<1>4. Frames'
  BY <1>3 DEF Frames, FramesOf
<1>5. QED BY <1>1, <1>2, <1>4 DEF Connected, HandledIsLive, Handling, Labels, NewInv, LoopInv, loop

\* The new device hangs from a place of the world.
LEMMA PlaceType ==
    ASSUME Inv, pc \in {"connect", "probe"}
    PROVE  NewPlace \in Places
<1>1. /\ New \in udevs
      /\ New.parent # 0 => New.parent = idx /\ idx \in HubIdx
  BY NewIsListed
<1>2. New.hc \in Ctrls /\ (New.parent # 0 => New.port \in Ports)
  BY <1>1, RecordTypes DEF Inv, Tree, DevicesHang
<1>3. New.parent # 0 => hubs[New.parent].hub \in Hubs
  BY <1>1, RecordTypes DEF Inv
<1>4. QED BY <1>2, <1>3 DEF NewPlace, Root, Places

\* A port reset leaves change bits.
LEMMA ResetsType ==
    ASSUME TypeOK, NEW q \in Places
    PROVE  Resets(q) \in [Places -> SUBSET {"conn", "reset"}]
BY DEF TypeOK, Resets

\* connect_device gives the device its address: the structure is the same but
\* for the history field.
LEMMA ConfiguredInv ==
    ASSUME Inv, Configured
    PROVE  Inv'
<1>1. pc = "connect" /\ Reachable(NewPlace) /\ UNCHANGED <<plug, powered, hchg, left, hubs, loop, stack>>
  BY DEF Configured, At
<1>2. /\ New \in udevs /\ New.dev = udev /\ stack = <<>>
      /\ find_hub_device(udev) = {}
      /\ New.parent # 0 => New.parent = idx /\ idx \in HubIdx /\ port \in Ports
  BY <1>1, NewIsListed
<1>3. NewPlace \in Places
  BY <1>1, PlaceType
<1>4. PICK t \in Things : t = plug[NewPlace]
  BY <1>1, <1>3 DEF Reachable, Inv, TypeOK
<1>5. /\ udevs' = Unchain(udev) \cup {[New EXCEPT !.thing = t]}
      /\ addr' = [addr EXCEPT ![t] = udev]
      /\ chg' = Resets(NewPlace)
      /\ IF t \in Hubs THEN pc' = "probe" /\ UNCHANGED udev ELSE Connected
  BY <1>4 DEF Configured
<1>6. PICK r \in UdevRec : /\ udevs' = {u \in udevs : u.dev # udev} \cup {r}
                           /\ r.dev = udev /\ r.parent = New.parent /\ r.port = New.port
                           /\ r.hc = New.hc /\ r.thing = t
  <2>1. New \in UdevRec
    BY <1>2 DEF Inv, TypeOK
  <2>2. [New EXCEPT !.thing = t] \in UdevRec
    BY <2>1 DEF UdevRec
  <2>3. /\ [New EXCEPT !.thing = t].dev = New.dev /\ [New EXCEPT !.thing = t].parent = New.parent
        /\ [New EXCEPT !.thing = t].port = New.port /\ [New EXCEPT !.thing = t].hc = New.hc
        /\ [New EXCEPT !.thing = t].thing = t
    BY <2>1 DEF UdevRec
  <2>4. QED BY <1>2, <1>5, <2>2, <2>3 DEF Unchain
<1>7. HubIdx' = HubIdx
  BY <1>1 DEF HubIdx
<1>8. \A i \in HubIdx : hubs[i].iface # udev
  BY <1>2 DEF find_hub_device
<1>9. Tree'
  <2>1. DevicesHang'
    BY <1>1, <1>2, <1>6, <1>7 DEF Inv, Tree, DevicesHang
  <2>2. OnePerPort'
    BY <1>2, <1>6 DEF Inv, Tree, OnePerPort
  <2>3. HubsOwned'
    <3>1. ASSUME NEW i \in HubIdx
          PROVE  \E u \in udevs' : u.dev = hubs[i].iface /\ u.thing = hubs[i].hub
      <4>1. PICK u \in udevs : u.dev = hubs[i].iface /\ u.thing = hubs[i].hub
        BY DEF Inv, Tree, HubsOwned
      <4>2. u \in udevs'
        BY <1>6, <1>8, <4>1
      <4>3. QED BY <4>1, <4>2
    <3>2. QED BY <1>1, <1>7, <3>1 DEF Inv, Tree, HubsOwned
  <2>4. HubsPlaced'
    BY <1>1, <1>6, <1>7, <1>8 DEF Inv, Tree, HubsPlaced, PosId
  <2>5. QED BY <2>1, <2>2, <2>3, <2>4 DEF Tree
<1>10. /\ udevs' \subseteq UdevRec /\ addr' \in [Things -> Dev \cup {NULL}]
       /\ chg' \in [Places -> SUBSET {"conn", "reset"}]
  <2>1. udev \in Dev
    BY <1>2, RecordTypes DEF Inv
  <2>2. chg' \in [Places -> SUBSET {"conn", "reset"}]
    BY <1>3, <1>5, ResetsType DEF Inv
  <2>3. QED BY <1>5, <1>6, <2>1, <2>2 DEF Inv, TypeOK
<1>11. CASE t \in Hubs /\ pc' = "probe" /\ UNCHANGED udev
  <2>1. TypeOK'
    BY <1>1, <1>10, <1>11 DEF Inv, TypeOK, Labels, loop
  <2>2. find_hub_device(udev)' = {}
    BY <1>1, <1>7, <1>8, <1>11 DEF find_hub_device
  <2>3. NewInv'
    BY <1>1, <1>2, <1>6, <1>11, <2>2 DEF NewInv, loop
  <2>4. HandledIsLive' /\ LoopInv'
    BY <1>1, <1>2, <1>11 DEF HandledIsLive, Handling, LoopInv
  <2>5. Len(stack') = 0
    BY <1>1, <1>2
  <2>6. Frames'
    BY <2>5 DEF Frames, FramesOf
  <2>7. QED BY <1>9, <2>1, <2>3, <2>4, <2>6 DEF Inv
<1>12. CASE Connected
  <2>1. /\ HandledIsLive' /\ NewInv' /\ LoopInv' /\ Frames'
        /\ pc' \in Labels /\ udev' = NULL
    BY <1>1, <1>7, <1>12, ConnectedParts
  <2>2. TypeOK'
    BY <1>1, <1>10, <2>1 DEF Inv, TypeOK, loop
  <2>3. QED BY <1>9, <2>1, <2>2 DEF Inv
<1>13. QED BY <1>5, <1>11, <1>12

\* connect_device fails and its caller frees the structure, which no hub
\* structure and no other device refers to.
LEMMA ConnectFailsInv ==
    ASSUME Inv, ConnectFails
    PROVE  Inv'
<1>1. /\ pc = "connect" /\ Connected /\ udevs' = {u \in udevs : u.dev # udev}
      /\ UNCHANGED <<plug, powered, hchg, addr, hubs, loop, stack>>
      /\ chg' = chg \/ chg' = Resets(NewPlace)
  BY DEF ConnectFails, At, Unchain
<1>2. find_hub_device(udev) = {}
  BY <1>1, NewIsListed
<1>3. HubIdx' = HubIdx /\ \A i \in HubIdx : hubs[i].iface # udev
  BY <1>1, <1>2 DEF HubIdx, find_hub_device
<1>4. Tree'
  <2>1. DevicesHang' /\ OnePerPort'
    BY <1>1, <1>3 DEF Inv, Tree, DevicesHang, OnePerPort
  <2>2. HubsOwned'
    <3>1. ASSUME NEW i \in HubIdx
          PROVE  \E u \in udevs' : u.dev = hubs[i].iface /\ u.thing = hubs[i].hub
      <4>1. PICK u \in udevs : u.dev = hubs[i].iface /\ u.thing = hubs[i].hub
        BY DEF Inv, Tree, HubsOwned
      <4>2. u \in udevs'
        BY <1>1, <1>3, <4>1
      <4>3. QED BY <4>1, <4>2
    <3>2. QED BY <1>1, <1>3, <3>1 DEF Inv, Tree, HubsOwned
  <2>3. HubsPlaced'
    BY <1>1, <1>3 DEF Inv, Tree, HubsPlaced, PosId
  <2>4. QED BY <2>1, <2>2, <2>3 DEF Tree
<1>5. chg' \in [Places -> SUBSET {"conn", "reset"}]
  BY <1>1, PlaceType, ResetsType DEF Inv, TypeOK
<1>6. left' \in [plug: Nat, unplug: Nat, fail: Nat, event: Nat]
  BY FailLeft DEF Inv, ConnectFails
<1>7. /\ HandledIsLive' /\ NewInv' /\ LoopInv' /\ Frames'
      /\ pc' \in Labels /\ udev' = NULL
  BY <1>1, <1>3, ConnectedParts
<1>8. TypeOK'
  BY <1>1, <1>5, <1>6, <1>7 DEF Inv, TypeOK, loop
<1>9. QED BY <1>4, <1>7, <1>8 DEF Inv

\* connect_device goes on without a driver for the hub.
LEMMA ProbeFailsInv ==
    ASSUME Inv, ProbeFails
    PROVE  Inv'
<1>1. pc = "probe" /\ Connected /\ UNCHANGED <<world, udevs, hubs, loop, stack>>
  BY DEF ProbeFails, At
<1>2. SameTree /\ HubIdx' = HubIdx
  BY <1>1 DEF SameTree, HubIdx
<1>3. left' \in [plug: Nat, unplug: Nat, fail: Nat, event: Nat]
  BY FailLeft DEF Inv, ProbeFails
<1>4. /\ HandledIsLive' /\ NewInv' /\ LoopInv' /\ Frames'
      /\ pc' \in Labels /\ udev' = NULL
  BY <1>1, <1>2, ConnectedParts
<1>5. TypeOK'
  BY <1>1, <1>3, <1>4 DEF Inv, TypeOK, world, loop
<1>6. QED BY <1>2, <1>4, <1>5, SameTreeTree DEF Inv

\* hub_probe takes a free entry of the table for the new device.
LEMMA HubProbedEffect ==
    ASSUME Inv, NEW P \in SUBSET Ports, HubProbed(P)
    PROVE  \E i \in FreeHub, h \in HubRec :
              /\ h.iface = udev /\ h.pos = PosId(New) /\ h.hc = New.hc /\ h.hub = New.thing
              /\ hubs' = [hubs EXCEPT ![i] = h]
              /\ HubIdx' = HubIdx \cup {i} /\ i \notin HubIdx /\ hubs'[i] = h
              /\ \A j \in HubIdx : hubs'[j] = hubs[j]
<1>1. pc = "probe"
  BY DEF HubProbed, At
<1>2. New \in udevs /\ New.dev = udev /\ New.thing \in Hubs
  BY <1>1, NewIsListed
<1>3. PICK i \in FreeHub :
        hubs' = [hubs EXCEPT ![i] =
                    [iface |-> udev, pos |-> PosId(New), sc |-> {},
                     waits |-> TRUE, hc |-> New.hc, hub |-> New.thing]]
  BY DEF HubProbed, alloc_hub_device
<1>4. [iface |-> udev, pos |-> PosId(New), sc |-> {},
       waits |-> TRUE, hc |-> New.hc, hub |-> New.thing] \in HubRec
  <2>1. PosId(New) \in Seq(Nat)
    BY <1>2, PosIdLength DEF Inv, Tree
  <2>2. udev \in Dev /\ New.hc \in Ctrls
    BY <1>2, RecordTypes DEF Inv
  <2>3. QED BY <1>2, <2>1, <2>2 DEF HubRec
<1>5. PICK h \in HubRec :
        /\ h.iface = udev /\ h.pos = PosId(New) /\ h.hc = New.hc /\ h.hub = New.thing
        /\ hubs' = [hubs EXCEPT ![i] = h]
  BY <1>3, <1>4
<1>6. i \in 1..MaxHub /\ hubs[i] = NULL /\ h # NULL
  BY HubAssumption DEF FreeHub
<1>7. \A j \in 1..MaxHub : hubs'[j] = IF j = i THEN h ELSE hubs[j]
  BY <1>5 DEF Inv, TypeOK
<1>8. HubIdx' = HubIdx \cup {i} /\ i \notin HubIdx
  BY <1>6, <1>7 DEF HubIdx
<1>9. \A j \in HubIdx : hubs'[j] = hubs[j]
  BY <1>6, <1>7 DEF HubIdx
<1>10. QED BY <1>5, <1>6, <1>7, <1>8, <1>9

\* hub_probe succeeds: the new hub has no devices, and no other hub structure
\* has its device.
LEMMA HubProbedInv ==
    ASSUME Inv, NEW P \in SUBSET Ports, HubProbed(P)
    PROVE  Inv'
<1>1. pc = "probe" /\ Connected /\ UNCHANGED <<plug, hchg, addr, udevs, loop, stack>>
  BY DEF HubProbed, At
<1>2. /\ New \in udevs /\ New.dev = udev /\ find_hub_device(udev) = {}
      /\ New.thing \in Hubs
  BY <1>1, NewIsListed
<1>3. PICK i \in FreeHub, h \in HubRec :
         /\ h.iface = udev /\ h.pos = PosId(New) /\ h.hc = New.hc /\ h.hub = New.thing
         /\ hubs' = [hubs EXCEPT ![i] = h]
         /\ HubIdx' = HubIdx \cup {i} /\ i \notin HubIdx /\ hubs'[i] = h
         /\ \A j \in HubIdx : hubs'[j] = hubs[j]
  BY HubProbedEffect
<1>4. \A j \in HubIdx : hubs[j].iface # udev
  BY <1>2 DEF find_hub_device
<1>5. \A u \in udevs : u.parent = 0 \/ (u.parent \in HubIdx /\ u.parent # i)
  BY <1>3 DEF Inv, Tree, DevicesHang
<1>6. \A u \in udevs : PosId(u)' = PosId(u)
  BY <1>3, <1>5 DEF PosId
<1>7. Tree'
  <2>1. DevicesHang'
    BY <1>1, <1>3, <1>5 DEF Inv, Tree, DevicesHang
  <2>2. OnePerPort'
    BY <1>1 DEF Inv, Tree, OnePerPort
  <2>3. HubsOwned'
    BY <1>1, <1>2, <1>3, <1>4 DEF Inv, Tree, HubsOwned
  <2>4. HubsPlaced'
    <3>1. \A u \in udevs : u.dev = udev => u = New
      BY <1>2 DEF Inv, Tree, DevicesHang
    <3>2. QED BY <1>1, <1>3, <1>6, <3>1 DEF Inv, Tree, HubsPlaced
  <2>5. QED BY <2>1, <2>2, <2>3, <2>4 DEF Tree
<1>8. left' \in [plug: Nat, unplug: Nat, fail: Nat, event: Nat]
  <2>1. IsFiniteSet(Ports)
    BY FS_Interval, HubAssumption DEF Ports
  <2>2. IsFiniteSet(Ports \ P)
    BY <2>1, FS_Subset
  <2>3. Cardinality(Ports \ P) \in Nat
    BY <2>2, FS_CardinalityType
  <2>4. PICK c \in Nat : c = Cardinality(Ports \ P)
    BY <2>3
  <2>5. c <= left.fail /\ left' = [left EXCEPT !.fail = @ - c]
    BY <2>4 DEF HubProbed
  <2>6. PICK n \in Nat : n = left.fail - c
    BY <2>5 DEF Inv, TypeOK
  <2>7. left' = [left EXCEPT !.fail = n]
    BY <2>5, <2>6
  <2>8. QED BY <2>7 DEF Inv, TypeOK
<1>9. /\ powered' \subseteq Places /\ chg' \in [Places -> SUBSET {"conn", "reset"}]
      /\ hubs' \in [1..MaxHub -> HubRec \cup {NULL}]
  <2>1. powered' \subseteq Places
    BY <1>2 DEF HubProbed, Places, Inv, TypeOK
  <2>2. chg' \in [Places -> SUBSET {"conn", "reset"}]
    BY DEF HubProbed, Inv, TypeOK
  <2>3. QED BY <1>3, <2>1, <2>2 DEF Inv, TypeOK
<1>10. /\ HandledIsLive' /\ NewInv' /\ LoopInv' /\ Frames'
       /\ pc' \in Labels /\ udev' = NULL
  BY <1>1, <1>3, ConnectedParts
<1>11. TypeOK'
  BY <1>1, <1>8, <1>9, <1>10 DEF Inv, TypeOK, loop
<1>12. QED BY <1>7, <1>10, <1>11 DEF Inv

(***************************************************************************)
(* hub_polling.                                                            *)
(***************************************************************************)

\* hub_polling goes to the next entry of the table.
LEMMA HubScanInv ==
    ASSUME Inv, HubScan
    PROVE  Inv'
<1>1. stack = <<>> /\ pc = "hub" /\ UNCHANGED <<world, left, udevs, hubs, ctrl, st, udev, stack>>
  BY DEF HubScan, At
<1>2. SameTree
  BY <1>1 DEF SameTree
<1>3. CASE idx > MaxHub
  <2>1. /\ idx' \in 1..(MaxHub + 1) /\ pc' \in {"hub", "rh"} /\ port' = port
        /\ ret' \in {"none", "ok", "err"}
    BY <1>1, <1>3, HubAssumption DEF HubScan, Inv, TypeOK
  <2>2. change' \in BOOLEAN
    BY <1>1, <1>3, Zenon DEF HubScan, Inv, TypeOK
  <2>3. TypeOK'
    BY <1>1, <2>1, <2>2 DEF Inv, TypeOK, Labels, world
  <2>4. QED BY <1>1, <1>2, <2>1, <2>3, IdleParts, SameTreeInv
<1>4. CASE ~ (idx > MaxHub) /\ (hubs[idx] = NULL \/ hubs[idx].sc = {})
  <2>1. idx' = idx + 1 /\ UNCHANGED <<pc, port, ret, change>>
    BY <1>4 DEF HubScan
  <2>2. idx' \in 1..(MaxHub + 1)
    BY <1>4, <2>1, HubAssumption DEF Inv, TypeOK
  <2>3. TypeOK'
    BY <1>1, <2>1, <2>2 DEF Inv, TypeOK, Labels, world
  <2>4. QED BY <1>1, <1>2, <2>1, <2>3, IdleParts, SameTreeInv
<1>5. CASE ~ (idx > MaxHub) /\ ~ (hubs[idx] = NULL \/ hubs[idx].sc = {})
  <2>1. /\ change' = TRUE /\ port' = 1 /\ pc' \in {"hubStatus", "port"}
        /\ UNCHANGED <<idx, ret>>
    BY <1>5 DEF HubScan
  <2>2. idx \in HubIdx /\ HubIdx' = HubIdx
    BY <1>1, <1>5, HubAssumption DEF HubIdx, Inv, TypeOK
  <2>3. change' \in BOOLEAN
    BY <2>1
  <2>4. TypeOK'
    BY <1>1, <2>1, <2>3, HubAssumption DEF Inv, TypeOK, Labels, Handling, world
  <2>5. HandledIsLive' /\ NewInv' /\ LoopInv'
    BY <1>1, <2>1, <2>2 DEF HandledIsLive, NewInv, LoopInv
  <2>6. QED BY <1>1, <1>2, <2>4, <2>5, SameTreeInv
<1>6. QED BY <1>3, <1>4, <1>5

\* A step of hub_polling that keeps its hub and its port.
LEMMA HandlingInv ==
    ASSUME Inv, stack = <<>>, UNCHANGED <<udevs, hubs, ctrl, idx, port, udev, stack>>,
           pc \in Handling, pc' \in Handling, TypeOK',
           pc' \in {"pstat", "pclear", "pconn", "preset", "pother"} => port \in Ports,
           pc' = "preset" => \A u \in udevs : ~ (u.parent = idx /\ u.port = port)
    PROVE  Inv'
<1>1. SameTree /\ HubIdx' = HubIdx
  BY DEF SameTree, HubIdx
<1>2. HandledIsLive' /\ NewInv'
  BY <1>1 DEF Inv, HandledIsLive, Handling, NewInv
<1>3. LoopInv'
  BY DEF LoopInv, Handling
<1>4. QED BY <1>1, <1>2, <1>3, SameTreeInv

\* hub_status_change, answered or not.
LEMMA HubStatusChangeInv ==
    ASSUME Inv, hub_status_change
    PROVE  Inv'
<1>1. /\ stack = <<>> /\ pc = "hubStatus" /\ pc' = "port"
      /\ UNCHANGED <<plug, powered, chg, addr, udevs, hubs, loop, udev, stack>>
  BY DEF hub_status_change, At
<1>2. left' \in [plug: Nat, unplug: Nat, fail: Nat, event: Nat]
  BY FailLeft DEF Inv, hub_status_change, RequestFails
<1>3. hchg' \subseteq Hubs
  BY DEF hub_status_change, Inv, TypeOK
<1>4. TypeOK'
  BY <1>1, <1>2, <1>3 DEF Inv, TypeOK, Labels, Handling, loop
<1>5. QED BY <1>1, <1>4, HandlingInv DEF Handling, loop

\* hub_polling goes to the next port.
LEMMA NextPortInv ==
    ASSUME Inv, NextPort
    PROVE  Inv'
<1>1. /\ stack = <<>> /\ pc = "port"
      /\ UNCHANGED <<world, left, udevs, hubs, ctrl, idx, ret, change, st, udev, stack>>
  BY DEF NextPort, At
<1>2. /\ pc' \in {"resubmit", "pstat", "port"} /\ port' \in 1..(NPorts + 1)
      /\ pc' = "pstat" => port' \in Ports
  BY <1>1, HubAssumption DEF NextPort, Inv, TypeOK, Ports
<1>3. TypeOK'
  BY <1>1, <1>2 DEF Inv, TypeOK, Labels, Handling, world
<1>4. SameTree /\ HubIdx' = HubIdx
  BY <1>1 DEF SameTree, HubIdx
<1>5. HandledIsLive' /\ NewInv' /\ LoopInv'
  BY <1>1, <1>2, <1>4 DEF Inv, HandledIsLive, Handling, NewInv, LoopInv
<1>6. QED BY <1>1, <1>3, <1>4, <1>5, SameTreeInv

\* Where hub_polling reads and clears, it looks at a port of a hub.
LEMMA HereType ==
    ASSUME Inv, pc \in {"pstat", "pclear", "pconn", "preset", "pother"}
    PROVE  Here \in Places /\ idx \in HubIdx /\ port \in Ports
<1>1. idx \in HubIdx /\ port \in Ports
  BY DEF Inv, HandledIsLive, Handling, LoopInv
<1>2. hubs[idx].hub \in Hubs
  BY <1>1, RecordTypes DEF Inv
<1>3. QED BY <1>1, <1>2 DEF Here, Places

\* port_status_change reads the port status.
LEMMA GetPortStatusInv ==
    ASSUME Inv, get_port_status
    PROVE  Inv'
<1>1. /\ stack = <<>> /\ pc = "pstat" /\ pc' \in {"pclear", "pother"}
      /\ UNCHANGED <<world, left, udevs, hubs, ctrl, idx, port, ret, change, udev, stack>>
  BY DEF get_port_status, At
<1>2. Here \in Places /\ port \in Ports
  BY <1>1, HereType
<1>3. st' \in [conn: BOOLEAN, chg: SUBSET {"conn", "reset"}]
  <2>1. PICK b \in BOOLEAN : b = (plug[Here] # NULL)
    OBVIOUS
  <2>2. PICK c \in SUBSET {"conn", "reset"} : c = chg[Here]
    BY <1>2 DEF Inv, TypeOK
  <2>3. st' = [conn |-> b, chg |-> c]
    BY <2>1, <2>2 DEF get_port_status
  <2>4. QED BY <2>3
<1>4. TypeOK'
  BY <1>1, <1>3 DEF Inv, TypeOK, Labels, Handling, world
<1>5. QED BY <1>1, <1>2, <1>4, HandlingInv DEF Handling

\* port_status_change clears the connection change.
LEMMA ClearConnectionInv ==
    ASSUME Inv, ClearConnection
    PROVE  Inv'
<1>1. /\ stack = <<>> /\ pc = "pclear" /\ pc' = "pconn"
      /\ UNCHANGED <<plug, powered, hchg, addr, left, udevs, hubs, loop, udev, stack>>
  BY DEF ClearConnection, At
<1>2. Here \in Places /\ port \in Ports
  BY <1>1, HereType
<1>3. chg' \in [Places -> SUBSET {"conn", "reset"}]
  BY <1>2 DEF ClearConnection, Inv, TypeOK
<1>4. TypeOK'
  BY <1>1, <1>3 DEF Inv, TypeOK, Labels, Handling, loop
<1>5. QED BY <1>1, <1>2, <1>4, HandlingInv DEF Handling, loop

\* port_connect_change calls disconnect_device for the device known on the
\* port: it is further down than the hub that is handled.
LEMMA DropOldInv ==
    ASSUME Inv, UniqueIds, DropOld
    PROVE  Inv'
<1>1. /\ stack = <<>> /\ pc = "pconn" /\ pc' \in {"preset", "pother"}
      /\ UNCHANGED <<world, left, udevs, hubs, loop, udev>>
  BY DEF DropOld, At
<1>2. idx \in HubIdx /\ port \in Ports
  BY <1>1, HereType
<1>3. Old = {u \in udevs : u.parent = idx /\ u.port = port}
  BY <1>2, FindDevice DEF Old, Inv
<1>4. CASE Old = {} /\ UNCHANGED stack
  <2>1. TypeOK'
    BY <1>1, <1>4 DEF Inv, TypeOK, Labels, Handling, world, loop
  <2>2. \A u \in udevs : ~ (u.parent = idx /\ u.port = port)
    BY <1>3, <1>4
  <2>3. QED BY <1>1, <1>2, <1>4, <2>1, <2>2, HandlingInv DEF Handling, loop
<1>5. CASE \E u \in Old : stack' = Call(u.dev)
  <2>1. PICK u \in udevs : u.parent = idx /\ u.port = port /\ stack' = Call(u.dev)
    BY <1>3, <1>5
  <2>2. /\ stack' \in Seq(FrameRec) /\ stack' # <<>> /\ Len(stack') = 1
        /\ stack'[1].dev = u.dev /\ Frames'
    BY <1>1, <1>2, <2>1, FirstCall DEF Inv, loop
  <2>3. TypeOK'
    BY <1>1, <2>2 DEF Inv, TypeOK, Labels, Handling, world, loop
  <2>4. SameTree /\ HubIdx' = HubIdx
    BY <1>1 DEF SameTree, HubIdx
  <2>5. \A v \in udevs : v.parent = idx /\ v.port = port => v = u
    <3>1. \A v \in udevs : v.parent = idx => v.hc = hubs[idx].hc
      BY <1>2, RecordTypes DEF Inv, Tree, DevicesHang
    <3>2. QED BY <2>1, <3>1 DEF Inv, Tree, OnePerPort
  <2>6. LoopInv'
    BY <1>1, <1>2, <2>2, <2>5 DEF LoopInv, loop
  <2>7. HandledIsLive' /\ NewInv'
    BY <1>1, <1>2, <2>4 DEF HandledIsLive, NewInv, loop
  <2>8. QED BY <2>2, <2>3, <2>4, <2>6, <2>7, SameTreeTree DEF Inv
<1>6. QED BY <1>4, <1>5 DEF DropOld

\* port_connect_change allocates the next device: the port has no other.
LEMMA ResetPortInv ==
    ASSUME Inv, ResetPort
    PROVE  Inv'
<1>1. /\ stack = <<>> /\ pc = "preset"
      /\ UNCHANGED <<plug, powered, hchg, addr, left, hubs, loop, stack>>
  BY DEF ResetPort, At
<1>2. Here \in Places /\ idx \in HubIdx /\ port \in Ports
  BY <1>1, HereType
<1>3. chg' \in [Places -> SUBSET {"conn", "reset"}]
  BY <1>2, ResetsType DEF ResetPort, Inv, TypeOK
<1>4. CASE pc' = "pother" /\ UNCHANGED <<udevs, udev>>
  <2>1. TypeOK'
    BY <1>1, <1>3, <1>4 DEF Inv, TypeOK, Labels, Handling, loop
  <2>2. QED BY <1>1, <1>2, <1>4, <2>1, HandlingInv DEF Handling, loop
<1>5. CASE alloc_device(idx, port, hubs[idx].hc) /\ pc' = "connect"
  <2>1. \A u \in udevs : u.parent = idx => u.port # port
    BY <1>1 DEF Inv, LoopInv
  <2>2. hubs[idx].hc \in Ctrls /\ idx # 0
    BY <1>2, RecordTypes DEF Inv
  <2>3. /\ Tree' /\ udevs' \subseteq UdevRec /\ udev' \in Dev
        /\ find_hub_device(udev)' = {} /\ HubIdx' = HubIdx
        /\ \E u \in udevs' : u.dev = udev' /\ u.parent = idx
    BY <1>1, <1>2, <1>5, <2>1, <2>2, AllocDeviceTree
  <2>4. TypeOK'
    BY <1>1, <1>3, <1>5, <2>3 DEF Inv, TypeOK, Labels, loop
  <2>5. HandledIsLive' /\ NewInv' /\ LoopInv'
    BY <1>1, <1>2, <1>5, <2>3 DEF HandledIsLive, Handling, NewInv, LoopInv, loop
  <2>6. Len(stack') = 0
    BY <1>1
  <2>7. Frames'
    BY <2>6 DEF Frames, FramesOf
  <2>8. QED BY <2>3, <2>4, <2>5, <2>7 DEF Inv
<1>6. QED BY <1>4, <1>5 DEF ResetPort

\* The port reset fails.
LEMMA ResetFailsInv ==
    ASSUME Inv, ResetFails
    PROVE  Inv'
<1>1. /\ stack = <<>> /\ pc = "preset" /\ pc' = "pother"
      /\ UNCHANGED <<plug, powered, hchg, addr, udevs, hubs, loop, udev, stack>>
      /\ chg' = chg \/ chg' = Resets(Here)
  BY DEF ResetFails, At
<1>2. Here \in Places /\ port \in Ports
  BY <1>1, HereType
<1>3. chg' \in [Places -> SUBSET {"conn", "reset"}]
  BY <1>1, <1>2, ResetsType DEF Inv, TypeOK
<1>4. left' \in [plug: Nat, unplug: Nat, fail: Nat, event: Nat]
  BY FailLeft DEF Inv, ResetFails, RequestFails
<1>5. TypeOK'
  BY <1>1, <1>3, <1>4 DEF Inv, TypeOK, Labels, Handling, loop
<1>6. QED BY <1>1, <1>2, <1>5, HandlingInv DEF Handling, loop

\* port_status_change clears the other change bits.
LEMMA ClearOthersInv ==
    ASSUME Inv, ClearOthers
    PROVE  Inv'
<1>1. /\ stack = <<>> /\ pc = "pother" /\ pc' = "port" /\ ret' = "ok" /\ port' = port + 1
      /\ UNCHANGED <<plug, powered, hchg, addr, left, udevs, hubs, ctrl, idx,
                     change, st, udev, stack>>
  BY DEF ClearOthers, At
<1>2. Here \in Places /\ idx \in HubIdx /\ port \in Ports
  BY <1>1, HereType
<1>3. chg' \in [Places -> SUBSET {"conn", "reset"}]
  BY <1>2 DEF ClearOthers, Inv, TypeOK
<1>4. port' \in 1..(NPorts + 1)
  BY <1>1, <1>2, HubAssumption DEF Ports
<1>5. TypeOK'
  BY <1>1, <1>3, <1>4 DEF Inv, TypeOK, Labels, Handling
<1>6. SameTree /\ HubIdx' = HubIdx
  BY <1>1 DEF SameTree, HubIdx
<1>7. HandledIsLive' /\ NewInv' /\ LoopInv'
  BY <1>1, <1>2, <1>6 DEF HandledIsLive, NewInv, LoopInv
<1>8. QED BY <1>1, <1>5, <1>6, <1>7, SameTreeInv

\* A request of port_status_change fails.
LEMMA PortFailsInv ==
    ASSUME Inv, PortFails
    PROVE  Inv'
<1>1. /\ stack = <<>> /\ pc \in {"pstat", "pclear", "pother"} /\ pc' = "resubmit"
      /\ ret' = "err"
      /\ UNCHANGED <<world, udevs, hubs, ctrl, idx, port, change, st, udev, stack>>
  BY DEF PortFails, At
<1>2. left' \in [plug: Nat, unplug: Nat, fail: Nat, event: Nat]
  BY FailLeft DEF Inv, PortFails, RequestFails
<1>3. TypeOK'
  BY <1>1, <1>2 DEF Inv, TypeOK, Labels, Handling, world
<1>4. QED BY <1>1, <1>3, HandlingInv DEF Handling

\* hub_polling ends the turn of a hub.
LEMMA ResubmitInv ==
    ASSUME Inv, Resubmit
    PROVE  Inv'
<1>1. /\ stack = <<>> /\ pc = "resubmit" /\ pc' = "hub" /\ idx' = idx + 1
      /\ UNCHANGED <<world, udevs, ctrl, port, change, st, udev, stack>>
  BY DEF Resubmit, At
<1>2. idx \in HubIdx
  BY <1>1 DEF Inv, HandledIsLive, Handling
<1>3. PICK b \in BOOLEAN : hubs' = [hubs EXCEPT ![idx].sc = {}, ![idx].waits = b]
  BY DEF Resubmit
<1>4. hubs' \in [1..MaxHub -> HubRec \cup {NULL}] /\ SameTree
  BY <1>1, <1>2, <1>3, HubChangeTypes DEF Inv
<1>5. idx' \in 1..(MaxHub + 1)
  BY <1>1, <1>2, HubAssumption DEF HubIdx
<1>6. ret' \in {"none", "ok", "err"}
  BY DEF Resubmit, Inv, TypeOK
<1>7. left' \in [plug: Nat, unplug: Nat, fail: Nat, event: Nat]
  <2>1. left' = left \/ (left.fail > 0 /\ left' = [left EXCEPT !.fail = @ - 1])
    BY DEF Resubmit
  <2>2. QED BY <2>1, FailLeft DEF Inv
<1>8. TypeOK'
  BY <1>1, <1>4, <1>5, <1>6, <1>7 DEF Inv, TypeOK, Labels, world
<1>9. QED BY <1>1, <1>4, <1>8, IdleParts, SameTreeInv

(***************************************************************************)
(* The invariant, and the properties of Hub.                               *)
(***************************************************************************)

\* The tables are empty at first.
LEMMA InitInv ==
    ASSUME Init
    PROVE  Inv /\ UniqueIds
<1>1. HubIdx = {}
  BY DEF Init, HubIdx
<1>2. TypeOK
  <2>1. left \in [plug: Nat, unplug: Nat, fail: Nat, event: Nat]
    BY HubAssumption DEF Init
  <2>2. st \in [conn: BOOLEAN, chg: SUBSET {"conn", "reset"}]
    BY DEF Init
  <2>3. powered \subseteq Places
    BY DEF Init, Places, Root
  <2>4. plug \in [Places -> Things \cup {NULL}] /\ chg \in [Places -> SUBSET {"conn", "reset"}]
    BY DEF Init
  <2>5. addr \in [Things -> Dev \cup {NULL}] /\ hubs \in [1..MaxHub -> HubRec \cup {NULL}]
    BY DEF Init
  <2>6. ctrl \in Ctrls /\ idx \in 1..(MaxHub + 1) /\ port \in 1..(NPorts + 1)
    BY HubAssumption DEF Init, Ctrls
  <2>7. stack \in Seq(FrameRec) /\ pc \in Labels /\ udev \in Dev \cup {NULL}
    BY DEF Init, Labels
  <2>8. ret \in {"none", "ok", "err"} /\ change \in BOOLEAN
    BY DEF Init
  <2>9. hchg \subseteq Hubs /\ udevs \subseteq UdevRec
    BY DEF Init
  <2>10. QED BY <2>1, <2>2, <2>3, <2>4, <2>5, <2>6, <2>7, <2>8, <2>9 DEF TypeOK
<1>3. Tree
  BY <1>1 DEF Init, Tree, DevicesHang, OnePerPort, HubsOwned, HubsPlaced
<1>4. HandledIsLive /\ NewInv /\ LoopInv
  BY DEF Init, HandledIsLive, Handling, NewInv, LoopInv
<1>5. Frames
  BY DEF Init, Frames, FramesOf
<1>6. QED BY <1>1, <1>2, <1>3, <1>4, <1>5 DEF Inv, UniqueIds

\* Nothing happens.
LEMMA StutterInv ==
    ASSUME Inv, UNCHANGED vars
    PROVE  Inv'
<1>1. SameTree
  BY DEF SameTree, vars
<1>2. TypeOK'
  BY DEF Inv, TypeOK, vars, world, loop
<1>3. QED BY <1>1, <1>2, OthersInv DEF vars

\* One step of any of the three actors.
LEMMA NextInv ==
    ASSUME Inv, UniqueIds, [Next]_vars
    PROVE  Inv'
<1>1. CASE World
  BY <1>1, PlugInv, UnplugInv, HubEventInv DEF World
<1>2. CASE MainLoop
  BY <1>2, RhPollInv, RhDropInv, RhSettleInv, ConfiguredInv, ConnectFailsInv,
     HubProbedInv, ProbeFailsInv, HubScanInv, HubStatusChangeInv, NextPortInv,
     GetPortStatusInv, ClearConnectionInv, DropOldInv, ResetPortInv,
     ResetFailsInv, ClearOthersInv, PortFailsInv, ResubmitInv,
     DisconnectDeviceInv DEF MainLoop, connect_device, hub_polling
<1>3. CASE \E i \in 1..MaxHub : hub_status_irq(i) \/ StatusFails(i)
  BY <1>3, HubStatusIrqInv, StatusFailsInv
<1>4. QED BY <1>1, <1>2, <1>3, StutterInv DEF Next

(***************************************************************************)
(* Position identifiers.                                                   *)
(***************************************************************************)

\* No hub comes, and those that stay keep their identifiers.
NoNewHub ==
    \A i \in 1..MaxHub :
        hubs'[i] # NULL => hubs[i] # NULL /\ hubs'[i].pos = hubs[i].pos

\* Then the identifiers stay unique.
LEMMA NoNewHubIds ==
    ASSUME UniqueIds, NoNewHub
    PROVE  UniqueIds'
BY DEF UniqueIds, NoNewHub, HubIdx

\* A report or the end of a turn keeps the identifier of the hub.
LEMMA HubChangeIds ==
    ASSUME Inv, NEW k \in HubIdx, NEW S, NEW b,
           hubs' = [hubs EXCEPT ![k].sc = S, ![k].waits = b]
    PROVE  NoNewHub
<1>1. hubs[k] \in HubRec
  BY DEF Inv, TypeOK, HubIdx
<1>2. hubs'[k].pos = hubs[k].pos /\ \A i \in 1..MaxHub : i # k => hubs'[i] = hubs[i]
  BY <1>1 DEF Inv, TypeOK, HubIdx, HubRec
<1>3. QED BY <1>2 DEF NoNewHub, HubIdx

\* Only hub_probe adds an entry to the table.
LEMMA OthersAddNoHub ==
    ASSUME Inv, [Next]_vars
    PROVE  NoNewHub \/ \E P \in SUBSET Ports : HubProbed(P)
<1>1. CASE UNCHANGED hubs
  BY <1>1 DEF NoNewHub
<1>2. ASSUME NEW i \in 1..MaxHub, hub_status_irq(i)
      PROVE  NoNewHub
  <2>1. i \in HubIdx
    BY <1>2 DEF hub_status_irq
  <2>2. PICK S : S = hubs[i].sc \cup Pending(hubs[i].hub)
    OBVIOUS
  <2>3. hubs' = [hubs EXCEPT ![i].sc = S, ![i].waits = FALSE]
    BY <1>2, <2>2 DEF hub_status_irq
  <2>4. QED BY <2>1, <2>3, HubChangeIds
<1>3. ASSUME NEW i \in 1..MaxHub, StatusFails(i)
      PROVE  NoNewHub
  <2>1. i \in HubIdx /\ hubs' = [hubs EXCEPT ![i].waits = FALSE]
    BY <1>3 DEF StatusFails
  <2>2. hubs[i] \in HubRec
    BY <2>1 DEF Inv, TypeOK, HubIdx
  <2>3. hubs'[i].pos = hubs[i].pos /\ \A j \in 1..MaxHub : j # i => hubs'[j] = hubs[j]
    BY <2>1, <2>2 DEF Inv, TypeOK, HubIdx, HubRec
  <2>4. QED BY <2>1, <2>3 DEF NoNewHub, HubIdx
<1>4. ASSUME Resubmit
      PROVE  NoNewHub
  <2>1. pc = "resubmit"
    BY <1>4 DEF Resubmit, At
  <2>2. idx \in HubIdx
    BY <2>1 DEF Inv, HandledIsLive, Handling
  <2>3. PICK b : hubs' = [hubs EXCEPT ![idx].sc = {}, ![idx].waits = b]
    BY <1>4 DEF Resubmit
  <2>4. QED BY <2>2, <2>3, HubChangeIds
<1>5. ASSUME NEW d, Disconnected(d)
      PROVE  NoNewHub
  BY <1>5 DEF Disconnected, NoNewHub
<1>6. CASE World
  BY <1>1, <1>6 DEF World, Plug, Unplug, HubEvent
<1>7. CASE RhPoll \/ RhDrop \/ RhSettle
  BY <1>1, <1>7 DEF RhPoll, RhDrop, RhSettle
<1>8. CASE connect_device
  BY <1>1, <1>8 DEF connect_device, Configured, ConnectFails, ProbeFails
<1>9. CASE hub_polling
  BY <1>1, <1>4, <1>9 DEF hub_polling, HubScan, hub_status_change, NextPort,
     get_port_status, ClearConnection, DropOld, ResetPort, ResetFails,
     ClearOthers, PortFails
<1>10. CASE disconnect_device
  BY <1>1, <1>5, <1>10 DEF disconnect_device, hub_disconnect
<1>11. CASE UNCHANGED vars
  BY <1>1, <1>11 DEF vars
<1>12. QED
  BY <1>2, <1>3, <1>6, <1>7, <1>8, <1>9, <1>10, <1>11 DEF Next, MainLoop

\* Below one controller the identifier of a device tells its port: two hubs
\* have the same only if they are on the same port.
LEMMA PosIdInjective ==
    ASSUME Inv, UniqueIds, NEW u \in udevs, NEW v \in udevs,
           u.hc = v.hc, PosId(u) = PosId(v)
    PROVE  u = v
<1>1. /\ Len(PosId(u)) = Depth(u) + 1 /\ Len(PosId(v)) = Depth(v) + 1
      /\ Depth(u) \in Nat /\ Depth(v) \in Nat
  BY PosIdLength DEF Inv, Tree
<1>2. Depth(u) = Depth(v)
  BY <1>1
<1>3. /\ u.hc \in Ctrls /\ v.hc \in Ctrls /\ u.port \in Nat /\ v.port \in Nat
  BY DEF Inv, TypeOK, UdevRec
<1>4. u.hc = v.hc
  OBVIOUS
<1>5. ASSUME NEW w \in udevs, w.parent # 0
      PROVE  /\ w.parent \in HubIdx /\ hubs[w.parent].pos \in Seq(Nat)
             /\ Depth(w) = Len(hubs[w.parent].pos) /\ Depth(w) # 0
             /\ PosId(w) = Append(hubs[w.parent].pos, w.port)
  <2>1. w.parent \in HubIdx
    BY <1>5 DEF Inv, Tree, DevicesHang
  <2>2. PICK x \in udevs : x.dev = hubs[w.parent].iface
    BY <2>1 DEF Inv, Tree, HubsOwned
  <2>3. hubs[w.parent].pos = PosId(x)
    BY <2>1, <2>2 DEF Inv, Tree, HubsPlaced
  <2>4. PosId(x) \in Seq(Nat) /\ Depth(x) \in Nat /\ Len(PosId(x)) = Depth(x) + 1
    BY PosIdLength DEF Inv, Tree
  <2>5. Depth(w) = Len(hubs[w.parent].pos) /\ PosId(w) = Append(hubs[w.parent].pos, w.port)
    BY <1>5 DEF Depth, PosId
  <2>6. QED BY <2>1, <2>3, <2>4, <2>5
<1>6. CASE u.parent = 0
  <2>1. Depth(u) = 0
    BY <1>6 DEF Depth
  <2>2. v.parent = 0
    BY <1>2, <1>5, <2>1
  <2>3. u.port = v.port
    BY <1>6, <2>2 DEF Inv, Tree, DevicesHang
  <2>4. QED BY <1>4, <1>6, <2>2, <2>3 DEF Inv, Tree, OnePerPort
<1>7. CASE u.parent # 0
  <2>1. v.parent # 0
    <3>1. SUFFICES ASSUME v.parent = 0 PROVE FALSE
      OBVIOUS
    <3>2. Depth(v) = 0
      BY <3>1 DEF Depth
    <3>3. QED BY <1>2, <1>5, <1>7, <3>2
  <2>2. /\ u.parent \in HubIdx /\ hubs[u.parent].pos \in Seq(Nat)
        /\ PosId(u) = Append(hubs[u.parent].pos, u.port)
    BY <1>5, <1>7
  <2>3. /\ v.parent \in HubIdx /\ hubs[v.parent].pos \in Seq(Nat)
        /\ PosId(v) = Append(hubs[v.parent].pos, v.port)
    BY <1>5, <2>1
  <2>4. hubs[u.parent].pos = hubs[v.parent].pos /\ u.port = v.port
    <3>1. PICK s \in Seq(Nat) : s = hubs[u.parent].pos
      BY <2>2
    <3>2. PICK t \in Seq(Nat) : t = hubs[v.parent].pos
      BY <2>3
    <3>3. Append(s, u.port) = Append(t, v.port)
      BY <2>2, <2>3, <3>1, <3>2
    <3>4. s = t /\ u.port = v.port
      BY <1>3, <3>3, AppendInjective
    <3>5. QED BY <3>1, <3>2, <3>4
  <2>5. u.parent = v.parent
    BY <2>2, <2>3, <2>4 DEF UniqueIds
  <2>6. QED BY <1>4, <2>4, <2>5 DEF Inv, Tree, OnePerPort
<1>8. QED BY <1>6, <1>7

\* hub_probe gives a hub an identifier that no other below its controller has.
LEMMA NextIds ==
    ASSUME Inv, UniqueIds, [Next]_vars, HubsTogether'
    PROVE  UniqueIds'
<1>1. CASE NoNewHub
  BY <1>1, NoNewHubIds
<1>2. ASSUME NEW P \in SUBSET Ports, HubProbed(P)
      PROVE  UniqueIds'
  <2>1. PICK i \in FreeHub, h \in HubRec :
           /\ h.iface = udev /\ h.pos = PosId(New) /\ h.hc = New.hc /\ h.hub = New.thing
           /\ hubs' = [hubs EXCEPT ![i] = h]
           /\ HubIdx' = HubIdx \cup {i} /\ i \notin HubIdx /\ hubs'[i] = h
           /\ \A j \in HubIdx : hubs'[j] = hubs[j]
    BY <1>2, HubProbedEffect
  <2>2. pc = "probe"
    BY <1>2 DEF HubProbed, At
  <2>3. New \in udevs /\ New.dev = udev /\ find_hub_device(udev) = {}
    BY <2>2, NewIsListed
  <2>4. ASSUME NEW j \in HubIdx, hubs[j].pos = PosId(New)
        PROVE  FALSE
    <3>1. PICK u \in udevs : u.dev = hubs[j].iface
      BY DEF Inv, Tree, HubsOwned
    <3>2. PosId(u) = PosId(New)
      BY <2>4, <3>1 DEF Inv, Tree, HubsPlaced
    <3>3. hubs[j].hc = h.hc
      BY <2>1 DEF HubsTogether
    <3>4. u.hc = New.hc
      BY <2>1, <3>1, <3>3 DEF Inv, Tree, HubsPlaced
    <3>5. u = New
      BY <2>3, <3>2, <3>4, PosIdInjective
    <3>6. QED BY <2>3, <3>1, <3>5 DEF find_hub_device
  <2>5. QED BY <2>1, <2>4 DEF UniqueIds
<1>3. QED BY <1>1, <1>2, OthersAddNoHub

(***************************************************************************)
(* The length of a position identifier.                                    *)
(***************************************************************************)

\* An identifier fits into pos_id, which has room for MAX_HUB_DEVICE digits
\* and the end of the string (hub.h:126).
PosIdFits == \A i \in HubIdx : Len(hubs[i].pos) <= MaxHub

\* What the library says of < in terms of a relation.
LEMMA LessRelation == \A m, n \in Nat : m < n => <<m, n>> \in OpToRel(<, Nat)
  BY DEF OpToRel

\* A set of natural numbers has a least one.
LEMMA LeastNatural ==
    ASSUME NEW T \in SUBSET Nat, T # {}
    PROVE  \E x \in T : \A y \in T : x <= y
<1>1. PICK R : R = OpToRel(<, Nat)
  OBVIOUS
<1>2. \A m, n \in Nat : m < n => <<m, n>> \in R
  BY <1>1, LessRelation, Zenon
<1>3. PICK x \in T : \A y \in T : ~ (<<y, x>> \in R)
  BY <1>1, NatLessThanWellFounded, WFMin, Zenon
<1>4. \A y \in T : ~ (y < x)
  BY <1>2, <1>3, Zenon
<1>5. QED BY <1>4

\* A hub that is not on a root port has a hub one level up.
LEMMA UpperHub ==
    ASSUME Inv, NEW i \in HubIdx
    PROVE  /\ Len(hubs[i].pos) \in Nat \ {0}
           /\ Len(hubs[i].pos) # 1 =>
                 \E j \in HubIdx : Len(hubs[j].pos) + 1 = Len(hubs[i].pos)
<1>1. PICK u \in udevs : u.dev = hubs[i].iface
  BY DEF Inv, Tree, HubsOwned
<1>2. hubs[i].pos = PosId(u)
  BY <1>1 DEF Inv, Tree, HubsPlaced
<1>3. Depth(u) \in Nat /\ Len(PosId(u)) = Depth(u) + 1
  BY PosIdLength DEF Inv, Tree
<1>4. CASE u.parent = 0
  <2>1. Depth(u) = 0
    BY <1>4 DEF Depth
  <2>2. QED BY <1>2, <1>3, <2>1
<1>5. CASE u.parent # 0
  <2>1. u.parent \in HubIdx
    BY <1>5 DEF Inv, Tree, DevicesHang
  <2>2. Depth(u) = Len(hubs[u.parent].pos)
    BY <1>5 DEF Depth
  <2>3. QED BY <1>2, <1>3, <2>1, <2>2, SMTT(30)
<1>6. QED BY <1>4, <1>5

\* So a hub has a hub on every level above it ...
LEMMA EveryLevel ==
    ASSUME Inv, NEW i \in HubIdx, NEW n \in 1..Len(hubs[i].pos)
    PROVE  \E j \in HubIdx : Len(hubs[j].pos) = n
<1>1. PICK m \in Nat \ {0} : m = Len(hubs[i].pos)
  BY UpperHub
<1>2. SUFFICES ASSUME ~ \E j \in HubIdx : Len(hubs[j].pos) = n
               PROVE  FALSE
  OBVIOUS
<1>3. PICK T \in SUBSET Nat :
        \A k \in Nat : k \in T <=> k < m /\ ~ \E j \in HubIdx : Len(hubs[j].pos) = m - k
  <2>1. {k \in Nat : k < m /\ ~ \E j \in HubIdx : Len(hubs[j].pos) = m - k} \in SUBSET Nat
    OBVIOUS
  <2>2. QED BY <2>1
<1>4. m - n \in T
  BY <1>1, <1>2, <1>3, SMTT(30)
<1>5. PICK k \in T : \A l \in T : k <= l
  BY <1>4, LeastNatural
<1>6. k # 0
  BY <1>1, <1>3
<1>7. k \in Nat /\ k < m
  BY <1>3, <1>5
<1>8. PICK l \in Nat : l + 1 = k
  BY <1>6, <1>7
<1>9. l < m /\ l \notin T
  BY <1>5, <1>7, <1>8
<1>10. PICK j \in HubIdx : Len(hubs[j].pos) = m - l
  BY <1>3, <1>9
<1>11. Len(hubs[j].pos) # 1
  BY <1>7, <1>8, <1>10
<1>12. PICK h \in HubIdx : Len(hubs[h].pos) + 1 = Len(hubs[j].pos)
  BY <1>11, UpperHub
<1>13. Len(hubs[h].pos) \in Nat
  BY UpperHub
<1>14. Len(hubs[h].pos) = m - k
  BY <1>7, <1>8, <1>10, <1>12, <1>13
<1>15. QED BY <1>3, <1>5, <1>14

\* ... and the table of hubs has no room for more levels than entries.
LEMMA TreeIsShallow ==
    ASSUME Inv
    PROVE  PosIdFits
<1>1. SUFFICES ASSUME NEW i \in HubIdx
               PROVE  Len(hubs[i].pos) <= MaxHub
  BY DEF PosIdFits
<1>2. PICK m \in Nat \ {0} : m = Len(hubs[i].pos)
  BY UpperHub
<1>3. \A n \in 1..m : \E j \in HubIdx : Len(hubs[j].pos) = n
  BY <1>2, EveryLevel
<1>4. PICK f : f = [n \in 1..m |-> CHOOSE j \in HubIdx : Len(hubs[j].pos) = n]
  OBVIOUS
<1>5. \A n \in 1..m : f[n] \in HubIdx /\ Len(hubs[f[n]].pos) = n
  BY <1>3, <1>4
<1>6. f \in [1..m -> 1..MaxHub]
  BY <1>4, <1>5 DEF HubIdx
<1>7. f \in Injection(1..m, 1..MaxHub)
  BY <1>5, <1>6 DEF Injection, IsInjective
<1>8. Cardinality(1..m) = m
  BY FS_Interval
<1>9. IsFiniteSet(1..MaxHub) /\ Cardinality(1..MaxHub) = MaxHub
  <2>1. PICK n \in Nat : n = MaxHub
    BY HubAssumption
  <2>2. IsFiniteSet(1..n) /\ Cardinality(1..n) = n
    BY FS_Interval
  <2>3. QED BY <2>1, <2>2
<1>10. Cardinality(1..m) <= Cardinality(1..MaxHub)
  BY <1>7, <1>9, FS_Injection
<1>11. QED BY <1>2, <1>8, <1>9, <1>10

(***************************************************************************)
(* Hubs go on listening.                                                   *)
(***************************************************************************)

\* No request has failed yet, and no hub has changed its own status.
Clean == left.fail = Fails /\ left.event = Events

LeftBound == left.fail <= Fails /\ left.event <= Events

\* Where the ports of a hub that answers have been looked at, ret is zero: it
\* was assigned in this turn, or will be at a later port.
TurnInv ==
    pc \in {"port", "resubmit"} /\ Answers(idx) =>
        ret = "ok" \/ (pc = "port" /\ \E p \in hubs[idx].sc : p >= port)

ListenInv ==
    /\ LeftBound
    /\ Clean => /\ hchg = {} /\ pc # "hubStatus" /\ TurnInv
                /\ \A i \in HubIdx : /\ 0 \notin hubs[i].sc
                                     /\ Answers(i) => ~Deaf(i)

\* A hub that does not answer, or no longer, never answers again through the
\* structure it has: an address is given to a structure that no hub has.
LEMMA AddrFades ==
    ASSUME Inv, [Next]_vars, NEW t \in Things
    PROVE  \/ addr'[t] \in {addr[t], NULL}
           \/ addr'[t] = udev /\ find_hub_device(udev) = {}
<1>1. CASE UNCHANGED addr
  BY <1>1
<1>2. CASE World
  BY <1>1, <1>2 DEF World, Plug, Unplug, HubEvent
<1>3. CASE Configured
  <2>1. find_hub_device(udev) = {}
    BY <1>3, NewIsListed DEF Configured, At
  <2>2. PICK x : addr' = [addr EXCEPT ![x] = udev]
    BY <1>3 DEF Configured
  <2>3. QED BY <2>1, <2>2 DEF Inv, TypeOK
<1>4. ASSUME NEW d, Disconnected(d) PROVE addr'[t] \in {addr[t], NULL}
  BY <1>4 DEF Disconnected, NoAddr
<1>5. CASE RhPoll \/ RhDrop \/ RhSettle \/ connect_device \/ hub_polling
  BY <1>1, <1>3, <1>5 DEF RhPoll, RhDrop, RhSettle, connect_device, ConnectFails,
     HubProbed, ProbeFails, hub_polling, HubScan, hub_status_change, NextPort,
     get_port_status, ClearConnection, DropOld, ResetPort, ResetFails,
     ClearOthers, PortFails, Resubmit, world
<1>6. CASE disconnect_device
  BY <1>1, <1>4, <1>6 DEF disconnect_device, hub_disconnect, world
<1>7. CASE \E i \in 1..MaxHub : hub_status_irq(i) \/ StatusFails(i)
  BY <1>1, <1>7 DEF hub_status_irq, StatusFails, world
<1>8. CASE UNCHANGED vars
  BY <1>1, <1>8 DEF vars, world
<1>9. QED BY <1>2, <1>5, <1>6, <1>7, <1>8 DEF Next, MainLoop

LEMMA AnswersFades ==
    ASSUME Inv, [Next]_vars, NEW i \in HubIdx, Answers(i)',
           hubs'[i].iface = hubs[i].iface, hubs'[i].hub = hubs[i].hub
    PROVE  Answers(i)
<1>1. hubs[i].iface \in Dev /\ hubs[i].hub \in Things
  BY RecordTypes DEF Inv, Things
<1>2. addr'[hubs[i].hub] = hubs[i].iface
  BY DEF Answers
<1>3. hubs[i].iface # NULL
  BY <1>1, HubAssumption
<1>4. hubs[i].iface = udev => find_hub_device(udev) # {}
  BY DEF find_hub_device
<1>5. QED BY <1>1, <1>2, <1>3, <1>4, AddrFades DEF Answers

\* The request that fails is the first: afterwards nothing is promised.
LEMMA FailTaints ==
    ASSUME Inv, ListenInv, left.fail > 0, left' = [left EXCEPT !.fail = @ - 1]
    PROVE  ListenInv'
<1>1. PICK n \in Nat, e \in Nat : n = left.fail /\ e = left.event
  BY DEF Inv, TypeOK
<1>2. left'.fail = n - 1 /\ left'.event = e
  BY <1>1 DEF Inv, TypeOK
<1>3. n <= Fails /\ e <= Events
  BY <1>1 DEF ListenInv, LeftBound
<1>4. LeftBound' /\ ~Clean'
  BY <1>1, <1>2, <1>3, HubAssumption DEF LeftBound, Clean
<1>5. QED BY <1>4 DEF ListenInv

\* A step by which no hub comes and no report changes.
LEMMA QuietStep ==
    ASSUME Inv, ListenInv, [Next]_vars, hchg' \subseteq hchg,
           left'.fail = left.fail, left'.event = left.event,
           \A i \in HubIdx' : i \in HubIdx /\ hubs'[i] = hubs[i],
           Clean => pc' # "hubStatus" /\ TurnInv'
    PROVE  ListenInv'
<1>1. LeftBound' /\ (Clean' <=> Clean)
  BY DEF ListenInv, LeftBound, Clean
<1>2. SUFFICES ASSUME Clean
               PROVE  /\ hchg' = {}
                      /\ \A i \in HubIdx' : /\ 0 \notin hubs'[i].sc
                                            /\ Answers(i)' => ~Deaf(i)'
  BY <1>1 DEF ListenInv
<1>3. hchg' = {}
  BY <1>2 DEF ListenInv
<1>4. ASSUME NEW i \in HubIdx'
      PROVE  0 \notin hubs'[i].sc /\ (Answers(i)' => ~Deaf(i)')
  <2>1. i \in HubIdx /\ hubs'[i] = hubs[i]
    BY <1>4
  <2>2. Answers(i)' => Answers(i)
    BY <2>1, AnswersFades
  <2>3. Deaf(i)' => Deaf(i)
    BY <2>1 DEF Deaf
  <2>4. QED BY <1>2, <2>1, <2>2, <2>3 DEF ListenInv
<1>5. QED BY <1>3, <1>4

\* The same, with hub_polling elsewhere than at the ends of a turn.
LEMMA QuietElsewhere ==
    ASSUME Inv, ListenInv, [Next]_vars, UNCHANGED <<left, hubs>>, hchg' \subseteq hchg,
           pc' \notin {"hubStatus", "port", "resubmit"}
    PROVE  ListenInv'
<1>1. \A i \in HubIdx' : i \in HubIdx /\ hubs'[i] = hubs[i]
  BY DEF HubIdx
<1>2. TurnInv' /\ pc' # "hubStatus"
  BY DEF TurnInv
<1>3. QED BY <1>1, <1>2, QuietStep

\* The same, with hub_polling where it is.
LEMMA QuietOthers ==
    ASSUME Inv, ListenInv, [Next]_vars, UNCHANGED <<hubs, pc, loop>>,
           hchg' \subseteq hchg, left'.fail = left.fail, left'.event = left.event
    PROVE  ListenInv'
<1>1. \A i \in HubIdx' : i \in HubIdx /\ hubs'[i] = hubs[i]
  BY DEF HubIdx
<1>2. SUFFICES ASSUME Clean PROVE TurnInv' /\ pc' # "hubStatus"
  BY <1>1, QuietStep
<1>3. pc \in {"port", "resubmit"} => idx \in HubIdx
  BY DEF Inv, HandledIsLive, Handling
<1>4. UNCHANGED <<idx, ret, port>>
  BY DEF loop
<1>5. pc \in {"port", "resubmit"} /\ Answers(idx)' => Answers(idx)
  <2>1. ASSUME pc \in {"port", "resubmit"}, Answers(idx)' PROVE Answers(idx)
    <3>1. PICK i \in HubIdx : i = idx
      BY <1>3, <2>1
    <3>2. Answers(i)'
      BY <1>4, <2>1, <3>1 DEF Answers
    <3>3. Answers(i)
      BY <3>2, AnswersFades
    <3>4. QED BY <3>1, <3>3
  <2>2. QED BY <2>1
<1>6. QED BY <1>2, <1>4, <1>5 DEF ListenInv, TurnInv

\* The world.
LEMMA WorldListen ==
    ASSUME Inv, ListenInv, World
    PROVE  ListenInv'
<1>1. [Next]_vars
  BY DEF Next
<1>2. PICK n \in Nat, e \in Nat : n = left.fail /\ e = left.event
  BY DEF Inv, TypeOK
<1>3. n <= Fails /\ e <= Events
  BY <1>2 DEF ListenInv, LeftBound
<1>4. ASSUME NEW h \in Hubs, HubEvent(h) PROVE ListenInv'
  <2>1. left'.fail = n /\ left'.event = e - 1
    BY <1>2, <1>4 DEF HubEvent, Inv, TypeOK
  <2>2. LeftBound' /\ ~Clean'
    BY <1>2, <1>3, <2>1, HubAssumption DEF LeftBound, Clean
  <2>3. QED BY <2>2 DEF ListenInv
<1>5. ASSUME NEW q \in Places, NEW t \in Things, Plug(q, t) PROVE ListenInv'
  BY <1>1, <1>5, QuietOthers DEF Plug, Inv, TypeOK
<1>6. ASSUME NEW q \in Places, Unplug(q) PROVE ListenInv'
  BY <1>1, <1>6, QuietOthers DEF Unplug, Inv, TypeOK
<1>7. QED BY <1>4, <1>5, <1>6 DEF World

\* The interrupt handler: a report is kept until the end of the hub's turn.
LEMMA HandlerListen ==
    ASSUME Inv, ListenInv, NEW i \in 1..MaxHub, hub_status_irq(i) \/ StatusFails(i)
    PROVE  ListenInv'
<1>1. [Next]_vars
  BY DEF Next
<1>2. CASE StatusFails(i)
  BY <1>2, FailTaints DEF StatusFails
<1>3. CASE hub_status_irq(i)
  <2>1. /\ i \in HubIdx /\ UNCHANGED <<hchg, left, pc, idx, ret, port>>
        /\ Pending(hubs[i].hub) # {}
    BY <1>3 DEF hub_status_irq, world, loop
  <2>2. hubs[i] \in HubRec /\ hubs \in [1..MaxHub -> HubRec \cup {NULL}]
    BY <2>1, RecordTypes DEF Inv, TypeOK
  <2>3. /\ hubs'[i].sc = hubs[i].sc \cup Pending(hubs[i].hub)
        /\ hubs'[i].iface = hubs[i].iface /\ hubs'[i].hub = hubs[i].hub
        /\ hubs'[i] # NULL
        /\ \A j \in 1..MaxHub : j # i => hubs'[j] = hubs[j]
    <3>1. PICK s \in SUBSET (0..NPorts) : s = hubs[i].sc \cup Pending(hubs[i].hub)
      BY <2>2, PendingType DEF HubRec
    <3>2. hubs' = [hubs EXCEPT ![i].sc = s, ![i].waits = FALSE]
      BY <1>3, <3>1 DEF hub_status_irq
    <3>3. PICK h \in HubRec : h = [[hubs[i] EXCEPT !.sc = s] EXCEPT !.waits = FALSE]
      BY <2>2 DEF HubRec
    <3>4. hubs' = [hubs EXCEPT ![i] = h]
      BY <3>2, <3>3
    <3>5. /\ hubs'[i] = h /\ h # NULL
          /\ \A j \in 1..MaxHub : j # i => hubs'[j] = hubs[j]
      BY <2>1, <2>2, <3>4, HubAssumption DEF HubIdx
    <3>6. h.sc = s /\ h.iface = hubs[i].iface /\ h.hub = hubs[i].hub
      BY <2>2, <3>3 DEF HubRec
    <3>7. QED BY <3>1, <3>5, <3>6
  <2>4. HubIdx' = HubIdx
    BY <2>1, <2>3 DEF HubIdx
  <2>5. \A j \in HubIdx : Answers(j)' => Answers(j)
    BY <1>1, <2>3, AnswersFades DEF HubIdx
  <2>6. LeftBound' /\ (Clean' <=> Clean)
    BY <2>1 DEF ListenInv, LeftBound, Clean
  <2>7. SUFFICES ASSUME Clean
                 PROVE  /\ TurnInv'
                        /\ \A j \in HubIdx : /\ 0 \notin hubs'[j].sc
                                             /\ Answers(j)' => ~Deaf(j)'
    BY <2>1, <2>4, <2>6 DEF ListenInv
  <2>8. 0 \notin Pending(hubs[i].hub)
    BY <2>7, HubAssumption DEF ListenInv, Pending, Ports
  <2>9. \A j \in HubIdx : hubs[j].sc \subseteq hubs'[j].sc /\ 0 \notin hubs'[j].sc
    BY <2>3, <2>7, <2>8 DEF ListenInv, HubIdx
  <2>10. \A j \in HubIdx : Deaf(j)' => Deaf(j)
    BY <2>1, <2>3 DEF Deaf, HubIdx
  <2>11. pc \in {"port", "resubmit"} => idx \in HubIdx
    BY DEF Inv, HandledIsLive, Handling
  <2>12. TurnInv'
    <3>1. ASSUME pc \in {"port", "resubmit"}, Answers(idx)'
          PROVE  ret = "ok" \/ (pc = "port" /\ \E p \in hubs'[idx].sc : p >= port)
      <4>1. PICK j \in HubIdx : j = idx
        BY <2>11, <3>1
      <4>2. Answers(j)'
        BY <2>1, <3>1, <4>1 DEF Answers
      <4>3. Answers(idx)
        BY <2>5, <4>1, <4>2
      <4>4. hubs[idx].sc \subseteq hubs'[idx].sc
        BY <2>9, <4>1
      <4>5. QED BY <2>7, <3>1, <4>3, <4>4 DEF ListenInv, TurnInv
    <3>2. QED BY <2>1, <3>1 DEF TurnInv
  <2>13. QED BY <2>5, <2>7, <2>9, <2>10, <2>12 DEF ListenInv
<1>4. QED BY <1>2, <1>3

\* disconnect_device: no hub is at its turn's end while a call is under way.
LEMMA DisconnectListen ==
    ASSUME Inv, ListenInv, disconnect_device
    PROVE  ListenInv'
<1>1. [Next]_vars
  BY DEF Next, MainLoop
<1>2. pc \in {"rhDrop", "preset", "pother"}
  BY DEF disconnect_device, Inv, LoopInv
<1>3. ASSUME NEW i, hub_disconnect(i) PROVE ListenInv'
  BY <1>1, <1>2, <1>3, QuietElsewhere DEF hub_disconnect, world
<1>4. ASSUME NEW d, Disconnected(d) PROVE ListenInv'
  <2>1. UNCHANGED <<left, hchg, pc>>
    BY <1>4 DEF Disconnected
  <2>2. \A i \in HubIdx' : i \in HubIdx /\ hubs'[i] = hubs[i]
    BY <1>4 DEF Disconnected, HubIdx
  <2>3. TurnInv' /\ pc' # "hubStatus"
    BY <1>2, <2>1 DEF TurnInv
  <2>4. QED BY <1>1, <2>1, <2>2, <2>3, QuietStep
<1>5. QED BY <1>3, <1>4 DEF disconnect_device

\* The root ports.
LEMMA RhListen ==
    ASSUME Inv, ListenInv, RhPoll \/ RhDrop \/ RhSettle
    PROVE  ListenInv'
<1>1. [Next]_vars
  BY DEF Next, MainLoop
<1>2. /\ UNCHANGED <<left, hubs, hchg>>
      /\ pc' \in {"rh", "hub", "rhDrop", "rhSettle", "connect"}
  BY DEF RhPoll, RhDrop, RhSettle, NextCtrl, At, world
<1>3. QED BY <1>1, <1>2, QuietElsewhere

\* connect_device: a new hub has its status request pending.
LEMMA ConnectListen ==
    ASSUME Inv, ListenInv, connect_device
    PROVE  ListenInv'
<1>1. [Next]_vars
  BY DEF Next, MainLoop
<1>2. CASE Configured
  BY <1>1, <1>2, QuietElsewhere DEF Configured, Connected
<1>3. CASE ConnectFails
  BY <1>1, <1>3, QuietElsewhere, FailTaints DEF ConnectFails, Connected
<1>4. CASE ProbeFails
  BY <1>1, <1>4, QuietElsewhere, FailTaints DEF ProbeFails, Connected, world
<1>5. ASSUME NEW P \in SUBSET Ports, HubProbed(P) PROVE ListenInv'
  <2>1. PICK c \in Nat : c = Cardinality(Ports \ P)
    <3>1. PICK n \in Nat : n = NPorts
      BY HubAssumption
    <3>2. IsFiniteSet(1..n)
      BY FS_Interval
    <3>3. IsFiniteSet(Ports \ P)
      BY <3>1, <3>2, FS_Difference DEF Ports
    <3>4. QED BY <3>3, FS_CardinalityType
  <2>2. PICK n \in Nat, e \in Nat : n = left.fail /\ e = left.event
    BY DEF Inv, TypeOK
  <2>3. left'.fail = n - c /\ left'.event = e
    BY <1>5, <2>1, <2>2 DEF HubProbed, Inv, TypeOK
  <2>4. n <= Fails /\ e <= Events
    BY <2>2 DEF ListenInv, LeftBound
  <2>5. LeftBound' /\ (Clean' => Clean)
    BY <2>1, <2>2, <2>3, <2>4, HubAssumption DEF LeftBound, Clean
  <2>6. hchg' = hchg /\ pc' \in {"rh", "pother"}
    BY <1>5 DEF HubProbed, Connected
  <2>7. PICK i \in 1..MaxHub :
          /\ hubs' = [hubs EXCEPT ![i] =
                        [iface |-> udev, pos |-> PosId(New), sc |-> {},
                         waits |-> TRUE, hc |-> New.hc, hub |-> New.thing]]
    BY <1>5 DEF HubProbed, alloc_hub_device, FreeHub
  <2>8. /\ hubs'[i].sc = {} /\ hubs'[i].waits = TRUE
        /\ \A j \in HubIdx' : j # i => j \in HubIdx /\ hubs'[j] = hubs[j]
    BY <2>7 DEF Inv, TypeOK, HubIdx
  <2>9. ASSUME Clean', NEW j \in HubIdx'
        PROVE  0 \notin hubs'[j].sc /\ (Answers(j)' => ~Deaf(j)')
    <3>1. CASE j = i
      BY <2>8, <3>1 DEF Deaf
    <3>2. CASE j # i
      <4>1. j \in HubIdx /\ hubs'[j] = hubs[j]
        BY <2>8, <2>9, <3>2
      <4>2. Answers(j)' => Answers(j)
        BY <1>1, <4>1, AnswersFades
      <4>3. Deaf(j)' => Deaf(j)
        BY <4>1 DEF Deaf
      <4>4. QED BY <2>5, <2>9, <4>1, <4>2, <4>3 DEF ListenInv
    <3>3. QED BY <3>1, <3>2
  <2>10. TurnInv' /\ pc' # "hubStatus"
    BY <2>6 DEF TurnInv
  <2>11. QED BY <2>5, <2>6, <2>9, <2>10 DEF ListenInv
<1>6. QED BY <1>2, <1>3, <1>4, <1>5 DEF connect_device

\* The scan of the table, and the ports of a hub.
LEMMA TurnListen ==
    ASSUME Inv, ListenInv, HubScan \/ NextPort
    PROVE  ListenInv'
<1>1. [Next]_vars
  BY DEF Next, MainLoop, hub_polling
<1>2. UNCHANGED <<left, hubs, hchg, addr>>
  BY DEF HubScan, NextPort, world
<1>3. \A i \in HubIdx' : i \in HubIdx /\ hubs'[i] = hubs[i]
  BY <1>2 DEF HubIdx
<1>4. SUFFICES ASSUME Clean PROVE TurnInv' /\ pc' # "hubStatus"
  BY <1>1, <1>2, <1>3, QuietStep
<1>5. CASE HubScan
  <2>1. CASE pc' \notin {"hubStatus", "port", "resubmit"}
    BY <2>1 DEF TurnInv
  <2>2. CASE pc' \in {"hubStatus", "port", "resubmit"}
    <3>1. /\ hubs[idx] # NULL /\ hubs[idx].sc # {} /\ port' = 1 /\ idx' = idx
          /\ pc' = IF 0 \in hubs[idx].sc THEN "hubStatus" ELSE "port"
          /\ ~(idx > MaxHub)
      BY <1>5, <2>2 DEF HubScan, At
    <3>2. idx \in HubIdx
      BY <3>1, HubAssumption DEF Inv, TypeOK, HubIdx
    <3>3. 0 \notin hubs[idx].sc /\ hubs[idx].sc \subseteq 0..NPorts
      BY <1>4, <3>2, RecordTypes DEF ListenInv, Inv, HubRec
    <3>4. \E p \in hubs[idx].sc : p >= 1
      BY <3>1, <3>3, HubAssumption
    <3>5. QED BY <1>2, <3>1, <3>3, <3>4 DEF TurnInv
  <2>3. QED BY <2>1, <2>2
<1>6. CASE NextPort
  <2>1. pc = "port" /\ idx \in HubIdx /\ UNCHANGED <<idx, ret>>
    BY <1>6 DEF NextPort, At, Inv, HandledIsLive, Handling
  <2>2. hubs[idx].sc \subseteq 0..NPorts /\ port \in 1..(NPorts + 1)
    BY <2>1, RecordTypes DEF Inv, TypeOK, HubRec
  <2>3. Answers(idx)' <=> Answers(idx)
    BY <1>2, <2>1 DEF Answers
  <2>4. Answers(idx) => ret = "ok" \/ \E p \in hubs[idx].sc : p >= port
    BY <1>4, <2>1 DEF ListenInv, TurnInv
  <2>5. CASE port > NPorts
    <3>1. pc' = "resubmit"
      BY <1>6, <2>5 DEF NextPort
    <3>2. Answers(idx) => ret = "ok"
      BY <2>2, <2>4, <2>5, HubAssumption
    <3>3. QED BY <2>1, <2>3, <3>1, <3>2 DEF TurnInv
  <2>6. CASE ~(port > NPorts) /\ port \in hubs[idx].sc
    BY <1>6, <2>6 DEF NextPort, TurnInv
  <2>7. CASE ~(port > NPorts) /\ port \notin hubs[idx].sc
    <3>1. pc' = "port" /\ port' = port + 1
      BY <1>6, <2>1, <2>7 DEF NextPort
    <3>2. Answers(idx) => ret = "ok" \/ \E p \in hubs[idx].sc : p >= port + 1
      BY <2>2, <2>4, <2>7, HubAssumption
    <3>3. QED BY <1>2, <2>1, <2>3, <3>1, <3>2 DEF TurnInv
  <2>8. QED BY <2>5, <2>6, <2>7
<1>7. QED BY <1>5, <1>6

\* One port of a hub.
LEMMA PortListen ==
    ASSUME Inv, ListenInv, \/ get_port_status \/ ClearConnection \/ DropOld
                           \/ ResetPort \/ ResetFails \/ ClearOthers \/ PortFails
    PROVE  ListenInv'
<1>1. [Next]_vars
  BY DEF Next, MainLoop, hub_polling
<1>2. CASE get_port_status \/ ClearConnection \/ DropOld \/ ResetPort
  <2>1. /\ UNCHANGED <<left, hubs, hchg>>
        /\ pc' \in {"pclear", "pother", "pconn", "preset", "connect"}
    BY <1>2 DEF get_port_status, ClearConnection, DropOld, ResetPort, world
  <2>2. QED BY <1>1, <2>1, QuietElsewhere
<1>3. CASE ResetFails
  <2>1. UNCHANGED <<hubs, hchg>> /\ pc' = "pother" /\ RequestFails(idx)
    BY <1>3 DEF ResetFails
  <2>2. CASE UNCHANGED left
    BY <1>1, <2>1, <2>2, QuietElsewhere
  <2>3. QED BY <2>1, <2>2, FailTaints DEF RequestFails
<1>4. CASE ClearOthers
  <2>1. UNCHANGED <<left, hubs, hchg>> /\ pc' = "port" /\ ret' = "ok"
    BY <1>4 DEF ClearOthers
  <2>2. \A i \in HubIdx' : i \in HubIdx /\ hubs'[i] = hubs[i]
    BY <2>1 DEF HubIdx
  <2>3. TurnInv' /\ pc' # "hubStatus"
    BY <2>1 DEF TurnInv
  <2>4. QED BY <1>1, <2>1, <2>2, <2>3, QuietStep
<1>5. CASE PortFails
  <2>1. /\ UNCHANGED <<hubs, hchg, addr, idx>> /\ pc' = "resubmit"
        /\ RequestFails(idx)
    BY <1>5 DEF PortFails, world
  <2>2. CASE ~Answers(idx) /\ UNCHANGED left
    <3>1. \A i \in HubIdx' : i \in HubIdx /\ hubs'[i] = hubs[i]
      BY <2>1 DEF HubIdx
    <3>2. ~Answers(idx)'
      BY <2>1, <2>2 DEF Answers
    <3>3. TurnInv' /\ pc' # "hubStatus"
      BY <2>1, <3>2 DEF TurnInv
    <3>4. QED BY <1>1, <2>1, <2>2, <3>1, <3>3, QuietStep
  <2>3. QED BY <2>1, <2>2, FailTaints DEF RequestFails
<1>6. QED BY <1>2, <1>3, <1>4, <1>5

\* The end of a turn: in a hub that answers ret is zero, and the request is
\* submitted again.
LEMMA ResubmitListen ==
    ASSUME Inv, ListenInv, Resubmit
    PROVE  ListenInv'
<1>1. [Next]_vars
  BY DEF Next, MainLoop, hub_polling
<1>2. CASE left.fail > 0 /\ left' = [left EXCEPT !.fail = @ - 1]
  BY <1>2, FailTaints
<1>3. CASE UNCHANGED left
  <2>1. /\ pc = "resubmit" /\ pc' = "hub" /\ UNCHANGED <<hchg, addr>>
        /\ idx \in HubIdx
    BY DEF Resubmit, At, world, Inv, HandledIsLive, Handling
  <2>2. PICK b \in BOOLEAN :
           /\ hubs' = [hubs EXCEPT ![idx].sc = {}, ![idx].waits = b]
           /\ b \/ FALSE \in Resubmits \/ (left.fail > 0 /\ left' = [left EXCEPT !.fail = @ - 1])
    BY DEF Resubmit
  <2>3. left' # [left EXCEPT !.fail = @ - 1]
    BY <1>3 DEF Inv, TypeOK
  <2>4. hubs[idx] \in HubRec /\ hubs \in [1..MaxHub -> HubRec \cup {NULL}]
    BY <2>1, RecordTypes DEF Inv, TypeOK
  <2>5. /\ hubs'[idx].sc = {} /\ hubs'[idx].waits = b
        /\ hubs'[idx].iface = hubs[idx].iface /\ hubs'[idx].hub = hubs[idx].hub
        /\ \A j \in HubIdx' : j \in HubIdx /\ (j # idx => hubs'[j] = hubs[j])
    BY <2>1, <2>2, <2>4 DEF HubRec, HubIdx
  <2>6. LeftBound' /\ (Clean' <=> Clean)
    BY <1>3 DEF ListenInv, LeftBound, Clean
  <2>7. ASSUME Clean, NEW j \in HubIdx'
        PROVE  0 \notin hubs'[j].sc /\ (Answers(j)' => ~Deaf(j)')
    <3>1. CASE j = idx
      <4>1. Answers(j)' => Answers(j)
        BY <1>1, <2>5, <3>1, AnswersFades
      <4>2. Answers(idx) => ret = "ok"
        BY <2>1, <2>7 DEF ListenInv, TurnInv
      <4>3. Answers(idx) => b
        BY <2>2, <2>3, <4>2 DEF Resubmits
      <4>4. QED BY <2>5, <3>1, <4>1, <4>3 DEF Deaf
    <3>2. CASE j # idx
      <4>1. j \in HubIdx /\ hubs'[j] = hubs[j]
        BY <2>5, <2>7, <3>2
      <4>2. Answers(j)' => Answers(j)
        BY <1>1, <4>1, AnswersFades
      <4>3. Deaf(j)' => Deaf(j)
        BY <4>1 DEF Deaf
      <4>4. QED BY <2>7, <4>1, <4>2, <4>3 DEF ListenInv
    <3>3. QED BY <3>1, <3>2
  <2>8. TurnInv' /\ pc' # "hubStatus"
    BY <2>1 DEF TurnInv
  <2>9. QED BY <2>1, <2>6, <2>7, <2>8 DEF ListenInv
<1>4. QED BY <1>2, <1>3 DEF Resubmit

\* Every step keeps the hubs listening.
LEMMA NextListen ==
    ASSUME Inv, ListenInv, [Next]_vars
    PROVE  ListenInv'
<1>1. CASE hub_status_change
  <2>1. pc = "hubStatus" /\ UNCHANGED <<hubs, addr, loop>> /\ pc' = "port"
    BY <1>1 DEF hub_status_change, At
  <2>2. ~Clean
    BY <2>1 DEF ListenInv
  <2>3. CASE UNCHANGED left
    BY <2>2, <2>3 DEF ListenInv, LeftBound, Clean
  <2>4. QED BY <1>1, <2>3, FailTaints DEF hub_status_change, RequestFails
<1>2. CASE MainLoop
  BY <1>1, <1>2, RhListen, ConnectListen, TurnListen, PortListen, ResubmitListen,
     DisconnectListen DEF MainLoop, hub_polling
<1>3. CASE UNCHANGED vars
  BY <1>3, QuietOthers DEF vars, world
<1>4. QED BY <1>2, <1>3, WorldListen, HandlerListen DEF Next

(***************************************************************************)
(* The theorems.                                                           *)
(***************************************************************************)

\* The whole of the hub driver preserves the invariant as long as no two
\* hubs share a position identifier, on any number of controllers:
\* usbh_find_device (hub.c:718) looks a hub up by nothing else.
THEOREM InvHolds == Spec /\ []UniqueIds => []Inv
<1>1. Init => Inv
  BY InitInv
<1>2. Inv /\ UniqueIds /\ [Next]_vars => Inv'
  BY NextInv
<1>3. QED BY <1>1, <1>2, PTL DEF Spec

\* As long as all hubs hang from one of the controllers, no two ever share an
\* identifier: hub_probe builds it from the port numbers on the way to the
\* root port (hub.c:235), and each port has one device.  With hubs below both
\* it fails, since both root ports have the number 1.
THEOREM UniqueIdsAlways == Spec /\ []HubsTogether => [](Inv /\ UniqueIds)
<1>1. Init => Inv /\ UniqueIds
  BY InitInv
<1>2. (Inv /\ UniqueIds) /\ [Next]_vars /\ HubsTogether' => (Inv /\ UniqueIds)'
  BY NextInv, NextIds
<1>3. QED BY <1>1, <1>2, PTL DEF Spec

\* The type invariant holds: no step of usbh_pooling_hubs indexes g_hub_dev
\* outside 1..MAX_HUB_DEVICE, or a port that no hub has.
THEOREM TypeOKAlways == Spec /\ []HubsTogether => []TypeOK
<1>1. Inv /\ UniqueIds => TypeOK
  BY DEF Inv
<1>2. QED BY <1>1, UniqueIdsAlways, PTL

\* No listed device has a parent pointer into a free entry of g_hub_dev, at
\* any depth of nested disconnections: hub_disconnect misses none of the
\* devices below it (hub.c:335-359).
THEOREM ParentsLiveAlways == Spec /\ []HubsTogether => []ParentsLive
<1>1. Inv /\ UniqueIds => ParentsLive
  BY DEF Inv, Tree, DevicesHang, HubsOwned, ParentsLive, Listed
<1>2. QED BY <1>1, UniqueIdsAlways, PTL

\* No port has two device structures, whatever is plugged and pulled while
\* one of them is enumerated (hub.c:456-462, ehci.c:1119-1125).
THEOREM OnePerPortAlways == Spec /\ []HubsTogether => []OnePerPort
<1>1. Inv /\ UniqueIds => OnePerPort
  BY DEF Inv, Tree
<1>2. QED BY <1>1, UniqueIdsAlways, PTL

\* Each entry of g_hub_dev in use belongs to one listed hub, and no two to the
\* same: no failing probe and no disconnection leaves one behind
\* (hub.c:228-330, 335-359).
THEOREM HubsOwnedAlways == Spec /\ []HubsTogether => []HubsOwned
<1>1. Inv /\ UniqueIds => HubsOwned
  BY DEF Inv, Tree
<1>2. QED BY <1>1, UniqueIdsAlways, PTL

\* usbh_find_device, which searches by identifier, finds exactly the device
\* below the hub that was meant (hub.c:704-735).
THEOREM FindsUnderHubAlways == Spec /\ []HubsTogether => []FindsUnderHub
<1>1. Inv /\ UniqueIds => FindsUnderHub
  BY FindDevice DEF Inv, FindsUnderHub
<1>2. QED BY <1>1, UniqueIdsAlways, PTL

\* The hub that hub_polling works on is not freed under it by the
\* disconnections and enumerations it starts (hub.c:571-621).
THEOREM HandledIsLiveAlways == Spec /\ []HubsTogether => []HandledIsLive
<1>1. Inv /\ UniqueIds => HandledIsLive
  BY DEF Inv
<1>2. QED BY <1>1, UniqueIdsAlways, PTL

\* A hub that answers goes deaf only after a request that failed or a change
\* of a hub's own status (hub.c:575, 594-617): the status request is pending
\* or a report is waiting for hub_polling otherwise.
THEOREM HubsListenAlways == Spec /\ []HubsTogether => []HubsListen
<1>1. Init => ListenInv
  <2>1. ASSUME Init PROVE ListenInv
    <3>1. HubIdx = {} /\ hchg = {} /\ pc = "rh"
      BY <2>1 DEF Init, HubIdx
    <3>2. LeftBound
      BY <2>1, HubAssumption DEF Init, LeftBound
    <3>3. QED BY <3>1, <3>2 DEF ListenInv, TurnInv
  <2>2. QED BY <2>1
<1>2. (Inv /\ UniqueIds) /\ ListenInv /\ [Next]_vars => ListenInv'
  BY NextListen
<1>3. Inv /\ UniqueIds /\ ListenInv => HubsListen
  <2>1. ASSUME Inv, ListenInv, NEW i \in HubIdx, Answers(i), Deaf(i)
        PROVE  left.fail < Fails \/ left.event < Events
    <3>1. ~Clean /\ LeftBound
      BY <2>1 DEF ListenInv
    <3>2. left.fail \in Nat /\ left.event \in Nat
      BY <2>1 DEF Inv, TypeOK
    <3>3. QED BY <3>1, <3>2, HubAssumption DEF Clean, LeftBound
  <2>2. QED BY <2>1 DEF HubsListen
<1>4. QED BY <1>1, <1>2, <1>3, UniqueIdsAlways, PTL DEF Spec

\* hub_probe never writes past the end of pos_id, however long the chain of
\* hubs that is plugged in (hub.c:234-241): each hub of the chain holds an
\* entry of g_hub_dev, and a hub without one gets no identifier.
THEOREM PosIdFitsAlways == Spec /\ []HubsTogether => []PosIdFits
<1>1. Inv => PosIdFits
  BY TreeIsShallow
<1>2. QED BY <1>1, UniqueIdsAlways, PTL
=============================================================================
