-------------------------------- MODULE Msc --------------------------------
(***************************************************************************)
(* The mass storage driver (src_msc/msc_driver.c) with the part of the USB *)
(* core that binds it to interfaces and takes it off again: parsing of a   *)
(* configuration, probing, disconnection and usbh_reset_device.            *)
(*                                                                         *)
(* Everything runs in the application's main loop, but not one call after  *)
(* the other: usbh_reset_device first polls the hubs, and that poll may    *)
(* disconnect the very device under reset, give its memory to another one  *)
(* and run a whole enumeration.  main holds the local variables of the     *)
(* calls under way.  Requests to a device fail or succeed at any time, and *)
(* so do allocations: other parts of the library use the same memory pool. *)
(*                                                                         *)
(* Freed memory keeps its contents until it is allocated again, and the    *)
(* memory of a UDEV_T is taken to be reused for another UDEV_T only.       *)
(*                                                                         *)
(* Two history variables record what the code gives up: adrift, the        *)
(* interfaces bound to a device structure that is no longer allocated, and *)
(* lost, the disk structures a failed probe leaves behind.                 *)
(***************************************************************************)
EXTENDS Integers

CONSTANTS
    Port,      \* the ports a device can be plugged into
    NDev,      \* UDEV_T structures the memory pool has room for
    NIface,    \* IFACE_T structures it has room for
    NMsc,      \* MSC_T structures it has room for
    NDrive,    \* USBDRV_CNT, FATFS drive numbers for USB disks
    MaxIf,     \* bound: bNumInterfaces of a configuration
    MaxLun,    \* bound: max_lun of a disk
    NULL

Dev   == 1..NDev
Iface == 1..NIface
Obj   == 1..NMsc
Drive == 0..(NDrive - 1)

IfaceRec == [udev : Dev, driver : {NULL, "msc", "other"}]
MscRec   == [iface : Iface, drv_no : Drive \cup {NULL}]

ASSUME MscAssumption ==
    /\ {NDev, NIface, NMsc, NDrive, MaxIf} \subseteq Nat \ {0}
    /\ MaxLun \in Nat
    /\ NULL \notin Port \cup Dev \cup Iface \cup Obj
    /\ NULL \notin IfaceRec /\ NULL \notin MscRec

VARIABLES
    udev,      \* the port of each allocated UDEV_T
    ifList,    \* its iface_list
    iface,     \* each allocated IFACE_T: its udev and its driver
    msc,       \* each allocated MSC_T: its iface and drv_no
    g_msc_list,
    g_fat_drv_used,
    main,      \* local variables of the calls under way
    adrift, lost

objects == <<udev, ifList, iface, msc, g_msc_list, g_fat_drv_used>>
vars    == <<objects, main, adrift, lost>>

FreeDev   == {d \in Dev : udev[d] = NULL}
FreeIface == {f \in Iface : iface[f] = NULL}
FreeObj   == {m \in Obj : msc[m] = NULL}

\* x is the first of S, which a search from the start finds
IsFirst(x, S) == x \in S /\ \A y \in S : x <= y

\* pc: idle; poll: usbh_pooling_hubs inside usbh_reset_device; parse:
\* usbh_parse_configuration; lun: umass_init_device
\* job: who called usbh_parse_configuration; reset: the udev under reset
Idle == [pc |-> "idle", job |-> NULL, reset |-> NULL, d |-> NULL, left |-> 0,
         f |-> NULL, m |-> NULL, lun |-> 0, max |-> 0, has |-> FALSE]

\* mutant: the driver does not find the interface of the drives to remove
DisksOfNone(F) == {}

\* msc_disconnect: the disks of the interfaces F bound to this driver
DisksOf(F) ==
    {m \in g_msc_list : msc[m].iface \in F /\ iface[msc[m].iface].driver = "msc"}

\* the interfaces F are disconnected: their disks unmounted and freed, and
\* they themselves freed
Disconnected(F) ==
    LET M == DisksOf(F)
    IN /\ g_fat_drv_used' = g_fat_drv_used \ {msc[m].drv_no : m \in M}
       /\ g_msc_list' = g_msc_list \ M
       /\ msc' = [m \in Obj |-> IF m \in M THEN NULL ELSE msc[m]]
       /\ iface' = [f \in Iface |-> IF f \in F THEN NULL ELSE iface[f]]
       /\ adrift' = adrift \ F

-----------------------------------------------------------------------------
(* Hub polling: a port whose connection changed. *)

\* a nested enumeration comes back to the poll of the reset, any other to
\* the main loop
Returned == IF main.job = "connect" /\ main.reset # NULL
            THEN [Idle EXCEPT !.pc = "poll", !.reset = main.reset]
            ELSE Idle

OnPort(p) == {d \in Dev : udev[d] = p}

\* the devices known on port p are disconnected; if one is there now and
\* memory is, it is enumerated up to SET_CONFIGURATION
PollPort(p) ==
    /\ main.pc \in {"idle", "poll"}
    /\ Disconnected(UNION {ifList[d] : d \in OnPort(p)})
    /\ LET gone == [d \in Dev |-> IF d \in OnPort(p) THEN NULL ELSE udev[d]]
           none == [d \in Dev |-> IF d \in OnPort(p) THEN {} ELSE ifList[d]]
           free == {d \in Dev : gone[d] = NULL}
       IN  \/ /\ OnPort(p) # {}
              /\ udev' = gone /\ ifList' = none
              /\ UNCHANGED main
           \/ \E d \in Dev, n \in 1..MaxIf :
                /\ IsFirst(d, free)
                /\ udev' = [gone EXCEPT ![d] = p]
                /\ ifList' = [none EXCEPT ![d] = {}]
                /\ main' = [main EXCEPT !.pc = "parse", !.job = "connect",
                                        !.d = d, !.left = n]
    /\ UNCHANGED lost

-----------------------------------------------------------------------------
(* usbh_parse_configuration and the probing of one interface. *)

\* interface f is put on the list of the device being parsed
Bound(f, driver) ==
    /\ iface' = [iface EXCEPT ![f] = [udev |-> main.d, driver |-> driver]]
    /\ ifList' = [ifList EXCEPT ![main.d] = @ \cup {f}]
    /\ adrift' = IF udev[main.d] = NULL THEN adrift \cup {f} ELSE adrift

Skipped == [main EXCEPT !.pc = "parse", !.left = @ - 1, !.f = NULL,
                        !.m = NULL, !.lun = 0, !.max = 0, !.has = FALSE]

\* the next interface finds no driver (its structure is freed again) or is
\* bound by another class driver
ParseInterface ==
    /\ main.pc = "parse" /\ main.left > 0
    /\ \E f \in Iface :
         /\ IsFirst(f, FreeIface)
         /\ \/ UNCHANGED <<ifList, iface, adrift>>
            \/ Bound(f, "other")
    /\ main' = Skipped
    /\ UNCHANGED <<udev, msc, g_msc_list, g_fat_drv_used, lost>>

\* it is a disk: msc_probe allocates its structure and asks for max_lun
msc_probe ==
    /\ main.pc = "parse" /\ main.left > 0
    /\ \E f \in Iface, m \in Obj, n \in 0..MaxLun :
         /\ IsFirst(f, FreeIface) /\ IsFirst(m, FreeObj)
         /\ iface' = [iface EXCEPT ![f] = [udev |-> main.d, driver |-> NULL]]
         /\ msc' = [msc EXCEPT ![m] = [iface |-> f, drv_no |-> NULL]]
         /\ main' = [main EXCEPT !.pc = "lun", !.f = f, !.m = m, !.max = n]
    /\ UNCHANGED <<udev, ifList, g_msc_list, g_fat_drv_used, adrift, lost>>

\* umass_init_device: no medium, or its capacity cannot be read
NoMedium ==
    /\ main.pc = "lun" /\ main.lun <= main.max
    /\ main' = [main EXCEPT !.lun = @ + 1]
    /\ UNCHANGED <<objects, adrift, lost>>

\* ...no drive number is free: the loop ends
NoDrive ==
    /\ main.pc = "lun" /\ main.lun <= main.max
    /\ g_fat_drv_used = Drive
    /\ main' = [main EXCEPT !.lun = main.max + 1]
    /\ UNCHANGED <<objects, adrift, lost>>

\* mutant: the number is not marked used
UsedNot(d) == g_fat_drv_used

\* fatfs_drive_alloc
Used(d) == g_fat_drv_used \cup {d}

\* ...a disk is found and listed; the structure for the next unit is a
\* copy, or there is no memory for it and the loop ends
DiskFound ==
    /\ main.pc = "lun" /\ main.lun <= main.max
    /\ \E d \in Drive :
         LET found == [msc EXCEPT ![main.m].drv_no = d]
         IN /\ IsFirst(d, Drive \ g_fat_drv_used)
            /\ g_fat_drv_used' = Used(d)
            /\ g_msc_list' = g_msc_list \cup {main.m}
            /\ \/ \E m \in Obj :
                    /\ IsFirst(m, FreeObj)
                    /\ msc' = [found EXCEPT ![m] =
                                 [iface |-> main.f, drv_no |-> NULL]]
                    /\ main' = [main EXCEPT !.lun = @ + 1, !.has = TRUE, !.m = m]
               \/ /\ msc' = found
                  /\ main' = [main EXCEPT !.lun = main.max + 1, !.has = TRUE,
                                          !.m = NULL]
    /\ UNCHANGED <<udev, ifList, iface, adrift, lost>>

\* mutant: the structure left over for the next unit is forgotten
WithoutSpareNot == msc

\* umass_init_device frees the structure left over for the next unit
WithoutSpare == [m \in Obj |-> IF m = main.m THEN NULL ELSE msc[m]]

\* ...ends with a disk found: the interface is bound
ProbeMatched ==
    /\ main.pc = "lun" /\ main.lun > main.max /\ main.has
    /\ msc' = WithoutSpare
    /\ Bound(main.f, "msc")
    /\ main' = Skipped
    /\ UNCHANGED <<udev, g_msc_list, g_fat_drv_used, lost>>

\* ...ends without: the interface is freed, the MSC_T is not
ProbeFailed ==
    /\ main.pc = "lun" /\ main.lun > main.max /\ ~main.has
    /\ iface' = [iface EXCEPT ![main.f] = NULL]
    /\ lost' = lost \cup {main.m}
    /\ main' = Skipped
    /\ UNCHANGED <<udev, ifList, msc, g_msc_list, g_fat_drv_used, adrift>>

\* every interface is parsed and no bytes are left
ParseDone ==
    /\ main.pc = "parse" /\ main.left = 0
    /\ main' = Returned
    /\ UNCHANGED <<objects, adrift, lost>>

\* no memory for an interface, a descriptor that cannot be parsed or bytes
\* after the last one: connect_device fails and its caller frees the
\* device, with the interfaces bound so far still in place;
\* usbh_reset_device just returns
ParseFailed ==
    /\ main.pc = "parse"
    /\ IF main.job = "connect"
       THEN /\ udev' = [udev EXCEPT ![main.d] = NULL]
            /\ adrift' = adrift \cup ifList[main.d]
       ELSE UNCHANGED <<udev, adrift>>
    /\ main' = Returned
    /\ UNCHANGED <<ifList, iface, msc, g_msc_list, g_fat_drv_used, lost>>

-----------------------------------------------------------------------------
(* usbh_umas_reset_disk and usbh_reset_device. *)

\* the disk with drive number drv is found; the hubs are polled first
usbh_umas_reset_disk(drv) ==
    /\ main.pc = "idle"
    /\ \E m \in g_msc_list :
         /\ msc[m].drv_no = drv
         /\ main' = [Idle EXCEPT !.pc = "poll",
                                 !.reset = iface[msc[m].iface].udev]
    /\ UNCHANGED <<objects, adrift, lost>>

\* then the interfaces of that structure are disconnected, and the requests
\* that follow fail or its configuration is parsed anew
usbh_reset_device ==
    /\ main.pc = "poll"
    /\ Disconnected(ifList[main.reset])
    /\ ifList' = [ifList EXCEPT ![main.reset] = {}]
    /\ \/ main' = Idle
       \/ \E n \in 1..MaxIf :
            main' = [Idle EXCEPT !.pc = "parse", !.job = "reset",
                                 !.d = main.reset, !.left = n]
    /\ UNCHANGED <<udev, lost>>

-----------------------------------------------------------------------------
\* usbh_umas_init, before any device is known
Init ==
    /\ udev = [d \in Dev |-> NULL]
    /\ ifList = [d \in Dev |-> {}]
    /\ iface = [f \in Iface |-> NULL]
    /\ msc = [m \in Obj |-> NULL]
    /\ g_msc_list = {} /\ g_fat_drv_used = {}
    /\ main = Idle
    /\ adrift = {} /\ lost = {}

Next ==
    \/ \E p \in Port : PollPort(p)
    \/ ParseInterface \/ msc_probe
    \/ NoMedium \/ NoDrive \/ DiskFound \/ ProbeMatched \/ ProbeFailed
    \/ ParseDone \/ ParseFailed
    \/ \E drv \in Drive : usbh_umas_reset_disk(drv)
    \/ usbh_reset_device

Spec == Init /\ [][Next]_vars

-----------------------------------------------------------------------------
(* Properties. *)

\* Every disk that FATFS can reach by a drive number (a member of
\* g_msc_list, which usbh_umas_read and the others dereference down to the
\* UDEV_T) belongs to an interface that is allocated and on the list of a
\* device structure that is, or is just being probed; the only others are
\* those of a device whose enumeration failed after they had been found,
\* or that was reset after it had gone (adrift).
MscLive ==
    \A m \in g_msc_list :
        /\ msc[m] # NULL /\ iface[msc[m].iface] # NULL
        /\ LET f == msc[m].iface
               d == iface[f].udev
           IN \/ f = main.f
              \/ f \in adrift
              \/ udev[d] # NULL /\ f \in ifList[d]

\* The drive numbers marked used are exactly those of the listed disks and
\* no two disks share one, whatever sequence of plugging, failed
\* enumerations and resets: no number is lost to the five there are, and
\* no volume is mounted over another one.
DrivesExact ==
    /\ g_fat_drv_used = {msc[m].drv_no : m \in g_msc_list}
    /\ \A m, n \in g_msc_list : m # n => msc[m].drv_no # msc[n].drv_no

\* Every MSC_T and IFACE_T that is allocated can still be reached by the
\* code that frees it; the exceptions are the structure a probe without a
\* medium leaves behind (lost) and the interfaces adrift.
NoLeak ==
    /\ \A m \in Obj : msc[m] # NULL => m \in g_msc_list \cup lost \cup {main.m}
    /\ \A f \in Iface : iface[f] # NULL =>
         \/ f \in adrift \cup {main.f}
         \/ \E d \in Dev : udev[d] # NULL /\ f \in ifList[d]

=============================================================================
