----------------------------- MODULE MscProofs ------------------------------
(***************************************************************************)
(* Proofs about Msc, for any number of ports, structures, drive numbers,   *)
(* interfaces and logical units.                                           *)
(***************************************************************************)
EXTENDS Msc, TLAPS

(***************************************************************************)
(* The inductive invariant.                                                *)
(***************************************************************************)

MainRec == [pc : {"idle", "poll", "parse", "lun"},
            job : {NULL, "connect", "reset"}, reset : Dev \cup {NULL},
            d : Dev \cup {NULL}, left : Int, f : Iface \cup {NULL},
            m : Obj \cup {NULL}, lun : Nat, max : Nat, has : BOOLEAN]

\* The types of the objects and of the local variables.
TypeOK ==
    /\ udev \in [Dev -> Port \cup {NULL}]
    /\ ifList \in [Dev -> SUBSET Iface]
    /\ iface \in [Iface -> IfaceRec \cup {NULL}]
    /\ msc \in [Obj -> MscRec \cup {NULL}]
    /\ g_msc_list \subseteq Obj
    /\ adrift \subseteq Iface
    /\ main \in MainRec

\* The interface and the disk structure under probe are known to the probe
\* alone; a probe without a disk structure has found its last disk; a device
\* is parsed while it is being connected, or for a reset.
MainInv ==
    /\ main.pc # "lun" => main.f = NULL /\ main.m = NULL
    /\ main.pc = "poll" => main.reset \in Dev
    /\ main.pc \in {"parse", "lun"} => main.d \in Dev
    /\ main.pc = "lun" =>
         /\ main.f \in Iface /\ iface[main.f] # NULL
         /\ main.f \notin adrift
         /\ \A d \in Dev : main.f \notin ifList[d]
         /\ main.m = NULL => main.has /\ main.lun > main.max
    /\ main.m # NULL => /\ main.m \notin g_msc_list
                        /\ msc[main.m] # NULL /\ msc[main.m].iface = main.f

\* An interface on the list of a device structure, allocated or not, is
\* allocated and points back to it; an interface adrift is allocated too.
IfaceInv ==
    /\ \A d \in Dev : \A f \in ifList[d] : iface[f] # NULL /\ iface[f].udev = d
    /\ \A f \in adrift : iface[f] # NULL

\* A listed disk is allocated and so is its interface, which is bound to the
\* mass storage driver unless the probe that found the disk still runs.
DiskInv ==
    \A m \in g_msc_list :
        /\ msc[m] # NULL /\ msc[m].drv_no \in Drive
        /\ msc[m].iface \in Iface /\ iface[msc[m].iface] # NULL
        /\ IF msc[m].iface = main.f THEN main.has
           ELSE iface[msc[m].iface].driver = "msc"

Inv == TypeOK /\ MainInv /\ IfaceInv /\ DiskInv /\ DrivesExact /\ NoLeak

(***************************************************************************)
(* Types.                                                                  *)
(***************************************************************************)

\* NULL is no structure: neither a pointer nor the contents of one.
LEMMA NullFacts ==
    /\ NULL \notin Port /\ NULL \notin Dev /\ NULL \notin Iface /\ NULL \notin Obj
    /\ NULL \notin IfaceRec /\ NULL \notin MscRec
BY MscAssumption

\* The local variables between two calls.
LEMMA IdleType == Idle \in MainRec
BY DEF Idle, MainRec

\* A disconnection keeps the types.
LEMMA DisconnectedType ==
    ASSUME TypeOK, NEW F, Disconnected(F)
    PROVE  /\ iface' \in [Iface -> IfaceRec \cup {NULL}]
           /\ msc' \in [Obj -> MscRec \cup {NULL}]
           /\ g_msc_list' \subseteq Obj /\ adrift' \subseteq Iface
BY DEF TypeOK, Disconnected

LEMMA BoundType ==
    ASSUME TypeOK, main.d \in Dev, NEW f \in Iface, NEW driver \in {"msc", "other"},
           Bound(f, driver)
    PROVE  /\ iface' \in [Iface -> IfaceRec \cup {NULL}]
           /\ ifList' \in [Dev -> SUBSET Iface]
           /\ adrift' \subseteq Iface
BY DEF TypeOK, Bound, IfaceRec

\* The numbers of interfaces are integers.
LEMMA Lefts == \A n \in 1..MaxIf : n \in Int
BY MscAssumption

LEMMA SkippedType == ASSUME TypeOK PROVE Skipped \in MainRec
<1>1. PICK n \in Int : n = main.left - 1
  BY DEF TypeOK, MainRec
<1>2. Skipped = [main EXCEPT !.pc = "parse", !.left = n, !.f = NULL,
                             !.m = NULL, !.lun = 0, !.max = 0, !.has = FALSE]
  BY <1>1 DEF Skipped
<1> QED  BY <1>2 DEF TypeOK, MainRec

\* The two ways a port is polled: the devices on it go, and perhaps one comes.
LEMMA PollCases ==
    ASSUME NEW p \in Port, PollPort(p)
    PROVE  /\ main.pc \in {"idle", "poll"}
           /\ Disconnected(UNION {ifList[d] : d \in OnPort(p)})
           /\ lost' = lost
           /\ \/ /\ udev' = [d \in Dev |-> IF d \in OnPort(p) THEN NULL ELSE udev[d]]
                 /\ ifList' = [d \in Dev |-> IF d \in OnPort(p) THEN {} ELSE ifList[d]]
                 /\ main' = main
              \/ \E c \in Dev, n \in Int :
                   /\ udev[c] = NULL \/ c \in OnPort(p)
                   /\ udev' = [d \in Dev |-> IF d = c THEN p
                                             ELSE IF d \in OnPort(p) THEN NULL
                                             ELSE udev[d]]
                   /\ ifList' = [d \in Dev |-> IF d = c \/ d \in OnPort(p) THEN {}
                                               ELSE ifList[d]]
                   /\ main' = [main EXCEPT !.pc = "parse", !.job = "connect",
                                           !.d = c, !.left = n]
<1> DEFINE gone == [d \in Dev |-> IF d \in OnPort(p) THEN NULL ELSE udev[d]]
           none == [d \in Dev |-> IF d \in OnPort(p) THEN {} ELSE ifList[d]]
<1>1. ASSUME NEW c \in Dev, NEW n \in 1..MaxIf,
             IsFirst(c, {d \in Dev : gone[d] = NULL}),
             udev' = [gone EXCEPT ![c] = p], ifList' = [none EXCEPT ![c] = {}]
      PROVE  /\ udev[c] = NULL \/ c \in OnPort(p)
             /\ udev' = [d \in Dev |-> IF d = c THEN p
                                       ELSE IF d \in OnPort(p) THEN NULL
                                       ELSE udev[d]]
             /\ ifList' = [d \in Dev |-> IF d = c \/ d \in OnPort(p) THEN {}
                                         ELSE ifList[d]]
  BY <1>1 DEF IsFirst
<1> QED  BY <1>1, Lefts, Zenon DEF PollPort

LEMMA TypeStep == Inv /\ [Next]_vars => TypeOK'
<1> SUFFICES ASSUME TypeOK, MainInv, DiskInv, [Next]_vars PROVE TypeOK'
  BY DEF Inv
<1>0. main \in MainRec /\ Skipped \in MainRec
  BY SkippedType DEF TypeOK
<1>1. ASSUME NEW p \in Port, PollPort(p) PROVE TypeOK'
  <2>1. /\ udev' \in [Dev -> Port \cup {NULL}]
        /\ ifList' \in [Dev -> SUBSET Iface]
    <3>1. \A d \in Dev : udev[d] \in Port \cup {NULL} /\ ifList[d] \in SUBSET Iface
      BY DEF TypeOK
    <3>2. CASE /\ udev' = [d \in Dev |-> IF d \in OnPort(p) THEN NULL ELSE udev[d]]
               /\ ifList' = [d \in Dev |-> IF d \in OnPort(p) THEN {} ELSE ifList[d]]
      BY <3>1, <3>2
    <3>3. ASSUME NEW c \in Dev,
                 udev' = [d \in Dev |-> IF d = c THEN p
                                        ELSE IF d \in OnPort(p) THEN NULL
                                        ELSE udev[d]],
                 ifList' = [d \in Dev |-> IF d = c \/ d \in OnPort(p) THEN {}
                                          ELSE ifList[d]]
          PROVE  /\ udev' \in [Dev -> Port \cup {NULL}]
                 /\ ifList' \in [Dev -> SUBSET Iface]
      BY <3>1, <3>3
    <3> QED  BY <1>1, <3>2, <3>3, PollCases
  <2>2. main' \in MainRec
    <3>1. CASE main' = main
      BY <1>0, <3>1
    <3>2. ASSUME NEW c \in Dev, NEW n \in Int,
                 main' = [main EXCEPT !.pc = "parse", !.job = "connect",
                                      !.d = c, !.left = n]
          PROVE  main' \in MainRec
      BY <1>0, <3>2 DEF MainRec
    <3> QED  BY <1>1, <3>1, <3>2, PollCases
  <2> QED  BY <1>1, <2>1, <2>2, PollCases, DisconnectedType DEF TypeOK
<1>2. CASE ParseInterface
  BY <1>0, <1>2, BoundType DEF ParseInterface, TypeOK, MainInv
<1>3. CASE msc_probe
  <2>1. PICK f \in Iface, m \in Obj, n \in 0..MaxLun :
          /\ iface' = [iface EXCEPT ![f] = [udev |-> main.d, driver |-> NULL]]
          /\ msc' = [msc EXCEPT ![m] = [iface |-> f, drv_no |-> NULL]]
          /\ main' = [main EXCEPT !.pc = "lun", !.f = f, !.m = m, !.max = n]
    BY <1>3 DEF msc_probe
  <2>2. n \in Nat
    BY MscAssumption
  <2>3. main' \in MainRec
    BY <1>0, <2>1, <2>2 DEF MainRec
  <2> QED  BY <1>3, <2>1, <2>3 DEF msc_probe, TypeOK, MainInv, IfaceRec, MscRec
<1>4. CASE NoMedium \/ NoDrive
  <2>1. PICK n \in Nat : main' = [main EXCEPT !.lun = n]
    BY <1>0, <1>4 DEF NoMedium, NoDrive, MainRec
  <2>2. main' \in MainRec
    BY <1>0, <2>1 DEF MainRec
  <2> QED  BY <1>4, <2>2 DEF NoMedium, NoDrive, objects, TypeOK
<1>5. CASE DiskFound
  <2>1. PICK n \in Nat, m \in Obj \cup {NULL} :
          main' = [main EXCEPT !.lun = n, !.has = TRUE, !.m = m]
    <3>1. main.lun + 1 \in Nat /\ main.max + 1 \in Nat
      BY <1>0 DEF MainRec
    <3> QED  BY <1>5, <3>1, Zenon DEF DiskFound
  <2>2. main' \in MainRec
    BY <1>0, <2>1 DEF MainRec
  <2>3. main.m \in Obj /\ msc[main.m] \in MscRec /\ main.f \in Iface
    <3>1. main.pc = "lun" /\ ~ (main.lun > main.max)
      <4>1. main.pc = "lun" /\ main.lun <= main.max
        BY <1>5, Zenon DEF DiskFound
      <4> QED  BY <1>0, <4>1 DEF MainRec
    <3>2. main.m # NULL /\ main.f \in Iface
      BY <3>1 DEF MainInv
    <3>3. main.m \in Obj
      BY <1>0, <3>2 DEF MainRec
    <3> QED  BY <3>2, <3>3 DEF MainInv, TypeOK
  <2>4. msc' \in [Obj -> MscRec \cup {NULL}]
    <3>1. PICK d \in Drive :
            LET found == [msc EXCEPT ![main.m].drv_no = d]
            IN  \/ \E k \in Obj : msc' = [found EXCEPT ![k] =
                                  [iface |-> main.f, drv_no |-> NULL]]
                \/ msc' = found
      BY <1>5 DEF DiskFound
    <3>2. [msc EXCEPT ![main.m].drv_no = d] \in [Obj -> MscRec \cup {NULL}]
      BY <2>3 DEF TypeOK, MscRec
    <3>3. [iface |-> main.f, drv_no |-> NULL] \in MscRec
      BY <2>3 DEF MscRec
    <3> QED  BY <3>1, <3>2, <3>3
  <2> QED  BY <1>5, <2>2, <2>3, <2>4 DEF DiskFound, TypeOK
<1>6. CASE ProbeMatched
  BY <1>0, <1>6, BoundType DEF ProbeMatched, WithoutSpare, TypeOK, MainInv
<1>7. CASE ProbeFailed
  BY <1>0, <1>7 DEF ProbeFailed, TypeOK, MainInv
<1>8. CASE ParseDone \/ ParseFailed
  <2>1. main' \in MainRec
    BY <1>0, <1>8, IdleType, ZenonT(30) DEF ParseDone, ParseFailed, Returned, MainRec
  <2> QED  BY <1>8, <2>1 DEF ParseDone, ParseFailed, objects, TypeOK, MainInv
<1>9. ASSUME NEW drv \in Drive, usbh_umas_reset_disk(drv) PROVE TypeOK'
  <2>1. PICK m \in g_msc_list :
          main' = [Idle EXCEPT !.pc = "poll", !.reset = iface[msc[m].iface].udev]
    BY <1>9 DEF usbh_umas_reset_disk
  <2>2. iface[msc[m].iface].udev \in Dev
    BY DEF DiskInv, TypeOK, IfaceRec
  <2>3. main' \in MainRec
    BY <2>1, <2>2, IdleType DEF MainRec
  <2> QED  BY <1>9, <2>3 DEF usbh_umas_reset_disk, objects, TypeOK
<1>10. CASE usbh_reset_device
  <2>1. main' \in MainRec
    BY <1>0, <1>10, IdleType, Lefts DEF usbh_reset_device, MainRec, MainInv
  <2> QED  BY <1>10, <2>1, DisconnectedType DEF usbh_reset_device, TypeOK
<1>11. CASE UNCHANGED vars
  BY <1>11 DEF vars, objects, TypeOK
<1> QED  BY <1>1, <1>2, <1>3, <1>4, <1>5, <1>6, <1>7, <1>8, <1>9, <1>10, <1>11 DEF Next

(***************************************************************************)
(* Disconnection.                                                          *)
(***************************************************************************)

\* The interfaces F are freed with exactly the listed disks on them, so every
\* disk still listed has its interface and its drive number.
LEMMA DisconnectedInv ==
    ASSUME Inv, TypeOK', main.pc \in {"idle", "poll"}, main'.f = NULL,
           NEW F \in SUBSET Iface, Disconnected(F)
    PROVE  /\ DiskInv' /\ DrivesExact'
           /\ \A m \in Obj : msc'[m] # NULL => m \in g_msc_list' \cup lost
           /\ \A f \in F : iface'[f] = NULL
           /\ \A f \in Iface \ F : iface'[f] = iface[f]
           /\ adrift' = adrift \ F
<1> USE NullFacts
<1>0. /\ main.f = NULL /\ main.m = NULL
      /\ TypeOK /\ DiskInv /\ DrivesExact /\ NoLeak
  BY DEF Inv, MainInv
<1>1. \A m \in g_msc_list : m \in DisksOf(F) <=> msc[m].iface \in F
  BY <1>0 DEF DisksOf, DiskInv
<1>2. /\ \A f \in F : iface'[f] = NULL
      /\ \A f \in Iface \ F : iface'[f] = iface[f]
      /\ adrift' = adrift \ F
  BY DEF Disconnected
<1>3. \A m \in g_msc_list' : /\ m \in g_msc_list /\ m \in Obj
                             /\ msc'[m] = msc[m] /\ msc[m].iface \notin F
  BY <1>0, <1>1 DEF Disconnected, TypeOK
<1>4. DiskInv'
  BY <1>0, <1>2, <1>3 DEF DiskInv
<1>5. DrivesExact'
  <2>1. g_fat_drv_used' = {msc[m].drv_no : m \in g_msc_list}
                             \ {msc[m].drv_no : m \in DisksOf(F)}
    BY <1>0 DEF Disconnected, DrivesExact
  <2>2. DisksOf(F) \subseteq g_msc_list /\ g_msc_list' = g_msc_list \ DisksOf(F)
    BY DEF Disconnected, DisksOf
  <2>3. \A m, n \in g_msc_list : m # n => msc[m].drv_no # msc[n].drv_no
    BY <1>0 DEF DrivesExact
  <2>4. g_fat_drv_used' = {msc[m].drv_no : m \in g_msc_list'}
    BY <2>1, <2>2, <2>3
  <2> QED  BY <1>3, <2>2, <2>3, <2>4 DEF DrivesExact
<1>6. \A m \in Obj : msc'[m] # NULL => m \in g_msc_list' \cup lost
  BY <1>0 DEF Disconnected, NoLeak
<1> QED  BY <1>2, <1>4, <1>5, <1>6

\* A poll of a port: the devices on it go, and one that comes has no interface
\* yet, even if it takes the memory of one that just went.
LEMMA PollPortInv == ASSUME Inv, TypeOK', NEW p \in Port, PollPort(p) PROVE Inv'
<1> USE NullFacts
<1> DEFINE F == UNION {ifList[d] : d \in OnPort(p)}
<1>0. /\ TypeOK /\ MainInv /\ IfaceInv /\ NoLeak /\ DiskInv
      /\ main.f = NULL /\ main.m = NULL /\ main.pc \in {"idle", "poll"}
  BY PollCases DEF Inv, MainInv
<1>1. /\ main'.f = NULL /\ main'.m = NULL
      /\ main'.pc # "lun"
      /\ main'.pc = "poll" => main'.reset \in Dev
      /\ main'.pc = "parse" => main'.d \in Dev
  <2>1. CASE main' = main
    BY <1>0, <2>1 DEF MainInv
  <2>2. ASSUME NEW c \in Dev, NEW n \in Int,
               main' = [main EXCEPT !.pc = "parse", !.job = "connect",
                                    !.d = c, !.left = n]
        PROVE  /\ main'.f = NULL /\ main'.m = NULL
               /\ main'.pc = "parse" /\ main'.d \in Dev
    BY <1>0, <2>2 DEF TypeOK, MainRec
  <2> QED  BY <2>1, <2>2, PollCases
<1>2. F \in SUBSET Iface /\ Disconnected(F)
  <2>1. F \in SUBSET Iface
    BY <1>0 DEF TypeOK, OnPort
  <2> QED  BY <2>1, PollCases, Zenon
<1>3. /\ DiskInv' /\ DrivesExact'
      /\ \A m \in Obj : msc'[m] # NULL => m \in g_msc_list' \cup lost
      /\ \A f \in F : iface'[f] = NULL
      /\ \A f \in Iface \ F : iface'[f] = iface[f]
      /\ adrift' = adrift \ F
  BY <1>0, <1>1, <1>2, DisconnectedInv
<1>4. /\ lost' = lost
      /\ \A d \in Dev : \/ /\ ifList'[d] = {}
                           /\ udev[d] = NULL \/ d \in OnPort(p)
                        \/ /\ ifList'[d] = ifList[d] /\ udev'[d] = udev[d]
                           /\ d \notin OnPort(p)
  <2>1. CASE /\ udev' = [d \in Dev |-> IF d \in OnPort(p) THEN NULL ELSE udev[d]]
             /\ ifList' = [d \in Dev |-> IF d \in OnPort(p) THEN {} ELSE ifList[d]]
    BY <2>1, PollCases
  <2>2. ASSUME NEW c \in Dev, udev[c] = NULL \/ c \in OnPort(p),
               udev' = [d \in Dev |-> IF d = c THEN p
                                      ELSE IF d \in OnPort(p) THEN NULL
                                      ELSE udev[d]],
               ifList' = [d \in Dev |-> IF d = c \/ d \in OnPort(p) THEN {}
                                        ELSE ifList[d]]
        PROVE  \A d \in Dev : \/ /\ ifList'[d] = {}
                                 /\ udev[d] = NULL \/ d \in OnPort(p)
                              \/ /\ ifList'[d] = ifList[d] /\ udev'[d] = udev[d]
                                 /\ d \notin OnPort(p)
    BY <2>2
  <2> QED  BY <2>1, <2>2, PollCases
<1>5. \A d \in Dev \ OnPort(p) : ifList[d] \cap F = {}
  BY <1>0 DEF IfaceInv, OnPort
<1>6. IfaceInv'
  <2>1. \A d \in Dev : \A f \in ifList'[d] : f \in Iface \ F /\ f \in ifList[d]
    BY <1>0, <1>4, <1>5 DEF TypeOK
  <2> QED  BY <1>0, <1>3, <2>1 DEF IfaceInv, TypeOK
<1>7. MainInv'
  BY <1>1 DEF MainInv
<1>8. NoLeak'
  <2>1. ASSUME NEW f \in Iface, iface'[f] # NULL
        PROVE  f \in adrift' \/ \E d \in Dev : udev'[d] # NULL /\ f \in ifList'[d]
    <3>1. f \notin F /\ iface[f] # NULL /\ f # main.f
      BY <1>0, <1>3, <2>1
    <3>2. CASE f \in adrift
      BY <1>3, <3>1, <3>2
    <3>3. ASSUME NEW d \in Dev, udev[d] # NULL, f \in ifList[d]
          PROVE  udev'[d] # NULL /\ f \in ifList'[d]
      BY <1>4, <3>1, <3>3 DEF OnPort
    <3> QED  BY <1>0, <3>1, <3>2, <3>3 DEF NoLeak
  <2> QED  BY <1>3, <1>4, <2>1 DEF NoLeak
<1> QED  BY <1>3, <1>6, <1>7, <1>8 DEF Inv

\* usbh_reset_device takes the interfaces of the structure off, whether a
\* device still owns it or not.
LEMMA ResetDeviceInv == ASSUME Inv, TypeOK', usbh_reset_device PROVE Inv'
<1> USE NullFacts
<1> DEFINE F == ifList[main.reset]
<1>0. /\ TypeOK /\ MainInv /\ IfaceInv /\ NoLeak /\ DiskInv
      /\ main.f = NULL /\ main.pc = "poll" /\ main.reset \in Dev
  BY DEF Inv, MainInv, usbh_reset_device
<1>1. /\ main'.f = NULL /\ main'.m = NULL
      /\ main'.pc \in {"idle", "parse"}
      /\ main'.pc = "parse" => main'.d \in Dev
  <2>1. CASE main' = Idle
    BY <2>1 DEF Idle
  <2>2. ASSUME NEW n, main' = [Idle EXCEPT !.pc = "parse", !.job = "reset",
                                           !.d = main.reset, !.left = n]
        PROVE  /\ main'.f = NULL /\ main'.m = NULL
               /\ main'.pc = "parse" /\ main'.d \in Dev
    BY <1>0, <2>2 DEF Idle
  <2> QED  BY <2>1, <2>2 DEF usbh_reset_device
<1>2. F \in SUBSET Iface /\ Disconnected(F)
  BY <1>0 DEF usbh_reset_device, TypeOK
<1>3. /\ DiskInv' /\ DrivesExact'
      /\ \A m \in Obj : msc'[m] # NULL => m \in g_msc_list' \cup lost
      /\ \A f \in F : iface'[f] = NULL
      /\ \A f \in Iface \ F : iface'[f] = iface[f]
      /\ adrift' = adrift \ F
  BY <1>0, <1>1, <1>2, DisconnectedInv
<1>4. /\ lost' = lost /\ udev' = udev
      /\ ifList'[main.reset] = {}
      /\ \A d \in Dev \ {main.reset} : ifList'[d] = ifList[d]
  BY <1>0 DEF usbh_reset_device, TypeOK
<1>5. \A d \in Dev \ {main.reset} : ifList[d] \cap F = {}
  BY <1>0 DEF IfaceInv
<1>6. IfaceInv'
  <2>1. \A d \in Dev : \A f \in ifList'[d] : f \in Iface \ F /\ f \in ifList[d]
    BY <1>0, <1>4, <1>5 DEF TypeOK
  <2> QED  BY <1>0, <1>3, <2>1 DEF IfaceInv, TypeOK
<1>7. MainInv'
  BY <1>1 DEF MainInv
<1>8. NoLeak'
  <2>1. ASSUME NEW f \in Iface, iface'[f] # NULL
        PROVE  f \in adrift' \/ \E d \in Dev : udev'[d] # NULL /\ f \in ifList'[d]
    <3>1. f \notin F /\ iface[f] # NULL /\ f # main.f
      BY <1>0, <1>3, <2>1
    <3> QED  BY <1>0, <1>3, <1>4, <3>1 DEF NoLeak
  <2> QED  BY <1>3, <1>4, <2>1 DEF NoLeak
<1> QED  BY <1>3, <1>6, <1>7, <1>8 DEF Inv

(***************************************************************************)
(* Parsing and probing.                                                    *)
(***************************************************************************)

\* After an interface nothing is under probe.
LEMMA SkippedFacts ==
    ASSUME TypeOK, main' = Skipped
    PROVE  /\ main'.pc = "parse" /\ main'.d = main.d
           /\ main'.f = NULL /\ main'.m = NULL
BY DEF TypeOK, MainRec, Skipped

\* An interface that is on no list is put on the one of the device being parsed.
LEMMA BoundInv ==
    ASSUME Inv, main.d \in Dev, NEW f \in Iface, NEW driver \in {"msc", "other"},
           \A d \in Dev : f \notin ifList[d], f \notin adrift,
           Bound(f, driver)
    PROVE  /\ iface'[f] # NULL /\ iface'[f].driver = driver
           /\ \A g \in Iface \ {f} : iface'[g] = iface[g]
           /\ \A d \in Dev : ifList[d] \subseteq ifList'[d]
           /\ IfaceInv' /\ adrift \subseteq adrift'
           /\ f \in adrift' \/ (udev[main.d] # NULL /\ f \in ifList'[main.d])
<1> USE NullFacts
<1>0. TypeOK /\ IfaceInv
  BY DEF Inv
<1>1. [udev |-> main.d, driver |-> driver] \in IfaceRec
  BY DEF IfaceRec
<1>2. /\ iface'[f] = [udev |-> main.d, driver |-> driver]
      /\ \A g \in Iface \ {f} : iface'[g] = iface[g]
  BY <1>0 DEF Bound, TypeOK
<1>3. /\ ifList'[main.d] = ifList[main.d] \cup {f}
      /\ \A d \in Dev \ {main.d} : ifList'[d] = ifList[d]
  BY <1>0 DEF Bound, TypeOK
<1>4. adrift' = IF udev[main.d] = NULL THEN adrift \cup {f} ELSE adrift
  BY DEF Bound
<1>5. iface'[f] # NULL /\ iface'[f].driver = driver /\ iface'[f].udev = main.d
  BY <1>1, <1>2
<1>6. IfaceInv'
  <2>1. \A d \in Dev : \A g \in ifList'[d] : iface'[g] # NULL /\ iface'[g].udev = d
    BY <1>0, <1>2, <1>3, <1>5 DEF IfaceInv, TypeOK
  <2>2. \A g \in adrift' : iface'[g] # NULL
    BY <1>0, <1>2, <1>4, <1>5 DEF IfaceInv, TypeOK
  <2> QED  BY <2>1, <2>2 DEF IfaceInv
<1> QED  BY <1>2, <1>3, <1>4, <1>5, <1>6

\* A free interface is on no list and under no disk.
LEMMA FreeIfaceFacts ==
    ASSUME Inv, NEW f \in FreeIface
    PROVE  /\ f \in Iface /\ f \notin adrift
           /\ \A d \in Dev : f \notin ifList[d]
           /\ \A m \in g_msc_list : msc[m].iface # f
BY DEF Inv, IfaceInv, DiskInv, FreeIface

LEMMA ParseInterfaceInv == ASSUME Inv, TypeOK', ParseInterface PROVE Inv'
<1> USE NullFacts
<1>0. /\ TypeOK /\ MainInv /\ IfaceInv /\ NoLeak /\ DiskInv /\ DrivesExact
      /\ main.f = NULL /\ main.m = NULL /\ main.d \in Dev
  BY DEF Inv, MainInv, ParseInterface
<1>1. /\ main'.pc = "parse" /\ main'.d = main.d
      /\ main'.f = NULL /\ main'.m = NULL
  BY <1>0, SkippedFacts DEF ParseInterface
<1>2. PICK f \in FreeIface : UNCHANGED <<ifList, iface, adrift>> \/ Bound(f, "other")
  BY DEF ParseInterface, IsFirst
<1>3. UNCHANGED <<udev, msc, g_msc_list, g_fat_drv_used, lost>>
  BY DEF ParseInterface
<1>4. MainInv'
  BY <1>0, <1>1 DEF MainInv
<1>5. DrivesExact'
  BY <1>0, <1>3 DEF DrivesExact
<1>6. CASE UNCHANGED <<ifList, iface, adrift>>
  BY <1>0, <1>1, <1>3, <1>4, <1>5, <1>6 DEF Inv, IfaceInv, DiskInv, NoLeak
<1>7. CASE Bound(f, "other")
  <2>1. /\ f \in Iface
        /\ iface'[f] # NULL
        /\ \A g \in Iface \ {f} : iface'[g] = iface[g]
        /\ \A d \in Dev : ifList[d] \subseteq ifList'[d]
        /\ IfaceInv' /\ adrift \subseteq adrift'
        /\ f \in adrift' \/ (udev[main.d] # NULL /\ f \in ifList'[main.d])
        /\ \A m \in g_msc_list : msc[m].iface # f
    BY <1>0, <1>7, BoundInv, FreeIfaceFacts
  <2>2. DiskInv'
    BY <1>0, <1>1, <1>3, <2>1 DEF DiskInv
  <2>3. NoLeak'
    BY <1>0, <1>1, <1>3, <2>1 DEF NoLeak
  <2> QED  BY <1>4, <1>5, <2>1, <2>2, <2>3 DEF Inv
<1> QED  BY <1>2, <1>6, <1>7

LEMMA MscProbeInv == ASSUME Inv, TypeOK', msc_probe PROVE Inv'
<1> USE NullFacts
<1>0. /\ TypeOK /\ MainInv /\ IfaceInv /\ NoLeak /\ DiskInv /\ DrivesExact
      /\ main.f = NULL /\ main.m = NULL /\ main.d \in Dev
  BY DEF Inv, MainInv, msc_probe
<1>1. PICK f \in Iface, m \in Obj, n \in 0..MaxLun :
         /\ IsFirst(f, FreeIface) /\ IsFirst(m, FreeObj)
         /\ iface' = [iface EXCEPT ![f] = [udev |-> main.d, driver |-> NULL]]
         /\ msc' = [msc EXCEPT ![m] = [iface |-> f, drv_no |-> NULL]]
         /\ main' = [main EXCEPT !.pc = "lun", !.f = f, !.m = m, !.max = n]
  BY DEF msc_probe
<1> f \in FreeIface /\ m \in FreeObj
  BY <1>1 DEF IsFirst
<1>2. UNCHANGED <<udev, ifList, g_msc_list, g_fat_drv_used, adrift, lost>>
  BY DEF msc_probe
<1>3. /\ main'.pc = "lun" /\ main'.f = f /\ main'.m = m /\ main'.d = main.d
  BY <1>0, <1>1 DEF TypeOK, MainRec
<1>4. /\ f \in Iface /\ f \notin adrift
      /\ \A d \in Dev : f \notin ifList[d]
      /\ \A k \in g_msc_list : msc[k].iface # f
  BY FreeIfaceFacts
<1>5. m \in Obj /\ m \notin g_msc_list
  BY <1>0 DEF FreeObj, DiskInv
<1>6. /\ iface'[f] # NULL /\ \A g \in Iface \ {f} : iface'[g] = iface[g]
  <2>1. [udev |-> main.d, driver |-> NULL] \in IfaceRec
    BY <1>0 DEF IfaceRec
  <2> QED  BY <1>0, <1>1, <1>4, <2>1 DEF TypeOK
<1>7. /\ msc'[m] # NULL /\ msc'[m].iface = f
      /\ \A k \in Obj \ {m} : msc'[k] = msc[k]
  <2>1. [iface |-> f, drv_no |-> NULL] \in MscRec
    BY <1>4 DEF MscRec
  <2> QED  BY <1>0, <1>1, <1>5, <2>1 DEF TypeOK
<1>8. MainInv'
  BY <1>0, <1>2, <1>3, <1>4, <1>5, <1>6, <1>7 DEF MainInv
<1>9. IfaceInv'
  BY <1>0, <1>2, <1>4, <1>6 DEF IfaceInv, TypeOK
<1>10. DiskInv'
  BY <1>0, <1>2, <1>3, <1>4, <1>5, <1>6, <1>7 DEF DiskInv, TypeOK
<1>11. DrivesExact'
  BY <1>0, <1>2, <1>5, <1>7 DEF DrivesExact, TypeOK
<1>12. NoLeak'
  BY <1>0, <1>2, <1>3, <1>6, <1>7 DEF NoLeak
<1> QED  BY <1>8, <1>9, <1>10, <1>11, <1>12 DEF Inv

\* The loop over the units goes on without a disk found.
LEMMA NoDiskInv == ASSUME Inv, TypeOK', NoMedium \/ NoDrive PROVE Inv'
<1> USE NullFacts
<1>0. /\ TypeOK /\ MainInv /\ IfaceInv /\ NoLeak /\ DiskInv /\ DrivesExact
  BY DEF Inv
<1>1. PICK n : main' = [main EXCEPT !.lun = n]
  BY Zenon DEF NoMedium, NoDrive
<1>2. main.pc = "lun" /\ UNCHANGED <<objects, adrift, lost>> /\ main.lun <= main.max
  BY DEF NoMedium, NoDrive
<1>3. /\ main'.pc = main.pc /\ main'.f = main.f /\ main'.m = main.m
      /\ main'.d = main.d /\ main'.has = main.has
  BY <1>0, <1>1 DEF TypeOK, MainRec
<1>4. main.m # NULL
  BY <1>0, <1>2 DEF MainInv, TypeOK, MainRec
<1>5. MainInv'
  BY <1>0, <1>2, <1>3, <1>4 DEF MainInv, objects
<1> QED  BY <1>0, <1>2, <1>3, <1>5 DEF Inv, IfaceInv, DiskInv, DrivesExact, NoLeak, objects

LEMMA DiskFoundInv == ASSUME Inv, TypeOK', DiskFound PROVE Inv'
<1> USE NullFacts
<1>0. /\ TypeOK /\ MainInv /\ IfaceInv /\ NoLeak /\ DiskInv /\ DrivesExact
  BY DEF Inv
<1>1. main.pc = "lun" /\ main.lun <= main.max
  BY Zenon DEF DiskFound
<1>2. /\ main.m \in Obj /\ main.m \notin g_msc_list /\ main.f \in Iface
      /\ msc[main.m] # NULL /\ msc[main.m].iface = main.f
      /\ msc[main.m] \in MscRec
  <2>1. ~ (main.lun > main.max)
    BY <1>0, <1>1 DEF TypeOK, MainRec
  <2>2. main.m # NULL /\ main.f \in Iface
    BY <1>0, <1>1, <2>1 DEF MainInv
  <2>3. main.m \in Obj
    BY <1>0, <2>2 DEF TypeOK, MainRec
  <2> QED  BY <1>0, <2>2, <2>3 DEF MainInv, TypeOK
<1>3. UNCHANGED <<udev, ifList, iface, adrift, lost>>
  BY DEF DiskFound
<1>4. PICK d \in Drive :
        LET found == [msc EXCEPT ![main.m].drv_no = d]
        IN /\ d \notin g_fat_drv_used
           /\ g_fat_drv_used' = g_fat_drv_used \cup {d}
           /\ g_msc_list' = g_msc_list \cup {main.m}
           /\ \/ \E m \in FreeObj :
                   /\ msc' = [found EXCEPT ![m] = [iface |-> main.f, drv_no |-> NULL]]
                   /\ main' = [main EXCEPT !.lun = @ + 1, !.has = TRUE, !.m = m]
              \/ /\ msc' = found
                 /\ main' = [main EXCEPT !.lun = main.max + 1, !.has = TRUE, !.m = NULL]
  BY DEF DiskFound, IsFirst, Used
<1>5. /\ main'.pc = "lun" /\ main'.f = main.f /\ main'.d = main.d /\ main'.has
  <2>1. PICK n, m : main' = [main EXCEPT !.lun = n, !.has = TRUE, !.m = m]
    BY <1>4, Zenon
  <2> QED  BY <1>0, <1>1, <2>1 DEF TypeOK, MainRec
<1> DEFINE Listed ==
             /\ msc'[main.m] # NULL /\ msc'[main.m].iface = main.f
             /\ msc'[main.m].drv_no = d
             /\ \A k \in g_msc_list : msc'[k] = msc[k]
             /\ \A k \in Obj : msc'[k] # NULL => msc[k] # NULL \/ k = main'.m
             /\ \/ main'.m = NULL /\ main'.lun > main'.max
                \/ /\ main'.m \in FreeObj /\ main'.m # main.m
                   /\ msc'[main'.m] # NULL /\ msc'[main'.m].iface = main.f
<1>6. Listed
  <2> DEFINE found == [msc EXCEPT ![main.m].drv_no = d]
  <2>1. /\ found \in [Obj -> MscRec \cup {NULL}]
        /\ found[main.m] \in MscRec /\ found[main.m].iface = main.f
        /\ found[main.m].drv_no = d
        /\ \A k \in Obj \ {main.m} : found[k] = msc[k]
    BY <1>0, <1>2 DEF TypeOK, MscRec
  <2>2. CASE /\ msc' = found
             /\ main' = [main EXCEPT !.lun = main.max + 1, !.has = TRUE, !.m = NULL]
    <3>1. main'.m = NULL /\ main'.lun = main.max + 1 /\ main'.max = main.max
      BY <1>0, <2>2 DEF TypeOK, MainRec
    <3>2. main'.lun > main'.max
      BY <1>0, <3>1 DEF TypeOK, MainRec
    <3> HIDE DEF found
    <3> QED  BY <1>0, <1>2, <2>1, <2>2, <3>1, <3>2 DEF TypeOK
  <2>3. ASSUME NEW m \in FreeObj,
               msc' = [found EXCEPT ![m] = [iface |-> main.f, drv_no |-> NULL]],
               main' = [main EXCEPT !.lun = @ + 1, !.has = TRUE, !.m = m]
        PROVE  Listed
    <3>1. main'.m = m
      BY <1>0, <2>3 DEF TypeOK, MainRec
    <3>2. [iface |-> main.f, drv_no |-> NULL] \in MscRec
      BY <1>2 DEF MscRec
    <3>3. m \in Obj /\ m # main.m /\ m \notin g_msc_list
      BY <1>0, <1>2 DEF FreeObj, DiskInv
    <3> HIDE DEF found
    <3> QED  BY <1>0, <1>2, <2>1, <2>3, <3>1, <3>2, <3>3 DEF TypeOK
  <2> QED  BY <1>4, <2>2, <2>3
<1>7. /\ d \notin g_fat_drv_used /\ g_fat_drv_used' = g_fat_drv_used \cup {d}
       /\ g_msc_list' = g_msc_list \cup {main.m}
  BY <1>4
<1>8. MainInv'
  BY <1>0, <1>1, <1>3, <1>5, <1>6, <1>7 DEF MainInv, FreeObj, DiskInv
<1>9. DiskInv'
  <2>1. iface[main.f] # NULL
    BY <1>0, <1>1 DEF MainInv
  <2> QED  BY <1>0, <1>2, <1>3, <1>5, <1>6, <1>7, <2>1 DEF DiskInv
<1>10. DrivesExact'
  <2>1. \A k \in g_msc_list : msc[k].drv_no # d
    BY <1>0, <1>7 DEF DrivesExact
  <2>2. \A m, n \in g_msc_list' : m # n => msc'[m].drv_no # msc'[n].drv_no
    BY <1>0, <1>7, <1>6, <2>1 DEF DrivesExact
  <2>3. g_fat_drv_used' = {msc'[m].drv_no : m \in g_msc_list'}
    BY <1>0, <1>7, <1>6 DEF DrivesExact
  <2> QED  BY <2>2, <2>3 DEF DrivesExact
<1>11. NoLeak'
  BY <1>0, <1>3, <1>7, <1>5, <1>6 DEF NoLeak
<1> QED  BY <1>0, <1>3, <1>8, <1>9, <1>10, <1>11 DEF Inv, IfaceInv

LEMMA ProbeMatchedInv == ASSUME Inv, TypeOK', ProbeMatched PROVE Inv'
<1> USE NullFacts
<1>0. /\ TypeOK /\ MainInv /\ IfaceInv /\ NoLeak /\ DiskInv /\ DrivesExact
      /\ main.pc = "lun" /\ main.f \in Iface /\ main.d \in Dev
  BY DEF Inv, MainInv, ProbeMatched
<1>1. /\ main'.pc = "parse" /\ main'.d = main.d
      /\ main'.f = NULL /\ main'.m = NULL
  BY <1>0, SkippedFacts DEF ProbeMatched
<1>2. UNCHANGED <<udev, g_msc_list, g_fat_drv_used, lost>>
  BY DEF ProbeMatched
<1>3. /\ iface'[main.f] # NULL /\ iface'[main.f].driver = "msc"
      /\ \A g \in Iface \ {main.f} : iface'[g] = iface[g]
      /\ \A d \in Dev : ifList[d] \subseteq ifList'[d]
      /\ IfaceInv' /\ adrift \subseteq adrift'
      /\ main.f \in adrift' \/ (udev[main.d] # NULL /\ main.f \in ifList'[main.d])
  <2>1. main.f \notin adrift /\ \A d \in Dev : main.f \notin ifList[d]
    BY <1>0 DEF MainInv
  <2> QED  BY <1>0, <2>1, BoundInv DEF ProbeMatched
<1>4. \A m \in Obj : msc'[m] = IF m = main.m THEN NULL ELSE msc[m]
  BY DEF ProbeMatched, WithoutSpare
<1>5. main.m \notin g_msc_list
  BY <1>0 DEF MainInv, TypeOK
<1>6. MainInv'
  BY <1>0, <1>1 DEF MainInv
<1>7. DiskInv'
  BY <1>0, <1>1, <1>2, <1>3, <1>4, <1>5 DEF DiskInv, TypeOK
<1>8. DrivesExact'
  BY <1>0, <1>2, <1>4, <1>5 DEF DrivesExact, TypeOK
<1>9. NoLeak'
  BY <1>0, <1>1, <1>2, <1>3, <1>4 DEF NoLeak
<1> QED  BY <1>3, <1>6, <1>7, <1>8, <1>9 DEF Inv

LEMMA ProbeFailedInv == ASSUME Inv, TypeOK', ProbeFailed PROVE Inv'
<1> USE NullFacts
<1>0. /\ TypeOK /\ MainInv /\ IfaceInv /\ NoLeak /\ DiskInv /\ DrivesExact
      /\ main.pc = "lun" /\ main.f \in Iface /\ main.d \in Dev /\ ~ main.has
  BY DEF Inv, MainInv, ProbeFailed
<1>1. /\ main'.pc = "parse" /\ main'.d = main.d
      /\ main'.f = NULL /\ main'.m = NULL
  BY <1>0, SkippedFacts DEF ProbeFailed
<1>2. /\ UNCHANGED <<udev, ifList, msc, g_msc_list, g_fat_drv_used, adrift>>
      /\ lost' = lost \cup {main.m}
      /\ iface'[main.f] = NULL /\ \A g \in Iface \ {main.f} : iface'[g] = iface[g]
  BY <1>0 DEF ProbeFailed, TypeOK
<1>3. MainInv'
  BY <1>0, <1>1 DEF MainInv
<1>4. IfaceInv'
  BY <1>0, <1>2 DEF IfaceInv, MainInv, TypeOK
<1>5. DiskInv'
  BY <1>0, <1>1, <1>2 DEF DiskInv, TypeOK
<1>6. DrivesExact'
  BY <1>0, <1>2 DEF DrivesExact
<1>7. NoLeak'
  BY <1>0, <1>1, <1>2 DEF NoLeak
<1> QED  BY <1>3, <1>4, <1>5, <1>6, <1>7 DEF Inv

\* usbh_parse_configuration returns.  If it failed for a device being connected
\* the structure is freed, and its interfaces are adrift.
LEMMA ParseEndsInv == ASSUME Inv, TypeOK', ParseDone \/ ParseFailed PROVE Inv'
<1> USE NullFacts
<1>0. /\ TypeOK /\ MainInv /\ IfaceInv /\ NoLeak /\ DiskInv /\ DrivesExact
      /\ main.pc = "parse" /\ main.f = NULL /\ main.m = NULL /\ main.d \in Dev
  BY DEF Inv, MainInv, ParseDone, ParseFailed
<1>1. /\ main'.f = NULL /\ main'.m = NULL
      /\ main'.pc = "idle" \/ (main'.pc = "poll" /\ main'.reset \in Dev)
  <2>1. main' = Idle \/ (/\ main' = [Idle EXCEPT !.pc = "poll", !.reset = main.reset]
                        /\ main.reset # NULL)
    BY DEF ParseDone, ParseFailed, Returned
  <2>2. main.reset \in Dev \cup {NULL}
    BY <1>0 DEF TypeOK, MainRec
  <2>3. CASE main' = Idle
    <3>1. main'.f = NULL /\ main'.m = NULL /\ main'.pc = "idle"
      BY <2>3 DEF Idle
    <3> QED  BY <3>1
  <2>4. CASE /\ main' = [Idle EXCEPT !.pc = "poll", !.reset = main.reset]
             /\ main.reset # NULL
    BY <2>2, <2>4 DEF Idle
  <2> QED  BY <2>1, <2>3, <2>4
<1>2. UNCHANGED <<ifList, iface, msc, g_msc_list, g_fat_drv_used, lost>>
  BY DEF ParseDone, ParseFailed, objects
<1>3. \/ udev' = udev /\ adrift' = adrift
      \/ /\ adrift' = adrift \cup ifList[main.d]
         /\ \A d \in Dev \ {main.d} : udev'[d] = udev[d]
  BY <1>0 DEF ParseDone, ParseFailed, objects, TypeOK
<1>4. MainInv'
  BY <1>1 DEF MainInv
<1>5. IfaceInv'
  BY <1>0, <1>2, <1>3 DEF IfaceInv
<1>6. DiskInv'
  BY <1>0, <1>1, <1>2 DEF DiskInv
<1>7. DrivesExact'
  BY <1>0, <1>2 DEF DrivesExact
<1>8. NoLeak'
  BY <1>0, <1>1, <1>2, <1>3 DEF NoLeak
<1> QED  BY <1>4, <1>5, <1>6, <1>7, <1>8 DEF Inv

LEMMA ResetDiskInv ==
    ASSUME Inv, TypeOK', NEW drv \in Drive, usbh_umas_reset_disk(drv) PROVE Inv'
<1> USE NullFacts
<1>0. /\ TypeOK /\ MainInv /\ IfaceInv /\ NoLeak /\ DiskInv /\ DrivesExact
      /\ main.f = NULL /\ main.m = NULL
      /\ UNCHANGED <<objects, adrift, lost>>
  BY DEF Inv, MainInv, usbh_umas_reset_disk
<1>1. PICK m \in g_msc_list :
        main' = [Idle EXCEPT !.pc = "poll", !.reset = iface[msc[m].iface].udev]
  BY DEF usbh_umas_reset_disk
<1>2. iface[msc[m].iface].udev \in Dev
  BY <1>0 DEF DiskInv, TypeOK, IfaceRec
<1>3. main'.f = NULL /\ main'.m = NULL /\ main'.pc = "poll" /\ main'.reset \in Dev
  BY <1>1, <1>2 DEF Idle
<1> QED
  BY <1>0, <1>3 DEF Inv, MainInv, IfaceInv, DiskInv, DrivesExact, NoLeak, objects

(***************************************************************************)
(* The theorems.                                                           *)
(***************************************************************************)

LEMMA InitInv == Init => Inv
<1> SUFFICES ASSUME Init PROVE Inv
  OBVIOUS
<1>1. TypeOK
  BY IdleType DEF Init, TypeOK
<1> QED  BY <1>1 DEF Init, Inv, Idle, MainInv, IfaceInv, DiskInv, DrivesExact, NoLeak

LEMMA NextInv == Inv /\ [Next]_vars => Inv'
<1> SUFFICES ASSUME Inv, [Next]_vars PROVE Inv'
  OBVIOUS
<1>1. TypeOK'
  BY TypeStep
<1>2. CASE UNCHANGED vars
  BY <1>1, <1>2 DEF vars, objects, Inv, MainInv, IfaceInv, DiskInv, DrivesExact, NoLeak
<1>3. CASE Next
  BY <1>1, <1>3, PollPortInv, ParseInterfaceInv, MscProbeInv, NoDiskInv, DiskFoundInv,
     ProbeMatchedInv, ProbeFailedInv, ParseEndsInv, ResetDiskInv, ResetDeviceInv
     DEF Next
<1> QED  BY <1>2, <1>3

\* Types, ownership of interfaces and disks, and drive numbers are an invariant
\* of plugging, failed enumerations, probes and resets in any order.
THEOREM InvHolds == Spec => []Inv
BY InitInv, NextInv, PTL DEF Spec

\* Every disk that FATFS can reach belongs to an interface that is allocated and
\* that a device structure owns, is being probed or is adrift.
THEOREM MscLiveAlways == Spec => []MscLive
<1>1. Inv => MscLive
  BY NullFacts DEF Inv, IfaceInv, DiskInv, NoLeak, MscLive
<1> QED  BY <1>1, InvHolds, PTL

\* Drive numbers are neither shared nor lost.
THEOREM DrivesExactAlways == Spec => []DrivesExact
<1>1. Inv => DrivesExact
  BY DEF Inv
<1> QED  BY <1>1, InvHolds, PTL

\* No disk structure and no interface is lost but for the two cases of the code.
THEOREM NoLeakAlways == Spec => []NoLeak
<1>1. Inv => NoLeak
  BY DEF Inv
<1> QED  BY <1>1, InvHolds, PTL
=============================================================================
