------------------------------- MODULE UsbhMem -------------------------------
(***************************************************************************)
(* The DMA memory and the device addresses of the USB host library         *)
(* (src_core/mem_alloc.c): the pool of DMA units, from which device        *)
(* structures, transfer requests and buffers are cut by first fit, and the *)
(* pool of USB device addresses.  The life of a device (alloc_device, an   *)
(* address, a configuration buffer, release) is the one connect_device and *)
(* disconnect_device (src_core/usb_core.c) give it.                        *)
(*                                                                         *)
(* An array of 0/1 flags is the set of indices whose flag is 1.  The       *)
(* pointers the library holds are a history variable: blk[s] is the number *)
(* of units of the block handed out at unit s (0: none).                   *)
(***************************************************************************)
EXTENDS Integers, FiniteSets

CONSTANTS
    DMA_MEM_UNIT_NUM,   \* units of the DMA pool
    CFD_UNITS,          \* units of a configuration buffer (MAX_DESC_BUFF_SIZE)
    MAX_DEV_ADDR,       \* largest USB device address (127)
    MaxBuf,             \* bound: largest transfer buffer asked for, in units
    MaxLost             \* bound: units or requests whose release goes uncounted

ASSUME PoolAssumption ==
    /\ DMA_MEM_UNIT_NUM \in Nat \ {0}
    /\ CFD_UNITS \in Nat \ {0}
    /\ MAX_DEV_ADDR \in Nat \ {0}
    /\ MaxBuf \in Nat \ {0}
    /\ MaxLost \in Nat

\* The pool has no room for as many whole devices as there are addresses, and
\* one more: 128 units of 1 KB, 4 of them to a configuration buffer, against 127
\* addresses.
ASSUME AddressAssumption ==
    DMA_MEM_UNIT_NUM <= MAX_DEV_ADDR * (1 + CFD_UNITS)

VARIABLES
    dmaUsed,     \* _dma_unit_used
    dmaCnt,      \* _dma_mem_used_cnt
    blk,         \* history: length of the block held at each unit
    udevs,       \* g_udev_list: the units of the listed devices
    cfd,         \* udev->cfd_buff of each listed device (NULL: NULL)
    devNum,      \* udev->dev_num of each listed device (0: default address)
    addrPool,    \* _dev_addr_pool
    deviceAddr,  \* _device_addr
    setAddr,     \* dev_num local to usbh_set_address (0: not inside it)
    enumerating, \* the device connect_device is working on (NULL: none)
    utrs,        \* units of the transfer requests handed out
    utrCnt,      \* _utr_used
    lost         \* history: units and requests released but not counted off

dmaVars == <<dmaUsed, dmaCnt, blk, lost>>
devVars == <<udevs, cfd, devNum, addrPool, deviceAddr, setAddr, enumerating>>
utrVars == <<utrs, utrCnt>>
vars    == <<dmaVars, devVars, utrVars>>

NULL      == -1
DmaUnits  == 0 .. DMA_MEM_UNIT_NUM - 1
DevAddrs  == 1 .. MAX_DEV_ADDR

Units(s, n) == s .. s + n - 1

(***************************************************************************)
(* The DMA pool.  A call of the main loop is one step: the interrupt       *)
(* handler allocates nothing here, and what it releases is not what the    *)
(* call works on.  (A handler that runs in the middle of the scan may free *)
(* a block the scan has passed, which is then not taken; no property       *)
(* depends on which of two fitting blocks is.)  The counters are the       *)
(* exception, see IrqCounts.                                               *)
(***************************************************************************)

\* Mutants of Fits: only the first, or the last, unit of the run is tested.
FitsFirst(s, wanted) ==
    s + wanted - 1 <= DMA_MEM_UNIT_NUM - wanted /\ s \notin dmaUsed

FitsLast(s, wanted) ==
    /\ s + wanted - 1 <= DMA_MEM_UNIT_NUM - wanted
    /\ s + wanted - 1 \notin dmaUsed

\* The scan of usbh_alloc_mem stops at unit NUM - wanted, so that is the last
\* unit a block may end at.
Fits(s, wanted) ==
    /\ s + wanted - 1 <= DMA_MEM_UNIT_NUM - wanted
    /\ Units(s, wanted) \cap dmaUsed = {}

FirstFit(s, wanted) ==
    /\ Fits(s, wanted)
    /\ \A t \in DmaUnits : t < s => ~ Fits(t, wanted)

\* Mutant of GetMem: one unit is counted.
GetMemCountsOne(s, wanted) ==
    /\ FirstFit(s, wanted)
    /\ dmaUsed' = dmaUsed \cup Units(s, wanted)
    /\ dmaCnt' = dmaCnt + 1
    /\ blk' = [blk EXCEPT ![s] = wanted]
    /\ UNCHANGED lost

\* usbh_alloc_mem returns unit s.  Where nothing fits it returns NULL and
\* changes nothing, and so does each of its callers below.
GetMem(s, wanted) ==
    /\ FirstFit(s, wanted)
    /\ dmaUsed' = dmaUsed \cup Units(s, wanted)
    /\ dmaCnt' = dmaCnt + wanted
    /\ blk' = [blk EXCEPT ![s] = wanted]
    /\ UNCHANGED lost

\* usbh_free_mem accepts unit p and this size.
FreeValid(p, wanted) == p \in DmaUnits /\ p + wanted <= DMA_MEM_UNIT_NUM

\* Mutant of PutMem: only the first flag is cleared.
PutMemFirst(p, wanted) ==
    /\ FreeValid(p, wanted)
    /\ dmaUsed' = dmaUsed \ {p}
    /\ dmaCnt' = dmaCnt - wanted
    /\ blk' = [blk EXCEPT ![p] = 0]
    /\ UNCHANGED lost

\* usbh_free_mem clears the flags it is told to, used or not.
PutMem(p, wanted) ==
    /\ FreeValid(p, wanted)
    /\ dmaUsed' = dmaUsed \ Units(p, wanted)
    /\ dmaCnt' = dmaCnt - wanted
    /\ blk' = [blk EXCEPT ![p] = 0]
    /\ UNCHANGED lost

\* A transfer buffer or an interface structure comes and goes.
usbh_alloc_mem ==
    /\ \E wanted \in 1 .. MaxBuf, s \in DmaUnits : GetMem(s, wanted)
    /\ UNCHANGED <<devVars, utrVars>>

usbh_free_mem ==
    /\ \E p \in DmaUnits \ (udevs \cup utrs \cup {cfd[d] : d \in udevs}) :
           blk[p] > 0 /\ PutMem(p, blk[p])
    /\ UNCHANGED <<devVars, utrVars>>

alloc_utr ==
    /\ \E s \in DmaUnits : GetMem(s, 1) /\ utrs' = utrs \cup {s}
    /\ utrCnt' = utrCnt + 1
    /\ UNCHANGED devVars

free_utr ==
    /\ \E p \in utrs : PutMem(p, 1) /\ utrs' = utrs \ {p}
    /\ utrCnt' = utrCnt - 1
    /\ UNCHANGED devVars

\* Mutant of IrqCounts: the release is counted twice.
IrqCountsTwice(n) ==
    /\ dmaCnt' = dmaCnt - 2 * n /\ utrCnt' = utrCnt - 1 /\ UNCHANGED lost

\* The handler releases n units, a request among them.  _dma_mem_used_cnt and
\* _utr_used are loaded, changed and stored with interrupts enabled: where the
\* handler comes between the load and the store of the main loop, the store
\* undoes what the handler has counted.  The call it interrupts is one on
\* another block, inside one of the two counters at most: an allocation, or the
\* release of a buffer or request taken just before, two steps that lead back to
\* the state they began in and need not be seen.
IrqCounts(n) ==
    \/ dmaCnt' = dmaCnt - n /\ utrCnt' = utrCnt - 1 /\ UNCHANGED lost
    \/ /\ lost.dma + n <= MaxLost /\ lost' = [lost EXCEPT !.dma = @ + n]
       /\ dmaCnt' = dmaCnt /\ utrCnt' = utrCnt - 1
    \/ /\ lost.utr < MaxLost /\ lost' = [lost EXCEPT !.utr = @ + 1]
       /\ dmaCnt' = dmaCnt - n /\ utrCnt' = utrCnt

\* The flags of the blocks at the units of S, and what is held there.
Release(S) ==
    /\ \A p \in S : FreeValid(p, blk[p])
    /\ dmaUsed' = dmaUsed \ UNION {Units(p, blk[p]) : p \in S}
    /\ blk' = [u \in DmaUnits |-> IF u \in S THEN 0 ELSE blk[u]]

\* A HID request that cannot be submitted again gives up its buffer and itself.
hid_read_irq ==
    /\ \E p \in DmaUnits \ (udevs \cup utrs \cup {cfd[d] : d \in udevs}), u \in utrs :
          /\ blk[p] > 0 /\ Release({p, u})
          /\ utrs' = utrs \ {u}
          /\ IrqCounts(blk[p] + 1)
    /\ UNCHANGED devVars

\* The same for the status request of a CDC device, whose buffer is its own.
cdc_int_in_irq ==
    /\ \E u \in utrs : Release({u}) /\ utrs' = utrs \ {u} /\ IrqCounts(1)
    /\ UNCHANGED devVars

(***************************************************************************)
(* Devices: the calls connect_device and its callers make, one device at a *)
(* time (both run from usbh_pooling_hubs in the main loop).                *)
(***************************************************************************)

alloc_device ==
    /\ enumerating = NULL
    /\ \E s \in DmaUnits :
          /\ GetMem(s, 1)
          /\ udevs' = udevs \cup {s}
          /\ cfd' = [cfd EXCEPT ![s] = NULL]
          /\ devNum' = [devNum EXCEPT ![s] = 0]
          /\ enumerating' = s
    /\ UNCHANGED <<addrPool, deviceAddr, setAddr, utrVars>>

\* Mutant of AddrAfter: the counter wraps one too late.
AddrAfterLate(a, n) == ((a - 1 + n) % (MAX_DEV_ADDR + 1)) + 1

\* The address n addresses after a, counting round 1 .. MAX_DEV_ADDR.
AddrAfter(a, n) == ((a - 1 + n) % MAX_DEV_ADDR) + 1

\* alloc_dev_address settles on the nth address after the last one given out.
\* With every address taken its loop never ends: the step is then disabled.
NextFreeAddr(n) ==
    /\ AddrAfter(deviceAddr, n) \notin addrPool
    /\ \A m \in DevAddrs : m < n => AddrAfter(deviceAddr, m) \in addrPool

alloc_dev_address ==
    /\ enumerating # NULL
    /\ setAddr = 0
    /\ devNum[enumerating] = 0
    /\ \E n \in DevAddrs :
          /\ NextFreeAddr(n)
          /\ deviceAddr' = AddrAfter(deviceAddr, n)
          /\ addrPool' = addrPool \cup {AddrAfter(deviceAddr, n)}
          /\ setAddr' = AddrAfter(deviceAddr, n)
    /\ UNCHANGED <<dmaVars, udevs, cfd, devNum, enumerating, utrVars>>

\* The SET ADDRESS request succeeds.
AddressSet ==
    /\ setAddr # 0
    /\ devNum' = [devNum EXCEPT ![enumerating] = setAddr]
    /\ setAddr' = 0
    /\ UNCHANGED <<dmaVars, udevs, cfd, addrPool, deviceAddr, enumerating,
                   utrVars>>

AllocCfd ==
    /\ enumerating # NULL
    /\ devNum[enumerating] # 0
    /\ cfd[enumerating] = NULL
    /\ \E s \in DmaUnits :
          /\ GetMem(s, CFD_UNITS)
          /\ cfd' = [cfd EXCEPT ![enumerating] = s]
    /\ UNCHANGED <<udevs, devNum, addrPool, deviceAddr, setAddr, enumerating,
                   utrVars>>

\* connect_device returns 0.
Connected ==
    /\ enumerating # NULL
    /\ cfd[enumerating] # NULL
    /\ enumerating' = NULL
    /\ UNCHANGED <<dmaVars, udevs, cfd, devNum, addrPool, deviceAddr, setAddr,
                   utrVars>>

\* Mutants of free_dev_address: the last address is out of range; no address
\* is given back.
free_dev_addressButLast(a) ==
    addrPool' = IF a < MAX_DEV_ADDR THEN addrPool \ {a} ELSE addrPool

free_dev_addressNot(a) == UNCHANGED addrPool

free_dev_address(a) ==
    addrPool' = IF a <= MAX_DEV_ADDR THEN addrPool \ {a} ELSE addrPool

\* free_device: the configuration buffer, if there is one, then the device.
free_device(d) ==
    /\ LET freed == Units(d, 1) \cup
                    (IF cfd[d] = NULL THEN {} ELSE Units(cfd[d], CFD_UNITS))
           n     == IF cfd[d] = NULL THEN 1 ELSE 1 + CFD_UNITS
       IN  /\ dmaUsed' = dmaUsed \ freed
           /\ dmaCnt' = dmaCnt - n
           /\ blk' = [u \in DmaUnits |-> IF u = d \/ u = cfd[d]
                                         THEN 0 ELSE blk[u]]
    /\ udevs' = udevs \ {d}
    /\ cfd' = [cfd EXCEPT ![d] = NULL]
    /\ devNum' = [devNum EXCEPT ![d] = 0]
    /\ UNCHANGED lost

\* connect_device fails at SET ADDRESS or at a later request or allocation,
\* gives the address back (the one of usbh_set_address, or the device's own)
\* and its caller releases the device.
ConnectFailed ==
    /\ enumerating # NULL
    /\ setAddr # 0 \/ devNum[enumerating] # 0
    /\ free_dev_address(IF setAddr # 0 THEN setAddr ELSE devNum[enumerating])
    /\ free_device(enumerating)
    /\ setAddr' = 0
    /\ enumerating' = NULL
    /\ UNCHANGED <<deviceAddr, utrVars>>

disconnect_device ==
    /\ enumerating = NULL
    /\ \E d \in udevs : free_dev_address(devNum[d]) /\ free_device(d)
    /\ UNCHANGED <<deviceAddr, setAddr, enumerating, utrVars>>

(***************************************************************************)
(* The specification.                                                      *)
(***************************************************************************)

\* usbh_memory_init
Init ==
    /\ dmaUsed = {} /\ dmaCnt = 0 /\ blk = [u \in DmaUnits |-> 0]
    /\ udevs = {} /\ enumerating = NULL /\ setAddr = 0
    /\ cfd = [u \in DmaUnits |-> NULL] /\ devNum = [u \in DmaUnits |-> 0]
    /\ addrPool = {} /\ deviceAddr = 1
    /\ utrs = {} /\ utrCnt = 0
    /\ lost = [dma |-> 0, utr |-> 0]

DmaNext == usbh_alloc_mem \/ usbh_free_mem \/ alloc_utr \/ free_utr
IrqNext == hid_read_irq \/ cdc_int_in_irq
DevNext == \/ alloc_device \/ alloc_dev_address \/ AddressSet \/ AllocCfd
           \/ Connected \/ ConnectFailed \/ disconnect_device

Next == DmaNext \/ IrqNext \/ DevNext

Spec == Init /\ [][Next]_vars

(***************************************************************************)
(* Properties.                                                             *)
(***************************************************************************)

TypeOK ==
    /\ dmaUsed \subseteq DmaUnits /\ dmaCnt \in Int
    /\ blk \in [DmaUnits -> 0 .. DMA_MEM_UNIT_NUM]
    /\ udevs \subseteq DmaUnits /\ enumerating \in udevs \cup {NULL}
    /\ cfd \in [DmaUnits -> DmaUnits \cup {NULL}]
    /\ devNum \in [DmaUnits -> 0 .. MAX_DEV_ADDR]
    /\ addrPool \subseteq DevAddrs /\ deviceAddr \in DevAddrs
    /\ setAddr \in 0 .. MAX_DEV_ADDR
    /\ utrs \subseteq DmaUnits /\ utrCnt \in Int
    /\ lost \in [dma : Nat, utr : Nat]

\* The blocks that usbh_alloc_mem has handed out and usbh_free_mem has not
\* taken back never share a unit: no two objects of the library overlap.
BlocksDisjoint ==
    \A s, t \in DmaUnits :
        s # t => Units(s, blk[s]) \cap Units(t, blk[t]) = {}

\* The flags of the pool say exactly which units are inside a held block, so
\* nothing held can be handed out again and nothing released is lost.
FlagsExact ==
    dmaUsed = {u \in DmaUnits : \E s \in DmaUnits : u \in Units(s, blk[s])}

\* The counters of usbh_memory_used never fall below the flags, and are above
\* them by exactly what releases in the handler have failed to count off: no
\* path of the main loop, which releases devices by fixed sizes, miscounts.
CountsNeverLow ==
    /\ dmaCnt = Cardinality(dmaUsed) + lost.dma
    /\ utrCnt = Cardinality(utrs) + lost.utr

\* usbh_memory_used reports the units that are allocated ("@return bytes count
\* of memory allocated from USB DMA memory").
CountsExact ==
    dmaCnt = Cardinality(dmaUsed) /\ utrCnt = Cardinality(utrs)

\* Every listed device owns its structure and, once it has one, a whole
\* configuration buffer of its own, which is neither a device nor a transfer
\* request: free_device, which releases both by fixed sizes, takes nothing
\* from anyone else.
DevicesOwnMemory ==
    /\ \A d \in udevs :
          /\ blk[d] = 1 /\ d \notin utrs
          /\ cfd[d] # NULL => /\ blk[cfd[d]] = CFD_UNITS
                              /\ cfd[d] \notin udevs \cup utrs
    /\ \A d, e \in udevs : d # e /\ cfd[d] # NULL => cfd[d] # cfd[e]
    /\ \A p \in utrs : blk[p] = 1

\* An address is taken exactly when a listed device answers to it or
\* usbh_set_address is about to give it to one, and two devices never answer
\* to the same address, through every failure of connect_device.
AddressesExact ==
    /\ addrPool = ({devNum[d] : d \in udevs} \cup {setAddr}) \ {0}
    /\ \A d, e \in udevs : d # e /\ devNum[d] # 0 => devNum[d] # devNum[e]
    /\ setAddr # 0 => \A d \in udevs : devNum[d] # setAddr

\* alloc_dev_address has no exit when all addresses are taken.  It is never
\* called then, because the DMA pool runs out of devices first.
AddressAvailable ==
    enumerating # NULL /\ devNum[enumerating] = 0 /\ setAddr = 0
        => addrPool # DevAddrs
==============================================================================
