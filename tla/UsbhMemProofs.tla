---------------------------- MODULE UsbhMemProofs ----------------------------
(***************************************************************************)
(* Proofs about UsbhMem, for every size of the pool, of a configuration    *)
(* buffer and of the address space.                                        *)
(***************************************************************************)
EXTENDS UsbhMem, FiniteSetTheorems, TLAPS

(***************************************************************************)
(* The inductive invariant.                                                *)
(***************************************************************************)

\* usbh_set_address has an address in hand only for the device being
\* enumerated, which answers to none yet.
SetAddrInv == setAddr # 0 => enumerating # NULL /\ devNum[enumerating] = 0

\* A device with a configuration buffer has its address.
CfdInv == \A d \in udevs : cfd[d] # NULL => devNum[d] # 0

\* A block lies inside the pool.
BlocksInPool == \A s \in DmaUnits : Units(s, blk[s]) \subseteq DmaUnits

PoolInv == BlocksInPool /\ BlocksDisjoint /\ FlagsExact
Inv     == TypeOK /\ PoolInv /\ DevicesOwnMemory /\ CfdInv /\ SetAddrInv
           /\ AddressesExact

DmaTypeOK == /\ dmaUsed \subseteq DmaUnits /\ dmaCnt \in Int
             /\ blk \in [DmaUnits -> 0 .. DMA_MEM_UNIT_NUM]
             /\ lost \in [dma : Nat, utr : Nat]

(***************************************************************************)
(* The operations on the pool.                                             *)
(***************************************************************************)

\* Counting round 1 .. MAX_DEV_ADDR, as alloc_dev_address does, stays inside.
LEMMA AddrAfterType ==
    ASSUME NEW a \in DevAddrs, NEW n \in DevAddrs
    PROVE  AddrAfter(a, n) \in DevAddrs
BY PoolAssumption DEF AddrAfter, DevAddrs

\* What usbh_alloc_mem hands out was free, lies in the pool and keeps the pool
\* in order.
LEMMA GetMemPool ==
    ASSUME TypeOK, PoolInv, NEW s \in DmaUnits, NEW wanted \in Nat \ {0},
           GetMem(s, wanted)
    PROVE  blk[s] = 0 /\ DmaTypeOK' /\ PoolInv'
<1>1. /\ Units(s, wanted) \subseteq DmaUnits
      /\ wanted \in 0 .. DMA_MEM_UNIT_NUM
      /\ Units(s, wanted) \cap dmaUsed = {}
      /\ s \in Units(s, wanted)
  BY PoolAssumption DEF GetMem, FirstFit, Fits, Units, DmaUnits
<1>2. blk[s] = 0
  <2>1. SUFFICES ASSUME blk[s] # 0 PROVE s \in dmaUsed
    BY <1>1
  <2>2. s \in Units(s, blk[s])
    BY <2>1 DEF TypeOK, Units, DmaUnits
  <2> QED  BY <2>2 DEF PoolInv, FlagsExact
<1>3. DmaTypeOK'
  BY <1>1, PoolAssumption DEF GetMem, TypeOK, DmaTypeOK
<1>4. BlocksDisjoint'
  <2> SUFFICES ASSUME NEW x \in DmaUnits, NEW y \in DmaUnits, x # y
               PROVE  Units(x, blk'[x]) \cap Units(y, blk'[y]) = {}
    BY DEF BlocksDisjoint, Units
  <2>1. \A z \in DmaUnits : Units(z, blk[z]) \subseteq dmaUsed \cup (Int \ DmaUnits)
    BY DEF PoolInv, FlagsExact, TypeOK, Units, DmaUnits
  <2>2. \A z \in DmaUnits : Units(z, blk[z]) \cap Units(s, wanted) = {}
    BY <2>1, <1>1
  <2>3. \A z \in DmaUnits : blk'[z] = IF z = s THEN wanted ELSE blk[z]
    BY DEF GetMem, TypeOK
  <2> QED  BY <2>2, <2>3 DEF PoolInv, BlocksDisjoint
<1>5. FlagsExact'
  <2>1. \A z \in DmaUnits : blk'[z] = IF z = s THEN wanted ELSE blk[z]
    BY DEF GetMem, TypeOK
  <2>2. \A u : u \notin Units(s, blk[s])
    BY <1>2 DEF Units, DmaUnits
  <2>3. dmaUsed' = dmaUsed \cup Units(s, wanted)
    BY DEF GetMem
  <2>4. \A u \in DmaUnits : (\E z \in DmaUnits : u \in Units(z, blk'[z]))
           <=> u \in Units(s, wanted) \/ \E z \in DmaUnits : u \in Units(z, blk[z])
    BY <2>1, <2>2
  <2> QED  BY <1>1, <2>3, <2>4 DEF PoolInv, FlagsExact, Units
<1>6. BlocksInPool'
  <2>1. \A z \in DmaUnits : blk'[z] = IF z = s THEN wanted ELSE blk[z]
    BY DEF GetMem, TypeOK
  <2> QED  BY <2>1, <1>1 DEF PoolInv, BlocksInPool, Units
<1> QED  BY <1>2, <1>3, <1>4, <1>5, <1>6 DEF PoolInv

\* Releasing whole blocks, the ones that start at the units of S, keeps the
\* pool in order.
LEMMA ReleasePool ==
    ASSUME TypeOK, PoolInv, NEW S \in SUBSET DmaUnits,
           dmaCnt' \in Int, lost' \in [dma : Nat, utr : Nat],
           dmaUsed' = dmaUsed \ UNION {Units(p, blk[p]) : p \in S},
           blk' = [u \in DmaUnits |-> IF u \in S THEN 0 ELSE blk[u]]
    PROVE  DmaTypeOK' /\ PoolInv'
<1>1. DmaTypeOK'
  BY PoolAssumption DEF TypeOK, DmaTypeOK
<1>2. \A u : \A z \in DmaUnits : u \in Units(z, blk'[z])
                                   <=> z \notin S /\ u \in Units(z, blk[z])
  BY DEF Units, DmaUnits
<1>3. BlocksDisjoint'
  <2> SUFFICES ASSUME NEW x \in DmaUnits, NEW y \in DmaUnits, x # y
               PROVE  Units(x, blk'[x]) \cap Units(y, blk'[y]) = {}
    BY DEF BlocksDisjoint, Units
  <2>1. Units(x, blk[x]) \cap Units(y, blk[y]) = {}
    BY DEF PoolInv, BlocksDisjoint
  <2> QED  BY <1>2, <2>1
<1>4. FlagsExact'
  <2>1. \A u \in DmaUnits : u \in dmaUsed <=> \E z \in DmaUnits : u \in Units(z, blk[z])
    BY DEF PoolInv, FlagsExact
  <2>2. \A u \in DmaUnits, y, z \in DmaUnits :
           u \in Units(y, blk[y]) /\ u \in Units(z, blk[z]) => y = z
    BY DEF PoolInv, BlocksDisjoint
  <2>3. \A u : u \in dmaUsed' <=> u \in dmaUsed /\ \A p \in S : u \notin Units(p, blk[p])
    OBVIOUS
  <2>4. \A u \in DmaUnits : u \in dmaUsed'
           <=> \E z \in DmaUnits : z \notin S /\ u \in Units(z, blk[z])
    BY <2>1, <2>2, <2>3
  <2>5. \A u \in DmaUnits : u \in dmaUsed' <=> \E z \in DmaUnits : u \in Units(z, blk'[z])
    BY <2>4, <1>2
  <2>6. dmaUsed' \subseteq DmaUnits
    BY DEF TypeOK
  <2> QED  BY <2>5, <2>6 DEF FlagsExact, Units
<1>5. BlocksInPool'
  BY <1>2 DEF PoolInv, BlocksInPool, Units
<1> QED  BY <1>1, <1>3, <1>4, <1>5 DEF PoolInv

\* usbh_free_mem, called with a block's own size.
LEMMA PutMemPool ==
    ASSUME TypeOK, PoolInv, NEW p \in DmaUnits, PutMem(p, blk[p])
    PROVE  DmaTypeOK' /\ PoolInv'
<1>1. dmaUsed' = dmaUsed \ UNION {Units(q, blk[q]) : q \in {p}}
  BY DEF PutMem
<1>2. blk' = [u \in DmaUnits |-> IF u \in {p} THEN 0 ELSE blk[u]]
  BY DEF PutMem, TypeOK
<1>3. dmaCnt' \in Int /\ lost' \in [dma : Nat, utr : Nat]
  BY PoolAssumption DEF PutMem, TypeOK
<1> QED  BY <1>1, <1>2, <1>3, ReleasePool

\* free_device releases the two blocks of the device and nothing else.
LEMMA FreeDevicePool ==
    ASSUME TypeOK, PoolInv, DevicesOwnMemory, NEW d \in udevs, free_device(d)
    PROVE  DmaTypeOK' /\ PoolInv'
<1> DEFINE S == {d} \cup ({cfd[d]} \ {NULL})
<1>1. S \in SUBSET DmaUnits
  BY DEF TypeOK
<1>2. blk[d] = 1 /\ (cfd[d] # NULL => blk[cfd[d]] = CFD_UNITS)
  BY DEF DevicesOwnMemory
<1>3. dmaUsed' = dmaUsed \ UNION {Units(p, blk[p]) : p \in S}
  <2>1. UNION {Units(p, blk[p]) : p \in S}
          = Units(d, 1) \cup (IF cfd[d] = NULL THEN {} ELSE Units(cfd[d], CFD_UNITS))
    BY <1>2
  <2> QED  BY <2>1 DEF free_device
<1>4. blk' = [u \in DmaUnits |-> IF u \in S THEN 0 ELSE blk[u]]
  <2>1. \A u \in DmaUnits : u # NULL
    BY PoolAssumption DEF DmaUnits, NULL
  <2>2. \A u \in DmaUnits : u \in S <=> (u = d \/ u = cfd[d])
    BY <2>1
  <2> QED  BY <2>2 DEF free_device
<1>5. dmaCnt' \in Int /\ lost' \in [dma : Nat, utr : Nat]
  BY PoolAssumption DEF free_device, TypeOK
<1> HIDE DEF S
<1> QED  BY <1>1, <1>3, <1>4, <1>5, ReleasePool

\* What the handler counts, or fails to, are still numbers.
LEMMA IrqCountsType ==
    ASSUME TypeOK, NEW n \in Nat, IrqCounts(n)
    PROVE  dmaCnt' \in Int /\ utrCnt' \in Int /\ lost' \in [dma : Nat, utr : Nat]
BY DEF IrqCounts, TypeOK

\* A release in the handler names whole blocks: a request and, for HID, the
\* buffer that is nobody else's.
LEMMA IrqReleases ==
    ASSUME Inv, IrqNext
    PROVE  \E u \in utrs, S \in SUBSET DmaUnits, n \in Nat :
              /\ Release(S) /\ utrs' = utrs \ {u} /\ IrqCounts(n)
              /\ u \in S /\ blk[u] = 1
              /\ \A p \in S : p \in udevs \/ (p \in utrs /\ p # u) \/ (\E d \in udevs : p = cfd[d])
                                => FALSE
              /\ UNCHANGED devVars
              /\ \/ S = {u} /\ n = 1
                 \/ \E p \in DmaUnits : p # u /\ S = {p, u} /\ n = blk[p] + 1
<1> USE DEF Inv
<1>d. udevs \subseteq DmaUnits /\ utrs \subseteq DmaUnits
  BY DEF TypeOK
<1>o. \A u \in utrs : blk[u] = 1 /\ u \notin udevs /\ \A d \in udevs : u # cfd[d]
  <2>1. \A u \in DmaUnits : u # NULL
    BY PoolAssumption DEF DmaUnits, NULL
  <2> QED  BY <2>1, <1>d DEF DevicesOwnMemory
<1>1. CASE hid_read_irq
  <2> PICK p \in DmaUnits \ (udevs \cup utrs \cup {cfd[d] : d \in udevs}), u \in utrs :
              /\ Release({p, u}) /\ utrs' = utrs \ {u} /\ IrqCounts(blk[p] + 1)
    BY <1>1 DEF hid_read_irq
  <2>1. blk[p] + 1 \in Nat /\ {p, u} \in SUBSET DmaUnits /\ p # u
    BY <1>d DEF TypeOK
  <2>2. UNCHANGED devVars
    BY <1>1 DEF hid_read_irq
  <2> QED  BY <2>1, <2>2, <1>o, <1>d
<1>2. CASE cdc_int_in_irq
  <2> PICK u \in utrs : Release({u}) /\ utrs' = utrs \ {u} /\ IrqCounts(1)
    BY <1>2 DEF cdc_int_in_irq
  <2>1. {u} \in SUBSET DmaUnits
    BY <1>d
  <2>2. UNCHANGED devVars
    BY <1>2 DEF cdc_int_in_irq
  <2> QED  BY <2>1, <2>2, <1>o, <1>d
<1> QED  BY <1>1, <1>2 DEF IrqNext

(***************************************************************************)
(* Every step keeps the invariant: first the pool, then the devices, then  *)
(* the addresses.                                                          *)
(***************************************************************************)

\* A block that usbh_alloc_mem hands out is nobody's yet.
LEMMA FreshBlock ==
    ASSUME TypeOK, DevicesOwnMemory, NEW s \in DmaUnits, blk[s] = 0
    PROVE  s \notin udevs /\ s \notin utrs /\ \A d \in udevs : cfd[d] # s
<1>1. s # NULL /\ CFD_UNITS # 0
  BY PoolAssumption DEF DmaUnits, NULL
<1> QED  BY <1>1 DEF DevicesOwnMemory

\* Every operation keeps the types and the pool of DMA units in order.
LEMMA PoolStep ==
    ASSUME Inv, Next
    PROVE  TypeOK' /\ PoolInv'
<1> USE DEF Inv
<1>1. CASE usbh_alloc_mem
  <2> PICK wanted \in 1 .. MaxBuf, s \in DmaUnits : GetMem(s, wanted)
    BY <1>1 DEF usbh_alloc_mem
  <2>1. wanted \in Nat \ {0}
    BY PoolAssumption
  <2>2. DmaTypeOK' /\ PoolInv'
    BY <2>1, GetMemPool
  <2> QED  BY <2>2, <1>1 DEF usbh_alloc_mem, devVars, utrVars, TypeOK, DmaTypeOK
<1>2. CASE usbh_free_mem
  <2> PICK p \in DmaUnits : PutMem(p, blk[p])
    BY <1>2 DEF usbh_free_mem
  <2>1. DmaTypeOK' /\ PoolInv'
    BY PutMemPool
  <2> QED  BY <2>1, <1>2 DEF usbh_free_mem, devVars, utrVars, TypeOK, DmaTypeOK
<1>3. CASE alloc_utr
  <2> PICK s \in DmaUnits : GetMem(s, 1) /\ utrs' = utrs \cup {s}
    BY <1>3 DEF alloc_utr
  <2>1. DmaTypeOK' /\ PoolInv'
    BY GetMemPool
  <2> QED  BY <2>1, <1>3 DEF alloc_utr, devVars, TypeOK, DmaTypeOK
<1>4. CASE free_utr
  <2> PICK p \in utrs : PutMem(p, 1) /\ utrs' = utrs \ {p}
    BY <1>4 DEF free_utr
  <2>1. p \in DmaUnits /\ blk[p] = 1
    BY DEF TypeOK, DevicesOwnMemory
  <2>2. DmaTypeOK' /\ PoolInv'
    BY <2>1, PutMemPool
  <2> QED  BY <2>2, <1>4 DEF free_utr, devVars, TypeOK, DmaTypeOK
<1>5. CASE alloc_device
  <2> PICK s \in DmaUnits : /\ GetMem(s, 1)
                            /\ udevs' = udevs \cup {s}
                            /\ cfd' = [cfd EXCEPT ![s] = NULL]
                            /\ devNum' = [devNum EXCEPT ![s] = 0]
                            /\ enumerating' = s
    BY <1>5 DEF alloc_device
  <2>1. DmaTypeOK' /\ PoolInv'
    BY GetMemPool
  <2>2. 0 \in 0 .. MAX_DEV_ADDR
    BY PoolAssumption
  <2> QED  BY <2>1, <2>2, <1>5 DEF alloc_device, utrVars, TypeOK, DmaTypeOK
<1>6. CASE alloc_dev_address
  <2> PICK n \in DevAddrs : /\ deviceAddr' = AddrAfter(deviceAddr, n)
                            /\ addrPool' = addrPool \cup {AddrAfter(deviceAddr, n)}
                            /\ setAddr' = AddrAfter(deviceAddr, n)
    BY <1>6 DEF alloc_dev_address
  <2>1. AddrAfter(deviceAddr, n) \in DevAddrs
    BY AddrAfterType DEF TypeOK
  <2>2. DevAddrs \subseteq 0 .. MAX_DEV_ADDR
    BY DEF DevAddrs
  <2>3. UNCHANGED <<dmaVars, udevs, cfd, devNum, enumerating, utrVars>>
    BY <1>6 DEF alloc_dev_address
  <2>4. PoolInv'
    BY <2>3 DEF PoolInv, BlocksInPool, BlocksDisjoint, FlagsExact, dmaVars,
                Units
  <2> QED  BY <2>1, <2>2, <2>3, <2>4 DEF TypeOK, dmaVars, utrVars
<1>7. CASE AddressSet
  <2>1. PoolInv'
    BY <1>7 DEF AddressSet, PoolInv, BlocksInPool, BlocksDisjoint, FlagsExact, dmaVars,
                Units
  <2>2. 0 \in 0 .. MAX_DEV_ADDR
    BY PoolAssumption
  <2> QED  BY <2>1, <2>2, <1>7 DEF AddressSet, TypeOK, dmaVars, utrVars
<1>8. CASE AllocCfd
  <2> PICK s \in DmaUnits : /\ GetMem(s, CFD_UNITS)
                            /\ cfd' = [cfd EXCEPT ![enumerating] = s]
    BY <1>8 DEF AllocCfd
  <2>1. DmaTypeOK' /\ PoolInv'
    BY GetMemPool, PoolAssumption
  <2> QED  BY <2>1, <1>8 DEF AllocCfd, utrVars, TypeOK, DmaTypeOK
<1>9. CASE Connected
  <2>1. PoolInv'
    BY <1>9 DEF Connected, PoolInv, BlocksInPool, BlocksDisjoint, FlagsExact, dmaVars,
                Units
  <2> QED  BY <2>1, <1>9 DEF Connected, TypeOK, dmaVars, utrVars
<1>10. CASE ConnectFailed
  <2>1. enumerating \in udevs /\ free_device(enumerating)
    BY <1>10 DEF ConnectFailed, TypeOK
  <2>2. DmaTypeOK' /\ PoolInv'
    BY <2>1, FreeDevicePool
  <2>3. addrPool' \subseteq DevAddrs
    BY <1>10 DEF ConnectFailed, free_dev_address, TypeOK
  <2>4. 0 \in 0 .. MAX_DEV_ADDR
    BY PoolAssumption
  <2>5. /\ udevs' \subseteq DmaUnits /\ cfd' \in [DmaUnits -> DmaUnits \cup {NULL}]
        /\ devNum' \in [DmaUnits -> 0 .. MAX_DEV_ADDR]
    BY <2>1, <2>4 DEF free_device, TypeOK
  <2> QED  BY <2>2, <2>3, <2>4, <2>5, <1>10
           DEF ConnectFailed, utrVars, TypeOK, DmaTypeOK
<1>11. CASE disconnect_device
  <2> PICK d \in udevs : free_dev_address(devNum[d]) /\ free_device(d)
    BY <1>11 DEF disconnect_device
  <2>1. DmaTypeOK' /\ PoolInv'
    BY FreeDevicePool
  <2>2. addrPool' \subseteq DevAddrs
    BY DEF free_dev_address, TypeOK
  <2>3. 0 \in 0 .. MAX_DEV_ADDR
    BY PoolAssumption
  <2>4. /\ udevs' \subseteq DmaUnits /\ cfd' \in [DmaUnits -> DmaUnits \cup {NULL}]
        /\ devNum' \in [DmaUnits -> 0 .. MAX_DEV_ADDR]
    BY <2>3 DEF free_device, TypeOK
  <2> QED  BY <2>1, <2>2, <2>4, <1>11
           DEF disconnect_device, utrVars, TypeOK, DmaTypeOK
<1>12. CASE IrqNext
  <2> PICK u \in utrs, S \in SUBSET DmaUnits, n \in Nat :
              /\ Release(S) /\ utrs' = utrs \ {u} /\ IrqCounts(n) /\ UNCHANGED devVars
    BY <1>12, IrqReleases
  <2>1. dmaCnt' \in Int /\ utrCnt' \in Int /\ lost' \in [dma : Nat, utr : Nat]
    BY IrqCountsType
  <2>2. DmaTypeOK' /\ PoolInv'
    BY <2>1, ReleasePool DEF Release
  <2> QED  BY <2>1, <2>2 DEF devVars, TypeOK, DmaTypeOK
<1> QED  BY <1>1, <1>2, <1>3, <1>4, <1>5, <1>6, <1>7, <1>8, <1>9, <1>10, <1>11, <1>12
         DEF Next, DmaNext, DevNext

\* Every operation leaves each device with the memory it owns.
LEMMA OwnStep ==
    ASSUME Inv, Next
    PROVE  DevicesOwnMemory'
<1> USE DEF Inv
<1>n. \A u \in DmaUnits : u # NULL
  BY PoolAssumption DEF DmaUnits, NULL
<1>d. udevs \subseteq DmaUnits /\ utrs \subseteq DmaUnits
  BY DEF TypeOK
<1>1. CASE usbh_alloc_mem
  <2> PICK wanted \in 1 .. MaxBuf, s \in DmaUnits : GetMem(s, wanted)
    BY <1>1 DEF usbh_alloc_mem
  <2>1. blk[s] = 0
    BY PoolAssumption, GetMemPool
  <2>2. s \notin udevs /\ s \notin utrs /\ \A d \in udevs : cfd[d] # s
    BY <2>1, FreshBlock
  <2>3. \A u \in DmaUnits : u # s => blk'[u] = blk[u]
    BY DEF GetMem, TypeOK
  <2> QED  BY <2>2, <2>3, <1>1, <1>d
           DEF usbh_alloc_mem, devVars, utrVars, DevicesOwnMemory, TypeOK
<1>2. CASE usbh_free_mem
  <2> PICK p \in DmaUnits \ (udevs \cup utrs \cup {cfd[d] : d \in udevs}) :
              PutMem(p, blk[p])
    BY <1>2 DEF usbh_free_mem
  <2>1. \A u \in DmaUnits : u # p => blk'[u] = blk[u]
    BY DEF PutMem, TypeOK
  <2> QED  BY <2>1, <1>2, <1>d
           DEF usbh_free_mem, devVars, utrVars, DevicesOwnMemory, TypeOK
<1>3. CASE alloc_utr
  <2> PICK s \in DmaUnits : GetMem(s, 1) /\ utrs' = utrs \cup {s}
    BY <1>3 DEF alloc_utr
  <2>1. s \notin udevs /\ s \notin utrs /\ \A d \in udevs : cfd[d] # s
    BY GetMemPool, FreshBlock
  <2>2. blk'[s] = 1 /\ \A u \in DmaUnits : u # s => blk'[u] = blk[u]
    BY DEF GetMem, TypeOK
  <2> QED  BY <2>1, <2>2, <1>3, <1>d DEF alloc_utr, devVars, DevicesOwnMemory, TypeOK
<1>4. CASE free_utr
  <2> PICK p \in utrs : PutMem(p, 1) /\ utrs' = utrs \ {p}
    BY <1>4 DEF free_utr
  <2>1. \A u \in DmaUnits : u # p => blk'[u] = blk[u]
    BY DEF PutMem, TypeOK
  <2> QED  BY <2>1, <1>4, <1>d DEF free_utr, devVars, DevicesOwnMemory, TypeOK
<1>5. CASE alloc_device
  <2> PICK s \in DmaUnits : /\ GetMem(s, 1)
                            /\ udevs' = udevs \cup {s}
                            /\ cfd' = [cfd EXCEPT ![s] = NULL]
    BY <1>5 DEF alloc_device
  <2>1. s \notin udevs /\ s \notin utrs /\ \A d \in udevs : cfd[d] # s
    BY GetMemPool, FreshBlock
  <2>2. blk'[s] = 1 /\ \A u \in DmaUnits : u # s => blk'[u] = blk[u]
    BY DEF GetMem, TypeOK
  <2>3. cfd'[s] = NULL /\ \A u \in DmaUnits : u # s => cfd'[u] = cfd[u]
    BY DEF TypeOK
  <2>4. utrs' = utrs
    BY <1>5 DEF alloc_device, utrVars
  <2> QED  BY <2>1, <2>2, <2>3, <2>4, <1>d DEF DevicesOwnMemory, TypeOK
<1>6. CASE alloc_dev_address
  BY <1>6 DEF alloc_dev_address, dmaVars, utrVars, DevicesOwnMemory
<1>7. CASE AddressSet
  BY <1>7 DEF AddressSet, dmaVars, utrVars, DevicesOwnMemory
<1>8. CASE AllocCfd
  <2> PICK s \in DmaUnits : /\ GetMem(s, CFD_UNITS)
                            /\ cfd' = [cfd EXCEPT ![enumerating] = s]
    BY <1>8 DEF AllocCfd
  <2>1. s \notin udevs /\ s \notin utrs /\ \A d \in udevs : cfd[d] # s
    BY GetMemPool, FreshBlock, PoolAssumption
  <2>2. blk'[s] = CFD_UNITS /\ \A u \in DmaUnits : u # s => blk'[u] = blk[u]
    BY DEF GetMem, TypeOK
  <2>3. enumerating \in udevs
    BY <1>8 DEF AllocCfd, TypeOK
  <2>4. cfd'[enumerating] = s /\ \A u \in DmaUnits : u # enumerating => cfd'[u] = cfd[u]
    BY <2>3, <1>d DEF TypeOK
  <2>5. udevs' = udevs /\ utrs' = utrs
    BY <1>8 DEF AllocCfd, utrVars
  <2> QED  BY <2>1, <2>2, <2>3, <2>4, <2>5, <1>d, <1>n DEF DevicesOwnMemory, TypeOK
<1>9. CASE Connected
  BY <1>9 DEF Connected, dmaVars, utrVars, DevicesOwnMemory
<1>10. ASSUME NEW d \in udevs, free_device(d), utrs' = utrs
       PROVE  DevicesOwnMemory'
  <2>1. udevs' = udevs \ {d}
    BY <1>10 DEF free_device
  <2>2. \A u \in DmaUnits : u # d /\ u # cfd[d] => blk'[u] = blk[u]
    BY <1>10 DEF free_device
  <2>3. \A u \in DmaUnits : u # d => cfd'[u] = cfd[u]
    BY <1>10 DEF free_device, TypeOK
  <2>4. \A e \in udevs' : e # d /\ e # cfd[d] /\ (cfd[e] # NULL => cfd[e] # d /\ cfd[e] # cfd[d])
    BY <2>1, <1>n, <1>d DEF DevicesOwnMemory
  <2>5. \A p \in utrs : p # d /\ p # cfd[d]
    BY <1>n, <1>d DEF DevicesOwnMemory
  <2> QED  BY <1>10, <2>1, <2>2, <2>3, <2>4, <2>5, <1>d DEF DevicesOwnMemory, TypeOK
<1>11. CASE ConnectFailed
  BY <1>10, <1>11 DEF ConnectFailed, TypeOK, utrVars
<1>12. CASE disconnect_device
  BY <1>10, <1>12 DEF disconnect_device, utrVars
<1>13. CASE IrqNext
  <2> PICK u \in utrs, S \in SUBSET DmaUnits :
              /\ Release(S) /\ utrs' = utrs \ {u}
              /\ \A p \in S : p \in udevs \/ (p \in utrs /\ p # u) \/ (\E d \in udevs : p = cfd[d])
                                => FALSE
              /\ UNCHANGED devVars
    BY <1>13, IrqReleases
  <2>1. \A x \in DmaUnits : x \notin S => blk'[x] = blk[x]
    BY DEF Release
  <2> QED  BY <2>1, <1>d DEF devVars, DevicesOwnMemory, TypeOK
<1> QED  BY <1>1, <1>2, <1>3, <1>4, <1>5, <1>6, <1>7, <1>8, <1>9, <1>11, <1>12, <1>13
         DEF Next, DmaNext, DevNext

\* Every operation keeps the order of enumeration: the address comes first.
LEMMA CfdStep ==
    ASSUME Inv, Next
    PROVE  CfdInv'
<1> USE DEF Inv
<1>d. udevs \subseteq DmaUnits
  BY DEF TypeOK
<1>1. CASE DmaNext \/ IrqNext
  BY <1>1 DEF DmaNext, usbh_alloc_mem, usbh_free_mem, alloc_utr, free_utr,
              IrqNext, hid_read_irq, cdc_int_in_irq, devVars, CfdInv
<1>2. CASE alloc_device
  BY <1>2, <1>d DEF alloc_device, CfdInv, TypeOK
<1>3. CASE alloc_dev_address \/ Connected
  BY <1>3 DEF alloc_dev_address, Connected, CfdInv
<1>4. CASE AddressSet
  BY <1>4, <1>d DEF AddressSet, CfdInv, TypeOK
<1>5. CASE AllocCfd
  BY <1>5, <1>d DEF AllocCfd, CfdInv, TypeOK
<1>6. ASSUME NEW d \in udevs, free_device(d) PROVE CfdInv'
  BY <1>6, <1>d DEF free_device, CfdInv, TypeOK
<1>7. CASE ConnectFailed
  BY <1>6, <1>7 DEF ConnectFailed, TypeOK
<1>8. CASE disconnect_device
  BY <1>6, <1>8 DEF disconnect_device
<1> QED  BY <1>1, <1>2, <1>3, <1>4, <1>5, <1>7, <1>8 DEF Next, DevNext

\* The addresses do not change when no device's address does.
LEMMA AddrSame ==
    ASSUME AddressesExact, SetAddrInv,
           UNCHANGED <<udevs, devNum, addrPool, setAddr, enumerating>>
    PROVE  SetAddrInv' /\ AddressesExact'
BY DEF AddressesExact, SetAddrInv

\* A device that leaves the list takes its own address, and only that one, out
\* of the pool of addresses in use.
LEMMA AddrLeaves ==
    ASSUME TypeOK, AddressesExact, NEW d \in udevs, NEW a,
           a = (IF setAddr # 0 THEN setAddr ELSE devNum[d]),
           setAddr # 0 => devNum[d] = 0,
           free_dev_address(a), free_device(d), setAddr' = 0
    PROVE  AddressesExact'
<1>1. a \in 0 .. MAX_DEV_ADDR /\ addrPool' = addrPool \ {a}
  BY PoolAssumption DEF TypeOK, free_dev_address
<1>2. udevs' = udevs \ {d} /\ \A e \in udevs' : devNum'[e] = devNum[e]
  BY DEF free_device, TypeOK
<1>3. \A e \in udevs' : devNum[e] # 0 => devNum[e] # a
  BY <1>2 DEF AddressesExact
<1>4. addrPool' = ({devNum'[e] : e \in udevs'} \cup {setAddr'}) \ {0}
  <2>1. \A x : x \in addrPool <=> x # 0 /\ (x = setAddr \/ \E e \in udevs : x = devNum[e])
    BY DEF AddressesExact
  <2>2. \A x : x \in addrPool \ {a} <=> x # 0 /\ \E e \in udevs' : x = devNum[e]
    BY <1>2, <1>3, <2>1
  <2> QED  BY <1>1, <1>2, <2>2
<1> QED  BY <1>2, <1>4 DEF AddressesExact

\* Every operation keeps the addresses exact.
LEMMA AddrStep ==
    ASSUME Inv, Next
    PROVE  SetAddrInv' /\ AddressesExact'
<1> USE DEF Inv
<1>d. udevs \subseteq DmaUnits
  BY DEF TypeOK
<1>1. CASE DmaNext \/ IrqNext
  BY <1>1, AddrSame DEF DmaNext, usbh_alloc_mem, usbh_free_mem, alloc_utr, free_utr,
                        IrqNext, hid_read_irq, cdc_int_in_irq, devVars
<1>2. CASE alloc_device
  <2> PICK s \in DmaUnits : /\ GetMem(s, 1)
                            /\ udevs' = udevs \cup {s}
                            /\ devNum' = [devNum EXCEPT ![s] = 0]
                            /\ enumerating' = s
    BY <1>2 DEF alloc_device
  <2>1. s \notin udevs
    BY GetMemPool, FreshBlock
  <2>2. devNum'[s] = 0 /\ \A e \in udevs : devNum'[e] = devNum[e]
    BY <2>1, <1>d DEF TypeOK
  <2>3. setAddr = 0 /\ setAddr' = 0 /\ addrPool' = addrPool
    BY <1>2 DEF alloc_device, SetAddrInv
  <2>4. {devNum'[e] : e \in udevs'} = {devNum[e] : e \in udevs} \cup {0}
    BY <2>2
  <2> QED  BY <2>2, <2>3, <2>4 DEF AddressesExact, SetAddrInv
<1>3. CASE alloc_dev_address
  <2> PICK n \in DevAddrs : /\ AddrAfter(deviceAddr, n) \notin addrPool
                            /\ addrPool' = addrPool \cup {AddrAfter(deviceAddr, n)}
                            /\ setAddr' = AddrAfter(deviceAddr, n)
    BY <1>3 DEF alloc_dev_address, NextFreeAddr
  <2>1. setAddr' # 0
    BY AddrAfterType DEF TypeOK, DevAddrs
  <2>2. /\ setAddr = 0 /\ enumerating' # NULL /\ devNum'[enumerating'] = 0
        /\ udevs' = udevs /\ devNum' = devNum
    BY <1>3 DEF alloc_dev_address
  <2> QED  BY <2>1, <2>2 DEF AddressesExact, SetAddrInv
<1>4. CASE AddressSet
  <2>1. enumerating \in udevs /\ devNum[enumerating] = 0
    BY <1>4 DEF AddressSet, SetAddrInv, TypeOK
  <2>2. /\ devNum'[enumerating] = setAddr
        /\ \A e \in udevs : e # enumerating => devNum'[e] = devNum[e]
    BY <1>4, <2>1, <1>d DEF AddressSet, TypeOK
  <2>3. setAddr # 0 /\ setAddr' = 0 /\ udevs' = udevs /\ addrPool' = addrPool
    BY <1>4 DEF AddressSet
  <2>4. ({devNum'[e] : e \in udevs} \cup {0}) \ {0}
          = ({devNum[e] : e \in udevs} \cup {setAddr}) \ {0}
    BY <2>1, <2>2
  <2> QED  BY <2>1, <2>2, <2>3, <2>4 DEF AddressesExact, SetAddrInv
<1>5. CASE AllocCfd
  BY <1>5, AddrSame DEF AllocCfd
<1>6. CASE Connected
  <2>1. setAddr = 0
    BY <1>6 DEF Connected, SetAddrInv, CfdInv, TypeOK
  <2> QED  BY <2>1, <1>6 DEF Connected, SetAddrInv, AddressesExact
<1>7. CASE ConnectFailed
  <2>1. enumerating \in udevs
    BY <1>7 DEF ConnectFailed, TypeOK
  <2>2. setAddr' = 0
    BY <1>7 DEF ConnectFailed
  <2>3. AddressesExact'
    BY <2>1, <1>7, AddrLeaves DEF ConnectFailed, SetAddrInv
  <2> QED  BY <2>2, <2>3 DEF SetAddrInv
<1>8. CASE disconnect_device
  <2> PICK e \in udevs : free_dev_address(devNum[e]) /\ free_device(e)
    BY <1>8 DEF disconnect_device
  <2>1. setAddr = 0 /\ setAddr' = 0
    BY <1>8 DEF disconnect_device, SetAddrInv
  <2>2. AddressesExact'
    BY <2>1, AddrLeaves
  <2> QED  BY <2>1, <2>2 DEF SetAddrInv
<1> QED  BY <1>1, <1>2, <1>3, <1>4, <1>5, <1>6, <1>7, <1>8 DEF Next, DevNext

(***************************************************************************)
(* The counters.                                                           *)
(***************************************************************************)

\* A block of n units has n units.
LEMMA UnitsCardinality ==
    ASSUME NEW p \in DmaUnits, NEW n \in Nat
    PROVE  IsFiniteSet(Units(p, n)) /\ Cardinality(Units(p, n)) = n
<1>1. p \in Int /\ p + n - 1 \in Int
  BY DEF DmaUnits
<1> QED  BY <1>1, FS_Interval DEF Units

\* The used flags are finitely many.
LEMMA UsedFinite == TypeOK => IsFiniteSet(dmaUsed) /\ IsFiniteSet(utrs)
<1>1. IsFiniteSet(DmaUnits)
  BY PoolAssumption, FS_Interval DEF DmaUnits
<1> QED  BY <1>1, FS_Subset DEF TypeOK

\* usbh_alloc_mem counts what it marks.
LEMMA GetMemCount ==
    ASSUME TypeOK, NEW s \in DmaUnits, NEW wanted \in Nat \ {0},
           GetMem(s, wanted), dmaCnt = Cardinality(dmaUsed) + lost.dma
    PROVE  dmaCnt' = Cardinality(dmaUsed') + lost'.dma /\ lost' = lost
<1>1. IsFiniteSet(dmaUsed) /\ dmaUsed \cap Units(s, wanted) = {}
  BY UsedFinite DEF GetMem, FirstFit, Fits
<1>2. IsFiniteSet(Units(s, wanted)) /\ Cardinality(Units(s, wanted)) = wanted
  BY UnitsCardinality
<1>3. Cardinality(dmaUsed \cup Units(s, wanted)) = Cardinality(dmaUsed) + wanted
  <2>1. Cardinality(dmaUsed \cup Units(s, wanted))
          = Cardinality(dmaUsed) + Cardinality(Units(s, wanted))
            - Cardinality(dmaUsed \cap Units(s, wanted))
    BY <1>1, <1>2, FS_Union
  <2>2. Cardinality(dmaUsed \cap Units(s, wanted)) = 0
    BY <1>1, FS_EmptySet
  <2>3. Cardinality(dmaUsed) \in Nat
    BY <1>1, FS_CardinalityType
  <2> QED  BY <2>1, <2>2, <2>3, <1>2
<1>4. Cardinality(dmaUsed) \in Nat /\ lost.dma \in Nat
  BY <1>1, FS_CardinalityType DEF TypeOK
<1> QED  BY <1>3, <1>4 DEF GetMem

\* The units of a block are all marked, so taking them away from the marked
\* units, or from those left after another block has gone, takes its length.
LEMMA ReleaseCount ==
    ASSUME TypeOK, PoolInv, NEW p \in DmaUnits, NEW V \in SUBSET dmaUsed,
           Units(p, blk[p]) \subseteq V
    PROVE  /\ IsFiniteSet(V)
           /\ Cardinality(V \ Units(p, blk[p])) = Cardinality(V) - blk[p]
<1>1. blk[p] \in Nat
  BY DEF TypeOK
<1>2. IsFiniteSet(V)
  BY UsedFinite, FS_Subset
<1>3. V \cap Units(p, blk[p]) = Units(p, blk[p])
  OBVIOUS
<1>4. Cardinality(V \ Units(p, blk[p]))
        = Cardinality(V) - Cardinality(V \cap Units(p, blk[p]))
  BY <1>2, FS_Difference
<1>5. Cardinality(Units(p, blk[p])) = blk[p]
  BY <1>1, UnitsCardinality
<1> QED  BY <1>2, <1>3, <1>4, <1>5

\* The units of a block are all marked.
LEMMA BlockMarked ==
    ASSUME TypeOK, PoolInv, NEW p \in DmaUnits
    PROVE  Units(p, blk[p]) \subseteq dmaUsed
BY DEF PoolInv, BlocksInPool, FlagsExact

\* usbh_free_mem, called with a block's own size, counts what it clears.
LEMMA PutMemCount ==
    ASSUME TypeOK, PoolInv, NEW p \in DmaUnits, PutMem(p, blk[p]),
           dmaCnt = Cardinality(dmaUsed) + lost.dma
    PROVE  dmaCnt' = Cardinality(dmaUsed') + lost'.dma /\ lost' = lost
<1>1. Cardinality(dmaUsed \ Units(p, blk[p])) = Cardinality(dmaUsed) - blk[p]
  BY BlockMarked, ReleaseCount
<1>2. Cardinality(dmaUsed) \in Nat /\ blk[p] \in Nat /\ lost.dma \in Nat
  BY UsedFinite, FS_CardinalityType DEF TypeOK
<1> QED  BY <1>1, <1>2 DEF PutMem

\* free_device counts both its blocks.
LEMMA FreeDeviceCount ==
    ASSUME TypeOK, PoolInv, DevicesOwnMemory, NEW d \in udevs, free_device(d),
           dmaCnt = Cardinality(dmaUsed) + lost.dma
    PROVE  dmaCnt' = Cardinality(dmaUsed') + lost'.dma /\ lost' = lost
<1>1. d \in DmaUnits /\ blk[d] = 1
  BY DEF TypeOK, DevicesOwnMemory
<1>2. Units(d, blk[d]) \subseteq dmaUsed
  BY <1>1, BlockMarked
<1>3. Cardinality(dmaUsed \ Units(d, 1)) = Cardinality(dmaUsed) - 1
  BY <1>1, <1>2, ReleaseCount
<1>l. lost' = lost
  BY DEF free_device
<1>n. Cardinality(dmaUsed) \in Nat /\ CFD_UNITS \in Nat /\ lost.dma \in Nat
  BY UsedFinite, FS_CardinalityType, PoolAssumption DEF TypeOK
<1>4. CASE cfd[d] = NULL
  <2>1. dmaUsed' = dmaUsed \ Units(d, 1) /\ dmaCnt' = dmaCnt - 1
    BY <1>4 DEF free_device
  <2> QED  BY <2>1, <1>3, <1>n, <1>l
<1>5. CASE cfd[d] # NULL
  <2>1. cfd[d] \in DmaUnits /\ blk[cfd[d]] = CFD_UNITS /\ cfd[d] # d
    BY <1>5 DEF TypeOK, DevicesOwnMemory
  <2>2. Units(cfd[d], CFD_UNITS) \subseteq dmaUsed
    BY <2>1, BlockMarked
  <2>3. Units(cfd[d], CFD_UNITS) \cap Units(d, 1) = {}
    BY <1>1, <2>1 DEF PoolInv, BlocksDisjoint
  <2>4. Units(cfd[d], CFD_UNITS) \subseteq dmaUsed \ Units(d, 1)
    BY <2>2, <2>3
  <2> DEFINE V == dmaUsed \ Units(d, 1)
  <2>5. Cardinality(V \ Units(cfd[d], CFD_UNITS)) = Cardinality(V) - CFD_UNITS
    BY <2>1, <2>4, ReleaseCount
  <2>6. dmaUsed' = V \ Units(cfd[d], CFD_UNITS)
    BY <1>5 DEF free_device
  <2>7. dmaCnt' = dmaCnt - (1 + CFD_UNITS)
    BY <1>5 DEF free_device
  <2> QED  BY <2>5, <2>6, <2>7, <1>n, <1>l, <1>3
<1> QED  BY <1>4, <1>5

\* Every operation keeps the counters equal to what they count and the handler
\* has lost.
LEMMA CountStep ==
    ASSUME Inv, CountsNeverLow, Next
    PROVE  CountsNeverLow'
<1> USE DEF Inv
<1>0. /\ dmaCnt = Cardinality(dmaUsed) + lost.dma
      /\ utrCnt = Cardinality(utrs) + lost.utr
  BY DEF CountsNeverLow
<1>t. /\ lost.dma \in Nat /\ lost.utr \in Nat
      /\ Cardinality(dmaUsed) \in Nat /\ Cardinality(utrs) \in Nat
  BY UsedFinite, FS_CardinalityType DEF TypeOK
<1>1. CASE usbh_alloc_mem
  <2> PICK wanted \in 1 .. MaxBuf, s \in DmaUnits : GetMem(s, wanted)
    BY <1>1 DEF usbh_alloc_mem
  <2>1. wanted \in Nat \ {0}
    BY PoolAssumption
  <2>2. dmaCnt' = Cardinality(dmaUsed') + lost'.dma /\ lost' = lost
    BY <2>1, <1>0, GetMemCount
  <2> QED  BY <2>2, <1>0, <1>1 DEF usbh_alloc_mem, utrVars, CountsNeverLow
<1>2. CASE usbh_free_mem
  <2> PICK p \in DmaUnits : PutMem(p, blk[p])
    BY <1>2 DEF usbh_free_mem
  <2>1. dmaCnt' = Cardinality(dmaUsed') + lost'.dma /\ lost' = lost
    BY <1>0, PutMemCount
  <2> QED  BY <2>1, <1>0, <1>2 DEF usbh_free_mem, utrVars, CountsNeverLow
<1>3. CASE alloc_utr
  <2> PICK s \in DmaUnits : GetMem(s, 1) /\ utrs' = utrs \cup {s}
    BY <1>3 DEF alloc_utr
  <2>1. dmaCnt' = Cardinality(dmaUsed') + lost'.dma /\ lost' = lost
    BY <1>0, GetMemCount
  <2>2. s \notin utrs
    BY GetMemPool, FreshBlock
  <2>3. Cardinality(utrs') = Cardinality(utrs) + 1
    BY <2>2, UsedFinite, FS_AddElement
  <2> QED  BY <2>1, <2>3, <1>0, <1>t, <1>3 DEF alloc_utr, CountsNeverLow
<1>4. CASE free_utr
  <2> PICK p \in utrs : PutMem(p, 1) /\ utrs' = utrs \ {p}
    BY <1>4 DEF free_utr
  <2>1. p \in DmaUnits /\ blk[p] = 1
    BY DEF TypeOK, DevicesOwnMemory
  <2>2. dmaCnt' = Cardinality(dmaUsed') + lost'.dma /\ lost' = lost
    BY <1>0, <2>1, PutMemCount
  <2>3. Cardinality(utrs') = Cardinality(utrs) - 1
    BY UsedFinite, FS_RemoveElement
  <2> QED  BY <2>2, <2>3, <1>0, <1>t, <1>4 DEF free_utr, CountsNeverLow
<1>5. CASE alloc_device
  <2> PICK s \in DmaUnits : GetMem(s, 1)
    BY <1>5 DEF alloc_device
  <2>1. dmaCnt' = Cardinality(dmaUsed') + lost'.dma /\ lost' = lost
    BY <1>0, GetMemCount
  <2> QED  BY <2>1, <1>0, <1>5 DEF alloc_device, utrVars, CountsNeverLow
<1>6. CASE AllocCfd
  <2> PICK s \in DmaUnits : GetMem(s, CFD_UNITS)
    BY <1>6 DEF AllocCfd
  <2>1. dmaCnt' = Cardinality(dmaUsed') + lost'.dma /\ lost' = lost
    BY <1>0, GetMemCount, PoolAssumption
  <2> QED  BY <2>1, <1>0, <1>6 DEF AllocCfd, utrVars, CountsNeverLow
<1>7. CASE alloc_dev_address \/ AddressSet \/ Connected
  BY <1>0, <1>7 DEF alloc_dev_address, AddressSet, Connected, dmaVars, utrVars,
                    CountsNeverLow
<1>8. CASE ConnectFailed
  <2>1. enumerating \in udevs /\ free_device(enumerating)
    BY <1>8 DEF ConnectFailed, TypeOK
  <2>2. dmaCnt' = Cardinality(dmaUsed') + lost'.dma /\ lost' = lost
    BY <2>1, <1>0, FreeDeviceCount
  <2> QED  BY <2>2, <1>0, <1>8 DEF ConnectFailed, utrVars, CountsNeverLow
<1>9. CASE disconnect_device
  <2> PICK d \in udevs : free_device(d)
    BY <1>9 DEF disconnect_device
  <2>1. dmaCnt' = Cardinality(dmaUsed') + lost'.dma /\ lost' = lost
    BY <1>0, FreeDeviceCount
  <2> QED  BY <2>1, <1>0, <1>9 DEF disconnect_device, utrVars, CountsNeverLow
<1>10. CASE IrqNext
  <2> PICK u \in utrs, S \in SUBSET DmaUnits, n \in Nat :
              /\ Release(S) /\ utrs' = utrs \ {u} /\ IrqCounts(n)
              /\ u \in S /\ blk[u] = 1
              /\ \/ S = {u} /\ n = 1
                 \/ \E p \in DmaUnits : p # u /\ S = {p, u} /\ n = blk[p] + 1
    BY <1>10, IrqReleases
  <2>1. Cardinality(utrs') = Cardinality(utrs) - 1
    BY UsedFinite, FS_RemoveElement
  <2>2. Cardinality(dmaUsed') = Cardinality(dmaUsed) - n
    <3> DEFINE V == dmaUsed \ Units(u, blk[u])
    <3>1. u \in DmaUnits
      BY DEF TypeOK
    <3>2. Cardinality(V) = Cardinality(dmaUsed) - 1
      BY <3>1, BlockMarked, ReleaseCount
    <3>3. CASE S = {u} /\ n = 1
      <4>1. dmaUsed' = V
        BY <3>3 DEF Release
      <4> QED  BY <4>1, <3>2, <3>3
    <3>4. ASSUME NEW p \in DmaUnits, p # u, S = {p, u}, n = blk[p] + 1
          PROVE  Cardinality(dmaUsed') = Cardinality(dmaUsed) - n
      <4>1. dmaUsed' = V \ Units(p, blk[p])
        BY <3>4 DEF Release
      <4>2. Units(p, blk[p]) \subseteq V
        BY <3>1, <3>4, BlockMarked DEF PoolInv, BlocksDisjoint
      <4>3. Cardinality(V \ Units(p, blk[p])) = Cardinality(V) - blk[p]
        BY <4>2, ReleaseCount
      <4>4. blk[p] \in Nat
        BY DEF TypeOK
      <4> QED  BY <4>1, <4>3, <4>4, <3>2, <3>4, <1>t
    <3> QED  BY <3>3, <3>4
  <2> QED  BY <2>1, <2>2, <1>0, <1>t DEF IrqCounts, CountsNeverLow, TypeOK
<1> QED  BY <1>1, <1>2, <1>3, <1>4, <1>5, <1>6, <1>7, <1>8, <1>9, <1>10
         DEF Next, DmaNext, DevNext

(***************************************************************************)
(* The theorems.                                                           *)
(***************************************************************************)

\* The invariant holds of the state usbh_memory_init leaves.
LEMMA InitInv == Init => Inv
<1> SUFFICES ASSUME Init PROVE Inv
  OBVIOUS
<1>1. TypeOK
  BY PoolAssumption DEF Init, TypeOK, DevAddrs
<1>2. PoolInv
  <2>1. \A u \in DmaUnits : Units(u, blk[u]) = {}
    BY DEF Init, Units, DmaUnits
  <2> QED  BY <2>1 DEF Init, PoolInv, BlocksInPool, BlocksDisjoint, FlagsExact
<1>3. DevicesOwnMemory /\ CfdInv /\ SetAddrInv /\ AddressesExact
  BY DEF Init, DevicesOwnMemory, CfdInv, SetAddrInv, AddressesExact
<1> QED  BY <1>1, <1>2, <1>3 DEF Inv

\* The invariant of the memory and address management is inductive.
THEOREM InvHolds == Spec => []Inv
<1>1. Inv /\ [Next]_vars => Inv'
  <2> SUFFICES ASSUME Inv, [Next]_vars PROVE Inv'
    OBVIOUS
  <2>1. CASE Next
    BY <2>1, PoolStep, OwnStep, CfdStep, AddrStep DEF Inv
  <2>2. CASE UNCHANGED vars
    BY <2>2 DEF vars, dmaVars, devVars, utrVars, Inv, TypeOK, PoolInv,
                BlocksInPool, BlocksDisjoint, FlagsExact, DevicesOwnMemory, CfdInv, SetAddrInv,
                AddressesExact, Units
  <2> QED  BY <2>1, <2>2
<1> QED  BY InitInv, <1>1, PTL DEF Spec

\* Type correctness, for every size of the pools.
THEOREM TypeCorrect == Spec => []TypeOK
<1>1. Inv => TypeOK
  BY DEF Inv
<1> QED  BY InvHolds, <1>1, PTL

\* No two blocks that usbh_alloc_mem has handed out overlap, whatever sequence
\* of allocations and releases led to the state of the pool.
THEOREM NoOverlap == Spec => []BlocksDisjoint
<1>1. Inv => BlocksDisjoint
  BY DEF Inv, PoolInv
<1> QED  BY InvHolds, <1>1, PTL

\* The flags of the DMA pool are exact: a unit is marked used if and only if
\* it is inside a block that somebody holds.
THEOREM FlagsAreExact == Spec => []FlagsExact
<1>1. Inv => FlagsExact
  BY DEF Inv, PoolInv
<1> QED  BY InvHolds, <1>1, PTL

\* Devices own the memory that free_device releases by fixed sizes.
THEOREM OwnMemory == Spec => []DevicesOwnMemory
<1>1. Inv => DevicesOwnMemory
  BY DEF Inv
<1> QED  BY InvHolds, <1>1, PTL

\* Device addresses are neither shared nor leaked, through every failure of
\* connect_device.
THEOREM AddressesAreExact == Spec => []AddressesExact
<1>1. Inv => AddressesExact
  BY DEF Inv
<1> QED  BY InvHolds, <1>1, PTL

\* The counters that usbh_memory_used reports never fall below what is marked,
\* and exceed it only by releases of the interrupt handler whose update a store
\* of the main loop has overwritten.
THEOREM CountsNeverLowAlways == Spec => []CountsNeverLow
<1>1. Init => CountsNeverLow
  BY FS_EmptySet DEF Init, CountsNeverLow
<1>2. Inv /\ CountsNeverLow /\ [Next]_vars => CountsNeverLow'
  <2> SUFFICES ASSUME Inv, CountsNeverLow, [Next]_vars PROVE CountsNeverLow'
    OBVIOUS
  <2>1. CASE Next
    BY <2>1, CountStep
  <2>2. CASE UNCHANGED vars
    BY <2>2 DEF vars, dmaVars, utrVars, CountsNeverLow
  <2> QED  BY <2>1, <2>2
<1> QED  BY InvHolds, <1>1, <1>2, PTL DEF Spec

(***************************************************************************)
(* The search of alloc_dev_address ends.                                   *)
(***************************************************************************)

\* A device that connect_device has left behind in the list is whole: it has
\* its configuration buffer.
WholeInv == \A d \in udevs : d # enumerating => cfd[d] # NULL

\* Devices that are whole fill the pool before they use the addresses up: each
\* has 1 + CFD_UNITS units to itself, and the new one is yet another unit.
LEMMA WholeDevicesFit ==
    ASSUME Inv, WholeInv
    PROVE  AddressAvailable
<1> SUFFICES ASSUME enumerating # NULL, devNum[enumerating] = 0, setAddr = 0,
                    addrPool = DevAddrs
             PROVE  FALSE
  BY DEF AddressAvailable
<1> DEFINE Dev(a) == CHOOSE d \in udevs : devNum[d] = a
           Cells  == 0 .. CFD_UNITS
           Rest   == DmaUnits \ {enumerating}
           Start(a, i) == IF i = 0 THEN Dev(a) ELSE cfd[Dev(a)]
           Cell(a, i)  == IF i = 0 THEN Dev(a) ELSE cfd[Dev(a)] + (i - 1)
           f == [x \in DevAddrs \X Cells |-> Cell(x[1], x[2])]
<1>1. \A a \in DevAddrs : /\ Dev(a) \in udevs /\ devNum[Dev(a)] = a
                          /\ Dev(a) # enumerating /\ cfd[Dev(a)] # NULL
  <2>1. SUFFICES ASSUME NEW a \in DevAddrs
                 PROVE  /\ Dev(a) \in udevs /\ devNum[Dev(a)] = a
                        /\ Dev(a) # enumerating /\ cfd[Dev(a)] # NULL
    OBVIOUS
  <2>2. a # 0 /\ \E d \in udevs : devNum[d] = a
    BY DEF Inv, AddressesExact, DevAddrs
  <2>3. Dev(a) \in udevs /\ devNum[Dev(a)] = a
    BY <2>2
  <2> QED  BY <2>2, <2>3 DEF WholeInv
<1> HIDE DEF Dev
<1>2. enumerating \in udevs /\ enumerating \in DmaUnits /\ blk[enumerating] = 1
  BY DEF Inv, TypeOK, DevicesOwnMemory
<1>3. \A a \in DevAddrs, i \in Cells :
         /\ Start(a, i) \in DmaUnits /\ Start(a, i) # enumerating
         /\ Cell(a, i) \in Units(Start(a, i), blk[Start(a, i)])
  <2>1. SUFFICES ASSUME NEW a \in DevAddrs, NEW i \in Cells
                 PROVE  /\ Start(a, i) \in DmaUnits /\ Start(a, i) # enumerating
                        /\ Cell(a, i) \in Units(Start(a, i), blk[Start(a, i)])
    OBVIOUS
  <2>2. /\ Dev(a) \in DmaUnits /\ blk[Dev(a)] = 1
        /\ cfd[Dev(a)] \in DmaUnits /\ blk[cfd[Dev(a)]] = CFD_UNITS
        /\ cfd[Dev(a)] # enumerating
    BY <1>1, <1>2 DEF Inv, TypeOK, DevicesOwnMemory
  <2>3. CASE i = 0
    BY <1>1, <2>2, <2>3 DEF Units, DmaUnits
  <2>4. CASE i # 0
    BY <2>2, <2>4, PoolAssumption DEF Units, DmaUnits
  <2> QED  BY <2>3, <2>4
<1>4. \A a \in DevAddrs, i \in Cells : Cell(a, i) \in Rest
  <2>1. enumerating \in Units(enumerating, blk[enumerating])
    BY <1>2 DEF Units, DmaUnits
  <2>2. BlocksInPool /\ BlocksDisjoint
    BY DEF Inv, PoolInv
  <2> HIDE DEF Start, Cell
  <2> QED  BY <1>2, <1>3, <2>1, <2>2 DEF BlocksInPool, BlocksDisjoint
<1>5. \A a, b \in DevAddrs, i, j \in Cells :
         Start(a, i) = Start(b, j) => a = b /\ (i = 0 <=> j = 0)
  <2>1. \A a, b \in DevAddrs : Dev(a) = Dev(b) => a = b
    BY <1>1
  <2>2. \A a, b \in DevAddrs : cfd[Dev(a)] # Dev(b)
    BY <1>1 DEF Inv, DevicesOwnMemory
  <2>3. \A a, b \in DevAddrs : cfd[Dev(a)] = cfd[Dev(b)] => Dev(a) = Dev(b)
    BY <1>1 DEF Inv, DevicesOwnMemory
  <2> QED  BY <2>1, <2>2, <2>3
<1>6. ASSUME NEW a \in DevAddrs, NEW b \in DevAddrs, NEW i \in Cells, NEW j \in Cells,
             Cell(a, i) = Cell(b, j)
      PROVE  a = b /\ i = j
  <2>1. Start(a, i) = Start(b, j)
    <3>1. BlocksDisjoint
      BY DEF Inv, PoolInv
    <3> HIDE DEF Start, Cell
    <3> QED  BY <1>3, <1>6, <3>1 DEF BlocksDisjoint
  <2>2. a = b /\ (i = 0 <=> j = 0)
    BY <1>5, <2>1
  <2>3. cfd[Dev(a)] \in DmaUnits
    BY <1>1 DEF Inv, TypeOK
  <2>4. cfd[Dev(a)] \in Int
    BY <2>3 DEF DmaUnits
  <2> QED  BY <1>6, <2>2, <2>4
<1> HIDE DEF Cell, Start
<1>7. f \in Injection(DevAddrs \X Cells, Rest)
  <2>1. f \in [DevAddrs \X Cells -> Rest]
    BY <1>4
  <2>2. ASSUME NEW x \in DevAddrs \X Cells, NEW y \in DevAddrs \X Cells, f[x] = f[y]
        PROVE  x = y
    <3>1. /\ x[1] \in DevAddrs /\ x[2] \in Cells /\ x = <<x[1], x[2]>>
          /\ y[1] \in DevAddrs /\ y[2] \in Cells /\ y = <<y[1], y[2]>>
      OBVIOUS
    <3>2. x[1] = y[1] /\ x[2] = y[2]
      BY <1>6, <2>2, <3>1
    <3> QED  BY <3>1, <3>2
  <2> QED  BY <2>1, <2>2 DEF Injection, IsInjective
<1>8. /\ IsFiniteSet(DevAddrs) /\ Cardinality(DevAddrs) = MAX_DEV_ADDR
      /\ IsFiniteSet(Cells) /\ Cardinality(Cells) = 1 + CFD_UNITS
      /\ IsFiniteSet(DmaUnits) /\ Cardinality(DmaUnits) = DMA_MEM_UNIT_NUM
  <2>1. IsFiniteSet(DevAddrs) /\ Cardinality(DevAddrs) = MAX_DEV_ADDR
    BY FS_Interval, PoolAssumption DEF DevAddrs
  <2>2. IsFiniteSet(Cells) /\ Cardinality(Cells) = 1 + CFD_UNITS
    BY FS_Interval, PoolAssumption
  <2>3. IsFiniteSet(DmaUnits) /\ Cardinality(DmaUnits) = DMA_MEM_UNIT_NUM
    BY FS_Interval, PoolAssumption DEF DmaUnits
  <2> QED  BY <2>1, <2>2, <2>3
<1>9. IsFiniteSet(Rest) /\ Cardinality(Rest) = DMA_MEM_UNIT_NUM - 1
  BY <1>2, <1>8, FS_RemoveElement
<1>10. Cardinality(DevAddrs \X Cells) = MAX_DEV_ADDR * (1 + CFD_UNITS)
  BY <1>8, FS_Product
<1>11. Cardinality(DevAddrs \X Cells) <= Cardinality(Rest)
  BY <1>7, <1>9, FS_Injection
<1> QED  BY <1>9, <1>10, <1>11, AddressAssumption, PoolAssumption

\* Every operation leaves the devices it does not work on whole.
LEMMA WholeStep ==
    ASSUME Inv, WholeInv, Next
    PROVE  WholeInv'
<1> USE DEF WholeInv
<1>0. TypeOK
  BY DEF Inv
<1>1. CASE DmaNext \/ IrqNext
  BY <1>1 DEF DmaNext, usbh_alloc_mem, usbh_free_mem, alloc_utr, free_utr,
              IrqNext, hid_read_irq, cdc_int_in_irq, devVars
<1>2. CASE alloc_device
  <2> PICK s \in DmaUnits : /\ udevs' = udevs \cup {s} /\ enumerating' = s
                            /\ cfd' = [cfd EXCEPT ![s] = NULL]
    BY <1>2 DEF alloc_device
  <2>1. enumerating = NULL /\ NULL \notin DmaUnits
    BY <1>2, PoolAssumption DEF alloc_device, DmaUnits, NULL
  <2> QED  BY <1>0, <2>1 DEF TypeOK
<1>3. CASE alloc_dev_address \/ AddressSet
  BY <1>3 DEF alloc_dev_address, AddressSet
<1>4. CASE AllocCfd
  BY <1>0, <1>4 DEF AllocCfd, TypeOK
<1>5. CASE Connected
  BY <1>5 DEF Connected
<1>6. CASE ConnectFailed
  BY <1>0, <1>6 DEF ConnectFailed, free_device, TypeOK
<1>7. CASE disconnect_device
  BY <1>0, <1>7 DEF disconnect_device, free_device, TypeOK
<1> QED  BY <1>1, <1>2, <1>3, <1>4, <1>5, <1>6, <1>7 DEF Next, DevNext

\* alloc_dev_address is never called with every address taken: the search, which
\* has no other way out, ends, as long as the DMA pool is too small for a device
\* more than there are addresses.
THEOREM AddressIsAvailable == Spec => []AddressAvailable
<1>1. Init => WholeInv
  BY DEF Init, WholeInv
<1>2. Inv /\ WholeInv /\ [Next]_vars => WholeInv'
  <2> SUFFICES ASSUME Inv, WholeInv, [Next]_vars PROVE WholeInv'
    OBVIOUS
  <2>1. CASE Next
    BY <2>1, WholeStep
  <2>2. CASE UNCHANGED vars
    BY <2>2 DEF vars, devVars, WholeInv
  <2> QED  BY <2>1, <2>2
<1>3. Inv /\ WholeInv => AddressAvailable
  BY WholeDevicesFit
<1> QED  BY InvHolds, <1>1, <1>2, <1>3, PTL DEF Spec
==============================================================================
