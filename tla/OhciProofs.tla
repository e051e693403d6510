----------------------------- MODULE OhciProofs -----------------------------
(***************************************************************************)
(* Proofs about Ohci, for any number of units, endpoints and TDs of a      *)
(* transfer: the safety invariants of the descriptors and of the requests. *)
(***************************************************************************)
EXTENDS Ohci, FiniteSetTheorems, SequenceTheorems, TLAPS

(***************************************************************************)
(* The inductive invariant.                                                *)
(***************************************************************************)

\* The main loop is inside a submission, or inside ohci_quit_xfer.
Sub   == main.pc \in {"alloc", "ed", "dummy", "go"}
Quits == main.pc \in {"clear", "enable", "delay"}

\* No TD is twice in the sequence.
Once(s) == \A i, j \in DOMAIN s : s[i] = s[j] => i = j

Last(s) == s[Len(s)]

\* The TDs that td_done has yet to count: those retired, without the one
\* whose callback is running.
Due == IF isr.pc = "callback" THEN Retired \ {Last(isr.todo)} ELSE Retired

\* The TDs of e that are still to be counted down, on an ED or retired.  The
\* dummy of an interrupt ED is one of them.
Owed(e) == {t \in Unit : utrOf[t] = e /\ (t \in Due \/ \E d \in Unit : t \in Elems(chain[d]))}

Dummies(e) == IF e \in IntEp /\ pipe[e] # NULL THEN 1 ELSE 0
InHand(e)  == IF e \in BulkEp /\ Sub /\ main.e = e THEN Len(main.tds) ELSE 0

\* A TD is in one place, and once.
PlaceInv ==
    /\ \A d \in Unit : Once(chain[d])
    /\ Once(main.tds) /\ Once(done) /\ Once(hcca) /\ Once(isr.todo)
    /\ \A d, f \in Unit : \A t \in Elems(chain[d]) : t \in Elems(chain[f]) => d = f
    /\ \A d \in Unit : \A t \in Elems(chain[d]) :
          t \notin Retired /\ t \notin Elems(main.tds)
    /\ \A t \in Retired : t \notin Elems(main.tds)
    /\ \A t \in Elems(done) : t \notin Elems(hcca) /\ t \notin Elems(isr.todo)
    /\ \A t \in Elems(hcca) : t \notin Elems(isr.todo)

\* A TD in a place is allocated and names the request of its place; only the
\* dummy of a new interrupt ED names none.
TdInv ==
    /\ \A t \in Retired : kind[t] = "TD" /\ utrOf[t] \in Ep
    /\ \A t \in Elems(main.tds) : kind[t] = "TD" /\ utrOf[t] = main.e
    /\ \A d \in Unit : \A t \in Elems(chain[d]) :
          /\ kind[t] = "TD"
          /\ utrOf[t] = info[d] \/ (main.pc = "go" /\ main.new /\ main.ed = d)

\* Only an ED is linked, awaits removal or has TDs, and it is its endpoint's.
EdInv ==
    /\ \A u \in Unit : chain[u] # <<>> \/ u \in Linked \cup removing => kind[u] = "ED"
    /\ \A d \in bulk : info[d] \in BulkEp /\ pipe[info[d]] = d
    /\ \A d \in intr : info[d] \in IntEp /\ pipe[info[d]] = d /\ chain[d] # <<>>
    /\ ctrlHead # NULL => info[ctrlHead] \in CtrlEp
    /\ \A d \in Unit : chain[d] # <<>> =>
          \/ d \in Linked /\ pipe[info[d]] = d
          \/ main.pc = "go" /\ main.e \in IntEp /\ main.new /\ main.ed = d /\ Len(chain[d]) = 1

\* hw_pipe is the endpoint's ED, linked if it is a bulk or interrupt one; only
\* the quit under way may still point to one that is gone.
PipeInv ==
    \A e \in Ep : pipe[e] # NULL =>
        \/ Quits /\ main.e = e /\ removing = {}
        \/ /\ kind[pipe[e]] = "ED" /\ info[pipe[e]] = e
           /\ \/ e \in CtrlEp \/ pipe[e] \in Linked
              \/ Sub /\ main.e = e /\ main.new /\ e \in BulkEp

\* An ED is removed only after a start of frame that came after ED_SKIP, when
\* the controller has left it.
FrameInv ==
    /\ skip = removing
    /\ removing \subseteq {main.ed} /\ (removing # {} => Quits)
    /\ Quits => main.ed \in Unit /\ pipe[main.e] = main.ed
    /\ main.pc \in {"clear", "enable"} => main.ed \in removing
    /\ Quits /\ removing = {} => kind[main.ed] # "ED"
    /\ sfe => main.pc = "delay"
    /\ sfe => main.ed \in removing \/ isr.pc = "remove"
    /\ isr.pc = "remove" => sfe
    /\ hc # NULL => kind[hc] = "ED" /\ ~ (Sub /\ main.new /\ main.ed = hc)
    /\ hc # NULL /\ hc \in removing /\ main.pc # "clear" =>
          "SF" \notin sts /\ isr.pc # "remove"

\* The done queue is taken before the next one is written, and the handler
\* has none left when it takes one.
QueueInv ==
    /\ "WDH" \notin sts => hcca = <<>>
    /\ isr.pc \notin {"done", "callback"} => isr.todo = <<>>
    /\ isr.pc = "callback" => isr.todo # <<>>

\* td_cnt is the number of TDs owed; the dummy of an interrupt ED makes one
\* more.
CountInv ==
    /\ \A e \in Ep : cnt[e] + Dummies(e) = Cardinality(Owed(e)) + InHand(e)
    /\ \A e \in IntEp : cnt[e] <= 1 /\ (cnt[e] = 1 => pipe[e] \in intr)

\* A request that has not been signalled is the one with TDs to count; one
\* that the client has back owes none, other than the dummy of a request that
\* its callback freed.
RequestInv ==
    /\ \A e \in Ep : calls[e] <= 1
    /\ \A e \in Ep : ~ (Sub /\ main.e = e) => (cnt[e] >= 1 <=> live[e] /\ calls[e] = 0)
    /\ \A e \in Ep \ IntEp : isDone[e] => calls[e] = 1
    /\ \A e \in CtrlEp : live[e] => main.e = e /\ main.pc # "idle"
    /\ \A e \in IntEp : pipe[e] # NULL /\ (live[e] => Sub /\ main.e = e) => e \in dropped
    /\ late \subseteq dropped

\* Where the main loop is, its local variables agree with the endpoint.
MainInv ==
    /\ main.pc # "idle" => main.e \in Ep
    /\ main.pc = "wait" => main.e \in CtrlEp
    /\ main.pc \in {"idle", "wait"} => main.ed = NULL
    /\ ~ Sub => main.tds = <<>>
    /\ Cardinality(Elems(main.tds)) = Len(main.tds)

\* Under submission: what the request has, and how far the ED is set up.
SubInv == Sub =>
    /\ live[main.e] /\ calls[main.e] = 0
    /\ main.n \in TdCounts(main.e)
    /\ cnt[main.e] = IF main.e \in BulkEp THEN Len(main.tds) ELSE 0
    /\ main.pc = "alloc" => Len(main.tds) < main.n
    /\ main.pc = "ed" /\ main.e \in BulkEp => main.tds = <<>>
    /\ main.pc \in {"dummy", "go"} \/ (main.pc = "ed" /\ main.e \notin BulkEp) =>
          Len(main.tds) = main.n
    /\ main.pc = "dummy" => main.e \in IntEp /\ main.new /\ chain[main.ed] = <<>>
    /\ main.new => main.ed \notin Linked
    /\ main.new /\ main.e \notin BulkEp => pipe[main.e] = NULL
    /\ IF main.pc \in {"dummy", "go"} \/ (main.pc = "alloc" /\ main.e \in BulkEp)
       THEN /\ main.ed \in Unit /\ kind[main.ed] = "ED" /\ info[main.ed] = main.e
            /\ pipe[main.e] = IF main.new /\ main.e \notin BulkEp THEN NULL ELSE main.ed
            /\ main.e \in IntEp /\ ~ main.new => main.ed \in intr
            /\ main.e \in IntEp /\ main.new /\ main.pc = "go" =>
                  Len(chain[main.ed]) = 1 /\ utrOf[chain[main.ed][1]] = NULL
       ELSE main.ed = NULL /\ ~ main.new

\* At the callback of an interrupt transfer its request has been signalled and
\* its ED is still there.
CallbackInv == isr.pc = "callback" =>
    LET e == utrOf[Last(isr.todo)]
    IN  /\ e \in IntEp /\ live[e] /\ calls[e] = 1 /\ pipe[e] \in intr
        /\ ~ (Sub /\ main.e = e)

\* What is not lost has a place.
KeepInv ==
    \A u \in Unit \ orphan :
        /\ kind[u] = "ED" => \/ u \in removing \/ u = main.ed
                             \/ \E e \in Ep : pipe[e] = u
        /\ kind[u] = "TD" => \/ u \in Retired \/ u \in Elems(main.tds)
                             \/ \E d \in Unit : u \in Elems(chain[d])

Inv == /\ TypeOK /\ PlaceInv /\ TdInv /\ EdInv /\ PipeInv /\ FrameInv /\ QueueInv
       /\ CountInv /\ RequestInv /\ MainInv /\ SubInv /\ CallbackInv /\ KeepInv

\* No callback has submitted a transfer while its ED was being removed, and no
\* bulk submission has freed its ED for want of memory.
Sane == again = {} /\ ~ stale

IInv == Sane => Inv

(***************************************************************************)
(* Sequences and sets.                                                     *)
(***************************************************************************)

\* The elements of a sequence are among those of its type, and only the empty
\* sequence has none.
LEMMA ElemsOf ==
    ASSUME NEW S, NEW s \in Seq(S)
    PROVE  /\ Elems(s) \in SUBSET S
           /\ Elems(s) = {} <=> s = <<>>
           /\ s = <<>> <=> Len(s) = 0
           /\ s # <<>> => Last(s) \in Elems(s) /\ Head(s) \in Elems(s)
<1>1. Elems(s) \in SUBSET S
  BY DEF Elems
<1>2. s = <<>> <=> Len(s) = 0
  OBVIOUS
<1>3. s # <<>> => Last(s) \in Elems(s) /\ Head(s) \in Elems(s)
  BY <1>2 DEF Elems, Last
<1>4. s = <<>> => Elems(s) = {}
  BY DEF Elems
<1>5. QED BY <1>1, <1>2, <1>3, <1>4

\* The empty sequence, and those of one and of two elements.
LEMMA ElemsFew ==
    /\ Elems(<<>>) = {} /\ Once(<<>>)
    /\ \A x : Elems(<<x>>) = {x} /\ Once(<<x>>) /\ Last(<<x>>) = x
    /\ \A x, y : /\ Elems(<<x, y>>) = {x, y} /\ Last(<<x, y>>) = y
                 /\ x # y => Once(<<x, y>>)
<1>1. Elems(<<>>) = {} /\ Once(<<>>)
  BY DEF Elems, Once
<1>2. ASSUME NEW x PROVE Elems(<<x>>) = {x} /\ Once(<<x>>) /\ Last(<<x>>) = x
  BY DEF Elems, Once, Last
<1>3. ASSUME NEW x, NEW y
      PROVE  /\ Elems(<<x, y>>) = {x, y} /\ Last(<<x, y>>) = y
             /\ x # y => Once(<<x, y>>)
  BY DEF Elems, Once, Last
<1>4. QED BY <1>1, <1>2, <1>3

\* The element of a sequence of one.
LEMMA OnlyElem ==
    ASSUME NEW S, NEW s \in Seq(S), Len(s) = 1
    PROVE  s[1] \in S /\ s[1] \in Elems(s)
<1>1. 1 \in DOMAIN s /\ s[1] \in S
  OBVIOUS
<1>2. QED BY <1>1 DEF Elems

\* Append adds an element at the end.
LEMMA ElemsAppend ==
    ASSUME NEW S, NEW s \in Seq(S), NEW x \in S
    PROVE  /\ Append(s, x) \in Seq(S) /\ Len(Append(s, x)) = Len(s) + 1
           /\ Elems(Append(s, x)) = Elems(s) \cup {x}
           /\ Once(s) /\ x \notin Elems(s) => Once(Append(s, x))
           /\ Last(Append(s, x)) = x
<1> DEFINE a == Append(s, x)
<1>1. /\ a \in Seq(S) /\ Len(a) = Len(s) + 1 /\ Len(s) \in Nat
      /\ DOMAIN a = 1 .. Len(s) + 1 /\ DOMAIN s = 1 .. Len(s)
      /\ \A i \in 1 .. Len(s) : a[i] = s[i]
      /\ a[Len(s) + 1] = x
  OBVIOUS
<1> HIDE DEF a
<1>2. Elems(a) = Elems(s) \cup {x}
  <2>1. ASSUME NEW y \in Elems(a) PROVE y \in Elems(s) \cup {x}
    <3>1. PICK i \in 1 .. Len(s) + 1 : y = a[i]
      BY <1>1, <2>1 DEF Elems
    <3>2. i = Len(s) + 1 \/ i \in 1 .. Len(s)
      BY <1>1
    <3>3. QED BY <1>1, <3>1, <3>2 DEF Elems
  <2>2. ASSUME NEW y \in Elems(s) PROVE y \in Elems(a)
    <3>1. PICK i \in 1 .. Len(s) : y = s[i]
      BY <1>1, <2>2 DEF Elems
    <3>2. i \in DOMAIN a /\ a[i] = y
      BY <1>1, <3>1
    <3>3. QED BY <3>2 DEF Elems
  <2>3. x \in Elems(a)
    <3>1. Len(s) + 1 \in DOMAIN a
      BY <1>1
    <3>2. QED BY <1>1, <3>1 DEF Elems
  <2>4. QED BY <2>1, <2>2, <2>3
<1>3. Once(s) /\ x \notin Elems(s) => Once(a)
  BY <1>1 DEF Once, Elems
<1>4. Last(a) = x
  BY <1>1 DEF Last
<1>5. QED BY <1>1, <1>2, <1>3, <1>4 DEF a

\* The done queue grows at its front.
LEMMA ElemsCons ==
    ASSUME NEW S, NEW s \in Seq(S), NEW x \in S
    PROVE  /\ <<x>> \o s \in Seq(S)
           /\ Elems(<<x>> \o s) = Elems(s) \cup {x}
           /\ Once(s) /\ x \notin Elems(s) => Once(<<x>> \o s)
<1> DEFINE a == <<x>> \o s
<1>1. /\ a \in Seq(S) /\ Len(a) = Len(s) + 1 /\ Len(s) \in Nat
      /\ DOMAIN a = 1 .. Len(s) + 1 /\ DOMAIN s = 1 .. Len(s)
      /\ \A i \in 1 .. Len(s) : a[i + 1] = s[i]
      /\ a[1] = x
  OBVIOUS
<1> HIDE DEF a
<1>2. Elems(a) = Elems(s) \cup {x}
  <2>1. ASSUME NEW y \in Elems(a) PROVE y \in Elems(s) \cup {x}
    <3>1. PICK i \in 1 .. Len(s) + 1 : y = a[i]
      BY <1>1, <2>1 DEF Elems
    <3>2. i = 1 \/ (i - 1 \in 1 .. Len(s) /\ a[i] = s[i - 1])
      BY <1>1
    <3>3. QED BY <1>1, <3>1, <3>2 DEF Elems
  <2>2. ASSUME NEW y \in Elems(s) PROVE y \in Elems(a)
    <3>1. PICK i \in 1 .. Len(s) : y = s[i]
      BY <1>1, <2>2 DEF Elems
    <3>2. i + 1 \in DOMAIN a /\ a[i + 1] = y
      BY <1>1, <3>1
    <3>3. QED BY <3>2 DEF Elems
  <2>3. x \in Elems(a)
    <3>1. 1 \in DOMAIN a
      BY <1>1
    <3>2. QED BY <1>1, <3>1 DEF Elems
  <2>4. QED BY <2>1, <2>2, <2>3
<1>3. Once(s) /\ x \notin Elems(s) => Once(a)
  <2>1. SUFFICES ASSUME Once(s), x \notin Elems(s), NEW i \in DOMAIN a, NEW j \in DOMAIN a,
                        a[i] = a[j]
                 PROVE  i = j
    BY DEF Once
  <2>2. \A k \in DOMAIN a : k # 1 => k - 1 \in DOMAIN s /\ a[k] = s[k - 1] /\ a[k] \in Elems(s)
    BY <1>1 DEF Elems
  <2>3. i \in Int /\ j \in Int
    BY <1>1
  <2>4. QED BY <1>1, <2>1, <2>2, <2>3 DEF Once
<1>4. QED BY <1>1, <1>2, <1>3 DEF a

\* The controller takes the first TD of an ED.
LEMMA ElemsTail ==
    ASSUME NEW S, NEW s \in Seq(S), s # <<>>, Once(s)
    PROVE  /\ Tail(s) \in Seq(S) /\ Len(Tail(s)) = Len(s) - 1
           /\ Elems(Tail(s)) = Elems(s) \ {Head(s)} /\ Once(Tail(s))
           /\ Tail(s) # <<>> => Last(Tail(s)) = Last(s)
<1> DEFINE a == Tail(s)
<1>1. /\ a \in Seq(S) /\ Len(a) = Len(s) - 1 /\ Len(s) \in Nat /\ Len(s) > 0
      /\ DOMAIN a = 1 .. Len(s) - 1 /\ DOMAIN s = 1 .. Len(s)
      /\ \A i \in 1 .. Len(s) - 1 : a[i] = s[i + 1]
      /\ Head(s) = s[1]
  OBVIOUS
<1> HIDE DEF a
<1>2. Elems(a) = Elems(s) \ {Head(s)}
  <2>1. ASSUME NEW y \in Elems(a) PROVE y \in Elems(s) \ {Head(s)}
    <3>1. PICK i \in 1 .. Len(s) - 1 : y = a[i]
      BY <1>1, <2>1 DEF Elems
    <3>2. i + 1 \in DOMAIN s /\ y = s[i + 1] /\ 1 \in DOMAIN s /\ i + 1 # 1
      BY <1>1, <3>1
    <3>3. QED BY <1>1, <3>2 DEF Elems, Once
  <2>2. ASSUME NEW y \in Elems(s), y # Head(s) PROVE y \in Elems(a)
    <3>1. PICK i \in 1 .. Len(s) : y = s[i]
      BY <1>1, <2>2 DEF Elems
    <3>2. i - 1 \in DOMAIN a /\ a[i - 1] = y
      BY <1>1, <2>2, <3>1
    <3>3. QED BY <3>2 DEF Elems
  <2>3. QED BY <2>1, <2>2
<1>3. Once(a)
  <2>1. ASSUME NEW i \in DOMAIN a, NEW j \in DOMAIN a, a[i] = a[j]
        PROVE  i = j
    <3>1. /\ i \in Int /\ i + 1 \in DOMAIN s /\ a[i] = s[i + 1]
          /\ j \in Int /\ j + 1 \in DOMAIN s /\ a[j] = s[j + 1]
      BY <1>1
    <3>2. i + 1 = j + 1
      BY <2>1, <3>1 DEF Once
    <3>3. QED BY <3>1, <3>2
  <2>2. QED BY <2>1 DEF Once
<1>4. a # <<>> => Last(a) = Last(s)
  BY <1>1 DEF Last
<1>5. QED BY <1>1, <1>2, <1>3, <1>4 DEF a

\* The handler takes the last TD of the queue, and the controller does not
\* execute the last one of an interrupt ED.
LEMMA ElemsFront ==
    ASSUME NEW S, NEW s \in Seq(S), s # <<>>, Once(s)
    PROVE  /\ SubSeq(s, 1, Len(s) - 1) \in Seq(S)
           /\ Elems(SubSeq(s, 1, Len(s) - 1)) = Elems(s) \ {Last(s)}
           /\ Once(SubSeq(s, 1, Len(s) - 1))
<1> DEFINE a == SubSeq(s, 1, Len(s) - 1)
<1>1. /\ a \in Seq(S) /\ Len(a) = Len(s) - 1 /\ Len(s) \in Nat /\ Len(s) > 0
      /\ DOMAIN a = 1 .. Len(s) - 1 /\ DOMAIN s = 1 .. Len(s)
      /\ \A i \in 1 .. Len(s) - 1 : a[i] = s[i]
  <2>1. Len(s) \in Nat /\ Len(s) > 0 /\ DOMAIN s = 1 .. Len(s)
    OBVIOUS
  <2>2. 1 \in 1 .. Len(s) + 1 /\ Len(s) - 1 \in 0 .. Len(s) /\ 1 <= Len(s)
    BY <2>1
  <2>3. /\ a \in Seq(S)
        /\ Len(a) = IF 1 <= Len(s) - 1 THEN (Len(s) - 1) - 1 + 1 ELSE 0
        /\ \A i \in 1 .. (Len(s) - 1) - 1 + 1 : a[i] = s[1 + i - 1]
    BY <2>1, <2>2, SubSeqProperties
  <2> HIDE DEF a
  <2>4. \A n \in Nat : n > 0 => /\ (IF 1 <= n - 1 THEN (n - 1) - 1 + 1 ELSE 0) = n - 1
                                /\ \A i \in 1 .. n - 1 : i \in 1 .. (n - 1) - 1 + 1 /\ 1 + i - 1 = i
    OBVIOUS
  <2>5. Len(a) = Len(s) - 1 /\ \A i \in 1 .. Len(s) - 1 : a[i] = s[i]
    BY <2>1, <2>3, <2>4
  <2>6. DOMAIN a = 1 .. Len(s) - 1
    BY <2>3, <2>5
  <2>7. QED BY <2>1, <2>3, <2>5, <2>6
<1> HIDE DEF a
<1>2. Elems(a) = Elems(s) \ {Last(s)}
  <2>1. ASSUME NEW y \in Elems(a) PROVE y \in Elems(s) \ {Last(s)}
    <3>1. PICK i \in 1 .. Len(s) - 1 : y = a[i]
      BY <1>1, <2>1 DEF Elems
    <3>2. i \in DOMAIN s /\ y = s[i] /\ Len(s) \in DOMAIN s /\ i # Len(s)
      BY <1>1, <3>1
    <3>3. QED BY <3>2 DEF Elems, Once, Last
  <2>2. ASSUME NEW y \in Elems(s), y # Last(s) PROVE y \in Elems(a)
    <3>1. PICK i \in 1 .. Len(s) : y = s[i]
      BY <1>1, <2>2 DEF Elems
    <3>2. i \in DOMAIN a /\ a[i] = y
      BY <1>1, <2>2, <3>1 DEF Last
    <3>3. QED BY <3>2 DEF Elems
  <2>3. QED BY <2>1, <2>2
<1>3. Once(a)
  BY <1>1 DEF Once
<1>4. QED BY <1>1, <1>2, <1>3 DEF a

\* The pool is finite, and so is every set of units.
LEMMA UnitsFinite ==
    ASSUME NEW X \in SUBSET Unit
    PROVE  IsFiniteSet(X) /\ Cardinality(X) \in Nat
BY FS_Subset, FS_CardinalityType, OhciAssumption

\* How many units there are with one more, and with some fewer.
LEMMA CountUnits ==
    ASSUME NEW X \in SUBSET Unit
    PROVE  /\ \A x \in Unit : x \notin X => Cardinality(X \cup {x}) = Cardinality(X) + 1
           /\ \A x \in X : Cardinality(X \ {x}) = Cardinality(X) - 1
           /\ \A Y \in SUBSET X : /\ Cardinality(X \ Y) = Cardinality(X) - Cardinality(Y)
                                  /\ Cardinality(Y) <= Cardinality(X)
                                  /\ Cardinality(Y) = Cardinality(X) => Y = X
           /\ Cardinality(X) = 0 <=> X = {}
<1>1. IsFiniteSet(X) /\ Cardinality(X) \in Nat
  BY UnitsFinite
<1>2. \A x \in Unit : x \notin X => Cardinality(X \cup {x}) = Cardinality(X) + 1
  BY <1>1, FS_AddElement
<1>3. \A x \in X : Cardinality(X \ {x}) = Cardinality(X) - 1
  BY <1>1, FS_RemoveElement
<1>4. Cardinality(X) = 0 <=> X = {}
  BY <1>1, FS_EmptySet
<1>5. ASSUME NEW Y \in SUBSET X
      PROVE  /\ Cardinality(X \ Y) = Cardinality(X) - Cardinality(Y)
             /\ Cardinality(Y) <= Cardinality(X)
             /\ Cardinality(Y) = Cardinality(X) => Y = X
  <2>1. IsFiniteSet(Y) /\ Cardinality(Y) \in Nat
    BY UnitsFinite
  <2>2. Cardinality(X \ Y) = Cardinality(X) - Cardinality(X \cap Y)
    BY <1>1, <2>1, FS_Difference
  <2>3. X \cap Y = Y
    OBVIOUS
  <2>4. Cardinality(Y) <= Cardinality(X) /\ (Cardinality(Y) = Cardinality(X) => Y = X)
    BY <1>1, FS_Subset
  <2>5. QED BY <2>2, <2>3, <2>4
<1>6. QED BY <1>2, <1>3, <1>4, <1>5

\* The TDs in all the places are units.
LEMMA TdsAreUnits ==
    ASSUME Inv
    PROVE  /\ Elems(main.tds) \in SUBSET Unit /\ Retired \in SUBSET Unit
           /\ \A d \in Unit : Elems(chain[d]) \in SUBSET Unit
<1>1. /\ main.tds \in Seq(Unit) /\ done \in Seq(Unit) /\ hcca \in Seq(Unit)
      /\ isr.todo \in Seq(Unit) /\ \A d \in Unit : chain[d] \in Seq(Unit)
  BY DEF Inv, TypeOK, MainRec, IsrRec
<1>2. /\ Elems(main.tds) \in SUBSET Unit /\ Elems(done) \in SUBSET Unit
      /\ Elems(hcca) \in SUBSET Unit /\ Elems(isr.todo) \in SUBSET Unit
  BY <1>1, ElemsOf
<1>3. \A d \in Unit : Elems(chain[d]) \in SUBSET Unit
  BY <1>1, ElemsOf
<1>4. QED BY <1>2, <1>3 DEF Retired

(***************************************************************************)
(* Steps that leave the descriptors alone.                                 *)
(***************************************************************************)

\* A step that changes no descriptor, no list and no request, and leaves the
\* set of retired TDs as it is.
LEMMA CalmStep ==
    ASSUME Inv, UNCHANGED <<kind, edVars, utrOf, linkVars, pipe, utrVars, lostVars>>,
           main'.e = main.e, main'.ed = main.ed, main'.new = main.new,
           main'.n = main.n, main'.tds = main.tds,
           main'.pc = main.pc \/ (Quits /\ Quits'),
           Retired' = Retired, Due' = Due
    PROVE  TdInv' /\ EdInv' /\ PipeInv' /\ CountInv' /\ RequestInv' /\ MainInv' /\ SubInv'
<1>1. Sub' = Sub /\ Quits' = Quits /\ Linked' = Linked
      /\ (main'.pc # main.pc => main.pc \notin {"idle", "wait", "go", "alloc", "ed", "dummy"}
                                /\ main'.pc \notin {"idle", "wait", "go", "alloc", "ed", "dummy"})
  BY DEF Sub, Quits, Linked, linkVars
<1>2. TdInv' /\ EdInv' /\ PipeInv'
  BY <1>1 DEF Inv, TdInv, EdInv, PipeInv, edVars, linkVars
<1>3. CountInv'
  BY <1>1 DEF Inv, CountInv, Owed, Dummies, InHand, edVars, utrVars, linkVars
<1>4. RequestInv' /\ MainInv'
  BY <1>1 DEF Inv, RequestInv, MainInv, utrVars, lostVars
<1>5. SubInv'
  BY <1>1 DEF Inv, SubInv, edVars, utrVars, linkVars
<1>6. QED BY <1>2, <1>3, <1>4, <1>5

\* The controller takes up or leaves an ED.
LEMMA HoldInv ==
    ASSUME Inv, HcFetch \/ HcDrop
    PROVE  Inv'
<1>1. /\ UNCHANGED <<kind, edVars, utrOf, bad, linkVars, pipe, done, hcca, sts, sfe,
                   main, isr, utrVars, lostVars>>
      /\ hc' # NULL => hc' \in Linked /\ hc' \notin skip
      /\ hc' \in UnitOrNull
  BY DEF HcFetch, HcDrop, Inv, TypeOK, UnitOrNull, Linked
<1>2. TypeOK'
  BY <1>1 DEF Inv, TypeOK, edVars, linkVars, utrVars, lostVars
<1>3. PlaceInv' /\ QueueInv' /\ CallbackInv'
  BY <1>1 DEF Inv, PlaceInv, QueueInv, CallbackInv, Retired, Sub, edVars, linkVars, utrVars
<1>4. TdInv' /\ EdInv' /\ PipeInv' /\ CountInv' /\ RequestInv' /\ MainInv' /\ SubInv'
  BY <1>1, CalmStep DEF Retired, Due
<1>5. FrameInv'
  BY <1>1 DEF Inv, TypeOK, EdInv, FrameInv, SubInv, Linked, Sub, Quits, edVars, linkVars,
     UnitOrNull
<1>6. KeepInv'
  BY <1>1 DEF Inv, KeepInv, Retired, edVars, linkVars, lostVars
<1>7. QED BY <1>2, <1>3, <1>4, <1>5, <1>6 DEF Inv

\* The marks of ohci_quit_xfer: the start of frame that is past is forgotten
\* before the next one is asked for.
LEMMA QuitMarksInv ==
    ASSUME Inv, QuitClear \/ QuitEnable
    PROVE  Inv'
<1>1. /\ UNCHANGED <<kind, edVars, utrOf, bad, linkVars, pipe, done, hcca, hc,
                     isr, utrVars, lostVars>>
      /\ isr.pc = "off"
      /\ \/ main.pc = "clear" /\ main' = [main EXCEPT !.pc = "enable"]
            /\ sts' = sts \ {"SF"} /\ sfe' = sfe
         \/ main.pc = "enable" /\ main' = [main EXCEPT !.pc = "delay"]
            /\ sts' = sts /\ sfe' = TRUE
  BY DEF QuitClear, QuitEnable, MainAt, ClearSF
<1>2. /\ main'.e = main.e /\ main'.ed = main.ed /\ main'.new = main.new
      /\ main'.n = main.n /\ main'.tds = main.tds /\ Quits /\ Quits' /\ main' \in MainRec
      /\ main'.pc = "enable" \/ main'.pc = "delay"
  <2>1. main \in MainRec
    BY DEF Inv, TypeOK
  <2>2. /\ main'.e = main.e /\ main'.ed = main.ed /\ main'.new = main.new
        /\ main'.n = main.n /\ main'.tds = main.tds /\ main' \in MainRec
        /\ main'.pc = "enable" \/ main'.pc = "delay"
    BY <1>1, <2>1 DEF MainRec, MainPc
  <2>3. QED BY <1>1, <2>2 DEF Quits
<1>3. TypeOK'
  BY <1>1, <1>2 DEF Inv, TypeOK, edVars, linkVars, utrVars, lostVars
<1>4. PlaceInv' /\ QueueInv' /\ CallbackInv'
  BY <1>1, <1>2 DEF Inv, PlaceInv, QueueInv, CallbackInv, Retired, Sub, edVars, linkVars, utrVars
<1>5. TdInv' /\ EdInv' /\ PipeInv' /\ CountInv' /\ RequestInv' /\ MainInv' /\ SubInv'
  BY <1>1, <1>2, CalmStep DEF Retired, Due
<1>6. FrameInv'
  <2>1. main.pc = "clear" => main'.pc = "enable"
    BY <1>1 DEF Inv, TypeOK, MainRec
  <2>2. main.pc = "enable" => main'.pc = "delay"
    BY <1>1 DEF Inv, TypeOK, MainRec
  <2>3. ~ Sub /\ ~ Sub'
    BY <1>2 DEF Sub, Quits
  <2>4. QED BY <1>1, <1>2, <2>1, <2>2, <2>3 DEF Inv, TypeOK, FrameInv, Quits, edVars, linkVars
<1>7. KeepInv'
  BY <1>1, <1>2 DEF Inv, KeepInv, Retired, edVars, linkVars, lostVars
<1>8. QED BY <1>3, <1>4, <1>5, <1>6, <1>7 DEF Inv

\* The handler is entered, is through with the removals, or ends.
LEMMA IsrQuietInv ==
    ASSUME Inv, IsrEnter \/ IsrRemoved \/ IsrEnd
    PROVE  Inv'
<1>1. /\ UNCHANGED <<kind, edVars, utrOf, bad, linkVars, pipe, done, hcca, hc, main,
                     utrVars, lostVars>>
      /\ isr.todo = <<>> /\ isr'.todo = <<>>
      /\ isr.pc # "callback" /\ isr'.pc # "callback"
      /\ isr' \in IsrRec
      /\ sts' \subseteq sts /\ ("WDH" \in sts => "WDH" \in sts')
  <2>1. isr.pc \in {"off", "remove", "done"} /\ isr.todo = <<>>
    BY DEF IsrEnter, IsrRemoved, IsrEnd, Inv, QueueInv
  <2>2. CASE IsrEnter
    <3>1. /\ sts \ {"WDH"} \in SUBSET {"SF"} /\ <<>> \in Seq(Unit)
          /\ {} \in SUBSET {"SF"} /\ ("WDH" \in sts) \in BOOLEAN
      BY DEF Inv, TypeOK
    <3>2. \/ isr' = [pc |-> "remove", wdh |-> "WDH" \in sts, todo |-> <<>>, rest |-> {}]
          \/ isr' = [pc |-> "take", wdh |-> TRUE, todo |-> <<>>, rest |-> sts \ {"WDH"}]
      BY <2>2 DEF IsrEnter, IsrOff
    <3>3. PICK w \in BOOLEAN, p \in {"remove", "take"}, r \in SUBSET {"SF"} :
             isr' = [pc |-> p, wdh |-> w, todo |-> <<>>, rest |-> r]
      BY <3>1, <3>2, Zenon
    <3>4. isr' \in IsrRec /\ isr'.todo = <<>> /\ isr'.pc # "callback"
      BY <3>1, <3>3 DEF IsrRec, IsrPc
    <3>5. QED BY <2>1, <2>2, <3>4 DEF IsrEnter, hcVars
  <2>3. CASE IsrRemoved
    BY <2>1, <2>3 DEF IsrRemoved, IsrOff, Inv, TypeOK, IsrRec, IsrPc
  <2>4. CASE IsrEnd
    BY <2>1, <2>4 DEF IsrEnd, IsrOff, Inv, TypeOK, IsrRec, IsrPc
  <2>5. QED BY <2>2, <2>3, <2>4
<1>2. sfe' \in BOOLEAN
  BY DEF IsrEnter, IsrRemoved, IsrEnd, Inv, TypeOK, hcVars
<1>3. TypeOK'
  BY <1>1, <1>2 DEF Inv, TypeOK, edVars, linkVars, utrVars, lostVars
<1>4. PlaceInv' /\ QueueInv' /\ CallbackInv'
  BY <1>1 DEF Inv, PlaceInv, QueueInv, CallbackInv, Retired, Sub, edVars, linkVars, utrVars
<1>5. TdInv' /\ EdInv' /\ PipeInv' /\ CountInv' /\ RequestInv' /\ MainInv' /\ SubInv'
  BY <1>1, CalmStep DEF Retired, Due
<1>6. FrameInv'
  <2>1. CASE IsrEnter
    <3>1. sts' = sts /\ sfe' = sfe /\ (isr'.pc = "remove" => sfe /\ "SF" \in sts) /\ isr.pc = "off"
      BY <2>1 DEF IsrEnter, IsrOff, hcVars
    <3>2. QED BY <1>1, <3>1 DEF Inv, FrameInv, Quits, Sub, edVars, linkVars
  <2>2. CASE IsrRemoved
    <3>1. sfe' = FALSE /\ isr'.pc # "remove" /\ removing = {}
      BY <2>2 DEF IsrRemoved, IsrOff, Inv, TypeOK, IsrRec
    <3>2. QED BY <1>1, <3>1 DEF Inv, FrameInv, Quits, Sub, edVars, linkVars
  <2>3. CASE IsrEnd
    <3>1. sfe' = sfe /\ isr.pc = "done" /\ isr'.pc = "off"
      BY <2>3 DEF IsrEnd, IsrOff
    <3>2. QED BY <1>1, <3>1 DEF Inv, FrameInv, Quits, Sub, edVars, linkVars
  <2>4. QED BY <2>1, <2>2, <2>3
<1>7. KeepInv'
  BY <1>1 DEF Inv, KeepInv, Retired, edVars, linkVars, lostVars
<1>8. QED BY <1>3, <1>4, <1>5, <1>6, <1>7 DEF Inv

\* The done queue passes from the controller to the handler: at a start of
\* frame into HccaDoneHead, and from there to the handler.
LEMMA HandOverInv ==
    ASSUME Inv, HcSof \/ IsrTake
    PROVE  Inv'
<1>1. /\ UNCHANGED <<kind, edVars, utrOf, bad, linkVars, pipe, hc, sfe, main, utrVars,
                     lostVars>>
      /\ \/ /\ isr' = isr /\ hc = NULL /\ sts \subseteq sts'
            /\ \/ done' = done /\ hcca' = hcca /\ ("WDH" \in sts' => "WDH" \in sts)
               \/ hcca' = done /\ done' = <<>> /\ hcca = <<>> /\ "WDH" \in sts'
         \/ /\ isr.pc = "take" /\ isr'.pc = "done" /\ done' = done /\ hcca' = <<>>
            /\ isr.todo = <<>> /\ isr'.todo = hcca /\ sts' \subseteq sts
      /\ isr' \in IsrRec /\ sts' \subseteq {"SF", "WDH"}
  BY DEF HcSof, IsrTake, Inv, QueueInv, TypeOK, IsrRec, IsrPc
<1>2. /\ isr'.pc = "callback" <=> isr.pc = "callback"
      /\ isr.pc = "callback" => isr'.todo = isr.todo
      /\ Elems(<<>>) = {} /\ Once(<<>>)
  BY <1>1, ElemsFew
<1>3. TypeOK'
  <2>1. <<>> \in Seq(Unit) /\ done \in Seq(Unit) /\ hcca \in Seq(Unit)
    BY DEF Inv, TypeOK
  <2>2. done' \in Seq(Unit) /\ hcca' \in Seq(Unit)
    BY <1>1, <2>1
  <2>3. QED BY <1>1, <2>2 DEF Inv, TypeOK, edVars, linkVars, utrVars, lostVars
<1>4. PlaceInv'
  BY <1>1, <1>2 DEF Inv, PlaceInv, Retired, edVars
<1>5. QueueInv' /\ CallbackInv'
  BY <1>1, <1>2 DEF Inv, QueueInv, CallbackInv, Sub, linkVars, utrVars
<1>6. TdInv' /\ EdInv' /\ PipeInv' /\ CountInv' /\ RequestInv' /\ MainInv' /\ SubInv'
  <2>1. Retired' = Retired
    BY <1>1, <1>2 DEF Retired
  <2>2. QED BY <1>1, <1>2, <2>1, CalmStep DEF Due
<1>7. FrameInv'
  BY <1>1 DEF Inv, FrameInv, Quits, Sub, edVars, linkVars
<1>8. KeepInv'
  BY <1>1, <1>2 DEF Inv, KeepInv, Retired, edVars, linkVars, lostVars
<1>9. QED BY <1>3, <1>4, <1>5, <1>6, <1>7, <1>8 DEF Inv

(***************************************************************************)
(* Requests that come and go.                                              *)
(***************************************************************************)

\* The local variables of a submission.
LEMMA MainRecOf ==
    ASSUME NEW p \in MainPc, NEW e \in EpOrNull, NEW d \in UnitOrNull, NEW b \in BOOLEAN,
           NEW n \in Nat, NEW s \in Seq(Unit)
    PROVE  [pc |-> p, e |-> e, ed |-> d, new |-> b, n |-> n, tds |-> s] \in MainRec
BY DEF MainRec

\* How many TDs a transfer has.
LEMMA TdCountsOf ==
    ASSUME NEW e \in Ep, NEW n \in TdCounts(e)
    PROVE  /\ n \in Nat /\ n >= 1 /\ n <= MaxTd + 3
           /\ e \in BulkEp => n <= MaxTd
           /\ e \in IntEp => n = 1
<1>1. CASE e \in CtrlEp
  <2>1. TdCounts(e) = Stages /\ e \notin BulkEp /\ e \notin IntEp
    BY <1>1, OhciAssumption DEF TdCounts
  <2>2. n = 2 \/ n = 3
    BY <2>1, OhciAssumption
  <2>3. QED BY <2>1, <2>2, OhciAssumption
<1>2. CASE e \in BulkEp
  <2>1. TdCounts(e) = 1 .. MaxTd /\ e \notin IntEp
    BY <1>2, OhciAssumption DEF TdCounts
  <2>2. QED BY <2>1, OhciAssumption
<1>3. CASE e \in IntEp
  <2>1. TdCounts(e) = {1} /\ e \notin BulkEp
    BY <1>3, OhciAssumption DEF TdCounts
  <2>2. QED BY <2>1, OhciAssumption
<1>4. QED BY <1>1, <1>2, <1>3 DEF Ep

\* The dummy of a linked interrupt ED is one of the TDs owed.
LEMMA DummyIsOwed ==
    ASSUME Inv, NEW e \in IntEp, pipe[e] \in intr
    PROVE  /\ pipe[e] \in Unit /\ kind[pipe[e]] = "ED" /\ info[pipe[e]] = e
           /\ chain[pipe[e]] # <<>> /\ Elems(chain[pipe[e]]) \subseteq Owed(e)
           /\ Owed(e) # {} /\ Last(chain[pipe[e]]) \in Owed(e)
           /\ Last(chain[pipe[e]]) \in Unit
<1>1. pipe[e] \in Unit /\ kind[pipe[e]] = "ED" /\ chain[pipe[e]] # <<>>
  BY DEF Inv, TypeOK, EdInv, Linked
<1>2. info[pipe[e]] = e
  BY <1>1, OhciAssumption DEF Inv, PipeInv, FrameInv, Ep
<1>3. \A t \in Elems(chain[pipe[e]]) : t \in Unit /\ utrOf[t] = e
  <2>1. ~ (main.pc = "go" /\ main.new /\ main.ed = pipe[e])
    BY DEF Inv, SubInv, Sub, Linked
  <2>2. Elems(chain[pipe[e]]) \in SUBSET Unit
    BY <1>1, TdsAreUnits
  <2>3. QED BY <1>1, <1>2, <2>1, <2>2 DEF Inv, TdInv
<1>4. Last(chain[pipe[e]]) \in Elems(chain[pipe[e]])
  BY <1>1, ElemsOf DEF Inv, TypeOK
<1>5. Elems(chain[pipe[e]]) \subseteq Owed(e)
  BY <1>1, <1>3 DEF Owed
<1>6. QED BY <1>1, <1>2, <1>3, <1>4, <1>5

\* The count of a request that its client has back.
LEMMA IdleCount ==
    ASSUME Inv, NEW e \in Ep, ~ live[e] \/ calls[e] = 1, ~ Sub,
           Quits => main.e # e
    PROVE  cnt[e] = 0 /\ Cardinality(Owed(e)) = Dummies(e)
<1>1. cnt[e] \in Int /\ cnt[e] <= 0 /\ Cardinality(Owed(e)) \in Nat
  <2>1. cnt[e] \in -1 .. MaxTd + 3 /\ MaxTd \in Nat
    BY OhciAssumption DEF Inv, TypeOK
  <2>2. ~ (cnt[e] >= 1)
    BY DEF Inv, RequestInv
  <2>3. Owed(e) \in SUBSET Unit
    BY DEF Owed
  <2>4. QED BY <2>1, <2>2, <2>3, UnitsFinite
<1>2. cnt[e] + Dummies(e) = Cardinality(Owed(e)) + 0
  BY DEF Inv, CountInv, InHand
<1>3. CASE e \in IntEp /\ pipe[e] # NULL
  <2>1. e \notin CtrlEp /\ e \notin BulkEp
    BY <1>3, OhciAssumption
  <2>2. pipe[e] \in Linked /\ info[pipe[e]] = e
    BY <1>3, <2>1 DEF Inv, PipeInv
  <2>3. pipe[e] \in intr
    BY <1>3, <2>1, <2>2, OhciAssumption DEF Inv, EdInv, Linked
  <2>4. Owed(e) # {} /\ Owed(e) \in SUBSET Unit
    BY <1>3, <2>3, DummyIsOwed DEF Owed
  <2>5. Cardinality(Owed(e)) # 0
    BY <2>4, CountUnits
  <2>6. Dummies(e) = 1
    BY <1>3 DEF Dummies
  <2>7. QED BY <1>1, <1>2, <2>5, <2>6
<1>4. CASE ~ (e \in IntEp /\ pipe[e] # NULL)
  <2>1. Dummies(e) = 0
    BY <1>4 DEF Dummies
  <2>2. QED BY <1>1, <1>2, <2>1
<1>5. QED BY <1>3, <1>4

\* A client hands in a request whose last transfer is over.
LEMMA XferStartInv ==
    ASSUME Inv, XferStart
    PROVE  Inv'
<1>1. PICK e \in Ep : \E n \in TdCounts(e) :
          /\ ~ live[e]
          /\ main' = [MainIdle EXCEPT !.e = e, !.n = n,
                          !.pc = IF e \in BulkEp THEN "ed" ELSE "alloc"]
          /\ live' = [live EXCEPT ![e] = TRUE]
          /\ isDone' = [isDone EXCEPT ![e] = FALSE]
          /\ status' = [status EXCEPT ![e] = "ok"]
          /\ cnt' = [cnt EXCEPT ![e] = 0]
          /\ calls' = [calls EXCEPT ![e] = 0]
  BY DEF XferStart
<1>2. PICK n \in TdCounts(e) :
          /\ ~ live[e]
          /\ main' = [MainIdle EXCEPT !.e = e, !.n = n,
                          !.pc = IF e \in BulkEp THEN "ed" ELSE "alloc"]
          /\ live' = [live EXCEPT ![e] = TRUE]
          /\ isDone' = [isDone EXCEPT ![e] = FALSE]
          /\ status' = [status EXCEPT ![e] = "ok"]
          /\ cnt' = [cnt EXCEPT ![e] = 0]
          /\ calls' = [calls EXCEPT ![e] = 0]
  BY <1>1
<1>3. /\ isr.pc = "off" /\ main.pc = "idle"
      /\ UNCHANGED <<kind, edVars, utrOf, bad, linkVars, pipe, hcVars, isr, late, lostVars>>
  BY DEF XferStart, MainAt
<1>4. /\ main'.pc = IF e \in BulkEp THEN "ed" ELSE "alloc"
      /\ main'.e = e /\ main'.ed = NULL /\ main'.new = FALSE /\ main'.n = n /\ main'.tds = <<>>
  BY <1>2 DEF MainIdle
<1>5. n \in Nat /\ n >= 1
  BY TdCountsOf
<1>6. ~ Sub /\ ~ Quits /\ Sub' /\ ~ Quits' /\ main'.pc \notin {"idle", "wait", "dummy", "go"}
      /\ main.tds = <<>> /\ removing = {} /\ Linked' = Linked
  BY <1>3, <1>4 DEF Sub, Quits, Inv, MainInv, FrameInv, Linked, linkVars
<1>7. Elems(<<>>) = {} /\ Once(<<>>) /\ Len(<<>>) = 0 /\ Cardinality({}) = 0
  BY ElemsFew, FS_EmptySet
<1>8. TypeOK'
  <2>1. main' \in MainRec
    <3>1. <<>> \in Seq(Unit) /\ main'.pc \in MainPc
      BY <1>4 DEF MainPc
    <3>2. main' = [pc |-> main'.pc, e |-> e, ed |-> NULL, new |-> FALSE, n |-> n, tds |-> <<>>]
      BY <1>2 DEF MainIdle
    <3>3. QED BY <1>5, <3>1, <3>2, MainRecOf DEF EpOrNull, UnitOrNull
  <2>2. 0 \in -1 .. MaxTd + 3 /\ 0 \in 0 .. 2
    BY OhciAssumption
  <2>3. QED BY <1>2, <1>3, <2>1, <2>2 DEF Inv, TypeOK, edVars, linkVars, hcVars, lostVars
<1>9. PlaceInv' /\ TdInv' /\ EdInv'
  BY <1>3, <1>4, <1>6, <1>7 DEF Inv, PlaceInv, TdInv, EdInv, Retired, Sub, edVars, hcVars, linkVars
<1>10. PipeInv' /\ FrameInv'
  BY <1>3, <1>4, <1>6 DEF Inv, PipeInv, FrameInv, edVars, hcVars, linkVars
<1>11. QueueInv' /\ CallbackInv'
  BY <1>3 DEF Inv, QueueInv, CallbackInv, hcVars
<1>12. CountInv'
  <2>1. \A f \in Ep : Owed(f)' = Owed(f)
    BY <1>3 DEF Owed, Due, Retired, edVars, hcVars
  <2>2. \A f \in Ep : InHand(f)' = 0 /\ InHand(f) = 0 /\ Dummies(f)' = Dummies(f)
    BY <1>3, <1>4, <1>6, <1>7 DEF InHand, Dummies
  <2>3. cnt'[e] = 0 /\ cnt[e] = 0 /\ \A f \in Ep : f # e => cnt'[f] = cnt[f]
    BY <1>2, <1>6, IdleCount DEF Inv, TypeOK
  <2>4. \A f \in Ep : cnt'[f] = cnt[f]
    BY <2>3
  <2>5. \A f \in IntEp : f \in Ep
    BY DEF Ep
  <2>6. QED BY <1>3, <2>1, <2>2, <2>4, <2>5 DEF Inv, CountInv, linkVars
<1>13. RequestInv'
  <2>1. /\ live'[e] /\ calls'[e] = 0 /\ isDone'[e] = FALSE
        /\ \A f \in Ep : f # e => /\ live'[f] = live[f] /\ calls'[f] = calls[f]
                                  /\ isDone'[f] = isDone[f] /\ cnt'[f] = cnt[f]
    BY <1>2 DEF Inv, TypeOK
  <2>2. \A f \in IntEp : f \in Ep
    BY DEF Ep
  <2>3. \A f \in CtrlEp : f \in Ep /\ ~ live[f]
    BY <1>3 DEF Inv, RequestInv, Ep
  <2>4. \A f \in Ep : calls'[f] <= 1 /\ (f \notin IntEp /\ isDone'[f] => calls'[f] = 1)
    BY <2>1 DEF Inv, RequestInv
  <2>5. \A f \in Ep : ~ (Sub' /\ main'.e = f) => (cnt'[f] >= 1 <=> live'[f] /\ calls'[f] = 0)
    BY <1>4, <1>6, <2>1 DEF Inv, RequestInv
  <2>6. \A f \in CtrlEp : live'[f] => main'.e = f /\ main'.pc # "idle"
    BY <1>4, <1>6, <2>1, <2>3
  <2>7. \A f \in IntEp : pipe'[f] # NULL /\ (live'[f] => Sub' /\ main'.e = f) => f \in dropped'
    BY <1>2, <1>3, <1>4, <1>6, <2>1, <2>2 DEF Inv, RequestInv, lostVars
  <2>8. late' \subseteq dropped'
    BY <1>3 DEF Inv, RequestInv, lostVars
  <2>9. QED BY <2>4, <2>5, <2>6, <2>7, <2>8 DEF RequestInv
<1>14. MainInv' /\ SubInv'
  <2>1. live'[e] /\ calls'[e] = 0 /\ cnt'[e] = 0
    BY <1>2 DEF Inv, TypeOK
  <2>2. MainInv'
    BY <1>4, <1>6, <1>7 DEF MainInv
  <2>3. (main'.pc = "alloc" /\ e \notin BulkEp) \/ (main'.pc = "ed" /\ e \in BulkEp)
    BY <1>4
  <2>4. SubInv'
    BY <1>4, <1>5, <1>7, <2>1, <2>3 DEF SubInv
  <2>5. QED BY <2>2, <2>4
<1>15. KeepInv'
  BY <1>3, <1>4, <1>6, OhciAssumption DEF Inv, KeepInv, MainInv, Retired, edVars, linkVars, lostVars, hcVars
<1>16. QED BY <1>8, <1>9, <1>10, <1>11, <1>12, <1>13, <1>14, <1>15 DEF Inv

\* The client of a request frees it.
LEMMA ReleasedEffect ==
    ASSUME Inv, NEW e \in Ep, Released(e)
    PROVE  /\ ~ live'[e] /\ ~ isDone'[e] /\ cnt'[e] = 0 /\ calls'[e] = 0 /\ late' = late
           /\ \A f \in Ep : f # e => /\ live'[f] = live[f] /\ calls'[f] = calls[f]
                                     /\ isDone'[f] = isDone[f] /\ cnt'[f] = cnt[f]
           /\ live' \in [Ep -> BOOLEAN] /\ isDone' \in [Ep -> BOOLEAN]
           /\ status' \in [Ep -> {"ok", "err", "abort"}]
           /\ cnt' \in [Ep -> -1 .. MaxTd + 3] /\ calls' \in [Ep -> 0 .. 2]
<1>1. 0 \in -1 .. MaxTd + 3 /\ 0 \in 0 .. 2
  BY OhciAssumption
<1>2. QED BY <1>1 DEF Inv, TypeOK, Released

\* The wait for a control transfer or for a bulk transfer is over.
LEMMA DoneInv ==
    ASSUME Inv, CtrlDone \/ BulkDone
    PROVE  Inv'
<1>1. /\ isr.pc = "off" /\ main.pc \in {"idle", "wait"}
      /\ main' = main \/ main' = MainIdle
      /\ main.pc = "wait" => main' = MainIdle
      /\ UNCHANGED <<kind, edVars, utrOf, bad, linkVars, pipe, hcVars, isr, lostVars>>
  BY DEF CtrlDone, BulkDone, MainAt
<1>2. PICK e \in Ep \ IntEp : Released(e) /\ isDone[e] /\ (main.pc = "wait" => main.e = e)
  BY OhciAssumption DEF CtrlDone, BulkDone, MainAt, Inv, MainInv, Ep
<1>3. /\ ~ live'[e] /\ ~ isDone'[e] /\ cnt'[e] = 0 /\ calls'[e] = 0 /\ late' = late
      /\ \A f \in Ep : f # e => /\ live'[f] = live[f] /\ calls'[f] = calls[f]
                                /\ isDone'[f] = isDone[f] /\ cnt'[f] = cnt[f]
  BY <1>2, ReleasedEffect
<1>4. /\ ~ Sub /\ ~ Quits /\ ~ Sub' /\ ~ Quits' /\ main'.pc = "idle"
      /\ main.tds = <<>> /\ main'.tds = <<>> /\ main.ed = NULL /\ main'.ed = NULL
      /\ removing = {} /\ Linked' = Linked
  BY <1>1 DEF Sub, Quits, Inv, MainInv, FrameInv, Linked, linkVars, MainIdle
<1>5. \A f \in IntEp : f \in Ep /\ f # e
  BY DEF Ep
<1>6. TypeOK'
  <2>1. main' \in MainRec
    <3>1. <<>> \in Seq(Unit) /\ "idle" \in MainPc
      BY DEF MainPc
    <3>2. MainIdle \in MainRec
      BY <3>1, MainRecOf DEF MainIdle, EpOrNull, UnitOrNull
    <3>3. QED BY <1>1, <3>2 DEF Inv, TypeOK
  <2>2. QED BY <1>1, <1>2, <1>3, <2>1, ReleasedEffect
         DEF Inv, TypeOK, edVars, linkVars, hcVars, lostVars
<1>7. PlaceInv' /\ TdInv' /\ EdInv'
  BY <1>1, <1>4, ElemsFew DEF Inv, PlaceInv, TdInv, EdInv, Retired, Sub, edVars, hcVars, linkVars
<1>8. PipeInv' /\ FrameInv'
  BY <1>1, <1>4 DEF Inv, PipeInv, FrameInv, edVars, hcVars, linkVars
<1>9. QueueInv' /\ CallbackInv'
  BY <1>1 DEF Inv, QueueInv, CallbackInv, hcVars
<1>10. CountInv'
  <2>1. \A f \in Ep : Owed(f)' = Owed(f)
    BY <1>1 DEF Owed, Due, Retired, edVars, hcVars
  <2>2. \A f \in Ep : InHand(f)' = 0 /\ InHand(f) = 0 /\ Dummies(f)' = Dummies(f)
    BY <1>1, <1>4 DEF InHand, Dummies
  <2>3. cnt[e] = 0
    <3>1. calls[e] = 1
      BY <1>2 DEF Inv, RequestInv
    <3>2. QED BY <1>4, <3>1, IdleCount
  <2>4. \A f \in Ep : cnt'[f] = cnt[f]
    BY <1>3, <2>3
  <2>5. QED BY <1>1, <1>5, <2>1, <2>2, <2>4 DEF Inv, CountInv, linkVars
<1>11. RequestInv'
  <2>1. \A f \in Ep : calls'[f] <= 1 /\ (f \notin IntEp /\ isDone'[f] => calls'[f] = 1)
    BY <1>3 DEF Inv, RequestInv
  <2>2. \A f \in Ep : cnt'[f] >= 1 <=> live'[f] /\ calls'[f] = 0
    BY <1>3, <1>4 DEF Inv, RequestInv
  <2>3. \A f \in CtrlEp : ~ live'[f]
    BY <1>1, <1>2, <1>3 DEF Inv, RequestInv, Ep
  <2>4. \A f \in IntEp : pipe'[f] # NULL /\ ~ live'[f] => f \in dropped'
    BY <1>1, <1>3, <1>5 DEF Inv, RequestInv, lostVars
  <2>5. late' \subseteq dropped'
    BY <1>1, <1>3 DEF Inv, RequestInv, lostVars
  <2>6. QED BY <1>4, <2>1, <2>2, <2>3, <2>4, <2>5 DEF RequestInv
<1>12. MainInv' /\ SubInv'
  BY <1>4, ElemsFew, FS_EmptySet DEF MainInv, SubInv
<1>13. KeepInv'
  BY <1>1, <1>4 DEF Inv, KeepInv, Retired, edVars, linkVars, lostVars, hcVars
<1>14. QED BY <1>6, <1>7, <1>8, <1>9, <1>10, <1>11, <1>12, <1>13 DEF Inv

\* ohci_quit_xfer marks the ED of an endpoint and lists it for removal.
LEMMA QuitSkipInv ==
    ASSUME Inv, QuitSkip
    PROVE  Inv'
<1>1. PICK e \in Ep :
          /\ isr.pc = "off" /\ main.pc \in {"idle", "wait"} /\ (main.pc = "wait" => main.e = e)
          /\ pipe[e] # NULL
          /\ skip' = skip \cup {pipe[e]}
          /\ removing' = removing \cup {pipe[e]}
          /\ main' = [MainIdle EXCEPT !.pc = "clear", !.e = e, !.ed = pipe[e]]
  BY DEF QuitSkip, MainAt
<1>2. UNCHANGED <<kind, info, chain, halt, utrOf, bad, ctrlHead, bulk, intr, pipe,
                   hcVars, isr, utrVars, lostVars>>
  BY DEF QuitSkip
<1>3. /\ ~ Sub /\ ~ Quits /\ ~ Sub' /\ Quits' /\ main'.pc = "clear" /\ main'.e = e
      /\ main.tds = <<>> /\ main'.tds = <<>> /\ main.ed = NULL /\ main'.ed = pipe[e]
      /\ removing = {} /\ skip = {} /\ removing' = {pipe[e]} /\ skip' = {pipe[e]} /\ Linked' = Linked
      /\ pipe[e] \in Unit
  BY <1>1, <1>2 DEF Sub, Quits, Inv, TypeOK, UnitOrNull, MainInv, FrameInv, Linked, MainIdle
<1>4. TypeOK'
  <2>1. main' = [pc |-> "clear", e |-> e, ed |-> pipe[e], new |-> FALSE, n |-> 0, tds |-> <<>>]
    BY <1>1 DEF MainIdle
  <2>2. <<>> \in Seq(Unit) /\ "clear" \in MainPc
    BY DEF MainPc
  <2>3. main' \in MainRec
    BY <1>3, <2>1, <2>2, MainRecOf DEF EpOrNull, UnitOrNull
  <2>4. QED BY <1>2, <1>3, <2>3 DEF Inv, TypeOK, hcVars, utrVars, lostVars
<1>5. PlaceInv' /\ TdInv'
  BY <1>1, <1>2, <1>3, ElemsFew DEF Inv, PlaceInv, TdInv, Retired, hcVars
<1>6. kind[pipe[e]] = "ED"
  BY <1>1, <1>3 DEF Inv, PipeInv
<1>7. EdInv' /\ PipeInv'
  BY <1>1, <1>2, <1>3, <1>6 DEF Inv, EdInv, PipeInv
<1>8. FrameInv'
  BY <1>1, <1>2, <1>3, <1>6 DEF Inv, FrameInv, hcVars
<1>9. QueueInv' /\ CallbackInv'
  BY <1>1, <1>2 DEF Inv, QueueInv, CallbackInv, hcVars
<1>10. CountInv'
  <2>1. \A f \in Ep : Owed(f)' = Owed(f)
    BY <1>2 DEF Owed, Due, Retired, hcVars
  <2>2. \A f \in Ep : InHand(f)' = 0 /\ InHand(f) = 0 /\ Dummies(f)' = Dummies(f)
    BY <1>2, <1>3 DEF InHand, Dummies
  <2>3. QED BY <1>2, <2>1, <2>2 DEF Inv, CountInv, utrVars
<1>11. RequestInv'
  BY <1>1, <1>2, <1>3 DEF Inv, RequestInv, utrVars, lostVars
<1>12. MainInv' /\ SubInv'
  BY <1>3, ElemsFew, FS_EmptySet DEF MainInv, SubInv
<1>13. KeepInv'
  BY <1>1, <1>2, <1>3, OhciAssumption DEF Inv, KeepInv, Retired, hcVars, lostVars
<1>14. QED BY <1>4, <1>5, <1>7, <1>8, <1>9, <1>10, <1>11, <1>12, <1>13 DEF Inv

\* What the end of ohci_quit_xfer finds: the ED is gone and no TD is owed.
LEMMA QuitOwesNone ==
    ASSUME Inv, QuitDelay
    PROVE  /\ main.e \in Ep /\ main.ed \in Unit /\ pipe[main.e] = main.ed /\ removing = {}
           /\ isr.pc = "off" /\ ~ Sub /\ ~ sfe /\ kind[main.ed] # "ED"
           /\ Owed(main.e) = {} /\ (live[main.e] => calls[main.e] = 1)
<1>1. /\ main.pc = "delay" /\ isr.pc = "off" /\ main.ed \notin removing
      /\ \A t \in Retired : utrOf[t] # main.e
  BY DEF QuitDelay, MainAt
<1>2. /\ main.e \in Ep /\ main.ed \in Unit /\ pipe[main.e] = main.ed /\ removing = {}
      /\ ~ Sub /\ ~ sfe /\ kind[main.ed] # "ED"
  BY <1>1 DEF Inv, MainInv, FrameInv, Sub, Quits
<1>3. ASSUME NEW d \in Unit, NEW t \in Elems(chain[d]), utrOf[t] = main.e
      PROVE  FALSE
  <2>1. chain[d] # <<>>
    BY <1>3, ElemsFew
  <2>2. kind[d] = "ED" /\ d \in Linked /\ pipe[info[d]] = d /\ utrOf[t] = info[d]
    BY <1>1, <1>3, <2>1 DEF Inv, EdInv, TdInv
  <2>3. QED BY <1>2, <1>3, <2>2
<1>4. Owed(main.e) = {}
  BY <1>1, <1>3 DEF Owed, Due
<1>5. live[main.e] => calls[main.e] = 1
  <2>1. cnt[main.e] + Dummies(main.e) = 0
    BY <1>2, <1>4, FS_EmptySet DEF Inv, CountInv, InHand
  <2>2. ~ (cnt[main.e] >= 1)
    <3>1. cnt[main.e] \in -1 .. MaxTd + 3 /\ MaxTd \in Nat /\ Dummies(main.e) \in {0, 1}
      BY <1>2, OhciAssumption DEF Inv, TypeOK, Dummies
    <3>2. QED BY <2>1, <3>1
  <2>3. calls[main.e] \in 0 .. 2 /\ calls[main.e] <= 1
    BY <1>2 DEF Inv, TypeOK, RequestInv
  <2>4. QED BY <1>2, <2>2, <2>3 DEF Inv, RequestInv
<1>6. QED BY <1>1, <1>2, <1>4, <1>5

\* The end of ohci_quit_xfer.
LEMMA QuitDelayInv ==
    ASSUME Inv, QuitDelay
    PROVE  Inv'
<1>1. PICK e \in Ep : e = main.e
  BY QuitOwesNone
<1>2. /\ main.ed \in Unit /\ pipe[e] = main.ed /\ removing = {}
      /\ isr.pc = "off" /\ ~ Sub /\ ~ sfe /\ kind[main.ed] # "ED" /\ Owed(e) = {}
  BY <1>1, QuitOwesNone
<1>3. /\ main.pc = "delay" /\ pipe' = [pipe EXCEPT ![e] = NULL] /\ Released(e)
      /\ main' = MainIdle
      /\ UNCHANGED <<kind, edVars, utrOf, bad, linkVars, hcVars, isr, lostVars>>
  BY <1>1 DEF QuitDelay, ClearPipe, MainAt
<1>4. /\ ~ live'[e] /\ ~ isDone'[e] /\ cnt'[e] = 0 /\ calls'[e] = 0 /\ late' = late
      /\ \A f \in Ep : f # e => /\ live'[f] = live[f] /\ calls'[f] = calls[f]
                                /\ isDone'[f] = isDone[f] /\ cnt'[f] = cnt[f]
  BY <1>3, ReleasedEffect
<1>5. /\ Quits /\ ~ Sub' /\ ~ Quits' /\ main'.pc = "idle"
      /\ main.tds = <<>> /\ main'.tds = <<>> /\ main'.ed = NULL /\ Linked' = Linked
      /\ pipe'[e] = NULL /\ \A f \in Ep : f # e => pipe'[f] = pipe[f]
  BY <1>2, <1>3 DEF Sub, Quits, Inv, TypeOK, MainInv, Linked, linkVars, MainIdle
<1>6. \A f \in IntEp : f \in Ep
  BY DEF Ep
<1>7. TypeOK'
  <2>1. <<>> \in Seq(Unit) /\ "idle" \in MainPc
    BY DEF MainPc
  <2>2. MainIdle \in MainRec
    BY <2>1, MainRecOf DEF MainIdle, EpOrNull, UnitOrNull
  <2>3. pipe' \in [Ep -> UnitOrNull]
    BY <1>3 DEF Inv, TypeOK, UnitOrNull
  <2>4. QED BY <1>3, <1>4, <2>2, <2>3, ReleasedEffect
         DEF Inv, TypeOK, edVars, linkVars, hcVars, lostVars
<1>8. PlaceInv' /\ TdInv'
  BY <1>3, <1>5, ElemsFew DEF Inv, PlaceInv, TdInv, Retired, Quits, edVars, hcVars
<1>9. \A d \in Unit : kind[d] = "ED" /\ pipe[info[d]] = d => info[d] # e
  BY <1>2
<1>10. EdInv'
  <2>1. \A u \in Unit : chain[u] # <<>> \/ u \in Linked \cup removing => kind[u] = "ED"
    BY DEF Inv, EdInv
  <2>2. bulk \subseteq Unit /\ intr \subseteq Unit /\ bulk \subseteq Linked /\ intr \subseteq Linked
    BY DEF Inv, TypeOK, Linked
  <2>3. \A d \in bulk : info[d] \in Ep /\ info[d] # e /\ info[d] \in BulkEp /\ pipe'[info[d]] = d
    BY <1>5, <1>9, <2>1, <2>2 DEF Inv, EdInv, Ep
  <2>4. \A d \in intr : info[d] \in Ep /\ info[d] # e /\ info[d] \in IntEp /\ pipe'[info[d]] = d
                        /\ chain[d] # <<>>
    BY <1>5, <1>9, <2>1, <2>2 DEF Inv, EdInv, Ep
  <2>5. ctrlHead # NULL => info[ctrlHead] \in CtrlEp
    BY DEF Inv, EdInv
  <2>6. ASSUME NEW d \in Unit, chain[d] # <<>>
        PROVE  d \in Linked /\ pipe'[info[d]] = d
    <3>1. d \in Linked /\ pipe[info[d]] = d /\ kind[d] = "ED"
      BY <1>3, <2>6 DEF Inv, EdInv
    <3>2. info[d] \in Ep
      BY <2>3, <2>4, <2>5, <3>1 DEF Linked, Ep
    <3>3. QED BY <1>5, <1>9, <3>1, <3>2
  <2>7. QED BY <1>3, <1>5, <2>1, <2>3, <2>4, <2>5, <2>6 DEF EdInv, edVars, linkVars
<1>11. PipeInv' /\ FrameInv'
  BY <1>1, <1>2, <1>3, <1>5 DEF Inv, PipeInv, FrameInv, Sub, edVars, hcVars, linkVars
<1>12. QueueInv' /\ CallbackInv'
  BY <1>2, <1>3 DEF Inv, QueueInv, CallbackInv, hcVars
<1>13. CountInv'
  <2>1. \A f \in Ep : Owed(f)' = Owed(f)
    BY <1>3 DEF Owed, Due, Retired, edVars, hcVars
  <2>2. \A f \in Ep : InHand(f)' = 0 /\ InHand(f) = 0
    BY <1>2, <1>5 DEF InHand
  <2>3. \A f \in Ep : f # e => Dummies(f)' = Dummies(f)
    BY <1>5 DEF Dummies
  <2>4. Dummies(e)' = 0 /\ Cardinality(Owed(e)) = 0
    BY <1>2, <1>5, FS_EmptySet DEF Dummies
  <2>5. \A f \in Ep : cnt'[f] + Dummies(f)' = Cardinality(Owed(f)') + InHand(f)'
    BY <1>4, <2>1, <2>2, <2>3, <2>4 DEF Inv, CountInv
  <2>6. \A f \in IntEp : cnt'[f] <= 1 /\ (cnt'[f] = 1 => pipe'[f] \in intr')
    BY <1>3, <1>4, <1>5, <1>6 DEF Inv, CountInv, linkVars
  <2>7. QED BY <2>5, <2>6 DEF CountInv
<1>14. RequestInv'
  <2>1. \A f \in Ep : calls'[f] <= 1 /\ (f \notin IntEp /\ isDone'[f] => calls'[f] = 1)
    BY <1>4 DEF Inv, RequestInv
  <2>2. \A f \in Ep : cnt'[f] >= 1 <=> live'[f] /\ calls'[f] = 0
    BY <1>2, <1>4 DEF Inv, RequestInv
  <2>3. \A f \in CtrlEp : ~ live'[f]
    BY <1>1, <1>4 DEF Inv, RequestInv, Ep
  <2>4. \A f \in IntEp : pipe'[f] # NULL /\ ~ live'[f] => f \in dropped'
    BY <1>3, <1>4, <1>5, <1>6 DEF Inv, RequestInv, lostVars
  <2>5. late' \subseteq dropped'
    BY <1>3, <1>4 DEF Inv, RequestInv, lostVars
  <2>6. QED BY <1>5, <2>1, <2>2, <2>3, <2>4, <2>5 DEF RequestInv
<1>15. MainInv' /\ SubInv'
  BY <1>5, ElemsFew, FS_EmptySet DEF MainInv, SubInv
<1>16. KeepInv'
  BY <1>2, <1>3, <1>5 DEF Inv, KeepInv, Retired, edVars, linkVars, lostVars, hcVars
<1>17. QED BY <1>7, <1>8, <1>10, <1>11, <1>12, <1>13, <1>14, <1>15, <1>16 DEF Inv

(***************************************************************************)
(* Submission by the main loop.                                            *)
(***************************************************************************)

\* A free unit is in no place, on no list and nobody's ED.
LEMMA FreeIsNowhere ==
    ASSUME Inv, NEW u \in Free
    PROVE  /\ u \in Unit /\ kind[u] = "free" /\ chain[u] = <<>>
           /\ u \notin Linked /\ u \notin removing /\ u \notin Retired /\ u \notin Elems(main.tds)
           /\ \A d \in Unit : u \notin Elems(chain[d])
           /\ hc # NULL => u # hc
           /\ \A e \in Ep : pipe[e] = u => Quits /\ main.e = e /\ removing = {}
           /\ Sub => main.ed # u
<1>1. u \in Unit /\ kind[u] = "free"
  BY DEF Free
<1>2. Sub => main.ed # u
  BY <1>1, OhciAssumption DEF Inv, SubInv
<1>3. \A e \in Ep : pipe[e] = u => Quits /\ main.e = e /\ removing = {}
  BY <1>1, OhciAssumption DEF Inv, PipeInv
<1>4. QED BY <1>1, <1>2, <1>3 DEF Inv, EdInv, TdInv, FrameInv

\* A submission owes nothing while it is being set up, other than the dummy
\* of an old interrupt ED.
LEMMA SubOwes ==
    ASSUME Inv, Sub
    PROVE  /\ main.e \in Ep /\ removing = {} /\ skip = {} /\ ~ Quits /\ ~ sfe
           /\ main.e \notin IntEp \/ pipe[main.e] = NULL => Owed(main.e) = {}
           /\ main.e \in IntEp /\ pipe[main.e] # NULL => pipe[main.e] \in intr
           /\ Owed(main.e) \cap Due = {}
<1>1. main.e \in Ep /\ removing = {} /\ skip = {} /\ ~ Quits /\ ~ sfe
  BY DEF Inv, MainInv, FrameInv, Sub, Quits
<1> DEFINE e == main.e
<1>2. cnt[e] + Dummies(e) = Cardinality(Owed(e)) + InHand(e)
  BY <1>1 DEF Inv, CountInv
<1>3. cnt[e] = InHand(e) /\ InHand(e) \in Nat
  BY <1>1 DEF Inv, SubInv, InHand, TypeOK, MainRec
<1>4. Owed(e) \in SUBSET Unit /\ Cardinality(Owed(e)) \in Nat
  BY UnitsFinite DEF Owed
<1>5. Dummies(e) \in Nat
  BY DEF Dummies
<1>6. Cardinality(Owed(e)) = Dummies(e)
  BY <1>2, <1>3, <1>4, <1>5
<1>7. e \notin IntEp \/ pipe[e] = NULL => Owed(e) = {}
  <2>1. e \notin IntEp \/ pipe[e] = NULL => Dummies(e) = 0
    BY DEF Dummies
  <2>2. QED BY <1>4, <1>6, <2>1, CountUnits
<1>8. e \in IntEp /\ pipe[e] # NULL => pipe[e] \in intr
  <2>1. SUFFICES ASSUME e \in IntEp, pipe[e] # NULL PROVE pipe[e] \in intr
    OBVIOUS
  <2>2. e \notin CtrlEp /\ e \notin BulkEp
    BY <2>1, OhciAssumption
  <2>3. pipe[e] \in Linked /\ info[pipe[e]] = e
    BY <1>1, <2>1, <2>2 DEF Inv, PipeInv
  <2>4. QED BY <2>2, <2>3, <2>1, OhciAssumption DEF Inv, EdInv, Linked
<1>9. Owed(e) \cap Due = {}
  <2>1. CASE e \in IntEp /\ pipe[e] # NULL
    <3>1. pipe[e] \in intr
      BY <1>8, <2>1
    <3>2. /\ pipe[e] \in Unit /\ chain[pipe[e]] # <<>> /\ Last(chain[pipe[e]]) \in Owed(e)
      BY <2>1, <3>1, DummyIsOwed
    <3>3. Last(chain[pipe[e]]) \in Elems(chain[pipe[e]])
      BY <3>2, ElemsOf DEF Inv, TypeOK
    <3>4. Last(chain[pipe[e]]) \notin Due
      BY <3>2, <3>3 DEF Inv, PlaceInv, Due
    <3>5. Cardinality(Owed(e)) = 1
      BY <1>6, <2>1 DEF Dummies
    <3>6. Owed(e) \ {Last(chain[pipe[e]])} = {}
      <4>1. Cardinality(Owed(e) \ {Last(chain[pipe[e]])}) = 0
        BY <1>4, <3>2, <3>5, CountUnits
      <4>2. Owed(e) \ {Last(chain[pipe[e]])} \in SUBSET Unit
        BY <1>4
      <4>3. QED BY <4>1, <4>2, CountUnits
    <3>7. QED BY <3>4, <3>6
  <2>2. QED BY <1>7, <2>1
<1>10. QED BY <1>1, <1>7, <1>8, <1>9

\* A TD is allocated for the transfer.
LEMMA XferTdInv ==
    ASSUME Inv, XferTd
    PROVE  Inv'
<1>1. PICK t \in Free :
          /\ kind' = [kind EXCEPT ![t] = "TD"]
          /\ utrOf' = [utrOf EXCEPT ![t] = main.e]
          /\ main' = [main EXCEPT
                !.tds = Append(@, t),
                !.pc = IF Len(main.tds) + 1 < main.n THEN "alloc"
                       ELSE IF main.e \in BulkEp THEN "go" ELSE "ed"]
  BY DEF XferTd, AllocTd
<1>2. /\ main.pc = "alloc" /\ isr.pc = "off"
      /\ cnt' = [cnt EXCEPT ![main.e] = IF main.e \in BulkEp THEN @ + 1 ELSE @]
      /\ UNCHANGED <<edVars, bad, linkVars, pipe, hcVars, isr, live, isDone, status,
                   calls, late, lostVars>>
  BY DEF XferTd, MainAt
<1>3. PICK e \in Ep : e = main.e
  BY <1>2 DEF Inv, MainInv
<1>4. /\ t \in Unit /\ kind[t] = "free" /\ chain[t] = <<>>
      /\ t \notin Linked /\ t \notin removing /\ t \notin Retired /\ t \notin Elems(main.tds)
      /\ \A d \in Unit : t \notin Elems(chain[d])
      /\ hc # NULL => t # hc
      /\ main.ed # t /\ \A f \in Ep : pipe[f] # t
  BY <1>2, FreeIsNowhere DEF Sub, Quits
<1>5. /\ main'.e = e /\ main'.ed = main.ed /\ main'.new = main.new /\ main'.n = main.n
      /\ main'.tds = Append(main.tds, t)
      /\ main'.pc = IF Len(main.tds) + 1 < main.n THEN "alloc"
                    ELSE IF e \in BulkEp THEN "go" ELSE "ed"
      /\ Sub /\ Sub' /\ ~ Quits /\ ~ Quits' /\ Linked' = Linked
      /\ main'.pc \in {"alloc", "go", "ed"}
  BY <1>1, <1>2, <1>3 DEF Sub, Quits, Linked, linkVars, Inv, TypeOK, MainRec
<1>6. /\ main.tds \in Seq(Unit) /\ main'.tds \in Seq(Unit) /\ Len(main'.tds) = Len(main.tds) + 1
      /\ Elems(main'.tds) = Elems(main.tds) \cup {t} /\ Once(main'.tds)
      /\ Elems(main.tds) \in SUBSET Unit
  <2>1. main.tds \in Seq(Unit) /\ Once(main.tds)
    BY DEF Inv, TypeOK, MainRec, PlaceInv
  <2>2. QED BY <1>4, <1>5, <2>1, ElemsAppend, ElemsOf
<1>7. /\ kind'[t] = "TD" /\ utrOf'[t] = e
      /\ \A u \in Unit : u # t => kind'[u] = kind[u] /\ utrOf'[u] = utrOf[u]
  BY <1>1, <1>3, <1>4 DEF Inv, TypeOK
<1>8. /\ cnt'[e] = IF e \in BulkEp THEN cnt[e] + 1 ELSE cnt[e]
      /\ \A f \in Ep : f # e => cnt'[f] = cnt[f]
      /\ cnt[e] = IF e \in BulkEp THEN Len(main.tds) ELSE 0
      /\ main.n \in TdCounts(e) /\ Len(main.tds) < main.n /\ Len(main.tds) \in Nat
      /\ main.n \in Nat
  BY <1>2, <1>3, <1>5 DEF Inv, TypeOK, SubInv, MainRec
<1>9. TypeOK'
  <2>1. main' \in MainRec
    BY <1>1, <1>6, <1>5 DEF Inv, TypeOK, MainRec, MainPc
  <2>2. cnt'[e] \in -1 .. MaxTd + 3
    BY <1>8, TdCountsOf, OhciAssumption
  <2>3. cnt' \in [Ep -> -1 .. MaxTd + 3]
    BY <1>2, <1>3, <2>2 DEF Inv, TypeOK
  <2>4. kind' \in [Unit -> {"free", "ED", "TD"}] /\ utrOf' \in [Unit -> EpOrNull]
    BY <1>1, <1>3 DEF Inv, TypeOK, EpOrNull
  <2>5. QED BY <1>2, <2>1, <2>3, <2>4 DEF Inv, TypeOK, edVars, linkVars, hcVars, lostVars
<1>10. PlaceInv'
  <2>1. /\ chain' = chain /\ done' = done /\ hcca' = hcca /\ isr' = isr
        /\ Retired' = Retired
    BY <1>2 DEF Retired, edVars, hcVars
  <2>2. PlaceInv
    BY DEF Inv
  <2>3. QED BY <1>4, <1>6, <2>1, <2>2 DEF PlaceInv
<1>11. TdInv'
  <2>1. \A u \in Retired : u # t /\ u \in Unit
    BY <1>4, TdsAreUnits
  <2>2. \A d \in Unit : \A u \in Elems(chain[d]) : u # t /\ u \in Unit
    BY <1>4, TdsAreUnits
  <2>3. Retired' = Retired
    BY <1>2 DEF Retired, hcVars
  <2>4. QED BY <1>2, <1>3, <1>5, <1>6, <1>7, <2>1, <2>2, <2>3 DEF Inv, TdInv, edVars
<1>12. EdInv'
  BY <1>2, <1>4, <1>5, <1>7 DEF Inv, EdInv, edVars, linkVars
<1>13. PipeInv'
  <2>1. \A f \in Ep : pipe[f] # NULL => pipe[f] \in Unit /\ pipe[f] # t
    BY <1>4 DEF Inv, TypeOK, UnitOrNull
  <2>2. \A f \in Ep : pipe[f] # NULL => kind'[pipe[f]] = kind[pipe[f]]
    BY <1>7, <2>1
  <2>3. pipe' = pipe /\ info' = info /\ removing' = removing
    BY <1>2 DEF edVars, linkVars
  <2>4. PipeInv
    BY DEF Inv
  <2>5. QED BY <1>3, <1>5, <2>2, <2>3, <2>4 DEF PipeInv
<1>14. FrameInv'
  BY <1>2, <1>4, <1>5, <1>7 DEF Inv, TypeOK, UnitOrNull, FrameInv, edVars, linkVars, hcVars
<1>15. QueueInv' /\ CallbackInv'
  BY <1>2 DEF Inv, QueueInv, CallbackInv, hcVars
<1>16. \A f \in Ep : Owed(f)' = Owed(f)
  <2>1. Due' = Due /\ t \notin Due
    BY <1>2, <1>4 DEF Due, Retired, hcVars
  <2>2. QED BY <1>2, <1>4, <1>7, <2>1 DEF Owed, edVars
<1>17. CountInv'
  <2>1. \A f \in Ep : f # e => InHand(f)' = InHand(f)
    BY <1>3, <1>5 DEF InHand
  <2>2. InHand(e)' = IF e \in BulkEp THEN InHand(e) + 1 ELSE InHand(e)
    BY <1>3, <1>5, <1>6 DEF InHand
  <2>3. \A f \in Ep : Dummies(f)' = Dummies(f)
    BY <1>2 DEF Dummies
  <2>4. \A f \in Ep : f # e => cnt'[f] + Dummies(f)' = Cardinality(Owed(f)') + InHand(f)'
    BY <1>8, <1>16, <2>1, <2>3 DEF Inv, CountInv
  <2>5. cnt'[e] + Dummies(e)' = Cardinality(Owed(e)') + InHand(e)'
    <3>1. cnt[e] + Dummies(e) = Cardinality(Owed(e)) + InHand(e)
      BY DEF Inv, CountInv
    <3>2. cnt[e] \in Int /\ Dummies(e) \in Int /\ InHand(e) \in Int
      BY <1>8, <1>6 DEF Dummies, InHand
    <3>3. Cardinality(Owed(e)) \in Nat
      BY UnitsFinite DEF Owed
    <3>4. QED BY <1>8, <1>16, <2>2, <2>3, <3>1, <3>2, <3>3
  <2>6. \A f \in IntEp : f \in Ep /\ f \notin BulkEp /\ cnt'[f] = cnt[f]
    BY <1>8, OhciAssumption DEF Ep
  <2>7. QED BY <1>2, <2>4, <2>5, <2>6 DEF Inv, CountInv, linkVars
<1>18. RequestInv'
  BY <1>2, <1>3, <1>5, <1>8 DEF Inv, RequestInv, lostVars
<1>19. MainInv'
  <2>1. Cardinality(Elems(main'.tds)) = Len(main'.tds)
    BY <1>4, <1>6, CountUnits DEF Inv, MainInv
  <2>2. QED BY <1>3, <1>5, <2>1 DEF MainInv
<1>20. SubInv'
  <2>1. main.n = 1 => Len(main.tds) + 1 = main.n
    BY <1>8
  <2>2. Len(main.tds) + 1 < main.n \/ Len(main.tds) + 1 = main.n
    BY <1>8
  <2>3. e \in IntEp => e \notin BulkEp
    BY OhciAssumption
  <2>4. IF e \in BulkEp
        THEN /\ main.ed \in Unit /\ kind[main.ed] = "ED" /\ info[main.ed] = e
             /\ pipe[e] = main.ed
        ELSE main.ed = NULL /\ ~ main.new
    BY <1>2, <1>3 DEF Inv, SubInv, Sub
  <2>5. live[e] /\ calls[e] = 0 /\ (main.new => main.ed \notin Linked)
    BY <1>2, <1>3, <1>5 DEF Inv, SubInv
  <2>6. IF e \in BulkEp
        THEN /\ main'.ed \in Unit /\ kind'[main'.ed] = "ED" /\ info'[main'.ed] = e
             /\ pipe'[e] = main'.ed
        ELSE main'.ed = NULL /\ ~ main'.new
    BY <1>2, <1>4, <1>5, <1>7, <2>4 DEF edVars
  <2>7. /\ main'.pc = "alloc" => Len(main'.tds) < main'.n
        /\ main'.pc # "alloc" => Len(main'.tds) = main'.n
        /\ main'.pc = "go" => e \in BulkEp
        /\ main'.pc = "ed" => e \notin BulkEp
    BY <1>5, <1>6, <2>2
  <2>8. cnt'[e] = IF e \in BulkEp THEN Len(main'.tds) ELSE 0
    BY <1>6, <1>8
  <2>9. QED BY <1>2, <1>5, <1>8, <2>3, <2>5, <2>6, <2>7, <2>8 DEF SubInv
<1>21. KeepInv'
  BY <1>2, <1>5, <1>6, <1>7 DEF Inv, KeepInv, Retired, edVars, linkVars, lostVars, hcVars
<1>22. QED BY <1>9, <1>10, <1>11, <1>12, <1>13, <1>14, <1>15, <1>17, <1>18, <1>19, <1>20,
              <1>21 DEF Inv

\* The ED that the search finds is the endpoint's, and if it finds none the
\* endpoint has none.
LEMMA ExistingIsPipe ==
    ASSUME Inv, main.pc = "ed"
    PROVE  /\ \A d \in Existing(main.e) : /\ d \in Unit /\ d = pipe[main.e] /\ kind[d] = "ED"
                                          /\ info[d] = main.e
                                          /\ main.e \in IntEp => d \in intr
           /\ Existing(main.e) = {} => pipe[main.e] = NULL
<1>1. /\ Sub /\ main.e \in Ep /\ removing = {} /\ skip = {} /\ ~ Quits /\ ~ main.new
      /\ main.e \in IntEp /\ pipe[main.e] # NULL => pipe[main.e] \in intr
  BY SubOwes DEF Sub, Inv, SubInv
<1>2. pipe[main.e] # NULL => /\ pipe[main.e] \in Unit /\ kind[pipe[main.e]] = "ED"
                             /\ info[pipe[main.e]] = main.e
                             /\ main.e \in CtrlEp \/ pipe[main.e] \in Linked
  BY <1>1 DEF Inv, TypeOK, UnitOrNull, PipeInv
<1>3. CASE main.e \in CtrlEp
  <2>1. Existing(main.e) = {pipe[main.e]} \ {NULL} /\ main.e \notin IntEp
    BY <1>3, OhciAssumption DEF Existing
  <2>2. QED BY <1>2, <2>1
<1>4. CASE main.e \notin CtrlEp
  <2>1. Existing(main.e) = {d \in bulk \cup intr : info[d] = main.e}
    BY <1>1, <1>4 DEF Existing
  <2>2. \A d \in bulk \cup intr : d \in Unit /\ kind[d] = "ED" /\ pipe[info[d]] = d
    BY DEF Inv, TypeOK, EdInv, Linked
  <2>3. pipe[main.e] # NULL => pipe[main.e] \in bulk \cup intr
    BY <1>2, <1>4 DEF Inv, EdInv, Linked
  <2>4. \A d \in Existing(main.e) : main.e \in IntEp => d \in intr
    BY <2>1, OhciAssumption DEF Inv, EdInv
  <2>5. QED BY <1>2, <2>1, <2>2, <2>3, <2>4
<1>5. QED BY <1>3, <1>4

\* The transfer uses the ED that the endpoint has.
LEMMA XferEdOldInv ==
    ASSUME Inv, MainAt("ed"), NEW d \in Unit, d \in Existing(main.e),
           UNCHANGED <<kind, info>>,
           pipe' = [pipe EXCEPT ![main.e] = IF main.e \in BulkEp THEN d ELSE @],
           main' = [main EXCEPT
                !.ed = d, !.new = Existing(main.e) = {},
                !.pc = CASE main.e \in BulkEp -> "alloc"
                         [] main.e \in IntEp /\ Existing(main.e) = {} -> "dummy"
                         [] OTHER -> "go"],
           UNCHANGED <<chain, skip, halt, utrOf, bad, linkVars, hcVars, isr, utrVars, lostVars>>
    PROVE  Inv'
<1>1. PICK e \in Ep : e = main.e
  BY DEF Inv, MainInv, MainAt
<1>2. /\ main.pc = "ed" /\ isr.pc = "off" /\ Sub /\ ~ Quits
      /\ main.ed = NULL /\ ~ main.new
  BY DEF MainAt, Sub, Quits, Inv, SubInv
<1>3. /\ d = pipe[e] /\ kind[d] = "ED" /\ info[d] = e /\ (e \in IntEp => d \in intr)
  BY <1>1, <1>2, ExistingIsPipe
<1>4. pipe' = pipe
  BY <1>1, <1>3 DEF Inv, TypeOK
<1>5. /\ main'.e = e /\ main'.ed = d /\ main'.new = FALSE /\ main'.n = main.n
      /\ main'.tds = main.tds
      /\ main'.pc = IF e \in BulkEp THEN "alloc" ELSE "go"
      /\ Sub' /\ ~ Quits' /\ Linked' = Linked /\ main' \in MainRec
  BY <1>1 DEF Sub, Quits, Linked, linkVars, Inv, TypeOK, MainRec, MainPc, UnitOrNull
<1>6. TypeOK'
  BY <1>4, <1>5 DEF Inv, TypeOK, linkVars, hcVars, utrVars, lostVars
<1>7. PlaceInv' /\ TdInv' /\ EdInv'
  <2>1. Retired' = Retired
    BY DEF Retired, hcVars
  <2>2. PlaceInv'
    BY <1>5, <2>1 DEF Inv, PlaceInv, hcVars
  <2>3. TdInv'
    BY <1>1, <1>2, <1>5, <2>1 DEF Inv, TdInv
  <2>4. \A f \in Unit : chain[f] # <<>> => f \in Linked /\ pipe[info[f]] = f
    BY <1>2 DEF Inv, EdInv
  <2>5. EdInv'
    BY <1>4, <1>5, <2>4 DEF Inv, EdInv, linkVars
  <2>6. QED BY <2>2, <2>3, <2>5
<1>8. PipeInv' /\ FrameInv'
  BY <1>1, <1>2, <1>4, <1>5 DEF Inv, PipeInv, FrameInv, linkVars, hcVars
<1>9. QueueInv' /\ CallbackInv'
  BY <1>2 DEF Inv, QueueInv, CallbackInv, hcVars
<1>10. CountInv'
  BY <1>1, <1>2, <1>4, <1>5 DEF Inv, CountInv, Owed, Due, Retired, Dummies, InHand, hcVars,
     utrVars, linkVars
<1>11. RequestInv' /\ MainInv'
  BY <1>1, <1>2, <1>4, <1>5 DEF Inv, RequestInv, MainInv, utrVars, lostVars
<1>12. SubInv'
  <2>1. /\ live[e] /\ calls[e] = 0 /\ main.n \in TdCounts(e)
        /\ cnt[e] = IF e \in BulkEp THEN Len(main.tds) ELSE 0
        /\ e \in BulkEp => main.tds = <<>>
        /\ e \notin BulkEp => Len(main.tds) = main.n
    BY <1>1, <1>2 DEF Inv, SubInv
  <2>2. e \in BulkEp => Len(main.tds) < main.n
    BY <2>1, TdCountsOf
  <2>3. e \in IntEp => e \notin BulkEp
    BY OhciAssumption
  <2>4. CASE e \in BulkEp
    BY <1>3, <1>4, <1>5, <2>1, <2>2, <2>3, <2>4 DEF SubInv, utrVars
  <2>5. CASE e \notin BulkEp
    BY <1>3, <1>4, <1>5, <2>1, <2>3, <2>5 DEF SubInv, utrVars, linkVars
  <2>6. QED BY <2>4, <2>5
<1>13. KeepInv'
  BY <1>2, <1>4, <1>5, OhciAssumption DEF Inv, KeepInv, Retired, linkVars, lostVars, hcVars
<1>14. QED BY <1>6, <1>7, <1>8, <1>9, <1>10, <1>11, <1>12, <1>13 DEF Inv

\* The transfer gets a new ED.
LEMMA XferEdNewInv ==
    ASSUME Inv, MainAt("ed"), NEW d \in Free, Existing(main.e) = {},
           NEW p \in {"alloc", "dummy", "go"},
           p = IF main.e \in BulkEp THEN "alloc" ELSE IF main.e \in IntEp THEN "dummy" ELSE "go",
           AllocEd(d, main.e),
           pipe' = [pipe EXCEPT ![main.e] = IF main.e \in BulkEp THEN d ELSE @],
           main' = [main EXCEPT !.ed = d, !.new = TRUE, !.pc = p],
           UNCHANGED <<chain, skip, halt, utrOf, bad, linkVars, hcVars, isr, utrVars, lostVars>>
    PROVE  Inv'
<1>1. PICK e \in Ep : e = main.e
  BY DEF Inv, MainInv, MainAt
<1>2. /\ main.pc = "ed" /\ isr.pc = "off" /\ Sub /\ ~ Quits
      /\ main.ed = NULL /\ ~ main.new
  BY DEF MainAt, Sub, Quits, Inv, SubInv
<1>3. pipe[e] = NULL
  BY <1>1, <1>2, ExistingIsPipe
<1>4. /\ d \in Unit /\ kind[d] = "free" /\ chain[d] = <<>>
      /\ d \notin Linked /\ d \notin removing /\ d \notin Retired /\ d \notin Elems(main.tds)
      /\ \A f \in Unit : d \notin Elems(chain[f])
      /\ hc # NULL => d # hc
      /\ \A f \in Ep : pipe[f] # d
  BY <1>2, FreeIsNowhere
<1>5. /\ pipe'[e] = IF e \in BulkEp THEN d ELSE NULL
      /\ \A f \in Ep : f # e => pipe'[f] = pipe[f]
      /\ pipe' \in [Ep -> UnitOrNull]
  BY <1>1, <1>3, <1>4 DEF Inv, TypeOK, UnitOrNull
<1>6. /\ main'.e = e /\ main'.ed = d /\ main'.new = TRUE /\ main'.n = main.n
      /\ main'.tds = main.tds
      /\ main'.pc = IF e \in BulkEp THEN "alloc" ELSE IF e \in IntEp THEN "dummy" ELSE "go"
      /\ Sub' /\ ~ Quits' /\ Linked' = Linked /\ main' \in MainRec
  BY <1>1, <1>4 DEF Inv, TypeOK, MainRec, MainPc, UnitOrNull, Sub, Quits, Linked, linkVars
<1>7. main' \in MainRec
  BY <1>6
<1>8. /\ kind'[d] = "ED" /\ info'[d] = e /\ kind' \in [Unit -> {"free", "ED", "TD"}]
      /\ info' \in [Unit -> EpOrNull]
      /\ \A u \in Unit : u # d => kind'[u] = kind[u] /\ info'[u] = info[u]
  BY <1>1, <1>4 DEF AllocEd, Inv, TypeOK, EpOrNull
<1>9. TypeOK'
  BY <1>5, <1>7, <1>8 DEF Inv, TypeOK, linkVars, hcVars, utrVars, lostVars
<1>10. PlaceInv'
  BY <1>6 DEF Inv, PlaceInv, Retired, hcVars
<1>11. TdInv'
  <2>1. \A u \in Retired : u # d /\ u \in Unit
    BY <1>4, TdsAreUnits
  <2>2. \A f \in Unit : \A u \in Elems(chain[f]) : u # d /\ u \in Unit /\ f # d
    BY <1>4, TdsAreUnits, ElemsFew
  <2>3. Retired' = Retired
    BY DEF Retired, hcVars
  <2>4. \A u \in Elems(main.tds) : u # d /\ u \in Unit
    BY <1>4, TdsAreUnits
  <2>5. QED BY <1>1, <1>2, <1>6, <1>8, <2>1, <2>2, <2>3, <2>4 DEF Inv, TdInv
<1>12. EdInv'
  <2>1. bulk \subseteq Unit /\ intr \subseteq Unit /\ d \notin bulk /\ d \notin intr /\ d # ctrlHead
        /\ (ctrlHead # NULL => ctrlHead \in Unit)
    BY <1>4, OhciAssumption DEF Linked, Inv, TypeOK, UnitOrNull
  <2>2. \A f \in bulk \cup intr : info[f] \in Ep /\ info[f] # e /\ pipe'[info[f]] = pipe[info[f]]
    BY <1>3, <1>5, <2>1, OhciAssumption DEF Inv, EdInv, Ep
  <2>3. \A f \in Unit : chain[f] # <<>> => /\ f # d /\ f \in Linked /\ pipe[info[f]] = f
                                           /\ info[f] \in Ep /\ info[f] # e
    BY <1>2, <1>3, <1>4, OhciAssumption DEF Inv, EdInv, Linked, Ep
  <2>4. QED BY <1>2, <1>5, <1>6, <1>8, <2>1, <2>2, <2>3 DEF Inv, EdInv, linkVars
<1>13. PipeInv'
  BY <1>1, <1>2, <1>4, <1>5, <1>6, <1>8 DEF Inv, TypeOK, UnitOrNull, PipeInv
<1>14. FrameInv'
  BY <1>2, <1>4, <1>6, <1>8 DEF Inv, TypeOK, UnitOrNull, FrameInv, linkVars, hcVars
<1>15. QueueInv' /\ CallbackInv'
  BY <1>2 DEF Inv, QueueInv, CallbackInv, hcVars
<1>16. CountInv'
  <2>1. \A f \in Ep : Owed(f)' = Owed(f)
    BY DEF Owed, Due, Retired, hcVars
  <2>2. \A f \in Ep : InHand(f)' = InHand(f)
    BY <1>1, <1>2, <1>6 DEF InHand
  <2>3. \A f \in IntEp : f \in Ep /\ pipe'[f] = pipe[f]
    BY <1>3, <1>5, OhciAssumption DEF Ep
  <2>4. \A f \in Ep : Dummies(f)' = Dummies(f)
    BY <2>3 DEF Dummies
  <2>5. QED BY <2>1, <2>2, <2>3, <2>4 DEF Inv, CountInv, utrVars, linkVars
<1>17. RequestInv' /\ MainInv'
  <2>1. \A f \in IntEp : f \in Ep /\ pipe'[f] = pipe[f]
    BY <1>3, <1>5, OhciAssumption DEF Ep
  <2>2. QED BY <1>1, <1>2, <1>6, <2>1 DEF Inv, RequestInv, MainInv, utrVars, lostVars
<1>18. SubInv'
  <2>1. /\ live[e] /\ calls[e] = 0 /\ main.n \in TdCounts(e)
        /\ cnt[e] = IF e \in BulkEp THEN Len(main.tds) ELSE 0
        /\ e \in BulkEp => main.tds = <<>>
        /\ e \notin BulkEp => Len(main.tds) = main.n
    BY <1>1, <1>2 DEF Inv, SubInv
  <2>2. e \in BulkEp => Len(main.tds) < main.n
    BY <2>1, TdCountsOf
  <2>3. e \in IntEp => main'.pc # "go"
    BY <1>6, OhciAssumption
  <2>4. QED BY <1>4, <1>5, <1>6, <1>8, <2>1, <2>2, <2>3 DEF SubInv, utrVars
<1>19. KeepInv'
  BY <1>2, <1>3, <1>4, <1>5, <1>6, <1>8, OhciAssumption DEF Inv, KeepInv, Retired, linkVars,
     lostVars, hcVars
<1>20. QED BY <1>9, <1>10, <1>11, <1>12, <1>13, <1>14, <1>15, <1>16, <1>17, <1>18, <1>19 DEF Inv

\* The ED is found or allocated.
LEMMA XferEdInv ==
    ASSUME Inv, XferEd
    PROVE  Inv'
<1>1. MainAt("ed") /\ UNCHANGED <<chain, skip, halt, utrOf, bad, linkVars, hcVars, isr, utrVars,
                                   lostVars>>
  BY DEF XferEd
<1>2. PICK d \in Unit :
          /\ \/ /\ d \in Existing(main.e)
                /\ UNCHANGED <<kind, info>>
             \/ /\ Existing(main.e) = {} /\ d \in Free
                /\ AllocEd(d, main.e)
          /\ pipe' = [pipe EXCEPT ![main.e] = IF main.e \in BulkEp THEN d ELSE @]
          /\ main' = [main EXCEPT
                !.ed = d, !.new = Existing(main.e) = {},
                !.pc = CASE main.e \in BulkEp -> "alloc"
                         [] main.e \in IntEp /\ Existing(main.e) = {} -> "dummy"
                         [] OTHER -> "go"]
  BY DEF XferEd
<1>3. CASE d \in Existing(main.e) /\ UNCHANGED <<kind, info>>
  BY <1>1, <1>2, <1>3, XferEdOldInv
<1>4. CASE Existing(main.e) = {} /\ d \in Free /\ AllocEd(d, main.e)
  <2> DEFINE p == IF main.e \in BulkEp THEN "alloc" ELSE IF main.e \in IntEp THEN "dummy" ELSE "go"
  <2>1. (CASE main.e \in BulkEp -> "alloc" [] main.e \in IntEp /\ TRUE -> "dummy"
           [] OTHER -> "go") = p
    BY OhciAssumption
  <2>2. (Existing(main.e) = {}) = TRUE
    BY <1>4
  <2>3. main' = [main EXCEPT !.ed = d, !.new = TRUE,
                   !.pc = CASE main.e \in BulkEp -> "alloc" [] main.e \in IntEp /\ TRUE -> "dummy"
                            [] OTHER -> "go"]
    BY <1>2, <2>2, Zenon
  <2>4. main' = [main EXCEPT !.ed = d, !.new = TRUE, !.pc = p] /\ p \in {"alloc", "dummy", "go"}
    BY <2>1, <2>3
  <2>5. QED BY <1>1, <1>2, <1>4, <2>4, XferEdNewInv
<1>5. QED BY <1>2, <1>3, <1>4

\* A new interrupt ED gets its dummy TD.
LEMMA XferDummyInv ==
    ASSUME Inv, XferDummy
    PROVE  Inv'
<1>1. PICK t \in Free : /\ kind' = [kind EXCEPT ![t] = "TD"]
                        /\ utrOf' = [utrOf EXCEPT ![t] = NULL]
                        /\ chain' = [chain EXCEPT ![main.ed] = <<t>>]
  BY DEF XferDummy, AllocTd
<1>2. /\ main.pc = "dummy" /\ isr.pc = "off" /\ main' = [main EXCEPT !.pc = "go"]
      /\ UNCHANGED <<info, skip, halt, bad, linkVars, pipe, hcVars, isr, utrVars, lostVars>>
  BY DEF XferDummy, MainAt
<1>3. PICK e \in Ep : e = main.e
  BY <1>2 DEF Inv, MainInv
<1>4. /\ t \in Unit /\ kind[t] = "free" /\ chain[t] = <<>>
      /\ t \notin Linked /\ t \notin removing /\ t \notin Retired /\ t \notin Elems(main.tds)
      /\ \A d \in Unit : t \notin Elems(chain[d])
      /\ hc # NULL => t # hc
      /\ main.ed # t /\ \A f \in Ep : pipe[f] # t
  BY <1>2, FreeIsNowhere DEF Sub, Quits
<1>5. /\ main'.e = e /\ main'.ed = main.ed /\ main'.new = main.new /\ main'.n = main.n
      /\ main'.tds = main.tds /\ main'.pc = "go" /\ main' \in MainRec
      /\ Sub /\ Sub' /\ ~ Quits /\ ~ Quits' /\ Linked' = Linked
  BY <1>2, <1>3 DEF Sub, Quits, Linked, linkVars, Inv, TypeOK, MainRec, MainPc
<1>6. PICK d \in Unit : /\ d = main.ed /\ kind[d] = "ED" /\ info[d] = e /\ chain[d] = <<>>
                        /\ d \notin Linked /\ main.new /\ e \in IntEp /\ pipe[e] = NULL
                        /\ e \notin BulkEp
  BY <1>2, <1>3, <1>5, OhciAssumption DEF Inv, SubInv
<1>7. /\ kind'[t] = "TD" /\ utrOf'[t] = NULL
      /\ \A u \in Unit : u # t => kind'[u] = kind[u] /\ utrOf'[u] = utrOf[u]
      /\ chain'[d] = <<t>> /\ \A u \in Unit : u # d => chain'[u] = chain[u]
      /\ Elems(<<t>>) = {t} /\ Once(<<t>>) /\ Elems(<<>>) = {} /\ Len(<<t>>) = 1 /\ <<t>> # <<>>
      /\ <<t>>[1] = t
  BY <1>1, <1>4, <1>6, ElemsFew DEF Inv, TypeOK
<1>8. TypeOK'
  <2>1. <<t>> \in Seq(Unit)
    BY <1>4
  <2>2. /\ kind' \in [Unit -> {"free", "ED", "TD"}] /\ utrOf' \in [Unit -> EpOrNull]
        /\ chain' \in [Unit -> Seq(Unit)]
    BY <1>1, <2>1 DEF Inv, TypeOK, EpOrNull
  <2>3. QED BY <1>2, <1>5, <2>2 DEF Inv, TypeOK, linkVars, hcVars, utrVars, lostVars
<1>9. PlaceInv'
  <2>1. Retired' = Retired
    BY <1>2 DEF Retired, hcVars
  <2>2. \A f \in Unit : /\ Once(chain'[f])
                        /\ f # d => Elems(chain'[f]) = Elems(chain[f])
                        /\ Elems(chain'[d]) = {t}
    BY <1>6, <1>7 DEF Inv, PlaceInv
  <2>3. \A f, g \in Unit : \A u \in Elems(chain'[f]) : u \in Elems(chain'[g]) => f = g
    BY <1>4, <1>6, <2>2 DEF Inv, PlaceInv
  <2>4. \A f \in Unit : \A u \in Elems(chain'[f]) : u \notin Retired /\ u \notin Elems(main.tds)
    BY <1>4, <1>6, <2>2 DEF Inv, PlaceInv
  <2>5. QED BY <1>2, <1>5, <2>1, <2>2, <2>3, <2>4 DEF Inv, PlaceInv, hcVars
<1>10. TdInv'
  <2>1. \A u \in Retired : u # t /\ u \in Unit
    BY <1>4, TdsAreUnits
  <2>2. \A f \in Unit : \A u \in Elems(chain[f]) : u # t /\ u \in Unit
    BY <1>4, TdsAreUnits
  <2>3. Retired' = Retired
    BY <1>2 DEF Retired, hcVars
  <2>4. \A u \in Elems(main.tds) : u # t /\ u \in Unit
    BY <1>4, TdsAreUnits
  <2>5. QED BY <1>2, <1>3, <1>5, <1>6, <1>7, <2>1, <2>2, <2>3, <2>4 DEF Inv, TdInv
<1>11. EdInv'
  <2>1. bulk \subseteq Unit /\ intr \subseteq Unit /\ d \notin bulk /\ d \notin intr
        /\ (ctrlHead # NULL => ctrlHead \in Unit)
    BY <1>6 DEF Linked, Inv, TypeOK, UnitOrNull
  <2>2. \A u \in Unit : chain'[u] # <<>> \/ u \in Linked' \cup removing' => kind'[u] = "ED"
    BY <1>2, <1>4, <1>5, <1>6, <1>7 DEF Inv, EdInv, linkVars
  <2>3. \A f \in bulk \cup intr : f \in Unit /\ f # d /\ chain'[f] = chain[f]
    BY <1>7, <2>1
  <2>4. \A f \in Unit : chain'[f] # <<>> =>
           \/ f \in Linked /\ pipe[info[f]] = f
           \/ f = d /\ Len(chain'[f]) = 1
    BY <1>2, <1>6, <1>7 DEF Inv, EdInv
  <2>5. QED BY <1>2, <1>5, <1>6, <2>2, <2>3, <2>4 DEF Inv, EdInv, linkVars
<1>12. PipeInv'
  BY <1>2, <1>3, <1>4, <1>5, <1>7 DEF Inv, TypeOK, UnitOrNull, PipeInv, linkVars
<1>13. FrameInv'
  BY <1>2, <1>4, <1>5, <1>7 DEF Inv, TypeOK, UnitOrNull, FrameInv, linkVars, hcVars
<1>14. QueueInv' /\ CallbackInv'
  BY <1>2 DEF Inv, QueueInv, CallbackInv, hcVars
<1>15. \A f \in Ep : Owed(f)' = Owed(f)
  <2>1. Due' = Due /\ t \notin Due
    BY <1>2, <1>4 DEF Due, Retired, hcVars
  <2>2. \A u \in Unit : (\E c \in Unit : u \in Elems(chain'[c])) <=>
                        (u = t \/ \E c \in Unit : u \in Elems(chain[c]))
    BY <1>6, <1>7
  <2>3. QED BY <1>4, <1>7, <2>1, <2>2, OhciAssumption DEF Owed
<1>16. CountInv'
  BY <1>2, <1>3, <1>5, <1>6, <1>15 DEF Inv, CountInv, Dummies, InHand, utrVars, linkVars
<1>17. RequestInv' /\ MainInv'
  BY <1>2, <1>3, <1>5 DEF Inv, RequestInv, MainInv, utrVars, lostVars
<1>18. SubInv'
  <2>1. /\ live[e] /\ calls[e] = 0 /\ main.n \in TdCounts(e)
        /\ cnt[e] = IF e \in BulkEp THEN Len(main.tds) ELSE 0
        /\ Len(main.tds) = main.n
    BY <1>2, <1>3, <1>5 DEF Inv, SubInv
  <2>2. /\ live' = live /\ calls' = calls /\ cnt' = cnt /\ pipe' = pipe
        /\ kind'[d] = kind[d] /\ info' = info
    BY <1>2, <1>4, <1>6, <1>7 DEF utrVars
  <2>3. /\ Len(chain'[d]) = 1 /\ utrOf'[chain'[d][1]] = NULL
    BY <1>7
  <2>4. QED BY <1>2, <1>4, <1>5, <1>6, <2>1, <2>2, <2>3 DEF SubInv
<1>19. KeepInv'
  BY <1>2, <1>4, <1>5, <1>6, <1>7 DEF Inv, KeepInv, Retired, linkVars, lostVars, hcVars
<1>20. QED BY <1>8, <1>9, <1>10, <1>11, <1>12, <1>13, <1>14, <1>16, <1>17, <1>18, <1>19 DEF Inv

\* What a refused submission frees is in no other place.
LEMMA RefusedIsApart ==
    ASSUME Inv, main.pc \in {"alloc", "ed", "dummy"}, ~ (main.e \in BulkEp /\ main.pc = "alloc")
    PROVE  /\ main.pc = "dummy" => main.ed \in Refused
           /\ main.pc # "dummy" => main.ed = NULL
           /\ main.e \in CtrlEp => Elems(main.tds) \subseteq Refused
           /\ \A u \in Refused :
                 /\ u \in Unit /\ kind[u] # "free" /\ u # hc /\ u \notin Linked /\ chain[u] = <<>>
                 /\ u \notin Retired /\ \A d \in Unit : u \notin Elems(chain[d])
                 /\ \A f \in Ep : pipe[f] # u
<1>1. /\ Sub /\ main.e \in Ep /\ removing = {} /\ skip = {} /\ ~ Quits
      /\ main.pc # "go"
  BY SubOwes DEF Sub
<1>2. main.pc # "dummy" => main.ed = NULL
  BY <1>1, OhciAssumption DEF Inv, SubInv
<1>3. main.pc = "dummy" => /\ main.ed \in Unit /\ kind[main.ed] = "ED" /\ info[main.ed] = main.e
                           /\ pipe[main.e] = NULL /\ main.new /\ chain[main.ed] = <<>>
                           /\ main.ed \notin Linked
  BY <1>1, OhciAssumption DEF Inv, SubInv
<1>4. main.pc = "dummy" => main.ed \in Refused
  BY <1>3, OhciAssumption DEF Refused
<1>5. main.e \in CtrlEp => Elems(main.tds) \subseteq Refused
  BY OhciAssumption DEF Refused
<1>6. Elems(main.tds) \in SUBSET Unit
  BY TdsAreUnits
<1>7. ASSUME NEW u \in Elems(main.tds)
      PROVE  /\ u \in Unit /\ kind[u] # "free" /\ u # hc /\ u \notin Linked /\ chain[u] = <<>>
             /\ u \notin Retired /\ \A d \in Unit : u \notin Elems(chain[d])
             /\ \A f \in Ep : pipe[f] # u
  <2>1. u \in Unit /\ kind[u] = "TD"
    BY <1>6 DEF Inv, TdInv
  <2>2. u # hc /\ u \notin Linked /\ chain[u] = <<>>
    BY <2>1, OhciAssumption DEF Inv, FrameInv, EdInv
  <2>3. u \notin Retired /\ \A d \in Unit : u \notin Elems(chain[d])
    BY DEF Inv, PlaceInv
  <2>4. \A f \in Ep : pipe[f] # u
    BY <1>1, <2>1, OhciAssumption DEF Inv, PipeInv
  <2>5. QED BY <2>1, <2>2, <2>3, <2>4
<1>8. ASSUME main.pc = "dummy", NEW u, u = main.ed
      PROVE  /\ u \in Unit /\ kind[u] # "free" /\ u # hc /\ u \notin Linked /\ chain[u] = <<>>
             /\ u \notin Retired /\ \A d \in Unit : u \notin Elems(chain[d])
             /\ \A f \in Ep : pipe[f] # u
  <2>1. u \in Unit /\ kind[u] = "ED" /\ u \notin Linked /\ chain[u] = <<>>
    BY <1>3, <1>8
  <2>2. u # hc
    BY <1>1, <1>3, <1>8, <2>1, OhciAssumption DEF Inv, FrameInv
  <2>3. u \notin Retired /\ \A d \in Unit : u \notin Elems(chain[d])
    BY <2>1 DEF Inv, TdInv
  <2>4. \A f \in Ep : pipe[f] # u
    BY <1>1, <1>3, <1>8, <2>1, OhciAssumption DEF Inv, PipeInv
  <2>5. QED BY <2>1, <2>2, <2>3, <2>4
<1>9. \A u \in Refused : u \in Elems(main.tds) \/ (main.pc = "dummy" /\ u = main.ed)
  BY <1>2 DEF Refused
<1>10. QED BY <1>2, <1>4, <1>5, <1>7, <1>8, <1>9

\* A submission that runs out of units frees what it has; a bulk one has
\* nothing yet, unless it has freed its ED.
LEMMA XferNoMemInv ==
    ASSUME Inv, XferNoMem, ~ stale'
    PROVE  Inv'
<1>1. /\ main.pc \in {"alloc", "ed", "dummy"} /\ isr.pc = "off"
      /\ main.pc = "ed" => Existing(main.e) = {}
      /\ FreeUnits(Refused)
      /\ pipe' = [pipe EXCEPT ![main.e] = IF main.e \in CtrlEp THEN NULL ELSE @]
      /\ orphan' = orphan \cup (IF main.e \in CtrlEp THEN {pipe[main.e]} \ {NULL}
                                ELSE Elems(main.tds) \ Refused)
      /\ Released(main.e)
      /\ main' = MainIdle
      /\ UNCHANGED <<linkVars, hcVars, isr, dropped, again>>
      /\ ~ (main.e \in BulkEp /\ main.pc = "alloc") /\ stale' = FALSE
  <2>1. stale' = (stale \/ (main.e \in BulkEp /\ main.pc = "alloc"))
    BY DEF XferNoMem
  <2>2. ~ (main.e \in BulkEp /\ main.pc = "alloc") /\ ~ stale
    BY <2>1
  <2>3. stale' = FALSE
    BY <2>1, <2>2
  <2>4. QED BY <2>2, <2>3 DEF XferNoMem
<1>2. PICK e \in Ep : e = main.e
  BY <1>1 DEF Inv, MainInv
<1>3. /\ Sub /\ removing = {} /\ skip = {} /\ ~ Quits /\ ~ sfe /\ main.pc # "go"
      /\ e \notin IntEp => Owed(e) = {}
  BY <1>1, <1>2, SubOwes DEF Sub
<1>4. /\ main.pc = "dummy" => main.ed \in Refused
      /\ main.pc # "dummy" => main.ed = NULL
      /\ e \in CtrlEp => Elems(main.tds) \subseteq Refused
      /\ \A u \in Refused :
            /\ u \in Unit /\ kind[u] # "free" /\ u # hc /\ u \notin Linked /\ chain[u] = <<>>
            /\ u \notin Retired /\ \A d \in Unit : u \notin Elems(chain[d])
            /\ \A f \in Ep : pipe[f] # u
  BY <1>1, <1>2, RefusedIsApart
<1>5. /\ \A u \in Refused : kind'[u] = "free"
      /\ \A u \in Unit \ Refused : kind'[u] = kind[u] /\ info'[u] = info[u] /\ utrOf'[u] = utrOf[u]
      /\ \A u \in Unit : chain'[u] = chain[u]
      /\ skip' = {} /\ halt' \subseteq halt /\ bad' \subseteq bad
      /\ kind' \in [Unit -> {"free", "ED", "TD"}] /\ info' \in [Unit -> EpOrNull]
      /\ utrOf' \in [Unit -> EpOrNull] /\ chain' \in [Unit -> Seq(Unit)]
  <2>1. <<>> \in Seq(Unit)
    OBVIOUS
  <2>2. QED BY <1>1, <1>3, <1>4, <2>1 DEF FreeUnits, Inv, TypeOK, EpOrNull
<1>6. /\ pipe'[e] = IF e \in CtrlEp THEN NULL ELSE pipe[e]
      /\ \A f \in Ep : f # e => pipe'[f] = pipe[f]
      /\ pipe' \in [Ep -> UnitOrNull]
  BY <1>1, <1>2 DEF Inv, TypeOK, UnitOrNull
<1>7. /\ ~ live'[e] /\ ~ isDone'[e] /\ cnt'[e] = 0 /\ calls'[e] = 0 /\ late' = late
      /\ \A f \in Ep : f # e => /\ live'[f] = live[f] /\ calls'[f] = calls[f]
                                /\ isDone'[f] = isDone[f] /\ cnt'[f] = cnt[f]
  BY <1>1, <1>2, ReleasedEffect
<1>8. /\ ~ Sub' /\ ~ Quits' /\ main'.pc = "idle" /\ main'.tds = <<>> /\ main'.ed = NULL
      /\ Linked' = Linked /\ removing' = {} /\ Retired' = Retired /\ hc' = hc
  BY <1>1, <1>3 DEF Sub, Quits, Linked, linkVars, MainIdle, Retired, hcVars
<1>9. \A f \in IntEp : f \in Ep /\ f \notin BulkEp /\ f \notin CtrlEp
  BY OhciAssumption DEF Ep
<1>10. TypeOK'
  <2>1. <<>> \in Seq(Unit) /\ "idle" \in MainPc
    BY DEF MainPc
  <2>2. MainIdle \in MainRec
    BY <2>1, MainRecOf DEF MainIdle, EpOrNull, UnitOrNull
  <2>3. Elems(main.tds) \in SUBSET Unit /\ pipe[e] \in Unit \cup {NULL}
    BY TdsAreUnits DEF Inv, TypeOK, UnitOrNull
  <2>4. orphan' \subseteq Unit
    BY <1>1, <1>2, <2>3 DEF Inv, TypeOK
  <2>5. /\ live' \in [Ep -> BOOLEAN] /\ isDone' \in [Ep -> BOOLEAN]
        /\ status' \in [Ep -> {"ok", "err", "abort"}]
        /\ cnt' \in [Ep -> -1 .. MaxTd + 3] /\ calls' \in [Ep -> 0 .. 2]
    BY <1>1, <1>2, ReleasedEffect
  <2>6. skip' \subseteq Unit /\ halt' \subseteq Unit /\ bad' \subseteq Unit /\ main' \in MainRec
    BY <1>1, <1>5, <2>2 DEF Inv, TypeOK
  <2>7. QED BY <1>1, <1>5, <1>6, <1>7, <2>4, <2>5, <2>6
         DEF Inv, TypeOK, linkVars, hcVars
<1>11. PlaceInv'
  BY <1>1, <1>5, <1>8, ElemsFew DEF Inv, PlaceInv, hcVars
<1>12. TdInv'
  <2>1. \A u \in Retired : u \in Unit /\ u \notin Refused
    BY <1>4, TdsAreUnits
  <2>2. \A d \in Unit : \A u \in Elems(chain[d]) : u \in Unit /\ u \notin Refused /\ d \notin Refused
    BY <1>4, TdsAreUnits, ElemsFew
  <2>3. \A u \in Retired' : kind'[u] = "TD" /\ utrOf'[u] \in Ep
    <3>1. \A u \in Retired : kind[u] = "TD" /\ utrOf[u] \in Ep
      BY DEF Inv, TdInv
    <3>2. \A u \in Retired : kind'[u] = kind[u] /\ utrOf'[u] = utrOf[u]
      BY <1>5, <2>1
    <3>3. QED BY <1>8, <3>1, <3>2
  <2>4. \A d \in Unit : \A u \in Elems(chain[d]) : kind[u] = "TD" /\ utrOf[u] = info[d]
    BY <1>3 DEF Inv, TdInv
  <2>5. \A d \in Unit : \A u \in Elems(chain'[d]) : kind'[u] = "TD" /\ utrOf'[u] = info'[d]
    <3>1. ASSUME NEW d \in Unit PROVE chain'[d] = chain[d]
      BY <1>5
    <3>2. ASSUME NEW d \in Unit, NEW u \in Elems(chain[d])
          PROVE  kind'[u] = kind[u] /\ utrOf'[u] = utrOf[u] /\ info'[d] = info[d]
      <4>1. u \in Unit \ Refused /\ d \in Unit \ Refused
        BY <2>2
      <4>2. QED BY <1>5, <4>1
    <3>3. QED BY <2>4, <3>1, <3>2
  <2>6. QED BY <1>8, <2>3, <2>5, ElemsFew DEF TdInv
<1>13. EdInv'
  <2>1. /\ bulk \subseteq Unit \ Refused /\ intr \subseteq Unit \ Refused
        /\ (ctrlHead # NULL => ctrlHead \in Unit \ Refused)
    BY <1>4 DEF Linked, Inv, TypeOK, UnitOrNull
  <2>2. \A u \in Unit : chain[u] # <<>> \/ u \in Linked => kind[u] = "ED" /\ u \notin Refused
    BY <1>4 DEF Inv, EdInv
  <2>3. \A d \in bulk : info'[d] \in BulkEp /\ pipe'[info'[d]] = d
    <3>1. ASSUME NEW d \in bulk PROVE info'[d] = info[d] /\ info[d] \in BulkEp /\ pipe[info[d]] = d
      BY <1>5, <2>1 DEF Inv, EdInv
    <3>2. \A f \in BulkEp : f \in Ep /\ pipe'[f] = pipe[f]
      BY <1>6, OhciAssumption DEF Ep
    <3>3. QED BY <3>1, <3>2
  <2>4. \A d \in intr : info'[d] \in IntEp /\ pipe'[info'[d]] = d /\ chain'[d] # <<>>
    <3>1. ASSUME NEW d \in intr
          PROVE  info'[d] = info[d] /\ info[d] \in IntEp /\ pipe[info[d]] = d /\ chain'[d] # <<>>
      BY <1>5, <2>1 DEF Inv, EdInv
    <3>2. \A f \in IntEp : pipe'[f] = pipe[f]
      BY <1>6, <1>9
    <3>3. QED BY <3>1, <3>2
  <2>5. ctrlHead # NULL => info'[ctrlHead] \in CtrlEp
    BY <1>5, <2>1 DEF Inv, EdInv
  <2>6. ASSUME NEW d \in Unit, chain[d] # <<>>
        PROVE  d \in Linked /\ pipe'[info'[d]] = d
    <3>1. d \in Linked /\ pipe[info[d]] = d /\ d \notin Refused /\ info'[d] = info[d]
      BY <1>3, <1>5, <2>2, <2>6 DEF Inv, EdInv
    <3>2. info[d] \in Ep
      BY <3>1 DEF Inv, EdInv, Linked, Ep
    <3>3. CASE info[d] = e /\ e \in CtrlEp
      <4>1. Elems(chain[d]) \in SUBSET Unit /\ Last(chain[d]) \in Elems(chain[d])
        BY <2>6, ElemsOf DEF Inv, TypeOK
      <4>2. utrOf[Last(chain[d])] = e
        BY <1>3, <3>3, <4>1 DEF Inv, TdInv
      <4>3. Last(chain[d]) \in Owed(e)
        BY <4>1, <4>2 DEF Owed
      <4>4. QED BY <1>3, <3>3, <4>3, OhciAssumption
    <3>4. QED BY <1>6, <3>1, <3>2, <3>3
  <2>7. \A u \in Unit : chain'[u] # <<>> \/ u \in Linked' \cup removing' => kind'[u] = "ED"
    BY <1>5, <1>8, <2>2
  <2>8. \A d \in Unit : chain'[d] # <<>> => d \in Linked' /\ pipe'[info'[d]] = d
    BY <1>5, <1>8, <2>6
  <2>9. bulk' = bulk /\ intr' = intr /\ ctrlHead' = ctrlHead
    BY <1>1 DEF linkVars
  <2>10. QED BY <2>3, <2>4, <2>5, <2>7, <2>8, <2>9 DEF EdInv
<1>14. PipeInv'
  <2>1. ASSUME NEW f \in Ep, pipe'[f] # NULL
        PROVE  /\ kind'[pipe'[f]] = "ED" /\ info'[pipe'[f]] = f
               /\ f \in CtrlEp \/ pipe'[f] \in Linked
    <3>1. pipe'[f] = pipe[f] /\ pipe[f] \in Unit /\ pipe[f] \notin Refused
      BY <1>4, <1>6, <2>1 DEF Inv, TypeOK, UnitOrNull
    <3>2. ~ (Sub /\ main.new /\ main.e = f /\ f \in BulkEp)
      BY <1>1, <1>2, <1>3, <1>9 DEF Inv, SubInv
    <3>3. /\ kind[pipe[f]] = "ED" /\ info[pipe[f]] = f
          /\ f \in CtrlEp \/ pipe[f] \in Linked
      BY <1>3, <2>1, <3>1, <3>2 DEF Inv, PipeInv
    <3>4. kind'[pipe[f]] = kind[pipe[f]] /\ info'[pipe[f]] = info[pipe[f]]
      BY <1>5, <3>1
    <3>5. QED BY <3>1, <3>3, <3>4
  <2>2. QED BY <1>8, <2>1 DEF PipeInv
<1>15. FrameInv'
  <2>1. hc # NULL => hc \in Unit /\ kind[hc] = "ED" /\ hc \notin Refused
    BY <1>4 DEF Inv, TypeOK, UnitOrNull, FrameInv
  <2>2. QED BY <1>1, <1>3, <1>5, <1>8, <2>1 DEF Inv, FrameInv, hcVars
<1>16. QueueInv' /\ CallbackInv'
  BY <1>1 DEF Inv, QueueInv, CallbackInv, hcVars
<1>17. CountInv'
  <2>1. \A f \in Ep : Owed(f)' = Owed(f)
    <3>1. Due' = Due /\ \A u \in Due : u \notin Refused
      BY <1>1, <1>4, <1>8 DEF Due
    <3>2. QED BY <1>4, <1>5, <3>1 DEF Owed
  <2>2. \A f \in Ep : InHand(f)' = 0 /\ InHand(f) = 0
    BY <1>1, <1>2, <1>3, <1>8, <1>9, ElemsFew DEF InHand, Inv, SubInv
  <2>3. \A f \in Ep : Dummies(f)' = Dummies(f)
    BY <1>6, <1>9 DEF Dummies
  <2>4. cnt[e] = 0
    BY <1>1, <1>2, <1>3, <1>9, ElemsFew DEF Inv, SubInv
  <2>5. \A f \in Ep : cnt'[f] = cnt[f]
    BY <1>7, <2>4
  <2>6. \A f \in IntEp : pipe'[f] = pipe[f]
    BY <1>6, <1>9
  <2>7. QED BY <1>1, <1>9, <2>1, <2>2, <2>3, <2>5, <2>6 DEF Inv, CountInv, linkVars
<1>18. RequestInv'
  <2>1. \A f \in Ep : calls'[f] <= 1 /\ (f \notin IntEp /\ isDone'[f] => calls'[f] = 1)
    BY <1>7 DEF Inv, RequestInv
  <2>2. \A f \in Ep : cnt'[f] >= 1 <=> live'[f] /\ calls'[f] = 0
    BY <1>2, <1>7 DEF Inv, RequestInv
  <2>3. \A f \in CtrlEp : ~ live'[f]
    BY <1>2, <1>7 DEF Inv, RequestInv, Ep
  <2>4. \A f \in IntEp : pipe'[f] # NULL /\ ~ live'[f] => f \in dropped'
    BY <1>1, <1>2, <1>3, <1>6, <1>7, <1>9 DEF Inv, RequestInv
  <2>5. late' \subseteq dropped'
    BY <1>1, <1>7 DEF Inv, RequestInv
  <2>6. QED BY <1>8, <2>1, <2>2, <2>3, <2>4, <2>5 DEF RequestInv
<1>19. MainInv' /\ SubInv'
  BY <1>8, ElemsFew, FS_EmptySet DEF MainInv, SubInv
<1>20. KeepInv'
  <2>1. ASSUME NEW u \in Unit \ orphan', kind'[u] = "ED"
        PROVE  \E f \in Ep : pipe'[f] = u
    <3>1. kind[u] = "ED" /\ u \notin orphan /\ u \notin Refused /\ u # main.ed
      BY <1>1, <1>4, <1>5, <2>1, OhciAssumption
    <3>2. PICK f \in Ep : pipe[f] = u
      BY <1>3, <3>1 DEF Inv, KeepInv
    <3>3. ~ (f = e /\ e \in CtrlEp)
      BY <1>1, <1>2, <2>1, <3>2, OhciAssumption
    <3>4. QED BY <1>6, <3>2, <3>3
  <2>2. ASSUME NEW u \in Unit \ orphan', kind'[u] = "TD"
        PROVE  u \in Retired \/ \E d \in Unit : u \in Elems(chain[d])
    <3>1. kind[u] = "TD" /\ u \notin orphan /\ u \notin Refused
      BY <1>1, <1>4, <1>5, <2>2
    <3>2. u \notin Elems(main.tds)
      BY <1>1, <1>2, <1>4, <2>2, <3>1
    <3>3. QED BY <3>1, <3>2 DEF Inv, KeepInv
  <2>3. QED BY <1>5, <1>8, <2>1, <2>2 DEF KeepInv
<1>21. QED BY <1>10, <1>11, <1>12, <1>13, <1>14, <1>15, <1>16, <1>17, <1>18, <1>19, <1>20 DEF Inv

\* When a control or bulk transfer is about to be linked, its ED has no TD,
\* and no control ED has one: there is one control transfer at a time.
LEMMA GoFindsNone ==
    ASSUME Inv, main.pc = "go", main.e \notin IntEp
    PROVE  /\ chain[main.ed] = <<>>
           /\ \A u \in Unit : chain[u] # <<>> =>
                 /\ u # main.ed /\ u \in Linked /\ pipe[info[u]] = u /\ info[u] \in Ep
                 /\ info[u] # main.e /\ info[u] \notin CtrlEp
<1>1. Sub /\ main.e \in Ep /\ Owed(main.e) = {}
  BY SubOwes DEF Sub
<1>2. ASSUME NEW u \in Unit, chain[u] # <<>>
      PROVE  /\ u \in Linked /\ pipe[info[u]] = u /\ info[u] \in Ep
             /\ info[u] # main.e /\ info[u] \notin CtrlEp
  <2>1. u \in Linked /\ pipe[info[u]] = u
    BY <1>2 DEF Inv, EdInv
  <2>2. info[u] \in Ep
    BY <2>1 DEF Inv, EdInv, Linked, Ep
  <2>3. ~ (main.new /\ main.ed = u)
    BY <1>1, <2>1 DEF Inv, SubInv
  <2>4. PICK t \in Unit : t \in Elems(chain[u])
    <3>1. Elems(chain[u]) \in SUBSET Unit /\ Last(chain[u]) \in Elems(chain[u])
      BY <1>2, ElemsOf DEF Inv, TypeOK
    <3>2. QED BY <3>1
  <2>5. utrOf[t] = info[u]
    BY <2>3, <2>4 DEF Inv, TdInv
  <2>6. t \in Owed(info[u])
    BY <2>4, <2>5 DEF Owed
  <2>7. info[u] # main.e
    BY <1>1, <2>6
  <2>8. ASSUME info[u] \in CtrlEp PROVE FALSE
    <3>1. Owed(info[u]) \in SUBSET Unit /\ Owed(info[u]) # {}
      BY <2>6 DEF Owed
    <3>2. Cardinality(Owed(info[u])) \in Nat /\ Cardinality(Owed(info[u])) # 0
      BY <3>1, UnitsFinite, CountUnits
    <3>3. Dummies(info[u]) = 0 /\ InHand(info[u]) = 0
      BY <2>7, <2>8, OhciAssumption DEF Dummies, InHand
    <3>4. cnt[info[u]] >= 1
      <4>1. cnt[info[u]] + 0 = Cardinality(Owed(info[u])) + 0
        BY <2>2, <3>3 DEF Inv, CountInv
      <4>2. cnt[info[u]] \in Int
        BY <2>2, OhciAssumption DEF Inv, TypeOK
      <4>3. QED BY <3>2, <4>1, <4>2
    <3>5. live[info[u]]
      BY <2>2, <2>7, <3>4 DEF Inv, RequestInv
    <3>6. QED BY <2>7, <2>8, <3>5 DEF Inv, RequestInv
  <2>9. QED BY <2>1, <2>2, <2>7, <2>8
<1>3. chain[main.ed] = <<>>
  <2>1. main.ed \in Unit /\ info[main.ed] = main.e
    BY <1>1 DEF Inv, SubInv
  <2>2. QED BY <1>2, <2>1
<1>4. QED BY <1>2, <1>3

\* The TDs of a control or bulk transfer are put on its ED, which is linked.
LEMMA ListGoInv ==
    ASSUME Inv, CtrlGo \/ BulkGo
    PROVE  Inv'
<1>1. PICK e \in Ep \ IntEp : e = main.e
  BY OhciAssumption DEF CtrlGo, BulkGo, Ep
<1>2. /\ main.pc = "go" /\ isr.pc = "off" /\ Sub /\ removing = {} /\ skip = {} /\ ~ Quits /\ ~ sfe
      /\ Owed(e) = {}
  BY <1>1, SubOwes DEF CtrlGo, BulkGo, MainAt, Sub
<1>3. PICK d \in Unit : /\ d = main.ed /\ kind[d] = "ED" /\ info[d] = e
                        /\ e \in BulkEp => pipe[e] = d
                        /\ pipe[e] # NULL => pipe[e] = d
  BY <1>1, <1>2 DEF Inv, SubInv
<1>4. /\ chain[d] = <<>>
      /\ \A u \in Unit : chain[u] # <<>> =>
            /\ u # d /\ u \in Linked /\ pipe[info[u]] = u /\ info[u] \in Ep
            /\ info[u] # e /\ info[u] \notin CtrlEp
  BY <1>1, <1>2, <1>3, GoFindsNone
<1>5. /\ live[e] /\ calls[e] = 0 /\ main.n \in TdCounts(e) /\ Len(main.tds) = main.n
      /\ e \in BulkEp => cnt[e] = main.n
      /\ main.n \in Nat /\ main.n >= 1 /\ main.n <= MaxTd + 3
      /\ main.tds \in Seq(Unit) /\ Once(main.tds) /\ Elems(main.tds) \in SUBSET Unit
      /\ main.tds # <<>>
  <2>1. /\ live[e] /\ calls[e] = 0 /\ main.n \in TdCounts(e) /\ Len(main.tds) = main.n
        /\ e \in BulkEp => cnt[e] = main.n
    BY <1>1, <1>2 DEF Inv, SubInv
  <2>2. main.tds \in Seq(Unit) /\ Once(main.tds) /\ Elems(main.tds) \in SUBSET Unit
    BY TdsAreUnits DEF Inv, TypeOK, MainRec, PlaceInv
  <2>3. main.n \in Nat /\ main.n >= 1 /\ main.n <= MaxTd + 3
    BY <2>1, TdCountsOf
  <2>4. QED BY <2>1, <2>2, <2>3
<1>6. /\ UNCHANGED <<kind, info, utrOf, bad, intr, removing, hcVars, isr, live, isDone, status,
                     calls, late, lostVars>>
      /\ chain' = [chain EXCEPT ![d] = main.tds] /\ skip' = {} /\ halt' \subseteq halt
      /\ main' = IF e \in CtrlEp THEN [MainIdle EXCEPT !.pc = "wait", !.e = e] ELSE MainIdle
  BY <1>1, <1>2, <1>3, OhciAssumption DEF CtrlGo, BulkGo, utrVars
<1>7. /\ IF e \in CtrlEp THEN ctrlHead' = d /\ bulk' = bulk
         ELSE ctrlHead' = ctrlHead /\ bulk' = bulk \cup {d}
      /\ e \in CtrlEp \/ e \in BulkEp
      /\ cnt'[e] = main.n /\ \A f \in Ep : f # e => cnt'[f] = cnt[f]
      /\ pipe'[e] = d /\ \A f \in Ep : f # e => pipe'[f] = pipe[f]
      /\ cnt' \in [Ep -> -1 .. MaxTd + 3] /\ pipe' \in [Ep -> UnitOrNull]
  <2>1. main.n \in -1 .. MaxTd + 3 /\ d \in UnitOrNull
    BY <1>5, OhciAssumption DEF UnitOrNull
  <2>2. CASE CtrlGo
    BY <1>1, <1>3, <2>1, <2>2 DEF CtrlGo, Inv, TypeOK
  <2>3. CASE BulkGo
    <3>1. e \notin CtrlEp
      BY <1>1, <2>3, OhciAssumption DEF BulkGo
    <3>2. QED BY <1>1, <1>3, <1>5, <2>3, <3>1 DEF BulkGo, Inv, TypeOK, utrVars
  <2>4. QED BY <2>2, <2>3
<1>8. /\ main'.ed = NULL /\ main'.tds = <<>> /\ ~ Sub' /\ ~ Quits'
      /\ main'.pc = IF e \in CtrlEp THEN "wait" ELSE "idle"
      /\ e \in CtrlEp => main'.e = e
      /\ main' \in MainRec
  <2>1. <<>> \in Seq(Unit) /\ "idle" \in MainPc /\ "wait" \in MainPc /\ e \in EpOrNull
    BY DEF MainPc, EpOrNull
  <2>2. main' = [pc |-> IF e \in CtrlEp THEN "wait" ELSE "idle",
                 e |-> IF e \in CtrlEp THEN e ELSE NULL,
                 ed |-> NULL, new |-> FALSE, n |-> 0, tds |-> <<>>]
    BY <1>6 DEF MainIdle
  <2>3. main' \in MainRec
    BY <2>1, <2>2, MainRecOf DEF EpOrNull, UnitOrNull
  <2>4. QED BY <2>2, <2>3 DEF Sub, Quits
<1>9. /\ d \in Linked' /\ bulk \subseteq Linked' /\ intr \subseteq Linked'
      /\ Linked' \subseteq Linked \cup {d}
      /\ \A u \in Unit : chain[u] # <<>> => u \in Linked'
  <2>1. d \in Linked' /\ bulk \subseteq Linked' /\ intr \subseteq Linked'
        /\ Linked' \subseteq Linked \cup {d}
    BY <1>3, <1>6, <1>7, OhciAssumption DEF Linked
  <2>2. \A u \in Unit : chain[u] # <<>> => u \in bulk \cup intr
    BY <1>4 DEF Linked, Inv, EdInv
  <2>3. QED BY <2>1, <2>2
<1>10. /\ chain'[d] = main.tds /\ \A u \in Unit : u # d => chain'[u] = chain[u]
       /\ Elems(chain[d]) = {} /\ Retired' = Retired /\ Due' = Due
  BY <1>4, <1>6, ElemsFew DEF Inv, TypeOK, Retired, Due, hcVars
<1>11. \A f \in IntEp : f \in Ep /\ f # e /\ f \notin BulkEp /\ f \notin CtrlEp
  BY OhciAssumption DEF Ep
<1>12. TypeOK'
  <2>1. chain' \in [Unit -> Seq(Unit)]
    BY <1>5, <1>6 DEF Inv, TypeOK
  <2>2. ctrlHead' \in UnitOrNull /\ bulk' \subseteq Unit
    BY <1>7 DEF Inv, TypeOK, UnitOrNull
  <2>3. QED BY <1>6, <1>7, <1>8, <2>1, <2>2 DEF Inv, TypeOK, hcVars, lostVars
<1>13. PlaceInv'
  <2>1. \A u \in Unit : Once(chain'[u])
    BY <1>5, <1>10 DEF Inv, PlaceInv
  <2>2. \A f, g \in Unit : \A u \in Elems(chain'[f]) : u \in Elems(chain'[g]) => f = g
    BY <1>10 DEF Inv, PlaceInv
  <2>3. \A f \in Unit : \A u \in Elems(chain'[f]) : u \notin Retired
    BY <1>10 DEF Inv, PlaceInv
  <2>4. QED BY <1>6, <1>8, <1>10, <2>1, <2>2, <2>3, ElemsFew DEF Inv, PlaceInv, hcVars
<1>14. TdInv'
  <2>1. \A f \in Unit : \A u \in Elems(chain'[f]) : kind[u] = "TD" /\ utrOf[u] = info[f]
    BY <1>1, <1>3, <1>10 DEF Inv, TdInv
  <2>2. QED BY <1>6, <1>8, <1>10, <2>1, ElemsFew DEF Inv, TdInv
<1>15. EdInv'
  <2>1. \A u \in Unit : chain'[u] # <<>> \/ u \in Linked' \cup removing' => kind'[u] = "ED"
    BY <1>2, <1>3, <1>6, <1>9, <1>10 DEF Inv, EdInv
  <2>2. \A f \in bulk' : info'[f] \in BulkEp /\ pipe'[info'[f]] = f
    BY <1>3, <1>6, <1>7, OhciAssumption DEF Inv, EdInv, Ep
  <2>3. \A f \in intr' : info'[f] \in IntEp /\ pipe'[info'[f]] = f /\ chain'[f] # <<>>
    BY <1>3, <1>6, <1>7, <1>10, <1>11 DEF Inv, TypeOK, EdInv
  <2>4. ctrlHead' # NULL => info'[ctrlHead'] \in CtrlEp
    BY <1>3, <1>6, <1>7 DEF Inv, EdInv
  <2>5. \A u \in Unit : chain'[u] # <<>> => u \in Linked' /\ pipe'[info'[u]] = u
    BY <1>3, <1>4, <1>6, <1>7, <1>9, <1>10
  <2>6. QED BY <2>1, <2>2, <2>3, <2>4, <2>5 DEF EdInv
<1>16. PipeInv'
  <2>1. ASSUME NEW f \in Ep, pipe'[f] # NULL
        PROVE  /\ kind[pipe'[f]] = "ED" /\ info[pipe'[f]] = f
               /\ f \in CtrlEp \/ pipe'[f] \in Linked'
    <3>1. CASE f = e
      BY <1>3, <1>7, <1>9, <3>1
    <3>2. CASE f # e
      <4>1. pipe'[f] = pipe[f] /\ kind[pipe[f]] = "ED" /\ info[pipe[f]] = f
            /\ (f \in CtrlEp \/ pipe[f] \in Linked)
        BY <1>1, <1>2, <1>7, <2>1, <3>2 DEF Inv, PipeInv
      <4>2. f \notin CtrlEp => pipe[f] \in bulk \cup intr
        BY <4>1 DEF Inv, EdInv, Linked
      <4>3. QED BY <1>9, <4>1, <4>2
    <3>3. QED BY <3>1, <3>2
  <2>2. QED BY <1>6, <2>1 DEF PipeInv
<1>17. FrameInv'
  BY <1>2, <1>6, <1>8 DEF Inv, FrameInv, hcVars
<1>18. QueueInv' /\ CallbackInv'
  BY <1>2, <1>6 DEF Inv, QueueInv, CallbackInv, hcVars
<1>19. CountInv'
  <2>1. ASSUME NEW f \in Ep, f # e PROVE Owed(f)' = Owed(f)
    <3>1. \A t \in Elems(main.tds) : utrOf[t] = e
      BY <1>1 DEF Inv, TdInv
    <3>2. \A t \in Unit : utrOf[t] = f =>
             ((\E c \in Unit : t \in Elems(chain'[c])) <=> \E c \in Unit : t \in Elems(chain[c]))
      BY <1>10, <2>1, <3>1
    <3>3. QED BY <1>6, <1>10, <3>2 DEF Owed
  <2>2. Owed(e)' = Elems(main.tds)
    <3>1. ASSUME NEW t \in Elems(main.tds) PROVE t \in Owed(e)'
      <4>1. t \in Unit /\ utrOf'[t] = e /\ t \in Elems(chain'[d])
        BY <1>1, <1>5, <1>6, <1>10 DEF Inv, TdInv
      <4>2. QED BY <4>1 DEF Owed
    <3>2. ASSUME NEW t \in Owed(e)', t \notin Elems(main.tds) PROVE FALSE
      <4>1. t \in Unit /\ utrOf[t] = e /\ (t \in Due \/ \E c \in Unit : t \in Elems(chain[c]))
        BY <1>6, <1>10, <3>2 DEF Owed
      <4>2. t \in Owed(e)
        BY <4>1 DEF Owed
      <4>3. QED BY <1>2, <4>2
    <3>3. QED BY <3>1, <3>2
  <2>3. Cardinality(Owed(e)') = main.n
    BY <1>5, <2>2 DEF Inv, MainInv
  <2>4. \A f \in Ep : InHand(f)' = 0 /\ (f # e => InHand(f) = 0)
    BY <1>1, <1>8 DEF InHand
  <2>5. Dummies(e)' = 0 /\ \A f \in Ep : f # e => Dummies(f)' = Dummies(f)
    BY <1>7 DEF Dummies
  <2>6. \A f \in Ep : cnt'[f] + Dummies(f)' = Cardinality(Owed(f)') + InHand(f)'
    <3>1. cnt'[e] + Dummies(e)' = Cardinality(Owed(e)') + InHand(e)'
      BY <1>5, <1>7, <2>3, <2>4, <2>5
    <3>2. ASSUME NEW f \in Ep, f # e
          PROVE  cnt'[f] + Dummies(f)' = Cardinality(Owed(f)') + InHand(f)'
      <4>1. cnt[f] + Dummies(f) = Cardinality(Owed(f)) + InHand(f)
        BY DEF Inv, CountInv
      <4>2. QED BY <1>7, <2>1, <2>4, <2>5, <3>2, <4>1
    <3>3. QED BY <3>1, <3>2
  <2>7. \A f \in IntEp : cnt'[f] <= 1 /\ (cnt'[f] = 1 => pipe'[f] \in intr')
    BY <1>6, <1>7, <1>11 DEF Inv, CountInv
  <2>8. QED BY <2>6, <2>7 DEF CountInv
<1>20. RequestInv'
  <2>1. \A f \in Ep : cnt'[f] >= 1 <=> live'[f] /\ calls'[f] = 0
    BY <1>1, <1>5, <1>6, <1>7 DEF Inv, RequestInv
  <2>2. \A f \in CtrlEp : live'[f] => main'.e = f /\ main'.pc # "idle"
    BY <1>1, <1>6, <1>8 DEF Inv, RequestInv
  <2>3. \A f \in IntEp : pipe'[f] # NULL /\ ~ live'[f] => f \in dropped'
    BY <1>1, <1>6, <1>7, <1>11 DEF Inv, RequestInv, lostVars
  <2>4. QED BY <1>6, <1>8, <2>1, <2>2, <2>3 DEF Inv, RequestInv, lostVars
<1>21. MainInv' /\ SubInv'
  BY <1>8, ElemsFew, FS_EmptySet DEF MainInv, SubInv
<1>22. KeepInv'
  <2>1. ASSUME NEW u \in Unit \ orphan, kind[u] = "ED"
        PROVE  \E f \in Ep : pipe'[f] = u
    <3>1. u = main.ed \/ \E f \in Ep : pipe[f] = u
      BY <1>2, <2>1 DEF Inv, KeepInv
    <3>2. QED BY <1>3, <1>7, <3>1, OhciAssumption
  <2>2. ASSUME NEW u \in Unit \ orphan, kind[u] = "TD"
        PROVE  u \in Retired \/ \E f \in Unit : u \in Elems(chain'[f])
    BY <1>10, <2>2 DEF Inv, KeepInv
  <2>3. QED BY <1>6, <1>10, <2>1, <2>2 DEF KeepInv, lostVars
<1>23. QED BY <1>12, <1>13, <1>14, <1>15, <1>16, <1>17, <1>18, <1>19, <1>20, <1>21, <1>22 DEF Inv

\* What ohci_int_xfer finds when it is about to move TailP: an ED of the
\* endpoint that ends with a dummy, and nothing else owed.
LEMMA GoFindsDummy ==
    ASSUME Inv, main.pc = "go", main.e \in IntEp
    PROVE  /\ main.ed \in Unit /\ kind[main.ed] = "ED" /\ info[main.ed] = main.e
           /\ chain[main.ed] # <<>> /\ chain[main.ed] \in Seq(Unit)
           /\ Last(chain[main.ed]) \in Elems(chain[main.ed]) /\ Last(chain[main.ed]) \in Unit
           /\ utrOf[Last(chain[main.ed])] \in {main.e, NULL}
           /\ \A u \in Elems(chain[main.ed]) : u # Last(chain[main.ed]) => utrOf[u] = main.e
           /\ Cardinality(Owed(main.e) \cup {Last(chain[main.ed])}) = 1
           /\ main.ed \in intr \/ (main.new /\ main.ed \notin Linked)
           /\ pipe[main.e] \in {main.ed, NULL} /\ (main.ed \in intr => pipe[main.e] = main.ed)
           /\ \A u \in Unit : u # main.ed /\ chain[u] # <<>> =>
                 u \in Linked /\ pipe[info[u]] = u /\ info[u] \in Ep /\ info[u] # main.e
<1> DEFINE d == main.ed
           e == main.e
           x == Last(chain[d])
<1>1. Sub /\ e \in Ep /\ e \notin BulkEp /\ e \notin CtrlEp
  BY OhciAssumption DEF Sub, Ep
<1>2. /\ d \in Unit /\ kind[d] = "ED" /\ info[d] = e
      /\ pipe[e] = IF main.new THEN NULL ELSE d
      /\ ~ main.new => d \in intr
      /\ main.new => Len(chain[d]) = 1 /\ utrOf[chain[d][1]] = NULL /\ d \notin Linked
  BY <1>1 DEF Inv, SubInv
<1>3. chain[d] \in Seq(Unit) /\ chain[d] # <<>>
  BY <1>2 DEF Inv, TypeOK, EdInv
<1>4. x \in Elems(chain[d]) /\ x \in Unit
  BY <1>3, ElemsOf
<1>5. \A u \in Unit : u # d /\ chain[u] # <<>> =>
          u \in Linked /\ pipe[info[u]] = u /\ info[u] \in Ep /\ info[u] # e
  <2>1. ASSUME NEW u \in Unit, u # d, chain[u] # <<>>
        PROVE  u \in Linked /\ pipe[info[u]] = u /\ info[u] \in Ep /\ info[u] # e
    <3>1. u \in Linked /\ pipe[info[u]] = u
      BY <2>1 DEF Inv, EdInv
    <3>2. info[u] \in Ep
      BY <3>1 DEF Inv, EdInv, Linked, Ep
    <3>3. QED BY <1>2, <2>1, <3>1, <3>2, OhciAssumption
  <2>2. QED BY <2>1
<1>6. CASE main.new
  <2>1. chain[d] = <<x>>
    BY <1>2, <1>3, <1>6 DEF Last
  <2>2. Elems(chain[d]) = {x} /\ utrOf[x] = NULL
    BY <1>2, <1>6, <2>1, ElemsFew DEF Last
  <2>3. Owed(e) = {}
    BY <1>1, <1>2, <1>6, SubOwes
  <2>4. Cardinality(Owed(e) \cup {x}) = 1
    BY <2>3, FS_Singleton
  <2>5. d \notin intr
    BY <1>2, <1>6 DEF Linked
  <2>6. QED BY <1>2, <1>3, <1>4, <1>5, <1>6, <2>2, <2>4, <2>5
<1>7. CASE ~ main.new
  <2>1. pipe[e] = d /\ d \in intr
    BY <1>2, <1>7
  <2>2. Elems(chain[d]) \subseteq Owed(e) /\ x \in Owed(e)
    BY <2>1, DummyIsOwed
  <2>3. \A u \in Elems(chain[d]) : utrOf[u] = e
    BY <2>2 DEF Owed
  <2>4. Cardinality(Owed(e)) = 1
    <3>1. cnt[e] = 0 /\ InHand(e) = 0 /\ Dummies(e) = 1
      BY <1>1, <1>2, <1>7, <2>1, OhciAssumption DEF Inv, SubInv, InHand, Dummies
    <3>2. Cardinality(Owed(e)) \in Nat
      <4>1. Owed(e) \in SUBSET Unit
        BY DEF Owed
      <4>2. QED BY <4>1, UnitsFinite
    <3>3. cnt[e] + Dummies(e) = Cardinality(Owed(e)) + InHand(e)
      BY <1>1 DEF Inv, CountInv
    <3>4. QED BY <3>1, <3>2, <3>3
  <2>5. Owed(e) \cup {x} = Owed(e)
    BY <2>2
  <2>6. QED BY <1>2, <1>3, <1>4, <1>5, <1>7, <2>1, <2>3, <2>4, <2>5
<1>8. QED BY <1>6, <1>7

\* The dummy of an interrupt ED is filled, and the next dummy follows it.
LEMMA IntGoInv ==
    ASSUME Inv, IntGo
    PROVE  Inv'
<1>1. PICK e \in IntEp : e = main.e
  BY DEF IntGo
<1>2. /\ main.pc = "go" /\ isr.pc = "off" /\ Sub /\ removing = {} /\ skip = {} /\ ~ Quits /\ ~ sfe
      /\ e \in Ep /\ e \notin CtrlEp /\ e \notin BulkEp
  BY <1>1, SubOwes, OhciAssumption DEF IntGo, MainAt, Sub
<1>3. PICK d \in Unit : d = main.ed
  BY <1>1, <1>2, GoFindsDummy
<1>4. PICK x \in Unit : x = Last(chain[d])
  BY <1>1, <1>2, <1>3, GoFindsDummy
<1>5. /\ kind[d] = "ED" /\ info[d] = e /\ chain[d] # <<>> /\ chain[d] \in Seq(Unit)
      /\ x \in Elems(chain[d]) /\ utrOf[x] \in {e, NULL}
      /\ \A u \in Elems(chain[d]) : u # x => utrOf[u] = e
      /\ Cardinality(Owed(e) \cup {x}) = 1
      /\ d \in intr \/ (main.new /\ d \notin Linked)
      /\ pipe[e] \in {d, NULL} /\ (d \in intr => pipe[e] = d)
      /\ \A u \in Unit : u # d /\ chain[u] # <<>> =>
            u \in Linked /\ pipe[info[u]] = u /\ info[u] \in Ep /\ info[u] # e
  BY <1>1, <1>2, <1>3, <1>4, GoFindsDummy
<1>6. PICK t \in Unit : main.tds = <<t>>
  <2>1. Len(main.tds) = 1 /\ main.tds \in Seq(Unit)
    <3>1. main.n \in TdCounts(e) /\ Len(main.tds) = main.n
      BY <1>1, <1>2 DEF Inv, SubInv
    <3>2. main.n = 1
      BY <1>2, <3>1, TdCountsOf
    <3>3. QED BY <3>1, <3>2 DEF Inv, TypeOK, MainRec
  <2>2. main.tds = <<main.tds[1]>> /\ main.tds[1] \in Unit
    BY <2>1
  <2>3. QED BY <2>2
<1>7. /\ Elems(main.tds) = {t} /\ main.tds[1] = t /\ kind[t] = "TD" /\ utrOf[t] = e
      /\ t \notin Retired /\ \A u \in Unit : t \notin Elems(chain[u])
  <2>1. Elems(main.tds) = {t} /\ main.tds[1] = t
    BY <1>6, ElemsFew
  <2>2. QED BY <1>1, <2>1 DEF Inv, TdInv, PlaceInv
<1>8. /\ live[e] /\ calls[e] = 0
  BY <1>1, <1>2 DEF Inv, SubInv
<1>9. /\ UNCHANGED <<kind, info, skip, halt, bad, ctrlHead, bulk, removing, hcVars,
                     isr, live, isDone, status, calls, late, lostVars>>
      /\ chain' = [chain EXCEPT ![d] = Append(chain[d], t)]
      /\ utrOf' = [utrOf EXCEPT ![t] = e, ![x] = e]
      /\ intr' = intr \cup {d}
      /\ cnt' = [cnt EXCEPT ![e] = 1]
      /\ pipe' = [pipe EXCEPT ![e] = d]
      /\ main' = MainIdle
  BY <1>1, <1>3, <1>4, <1>7 DEF IntGo, Extend, Last
<1>10. /\ chain'[d] = Append(chain[d], t) /\ \A u \in Unit : u # d => chain'[u] = chain[u]
       /\ utrOf'[x] = e /\ \A u \in Unit : u # x => utrOf'[u] = utrOf[u]
       /\ cnt'[e] = 1 /\ \A f \in Ep : f # e => cnt'[f] = cnt[f]
       /\ pipe'[e] = d /\ \A f \in Ep : f # e => pipe'[f] = pipe[f]
  BY <1>2, <1>7, <1>9 DEF Inv, TypeOK
<1>11. /\ Append(chain[d], t) \in Seq(Unit) /\ Elems(chain'[d]) = Elems(chain[d]) \cup {t}
       /\ Once(chain'[d]) /\ chain'[d] # <<>>
  <2>1. Once(chain[d]) /\ t \notin Elems(chain[d])
    BY <1>7 DEF Inv, PlaceInv
  <2>2. /\ Append(chain[d], t) \in Seq(Unit) /\ Elems(chain'[d]) = Elems(chain[d]) \cup {t}
        /\ Once(chain'[d])
    BY <1>5, <1>10, <2>1, ElemsAppend
  <2>3. QED BY <1>10, <2>2, ElemsFew
<1>12. /\ main'.ed = NULL /\ main'.tds = <<>> /\ ~ Sub' /\ ~ Quits' /\ main'.pc = "idle"
       /\ main' \in MainRec
  <2>1. <<>> \in Seq(Unit) /\ "idle" \in MainPc
    BY DEF MainPc
  <2>2. MainIdle \in MainRec
    BY <2>1, MainRecOf DEF MainIdle, EpOrNull, UnitOrNull
  <2>3. QED BY <1>9, <2>2 DEF Sub, Quits, MainIdle
<1>13. Linked' = Linked \cup {d} /\ Retired' = Retired /\ Due' = Due /\ x \notin Retired
  BY <1>5, <1>9 DEF Linked, Retired, Due, hcVars, Inv, PlaceInv
<1>14. \A f \in IntEp : f \in Ep
  BY DEF Ep
<1>15. TypeOK'
  <2>1. chain' \in [Unit -> Seq(Unit)] /\ utrOf' \in [Unit -> EpOrNull] /\ intr' \subseteq Unit
        /\ pipe' \in [Ep -> UnitOrNull]
    BY <1>2, <1>9, <1>11 DEF Inv, TypeOK, EpOrNull, UnitOrNull
  <2>2. cnt' \in [Ep -> -1 .. MaxTd + 3]
    <3>1. 1 \in -1 .. MaxTd + 3
      BY OhciAssumption
    <3>2. QED BY <1>9, <3>1 DEF Inv, TypeOK
  <2>3. QED BY <1>9, <1>12, <2>1, <2>2 DEF Inv, TypeOK, hcVars, lostVars
<1>16. PlaceInv'
  <2>1. \A u \in Unit : Once(chain'[u])
    BY <1>10, <1>11 DEF Inv, PlaceInv
  <2>2. \A f, g \in Unit : \A u \in Elems(chain'[f]) : u \in Elems(chain'[g]) => f = g
    <3>1. \A f \in Unit : \A u \in Elems(chain'[f]) :
             (u = t /\ f = d) \/ (u # t /\ u \in Elems(chain[f]))
      <4>1. ASSUME NEW f \in Unit, NEW u \in Elems(chain'[f]), f # d
            PROVE  u # t /\ u \in Elems(chain[f])
        BY <1>7, <1>10, <4>1
      <4>2. \A u \in Elems(chain'[d]) : u = t \/ (u # t /\ u \in Elems(chain[d]))
        BY <1>11
      <4>3. QED BY <4>1, <4>2
    <3>2. QED BY <3>1 DEF Inv, PlaceInv
  <2>3. \A f \in Unit : \A u \in Elems(chain'[f]) : u \notin Retired
    <3>1. \A f \in Unit : \A u \in Elems(chain[f]) : u \notin Retired
      BY DEF Inv, PlaceInv
    <3>2. \A f \in Unit : Elems(chain'[f]) \subseteq Elems(chain[f]) \cup {t}
      BY <1>10, <1>11
    <3>3. QED BY <1>7, <3>1, <3>2
  <2>4. QED BY <1>9, <1>12, <1>13, <2>1, <2>2, <2>3, ElemsFew DEF Inv, PlaceInv, hcVars
<1>17. TdInv'
  <2>1. \A u \in Elems(chain'[d]) : kind[u] = "TD" /\ utrOf'[u] = e
    <3>1. \A u \in Elems(chain[d]) : u \in Unit /\ kind[u] = "TD"
      BY <1>5, ElemsOf DEF Inv, TdInv
    <3>2. QED BY <1>5, <1>7, <1>10, <1>11, <3>1
  <2>2. \A f \in Unit : f # d => \A u \in Elems(chain'[f]) : kind[u] = "TD" /\ utrOf'[u] = info[f]
    <3>1. ASSUME NEW f \in Unit, f # d, NEW u \in Elems(chain[f])
          PROVE  u \in Unit /\ kind[u] = "TD" /\ utrOf[u] = info[f] /\ u # x
      <4>1. Elems(chain[f]) \in SUBSET Unit
        BY TdsAreUnits
      <4>2. QED BY <1>3, <1>5, <3>1, <4>1 DEF Inv, TdInv, PlaceInv
    <3>2. QED BY <1>10, <3>1
  <2>3. \A u \in Retired : u \in Unit
    BY TdsAreUnits
  <2>4. \A u \in Retired : kind[u] = "TD" /\ utrOf'[u] \in Ep
    BY <1>10, <1>13, <2>3 DEF Inv, TdInv
  <2>5. \A f \in Unit : \A u \in Elems(chain'[f]) : kind[u] = "TD" /\ utrOf'[u] = info[f]
    BY <1>5, <2>1, <2>2
  <2>6. kind' = kind /\ info' = info /\ Elems(main'.tds) = {}
    BY <1>9, <1>12, ElemsFew
  <2>7. QED BY <1>13, <2>4, <2>5, <2>6 DEF TdInv
<1>18. EdInv'
  <2>1. \A u \in Unit : chain'[u] # <<>> \/ u \in Linked' \cup removing' => kind'[u] = "ED"
    BY <1>2, <1>5, <1>9, <1>10, <1>13 DEF Inv, EdInv
  <2>2. \A f \in bulk' : info'[f] \in BulkEp /\ pipe'[info'[f]] = f
    BY <1>2, <1>9, <1>10 DEF Inv, EdInv, Ep
  <2>3. \A f \in intr : f \in Unit /\ info[f] \in IntEp /\ pipe[info[f]] = f /\ chain[f] # <<>>
    BY DEF Inv, TypeOK, EdInv
  <2>4. \A f \in intr' : info'[f] \in IntEp /\ pipe'[info'[f]] = f /\ chain'[f] # <<>>
    BY <1>5, <1>9, <1>10, <1>11, <1>14, <2>3, OhciAssumption
  <2>5. ctrlHead' # NULL => info'[ctrlHead'] \in CtrlEp
    BY <1>9 DEF Inv, EdInv
  <2>6. \A u \in Unit : chain'[u] # <<>> => u \in Linked' /\ pipe'[info'[u]] = u
    BY <1>5, <1>9, <1>10, <1>13
  <2>7. QED BY <2>1, <2>2, <2>4, <2>5, <2>6 DEF EdInv
<1>19. PipeInv'
  BY <1>1, <1>2, <1>5, <1>9, <1>10, <1>13 DEF Inv, PipeInv
<1>20. FrameInv'
  BY <1>2, <1>9, <1>12 DEF Inv, FrameInv, hcVars
<1>21. QueueInv' /\ CallbackInv'
  BY <1>2, <1>9 DEF Inv, QueueInv, CallbackInv, hcVars
<1>22. CountInv'
  <2>1. ASSUME NEW f \in Ep, f # e PROVE Owed(f)' = Owed(f)
    <3>1. utrOf[t] # f /\ utrOf'[t] # f /\ utrOf[x] # f /\ utrOf'[x] # f
      BY <1>5, <1>7, <1>10, <2>1, OhciAssumption
    <3>2. \A u \in Unit : u # t =>
             ((\E c \in Unit : u \in Elems(chain'[c])) <=> \E c \in Unit : u \in Elems(chain[c]))
      BY <1>10, <1>11
    <3>3. QED BY <1>10, <1>13, <3>1, <3>2 DEF Owed
  <2>2. Owed(e)' = (Owed(e) \cup {x}) \cup {t}
    <3>1. t \in Owed(e)' /\ x \in Owed(e)'
      <4>1. t \in Elems(chain'[d]) /\ x \in Elems(chain'[d]) /\ utrOf'[t] = e /\ utrOf'[x] = e
        BY <1>5, <1>7, <1>10, <1>11
      <4>2. QED BY <4>1 DEF Owed
    <3>2. \A u \in Unit : u # t =>
             ((\E c \in Unit : u \in Elems(chain'[c])) <=> \E c \in Unit : u \in Elems(chain[c]))
      BY <1>10, <1>11
    <3>3. \A u \in Unit : u # t /\ u # x => (u \in Owed(e)' <=> u \in Owed(e))
      BY <1>10, <1>13, <3>2 DEF Owed
    <3>4. Owed(e) \subseteq Unit /\ Owed(e)' \subseteq Unit
      BY DEF Owed
    <3>5. QED BY <3>1, <3>3, <3>4
  <2>3. Cardinality(Owed(e)') = 2
    <3>1. t \notin Owed(e) \cup {x} /\ Owed(e) \cup {x} \in SUBSET Unit
      BY <1>5, <1>7 DEF Owed, Due
    <3>2. Cardinality((Owed(e) \cup {x}) \cup {t}) = 1 + 1
      <4> DEFINE Y == Owed(e) \cup {x}
      <4>1. Y \in SUBSET Unit /\ t \notin Y /\ Cardinality(Y) = 1
        BY <1>5, <3>1
      <4> HIDE DEF Y
      <4>2. Cardinality(Y \cup {t}) = 1 + 1
        BY <4>1, CountUnits
      <4>3. QED BY <4>2 DEF Y
    <3>3. QED BY <2>2, <3>2
  <2>4. \A f \in Ep : InHand(f)' = 0 /\ (f # e => InHand(f) = 0)
    BY <1>1, <1>12 DEF InHand
  <2>5. Dummies(e)' = 1 /\ \A f \in Ep : f # e => Dummies(f)' = Dummies(f)
    BY <1>10, OhciAssumption DEF Dummies
  <2>6. \A f \in Ep : cnt'[f] + Dummies(f)' = Cardinality(Owed(f)') + InHand(f)'
    <3>1. cnt'[e] + Dummies(e)' = Cardinality(Owed(e)') + InHand(e)'
      BY <1>2, <1>10, <2>3, <2>4, <2>5
    <3>2. ASSUME NEW f \in Ep, f # e
          PROVE  cnt'[f] + Dummies(f)' = Cardinality(Owed(f)') + InHand(f)'
      <4>1. cnt[f] + Dummies(f) = Cardinality(Owed(f)) + InHand(f)
        BY DEF Inv, CountInv
      <4>2. QED BY <1>10, <2>1, <2>4, <2>5, <3>2, <4>1
    <3>3. QED BY <3>1, <3>2
  <2>7. \A f \in IntEp : cnt'[f] <= 1 /\ (cnt'[f] = 1 => pipe'[f] \in intr')
    BY <1>9, <1>10, <1>14 DEF Inv, CountInv
  <2>8. QED BY <2>6, <2>7 DEF CountInv
<1>23. RequestInv'
  <2>1. \A f \in Ep : cnt'[f] >= 1 <=> live'[f] /\ calls'[f] = 0
    BY <1>1, <1>8, <1>9, <1>10 DEF Inv, RequestInv
  <2>2. \A f \in CtrlEp : ~ live'[f]
    BY <1>1, <1>2, <1>9 DEF Inv, RequestInv
  <2>3. \A f \in IntEp : pipe'[f] # NULL /\ ~ live'[f] => f \in dropped'
    BY <1>1, <1>8, <1>9, <1>10, <1>14 DEF Inv, RequestInv, lostVars
  <2>4. QED BY <1>9, <1>12, <2>1, <2>2, <2>3 DEF Inv, RequestInv, lostVars
<1>24. MainInv' /\ SubInv'
  BY <1>12, ElemsFew, FS_EmptySet DEF MainInv, SubInv
<1>25. KeepInv'
  <2>1. ASSUME NEW u \in Unit \ orphan, kind[u] = "ED"
        PROVE  \E f \in Ep : pipe'[f] = u
    <3>1. u = d \/ \E f \in Ep : pipe[f] = u
      BY <1>2, <1>3, <2>1 DEF Inv, KeepInv
    <3>2. QED BY <1>2, <1>5, <1>10, <3>1, OhciAssumption
  <2>2. ASSUME NEW u \in Unit \ orphan, kind[u] = "TD"
        PROVE  u \in Retired \/ \E f \in Unit : u \in Elems(chain'[f])
    <3>1. CASE u = t
      BY <1>11, <3>1
    <3>2. CASE u # t
      <4>1. u \in Retired \/ \E f \in Unit : u \in Elems(chain[f])
        BY <1>7, <2>2, <3>2 DEF Inv, KeepInv
      <4>2. \A f \in Unit : Elems(chain[f]) \subseteq Elems(chain'[f])
        BY <1>10, <1>11
      <4>3. QED BY <4>1, <4>2
    <3>3. QED BY <3>1, <3>2
  <2>3. QED BY <1>9, <1>13, <2>1, <2>2 DEF KeepInv, lostVars
<1>26. QED BY <1>15, <1>16, <1>17, <1>18, <1>19, <1>20, <1>21, <1>22, <1>23, <1>24, <1>25 DEF Inv

(***************************************************************************)
(* TDs that are retired and counted.                                       *)
(***************************************************************************)

\* The ED that the controller holds, if it has a TD to execute, is linked and
\* its endpoint's, and the dummy of an interrupt ED stays.
LEMMA HeldIsLinked ==
    ASSUME Inv, hc # NULL, Pending(hc) # <<>>
    PROVE  /\ hc \in Unit /\ hc \in Linked /\ pipe[info[hc]] = hc /\ info[hc] \in Ep
           /\ chain[hc] # <<>> /\ ~ (Sub /\ main.new /\ main.ed = hc)
           /\ \A u \in Elems(chain[hc]) : utrOf[u] = info[hc]
           /\ info[hc] \in IntEp => Tail(chain[hc]) # <<>>
<1>1. hc \in Unit /\ chain[hc] \in Seq(Unit) /\ ~ (Sub /\ main.new /\ main.ed = hc)
  BY DEF Inv, TypeOK, UnitOrNull, FrameInv
<1>2. chain[hc] # <<>> /\ (info[hc] \in IntEp => Tail(chain[hc]) # <<>>)
  <2>1. CASE info[hc] \in IntEp
    <3>1. SubSeq(chain[hc], 1, Len(chain[hc]) - 1) # <<>>
      BY <2>1 DEF Pending
    <3>2. chain[hc] # <<>>
      BY <1>1, <3>1
    <3>3. Len(chain[hc]) \in Nat /\ Len(chain[hc]) > 0 /\ Len(Tail(chain[hc])) = Len(chain[hc]) - 1
          /\ Tail(chain[hc]) \in Seq(Unit)
      BY <1>1, <3>2
    <3>4. Len(chain[hc]) = 1 => FALSE
      <4>1. SUFFICES ASSUME Len(chain[hc]) = 1 PROVE FALSE
        OBVIOUS
      <4>2. SubSeq(chain[hc], 1, 0) = <<>>
        BY <1>1
      <4>3. QED BY <3>1, <4>1, <4>2
    <3>5. Len(Tail(chain[hc])) # 0
      BY <3>3, <3>4
    <3>6. QED BY <3>2, <3>3, <3>5, ElemsOf
  <2>2. CASE info[hc] \notin IntEp
    BY <2>2 DEF Pending
  <2>3. QED BY <2>1, <2>2
<1>3. hc \in Linked /\ pipe[info[hc]] = hc
  BY <1>1, <1>2 DEF Inv, EdInv, Sub
<1>4. info[hc] \in Ep
  BY <1>3 DEF Inv, EdInv, Linked, Ep
<1>5. \A u \in Elems(chain[hc]) : utrOf[u] = info[hc]
  BY <1>1 DEF Inv, TdInv, Sub
<1>6. QED BY <1>1, <1>2, <1>3, <1>4, <1>5

\* The controller retires a TD.
LEMMA HcRetireInv ==
    ASSUME Inv, HcRetire
    PROVE  Inv'
<1>1. PICK d \in Unit : d = hc
  BY HeldIsLinked DEF HcRetire
<1>2. /\ d \in Linked /\ pipe[info[d]] = d /\ info[d] \in Ep
      /\ chain[d] # <<>> /\ ~ (Sub /\ main.new /\ main.ed = d)
      /\ \A u \in Elems(chain[d]) : utrOf[u] = info[d]
      /\ info[d] \in IntEp => Tail(chain[d]) # <<>>
      /\ chain[d] \in Seq(Unit) /\ Once(chain[d])
  BY <1>1, HeldIsLinked DEF HcRetire, Inv, TypeOK, PlaceInv
<1>3. PICK t \in Unit : t = Head(chain[d]) /\ t \in Elems(chain[d])
  BY <1>2, ElemsOf
<1>4. /\ chain' = [chain EXCEPT ![d] = Tail(chain[d])] /\ done' = <<t>> \o done /\ hc' = NULL
      /\ bad' \subseteq bad \cup {t} /\ halt' \subseteq halt \cup {d}
      /\ UNCHANGED <<kind, info, skip, utrOf, linkVars, pipe, hcca, sts, sfe, main, isr,
                     utrVars, lostVars>>
  BY <1>1, <1>3 DEF HcRetire
<1>5. /\ chain'[d] = Tail(chain[d]) /\ \A u \in Unit : u # d => chain'[u] = chain[u]
      /\ Tail(chain[d]) \in Seq(Unit) /\ Once(chain'[d])
      /\ Elems(chain'[d]) = Elems(chain[d]) \ {t}
  BY <1>2, <1>3, <1>4, ElemsTail DEF Inv, TypeOK
<1>6. /\ t \notin Retired /\ t \notin Elems(main.tds) /\ kind[t] = "TD" /\ utrOf[t] = info[d]
      /\ \A u \in Unit : u # d => t \notin Elems(chain[u])
  BY <1>2, <1>3 DEF Inv, PlaceInv, TdInv
<1>7. done' \in Seq(Unit) /\ Elems(done') = Elems(done) \cup {t} /\ Once(done')
  BY <1>4, <1>6, ElemsCons DEF Inv, TypeOK, PlaceInv, Retired
<1>8. /\ Retired' = Retired \cup {t} /\ Due' = Due \cup {t} /\ Linked' = Linked
      /\ Sub' = Sub /\ Quits' = Quits
  <2>1. Retired' = Retired \cup {t}
    BY <1>4, <1>7 DEF Retired
  <2>2. isr.pc = "callback" => Last(isr.todo) \in Retired
    BY ElemsOf DEF Inv, TypeOK, IsrRec, QueueInv, Retired
  <2>3. Due' = Due \cup {t}
    BY <1>4, <1>6, <2>1, <2>2 DEF Due
  <2>4. QED BY <1>4, <2>1, <2>3 DEF Linked, linkVars, Sub, Quits
<1>9. \A f \in Ep : Owed(f)' = Owed(f)
  <2>1. \A u \in Unit : u # t =>
           ((\E c \in Unit : u \in Elems(chain'[c])) <=> \E c \in Unit : u \in Elems(chain[c]))
    BY <1>5
  <2>2. QED BY <1>3, <1>4, <1>8, <2>1 DEF Owed
<1>10. TypeOK'
  <2>1. chain' \in [Unit -> Seq(Unit)]
    BY <1>4, <1>5 DEF Inv, TypeOK
  <2>2. bad' \subseteq Unit /\ halt' \subseteq Unit /\ hc' \in UnitOrNull
    BY <1>4 DEF Inv, TypeOK, UnitOrNull
  <2>3. QED BY <1>4, <1>7, <2>1, <2>2 DEF Inv, TypeOK, linkVars, utrVars, lostVars
<1>11. PlaceInv'
  <2>1. \A u \in Unit : Once(chain'[u]) /\ Elems(chain'[u]) \subseteq Elems(chain[u])
                        /\ t \notin Elems(chain'[u])
    BY <1>5, <1>6 DEF Inv, PlaceInv
  <2>2. \A f, g \in Unit : \A u \in Elems(chain'[f]) : u \in Elems(chain'[g]) => f = g
    BY <2>1 DEF Inv, PlaceInv
  <2>3. \A f \in Unit : \A u \in Elems(chain'[f]) : u \notin Retired' /\ u \notin Elems(main.tds)
    BY <1>8, <2>1 DEF Inv, PlaceInv
  <2>4. \A u \in Retired' : u \notin Elems(main.tds)
    BY <1>6, <1>8 DEF Inv, PlaceInv
  <2>5. \A u \in Elems(done') : u \notin Elems(hcca) /\ u \notin Elems(isr.todo)
    BY <1>6, <1>7 DEF Inv, PlaceInv, Retired
  <2>6. QED BY <1>4, <1>7, <2>1, <2>2, <2>3, <2>4, <2>5 DEF Inv, PlaceInv
<1>12. TdInv'
  <2>1. \A u \in Retired' : kind[u] = "TD" /\ utrOf[u] \in Ep
    BY <1>2, <1>6, <1>8 DEF Inv, TdInv
  <2>2. \A f \in Unit : Elems(chain'[f]) \subseteq Elems(chain[f])
    BY <1>5
  <2>3. QED BY <1>4, <2>1, <2>2 DEF Inv, TdInv
<1>13. \A u \in Unit : chain'[u] # <<>> => chain[u] # <<>>
  BY <1>2, <1>5
<1>14. EdInv'
  <2>1. \A u \in Unit : chain'[u] # <<>> \/ u \in Linked' \cup removing' => kind'[u] = "ED"
    BY <1>4, <1>8, <1>13 DEF Inv, EdInv, linkVars
  <2>2. \A f \in intr : info[f] \in IntEp /\ pipe[info[f]] = f /\ chain'[f] # <<>>
    <3>1. \A f \in intr : /\ f \in Unit /\ info[f] \in IntEp /\ pipe[info[f]] = f
                         /\ chain[f] # <<>>
      BY DEF Inv, TypeOK, EdInv
    <3>2. \A f \in intr : chain'[f] # <<>>
      BY <1>2, <1>5, <3>1
    <3>3. QED BY <3>1, <3>2
  <2>3. \A u \in Unit : chain'[u] # <<>> =>
          \/ u \in Linked' /\ pipe[info[u]] = u
          \/ main.pc = "go" /\ main.e \in IntEp /\ main.new /\ main.ed = u /\ Len(chain'[u]) = 1
    BY <1>2, <1>5, <1>8, <1>13 DEF Inv, EdInv
  <2>4. QED BY <1>4, <2>1, <2>2, <2>3 DEF Inv, EdInv, linkVars
<1>15. PipeInv' /\ FrameInv'
  BY <1>4, <1>8 DEF Inv, PipeInv, FrameInv, linkVars
<1>16. QueueInv' /\ CallbackInv'
  BY <1>4, <1>8 DEF Inv, QueueInv, CallbackInv, linkVars, utrVars
<1>17. CountInv'
  BY <1>4, <1>8, <1>9 DEF Inv, CountInv, Dummies, InHand, utrVars, linkVars
<1>18. RequestInv' /\ MainInv'
  BY <1>4, <1>8 DEF Inv, RequestInv, MainInv, utrVars, lostVars
<1>19. SubInv'
  <2>1. Sub /\ main.pc = "dummy" => main.ed \in Unit /\ main.ed # d
    BY <1>2 DEF Inv, SubInv
  <2>2. Sub /\ main.new => main.ed # d
    BY <1>2
  <2>3. Sub /\ (main.pc = "dummy" \/ main.new) /\ main.ed \in Unit => chain'[main.ed] = chain[main.ed]
    BY <1>5, <2>1, <2>2
  <2>4. QED BY <1>4, <1>8, <2>1, <2>3 DEF Inv, SubInv, utrVars, linkVars
<1>20. KeepInv'
  <2>1. ASSUME NEW u \in Unit \ orphan, kind[u] = "TD"
        PROVE  \/ u \in Retired' \/ u \in Elems(main.tds)
               \/ \E c \in Unit : u \in Elems(chain'[c])
    <3>1. CASE u = t
      BY <1>8, <3>1
    <3>2. CASE u # t
      BY <1>5, <1>8, <2>1, <3>2 DEF Inv, KeepInv
    <3>3. QED BY <3>1, <3>2
  <2>2. QED BY <1>4, <2>1 DEF Inv, KeepInv, linkVars, lostVars
<1>21. QED BY <1>10, <1>11, <1>12, <1>14, <1>15, <1>16, <1>17, <1>18, <1>19, <1>20 DEF Inv

\* Some TDs of e are counted and leave those owed: td_cnt stays the number of
\* TDs owed, and the request is signalled once, when none is left.
LEMMA CountDown ==
    ASSUME Inv, NEW e \in Ep, NEW Y \in SUBSET Owed(e), Y # {}, NEW st \in {"ok", "err", "abort"},
           Count(e, Cardinality(Y), st), ~ (Sub /\ main.e = e),
           UNCHANGED <<pipe, main, live, lostVars>>,
           Owed(e)' = Owed(e) \ Y, \A f \in Ep : f # e => Owed(f)' = Owed(f),
           \A f \in IntEp : f # e /\ pipe[f] \in intr => pipe[f] \in intr'
    PROVE  /\ CountInv' /\ RequestInv'
           /\ \A f \in Ep : f # e => /\ cnt'[f] = cnt[f] /\ calls'[f] = calls[f]
                                     /\ isDone'[f] = isDone[f]
           /\ isDone' \in [Ep -> BOOLEAN] /\ status' \in [Ep -> {"ok", "err", "abort"}]
           /\ cnt' \in [Ep -> -1 .. MaxTd + 3] /\ calls' \in [Ep -> 0 .. 2] /\ late' \subseteq Ep
           /\ cnt[e] \in 1 .. Cardinality(Y) => live[e] /\ calls[e] = 0 /\ calls'[e] = 1
           /\ cnt[e] \notin 1 .. Cardinality(Y) => calls'[e] = calls[e]
           /\ live[e] => late' = late
<1> DEFINE k == Cardinality(Y)
           over == cnt[e] \in 1 .. k
<1>1. /\ k \in Nat /\ k >= 1 /\ Cardinality(Owed(e)) \in Nat /\ k <= Cardinality(Owed(e))
      /\ Cardinality(Owed(e)') = Cardinality(Owed(e)) - k
  <2>1. Owed(e) \in SUBSET Unit /\ Y \in SUBSET Unit
    BY DEF Owed
  <2>2. k \in Nat /\ Cardinality(Owed(e)) \in Nat /\ k # 0
    BY <2>1, UnitsFinite, CountUnits
  <2>3. k <= Cardinality(Owed(e)) /\ Cardinality(Owed(e) \ Y) = Cardinality(Owed(e)) - k
    BY <2>1, CountUnits
  <2>4. QED BY <2>2, <2>3
<1>2. /\ cnt' = [cnt EXCEPT ![e] = @ - k]
      /\ isDone' = [isDone EXCEPT ![e] = @ \/ over]
      /\ calls' = [calls EXCEPT ![e] = IF over /\ @ < 2 THEN @ + 1 ELSE @]
      /\ status' = [status EXCEPT ![e] = st]
      /\ late' = IF live[e] THEN late ELSE late \cup {e}
  BY DEF Count
<1>3. cnt[e] \in -1 .. MaxTd + 3 /\ MaxTd \in Nat /\ calls[e] \in 0 .. 2 /\ calls[e] <= 1
  BY OhciAssumption DEF Inv, TypeOK, RequestInv
<1>4. /\ InHand(e) = 0 /\ Dummies(e) \in {0, 1}
      /\ cnt[e] + Dummies(e) = Cardinality(Owed(e))
  <2>1. InHand(e) = 0 /\ Dummies(e) \in {0, 1}
    BY DEF InHand, Dummies
  <2>2. cnt[e] + Dummies(e) = Cardinality(Owed(e)) + InHand(e)
    BY DEF Inv, CountInv
  <2>3. QED BY <1>1, <2>1, <2>2
<1>5. cnt[e] - k \in -1 .. MaxTd + 3
  BY <1>1, <1>3, <1>4
<1>6. cnt[e] >= 1 <=> live[e] /\ calls[e] = 0
  BY DEF Inv, RequestInv
<1>7. over <=> live[e] /\ calls[e] = 0 /\ cnt[e] <= k
  BY <1>1, <1>3, <1>6
<1> HIDE DEF k, over
<1>8. /\ calls'[e] = IF over THEN 1 ELSE calls[e]
      /\ cnt'[e] = cnt[e] - k /\ (isDone'[e] <=> isDone[e] \/ over)
      /\ over => calls[e] = 0
      /\ \A f \in Ep : f # e => cnt'[f] = cnt[f] /\ calls'[f] = calls[f] /\ isDone'[f] = isDone[f]
  <2>1. over => calls[e] = 0
    BY <1>7
  <2>2. calls'[e] = IF over THEN 1 ELSE calls[e]
    BY <1>2, <1>3, <2>1 DEF Inv, TypeOK
  <2>3. isDone'[e] <=> isDone[e] \/ over
    BY <1>2, Zenon DEF Inv, TypeOK
  <2>4. QED BY <1>2, <2>1, <2>2, <2>3 DEF Inv, TypeOK
<1>9. /\ isDone' \in [Ep -> BOOLEAN] /\ status' \in [Ep -> {"ok", "err", "abort"}]
      /\ cnt' \in [Ep -> -1 .. MaxTd + 3] /\ calls' \in [Ep -> 0 .. 2] /\ late' \subseteq Ep
  <2>1. isDone' \in [Ep -> BOOLEAN]
    <3>1. PICK b \in BOOLEAN : b = (isDone[e] \/ over)
      BY Zenon
    <3>2. isDone' = [isDone EXCEPT ![e] = b]
      BY <1>2, <3>1, Zenon
    <3>3. QED BY <3>2 DEF Inv, TypeOK
  <2>2. calls' \in [Ep -> 0 .. 2]
    <3>1. (IF over /\ calls[e] < 2 THEN calls[e] + 1 ELSE calls[e]) \in 0 .. 2
      BY <1>3
    <3>2. QED BY <1>2, <3>1 DEF Inv, TypeOK
  <2>3. cnt' \in [Ep -> -1 .. MaxTd + 3]
    BY <1>2, <1>5 DEF Inv, TypeOK, k
  <2>4. status' \in [Ep -> {"ok", "err", "abort"}] /\ late' \subseteq Ep
    BY <1>2 DEF Inv, TypeOK
  <2>5. QED BY <2>1, <2>2, <2>3, <2>4
<1>10. CountInv'
  <2>1. \A f \in Ep : InHand(f)' = InHand(f) /\ Dummies(f)' = Dummies(f)
    BY DEF InHand, Dummies, Sub
  <2>2. ASSUME NEW f \in Ep PROVE cnt'[f] + Dummies(f)' = Cardinality(Owed(f)') + InHand(f)'
    <3>1. CASE f = e
      <4>1. InHand(e)' = 0 /\ Dummies(e)' = Dummies(e) /\ cnt'[e] = cnt[e] - k
            /\ Cardinality(Owed(e)') = Cardinality(Owed(e)) - k
        BY <1>1, <1>4, <1>8, <2>1 DEF k
      <4>2. cnt'[e] + Dummies(e)' = Cardinality(Owed(e)') + InHand(e)'
        BY <1>1, <1>3, <1>4, <4>1 DEF k
      <4>3. QED BY <3>1, <4>2
    <3>2. CASE f # e
      BY <1>8, <2>1, <3>2 DEF Inv, CountInv
    <3>3. QED BY <3>1, <3>2
  <2>3. ASSUME NEW f \in IntEp PROVE cnt'[f] <= 1 /\ (cnt'[f] = 1 => pipe'[f] \in intr')
    <3>1. f \in Ep /\ cnt[f] <= 1 /\ (cnt[f] = 1 => pipe[f] \in intr)
      BY DEF Inv, CountInv, Ep
    <3>2. CASE f = e
      BY <1>1, <1>3, <1>8, <3>1, <3>2 DEF k
    <3>3. CASE f # e
      BY <1>8, <3>1, <3>3
    <3>4. QED BY <3>2, <3>3
  <2>4. QED BY <2>2, <2>3 DEF CountInv
<1>11. RequestInv'
  <2>1. \A f \in Ep : calls'[f] <= 1
    BY <1>3, <1>8 DEF Inv, RequestInv
  <2>2. ASSUME NEW f \in Ep, ~ (Sub /\ main.e = f) PROVE cnt'[f] >= 1 <=> live[f] /\ calls'[f] = 0
    <3>1. CASE f = e
      <4>1. cnt[e] - k >= 1 <=> cnt[e] >= 1 /\ ~ over
        BY <1>1, <1>3 DEF over, k
      <4>2. QED BY <1>6, <1>8, <3>1, <4>1
    <3>2. CASE f # e
      BY <1>8, <2>2, <3>2 DEF Inv, RequestInv
    <3>3. QED BY <3>1, <3>2
  <2>3. \A f \in Ep \ IntEp : isDone'[f] => calls'[f] = 1
    BY <1>8 DEF Inv, RequestInv
  <2>4. late' \subseteq dropped
    <3>1. CASE live[e]
      BY <1>2, <3>1 DEF Inv, RequestInv
    <3>2. CASE ~ live[e]
      <4>1. Dummies(e) = 1
        BY <1>1, <1>3, <1>4, <1>6, <3>2
      <4>2. e \in dropped
        BY <3>2, <4>1 DEF Dummies, Inv, RequestInv
      <4>3. QED BY <1>2, <3>2, <4>2 DEF Inv, RequestInv
    <3>3. QED BY <3>1, <3>2
  <2>5. Sub' = Sub
    BY DEF Sub
  <2>6. QED BY <2>1, <2>2, <2>3, <2>4, <2>5 DEF Inv, RequestInv, lostVars
<1>12. QED BY <1>2, <1>7, <1>8, <1>9, <1>10, <1>11 DEF k, over

\* The TD that td_done has before it is one of those owed, of a request that
\* is not under submission.
LEMMA NextTd ==
    ASSUME Inv, isr.todo # <<>>, isr.pc \in {"done", "callback"}
    PROVE  LET t == Last(isr.todo)
           IN  /\ t \in Unit /\ t \in Elems(isr.todo) /\ t \in Retired /\ kind[t] = "TD"
               /\ utrOf[t] \in Ep /\ t # hc /\ t \notin Linked \cup removing /\ t \notin skip
               /\ chain[t] = <<>> /\ t \notin Elems(main.tds) /\ (Sub => main.ed # t)
               /\ t \notin Elems(done) /\ t \notin Elems(hcca)
               /\ \A d \in Unit : t \notin Elems(chain[d])
               /\ isr.todo \in Seq(Unit) /\ Once(isr.todo)
               /\ isr.pc = "done" => t \in Owed(utrOf[t])
               /\ ~ (Sub /\ main.e = utrOf[t])
<1> DEFINE t == Last(isr.todo)
<1>1. isr.todo \in Seq(Unit) /\ Once(isr.todo)
  BY DEF Inv, TypeOK, IsrRec, PlaceInv
<1>2. t \in Unit /\ t \in Elems(isr.todo) /\ t \in Retired
  BY <1>1, ElemsOf DEF Retired
<1> HIDE DEF t
<1>3. kind[t] = "TD" /\ utrOf[t] \in Ep /\ chain[t] = <<>> /\ t \notin Linked \cup removing
  BY <1>2 DEF Inv, TdInv, EdInv
<1>4. t # hc /\ t \notin skip
  BY <1>2, <1>3, OhciAssumption DEF Inv, FrameInv
<1>5. Sub => main.ed # t
  BY <1>2, <1>3, OhciAssumption DEF Inv, SubInv
<1>6. /\ t \notin Elems(main.tds) /\ t \notin Elems(done) /\ t \notin Elems(hcca)
      /\ \A d \in Unit : t \notin Elems(chain[d])
  BY <1>2 DEF Inv, PlaceInv
<1>7. isr.pc = "done" => t \in Owed(utrOf[t]) /\ t \in Due
  BY <1>2 DEF Owed, Due
<1>8. ~ (Sub /\ main.e = utrOf[t])
  <2>1. CASE isr.pc = "done"
    BY <1>7, <2>1, SubOwes
  <2>2. CASE isr.pc = "callback"
    BY <2>2 DEF Inv, CallbackInv, t
  <2>3. QED BY <2>1, <2>2
<1>9. QED BY <1>1, <1>2, <1>3, <1>4, <1>5, <1>6, <1>7, <1>8 DEF t

\* td_done, up to the callback or to the end.
LEMMA IsrTdInv ==
    ASSUME Inv, IsrTd
    PROVE  Inv'
<1>1. isr.pc = "done" /\ isr.todo # <<>>
  BY DEF IsrTd
<1>2. PICK t \in Unit : t = Last(isr.todo)
  BY <1>1, NextTd
<1>3. PICK e \in Ep : e = utrOf[t]
  BY <1>1, <1>2, NextTd
<1>4. /\ t \in Elems(isr.todo) /\ t \in Retired /\ kind[t] = "TD"
      /\ t # hc /\ t \notin Linked \cup removing /\ t \notin skip
      /\ chain[t] = <<>> /\ t \notin Elems(main.tds) /\ (Sub => main.ed # t)
      /\ t \notin Elems(done) /\ t \notin Elems(hcca)
      /\ \A d \in Unit : t \notin Elems(chain[d])
      /\ isr.todo \in Seq(Unit) /\ Once(isr.todo)
      /\ t \in Owed(e) /\ ~ (Sub /\ main.e = e)
  BY <1>1, <1>2, <1>3, NextTd
<1>5. PICK st \in {"ok", "err", "abort"} : Count(e, 1, st)
  <2>1. td_done(t)
    BY <1>2 DEF IsrTd, Last
  <2>2. (IF t \in bad THEN "err" ELSE status[utrOf[t]]) \in {"ok", "err", "abort"}
    BY <1>3 DEF Inv, TypeOK
  <2>3. QED BY <1>3, <2>1, <2>2 DEF td_done
<1>6. /\ UNCHANGED <<linkVars, pipe, hcVars, main, live, lostVars>>
      /\ \/ /\ e \in IntEp /\ cnt[e] = 1
            /\ isr' = [isr EXCEPT !.pc = "callback"]
            /\ UNCHANGED <<kind, edVars, utrOf, bad>>
         \/ /\ isr' = [isr EXCEPT !.todo = SubSeq(isr.todo, 1, Len(isr.todo) - 1)]
            /\ FreeUnits({t})
  BY <1>2, <1>3 DEF IsrTd, Last
<1>7. /\ \A u \in Unit : u # t => kind'[u] = kind[u] /\ info'[u] = info[u] /\ utrOf'[u] = utrOf[u]
      /\ \A u \in Unit : chain'[u] = chain[u]
      /\ skip' = skip /\ halt' \subseteq halt /\ bad' \subseteq bad
      /\ kind' \in [Unit -> {"free", "ED", "TD"}] /\ info' \in [Unit -> EpOrNull]
      /\ utrOf' \in [Unit -> EpOrNull] /\ chain' \in [Unit -> Seq(Unit)]
  <2>1. <<>> \in Seq(Unit)
    OBVIOUS
  <2>2. CASE UNCHANGED <<kind, edVars, utrOf, bad>>
    BY <2>2 DEF edVars, Inv, TypeOK
  <2>3. CASE FreeUnits({t})
    BY <1>4, <2>1, <2>3 DEF FreeUnits, Inv, TypeOK, EpOrNull
  <2>4. QED BY <1>6, <2>2, <2>3
<1>8. /\ \/ /\ e \in IntEp /\ cnt[e] = 1 /\ isr'.pc = "callback" /\ isr'.todo = isr.todo
            /\ Retired' = Retired /\ kind'[t] = "TD" /\ utrOf'[t] = e
         \/ /\ isr'.pc = "done" /\ Elems(isr'.todo) = Elems(isr.todo) \ {t}
            /\ Retired' = Retired \ {t} /\ kind'[t] = "free"
      /\ Once(isr'.todo) /\ isr' \in IsrRec /\ Due' = Due \ {t}
      /\ Elems(isr'.todo) \subseteq Elems(isr.todo)
  <2>1. done' = done /\ hcca' = hcca /\ isr \in IsrRec
    BY <1>6 DEF hcVars, Inv, TypeOK
  <2>2. CASE /\ e \in IntEp /\ cnt[e] = 1
             /\ isr' = [isr EXCEPT !.pc = "callback"]
             /\ UNCHANGED <<kind, edVars, utrOf, bad>>
    <3>1. isr'.pc = "callback" /\ isr'.todo = isr.todo /\ isr' \in IsrRec
      BY <2>1, <2>2 DEF IsrRec, IsrPc
    <3>2. Retired' = Retired /\ Due = Retired /\ Due' = Retired \ {t}
      BY <1>1, <1>2, <2>1, <3>1 DEF Retired, Due
    <3>3. QED BY <1>3, <1>4, <2>2, <3>1, <3>2
  <2>3. CASE /\ isr' = [isr EXCEPT !.todo = SubSeq(isr.todo, 1, Len(isr.todo) - 1)]
             /\ FreeUnits({t})
    <3>1. /\ SubSeq(isr.todo, 1, Len(isr.todo) - 1) \in Seq(Unit)
          /\ Elems(SubSeq(isr.todo, 1, Len(isr.todo) - 1)) = Elems(isr.todo) \ {t}
          /\ Once(SubSeq(isr.todo, 1, Len(isr.todo) - 1))
      BY <1>1, <1>2, <1>4, ElemsFront
    <3>2. isr'.pc = "done" /\ isr'.todo = SubSeq(isr.todo, 1, Len(isr.todo) - 1) /\ isr' \in IsrRec
      BY <1>1, <2>1, <2>3, <3>1 DEF IsrRec
    <3>3. Retired' = Retired \ {t}
      BY <1>4, <2>1, <3>1, <3>2 DEF Retired
    <3>4. Due' = Due \ {t} /\ kind'[t] = "free"
      BY <1>1, <2>3, <3>2, <3>3 DEF Due, FreeUnits
    <3>5. QED BY <3>1, <3>2, <3>3, <3>4
  <2>4. QED BY <1>6, <2>2, <2>3
<1>9. Linked' = Linked /\ Sub' = Sub /\ Quits' = Quits
  BY <1>6 DEF Linked, linkVars, Sub, Quits
<1>10. Owed(e)' = Owed(e) \ {t} /\ \A f \in Ep : f # e => Owed(f)' = Owed(f)
  <2>1. ASSUME NEW f \in Ep, NEW u \in Unit
        PROVE  u \in Owed(f)' <=> u \in Owed(f) /\ u # t
    <3>1. CASE u = t
      BY <1>4, <1>7, <1>8, <3>1 DEF Owed
    <3>2. CASE u # t
      BY <1>7, <1>8, <3>2 DEF Owed
    <3>3. QED BY <3>1, <3>2
  <2>2. \A f \in Ep : Owed(f) \subseteq Unit /\ Owed(f)' \subseteq Unit
    BY DEF Owed
  <2>3. \A f \in Ep : f # e => t \notin Owed(f)
    BY <1>3 DEF Owed
  <2>4. QED BY <2>1, <2>2, <2>3
<1>11. /\ CountInv' /\ RequestInv'
       /\ \A f \in Ep : f # e => cnt'[f] = cnt[f] /\ calls'[f] = calls[f] /\ isDone'[f] = isDone[f]
       /\ isDone' \in [Ep -> BOOLEAN] /\ status' \in [Ep -> {"ok", "err", "abort"}]
       /\ cnt' \in [Ep -> -1 .. MaxTd + 3] /\ calls' \in [Ep -> 0 .. 2] /\ late' \subseteq Ep
       /\ cnt[e] = 1 => live[e] /\ calls'[e] = 1
  <2>1. Cardinality({t}) = 1 /\ {t} \in SUBSET Owed(e) /\ {t} # {} /\ intr' = intr
        /\ (cnt[e] = 1 => cnt[e] \in 1 .. 1)
    <3>1. Cardinality({t}) = 1
      BY FS_Singleton
    <3>2. {t} \in SUBSET Owed(e) /\ {t} # {} /\ intr' = intr
      BY <1>4, <1>6 DEF linkVars
    <3>3. cnt[e] = 1 => cnt[e] \in 1 .. 1
      OBVIOUS
    <3>4. QED BY <3>1, <3>2, <3>3
  <2>2. Count(e, Cardinality({t}), st)
    BY <1>5, <2>1
  <2> HIDE DEF Inv
  <2>3. UNCHANGED <<pipe, main, live, lostVars>>
    BY <1>6
  <2>4. \A f \in IntEp : f # e /\ pipe[f] \in intr => pipe[f] \in intr'
    BY <2>1
  <2>5. QED BY <1>4, <1>10, <2>1, <2>2, <2>3, <2>4, CountDown
<1>12. TypeOK'
  BY <1>6, <1>7, <1>8, <1>11 DEF Inv, TypeOK, linkVars, hcVars, lostVars
<1>13. PlaceInv'
  <2>1. Retired' \subseteq Retired
    BY <1>8
  <2>2. QED BY <1>6, <1>7, <1>8, <2>1 DEF Inv, PlaceInv, hcVars
<1>14. TdInv'
  <2>1. \A u \in Retired : u \in Unit
    BY TdsAreUnits
  <2>2. \A u \in Retired' : kind'[u] = "TD" /\ utrOf'[u] \in Ep
    <3>1. \A u \in Retired' : u \in Retired /\ u \in Unit
                             /\ (u = t => kind'[t] = "TD" /\ utrOf'[t] = e)
      BY <1>8, <2>1
    <3>2. \A u \in Retired : kind[u] = "TD" /\ utrOf[u] \in Ep
      BY DEF Inv, TdInv
    <3>3. QED BY <1>7, <3>1, <3>2
  <2>3. \A u \in Elems(main.tds) : u \in Unit /\ u # t
    BY <1>4, TdsAreUnits
  <2>4. \A d \in Unit : \A u \in Elems(chain[d]) : u \in Unit /\ u # t /\ d # t
    BY <1>4, TdsAreUnits, ElemsFew
  <2>5. \A u \in Elems(main.tds) : kind'[u] = "TD" /\ utrOf'[u] = main.e
    BY <1>7, <2>3 DEF Inv, TdInv
  <2>6. \A d \in Unit : \A u \in Elems(chain[d]) :
          /\ kind'[u] = "TD"
          /\ utrOf'[u] = info'[d] \/ (main.pc = "go" /\ main.new /\ main.ed = d)
    <3>1. \A d \in Unit : \A u \in Elems(chain[d]) :
            /\ kind'[u] = kind[u] /\ utrOf'[u] = utrOf[u] /\ info'[d] = info[d]
      BY <1>7, <2>4
    <3>2. QED BY <3>1 DEF Inv, TdInv
  <2>7. main' = main
    BY <1>6
  <2>8. \A d \in Unit : Elems(chain'[d]) = Elems(chain[d])
    BY <1>7
  <2>9. QED BY <2>2, <2>5, <2>6, <2>7, <2>8 DEF TdInv
<1>15. EdInv'
  <2>1. bulk' = bulk /\ intr' = intr /\ ctrlHead' = ctrlHead /\ removing' = removing
    BY <1>6 DEF linkVars
  <2>2. /\ bulk \subseteq Unit \ {t} /\ intr \subseteq Unit \ {t}
        /\ (ctrlHead # NULL => ctrlHead \in Unit \ {t})
    BY <1>4 DEF Linked, Inv, TypeOK, UnitOrNull
  <2>3. \A u \in Unit : chain[u] # <<>> \/ u \in Linked \cup removing => u # t
    BY <1>4
  <2>4. \A u \in Unit : chain'[u] # <<>> \/ u \in Linked' \cup removing' => kind'[u] = "ED"
    <3>1. \A u \in Unit : chain[u] # <<>> \/ u \in Linked \cup removing => kind[u] = "ED"
      BY DEF Inv, EdInv
    <3>2. \A u \in Unit : u # t => chain'[u] = chain[u] /\ kind'[u] = kind[u]
      BY <1>7
    <3>3. chain'[t] = <<>>
      BY <1>4, <1>7
    <3>4. QED BY <1>9, <2>1, <2>3, <3>1, <3>2, <3>3
  <2>5. \A u \in Unit : chain'[u] # <<>> =>
          \/ u \in Linked' /\ pipe[info'[u]] = u
          \/ main.pc = "go" /\ main.e \in IntEp /\ main.new /\ main.ed = u /\ Len(chain'[u]) = 1
    <3>1. \A u \in Unit : chain'[u] # <<>> => chain[u] # <<>> /\ u # t /\ info'[u] = info[u]
                                              /\ chain'[u] = chain[u]
      BY <1>7, <2>3
    <3>2. \A u \in Unit : chain[u] # <<>> =>
          \/ u \in Linked /\ pipe[info[u]] = u
          \/ main.pc = "go" /\ main.e \in IntEp /\ main.new /\ main.ed = u /\ Len(chain[u]) = 1
      BY DEF Inv, EdInv
    <3>3. QED BY <1>9, <3>1, <3>2
  <2>6. /\ \A d \in bulk : info'[d] \in BulkEp /\ pipe[info'[d]] = d
        /\ \A d \in intr : info'[d] \in IntEp /\ pipe[info'[d]] = d /\ chain'[d] # <<>>
        /\ ctrlHead # NULL => info'[ctrlHead] \in CtrlEp
    <3>1. /\ \A d \in bulk \cup intr : info'[d] = info[d] /\ chain'[d] = chain[d]
          /\ ctrlHead # NULL => info'[ctrlHead] = info[ctrlHead]
      BY <1>7, <2>2
    <3>2. /\ \A d \in bulk : info[d] \in BulkEp /\ pipe[info[d]] = d
          /\ \A d \in intr : info[d] \in IntEp /\ pipe[info[d]] = d /\ chain[d] # <<>>
          /\ ctrlHead # NULL => info[ctrlHead] \in CtrlEp
      BY DEF Inv, EdInv
    <3>3. QED BY <3>1, <3>2
  <2>7. QED BY <1>6, <2>1, <2>4, <2>5, <2>6 DEF EdInv
<1>16. PipeInv'
  BY <1>4, <1>6, <1>7, <1>9 DEF Inv, PipeInv, TypeOK, UnitOrNull, linkVars
<1>17. FrameInv'
  <2>1. \A u \in Unit : kind[u] = "ED" <=> kind'[u] = "ED"
    BY <1>4, <1>7, <1>8
  <2>2. hc # NULL => hc \in Unit
    BY DEF Inv, TypeOK, UnitOrNull
  <2>3. isr'.pc # "remove"
    BY <1>8
  <2>4. QED BY <1>1, <1>6, <1>7, <1>9, <2>1, <2>2, <2>3 DEF Inv, FrameInv, linkVars, hcVars
<1>18. QueueInv'
  BY <1>1, <1>6, <1>8 DEF Inv, QueueInv, hcVars
<1>19. CallbackInv'
  <2>1. CASE isr'.pc = "callback"
    <3>1. e \in IntEp /\ cnt[e] = 1 /\ Last(isr'.todo) = t /\ utrOf'[t] = e
      BY <1>2, <1>8, <2>1
    <3>2. live'[e] /\ calls'[e] = 1 /\ pipe'[e] \in intr'
      BY <1>6, <1>11, <3>1 DEF Inv, CountInv, linkVars
    <3>3. QED BY <1>4, <1>6, <1>9, <3>1, <3>2 DEF CallbackInv
  <2>2. CASE isr'.pc # "callback"
    BY <2>2 DEF CallbackInv
  <2>3. QED BY <2>1, <2>2
<1>20. MainInv'
  BY <1>6, <1>9 DEF Inv, MainInv
<1>21. SubInv'
  <2>1. SUFFICES ASSUME Sub PROVE SubInv'
    BY <1>9 DEF SubInv
  <2>2. main.e \in Ep /\ main.e # e
    BY <1>4, <2>1, SubOwes
  <2>3. main.ed \in Unit => /\ kind'[main.ed] = kind[main.ed] /\ info'[main.ed] = info[main.ed]
                            /\ chain'[main.ed] = chain[main.ed]
    BY <1>4, <1>7, <2>1
  <2>4. main.ed \in Unit /\ Len(chain[main.ed]) = 1 =>
           utrOf'[chain[main.ed][1]] = utrOf[chain[main.ed][1]]
    <3>1. SUFFICES ASSUME main.ed \in Unit, Len(chain[main.ed]) = 1
                   PROVE  utrOf'[chain[main.ed][1]] = utrOf[chain[main.ed][1]]
      OBVIOUS
    <3>2. chain[main.ed] \in Seq(Unit)
      BY <3>1 DEF Inv, TypeOK
    <3>3. chain[main.ed][1] \in Unit /\ chain[main.ed][1] \in Elems(chain[main.ed])
      BY <3>1, <3>2, OnlyElem
    <3>4. QED BY <1>4, <1>7, <3>1, <3>3
  <2>5. main' = main /\ pipe' = pipe /\ live' = live /\ Linked' = Linked /\ intr' = intr
        /\ cnt'[main.e] = cnt[main.e] /\ calls'[main.e] = calls[main.e]
    BY <1>6, <1>9, <1>11, <2>2 DEF linkVars
  <2>6. main.pc = "dummy" => main.ed \in Unit
    BY <2>1 DEF Inv, SubInv
  <2>7. QED BY <2>1, <2>3, <2>4, <2>5, <2>6 DEF Inv, SubInv
<1>22. KeepInv'
  <2>1. ASSUME NEW u \in Unit \ orphan, kind'[u] = "ED"
        PROVE  u \in removing \/ u = main.ed \/ \E f \in Ep : pipe[f] = u
    <3>1. kind[u] = "ED"
      BY <1>7, <1>8, <2>1
    <3>2. QED BY <3>1 DEF Inv, KeepInv
  <2>2. ASSUME NEW u \in Unit \ orphan, kind'[u] = "TD"
        PROVE  u \in Retired' \/ u \in Elems(main.tds) \/ \E d \in Unit : u \in Elems(chain[d])
    <3>1. CASE u = t
      BY <1>4, <1>8, <2>2, <3>1
    <3>2. CASE u # t
      BY <1>7, <1>8, <2>2, <3>2 DEF Inv, KeepInv
    <3>3. QED BY <3>1, <3>2
  <2>3. QED BY <1>6, <1>7, <2>1, <2>2 DEF KeepInv, linkVars, lostVars
<1>23. QED BY <1>11, <1>12, <1>13, <1>14, <1>15, <1>16, <1>17, <1>18, <1>19, <1>20, <1>21,
              <1>22 DEF Inv

(***************************************************************************)
(* The removal of an ED, and the callback.                                 *)
(***************************************************************************)

\* The ED that remove_ed takes away is that of the endpoint being quit, the
\* controller has left it, and its TDs are owed.
LEMMA RemovedEd ==
    ASSUME Inv, isr.pc = "remove", NEW d \in removing
    PROVE  /\ main.pc = "delay" /\ d = main.ed /\ d \in Unit /\ kind[d] = "ED"
           /\ main.e \in Ep /\ info[d] = main.e /\ pipe[main.e] = d /\ d # hc
           /\ removing = {d} /\ skip = {d} /\ ~ Sub /\ Quits /\ main.tds = <<>>
           /\ (IF Found(d) THEN Elems(chain[d]) ELSE {}) = Elems(chain[d])
           /\ \A t \in Elems(chain[d]) : /\ t \in Unit /\ t # d /\ kind[t] = "TD" /\ utrOf[t] = main.e
                                         /\ t \notin Retired /\ t # hc /\ chain[t] = <<>>
                                         /\ t \notin Linked
           /\ Elems(chain[d]) \in SUBSET Owed(main.e)
<1>1. main.pc = "delay" /\ d = main.ed /\ d \in Unit /\ removing = {d} /\ skip = {d}
  BY DEF Inv, TypeOK, FrameInv
<1>2. Quits /\ ~ Sub /\ main.e \in Ep /\ pipe[main.e] = d /\ main.tds = <<>>
  BY <1>1 DEF Quits, Sub, Inv, MainInv, FrameInv
<1>3. kind[d] = "ED" /\ info[d] = main.e
  BY <1>1, <1>2, OhciAssumption DEF Inv, EdInv, PipeInv
<1>4. d # hc
  BY <1>1, OhciAssumption DEF Inv, FrameInv
<1>5. chain[d] # <<>> => d \in Linked
  BY <1>1 DEF Inv, EdInv
<1>6. (IF Found(d) THEN Elems(chain[d]) ELSE {}) = Elems(chain[d])
  <2>1. d \in Linked => Found(d)
    BY DEF Linked, Found
  <2>2. chain[d] = <<>> => Elems(chain[d]) = {}
    BY ElemsFew
  <2>3. QED BY <1>5, <2>1, <2>2
<1>7. ASSUME NEW t \in Elems(chain[d])
      PROVE  /\ t \in Unit /\ t # d /\ kind[t] = "TD" /\ utrOf[t] = main.e
             /\ t \notin Retired /\ t # hc /\ chain[t] = <<>> /\ t \notin Linked
  <2>1. t \in Unit
    BY <1>1, TdsAreUnits
  <2>2. kind[t] = "TD" /\ utrOf[t] = main.e /\ t \notin Retired
    BY <1>1, <1>3 DEF Inv, TdInv, PlaceInv
  <2>3. t # d /\ t # hc /\ chain[t] = <<>> /\ t \notin Linked
    BY <1>3, <2>1, <2>2, OhciAssumption DEF Inv, FrameInv, EdInv
  <2>4. QED BY <2>1, <2>2, <2>3
<1>8. Elems(chain[d]) \in SUBSET Owed(main.e)
  BY <1>1, <1>7 DEF Owed
<1>9. QED BY <1>1, <1>2, <1>3, <1>4, <1>6, <1>7, <1>8

\* remove_ed: the ED is unlinked and freed with its TDs.
LEMMA RemoveEdInv ==
    ASSUME Inv, remove_ed
    PROVE  Inv'
<1>1. PICK d \in removing :
          LET tds == IF Found(d) THEN Elems(chain[d]) ELSE {}
              f   == info[d]
          IN  /\ Unlink(d)
              /\ FreeUnits({d} \cup tds)
              /\ IF tds # {}
                 THEN Count(f, Cardinality(tds),
                            IF cnt[f] \in 1 .. Cardinality(tds) THEN "abort"
                            ELSE status[f])
                 ELSE UNCHANGED <<cnt, isDone, calls, status, late>>
              /\ removing' = removing \ {d}
  BY DEF remove_ed
<1>2. isr.pc = "remove" /\ UNCHANGED <<pipe, hcVars, main, isr, live, lostVars>>
  BY DEF remove_ed
<1>3. PICK e \in Ep : e = main.e
  BY <1>2, RemovedEd
<1> DEFINE T == Elems(chain[d])
<1>4. /\ main.pc = "delay" /\ d = main.ed /\ d \in Unit /\ kind[d] = "ED"
      /\ info[d] = e /\ pipe[e] = d /\ d # hc
      /\ removing = {d} /\ skip = {d} /\ ~ Sub /\ Quits /\ main.tds = <<>>
      /\ \A t \in T : /\ t \in Unit /\ t # d /\ kind[t] = "TD" /\ utrOf[t] = e
                      /\ t \notin Retired /\ t # hc /\ chain[t] = <<>> /\ t \notin Linked
      /\ T \in SUBSET Owed(e)
  BY <1>2, <1>3, RemovedEd
<1>5. /\ Unlink(d) /\ FreeUnits({d} \cup T) /\ removing' = {}
      /\ IF T # {}
         THEN Count(e, Cardinality(T), IF cnt[e] \in 1 .. Cardinality(T) THEN "abort" ELSE status[e])
         ELSE UNCHANGED <<cnt, isDone, calls, status, late>>
  <2>1. (IF Found(d) THEN Elems(chain[d]) ELSE {}) = T
    BY <1>2, RemovedEd
  <2>2. QED BY <1>1, <1>4, <2>1
<1>6. /\ \A u \in Unit : u # d /\ u \notin T =>
            kind'[u] = kind[u] /\ info'[u] = info[u] /\ utrOf'[u] = utrOf[u]
      /\ kind'[d] = "free" /\ \A u \in T : kind'[u] = "free"
      /\ chain'[d] = <<>> /\ \A u \in Unit : u # d => chain'[u] = chain[u]
      /\ skip' = {} /\ halt' \subseteq halt /\ bad' \subseteq bad
      /\ kind' \in [Unit -> {"free", "ED", "TD"}] /\ info' \in [Unit -> EpOrNull]
      /\ utrOf' \in [Unit -> EpOrNull] /\ chain' \in [Unit -> Seq(Unit)]
  <2>1. <<>> \in Seq(Unit)
    OBVIOUS
  <2> DEFINE S == {d} \cup T
  <2>2. /\ kind' = [u \in Unit |-> IF u \in S THEN "free" ELSE kind[u]]
        /\ info' = [u \in Unit |-> IF u \in S THEN NULL ELSE info[u]]
        /\ chain' = [u \in Unit |-> IF u \in S THEN <<>> ELSE chain[u]]
        /\ skip' = skip \ S /\ halt' = halt \ S
        /\ utrOf' = [u \in Unit |-> IF u \in S THEN NULL ELSE utrOf[u]]
        /\ bad' = bad \ S
    BY <1>5 DEF FreeUnits
  <2>3. d \in S /\ \A u : u \in S <=> u = d \/ u \in T
    OBVIOUS
  <2> HIDE DEF S, T
  <2>4. QED BY <1>4, <2>1, <2>2, <2>3 DEF Inv, TypeOK, EpOrNull
<1> HIDE DEF T
<1>7. /\ Linked' = Linked \ {d} /\ bulk' = bulk \ {d} /\ intr' = intr \ {d}
      /\ ctrlHead' # NULL => ctrlHead' = ctrlHead /\ ctrlHead # d
      /\ ctrlHead' \in UnitOrNull
  BY <1>4, <1>5, OhciAssumption DEF Unlink, Linked, Inv, TypeOK, UnitOrNull
<1>8. /\ Retired' = Retired /\ Due' = Due /\ Due = Retired /\ ~ Sub' /\ Quits'
      /\ main' = main /\ pipe' = pipe /\ isr' = isr /\ live' = live
  BY <1>2, <1>4 DEF Retired, Due, hcVars, Sub, Quits
<1>9. Owed(e)' = Owed(e) \ T /\ \A f \in Ep : f # e => Owed(f)' = Owed(f)
  <2>1. \A c \in Unit : \A u \in Elems(chain'[c]) : c # d /\ u \in Elems(chain[c]) /\ u \notin T
    BY <1>4, <1>6, ElemsFew DEF Inv, PlaceInv, T
  <2>2. ASSUME NEW f \in Ep, NEW u \in Unit
        PROVE  u \in Owed(f)' <=> u \in Owed(f) /\ u \notin T
    <3>1. CASE u \in T
      BY <1>4, <1>8, <2>1, <3>1 DEF Owed
    <3>2. CASE u \notin T
      <4>1. u # d \/ u \notin Owed(f)'
        BY <1>4, <1>8, <2>1 DEF Owed, Inv, TdInv
      <4>2. u # d \/ u \notin Owed(f)
        BY <1>4, <1>8 DEF Owed, Inv, TdInv
      <4>3. (\E c \in Unit : u \in Elems(chain'[c])) <=> \E c \in Unit : u \in Elems(chain[c])
        BY <1>6, <2>1, <3>2 DEF T
      <4>4. QED BY <1>6, <1>8, <3>2, <4>1, <4>2, <4>3 DEF Owed
    <3>3. QED BY <3>1, <3>2
  <2>3. \A f \in Ep : Owed(f) \subseteq Unit /\ Owed(f)' \subseteq Unit
    BY DEF Owed
  <2>4. \A f \in Ep : f # e => \A u \in T : u \notin Owed(f)
    BY <1>4 DEF Owed
  <2>5. QED BY <2>2, <2>3, <2>4
<1>10. \A f \in IntEp : f # e /\ pipe[f] \in intr => pipe[f] \in intr'
  BY <1>4, <1>7, DummyIsOwed
<1>11. /\ CountInv' /\ RequestInv'
       /\ isDone' \in [Ep -> BOOLEAN] /\ status' \in [Ep -> {"ok", "err", "abort"}]
       /\ cnt' \in [Ep -> -1 .. MaxTd + 3] /\ calls' \in [Ep -> 0 .. 2] /\ late' \subseteq Ep
  <2>1. CASE T # {}
    <3>1. PICK st \in {"ok", "err", "abort"} : Count(e, Cardinality(T), st)
      <4>1. (IF cnt[e] \in 1 .. Cardinality(T) THEN "abort" ELSE status[e]) \in {"ok", "err", "abort"}
        BY DEF Inv, TypeOK
      <4>2. QED BY <1>5, <2>1, <4>1
    <3>2. UNCHANGED <<pipe, main, live, lostVars>>
      BY <1>2
    <3>3. QED BY <1>4, <1>9, <1>10, <2>1, <3>1, <3>2, CountDown
  <2>2. CASE T = {}
    <3>1. UNCHANGED <<cnt, isDone, calls, status, late, live, main, pipe, lostVars>>
      BY <1>2, <1>5, <2>2
    <3>2. \A f \in Ep : Owed(f)' = Owed(f)
      BY <1>9, <2>2
    <3>3. d \notin intr
      <4>1. chain[d] \in Seq(Unit)
        BY <1>4 DEF Inv, TypeOK
      <4>2. chain[d] = <<>>
        BY <2>2, <4>1, ElemsOf DEF T
      <4>3. QED BY <4>2 DEF Inv, EdInv
    <3>4. intr' = intr
      BY <1>7, <3>3
    <3>5. \A f \in Ep : InHand(f)' = InHand(f) /\ Dummies(f)' = Dummies(f)
      BY <3>1 DEF InHand, Dummies, Sub
    <3>6. CountInv'
      BY <3>1, <3>2, <3>4, <3>5 DEF Inv, CountInv
    <3>7. RequestInv'
      BY <1>4, <1>8, <3>1 DEF Inv, RequestInv, lostVars
    <3>8. QED BY <3>1, <3>6, <3>7 DEF Inv, TypeOK
  <2>3. QED BY <2>1, <2>2
<1>12. TypeOK'
  <2>1. bulk' \subseteq Unit /\ intr' \subseteq Unit /\ removing' \subseteq Unit
    BY <1>5, <1>7 DEF Inv, TypeOK
  <2>2. skip' \subseteq Unit /\ halt' \subseteq Unit /\ bad' \subseteq Unit
    BY <1>6 DEF Inv, TypeOK
  <2>3. QED BY <1>2, <1>6, <1>7, <1>11, <2>1, <2>2 DEF Inv, TypeOK, hcVars, lostVars
<1>13. PlaceInv'
  <2>1. \A u \in Unit : Once(chain'[u]) /\ Elems(chain'[u]) \subseteq Elems(chain[u])
    BY <1>6, ElemsFew DEF Inv, PlaceInv
  <2>2. \A f, g \in Unit : \A u \in Elems(chain'[f]) : u \in Elems(chain'[g]) => f = g
    BY <2>1 DEF Inv, PlaceInv
  <2>3. \A f \in Unit : \A u \in Elems(chain'[f]) : u \notin Retired /\ u \notin Elems(main.tds)
    BY <2>1 DEF Inv, PlaceInv
  <2>4. QED BY <1>2, <1>8, <2>1, <2>2, <2>3 DEF Inv, PlaceInv, hcVars
<1>14. TdInv'
  <2>1. \A u \in Retired : u \in Unit /\ u # d /\ u \notin T
    BY <1>4, TdsAreUnits DEF Inv, TdInv
  <2>2. \A c \in Unit : \A u \in Elems(chain'[c]) :
           /\ c # d /\ c \notin T /\ u \in Elems(chain[c]) /\ u \in Unit /\ u # d /\ u \notin T
    <3>1. ASSUME NEW c \in Unit, NEW u \in Elems(chain'[c])
          PROVE  /\ c # d /\ c \notin T /\ u \in Elems(chain[c]) /\ u \in Unit
                 /\ u # d /\ u \notin T
      <4>1. c # d /\ u \in Elems(chain[c])
        BY <1>6, ElemsFew
      <4>2. u \in Unit /\ kind[u] = "TD" /\ c \notin T
        BY <1>4, <4>1, TdsAreUnits, ElemsFew DEF Inv, TdInv
      <4>3. u # d /\ u \notin T
        BY <1>4, <4>1, <4>2 DEF Inv, PlaceInv, T
      <4>4. QED BY <4>1, <4>2, <4>3
    <3>2. QED BY <3>1
  <2>3. \A u \in Retired' : kind'[u] = "TD" /\ utrOf'[u] \in Ep
    <3>1. \A u \in Retired : kind[u] = "TD" /\ utrOf[u] \in Ep
      BY DEF Inv, TdInv
    <3>2. \A u \in Retired : kind'[u] = kind[u] /\ utrOf'[u] = utrOf[u]
      BY <1>6, <2>1
    <3>3. QED BY <1>8, <3>1, <3>2
  <2>4. \A c \in Unit : \A u \in Elems(chain'[c]) : kind'[u] = "TD" /\ utrOf'[u] = info'[c]
    <3>1. \A c \in Unit : \A u \in Elems(chain[c]) : kind[u] = "TD" /\ utrOf[u] = info[c]
      BY <1>4 DEF Inv, TdInv
    <3>2. \A c \in Unit : \A u \in Elems(chain'[c]) :
             kind'[u] = kind[u] /\ utrOf'[u] = utrOf[u] /\ info'[c] = info[c]
      BY <1>6, <2>2
    <3>3. QED BY <2>2, <3>1, <3>2
  <2>5. QED BY <1>4, <1>8, <2>3, <2>4, ElemsFew DEF TdInv
<1>15. EdInv'
  <2>1. \A u \in Unit : chain'[u] # <<>> \/ u \in Linked' => u # d /\ u \notin T
    BY <1>4, <1>6, <1>7
  <2>2. \A u \in Unit : chain'[u] # <<>> \/ u \in Linked' \cup removing' => kind'[u] = "ED"
    BY <1>5, <1>6, <1>7, <2>1 DEF Inv, EdInv
  <2>3. \A u \in bulk' \cup intr' : /\ u \in Unit /\ u \in bulk \cup intr /\ u \in Linked'
                                    /\ info'[u] = info[u] /\ chain'[u] = chain[u]
    BY <1>6, <1>7, <2>1 DEF Linked, Inv, TypeOK
  <2>4. /\ \A u \in bulk' : info'[u] \in BulkEp /\ pipe'[info'[u]] = u
        /\ \A u \in intr' : info'[u] \in IntEp /\ pipe'[info'[u]] = u /\ chain'[u] # <<>>
    BY <1>7, <1>8, <2>3 DEF Inv, EdInv
  <2>5. ctrlHead' # NULL => info'[ctrlHead'] \in CtrlEp
    <3>1. SUFFICES ASSUME ctrlHead' # NULL PROVE info'[ctrlHead'] \in CtrlEp
      OBVIOUS
    <3>2. ctrlHead' \in Unit /\ ctrlHead' \in Linked' /\ ctrlHead' = ctrlHead
      BY <1>7, <3>1 DEF Linked, UnitOrNull
    <3>3. info'[ctrlHead'] = info[ctrlHead]
      BY <1>6, <2>1, <3>2
    <3>4. QED BY <3>1, <3>2, <3>3 DEF Inv, EdInv
  <2>6. \A u \in Unit : chain'[u] # <<>> => u \in Linked' /\ pipe'[info'[u]] = u
    <3>1. \A u \in Unit : chain[u] # <<>> => u \in Linked /\ pipe[info[u]] = u
      BY <1>4 DEF Inv, EdInv
    <3>2. \A u \in Unit : chain'[u] # <<>> => chain[u] # <<>> /\ u # d /\ info'[u] = info[u]
      BY <1>6, <2>1
    <3>3. QED BY <1>7, <1>8, <3>1, <3>2
  <2>7. QED BY <2>2, <2>4, <2>5, <2>6 DEF EdInv
<1>16. PipeInv'
  <2>1. ASSUME NEW f \in Ep, pipe[f] # NULL, f # e
        PROVE  kind'[pipe[f]] = "ED" /\ info'[pipe[f]] = f /\ (f \in CtrlEp \/ pipe[f] \in Linked')
    <3>1. kind[pipe[f]] = "ED" /\ info[pipe[f]] = f /\ (f \in CtrlEp \/ pipe[f] \in Linked)
      BY <1>3, <1>4, <2>1 DEF Inv, PipeInv
    <3>2. pipe[f] \in Unit /\ pipe[f] # d /\ pipe[f] \notin T
      BY <1>4, <2>1, <3>1 DEF Inv, TypeOK, UnitOrNull
    <3>3. QED BY <1>6, <1>7, <3>1, <3>2
  <2>2. QED BY <1>3, <1>5, <1>8, <2>1 DEF PipeInv
<1>17. FrameInv'
  <2>1. hc' = hc /\ sfe' = sfe /\ sts' = sts
    BY <1>2 DEF hcVars
  <2>2. hc # NULL => kind'[hc] = "ED"
    <3>1. SUFFICES ASSUME hc # NULL PROVE kind'[hc] = "ED"
      OBVIOUS
    <3>2. hc \in Unit /\ hc # d /\ hc \notin T /\ kind[hc] = "ED"
      BY <1>4, <3>1 DEF Inv, TypeOK, UnitOrNull, FrameInv
    <3>3. QED BY <1>6, <3>2
  <2>3. QED BY <1>2, <1>3, <1>4, <1>5, <1>6, <1>8, <2>1, <2>2 DEF Inv, FrameInv
<1>18. QueueInv' /\ CallbackInv'
  BY <1>2 DEF Inv, QueueInv, CallbackInv, hcVars
<1>19. MainInv' /\ SubInv'
  BY <1>4, <1>8 DEF Inv, MainInv, SubInv
<1>20. KeepInv'
  <2>1. ASSUME NEW u \in Unit \ orphan, kind'[u] = "ED"
        PROVE  \E f \in Ep : pipe[f] = u
    <3>1. kind[u] = "ED" /\ u # d
      BY <1>6, <2>1
    <3>2. QED BY <1>4, <3>1 DEF Inv, KeepInv
  <2>2. ASSUME NEW u \in Unit \ orphan, kind'[u] = "TD"
        PROVE  u \in Retired \/ \E c \in Unit : u \in Elems(chain'[c])
    <3>1. kind[u] = "TD" /\ u \notin T
      BY <1>6, <2>2
    <3>2. u \in Retired \/ \E c \in Unit : u \in Elems(chain[c])
      BY <1>4, <3>1, ElemsFew DEF Inv, KeepInv
    <3>3. QED BY <1>6, <3>1, <3>2 DEF T
  <2>3. QED BY <1>2, <1>8, <2>1, <2>2 DEF KeepInv, lostVars
<1>21. QED BY <1>11, <1>12, <1>13, <1>14, <1>15, <1>16, <1>17, <1>18, <1>19, <1>20 DEF Inv

\* At the callback the endpoint owes the dummy of its ED and nothing else.
LEMMA CallbackOwes ==
    ASSUME Inv, isr.pc = "callback"
    PROVE  LET e == utrOf[Last(isr.todo)]
           IN  /\ e \in IntEp /\ e \in Ep /\ e \notin CtrlEp /\ e \notin BulkEp
               /\ live[e] /\ calls[e] = 1 /\ pipe[e] \in intr /\ ~ (Sub /\ main.e = e)
               /\ cnt[e] = 0 /\ Cardinality(Owed(e)) = 1 /\ Dummies(e) = 1 /\ InHand(e) = 0
               /\ isr.todo # <<>>
<1> DEFINE e == utrOf[Last(isr.todo)]
<1>1. /\ e \in IntEp /\ live[e] /\ calls[e] = 1 /\ pipe[e] \in intr /\ ~ (Sub /\ main.e = e)
      /\ isr.todo # <<>>
  BY DEF Inv, CallbackInv, QueueInv
<1> HIDE DEF e
<1>2. e \in Ep /\ e \notin CtrlEp /\ e \notin BulkEp /\ pipe[e] # NULL
  BY <1>1, OhciAssumption DEF Ep, Inv, TypeOK
<1>3. Dummies(e) = 1 /\ InHand(e) = 0
  BY <1>1, <1>2 DEF Dummies, InHand
<1>4. cnt[e] \in Int /\ ~ (cnt[e] >= 1)
  BY <1>1, <1>2, OhciAssumption DEF Inv, TypeOK, RequestInv
<1>5. Owed(e) \in SUBSET Unit /\ Owed(e) # {}
  BY <1>1, DummyIsOwed DEF Owed
<1>6. Cardinality(Owed(e)) \in Nat /\ Cardinality(Owed(e)) # 0
  BY <1>5, UnitsFinite, CountUnits
<1>7. cnt[e] + Dummies(e) = Cardinality(Owed(e)) + InHand(e)
  BY <1>2 DEF Inv, CountInv
<1>8. cnt[e] = 0 /\ Cardinality(Owed(e)) = 1
  BY <1>3, <1>4, <1>6, <1>7
<1>9. QED BY <1>1, <1>2, <1>3, <1>8 DEF e

\* The handler goes on after the callback.
LEMMA AfterCallback ==
    ASSUME Inv, isr.pc = "callback", UNCHANGED <<done, hcca>>,
           isr' = [isr EXCEPT !.pc = "done", !.todo = SubSeq(@, 1, Len(@) - 1)]
    PROVE  /\ isr' \in IsrRec /\ isr'.pc = "done" /\ Once(isr'.todo)
           /\ Elems(isr'.todo) = Elems(isr.todo) \ {Last(isr.todo)}
           /\ Retired' = Retired \ {Last(isr.todo)} /\ Due' = Due
<1>1. isr.todo # <<>>
  BY CallbackOwes
<1>2. isr.todo \in Seq(Unit) /\ Once(isr.todo) /\ Last(isr.todo) \notin Elems(done)
      /\ Last(isr.todo) \notin Elems(hcca)
  BY <1>1, NextTd
<1> DEFINE s == SubSeq(isr.todo, 1, Len(isr.todo) - 1)
<1>3. s \in Seq(Unit) /\ Elems(s) = Elems(isr.todo) \ {Last(isr.todo)} /\ Once(s)
  BY <1>1, <1>2, ElemsFront
<1>4. isr' = [isr EXCEPT !.pc = "done", !.todo = s]
  OBVIOUS
<1> HIDE DEF s
<1>5. isr' \in IsrRec /\ isr'.pc = "done" /\ isr'.todo = s
  BY <1>3, <1>4 DEF Inv, TypeOK, IsrRec, IsrPc
<1>6. Retired' = Retired \ {Last(isr.todo)}
  BY <1>2, <1>3, <1>5 DEF Retired
<1>7. QED BY <1>3, <1>5, <1>6 DEF Due

\* hid_read_irq submits the transfer again, on the ED that is still linked.
LEMMA ResubmitInv ==
    ASSUME Inv, isr.pc = "callback", Resubmit(Last(isr.todo), utrOf[Last(isr.todo)]), again' = {},
           isr' = [isr EXCEPT !.pc = "done", !.todo = SubSeq(@, 1, Len(@) - 1)],
           UNCHANGED <<skip, halt, bad, ctrlHead, bulk, removing, hcVars, main, isDone, status, late>>
    PROVE  Inv'
<1>1. isr.todo # <<>>
  BY CallbackOwes
<1>2. PICK t \in Unit : t = Last(isr.todo)
  BY <1>1, NextTd
<1>3. PICK e \in Ep : e = utrOf[t]
  BY <1>2, CallbackOwes
<1>4. /\ e \in IntEp /\ e \notin CtrlEp /\ e \notin BulkEp
      /\ live[e] /\ calls[e] = 1 /\ pipe[e] \in intr /\ ~ (Sub /\ main.e = e)
      /\ cnt[e] = 0 /\ Cardinality(Owed(e)) = 1 /\ Dummies(e) = 1 /\ InHand(e) = 0
  BY <1>2, <1>3, CallbackOwes
<1>5. /\ t \in Elems(isr.todo) /\ t \in Retired /\ kind[t] = "TD"
      /\ t # hc /\ t \notin Linked \cup removing /\ t \notin skip
      /\ chain[t] = <<>> /\ t \notin Elems(main.tds) /\ (Sub => main.ed # t)
      /\ \A c \in Unit : t \notin Elems(chain[c])
  BY <1>1, <1>2, NextTd
<1>6. PICK new \in Free, d \in Unit, x \in Unit :
        /\ IF Existing(e) = {}
           THEN {d, x} \subseteq Free \ {new} /\ d # x
           ELSE d \in Existing(e) /\ x = Last(chain[d])
        /\ kind' = [kind EXCEPT ![t] = "free", ![new] = "TD", ![d] = "ED", ![x] = "TD"]
        /\ chain' = [chain EXCEPT ![d] = IF @ = <<>> THEN <<x, new>>
                                         ELSE Append(@, new)]
        /\ utrOf' = [utrOf EXCEPT ![t] = NULL, ![new] = e, ![x] = e]
        /\ info' = [info EXCEPT ![d] = e]
        /\ intr' = intr \cup {d}
        /\ pipe' = [pipe EXCEPT ![e] = d]
        /\ cnt' = [cnt EXCEPT ![e] = 1]
        /\ calls' = [calls EXCEPT ![e] = 0]
        /\ again' = IF Existing(e) = {} THEN again \cup {e} ELSE again
        /\ UNCHANGED <<live, orphan, dropped, stale>>
  <2>1. Resubmit(t, e)
    BY <1>2, <1>3
  <2>2. QED BY <2>1, Zenon DEF Resubmit, Last
<1>7. /\ d \in Existing(e) /\ x = Last(chain[d])
      /\ UNCHANGED <<live, orphan, dropped, stale, again>>
  BY <1>6
<1>8. /\ d \in intr /\ d = pipe[e] /\ info[d] = e
  <2>1. d \in bulk \cup intr /\ info[d] = e
    BY <1>4, <1>7 DEF Existing
  <2>2. QED BY <1>4, <2>1 DEF Inv, EdInv
<1>9. /\ kind[d] = "ED" /\ chain[d] # <<>> /\ x \in Owed(e) /\ x \in Elems(chain[d])
      /\ chain[d] \in Seq(Unit) /\ Once(chain[d]) /\ kind[x] = "TD" /\ utrOf[x] = e
      /\ d \in Linked
  <2>1. kind[d] = "ED" /\ chain[d] # <<>> /\ x \in Owed(e)
    BY <1>4, <1>7, <1>8, DummyIsOwed
  <2>2. chain[d] \in Seq(Unit) /\ Once(chain[d])
    BY DEF Inv, TypeOK, PlaceInv
  <2>3. x \in Elems(chain[d])
    BY <1>7, <2>1, <2>2, ElemsOf
  <2>4. QED BY <1>8, <2>1, <2>2, <2>3 DEF Owed, Inv, TdInv, Linked
<1>10. /\ new \in Unit /\ kind[new] = "free" /\ chain[new] = <<>>
       /\ new \notin Linked /\ new \notin removing /\ new \notin Retired /\ new \notin Elems(main.tds)
       /\ \A c \in Unit : new \notin Elems(chain[c])
       /\ hc # NULL => new # hc
       /\ \A f \in Ep : pipe[f] = new => Quits /\ main.e = f /\ removing = {}
       /\ Sub => main.ed # new
  BY FreeIsNowhere
<1>11. t # new /\ t # d /\ t # x /\ new # d /\ new # x /\ d # x
  BY <1>5, <1>9, <1>10
<1>12. /\ kind'[t] = "free" /\ kind'[new] = "TD" /\ utrOf'[new] = e /\ utrOf'[t] = NULL
       /\ \A u \in Unit : u # t /\ u # new => kind'[u] = kind[u] /\ utrOf'[u] = utrOf[u]
       /\ info' = info /\ pipe' = pipe /\ intr' = intr
       /\ chain'[d] = Append(chain[d], new) /\ \A u \in Unit : u # d => chain'[u] = chain[u]
       /\ cnt'[e] = 1 /\ calls'[e] = 0
       /\ \A f \in Ep : f # e => cnt'[f] = cnt[f] /\ calls'[f] = calls[f]
  <2>1. /\ kind'[t] = "free" /\ kind'[new] = "TD"
        /\ \A u \in Unit : u # t /\ u # new => kind'[u] = kind[u]
    <3>1. kind \in [Unit -> {"free", "ED", "TD"}]
      BY DEF Inv, TypeOK
    <3>2. kind[d] = "ED" /\ kind[x] = "TD"
      BY <1>9
    <3>3. new \in Unit
      BY <1>10
    <3>4. QED BY <1>6, <1>11, <3>1, <3>2, <3>3
  <2>2. /\ utrOf'[new] = e /\ utrOf'[t] = NULL
        /\ \A u \in Unit : u # t /\ u # new => utrOf'[u] = utrOf[u]
    BY <1>6, <1>9, <1>10, <1>11 DEF Inv, TypeOK
  <2>3. info' = info /\ pipe' = pipe /\ intr' = intr
    BY <1>6, <1>8 DEF Inv, TypeOK
  <2>4. chain'[d] = Append(chain[d], new) /\ \A u \in Unit : u # d => chain'[u] = chain[u]
    BY <1>6, <1>9 DEF Inv, TypeOK
  <2>5. /\ cnt'[e] = 1 /\ calls'[e] = 0
        /\ \A f \in Ep : f # e => cnt'[f] = cnt[f] /\ calls'[f] = calls[f]
    BY <1>6 DEF Inv, TypeOK
  <2>6. QED BY <2>1, <2>2, <2>3, <2>4, <2>5
<1>13. /\ Append(chain[d], new) \in Seq(Unit) /\ Elems(chain'[d]) = Elems(chain[d]) \cup {new}
       /\ Once(chain'[d]) /\ chain'[d] # <<>>
  <2>1. /\ Append(chain[d], new) \in Seq(Unit) /\ Elems(chain'[d]) = Elems(chain[d]) \cup {new}
        /\ Once(chain'[d])
    BY <1>9, <1>10, <1>12, ElemsAppend
  <2>2. QED BY <2>1, <1>12, ElemsFew
<1>14. /\ isr' \in IsrRec /\ isr'.pc = "done" /\ Once(isr'.todo)
       /\ Elems(isr'.todo) = Elems(isr.todo) \ {t}
       /\ Retired' = Retired \ {t} /\ Due' = Due
       /\ done' = done /\ hcca' = hcca /\ sts' = sts /\ sfe' = sfe /\ hc' = hc
       /\ Linked' = Linked /\ main' = main /\ Sub' = Sub /\ Quits' = Quits
  <2>1. UNCHANGED <<done, hcca>>
    BY DEF hcVars
  <2>2. QED BY <1>2, <1>12, <2>1, AfterCallback DEF hcVars, Linked, Sub, Quits
<1>15. t \notin Due
  BY <1>2 DEF Due
<1>16. TypeOK'
  <2>1. kind' \in [Unit -> {"free", "ED", "TD"}] /\ utrOf' \in [Unit -> EpOrNull]
    BY <1>6 DEF Inv, TypeOK, EpOrNull
  <2>2. chain' \in [Unit -> Seq(Unit)]
    BY <1>6, <1>9, <1>13 DEF Inv, TypeOK
  <2>3. cnt' \in [Ep -> -1 .. MaxTd + 3] /\ calls' \in [Ep -> 0 .. 2]
    <3>1. 1 \in -1 .. MaxTd + 3 /\ 0 \in 0 .. 2
      BY OhciAssumption
    <3>2. QED BY <1>6, <3>1 DEF Inv, TypeOK
  <2>4. QED BY <1>7, <1>12, <1>14, <2>1, <2>2, <2>3 DEF Inv, TypeOK
<1>17. PlaceInv'
  <2>1. \A u \in Unit : Once(chain'[u])
    BY <1>12, <1>13 DEF Inv, PlaceInv
  <2>2. \A f \in Unit : \A u \in Elems(chain'[f]) :
           (u = new /\ f = d) \/ (u # new /\ u \in Elems(chain[f]))
    BY <1>10, <1>12, <1>13
  <2>3. \A f, g \in Unit : \A u \in Elems(chain'[f]) : u \in Elems(chain'[g]) => f = g
    BY <2>2 DEF Inv, PlaceInv
  <2>4. \A f \in Unit : \A u \in Elems(chain'[f]) : u \notin Retired /\ u \notin Elems(main.tds)
    BY <1>10, <2>2 DEF Inv, PlaceInv
  <2>5. QED BY <1>14, <2>1, <2>3, <2>4 DEF Inv, PlaceInv
<1>18. TdInv'
  <2>1. \A u \in Retired' : u \in Unit /\ u # t /\ u # new /\ u \in Retired
    BY <1>10, <1>14, TdsAreUnits
  <2>2. \A u \in Retired' : kind'[u] = "TD" /\ utrOf'[u] \in Ep
    BY <1>12, <2>1 DEF Inv, TdInv
  <2>3. \A u \in Elems(main.tds) : u \in Unit /\ u # t /\ u # new
    BY <1>5, <1>10, TdsAreUnits
  <2>4. \A u \in Elems(main.tds) : kind'[u] = "TD" /\ utrOf'[u] = main.e
    BY <1>12, <2>3 DEF Inv, TdInv
  <2>5. \A f \in Unit : \A u \in Elems(chain[f]) : /\ kind'[u] = kind[u] /\ utrOf'[u] = utrOf[u]
    <3>1. \A f \in Unit : \A u \in Elems(chain[f]) : u \in Unit /\ u # t /\ u # new
      BY <1>5, <1>10, TdsAreUnits
    <3>2. QED BY <1>12, <3>1
  <2>6. \A f \in Unit : \A u \in Elems(chain'[f]) :
           (u = new /\ f = d) \/ u \in Elems(chain[f])
    BY <1>12, <1>13
  <2>7. \A f \in Unit : \A u \in Elems(chain'[f]) :
           kind'[u] = "TD" /\ (utrOf'[u] = info[f] \/ (main.pc = "go" /\ main.new /\ main.ed = f))
    <3>1. \A f \in Unit : \A u \in Elems(chain[f]) :
           kind[u] = "TD" /\ (utrOf[u] = info[f] \/ (main.pc = "go" /\ main.new /\ main.ed = f))
      BY DEF Inv, TdInv
    <3>2. kind'[new] = "TD" /\ utrOf'[new] = info[d]
      BY <1>8, <1>12
    <3>3. QED BY <2>5, <2>6, <3>1, <3>2
  <2>8. QED BY <1>12, <1>14, <2>2, <2>4, <2>7 DEF TdInv
<1>19. \A u \in Unit : kind[u] = "ED" <=> kind'[u] = "ED"
  BY <1>5, <1>10, <1>12
<1>20. EdInv'
  <2>1. bulk' = bulk /\ ctrlHead' = ctrlHead /\ removing' = removing
    OBVIOUS
  <2>2. \A u \in Unit : chain'[u] # <<>> <=> chain[u] # <<>>
    BY <1>9, <1>12, <1>13
  <2>3. \A u \in Unit : chain'[u] # <<>> \/ u \in Linked' \cup removing' => kind'[u] = "ED"
    BY <1>14, <1>19, <2>1, <2>2 DEF Inv, EdInv
  <2>4. \A u \in intr : info[u] \in IntEp /\ pipe[info[u]] = u /\ chain'[u] # <<>>
    BY <2>2 DEF Inv, TypeOK, EdInv
  <2>5. \A u \in Unit : chain'[u] # <<>> =>
          \/ u \in Linked /\ pipe[info[u]] = u
          \/ main.pc = "go" /\ main.e \in IntEp /\ main.new /\ main.ed = u /\ Len(chain'[u]) = 1
    BY <1>8, <1>9, <1>12, <2>2 DEF Inv, EdInv
  <2>6. QED BY <1>12, <1>14, <2>1, <2>3, <2>4, <2>5 DEF Inv, EdInv
<1>21. PipeInv'
  <2>1. \A f \in Ep : pipe[f] # NULL => pipe[f] \in Unit
    BY DEF Inv, TypeOK, UnitOrNull
  <2>2. \A f \in Ep : pipe[f] # NULL /\ kind[pipe[f]] = "ED" => kind'[pipe[f]] = "ED"
    BY <1>19, <2>1
  <2>3. PipeInv /\ pipe' = pipe /\ info' = info /\ removing' = removing
    BY <1>12 DEF Inv
  <2>4. QED BY <1>14, <2>2, <2>3 DEF PipeInv
<1>22. FrameInv'
  <2>1. hc # NULL => hc \in Unit
    BY DEF Inv, TypeOK, UnitOrNull
  <2>2. QED BY <1>12, <1>14, <1>19, <2>1 DEF Inv, FrameInv
<1>23. QueueInv' /\ CallbackInv'
  BY <1>14 DEF Inv, QueueInv, CallbackInv
<1>24. CountInv'
  <2>1. ASSUME NEW f \in Ep, NEW u \in Unit
        PROVE  u \in Owed(f)' <=> u \in Owed(f) \/ (u = new /\ f = e)
    <3>1. CASE u = new
      <4>1. u \notin Owed(f)
        BY <1>10, <3>1 DEF Owed, Due
      <4>2. u \in Elems(chain'[d]) /\ utrOf'[u] = e
        BY <1>12, <1>13, <3>1
      <4>3. QED BY <3>1, <4>1, <4>2 DEF Owed
    <3>2. CASE u = t
      <4>1. u \notin Owed(f)
        BY <1>5, <1>15, <3>2 DEF Owed
      <4>2. utrOf'[u] # f
        BY <1>12, <3>2, OhciAssumption
      <4>3. QED BY <1>11, <3>2, <4>1, <4>2 DEF Owed
    <3>3. CASE u # new /\ u # t
      <4>1. (\E c \in Unit : u \in Elems(chain'[c])) <=> \E c \in Unit : u \in Elems(chain[c])
        BY <1>12, <1>13, <3>3
      <4>2. QED BY <1>12, <1>14, <3>3, <4>1 DEF Owed
    <3>4. QED BY <3>1, <3>2, <3>3
  <2>2. \A f \in Ep : Owed(f) \subseteq Unit /\ Owed(f)' \subseteq Unit
    BY DEF Owed
  <2>3. Owed(e)' = Owed(e) \cup {new} /\ \A f \in Ep : f # e => Owed(f)' = Owed(f)
    BY <1>10, <2>1, <2>2
  <2>4. Cardinality(Owed(e)') = 1 + 1
    <3>1. new \notin Owed(e) /\ Owed(e) \in SUBSET Unit
      BY <1>10, <2>2 DEF Owed, Due
    <3>2. QED BY <1>4, <1>10, <2>3, <3>1, CountUnits
  <2>5. \A f \in Ep : InHand(f)' = InHand(f) /\ Dummies(f)' = Dummies(f)
    BY <1>12, <1>14 DEF InHand, Dummies
  <2>6. cnt'[e] + Dummies(e)' = Cardinality(Owed(e)') + InHand(e)'
    BY <1>4, <1>12, <2>4, <2>5
  <2>7. \A f \in Ep : f # e => cnt'[f] + Dummies(f)' = Cardinality(Owed(f)') + InHand(f)'
    BY <1>12, <2>3, <2>5 DEF Inv, CountInv
  <2>8. \A f \in IntEp : cnt'[f] <= 1 /\ (cnt'[f] = 1 => pipe'[f] \in intr')
    BY <1>4, <1>12 DEF Inv, CountInv, Ep
  <2>9. QED BY <2>6, <2>7, <2>8 DEF CountInv
<1>25. RequestInv'
  <2>1. UNCHANGED <<live, isDone, dropped, late>>
    BY <1>7
  <2>2. \A f \in Ep : ~ (Sub /\ main.e = f) => (cnt'[f] >= 1 <=> live[f] /\ calls'[f] = 0)
    BY <1>4, <1>12 DEF Inv, RequestInv
  <2>3. \A f \in Ep : calls'[f] <= 1 /\ (f \notin IntEp /\ isDone[f] => calls'[f] = 1)
    BY <1>4, <1>12 DEF Inv, RequestInv
  <2>4. QED BY <1>12, <1>14, <2>1, <2>2, <2>3 DEF Inv, RequestInv
<1>26. MainInv'
  BY <1>14 DEF Inv, MainInv
<1>27. SubInv'
  <2>1. SUFFICES ASSUME Sub PROVE SubInv'
    BY <1>14 DEF SubInv
  <2>2. main.e \in Ep /\ main.e # e
    BY <1>4, <2>1, SubOwes
  <2>3. main.ed \in Unit => kind'[main.ed] = kind[main.ed]
    BY <1>5, <1>10, <1>12, <2>1
  <2>4. main.new => main.ed # d
    BY <1>9, <2>1 DEF Inv, SubInv
  <2>5. main.ed \in Unit /\ main.new => chain'[main.ed] = chain[main.ed]
    BY <1>12, <2>4
  <2>6. main.ed \in Unit /\ Len(chain[main.ed]) = 1 =>
           utrOf'[chain[main.ed][1]] = utrOf[chain[main.ed][1]]
    <3>1. SUFFICES ASSUME main.ed \in Unit, Len(chain[main.ed]) = 1
                   PROVE  utrOf'[chain[main.ed][1]] = utrOf[chain[main.ed][1]]
      OBVIOUS
    <3>2. chain[main.ed] \in Seq(Unit)
      BY <3>1 DEF Inv, TypeOK
    <3>3. chain[main.ed][1] \in Unit /\ chain[main.ed][1] \in Elems(chain[main.ed])
      BY <3>1, <3>2, OnlyElem
    <3>4. QED BY <1>5, <1>10, <1>12, <3>1, <3>3
  <2>7. /\ main' = main /\ pipe' = pipe /\ live' = live /\ Linked' = Linked /\ intr' = intr
        /\ cnt'[main.e] = cnt[main.e] /\ calls'[main.e] = calls[main.e] /\ info' = info
    BY <1>7, <1>12, <1>14, <2>2
  <2>8. main.pc = "dummy" => main.ed \in Unit /\ main.new
    BY <2>1 DEF Inv, SubInv
  <2>9. QED BY <2>1, <2>3, <2>5, <2>6, <2>7, <2>8 DEF Inv, SubInv
<1>28. KeepInv'
  <2>1. ASSUME NEW u \in Unit \ orphan, kind'[u] = "TD"
        PROVE  u \in Retired' \/ u \in Elems(main.tds) \/ \E c \in Unit : u \in Elems(chain'[c])
    <3>1. CASE u = new
      BY <1>13, <3>1
    <3>2. CASE u # new
      <4>1. u # t /\ kind[u] = "TD"
        BY <1>12, <2>1, <3>2
      <4>2. QED BY <1>12, <1>13, <1>14, <4>1 DEF Inv, KeepInv
    <3>3. QED BY <3>1, <3>2
  <2>2. ASSUME NEW u \in Unit \ orphan, kind'[u] = "ED"
        PROVE  u \in removing \/ u = main.ed \/ \E f \in Ep : pipe[f] = u
    BY <1>19, <2>2 DEF Inv, KeepInv
  <2>3. removing' = removing /\ main' = main /\ pipe' = pipe /\ orphan' = orphan
    BY <1>7, <1>12
  <2>4. QED BY <2>1, <2>2, <2>3 DEF KeepInv
<1>29. QED BY <1>16, <1>17, <1>18, <1>20, <1>21, <1>22, <1>23, <1>24, <1>25, <1>26, <1>27,
              <1>28 DEF Inv

\* hid_read_irq cannot submit the transfer again and frees the UTR; the TD it
\* got, if there was one unit left, is forgotten.
LEMMA ResubmitFailsInv ==
    ASSUME Inv, isr.pc = "callback", ResubmitFails(Last(isr.todo), utrOf[Last(isr.todo)]),
           isr' = [isr EXCEPT !.pc = "done", !.todo = SubSeq(@, 1, Len(@) - 1)],
           UNCHANGED <<skip, halt, bad, ctrlHead, bulk, removing, hcVars, main, isDone, status, late>>
    PROVE  Inv'
<1>1. isr.todo # <<>>
  BY CallbackOwes
<1>2. PICK t \in Unit : t = Last(isr.todo)
  BY <1>1, NextTd
<1>3. PICK e \in Ep : e = utrOf[t]
  BY <1>2, CallbackOwes
<1>4. /\ e \in IntEp /\ live[e] /\ calls[e] = 1 /\ ~ (Sub /\ main.e = e) /\ cnt[e] = 0
  BY <1>2, <1>3, CallbackOwes
<1>5. /\ t \in Elems(isr.todo) /\ t \in Retired /\ kind[t] = "TD"
      /\ t # hc /\ t \notin Linked \cup removing /\ t \notin skip
      /\ chain[t] = <<>> /\ t \notin Elems(main.tds) /\ (Sub => main.ed # t)
      /\ \A c \in Unit : t \notin Elems(chain[c])
  BY <1>1, <1>2, NextTd
<1>6. PICK lost \in SUBSET Free :
        /\ kind' = [u \in Unit |-> IF u = t THEN "free" ELSE IF u \in lost THEN "TD" ELSE kind[u]]
        /\ utrOf' = [u \in Unit |-> IF u = t THEN NULL ELSE IF u \in lost THEN e ELSE utrOf[u]]
        /\ orphan' = orphan \cup lost
        /\ live' = [live EXCEPT ![e] = FALSE]
        /\ dropped' = dropped \cup {e}
        /\ UNCHANGED <<info, chain, intr, pipe, cnt, calls, again, stale>>
  <2> DEFINE L == IF Cardinality(Free) = 1 THEN Free ELSE {}
  <2>1. ResubmitFails(t, e)
    BY <1>2, <1>3
  <2>2. /\ kind' = [u \in Unit |-> CASE u = t -> "free" [] u \in L -> "TD" [] OTHER -> kind[u]]
        /\ utrOf' = [u \in Unit |-> CASE u = t -> NULL [] u \in L -> e [] OTHER -> utrOf[u]]
        /\ orphan' = orphan \cup L
        /\ live' = [live EXCEPT ![e] = FALSE]
        /\ dropped' = dropped \cup {e}
        /\ UNCHANGED <<info, chain, intr, pipe, cnt, calls, again, stale>>
    BY <2>1 DEF ResubmitFails
  <2>3. L \in SUBSET Free
    OBVIOUS
  <2> HIDE DEF L
  <2>4. t \notin L
    BY <1>5, <2>3 DEF Free
  <2>5. /\ kind' = [u \in Unit |-> IF u = t THEN "free" ELSE IF u \in L THEN "TD" ELSE kind[u]]
        /\ utrOf' = [u \in Unit |-> IF u = t THEN NULL ELSE IF u \in L THEN e ELSE utrOf[u]]
    BY <2>2, <2>4
  <2>6. QED BY <2>2, <2>3, <2>5
<1>7. UNCHANGED <<info, chain, intr, pipe, cnt, calls, again, stale>>
  BY <1>6
<1>8. /\ lost \in SUBSET Unit /\ \A u \in lost :
        /\ kind[u] = "free" /\ chain[u] = <<>>
        /\ u \notin Linked /\ u \notin removing /\ u \notin Retired /\ u \notin Elems(main.tds)
        /\ \A c \in Unit : u \notin Elems(chain[c])
        /\ hc # NULL => u # hc
        /\ \A f \in Ep : pipe[f] = u => Quits /\ main.e = f /\ removing = {}
        /\ Sub => main.ed # u
  BY <1>6, FreeIsNowhere
<1>9. /\ kind'[t] = "free" /\ utrOf'[t] = NULL /\ t \notin lost
      /\ \A u \in lost : kind'[u] = "TD"
      /\ \A u \in Unit : u # t /\ u \notin lost => kind'[u] = kind[u] /\ utrOf'[u] = utrOf[u]
      /\ ~ live'[e] /\ \A f \in Ep : f # e => live'[f] = live[f]
  <2>1. t \notin lost
    BY <1>5, <1>8
  <2>2. /\ kind'[t] = "free" /\ utrOf'[t] = NULL
        /\ \A u \in lost : kind'[u] = "TD"
        /\ \A u \in Unit : u # t /\ u \notin lost => kind'[u] = kind[u] /\ utrOf'[u] = utrOf[u]
    BY <1>6, <1>8, <2>1
  <2>3. ~ live'[e] /\ \A f \in Ep : f # e => live'[f] = live[f]
    BY <1>6 DEF Inv, TypeOK
  <2>4. QED BY <2>1, <2>2, <2>3
<1>10. /\ isr' \in IsrRec /\ isr'.pc = "done" /\ Once(isr'.todo)
       /\ Elems(isr'.todo) = Elems(isr.todo) \ {t}
       /\ Retired' = Retired \ {t} /\ Due' = Due
       /\ done' = done /\ hcca' = hcca /\ sts' = sts /\ sfe' = sfe /\ hc' = hc
       /\ Linked' = Linked /\ main' = main /\ Sub' = Sub /\ Quits' = Quits
  <2>1. UNCHANGED <<done, hcca>>
    BY DEF hcVars
  <2>2. QED BY <1>2, <1>7, <2>1, AfterCallback DEF hcVars, Linked, Sub, Quits
<1>11. t \notin Due
  BY <1>2 DEF Due
<1>12. TypeOK'
  <2>1. kind' \in [Unit -> {"free", "ED", "TD"}] /\ utrOf' \in [Unit -> EpOrNull]
    BY <1>6 DEF Inv, TypeOK, EpOrNull
  <2>2. live' \in [Ep -> BOOLEAN] /\ dropped' \subseteq Ep /\ orphan' \subseteq Unit
    BY <1>6, <1>8 DEF Inv, TypeOK
  <2>3. QED BY <1>7, <1>10, <2>1, <2>2 DEF Inv, TypeOK
<1>13. PlaceInv'
  BY <1>7, <1>10 DEF Inv, PlaceInv
<1>14. TdInv'
  <2>1. \A u \in Retired' : u \in Unit /\ u # t /\ u \notin lost /\ u \in Retired
    BY <1>8, <1>10, TdsAreUnits
  <2>2. \A u \in Retired' : kind'[u] = "TD" /\ utrOf'[u] \in Ep
    BY <1>9, <2>1 DEF Inv, TdInv
  <2>3. \A u \in Elems(main.tds) : u \in Unit /\ u # t /\ u \notin lost
    BY <1>5, <1>8, TdsAreUnits
  <2>4. \A u \in Elems(main.tds) : kind'[u] = "TD" /\ utrOf'[u] = main.e
    BY <1>9, <2>3 DEF Inv, TdInv
  <2>5. \A f \in Unit : \A u \in Elems(chain[f]) : kind'[u] = kind[u] /\ utrOf'[u] = utrOf[u]
    <3>1. \A f \in Unit : \A u \in Elems(chain[f]) : u \in Unit /\ u # t /\ u \notin lost
      BY <1>5, <1>8, TdsAreUnits
    <3>2. QED BY <1>9, <3>1
  <2>6. \A f \in Unit : \A u \in Elems(chain[f]) :
           kind[u] = "TD" /\ (utrOf[u] = info[f] \/ (main.pc = "go" /\ main.new /\ main.ed = f))
    BY DEF Inv, TdInv
  <2>7. QED BY <1>7, <1>10, <2>2, <2>4, <2>5, <2>6 DEF TdInv
<1>15. \A u \in Unit : kind[u] = "ED" <=> kind'[u] = "ED"
  BY <1>5, <1>8, <1>9
<1>16. EdInv'
  <2>1. bulk' = bulk /\ ctrlHead' = ctrlHead /\ removing' = removing
    OBVIOUS
  <2>2. QED BY <1>7, <1>10, <1>15, <2>1 DEF Inv, EdInv
<1>17. PipeInv'
  BY <1>7, <1>10, <1>15 DEF Inv, PipeInv, TypeOK, UnitOrNull
<1>18. FrameInv'
  <2>1. hc # NULL => hc \in Unit
    BY DEF Inv, TypeOK, UnitOrNull
  <2>2. QED BY <1>7, <1>10, <1>15, <2>1 DEF Inv, FrameInv
<1>19. QueueInv' /\ CallbackInv'
  BY <1>10 DEF Inv, QueueInv, CallbackInv
<1>20. CountInv'
  <2>1. ASSUME NEW f \in Ep, NEW u \in Unit
        PROVE  u \in Owed(f)' <=> u \in Owed(f)
    <3>1. CASE u = t \/ u \in lost
      <4>1. u \notin Due /\ \A c \in Unit : u \notin Elems(chain[c])
        BY <1>5, <1>8, <1>11, <3>1 DEF Due
      <4>2. QED BY <1>7, <1>10, <4>1 DEF Owed
    <3>2. CASE u # t /\ u \notin lost
      BY <1>7, <1>9, <1>10, <3>2 DEF Owed
    <3>3. QED BY <3>1, <3>2
  <2>2. \A f \in Ep : Owed(f) \subseteq Unit /\ Owed(f)' \subseteq Unit
    BY DEF Owed
  <2>3. \A f \in Ep : Owed(f)' = Owed(f)
    BY <2>1, <2>2
  <2>4. \A f \in Ep : InHand(f)' = InHand(f) /\ Dummies(f)' = Dummies(f)
    BY <1>7, <1>10 DEF InHand, Dummies
  <2>5. QED BY <1>7, <2>3, <2>4 DEF Inv, CountInv
<1>21. RequestInv'
  <2>1. UNCHANGED <<isDone, late>> /\ dropped' = dropped \cup {e}
    BY <1>6
  <2>2. \A f \in Ep : ~ (Sub /\ main.e = f) => (cnt[f] >= 1 <=> live'[f] /\ calls[f] = 0)
    BY <1>4, <1>9 DEF Inv, RequestInv
  <2>3. \A f \in CtrlEp : live'[f] => main.e = f /\ main.pc # "idle"
    <3>1. CtrlEp \subseteq Ep
      BY DEF Ep
    <3>2. QED BY <1>9, <3>1 DEF Inv, RequestInv
  <2>4. \A f \in IntEp : pipe[f] # NULL /\ (live'[f] => Sub /\ main.e = f) => f \in dropped'
    <3>1. IntEp \subseteq Ep
      BY DEF Ep
    <3>2. QED BY <1>9, <2>1, <3>1 DEF Inv, RequestInv
  <2>5. late' \subseteq dropped'
    BY <2>1 DEF Inv, RequestInv
  <2>6. QED BY <1>7, <1>10, <2>1, <2>2, <2>3, <2>4, <2>5 DEF Inv, RequestInv
<1>22. MainInv'
  BY <1>10 DEF Inv, MainInv
<1>23. SubInv'
  <2>1. SUFFICES ASSUME Sub PROVE SubInv'
    BY <1>10 DEF SubInv
  <2>2. main.e \in Ep /\ main.e # e
    BY <1>4, <2>1, SubOwes
  <2>3. main.ed \in Unit => kind'[main.ed] = kind[main.ed]
    BY <1>5, <1>8, <1>9, <2>1
  <2>4. main.ed \in Unit /\ Len(chain[main.ed]) = 1 =>
           utrOf'[chain[main.ed][1]] = utrOf[chain[main.ed][1]]
    <3>1. SUFFICES ASSUME main.ed \in Unit, Len(chain[main.ed]) = 1
                   PROVE  utrOf'[chain[main.ed][1]] = utrOf[chain[main.ed][1]]
      OBVIOUS
    <3>2. chain[main.ed] \in Seq(Unit)
      BY <3>1 DEF Inv, TypeOK
    <3>3. chain[main.ed][1] \in Unit /\ chain[main.ed][1] \in Elems(chain[main.ed])
      BY <3>1, <3>2, OnlyElem
    <3>4. QED BY <1>5, <1>8, <1>9, <3>1, <3>3
  <2>5. live'[main.e] = live[main.e]
    BY <1>9, <2>2
  <2>6. QED BY <1>7, <1>10, <2>1, <2>3, <2>4, <2>5 DEF Inv, SubInv
<1>24. KeepInv'
  <2>1. ASSUME NEW u \in Unit, u \notin orphan', kind'[u] = "TD"
        PROVE  u \in Retired' \/ u \in Elems(main.tds) \/ \E c \in Unit : u \in Elems(chain[c])
    <3>1. u \notin orphan /\ u \notin lost
      BY <1>6, <2>1
    <3>2. u # t /\ kind[u] = "TD"
      BY <1>9, <2>1, <3>1
    <3>3. QED BY <1>10, <3>1, <3>2 DEF Inv, KeepInv
  <2>2. ASSUME NEW u \in Unit, u \notin orphan', kind'[u] = "ED"
        PROVE  u \in removing \/ u = main.ed \/ \E f \in Ep : pipe[f] = u
    <3>1. u \notin orphan
      BY <1>6, <2>2
    <3>2. QED BY <1>15, <2>2, <3>1 DEF Inv, KeepInv
  <2>3. removing' = removing /\ main' = main /\ pipe' = pipe /\ chain' = chain
    BY <1>7
  <2>4. QED BY <2>1, <2>2, <2>3 DEF KeepInv
<1>25. QED BY <1>12, <1>13, <1>14, <1>16, <1>17, <1>18, <1>19, <1>20, <1>21, <1>22, <1>23,
              <1>24 DEF Inv

\* The callback of an interrupt transfer.
LEMMA IsrCallbackInv ==
    ASSUME Inv, IsrCallback, again' = {}
    PROVE  Inv'
<1>1. /\ isr.pc = "callback"
      /\ \/ Resubmit(Last(isr.todo), utrOf[Last(isr.todo)])
         \/ ResubmitFails(Last(isr.todo), utrOf[Last(isr.todo)])
      /\ isr' = [isr EXCEPT !.pc = "done", !.todo = SubSeq(@, 1, Len(@) - 1)]
      /\ UNCHANGED <<skip, halt, bad, ctrlHead, bulk, removing, hcVars, main, isDone, status, late>>
  BY Zenon DEF IsrCallback, Last
<1>2. CASE Resubmit(Last(isr.todo), utrOf[Last(isr.todo)])
  BY <1>1, <1>2, ResubmitInv
<1>3. CASE ResubmitFails(Last(isr.todo), utrOf[Last(isr.todo)])
  BY <1>1, <1>3, ResubmitFailsInv
<1>4. QED BY <1>1, <1>2, <1>3

(***************************************************************************)
(* The invariant holds.                                                    *)
(***************************************************************************)

\* Init of the invariant: nothing is allocated, nothing is under way.
LEMMA InitInv ==
    ASSUME Init
    PROVE  Inv
<1>1. /\ kind = [u \in Unit |-> "free"] /\ info = [u \in Unit |-> NULL]
      /\ chain = [u \in Unit |-> <<>>] /\ skip = {} /\ halt = {}
      /\ utrOf = [u \in Unit |-> NULL] /\ bad = {}
      /\ ctrlHead = NULL /\ bulk = {} /\ intr = {} /\ removing = {}
      /\ pipe = [e \in Ep |-> NULL]
      /\ done = <<>> /\ hcca = <<>> /\ sts = {} /\ sfe = FALSE /\ hc = NULL
      /\ live = [e \in Ep |-> FALSE] /\ isDone = [e \in Ep |-> FALSE]
      /\ status = [e \in Ep |-> "ok"] /\ cnt = [e \in Ep |-> 0]
      /\ calls = [e \in Ep |-> 0] /\ late = {}
      /\ orphan = {} /\ dropped = {} /\ again = {} /\ stale = FALSE
  BY DEF Init
<1>2. main = MainIdle /\ isr = IsrOff
  BY DEF Init
<1>3. <<>> \in Seq(Unit) /\ Elems(<<>>) = {} /\ Once(<<>>) /\ Cardinality({}) = 0 /\ Len(<<>>) = 0
  BY ElemsFew, FS_EmptySet
<1>4. /\ main \in MainRec /\ main.pc = "idle" /\ main.ed = NULL /\ main.tds = <<>>
  <2>1. main = [pc |-> "idle", e |-> NULL, ed |-> NULL, new |-> FALSE, n |-> 0, tds |-> <<>>]
    BY <1>2 DEF MainIdle
  <2>2. "idle" \in MainPc /\ NULL \in EpOrNull /\ NULL \in UnitOrNull /\ FALSE \in BOOLEAN /\ 0 \in Nat
    BY DEF MainPc, EpOrNull, UnitOrNull
  <2>3. main \in MainRec
    BY <1>3, <2>1, <2>2, MainRecOf
  <2>4. QED BY <2>1, <2>3
<1>5. isr \in IsrRec /\ isr.pc = "off" /\ isr.todo = <<>>
  BY <1>2, <1>3 DEF IsrOff, IsrRec, IsrPc
<1>6. ~ Sub /\ ~ Quits /\ Linked = {} /\ Retired = {} /\ Due = {}
  BY <1>1, <1>3, <1>4, <1>5 DEF Sub, Quits, Linked, Retired, Due
<1>7. TypeOK
  <2>1. 0 \in -1 .. MaxTd + 3 /\ 0 \in 0 .. 2
    BY OhciAssumption
  <2>2. /\ cnt \in [Ep -> -1 .. MaxTd + 3] /\ calls \in [Ep -> 0 .. 2]
    BY <1>1, <2>1
  <2>3. /\ live \in [Ep -> BOOLEAN] /\ isDone \in [Ep -> BOOLEAN]
        /\ status \in [Ep -> {"ok", "err", "abort"}] /\ pipe \in [Ep -> UnitOrNull]
    BY <1>1 DEF UnitOrNull
  <2>4. /\ kind \in [Unit -> {"free", "ED", "TD"}] /\ info \in [Unit -> EpOrNull]
        /\ chain \in [Unit -> Seq(Unit)] /\ utrOf \in [Unit -> EpOrNull]
    BY <1>1, <1>3 DEF EpOrNull
  <2>5. QED BY <1>1, <1>3, <1>4, <1>5, <2>2, <2>3, <2>4 DEF TypeOK, UnitOrNull
<1>8. \A d \in Unit : chain[d] = <<>> /\ kind[d] = "free"
  BY <1>1
<1>9. \A e \in Ep : /\ pipe[e] = NULL /\ cnt[e] = 0 /\ calls[e] = 0 /\ ~ live[e] /\ ~ isDone[e]
  BY <1>1
<1>10. PlaceInv /\ TdInv /\ EdInv
  <2>1. PlaceInv
    BY <1>1, <1>3, <1>4, <1>5, <1>6, <1>8 DEF PlaceInv
  <2>2. TdInv
    BY <1>3, <1>4, <1>6, <1>8 DEF TdInv
  <2>3. EdInv
    BY <1>1, <1>6, <1>8 DEF EdInv
  <2>4. QED BY <2>1, <2>2, <2>3
<1>11. PipeInv /\ FrameInv /\ QueueInv
  BY <1>1, <1>3, <1>4, <1>5, <1>6, <1>9 DEF PipeInv, FrameInv, QueueInv
<1>12. CountInv
  <2>1. \A e \in Ep : Owed(e) = {}
    BY <1>3, <1>6, <1>8 DEF Owed
  <2>2. \A e \in Ep : Dummies(e) = 0 /\ InHand(e) = 0
    BY <1>6, <1>9 DEF Dummies, InHand
  <2>3. \A e \in Ep : cnt[e] + Dummies(e) = Cardinality(Owed(e)) + InHand(e)
    BY <1>3, <1>9, <2>1, <2>2
  <2>4. QED BY <1>9, <2>3 DEF CountInv, Ep
<1>13. RequestInv
  <2>1. CtrlEp \subseteq Ep /\ IntEp \subseteq Ep
    BY DEF Ep
  <2>2. QED BY <1>1, <1>9, <2>1 DEF RequestInv
<1>14. MainInv /\ SubInv /\ CallbackInv /\ KeepInv
  BY <1>3, <1>4, <1>5, <1>6, <1>8 DEF MainInv, SubInv, CallbackInv, KeepInv
<1>15. QED BY <1>7, <1>10, <1>11, <1>12, <1>13, <1>14 DEF Inv

\* A state that is not Sane is not left for one that is: the histories only
\* grow.
LEMMA SaneBefore ==
    ASSUME [Next]_vars, Sane'
    PROVE  Sane
<1>1. CASE UNCHANGED lostVars
  BY <1>1 DEF Sane, lostVars
<1>2. CASE XferNoMem
  BY <1>2 DEF Sane, XferNoMem
<1>3. CASE IsrCallback
  <2>1. again' = again \/ again' = again \cup {utrOf[isr.todo[Len(isr.todo)]]}
    BY <1>3 DEF IsrCallback, Resubmit, ResubmitFails
  <2>2. stale' = stale
    BY <1>3 DEF IsrCallback, Resubmit, ResubmitFails
  <2>3. QED BY <2>1, <2>2 DEF Sane
<1>4. CASE UNCHANGED vars
  BY <1>4 DEF Sane, vars, lostVars
<1>5. CASE XferStart \/ XferTd \/ XferEd \/ XferDummy \/ CtrlGo \/ BulkGo \/ IntGo
  <2>1. UNCHANGED lostVars
    BY <1>5 DEF XferStart, XferTd, XferEd, XferDummy, CtrlGo, BulkGo, IntGo
  <2>2. QED BY <1>1, <2>1
<1>6. CASE CtrlDone \/ BulkDone \/ QuitSkip \/ QuitClear \/ QuitEnable \/ QuitDelay
  <2>1. UNCHANGED lostVars
    BY <1>6 DEF CtrlDone, BulkDone, QuitSkip, QuitClear, QuitEnable, QuitDelay
  <2>2. QED BY <1>1, <2>1
<1>7. CASE IsrEnter \/ remove_ed \/ IsrRemoved \/ IsrTake \/ IsrTd \/ IsrEnd
  <2>1. UNCHANGED lostVars
    BY <1>7 DEF IsrEnter, remove_ed, IsrRemoved, IsrTake, IsrTd, IsrEnd
  <2>2. QED BY <1>1, <2>1
<1>8. CASE HcFetch \/ HcDrop \/ HcRetire \/ HcSof
  <2>1. UNCHANGED lostVars
    BY <1>8 DEF HcFetch, HcDrop, HcRetire, HcSof
  <2>2. QED BY <1>1, <2>1
<1>9. QED BY <1>2, <1>3, <1>4, <1>5, <1>6, <1>7, <1>8 DEF Next, MainNext, IsrNext, HcNext

\* A step that changes nothing keeps the invariant.
LEMMA StutterInv ==
    ASSUME Inv, UNCHANGED vars
    PROVE  Inv'
<1>1. /\ kind' = kind /\ info' = info /\ chain' = chain /\ skip' = skip /\ halt' = halt
      /\ utrOf' = utrOf /\ bad' = bad /\ ctrlHead' = ctrlHead /\ bulk' = bulk /\ intr' = intr
      /\ removing' = removing /\ pipe' = pipe /\ done' = done /\ hcca' = hcca /\ sts' = sts
      /\ sfe' = sfe /\ hc' = hc /\ main' = main /\ isr' = isr /\ live' = live
      /\ isDone' = isDone /\ status' = status /\ cnt' = cnt /\ calls' = calls /\ late' = late
      /\ orphan' = orphan /\ dropped' = dropped /\ again' = again /\ stale' = stale
  BY DEF vars, edVars, linkVars, hcVars, utrVars, lostVars
<1>2. /\ Linked' = Linked /\ Retired' = Retired /\ Due' = Due /\ Sub' = Sub /\ Quits' = Quits
  BY <1>1 DEF Linked, Retired, Due, Sub, Quits
<1>3. \A e \in Ep : Owed(e)' = Owed(e) /\ Dummies(e)' = Dummies(e) /\ InHand(e)' = InHand(e)
  BY <1>1, <1>2 DEF Owed, Dummies, InHand
<1>4. TypeOK' /\ PlaceInv' /\ TdInv' /\ EdInv' /\ PipeInv'
  BY <1>1, <1>2 DEF Inv, TypeOK, PlaceInv, TdInv, EdInv, PipeInv
<1>5. FrameInv' /\ QueueInv' /\ CountInv' /\ RequestInv'
  BY <1>1, <1>2, <1>3 DEF Inv, FrameInv, QueueInv, CountInv, RequestInv
<1>6. MainInv' /\ SubInv' /\ CallbackInv' /\ KeepInv'
  BY <1>1, <1>2 DEF Inv, MainInv, SubInv, CallbackInv, KeepInv
<1>7. QED BY <1>4, <1>5, <1>6 DEF Inv

\* Every step that stays Sane keeps the invariant.
LEMMA NextInv ==
    ASSUME Inv, [Next]_vars, Sane'
    PROVE  Inv'
<1>1. again' = {} /\ ~ stale'
  BY DEF Sane
<1>2. CASE XferStart \/ XferTd \/ XferEd \/ XferDummy \/ XferNoMem
  BY <1>1, <1>2, XferStartInv, XferTdInv, XferEdInv, XferDummyInv, XferNoMemInv
<1>3. CASE CtrlGo \/ BulkGo \/ IntGo \/ CtrlDone \/ BulkDone
  BY <1>3, ListGoInv, IntGoInv, DoneInv
<1>4. CASE QuitSkip \/ QuitClear \/ QuitEnable \/ QuitDelay
  BY <1>4, QuitSkipInv, QuitMarksInv, QuitDelayInv
<1>5. CASE IsrEnter \/ remove_ed \/ IsrRemoved \/ IsrTake \/ IsrTd \/ IsrCallback \/ IsrEnd
  BY <1>1, <1>5, IsrQuietInv, RemoveEdInv, HandOverInv, IsrTdInv, IsrCallbackInv
<1>6. CASE HcFetch \/ HcDrop \/ HcRetire \/ HcSof
  BY <1>6, HoldInv, HcRetireInv, HandOverInv
<1>7. CASE UNCHANGED vars
  BY <1>7, StutterInv
<1>8. QED BY <1>2, <1>3, <1>4, <1>5, <1>6, <1>7 DEF Next, MainNext, IsrNext, HcNext

\* The inductive invariant holds as long as no bulk submission is refused with
\* its ED freed under hw_pipe and no callback submits while its ED is removed.
THEOREM InvHolds == Spec => []IInv
<1>1. Init => IInv
  BY InitInv DEF IInv
<1>2. IInv /\ [Next]_vars => IInv'
  BY SaneBefore, NextInv DEF IInv
<1>3. QED BY <1>1, <1>2, PTL DEF Spec

\* Each place is an ED, the hands of the main loop, one of the done queues or
\* the handler's list, and the elements of the last three are the retired TDs.
LEMMA PlaceCases ==
    ASSUME NEW p \in Place
    PROVE  \/ \E d \in Unit : p = <<"ed", d>> /\ Tds(p) = chain[d]
           \/ p = <<"main", NULL>> /\ Tds(p) = main.tds
           \/ p = <<"done", NULL>> /\ Tds(p) = done
           \/ p = <<"hcca", NULL>> /\ Tds(p) = hcca
           \/ p = <<"isr", NULL>> /\ Tds(p) = isr.todo
<1>1. CASE p \in {"ed"} \X Unit
  <2>1. PICK d \in Unit : p = <<"ed", d>>
    BY <1>1
  <2>2. Tds(p) = chain[d]
    BY <2>1 DEF Tds
  <2>3. QED BY <2>1, <2>2
<1>2. CASE p \in {"main", "done", "hcca", "isr"} \X {NULL}
  <2>1. p \in {<<"main", NULL>>, <<"done", NULL>>, <<"hcca", NULL>>, <<"isr", NULL>>}
    BY <1>2
  <2>2. QED BY <2>1 DEF Tds
<1>3. QED BY <1>1, <1>2 DEF Place

\* A TD is in one place, and an allocated one.
LEMMA OnePlace ==
    ASSUME Inv, NEW p \in Place
    PROVE  /\ Tds(p) \in Seq(Unit) /\ Once(Tds(p))
           /\ \A t \in Elems(Tds(p)) : kind[t] = "TD"
           /\ \A q \in Place : \A t \in Elems(Tds(p)) : t \in Elems(Tds(q)) => p = q
<1>1. Tds(p) \in Seq(Unit) /\ Once(Tds(p))
  <2>1. /\ main.tds \in Seq(Unit) /\ done \in Seq(Unit) /\ hcca \in Seq(Unit)
        /\ isr.todo \in Seq(Unit) /\ \A d \in Unit : chain[d] \in Seq(Unit)
    BY DEF Inv, TypeOK, MainRec, IsrRec
  <2>2. /\ Once(main.tds) /\ Once(done) /\ Once(hcca) /\ Once(isr.todo)
        /\ \A d \in Unit : Once(chain[d])
    BY DEF Inv, PlaceInv
  <2>3. QED BY <2>1, <2>2, PlaceCases
<1>2. \A t \in Elems(Tds(p)) : kind[t] = "TD"
  BY PlaceCases DEF Inv, TdInv, Retired
<1>3. ASSUME NEW q \in Place, NEW t \in Elems(Tds(p)), t \in Elems(Tds(q))
      PROVE  p = q
  <2>1. CASE \E d \in Unit : p = <<"ed", d>> /\ Tds(p) = chain[d]
    BY <1>3, <2>1, PlaceCases DEF Inv, PlaceInv, Retired
  <2>2. CASE p = <<"main", NULL>> /\ Tds(p) = main.tds
    BY <1>3, <2>2, PlaceCases DEF Inv, PlaceInv, Retired
  <2>3. CASE p = <<"done", NULL>> /\ Tds(p) = done
    BY <1>3, <2>3, PlaceCases DEF Inv, PlaceInv, Retired
  <2>4. CASE p = <<"hcca", NULL>> /\ Tds(p) = hcca
    BY <1>3, <2>4, PlaceCases DEF Inv, PlaceInv, Retired
  <2>5. CASE p = <<"isr", NULL>> /\ Tds(p) = isr.todo
    BY <1>3, <2>5, PlaceCases DEF Inv, PlaceInv, Retired
  <2>6. QED BY <2>1, <2>2, <2>3, <2>4, <2>5, PlaceCases
<1>4. QED BY <1>1, <1>2, <1>3

\* What the invariant says of the places of the descriptors.
LEMMA InvPlaces ==
    ASSUME Inv
    PROVE  UnitsInPlace
<1>1. \A d \in Linked \cup removing : kind[d] = "ED"
  BY DEF Inv, EdInv, TypeOK, Linked, UnitOrNull
<1>2. ASSUME NEW p \in Place, NEW i \in DOMAIN Tds(p)
      PROVE  kind[Tds(p)[i]] = "TD" /\ Tds(p)[i] \in Elems(Tds(p))
  <2>1. Tds(p)[i] \in Elems(Tds(p))
    BY DEF Elems
  <2>2. QED BY <2>1, OnePlace
<1>3. ASSUME NEW p \in Place, NEW q \in Place, NEW i \in DOMAIN Tds(p), NEW j \in DOMAIN Tds(q),
             Tds(p)[i] = Tds(q)[j]
      PROVE  p = q /\ i = j
  <2>1. Tds(p)[i] \in Elems(Tds(p)) /\ Tds(p)[i] \in Elems(Tds(q))
    BY <1>2, <1>3
  <2>2. p = q
    BY <2>1, OnePlace
  <2>3. Once(Tds(p)) /\ j \in DOMAIN Tds(p) /\ Tds(p)[i] = Tds(p)[j]
    BY <1>3, <2>2, OnePlace
  <2>4. QED BY <2>2, <2>3 DEF Once
<1>4. QED BY <1>1, <1>2, <1>3 DEF UnitsInPlace

\* What the invariant says of units that are lost.
LEMMA InvKeeps ==
    ASSUME Inv
    PROVE  NoLeak
<1>1. ASSUME NEW u \in Unit \ orphan, kind[u] = "TD"
      PROVE  \E p \in Place : u \in Elems(Tds(p))
  <2>1. /\ \A d \in Unit : <<"ed", d>> \in Place /\ Tds(<<"ed", d>>) = chain[d]
        /\ <<"main", NULL>> \in Place /\ Tds(<<"main", NULL>>) = main.tds
        /\ <<"done", NULL>> \in Place /\ Tds(<<"done", NULL>>) = done
        /\ <<"hcca", NULL>> \in Place /\ Tds(<<"hcca", NULL>>) = hcca
        /\ <<"isr", NULL>> \in Place /\ Tds(<<"isr", NULL>>) = isr.todo
    BY DEF Place, Tds
  <2>2. \/ u \in Elems(done) \/ u \in Elems(hcca) \/ u \in Elems(isr.todo)
        \/ u \in Elems(main.tds) \/ \E d \in Unit : u \in Elems(chain[d])
    BY <1>1 DEF Inv, KeepInv, Retired
  <2>3. QED BY <2>1, <2>2
<1>2. QED BY <1>1 DEF Inv, KeepInv, NoLeak

(***************************************************************************)
(* The properties that the run checks.                                     *)
(***************************************************************************)

\* The descriptors, the lists and the local variables of main loop and
\* handler keep their ranges; td_cnt, that td_done and remove_ed count down
\* and the dummy of an interrupt ED once more, is never below -1.
THEOREM TypeCorrect == Spec => [](Sane => TypeOK)
<1>1. IInv => (Sane => TypeOK)
  BY DEF IInv, Inv
<1>2. QED BY <1>1, InvHolds, PTL

\* ohci.c frees no descriptor that it, the handler or the controller can still
\* come to, and no TD twice: it is in one place, and once, whatever completes
\* while remove_ed takes an ED away.
THEOREM UnitsStayInPlace == Spec => [](Sane => UnitsInPlace)
<1>1. IInv => (Sane => UnitsInPlace)
  BY InvPlaces DEF IInv
<1>2. QED BY <1>1, InvHolds, PTL

\* The controller never holds an ED that remove_ed has freed: the start of
\* frame that add_to_ED_remove_list waits for came after ED_SKIP.
THEOREM HeldStaysAllocated == Spec => [](Sane => HeldIsAllocated)
<1>1. IInv => (Sane => HeldIsAllocated)
  BY DEF IInv, Inv, FrameInv, HeldIsAllocated
<1>2. QED BY <1>1, InvHolds, PTL

\* ep->hw_pipe is NULL or an ED, but for the end of ohci_quit_xfer.
THEOREM PipesStayAlive == Spec => [](Sane => PipesAlive)
<1>1. IInv => (Sane => PipesAlive)
  BY DEF IInv, Inv, PipeInv, PipesAlive, Quits
<1>2. QED BY <1>1, InvHolds, PTL

\* No ED and no TD is lost other than by the submissions that run out of
\* memory and forget one.
THEOREM NothingElseLeaks == Spec => [](Sane => NoLeak)
<1>1. IInv => (Sane => NoLeak)
  BY InvKeeps DEF IInv
<1>2. QED BY <1>1, InvHolds, PTL
=============================================================================
