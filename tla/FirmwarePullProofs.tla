-------------------------- MODULE FirmwarePullProofs --------------------------
(***************************************************************************)
(* For every set of images and versions, every slot and page size, every   *)
(* length of the link and any number of faults: a slot that is not dirty   *)
(* can be booted, only a whole image is rebooted into, a pull never takes  *)
(* a board back, and no pull ends in the ROM bootloader.                   *)
(***************************************************************************)
EXTENDS FirmwarePull, SequenceTheorems, TLAPS

(* What one board keeps, from boot to boot and from pull to pull: whatever *)
(* is asked for lies in the slot, pages begin at page boundaries, a pull   *)
(* is for an image that is not older, a slot that neither a pull nor a     *)
(* file has touched holds the image that runs, and a board that waits for  *)
(* its reboot has a whole image.                                           *)
BoardOK(u, r, f, s, t, rb) ==
  /\ s.source = "PULL" => s.pin \in Image /\ Version[s.pin] >= Version[r]
  /\ s.asked => s.addr < Size
  /\ t.mode = "PAGES" => s.addr % Words = 0
  /\ u /\ ~s.dirty => \E i \in Image : Valid(f, i)
  /\ u /\ ~s.dirty /\ s.source # "DROP" => Valid(f, r)
  /\ ~AnyReboot /\ u /\ rb => ~s.dirty /\ s.source # "PULL"

BoardInv(b) == BoardOK(up[b], run[b], flash[b], fw[b], batch[b], reboot[b])

FirmwareIInv == FirmwareTypeOK /\ \A b \in Board : BoardInv(b)

-----------------------------------------------------------------------------
(* Arithmetic of pages *)

(* Division with remainder ... *)
LEMMA DivMod ==
  ASSUME NEW a \in Nat, NEW w \in Nat \ {0}
  PROVE  a % w \in 0 .. w - 1 /\ a \div w \in Nat /\ a = (a \div w) * w + (a % w)
OBVIOUS

(* ... is unique. *)
LEMMA DivModUnique ==
  ASSUME NEW w \in Nat \ {0}, NEW q \in Int, NEW r \in 0 .. w - 1
  PROVE  (q * w + r) % w = r /\ (q * w + r) \div w = q
OBVIOUS

(* The next word of a page, or the first of the next one. *)
LEMMA NextMod ==
  ASSUME NEW a \in Nat, NEW w \in Nat \ {0}
  PROVE  (a + 1) % w = IF a % w = w - 1 THEN 0 ELSE (a % w) + 1
<1> DEFINE q == a \div w
           r == a % w
           r2 == r + 1
<1>1. q \in Nat /\ r \in 0 .. w - 1 /\ a = q * w + r  BY DivMod
<1> HIDE DEF q, r
<1>2. CASE r = w - 1
  <2>1. a + 1 = (q + 1) * w + 0  BY <1>1, <1>2
  <2>2. ((q + 1) * w + 0) % w = 0  BY <1>1, DivModUnique
  <2> QED BY <1>2, <2>1, <2>2 DEF r
<1>3. CASE r # w - 1
  <2>1. a + 1 = q * w + r2 /\ r2 \in 0 .. w - 1  BY <1>1, <1>3
  <2> HIDE DEF r2
  <2>2. (q * w + r2) % w = r2  BY <1>1, <2>1, DivModUnique
  <2> QED BY <1>3, <2>1, <2>2 DEF r, r2
<1> QED BY <1>2, <1>3

(* Pages lie one behind the other. *)
LEMMA PagesInOrder ==
  ASSUME NEW p \in Nat, NEW q \in Nat, p < q, NEW w \in Nat
  PROVE  p * w + w <= q * w /\ p * w \in Nat /\ q * w \in Nat
OBVIOUS

(* A page that begins inside the slot ends inside it. *)
LEMMA PageFits ==
  ASSUME NEW p \in Nat, NEW w \in Nat \ {0}, NEW a \in Nat, a < p * w, a % w = 0
  PROVE  a + w <= p * w /\ (a + w) % w = 0
<1> DEFINE q == a \div w
<1>1. q \in Nat /\ a = q * w  BY DivMod
<1> HIDE DEF q
<1>2. q < p  BY <1>1
<1>3. a + w <= p * w  BY <1>1, <1>2, PagesInOrder
<1>4. a + w = (q + 1) * w + 0  BY <1>1
<1>5. ((q + 1) * w + 0) % w = 0  BY <1>1, DivModUnique
<1> QED BY <1>3, <1>4, <1>5

(* The sizes of the slot, of a page and of the code. *)
LEMMA Sizes ==
  /\ Size \in Nat /\ Words \in Nat \ {0} /\ Pages \in Nat \ {0, 1}
  /\ Meta \in Nat /\ Meta > 0 /\ Meta + Words = Size
  /\ Meta \in Address /\ 0 .. Meta \subseteq Address /\ Size % Words = 0 /\ 0 % Words = 0
<1>1. Words \in Nat \ {0} /\ Pages \in Nat \ {0, 1} /\ Pages - 1 \in Nat \ {0}
  BY SizeAssumption
<1>2. Size \in Nat /\ Meta \in Nat /\ Meta + Words = Size
  BY <1>1 DEF Size, Meta
<1>3. Meta > 0  BY <1>1 DEF Meta
<1>4. Size = Pages * Words + 0  BY <1>1 DEF Size
<1>5. (Pages * Words + 0) % Words = 0  BY <1>1, DivModUnique
<1>6. 0 % Words = 0  BY <1>1
<1>7. Meta \in Address /\ 0 .. Meta \subseteq Address
  BY <1>1, <1>2, <1>3 DEF Address
<1> QED BY <1>1, <1>2, <1>3, <1>4, <1>5, <1>6, <1>7

(* The page of an address, and the addresses of a page. *)
LEMMA PageOfAddress ==
  ASSUME NEW a \in Nat, a < Size
  PROVE  a \div Words \in Page /\ a \in Address
<1>1. a \div Words \in Nat /\ a = (a \div Words) * Words + (a % Words) /\ a % Words \in Nat
  BY Sizes, DivMod
<1>2. a \div Words < Pages
  <2> DEFINE q == a \div Words
  <2>1. q \in Nat /\ q * Words <= a  BY <1>1, Sizes
  <2> HIDE DEF q
  <2>2. q * Words < Pages * Words  BY <2>1, Sizes DEF Size
  <2> QED BY <2>1, <2>2, Sizes DEF q
<1> QED BY <1>1, <1>2, Sizes DEF Page, Address

(* A word of a page lies in the slot. *)
LEMMA WordOfPage ==
  ASSUME NEW p \in Page, NEW w \in 0 .. Words - 1
  PROVE  p * Words + w \in Address
<1>1. p \in Nat /\ p < Pages /\ w \in Nat /\ w < Words /\ Pages \in Nat /\ Words \in Nat
  BY Sizes DEF Page
<1>2. p * Words + Words <= Pages * Words /\ p * Words \in Nat
  BY <1>1, PagesInOrder
<1> QED BY <1>1, <1>2, Sizes DEF Address, Size

-----------------------------------------------------------------------------
(* Records *)

(* The two boards. *)
LEMMA PeerFacts ==
  ASSUME NEW b \in Board
  PROVE  Peer(b) \in Board /\ Peer(b) # b /\ \A c \in Board : c = b \/ c = Peer(b)
BY DEF Board, Peer

(* An image is a cell, and so is an erased word. *)
LEMMA Cells == Image \subseteq Cell /\ None \in Cell
BY DEF Cell

(* The fields of an update ... *)
LEMMA FwFields ==
  ASSUME NEW s \in Fw
  PROVE  /\ s.source \in {"NONE", "PULL", "PAUSED", "DROP"} /\ s.done \in BOOLEAN
         /\ s.asked \in BOOLEAN /\ s.held \in BOOLEAN /\ s.dirty \in BOOLEAN
         /\ s.pin \in Cell /\ s.addr \in 0 .. Size /\ s.addr \in Nat /\ s.addr <= Size
         /\ s.seen \subseteq Cell
BY Sizes DEF Fw

(* ... of none ... *)
LEMMA NoUpdateOK ==
  /\ NoUpdate \in Fw
  /\ NoUpdate.source = "NONE" /\ ~NoUpdate.asked /\ ~NoUpdate.held /\ ~NoUpdate.dirty
  /\ NoUpdate.addr = 0 /\ NoUpdate.seen = {}
BY Sizes, Cells DEF NoUpdate, Fw

(* ... and of one that begins, or is stopped. *)
LEMMA BeginPullOK ==
  ASSUME NEW i \in Cell, NEW d \in BOOLEAN, NEW drain \in BOOLEAN, NEW s, s = BeginPull(i, d, drain)
  PROVE  /\ s \in Fw
         /\ s.source = "PULL" /\ ~s.asked /\ ~s.held /\ s.dirty = d
         /\ s.pin = i /\ s.addr = 0 /\ s.seen = {}
<1> DEFINE n == ~drain
           t1 == [NoUpdate EXCEPT !.source = "PULL", !.done = n]
<1>1. n \in BOOLEAN  OBVIOUS
<1>2. s = [t1 EXCEPT !.dirty = d, !.pin = i]  BY DEF BeginPull
<1> HIDE DEF n
<1>3. /\ t1 \in Fw /\ t1.source = "PULL" /\ t1.asked = NoUpdate.asked
      /\ t1.held = NoUpdate.held /\ t1.addr = NoUpdate.addr /\ t1.seen = NoUpdate.seen
  BY <1>1, NoUpdateOK, FwFields DEF Fw
<1> HIDE DEF t1
<1>4. /\ s \in Fw /\ s.source = t1.source /\ s.asked = t1.asked /\ s.held = t1.held
      /\ s.dirty = d /\ s.pin = i /\ s.addr = t1.addr /\ s.seen = t1.seen
  BY <1>2, <1>3, FwFields DEF Fw
<1> QED BY <1>3, <1>4, NoUpdateOK

(* A stopped pull that has written pages is paused. *)
LEMMA StopPullOK ==
  ASSUME NEW s \in Fw
  PROVE  /\ Paused(s) \in Fw /\ StopPull(s) \in Fw
         /\ Paused(s).source = "PAUSED" /\ ~Paused(s).asked /\ Paused(s).dirty = s.dirty
         /\ Paused(s).addr = s.addr
         /\ StopPull(s).source \in {"NONE", "PAUSED"} /\ ~StopPull(s).asked
         /\ (StopPull(s).dirty <=> s.dirty) /\ StopPull(s).addr \in {0, s.addr}
<1>1. /\ Paused(s) \in Fw
      /\ Paused(s).source = "PAUSED" /\ ~Paused(s).asked /\ Paused(s).dirty = s.dirty
      /\ Paused(s).addr = s.addr
  BY FwFields DEF Paused, Fw
<1>2. s.dirty \in BOOLEAN  BY FwFields
<1>3. StopPull(s) = IF s.dirty THEN Paused(s) ELSE NoUpdate  BY DEF StopPull
<1>4. CASE s.dirty
  <2>1. StopPull(s) = Paused(s)  BY <1>3, <1>4
  <2> QED BY <1>1, <2>1
<1>5. CASE ~s.dirty
  <2>1. StopPull(s) = NoUpdate  BY <1>3, <1>5
  <2> QED BY <1>1, <1>5, <2>1, NoUpdateOK
<1> QED BY <1>4, <1>5

(* The fields that a page's commit leaves alone. *)
LEMMA CommittedOK ==
  ASSUME NEW s \in Fw
  PROVE  /\ Committed(s) \in Fw
         /\ Committed(s).source = s.source /\ Committed(s).done = s.done
         /\ Committed(s).asked = s.asked /\ Committed(s).pin = s.pin
         /\ Committed(s).addr = s.addr /\ Committed(s).seen = s.seen
         /\ ~Committed(s).held /\ (Committed(s).dirty <=> s.dirty \/ s.held)
<1>1. (s.dirty \/ s.held) \in BOOLEAN  OBVIOUS
<1> DEFINE d == s.dirty \/ s.held
<1>2. Committed(s) = [s EXCEPT !.dirty = d, !.held = FALSE]  BY FwFields DEF Committed, Fw
<1> HIDE DEF d
<1>3. d \in BOOLEAN  BY <1>1 DEF d
<1>4. [s EXCEPT !.dirty = d, !.held = FALSE].dirty = d  BY DEF Fw
<1>5. [s EXCEPT !.dirty = d, !.held = FALSE] \in Fw
      /\ \A t : t = [s EXCEPT !.dirty = d, !.held = FALSE] =>
           /\ t.source = s.source /\ t.done = s.done /\ t.asked = s.asked /\ t.pin = s.pin
           /\ t.addr = s.addr /\ t.seen = s.seen /\ ~t.held
  BY <1>3, FwFields DEF Fw
<1> QED BY <1>2, <1>4, <1>5 DEF d

(* The record updates of the actions, named. *)
AskedFw(s, a) == [s EXCEPT !.done = FALSE, !.asked = a]
KeptFw(s, a) == [s EXCEPT !.asked = a]
ReadyFw(s) == [s EXCEPT !.done = TRUE]
ArrivedFw(s, a, h, x) ==
  [s EXCEPT !.addr = a, !.asked = FALSE, !.done = TRUE, !.held = h, !.seen = x]
FinishedFw(s, d) == [s EXCEPT !.source = "NONE", !.dirty = d]
DirtyFw(s, d) == [s EXCEPT !.dirty = d]

(* Every field but those of the request stays. *)
SameFw(s, t) ==
  /\ t.source = s.source /\ t.held = s.held /\ t.dirty = s.dirty
  /\ t.pin = s.pin /\ t.addr = s.addr /\ t.seen = s.seen

(* A request goes out, or is withdrawn, or is answered. *)
LEMMA AskedOK ==
  ASSUME NEW s \in Fw, NEW a \in BOOLEAN
  PROVE  /\ AskedFw(s, a) \in Fw /\ SameFw(s, AskedFw(s, a)) /\ AskedFw(s, a).asked = a
         /\ KeptFw(s, a) \in Fw /\ SameFw(s, KeptFw(s, a)) /\ KeptFw(s, a).asked = a
         /\ ReadyFw(s) \in Fw /\ SameFw(s, ReadyFw(s)) /\ ReadyFw(s).asked = s.asked
<1>1. AskedFw(s, a) \in Fw /\ SameFw(s, AskedFw(s, a)) /\ AskedFw(s, a).asked = a
  BY FwFields DEF Fw, AskedFw, SameFw
<1>2. KeptFw(s, a) \in Fw /\ SameFw(s, KeptFw(s, a)) /\ KeptFw(s, a).asked = a
  BY FwFields DEF Fw, KeptFw, SameFw
<1>3. ReadyFw(s) \in Fw /\ SameFw(s, ReadyFw(s)) /\ ReadyFw(s).asked = s.asked
  BY FwFields DEF Fw, ReadyFw, SameFw
<1> QED BY <1>1, <1>2, <1>3

(* Data has arrived. *)
LEMMA ArrivedOK ==
  ASSUME NEW s \in Fw, NEW a \in 0 .. Size, NEW h \in BOOLEAN, NEW x \in SUBSET Cell
  PROVE  /\ ArrivedFw(s, a, h, x) \in Fw /\ ArrivedFw(s, a, h, x).source = s.source
         /\ ~ArrivedFw(s, a, h, x).asked /\ ArrivedFw(s, a, h, x).held = h
         /\ ArrivedFw(s, a, h, x).dirty = s.dirty /\ ArrivedFw(s, a, h, x).pin = s.pin
         /\ ArrivedFw(s, a, h, x).addr = a /\ ArrivedFw(s, a, h, x).seen = x
<1> DEFINE r == [s EXCEPT !.addr = a, !.asked = FALSE, !.done = TRUE]
           t == ArrivedFw(s, a, h, x)
<1>1. /\ r \in Fw /\ r.source = s.source /\ ~r.asked
      /\ r.dirty = s.dirty /\ r.pin = s.pin /\ r.addr = a
  BY FwFields DEF Fw
<1>2. t = [r EXCEPT !.held = h, !.seen = x]  BY DEF ArrivedFw
<1> HIDE DEF r, t
<1>3. /\ t \in Fw /\ t.source = r.source /\ t.asked = r.asked /\ t.held = h
      /\ t.dirty = r.dirty /\ t.pin = r.pin /\ t.addr = r.addr /\ t.seen = x
  BY <1>1, <1>2, FwFields DEF Fw
<1> QED BY <1>1, <1>3 DEF t

(* The pull has ended, or the slot is dirty or clean. *)
LEMMA FinishedOK ==
  ASSUME NEW s \in Fw, NEW d \in BOOLEAN
  PROVE  /\ FinishedFw(s, d) \in Fw /\ FinishedFw(s, d).source = "NONE"
         /\ FinishedFw(s, d).dirty = d /\ FinishedFw(s, d).asked = s.asked
         /\ FinishedFw(s, d).addr = s.addr
         /\ DirtyFw(s, d) \in Fw /\ DirtyFw(s, d).source = s.source
         /\ DirtyFw(s, d).dirty = d /\ DirtyFw(s, d).asked = s.asked
         /\ DirtyFw(s, d).addr = s.addr
<1>1. /\ FinishedFw(s, d) \in Fw /\ FinishedFw(s, d).source = "NONE"
      /\ FinishedFw(s, d).dirty = d /\ FinishedFw(s, d).asked = s.asked
      /\ FinishedFw(s, d).addr = s.addr
  BY FwFields DEF Fw, FinishedFw
<1>2. /\ DirtyFw(s, d) \in Fw /\ DirtyFw(s, d).source = s.source
      /\ DirtyFw(s, d).dirty = d /\ DirtyFw(s, d).asked = s.asked
      /\ DirtyFw(s, d).addr = s.addr
  BY FwFields DEF Fw, DirtyFw
<1> QED BY <1>1, <1>2

(* A UF2 file takes or keeps the slot. *)
LEMMA DroppingOK ==
  ASSUME NEW b \in Board, fw[b] \in Fw
  PROVE  /\ Dropping(b) \in Fw /\ Dropping(b).source = "DROP"
         /\ (Dropping(b).asked => fw[b].asked)
         /\ (Dropping(b).asked => Dropping(b).addr = fw[b].addr)
         /\ Dropping(b).addr \in {0, fw[b].addr}
<1>1. CASE fw[b].source = "DROP"
  BY <1>1 DEF Dropping
<1>2. CASE fw[b].source # "DROP"
  <2>1. Dropping(b) = [NoUpdate EXCEPT !.source = "DROP"]  BY <1>2 DEF Dropping
  <2>2. NoUpdate \in Fw /\ ~NoUpdate.asked /\ NoUpdate.addr = 0  BY NoUpdateOK
  <2>3. Dropping(b) \in Fw /\ Dropping(b).source = "DROP" /\ ~Dropping(b).asked
        /\ Dropping(b).addr = 0
    BY <2>1, <2>2, FwFields DEF Fw
  <2> QED BY <2>3
<1> QED BY <1>1, <1>2

(* The fields of the page protocol's state ... *)
LEMMA BatchFields ==
  ASSUME NEW t \in Batch
  PROVE  /\ t.mode \in {"WORDS", "PROBE", "WAIT", "PAGES"} /\ t.attempts \in 0 .. MaxAttempts
         /\ t.caps \in 0 .. MaxTag /\ t.want \in 0 .. MaxTag /\ t.enabled \in BOOLEAN
         /\ t.srcTag \in 0 .. MaxTag /\ t.last \in 0 .. MaxTag /\ t.tx \in TxPage
BY DEF Batch

(* ... of a page to send ... *)
LEMMA TxPageOK ==
  /\ NoPage \in TxPage
  /\ \A g \in 0 .. MaxTag, p \in Page, c \in [0 .. Words - 1 -> Cell] :
       [tag |-> g, page |-> p, cells |-> c] \in TxPage
  /\ \A x \in TxPage : x.tag \in 0 .. MaxTag /\ x.page \in Page /\ x.cells \in [0 .. Words - 1 -> Cell]
BY Sizes, Cells, SizeAssumption DEF TxPage, NoPage, Page

(* ... and at boot. *)
LEMMA NoBatchOK ==
  NoBatch \in Batch /\ NoBatch.mode = "WORDS" /\ NoBatch.tx = NoPage
BY TxPageOK, SizeAssumption DEF NoBatch, Batch

(* firmware_batch_begin_locked *)
LEMMA BeginBatchOK ==
  ASSUME NEW t \in Batch
  PROVE  BeginBatch(t) \in Batch /\ BeginBatch(t).mode = "PROBE" /\ BeginBatch(t).tx = NoPage
<1> DEFINE x == t.srcTag
           y == t.last
<1>1. x \in 0 .. MaxTag /\ y \in 0 .. MaxTag  BY BatchFields
<1>2. BeginBatch(t) = [NoBatch EXCEPT !.mode = "PROBE", !.srcTag = x, !.last = y]
  BY DEF BeginBatch
<1> HIDE DEF x, y
<1>3. \A z : z = [NoBatch EXCEPT !.mode = "PROBE", !.srcTag = x, !.last = y] =>
        z \in Batch /\ z.mode = "PROBE" /\ z.tx = NoBatch.tx
  BY <1>1, NoBatchOK, BatchFields DEF Batch
<1> QED BY <1>2, <1>3, NoBatchOK

(* The updates of the page protocol's state, named. *)
ProbedBatch(t, g) == [t EXCEPT !.mode = "WAIT", !.caps = g]
WantingBatch(t, g, a) == [t EXCEPT !.want = g, !.attempts = a]
PagedBatch(t) == [t EXCEPT !.attempts = 0, !.want = 0]
PagesBatch(t) == [t EXCEPT !.mode = "PAGES"]
LoadedBatch(t, g, x) == [t EXCEPT !.last = g, !.tx = x]
SentBatch(t, e) == [t EXCEPT !.tx = NoPage, !.enabled = e]
ServingBatch(t, g, l, x) ==
  [t EXCEPT !.enabled = TRUE, !.srcTag = g, !.last = l, !.tx = x]

(* What they leave alone. *)
LEMMA BatchUpdates ==
  ASSUME NEW t \in Batch, NEW g \in 0 .. MaxTag, NEW e \in BOOLEAN
  PROVE  /\ ProbedBatch(t, g) \in Batch /\ ProbedBatch(t, g).mode = "WAIT"
         /\ ProbedBatch(t, g).tx = t.tx
         /\ PagedBatch(t) \in Batch /\ PagedBatch(t).mode = t.mode /\ PagedBatch(t).tx = t.tx
         /\ UseWords(t) \in Batch /\ UseWords(t).mode = "WORDS" /\ UseWords(t).tx = t.tx
         /\ PagesBatch(t) \in Batch /\ PagesBatch(t).mode = "PAGES" /\ PagesBatch(t).tx = t.tx
         /\ SentBatch(t, e) \in Batch /\ SentBatch(t, e).mode = t.mode
         /\ SentBatch(t, e).tx = NoPage
<1>0. 0 \in 0 .. MaxTag /\ 0 \in 0 .. MaxAttempts /\ NoPage \in TxPage
  BY SizeAssumption, TxPageOK
<1>1. /\ ProbedBatch(t, g) \in Batch /\ ProbedBatch(t, g).mode = "WAIT"
      /\ ProbedBatch(t, g).tx = t.tx
  BY BatchFields DEF Batch, ProbedBatch
<1>3. PagedBatch(t) \in Batch /\ PagedBatch(t).mode = t.mode /\ PagedBatch(t).tx = t.tx
  BY <1>0, BatchFields DEF Batch, PagedBatch
<1>4. UseWords(t) \in Batch /\ UseWords(t).mode = "WORDS" /\ UseWords(t).tx = t.tx
  BY <1>0, BatchFields DEF Batch, UseWords
<1>5. PagesBatch(t) \in Batch /\ PagesBatch(t).mode = "PAGES" /\ PagesBatch(t).tx = t.tx
  BY BatchFields DEF Batch, PagesBatch
<1>6. SentBatch(t, e) \in Batch /\ SentBatch(t, e).mode = t.mode /\ SentBatch(t, e).tx = NoPage
  BY <1>0, BatchFields DEF Batch, SentBatch
<1> QED BY <1>1, <1>3, <1>4, <1>5, <1>6

(* A page is asked for, perhaps again. *)
LEMMA WantingOK ==
  ASSUME NEW t \in Batch, NEW g \in 0 .. MaxTag, NEW a \in 0 .. MaxAttempts
  PROVE  /\ WantingBatch(t, g, a) \in Batch /\ WantingBatch(t, g, a).mode = t.mode
         /\ WantingBatch(t, g, a).tx = t.tx
BY BatchFields DEF Batch, WantingBatch

(* receive_page_request and receive_caps_request. *)
LEMMA ServesOK ==
  ASSUME NEW t \in Batch, NEW g \in 0 .. MaxTag, NEW l \in 0 .. MaxTag, NEW x \in TxPage
  PROVE  /\ LoadedBatch(t, g, x) \in Batch /\ LoadedBatch(t, g, x).mode = t.mode
         /\ LoadedBatch(t, g, x).tx = x
         /\ ServingBatch(t, g, l, x) \in Batch /\ ServingBatch(t, g, l, x).mode = t.mode
         /\ ServingBatch(t, g, l, x).tx = x
<1>1. /\ LoadedBatch(t, g, x) \in Batch /\ LoadedBatch(t, g, x).mode = t.mode
      /\ LoadedBatch(t, g, x).tx = x
  BY BatchFields DEF Batch, LoadedBatch
<1> DEFINE r == [t EXCEPT !.enabled = TRUE, !.srcTag = g]
           z == ServingBatch(t, g, l, x)
<1>2. r \in Batch /\ r.mode = t.mode  BY BatchFields DEF Batch
<1>3. z = [r EXCEPT !.last = l, !.tx = x]  BY DEF ServingBatch
<1> HIDE DEF r, z
<1>4. z \in Batch /\ z.mode = r.mode /\ z.tx = x  BY <1>2, <1>3, BatchFields DEF Batch
<1> QED BY <1>1, <1>2, <1>4 DEF z

(* Packets as the code builds them ... *)
LEMMA PacketTypes ==
  /\ \A i \in Image : [type |-> "HEARTBEAT", image |-> i] \in Packet
  /\ \A g \in 1 .. MaxTag, i \in Image :
       /\ [type |-> "CAPS_REQUEST", tag |-> g, image |-> i] \in Packet
       /\ [type |-> "CAPS_RESPONSE", tag |-> g, image |-> i] \in Packet
  /\ \A g \in 1 .. MaxTag, p \in Page : [type |-> "PAGE_REQUEST", tag |-> g, page |-> p] \in Packet
  /\ \A x \in TxPage : [type |-> "PAGE", data |-> x] \in Packet
  /\ \A a \in Address : [type |-> "WORD_REQUEST", addr |-> a] \in Packet
  /\ \A a \in Address, c \in Cell : [type |-> "WORD", addr |-> a, cell |-> c] \in Packet
<1>1. \A i \in Image : [type |-> "HEARTBEAT", image |-> i] \in Packet  BY DEF Packet
<1>2. \A g \in 1 .. MaxTag, i \in Image :
       /\ [type |-> "CAPS_REQUEST", tag |-> g, image |-> i] \in Packet
       /\ [type |-> "CAPS_RESPONSE", tag |-> g, image |-> i] \in Packet
  BY DEF Packet
<1>3. \A g \in 1 .. MaxTag, p \in Page :
        [type |-> "PAGE_REQUEST", tag |-> g, page |-> p] \in Packet
  BY DEF Packet
<1>4. \A x \in TxPage : [type |-> "PAGE", data |-> x] \in Packet  BY DEF Packet
<1>5. \A a \in Address : [type |-> "WORD_REQUEST", addr |-> a] \in Packet  BY DEF Packet
<1>6. \A a \in Address, c \in Cell : [type |-> "WORD", addr |-> a, cell |-> c] \in Packet
  BY DEF Packet
<1> QED BY <1>1, <1>2, <1>3, <1>4, <1>5, <1>6

(* ... and what they carry. *)
LEMMA PacketFields ==
  ASSUME NEW m \in Packet
  PROVE  /\ m.type = "HEARTBEAT" => m.image \in Image
         /\ m.type \in {"CAPS_REQUEST", "CAPS_RESPONSE"} => m.tag \in 1 .. MaxTag /\ m.image \in Image
         /\ m.type = "PAGE_REQUEST" => m.tag \in 1 .. MaxTag /\ m.page \in Page
         /\ m.type = "PAGE" => m.data \in TxPage
         /\ m.type = "WORD_REQUEST" => m.addr \in Address
         /\ m.type = "WORD" => m.addr \in Address /\ m.cell \in Cell
BY DEF Packet


-----------------------------------------------------------------------------
(* Boards *)

(* A function of the boards changes at one of them. *)
LEMMA AtBoard ==
  ASSUME NEW S, NEW f \in [Board -> S], NEW b \in Board, NEW x \in S
  PROVE  \A g : g = [f EXCEPT ![b] = x] =>
           /\ g \in [Board -> S] /\ g[b] = x /\ \A c \in Board : c # b => g[c] = f[c]
OBVIOUS

(* Fields of one board's record: a request, *)
LEMMA AskAt ==
  ASSUME NEW f \in [Board -> Fw], NEW b \in Board, NEW a
  PROVE  [f EXCEPT ![b].done = FALSE, ![b].asked = a] = [f EXCEPT ![b] = AskedFw(f[b], a)]
BY DEF AskedFw

(* ... an answer, *)
LEMMA ReadyAt ==
  ASSUME NEW f \in [Board -> Fw], NEW b \in Board
  PROVE  [f EXCEPT ![b].done = TRUE] = [f EXCEPT ![b] = ReadyFw(f[b])]
BY DEF ReadyFw

(* ... a probe, *)
LEMMA ProbeAt ==
  ASSUME NEW f \in [Board -> Batch], NEW b \in Board, NEW x
  PROVE  [f EXCEPT ![b].mode = "WAIT", ![b].caps = x] = [f EXCEPT ![b] = ProbedBatch(f[b], x)]
BY DEF ProbedBatch

(* ... its arrival, *)
LEMMA PagedAt ==
  ASSUME NEW f \in [Board -> Batch], NEW b \in Board
  PROVE  [f EXCEPT ![b].attempts = 0, ![b].want = 0] = [f EXCEPT ![b] = PagedBatch(f[b])]
BY DEF PagedBatch

(* ... the start of page mode, *)
LEMMA PagesAt ==
  ASSUME NEW f \in [Board -> Batch], NEW b \in Board
  PROVE  [f EXCEPT ![b].mode = "PAGES"] = [f EXCEPT ![b] = PagesBatch(f[b])]
BY DEF PagesBatch

(* ... and a page that was sent. *)
LEMMA SentAt ==
  ASSUME NEW f \in [Board -> Batch], NEW b \in Board, NEW x
  PROVE  [f EXCEPT ![b].tx = NoPage, ![b].enabled = x] = [f EXCEPT ![b] = SentBatch(f[b], x)]
BY DEF SentBatch

(* The conjuncts of the type invariant, one board at a time. *)
LEMMA BoardTypes ==
  ASSUME FirmwareTypeOK, NEW b \in Board
  PROVE  /\ up[b] \in BOOLEAN /\ run[b] \in Image /\ flash[b] \in [Address -> Cell]
         /\ buffer[b] \in [0 .. Words - 1 -> Cell] /\ fw[b] \in Fw /\ batch[b] \in Batch
         /\ tags[b] \in 0 .. MaxTag /\ blocks[b] \subseteq Page /\ reboot[b] \in BOOLEAN
         /\ link[b] \in Seq(Packet) /\ Len(link[b]) <= LinkCap
         /\ Version[run[b]] \in Nat /\ Version \in [Image -> Nat] /\ Image \subseteq Nat \ {0}
BY ImageAssumption DEF FirmwareTypeOK

LinkOK(l) == l \in [Board -> Seq(Packet)] /\ \A b \in Board : Len(l[b]) <= LinkCap

(* A packet is queued ... *)
LEMMA SendOK ==
  ASSUME FirmwareTypeOK, NEW b \in Board, Room(b), NEW m \in Packet, Send(b, m)
  PROVE  LinkOK(link') /\ link'[b] = Append(link[b], m)
         /\ \A c \in Board : c # b => link'[c] = link[c]
<1>1. link[b] \in Seq(Packet) /\ Len(link[b]) < LinkCap /\ LinkCap \in Nat
  BY BoardTypes, SizeAssumption DEF Room
<1>2. Append(link[b], m) \in Seq(Packet) /\ Len(Append(link[b], m)) <= LinkCap
  BY <1>1
<1>3. link \in [Board -> Seq(Packet)] /\ \A c \in Board : Len(link[c]) <= LinkCap
  BY DEF FirmwareTypeOK
<1>4. link' = [link EXCEPT ![b] = Append(link[b], m)]  BY <1>3 DEF Send
<1> QED BY <1>2, <1>3, <1>4, AtBoard DEF LinkOK

(* ... the oldest one is taken ... *)
LEMMA ConsumeOK ==
  ASSUME FirmwareTypeOK, NEW b \in Board, link[b] # <<>>,
         link' = [link EXCEPT ![b] = Tail(@)]
  PROVE  LinkOK(link') /\ link'[b] = Tail(link[b]) /\ Head(link[b]) \in Packet
         /\ \A c \in Board : c # b => link'[c] = link[c]
<1>1. link[b] \in Seq(Packet) /\ Len(link[b]) <= LinkCap /\ LinkCap \in Nat
  BY BoardTypes, SizeAssumption
<1>2. Tail(link[b]) \in Seq(Packet) /\ Len(Tail(link[b])) <= LinkCap /\ Head(link[b]) \in Packet
  BY <1>1
<1>3. link \in [Board -> Seq(Packet)] /\ \A c \in Board : Len(link[c]) <= LinkCap
  BY DEF FirmwareTypeOK
<1>4. link' = [link EXCEPT ![b] = Tail(link[b])]  BY <1>3
<1> QED BY <1>2, <1>3, <1>4, AtBoard DEF LinkOK

(* ... and perhaps answered. *)
LEMMA ReplyOK ==
  ASSUME FirmwareTypeOK, NEW b \in Board, link[Peer(b)] # <<>>, Room(b), NEW m \in Packet,
         Reply(b, m)
  PROVE  LinkOK(link') /\ link'[Peer(b)] = Tail(link[Peer(b)]) /\ link'[b] = Append(link[b], m)
<1>0. Peer(b) \in Board /\ Peer(b) # b /\ \A c \in Board : c = b \/ c = Peer(b)
  BY PeerFacts
<1>1. link[b] \in Seq(Packet) /\ Len(link[b]) < LinkCap /\ LinkCap \in Nat
  BY BoardTypes, SizeAssumption DEF Room
<1>2. link[Peer(b)] \in Seq(Packet) /\ Len(link[Peer(b)]) <= LinkCap
  BY <1>0, BoardTypes
<1>3. Append(link[b], m) \in Seq(Packet) /\ Len(Append(link[b], m)) <= LinkCap
  BY <1>1
<1>4. Tail(link[Peer(b)]) \in Seq(Packet) /\ Len(Tail(link[Peer(b)])) <= LinkCap
  BY <1>1, <1>2
<1>5. link \in [Board -> Seq(Packet)]  BY DEF FirmwareTypeOK
<1>6. link' = [c \in Board |-> IF c = b THEN Append(link[b], m) ELSE Tail(link[Peer(b)])]
  BY <1>0, <1>5 DEF Reply
<1> QED BY <1>0, <1>3, <1>4, <1>6 DEF LinkOK

(* What arrives is a packet. *)
LEMMA IncomingOK ==
  ASSUME FirmwareTypeOK, NEW b \in Board, link[Peer(b)] # <<>>
  PROVE  Incoming(b) \in Packet
<1>1. link[Peer(b)] \in Seq(Packet)  BY BoardTypes, PeerFacts
<1> QED BY <1>1 DEF Incoming

(* write_flash_page writes cells. *)
LEMMA WritePageOK ==
  ASSUME NEW f \in [Address -> Cell], NEW c \in [0 .. Words - 1 -> Cell], NEW e \in Nat
  PROVE  WritePage(f, e, c) \in [Address -> Cell]
<1>1. \A a \in Address : a \in Nat /\ a % Words \in 0 .. Words - 1
  BY Sizes, DivMod DEF Address
<1>2. \A a \in Address : c[a % Words] \in Cell /\ f[a] \in Cell
  BY <1>1
<1> QED BY <1>2 DEF WritePage

(* commit_pending_firmware_page *)
LEMMA CommitFlashOK ==
  ASSUME FirmwareTypeOK, NEW b \in Board, CommitFlash(b)
  PROVE  /\ flash' \in [Board -> [Address -> Cell]]
         /\ \A c \in Board : c # b => flash'[c] = flash[c]
         /\ ~fw[b].held => flash'[b] = flash[b]
         /\ fw[b].held => flash'[b] = WritePage(flash[b], fw[b].addr, buffer[b])
<1> DEFINE x == IF fw[b].held THEN WritePage(flash[b], fw[b].addr, buffer[b]) ELSE flash[b]
<1>1. /\ flash[b] \in [Address -> Cell] /\ buffer[b] \in [0 .. Words - 1 -> Cell]
      /\ fw[b].addr \in Nat
  BY BoardTypes, FwFields
<1>2. x \in [Address -> Cell]  BY <1>1, WritePageOK
<1>3. flash \in [Board -> [Address -> Cell]]  BY DEF FirmwareTypeOK
<1>4. flash' = [flash EXCEPT ![b] = x]  BY <1>3 DEF CommitFlash
<1>5. flash' \in [Board -> [Address -> Cell]] /\ flash'[b] = x
      /\ \A c \in Board : c # b => flash'[c] = flash[c]
  <2> HIDE DEF x
  <2> QED BY <1>2, <1>3, <1>4, AtBoard
<1> QED BY <1>5

(* A step of one board. *)
LEMMA OneBoard ==
  ASSUME FirmwareIInv, NEW b \in Board, FirmwareTypeOK', BoardInv(b)',
         \A c \in Board : c # b =>
           /\ up'[c] = up[c] /\ run'[c] = run[c] /\ flash'[c] = flash[c]
           /\ fw'[c] = fw[c] /\ batch'[c] = batch[c] /\ reboot'[c] = reboot[c]
  PROVE  FirmwareIInv'
BY DEF FirmwareIInv, BoardInv

(* A step that only moves packets. *)
LEMMA LinkStep ==
  ASSUME FirmwareIInv, FirmwareTypeOK', UNCHANGED <<up, run, flash, fw, batch, reboot>>
  PROVE  FirmwareIInv'
BY DEF FirmwareIInv, BoardInv


-----------------------------------------------------------------------------
(* Asking *)

(* What the requests of firmware_upgrade_task have in common: the pull     *)
(* goes on, and the page that waits in the buffer is written or is not.    *)
Asks(b) ==
  /\ Running(b) /\ fw[b].source = "PULL"
  /\ fw'[b].source = "PULL" /\ fw'[b].pin = fw[b].pin
  /\ fw'[b].addr = fw[b].addr /\ fw'[b].seen = fw[b].seen
  /\ fw'[b].asked => fw[b].addr < Size
  /\ \/ /\ fw'[b].held = fw[b].held /\ fw'[b].dirty = fw[b].dirty
        /\ flash'[b] = flash[b] /\ (fw'[b].asked => fw[b].asked)
     \/ /\ ~fw'[b].held /\ (fw'[b].dirty <=> fw[b].dirty \/ fw[b].held)
        /\ ~fw[b].held => flash'[b] = flash[b]
        /\ fw[b].held => flash'[b] = WritePage(flash[b], fw[b].addr, buffer[b])
  /\ batch'[b].mode = "PAGES" => batch[b].mode = "PAGES"
  /\ batch'[b].tx = batch[b].tx
  /\ UNCHANGED <<up, run, buffer, reboot, written>>
  /\ \A c \in Board : c # b => /\ fw'[c] = fw[c] /\ batch'[c] = batch[c]
                               /\ flash'[c] = flash[c] /\ link'[c] = link[c]
  /\ \/ link'[b] = link[b]
     \/ \E m \in Packet : /\ m.type \notin {"HEARTBEAT", "WORD", "PAGE"}
                          /\ link'[b] = Append(link[b], m)
  /\ FirmwareTypeOK'

(* A board that can repeat a request, and what it costs. *)
LEMMA DueOK ==
  ASSUME FirmwareTypeOK, NEW b \in Board, Due(b)
  PROVE  Running(b) /\ fw[b].source = "PULL" /\ faults' \in 0 .. MaxFaults
BY PullBoundAssumption DEF Due, FirmwareTypeOK

(* The functions of the type invariant. *)
LEMMA Functions ==
  ASSUME FirmwareTypeOK
  PROVE  /\ fw \in [Board -> Fw] /\ batch \in [Board -> Batch] /\ tags \in [Board -> 0 .. MaxTag]
         /\ flash \in [Board -> [Address -> Cell]] /\ link \in [Board -> Seq(Packet)]
         /\ buffer \in [Board -> [0 .. Words - 1 -> Cell]]
         /\ run \in [Board -> Image] /\ up \in [Board -> BOOLEAN] /\ reboot \in [Board -> BOOLEAN]
         /\ blocks \in [Board -> SUBSET Page]
         /\ \A b \in Board : Len(link[b]) <= LinkCap
BY DEF FirmwareTypeOK

(* The next tag. *)
LEMMA NextTag ==
  ASSUME FirmwareTypeOK, NEW b \in Board, TagsLeft(b), tags' = [tags EXCEPT ![b] = @ + 1]
  PROVE  /\ tags' \in [Board -> 0 .. MaxTag]
         /\ tags'[b] \in 1 .. MaxTag /\ tags'[b] \in 0 .. MaxTag
<1>1. tags[b] \in 0 .. MaxTag /\ tags[b] < MaxTag /\ MaxTag \in Nat
  BY BoardTypes, SizeAssumption DEF TagsLeft
<1>2. tags[b] + 1 \in 0 .. MaxTag /\ tags[b] + 1 \in 1 .. MaxTag  BY <1>1
<1>3. tags' = [tags EXCEPT ![b] = tags[b] + 1]  BY Functions
<1> QED BY <1>2, <1>3, Functions, AtBoard

(* firmware_upgrade_task asks for the capabilities, *)
LEMMA ProbeAsks ==
  ASSUME FirmwareIInv, NEW b \in Board, TaskProbe(b)
  PROVE  Asks(b)
<1>0. FirmwareTypeOK  BY DEF FirmwareIInv
<1>1. Running(b) /\ fw[b].source = "PULL" /\ faults' \in 0 .. MaxFaults
  BY <1>0, DueOK DEF TaskProbe
<1>2. fw[b].pin \in Image  BY <1>1 DEF FirmwareIInv, BoardInv, BoardOK
<1>3. tags' \in [Board -> 0 .. MaxTag] /\ tags'[b] \in 1 .. MaxTag /\ tags'[b] \in 0 .. MaxTag
  BY <1>0, NextTag DEF TaskProbe
<1> DEFINE m == [type |-> "CAPS_REQUEST", tag |-> tags'[b], image |-> fw[b].pin]
           s == AskedFw(fw[b], FALSE)
           t == ProbedBatch(batch[b], tags'[b])
<1>4. m \in Packet /\ m.type = "CAPS_REQUEST"  BY <1>2, <1>3, PacketTypes
<1>5. Room(b) /\ Send(b, m)  BY DEF TaskProbe
<1>6. fw' = [fw EXCEPT ![b] = s]
  <2>1. fw' = [fw EXCEPT ![b].done = FALSE, ![b].asked = FALSE]  BY Zenon DEF TaskProbe
  <2>2. fw \in [Board -> Fw]  BY <1>0, Functions
  <2> QED BY <2>1, <2>2, AskAt, Zenon
<1>7. batch' = [batch EXCEPT ![b] = t]
  <2>1. batch' = [batch EXCEPT ![b].mode = "WAIT", ![b].caps = tags'[b]]  BY Zenon DEF TaskProbe
  <2>2. batch \in [Board -> Batch]  BY <1>0, Functions
  <2> QED BY <2>1, <2>2, ProbeAt, Zenon
<1>8. fw[b] \in Fw /\ batch[b] \in Batch  BY <1>0, BoardTypes
<1>9. s \in Fw /\ SameFw(fw[b], s) /\ ~s.asked  BY <1>8, AskedOK
<1>10. t \in Batch /\ t.mode = "WAIT" /\ t.tx = batch[b].tx
  BY <1>3, <1>8, BatchUpdates
<1> HIDE DEF m, s, t
<1>11. LinkOK(link') /\ link'[b] = Append(link[b], m)
       /\ \A c \in Board : c # b => link'[c] = link[c]
  BY <1>0, <1>4, <1>5, SendOK
<1>12. fw' \in [Board -> Fw] /\ fw'[b] = s /\ \A c \in Board : c # b => fw'[c] = fw[c]
  BY <1>0, <1>6, <1>9, Functions, AtBoard
<1>13. batch' \in [Board -> Batch] /\ batch'[b] = t
       /\ \A c \in Board : c # b => batch'[c] = batch[c]
  BY <1>0, <1>7, <1>10, Functions, AtBoard
<1>14. UNCHANGED <<up, run, flash, buffer, blocks, reboot, written, reboots>>
  BY DEF TaskProbe
<1>15. FirmwareTypeOK'
  BY <1>0, <1>1, <1>3, <1>11, <1>12, <1>13, <1>14 DEF FirmwareTypeOK, LinkOK
<1> QED
  BY <1>1, <1>4, <1>9, <1>10, <1>11, <1>12, <1>13, <1>14, <1>15 DEF Asks, SameFw


(* for a page, *)
LEMMA PageAsks ==
  ASSUME FirmwareIInv, NEW b \in Board, TaskPage(b)
  PROVE  Asks(b)
<1>0. FirmwareTypeOK  BY DEF FirmwareIInv
<1>1. Running(b) /\ fw[b].source = "PULL" /\ faults' \in 0 .. MaxFaults
  BY <1>0, DueOK DEF TaskPage
<1>2. /\ batch[b].mode = "PAGES" /\ ~FallsBack(b) /\ Room(b) /\ fw[b].addr < Size
      /\ tags' = [tags EXCEPT ![b] = @ + 1] /\ CommitFlash(b)
      /\ UNCHANGED <<up, run, buffer, blocks, reboot, written, reboots>>
  BY DEF TaskPage
<1>3. TagsLeft(b) /\ ~(batch[b].attempts >= MaxAttempts)  BY <1>2 DEF FallsBack
<1>4. tags' \in [Board -> 0 .. MaxTag] /\ tags'[b] \in 1 .. MaxTag /\ tags'[b] \in 0 .. MaxTag
  BY <1>0, <1>2, <1>3, NextTag
<1>5. fw[b] \in Fw /\ batch[b] \in Batch  BY <1>0, BoardTypes
<1> DEFINE a == batch[b].attempts + 1
           m == [type |-> "PAGE_REQUEST", tag |-> tags'[b], page |-> fw[b].addr \div Words]
           s == AskedFw(Committed(fw[b]), TRUE)
           t == WantingBatch(batch[b], tags'[b], a)
<1>6. a \in 0 .. MaxAttempts
  <2>1. batch[b].attempts \in 0 .. MaxAttempts /\ MaxAttempts \in Nat
    BY <1>5, BatchFields, SizeAssumption
  <2> QED BY <1>3, <2>1
<1>7. m \in Packet /\ m.type = "PAGE_REQUEST"
  <2>1. fw[b].addr \div Words \in Page  BY <1>2, <1>5, FwFields, PageOfAddress
  <2> QED BY <1>4, <2>1, PacketTypes
<1>8. Send(b, m)  BY DEF TaskPage
<1>9. fw' = [fw EXCEPT ![b] = s]
  BY <1>0, Functions DEF TaskPage, AskedFw
<1>10. batch' = [batch EXCEPT ![b] = t]
  <2>1. batch \in [Board -> Batch]  BY <1>0, Functions
  <2>2. batch' = [batch EXCEPT ![b].want = tags'[b], ![b].attempts = a]
    <3>1. batch' = [batch EXCEPT ![b].want = tags'[b], ![b].attempts = @ + 1]  BY Zenon DEF TaskPage
    <3> QED BY <2>1, <3>1
  <2> HIDE DEF a
  <2> QED BY <2>1, <2>2 DEF WantingBatch
<1>11. s \in Fw /\ SameFw(Committed(fw[b]), s) /\ s.asked  BY <1>5, CommittedOK, AskedOK
<1>12. t \in Batch /\ t.mode = "PAGES" /\ t.tx = batch[b].tx
  <2> HIDE DEF a
  <2> QED BY <1>2, <1>4, <1>5, <1>6, WantingOK
<1> HIDE DEF m, s, t
<1>13. LinkOK(link') /\ link'[b] = Append(link[b], m)
       /\ \A c \in Board : c # b => link'[c] = link[c]
  BY <1>0, <1>2, <1>7, <1>8, SendOK
<1>14. fw' \in [Board -> Fw] /\ fw'[b] = s /\ \A c \in Board : c # b => fw'[c] = fw[c]
  BY <1>0, <1>9, <1>11, Functions, AtBoard
<1>15. batch' \in [Board -> Batch] /\ batch'[b] = t
       /\ \A c \in Board : c # b => batch'[c] = batch[c]
  BY <1>0, <1>10, <1>12, Functions, AtBoard
<1>16. /\ flash' \in [Board -> [Address -> Cell]]
       /\ \A c \in Board : c # b => flash'[c] = flash[c]
       /\ ~fw[b].held => flash'[b] = flash[b]
       /\ fw[b].held => flash'[b] = WritePage(flash[b], fw[b].addr, buffer[b])
  BY <1>0, <1>2, CommitFlashOK
<1>17. FirmwareTypeOK'
  BY <1>0, <1>1, <1>2, <1>4, <1>13, <1>14, <1>15, <1>16 DEF FirmwareTypeOK, LinkOK
<1>18. /\ s.source = fw[b].source /\ s.pin = fw[b].pin /\ s.addr = fw[b].addr
       /\ s.seen = fw[b].seen /\ ~s.held /\ (s.dirty <=> fw[b].dirty \/ fw[b].held)
  BY <1>5, <1>11, CommittedOK DEF SameFw
<1> QED
  BY <1>1, <1>2, <1>7, <1>12, <1>13, <1>14, <1>15, <1>16, <1>17, <1>18 DEF Asks

(* for a word, *)
LEMMA WordAsks ==
  ASSUME FirmwareIInv, NEW b \in Board, TaskWord(b)
  PROVE  Asks(b)
<1>0. FirmwareTypeOK  BY DEF FirmwareIInv
<1>1. Running(b) /\ fw[b].source = "PULL" /\ faults' \in 0 .. MaxFaults
  BY <1>0, DueOK DEF TaskWord
<1>2. /\ Room(b) /\ fw[b].addr < Size /\ CommitFlash(b)
      /\ UNCHANGED <<up, run, buffer, tags, blocks, reboot, written, reboots>>
  BY DEF TaskWord
<1>3. fw[b] \in Fw /\ batch[b] \in Batch  BY <1>0, BoardTypes
<1> DEFINE m == [type |-> "WORD_REQUEST", addr |-> fw[b].addr]
           s == AskedFw(Committed(fw[b]), TRUE)
           t == UseWords(batch[b])
<1>4. m \in Packet /\ m.type = "WORD_REQUEST"
  <2>1. fw[b].addr \in Address  BY <1>2, <1>3, FwFields, PageOfAddress
  <2> QED BY <2>1, PacketTypes
<1>5. Send(b, m)  BY DEF TaskWord
<1>6. fw' = [fw EXCEPT ![b] = s]  BY <1>0, Functions DEF TaskWord, AskedFw
<1>7. batch' = [batch EXCEPT ![b] = t]  BY <1>0, Functions DEF TaskWord
<1>8. s \in Fw /\ SameFw(Committed(fw[b]), s) /\ s.asked  BY <1>3, CommittedOK, AskedOK
<1>9. t \in Batch /\ t.mode = "WORDS" /\ t.tx = batch[b].tx
  <2>1. 0 \in 0 .. MaxTag /\ FALSE \in BOOLEAN  BY SizeAssumption
  <2> QED BY <1>3, <2>1, BatchUpdates
<1> HIDE DEF m, s, t
<1>10. LinkOK(link') /\ link'[b] = Append(link[b], m)
       /\ \A c \in Board : c # b => link'[c] = link[c]
  BY <1>0, <1>2, <1>4, <1>5, SendOK
<1>11. fw' \in [Board -> Fw] /\ fw'[b] = s /\ \A c \in Board : c # b => fw'[c] = fw[c]
  BY <1>0, <1>6, <1>8, Functions, AtBoard
<1>12. batch' \in [Board -> Batch] /\ batch'[b] = t
       /\ \A c \in Board : c # b => batch'[c] = batch[c]
  BY <1>0, <1>7, <1>9, Functions, AtBoard
<1>13. /\ flash' \in [Board -> [Address -> Cell]]
       /\ \A c \in Board : c # b => flash'[c] = flash[c]
       /\ ~fw[b].held => flash'[b] = flash[b]
       /\ fw[b].held => flash'[b] = WritePage(flash[b], fw[b].addr, buffer[b])
  BY <1>0, <1>2, CommitFlashOK
<1>14. FirmwareTypeOK'
  BY <1>0, <1>1, <1>2, <1>10, <1>11, <1>12, <1>13 DEF FirmwareTypeOK, LinkOK
<1>15. /\ s.source = fw[b].source /\ s.pin = fw[b].pin /\ s.addr = fw[b].addr
       /\ s.seen = fw[b].seen /\ ~s.held /\ (s.dirty <=> fw[b].dirty \/ fw[b].held)
  BY <1>3, <1>8, CommittedOK DEF SameFw
<1> QED
  BY <1>1, <1>2, <1>4, <1>9, <1>10, <1>11, <1>12, <1>13, <1>14, <1>15 DEF Asks

(* or finds the queue full. *)
LEMMA QueueFullAsks ==
  ASSUME FirmwareIInv, NEW b \in Board, TaskQueueFull(b)
  PROVE  Asks(b)
<1>0. FirmwareTypeOK  BY DEF FirmwareIInv
<1>1. Running(b) /\ fw[b].source = "PULL" /\ faults' \in 0 .. MaxFaults
  BY <1>0, DueOK DEF TaskQueueFull
<1>2. fw[b] \in Fw /\ batch[b] \in Batch  BY <1>0, BoardTypes
<1> DEFINE commits == batch[b].mode = "PAGES" /\ fw[b].done
           r == IF commits THEN Committed(fw[b]) ELSE fw[b]
           a == r.asked /\ ~FallsBack(b)
           s == KeptFw(r, a)
           t == IF FallsBack(b) THEN UseWords(batch[b]) ELSE batch[b]
<1>3. /\ fw[b].addr < Size /\ (IF commits THEN CommitFlash(b) ELSE UNCHANGED flash)
      /\ UNCHANGED <<up, run, buffer, tags, blocks, reboot, link, written, reboots>>
  BY DEF TaskQueueFull
<1>4. r \in Fw  BY <1>2, CommittedOK
<1>5. fw' = [fw EXCEPT ![b] = s]
  <2>1. fw' = [fw EXCEPT ![b] = [r EXCEPT !.asked = @ /\ ~FallsBack(b)]]
    BY Zenon DEF TaskQueueFull
  <2> HIDE DEF r
  <2>2. [r EXCEPT !.asked = @ /\ ~FallsBack(b)] = s  BY <1>4 DEF KeptFw, Fw
  <2> QED BY <2>1, <2>2
<1>6. batch' = [batch EXCEPT ![b] = t]  BY <1>0, Functions DEF TaskQueueFull
<1>7. a \in BOOLEAN /\ (a => r.asked)  OBVIOUS
<1>8. s \in Fw /\ SameFw(r, s) /\ s.asked = a
  <2> HIDE DEF r, a
  <2> QED BY <1>4, <1>7, AskedOK
<1>9. t \in Batch /\ (t.mode = "PAGES" => batch[b].mode = "PAGES") /\ t.tx = batch[b].tx
  <2>1. 0 \in 0 .. MaxTag /\ FALSE \in BOOLEAN  BY SizeAssumption
  <2>2. UseWords(batch[b]) \in Batch /\ UseWords(batch[b]).mode = "WORDS"
        /\ UseWords(batch[b]).tx = batch[b].tx
    BY <1>2, <2>1, BatchUpdates
  <2> QED BY <1>2, <2>2
<1>10. /\ r.source = fw[b].source /\ r.pin = fw[b].pin /\ r.addr = fw[b].addr
       /\ r.seen = fw[b].seen /\ r.asked = fw[b].asked
       /\ commits => ~r.held /\ (r.dirty <=> fw[b].dirty \/ fw[b].held)
       /\ ~commits => r.held = fw[b].held /\ r.dirty = fw[b].dirty
  BY <1>2, CommittedOK
<1>11. /\ flash' \in [Board -> [Address -> Cell]]
       /\ \A c \in Board : c # b => flash'[c] = flash[c]
       /\ ~fw[b].held \/ ~commits => flash'[b] = flash[b]
       /\ fw[b].held /\ commits => flash'[b] = WritePage(flash[b], fw[b].addr, buffer[b])
  BY <1>0, <1>3, CommitFlashOK, Functions
<1> HIDE DEF s, t, r, a
<1>12. fw' \in [Board -> Fw] /\ fw'[b] = s /\ \A c \in Board : c # b => fw'[c] = fw[c]
  BY <1>0, <1>5, <1>8, Functions, AtBoard
<1>13. batch' \in [Board -> Batch] /\ batch'[b] = t
       /\ \A c \in Board : c # b => batch'[c] = batch[c]
  BY <1>0, <1>6, <1>9, Functions, AtBoard
<1> HIDE DEF commits
<1>14. FirmwareTypeOK'
  BY <1>0, <1>1, <1>3, <1>11, <1>12, <1>13 DEF FirmwareTypeOK
<1>15. /\ s.source = fw[b].source /\ s.pin = fw[b].pin /\ s.addr = fw[b].addr
       /\ s.seen = fw[b].seen /\ (s.asked => fw[b].asked)
       /\ commits => ~s.held /\ (s.dirty <=> fw[b].dirty \/ fw[b].held)
       /\ ~commits => s.held = fw[b].held /\ s.dirty = fw[b].dirty
  BY <1>7, <1>8, <1>10 DEF SameFw
<1>16. link'[b] = link[b] /\ \A c \in Board : c # b => link'[c] = link[c]  BY <1>3
<1> QED
  BY <1>1, <1>3, <1>9, <1>11, <1>12, <1>13, <1>14, <1>15, <1>16 DEF Asks

(* Asking keeps the invariant: whatever is written makes the slot dirty. *)
LEMMA AsksStep ==
  ASSUME FirmwareIInv, NEW b \in Board, Asks(b)
  PROVE  FirmwareIInv'
<1>0. FirmwareTypeOK /\ BoardInv(b)  BY DEF FirmwareIInv
<1>1. ~fw'[b].dirty => ~fw[b].dirty /\ flash'[b] = flash[b]
  BY DEF Asks
<1>2. reboot'[b] = reboot[b] /\ up'[b] = up[b] /\ run'[b] = run[b] /\ ~reboot[b]
  BY DEF Asks, Running
<1>3. BoardInv(b)'
  <2>1. fw'[b].source = "PULL" => fw'[b].pin \in Image /\ Version[fw'[b].pin] >= Version[run'[b]]
    BY <1>0, <1>2 DEF Asks, BoardInv, BoardOK
  <2>2. fw'[b].asked => fw'[b].addr < Size  BY DEF Asks
  <2>3. batch'[b].mode = "PAGES" => fw'[b].addr % Words = 0
    BY <1>0 DEF Asks, BoardInv, BoardOK
  <2>4. up'[b] /\ ~fw'[b].dirty => \E j \in Image : Valid(flash'[b], j)
    BY <1>0, <1>1, <1>2 DEF BoardInv, BoardOK
  <2>5. up'[b] /\ ~fw'[b].dirty /\ fw'[b].source # "DROP" => Valid(flash'[b], run'[b])
    BY <1>0, <1>1, <1>2 DEF BoardInv, BoardOK, Asks
  <2>6. ~reboot'[b]  BY <1>2
  <2> QED BY <2>1, <2>2, <2>3, <2>4, <2>5, <2>6 DEF BoardInv, BoardOK
<1>4. FirmwareTypeOK'  BY DEF Asks
<1>5. \A c \in Board : c # b =>
           /\ up'[c] = up[c] /\ run'[c] = run[c] /\ flash'[c] = flash[c]
           /\ fw'[c] = fw[c] /\ batch'[c] = batch[c] /\ reboot'[c] = reboot[c]
  BY DEF Asks
<1> QED BY <1>3, <1>4, <1>5, OneBoard


-----------------------------------------------------------------------------
(* Ending and restarting a pull *)

(* The other board's state outside the link. *)
Alone(b) ==
  \A c \in Board : c # b =>
    /\ up'[c] = up[c] /\ run'[c] = run[c] /\ flash'[c] = flash[c] /\ buffer'[c] = buffer[c]
    /\ fw'[c] = fw[c] /\ batch'[c] = batch[c] /\ reboot'[c] = reboot[c]

(* The last data has arrived, and the image is good or is not. *)
Finishes(b) ==
  /\ Running(b) /\ fw[b].source = "PULL" /\ fw[b].addr = Size
  /\ fw'[b].source = "NONE" /\ (fw'[b].asked => fw[b].asked) /\ fw'[b].addr = fw[b].addr
  /\ ~fw[b].held => flash'[b] = flash[b]
  /\ fw[b].held => flash'[b] = WritePage(flash[b], fw[b].addr, buffer[b])
  /\ LET good == fw[b].seen = {fw[b].pin} /\ Valid(flash'[b], fw[b].pin)
     IN  /\ (fw'[b].dirty <=> ~good) /\ (reboot'[b] <=> good) /\ (up'[b] <=> good)
         /\ run'[b] = IF good THEN fw[b].pin ELSE run[b]
  /\ UNCHANGED <<buffer, batch, link, written>>
  /\ Alone(b) /\ FirmwareTypeOK'

(* firmware_upgrade_task, after the last word or page. *)
LEMMA FinishFinishes ==
  ASSUME FirmwareIInv, NEW b \in Board, TaskFinish(b)
  PROVE  Finishes(b)
<1>0. FirmwareTypeOK  BY DEF FirmwareIInv
<1> DEFINE good == fw[b].seen = {fw[b].pin} /\ Valid(flash'[b], fw[b].pin)
           bad == ~good
           s == FinishedFw(Committed(fw[b]), bad)
           r == IF good THEN fw[b].pin ELSE run[b]
<1>1. /\ Running(b) /\ fw[b].source = "PULL" /\ fw[b].addr = Size /\ CommitFlash(b)
      /\ UNCHANGED <<buffer, batch, tags, blocks, link, written, reboots, faults>>
  BY DEF TaskFinish
<1>2. fw[b] \in Fw /\ run[b] \in Image  BY <1>0, BoardTypes
<1>3. fw[b].pin \in Image  BY <1>1 DEF FirmwareIInv, BoardInv, BoardOK
<1>4. fw' = [fw EXCEPT ![b] = s]
  <2>1. fw' = [fw EXCEPT ![b] = [Committed(@) EXCEPT !.source = "NONE", !.dirty = bad]]
    BY Zenon DEF TaskFinish
  <2> HIDE DEF bad
  <2> QED BY <1>0, <2>1, Functions DEF FinishedFw
<1>5. /\ run' = [run EXCEPT ![b] = r] /\ reboot' = [reboot EXCEPT ![b] = good]
      /\ up' = [up EXCEPT ![b] = good]
  <2>1. /\ run' = [run EXCEPT ![b] = IF good THEN fw[b].pin ELSE @]
        /\ reboot' = [reboot EXCEPT ![b] = good] /\ up' = [up EXCEPT ![b] = good]
    BY Zenon DEF TaskFinish
  <2> HIDE DEF good
  <2> QED BY <1>0, <2>1, Functions
<1>6. bad \in BOOLEAN /\ good \in BOOLEAN /\ (bad <=> ~good)  OBVIOUS
<1>7. r \in Image  BY <1>2, <1>3
<1> HIDE DEF good, bad
<1>8. /\ s \in Fw /\ s.source = "NONE" /\ s.dirty = bad /\ s.asked = fw[b].asked
      /\ s.addr = fw[b].addr
  <2> DEFINE x == Committed(fw[b])
  <2>1. x \in Fw /\ x.asked = fw[b].asked /\ x.addr = fw[b].addr  BY <1>2, CommittedOK
  <2> HIDE DEF x
  <2>2. /\ FinishedFw(x, bad) \in Fw /\ FinishedFw(x, bad).source = "NONE"
        /\ FinishedFw(x, bad).dirty = bad /\ FinishedFw(x, bad).asked = x.asked
        /\ FinishedFw(x, bad).addr = x.addr
    BY <1>6, <2>1, FinishedOK
  <2> QED BY <2>1, <2>2 DEF x
<1>9. r = IF good THEN fw[b].pin ELSE run[b]  OBVIOUS
<1> HIDE DEF s, r
<1>10. fw' \in [Board -> Fw] /\ fw'[b] = s /\ \A c \in Board : c # b => fw'[c] = fw[c]
  BY <1>0, <1>4, <1>8, Functions, AtBoard
<1>11. run' \in [Board -> Image] /\ run'[b] = r /\ \A c \in Board : c # b => run'[c] = run[c]
  BY <1>0, <1>5, <1>7, Functions, AtBoard
<1>12. /\ reboot' \in [Board -> BOOLEAN] /\ reboot'[b] = good
       /\ \A c \in Board : c # b => reboot'[c] = reboot[c]
       /\ up' \in [Board -> BOOLEAN] /\ up'[b] = good
       /\ \A c \in Board : c # b => up'[c] = up[c]
  BY <1>0, <1>5, <1>6, Functions, AtBoard
<1>13. /\ flash' \in [Board -> [Address -> Cell]]
       /\ \A c \in Board : c # b => flash'[c] = flash[c]
       /\ ~fw[b].held => flash'[b] = flash[b]
       /\ fw[b].held => flash'[b] = WritePage(flash[b], fw[b].addr, buffer[b])
  BY <1>0, <1>1, CommitFlashOK
<1>14. FirmwareTypeOK'
  BY <1>0, <1>1, <1>10, <1>11, <1>12, <1>13 DEF FirmwareTypeOK
<1>15. Alone(b)  BY <1>1, <1>10, <1>11, <1>12, <1>13 DEF Alone
<1>16. (fw'[b].dirty <=> ~good) /\ (reboot'[b] <=> good) /\ (up'[b] <=> good)
       /\ run'[b] = IF good THEN fw[b].pin ELSE run[b]
  BY <1>6, <1>8, <1>9, <1>10, <1>11, <1>12
<1> QED
  BY <1>1, <1>8, <1>10, <1>13, <1>14, <1>15, <1>16 DEF Finishes, good

(* The slot is what it is said to be. *)
LEMMA FinishStep ==
  ASSUME FirmwareIInv, NEW b \in Board, Finishes(b)
  PROVE  FirmwareIInv'
<1>0. FirmwareTypeOK /\ BoardInv(b)  BY DEF FirmwareIInv
<1> DEFINE good == fw[b].seen = {fw[b].pin} /\ Valid(flash'[b], fw[b].pin)
<1>1. /\ (fw'[b].dirty <=> ~good) /\ (reboot'[b] <=> good) /\ (up'[b] <=> good)
      /\ run'[b] = IF good THEN fw[b].pin ELSE run[b]
  BY Zenon DEF Finishes
<1>2. fw[b].pin \in Image  BY <1>0 DEF Finishes, BoardInv, BoardOK
<1>3. BoardInv(b)'
  <2>1. fw'[b].source = "NONE" /\ (fw'[b].asked => fw'[b].addr < Size)
    BY <1>0 DEF Finishes, BoardInv, BoardOK
  <2>2. batch'[b].mode = "PAGES" => fw'[b].addr % Words = 0
    BY <1>0 DEF Finishes, BoardInv, BoardOK
  <2>3. up'[b] => Valid(flash'[b], run'[b]) /\ run'[b] \in Image /\ ~fw'[b].dirty
    BY <1>1, <1>2
  <2> QED BY <2>1, <2>2, <2>3 DEF BoardInv, BoardOK
<1>4. FirmwareTypeOK' /\ Alone(b)  BY DEF Finishes
<1> QED BY <1>3, <1>4, OneBoard DEF Alone

(* A pull is left alone, begun (again), or stopped: by a heartbeat for     *)
(* image i, or by a stall.                                                 *)
Turns(b, i) ==
  /\ i \in Image
  /\ \/ fw'[b] = fw[b] /\ batch'[b] = batch[b]
     \/ /\ Running(b) /\ (Begins(b, i) \/ (i = fw[b].pin /\ fw[b].source = "PULL"))
        /\ fw'[b] = BeginPull(i, fw[b].dirty, TRUE) \/ fw'[b] = BeginPull(i, fw[b].dirty, FALSE)
        /\ batch'[b] = BeginBatch(batch[b])
     \/ /\ Running(b) /\ fw[b].source = "PULL"
        /\ fw'[b] = StopPull(fw[b]) /\ batch'[b] = batch[b]
  /\ UNCHANGED <<up, run, flash, buffer, reboot, written>>
  /\ Alone(b) /\ FirmwareTypeOK'

(* A step of a pull. *)
LEMMA TurnsStep ==
  ASSUME FirmwareIInv, NEW b \in Board, NEW i, Turns(b, i)
  PROVE  FirmwareIInv'
<1>0. FirmwareTypeOK /\ BoardInv(b)  BY DEF FirmwareIInv
<1>1. fw[b] \in Fw /\ batch[b] \in Batch /\ run[b] \in Image /\ i \in Image
      /\ Version[run[b]] \in Nat /\ Version[i] \in Nat
  BY <1>0, BoardTypes, ImageAssumption DEF Turns
<1>2. UNCHANGED <<up, run, flash, reboot>> /\ Alone(b) /\ FirmwareTypeOK'  BY DEF Turns
<1>3. CASE fw'[b] = fw[b] /\ batch'[b] = batch[b]
  <2>1. BoardInv(b)'  BY <1>0, <1>2, <1>3 DEF BoardInv
  <2> QED BY <1>2, <2>1, OneBoard DEF Alone
<1>4. CASE /\ Running(b) /\ (Begins(b, i) \/ (i = fw[b].pin /\ fw[b].source = "PULL"))
           /\ fw'[b] = BeginPull(i, fw[b].dirty, TRUE) \/ fw'[b] = BeginPull(i, fw[b].dirty, FALSE)
           /\ batch'[b] = BeginBatch(batch[b])
  <2>1. Version[i] >= Version[run[b]]
    <3>1. CASE Begins(b, i)
      BY <1>1, <3>1 DEF Begins, Newer, Repairs
    <3>2. CASE i = fw[b].pin /\ fw[b].source = "PULL"
      BY <1>0, <3>2 DEF BoardInv, BoardOK
    <3> QED BY <1>4, <3>1, <3>2
  <2>2. i \in Cell /\ fw[b].dirty \in BOOLEAN  BY <1>1, Cells, FwFields
  <2>3. /\ fw'[b].source = "PULL" /\ ~fw'[b].asked /\ fw'[b].dirty = fw[b].dirty
        /\ fw'[b].pin = i /\ fw'[b].addr = 0
    <3>1. PICK drain \in BOOLEAN : fw'[b] = BeginPull(i, fw[b].dirty, drain)
      BY <1>4
    <3> QED BY <2>2, <3>1, BeginPullOK
  <2>4. batch'[b].mode = "PROBE"  BY <1>1, <1>4, BeginBatchOK
  <2>5. fw[b].source # "DROP"
    BY <1>4 DEF Begins
  <2>6. ~reboot[b]  BY <1>4 DEF Running
  <2>7. up[b] /\ ~fw[b].dirty => Valid(flash[b], run[b])
    BY <1>0, <2>5 DEF BoardInv, BoardOK
  <2>8. BoardInv(b)'
    BY <1>1, <1>2, <2>1, <2>3, <2>4, <2>6, <2>7 DEF BoardInv, BoardOK
  <2> QED BY <1>2, <2>8, OneBoard DEF Alone
<1>5. CASE /\ Running(b) /\ fw[b].source = "PULL"
           /\ fw'[b] = StopPull(fw[b]) /\ batch'[b] = batch[b]
  <2>1. /\ fw'[b].source \in {"NONE", "PAUSED"} /\ ~fw'[b].asked
        /\ (fw'[b].dirty <=> fw[b].dirty) /\ fw'[b].addr \in {0, fw[b].addr}
    BY <1>1, <1>5, StopPullOK
  <2>2. batch'[b].mode = "PAGES" => fw'[b].addr % Words = 0
    BY <1>0, <1>5, <2>1, Sizes DEF BoardInv, BoardOK
  <2>3. ~reboot[b]  BY <1>5 DEF Running
  <2>4. up[b] /\ ~fw[b].dirty => Valid(flash[b], run[b])
    BY <1>0, <1>5 DEF BoardInv, BoardOK
  <2>5. BoardInv(b)'
    BY <1>1, <1>2, <2>1, <2>2, <2>3, <2>4 DEF BoardInv, BoardOK
  <2> QED BY <1>2, <2>5, OneBoard DEF Alone
<1> QED BY <1>3, <1>4, <1>5 DEF Turns

(* firmware_upgrade_task after 30 s without progress. *)
LEMMA StalledTurns ==
  ASSUME FirmwareIInv, NEW b \in Board, TaskStalled(b)
  PROVE  fw[b].source = "PULL" /\ Turns(b, fw[b].pin) /\ link' = link
<1>0. FirmwareTypeOK  BY DEF FirmwareIInv
<1>1. /\ Running(b) /\ fw[b].source = "PULL"
      /\ faults + written < MaxFaults /\ faults' = faults + 1
      /\ UNCHANGED <<up, run, flash, buffer, tags, blocks, reboot, link, written, reboots>>
  BY DEF TaskStalled
<1>2. fw[b] \in Fw /\ batch[b] \in Batch  BY <1>0, BoardTypes
<1>3. fw[b].pin \in Image /\ fw[b].dirty \in BOOLEAN
  BY <1>1, <1>2, FwFields DEF FirmwareIInv, BoardInv, BoardOK
<1> DEFINE i == fw[b].pin
           s1 == BeginPull(i, TRUE, TRUE)
<1>4. i \in Cell  BY <1>3, Cells
<1>5. s1 \in Fw  BY <1>4, BeginPullOK
<1>6. \/ fw' = [fw EXCEPT ![b] = StopPull(fw[b])] /\ batch' = batch
      \/ /\ fw[b].dirty /\ fw' = [fw EXCEPT ![b] = s1]
         /\ batch' = [batch EXCEPT ![b] = BeginBatch(batch[b])]
  BY <1>0, Functions DEF TaskStalled, StopPull
<1>7. faults' \in 0 .. MaxFaults
  BY <1>0, <1>1, PullBoundAssumption DEF FirmwareTypeOK
<1>8. CASE fw' = [fw EXCEPT ![b] = StopPull(fw[b])] /\ batch' = batch
  <2>1. StopPull(fw[b]) \in Fw  BY <1>2, StopPullOK
  <2>2. fw' \in [Board -> Fw] /\ fw'[b] = StopPull(fw[b])
        /\ \A c \in Board : c # b => fw'[c] = fw[c]
    BY <1>0, <1>8, <2>1, Functions, AtBoard
  <2>3. FirmwareTypeOK'  BY <1>0, <1>1, <1>7, <1>8, <2>2 DEF FirmwareTypeOK
  <2> QED BY <1>1, <1>3, <1>8, <2>2, <2>3 DEF Turns, Alone
<1>9. CASE /\ fw[b].dirty /\ fw' = [fw EXCEPT ![b] = s1]
           /\ batch' = [batch EXCEPT ![b] = BeginBatch(batch[b])]
  <2> HIDE DEF s1
  <2>1. fw' \in [Board -> Fw] /\ fw'[b] = s1 /\ \A c \in Board : c # b => fw'[c] = fw[c]
    BY <1>0, <1>5, <1>9, Functions, AtBoard
  <2>2. batch' \in [Board -> Batch] /\ batch'[b] = BeginBatch(batch[b])
        /\ \A c \in Board : c # b => batch'[c] = batch[c]
    BY <1>0, <1>2, <1>9, BeginBatchOK, Functions, AtBoard
  <2>3. FirmwareTypeOK'  BY <1>0, <1>1, <1>7, <2>1, <2>2 DEF FirmwareTypeOK
  <2>4. fw[b].dirty = TRUE  BY <1>3, <1>9
  <2>5. fw'[b] = BeginPull(fw[b].pin, fw[b].dirty, TRUE)  BY <2>1, <2>4 DEF s1
  <2> QED BY <1>1, <1>3, <2>1, <2>2, <2>3, <2>5 DEF Turns, Alone
<1> QED BY <1>6, <1>8, <1>9

(* handle_heartbeat_msg *)
LEMMA HeartbeatTurns ==
  ASSUME FirmwareIInv, NEW b \in Board, ReceiveHeartbeat(b)
  PROVE  /\ link[Peer(b)] # <<>> /\ Incoming(b).type = "HEARTBEAT"
         /\ Turns(b, Incoming(b).image) /\ Consume(b)
<1>0. FirmwareTypeOK  BY DEF FirmwareIInv
<1> DEFINE i == Incoming(b).image
           hears == Running(b) /\ run[b] \notin Unmarked
           begins == hears /\ i \notin Unmarked /\ Begins(b, i)
           stops == hears /\ fw[b].source = "PULL" /\ i # fw[b].pin /\ ~begins
           drain == fw[b].source # "NONE"
           s == IF begins THEN BeginPull(i, fw[b].dirty, drain)
                ELSE IF stops THEN StopPull(fw[b]) ELSE fw[b]
           t == IF begins THEN BeginBatch(batch[b]) ELSE batch[b]
<1>1. /\ link[Peer(b)] # <<>> /\ Incoming(b).type = "HEARTBEAT" /\ Consume(b)
      /\ UNCHANGED <<up, run, flash, buffer, tags, blocks, reboot, written, reboots, faults>>
  BY DEF ReceiveHeartbeat, Arrives
<1>2. i \in Image  BY <1>0, <1>1, IncomingOK, PacketFields
<1>3. fw[b] \in Fw /\ batch[b] \in Batch  BY <1>0, BoardTypes
<1>4. fw' = [fw EXCEPT ![b] = s]
  BY <1>0, Functions DEF ReceiveHeartbeat
<1>5. batch' = [batch EXCEPT ![b] = t]
  BY <1>0, Functions DEF ReceiveHeartbeat
<1>6. drain \in BOOLEAN  OBVIOUS
<1>7. drain = TRUE \/ drain = FALSE  BY <1>6
<1> HIDE DEF drain, i
<1>8. s \in Fw
  <2>1. i \in Cell /\ fw[b].dirty \in BOOLEAN  BY <1>2, <1>3, Cells, FwFields
  <2>2. BeginPull(i, fw[b].dirty, drain) \in Fw  BY <1>6, <2>1, BeginPullOK
  <2>3. StopPull(fw[b]) \in Fw  BY <1>3, StopPullOK
  <2> QED BY <1>3, <2>2, <2>3
<1>9. t \in Batch  BY <1>3, BeginBatchOK
<1>10. \/ s = fw[b] /\ t = batch[b]
       \/ Running(b) /\ Begins(b, i) /\ s = BeginPull(i, fw[b].dirty, drain)
            /\ t = BeginBatch(batch[b])
       \/ Running(b) /\ fw[b].source = "PULL" /\ s = StopPull(fw[b]) /\ t = batch[b]
  OBVIOUS
<1> HIDE DEF s, t
<1>11. fw' \in [Board -> Fw] /\ fw'[b] = s /\ \A c \in Board : c # b => fw'[c] = fw[c]
  BY <1>0, <1>4, <1>8, Functions, AtBoard
<1>12. batch' \in [Board -> Batch] /\ batch'[b] = t
       /\ \A c \in Board : c # b => batch'[c] = batch[c]
  BY <1>0, <1>5, <1>9, Functions, AtBoard
<1>13. LinkOK(link')  BY <1>0, <1>1, PeerFacts, ConsumeOK DEF Consume
<1>14. FirmwareTypeOK'
  BY <1>0, <1>1, <1>11, <1>12, <1>13 DEF FirmwareTypeOK, LinkOK
<1>15. Alone(b)  BY <1>1, <1>11, <1>12 DEF Alone
<1>16. Turns(b, i)
  BY <1>1, <1>2, <1>7, <1>10, <1>11, <1>12, <1>14, <1>15 DEF Turns
<1> QED BY <1>1, <1>16 DEF i

-----------------------------------------------------------------------------
(* Serving *)

(* What a board puts on the link of its own accord or as an answer. *)
Served(b, m) ==
  \/ m.type \notin {"HEARTBEAT", "WORD", "PAGE"}
  \/ m.type = "HEARTBEAT" /\ m.image = run[b]
  \/ m.type = "PAGE" /\ m.data = batch[b].tx /\ batch[b].tx # NoPage
  \/ m.type = "WORD" /\ \E a \in Address : m.cell = flash[b][a]

(* A page that is copied out of the slot. *)
Copied(b, x) ==
  CanServe(b) /\ \A w \in 0 .. Words - 1 : \E a \in Address : x.cells[w] = flash[b][a]

(* A board answers, or a packet is lost: no update moves. *)
Serves(b) ==
  /\ UNCHANGED <<up, run, flash, buffer, fw, reboot, written>>
  /\ batch'[b].mode = batch[b].mode
  /\ batch'[b].tx = batch[b].tx \/ batch'[b].tx = NoPage \/ Copied(b, batch'[b].tx)
  /\ \/ link'[Peer(b)] = link[Peer(b)]
     \/ link[Peer(b)] # <<>> /\ link'[Peer(b)] = Tail(link[Peer(b)])
  /\ \/ link'[b] = link[b]
     \/ link[b] # <<>> /\ link'[b] = Tail(link[b])
     \/ \E m \in Packet : Served(b, m) /\ link'[b] = Append(link[b], m)
  /\ Alone(b) /\ FirmwareTypeOK'

(* The board that asks is not looked at, and the one that answers is as it *)
(* was.                                                                    *)
LEMMA ServesStep ==
  ASSUME FirmwareIInv, NEW b \in Board, Serves(b)
  PROVE  FirmwareIInv'
<1>1. BoardInv(b)  BY DEF FirmwareIInv
<1>2. /\ UNCHANGED <<up, run, flash, fw, reboot>> /\ batch'[b].mode = batch[b].mode
      /\ Alone(b) /\ FirmwareTypeOK'
  BY DEF Serves
<1>3. BoardInv(b)'  BY <1>1, <1>2 DEF BoardInv, BoardOK
<1> QED BY <1>2, <1>3, OneBoard DEF Alone

(* heartbeat_output_task *)
LEMMA HeartbeatServes ==
  ASSUME FirmwareIInv, NEW b \in Board, Heartbeat(b)
  PROVE  Serves(b)
<1>0. FirmwareTypeOK  BY DEF FirmwareIInv
<1> DEFINE m == [type |-> "HEARTBEAT", image |-> run[b]]
<1>1. /\ Room(b) /\ Send(b, m)
      /\ UNCHANGED <<up, run, flash, buffer, fw, batch, tags, blocks, reboot,
                     written, reboots, faults>>
  BY DEF Heartbeat
<1>2. m \in Packet /\ m.type = "HEARTBEAT" /\ m.image = run[b]
  BY <1>0, BoardTypes, PacketTypes
<1> HIDE DEF m
<1>3. LinkOK(link') /\ link'[b] = Append(link[b], m)
      /\ \A c \in Board : c # b => link'[c] = link[c]
  BY <1>0, <1>1, <1>2, SendOK
<1>4. FirmwareTypeOK'  BY <1>0, <1>1, <1>3 DEF FirmwareTypeOK, LinkOK
<1>5. Served(b, m)  BY <1>2 DEF Served
<1>6. link'[Peer(b)] = link[Peer(b)]  BY <1>3, PeerFacts
<1> QED BY <1>1, <1>2, <1>3, <1>4, <1>5, <1>6 DEF Serves, Alone

(* A packet is lost on the way. *)
LEMMA LoseServes ==
  ASSUME FirmwareIInv, NEW b \in Board, Lose(b)
  PROVE  Serves(b)
<1>0. FirmwareTypeOK  BY DEF FirmwareIInv
<1>1. /\ link[b] # <<>> /\ faults + written < MaxFaults /\ faults' = faults + 1
      /\ link' = [link EXCEPT ![b] = Tail(@)]
      /\ UNCHANGED <<up, run, flash, buffer, fw, batch, tags, blocks, reboot, written, reboots>>
  BY DEF Lose
<1>2. LinkOK(link') /\ link'[b] = Tail(link[b])
      /\ \A c \in Board : c # b => link'[c] = link[c]
  BY <1>0, <1>1, ConsumeOK
<1>3. faults' \in 0 .. MaxFaults
  BY <1>0, <1>1, PullBoundAssumption DEF FirmwareTypeOK
<1>4. FirmwareTypeOK'  BY <1>0, <1>1, <1>2, <1>3 DEF FirmwareTypeOK, LinkOK
<1>5. link'[Peer(b)] = link[Peer(b)]  BY <1>2, PeerFacts
<1> QED BY <1>1, <1>2, <1>4, <1>5 DEF Serves, Alone

(* A handler takes the packet at the head of the link. *)
LEMMA Consumes ==
  ASSUME FirmwareTypeOK, NEW b \in Board, link[Peer(b)] # <<>>, Consume(b)
  PROVE  /\ LinkOK(link') /\ link'[Peer(b)] = Tail(link[Peer(b)]) /\ link'[b] = link[b]
         /\ Incoming(b) \in Packet
<1>1. Peer(b) \in Board /\ Peer(b) # b  BY PeerFacts
<1>2. link' = [link EXCEPT ![Peer(b)] = Tail(@)]  BY DEF Consume
<1>3. LinkOK(link') /\ link'[Peer(b)] = Tail(link[Peer(b)])
      /\ \A c \in Board : c # Peer(b) => link'[c] = link[c]
  BY <1>1, <1>2, ConsumeOK
<1> QED BY <1>1, <1>3, IncomingOK

(* handle_request_byte_msg *)
LEMMA WordRequestServes ==
  ASSUME FirmwareIInv, NEW b \in Board, ReceiveWordRequest(b)
  PROVE  Serves(b)
<1>0. FirmwareTypeOK  BY DEF FirmwareIInv
<1> DEFINE a == Incoming(b).addr
           m == [type |-> "WORD", addr |-> a, cell |-> flash[b][a]]
<1>1. /\ link[Peer(b)] # <<>> /\ Incoming(b).type = "WORD_REQUEST"
      /\ (Room(b) /\ Reply(b, m)) \/ Consume(b)
      /\ UNCHANGED <<up, run, flash, buffer, fw, batch, tags, blocks, reboot, written,
                     reboots, faults>>
  BY DEF ReceiveWordRequest, Arrives
<1>2. Incoming(b) \in Packet  BY <1>0, <1>1, IncomingOK
<1>3. a \in Address  BY <1>1, <1>2, PacketFields
<1>4. flash[b][a] \in Cell
  <2>1. flash[b] \in [Address -> Cell]  BY <1>0, BoardTypes
  <2> HIDE DEF a
  <2> QED BY <1>3, <2>1
<1>5. m \in Packet /\ m.type = "WORD" /\ m.cell = flash[b][a]
  <2> HIDE DEF a
  <2> QED BY <1>3, <1>4, PacketTypes
<1> HIDE DEF m, a
<1>6. Served(b, m)  BY <1>3, <1>5 DEF Served
<1>7. LinkOK(link') /\ link'[Peer(b)] = Tail(link[Peer(b)])
      /\ (link'[b] = link[b] \/ link'[b] = Append(link[b], m))
  <2>1. CASE Room(b) /\ Reply(b, m)  BY <1>0, <1>1, <1>5, <2>1, ReplyOK
  <2>2. CASE Consume(b)  BY <1>0, <1>1, <2>2, Consumes
  <2> QED BY <1>1, <2>1, <2>2
<1>8. FirmwareTypeOK'  BY <1>0, <1>1, <1>7 DEF FirmwareTypeOK, LinkOK
<1> QED BY <1>1, <1>5, <1>6, <1>7, <1>8 DEF Serves, Alone

(* receive_caps_request *)
LEMMA CapsRequestServes ==
  ASSUME FirmwareIInv, NEW b \in Board, ReceiveCapsRequest(b)
  PROVE  Serves(b)
<1>0. FirmwareTypeOK  BY DEF FirmwareIInv
<1> DEFINE g == Incoming(b).tag
           m == [type |-> "CAPS_RESPONSE", tag |-> g, image |-> run[b]]
           fresh == ~batch[b].enabled \/ batch[b].srcTag # g
           l == IF fresh THEN g ELSE batch[b].last
           x == IF fresh THEN NoPage ELSE batch[b].tx
           t == ServingBatch(batch[b], g, l, x)
<1>1. /\ link[Peer(b)] # <<>> /\ Incoming(b).type = "CAPS_REQUEST"
      /\ UNCHANGED <<up, run, flash, buffer, fw, tags, blocks, reboot, written,
                     reboots, faults>>
  BY DEF ReceiveCapsRequest, Arrives
<1>2. batch[b] \in Batch /\ run[b] \in Image /\ batch \in [Board -> Batch]
  BY <1>0, BoardTypes, Functions
<1>3. \/ Room(b) /\ Reply(b, m) /\ batch' = [batch EXCEPT ![b] = t]
      \/ Consume(b) /\ batch' = batch
  <2>1. \/ /\ Room(b) /\ Reply(b, m)
           /\ batch' = [batch EXCEPT ![b] =
                          [batch[b] EXCEPT !.enabled = TRUE, !.srcTag = g,
                                    !.last = IF fresh THEN g ELSE @,
                                    !.tx = IF fresh THEN NoPage ELSE @]]
        \/ Consume(b) /\ batch' = batch
    BY Zenon DEF ReceiveCapsRequest
  <2> HIDE DEF fresh, g, m
  <2>2. [batch[b] EXCEPT !.enabled = TRUE, !.srcTag = g,
                         !.last = IF fresh THEN g ELSE @,
                         !.tx = IF fresh THEN NoPage ELSE @] = t
    BY <1>2 DEF ServingBatch, Batch
  <2> HIDE DEF t
  <2> QED BY <1>2, <2>1, <2>2
<1>4. g \in 1 .. MaxTag /\ g \in 0 .. MaxTag
  BY <1>0, <1>1, IncomingOK, PacketFields, SizeAssumption
<1> HIDE DEF g
<1>5. m \in Packet /\ m.type = "CAPS_RESPONSE"  BY <1>2, <1>4, PacketTypes
<1>6. l \in 0 .. MaxTag /\ x \in TxPage  BY <1>2, <1>4, BatchFields, TxPageOK
<1>7. x = batch[b].tx \/ x = NoPage  OBVIOUS
<1> HIDE DEF m, l, x
<1>8. t \in Batch /\ t.mode = batch[b].mode /\ t.tx = x  BY <1>2, <1>4, <1>6, ServesOK
<1> HIDE DEF t
<1>9. LinkOK(link') /\ link'[Peer(b)] = Tail(link[Peer(b)])
      /\ (link'[b] = link[b] \/ link'[b] = Append(link[b], m))
  <2>1. CASE Room(b) /\ Reply(b, m)  BY <1>0, <1>1, <1>5, <2>1, ReplyOK
  <2>2. CASE Consume(b)  BY <1>0, <1>1, <2>2, Consumes
  <2> QED BY <1>3, <2>1, <2>2
<1>10. /\ batch' \in [Board -> Batch] /\ (batch'[b] = t \/ batch'[b] = batch[b])
       /\ \A c \in Board : c # b => batch'[c] = batch[c]
  BY <1>2, <1>3, <1>8, AtBoard
<1>11. FirmwareTypeOK'  BY <1>0, <1>1, <1>9, <1>10 DEF FirmwareTypeOK, LinkOK
<1>12. Served(b, m)  BY <1>5 DEF Served
<1>13. batch'[b].mode = batch[b].mode
       /\ (batch'[b].tx = batch[b].tx \/ batch'[b].tx = NoPage)
  BY <1>7, <1>8, <1>10
<1> QED BY <1>1, <1>5, <1>9, <1>10, <1>11, <1>12, <1>13 DEF Serves, Alone

(* receive_page_request *)
LEMMA PageRequestServes ==
  ASSUME FirmwareIInv, NEW b \in Board, ReceivePageRequest(b)
  PROVE  Serves(b)
<1>0. FirmwareTypeOK  BY DEF FirmwareIInv
<1> DEFINE g == Incoming(b).tag
           p == Incoming(b).page
           c == [w \in 0 .. Words - 1 |-> flash[b][p * Words + w]]
           x == [tag |-> g, page |-> p, cells |-> c]
           t == LoadedBatch(batch[b], g, x)
<1>1. /\ link[Peer(b)] # <<>> /\ Incoming(b).type = "PAGE_REQUEST" /\ Consume(b)
      /\ UNCHANGED <<up, run, flash, buffer, fw, tags, blocks, reboot, written,
                     reboots, faults>>
  BY DEF ReceivePageRequest, Arrives
<1>2. batch[b] \in Batch /\ batch \in [Board -> Batch] /\ flash[b] \in [Address -> Cell]
  BY <1>0, BoardTypes, Functions
<1>3. (CanServe(b) /\ batch' = [batch EXCEPT ![b] = t]) \/ batch' = batch
  <2>1. \/ CanServe(b) /\ batch' = [batch EXCEPT ![b].last = g, ![b].tx = x]
        \/ batch' = batch
    BY Zenon DEF ReceivePageRequest
  <2> HIDE DEF g, x
  <2>2. [batch EXCEPT ![b].last = g, ![b].tx = x] = [batch EXCEPT ![b] = t]
    BY <1>2 DEF LoadedBatch
  <2> QED BY <2>1, <2>2, Zenon
<1>4. g \in 0 .. MaxTag /\ p \in Page
  BY <1>0, <1>1, IncomingOK, PacketFields, SizeAssumption
<1> HIDE DEF g, p
<1>5. \A w \in 0 .. Words - 1 : p * Words + w \in Address  BY <1>4, WordOfPage
<1>6. c \in [0 .. Words - 1 -> Cell]
      /\ \A w \in 0 .. Words - 1 : \E a \in Address : c[w] = flash[b][a]
  BY <1>2, <1>5
<1> HIDE DEF c
<1>7. x \in TxPage /\ x.cells = c  BY <1>4, <1>6, TxPageOK
<1> HIDE DEF x
<1>8. t \in Batch /\ t.mode = batch[b].mode /\ t.tx = x  BY <1>2, <1>4, <1>7, ServesOK
<1> HIDE DEF t
<1>9. LinkOK(link') /\ link'[Peer(b)] = Tail(link[Peer(b)]) /\ link'[b] = link[b]
  BY <1>0, <1>1, Consumes
<1>10. /\ batch' \in [Board -> Batch]
       /\ (CanServe(b) /\ batch'[b] = t) \/ batch'[b] = batch[b]
       /\ \A d \in Board : d # b => batch'[d] = batch[d]
  BY <1>2, <1>3, <1>8, AtBoard
<1>11. FirmwareTypeOK'  BY <1>0, <1>1, <1>9, <1>10 DEF FirmwareTypeOK, LinkOK
<1>12. batch'[b].mode = batch[b].mode
       /\ (batch'[b].tx = batch[b].tx \/ Copied(b, batch'[b].tx))
  BY <1>6, <1>7, <1>8, <1>10 DEF Copied
<1> QED BY <1>1, <1>9, <1>10, <1>11, <1>12 DEF Serves, Alone

(* firmware_batch_next_tx *)
LEMMA SendPageServes ==
  ASSUME FirmwareIInv, NEW b \in Board, SendPage(b)
  PROVE  Serves(b)
<1>0. FirmwareTypeOK  BY DEF FirmwareIInv
<1> DEFINE m == [type |-> "PAGE", data |-> batch[b].tx]
           e == batch[b].enabled /\ CanServe(b)
           t == SentBatch(batch[b], e)
<1>1. /\ batch[b].tx # NoPage /\ Room(b) /\ (Send(b, m) \/ link' = link)
      /\ UNCHANGED <<up, run, flash, buffer, fw, tags, blocks, reboot, written,
                     reboots, faults>>
  BY DEF SendPage
<1>2. batch[b] \in Batch /\ batch \in [Board -> Batch] /\ batch[b].tx \in TxPage
  BY <1>0, BoardTypes, Functions, BatchFields
<1>3. batch' = [batch EXCEPT ![b] = t]
  <2>1. batch' = [batch EXCEPT ![b].tx = NoPage, ![b].enabled = @ /\ CanServe(b)]
    BY Zenon DEF SendPage
  <2>2. batch' = [batch EXCEPT ![b].tx = NoPage, ![b].enabled = e]
    BY <1>2, <2>1 DEF Batch
  <2> HIDE DEF e
  <2> QED BY <1>2, <2>2, SentAt, Zenon
<1>4. m \in Packet /\ m.type = "PAGE" /\ m.data = batch[b].tx  BY <1>2, PacketTypes
<1>5. 0 \in 0 .. MaxTag /\ e \in BOOLEAN  BY SizeAssumption
<1> HIDE DEF m, e
<1>6. t \in Batch /\ t.mode = batch[b].mode /\ t.tx = NoPage
  BY <1>2, <1>5, BatchUpdates
<1> HIDE DEF t
<1>7. /\ LinkOK(link') /\ (link'[b] = link[b] \/ link'[b] = Append(link[b], m))
      /\ \A c \in Board : c # b => link'[c] = link[c]
  <2>1. CASE Send(b, m)  BY <1>0, <1>1, <1>4, <2>1, SendOK
  <2>2. CASE link' = link  BY <1>0, <2>2 DEF LinkOK, FirmwareTypeOK
  <2> QED BY <1>1, <2>1, <2>2
<1>8. /\ batch' \in [Board -> Batch] /\ batch'[b] = t
      /\ \A c \in Board : c # b => batch'[c] = batch[c]
  BY <1>2, <1>3, <1>6, AtBoard
<1>9. FirmwareTypeOK'  BY <1>0, <1>1, <1>7, <1>8 DEF FirmwareTypeOK, LinkOK
<1>10. Served(b, m)  BY <1>1, <1>4 DEF Served
<1>11. link'[Peer(b)] = link[Peer(b)]  BY <1>7, PeerFacts
<1>12. batch'[b].mode = batch[b].mode /\ batch'[b].tx = NoPage  BY <1>6, <1>8
<1> QED BY <1>1, <1>4, <1>7, <1>8, <1>9, <1>10, <1>11, <1>12 DEF Serves, Alone

-----------------------------------------------------------------------------
(* Taking data *)

(* What an answer leaves alone. *)
Keeps(b) ==
  /\ UNCHANGED <<up, run, flash, reboot, written>>
  /\ fw'[b].source = fw[b].source /\ fw'[b].pin = fw[b].pin /\ fw'[b].dirty = fw[b].dirty
  /\ batch'[b].tx = batch[b].tx
  /\ link[Peer(b)] # <<>> /\ link'[Peer(b)] = Tail(link[Peer(b)]) /\ link'[b] = link[b]
  /\ Alone(b) /\ FirmwareTypeOK'

(* It is taken for nothing but a sign of life, which may begin page mode,  *)
(* or a page of which a part has arrived.                                  *)
Notes(b) ==
  /\ fw'[b].addr = fw[b].addr /\ fw'[b].seen = fw[b].seen
  /\ fw'[b].held = fw[b].held /\ fw'[b].asked = fw[b].asked
  /\ batch'[b].mode = batch[b].mode \/ fw[b].addr = 0
  /\ buffer'[b] = buffer[b] \/ (fw[b].asked /\ batch[b].mode = "PAGES" /\ fw[b].source = "PULL")

(* It is the page ... *)
TakesPage(b) ==
  LET m == Incoming(b).data
  IN  /\ Incoming(b).type = "PAGE" /\ fw[b].source = "PULL" /\ fw[b].asked
      /\ batch[b].mode = "PAGES" /\ batch'[b].mode = "PAGES"
      /\ fw'[b].addr = fw[b].addr + Words /\ fw'[b].held /\ ~fw'[b].asked
      /\ fw'[b].seen = Summed(fw[b].seen, fw[b].addr, {m.cells[w] : w \in 0 .. Words - 1})
      /\ buffer'[b] = m.cells

(* ... or the word that the pull waits for. *)
TakesWord(b) ==
  LET m == Incoming(b)
      next == fw[b].addr + 1
  IN  /\ Incoming(b).type = "WORD" /\ fw[b].source = "PULL" /\ fw[b].asked
      /\ batch[b].mode = "WORDS" /\ batch'[b].mode = "WORDS" /\ fw[b].addr = m.addr
      /\ fw'[b].addr = next /\ (fw'[b].held <=> fw[b].held \/ next % Words = 0) /\ ~fw'[b].asked
      /\ fw'[b].seen = Summed(fw[b].seen, fw[b].addr, {m.cell})
      /\ buffer'[b] = [buffer[b] EXCEPT ![fw[b].addr % Words] = m.cell]

Takes(b) == Keeps(b) /\ (Notes(b) \/ TakesPage(b) \/ TakesWord(b))

(* Pages end at page boundaries, and nothing touches the slot. *)
LEMMA TakesStep ==
  ASSUME FirmwareIInv, NEW b \in Board, Takes(b)
  PROVE  FirmwareIInv'
<1>1. FirmwareTypeOK /\ BoardInv(b)  BY DEF FirmwareIInv
<1>2. fw[b] \in Fw  BY <1>1, BoardTypes
<1>3. fw[b].addr \in Nat /\ fw[b].addr <= Size /\ Words \in Nat \ {0} /\ Size \in Nat
  BY <1>2, FwFields, Sizes
<1>4. /\ UNCHANGED <<up, run, flash, reboot>>
      /\ fw'[b].source = fw[b].source /\ fw'[b].pin = fw[b].pin /\ fw'[b].dirty = fw[b].dirty
      /\ Alone(b) /\ FirmwareTypeOK'
  BY DEF Takes, Keeps
<1>5. fw'[b].asked => fw'[b].addr < Size
  BY <1>1 DEF Takes, Notes, TakesPage, TakesWord, BoardInv, BoardOK
<1>6. batch'[b].mode = "PAGES" => fw'[b].addr % Words = 0
  <2>1. CASE Notes(b)
    BY <1>1, <2>1, Sizes DEF Notes, BoardInv, BoardOK
  <2>2. CASE TakesPage(b)
    <3>1. fw[b].addr % Words = 0 /\ fw[b].addr < Size
      BY <1>1, <2>2 DEF TakesPage, BoardInv, BoardOK
    <3>2. (fw[b].addr + Words) % Words = 0
      BY <1>3, <3>1, PageFits, SizeAssumption DEF Size
    <3> QED BY <2>2, <3>2 DEF TakesPage
  <2>3. CASE TakesWord(b)  BY <2>3 DEF TakesWord
  <2> QED BY <2>1, <2>2, <2>3 DEF Takes
<1>7. BoardInv(b)'  BY <1>1, <1>4, <1>5, <1>6 DEF BoardInv, BoardOK
<1> QED BY <1>4, <1>7, OneBoard DEF Alone

(* receive_caps_response *)
LEMMA CapsResponseTakes ==
  ASSUME FirmwareIInv, NEW b \in Board, ReceiveCapsResponse(b)
  PROVE  Takes(b)
<1>0. FirmwareTypeOK  BY DEF FirmwareIInv
<1> DEFINE s == ReadyFw(fw[b])
           t == PagesBatch(batch[b])
<1>1. /\ link[Peer(b)] # <<>> /\ Consume(b)
      /\ UNCHANGED <<up, run, flash, buffer, tags, blocks, reboot, written, reboots, faults>>
  BY DEF ReceiveCapsResponse, Arrives
<1>2. /\ batch[b] \in Batch /\ batch \in [Board -> Batch] /\ fw[b] \in Fw
      /\ fw \in [Board -> Fw]
  BY <1>0, BoardTypes, Functions
<1>3. \/ fw[b].addr = 0 /\ fw' = [fw EXCEPT ![b] = s] /\ batch' = [batch EXCEPT ![b] = t]
      \/ fw' = fw /\ batch' = batch
  <2>1. \/ /\ fw[b].addr = 0 /\ fw' = [fw EXCEPT ![b].done = TRUE]
           /\ batch' = [batch EXCEPT ![b].mode = "PAGES"]
        \/ fw' = fw /\ batch' = batch
    BY DEF ReceiveCapsResponse
  <2>2. [fw EXCEPT ![b].done = TRUE] = [fw EXCEPT ![b] = s]  BY <1>2, ReadyAt, Zenon
  <2>3. [batch EXCEPT ![b].mode = "PAGES"] = [batch EXCEPT ![b] = t]  BY <1>2, PagesAt, Zenon
  <2> QED BY <2>1, <2>2, <2>3, Zenon
<1>4. 0 \in 0 .. MaxTag /\ FALSE \in BOOLEAN  BY SizeAssumption
<1>5. t \in Batch /\ t.tx = batch[b].tx  BY <1>2, <1>4, BatchUpdates
<1>6. s \in Fw /\ SameFw(fw[b], s) /\ s.asked = fw[b].asked  BY <1>2, <1>4, AskedOK
<1> HIDE DEF s, t
<1>7. LinkOK(link') /\ link'[Peer(b)] = Tail(link[Peer(b)]) /\ link'[b] = link[b]
  BY <1>0, <1>1, Consumes
<1>8. /\ fw' \in [Board -> Fw] /\ batch' \in [Board -> Batch]
      /\ \/ fw[b].addr = 0 /\ fw'[b] = s /\ batch'[b] = t
         \/ fw'[b] = fw[b] /\ batch'[b] = batch[b]
      /\ \A c \in Board : c # b => fw'[c] = fw[c] /\ batch'[c] = batch[c]
  <2>1. CASE fw[b].addr = 0 /\ fw' = [fw EXCEPT ![b] = s] /\ batch' = [batch EXCEPT ![b] = t]
    BY <1>2, <1>5, <1>6, <2>1, AtBoard
  <2>2. CASE fw' = fw /\ batch' = batch  BY <1>2, <2>2
  <2> QED BY <1>3, <2>1, <2>2
<1>9. FirmwareTypeOK'  BY <1>0, <1>1, <1>7, <1>8 DEF FirmwareTypeOK, LinkOK
<1>10. Alone(b)  BY <1>1, <1>8 DEF Alone
<1>11. Keeps(b)  BY <1>1, <1>5, <1>6, <1>7, <1>8, <1>9, <1>10 DEF Keeps, SameFw
<1>12. Notes(b)  BY <1>1, <1>6, <1>8 DEF Notes, SameFw
<1> QED BY <1>11, <1>12 DEF Takes

(* The cells of a page are summed, or are the metadata. *)
LEMMA SummedOK ==
  ASSUME NEW x \in SUBSET Cell, NEW a, NEW y \in SUBSET Cell
  PROVE  Summed(x, a, y) \in SUBSET Cell
BY DEF Summed

(* receive_page_data *)
LEMMA PageTakes ==
  ASSUME FirmwareIInv, NEW b \in Board, NEW got \in SUBSET (0 .. Words - 1), ReceivePage(b, got)
  PROVE  Takes(b)
<1>0. FirmwareTypeOK  BY DEF FirmwareIInv
<1> DEFINE m == Incoming(b).data
           fits == /\ Running(b) /\ fw[b].source = "PULL" /\ fw[b].asked
                   /\ batch[b].mode = "PAGES" /\ batch[b].want = m.tag
           all == got = 0 .. Words - 1
           d == [w \in 0 .. Words - 1 |-> IF w \in got THEN m.cells[w] ELSE buffer[b][w]]
           e == fw[b].addr + Words
           x == Summed(fw[b].seen, fw[b].addr, {m.cells[w] : w \in got})
           s == ArrivedFw(fw[b], e, TRUE, x)
           t == PagedBatch(batch[b])
<1>1. /\ link[Peer(b)] # <<>> /\ Incoming(b).type = "PAGE" /\ Consume(b)
      /\ UNCHANGED <<up, run, flash, tags, blocks, reboot, written, reboots>>
  BY DEF ReceivePage, Arrives
<1>2. /\ batch[b] \in Batch /\ batch \in [Board -> Batch] /\ fw[b] \in Fw
      /\ fw \in [Board -> Fw] /\ buffer \in [Board -> [0 .. Words - 1 -> Cell]]
      /\ buffer[b] \in [0 .. Words - 1 -> Cell]
  BY <1>0, BoardTypes, Functions
<1>3. faults' \in 0 .. MaxFaults
  <2>1. (~all => faults + written < MaxFaults) /\ faults' = IF all THEN faults ELSE faults + 1
    BY DEF ReceivePage
  <2> QED BY <1>0, <2>1, PullBoundAssumption DEF FirmwareTypeOK
<1>4. \/ fits /\ all /\ buffer' = [buffer EXCEPT ![b] = d] /\ fw' = [fw EXCEPT ![b] = s]
           /\ batch' = [batch EXCEPT ![b] = t]
      \/ fits /\ buffer' = [buffer EXCEPT ![b] = d] /\ fw' = fw /\ batch' = batch
      \/ fw' = fw /\ batch' = batch /\ buffer' = buffer
  <2>1. \/ /\ fits /\ all
           /\ buffer' = [buffer EXCEPT ![b] =
                          [w \in 0 .. Words - 1 |-> IF w \in got THEN m.cells[w] ELSE @[w]]]
           /\ fw' = [fw EXCEPT ![b] =
                [fw[b] EXCEPT !.addr = @ + Words, !.asked = FALSE, !.done = TRUE, !.held = TRUE,
                              !.seen = Summed(@, fw[b].addr, {m.cells[w] : w \in got})]]
           /\ batch' = [batch EXCEPT ![b].attempts = 0, ![b].want = 0]
        \/ /\ fits
           /\ buffer' = [buffer EXCEPT ![b] =
                          [w \in 0 .. Words - 1 |-> IF w \in got THEN m.cells[w] ELSE @[w]]]
           /\ fw' = fw /\ batch' = batch
        \/ fw' = fw /\ batch' = batch /\ buffer' = buffer
    BY Zenon DEF ReceivePage
  <2>2. [buffer EXCEPT ![b] =
           [w \in 0 .. Words - 1 |-> IF w \in got THEN m.cells[w] ELSE @[w]]]
          = [buffer EXCEPT ![b] = d]
    BY <1>2
  <2>3. [fw[b] EXCEPT !.addr = @ + Words, !.asked = FALSE, !.done = TRUE, !.held = TRUE,
                      !.seen = Summed(@, fw[b].addr, {m.cells[w] : w \in got})] = s
    <3> DEFINE y == {m.cells[w] : w \in got}
    <3> HIDE DEF y
    <3>1. [fw[b] EXCEPT !.addr = @ + Words, !.asked = FALSE, !.done = TRUE, !.held = TRUE,
                        !.seen = Summed(@, fw[b].addr, y)]
            = ArrivedFw(fw[b], e, TRUE, Summed(fw[b].seen, fw[b].addr, y))
      BY <1>2 DEF ArrivedFw, Fw
    <3> QED BY <3>1 DEF y
  <2>4. [batch EXCEPT ![b].attempts = 0, ![b].want = 0] = [batch EXCEPT ![b] = t]
    BY <1>2, PagedAt, Zenon
  <2> HIDE DEF fits, all, d, s, t
  <2> QED BY <2>1, <2>2, <2>3, <2>4, Zenon
<1>5. m \in TxPage /\ m.cells \in [0 .. Words - 1 -> Cell]
  BY <1>0, <1>1, IncomingOK, PacketFields, TxPageOK
<1>6. d \in [0 .. Words - 1 -> Cell] /\ (all => d = m.cells)
  <2> DEFINE k == m.cells
  <2>1. k \in [0 .. Words - 1 -> Cell]  BY <1>5
  <2> HIDE DEF k
  <2>2. [w \in 0 .. Words - 1 |-> IF w \in got THEN k[w] ELSE buffer[b][w]]
          \in [0 .. Words - 1 -> Cell]
    BY <1>2, <2>1
  <2>3. all => [w \in 0 .. Words - 1 |-> IF w \in got THEN k[w] ELSE buffer[b][w]] = k
    BY <2>1
  <2> QED BY <2>2, <2>3 DEF k
<1>7. fits => e \in 0 .. Size
  <2>1. fits => fw[b].addr < Size /\ fw[b].addr % Words = 0
    BY DEF FirmwareIInv, BoardInv, BoardOK
  <2>2. fw[b].addr \in Nat /\ Words \in Nat \ {0} /\ Pages \in Nat /\ Size = Pages * Words
        /\ Size \in Nat
    BY <1>2, FwFields, Sizes DEF Size
  <2> DEFINE a == fw[b].addr
  <2>3. fits => a < Pages * Words /\ a % Words = 0  BY <2>1, <2>2
  <2>4. a \in Nat  BY <2>2
  <2> HIDE DEF a, fits
  <2>5. fits => a + Words <= Pages * Words  BY <2>2, <2>3, <2>4, PageFits
  <2>6. fits => a + Words \in 0 .. Size  BY <2>2, <2>4, <2>5
  <2> QED BY <2>6 DEF a, fits
<1>8. x \in SUBSET Cell
  <2>1. fw[b].seen \in SUBSET Cell  BY <1>2, FwFields
  <2>2. {m.cells[w] : w \in got} \in SUBSET Cell  BY <1>5
  <2> QED BY <2>1, <2>2, SummedOK
<1>9. all => x = Summed(fw[b].seen, fw[b].addr, {m.cells[w] : w \in 0 .. Words - 1})
  OBVIOUS
<1>10. e = fw[b].addr + Words  OBVIOUS
<1> HIDE DEF x, e, d
<1>11. fits => /\ s \in Fw /\ s.source = fw[b].source /\ ~s.asked /\ s.held
               /\ s.dirty = fw[b].dirty /\ s.pin = fw[b].pin /\ s.addr = e /\ s.seen = x
  <2> DEFINE h == TRUE
  <2>1. h \in BOOLEAN /\ s = ArrivedFw(fw[b], e, h, x)  OBVIOUS
  <2>2. fw[b] \in Fw  BY <1>2
  <2>4. h  OBVIOUS
  <2> HIDE DEF fits, s, h
  <2>3. ASSUME fits
        PROVE  /\ s \in Fw /\ s.source = fw[b].source /\ ~s.asked /\ s.held = h
               /\ s.dirty = fw[b].dirty /\ s.pin = fw[b].pin /\ s.addr = e /\ s.seen = x
    <3>1. e \in 0 .. Size  BY <1>7, <2>3
    <3> QED BY <1>8, <2>1, <2>2, <3>1, ArrivedOK
  <2> QED BY <2>3, <2>4
<1>12. t \in Batch /\ t.tx = batch[b].tx /\ t.mode = batch[b].mode
  <2>1. 0 \in 0 .. MaxTag /\ FALSE \in BOOLEAN  BY SizeAssumption
  <2> QED BY <1>2, <2>1, BatchUpdates
<1> HIDE DEF s, t
<1>13. LinkOK(link') /\ link'[Peer(b)] = Tail(link[Peer(b)]) /\ link'[b] = link[b]
  BY <1>0, <1>1, Consumes
<1>14. /\ fw' \in [Board -> Fw] /\ batch' \in [Board -> Batch]
       /\ buffer' \in [Board -> [0 .. Words - 1 -> Cell]]
       /\ \/ fits /\ all /\ fw'[b] = s /\ batch'[b] = t /\ buffer'[b] = d
          \/ fits /\ fw'[b] = fw[b] /\ batch'[b] = batch[b] /\ buffer'[b] = d
          \/ fw'[b] = fw[b] /\ batch'[b] = batch[b] /\ buffer'[b] = buffer[b]
       /\ \A c \in Board : c # b =>
            fw'[c] = fw[c] /\ batch'[c] = batch[c] /\ buffer'[c] = buffer[c]
  <2> HIDE DEF all
  <2>1. CASE fits /\ all /\ buffer' = [buffer EXCEPT ![b] = d] /\ fw' = [fw EXCEPT ![b] = s]
               /\ batch' = [batch EXCEPT ![b] = t]
    <3>1. s \in Fw  BY <1>11, <2>1
    <3> HIDE DEF fits
    <3> QED BY <1>2, <1>6, <1>12, <2>1, <3>1, AtBoard
  <2>2. CASE fits /\ buffer' = [buffer EXCEPT ![b] = d] /\ fw' = fw /\ batch' = batch
    <3> HIDE DEF fits
    <3> QED BY <1>2, <1>6, <2>2, AtBoard
  <2>3. CASE fw' = fw /\ batch' = batch /\ buffer' = buffer  BY <1>2, <2>3
  <2> QED BY <1>4, <2>1, <2>2, <2>3
<1>15. FirmwareTypeOK'  BY <1>0, <1>1, <1>3, <1>13, <1>14 DEF FirmwareTypeOK, LinkOK
<1>16. Alone(b)  BY <1>1, <1>14 DEF Alone
<1>17. fw'[b].source = fw[b].source /\ fw'[b].pin = fw[b].pin /\ fw'[b].dirty = fw[b].dirty
       /\ batch'[b].tx = batch[b].tx
  BY <1>11, <1>12, <1>14
<1>18. Keeps(b)  BY <1>1, <1>13, <1>15, <1>16, <1>17 DEF Keeps
<1>19. CASE fits /\ all /\ fw'[b] = s /\ batch'[b] = t /\ buffer'[b] = d
  <2>1. TakesPage(b)
    BY <1>1, <1>6, <1>9, <1>10, <1>11, <1>12, <1>19 DEF TakesPage
  <2> QED BY <1>18, <2>1 DEF Takes
<1>20. CASE fits /\ fw'[b] = fw[b] /\ batch'[b] = batch[b] /\ buffer'[b] = d
  BY <1>18, <1>20 DEF Takes, Notes
<1>21. CASE fw'[b] = fw[b] /\ batch'[b] = batch[b] /\ buffer'[b] = buffer[b]
  BY <1>18, <1>21 DEF Takes, Notes
<1> QED BY <1>14, <1>19, <1>20, <1>21

(* handle_response_byte_msg *)
LEMMA WordTakes ==
  ASSUME FirmwareIInv, NEW b \in Board, ReceiveWord(b)
  PROVE  Takes(b)
<1>0. FirmwareTypeOK  BY DEF FirmwareIInv
<1> DEFINE m == Incoming(b)
           n == fw[b].addr + 1
           w == m.addr % Words
           h == fw[b].held \/ n % Words = 0
           x == Summed(fw[b].seen, m.addr, {m.cell})
           s == ArrivedFw(fw[b], n, h, x)
           d == [buffer[b] EXCEPT ![w] = m.cell]
<1>1. /\ link[Peer(b)] # <<>> /\ Incoming(b).type = "WORD" /\ Consume(b)
      /\ UNCHANGED <<up, run, flash, batch, tags, blocks, reboot, written, reboots, faults>>
  BY DEF ReceiveWord, Arrives
<1>2. /\ fw[b] \in Fw /\ fw \in [Board -> Fw] /\ buffer \in [Board -> [0 .. Words - 1 -> Cell]]
      /\ buffer[b] \in [0 .. Words - 1 -> Cell]
  BY <1>0, BoardTypes, Functions
<1>3. m \in Packet /\ m.addr \in Address /\ m.cell \in Cell
  BY <1>0, <1>1, IncomingOK, PacketFields
<1>4. w \in 0 .. Words - 1
  <2>1. m.addr \in Nat /\ Words \in Nat \ {0}  BY <1>3, Sizes DEF Address
  <2> HIDE DEF m
  <2> QED BY <2>1, DivMod
<1>5. \/ /\ Expected(b, m.addr) /\ buffer' = [buffer EXCEPT ![b] = d]
         /\ fw' = [fw EXCEPT ![b] = s]
      \/ buffer' = buffer /\ fw' = fw
  <2>1. \/ /\ Expected(b, m.addr) /\ buffer' = [buffer EXCEPT ![b][w] = m.cell]
           /\ fw' = [fw EXCEPT ![b] =
                [fw[b] EXCEPT !.addr = n, !.asked = FALSE, !.done = TRUE,
                              !.held = @ \/ n % Words = 0,
                              !.seen = Summed(@, m.addr, {m.cell})]]
        \/ buffer' = buffer /\ fw' = fw
    BY Zenon DEF ReceiveWord
  <2>2. [buffer EXCEPT ![b][w] = m.cell] = [buffer EXCEPT ![b] = d]  BY <1>2
  <2>3. [fw[b] EXCEPT !.addr = n, !.asked = FALSE, !.done = TRUE, !.held = @ \/ n % Words = 0,
                      !.seen = Summed(@, m.addr, {m.cell})] = s
    <3> DEFINE y == {m.cell}
               a == m.addr
               k == n % Words = 0
    <3> HIDE DEF y, a, k, n
    <3>1. [fw[b] EXCEPT !.addr = n, !.asked = FALSE, !.done = TRUE, !.held = @ \/ k,
                        !.seen = Summed(@, a, y)]
            = ArrivedFw(fw[b], n, fw[b].held \/ k, Summed(fw[b].seen, a, y))
      BY <1>2 DEF ArrivedFw, Fw
    <3> QED BY <3>1 DEF y, a, k
  <2> HIDE DEF d, s
  <2> QED BY <2>1, <2>2, <2>3, Zenon
<1>6. Expected(b, m.addr) => n \in 0 .. Size /\ fw[b].addr = m.addr
  <2>1. Expected(b, m.addr) => fw[b].addr < Size /\ fw[b].addr = m.addr
    BY DEF Expected, FirmwareIInv, BoardInv, BoardOK
  <2>2. fw[b].addr \in Nat /\ Size \in Nat  BY <1>2, FwFields, Sizes
  <2> HIDE DEF m
  <2> QED BY <2>1, <2>2
<1>7. h \in BOOLEAN /\ (h <=> fw[b].held \/ n % Words = 0)  OBVIOUS
<1>8. x \in SUBSET Cell /\ x = Summed(fw[b].seen, m.addr, {m.cell})
  <2>1. fw[b].seen \in SUBSET Cell /\ {m.cell} \in SUBSET Cell  BY <1>2, <1>3, FwFields
  <2> QED BY <2>1, SummedOK
<1>9. d \in [0 .. Words - 1 -> Cell]  BY <1>2, <1>3
<1> DEFINE ex == Expected(b, m.addr)
<1>10. n = fw[b].addr + 1 /\ d = [buffer[b] EXCEPT ![m.addr % Words] = m.cell]  OBVIOUS
<1> HIDE DEF n, h, x, d, w
<1>11. ex => /\ s \in Fw /\ s.source = fw[b].source /\ ~s.asked /\ s.held = h
             /\ s.dirty = fw[b].dirty /\ s.pin = fw[b].pin /\ s.addr = n /\ s.seen = x
  <2>1. s = ArrivedFw(fw[b], n, h, x)  OBVIOUS
  <2>2. ex => n \in 0 .. Size  BY <1>6
  <2>3. fw[b] \in Fw /\ h \in BOOLEAN /\ x \in SUBSET Cell  BY <1>2, <1>7, <1>8
  <2> HIDE DEF m, s, ex
  <2> QED BY <2>1, <2>2, <2>3, ArrivedOK
<1> HIDE DEF s
<1>12. LinkOK(link') /\ link'[Peer(b)] = Tail(link[Peer(b)]) /\ link'[b] = link[b]
  BY <1>0, <1>1, Consumes
<1>13. /\ fw' \in [Board -> Fw] /\ buffer' \in [Board -> [0 .. Words - 1 -> Cell]]
       /\ \/ ex /\ fw'[b] = s /\ buffer'[b] = d
          \/ fw'[b] = fw[b] /\ buffer'[b] = buffer[b]
       /\ \A c \in Board : c # b => fw'[c] = fw[c] /\ buffer'[c] = buffer[c]
  <2> HIDE DEF m
  <2>1. CASE ex /\ buffer' = [buffer EXCEPT ![b] = d] /\ fw' = [fw EXCEPT ![b] = s]
    <3>1. s \in Fw  BY <1>11, <2>1
    <3> QED BY <1>2, <1>9, <2>1, <3>1, AtBoard
  <2>2. CASE buffer' = buffer /\ fw' = fw  BY <1>2, <2>2
  <2> QED BY <1>5, <2>1, <2>2 DEF m
<1>14. FirmwareTypeOK'  BY <1>0, <1>1, <1>12, <1>13 DEF FirmwareTypeOK, LinkOK
<1>15. Alone(b)  BY <1>1, <1>13 DEF Alone
<1>16. fw'[b].source = fw[b].source /\ fw'[b].pin = fw[b].pin /\ fw'[b].dirty = fw[b].dirty
  BY <1>11, <1>13
<1>17. Keeps(b)  BY <1>1, <1>12, <1>14, <1>15, <1>16 DEF Keeps
<1>18. CASE ex /\ fw'[b] = s /\ buffer'[b] = d
  <2>1. /\ fw[b].source = "PULL" /\ fw[b].asked /\ batch[b].mode = "WORDS" /\ fw[b].addr = m.addr
    BY <1>18 DEF Expected
  <2>2. TakesWord(b)
    BY <1>1, <1>7, <1>8, <1>10, <1>11, <1>18, <2>1 DEF TakesWord
  <2> QED BY <1>17, <2>2 DEF Takes
<1>19. CASE fw'[b] = fw[b] /\ buffer'[b] = buffer[b]
  BY <1>1, <1>17, <1>19 DEF Takes, Notes
<1> QED BY <1>13, <1>18, <1>19

-----------------------------------------------------------------------------
(* Files, reboots and resets *)

(* tud_msc_write10_cb: only a complete file leaves a slot that is clean. *)
LEMMA DropBlockStep ==
  ASSUME FirmwareIInv, NEW b \in Board, NEW i \in Image, NEW p \in Page, DropBlock(b, i, p)
  PROVE  FirmwareIInv' /\ written' > 0 /\ run' = run /\ fw'[b].source = "DROP"
<1>0. FirmwareTypeOK /\ BoardInv(b)  BY DEF FirmwareIInv
<1> DEFINE had == IF fw[b].source = "DROP" THEN blocks[b] ELSE {}
           last == had \cup {p} = Page
           f == [a \in Address |-> IF a \in PageOf(p) THEN i ELSE flash[b][a]]
           good == last /\ \E j \in Image : Valid(flash'[b], j)
           bad == ~good
           keeps == last => good
           s == DirtyFw(Dropping(b), bad)
<1>1. /\ Running(b) /\ written < MaxBlocks /\ written' = written + 1
      /\ blocks' = [blocks EXCEPT ![b] = had \cup {p}]
      /\ UNCHANGED <<run, buffer, batch, tags, link, reboots, faults>>
  BY DEF DropBlock
<1>2. /\ flash \in [Board -> [Address -> Cell]] /\ flash[b] \in [Address -> Cell]
      /\ fw[b] \in Fw /\ fw \in [Board -> Fw] /\ blocks[b] \subseteq Page
      /\ blocks \in [Board -> SUBSET Page]
      /\ reboot \in [Board -> BOOLEAN] /\ up \in [Board -> BOOLEAN]
  BY <1>0, BoardTypes, Functions
<1>3. flash' = [flash EXCEPT ![b] = f]
  <2>1. flash' = [flash EXCEPT ![b] = [a \in Address |-> IF a \in PageOf(p) THEN i ELSE @[a]]]
    BY Zenon DEF DropBlock
  <2> QED BY <1>2, <2>1
<1>4. /\ fw' = [fw EXCEPT ![b] = s] /\ reboot' = [reboot EXCEPT ![b] = good]
      /\ up' = [up EXCEPT ![b] = keeps]
  <2>1. /\ fw' = [fw EXCEPT ![b] = [Dropping(b) EXCEPT !.dirty = bad]]
        /\ reboot' = [reboot EXCEPT ![b] = good] /\ up' = [up EXCEPT ![b] = keeps]
    BY Zenon DEF DropBlock
  <2> HIDE DEF good, bad, keeps
  <2> QED BY <2>1, Zenon DEF DirtyFw
<1>5. /\ good \in BOOLEAN /\ bad \in BOOLEAN /\ keeps \in BOOLEAN /\ (bad <=> ~good)
      /\ (good => \E j \in Image : Valid(flash'[b], j))
  OBVIOUS
<1>6. f \in [Address -> Cell]
  <2>1. i \in Cell  BY Cells
  <2> QED BY <1>2, <2>1
<1>7. had \cup {p} \in SUBSET Page  BY <1>2
<1> DEFINE z == had \cup {p}
<1>8. blocks' = [blocks EXCEPT ![b] = z]  BY <1>1
<1>9. z \in SUBSET Page  BY <1>7
<1> HIDE DEF f, good, bad, keeps, z
<1>10. /\ s \in Fw /\ s.source = "DROP" /\ s.dirty = bad /\ (s.asked => fw[b].asked)
       /\ s.addr \in {0, fw[b].addr}
  <2> DEFINE x == Dropping(b)
  <2>1. x \in Fw /\ x.source = "DROP" /\ (x.asked => fw[b].asked) /\ x.addr \in {0, fw[b].addr}
    BY <1>2, DroppingOK
  <2> HIDE DEF x
  <2>2. /\ DirtyFw(x, bad) \in Fw /\ DirtyFw(x, bad).source = x.source
        /\ DirtyFw(x, bad).dirty = bad /\ DirtyFw(x, bad).asked = x.asked
        /\ DirtyFw(x, bad).addr = x.addr
    <3>1. x \in Fw /\ bad \in BOOLEAN  BY <1>5, <2>1
    <3> QED BY <3>1, FinishedOK
  <2> QED BY <2>1, <2>2 DEF x
<1> HIDE DEF s
<1>11. /\ flash' \in [Board -> [Address -> Cell]] /\ blocks' \in [Board -> SUBSET Page]
       /\ \A c \in Board : c # b => flash'[c] = flash[c]
  BY <1>2, <1>3, <1>6, <1>8, <1>9, AtBoard
<1>12. fw' \in [Board -> Fw] /\ fw'[b] = s /\ \A c \in Board : c # b => fw'[c] = fw[c]
  BY <1>2, <1>4, <1>10, AtBoard
<1>13. /\ reboot' \in [Board -> BOOLEAN] /\ reboot'[b] = good
       /\ \A c \in Board : c # b => reboot'[c] = reboot[c]
       /\ up' \in [Board -> BOOLEAN] /\ \A c \in Board : c # b => up'[c] = up[c]
  BY <1>2, <1>4, <1>5, AtBoard
<1>14. written' \in 0 .. MaxBlocks /\ written' > 0
  BY <1>0, <1>1, PullBoundAssumption DEF FirmwareTypeOK
<1>15. FirmwareTypeOK'
  BY <1>0, <1>1, <1>11, <1>12, <1>13, <1>14 DEF FirmwareTypeOK
<1>16. BoardInv(b)'
  <2>1. fw'[b].source = "DROP" /\ (fw'[b].asked => fw'[b].addr < Size)
    BY <1>0, <1>10, <1>12, Sizes DEF BoardInv, BoardOK
  <2>2. batch'[b].mode = "PAGES" => fw'[b].addr % Words = 0
    BY <1>0, <1>1, <1>10, <1>12, Sizes DEF BoardInv, BoardOK
  <2>3. ~fw'[b].dirty => \E j \in Image : Valid(flash'[b], j)
    BY <1>5, <1>10, <1>12
  <2>4. reboot'[b] => ~fw'[b].dirty  BY <1>5, <1>10, <1>12, <1>13
  <2> QED BY <2>1, <2>2, <2>3, <2>4 DEF BoardInv, BoardOK
<1>17. FirmwareIInv'
  BY <1>1, <1>11, <1>12, <1>13, <1>15, <1>16, OneBoard
<1> QED BY <1>1, <1>10, <1>12, <1>14, <1>17

(* request_graceful_reboot, and the requests that look at nothing. *)
Reboots(b) ==
  /\ Running(b) /\ (AnyReboot \/ (fw[b].source = "NONE" /\ ~fw[b].dirty))
  /\ UNCHANGED <<up, run, flash, buffer, fw, batch, link, written>>
  /\ \A c \in Board : c # b => reboot'[c] = reboot[c]
  /\ FirmwareTypeOK'

(* RequestReboot is such a step, and keeps the invariant. *)
LEMMA RequestRebootStep ==
  ASSUME FirmwareIInv, NEW b \in Board, RequestReboot(b)
  PROVE  Reboots(b) /\ FirmwareIInv'
<1>0. FirmwareTypeOK /\ BoardInv(b)  BY DEF FirmwareIInv
<1>1. /\ Running(b) /\ (AnyReboot \/ (fw[b].source = "NONE" /\ ~fw[b].dirty))
      /\ reboots < MaxReboots /\ reboots' = reboots + 1 /\ reboot' = [reboot EXCEPT ![b] = TRUE]
      /\ UNCHANGED <<up, run, flash, buffer, fw, batch, tags, blocks, link, written, faults>>
  BY DEF RequestReboot
<1>2. /\ reboot' \in [Board -> BOOLEAN] /\ \A c \in Board : c # b => reboot'[c] = reboot[c]
  BY <1>0, <1>1, Functions
<1>3. reboots' \in 0 .. MaxReboots
  BY <1>0, <1>1, PullBoundAssumption DEF FirmwareTypeOK
<1>4. FirmwareTypeOK'  BY <1>0, <1>1, <1>2, <1>3 DEF FirmwareTypeOK
<1>5. BoardInv(b)'  BY <1>0, <1>1 DEF BoardInv, BoardOK
<1>6. FirmwareIInv'  BY <1>1, <1>2, <1>4, <1>5, OneBoard
<1> QED BY <1>1, <1>2, <1>4, <1>6 DEF Reboots

(* A slot that holds a whole image holds the one its metadata names. *)
LEMMA ValidIsMeta ==
  ASSUME NEW f \in [Address -> Cell]
  PROVE  (\E i \in Image : Valid(f, i)) <=> f[Meta] \in Image /\ Valid(f, f[Meta])
<1>1. \A i : Valid(f, i) => f[Meta] = i  BY Sizes DEF Valid
<1> QED BY <1>1

(* The slot is booted. *)
Restarts(b) ==
  /\ up[b] /\ (reboot[b] \/ ~fw[b].dirty)
  /\ up'[b] <=> flash[b][Meta] \in Image /\ Valid(flash[b], flash[b][Meta])
  /\ run'[b] = IF up'[b] THEN flash[b][Meta] ELSE run[b]
  /\ fw'[b] = NoUpdate /\ batch'[b] = NoBatch /\ ~reboot'[b]
  /\ UNCHANGED <<flash, link, written>>
  /\ Alone(b) /\ FirmwareTypeOK'

(* The watchdog, or a reset. *)
LEMMA RestartRestarts ==
  ASSUME FirmwareIInv, NEW b \in Board, Restart(b)
  PROVE  Restarts(b)
<1>0. FirmwareTypeOK  BY DEF FirmwareIInv
<1> DEFINE boots == \E i \in Image : Valid(flash[b], i)
           r == IF up'[b] THEN flash[b][Meta] ELSE run[b]
           d == [w \in 0 .. Words - 1 |-> None]
<1>1. /\ up[b] /\ (reboot[b] \/ (~fw[b].dirty /\ reboots < MaxReboots))
      /\ reboots' = (IF reboot[b] THEN reboots ELSE reboots + 1)
      /\ UNCHANGED <<flash, link, written, faults>>
  BY DEF Restart
<1>2. /\ up' = [up EXCEPT ![b] = boots] /\ run' = [run EXCEPT ![b] = r]
      /\ fw' = [fw EXCEPT ![b] = NoUpdate] /\ batch' = [batch EXCEPT ![b] = NoBatch]
      /\ buffer' = [buffer EXCEPT ![b] = d] /\ reboot' = [reboot EXCEPT ![b] = FALSE]
  BY <1>0, Functions DEF Restart
<1>3. tags' \in [Board -> 0 .. MaxTag] /\ blocks' \in [Board -> SUBSET Page]
  <2>1. blocks' = [blocks EXCEPT ![b] = {}]  BY DEF Restart
  <2>2. PICK seed \in {0, tags[b]} : tags' = [tags EXCEPT ![b] = seed]  BY DEF Restart
  <2>3. seed \in 0 .. MaxTag  BY <1>0, <2>2, BoardTypes, SizeAssumption
  <2> QED BY <1>0, <2>1, <2>2, <2>3, Functions, AtBoard
<1>4. boots \in BOOLEAN
      /\ (boots <=> flash[b][Meta] \in Image /\ Valid(flash[b], flash[b][Meta]))
  BY <1>0, BoardTypes, ValidIsMeta
<1> HIDE DEF boots
<1>5. up' \in [Board -> BOOLEAN] /\ up'[b] = boots /\ \A c \in Board : c # b => up'[c] = up[c]
  BY <1>0, <1>2, <1>4, Functions, AtBoard
<1>6. r \in Image /\ r = IF up'[b] THEN flash[b][Meta] ELSE run[b]
  BY <1>0, <1>4, <1>5, BoardTypes
<1>7. d \in [0 .. Words - 1 -> Cell]  BY Cells
<1> HIDE DEF r, d
<1>8. run' \in [Board -> Image] /\ run'[b] = r /\ \A c \in Board : c # b => run'[c] = run[c]
  BY <1>0, <1>2, <1>6, Functions, AtBoard
<1>9. /\ fw' \in [Board -> Fw] /\ fw'[b] = NoUpdate
      /\ \A c \in Board : c # b => fw'[c] = fw[c]
  BY <1>0, <1>2, NoUpdateOK, Functions, AtBoard
<1>10. /\ batch' \in [Board -> Batch] /\ batch'[b] = NoBatch
       /\ \A c \in Board : c # b => batch'[c] = batch[c]
  BY <1>0, <1>2, NoBatchOK, Functions, AtBoard
<1>11. /\ buffer' \in [Board -> [0 .. Words - 1 -> Cell]]
       /\ \A c \in Board : c # b => buffer'[c] = buffer[c]
  BY <1>0, <1>2, <1>7, Functions, AtBoard
<1>12. /\ reboot' \in [Board -> BOOLEAN] /\ ~reboot'[b]
       /\ \A c \in Board : c # b => reboot'[c] = reboot[c]
  BY <1>0, <1>2, Functions
<1>13. reboots' \in 0 .. MaxReboots
  BY <1>0, <1>1, PullBoundAssumption DEF FirmwareTypeOK
<1>14. FirmwareTypeOK'
  BY <1>0, <1>1, <1>3, <1>5, <1>8, <1>9, <1>10, <1>11, <1>12, <1>13 DEF FirmwareTypeOK
<1>15. Alone(b)
  BY <1>1, <1>5, <1>8, <1>9, <1>10, <1>11, <1>12 DEF Alone
<1> QED
  BY <1>1, <1>4, <1>5, <1>6, <1>8, <1>9, <1>10, <1>12, <1>14, <1>15 DEF Restarts

(* What boots is what the slot holds. *)
LEMMA RestartStep ==
  ASSUME FirmwareIInv, NEW b \in Board, Restarts(b)
  PROVE  FirmwareIInv'
<1>1. /\ fw'[b].source = "NONE" /\ ~fw'[b].asked /\ ~fw'[b].dirty /\ fw'[b].addr = 0
      /\ batch'[b].mode = "WORDS"
  BY NoUpdateOK, NoBatchOK DEF Restarts
<1>2. up'[b] => Valid(flash'[b], run'[b]) /\ run'[b] \in Image
  BY DEF Restarts
<1>3. BoardInv(b)'  BY <1>1, <1>2 DEF BoardInv, BoardOK, Restarts
<1> QED BY <1>3, OneBoard DEF Alone, Restarts

-----------------------------------------------------------------------------
(* The invariant *)

(* Both boards boot what their slots hold. *)
LEMMA InitInv == Init => FirmwareIInv
<1> SUFFICES ASSUME Init PROVE FirmwareIInv  OBVIOUS
<1>1. run \in [Board -> Image] /\ Image \subseteq Cell
  BY ImageAssumption, Cells DEF Init
<1>2. flash \in [Board -> [Address -> Cell]] /\ \A b \in Board : Valid(flash[b], run[b])
  BY <1>1, Sizes DEF Init, Valid
<1>3. buffer \in [Board -> [0 .. Words - 1 -> Cell]]  BY Cells DEF Init
<1>4. fw \in [Board -> Fw] /\ batch \in [Board -> Batch]  BY NoUpdateOK, NoBatchOK DEF Init
<1>5. tags \in [Board -> 0 .. MaxTag] /\ link \in [Board -> Seq(Packet)]
      /\ \A b \in Board : Len(link[b]) <= LinkCap
  BY SizeAssumption DEF Init
<1>6. FirmwareTypeOK
  BY <1>1, <1>2, <1>3, <1>4, <1>5, PullBoundAssumption DEF Init, FirmwareTypeOK
<1>7. \A b \in Board : fw[b] = NoUpdate /\ batch[b] = NoBatch /\ ~reboot[b]  BY DEF Init
<1>8. \A b \in Board : BoardInv(b)
  BY <1>1, <1>2, <1>7, NoUpdateOK, NoBatchOK DEF BoardInv, BoardOK
<1> QED BY <1>6, <1>8 DEF FirmwareIInv

(* What one step of the system is, in the terms of the lemmas above. *)
StepOf(b) ==
  \/ Asks(b) \/ Finishes(b) \/ Serves(b) \/ Takes(b) \/ Reboots(b) \/ Restarts(b)
  \/ fw[b].source = "PULL" /\ Turns(b, fw[b].pin) /\ link' = link
  \/ /\ link[Peer(b)] # <<>> /\ Incoming(b).type = "HEARTBEAT"
     /\ Turns(b, Incoming(b).image) /\ Consume(b)
  \/ written' > 0 /\ run' = run /\ fw'[b].source = "DROP"

(* Every action is one of them. *)
LEMMA EveryStep ==
  ASSUME FirmwareIInv, Next
  PROVE  FirmwareIInv' /\ \E b \in Board : StepOf(b)
<1>1. PICK b \in Board :
        \/ Heartbeat(b)
        \/ TaskProbe(b) \/ TaskPage(b) \/ TaskWord(b) \/ TaskQueueFull(b)
        \/ TaskFinish(b) \/ TaskStalled(b)
        \/ ReceiveHeartbeat(b) \/ ReceiveCapsRequest(b) \/ ReceiveCapsResponse(b)
        \/ ReceivePageRequest(b) \/ SendPage(b)
        \/ \E got \in SUBSET (0 .. Words - 1) : ReceivePage(b, got)
        \/ ReceiveWordRequest(b) \/ ReceiveWord(b) \/ Lose(b)
        \/ \E i \in Image, p \in Page : DropBlock(b, i, p)
        \/ RequestReboot(b) \/ Restart(b)
  BY DEF Next
<1>2. CASE TaskProbe(b) \/ TaskPage(b) \/ TaskWord(b) \/ TaskQueueFull(b)
  <2>1. Asks(b)  BY <1>2, ProbeAsks, PageAsks, WordAsks, QueueFullAsks
  <2> QED BY <2>1, AsksStep DEF StepOf
<1>3. CASE TaskFinish(b)
  BY <1>3, FinishFinishes, FinishStep DEF StepOf
<1>4. CASE TaskStalled(b)
  BY <1>4, StalledTurns, TurnsStep DEF StepOf
<1>5. CASE ReceiveHeartbeat(b)
  BY <1>5, HeartbeatTurns, TurnsStep DEF StepOf
<1>6. CASE \/ Heartbeat(b) \/ Lose(b) \/ ReceiveWordRequest(b) \/ ReceiveCapsRequest(b)
           \/ ReceivePageRequest(b) \/ SendPage(b)
  <2>1. Serves(b)
    BY <1>6, HeartbeatServes, LoseServes, WordRequestServes, CapsRequestServes,
       PageRequestServes, SendPageServes
  <2> QED BY <2>1, ServesStep DEF StepOf
<1>7. CASE \/ ReceiveCapsResponse(b) \/ ReceiveWord(b)
           \/ \E got \in SUBSET (0 .. Words - 1) : ReceivePage(b, got)
  <2>1. Takes(b)  BY <1>7, CapsResponseTakes, WordTakes, PageTakes
  <2> QED BY <2>1, TakesStep DEF StepOf
<1>8. CASE \E i \in Image, p \in Page : DropBlock(b, i, p)
  BY <1>8, DropBlockStep DEF StepOf
<1>9. CASE RequestReboot(b)
  BY <1>9, RequestRebootStep DEF StepOf
<1>10. CASE Restart(b)
  BY <1>10, RestartRestarts, RestartStep DEF StepOf
<1> QED BY <1>1, <1>2, <1>3, <1>4, <1>5, <1>6, <1>7, <1>8, <1>9, <1>10

(* Stuttering changes nothing. *)
LEMMA StutterInv ==
  ASSUME FirmwareIInv, UNCHANGED vars
  PROVE  FirmwareIInv'
<1>1. FirmwareTypeOK'  BY DEF FirmwareIInv, FirmwareTypeOK, vars
<1> QED BY <1>1, LinkStep DEF vars

(* The inductive invariant of the firmware update: each board's slot is    *)
(* what its flags say it is.                                               *)
THEOREM FirmwareInvariance == Spec => []FirmwareIInv
<1>1. FirmwareIInv /\ [Next]_vars => FirmwareIInv'  BY EveryStep, StutterInv
<1> QED BY <1>1, InitInv, PTL DEF Spec

(* The state of both updaters stays in its types: every address that is    *)
(* asked for lies in the slot, every page written ends inside it, and no   *)
(* tag, attempt counter or queue runs over.                                *)
THEOREM FirmwareTypeCorrect == Spec => []FirmwareTypeOK
<1>1. FirmwareIInv => FirmwareTypeOK  BY DEF FirmwareIInv
<1> QED BY <1>1, FirmwareInvariance, PTL

(* The dirty flag tells the truth, whoever wrote the slot last: a board    *)
(* that is not marked dirty has a whole image, even when reboots are asked *)
(* for that look at nothing.                                               *)
THEOREM CleanSlotsBoot == Spec => []CleanMeansBootable
<1>1. FirmwareIInv => CleanMeansBootable
  BY DEF FirmwareIInv, BoardInv, BoardOK, CleanMeansBootable
<1> QED BY <1>1, FirmwareInvariance, PTL

(* When every reboot request looks at the updater and the image, as        *)
(* request_graceful_reboot does, no reboot is ever asked for while the     *)
(* slot is partly written.                                                 *)
THEOREM GuardedRebootsAreSafe ==
  ASSUME ~AnyReboot
  PROVE  Spec => []RebootsWholeImage
<1>1. FirmwareIInv => RebootsWholeImage
  BY DEF FirmwareIInv, BoardInv, BoardOK, RebootsWholeImage
<1> QED BY <1>1, FirmwareInvariance, PTL

(* ... and then no step that ends a pull, be it the validation of the last *)
(* page or a reset in its middle, takes a board back to an older version.  *)
THEOREM PullsNeverDowngrade ==
  ASSUME ~AnyReboot
  PROVE  Spec => NoDowngrade
<1> DEFINE Keeping == \A b \in Board : fw[b].source = "PULL" /\ run'[b] # run[b]
                                         => Version[run'[b]] >= Version[run[b]]
<1>1. FirmwareIInv /\ [Next]_vars => [Keeping]_vars
  <2> SUFFICES ASSUME FirmwareIInv, Next PROVE Keeping  OBVIOUS
  <2> SUFFICES ASSUME NEW c \in Board, fw[c].source = "PULL", run'[c] # run[c]
               PROVE  Version[run'[c]] >= Version[run[c]]
    OBVIOUS
  <2>1. PICK b \in Board : StepOf(b)  BY EveryStep
  <2>2. BoardInv(c) /\ FirmwareTypeOK  BY DEF FirmwareIInv
  <2>3. CASE Finishes(b)
    BY <2>2, <2>3 DEF Finishes, Alone, BoardInv, BoardOK
  <2>4. CASE Restarts(b)
    <3>1. c = b  BY <2>4 DEF Restarts, Alone
    <3>2. Valid(flash[b], run[b])  BY <2>2, <2>4, <3>1 DEF Restarts, BoardInv, BoardOK
    <3>3. flash[b][Meta] = run[b]  BY <3>2, Sizes DEF Valid
    <3> QED BY <2>4, <3>1, <3>3 DEF Restarts
  <2>5. ~Finishes(b) /\ ~Restarts(b) => run' = run
    BY <2>1 DEF StepOf, Asks, Serves, Takes, Keeps, Reboots, Turns
  <2> QED BY <2>3, <2>4, <2>5
<1> HIDE DEF Keeping
<1>2. [][Keeping]_vars => NoDowngrade  BY DEF Keeping, NoDowngrade
<1> QED BY <1>1, <1>2, FirmwareInvariance, PTL DEF Spec

-----------------------------------------------------------------------------
(* Pulls that no file disturbs *)

(* The packets of a link. *)
Packets(l) == {l[n] : n \in 1 .. Len(l)}

(* They come from its tail and its head. *)
LEMMA PacketsOf ==
  ASSUME NEW l \in Seq(Packet)
  PROVE  /\ l # <<>> => Packets(Tail(l)) \subseteq Packets(l) /\ Head(l) \in Packets(l)
         /\ \A m \in Packet : Packets(Append(l, m)) \subseteq Packets(l) \cup {m}
<1>1. ASSUME l # <<>> PROVE Packets(Tail(l)) \subseteq Packets(l) /\ Head(l) \in Packets(l)
  <2>1. /\ Len(l) \in Nat /\ Len(l) > 0 /\ Head(l) = l[1] /\ Len(Tail(l)) = Len(l) - 1
        /\ \A n \in 1 .. Len(Tail(l)) : Tail(l)[n] = l[n + 1]
    BY <1>1
  <2>2. Head(l) \in Packets(l)  BY <2>1 DEF Packets
  <2>3. \A n \in 1 .. Len(Tail(l)) : n + 1 \in 1 .. Len(l)  BY <2>1
  <2>4. Packets(Tail(l)) \subseteq Packets(l)  BY <2>1, <2>3 DEF Packets
  <2> QED BY <2>2, <2>4
<1>2. ASSUME NEW m \in Packet PROVE Packets(Append(l, m)) \subseteq Packets(l) \cup {m}
  <2>1. /\ Len(Append(l, m)) = Len(l) + 1 /\ Len(l) \in Nat
        /\ \A n \in 1 .. Len(l) : Append(l, m)[n] = l[n]
        /\ Append(l, m)[Len(l) + 1] = m
    OBVIOUS
  <2>2. \A n \in 1 .. Len(Append(l, m)) : n \in 1 .. Len(l) \/ n = Len(l) + 1  BY <2>1
  <2> QED BY <2>1, <2>2 DEF Packets
<1> QED BY <1>1, <1>2

(* A packet tells the truth about image i. *)
Genuine(m, i) ==
  /\ m.type = "HEARTBEAT" => m.image = i
  /\ m.type = "WORD" => m.cell = i
  /\ m.type = "PAGE" => \A w \in 0 .. Words - 1 : m.data.cells[w] = i

(* A board on the newest image: it serves and never pulls. *)
NewestOK(u, r, f, s, x, l) ==
  /\ u /\ s.source = "NONE" /\ ~s.dirty
  /\ \A a \in Address : f[a] = r
  /\ x = NoPage \/ \A w \in 0 .. Words - 1 : x.cells[w] = r
  /\ \A m \in l : Genuine(m, r)

Newest(t) ==
  NewestOK(up[t], run[t], flash[t], fw[t], batch[t].tx, Packets(link[t]))

(* The slot holds image i below address n. *)
Filled(f, n, i) == \A a \in Address : a < n => f[a] = i

(* A pull of image i: what has arrived is in the slot or in the buffer. *)
PullOK(s, f, d, i) ==
  /\ s.pin = i /\ (s.asked => ~s.held)
  /\ s.seen \subseteq {i} /\ (s.addr > 0 => i \in s.seen)
  /\ s.held => /\ s.addr % Words = 0 /\ s.addr > 0
               /\ \A w \in 0 .. Words - 1 : d[w] = i
               /\ Filled(f, s.addr - Words, i)
  /\ ~s.held => /\ \A w \in 0 .. Words - 1 : w < s.addr % Words => d[w] = i
                /\ Filled(f, s.addr - (s.addr % Words), i)

(* The other board: it is not newer, and pulls that image or none. *)
FollowsOK(u, r, f, d, s, rb, l, i) ==
  /\ u /\ s.source # "DROP"
  /\ rb => ~s.dirty /\ s.source = "NONE"
  /\ s.source = "PULL" => PullOK(s, f, d, i)
  /\ Version[r] <= Version[i]
  /\ \A m \in l : m.type = "HEARTBEAT" => Version[m.image] <= Version[i]

Follows(o, i) ==
  FollowsOK(up[o], run[o], flash[o], buffer[o], fw[o], reboot[o], Packets(link[o]), i)

(* As long as no file is dropped, one board leads and the other follows. *)
PairOK == written = 0 => \E t \in Board : Newest(t) /\ Follows(Peer(t), run[t])

(* A page that has arrived fills the slot up to its end. *)
LEMMA FilledByPage ==
  ASSUME NEW f \in [Address -> Cell], NEW d \in [0 .. Words - 1 -> Cell], NEW i,
         NEW e \in Nat, Filled(f, e - Words, i), \A w \in 0 .. Words - 1 : d[w] = i
  PROVE  Filled(WritePage(f, e, d), e, i)
<1>1. SUFFICES ASSUME NEW a \in Address, a < e PROVE WritePage(f, e, d)[a] = i
  BY DEF Filled
<1>2. a \in Nat /\ a % Words \in 0 .. Words - 1 /\ Words \in Nat
  BY Sizes, DivMod DEF Address
<1>3. WritePage(f, e, d)[a] = IF a \in (e - Words) .. (e - 1) THEN d[a % Words] ELSE f[a]
  BY DEF WritePage
<1>4. CASE a \in (e - Words) .. (e - 1)  BY <1>2, <1>3, <1>4
<1>5. CASE a \notin (e - Words) .. (e - 1)
  <2>1. a < e - Words  BY <1>1, <1>2, <1>5
  <2> QED BY <1>3, <1>5, <2>1 DEF Filled
<1> QED BY <1>4, <1>5

(* A slot that is filled to its end is valid. *)
LEMMA FilledIsValid ==
  ASSUME NEW f, NEW i, Filled(f, Size, i)
  PROVE  Valid(f, i)
<1>1. \A a \in 0 .. Meta : a \in Address /\ a < Size  BY Sizes DEF Address
<1> QED BY <1>1 DEF Filled, Valid

(* A request, with or without the page it finds in the buffer. *)
LEMMA PullAsks ==
  ASSUME FirmwareIInv, NEW b \in Board, NEW i, Asks(b), PullOK(fw[b], flash[b], buffer[b], i)
  PROVE  PullOK(fw'[b], flash'[b], buffer'[b], i)
<1>0. FirmwareTypeOK  BY DEF FirmwareIInv
<1>1. /\ fw[b] \in Fw /\ flash[b] \in [Address -> Cell] /\ buffer[b] \in [0 .. Words - 1 -> Cell]
      /\ fw[b].addr \in Nat /\ Words \in Nat \ {0}
  BY <1>0, BoardTypes, FwFields, Sizes
<1>2. /\ fw'[b].pin = fw[b].pin /\ fw'[b].addr = fw[b].addr /\ fw'[b].seen = fw[b].seen
      /\ buffer'[b] = buffer[b]
  BY DEF Asks
<1>3. CASE /\ fw'[b].held = fw[b].held /\ flash'[b] = flash[b] /\ (fw'[b].asked => fw[b].asked)
  BY <1>2, <1>3 DEF PullOK
<1>4. CASE ~fw'[b].held /\ ~fw[b].held /\ flash'[b] = flash[b]
  BY <1>2, <1>4 DEF PullOK
<1>5. CASE /\ ~fw'[b].held /\ fw[b].held
           /\ flash'[b] = WritePage(flash[b], fw[b].addr, buffer[b])
  <2>1. fw[b].addr % Words = 0 /\ Filled(flash'[b], fw[b].addr, i)
    <3>1. /\ fw[b].addr % Words = 0 /\ Filled(flash[b], fw[b].addr - Words, i)
          /\ \A w \in 0 .. Words - 1 : buffer[b][w] = i
      BY <1>5 DEF PullOK
    <3>2. Filled(WritePage(flash[b], fw[b].addr, buffer[b]), fw[b].addr, i)
      BY <1>1, <3>1, FilledByPage
    <3> QED BY <1>5, <3>1, <3>2
  <2>2. fw[b].addr - (fw[b].addr % Words) = fw[b].addr  BY <1>1, <2>1
  <2> QED BY <1>2, <1>5, <2>1, <2>2 DEF PullOK
<1> QED BY <1>3, <1>4, <1>5 DEF Asks

(* The last page is written, and the image is good. *)
LEMMA PullFinishes ==
  ASSUME FirmwareIInv, NEW b \in Board, NEW i, Finishes(b),
         PullOK(fw[b], flash[b], buffer[b], i)
  PROVE  fw[b].seen = {fw[b].pin} /\ fw[b].pin = i /\ Valid(flash'[b], fw[b].pin)
<1>0. FirmwareTypeOK  BY DEF FirmwareIInv
<1>1. /\ flash[b] \in [Address -> Cell] /\ buffer[b] \in [0 .. Words - 1 -> Cell]
      /\ fw[b].addr = Size /\ Size \in Nat /\ Size > 0 /\ Size % Words = 0
  BY <1>0, BoardTypes, Sizes DEF Finishes
<1>2. fw[b].seen = {i} /\ fw[b].pin = i  BY <1>1 DEF PullOK
<1>3. Filled(flash'[b], Size, i)
  <2>1. CASE fw[b].held
    <3>1. flash'[b] = WritePage(flash[b], Size, buffer[b])  BY <1>1, <2>1 DEF Finishes
    <3>2. Filled(flash[b], Size - Words, i) /\ \A w \in 0 .. Words - 1 : buffer[b][w] = i
      BY <1>1, <2>1 DEF PullOK
    <3> QED BY <1>1, <3>1, <3>2, FilledByPage
  <2>2. CASE ~fw[b].held
    <3>1. Size - (Size % Words) = Size  BY <1>1
    <3> QED BY <1>1, <2>2, <3>1 DEF PullOK, Finishes
  <2> QED BY <2>1, <2>2
<1> QED BY <1>2, <1>3, FilledIsValid

(* A sign of life, or a part of a page, leaves what counts. *)
LEMMA PullNotes ==
  ASSUME FirmwareIInv, NEW b \in Board, NEW i, fw[b].source = "PULL", Keeps(b), Notes(b),
         PullOK(fw[b], flash[b], buffer[b], i)
  PROVE  PullOK(fw'[b], flash'[b], buffer'[b], i)
<1>1. /\ fw'[b].pin = fw[b].pin /\ fw'[b].addr = fw[b].addr /\ fw'[b].seen = fw[b].seen
      /\ fw'[b].held = fw[b].held /\ fw'[b].asked = fw[b].asked /\ flash'[b] = flash[b]
  BY DEF Keeps, Notes
<1>2. CASE buffer'[b] = buffer[b]  BY <1>1, <1>2 DEF PullOK
<1>3. CASE fw[b].asked /\ batch[b].mode = "PAGES"
  <2>1. fw[b].addr % Words = 0 /\ ~fw[b].held
    BY <1>3 DEF FirmwareIInv, BoardInv, BoardOK, PullOK
  <2>2. \A w \in 0 .. Words - 1 : ~(w < 0)  BY Sizes
  <2> QED BY <1>1, <2>1, <2>2 DEF PullOK
<1> QED BY <1>2, <1>3 DEF Notes

(* A whole page of the image. *)
LEMMA PullTakesPage ==
  ASSUME FirmwareIInv, NEW b \in Board, NEW i, Keeps(b), TakesPage(b),
         PullOK(fw[b], flash[b], buffer[b], i), Genuine(Incoming(b), i)
  PROVE  PullOK(fw'[b], flash'[b], buffer'[b], i)
<1>0. FirmwareTypeOK /\ BoardInv(b)  BY DEF FirmwareIInv
<1> DEFINE a == fw[b].addr
           c == Incoming(b).data.cells
<1>1. a \in Nat /\ Words \in Nat \ {0} /\ Pages \in Nat /\ Size = Pages * Words
      /\ Meta \in Nat /\ Meta > 0
  BY <1>0, BoardTypes, FwFields, Sizes DEF Size
<1>2. fw[b].asked /\ batch[b].mode = "PAGES"  BY DEF TakesPage
<1>3. a < Size /\ a % Words = 0 /\ ~fw[b].held
  BY <1>0, <1>2 DEF BoardInv, BoardOK, PullOK
<1>4. (a + Words) % Words = 0
  <2> HIDE DEF a
  <2> QED BY <1>1, <1>3, PageFits
<1>5. \A w \in 0 .. Words - 1 : c[w] = i  BY DEF TakesPage, Genuine
<1>6. {c[w] : w \in 0 .. Words - 1} = {i}
  <2>1. 0 \in 0 .. Words - 1  BY <1>1
  <2> HIDE DEF c
  <2> QED BY <1>5, <2>1
<1>7. /\ fw'[b].pin = fw[b].pin /\ fw'[b].addr = a + Words /\ fw'[b].held /\ ~fw'[b].asked
      /\ fw'[b].seen = Summed(fw[b].seen, a, {c[w] : w \in 0 .. Words - 1})
      /\ buffer'[b] = c /\ flash'[b] = flash[b]
  BY DEF TakesPage, Keeps
<1>8. Filled(flash[b], a, i)
  <2>1. a - (a % Words) = a  BY <1>1, <1>3
  <2> QED BY <1>3, <2>1 DEF PullOK
<1>9. fw'[b].seen \subseteq {i} /\ i \in fw'[b].seen
  <2>1. fw'[b].seen = Summed(fw[b].seen, a, {i})  BY <1>6, <1>7
  <2>2. fw[b].seen \subseteq {i} /\ (a > 0 => i \in fw[b].seen)  BY DEF PullOK
  <2> HIDE DEF a
  <2> QED BY <1>1, <2>1, <2>2 DEF Summed
<1>10. fw[b].pin = i  BY DEF PullOK
<1> HIDE DEF a, c
<1>11. a + Words > 0 /\ (a + Words) - Words = a  BY <1>1
<1> QED BY <1>4, <1>5, <1>7, <1>8, <1>9, <1>10, <1>11 DEF PullOK

(* A word of it. *)
LEMMA PullTakesWord ==
  ASSUME FirmwareIInv, NEW b \in Board, NEW i, Keeps(b), TakesWord(b),
         PullOK(fw[b], flash[b], buffer[b], i), Genuine(Incoming(b), i)
  PROVE  PullOK(fw'[b], flash'[b], buffer'[b], i)
<1>0. FirmwareTypeOK /\ BoardInv(b)  BY DEF FirmwareIInv
<1> DEFINE a == fw[b].addr
           r == a % Words
           n == a + 1
<1>1. /\ a \in Nat /\ Words \in Nat \ {0} /\ Meta \in Nat /\ Meta > 0
      /\ buffer[b] \in [0 .. Words - 1 -> Cell]
  BY <1>0, BoardTypes, FwFields, Sizes
<1>2. fw[b].asked /\ Incoming(b).cell = i  BY DEF TakesWord, Genuine
<1>3. ~fw[b].held  BY <1>2 DEF PullOK
<1>4. /\ fw'[b].pin = fw[b].pin /\ fw'[b].addr = n /\ ~fw'[b].asked
      /\ (fw'[b].held <=> n % Words = 0) /\ fw'[b].seen = Summed(fw[b].seen, a, {i})
      /\ buffer'[b] = [buffer[b] EXCEPT ![r] = i] /\ flash'[b] = flash[b]
  BY <1>2, <1>3 DEF TakesWord, Keeps
<1>5. fw[b].pin = i /\ fw[b].seen \subseteq {i} /\ (a > 0 => i \in fw[b].seen)
      /\ (\A w \in 0 .. Words - 1 : w < r => buffer[b][w] = i) /\ Filled(flash[b], a - r, i)
  BY <1>3 DEF PullOK
<1>6. r \in 0 .. Words - 1 /\ n % Words = IF r = Words - 1 THEN 0 ELSE r + 1
  <2> HIDE DEF a
  <2> QED BY <1>1, DivMod, NextMod
<1>7. fw'[b].seen \subseteq {i} /\ i \in fw'[b].seen
  <2> HIDE DEF a
  <2> QED BY <1>1, <1>4, <1>5 DEF Summed
<1> HIDE DEF a, r
<1>8. \A w \in 0 .. Words - 1 : w < r + 1 => buffer'[b][w] = i
  BY <1>1, <1>4, <1>5, <1>6
<1>9. n > 0 /\ n \in Nat  BY <1>1
<1>10. n - (r + 1) = a - r  BY <1>1, <1>6
<1> HIDE DEF n
<1>11. CASE r = Words - 1
  <2>1. n % Words = 0 /\ n - Words = a - r /\ \A w \in 0 .. Words - 1 : w < r + 1
    BY <1>1, <1>6, <1>10, <1>11
  <2>2. fw'[b].held  BY <1>4, <2>1
  <2>3. Filled(flash'[b], n - Words, i)  BY <1>4, <1>5, <2>1
  <2>4. \A w \in 0 .. Words - 1 : buffer'[b][w] = i  BY <1>8, <2>1
  <2> QED BY <1>4, <1>5, <1>7, <1>9, <2>1, <2>2, <2>3, <2>4 DEF PullOK
<1>12. CASE r # Words - 1
  <2>1. n % Words = r + 1 /\ n % Words # 0  BY <1>6, <1>12
  <2>2. ~fw'[b].held  BY <1>4, <2>1
  <2>3. Filled(flash'[b], n - (n % Words), i)  BY <1>4, <1>5, <1>10, <2>1
  <2>4. \A w \in 0 .. Words - 1 : w < n % Words => buffer'[b][w] = i  BY <1>8, <2>1
  <2> QED BY <1>4, <1>5, <1>7, <2>2, <2>3, <2>4 DEF PullOK
<1> QED BY <1>11, <1>12

(* A pull that begins has nothing. *)
LEMMA PullBegins ==
  ASSUME NEW s, NEW f, NEW d, NEW i, NEW e \in BOOLEAN, NEW drain \in BOOLEAN, i \in Image,
         s = BeginPull(i, e, drain)
  PROVE  s.source = "PULL" /\ PullOK(s, f, d, i)
<1>1. i \in Cell  BY Cells
<1>2. s.source = "PULL" /\ ~s.asked /\ ~s.held /\ s.pin = i /\ s.addr = 0 /\ s.seen = {}
  BY <1>1, BeginPullOK
<1>3. \A w \in 0 .. Words - 1 : ~(w < 0)  BY Sizes
<1>4. Filled(f, 0, i)  BY Sizes DEF Filled, Address
<1>5. 0 % Words = 0 /\ 0 - 0 = 0  BY Sizes
<1> QED BY <1>2, <1>3, <1>4, <1>5 DEF PullOK

(* One board leads and the other follows: the terms of the next lemmas.    *)
Pair(t) == Newest(t) /\ Follows(Peer(t), run[t])

(* The follower asks, *)
LEMMA AsksPair ==
  ASSUME FirmwareIInv, NEW t \in Board, Pair(t), NEW b \in Board, Asks(b)
  PROVE  Pair(t)'
<1>0. FirmwareTypeOK  BY DEF FirmwareIInv
<1>1. b # t /\ b = Peer(t)  BY PeerFacts DEF Asks, Pair, Newest, NewestOK
<1>2. Newest(t)'
  BY <1>1 DEF Asks, Pair, Newest
<1>3. PullOK(fw'[b], flash'[b], buffer'[b], run[t])
  BY <1>1, PullAsks DEF Asks, Pair, Follows, FollowsOK
<1>4. \A m \in Packets(link'[b]) :
        m \in Packets(link[b]) \/ m.type # "HEARTBEAT"
  <2>1. link[b] \in Seq(Packet)  BY <1>0, BoardTypes
  <2>2. \/ link'[b] = link[b]
        \/ \E m \in Packet : m.type # "HEARTBEAT" /\ link'[b] = Append(link[b], m)
    BY DEF Asks
  <2> QED BY <2>1, <2>2, PacketsOf
<1>5. run' = run /\ up' = up /\ reboot' = reboot /\ ~reboot[b] /\ fw'[b].source = "PULL"
  BY DEF Asks, Running
<1>6. Follows(b, run[t])'
  BY <1>1, <1>3, <1>4, <1>5 DEF Pair, Follows, FollowsOK
<1> QED BY <1>1, <1>2, <1>6 DEF Pair

(* ... ends its pull, *)
LEMMA FinishesPair ==
  ASSUME FirmwareIInv, NEW t \in Board, Pair(t), NEW b \in Board, Finishes(b)
  PROVE  Pair(t)'
<1>0. FirmwareTypeOK  BY DEF FirmwareIInv
<1>1. b # t /\ b = Peer(t)  BY PeerFacts DEF Finishes, Pair, Newest, NewestOK
<1>2. Newest(t)' /\ run'[t] = run[t]
  BY <1>1 DEF Finishes, Alone, Pair, Newest
<1>3. fw[b].seen = {fw[b].pin} /\ fw[b].pin = run[t] /\ Valid(flash'[b], fw[b].pin)
  BY <1>1, PullFinishes DEF Finishes, Pair, Follows, FollowsOK
<1>4. ~fw'[b].dirty /\ up'[b] /\ run'[b] = run[t] /\ fw'[b].source = "NONE" /\ link' = link
  BY <1>3 DEF Finishes
<1>5. Version[run[t]] \in Nat  BY <1>0, BoardTypes
<1>6. Version[run[t]] <= Version[run[t]]  BY <1>5
<1>7. Follows(b, run[t])'
  BY <1>1, <1>2, <1>4, <1>6 DEF Pair, Follows, FollowsOK
<1> QED BY <1>1, <1>2, <1>7 DEF Pair

(* ... and a packet goes either way. *)
LEMMA ServesPair ==
  ASSUME FirmwareIInv, NEW t \in Board, Pair(t), NEW b \in Board, Serves(b)
  PROVE  Pair(t)'
<1>0. FirmwareTypeOK  BY DEF FirmwareIInv
<1> DEFINE o == Peer(t)
<1>1. o \in Board /\ o # t /\ (b = t \/ b = o) /\ Peer(t) = o /\ Peer(o) = t
  BY PeerFacts DEF Peer, Board
<1>2. UNCHANGED <<up, run, flash, buffer, fw, reboot, written>>  BY DEF Serves
<1>3. \A c \in Board : link[c] \in Seq(Packet)  BY <1>0, BoardTypes
<1>4. \A c \in Board : \A m \in Packets(link'[c]) :
        m \in Packets(link[c]) \/ (c = b /\ Served(c, m))
  <2> SUFFICES ASSUME NEW c \in Board
               PROVE  \A m \in Packets(link'[c]) :
                        m \in Packets(link[c]) \/ (c = b /\ Served(c, m))
    OBVIOUS
  <2>1. link[c] \in Seq(Packet)  BY <1>3
  <2>2. CASE link'[c] = link[c]  BY <2>2
  <2>3. CASE link[c] # <<>> /\ link'[c] = Tail(link[c])  BY <2>1, <2>3, PacketsOf
  <2>4. CASE c = b /\ \E m \in Packet : Served(c, m) /\ link'[c] = Append(link[c], m)
    BY <2>1, <2>4, PacketsOf
  <2> QED BY <2>2, <2>3, <2>4, PeerFacts DEF Serves
<1>5. batch'[t].tx = batch[t].tx \/ batch'[t].tx = NoPage \/ Copied(t, batch'[t].tx)
  BY <1>1 DEF Serves, Alone
<1>6. \A a \in Address : flash[t][a] = run[t]  BY DEF Pair, Newest, NewestOK
<1>7. batch'[t].tx = NoPage \/ \A w \in 0 .. Words - 1 : batch'[t].tx.cells[w] = run[t]
  BY <1>5, <1>6 DEF Copied, Pair, Newest, NewestOK
<1>8. \A m : Served(t, m) => Genuine(m, run[t])
  BY <1>6 DEF Served, Genuine, Pair, Newest, NewestOK
<1>9. \A m \in Packets(link'[t]) : Genuine(m, run[t])
  BY <1>4, <1>8 DEF Pair, Newest, NewestOK
<1>10. Newest(t)'  BY <1>2, <1>7, <1>9 DEF Pair, Newest, NewestOK
<1>11. \A m : Served(o, m) /\ m.type = "HEARTBEAT" => m.image = run[o]
  BY DEF Served
<1>12. \A m \in Packets(link'[o]) : m.type = "HEARTBEAT" => Version[m.image] <= Version[run[t]]
  BY <1>1, <1>4, <1>11 DEF Pair, Follows, FollowsOK
<1>13. Follows(o, run[t])'
  BY <1>2, <1>12 DEF Pair, Follows, FollowsOK
<1> QED BY <1>10, <1>13 DEF Pair

(* The follower takes what the leader sent, or is the leader itself. *)
LEMMA TakesPair ==
  ASSUME FirmwareIInv, NEW t \in Board, Pair(t), NEW b \in Board, Takes(b)
  PROVE  Pair(t)'
<1>0. FirmwareTypeOK  BY DEF FirmwareIInv
<1> DEFINE o == Peer(t)
           i == run[t]
<1>1. o \in Board /\ o # t /\ (b = t \/ b = o) /\ Peer(t) = o /\ Peer(o) = t
  BY PeerFacts DEF Peer, Board
<1>2. /\ UNCHANGED <<up, run, flash, reboot, written>> /\ Alone(b)
      /\ fw'[b].source = fw[b].source /\ fw'[b].dirty = fw[b].dirty
      /\ batch'[b].tx = batch[b].tx
      /\ link[Peer(b)] # <<>> /\ link'[Peer(b)] = Tail(link[Peer(b)]) /\ link'[b] = link[b]
  BY DEF Takes, Keeps
<1>3. link[Peer(b)] \in Seq(Packet)  BY <1>0, BoardTypes, PeerFacts
<1>4. /\ Packets(link'[Peer(b)]) \subseteq Packets(link[Peer(b)])
      /\ Incoming(b) \in Packets(link[Peer(b)])
  BY <1>2, <1>3, PacketsOf DEF Incoming
<1>5. Packets(link'[t]) \subseteq Packets(link[t]) /\ Packets(link'[o]) \subseteq Packets(link[o])
  BY <1>1, <1>2, <1>4
<1>6. fw'[t].source = fw[t].source /\ fw'[t].dirty = fw[t].dirty /\ batch'[t].tx = batch[t].tx
  BY <1>1, <1>2 DEF Alone
<1>7. Newest(t)'  BY <1>2, <1>5, <1>6 DEF Pair, Newest, NewestOK
<1>8. fw'[o].source = fw[o].source /\ fw'[o].dirty = fw[o].dirty
  BY <1>1, <1>2 DEF Alone
<1>9. fw[o].source = "PULL" => PullOK(fw'[o], flash'[o], buffer'[o], i)
  <2> SUFFICES ASSUME fw[o].source = "PULL" PROVE PullOK(fw'[o], flash'[o], buffer'[o], i)
    OBVIOUS
  <2>1. PullOK(fw[o], flash[o], buffer[o], i)  BY DEF Pair, Follows, FollowsOK
  <2>2. CASE b = t
    BY <1>1, <1>2, <2>1, <2>2 DEF Alone
  <2>3. CASE b = o
    <3>1. Genuine(Incoming(o), i)
      BY <1>1, <1>4, <2>3 DEF Pair, Newest, NewestOK
    <3> HIDE DEF o, i
    <3> QED BY <1>1, <2>1, <2>3, <3>1, PullNotes, PullTakesPage, PullTakesWord DEF Takes
  <2> QED BY <1>1, <2>2, <2>3
<1>10. Follows(o, i)'
  BY <1>2, <1>5, <1>8, <1>9 DEF Pair, Follows, FollowsOK
<1> QED BY <1>7, <1>10 DEF Pair

(* A reboot is asked for only of a board that neither pulls nor is dirty. *)
LEMMA RebootsPair ==
  ASSUME FirmwareIInv, ~AnyReboot, NEW t \in Board, Pair(t), NEW b \in Board, Reboots(b)
  PROVE  Pair(t)'
<1>1. UNCHANGED <<up, run, flash, buffer, fw, batch, link, written>>  BY DEF Reboots
<1>2. Newest(t)'  BY <1>1 DEF Pair, Newest
<1>3. Peer(t) \in Board /\ (reboot'[Peer(t)] => reboot[Peer(t)] \/ Peer(t) = b)
  BY PeerFacts DEF Reboots
<1>4. reboot'[Peer(t)] => ~fw[Peer(t)].dirty /\ fw[Peer(t)].source = "NONE"
  BY <1>3 DEF Reboots, Pair, Follows, FollowsOK
<1>5. Follows(Peer(t), run[t])'
  BY <1>1, <1>4 DEF Pair, Follows, FollowsOK
<1> QED BY <1>2, <1>5 DEF Pair

(* A board that restarts is on the image it ran. *)
LEMMA RestartsPair ==
  ASSUME FirmwareIInv, NEW t \in Board, Pair(t), NEW b \in Board, Restarts(b)
  PROVE  Pair(t)'
<1>0. FirmwareTypeOK /\ BoardInv(b)  BY DEF FirmwareIInv
<1>1. Peer(t) \in Board /\ Peer(t) # t /\ (b = t \/ b = Peer(t))  BY PeerFacts
<1>2. ~fw[b].dirty /\ fw[b].source # "DROP" /\ up[b]
  BY <1>1 DEF Restarts, Pair, Newest, NewestOK, Follows, FollowsOK
<1>3. Valid(flash[b], run[b]) /\ run[b] \in Image
  BY <1>0, <1>2, BoardTypes DEF BoardInv, BoardOK
<1>4. flash[b][Meta] = run[b]  BY <1>3, Sizes DEF Valid
<1>5. up'[b] /\ run'[b] = run[b]  BY <1>3, <1>4 DEF Restarts
<1>6. /\ fw'[b].source = "NONE" /\ ~fw'[b].dirty /\ batch'[b].tx = NoPage /\ ~reboot'[b]
      /\ flash' = flash /\ link' = link /\ Alone(b)
  BY NoUpdateOK, NoBatchOK DEF Restarts
<1>7. CASE b = t
  <2>1. Newest(t)'  BY <1>5, <1>6, <1>7 DEF Pair, Newest, NewestOK
  <2>2. Follows(Peer(t), run[t])'
    BY <1>1, <1>5, <1>6, <1>7 DEF Alone, Pair, Follows
  <2> QED BY <2>1, <2>2 DEF Pair
<1>8. CASE b = Peer(t)
  <2>1. Newest(t)' /\ run'[t] = run[t]  BY <1>1, <1>6, <1>8 DEF Alone, Pair, Newest
  <2>2. Follows(Peer(t), run[t])'
    BY <1>5, <1>6, <1>8, <2>1 DEF Pair, Follows, FollowsOK
  <2> QED BY <2>1, <2>2 DEF Pair
<1> QED BY <1>1, <1>7, <1>8

(* The follower begins, or stops, a pull of the leader's image; the leader *)
(* hears of nothing newer.                                                 *)
LEMMA TurnsPair ==
  ASSUME FirmwareIInv, NEW t \in Board, Pair(t), NEW b \in Board, NEW i, Turns(b, i),
         b = t => ~Begins(t, i), b = Peer(t) => i = run[t],
         Packets(link'[t]) \subseteq Packets(link[t]),
         Packets(link'[Peer(t)]) \subseteq Packets(link[Peer(t)])
  PROVE  Pair(t)'
<1>0. FirmwareTypeOK  BY DEF FirmwareIInv
<1>1. Peer(t) \in Board /\ Peer(t) # t /\ (b = t \/ b = Peer(t))  BY PeerFacts
<1>2. /\ UNCHANGED <<up, run, flash, buffer, reboot, written>> /\ Alone(b) /\ i \in Image
  BY DEF Turns
<1>3. CASE b = t
  <2>1. fw[t].source = "NONE"  BY DEF Pair, Newest, NewestOK
  <2>2. fw'[t] = fw[t] /\ batch'[t] = batch[t]  BY <1>3, <2>1 DEF Turns
  <2>3. Newest(t)'  BY <1>2, <2>2 DEF Pair, Newest, NewestOK
  <2>4. Follows(Peer(t), run[t])'
    BY <1>1, <1>2, <1>3 DEF Alone, Pair, Follows, FollowsOK
  <2> QED BY <2>3, <2>4 DEF Pair
<1>4. CASE b = Peer(t)
  <2>1. Newest(t)'  BY <1>1, <1>2, <1>4 DEF Alone, Pair, Newest, NewestOK
  <2>2. /\ fw'[b].source # "DROP"
        /\ (reboot[b] => ~fw'[b].dirty /\ fw'[b].source = "NONE")
        /\ (fw'[b].source = "PULL" => PullOK(fw'[b], flash[b], buffer[b], run[t]))
    <3>1. CASE fw'[b] = fw[b]
      BY <1>4, <3>1 DEF Pair, Follows, FollowsOK
    <3>2. CASE /\ Running(b)
               /\ fw'[b] = BeginPull(i, fw[b].dirty, TRUE) \/ fw'[b] = BeginPull(i, fw[b].dirty, FALSE)
      <4>1. PICK drain \in BOOLEAN : fw'[b] = BeginPull(i, fw[b].dirty, drain)  BY <3>2
      <4>2. fw[b].dirty \in BOOLEAN  BY <1>0, BoardTypes, FwFields
      <4>3. fw'[b].source = "PULL" /\ PullOK(fw'[b], flash[b], buffer[b], i)
        BY <1>2, <4>1, <4>2, PullBegins
      <4> QED BY <1>4, <3>2, <4>3 DEF Running
    <3>3. CASE Running(b) /\ fw[b].source = "PULL" /\ fw'[b] = StopPull(fw[b])
      <4>1. fw[b] \in Fw  BY <1>0, BoardTypes
      <4>2. fw'[b].source \in {"NONE", "PAUSED"}  BY <3>3, <4>1, StopPullOK
      <4> QED BY <3>3, <4>2 DEF Running
    <3> QED BY <3>1, <3>2, <3>3 DEF Turns
  <2>3. Follows(b, run[t])'
    BY <1>2, <1>4, <2>2 DEF Pair, Follows, FollowsOK
  <2> QED BY <1>4, <2>1, <2>3 DEF Pair
<1> QED BY <1>1, <1>3, <1>4

(* ... as its stall, *)
LEMMA StalledPair ==
  ASSUME FirmwareIInv, NEW t \in Board, Pair(t), NEW b \in Board, fw[b].source = "PULL",
         Turns(b, fw[b].pin), link' = link
  PROVE  Pair(t)'
<1>1. b # t /\ b = Peer(t)  BY PeerFacts DEF Pair, Newest, NewestOK
<1>2. fw[b].pin = run[t]  BY <1>1 DEF Pair, Follows, FollowsOK, PullOK
<1> QED BY <1>1, <1>2, TurnsPair

(* ... and as every heartbeat. *)
LEMMA HeartbeatPair ==
  ASSUME FirmwareIInv, NEW t \in Board, Pair(t), NEW b \in Board, link[Peer(b)] # <<>>,
         Incoming(b).type = "HEARTBEAT", Turns(b, Incoming(b).image), Consume(b)
  PROVE  Pair(t)'
<1>0. FirmwareTypeOK  BY DEF FirmwareIInv
<1> DEFINE i == Incoming(b).image
<1>1. Peer(t) \in Board /\ Peer(t) # t /\ (b = t \/ b = Peer(t)) /\ Peer(Peer(t)) = t
  BY PeerFacts DEF Peer, Board
<1>2. link[Peer(b)] \in Seq(Packet)  BY <1>0, BoardTypes, PeerFacts
<1>3. link'[Peer(b)] = Tail(link[Peer(b)]) /\ link'[b] = link[b]  BY <1>0, Consumes
<1>4. Packets(link'[Peer(b)]) \subseteq Packets(link[Peer(b)])
      /\ Incoming(b) \in Packets(link[Peer(b)])
  BY <1>2, <1>3, PacketsOf DEF Incoming
<1>5. /\ Packets(link'[t]) \subseteq Packets(link[t])
      /\ Packets(link'[Peer(t)]) \subseteq Packets(link[Peer(t)])
  BY <1>1, <1>3, <1>4
<1>6. b = Peer(t) => i = run[t]
  BY <1>1, <1>4 DEF Pair, Newest, NewestOK, Genuine
<1>7. b = t => ~Begins(t, i)
  <2> SUFFICES ASSUME b = t PROVE ~Begins(t, i)  OBVIOUS
  <2>1. Version[i] <= Version[run[t]]
    BY <1>4 DEF Pair, Follows, FollowsOK
  <2>2. Version[i] \in Nat /\ Version[run[t]] \in Nat
    BY <1>0, BoardTypes, ImageAssumption DEF Turns
  <2>3. fw[t].source = "NONE"  BY DEF Pair, Newest, NewestOK
  <2> HIDE DEF i
  <2> QED BY <2>1, <2>2, <2>3 DEF Begins, Newer
<1> HIDE DEF i
<1>8. Turns(b, i)  BY DEF i
<1> QED BY <1>5, <1>6, <1>7, <1>8, TurnsPair

(* At first the board with the newer image leads. *)
LEMMA InitPair == Init => PairOK
<1> SUFFICES ASSUME Init PROVE PairOK  OBVIOUS
<1>1. FirmwareTypeOK  BY InitInv DEF FirmwareIInv
<1>2. \A b \in Board : Version[run[b]] \in Nat  BY <1>1, BoardTypes
<1>3. PICK t \in Board : Version[run[Peer(t)]] <= Version[run[t]]
  BY <1>2 DEF Board, Peer
<1>4. Peer(t) \in Board  BY PeerFacts
<1>5. \A b \in Board : /\ fw[b] = NoUpdate /\ batch[b] = NoBatch /\ ~reboot[b] /\ up[b]
                       /\ link[b] = <<>> /\ \A a \in Address : flash[b][a] = run[b]
  BY DEF Init
<1>6. Packets(<<>>) = {}  BY DEF Packets
<1>7. Newest(t)  BY <1>5, <1>6, NoUpdateOK, NoBatchOK DEF Newest, NewestOK
<1>8. Follows(Peer(t), run[t])
  BY <1>3, <1>4, <1>5, <1>6, NoUpdateOK DEF Follows, FollowsOK
<1> QED BY <1>7, <1>8 DEF PairOK

(* Whatever happens but a dropped file, the pair stays one. *)
LEMMA PairStep ==
  ASSUME ~AnyReboot, FirmwareIInv, PairOK, Next
  PROVE  PairOK'
<1>1. SUFFICES ASSUME written' = 0 PROVE \E t \in Board : Pair(t)'
  BY DEF PairOK, Pair
<1>2. PICK b \in Board : StepOf(b)  BY EveryStep
<1>3. written' = written
  <2>1. Asks(b) => written' = written  BY DEF Asks
  <2>2. Finishes(b) => written' = written  BY DEF Finishes
  <2>3. Serves(b) => written' = written  BY DEF Serves
  <2>4. Takes(b) => written' = written  BY DEF Takes, Keeps
  <2>5. Reboots(b) => written' = written  BY DEF Reboots
  <2>6. Restarts(b) => written' = written  BY DEF Restarts
  <2>7. \A i : Turns(b, i) => written' = written  BY DEF Turns
  <2>8. ~(written' > 0)  BY <1>1
  <2> QED BY <1>2, <2>1, <2>2, <2>3, <2>4, <2>5, <2>6, <2>7, <2>8 DEF StepOf
<1>4. PICK t \in Board : Pair(t)  BY <1>1, <1>3 DEF PairOK, Pair
<1>5. ~(written' > 0)  BY <1>1
<1>6. Pair(t)'
  BY <1>2, <1>4, <1>5, AsksPair, FinishesPair, ServesPair, TakesPair, RebootsPair, RestartsPair,
     StalledPair, HeartbeatPair DEF StepOf
<1> QED BY <1>6

(* Lost, late, repeated and partial answers, stalls, resets and guarded    *)
(* reboots of either board never spoil a pull: as long as no host drops a  *)
(* file, no board ends in the ROM bootloader, for slots, pages, links and  *)
(* fault counts of every size.                                             *)
THEOREM PullsEndWell ==
  ASSUME ~AnyReboot
  PROVE  Spec => []PullsNeverSpoil
<1>1. FirmwareIInv /\ PairOK /\ [Next]_vars => PairOK'
  <2>1. FirmwareIInv /\ PairOK /\ Next => PairOK'  BY PairStep
  <2>2. PairOK /\ UNCHANGED vars => PairOK'
    BY DEF PairOK, Newest, Follows, vars
  <2> QED BY <2>1, <2>2
<1>2. PairOK => PullsNeverSpoil
  <2> SUFFICES ASSUME PairOK, written = 0, NEW b \in Board PROVE up[b]
    BY DEF PullsNeverSpoil
  <2>1. PICK t \in Board : Newest(t) /\ Follows(Peer(t), run[t])  BY DEF PairOK
  <2>2. b = t \/ b = Peer(t)  BY PeerFacts
  <2> QED BY <2>1, <2>2 DEF Newest, NewestOK, Follows, FollowsOK
<1> QED BY <1>1, <1>2, InitPair, FirmwareInvariance, PTL DEF Spec

=============================================================================
