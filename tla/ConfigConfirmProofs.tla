------------------------- MODULE ConfigConfirmProofs --------------------------
(***************************************************************************)
(* The confirmed configuration service keeps its types, does nothing for a *)
(* USB session that has ended and, for a client that does not repeat its   *)
(* requests, keeps the promise of ConfirmedCall: for every number of       *)
(* requests, losses, disconnections and resets and every queue size.       *)
(*                                                                         *)
(* A pass of the service is followed in its own order (cancel, expire,     *)
(* receive, transport): SvcOK holds of the service's state before the      *)
(* pass, LiveOK between its parts.  The promise needs more than the types: *)
(* that the META frame of a request exists in one place at most, from the  *)
(* page to the board the request is for, and only while that board has not *)
(* decided it (Fresh), and that whatever speaks of an outcome on its way   *)
(* back to the page agrees with the decision (Truth).                      *)
(***************************************************************************)
EXTENDS ConfigConfirm, SequenceTheorems, TLAPS

Far == Peer(Bridge)

Svc(b) == [cur |-> cur[b], prev |-> prev[b]]

HostRec ==
  [tok : Nat, open : BOOLEAN, again : BOOLEAN, recalled : BOOLEAN, sent : 0 .. 4,
   status : Status \cup {None}, result : Results \cup {0, None}, answer : Outcome \cup {None}]

Counts ==
  /\ role \in Seq(Board) /\ ran \in Seq(Outcome \cup {None}) /\ Len(ran) = Len(role)
  /\ attempts \in 0 .. MaxAttempts /\ Len(role) <= attempts
  /\ trouble \in 0 .. MaxTrouble /\ epoch \in 0 .. trouble
  /\ ended \in 0 .. Len(role)

(* The transaction of b: whose request it is, where it came from and, if   *)
(* it is of the present USB session, that the session asked for it.        *)
TransOK(b, c) ==
  /\ c \in Transaction
  /\ c.phase # "IDLE" /\ c.usb => c.epoch <= epoch
  /\ c.phase # "IDLE" => c.tok \in 1 .. Len(role) /\ (c.usb <=> b = Bridge)
  /\ c.phase # "IDLE" /\ b # Bridge => role[c.tok] = b
  /\ c.phase \in {"FORWARDING", "WAITING"} => b = Bridge /\ role[c.tok] # b
  /\ c.phase = "REPLYING" => c.out \in Outcome
  /\ c.phase # "IDLE" /\ c.usb /\ c.epoch = epoch => c.tok > ended

CacheOK(p) ==
  /\ p \in Cached /\ p.tok \in 0 .. Len(role)
  /\ p.tok # 0 => p.out \in Outcome

(* A transaction of a session that has ended is cancelled by the next pass. *)
Live(c) == c.phase # "IDLE" /\ c.usb => c.epoch = epoch

ReplayOK(c, p) == c.phase # "IDLE" /\ c.replay /\ Live(c) => p.tok = c.tok

SvcOK(b, s) == TransOK(b, s.cur) /\ CacheOK(s.prev) /\ ReplayOK(s.cur, s.prev)

(* Requests reach the bridge from the host and its peer from the bridge,   *)
(* answers reach the bridge.                                               *)
ItemOK(b, i) ==
  /\ i \in Item /\ i.frame.tok \in 1 .. Len(role)
  /\ i.usb => i.epoch <= epoch
  /\ i.usb <=> b = Bridge /\ i.frame.type \in Asking
  /\ b # Bridge => i.frame.type \in Asking /\ role[i.frame.tok] = b
  /\ i.usb /\ i.epoch = epoch => i.frame.tok > ended

QueueOK(b, q) ==
  /\ q \in Seq(Item) /\ Len(q) <= IngressCap
  /\ \A k \in 1 .. Len(q) : ItemOK(b, q[k])

HostOK ==
  /\ host \in HostRec /\ host.tok = Len(role)
  /\ host.open \/ host.recalled => host.tok > ended

ConfirmIInv ==
  /\ Counts /\ HostOK
  /\ cur \in [Board -> Transaction] /\ prev \in [Board -> Cached]
  /\ ingress \in [Board -> Seq(Item)]
  /\ \A b \in Board : SvcOK(b, Svc(b)) /\ QueueOK(b, ingress[b])

-----------------------------------------------------------------------------
(* The way of the META frame of request t to the board t is for.           *)

IsMeta(i, t) == i.frame.type = "META" /\ i.frame.tok = t
MetaIn(q, t) == \E k \in 1 .. Len(q) : IsMeta(q[k], t)
Single(q, t) == \A j, k \in 1 .. Len(q) : IsMeta(q[j], t) /\ IsMeta(q[k], t) => j = k

AtHost(h, t) == h.open /\ h.sent = 0 /\ h.tok = t
Begun(c, t) ==
  c.tok = t /\ (c.phase = "ASSEMBLING" \/ (c.phase = "FORWARDING" /\ c.step = 0))

(* It is in one place at most, and nowhere once t has been decided (h, q,  *)
(* c and R stand for host, ingress, cur and ran).                          *)
FreshIn(h, q, c, R, t) ==
  /\ AtHost(h, t) => ~MetaIn(q[Bridge], t) /\ ~Begun(c[Bridge], t)
                     /\ ~MetaIn(q[Far], t) /\ ~Begun(c[Far], t) /\ R[t] = None
  /\ MetaIn(q[Bridge], t) => ~Begun(c[Bridge], t) /\ ~MetaIn(q[Far], t)
                             /\ ~Begun(c[Far], t) /\ R[t] = None
  /\ Begun(c[Bridge], t) => ~MetaIn(q[Far], t) /\ ~Begun(c[Far], t) /\ R[t] = None
  /\ MetaIn(q[Far], t) => ~Begun(c[Far], t) /\ R[t] = None
  /\ Begun(c[Far], t) => R[t] = None
  /\ Single(q[Bridge], t) /\ Single(q[Far], t)

Fresh == \A t \in 1 .. Len(role) : FreshIn(host, ingress, cur, ran, t)

(* What is said of outcomes is what the boards decided: remembered, being  *)
(* answered, on its way, put together by the bridge, heard by the page.    *)
SvcTrue(s, R) ==
  /\ s.prev.tok # 0 => R[s.prev.tok] = s.prev.out
  /\ s.cur.phase = "REPLYING" => R[s.cur.tok] = s.cur.out
  /\ s.cur.phase # "IDLE" /\ s.cur.status # None
       => R[s.cur.tok] # None /\ R[s.cur.tok].status = s.cur.status
  /\ s.cur.phase = "ASSEMBLING" => ~s.cur.replay

FrameTrue(f, R) ==
  /\ f.type = "ACK_META" => R[f.tok] # None /\ R[f.tok].status = f.status
  /\ f.type = "ACK_VALUE" => R[f.tok] # None /\ R[f.tok].result = f.result

HostTrue(h, R) ==
  /\ h.status # None => h.tok # 0 /\ R[h.tok] # None /\ R[h.tok].status = h.status
  /\ h.result # None => h.tok # 0 /\ R[h.tok] # None /\ R[h.tok].result = h.result

Honest(q, R) == \A k \in 1 .. Len(q) : FrameTrue(q[k].frame, R)

Truth ==
  /\ \A b \in Board : SvcTrue(Svc(b), ran) /\ Honest(ingress[b], ran)
  /\ HostTrue(host, ran)

CallIInv == ConfirmIInv /\ ~host.again /\ Fresh /\ Truth

(* Between the parts of a pass the transaction belongs to this session.    *)
LiveOK(b, s) ==
  /\ s \in [cur : Transaction, prev : Cached]
  /\ SvcOK(b, s) /\ Live(s.cur)

-----------------------------------------------------------------------------
(* The updates of a transaction, field by field. *)

With(c, phase, parts, step, status, out) ==
  [phase |-> phase, tok |-> c.tok, parts |-> parts, usb |-> c.usb, epoch |-> c.epoch,
   step |-> step, replay |-> c.replay, status |-> status, out |-> out]

LEMMA WithTypes ==
  ASSUME NEW c \in Transaction,
         NEW phase \in {"IDLE", "ASSEMBLING", "FORWARDING", "WAITING", "REPLYING"},
         NEW parts \in SUBSET Parts, NEW step \in 0 .. 3,
         NEW status \in Status \cup {None}, NEW out \in Outcome \cup {None}
  PROVE  With(c, phase, parts, step, status, out) \in Transaction
  BY DEF With, Transaction

LEMMA TransactionFields ==
  ASSUME NEW c \in Transaction
  PROVE  /\ c.phase \in {"IDLE", "ASSEMBLING", "FORWARDING", "WAITING", "REPLYING"}
         /\ c.tok \in Token \cup {0} /\ c.parts \in SUBSET Parts /\ c.usb \in BOOLEAN
         /\ c.epoch \in 0 .. MaxTrouble /\ c.step \in 0 .. 3 /\ c.replay \in BOOLEAN
         /\ c.status \in Status \cup {None} /\ c.out \in Outcome \cup {None}
  BY DEF Transaction

LEMMA NothingType == Nothing \in Transaction /\ Nothing.phase = "IDLE"
  BY ConfirmAssumption DEF Nothing, Transaction

LEMMA WithPhase ==
  ASSUME NEW c \in Transaction, NEW x
  PROVE  [c EXCEPT !.phase = x] = With(c, x, c.parts, c.step, c.status, c.out)
  BY DEF Transaction, With

LEMMA WithStep ==
  ASSUME NEW c \in Transaction, NEW x
  PROVE  [c EXCEPT !.step = x] = With(c, c.phase, c.parts, x, c.status, c.out)
  BY DEF Transaction, With

LEMMA WithParts ==
  ASSUME NEW c \in Transaction, NEW x
  PROVE  [c EXCEPT !.parts = x] = With(c, c.phase, x, c.step, c.status, c.out)
  BY DEF Transaction, With

LEMMA WithStatus ==
  ASSUME NEW c \in Transaction, NEW x
  PROVE  [c EXCEPT !.status = x] = With(c, c.phase, c.parts, c.step, x, c.out)
  BY DEF Transaction, With

(* The updates of several fields, by name. *)
Renewed(c, x, y) == [c EXCEPT !.phase = x, !.step = y]
Answering(c, out) == [c EXCEPT !.phase = "REPLYING", !.step = 0, !.out = out]

LEMMA RenewedFields ==
  ASSUME NEW c \in Transaction, NEW x, NEW y
  PROVE  Renewed(c, x, y) = With(c, x, c.parts, y, c.status, c.out)
<1>1. [With(c, x, c.parts, c.step, c.status, c.out) EXCEPT !.step = y]
        = With(c, x, c.parts, y, c.status, c.out)
  BY DEF With
<1>2. QED
  BY <1>1, WithPhase DEF Renewed

LEMMA AnsweringFields ==
  ASSUME NEW c \in Transaction, NEW out
  PROVE  Answering(c, out) = With(c, "REPLYING", c.parts, 0, c.status, out)
<1>1. [With(c, "REPLYING", c.parts, 0, c.status, c.out) EXCEPT !.out = out]
        = With(c, "REPLYING", c.parts, 0, c.status, out)
  BY DEF With
<1>2. Answering(c, out) = [Renewed(c, "REPLYING", 0) EXCEPT !.out = out]
  BY Zenon DEF Answering, Renewed
<1>3. Renewed(c, "REPLYING", 0) = With(c, "REPLYING", c.parts, 0, c.status, c.out)
  BY RenewedFields, Zenon
<1>4. QED
  BY <1>1, <1>2, <1>3

(* A transaction that a frame of the request t begins. *)
Starting(phase, t, usb, e, replay) ==
  [phase |-> phase, tok |-> t, parts |-> {}, usb |-> usb, epoch |-> e, step |-> 0,
   replay |-> replay, status |-> None, out |-> None]

LEMMA StartingType ==
  ASSUME NEW phase \in {"IDLE", "ASSEMBLING"}, NEW t \in Token \cup {0}, NEW usb \in BOOLEAN,
         NEW e \in 0 .. MaxTrouble, NEW replay \in BOOLEAN
  PROVE  Starting(phase, t, usb, e, replay) \in Transaction
  BY DEF Starting, Transaction

LEMMA FinishFields ==
  ASSUME NEW s \in [cur : Transaction, prev : Cached], NEW out
  PROVE  /\ Finish(s, out).cur = With(s.cur, "REPLYING", s.cur.parts, 0, s.cur.status, out)
         /\ s.cur.replay => Finish(s, out).prev = s.prev
         /\ ~s.cur.replay
              => Finish(s, out).prev = [tok |-> s.cur.tok, usb |-> s.cur.usb,
                                        epoch |-> s.cur.epoch, out |-> out]
         /\ Finish(s, out) = [cur |-> Finish(s, out).cur, prev |-> Finish(s, out).prev]
<1>1. s.cur \in Transaction
  OBVIOUS
<1> DEFINE w == Answering(s.cur, out)
<1>2. Finish(s, out)
        = [cur  |-> w,
           prev |-> IF s.cur.replay THEN s.prev
                    ELSE [tok |-> s.cur.tok, usb |-> s.cur.usb, epoch |-> s.cur.epoch,
                          out |-> out]]
  BY Zenon DEF Finish, Answering
<1>3. w = With(s.cur, "REPLYING", s.cur.parts, 0, s.cur.status, out)
  BY <1>1, AnsweringFields, Zenon
<1> HIDE DEF w
<1>4. QED
  BY <1>2, <1>3

-----------------------------------------------------------------------------
(* The service, part by part. *)

Service == [cur : Transaction, prev : Cached]

(* Transaction c of b belongs to a request this session may ask for. *)
Owned(b, c) ==
  /\ c \in Transaction /\ c.tok \in 1 .. Len(role)
  /\ c.usb <=> b = Bridge
  /\ b # Bridge => role[c.tok] = b
  /\ c.usb => c.epoch = epoch /\ c.tok > ended

LEMMA OwnedWith ==
  ASSUME NEW b, NEW c, Owned(b, c),
         NEW phase \in {"IDLE", "ASSEMBLING", "FORWARDING", "WAITING", "REPLYING"},
         NEW parts \in SUBSET Parts, NEW step \in 0 .. 3,
         NEW status \in Status \cup {None}, NEW out \in Outcome \cup {None}
  PROVE  LET w == With(c, phase, parts, step, status, out)
         IN  /\ Owned(b, w) /\ w.tok = c.tok /\ w.replay = c.replay /\ w.usb = c.usb
             /\ w.epoch = c.epoch /\ w.phase = phase /\ w.step = step
             /\ w.status = status /\ w.out = out /\ w.parts = parts
<1>1. With(c, phase, parts, step, status, out) \in Transaction
  BY WithTypes DEF Owned
<1>2. QED
  BY <1>1 DEF Owned, With

LEMMA WithFields ==
  ASSUME NEW c, NEW phase, NEW parts, NEW step, NEW status, NEW out
  PROVE  LET w == With(c, phase, parts, step, status, out)
         IN  /\ w.tok = c.tok /\ w.replay = c.replay /\ w.usb = c.usb
             /\ w.epoch = c.epoch /\ w.phase = phase /\ w.step = step
             /\ w.status = status /\ w.out = out /\ w.parts = parts
  BY DEF With

LEMMA OwnedSame ==
  ASSUME NEW b, NEW c, Owned(b, c), NEW w \in Transaction,
         w.tok = c.tok, w.usb = c.usb, w.epoch = c.epoch
  PROVE  Owned(b, w)
  BY DEF Owned

LEMMA OwnedIsOK ==
  ASSUME NEW b, NEW c, Owned(b, c),
         c.phase \in {"FORWARDING", "WAITING"} => b = Bridge /\ role[c.tok] # b,
         c.phase = "REPLYING" => c.out \in Outcome
  PROVE  TransOK(b, c) /\ Live(c)
<1>1. c.epoch \in 0 .. MaxTrouble
  BY TransactionFields DEF Owned
<1>2. c.usb => c.epoch <= epoch
  BY <1>1, ConfirmAssumption DEF Owned
<1>3. QED
  BY <1>2 DEF Owned, TransOK, Live

LEMMA LiveIsOwned ==
  ASSUME NEW b, NEW c, TransOK(b, c), Live(c), c.phase # "IDLE"
  PROVE  Owned(b, c)
  BY DEF Owned, TransOK, Live

LEMMA NothingLive ==
  ASSUME Counts, NEW b \in Board, NEW s \in Service, CacheOK(s.prev)
  PROVE  LiveOK(b, [cur |-> Nothing, prev |-> s.prev])
<1>1. Nothing \in Transaction /\ Nothing.phase = "IDLE"
  BY NothingType
<1>2. Nothing.epoch = 0
  BY DEF Nothing
<1>3. TransOK(b, Nothing) /\ Live(Nothing) /\ ReplayOK(Nothing, s.prev)
  BY <1>1, <1>2 DEF TransOK, Live, ReplayOK, Counts
<1>4. [cur |-> Nothing, prev |-> s.prev] \in [cur : Transaction, prev : Cached]
  BY <1>1 DEF Service
<1>5. QED
  BY <1>3, <1>4 DEF LiveOK, SvcOK

LEMMA AbandonLive ==
  ASSUME Counts, NEW b \in Board, NEW s \in Service, CacheOK(s.prev)
  PROVE  Abandon(s) = [cur |-> Nothing, prev |-> s.prev] /\ LiveOK(b, Abandon(s))
<1>1. Abandon(s) = [cur |-> Nothing, prev |-> s.prev]
  BY DEF Abandon, Service
<1>2. QED
  BY <1>1, NothingLive

LEMMA FinishLive ==
  ASSUME Counts, NEW b \in Board, NEW s \in Service, CacheOK(s.prev), Owned(b, s.cur),
         NEW out \in Outcome, s.cur.replay => s.prev.tok = s.cur.tok
  PROVE  LiveOK(b, Finish(s, out))
<1> DEFINE w == With(s.cur, "REPLYING", s.cur.parts, 0, s.cur.status, out)
<1> DEFINE p == Finish(s, out).prev
<1>1. /\ Finish(s, out).cur = w
      /\ s.cur.replay => p = s.prev
      /\ ~s.cur.replay => p = [tok |-> s.cur.tok, usb |-> s.cur.usb, epoch |-> s.cur.epoch,
                               out |-> out]
      /\ Finish(s, out) = [cur |-> Finish(s, out).cur, prev |-> p]
  BY FinishFields DEF Service
<1>2. s.cur.parts \in SUBSET Parts /\ s.cur.status \in Status \cup {None}
  BY TransactionFields DEF Owned
<1>3. /\ Owned(b, w) /\ w.tok = s.cur.tok /\ w.replay = s.cur.replay
      /\ w.phase = "REPLYING" /\ w.out = out
  BY <1>2, OwnedWith
<1> HIDE DEF w, p
<1>4. TransOK(b, w) /\ Live(w)
  BY <1>3, OwnedIsOK
<1>5. CacheOK(p)
  <2>1. CASE s.cur.replay
    BY <1>1, <2>1
  <2>2. CASE ~s.cur.replay
    <3>1. /\ p.tok = s.cur.tok /\ p.epoch = s.cur.epoch /\ p.out = out
      BY <1>1, <2>2
    <3>2. p \in Cached
      BY <1>1, <2>2 DEF Cached, Owned, Transaction
    <3>3. QED
      BY <3>1, <3>2 DEF CacheOK, Owned, Counts
  <2>3. QED
    BY <2>1, <2>2
<1>6. ReplayOK(w, p)
  BY <1>1, <1>3 DEF ReplayOK
<1>7. Finish(s, out) \in [cur : Transaction, prev : Cached]
  BY <1>1, <1>4, <1>5 DEF TransOK, CacheOK
<1>8. Finish(s, out).cur = w /\ Finish(s, out).prev = p
  BY <1>1 DEF p
<1>9. QED
  BY <1>4, <1>5, <1>6, <1>7, <1>8 DEF LiveOK, SvcOK

LEMMA CancelLive ==
  ASSUME Counts, NEW b \in Board, NEW s \in Service, SvcOK(b, s)
  PROVE  /\ LiveOK(b, Cancel(s))
         /\ Cancel(s) = s \/ Cancel(s) = Abandon(s)
         /\ Cancel(s) = s => Live(s.cur)
<1>1. CASE s.cur.phase # "IDLE" /\ s.cur.usb /\ s.cur.epoch # epoch
  <2>1. Cancel(s) = Abandon(s)
    BY <1>1 DEF Cancel
  <2>2. Cancel(s) # s
    BY <1>1, <2>1, AbandonLive, NothingType DEF SvcOK
  <2>3. QED
    BY <2>1, <2>2, AbandonLive DEF SvcOK
<1>2. CASE ~(s.cur.phase # "IDLE" /\ s.cur.usb /\ s.cur.epoch # epoch)
  <2>1. Cancel(s) = s
    BY <1>2 DEF Cancel
  <2>2. QED
    BY <1>2, <2>1 DEF LiveOK, SvcOK, Live, Service
<1>3. QED
  BY <1>1, <1>2

LEMMA ExpireLive ==
  ASSUME Counts, NEW b \in Board, NEW s, LiveOK(b, s), s.cur.phase # "IDLE"
  PROVE  LiveOK(b, Expire(b, s))
<1>1. s \in Service /\ CacheOK(s.prev) /\ TransOK(b, s.cur) /\ Live(s.cur)
      /\ ReplayOK(s.cur, s.prev)
  BY DEF LiveOK, SvcOK, Service
<1>2. Owned(b, s.cur)
  BY <1>1, LiveIsOwned
<1>3. CASE s.cur.phase = "REPLYING" \/ role[s.cur.tok] # b
  BY <1>1, <1>3, AbandonLive DEF Expire
<1>4. CASE ~(s.cur.phase = "REPLYING" \/ role[s.cur.tok] # b)
  <2>1. Fails("EXPIRED") \in Outcome
    BY DEF Fails, Outcome, Status
  <2>2. s.cur.replay => s.prev.tok = s.cur.tok
    BY <1>1 DEF ReplayOK
  <2>3. LiveOK(b, Finish(s, Fails("EXPIRED")))
    BY <1>1, <1>2, <2>1, <2>2, FinishLive
  <2>4. QED
    BY <1>4, <2>3 DEF Expire
<1>5. QED
  BY <1>3, <1>4

-----------------------------------------------------------------------------
(* The records that receive puts together. *)

Assembling(i, replay) ==
  [Nothing EXCEPT !.phase = "ASSEMBLING", !.tok = i.frame.tok, !.usb = i.usb,
                  !.epoch = i.epoch, !.replay = replay]
Repeated(i) ==
  [Nothing EXCEPT !.tok = i.frame.tok, !.usb = i.usb, !.epoch = i.epoch, !.replay = TRUE]

SetPhase(c, x) == [c EXCEPT !.phase = x]
SetTok(c, x) == [c EXCEPT !.tok = x]
SetUsb(c, x) == [c EXCEPT !.usb = x]
SetEpoch(c, x) == [c EXCEPT !.epoch = x]
SetReplay(c, x) == [c EXCEPT !.replay = x]

LEMMA StartingPhase ==
  ASSUME NEW f, NEW t, NEW u, NEW e, NEW r, NEW x
  PROVE  SetPhase(Starting(f, t, u, e, r), x) = Starting(x, t, u, e, r)
  BY DEF Starting, SetPhase

LEMMA StartingTok ==
  ASSUME NEW f, NEW t, NEW u, NEW e, NEW r, NEW x
  PROVE  SetTok(Starting(f, t, u, e, r), x) = Starting(f, x, u, e, r)
  BY DEF Starting, SetTok

LEMMA StartingUsb ==
  ASSUME NEW f, NEW t, NEW u, NEW e, NEW r, NEW x
  PROVE  SetUsb(Starting(f, t, u, e, r), x) = Starting(f, t, x, e, r)
  BY DEF Starting, SetUsb

LEMMA StartingEpoch ==
  ASSUME NEW f, NEW t, NEW u, NEW e, NEW r, NEW x
  PROVE  SetEpoch(Starting(f, t, u, e, r), x) = Starting(f, t, u, x, r)
  BY DEF Starting, SetEpoch

LEMMA StartingReplay ==
  ASSUME NEW f, NEW t, NEW u, NEW e, NEW r, NEW x
  PROVE  SetReplay(Starting(f, t, u, e, r), x) = Starting(f, t, u, e, x)
  BY DEF Starting, SetReplay

LEMMA RepeatedFields ==
  ASSUME NEW i
  PROVE  Repeated(i) = Starting("IDLE", i.frame.tok, i.usb, i.epoch, TRUE)
<1> DEFINE no == FALSE
           yes == TRUE
<1>1. Nothing = Starting("IDLE", 0, no, 0, no)
  BY DEF Nothing, Starting
<1>2. Repeated(i)
        = SetReplay(SetEpoch(SetUsb(SetTok(Nothing, i.frame.tok), i.usb), i.epoch), yes)
  BY Zenon DEF Repeated, SetReplay, SetEpoch, SetUsb, SetTok
<1> HIDE DEF no, yes
<1>3. SetTok(Nothing, i.frame.tok) = Starting("IDLE", i.frame.tok, no, 0, no)
  BY <1>1, StartingTok
<1>4. SetUsb(Starting("IDLE", i.frame.tok, no, 0, no), i.usb)
        = Starting("IDLE", i.frame.tok, i.usb, 0, no)
  BY StartingUsb
<1>5. SetEpoch(Starting("IDLE", i.frame.tok, i.usb, 0, no), i.epoch)
        = Starting("IDLE", i.frame.tok, i.usb, i.epoch, no)
  BY StartingEpoch
<1>6. SetReplay(Starting("IDLE", i.frame.tok, i.usb, i.epoch, no), yes)
        = Starting("IDLE", i.frame.tok, i.usb, i.epoch, yes)
  BY StartingReplay
<1>7. Repeated(i) = Starting("IDLE", i.frame.tok, i.usb, i.epoch, yes)
  BY <1>2, <1>3, <1>4, <1>5, <1>6, Zenon
<1>8. QED
  BY <1>7, Zenon DEF yes

LEMMA AssemblingFields ==
  ASSUME NEW i, NEW replay
  PROVE  Assembling(i, replay)
           = Starting("ASSEMBLING", i.frame.tok, i.usb, i.epoch, replay)
<1> DEFINE no == FALSE
<1>1. Nothing = Starting("IDLE", 0, no, 0, no)
  BY DEF Nothing, Starting
<1> DEFINE n == SetTok(SetPhase(Nothing, "ASSEMBLING"), i.frame.tok)
<1>2. Assembling(i, replay) = SetReplay(SetEpoch(SetUsb(n, i.usb), i.epoch), replay)
  BY Zenon DEF Assembling, SetPhase, SetReplay, SetEpoch, SetUsb, SetTok
<1> HIDE DEF no
<1>3. SetPhase(Nothing, "ASSEMBLING") = Starting("ASSEMBLING", 0, no, 0, no)
  BY <1>1, StartingPhase
<1>4. n = Starting("ASSEMBLING", i.frame.tok, no, 0, no)
  BY <1>3, StartingTok
<1>5. SetUsb(Starting("ASSEMBLING", i.frame.tok, no, 0, no), i.usb)
        = Starting("ASSEMBLING", i.frame.tok, i.usb, 0, no)
  BY StartingUsb
<1>6. SetEpoch(Starting("ASSEMBLING", i.frame.tok, i.usb, 0, no), i.epoch)
        = Starting("ASSEMBLING", i.frame.tok, i.usb, i.epoch, no)
  BY StartingEpoch
<1>7. SetReplay(Starting("ASSEMBLING", i.frame.tok, i.usb, i.epoch, no), replay)
        = Starting("ASSEMBLING", i.frame.tok, i.usb, i.epoch, replay)
  BY StartingReplay
<1> HIDE DEF n
<1>8. QED
  BY <1>2, <1>4, <1>5, <1>6, <1>7, Zenon

LEMMA ServiceUpdates ==
  ASSUME NEW s \in Service, NEW x
  PROVE  /\ [s EXCEPT !.cur = x] = [cur |-> x, prev |-> s.prev]
         /\ [s EXCEPT !.cur.status = x]
              = [cur |-> [s.cur EXCEPT !.status = x], prev |-> s.prev]
         /\ [s EXCEPT !.cur.parts = x]
              = [cur |-> [s.cur EXCEPT !.parts = x], prev |-> s.prev]
  BY DEF Service

Forwarding(s) == [s EXCEPT !.cur.phase = "FORWARDING", !.cur.step = 0]

LEMMA ForwardingFields ==
  ASSUME NEW s \in Service
  PROVE  Forwarding(s) = [cur |-> Renewed(s.cur, "FORWARDING", 0), prev |-> s.prev]
<1> DEFINE e == [s.cur EXCEPT !.phase = "FORWARDING"]
<1>1. [s EXCEPT !.cur.phase = "FORWARDING"] = [cur |-> e, prev |-> s.prev]
  BY DEF Service
<1>2. Renewed(s.cur, "FORWARDING", 0) = [e EXCEPT !.step = 0]
  BY Zenon DEF Renewed
<1> HIDE DEF e
<1>3. [[cur |-> e, prev |-> s.prev] EXCEPT !.cur.step = 0]
        = [cur |-> [e EXCEPT !.step = 0], prev |-> s.prev]
  OBVIOUS
<1>4. QED
  BY <1>1, <1>2, <1>3 DEF Forwarding

-----------------------------------------------------------------------------
(* Receiving one packet. *)

(* The packet is of this session, and so is the request it belongs to.     *)
ItemLive(b, i) == ItemOK(b, i) /\ (i.usb => i.epoch = epoch)

LEMMA FrameFields ==
  ASSUME NEW f \in Frame
  PROVE  /\ f.tok \in Token
         /\ f.type \in Asking \cup {"ACK_META", "ACK_VALUE"}
         /\ f.type = "ACK_META" => f.status \in Status
         /\ f.type = "ACK_VALUE" => f.result \in Results \cup {0}
<1>1. CASE f \in [type : Asking, tok : Token]
  BY <1>1 DEF Asking
<1>2. CASE f \in [type : {"ACK_META"}, tok : Token, status : Status]
  BY <1>2
<1>3. CASE f \in [type : {"ACK_VALUE"}, tok : Token, result : Results \cup {0}]
  BY <1>3
<1>4. QED
  BY <1>1, <1>2, <1>3 DEF Frame

LEMMA StartingOwned ==
  ASSUME Counts, NEW b \in Board, NEW i, ItemLive(b, i), i.frame.type \in Asking,
         NEW phase \in {"IDLE", "ASSEMBLING"}, NEW replay \in BOOLEAN
  PROVE  LET c == Starting(phase, i.frame.tok, i.usb, i.epoch, replay)
         IN  /\ Owned(b, c) /\ c.phase = phase /\ c.replay = replay
             /\ c.tok = i.frame.tok /\ c.step = 0
<1> DEFINE c == Starting(phase, i.frame.tok, i.usb, i.epoch, replay)
<1>1. /\ c.phase = phase /\ c.replay = replay /\ c.tok = i.frame.tok /\ c.usb = i.usb
      /\ c.epoch = i.epoch /\ c.step = 0
  BY DEF Starting
<1>2. i \in Item /\ i.frame \in Frame
  BY DEF ItemLive, ItemOK, Item
<1>3. i.frame.tok \in Token /\ i.usb \in BOOLEAN /\ i.epoch \in 0 .. MaxTrouble
  BY <1>2, FrameFields DEF Item
<1>4. c \in Transaction
  BY <1>3, StartingType
<1> HIDE DEF c
<1>5. Owned(b, c)
  BY <1>1, <1>4 DEF Owned, ItemLive, ItemOK
<1>6. QED
  BY <1>1, <1>5 DEF c

(* A service with an owned transaction that does not answer. *)
LEMMA OwnedLive ==
  ASSUME NEW b \in Board, NEW c, NEW p, Owned(b, c), CacheOK(p),
         c.phase \in {"FORWARDING", "WAITING"} => b = Bridge /\ role[c.tok] # b,
         c.phase = "REPLYING" => c.out \in Outcome,
         c.replay => p.tok = c.tok
  PROVE  LiveOK(b, [cur |-> c, prev |-> p])
<1>1. TransOK(b, c) /\ Live(c)
  BY OwnedIsOK
<1>2. ReplayOK(c, p)
  BY DEF ReplayOK
<1>3. [cur |-> c, prev |-> p] \in [cur : Transaction, prev : Cached]
  BY DEF Owned, CacheOK
<1>4. QED
  BY <1>1, <1>2, <1>3 DEF LiveOK, SvcOK

LEMMA LiveParts ==
  ASSUME NEW b, NEW s, LiveOK(b, s)
  PROVE  /\ s \in Service /\ CacheOK(s.prev) /\ TransOK(b, s.cur) /\ Live(s.cur)
         /\ ReplayOK(s.cur, s.prev) /\ s = [cur |-> s.cur, prev |-> s.prev]
         /\ s.cur \in Transaction
         /\ s.cur.phase # "IDLE" => Owned(b, s.cur) /\ (s.cur.replay => s.prev.tok = s.cur.tok)
<1>1. /\ s \in Service /\ CacheOK(s.prev) /\ TransOK(b, s.cur) /\ Live(s.cur)
      /\ ReplayOK(s.cur, s.prev)
  BY DEF LiveOK, SvcOK, Service
<1>2. s = [cur |-> s.cur, prev |-> s.prev] /\ s.cur \in Transaction
  BY <1>1 DEF Service
<1>3. s.cur.phase # "IDLE" => Owned(b, s.cur)
  BY <1>1, LiveIsOwned
<1>4. QED
  BY <1>1, <1>2, <1>3 DEF ReplayOK

LEMMA AssembleLive ==
  ASSUME Counts, NEW b \in Board, NEW s, LiveOK(b, s), NEW i, ItemLive(b, i),
         i.frame.type = "META"
  PROVE  /\ LiveOK(b, Assemble(b, s, i))
         /\ \/ Assemble(b, s, i) = s
            \/ /\ s.cur.phase = "IDLE"
               /\ Assemble(b, s, i)
                    = [cur |-> Starting("ASSEMBLING", i.frame.tok, i.usb, i.epoch,
                                        Remembers(s, i)),
                       prev |-> s.prev]
<1>1. CASE s.cur.phase # "IDLE" \/ (~i.usb /\ role[i.frame.tok] # b)
  BY <1>1 DEF Assemble
<1>2. CASE ~(s.cur.phase # "IDLE" \/ (~i.usb /\ role[i.frame.tok] # b))
  <2> DEFINE c == Starting("ASSEMBLING", i.frame.tok, i.usb, i.epoch, Remembers(s, i))
  <2>1. Assemble(b, s, i) = [s EXCEPT !.cur = Assembling(i, Remembers(s, i))]
    BY <1>2, Zenon DEF Assemble, Assembling
  <2>2. Assembling(i, Remembers(s, i)) = c
    BY AssemblingFields
  <2>3. s \in Service /\ CacheOK(s.prev)
    BY LiveParts
  <2>4. [s EXCEPT !.cur = c] = [cur |-> c, prev |-> s.prev]
    BY <2>3, ServiceUpdates
  <2>5. Remembers(s, i) \in BOOLEAN
    BY DEF Remembers
  <2>6. Remembers(s, i) => s.prev.tok = i.frame.tok
    BY DEF Remembers
  <2>7. i.frame.type \in Asking
    BY DEF Asking
  <2>8. /\ Owned(b, c) /\ c.phase = "ASSEMBLING" /\ c.replay = Remembers(s, i)
        /\ c.tok = i.frame.tok
    BY <2>5, <2>7, StartingOwned
  <2> HIDE DEF c
  <2>9. LiveOK(b, [cur |-> c, prev |-> s.prev])
    BY <2>3, <2>6, <2>8, OwnedLive
  <2>10. QED
    BY <1>2, <2>1, <2>2, <2>4, <2>9 DEF c
<1>3. QED
  BY <1>1, <1>2

(* What may become of a service with a packet in its hands. *)
Starts(b, s, i, r) ==
  /\ ItemLive(b, i) /\ i.frame.type = "META" /\ s.cur.phase = "IDLE"
  /\ r = [cur |-> Starting("ASSEMBLING", i.frame.tok, i.usb, i.epoch, Remembers(s, i)),
          prev |-> s.prev]

RepeatsIt(b, s, i, r) ==
  /\ ItemLive(b, i) /\ i.frame.type = "EXEC" /\ s.cur.phase = "IDLE" /\ Remembers(s, i)
  /\ r = Finish([cur |-> Starting("IDLE", i.frame.tok, i.usb, i.epoch, TRUE),
                 prev |-> s.prev], s.prev.out)

Completes(b, s, r) ==
  /\ s.cur.phase = "ASSEMBLING" /\ role[s.cur.tok] = b
  /\ \E out \in Outcome : r = Finish(s, out)

Replays(s, r) == s.cur.phase = "ASSEMBLING" /\ s.cur.replay /\ r = Finish(s, s.prev.out)

Collects(s, r) ==
  /\ s.cur.phase = "ASSEMBLING"
  /\ \E parts \in SUBSET Parts :
       r = [cur |-> With(s.cur, "ASSEMBLING", parts, s.cur.step, s.cur.status, s.cur.out),
            prev |-> s.prev]

Forwards(b, s, r) ==
  /\ s.cur.phase = "ASSEMBLING" /\ s.cur.usb /\ role[s.cur.tok] # b
  /\ r = [cur |-> With(s.cur, "FORWARDING", s.cur.parts, 0, s.cur.status, s.cur.out),
          prev |-> s.prev]

HearsStatus(s, i, r) ==
  /\ s.cur.phase = "WAITING" /\ i.frame.type = "ACK_META" /\ i.frame.tok = s.cur.tok
  /\ r = [cur |-> With(s.cur, "WAITING", s.cur.parts, s.cur.step, i.frame.status, s.cur.out),
          prev |-> s.prev]

HearsResult(s, i, r) ==
  /\ s.cur.phase = "WAITING" /\ i.frame.type = "ACK_VALUE" /\ i.frame.tok = s.cur.tok
  /\ s.cur.status # None
  /\ r = Finish(s, [status |-> s.cur.status, result |-> i.frame.result])

Taken(b, s, i, r) ==
  \/ r = s \/ r = Abandon(s)
  \/ Starts(b, s, i, r) \/ RepeatsIt(b, s, i, r)
  \/ Completes(b, s, r) \/ Replays(s, r) \/ Collects(s, r) \/ Forwards(b, s, r)
  \/ HearsStatus(s, i, r) \/ HearsResult(s, i, r)

LEMMA AcknowledgeTaken ==
  ASSUME NEW b \in Board, NEW s, LiveOK(b, s), NEW i, i.frame.type \in {"ACK_META", "ACK_VALUE"}
  PROVE  Taken(b, s, i, Acknowledge(b, s, i))
<1> DEFINE r == Acknowledge(b, s, i)
<1>1. CASE i.usb \/ s.cur.phase # "WAITING" \/ i.frame.tok # s.cur.tok
  BY <1>1 DEF Acknowledge, Taken
<1>2. CASE ~(i.usb \/ s.cur.phase # "WAITING" \/ i.frame.tok # s.cur.tok)
  <2>1. CASE i.frame.type = "ACK_META" /\ s.cur.status \notin {None, i.frame.status}
    BY <1>2, <2>1 DEF Acknowledge, Taken
  <2>2. CASE i.frame.type = "ACK_META" /\ s.cur.status \in {None, i.frame.status}
    <3>1. r = [s EXCEPT !.cur.status = i.frame.status]
      BY <1>2, <2>2, Zenon DEF Acknowledge
    <3>2. s \in Service /\ s.cur \in Transaction
      BY LiveParts
    <3>3. r = [cur |-> [s.cur EXCEPT !.status = i.frame.status], prev |-> s.prev]
      BY <3>1, <3>2, ServiceUpdates
    <3>4. [s.cur EXCEPT !.status = i.frame.status]
            = With(s.cur, "WAITING", s.cur.parts, s.cur.step, i.frame.status, s.cur.out)
      BY <1>2, <3>2, WithStatus
    <3>5. HearsStatus(s, i, r)
      BY <1>2, <2>2, <3>3, <3>4 DEF HearsStatus
    <3>6. QED
      BY <3>5, Zenon DEF Taken
  <2>3. CASE i.frame.type = "ACK_VALUE" /\ s.cur.status = None
    BY <1>2, <2>3 DEF Acknowledge, Taken
  <2>4. CASE i.frame.type = "ACK_VALUE" /\ s.cur.status # None
    <3>1. HearsResult(s, i, r)
      BY <1>2, <2>4 DEF Acknowledge, HearsResult
    <3>2. QED
      BY <3>1, Zenon DEF Taken
  <2>5. QED
    BY <2>1, <2>2, <2>3, <2>4
<1>3. QED
  BY <1>1, <1>2

LEMMA ExecuteTaken ==
  ASSUME NEW b \in Board, NEW s, LiveOK(b, s), NEW i, s.cur.phase = "ASSEMBLING",
         NEW r \in Execute(b, s)
  PROVE  Taken(b, s, i, r)
<1>1. s \in Service /\ s.cur \in Transaction /\ s.cur.replay \in BOOLEAN
      /\ s.cur.parts \in SUBSET Parts
  BY LiveParts, TransactionFields
<1>2. CASE s.cur.parts # Parts
  <2>1. Fails("INCOMPLETE") \in Outcome
    BY DEF Fails, Outcome, Status
  <2>2. r = Abandon(s) \/ (role[s.cur.tok] = b /\ r = Finish(s, Fails("INCOMPLETE")))
    BY <1>2 DEF Execute
  <2>3. r = Abandon(s) \/ Completes(b, s, r)
    BY <2>1, <2>2 DEF Completes
  <2>4. QED
    BY <2>3, Zenon DEF Taken
<1>3. CASE s.cur.parts = Parts /\ s.cur.replay
  <2>1. Replays(s, r)
    BY <1>3 DEF Execute, Replays
  <2>2. QED
    BY <2>1, Zenon DEF Taken
<1>4. CASE s.cur.parts = Parts /\ ~s.cur.replay /\ role[s.cur.tok] # b
  <2>1. r = Abandon(s) \/ (s.cur.usb /\ r = Forwarding(s))
    BY <1>4 DEF Execute, Forwarding
  <2>2. Forwarding(s) = [cur |-> Renewed(s.cur, "FORWARDING", 0), prev |-> s.prev]
    BY <1>1, ForwardingFields
  <2>3. Renewed(s.cur, "FORWARDING", 0)
          = With(s.cur, "FORWARDING", s.cur.parts, 0, s.cur.status, s.cur.out)
    BY <1>1, RenewedFields
  <2>4. r = Abandon(s) \/ Forwards(b, s, r)
    BY <1>4, <2>1, <2>2, <2>3, Zenon DEF Forwards
  <2>5. QED
    BY <2>4, Zenon DEF Taken
<1>5. CASE s.cur.parts = Parts /\ ~s.cur.replay /\ role[s.cur.tok] = b
  <2>1. r \in {Finish(s, out) : out \in Executed}
    BY <1>5 DEF Execute
  <2>2. \A out \in Executed : out \in Outcome
    BY DEF Executed, Outcome, Status
  <2>3. Completes(b, s, r)
    BY <1>5, <2>1, <2>2 DEF Completes
  <2>4. QED
    BY <2>3, Zenon DEF Taken
<1>6. QED
  BY <1>1, <1>2, <1>3, <1>4, <1>5

LEMMA ReceiveTaken ==
  ASSUME Counts, NEW b \in Board, NEW s, LiveOK(b, s), NEW i, ItemOK(b, i),
         NEW r \in Receive(b, s, i)
  PROVE  Taken(b, s, i, r)
<1>0. i \in Item /\ i.frame \in Frame /\ i.usb \in BOOLEAN
  BY DEF ItemOK, Item
<1>1. CASE i.usb /\ i.epoch # epoch
  BY <1>1 DEF Receive, Taken
<1>2. CASE ~(i.usb /\ i.epoch # epoch)
  <2>0. ItemLive(b, i)
    BY <1>2 DEF ItemLive
  <2>1. CASE i.frame.type \notin Asking
    <3>1. i.frame.type \in {"ACK_META", "ACK_VALUE"}
      BY <1>0, <2>1, FrameFields
    <3>2. QED
      BY <1>2, <2>1, <3>1, AcknowledgeTaken DEF Receive
  <2>2. CASE i.frame.type = "META"
    <3>1. r = Assemble(b, s, i)
      BY <1>2, <2>2 DEF Receive, Asking
    <3>2. r = s \/ Starts(b, s, i, r)
      BY <2>0, <2>2, <3>1, AssembleLive DEF Starts
    <3>3. QED
      BY <3>2, Zenon DEF Taken
  <2>3. CASE i.frame.type \in Asking \ {"META"} /\ Repeats(s, i)
    <3>1. r = Finish([s EXCEPT !.cur = Repeated(i)], s.prev.out)
      BY <1>2, <2>3 DEF Receive, Repeated
    <3>2. s \in Service
      BY LiveParts
    <3>3. [s EXCEPT !.cur = Repeated(i)] = [cur |-> Repeated(i), prev |-> s.prev]
      BY <3>2, ServiceUpdates
    <3>4. Repeated(i) = Starting("IDLE", i.frame.tok, i.usb, i.epoch, TRUE)
      BY RepeatedFields
    <3>5. RepeatsIt(b, s, i, r)
      BY <2>0, <2>3, <3>1, <3>3, <3>4, Zenon DEF RepeatsIt, Repeats
    <3>6. QED
      BY <3>5, Zenon DEF Taken
  <2>4. CASE i.frame.type \in Asking \ {"META"} /\ ~Repeats(s, i) /\ ~Belongs(s, i)
    BY <1>2, <2>4 DEF Receive, Taken
  <2>5. CASE /\ i.frame.type \in Asking \ {"META"} /\ ~Repeats(s, i) /\ Belongs(s, i)
             /\ i.frame.type = "EXEC"
    <3>1. r \in Execute(b, s)
      BY <1>2, <2>5 DEF Receive
    <3>2. s.cur.phase = "ASSEMBLING"
      BY <2>5 DEF Belongs
    <3>3. QED
      BY <3>1, <3>2, ExecuteTaken
  <2>6. CASE /\ i.frame.type \in Asking \ {"META"} /\ ~Repeats(s, i) /\ Belongs(s, i)
             /\ i.frame.type # "EXEC"
    <3>1. r = [s EXCEPT !.cur.parts = s.cur.parts \cup {i.frame.type}]
      BY <1>2, <2>6 DEF Receive
    <3>2. s \in Service /\ s.cur \in Transaction /\ s.cur.parts \in SUBSET Parts
      BY LiveParts, TransactionFields
    <3>3. s.cur.parts \cup {i.frame.type} \in SUBSET Parts
      BY <2>6, <3>2 DEF Asking, Parts
    <3>4. s.cur.phase = "ASSEMBLING"
      BY <2>6 DEF Belongs
    <3>5. r = [cur |-> [s.cur EXCEPT !.parts = s.cur.parts \cup {i.frame.type}],
               prev |-> s.prev]
      BY <3>1, <3>2, ServiceUpdates
    <3>6. [s.cur EXCEPT !.parts = s.cur.parts \cup {i.frame.type}]
            = With(s.cur, "ASSEMBLING", s.cur.parts \cup {i.frame.type}, s.cur.step,
                   s.cur.status, s.cur.out)
      BY <3>2, <3>4, WithParts
    <3>7. Collects(s, r)
      BY <3>3, <3>4, <3>5, <3>6, Zenon DEF Collects
    <3>8. QED
      BY <3>7, Zenon DEF Taken
  <2>7. QED
    BY <2>1, <2>2, <2>3, <2>4, <2>5, <2>6 DEF Asking
<1>3. QED
  BY <1>1, <1>2

LEMMA TakenLive ==
  ASSUME Counts, NEW b \in Board, NEW s, LiveOK(b, s), NEW i, ItemOK(b, i), NEW r,
         Taken(b, s, i, r)
  PROVE  LiveOK(b, r)
<1>1. /\ s \in Service /\ CacheOK(s.prev) /\ TransOK(b, s.cur)
      /\ s.cur \in Transaction
      /\ s.cur.phase # "IDLE" => Owned(b, s.cur) /\ (s.cur.replay => s.prev.tok = s.cur.tok)
  BY LiveParts
<1>2. /\ s.cur.parts \in SUBSET Parts /\ s.cur.step \in 0 .. 3
      /\ s.cur.status \in Status \cup {None} /\ s.cur.out \in Outcome \cup {None}
  BY <1>1, TransactionFields
<1>3. i.frame \in Frame
  BY DEF ItemOK, Item
<1>4. CASE r = s
  BY <1>4
<1>5. CASE r = Abandon(s)
  BY <1>1, <1>5, AbandonLive
<1>6. CASE Starts(b, s, i, r)
  <2> DEFINE c == Starting("ASSEMBLING", i.frame.tok, i.usb, i.epoch, Remembers(s, i))
  <2>1. ItemLive(b, i) /\ i.frame.type \in Asking /\ r = [cur |-> c, prev |-> s.prev]
    BY <1>6 DEF Starts, Asking
  <2>2. Remembers(s, i) \in BOOLEAN
    BY DEF Remembers
  <2>3. Owned(b, c) /\ c.phase = "ASSEMBLING" /\ c.replay = Remembers(s, i)
        /\ c.tok = i.frame.tok
    BY <2>1, <2>2, StartingOwned
  <2>4. Remembers(s, i) => s.prev.tok = i.frame.tok
    BY DEF Remembers
  <2> HIDE DEF c
  <2>5. LiveOK(b, [cur |-> c, prev |-> s.prev])
    BY <1>1, <2>3, <2>4, OwnedLive
  <2>6. QED
    BY <2>1, <2>5
<1>7. CASE RepeatsIt(b, s, i, r)
  <2> DEFINE c == Starting("IDLE", i.frame.tok, i.usb, i.epoch, TRUE)
             u == [cur |-> c, prev |-> s.prev]
  <2>1. /\ ItemLive(b, i) /\ i.frame.type \in Asking
        /\ r = Finish(u, s.prev.out)
    BY <1>7 DEF RepeatsIt, Asking
  <2>2. Owned(b, c) /\ c.tok = i.frame.tok
    BY <2>1, StartingOwned
  <2>3. s.prev.tok = i.frame.tok
    BY <1>7 DEF RepeatsIt, Remembers
  <2> HIDE DEF c
  <2>4. s.prev.out \in Outcome
    <3>1. c.tok \in 1 .. Len(role)
      BY <2>2 DEF Owned
    <3>2. QED
      BY <1>1, <2>2, <2>3, <3>1 DEF CacheOK
  <2>5. u.cur = c /\ u.prev = s.prev /\ u \in Service
    BY <1>1, <2>2 DEF Service, Owned
  <2> HIDE DEF u
  <2>6. LiveOK(b, Finish(u, s.prev.out))
    BY <1>1, <2>2, <2>3, <2>4, <2>5, FinishLive
  <2>7. QED
    BY <2>1, <2>6
<1>8. CASE Completes(b, s, r)
  BY <1>1, <1>8, FinishLive DEF Completes
<1>9. CASE Replays(s, r)
  <2>1. s.prev.tok = s.cur.tok /\ Owned(b, s.cur) /\ r = Finish(s, s.prev.out)
    BY <1>1, <1>9 DEF Replays
  <2>2. s.prev.out \in Outcome
    BY <1>1, <2>1 DEF CacheOK, Owned
  <2>3. QED
    BY <1>1, <2>1, <2>2, FinishLive
<1>10. CASE Collects(s, r)
  <2>1. PICK parts \in SUBSET Parts :
          r = [cur |-> With(s.cur, "ASSEMBLING", parts, s.cur.step, s.cur.status, s.cur.out),
               prev |-> s.prev]
    BY <1>10 DEF Collects
  <2>2. s.cur.phase = "ASSEMBLING"
    BY <1>10 DEF Collects
  <2> DEFINE w == With(s.cur, "ASSEMBLING", parts, s.cur.step, s.cur.status, s.cur.out)
  <2>3. Owned(b, w) /\ w.phase = "ASSEMBLING" /\ w.tok = s.cur.tok /\ w.replay = s.cur.replay
    <3>1. Owned(b, s.cur)
      BY <1>1, <2>2
    <3>2. w \in Transaction
      BY <1>1, <1>2, WithTypes
    <3>3. /\ w.tok = s.cur.tok /\ w.replay = s.cur.replay /\ w.usb = s.cur.usb
          /\ w.epoch = s.cur.epoch /\ w.phase = "ASSEMBLING"
      BY WithFields
    <3> HIDE DEF w
    <3>4. QED
      BY <3>1, <3>2, <3>3, OwnedSame
  <2> HIDE DEF w
  <2>4. LiveOK(b, [cur |-> w, prev |-> s.prev])
    BY <1>1, <2>2, <2>3, OwnedLive
  <2>5. QED
    BY <2>1, <2>4 DEF w
<1>11. CASE Forwards(b, s, r)
  <2> DEFINE w == With(s.cur, "FORWARDING", s.cur.parts, 0, s.cur.status, s.cur.out)
  <2>1. /\ s.cur.phase = "ASSEMBLING" /\ s.cur.usb /\ role[s.cur.tok] # b
        /\ r = [cur |-> w, prev |-> s.prev]
    BY <1>11 DEF Forwards
  <2>2. Owned(b, w) /\ w.phase = "FORWARDING" /\ w.tok = s.cur.tok /\ w.replay = s.cur.replay
    <3>1. Owned(b, s.cur)
      BY <1>1, <2>1
    <3>2. w \in Transaction
      BY <1>1, <1>2 DEF With, Transaction
    <3>3. /\ w.tok = s.cur.tok /\ w.replay = s.cur.replay /\ w.usb = s.cur.usb
          /\ w.epoch = s.cur.epoch /\ w.phase = "FORWARDING"
      BY WithFields
    <3> HIDE DEF w
    <3>4. QED
      BY <3>1, <3>2, <3>3, OwnedSame
  <2>3. b = Bridge
    BY <1>1, <2>1 DEF Owned
  <2> HIDE DEF w
  <2>4. LiveOK(b, [cur |-> w, prev |-> s.prev])
    BY <1>1, <2>1, <2>2, <2>3, OwnedLive
  <2>5. QED
    BY <2>1, <2>4
<1>12. CASE HearsStatus(s, i, r)
  <2> DEFINE w == With(s.cur, "WAITING", s.cur.parts, s.cur.step, i.frame.status, s.cur.out)
  <2>1. /\ s.cur.phase = "WAITING" /\ i.frame.type = "ACK_META"
        /\ r = [cur |-> w, prev |-> s.prev]
    BY <1>12 DEF HearsStatus
  <2>2. i.frame.status \in Status
    BY <1>3, <2>1, FrameFields
  <2>3. Owned(b, w) /\ w.phase = "WAITING" /\ w.tok = s.cur.tok /\ w.replay = s.cur.replay
    <3>1. Owned(b, s.cur)
      BY <1>1, <2>1
    <3>2. w \in Transaction
      BY <1>1, <1>2, <2>2, WithTypes
    <3>3. /\ w.tok = s.cur.tok /\ w.replay = s.cur.replay /\ w.usb = s.cur.usb
          /\ w.epoch = s.cur.epoch /\ w.phase = "WAITING"
      BY WithFields
    <3> HIDE DEF w
    <3>4. QED
      BY <3>1, <3>2, <3>3, OwnedSame
  <2>4. b = Bridge /\ role[s.cur.tok] # b
    BY <1>1, <2>1 DEF TransOK
  <2> HIDE DEF w
  <2>5. LiveOK(b, [cur |-> w, prev |-> s.prev])
    BY <1>1, <2>1, <2>3, <2>4, OwnedLive
  <2>6. QED
    BY <2>1, <2>5
<1>13. CASE HearsResult(s, i, r)
  <2>1. /\ s.cur.phase = "WAITING" /\ i.frame.type = "ACK_VALUE" /\ s.cur.status # None
        /\ r = Finish(s, [status |-> s.cur.status, result |-> i.frame.result])
    BY <1>13 DEF HearsResult
  <2>2. i.frame.result \in Results \cup {0}
    BY <1>3, <2>1, FrameFields
  <2>3. [status |-> s.cur.status, result |-> i.frame.result] \in Outcome
    BY <1>2, <2>1, <2>2 DEF Outcome
  <2>4. QED
    BY <1>1, <2>1, <2>3, FinishLive
<1>14. QED
  BY <1>4, <1>5, <1>6, <1>7, <1>8, <1>9, <1>10, <1>11, <1>12, <1>13, Zenon DEF Taken

-----------------------------------------------------------------------------
(* A pass before it takes a packet. *)

Before(b, t) ==
  \/ t = Svc(b) /\ Live(cur[b])
  \/ t = Abandon(Svc(b))
  \/ Live(cur[b]) /\ Completes(b, Svc(b), t)

(* A pass: what it starts from, what it takes and what it leaves. *)
Rest(b) == [ingress EXCEPT ![b] = IF @ = <<>> THEN @ ELSE Tail(@)]

Passes(b, t, r) ==
  /\ Before(b, t) /\ LiveOK(b, t) /\ LiveOK(b, r)
  /\ \/ ingress[b] = <<>> /\ r = t
     \/ ingress[b] # <<>> /\ Taken(b, t, Head(ingress[b]), r)
  /\ prev' = [prev EXCEPT ![b] = r.prev]
  /\ ran' = Decided(b, r.prev)
  /\ Transport(b, r.cur, Rest(b))
  /\ UNCHANGED <<epoch, role, ended, attempts, trouble>>

LEMMA SvcFields ==
  ASSUME ConfirmIInv, NEW b \in Board
  PROVE  /\ Svc(b) \in Service /\ Svc(b).cur = cur[b] /\ Svc(b).prev = prev[b]
         /\ SvcOK(b, Svc(b))
<1>1. cur[b] \in Transaction /\ prev[b] \in Cached /\ SvcOK(b, Svc(b))
  BY DEF ConfirmIInv
<1>2. QED
  BY <1>1 DEF Svc, Service

LEMMA HeadOK ==
  ASSUME ConfirmIInv, NEW b \in Board, ingress[b] # <<>>
  PROVE  ItemOK(b, Head(ingress[b]))
<1>1. ingress[b] \in Seq(Item) /\ \A k \in 1 .. Len(ingress[b]) : ItemOK(b, ingress[b][k])
  BY DEF ConfirmIInv, QueueOK
<1>2. Len(ingress[b]) \in Nat \ {0} /\ Head(ingress[b]) = ingress[b][1]
  BY <1>1
<1>3. QED
  BY <1>1, <1>2

LEMMA TaskPasses ==
  ASSUME ConfirmIInv, NEW b \in Board, NEW expired \in BOOLEAN, Task(b, expired)
  PROVE  \E t, r : Passes(b, t, r)
<1> DEFINE s == Cancel(Svc(b))
           t == IF expired /\ s.cur.phase # "IDLE" THEN Expire(b, s) ELSE s
<1>0. Counts
  BY DEF ConfirmIInv
<1>1. Svc(b) \in Service /\ Svc(b).cur = cur[b] /\ Svc(b).prev = prev[b] /\ SvcOK(b, Svc(b))
  BY SvcFields
<1>2. /\ LiveOK(b, s) /\ (s = Svc(b) \/ s = Abandon(Svc(b)))
      /\ s = Svc(b) => Live(cur[b])
  BY <1>0, <1>1, CancelLive
<1>3. Before(b, t) /\ LiveOK(b, t)
  <2> HIDE DEF s
  <2>1. CASE ~(expired /\ s.cur.phase # "IDLE")
    BY <1>2, <2>1 DEF Before
  <2>2. CASE expired /\ s.cur.phase # "IDLE"
    <3>1. LiveOK(b, t)
      BY <1>0, <1>2, <2>2, ExpireLive
    <3>2. s = Svc(b) /\ Live(cur[b])
      <4>1. Abandon(Svc(b)).cur.phase = "IDLE"
        <5>1. CacheOK(Svc(b).prev)
          BY <1>1 DEF SvcOK
        <5>2. Abandon(Svc(b)) = [cur |-> Nothing, prev |-> Svc(b).prev]
          BY <1>0, <1>1, <5>1, AbandonLive
        <5>3. QED
          BY <5>2, NothingType
      <4>2. QED
        BY <1>2, <2>2, <4>1
    <3>3. CASE s.cur.phase = "REPLYING" \/ role[s.cur.tok] # b
      <4>1. t = Abandon(Svc(b))
        BY <2>2, <3>2, <3>3 DEF Expire
      <4>2. QED
        BY <3>1, <4>1 DEF Before
    <3>4. CASE ~(s.cur.phase = "REPLYING" \/ role[s.cur.tok] # b)
      <4>1. t = Finish(Svc(b), Fails("EXPIRED"))
        BY <2>2, <3>2, <3>4 DEF Expire
      <4>2. Fails("EXPIRED") \in Outcome
        BY DEF Fails, Outcome, Status
      <4>3. s.cur.phase = "ASSEMBLING"
        <5>1. TransOK(b, s.cur) /\ s.cur \in Transaction
          BY <1>2, LiveParts
        <5>2. s.cur.phase \in {"IDLE", "ASSEMBLING", "FORWARDING", "WAITING", "REPLYING"}
          BY <5>1, TransactionFields
        <5>3. QED
          BY <2>2, <3>4, <5>1, <5>2 DEF TransOK
      <4>4. Completes(b, Svc(b), t)
        BY <3>2, <3>4, <4>1, <4>2, <4>3 DEF Completes
      <4>5. QED
        BY <3>1, <3>2, <4>4 DEF Before
    <3>5. QED
      BY <3>3, <3>4
  <2>3. QED
    BY <2>1, <2>2
<1>4. PICK r \in IF ingress[b] = <<>> THEN {t} ELSE Receive(b, t, Head(ingress[b])) :
        /\ prev' = [prev EXCEPT ![b] = r.prev]
        /\ ran' = Decided(b, r.prev)
        /\ Transport(b, r.cur, Rest(b))
  BY Zenon DEF Task, Svc, Rest
<1>5. UNCHANGED <<epoch, role, ended, attempts, trouble>>
  BY DEF Task, bounds
<1> HIDE DEF s, t
<1>6. CASE ingress[b] = <<>>
  BY <1>3, <1>4, <1>5, <1>6 DEF Passes
<1>7. CASE ingress[b] # <<>>
  <2>1. ItemOK(b, Head(ingress[b]))
    BY <1>7, HeadOK
  <2>2. r \in Receive(b, t, Head(ingress[b]))
    BY <1>4, <1>7
  <2>3. Taken(b, t, Head(ingress[b]), r)
    BY <1>0, <1>3, <2>1, <2>2, ReceiveTaken
  <2>4. LiveOK(b, r)
    BY <1>0, <1>3, <2>1, <2>3, TakenLive
  <2>5. Passes(b, t, r)
    BY <1>3, <1>4, <1>5, <1>7, <2>3, <2>4, Zenon DEF Passes
  <2>6. QED
    BY <2>5
<1>8. QED
  BY <1>6, <1>7

-----------------------------------------------------------------------------
(* A pass after it has taken a packet: transport. *)

LEMMA SentCases ==
  ASSUME NEW c \in Transaction
  PROVE  /\ c.phase = "FORWARDING" /\ c.step = 3
              => Sent(c) = With(c, "WAITING", c.parts, 0, c.status, c.out)
         /\ c.phase = "FORWARDING" /\ c.step # 3
              => Sent(c) = With(c, "FORWARDING", c.parts, c.step + 1, c.status, c.out)
         /\ c.phase # "FORWARDING" /\ c.step = 1 => Sent(c) = Nothing
         /\ c.phase # "FORWARDING" /\ c.step # 1
              => Sent(c) = With(c, c.phase, c.parts, 1, c.status, c.out)
<1>1. CASE c.phase = "FORWARDING" /\ c.step = 3
  <2>1. Sent(c) = Renewed(c, "WAITING", 0)
    BY <1>1, Zenon DEF Sent, Renewed
  <2>2. Renewed(c, "WAITING", 0) = With(c, "WAITING", c.parts, 0, c.status, c.out)
    BY RenewedFields
  <2>3. QED
    BY <1>1, <2>1, <2>2, Zenon
<1>2. CASE c.phase = "FORWARDING" /\ c.step # 3
  <2>1. Sent(c) = [c EXCEPT !.step = c.step + 1]
    BY <1>2 DEF Sent
  <2>2. [c EXCEPT !.step = c.step + 1]
          = With(c, c.phase, c.parts, c.step + 1, c.status, c.out)
    BY WithStep
  <2>3. QED
    BY <1>2, <2>1, <2>2
<1>3. CASE c.phase # "FORWARDING" /\ c.step = 1
  BY <1>3 DEF Sent
<1>4. CASE c.phase # "FORWARDING" /\ c.step # 1
  <2>1. Sent(c) = [c EXCEPT !.step = 1]
    BY <1>4 DEF Sent
  <2>2. [c EXCEPT !.step = 1] = With(c, c.phase, c.parts, 1, c.status, c.out)
    BY WithStep
  <2>3. QED
    BY <1>4, <2>1, <2>2
<1>5. QED
  BY <1>1, <1>2, <1>3, <1>4

(* Sending leaves a transaction that is done, or the same one a step on. *)
LEMMA SentFields ==
  ASSUME NEW c \in Transaction, c.phase \in {"FORWARDING", "REPLYING"}
  PROVE  /\ Sent(c) \in Transaction
         /\ \/ Sent(c) = Nothing
            \/ /\ Sent(c).tok = c.tok /\ Sent(c).usb = c.usb /\ Sent(c).epoch = c.epoch
               /\ Sent(c).replay = c.replay /\ Sent(c).status = c.status
               /\ Sent(c).out = c.out
               /\ \/ c.phase = "FORWARDING" /\ Sent(c).phase \in {"FORWARDING", "WAITING"}
                  \/ c.phase = "REPLYING" /\ Sent(c).phase = "REPLYING"
               /\ Sent(c).phase = "FORWARDING" => Sent(c).step # 0
<1>1. /\ c.parts \in SUBSET Parts /\ c.step \in 0 .. 3
      /\ c.status \in Status \cup {None} /\ c.out \in Outcome \cup {None}
  BY TransactionFields
<1>2. CASE c.phase = "FORWARDING" /\ c.step = 3
  <2> DEFINE w == With(c, "WAITING", c.parts, 0, c.status, c.out)
  <2>1. Sent(c) = w
    BY <1>2, SentCases
  <2>2. w \in Transaction
    BY <1>1 DEF With, Transaction
  <2>3. /\ w.tok = c.tok /\ w.usb = c.usb /\ w.epoch = c.epoch /\ w.replay = c.replay
        /\ w.status = c.status /\ w.out = c.out /\ w.phase = "WAITING"
    BY WithFields
  <2> HIDE DEF w
  <2>4. QED
    BY <1>2, <2>1, <2>2, <2>3
<1>3. CASE c.phase = "FORWARDING" /\ c.step # 3
  <2> DEFINE w == With(c, "FORWARDING", c.parts, c.step + 1, c.status, c.out)
  <2>1. Sent(c) = w
    BY <1>3, SentCases
  <2>2. w \in Transaction
    BY <1>1, <1>3 DEF With, Transaction
  <2>3. /\ w.tok = c.tok /\ w.usb = c.usb /\ w.epoch = c.epoch /\ w.replay = c.replay
        /\ w.status = c.status /\ w.out = c.out /\ w.phase = "FORWARDING"
        /\ w.step = c.step + 1
    BY WithFields
  <2> HIDE DEF w
  <2>4. QED
    BY <1>1, <1>3, <2>1, <2>2, <2>3
<1>4. CASE c.phase = "REPLYING" /\ c.step = 1
  BY <1>4, SentCases, NothingType
<1>5. CASE c.phase = "REPLYING" /\ c.step # 1
  <2> DEFINE w == With(c, c.phase, c.parts, 1, c.status, c.out)
  <2>1. Sent(c) = w
    BY <1>5, SentCases
  <2>2. w \in Transaction
    BY <1>1 DEF With, Transaction
  <2>3. /\ w.tok = c.tok /\ w.usb = c.usb /\ w.epoch = c.epoch /\ w.replay = c.replay
        /\ w.status = c.status /\ w.out = c.out /\ w.phase = c.phase
    BY WithFields
  <2> HIDE DEF w
  <2>4. QED
    BY <1>5, <2>1, <2>2, <2>3
<1>6. QED
  BY <1>2, <1>3, <1>4, <1>5

LEMMA SentOK ==
  ASSUME Counts, NEW b \in Board, NEW s, LiveOK(b, s), s.cur.phase \in {"FORWARDING", "REPLYING"}
  PROVE  LiveOK(b, [cur |-> Sent(s.cur), prev |-> s.prev])
<1>1. /\ s \in Service /\ CacheOK(s.prev) /\ TransOK(b, s.cur) /\ s.cur \in Transaction
      /\ Owned(b, s.cur) /\ (s.cur.replay => s.prev.tok = s.cur.tok)
  BY LiveParts
<1> DEFINE w == Sent(s.cur)
<1>2. CASE w = Nothing
  BY <1>1, <1>2, NothingLive
<1>3. CASE w # Nothing
  <2>1. /\ w \in Transaction /\ w.tok = s.cur.tok /\ w.usb = s.cur.usb
        /\ w.epoch = s.cur.epoch /\ w.replay = s.cur.replay /\ w.out = s.cur.out
        /\ \/ s.cur.phase = "FORWARDING" /\ w.phase \in {"FORWARDING", "WAITING"}
           \/ s.cur.phase = "REPLYING" /\ w.phase = "REPLYING"
    BY <1>1, <1>3, SentFields
  <2> HIDE DEF w
  <2>2. Owned(b, w)
    BY <1>1, <2>1, OwnedSame
  <2>3. /\ w.phase \in {"FORWARDING", "WAITING"} => b = Bridge /\ role[w.tok] # b
        /\ w.phase = "REPLYING" => w.out \in Outcome
    BY <1>1, <2>1 DEF TransOK
  <2>4. LiveOK(b, [cur |-> w, prev |-> s.prev])
    BY <1>1, <2>1, <2>2, <2>3, OwnedLive
  <2>5. QED
    BY <2>4 DEF w
<1>4. QED
  BY <1>2, <1>3

LEMMA PacketFields ==
  ASSUME NEW b \in Board, NEW c, TransOK(b, c), c.phase \in {"FORWARDING", "REPLYING"}
  PROVE  /\ Packet(c) \in Frame /\ Packet(c).tok = c.tok
         /\ c.phase = "FORWARDING" => Packet(c).type = Steps[c.step + 1]
                                      /\ Packet(c).type \in Asking
         /\ c.phase = "REPLYING" /\ c.step = 0
              => Packet(c).type = "ACK_META" /\ Packet(c).status = c.out.status
         /\ c.phase = "REPLYING" /\ c.step # 0
              => Packet(c).type = "ACK_VALUE" /\ Packet(c).result = c.out.result
<1>1. c.tok \in Token /\ c.step \in 0 .. 3
  <2>1. c \in Transaction /\ c.tok \in 1 .. Len(role)
    BY DEF TransOK
  <2>2. c.tok \in Token \cup {0} /\ c.step \in 0 .. 3
    BY <2>1, TransactionFields
  <2>3. QED
    BY <2>1, <2>2
<1>2. CASE c.phase = "FORWARDING"
  <2>1. Packet(c) = [type |-> Steps[c.step + 1], tok |-> c.tok]
    BY <1>2 DEF Packet
  <2>2. Steps[c.step + 1] \in Asking
    BY <1>1 DEF Steps, Asking
  <2>3. QED
    BY <1>1, <1>2, <2>1, <2>2 DEF Frame
<1>3. CASE c.phase = "REPLYING"
  <2>1. c.out.status \in Status /\ c.out.result \in Results \cup {0}
    BY <1>3 DEF TransOK, Outcome
  <2>2. CASE c.step = 0
    <3>1. Packet(c) = [type |-> "ACK_META", tok |-> c.tok, status |-> c.out.status]
      BY <1>3, <2>2 DEF Packet
    <3>2. QED
      BY <1>1, <1>3, <2>1, <2>2, <3>1 DEF Frame
  <2>3. CASE c.step # 0
    <3>1. Packet(c) = [type |-> "ACK_VALUE", tok |-> c.tok, result |-> c.out.result]
      BY <1>3, <2>3 DEF Packet
    <3>2. QED
      BY <1>1, <1>3, <2>1, <2>3, <3>1 DEF Frame
  <2>4. QED
    BY <2>2, <2>3
<1>4. QED
  BY <1>2, <1>3

LEMMA PacketItem ==
  ASSUME Counts, NEW b \in Board, NEW c, TransOK(b, c),
         c.phase = "FORWARDING" \/ (c.phase = "REPLYING" /\ ~c.usb)
  PROVE  ItemOK(Peer(b), [frame |-> Packet(c), usb |-> FALSE, epoch |-> 0])
<1> DEFINE f == Packet(c)
           i == [frame |-> f, usb |-> FALSE, epoch |-> 0]
<1>1. /\ f \in Frame /\ f.tok = c.tok
      /\ c.phase = "FORWARDING" => f.type \in Asking
      /\ c.phase = "REPLYING" => f.type \in {"ACK_META", "ACK_VALUE"}
  BY PacketFields
<1> HIDE DEF f
<1>2. i \in Item /\ i.frame = f /\ ~i.usb /\ i.epoch = 0
  BY <1>1, ConfirmAssumption DEF Item
<1> HIDE DEF i
<1>3. c.tok \in 1 .. Len(role) /\ (c.usb <=> b = Bridge) /\ epoch \in Nat
  BY DEF TransOK, Counts
<1>4. CASE c.phase = "FORWARDING"
  <2>1. b = Bridge /\ role[c.tok] # b /\ role[c.tok] \in Board
    BY <1>3, <1>4 DEF TransOK, Counts
  <2>2. Peer(b) # Bridge /\ role[c.tok] = Peer(b)
    BY <2>1, ConfirmAssumption DEF Peer, Board
  <2>3. QED
    BY <1>1, <1>2, <1>3, <1>4, <2>2 DEF ItemOK, f, i
<1>5. CASE c.phase = "REPLYING" /\ ~c.usb
  <2>1. Peer(b) = Bridge
    BY <1>3, <1>5, ConfirmAssumption DEF Peer, Board
  <2>2. f.type \notin Asking
    BY <1>1, <1>5 DEF Asking
  <2>3. QED
    BY <1>1, <1>2, <1>3, <2>1, <2>2 DEF ItemOK, f, i
<1>6. QED
  BY <1>4, <1>5

-----------------------------------------------------------------------------
(* Queues and the page. *)

LEMMA TailOK ==
  ASSUME NEW b, NEW q, QueueOK(b, q), q # <<>>
  PROVE  QueueOK(b, Tail(q))
<1>1. q \in Seq(Item) /\ Len(q) \in Nat \ {0}
  BY DEF QueueOK
<1>2. /\ Tail(q) \in Seq(Item) /\ Len(Tail(q)) = Len(q) - 1
      /\ \A k \in 1 .. Len(Tail(q)) : Tail(q)[k] = q[k + 1]
  BY <1>1
<1>3. \A k \in 1 .. Len(Tail(q)) : k + 1 \in 1 .. Len(q)
  BY <1>1, <1>2
<1>4. QED
  BY <1>1, <1>2, <1>3, ConfirmAssumption DEF QueueOK

LEMMA AppendOK ==
  ASSUME NEW b, NEW q, QueueOK(b, q), NEW i, ItemOK(b, i), Len(q) < IngressCap
  PROVE  QueueOK(b, Append(q, i))
<1>1. q \in Seq(Item) /\ Len(q) \in Nat /\ i \in Item
  BY DEF QueueOK, ItemOK
<1>2. /\ Append(q, i) \in Seq(Item) /\ Len(Append(q, i)) = Len(q) + 1
      /\ \A k \in 1 .. Len(q) : Append(q, i)[k] = q[k]
      /\ Append(q, i)[Len(q) + 1] = i
  BY <1>1
<1>3. \A k \in 1 .. Len(q) + 1 : k \in 1 .. Len(q) \/ k = Len(q) + 1
  BY <1>1
<1>4. QED
  BY <1>1, <1>2, <1>3, ConfirmAssumption DEF QueueOK

Queues(q) == q \in [Board -> Seq(Item)] /\ \A b \in Board : QueueOK(b, q[b])

LEMMA EnqueueOK ==
  ASSUME NEW q, Queues(q), NEW b \in Board, NEW i, ItemOK(b, i)
  PROVE  Queues(Enqueue(q, b, i))
<1> DEFINE n == IF Len(q[b]) < IngressCap THEN Append(q[b], i) ELSE q[b]
<1>1. q \in [Board -> Seq(Item)] /\ \A a \in Board : QueueOK(a, q[a])
  BY DEF Queues
<1>2. Enqueue(q, b, i) = [q EXCEPT ![b] = n]
  BY DEF Enqueue
<1>3. QueueOK(b, n)
  BY <1>1, AppendOK
<1> HIDE DEF n
<1>4. n \in Seq(Item)
  BY <1>3 DEF QueueOK
<1>5. [q EXCEPT ![b] = n] \in [Board -> Seq(Item)]
  BY <1>1, <1>4
<1>6. \A a \in Board : [q EXCEPT ![b] = n][a] = IF a = b THEN n ELSE q[a]
  BY <1>1
<1>7. QED
  BY <1>1, <1>2, <1>3, <1>5, <1>6 DEF Queues

LEMMA RestOK ==
  ASSUME ConfirmIInv, NEW b \in Board
  PROVE  /\ Queues(Rest(b))
         /\ \A a \in Board : a # b => Rest(b)[a] = ingress[a]
         /\ Rest(b)[b] = IF ingress[b] = <<>> THEN <<>> ELSE Tail(ingress[b])
<1> DEFINE n == IF ingress[b] = <<>> THEN ingress[b] ELSE Tail(ingress[b])
<1>1. ingress \in [Board -> Seq(Item)] /\ \A a \in Board : QueueOK(a, ingress[a])
  BY DEF ConfirmIInv
<1>2. Rest(b) = [ingress EXCEPT ![b] = n]
  BY DEF Rest
<1>3. QueueOK(b, n)
  BY <1>1, TailOK
<1>4. n = IF ingress[b] = <<>> THEN <<>> ELSE Tail(ingress[b])
  OBVIOUS
<1> HIDE DEF n
<1>5. n \in Seq(Item)
  BY <1>3 DEF QueueOK
<1>6. [ingress EXCEPT ![b] = n] \in [Board -> Seq(Item)]
  BY <1>1, <1>5
<1>7. \A a \in Board : [ingress EXCEPT ![b] = n][a] = IF a = b THEN n ELSE ingress[a]
  BY <1>1
<1>8. QED
  BY <1>1, <1>2, <1>3, <1>4, <1>6, <1>7 DEF Queues

(* What a page that has heard a frame may look like. *)
Partial(h, status, result) == [h EXCEPT !.status = status, !.result = result]
Answered(h, out) == [h EXCEPT !.open = FALSE, !.answer = out]

LEMMA PartialFields ==
  ASSUME NEW h \in HostRec, NEW status \in Status \cup {None},
         NEW result \in Results \cup {0, None}
  PROVE  LET g == Partial(h, status, result)
         IN  /\ g \in HostRec /\ g.tok = h.tok /\ g.open = h.open /\ g.again = h.again
             /\ g.recalled = h.recalled /\ g.sent = h.sent /\ g.answer = h.answer
             /\ g.status = status /\ g.result = result
<1> DEFINE e == [h EXCEPT !.status = status]
<1>1. /\ e \in HostRec /\ e.tok = h.tok /\ e.open = h.open /\ e.again = h.again
      /\ e.recalled = h.recalled /\ e.sent = h.sent /\ e.answer = h.answer
      /\ e.status = status
  BY DEF HostRec
<1> HIDE DEF e
<1> DEFINE g == [e EXCEPT !.result = result]
<1>2. /\ g \in HostRec /\ g.tok = e.tok /\ g.open = e.open /\ g.again = e.again
      /\ g.recalled = e.recalled /\ g.sent = e.sent /\ g.answer = e.answer
      /\ g.status = e.status /\ g.result = result
  BY <1>1 DEF HostRec
<1>3. Partial(h, status, result) = g
  BY Zenon DEF Partial, e
<1> HIDE DEF g
<1>4. QED
  BY <1>1, <1>2, <1>3

LEMMA AnsweredFields ==
  ASSUME NEW h \in HostRec, NEW out \in Outcome \cup {None}
  PROVE  LET g == Answered(h, out)
         IN  /\ g \in HostRec /\ g.tok = h.tok /\ ~g.open /\ g.again = h.again
             /\ g.recalled = h.recalled /\ g.sent = h.sent /\ g.answer = out
             /\ g.status = h.status /\ g.result = h.result
<1> DEFINE e == [h EXCEPT !.open = FALSE]
<1>1. /\ e \in HostRec /\ e.tok = h.tok /\ ~e.open /\ e.again = h.again
      /\ e.recalled = h.recalled /\ e.sent = h.sent /\ e.answer = h.answer
      /\ e.status = h.status /\ e.result = h.result
  BY DEF HostRec
<1> HIDE DEF e
<1> DEFINE g == [e EXCEPT !.answer = out]
<1>2. /\ g \in HostRec /\ g.tok = e.tok /\ g.open = e.open /\ g.again = e.again
      /\ g.recalled = e.recalled /\ g.sent = e.sent /\ g.answer = out
      /\ g.status = e.status /\ g.result = e.result
  BY <1>1 DEF HostRec
<1>3. Answered(h, out) = g
  BY Zenon DEF Answered, e
<1> HIDE DEF g
<1>4. QED
  BY <1>1, <1>2, <1>3

LEMMA ClosedNow ==
  ASSUME NEW h \in HostRec
  PROVE  LET g == [h EXCEPT !.open = FALSE]
         IN  /\ g \in HostRec /\ g.tok = h.tok /\ ~g.open /\ g.again = h.again
             /\ g.recalled = h.recalled /\ g.sent = h.sent /\ g.answer = h.answer
             /\ g.status = h.status /\ g.result = h.result
  BY DEF HostRec

(* A page that has sent n frames, that sends no more, that was cancelled.  *)
SentOn(h, n) == [h EXCEPT !.sent = n]
TimedOut(h) == [h EXCEPT !.open = FALSE, !.sent = 4]
Cancelled(h) == [h EXCEPT !.open = FALSE, !.sent = 4, !.recalled = FALSE]

LEMMA SentOnFields ==
  ASSUME NEW h \in HostRec, NEW n \in 0 .. 4
  PROVE  LET g == SentOn(h, n)
         IN  /\ g \in HostRec /\ g.tok = h.tok /\ g.open = h.open /\ g.again = h.again
             /\ g.recalled = h.recalled /\ g.sent = n /\ g.answer = h.answer
             /\ g.status = h.status /\ g.result = h.result
  BY DEF HostRec, SentOn

LEMMA TimeoutFields ==
  ASSUME NEW h \in HostRec
  PROVE  LET g == TimedOut(h)
         IN  /\ g \in HostRec /\ g.tok = h.tok /\ ~g.open /\ g.again = h.again
             /\ g.recalled = h.recalled /\ g.sent = 4 /\ g.answer = h.answer
             /\ g.status = h.status /\ g.result = h.result
<1> DEFINE e == [h EXCEPT !.open = FALSE]
<1>1. /\ e \in HostRec /\ e.tok = h.tok /\ ~e.open /\ e.again = h.again
      /\ e.recalled = h.recalled /\ e.answer = h.answer
      /\ e.status = h.status /\ e.result = h.result
  BY DEF HostRec
<1> HIDE DEF e
<1> DEFINE g == [e EXCEPT !.sent = 4]
<1>2. /\ g \in HostRec /\ g.tok = e.tok /\ g.open = e.open /\ g.again = e.again
      /\ g.recalled = e.recalled /\ g.sent = 4 /\ g.answer = e.answer
      /\ g.status = e.status /\ g.result = e.result
  BY <1>1 DEF HostRec
<1>3. TimedOut(h) = g
  BY Zenon DEF TimedOut, e
<1> HIDE DEF g
<1>4. QED
  BY <1>1, <1>2, <1>3

LEMMA ForgetFields ==
  ASSUME NEW h \in HostRec
  PROVE  LET g == [h EXCEPT !.recalled = FALSE]
         IN  /\ g \in HostRec /\ g.tok = h.tok /\ g.open = h.open /\ g.again = h.again
             /\ ~g.recalled /\ g.sent = h.sent /\ g.answer = h.answer
             /\ g.status = h.status /\ g.result = h.result
  BY DEF HostRec

LEMMA CancelledFields ==
  ASSUME NEW h \in HostRec
  PROVE  LET g == Cancelled(h)
         IN  /\ g \in HostRec /\ g.tok = h.tok /\ ~g.open /\ g.again = h.again
             /\ ~g.recalled /\ g.sent = 4 /\ g.answer = h.answer
             /\ g.status = h.status /\ g.result = h.result
<1> DEFINE e == TimedOut(h)
<1>1. /\ e \in HostRec /\ e.tok = h.tok /\ ~e.open /\ e.again = h.again
      /\ e.sent = 4 /\ e.answer = h.answer /\ e.status = h.status /\ e.result = h.result
  BY TimeoutFields
<1>2. Cancelled(h) = [e EXCEPT !.recalled = FALSE]
  BY Zenon DEF Cancelled, TimedOut
<1> HIDE DEF e
<1> DEFINE g == [e EXCEPT !.recalled = FALSE]
<1>3. /\ g \in HostRec /\ g.tok = e.tok /\ g.open = e.open /\ g.again = e.again
      /\ ~g.recalled /\ g.sent = e.sent /\ g.answer = e.answer
      /\ g.status = e.status /\ g.result = e.result
  BY <1>1, ForgetFields
<1> HIDE DEF g
<1>4. QED
  BY <1>1, <1>2, <1>3 DEF g

(* A page that asks, and one that asks again. *)
Asked(n) ==
  [Closed EXCEPT !.tok = n, !.open = TRUE, !.sent = 0, !.recalled = TRUE]
Repeating(h, from) ==
  [h EXCEPT !.open = TRUE, !.again = TRUE, !.sent = from, !.status = None,
            !.result = None, !.answer = None]

LEMMA AskedFields ==
  ASSUME NEW n \in Nat
  PROVE  LET g == Asked(n)
         IN  /\ g \in HostRec /\ g.tok = n /\ g.open /\ ~g.again /\ g.recalled
             /\ g.sent = 0 /\ g.status = None /\ g.result = None /\ g.answer = None
<1>1. /\ Closed \in HostRec /\ ~Closed.again /\ Closed.status = None
      /\ Closed.result = None /\ Closed.answer = None
  BY DEF Closed, HostRec
<1> DEFINE d == [Closed EXCEPT !.tok = n]
           e == [d EXCEPT !.open = TRUE]
           g == [e EXCEPT !.sent = 0]
           h == [g EXCEPT !.recalled = TRUE]
<1>2. Asked(n) = h
  BY Zenon DEF Asked
<1>3. /\ d \in HostRec /\ d.tok = n /\ ~d.again /\ d.status = None /\ d.result = None
      /\ d.answer = None
  BY <1>1 DEF HostRec
<1> HIDE DEF d
<1>4. /\ e \in HostRec /\ e.tok = n /\ e.open /\ ~e.again /\ e.status = None
      /\ e.result = None /\ e.answer = None
  BY <1>3 DEF HostRec
<1> HIDE DEF e
<1>5. /\ g \in HostRec /\ g.tok = n /\ g.open /\ ~g.again /\ g.status = None
      /\ g.result = None /\ g.answer = None /\ g.sent = 0
  BY <1>4 DEF HostRec
<1> HIDE DEF g
<1>6. /\ h \in HostRec /\ h.tok = n /\ h.open /\ ~h.again /\ h.status = None
      /\ h.result = None /\ h.answer = None /\ h.sent = 0 /\ h.recalled
  BY <1>5 DEF HostRec
<1> HIDE DEF h
<1>7. QED
  BY <1>2, <1>6

LEMMA RepeatingFields ==
  ASSUME NEW h \in HostRec, NEW from \in 0 .. 4
  PROVE  LET g == Repeating(h, from)
         IN  /\ g \in HostRec /\ g.tok = h.tok /\ g.open /\ g.recalled = h.recalled
<1> DEFINE d == [h EXCEPT !.open = TRUE]
           e == [d EXCEPT !.again = TRUE]
           g == SentOn(e, from)
           k == Partial(g, None, None)
           m == [k EXCEPT !.answer = None]
<1>1. Repeating(h, from) = m
  BY Zenon DEF Repeating, SentOn, Partial
<1>2. d \in HostRec /\ d.tok = h.tok /\ d.open /\ d.recalled = h.recalled
  BY DEF HostRec
<1> HIDE DEF d
<1>3. e \in HostRec /\ e.tok = h.tok /\ e.open /\ e.recalled = h.recalled
  BY <1>2 DEF HostRec
<1> HIDE DEF e
<1>4. g \in HostRec /\ g.tok = h.tok /\ g.open /\ g.recalled = h.recalled
  BY <1>3, SentOnFields
<1> HIDE DEF g
<1>5. k \in HostRec /\ k.tok = h.tok /\ k.open /\ k.recalled = h.recalled
  BY <1>4, PartialFields
<1> HIDE DEF k
<1>6. m \in HostRec /\ m.tok = h.tok /\ m.open /\ m.recalled = h.recalled
  BY <1>5 DEF HostRec
<1> HIDE DEF m
<1>7. QED
  BY <1>1, <1>6

(* The four things hearing a frame may do. *)
Hears(h, f, g) ==
  \/ g = h
  \/ /\ h.open /\ f.tok = h.tok /\ (h.status # None \/ h.result # None)
     /\ g = [h EXCEPT !.open = FALSE]
  \/ /\ h.open /\ f.tok = h.tok
     /\ \E status, result :
          /\ status = h.status \/ (f.type = "ACK_META" /\ status = f.status)
          /\ result = h.result \/ (f.type = "ACK_VALUE" /\ result = f.result)
          /\ \/ g = Partial(h, status, result)
             \/ /\ status # None /\ result # None
                /\ g = Answered(h, [status |-> status, result |-> result])

LEMMA HeardHears ==
  ASSUME NEW h, NEW f
  PROVE  Hears(h, f, Heard(h, f))
<1>1. CASE ~h.open \/ f.tok # h.tok
  BY <1>1, Zenon DEF Heard, Hears
<1>2. CASE ~(~h.open \/ f.tok # h.tok)
  <2> DEFINE status == IF f.type = "ACK_META" THEN f.status ELSE h.status
             result == IF f.type = "ACK_VALUE" THEN f.result ELSE h.result
  <2>1. /\ status = h.status \/ (f.type = "ACK_META" /\ status = f.status)
        /\ result = h.result \/ (f.type = "ACK_VALUE" /\ result = f.result)
    OBVIOUS
  <2>2. Heard(h, f)
          = IF h.status \notin {None, status} \/ h.result \notin {None, result}
            THEN [h EXCEPT !.open = FALSE]
            ELSE IF status = None \/ result = None
            THEN Partial(h, status, result)
            ELSE Answered(h, [status |-> status, result |-> result])
    BY <1>2, Zenon DEF Heard, Partial, Answered
  <2> HIDE DEF status, result
  <2>3. QED
    BY <1>2, <2>1, <2>2, Zenon DEF Hears
<1>3. QED
  BY <1>1, <1>2

LEMMA HearsHost ==
  ASSUME NEW h \in HostRec, NEW f \in Frame, NEW g, Hears(h, f, g)
  PROVE  /\ g \in HostRec /\ g.tok = h.tok /\ (g.open => h.open) /\ g.again = h.again
         /\ g.recalled = h.recalled /\ g.sent = h.sent
<1>1. CASE g = h
  BY <1>1
<1>2. CASE g = [h EXCEPT !.open = FALSE]
  BY <1>2, ClosedNow
<1>3. CASE g # h /\ g # [h EXCEPT !.open = FALSE]
  <2>1. PICK status, result :
          /\ status = h.status \/ (f.type = "ACK_META" /\ status = f.status)
          /\ result = h.result \/ (f.type = "ACK_VALUE" /\ result = f.result)
          /\ \/ g = Partial(h, status, result)
             \/ /\ status # None /\ result # None
                /\ g = Answered(h, [status |-> status, result |-> result])
    BY <1>3, Zenon DEF Hears
  <2>2. /\ f.type = "ACK_META" => f.status \in Status
        /\ f.type = "ACK_VALUE" => f.result \in Results \cup {0}
    BY FrameFields
  <2>3. status \in Status \cup {None} /\ result \in Results \cup {0, None}
    BY <2>1, <2>2 DEF HostRec
  <2>4. CASE g = Partial(h, status, result)
    BY <2>3, <2>4, PartialFields
  <2>5. CASE /\ status # None /\ result # None
             /\ g = Answered(h, [status |-> status, result |-> result])
    <3>1. [status |-> status, result |-> result] \in Outcome \cup {None}
      BY <2>3, <2>5 DEF Outcome
    <3>2. QED
      BY <2>5, <3>1, AnsweredFields
  <2>6. QED
    BY <2>1, <2>4, <2>5
<1>4. QED
  BY <1>1, <1>2, <1>3

-----------------------------------------------------------------------------
(* The invariant, from what a step leaves. *)

LEMMA SvcCarries ==
  ASSUME NEW b \in Board, LiveOK(b, [cur |-> cur'[b], prev |-> prev'[b]]),
         UNCHANGED <<epoch, role, ended>>
  PROVE  SvcOK(b, Svc(b))'
<1>1. SvcOK(b, [cur |-> cur'[b], prev |-> prev'[b]])
  BY DEF LiveOK
<1>2. TransOK(b, cur'[b]) /\ CacheOK(prev'[b]) /\ ReplayOK(cur'[b], prev'[b])
  BY <1>1 DEF SvcOK
<1>3. (TransOK(b, cur[b]))' /\ (CacheOK(prev[b]))' /\ (ReplayOK(cur[b], prev[b]))'
  BY <1>2 DEF TransOK, CacheOK, ReplayOK, Live
<1>4. QED
  BY <1>3 DEF SvcOK, Svc

LEMMA SvcStays ==
  ASSUME NEW b \in Board, SvcOK(b, Svc(b)), cur'[b] = cur[b], prev'[b] = prev[b],
         UNCHANGED <<epoch, role, ended>>
  PROVE  SvcOK(b, Svc(b))'
<1>1. TransOK(b, cur[b]) /\ CacheOK(prev[b]) /\ ReplayOK(cur[b], prev[b])
  BY DEF SvcOK, Svc
<1>2. (TransOK(b, cur[b]))' /\ (CacheOK(prev[b]))' /\ (ReplayOK(cur[b], prev[b]))'
  BY <1>1 DEF TransOK, CacheOK, ReplayOK, Live
<1>3. QED
  BY <1>2 DEF SvcOK, Svc

LEMMA QueuesCarry ==
  ASSUME Queues(ingress'), UNCHANGED <<epoch, role, ended>>
  PROVE  /\ ingress' \in [Board -> Seq(Item)]
         /\ \A b \in Board : QueueOK(b, ingress[b])'
<1>1. ASSUME NEW b \in Board PROVE QueueOK(b, ingress[b])'
  <2>1. QueueOK(b, ingress'[b])
    BY DEF Queues
  <2>2. ASSUME NEW k \in 1 .. Len(ingress'[b]) PROVE ItemOK(b, ingress[b][k])'
    <3>1. ItemOK(b, ingress'[b][k])
      BY <2>1 DEF QueueOK
    <3>2. QED
      BY <3>1 DEF ItemOK
  <2>3. QED
    BY <2>1, <2>2 DEF QueueOK
<1>2. QED
  BY <1>1 DEF Queues

(* ran stays a sequence of outcomes when one of them is decided.           *)
LEMMA DecidedType ==
  ASSUME Counts, NEW b, NEW p \in Cached
  PROVE  Decided(b, p) \in Seq(Outcome \cup {None}) /\ Len(Decided(b, p)) = Len(role)
<1>1. ran \in Seq(Outcome \cup {None}) /\ Len(ran) = Len(role) /\ p.out \in Outcome \cup {None}
  BY DEF Counts, Cached
<1>2. /\ [ran EXCEPT ![p.tok] = p.out] \in Seq(Outcome \cup {None})
      /\ Len([ran EXCEPT ![p.tok] = p.out]) = Len(ran)
  <2>1. CASE p.tok \in 1 .. Len(ran)
    BY <1>1, <2>1, ExceptSeq
  <2>2. CASE p.tok \notin 1 .. Len(ran)
    <3>1. [ran EXCEPT ![p.tok] = p.out] = ran
      BY <1>1, <2>2
    <3>2. QED
      BY <1>1, <3>1
  <2>3. QED
    BY <2>1, <2>2
<1>3. QED
  BY <1>1, <1>2 DEF Decided

LEMMA TransportKeeps ==
  ASSUME ConfirmIInv, NEW b \in Board, NEW t, NEW r, Passes(b, t, r)
  PROVE  ConfirmIInv'
<1>1. /\ LiveOK(b, r) /\ prev' = [prev EXCEPT ![b] = r.prev] /\ ran' = Decided(b, r.prev)
      /\ Transport(b, r.cur, Rest(b)) /\ UNCHANGED <<epoch, role, ended, attempts, trouble>>
  BY DEF Passes
<1>2. /\ Counts /\ HostOK /\ cur \in [Board -> Transaction] /\ prev \in [Board -> Cached]
      /\ \A a \in Board : SvcOK(a, Svc(a))
  BY DEF ConfirmIInv
<1>3. r \in Service /\ r = [cur |-> r.cur, prev |-> r.prev] /\ TransOK(b, r.cur)
      /\ r.cur \in Transaction /\ r.prev \in Cached
  BY <1>1, LiveParts DEF CacheOK
<1>4. Queues(Rest(b))
  BY RestOK
<1>5. Counts'
  <2>1. ran' \in Seq(Outcome \cup {None}) /\ Len(ran') = Len(role)
    BY <1>1, <1>2, <1>3, DecidedType
  <2>2. QED
    BY <1>1, <1>2, <2>1 DEF Counts
<1>6. \E c \in Transaction : /\ cur' = [cur EXCEPT ![b] = c]
                            /\ LiveOK(b, [cur |-> c, prev |-> r.prev])
  <2>1. CASE r.cur.phase \notin {"FORWARDING", "REPLYING"}
    BY <1>1, <1>3, <2>1 DEF Transport
  <2>2. CASE r.cur.phase \in {"FORWARDING", "REPLYING"}
    <3>1. cur' = [cur EXCEPT ![b] = Sent(r.cur)]
      BY <1>1, <2>2 DEF Transport
    <3>2. LiveOK(b, [cur |-> Sent(r.cur), prev |-> r.prev]) /\ Sent(r.cur) \in Transaction
      BY <1>1, <1>2, <1>3, <2>2, SentOK, SentFields
    <3>3. QED
      BY <3>1, <3>2
  <2>3. QED
    BY <2>1, <2>2
<1>7. PICK c \in Transaction : /\ cur' = [cur EXCEPT ![b] = c]
                              /\ LiveOK(b, [cur |-> c, prev |-> r.prev])
  BY <1>6
<1>8. cur' \in [Board -> Transaction] /\ prev' \in [Board -> Cached]
  BY <1>1, <1>2, <1>3, <1>7
<1>9. ASSUME NEW a \in Board PROVE SvcOK(a, Svc(a))'
  <2>1. CASE a = b
    <3>1. cur'[b] = c /\ prev'[b] = r.prev
      BY <1>1, <1>2, <1>7
    <3>2. QED
      BY <1>1, <1>7, <2>1, <3>1, SvcCarries
  <2>2. CASE a # b
    <3>1. cur'[a] = cur[a] /\ prev'[a] = prev[a]
      BY <1>1, <1>2, <1>7, <2>2
    <3>2. QED
      BY <1>1, <1>2, <3>1, SvcStays
  <2>3. QED
    BY <2>1, <2>2
<1>10. Queues(ingress')
  <2>1. CASE ingress' = Rest(b)
    BY <1>4, <2>1
  <2>2. CASE /\ r.cur.phase = "FORWARDING" \/ (r.cur.phase = "REPLYING" /\ ~r.cur.usb)
             /\ ingress' = Enqueue(Rest(b), Peer(b),
                                   [frame |-> Packet(r.cur), usb |-> FALSE, epoch |-> 0])
    <3>1. ItemOK(Peer(b), [frame |-> Packet(r.cur), usb |-> FALSE, epoch |-> 0])
      BY <1>2, <1>3, <2>2, PacketItem
    <3>2. Peer(b) \in Board
      BY DEF Peer, Board
    <3>3. QED
      BY <1>4, <2>2, <3>1, <3>2, EnqueueOK
  <2>3. QED
    BY <1>1, <2>1, <2>2 DEF Transport
<1>11. HostOK'
  <2>1. CASE host' = host
    BY <1>1, <1>2, <2>1 DEF HostOK
  <2>2. CASE r.cur.phase = "REPLYING" /\ host' = Heard(host, Packet(r.cur))
    <3>1. Packet(r.cur) \in Frame
      BY <1>3, <2>2, PacketFields
    <3>2. Hears(host, Packet(r.cur), host')
      BY <2>2, HeardHears
    <3>3. /\ host' \in HostRec /\ host'.tok = host.tok /\ (host'.open => host.open)
          /\ host'.recalled = host.recalled
      BY <1>2, <3>1, <3>2, HearsHost DEF HostOK
    <3>4. QED
      BY <1>1, <1>2, <3>3 DEF HostOK
  <2>3. QED
    BY <1>1, <2>1, <2>2 DEF Transport
<1>12. QED
  BY <1>1, <1>5, <1>8, <1>9, <1>10, <1>11, QueuesCarry DEF ConfirmIInv

LEMMA TaskKeeps ==
  ASSUME ConfirmIInv, NEW b \in Board, NEW expired \in BOOLEAN, Task(b, expired)
  PROVE  ConfirmIInv'
  BY TaskPasses, TransportKeeps

LEMMA LoseKeeps ==
  ASSUME ConfirmIInv, NEW b \in Board, Lose(b)
  PROVE  ConfirmIInv'
<1>1. /\ ingress[b] # <<>> /\ trouble < MaxTrouble /\ trouble' = trouble + 1
      /\ ingress' = [ingress EXCEPT ![b] = Tail(@)]
      /\ UNCHANGED <<cur, prev, epoch, role, host, ran, ended, attempts>>
  BY DEF Lose, Trouble, service
<1>2. /\ Counts /\ HostOK /\ cur \in [Board -> Transaction] /\ prev \in [Board -> Cached]
      /\ \A a \in Board : SvcOK(a, Svc(a))
  BY DEF ConfirmIInv
<1>3. ingress' = Rest(b)
  BY <1>1 DEF Rest
<1>4. Queues(ingress')
  BY <1>3, RestOK
<1>5. Counts'
  BY <1>1, <1>2, ConfirmAssumption DEF Counts
<1>6. HostOK'
  BY <1>1, <1>2 DEF HostOK
<1>7. \A a \in Board : SvcOK(a, Svc(a))'
  BY <1>1, <1>2, SvcStays
<1>8. QED
  BY <1>1, <1>2, <1>4, <1>5, <1>6, <1>7, QueuesCarry DEF ConfirmIInv

LEMMA HostSendKeeps ==
  ASSUME ConfirmIInv, HostSend
  PROVE  ConfirmIInv'
<1> DEFINE i == [frame |-> [type |-> Steps[host.sent + 1], tok |-> host.tok],
                 usb |-> TRUE, epoch |-> epoch]
<1>1. /\ host.open /\ host.sent < 4 /\ ingress' = Enqueue(ingress, Bridge, i)
      /\ host' = [host EXCEPT !.sent = host.sent + 1]
      /\ UNCHANGED <<cur, prev, epoch, role, ran, ended, attempts, trouble>>
  BY DEF HostSend, service, bounds
<1>2. /\ Counts /\ HostOK /\ cur \in [Board -> Transaction] /\ prev \in [Board -> Cached]
      /\ \A a \in Board : SvcOK(a, Svc(a))
  BY DEF ConfirmIInv
<1>3. Queues(ingress)
  BY DEF ConfirmIInv, Queues
<1>4. host \in HostRec /\ host.sent \in 0 .. 3
  BY <1>1, <1>2 DEF HostOK, HostRec
<1>5. Steps[host.sent + 1] \in Asking
  BY <1>4 DEF Steps, Asking
<1>6. host.tok \in 1 .. Len(role) /\ host.tok > ended /\ host.tok \in Token
  BY <1>1, <1>2, ConfirmAssumption DEF HostOK, Counts, Token
<1>7. ItemOK(Bridge, i)
  <2> DEFINE f == [type |-> Steps[host.sent + 1], tok |-> host.tok]
  <2>1. f \in Frame /\ f.tok = host.tok /\ f.type \in Asking
    BY <1>5, <1>6 DEF Frame
  <2> HIDE DEF f
  <2>2. epoch \in 0 .. MaxTrouble
    BY <1>2, ConfirmAssumption DEF Counts
  <2>3. [frame |-> f, usb |-> TRUE, epoch |-> epoch] \in Item
    BY <2>1, <2>2 DEF Item
  <2> DEFINE j == [frame |-> f, usb |-> TRUE, epoch |-> epoch]
  <2>4. j.frame = f /\ j.usb /\ j.epoch = epoch
    OBVIOUS
  <2> HIDE DEF j
  <2>5. ItemOK(Bridge, j)
    BY <1>6, <2>1, <2>2, <2>3, <2>4, ConfirmAssumption DEF ItemOK, j
  <2>6. QED
    BY <2>5 DEF j, f
<1>8. Queues(ingress')
  BY <1>1, <1>3, <1>7, EnqueueOK, ConfirmAssumption
<1>9. Counts'
  BY <1>1, <1>2 DEF Counts
<1>10. HostOK'
  <2>1. /\ host' \in HostRec /\ host'.tok = host.tok /\ host'.open = host.open
        /\ host'.recalled = host.recalled
    <3>1. host' = SentOn(host, host.sent + 1) /\ host.sent + 1 \in 0 .. 4
      BY <1>1, <1>4 DEF SentOn
    <3>2. QED
      BY <1>4, <3>1, SentOnFields
  <2>2. QED
    BY <1>1, <1>2, <2>1 DEF HostOK
<1>11. \A a \in Board : SvcOK(a, Svc(a))'
  BY <1>1, <1>2, SvcStays
<1>12. QED
  BY <1>1, <1>2, <1>8, <1>9, <1>10, <1>11, QueuesCarry DEF ConfirmIInv

(* More requests disturb nothing that speaks of the earlier ones. *)
LEMMA RoleGrows ==
  ASSUME ConfirmIInv, NEW x \in Board, role' = Append(role, x),
         UNCHANGED <<cur, prev, ingress, epoch, ended>>
  PROVE  /\ \A b \in Board : SvcOK(b, Svc(b))' /\ QueueOK(b, ingress[b])'
         /\ role' \in Seq(Board) /\ Len(role') = Len(role) + 1
         /\ \A t \in 1 .. Len(role) : role'[t] = role[t]
<1>1. role \in Seq(Board) /\ Len(role) \in Nat
  BY DEF ConfirmIInv, Counts
<1>2. /\ role' \in Seq(Board) /\ Len(role') = Len(role) + 1
      /\ \A t \in 1 .. Len(role) : role'[t] = role[t] /\ t \in 1 .. Len(role')
      /\ \A t \in 0 .. Len(role) : t \in 0 .. Len(role')
  BY <1>1
<1>3. ASSUME NEW b \in Board PROVE SvcOK(b, Svc(b))'
  <2>1. TransOK(b, cur[b]) /\ CacheOK(prev[b]) /\ ReplayOK(cur[b], prev[b])
    BY DEF ConfirmIInv, SvcOK, Svc
  <2>2. (TransOK(b, cur[b]))'
    BY <1>2, <2>1 DEF TransOK
  <2>3. (CacheOK(prev[b]))' /\ (ReplayOK(cur[b], prev[b]))'
    BY <1>2, <2>1 DEF CacheOK, ReplayOK, Live
  <2>4. QED
    BY <2>2, <2>3 DEF SvcOK, Svc
<1>4. ASSUME NEW b \in Board PROVE QueueOK(b, ingress[b])'
  <2>1. QueueOK(b, ingress[b])
    BY DEF ConfirmIInv
  <2>2. ASSUME NEW k \in 1 .. Len(ingress[b]) PROVE ItemOK(b, ingress[b][k])'
    <3>1. ItemOK(b, ingress[b][k])
      BY <2>1 DEF QueueOK
    <3>2. QED
      BY <1>2, <3>1 DEF ItemOK
  <2>3. QED
    BY <2>1, <2>2 DEF QueueOK
<1>5. QED
  BY <1>2, <1>3, <1>4

LEMMA HostAskKeeps ==
  ASSUME ConfirmIInv, NEW b \in Board, HostAsk(b)
  PROVE  ConfirmIInv'
<1>1. /\ ~host.open /\ attempts < MaxAttempts /\ attempts' = attempts + 1
      /\ role' = Append(role, b) /\ ran' = Append(ran, None)
      /\ host' = Asked(Len(role) + 1)
      /\ UNCHANGED <<cur, prev, ingress, epoch, ended, trouble>>
  BY Zenon DEF HostAsk, Asked, service
<1>2. /\ Counts /\ cur \in [Board -> Transaction] /\ prev \in [Board -> Cached]
      /\ ingress \in [Board -> Seq(Item)]
  BY DEF ConfirmIInv
<1>3. /\ \A a \in Board : SvcOK(a, Svc(a))' /\ QueueOK(a, ingress[a])'
      /\ role' \in Seq(Board) /\ Len(role') = Len(role) + 1
  BY <1>1, RoleGrows
<1>4. Counts'
  <2>1. ran \in Seq(Outcome \cup {None}) /\ Len(ran) = Len(role) /\ Len(role) \in Nat
    BY <1>2 DEF Counts
  <2>2. ran' \in Seq(Outcome \cup {None}) /\ Len(ran') = Len(ran) + 1
    BY <1>1, <2>1
  <2>3. QED
    BY <1>1, <1>2, <1>3, <2>1, <2>2, ConfirmAssumption DEF Counts
<1>5. HostOK'
  <2>1. Len(role) + 1 \in Nat /\ ended < Len(role) + 1
    BY <1>2 DEF Counts
  <2>2. host' \in HostRec /\ host'.tok = Len(role) + 1
    BY <1>1, <2>1, AskedFields
  <2>3. QED
    BY <1>1, <1>3, <2>1, <2>2 DEF HostOK
<1>6. QED
  BY <1>1, <1>2, <1>3, <1>4, <1>5 DEF ConfirmIInv

(* What the page does to itself alone. *)
LEMMA PageKeeps ==
  ASSUME ConfirmIInv, HostRepeat(0) \/ HostRepeat(3) \/ HostTimeout
  PROVE  ConfirmIInv'
<1>1. /\ UNCHANGED <<cur, prev, ingress, epoch, role, ran, ended, trouble>>
      /\ \/ \E from \in {0, 3} : /\ host.recalled /\ attempts < MaxAttempts
                                 /\ host' = Repeating(host, from)
                                 /\ attempts' = attempts + 1
         \/ host.open /\ host' = TimedOut(host) /\ attempts' = attempts
  <2>1. ASSUME NEW from \in {0, 3}, HostRepeat(from)
        PROVE  <1>1!1 /\ /\ host.recalled /\ attempts < MaxAttempts
                         /\ host' = Repeating(host, from)
                         /\ attempts' = attempts + 1
    BY <2>1, Zenon DEF HostRepeat, Repeating, service
  <2>2. CASE HostTimeout
    BY <2>2, Zenon DEF HostTimeout, TimedOut, service, bounds
  <2>3. QED
    BY <2>1, <2>2
<1>2. /\ Counts /\ HostOK /\ cur \in [Board -> Transaction] /\ prev \in [Board -> Cached]
      /\ \A a \in Board : SvcOK(a, Svc(a))
  BY DEF ConfirmIInv
<1>3. Queues(ingress')
  BY <1>1 DEF ConfirmIInv, Queues
<1>4. Counts'
  BY <1>1, <1>2, ConfirmAssumption DEF Counts
<1>5. HostOK'
  <2>1. CASE host.open /\ host' = TimedOut(host)
    <3>1. host' \in HostRec /\ host'.tok = host.tok /\ ~host'.open
          /\ host'.recalled = host.recalled
      BY <1>2, <2>1, TimeoutFields DEF HostOK
    <3>2. QED
      BY <1>1, <1>2, <3>1 DEF HostOK
  <2>2. ASSUME NEW from \in {0, 3}, host.recalled, host' = Repeating(host, from)
        PROVE  HostOK'
    <3>1. host' \in HostRec /\ host'.tok = host.tok /\ host'.open
          /\ host'.recalled = host.recalled
      <4>1. host \in HostRec /\ from \in 0 .. 4
        BY <1>2, <2>2 DEF HostOK
      <4>2. QED
        BY <2>2, <4>1, RepeatingFields
    <3>2. QED
      BY <1>1, <1>2, <2>2, <3>1 DEF HostOK
  <2>3. QED
    BY <1>1, <2>1, <2>2
<1>6. \A a \in Board : SvcOK(a, Svc(a))'
  BY <1>1, <1>2, SvcStays
<1>7. QED
  BY <1>1, <1>2, <1>3, <1>4, <1>5, <1>6, QueuesCarry DEF ConfirmIInv

LEMMA ForgottenOK ==
  ASSUME Counts
  PROVE  CacheOK(Forgotten) /\ Forgotten \in Cached /\ Forgotten.tok = 0
<1>1. Forgotten \in Cached /\ Forgotten.tok = 0
  BY ConfirmAssumption DEF Forgotten, Cached
<1>2. QED
  BY <1>1 DEF CacheOK, Counts

LEMMA EmptyQueue ==
  ASSUME NEW b
  PROVE  QueueOK(b, <<>>)
  BY ConfirmAssumption DEF QueueOK

LEMMA DisconnectKeeps ==
  ASSUME ConfirmIInv, Disconnect
  PROVE  ConfirmIInv'
<1>1. /\ trouble < MaxTrouble /\ trouble' = trouble + 1 /\ epoch' = epoch + 1
      /\ prev' = [prev EXCEPT ![Bridge] = IF @.usb THEN Forgotten ELSE @]
      /\ host' = Cancelled(host) /\ ended' = Len(role)
      /\ UNCHANGED <<cur, ingress, role, ran, attempts>>
  BY Zenon DEF Disconnect, Trouble, Cancelled
<1>2. /\ Counts /\ HostOK /\ cur \in [Board -> Transaction] /\ prev \in [Board -> Cached]
      /\ ingress \in [Board -> Seq(Item)]
      /\ \A a \in Board : SvcOK(a, Svc(a)) /\ QueueOK(a, ingress[a])
  BY DEF ConfirmIInv
<1>3. Counts'
  BY <1>1, <1>2, ConfirmAssumption DEF Counts
<1>4. HostOK'
  <2>1. host' \in HostRec /\ host'.tok = host.tok /\ ~host'.open /\ ~host'.recalled
    BY <1>1, <1>2, CancelledFields DEF HostOK
  <2>2. QED
    BY <1>1, <1>2, <2>1 DEF HostOK
<1>5. /\ prev' \in [Board -> Cached]
      /\ \A a \in Board : prev'[a] = prev[a] \/ (a = Bridge /\ prev'[a] = Forgotten)
  BY <1>1, <1>2, ForgottenOK
<1>6. ASSUME NEW a \in Board PROVE SvcOK(a, Svc(a))'
  <2>1. TransOK(a, cur[a]) /\ CacheOK(prev[a]) /\ ReplayOK(cur[a], prev[a])
        /\ cur[a] \in Transaction /\ epoch \in Nat
    BY <1>2 DEF SvcOK, Svc, Counts
  <2>2. cur[a].epoch \in Nat
    BY <2>1, TransactionFields
  <2>3. (TransOK(a, cur[a]))'
    BY <1>1, <2>1, <2>2 DEF TransOK
  <2>4. CacheOK(prev'[a])
    BY <1>2, <1>5, <2>1, ForgottenOK
  <2>5. (CacheOK(prev[a]))'
    BY <1>1, <2>4 DEF CacheOK
  <2>6. (ReplayOK(cur[a], prev[a]))'
    <3>1. CASE a = Bridge
      BY <1>1, <2>1, <2>2, <3>1 DEF TransOK, ReplayOK, Live
    <3>2. CASE a # Bridge
      BY <1>1, <1>5, <2>1, <3>2 DEF TransOK, ReplayOK, Live
    <3>3. QED
      BY <3>1, <3>2
  <2>7. QED
    BY <2>3, <2>5, <2>6 DEF SvcOK, Svc
<1>7. ASSUME NEW a \in Board PROVE QueueOK(a, ingress[a])'
  <2>1. QueueOK(a, ingress[a])
    BY <1>2
  <2>2. ASSUME NEW k \in 1 .. Len(ingress[a]) PROVE ItemOK(a, ingress[a][k])'
    <3>1. ItemOK(a, ingress[a][k]) /\ epoch \in Nat
      BY <1>2, <2>1 DEF QueueOK, Counts
    <3>2. PICK i : i = ingress[a][k]
      OBVIOUS
    <3>3. ItemOK(a, i) /\ i.epoch \in Nat
      BY <3>1, <3>2 DEF ItemOK, Item
    <3>4. i.usb => i.epoch <= epoch + 1 /\ i.epoch # epoch + 1
      BY <3>1, <3>3 DEF ItemOK
    <3>5. /\ i \in Item /\ i.frame.tok \in 1 .. Len(role)
          /\ i.usb <=> a = Bridge /\ i.frame.type \in Asking
          /\ a # Bridge => i.frame.type \in Asking /\ role[i.frame.tok] = a
      BY <3>3 DEF ItemOK
    <3>6. (ItemOK(a, i))'
      BY <1>1, <3>4, <3>5 DEF ItemOK
    <3>7. QED
      BY <1>1, <3>2, <3>6
  <2>3. QED
    BY <1>1, <2>1, <2>2 DEF QueueOK
<1>8. QED
  BY <1>1, <1>2, <1>3, <1>4, <1>5, <1>6, <1>7 DEF ConfirmIInv

LEMMA RestartKeeps ==
  ASSUME ConfirmIInv, NEW b \in Board, Restart(b)
  PROVE  ConfirmIInv'
<1>1. /\ trouble < MaxTrouble /\ trouble' = trouble + 1
      /\ cur' = [cur EXCEPT ![b] = Nothing] /\ prev' = [prev EXCEPT ![b] = Forgotten]
      /\ ingress' = [ingress EXCEPT ![b] = <<>>]
      /\ b = Bridge => epoch' = 0 /\ ended' = Len(role) /\ host' = Cancelled(host)
      /\ b # Bridge => /\ host' = [host EXCEPT !.recalled = FALSE]
                       /\ UNCHANGED <<epoch, ended>>
      /\ UNCHANGED <<role, ran, attempts>>
  BY Zenon DEF Restart, Trouble, Cancelled
<1>2. /\ Counts /\ HostOK /\ cur \in [Board -> Transaction] /\ prev \in [Board -> Cached]
      /\ ingress \in [Board -> Seq(Item)]
      /\ \A a \in Board : SvcOK(a, Svc(a)) /\ QueueOK(a, ingress[a])
  BY DEF ConfirmIInv
<1>3. Counts'
  <2>1. epoch' \in 0 .. trouble /\ ended' \in 0 .. Len(role)
    BY <1>1, <1>2 DEF Counts
  <2>2. QED
    BY <1>1, <1>2, <2>1, ConfirmAssumption DEF Counts
<1>4. HostOK'
  <2>1. CASE b = Bridge
    <3>1. host' \in HostRec /\ host'.tok = host.tok /\ ~host'.open /\ ~host'.recalled
      BY <1>1, <1>2, <2>1, CancelledFields DEF HostOK
    <3>2. QED
      BY <1>1, <1>2, <3>1 DEF HostOK
  <2>2. CASE b # Bridge
    <3>1. host' \in HostRec /\ host'.tok = host.tok /\ host'.open = host.open
          /\ ~host'.recalled
      BY <1>1, <1>2, <2>2, ForgetFields DEF HostOK
    <3>2. QED
      BY <1>1, <1>2, <2>2, <3>1 DEF HostOK
  <2>3. QED
    BY <2>1, <2>2
<1>5. /\ cur' \in [Board -> Transaction] /\ prev' \in [Board -> Cached]
      /\ ingress' \in [Board -> Seq(Item)]
      /\ cur'[b] = Nothing /\ prev'[b] = Forgotten /\ ingress'[b] = <<>>
      /\ \A a \in Board \ {b} : cur'[a] = cur[a] /\ prev'[a] = prev[a]
                                /\ ingress'[a] = ingress[a]
  BY <1>1, <1>2, ForgottenOK, NothingType
<1>6. ASSUME NEW a \in Board PROVE SvcOK(a, Svc(a))'
  <2>1. CASE a = b
    <3>1. Nothing \in Transaction /\ Nothing.phase = "IDLE"
      BY NothingType
    <3>2. (TransOK(a, cur[a]))' /\ (ReplayOK(cur[a], prev[a]))'
      BY <1>5, <2>1, <3>1 DEF TransOK, ReplayOK
    <3>3. CacheOK(prev'[a])
      BY <1>2, <1>5, <2>1, ForgottenOK
    <3>4. (CacheOK(prev[a]))'
      BY <1>1, <3>3 DEF CacheOK
    <3>5. QED
      BY <3>2, <3>4 DEF SvcOK, Svc
  <2>2. CASE a # b /\ b = Bridge
    <3>1. TransOK(a, cur[a]) /\ CacheOK(prev[a]) /\ ReplayOK(cur[a], prev[a])
      BY <1>2 DEF SvcOK, Svc
    <3>2. (TransOK(a, cur[a]))' /\ (CacheOK(prev[a]))' /\ (ReplayOK(cur[a], prev[a]))'
      BY <1>1, <1>5, <2>2, <3>1 DEF TransOK, CacheOK, ReplayOK, Live
    <3>3. QED
      BY <3>2 DEF SvcOK, Svc
  <2>3. CASE a # b /\ b # Bridge
    BY <1>1, <1>2, <1>5, <2>3, SvcStays
  <2>4. QED
    BY <2>1, <2>2, <2>3
<1>7. ASSUME NEW a \in Board PROVE QueueOK(a, ingress[a])'
  <2>1. CASE a = b
    BY <1>5, <2>1, ConfirmAssumption DEF QueueOK
  <2>2. CASE a # b
    <3>1. QueueOK(a, ingress[a]) /\ ingress'[a] = ingress[a]
      BY <1>2, <1>5, <2>2
    <3>2. ASSUME NEW k \in 1 .. Len(ingress[a]) PROVE ItemOK(a, ingress[a][k])'
      <4>1. ItemOK(a, ingress[a][k])
        BY <3>1 DEF QueueOK
      <4>2. QED
        BY <1>1, <2>2, <3>1, <4>1 DEF ItemOK
    <3>3. QED
      BY <3>1, <3>2 DEF QueueOK
  <2>3. QED
    BY <2>1, <2>2
<1>8. QED
  BY <1>3, <1>4, <1>5, <1>6, <1>7 DEF ConfirmIInv

LEMMA InitIInv == Init => ConfirmIInv
<1> SUFFICES ASSUME Init PROVE ConfirmIInv
  OBVIOUS
<1>1. /\ Len(role) = 0 /\ role \in Seq(Board) /\ ran \in Seq(Outcome \cup {None})
      /\ Len(ran) = 0
  BY DEF Init
<1>2. Counts
  BY <1>1, ConfirmAssumption DEF Init, Counts
<1>3. /\ Closed \in HostRec /\ Closed.tok = 0 /\ ~Closed.open /\ ~Closed.recalled
  BY DEF Closed, HostRec
<1>4. HostOK
  BY <1>1, <1>3 DEF Init, HostOK
<1>5. /\ cur \in [Board -> Transaction] /\ prev \in [Board -> Cached]
      /\ ingress \in [Board -> Seq(Item)]
      /\ \A b \in Board : cur[b] = Nothing /\ prev[b] = Forgotten /\ ingress[b] = <<>>
  BY <1>2, NothingType, ForgottenOK DEF Init
<1>6. ASSUME NEW b \in Board PROVE SvcOK(b, Svc(b)) /\ QueueOK(b, ingress[b])
  <2>1. TransOK(b, cur[b]) /\ ReplayOK(cur[b], prev[b])
    BY <1>5, NothingType DEF TransOK, ReplayOK
  <2>2. CacheOK(prev[b])
    BY <1>2, <1>5, ForgottenOK
  <2>3. QED
    BY <1>5, <2>1, <2>2, EmptyQueue DEF SvcOK, Svc
<1>7. QED
  BY <1>2, <1>4, <1>5, <1>6 DEF ConfirmIInv

LEMMA NextIInv == ConfirmIInv /\ [Next]_vars => ConfirmIInv'
<1> SUFFICES ASSUME ConfirmIInv, [Next]_vars PROVE ConfirmIInv'
  OBVIOUS
<1>1. ASSUME NEW b \in Board, Task(b, FALSE) \/ Task(b, TRUE) PROVE ConfirmIInv'
  BY <1>1, TaskKeeps
<1>2. ASSUME NEW b \in Board, Lose(b) \/ HostAsk(b) \/ Restart(b) PROVE ConfirmIInv'
  BY <1>2, LoseKeeps, HostAskKeeps, RestartKeeps
<1>3. CASE HostSend
  BY <1>3, HostSendKeeps
<1>4. CASE HostRepeat(0) \/ HostRepeat(3) \/ HostTimeout
  BY <1>4, PageKeeps
<1>5. CASE Disconnect
  BY <1>5, DisconnectKeeps
<1>6. CASE UNCHANGED vars
  BY <1>6 DEF vars, ConfirmIInv, Counts, HostOK, SvcOK, Svc, TransOK, CacheOK, ReplayOK,
              Live, QueueOK, ItemOK
<1>7. QED
  BY <1>1, <1>2, <1>3, <1>4, <1>5, <1>6 DEF Next

(* The service's state is consistent over any number of requests, losses,  *)
(* disconnections and resets: every frame and transaction belongs to a     *)
(* request the page has made, requests travel from host to bridge to peer  *)
(* and answers back, and what is of the present USB session is newer than  *)
(* what the sessions before it asked for.                                  *)
THEOREM ConfirmInvariance == Spec => []ConfirmIInv
  BY InitIInv, NextIInv, PTL DEF Spec

(* ConfirmTypeOK of the service: tokens, phases and steps stay in range,   *)
(* no queue outgrows its capacity.                                         *)
THEOREM ConfirmTypeCorrect == Spec => []ConfirmTypeOK
<1>1. ConfirmIInv => ConfirmTypeOK
  <2> SUFFICES ASSUME ConfirmIInv PROVE ConfirmTypeOK
    OBVIOUS
  <2>1. \A b \in Board : Len(ingress[b]) <= IngressCap
    BY DEF ConfirmIInv, QueueOK
  <2>2. QED
    BY <2>1, ConfirmAssumption DEF ConfirmIInv, ConfirmTypeOK, Counts, HostOK
<1>2. QED
  BY <1>1, ConfirmInvariance, PTL

-----------------------------------------------------------------------------
(* Sessions that have ended. *)

LEMMA EnqueueFields ==
  ASSUME NEW q \in [Board -> Seq(Item)], NEW b \in Board, NEW i
  PROVE  /\ \A a \in Board : a # b => Enqueue(q, b, i)[a] = q[a]
         /\ Enqueue(q, b, i)[b] = q[b] \/ Enqueue(q, b, i)[b] = Append(q[b], i)
  BY DEF Enqueue

LEMMA FinishPrev ==
  ASSUME NEW s \in Service, NEW out
  PROVE  Finish(s, out).prev = s.prev \/ Finish(s, out).prev.tok = s.cur.tok
<1>1. s \in [cur : Transaction, prev : Cached]
  BY DEF Service
<1>2. /\ s.cur.replay => Finish(s, out).prev = s.prev
      /\ ~s.cur.replay
           => Finish(s, out).prev = [tok |-> s.cur.tok, usb |-> s.cur.usb,
                                     epoch |-> s.cur.epoch, out |-> out]
  BY <1>1, FinishFields
<1>3. CASE s.cur.replay
  BY <1>2, <1>3
<1>4. CASE ~s.cur.replay
  <2>1. Finish(s, out).prev = [tok |-> s.cur.tok, usb |-> s.cur.usb,
                               epoch |-> s.cur.epoch, out |-> out]
    BY <1>2, <1>4
  <2>2. QED
    BY <2>1
<1>5. QED
  BY <1>3, <1>4

(* A pass remembers a new outcome only of a request it may still work on.  *)
LEMMA TakenPrev ==
  ASSUME Counts, NEW b \in Board, NEW s, LiveOK(b, s), NEW i, ItemOK(b, i), NEW r,
         Taken(b, s, i, r)
  PROVE  r.prev = s.prev \/ (Owned(b, s.cur) /\ r.prev.tok = s.cur.tok)
<1>1. /\ s \in Service /\ CacheOK(s.prev) /\ s.cur \in Transaction
      /\ s.cur.phase # "IDLE" => Owned(b, s.cur)
  BY LiveParts
<1>2. CASE r = s
  BY <1>2
<1>3. CASE r = Abandon(s)
  <2>1. Abandon(s) = [cur |-> Nothing, prev |-> s.prev]
    BY <1>1, AbandonLive
  <2>2. QED
    BY <1>3, <2>1
<1>4. CASE Starts(b, s, i, r)
  BY <1>4 DEF Starts
<1>5. CASE RepeatsIt(b, s, i, r)
  <2> DEFINE c == Starting("IDLE", i.frame.tok, i.usb, i.epoch, TRUE)
             u == [cur |-> c, prev |-> s.prev]
  <2>1. /\ ItemLive(b, i) /\ i.frame.type \in Asking /\ r = Finish(u, s.prev.out)
    BY <1>5 DEF RepeatsIt, Asking
  <2>2. Owned(b, c) /\ c.replay
    BY <2>1, StartingOwned
  <2> HIDE DEF c
  <2>3. u.cur = c /\ u.prev = s.prev /\ u \in [cur : Transaction, prev : Cached]
    BY <1>1, <2>2 DEF Service, Owned
  <2> HIDE DEF u
  <2>4. Finish(u, s.prev.out).prev = u.prev
    BY <2>2, <2>3, FinishFields
  <2>5. QED
    BY <2>1, <2>3, <2>4
<1>6. CASE Completes(b, s, r)
  BY <1>1, <1>6, FinishPrev DEF Completes
<1>7. CASE Replays(s, r)
  BY <1>1, <1>7, FinishPrev DEF Replays
<1>8. CASE Collects(s, r)
  BY <1>8 DEF Collects
<1>9. CASE Forwards(b, s, r)
  BY <1>9 DEF Forwards
<1>10. CASE HearsStatus(s, i, r)
  BY <1>10 DEF HearsStatus
<1>11. CASE HearsResult(s, i, r)
  BY <1>1, <1>11, FinishPrev DEF HearsResult
<1>12. QED
  BY <1>2, <1>3, <1>4, <1>5, <1>6, <1>7, <1>8, <1>9, <1>10, <1>11, Zenon DEF Taken

LEMMA BeforePrev ==
  ASSUME ConfirmIInv, NEW b \in Board, NEW t, Before(b, t)
  PROVE  t.prev = prev[b] \/ (Owned(b, cur[b]) /\ t.prev.tok = cur[b].tok)
<1>1. Svc(b) \in Service /\ Svc(b).cur = cur[b] /\ Svc(b).prev = prev[b] /\ SvcOK(b, Svc(b))
  BY SvcFields
<1>2. CASE t = Svc(b)
  BY <1>1, <1>2
<1>3. CASE t = Abandon(Svc(b))
  <2>1. Counts /\ CacheOK(Svc(b).prev)
    BY <1>1 DEF ConfirmIInv, SvcOK
  <2>2. Abandon(Svc(b)) = [cur |-> Nothing, prev |-> Svc(b).prev]
    BY <1>1, <2>1, AbandonLive
  <2>3. QED
    BY <1>1, <1>3, <2>2
<1>4. CASE Live(cur[b]) /\ Completes(b, Svc(b), t)
  <2>1. cur[b].phase = "ASSEMBLING" /\ \E out \in Outcome : t = Finish(Svc(b), out)
    BY <1>1, <1>4 DEF Completes
  <2>2. TransOK(b, cur[b])
    BY <1>1 DEF SvcOK
  <2>3. Owned(b, cur[b])
    BY <1>4, <2>1, <2>2, LiveIsOwned
  <2>4. QED
    BY <1>1, <2>1, <2>3, FinishPrev
<1>5. QED
  BY <1>2, <1>3, <1>4 DEF Before

LEMMA PassPrev ==
  ASSUME ConfirmIInv, NEW b \in Board, NEW t, NEW r, Passes(b, t, r)
  PROVE  r.prev = prev[b] \/ \E c : Owned(b, c) /\ r.prev.tok = c.tok
<1>1. Before(b, t) /\ LiveOK(b, t) /\ Counts
  BY DEF Passes, ConfirmIInv
<1>2. t.prev = prev[b] \/ (Owned(b, cur[b]) /\ t.prev.tok = cur[b].tok)
  BY <1>1, BeforePrev
<1>3. r.prev = t.prev \/ (Owned(b, t.cur) /\ r.prev.tok = t.cur.tok)
  <2>1. CASE ingress[b] = <<>>
    BY <2>1 DEF Passes
  <2>2. CASE ingress[b] # <<>>
    <3>1. ItemOK(b, Head(ingress[b])) /\ Taken(b, t, Head(ingress[b]), r)
      BY <2>2, HeadOK DEF Passes
    <3>2. QED
      BY <1>1, <3>1, TakenPrev
  <2>3. QED
    BY <2>1, <2>2
<1>4. QED
  BY <1>2, <1>3

(* What EndedSessionsAreInert says of a step. *)
Inert(t) ==
  /\ role[t] = Bridge => ran'[t] = ran[t]
  /\ Len(ingress'[Peer(Bridge)]) > Len(ingress[Peer(Bridge)])
       => \/ Last(ingress'[Peer(Bridge)]).frame.tok # t
          \/ Last(ingress'[Peer(Bridge)]).frame.type \notin Asking

LEMMA PassInert ==
  ASSUME ConfirmIInv, NEW b \in Board, NEW s, NEW r, Passes(b, s, r),
         NEW t \in 1 .. ended
  PROVE  Inert(t)
<1>1. /\ LiveOK(b, r) /\ ran' = Decided(b, r.prev) /\ Transport(b, r.cur, Rest(b))
  BY DEF Passes
<1>2. /\ Counts /\ t \in 1 .. Len(role) /\ ingress \in [Board -> Seq(Item)]
      /\ ran \in Seq(Outcome \cup {None}) /\ Len(ran) = Len(role) /\ ended \in Nat
  BY DEF ConfirmIInv, Counts
<1>3. Bridge \in Board /\ Peer(Bridge) \in Board /\ Peer(Bridge) # Bridge
      /\ (b # Bridge => b = Peer(Bridge) /\ Peer(b) = Bridge)
  BY ConfirmAssumption DEF Peer, Board
<1>4. role[t] = Bridge => ran'[t] = ran[t]
  <2>1. SUFFICES ASSUME role[t] = Bridge, ran' # ran PROVE ran'[t] = ran[t]
    OBVIOUS
  <2>2. r.prev # prev[b] /\ role[r.prev.tok] = b /\ ran' = [ran EXCEPT ![r.prev.tok] = r.prev.out]
    BY <1>1, <2>1 DEF Decided
  <2>3. PICK c : Owned(b, c) /\ r.prev.tok = c.tok
    BY <2>2, PassPrev
  <2>4. c.tok # t
    <3>1. SUFFICES ASSUME c.tok = t PROVE FALSE
      OBVIOUS
    <3>2. b = Bridge
      BY <2>1, <2>2, <2>3, <3>1
    <3>3. c.tok > ended
      BY <2>3, <3>2 DEF Owned
    <3>4. QED
      BY <1>2, <3>1, <3>3
  <2>5. QED
    BY <1>2, <2>2, <2>3, <2>4
<1>5. Queues(Rest(b)) /\ Rest(b) \in [Board -> Seq(Item)]
      /\ Len(Rest(b)[Peer(Bridge)]) <= Len(ingress[Peer(Bridge)])
  <2>1. /\ Queues(Rest(b)) /\ \A a \in Board : a # b => Rest(b)[a] = ingress[a]
        /\ Rest(b)[b] = IF ingress[b] = <<>> THEN <<>> ELSE Tail(ingress[b])
    BY RestOK
  <2>2. Len(Rest(b)[b]) <= Len(ingress[b])
    BY <1>2, <2>1
  <2>3. QED
    BY <1>2, <1>3, <2>1, <2>2 DEF Queues
<1>6. ASSUME Len(ingress'[Peer(Bridge)]) > Len(ingress[Peer(Bridge)])
      PROVE  \/ Last(ingress'[Peer(Bridge)]).frame.tok # t
             \/ Last(ingress'[Peer(Bridge)]).frame.type \notin Asking
  <2> DEFINE i == [frame |-> Packet(r.cur), usb |-> FALSE, epoch |-> 0]
  <2>1. ingress' # Rest(b)
    BY <1>2, <1>3, <1>5, <1>6
  <2>2. /\ r.cur.phase = "FORWARDING" \/ (r.cur.phase = "REPLYING" /\ ~r.cur.usb)
        /\ ingress' = Enqueue(Rest(b), Peer(b), i)
    BY <1>1, <2>1 DEF Transport
  <2>3. Owned(b, r.cur) /\ TransOK(b, r.cur)
    BY <1>1, <2>2, LiveParts
  <2>4. i.frame = Packet(r.cur)
    OBVIOUS
  <2> HIDE DEF i
  <2>5. Peer(b) = Peer(Bridge) /\ b = Bridge
    <3>1. SUFFICES ASSUME b # Bridge PROVE FALSE
      BY <1>3
    <3>2. ingress'[Peer(Bridge)] = Rest(b)[Peer(Bridge)]
      BY <1>3, <1>5, <2>2, <3>1, EnqueueFields
    <3>3. QED
      BY <1>2, <1>3, <1>5, <1>6, <3>2
  <2>6. ingress'[Peer(Bridge)] = Append(Rest(b)[Peer(Bridge)], i)
    <3>1. \/ ingress'[Peer(Bridge)] = Rest(b)[Peer(Bridge)]
          \/ ingress'[Peer(Bridge)] = Append(Rest(b)[Peer(Bridge)], i)
      <4>1. Rest(b) \in [Board -> Seq(Item)] /\ Peer(Bridge) \in Board
        BY <1>3, <1>5
      <4>2. ingress' = Enqueue(Rest(b), Peer(Bridge), i)
        BY <2>2, <2>5
      <4>3. QED
        BY <4>1, <4>2, EnqueueFields
    <3>2. QED
      BY <1>2, <1>3, <1>5, <1>6, <3>1
  <2>7. Last(ingress'[Peer(Bridge)]) = i
    BY <1>3, <1>5, <2>6 DEF Last
  <2>8. CASE r.cur.phase = "FORWARDING"
    <3>1. Packet(r.cur).tok = r.cur.tok
      BY <2>3, <2>8, PacketFields
    <3>2. r.cur.tok > ended
      BY <2>3, <2>5 DEF Owned
    <3>3. r.cur.tok # t
      BY <1>2, <3>2
    <3>4. QED
      BY <2>4, <2>7, <3>1, <3>3
  <2>9. CASE r.cur.phase = "REPLYING"
    <3>1. ~r.cur.usb /\ r.cur.usb
      BY <2>2, <2>3, <2>5, <2>9 DEF Owned
    <3>2. QED
      BY <3>1
  <2>10. QED
    BY <2>2, <2>8, <2>9
<1>7. QED
  BY <1>4, <1>6 DEF Inert

LEMMA NextInert ==
  ASSUME ConfirmIInv, Next, NEW t \in 1 .. ended
  PROVE  Inert(t)
<1>1. /\ Counts /\ t \in 1 .. Len(role) /\ ingress \in [Board -> Seq(Item)]
      /\ ran \in Seq(Outcome \cup {None}) /\ Len(ran) = Len(role)
  BY DEF ConfirmIInv, Counts
<1>2. Bridge \in Board /\ Peer(Bridge) \in Board /\ Peer(Bridge) # Bridge
  BY ConfirmAssumption DEF Peer, Board
<1>3. ASSUME NEW b \in Board, Task(b, FALSE) \/ Task(b, TRUE) PROVE Inert(t)
  BY <1>3, TaskPasses, PassInert
<1>4. ASSUME UNCHANGED ran, Len(ingress'[Peer(Bridge)]) <= Len(ingress[Peer(Bridge)])
      PROVE  Inert(t)
  <2>1. Len(ingress'[Peer(Bridge)]) <= Len(ingress[Peer(Bridge)])
    BY <1>4
  <2>2. ~(Len(ingress'[Peer(Bridge)]) > Len(ingress[Peer(Bridge)]))
    BY <1>1, <1>2, <2>1
  <2>3. QED
    BY <1>4, <2>2 DEF Inert
<1>5. ASSUME NEW b \in Board, Lose(b) PROVE Inert(t)
  <2>1. ingress[b] # <<>> /\ ingress' = [ingress EXCEPT ![b] = Tail(@)] /\ UNCHANGED ran
    BY <1>5 DEF Lose
  <2>2. Len(ingress'[Peer(Bridge)]) <= Len(ingress[Peer(Bridge)])
    BY <1>1, <1>2, <2>1
  <2>3. QED
    BY <1>4, <2>1, <2>2
<1>6. ASSUME NEW b \in Board, HostAsk(b) PROVE Inert(t)
  <2>1. ran' = Append(ran, None) /\ UNCHANGED ingress
    BY <1>6 DEF HostAsk
  <2>2. ran'[t] = ran[t]
    BY <1>1, <2>1
  <2>3. ~(Len(ingress'[Peer(Bridge)]) > Len(ingress[Peer(Bridge)]))
    BY <1>1, <1>2, <2>1
  <2>4. QED
    BY <2>2, <2>3 DEF Inert
<1>7. ASSUME NEW b \in Board, Restart(b) PROVE Inert(t)
  <2>1. ingress' = [ingress EXCEPT ![b] = <<>>] /\ UNCHANGED ran
    BY <1>7 DEF Restart
  <2>2. Len(ingress'[Peer(Bridge)]) <= Len(ingress[Peer(Bridge)])
    BY <1>1, <1>2, <2>1
  <2>3. QED
    BY <1>4, <2>1, <2>2
<1>8. CASE HostSend
  <2>1. UNCHANGED ran /\ \E i : ingress' = Enqueue(ingress, Bridge, i)
    BY <1>8 DEF HostSend
  <2>2. ingress'[Peer(Bridge)] = ingress[Peer(Bridge)]
    BY <1>1, <1>2, <2>1, EnqueueFields
  <2>3. QED
    BY <1>1, <1>2, <1>4, <2>1, <2>2
<1>9. CASE HostRepeat(0) \/ HostRepeat(3) \/ HostTimeout \/ Disconnect
  <2>1. UNCHANGED <<ran, ingress>>
    BY <1>9 DEF HostRepeat, HostTimeout, Disconnect
  <2>2. QED
    BY <1>1, <1>2, <1>4, <2>1
<1>10. QED
  BY <1>3, <1>5, <1>6, <1>7, <1>8, <1>9 DEF Next

(* EndedSessionsAreInert of the service: config_confirm_usb_disconnect and *)
(* the epoch in every packet and transaction see to it that the bridge     *)
(* neither decides nor forwards anything that a session asked for which    *)
(* has ended, at any time, whatever is still queued or under way.          *)
THEOREM EndedSessionsStayInert == Spec => EndedSessionsAreInert
<1>1. ConfirmIInv /\ [Next]_vars => [\A t \in 1 .. ended : Inert(t)]_vars
  BY NextInert
<1>2. [][\A t \in 1 .. ended : Inert(t)]_vars => EndedSessionsAreInert
  BY DEF EndedSessionsAreInert, Inert
<1>3. QED
  BY <1>1, <1>2, ConfirmInvariance, PTL DEF Spec

-----------------------------------------------------------------------------
(* A call is decided once: what a pass makes of a request. *)

LEMMA OutcomeNotNone ==
  ASSUME NEW out \in Outcome
  PROVE  out # None
  BY ConfirmAssumption

LEMMA FinishSays ==
  ASSUME NEW s \in Service, NEW out
  PROVE  LET r == Finish(s, out)
         IN  /\ r.cur.phase = "REPLYING" /\ r.cur.tok = s.cur.tok
             /\ r.cur.status = s.cur.status /\ r.cur.out = out
             /\ s.cur.replay => r.prev = s.prev
             /\ ~s.cur.replay => r.prev.tok = s.cur.tok /\ r.prev.out = out
<1> DEFINE w == With(s.cur, "REPLYING", s.cur.parts, 0, s.cur.status, out)
           p == [tok |-> s.cur.tok, usb |-> s.cur.usb, epoch |-> s.cur.epoch, out |-> out]
<1>1. s \in [cur : Transaction, prev : Cached]
  BY DEF Service
<1>2. /\ Finish(s, out).cur = w
      /\ s.cur.replay => Finish(s, out).prev = s.prev
      /\ ~s.cur.replay => Finish(s, out).prev = p
  BY <1>1, FinishFields
<1>3. w.phase = "REPLYING" /\ w.tok = s.cur.tok /\ w.status = s.cur.status /\ w.out = out
  BY WithFields
<1>4. p.tok = s.cur.tok /\ p.out = out
  OBVIOUS
<1> HIDE DEF w, p
<1>5. QED
  BY <1>2, <1>3, <1>4

LEMMA FinishTrue ==
  ASSUME NEW s \in Service, NEW out, NEW R,
         s.prev.tok # 0 /\ s.cur.replay => R[s.prev.tok] = s.prev.out,
         R[s.cur.tok] = out,
         s.cur.status # None => R[s.cur.tok] # None /\ R[s.cur.tok].status = s.cur.status
  PROVE  SvcTrue(Finish(s, out), R)
<1> DEFINE r == Finish(s, out)
<1>1. /\ r.cur.phase = "REPLYING" /\ r.cur.tok = s.cur.tok
      /\ r.cur.status = s.cur.status /\ r.cur.out = out
      /\ s.cur.replay => r.prev = s.prev
      /\ ~s.cur.replay => r.prev.tok = s.cur.tok /\ r.prev.out = out
  BY FinishSays
<1> HIDE DEF r
<1>2. SvcTrue(r, R)
  BY <1>1 DEF SvcTrue
<1>3. QED
  BY <1>2 DEF r

(* The board a request is for decides it by finishing it. *)
Settles(b, u, r) ==
  /\ Begun(cur[b], u) /\ role[u] = b /\ u \in 1 .. Len(role) /\ ran[u] = None
  /\ r.cur.phase = "IDLE" \/ (r.cur.phase = "REPLYING" /\ r.cur.tok = u)
  /\ \E out \in Outcome : ran' = [ran EXCEPT ![u] = out]

LEMMA CompletesCall ==
  ASSUME ConfirmIInv, NEW b \in Board, NEW r, Completes(b, Svc(b), r),
         SvcTrue(Svc(b), ran), cur[b].tok \in 1 .. Len(role), ran[cur[b].tok] = None,
         ran' = Decided(b, r.prev)
  PROVE  /\ SvcTrue(r, ran') /\ Settles(b, cur[b].tok, r)
         /\ r.cur.phase = "REPLYING"
<1>1. Svc(b) \in Service /\ Svc(b).cur = cur[b] /\ Svc(b).prev = prev[b]
  BY SvcFields
<1>2. PICK out \in Outcome : r = Finish(Svc(b), out)
  BY DEF Completes
<1>3. cur[b].phase = "ASSEMBLING" /\ role[cur[b].tok] = b
  BY <1>1 DEF Completes
<1>4. ~cur[b].replay /\ cur[b].status = None
      /\ (prev[b].tok # 0 => ran[prev[b].tok] = prev[b].out)
  BY <1>1, <1>3 DEF SvcTrue
<1>5. /\ r.cur.phase = "REPLYING" /\ r.cur.tok = cur[b].tok
      /\ r.prev.tok = cur[b].tok /\ r.prev.out = out
  BY <1>1, <1>2, <1>4, FinishSays
<1>6. out # None
  BY OutcomeNotNone
<1>7. r.prev # prev[b]
  BY <1>4, <1>5, <1>6
<1>8. ran' = [ran EXCEPT ![cur[b].tok] = out]
  BY <1>3, <1>5, <1>7 DEF Decided
<1>9. ran'[cur[b].tok] = out
  BY <1>8 DEF ConfirmIInv, Counts
<1>10. SvcTrue(r, ran')
  BY <1>1, <1>2, <1>4, <1>9, FinishTrue
<1>11. Begun(cur[b], cur[b].tok)
  BY <1>3 DEF Begun
<1>12. Settles(b, cur[b].tok, r)
  BY <1>3, <1>5, <1>8, <1>11 DEF Settles
<1>13. QED
  BY <1>5, <1>10, <1>12

LEMMA AbandonTrue ==
  ASSUME Counts, NEW b \in Board, NEW s \in Service, CacheOK(s.prev), NEW R, SvcTrue(s, R)
  PROVE  /\ SvcTrue(Abandon(s), R) /\ Abandon(s).prev = s.prev
         /\ Abandon(s).cur.phase = "IDLE"
<1>1. Abandon(s) = [cur |-> Nothing, prev |-> s.prev]
  BY AbandonLive
<1>2. Abandon(s).cur = Nothing /\ Abandon(s).prev = s.prev
  BY <1>1
<1>3. Nothing.phase = "IDLE"
  BY NothingType
<1>4. QED
  BY <1>2, <1>3 DEF SvcTrue

(* What a pass that decides nothing makes of a packet. *)
Listens(b, s, i, r) ==
  /\ SvcTrue(r, ran)
  /\ r.prev = s.prev \/ role[r.prev.tok] # b
  /\ \A u : Begun(r.cur, u) => Begun(s.cur, u) \/ IsMeta(i, u)

LEMMA TakenCall ==
  ASSUME Counts, NEW b \in Board, NEW s, LiveOK(b, s), SvcTrue(s, ran),
         NEW i, ItemOK(b, i), FrameTrue(i.frame, ran),
         \A u : IsMeta(i, u) => ran[u] = None,
         NEW r, Taken(b, s, i, r), ~Completes(b, s, r)
  PROVE  Listens(b, s, i, r)
<1>1. /\ s \in Service /\ CacheOK(s.prev) /\ TransOK(b, s.cur) /\ s.cur \in Transaction
      /\ s.cur.phase # "IDLE" => Owned(b, s.cur) /\ (s.cur.replay => s.prev.tok = s.cur.tok)
  BY LiveParts
<1>2. /\ s.prev.tok # 0 => ran[s.prev.tok] = s.prev.out
      /\ s.cur.phase # "IDLE" /\ s.cur.status # None
           => ran[s.cur.tok] # None /\ ran[s.cur.tok].status = s.cur.status
      /\ s.cur.phase = "ASSEMBLING" => ~s.cur.replay
  BY DEF SvcTrue
<1>3. i.frame.tok \in 1 .. Len(role) /\ i.frame \in Frame
  BY DEF ItemOK, Item
<1>4. CASE r = s
  BY <1>4 DEF Listens
<1>5. CASE r = Abandon(s)
  BY <1>1, <1>5, AbandonTrue DEF Listens, Begun
<1>6. CASE Starts(b, s, i, r)
  <2> DEFINE c == Starting("ASSEMBLING", i.frame.tok, i.usb, i.epoch, Remembers(s, i))
  <2>1. r = [cur |-> c, prev |-> s.prev] /\ IsMeta(i, i.frame.tok)
    BY <1>6 DEF Starts, IsMeta
  <2>2. ~Remembers(s, i)
    <3>1. SUFFICES ASSUME Remembers(s, i) PROVE FALSE
      OBVIOUS
    <3>2. s.prev.tok = i.frame.tok /\ s.prev.tok # 0
      BY <1>3, <3>1 DEF Remembers
    <3>3. ran[i.frame.tok] = s.prev.out /\ s.prev.out \in Outcome
      BY <1>1, <1>2, <3>2 DEF CacheOK
    <3>4. QED
      BY <2>1, <3>3, OutcomeNotNone
  <2>3. /\ c.phase = "ASSEMBLING" /\ c.tok = i.frame.tok /\ c.status = None
        /\ c.replay = Remembers(s, i)
    BY DEF Starting
  <2> HIDE DEF c
  <2>4. r.cur = c /\ r.prev = s.prev
    BY <2>1
  <2>5. SvcTrue(r, ran)
    BY <1>2, <2>2, <2>3, <2>4 DEF SvcTrue
  <2>6. \A u : Begun(c, u) => u = i.frame.tok
    BY <2>3 DEF Begun
  <2>7. QED
    BY <2>1, <2>4, <2>5, <2>6 DEF Listens
<1>7. CASE RepeatsIt(b, s, i, r)
  <2> DEFINE c == Starting("IDLE", i.frame.tok, i.usb, i.epoch, TRUE)
             v == [cur |-> c, prev |-> s.prev]
  <2>1. /\ ItemLive(b, i) /\ i.frame.type \in Asking
        /\ r = Finish(v, s.prev.out)
    BY <1>7 DEF RepeatsIt, Asking
  <2>2. Owned(b, c) /\ c.tok = i.frame.tok /\ c.replay
    BY <2>1, StartingOwned
  <2>3. c.status = None
    BY DEF Starting
  <2>4. s.prev.tok = i.frame.tok /\ s.prev.tok # 0
    BY <1>3, <1>7 DEF RepeatsIt, Remembers
  <2> HIDE DEF c
  <2>5. v.cur = c /\ v.prev = s.prev /\ v \in Service
    BY <1>1, <2>2 DEF Service, Owned
  <2> HIDE DEF v
  <2>6. SvcTrue(Finish(v, s.prev.out), ran)
    BY <1>2, <2>2, <2>3, <2>4, <2>5, FinishTrue
  <2>7. r.prev = s.prev /\ r.cur.phase = "REPLYING"
    BY <2>1, <2>2, <2>5, FinishSays
  <2>8. QED
    BY <2>1, <2>6, <2>7 DEF Listens, Begun
<1>8. CASE Replays(s, r)
  BY <1>2, <1>8 DEF Replays
<1>9. CASE Collects(s, r)
  <2>1. PICK parts \in SUBSET Parts :
          r = [cur |-> With(s.cur, "ASSEMBLING", parts, s.cur.step, s.cur.status, s.cur.out),
               prev |-> s.prev]
    BY <1>9 DEF Collects
  <2>2. s.cur.phase = "ASSEMBLING"
    BY <1>9 DEF Collects
  <2> DEFINE w == With(s.cur, "ASSEMBLING", parts, s.cur.step, s.cur.status, s.cur.out)
  <2>3. w.phase = "ASSEMBLING" /\ w.tok = s.cur.tok /\ w.replay = s.cur.replay
        /\ w.status = s.cur.status
    BY WithFields
  <2>4. r.cur = w /\ r.prev = s.prev
    BY <2>1
  <2> HIDE DEF w
  <2>5. SvcTrue(r, ran)
    BY <1>2, <2>2, <2>3, <2>4 DEF SvcTrue
  <2>6. QED
    BY <2>2, <2>3, <2>4, <2>5 DEF Listens, Begun
<1>10. CASE Forwards(b, s, r)
  <2> DEFINE w == With(s.cur, "FORWARDING", s.cur.parts, 0, s.cur.status, s.cur.out)
  <2>1. s.cur.phase = "ASSEMBLING" /\ r = [cur |-> w, prev |-> s.prev]
    BY <1>10 DEF Forwards
  <2>2. w.phase = "FORWARDING" /\ w.tok = s.cur.tok /\ w.status = s.cur.status
    BY WithFields
  <2>3. r.cur = w /\ r.prev = s.prev
    BY <2>1
  <2> HIDE DEF w
  <2>4. SvcTrue(r, ran)
    BY <1>2, <2>1, <2>2, <2>3 DEF SvcTrue
  <2>5. QED
    BY <2>1, <2>2, <2>3, <2>4 DEF Listens, Begun
<1>11. CASE HearsStatus(s, i, r)
  <2> DEFINE w == With(s.cur, "WAITING", s.cur.parts, s.cur.step, i.frame.status, s.cur.out)
  <2>1. /\ s.cur.phase = "WAITING" /\ i.frame.type = "ACK_META" /\ i.frame.tok = s.cur.tok
        /\ r = [cur |-> w, prev |-> s.prev]
    BY <1>11 DEF HearsStatus
  <2>2. w.phase = "WAITING" /\ w.tok = s.cur.tok /\ w.status = i.frame.status
    BY WithFields
  <2>3. r.cur = w /\ r.prev = s.prev
    BY <2>1
  <2> HIDE DEF w
  <2>4. ran[s.cur.tok] # None /\ ran[s.cur.tok].status = i.frame.status
    BY <2>1 DEF FrameTrue
  <2>5. SvcTrue(r, ran)
    BY <1>2, <2>2, <2>3, <2>4 DEF SvcTrue
  <2>6. QED
    BY <2>2, <2>3, <2>5 DEF Listens, Begun
<1>12. CASE HearsResult(s, i, r)
  <2> DEFINE out == [status |-> s.cur.status, result |-> i.frame.result]
  <2>1. /\ s.cur.phase = "WAITING" /\ i.frame.type = "ACK_VALUE" /\ i.frame.tok = s.cur.tok
        /\ s.cur.status # None /\ r = Finish(s, out)
    BY <1>12 DEF HearsResult
  <2>2. /\ ran[s.cur.tok] # None /\ ran[s.cur.tok].status = s.cur.status
        /\ ran[s.cur.tok].result = i.frame.result
    BY <1>2, <2>1 DEF FrameTrue
  <2>3. s.cur.tok \in 1 .. Len(role) /\ role[s.cur.tok] # b
    BY <1>1, <2>1 DEF TransOK
  <2>4. ran[s.cur.tok] \in Outcome
    BY <2>2, <2>3 DEF Counts
  <2>5. ran[s.cur.tok] = out
    BY <2>2, <2>4 DEF Outcome
  <2> HIDE DEF out
  <2>6. SvcTrue(Finish(s, out), ran)
    BY <1>1, <1>2, <2>2, <2>5, FinishTrue
  <2>7. /\ Finish(s, out).prev = s.prev \/ Finish(s, out).prev.tok = s.cur.tok
        /\ Finish(s, out).cur.phase = "REPLYING"
    BY <1>1, FinishSays
  <2>8. QED
    BY <2>1, <2>3, <2>6, <2>7 DEF Listens, Begun
<1>13. QED
  BY <1>4, <1>5, <1>6, <1>7, <1>8, <1>9, <1>10, <1>11, <1>12, Zenon DEF Taken

(* The packet a pass takes is a META of u. *)
Takes(b, u) == ingress[b] # <<>> /\ IsMeta(Head(ingress[b]), u)

LEMMA TakesMeta ==
  ASSUME ConfirmIInv, NEW b \in Board, NEW u, Takes(b, u)
  PROVE  MetaIn(ingress[b], u) /\ u \in 1 .. Len(role)
<1>1. ItemOK(b, Head(ingress[b]))
  BY HeadOK DEF Takes
<1>2. ingress[b] \in Seq(Item) /\ Len(ingress[b]) \in Nat \ {0}
      /\ Head(ingress[b]) = ingress[b][1]
  BY DEF ConfirmIInv, Takes
<1>3. QED
  BY <1>1, <1>2 DEF Takes, MetaIn, IsMeta, ItemOK

LEMMA BegunFresh ==
  ASSUME CallIInv, NEW b \in Board, NEW u \in 1 .. Len(role),
         Begun(cur[b], u) \/ MetaIn(ingress[b], u)
  PROVE  ran[u] = None
<1>1. FreshIn(host, ingress, cur, ran, u)
  BY DEF CallIInv, Fresh
<1>2. b = Bridge \/ b = Far
  BY ConfirmAssumption DEF Far, Peer, Board
<1>3. QED
  BY <1>1, <1>2 DEF FreshIn

LEMMA PassCall ==
  ASSUME CallIInv, NEW b \in Board, NEW t, NEW r, Passes(b, t, r)
  PROVE  /\ SvcTrue(r, ran')
         /\ \A u : Begun(r.cur, u) => Begun(cur[b], u) \/ Takes(b, u)
         /\ ran' = ran \/ \E u : Settles(b, u, r)
<1>1. ConfirmIInv /\ Counts /\ SvcTrue(Svc(b), ran)
      /\ \A k \in 1 .. Len(ingress[b]) : FrameTrue(ingress[b][k].frame, ran)
  BY DEF CallIInv, ConfirmIInv, Truth, Honest
<1>2. Svc(b) \in Service /\ Svc(b).cur = cur[b] /\ Svc(b).prev = prev[b] /\ SvcOK(b, Svc(b))
  BY <1>1, SvcFields
<1>3. Before(b, t) /\ LiveOK(b, t) /\ LiveOK(b, r) /\ ran' = Decided(b, r.prev)
  BY DEF Passes
<1>4. cur[b].phase = "ASSEMBLING" => cur[b].tok \in 1 .. Len(role) /\ ran[cur[b].tok] = None
  <2>1. SUFFICES ASSUME cur[b].phase = "ASSEMBLING"
                 PROVE  cur[b].tok \in 1 .. Len(role) /\ ran[cur[b].tok] = None
    OBVIOUS
  <2>2. cur[b].tok \in 1 .. Len(role)
    BY <1>2, <2>1 DEF SvcOK, TransOK
  <2>3. Begun(cur[b], cur[b].tok)
    BY <2>1 DEF Begun
  <2>4. QED
    BY <2>2, <2>3, BegunFresh
<1>5. CASE Completes(b, Svc(b), t)
  <2>1. t.cur.phase = "REPLYING" /\ t \in Service /\ CacheOK(t.prev)
    <3>1. PICK out \in Outcome : t = Finish(Svc(b), out)
      BY <1>5 DEF Completes
    <3>2. QED
      BY <1>2, <1>3, <3>1, FinishSays, LiveParts
  <2>2. r = t \/ r = Abandon(t)
    BY <2>1, Zenon DEF Passes, Taken, Starts, RepeatsIt, Completes, Replays, Collects, Forwards,
                       HearsStatus, HearsResult
  <2>3. r.prev = t.prev
    <3>1. Abandon(t) = [cur |-> Nothing, prev |-> t.prev]
      BY <1>1, <2>1, AbandonLive
    <3>2. QED
      BY <2>2, <3>1
  <2>4. cur[b].phase = "ASSEMBLING"
    BY <1>2, <1>5 DEF Completes
  <2>5. SvcTrue(t, ran') /\ Settles(b, cur[b].tok, t)
    BY <1>1, <1>3, <1>4, <1>5, <2>3, <2>4, CompletesCall
  <2>6. CASE r = t
    BY <2>1, <2>5, <2>6 DEF Begun
  <2>7. CASE r = Abandon(t)
    <3>1. SvcTrue(r, ran') /\ r.cur.phase = "IDLE"
      BY <1>1, <2>1, <2>5, <2>7, AbandonTrue
    <3>2. Settles(b, cur[b].tok, r)
      BY <2>5, <3>1 DEF Settles
    <3>3. QED
      BY <3>1, <3>2 DEF Begun
  <2>8. QED
    BY <2>2, <2>6, <2>7
<1>6. CASE t = Svc(b) \/ t = Abandon(Svc(b))
  <2>1. /\ SvcTrue(t, ran) /\ t.prev = prev[b]
        /\ t.cur = cur[b] \/ t.cur.phase = "IDLE"
    <3>1. CASE t = Svc(b)
      BY <1>1, <1>2, <3>1
    <3>2. CASE t = Abandon(Svc(b))
      <4>1. CacheOK(Svc(b).prev)
        BY <1>2 DEF SvcOK
      <4>2. QED
        BY <1>1, <1>2, <3>2, <4>1, AbandonTrue
    <3>3. QED
      BY <1>6, <3>1, <3>2
  <2>2. \A u : Begun(t.cur, u) => Begun(cur[b], u)
    BY <2>1 DEF Begun
  <2>3. CASE ingress[b] = <<>>
    <3>1. r = t
      BY <2>3 DEF Passes
    <3>2. ran' = ran
      BY <1>3, <2>1, <3>1 DEF Decided
    <3>3. QED
      BY <2>1, <2>2, <3>1, <3>2
  <2>4. CASE ingress[b] # <<>> /\ Completes(b, t, r)
    <3>1. t.cur.phase = "ASSEMBLING"
      BY <2>4 DEF Completes
    <3>2. t = Svc(b)
      <4>1. SUFFICES ASSUME t = Abandon(Svc(b)) PROVE FALSE
        BY <1>6
      <4>2. CacheOK(Svc(b).prev)
        BY <1>2 DEF SvcOK
      <4>3. t.cur.phase = "IDLE"
        BY <1>1, <1>2, <4>1, <4>2, AbandonTrue
      <4>4. QED
        BY <3>1, <4>3
    <3>3. cur[b].phase = "ASSEMBLING" /\ Completes(b, Svc(b), r)
      BY <1>2, <2>4, <3>1, <3>2
    <3>4. SvcTrue(r, ran') /\ Settles(b, cur[b].tok, r) /\ r.cur.phase = "REPLYING"
      BY <1>1, <1>3, <1>4, <3>3, CompletesCall
    <3>5. QED
      BY <3>4 DEF Begun
  <2>5. CASE ingress[b] # <<>> /\ ~Completes(b, t, r)
    <3> DEFINE i == Head(ingress[b])
    <3>1. ItemOK(b, i) /\ Taken(b, t, i, r) /\ i = ingress[b][1]
          /\ Len(ingress[b]) \in Nat \ {0}
      BY <1>1, <2>5, HeadOK DEF Passes, ConfirmIInv
    <3>2. FrameTrue(i.frame, ran)
      BY <1>1, <3>1
    <3>3. \A u : IsMeta(i, u) => ran[u] = None
      <4>1. SUFFICES ASSUME NEW u, IsMeta(i, u) PROVE ran[u] = None
        OBVIOUS
      <4>2. Takes(b, u)
        BY <2>5, <4>1 DEF Takes
      <4>3. QED
        BY <1>1, <4>2, TakesMeta, BegunFresh
    <3> HIDE DEF i
    <3>4. Listens(b, t, i, r)
      BY <1>1, <1>3, <2>1, <2>5, <3>1, <3>2, <3>3, TakenCall
    <3>5. ran' = ran
      BY <1>3, <2>1, <3>4 DEF Listens, Decided
    <3>6. QED
      BY <2>2, <2>5, <3>4, <3>5 DEF Listens, Takes, i
  <2>6. QED
    BY <2>3, <2>4, <2>5
<1>7. QED
  BY <1>3, <1>5, <1>6 DEF Before

LEMMA SentTrue ==
  ASSUME NEW c \in Transaction, c.phase \in {"FORWARDING", "REPLYING"}, NEW p, NEW R,
         SvcTrue([cur |-> c, prev |-> p], R)
  PROVE  /\ SvcTrue([cur |-> Sent(c), prev |-> p], R)
         /\ \A u : ~Begun(Sent(c), u)
<1> DEFINE w == Sent(c)
<1>1. \/ w = Nothing
      \/ /\ w.tok = c.tok /\ w.status = c.status /\ w.out = c.out
         /\ \/ c.phase = "FORWARDING" /\ w.phase \in {"FORWARDING", "WAITING"}
            \/ c.phase = "REPLYING" /\ w.phase = "REPLYING"
         /\ w.phase = "FORWARDING" => w.step # 0
  BY SentFields
<1>2. Nothing.phase = "IDLE"
  BY NothingType
<1> HIDE DEF w
<1>3. SvcTrue([cur |-> w, prev |-> p], R)
  BY <1>1, <1>2 DEF SvcTrue
<1>4. \A u : ~Begun(w, u)
  BY <1>1, <1>2 DEF Begun
<1>5. QED
  BY <1>3, <1>4 DEF w

(* Where a pass leaves its packets. *)
Sends(b, r) ==
  \/ /\ r.cur.phase \notin {"FORWARDING", "REPLYING"} /\ cur'[b] = r.cur
     /\ ingress' = Rest(b) /\ host' = host
  \/ /\ r.cur.phase = "REPLYING" /\ cur'[b] = Sent(r.cur)
     /\ ingress' = Rest(b) /\ Hears(host, Packet(r.cur), host')
  \/ /\ \/ r.cur.phase = "FORWARDING" /\ b = Bridge
        \/ r.cur.phase = "REPLYING" /\ b = Far
     /\ cur'[b] = Sent(r.cur) /\ host' = host /\ ingress'[b] = Rest(b)[b]
     /\ \/ ingress'[Peer(b)] = ingress[Peer(b)]
        \/ ingress'[Peer(b)]
             = Append(ingress[Peer(b)], [frame |-> Packet(r.cur), usb |-> FALSE, epoch |-> 0])

LEMMA PassSends ==
  ASSUME ConfirmIInv, NEW b \in Board, NEW t, NEW r, Passes(b, t, r)
  PROVE  /\ Sends(b, r) /\ prev'[b] = r.prev
         /\ \A a \in Board : a # b => cur'[a] = cur[a] /\ prev'[a] = prev[a]
<1>1. /\ LiveOK(b, r) /\ prev' = [prev EXCEPT ![b] = r.prev]
      /\ Transport(b, r.cur, Rest(b))
  BY DEF Passes
<1>2. cur \in [Board -> Transaction] /\ prev \in [Board -> Cached]
  BY DEF ConfirmIInv
<1>3. prev'[b] = r.prev /\ \A a \in Board : a # b => prev'[a] = prev[a]
  BY <1>1, <1>2
<1>4. \A a \in Board : a # b => cur'[a] = cur[a]
  BY <1>1, <1>2 DEF Transport
<1>5. r.cur.phase # "IDLE" => (r.cur.usb <=> b = Bridge)
  BY <1>1, LiveParts DEF TransOK
<1>6. /\ Rest(b) \in [Board -> Seq(Item)] /\ Peer(b) \in Board /\ Peer(b) # b
      /\ Rest(b)[Peer(b)] = ingress[Peer(b)] /\ (b # Bridge => b = Far)
  BY RestOK, ConfirmAssumption DEF Queues, Peer, Board, Far
<1>7. CASE r.cur.phase \notin {"FORWARDING", "REPLYING"}
  <2>1. cur'[b] = r.cur /\ ingress' = Rest(b) /\ host' = host
    BY <1>1, <1>2, <1>7 DEF Transport
  <2>2. QED
    BY <1>3, <1>4, <1>7, <2>1 DEF Sends
<1>8. CASE r.cur.phase = "REPLYING" /\ r.cur.usb
  <2>1. cur'[b] = Sent(r.cur) /\ ingress' = Rest(b) /\ host' = Heard(host, Packet(r.cur))
    BY <1>1, <1>2, <1>8 DEF Transport
  <2>2. Hears(host, Packet(r.cur), host')
    BY <2>1, HeardHears
  <2>3. QED
    BY <1>3, <1>4, <1>8, <2>1, <2>2 DEF Sends
<1>9. CASE r.cur.phase = "FORWARDING" \/ (r.cur.phase = "REPLYING" /\ ~r.cur.usb)
  <2> DEFINE i == [frame |-> Packet(r.cur), usb |-> FALSE, epoch |-> 0]
  <2>1. cur'[b] = Sent(r.cur) /\ ingress' = Enqueue(Rest(b), Peer(b), i) /\ host' = host
    BY <1>1, <1>2, <1>9 DEF Transport
  <2>2. /\ r.cur.phase = "FORWARDING" => b = Bridge
        /\ r.cur.phase = "REPLYING" => b = Far
    <3>1. r.cur.phase = "FORWARDING" => b = Bridge
      BY <1>1, LiveParts DEF TransOK
    <3>2. QED
      BY <1>5, <1>6, <1>9, <3>1
  <2> HIDE DEF i
  <2>3. /\ ingress'[b] = Rest(b)[b]
        /\ \/ ingress'[Peer(b)] = ingress[Peer(b)]
           \/ ingress'[Peer(b)] = Append(ingress[Peer(b)], i)
    BY <1>6, <2>1, EnqueueFields
  <2>4. QED
    BY <1>3, <1>4, <1>9, <2>1, <2>2, <2>3, Zenon DEF Sends, i
<1>10. QED
  BY <1>7, <1>8, <1>9

-----------------------------------------------------------------------------
(* Queues and META frames. *)

LEMMA MetaTail ==
  ASSUME NEW q \in Seq(Item), q # <<>>, NEW u
  PROVE  /\ MetaIn(Tail(q), u) => MetaIn(q, u)
         /\ Single(q, u) => Single(Tail(q), u)
         /\ Single(q, u) /\ IsMeta(Head(q), u) => ~MetaIn(Tail(q), u)
<1>1. /\ Len(q) \in Nat \ {0} /\ Len(Tail(q)) = Len(q) - 1 /\ Head(q) = q[1]
      /\ \A k \in 1 .. Len(Tail(q)) : Tail(q)[k] = q[k + 1]
  OBVIOUS
<1>2. \A k \in 1 .. Len(Tail(q)) : k + 1 \in 1 .. Len(q) /\ k + 1 # 1
  BY <1>1
<1>3. 1 \in 1 .. Len(q)
  BY <1>1
<1>4. MetaIn(Tail(q), u) => MetaIn(q, u)
  BY <1>1, <1>2 DEF MetaIn
<1>5. Single(q, u) => Single(Tail(q), u)
  <2>1. SUFFICES ASSUME Single(q, u), NEW j \in 1 .. Len(Tail(q)), NEW k \in 1 .. Len(Tail(q)),
                        IsMeta(Tail(q)[j], u), IsMeta(Tail(q)[k], u)
                 PROVE  j = k
    BY DEF Single
  <2>2. j + 1 = k + 1
    BY <1>1, <1>2, <2>1 DEF Single
  <2>3. QED
    BY <2>2
<1>6. Single(q, u) /\ IsMeta(Head(q), u) => ~MetaIn(Tail(q), u)
  <2>1. SUFFICES ASSUME Single(q, u), IsMeta(Head(q), u), NEW k \in 1 .. Len(Tail(q)),
                        IsMeta(Tail(q)[k], u)
                 PROVE  FALSE
    BY DEF MetaIn
  <2>2. 1 = k + 1
    BY <1>1, <1>2, <1>3, <2>1 DEF Single
  <2>3. QED
    BY <1>2, <2>2
<1>7. QED
  BY <1>4, <1>5, <1>6

LEMMA MetaAppend ==
  ASSUME NEW q \in Seq(Item), NEW i \in Item, NEW u
  PROVE  /\ MetaIn(Append(q, i), u) => MetaIn(q, u) \/ IsMeta(i, u)
         /\ Single(q, u) /\ ~(MetaIn(q, u) /\ IsMeta(i, u)) => Single(Append(q, i), u)
<1> DEFINE a == Append(q, i)
<1>1. /\ Len(q) \in Nat /\ Len(a) = Len(q) + 1 /\ a[Len(q) + 1] = i
      /\ \A k \in 1 .. Len(q) : a[k] = q[k]
  OBVIOUS
<1>2. \A k \in 1 .. Len(a) : k \in 1 .. Len(q) \/ k = Len(q) + 1
  BY <1>1
<1> HIDE DEF a
<1>3. MetaIn(a, u) => MetaIn(q, u) \/ IsMeta(i, u)
  BY <1>1, <1>2 DEF MetaIn
<1>4. ASSUME Single(q, u), ~(MetaIn(q, u) /\ IsMeta(i, u)) PROVE Single(a, u)
  <2>1. SUFFICES ASSUME NEW j \in 1 .. Len(a), NEW k \in 1 .. Len(a),
                        IsMeta(a[j], u), IsMeta(a[k], u)
                 PROVE  j = k
    BY DEF Single
  <2>2. CASE j \in 1 .. Len(q) /\ k \in 1 .. Len(q)
    <3>1. IsMeta(q[j], u) /\ IsMeta(q[k], u)
      BY <1>1, <2>1, <2>2
    <3>2. QED
      BY <1>4, <2>2, <3>1 DEF Single
  <2>3. CASE j \in 1 .. Len(q) /\ k = Len(q) + 1
    <3>1. IsMeta(q[j], u) /\ IsMeta(i, u)
      BY <1>1, <2>1, <2>3
    <3>2. QED
      BY <1>4, <2>3, <3>1 DEF MetaIn
  <2>4. CASE j = Len(q) + 1 /\ k \in 1 .. Len(q)
    <3>1. IsMeta(q[k], u) /\ IsMeta(i, u)
      BY <1>1, <2>1, <2>4
    <3>2. QED
      BY <1>4, <2>4, <3>1 DEF MetaIn
  <2>5. QED
    BY <1>2, <2>2, <2>3, <2>4
<1>5. QED
  BY <1>3, <1>4 DEF a

(* What is left of a queue. *)
LEMMA MetaRest ==
  ASSUME ConfirmIInv, NEW b \in Board, NEW u
  PROVE  /\ MetaIn(Rest(b)[b], u) => MetaIn(ingress[b], u)
         /\ Single(ingress[b], u) => Single(Rest(b)[b], u)
         /\ Single(ingress[b], u) /\ Takes(b, u) => ~MetaIn(Rest(b)[b], u)
<1>1. Rest(b)[b] = IF ingress[b] = <<>> THEN <<>> ELSE Tail(ingress[b])
  BY RestOK
<1>2. ingress[b] \in Seq(Item)
  BY DEF ConfirmIInv
<1>3. CASE ingress[b] = <<>>
  BY <1>1, <1>3 DEF Takes
<1>4. CASE ingress[b] # <<>>
  BY <1>1, <1>2, <1>4, MetaTail DEF Takes
<1>5. QED
  BY <1>3, <1>4

(* A META frame leaves a pass as it has begun or as a packet to the peer.  *)
LEMMA SentMeta ==
  ASSUME NEW b \in Board, NEW c, TransOK(b, c), c.phase \in {"FORWARDING", "REPLYING"}, NEW u,
         IsMeta([frame |-> Packet(c), usb |-> FALSE, epoch |-> 0], u)
  PROVE  Begun(c, u)
<1>1. Packet(c).type = "META" /\ Packet(c).tok = u
  BY DEF IsMeta
<1>2. c.step \in 0 .. 3
  BY TransactionFields DEF TransOK
<1>3. c.phase = "FORWARDING" /\ c.tok = u /\ Steps[c.step + 1] = "META"
  BY <1>1, PacketFields
<1>4. c.step = 0
  BY <1>2, <1>3 DEF Steps
<1>5. QED
  BY <1>3, <1>4 DEF Begun

LEMMA PassFresh ==
  ASSUME CallIInv, NEW b \in Board, NEW t, NEW r, Passes(b, t, r), NEW u \in 1 .. Len(role)
  PROVE  FreshIn(host', ingress', cur', ran', u)
<1>0. ConfirmIInv /\ FreshIn(host, ingress, cur, ran, u) /\ Counts /\ HostOK
      /\ ingress \in [Board -> Seq(Item)]
  BY DEF CallIInv, Fresh, ConfirmIInv
<1>1. /\ b \in {Bridge, Far} /\ Peer(b) \in {Bridge, Far} /\ Peer(b) # b /\ Peer(b) \in Board
      /\ Bridge # Far /\ Bridge \in Board /\ Far \in Board
  BY ConfirmAssumption DEF Far, Peer, Board
<1>2. /\ \A v : Begun(r.cur, v) => Begun(cur[b], v) \/ Takes(b, v)
      /\ ran' = ran \/ \E v : Settles(b, v, r)
  BY PassCall
<1>3. Sends(b, r) /\ cur'[Peer(b)] = cur[Peer(b)] /\ TransOK(b, r.cur)
      /\ r.cur \in Transaction /\ r \in Service
  BY <1>0, <1>1, PassSends, LiveParts DEF Passes
<1>4. Takes(b, u) => MetaIn(ingress[b], u)
  BY <1>0, TakesMeta
<1>5. Single(ingress[Bridge], u) /\ Single(ingress[Far], u)
  BY <1>0 DEF FreshIn
<1>6. /\ MetaIn(Rest(b)[b], u) => MetaIn(ingress[b], u)
      /\ Single(Rest(b)[b], u) /\ (Takes(b, u) => ~MetaIn(Rest(b)[b], u))
  BY <1>0, <1>1, <1>5, MetaRest
<1>7. ingress'[b] = Rest(b)[b]
  BY <1>3 DEF Sends
<1>8. r.cur.phase \in {"FORWARDING", "REPLYING"} => ~Begun(Sent(r.cur), u)
  <2>1. SUFFICES ASSUME r.cur.phase \in {"FORWARDING", "REPLYING"} PROVE ~Begun(Sent(r.cur), u)
    OBVIOUS
  <2>2. r = [cur |-> r.cur, prev |-> r.prev]
    BY <1>3 DEF Service
  <2>3. SvcTrue([cur |-> r.cur, prev |-> r.prev], ran')
    BY <2>2, PassCall
  <2>4. QED
    BY <1>3, <2>1, <2>3, SentTrue
<1>9. Begun(cur'[b], u) => Begun(r.cur, u)
  BY <1>3, <1>8 DEF Sends
<1>10. /\ MetaIn(ingress'[Peer(b)], u)
            => \/ MetaIn(ingress[Peer(b)], u)
               \/ b = Bridge /\ Begun(r.cur, u) /\ ~Begun(cur'[b], u)
       /\ Single(ingress'[Peer(b)], u)
  <2> DEFINE q == ingress[Peer(b)]
             i == [frame |-> Packet(r.cur), usb |-> FALSE, epoch |-> 0]
  <2>1. q \in Seq(Item) /\ Single(q, u)
    BY <1>0, <1>1, <1>5
  <2>2. CASE ingress'[Peer(b)] = q
    BY <2>1, <2>2
  <2>3. CASE ingress'[Peer(b)] # q
    <3>1. /\ \/ r.cur.phase = "FORWARDING" /\ b = Bridge
             \/ r.cur.phase = "REPLYING" /\ b = Far
          /\ cur'[b] = Sent(r.cur) /\ ingress'[Peer(b)] = Append(q, i)
      <4>1. Rest(b)[Peer(b)] = q
        BY <1>0, <1>1, RestOK
      <4>2. QED
        BY <1>3, <2>3, <4>1 DEF Sends
    <3>2. i \in Item
      <4>1. r.cur.phase = "REPLYING" => ~r.cur.usb
        BY <1>1, <1>3, <3>1 DEF TransOK
      <4>2. ItemOK(Peer(b), i)
        BY <1>0, <1>3, <3>1, <4>1, PacketItem
      <4>3. QED
        BY <4>2 DEF ItemOK
    <3>3. IsMeta(i, u) => Begun(r.cur, u)
      BY <1>3, <3>1, SentMeta
    <3>4. IsMeta(i, u) => b = Bridge
      <4>1. SUFFICES ASSUME IsMeta(i, u) PROVE r.cur.phase = "FORWARDING"
        BY <1>1, <3>1
      <4>2. QED
        BY <3>1, <3>3, <4>1 DEF Begun
    <3> HIDE DEF i
    <3>5. MetaIn(Append(q, i), u) => MetaIn(q, u) \/ IsMeta(i, u)
      BY <2>1, <3>2, MetaAppend
    <3>6. ~(MetaIn(q, u) /\ IsMeta(i, u))
      <4>1. SUFFICES ASSUME MetaIn(q, u), Begun(r.cur, u), b = Bridge PROVE FALSE
        BY <3>3, <3>4
      <4>2. Begun(cur[Bridge], u) \/ MetaIn(ingress[Bridge], u)
        BY <1>2, <1>4, <4>1
      <4>3. MetaIn(ingress[Far], u)
        BY <4>1 DEF Far
      <4>4. QED
        BY <1>0, <4>2, <4>3 DEF FreshIn
    <3>7. Single(Append(q, i), u)
      BY <2>1, <3>2, <3>6, MetaAppend
    <3>8. QED
      BY <1>8, <3>1, <3>3, <3>4, <3>5, <3>7
  <2>4. QED
    BY <2>2, <2>3
<1>11. ran'[u] = ran[u] \/ (Begun(cur[b], u) /\ ~Begun(r.cur, u))
  <2>1. SUFFICES ASSUME ran'[u] # ran[u] PROVE Begun(cur[b], u) /\ ~Begun(r.cur, u)
    OBVIOUS
  <2>2. PICK v : Settles(b, v, r)
    BY <1>2, <2>1
  <2>3. PICK out \in Outcome : ran' = [ran EXCEPT ![v] = out]
    BY <2>2 DEF Settles
  <2>4. u = v
    BY <1>0, <2>1, <2>3 DEF Counts
  <2>5. QED
    BY <2>2, <2>4 DEF Settles, Begun
<1>12. AtHost(host', u) => AtHost(host, u)
  <2>1. CASE host' = host
    BY <2>1
  <2>2. CASE r.cur.phase = "REPLYING" /\ Hears(host, Packet(r.cur), host')
    <3>1. Packet(r.cur) \in Frame /\ host \in HostRec
      BY <1>0, <1>3, <2>2, PacketFields DEF HostOK
    <3>2. host'.tok = host.tok /\ (host'.open => host.open) /\ host'.sent = host.sent
      BY <2>2, <3>1, HearsHost
    <3>3. QED
      BY <3>2 DEF AtHost
  <2>3. QED
    BY <1>3, <2>1, <2>2 DEF Sends
<1>13. CASE b = Bridge
  <2>1. Peer(b) = Far
    BY <1>13 DEF Far
  <2>2. QED
    BY <1>0, <1>2, <1>3, <1>4, <1>6, <1>7, <1>9, <1>10, <1>11, <1>12, <1>13, <2>1 DEF FreshIn
<1>14. CASE b = Far
  <2>1. Peer(b) = Bridge /\ b # Bridge
    BY <1>1, <1>14
  <2>2. QED
    BY <1>0, <1>2, <1>3, <1>4, <1>6, <1>7, <1>9, <1>10, <1>11, <1>12, <1>14, <2>1 DEF FreshIn
<1>15. QED
  BY <1>1, <1>13, <1>14

-----------------------------------------------------------------------------
(* What is said of outcomes. *)

(* No outcome is taken back. *)
Keeps(R, S) == \A u \in 1 .. Len(role) : R[u] # None => S[u] = R[u]

LEMMA SvcGrows ==
  ASSUME NEW b, NEW s, SvcOK(b, s), NEW R, NEW S, SvcTrue(s, R), Keeps(R, S)
  PROVE  SvcTrue(s, S)
<1>1. s.prev.tok # 0 => S[s.prev.tok] = s.prev.out
  <2>1. SUFFICES ASSUME s.prev.tok # 0 PROVE S[s.prev.tok] = s.prev.out
    OBVIOUS
  <2>2. s.prev.tok \in 1 .. Len(role) /\ s.prev.out \in Outcome
    BY <2>1 DEF SvcOK, CacheOK
  <2>3. R[s.prev.tok] = s.prev.out /\ R[s.prev.tok] # None
    BY <2>1, <2>2, OutcomeNotNone DEF SvcTrue
  <2>4. QED
    BY <2>2, <2>3 DEF Keeps
<1>2. s.cur.phase = "REPLYING" => S[s.cur.tok] = s.cur.out
  <2>1. SUFFICES ASSUME s.cur.phase = "REPLYING" PROVE S[s.cur.tok] = s.cur.out
    OBVIOUS
  <2>2. s.cur.tok \in 1 .. Len(role) /\ s.cur.out \in Outcome
    BY <2>1 DEF SvcOK, TransOK
  <2>3. R[s.cur.tok] = s.cur.out /\ R[s.cur.tok] # None
    BY <2>1, <2>2, OutcomeNotNone DEF SvcTrue
  <2>4. QED
    BY <2>2, <2>3 DEF Keeps
<1>3. s.cur.phase # "IDLE" => s.cur.tok \in 1 .. Len(role)
  BY DEF SvcOK, TransOK
<1>4. QED
  BY <1>1, <1>2, <1>3 DEF SvcTrue, Keeps

LEMMA HonestGrows ==
  ASSUME NEW b, NEW q, QueueOK(b, q), NEW R, NEW S, Honest(q, R), Keeps(R, S)
  PROVE  Honest(q, S)
<1>1. SUFFICES ASSUME NEW k \in 1 .. Len(q) PROVE FrameTrue(q[k].frame, S)
  BY DEF Honest
<1>2. q[k].frame.tok \in 1 .. Len(role) /\ FrameTrue(q[k].frame, R)
  BY <1>1 DEF QueueOK, ItemOK, Honest
<1>3. QED
  BY <1>2 DEF FrameTrue, Keeps

LEMMA HostGrows ==
  ASSUME NEW h, h.tok \in 0 .. Len(role), NEW R, NEW S, HostTrue(h, R), Keeps(R, S)
  PROVE  HostTrue(h, S)
  BY DEF HostTrue, Keeps

LEMMA HonestTail ==
  ASSUME NEW q \in Seq(Item), q # <<>>, NEW R, Honest(q, R)
  PROVE  Honest(Tail(q), R)
<1>1. /\ Len(q) \in Nat \ {0} /\ Len(Tail(q)) = Len(q) - 1
      /\ \A k \in 1 .. Len(Tail(q)) : Tail(q)[k] = q[k + 1]
  OBVIOUS
<1>2. \A k \in 1 .. Len(Tail(q)) : k + 1 \in 1 .. Len(q)
  BY <1>1
<1>3. QED
  BY <1>1, <1>2 DEF Honest

LEMMA HonestAppend ==
  ASSUME NEW q \in Seq(Item), NEW i, NEW R, Honest(q, R), FrameTrue(i.frame, R)
  PROVE  Honest(Append(q, i), R)
<1>1. /\ Len(q) \in Nat /\ Len(Append(q, i)) = Len(q) + 1 /\ Append(q, i)[Len(q) + 1] = i
      /\ \A k \in 1 .. Len(q) : Append(q, i)[k] = q[k]
  OBVIOUS
<1>2. \A k \in 1 .. Len(q) + 1 : k \in 1 .. Len(q) \/ k = Len(q) + 1
  BY <1>1
<1>3. QED
  BY <1>1, <1>2 DEF Honest

LEMMA HearsTrue ==
  ASSUME NEW h \in HostRec, NEW f \in Frame, f.tok # 0, NEW R, FrameTrue(f, R),
         HostTrue(h, R), NEW g, Hears(h, f, g)
  PROVE  HostTrue(g, R)
<1>1. CASE g = h
  BY <1>1
<1>2. CASE g = [h EXCEPT !.open = FALSE]
  <2>1. g.tok = h.tok /\ g.status = h.status /\ g.result = h.result
    BY <1>2, ClosedNow
  <2>2. QED
    BY <2>1 DEF HostTrue
<1>3. CASE g # h /\ g # [h EXCEPT !.open = FALSE]
  <2>1. PICK status, result :
          /\ f.tok = h.tok
          /\ status = h.status \/ (f.type = "ACK_META" /\ status = f.status)
          /\ result = h.result \/ (f.type = "ACK_VALUE" /\ result = f.result)
          /\ \/ g = Partial(h, status, result)
             \/ /\ status # None /\ result # None
                /\ g = Answered(h, [status |-> status, result |-> result])
    BY <1>3, Zenon DEF Hears
  <2>2. /\ f.type = "ACK_META" => f.status \in Status
        /\ f.type = "ACK_VALUE" => f.result \in Results \cup {0}
    BY FrameFields
  <2>3. status \in Status \cup {None} /\ result \in Results \cup {0, None}
    BY <2>1, <2>2 DEF HostRec
  <2>4. CASE g = Partial(h, status, result)
    <3>1. g.tok = h.tok /\ g.status = status /\ g.result = result
      BY <2>3, <2>4, PartialFields
    <3>2. QED
      BY <2>1, <3>1 DEF HostTrue, FrameTrue
  <2>5. CASE /\ status # None /\ result # None
             /\ g = Answered(h, [status |-> status, result |-> result])
    <3>1. [status |-> status, result |-> result] \in Outcome \cup {None}
      BY <2>3, <2>5 DEF Outcome
    <3>2. g.tok = h.tok /\ g.status = h.status /\ g.result = h.result
      BY <2>5, <3>1, AnsweredFields
    <3>3. QED
      BY <3>2 DEF HostTrue
  <2>6. QED
    BY <2>1, <2>4, <2>5
<1>4. QED
  BY <1>1, <1>2, <1>3

LEMMA PassKeeps ==
  ASSUME CallIInv, NEW b \in Board, NEW t, NEW r, Passes(b, t, r)
  PROVE  Keeps(ran, ran')
<1>1. Counts
  BY DEF CallIInv, ConfirmIInv
<1>2. ran' = ran \/ \E u : Settles(b, u, r)
  BY PassCall
<1>3. CASE ran' = ran
  BY <1>3 DEF Keeps
<1>4. ASSUME NEW u, Settles(b, u, r) PROVE Keeps(ran, ran')
  <2>1. PICK out \in Outcome : ran' = [ran EXCEPT ![u] = out]
    BY <1>4 DEF Settles
  <2>2. ran[u] = None
    BY <1>4 DEF Settles
  <2>3. QED
    BY <1>1, <2>1, <2>2 DEF Keeps, Counts
<1>5. QED
  BY <1>2, <1>3, <1>4

LEMMA PacketTrue ==
  ASSUME CallIInv, NEW b \in Board, NEW t, NEW r, Passes(b, t, r),
         r.cur.phase \in {"FORWARDING", "REPLYING"}
  PROVE  /\ Packet(r.cur) \in Frame /\ FrameTrue(Packet(r.cur), ran')
         /\ Packet(r.cur).tok = r.cur.tok /\ r.cur.tok \in 1 .. Len(role)
         /\ Packet(r.cur).tok # 0
<1> DEFINE f == Packet(r.cur)
<1>1. TransOK(b, r.cur) /\ SvcTrue(r, ran')
  BY LiveParts, PassCall DEF Passes
<1>2. /\ f \in Frame /\ f.tok = r.cur.tok
      /\ r.cur.phase = "FORWARDING" => f.type \in Asking
      /\ r.cur.phase = "REPLYING" /\ r.cur.step = 0
           => f.type = "ACK_META" /\ f.status = r.cur.out.status
      /\ r.cur.phase = "REPLYING" /\ r.cur.step # 0
           => f.type = "ACK_VALUE" /\ f.result = r.cur.out.result
  BY <1>1, PacketFields
<1>3. r.cur.tok \in 1 .. Len(role)
  BY <1>1 DEF TransOK
<1>4. r.cur.phase = "REPLYING" => ran'[r.cur.tok] = r.cur.out /\ r.cur.out # None
  <2>1. r.cur.phase = "REPLYING" => r.cur.out \in Outcome
    BY <1>1 DEF TransOK
  <2>2. QED
    BY <1>1, <2>1, OutcomeNotNone DEF SvcTrue
<1> HIDE DEF f
<1>5. FrameTrue(f, ran')
  BY <1>2, <1>4 DEF FrameTrue, Asking
<1>6. QED
  BY <1>2, <1>3, <1>5 DEF f

LEMMA PassTruth ==
  ASSUME CallIInv, NEW b \in Board, NEW t, NEW r, Passes(b, t, r)
  PROVE  Truth'
<1>1. /\ ConfirmIInv /\ Truth /\ Counts /\ HostOK /\ Keeps(ran, ran')
      /\ ingress \in [Board -> Seq(Item)]
      /\ \A a \in Board : SvcOK(a, Svc(a)) /\ QueueOK(a, ingress[a])
  BY PassKeeps DEF CallIInv, ConfirmIInv
<1>2. /\ Sends(b, r) /\ prev'[b] = r.prev /\ SvcTrue(r, ran')
      /\ \A a \in Board : a # b => cur'[a] = cur[a] /\ prev'[a] = prev[a]
  BY <1>1, PassSends, PassCall
<1>3. /\ r \in Service /\ r.cur \in Transaction /\ TransOK(b, r.cur)
      /\ r = [cur |-> r.cur, prev |-> r.prev]
  BY LiveParts DEF Passes
<1>4. SvcTrue([cur |-> cur'[b], prev |-> prev'[b]], ran')
  <2>1. SvcTrue([cur |-> r.cur, prev |-> r.prev], ran')
    BY <1>2, <1>3
  <2>2. CASE r.cur.phase \notin {"FORWARDING", "REPLYING"}
    <3>1. cur'[b] = r.cur
      BY <2>2, <1>2 DEF Sends
    <3>2. QED
      BY <1>2, <2>1, <3>1
  <2>3. CASE r.cur.phase \in {"FORWARDING", "REPLYING"}
    <3>1. cur'[b] = Sent(r.cur)
      BY <2>3, <1>2 DEF Sends
    <3>2. SvcTrue([cur |-> Sent(r.cur), prev |-> r.prev], ran')
      BY <1>3, <2>1, <2>3, SentTrue
    <3>3. QED
      BY <1>2, <3>1, <3>2
  <2>4. QED
    BY <2>2, <2>3
<1>5. ASSUME NEW a \in Board PROVE SvcTrue([cur |-> cur'[a], prev |-> prev'[a]], ran')
  <2>1. CASE a = b
    BY <1>4, <2>1
  <2>2. CASE a # b
    <3>1. SvcTrue(Svc(a), ran')
      BY <1>1, SvcGrows DEF Truth
    <3>2. QED
      BY <1>2, <2>2, <3>1 DEF Svc
  <2>3. QED
    BY <2>1, <2>2
<1>6. \A a \in Board : Honest(ingress[a], ran')
  BY <1>1, HonestGrows DEF Truth
<1>7. Honest(Rest(b)[b], ran')
  <2>1. Rest(b)[b] = IF ingress[b] = <<>> THEN <<>> ELSE Tail(ingress[b])
    BY <1>1, RestOK
  <2>2. CASE ingress[b] = <<>>
    BY <2>1, <2>2 DEF Honest
  <2>3. CASE ingress[b] # <<>>
    BY <1>1, <1>6, <2>1, <2>3, HonestTail
  <2>4. QED
    BY <2>2, <2>3
<1>8. r.cur.phase \in {"FORWARDING", "REPLYING"}
        => /\ Packet(r.cur) \in Frame /\ FrameTrue(Packet(r.cur), ran')
           /\ Packet(r.cur).tok # 0
  BY PacketTrue
<1>9. ASSUME NEW a \in Board PROVE Honest(ingress'[a], ran')
  <2> DEFINE i == [frame |-> Packet(r.cur), usb |-> FALSE, epoch |-> 0]
  <2>1. CASE a = b
    <3>1. ingress'[b] = Rest(b)[b]
      BY <1>2 DEF Sends
    <3>2. QED
      BY <1>7, <2>1, <3>1
  <2>2. CASE a # b
    <3>1. a = Peer(b) /\ Rest(b)[a] = ingress[a]
      BY <1>1, <2>2, RestOK DEF Peer, Board
    <3>2. CASE ingress'[a] = ingress[a]
      BY <1>6, <3>2
    <3>3. CASE ingress'[a] # ingress[a]
      <4>1. r.cur.phase \in {"FORWARDING", "REPLYING"} /\ ingress'[a] = Append(ingress[a], i)
        BY <1>2, <3>1, <3>3 DEF Sends
      <4>2. i.frame = Packet(r.cur)
        OBVIOUS
      <4> HIDE DEF i
      <4>3. FrameTrue(i.frame, ran') /\ ingress[a] \in Seq(Item) /\ Honest(ingress[a], ran')
        BY <1>1, <1>6, <1>8, <4>1, <4>2
      <4>4. QED
        BY <4>1, <4>3, HonestAppend
    <3>4. QED
      BY <3>2, <3>3
  <2>3. QED
    BY <2>1, <2>2
<1>10. HostTrue(host', ran')
  <2>1. host \in HostRec /\ HostTrue(host, ran')
    <3>1. host.tok \in 0 .. Len(role) /\ host \in HostRec
      BY <1>1 DEF HostOK, Counts
    <3>2. HostTrue(host, ran)
      BY <1>1 DEF Truth
    <3>3. QED
      BY <1>1, <3>1, <3>2, HostGrows
  <2>2. CASE host' = host
    BY <2>1, <2>2
  <2>3. CASE r.cur.phase = "REPLYING" /\ Hears(host, Packet(r.cur), host')
    BY <1>8, <2>1, <2>3, HearsTrue
  <2>4. QED
    BY <1>2, <2>2, <2>3 DEF Sends
<1>11. QED
  BY <1>5, <1>9, <1>10 DEF Truth, Svc

-----------------------------------------------------------------------------
(* Steps that take something away: a packet, a transaction, an outcome     *)
(* remembered, the page's patience.                                        *)

Fewer ==
  /\ UNCHANGED <<role, ran>>
  /\ \A a \in Board :
       /\ cur'[a] = cur[a] \/ cur'[a] = Nothing
       /\ prev'[a] = prev[a] \/ prev'[a] = Forgotten
       /\ \/ ingress'[a] = ingress[a] \/ ingress'[a] = <<>>
          \/ ingress[a] # <<>> /\ ingress'[a] = Tail(ingress[a])
  /\ host'.tok = host.tok /\ host'.again = host.again /\ host'.answer = host.answer
  /\ host'.status = host.status /\ host'.result = host.result
  /\ host'.open => host.open /\ host'.sent = host.sent

LEMMA FewerKeeps ==
  ASSUME CallIInv, Fewer
  PROVE  ~host'.again /\ Fresh' /\ Truth'
<1>1. /\ ConfirmIInv /\ ~host.again /\ Fresh /\ Truth /\ Bridge \in Board /\ Far \in Board
      /\ ingress \in [Board -> Seq(Item)]
  BY ConfirmAssumption DEF CallIInv, ConfirmIInv, Far, Peer, Board
<1>2. /\ Nothing.phase = "IDLE" /\ Forgotten.tok = 0 /\ \A u : ~Begun(Nothing, u)
  BY NothingType DEF Forgotten, Begun
<1>3. ASSUME NEW u \in 1 .. Len(role) PROVE FreshIn(host', ingress', cur', ran', u)
  <2>1. FreshIn(host, ingress, cur, ran, u)
    BY <1>1 DEF Fresh
  <2>2. AtHost(host', u) => AtHost(host, u)
    BY DEF Fewer, AtHost
  <2>3. \A a \in Board : Begun(cur'[a], u) => Begun(cur[a], u)
    BY <1>2 DEF Fewer
  <2>4. ASSUME NEW a \in Board
        PROVE  /\ MetaIn(ingress'[a], u) => MetaIn(ingress[a], u)
               /\ Single(ingress[a], u) => Single(ingress'[a], u)
    <3>1. CASE ingress'[a] = ingress[a]
      BY <3>1
    <3>2. CASE ingress'[a] = <<>>
      BY <3>2 DEF MetaIn, Single
    <3>3. CASE ingress[a] # <<>> /\ ingress'[a] = Tail(ingress[a])
      BY <1>1, <3>3, MetaTail
    <3>4. QED
      BY <3>1, <3>2, <3>3 DEF Fewer
  <2>5. ran' = ran
    BY DEF Fewer
  <2>6. QED
    BY <1>1, <2>1, <2>2, <2>3, <2>4, <2>5 DEF FreshIn
<1>4. Fresh'
  BY <1>3 DEF Fresh, Fewer
<1>5. ASSUME NEW a \in Board
      PROVE  /\ SvcTrue([cur |-> cur'[a], prev |-> prev'[a]], ran')
             /\ Honest(ingress'[a], ran')
  <2>1. SvcTrue([cur |-> cur[a], prev |-> prev[a]], ran) /\ Honest(ingress[a], ran)
    BY <1>1 DEF Truth, Svc
  <2>2. ran' = ran
    BY DEF Fewer
  <2>3. SvcTrue([cur |-> cur'[a], prev |-> prev'[a]], ran)
    BY <1>2, <2>1 DEF Fewer, SvcTrue
  <2>4. Honest(ingress'[a], ran)
    <3>1. CASE ingress'[a] = ingress[a]
      BY <2>1, <3>1
    <3>2. CASE ingress'[a] = <<>>
      BY <3>2 DEF Honest
    <3>3. CASE ingress[a] # <<>> /\ ingress'[a] = Tail(ingress[a])
      BY <1>1, <2>1, <3>3, HonestTail
    <3>4. QED
      BY <3>1, <3>2, <3>3 DEF Fewer
  <2>5. QED
    BY <2>2, <2>3, <2>4
<1>6. HostTrue(host', ran')
  BY <1>1 DEF Truth, Fewer, HostTrue
<1>7. Truth'
  BY <1>5, <1>6 DEF Truth, Svc
<1>8. QED
  BY <1>1, <1>4, <1>7 DEF Fewer

LEMMA LessIsFewer ==
  ASSUME ConfirmIInv,
         \/ \E b \in Board : Lose(b) \/ Restart(b)
         \/ HostTimeout \/ Disconnect \/ UNCHANGED vars
  PROVE  Fewer
<1>1. /\ cur \in [Board -> Transaction] /\ prev \in [Board -> Cached] /\ host \in HostRec
      /\ ingress \in [Board -> Seq(Item)]
  BY DEF ConfirmIInv, HostOK
<1>2. ASSUME NEW b \in Board, Lose(b) PROVE Fewer
  <2>1. /\ ingress[b] # <<>> /\ ingress' = [ingress EXCEPT ![b] = Tail(@)]
        /\ UNCHANGED <<cur, prev, role, host, ran>>
    BY <1>2 DEF Lose, service
  <2>2. QED
    BY <1>1, <2>1 DEF Fewer
<1>3. ASSUME NEW b \in Board, Restart(b) PROVE Fewer
  <2>1. /\ cur' = [cur EXCEPT ![b] = Nothing] /\ prev' = [prev EXCEPT ![b] = Forgotten]
        /\ ingress' = [ingress EXCEPT ![b] = <<>>]
        /\ host' = Cancelled(host) \/ host' = [host EXCEPT !.recalled = FALSE]
        /\ UNCHANGED <<role, ran>>
    BY <1>3, Zenon DEF Restart, Cancelled
  <2>2. /\ host'.tok = host.tok /\ host'.again = host.again /\ host'.answer = host.answer
        /\ host'.status = host.status /\ host'.result = host.result
        /\ host'.open => host.open /\ host'.sent = host.sent
    <3>1. CASE host' = Cancelled(host)
      BY <1>1, <3>1, CancelledFields
    <3>2. CASE host' = [host EXCEPT !.recalled = FALSE]
      BY <1>1, <3>2, ForgetFields
    <3>3. QED
      BY <2>1, <3>1, <3>2
  <2>3. \A a \in Board : /\ cur'[a] = cur[a] \/ cur'[a] = Nothing
                         /\ prev'[a] = prev[a] \/ prev'[a] = Forgotten
                         /\ ingress'[a] = ingress[a] \/ ingress'[a] = <<>>
    BY <1>1, <2>1
  <2>4. QED
    BY <2>1, <2>2, <2>3 DEF Fewer
<1>4. CASE HostTimeout
  <2>1. host' = TimedOut(host) /\ UNCHANGED <<cur, prev, ingress, role, ran>>
    BY <1>4, Zenon DEF HostTimeout, TimedOut, service
  <2>2. /\ host'.tok = host.tok /\ host'.again = host.again /\ host'.answer = host.answer
        /\ host'.status = host.status /\ host'.result = host.result /\ ~host'.open
    BY <1>1, <2>1, TimeoutFields
  <2>3. QED
    BY <2>1, <2>2 DEF Fewer
<1>5. CASE Disconnect
  <2>1. /\ host' = Cancelled(host) /\ UNCHANGED <<cur, ingress, role, ran>>
        /\ prev' = [prev EXCEPT ![Bridge] = IF @.usb THEN Forgotten ELSE @]
    BY <1>5, Zenon DEF Disconnect, Cancelled
  <2>2. /\ host'.tok = host.tok /\ host'.again = host.again /\ host'.answer = host.answer
        /\ host'.status = host.status /\ host'.result = host.result /\ ~host'.open
    BY <1>1, <2>1, CancelledFields
  <2>3. \A a \in Board : prev'[a] = prev[a] \/ prev'[a] = Forgotten
    BY <1>1, <2>1
  <2>4. QED
    BY <2>1, <2>2, <2>3 DEF Fewer
<1>6. CASE UNCHANGED vars
  BY <1>6 DEF vars, Fewer
<1>7. QED
  BY <1>2, <1>3, <1>4, <1>5, <1>6

LEMMA HostSendCall ==
  ASSUME CallIInv, HostSend
  PROVE  ~host'.again /\ Fresh' /\ Truth'
<1> DEFINE i == [frame |-> [type |-> Steps[host.sent + 1], tok |-> host.tok],
                 usb |-> TRUE, epoch |-> epoch]
<1>1. /\ ConfirmIInv /\ ~host.again /\ Fresh /\ Truth /\ Counts /\ HostOK
      /\ ingress \in [Board -> Seq(Item)]
  BY DEF CallIInv, ConfirmIInv
<1>2. Bridge \in Board /\ Far \in Board /\ Far # Bridge
      /\ \A a \in Board : a = Bridge \/ a = Far
  BY ConfirmAssumption DEF Far, Peer, Board
<1>3. /\ host.open /\ host.sent < 4 /\ ingress' = Enqueue(ingress, Bridge, i)
      /\ host' = SentOn(host, host.sent + 1)
      /\ UNCHANGED <<cur, prev, epoch, role, ran>>
  BY DEF HostSend, service, SentOn
<1>4. host \in HostRec /\ host.sent \in 0 .. 3 /\ host.sent + 1 \in 0 .. 4
  BY <1>1, <1>3 DEF HostOK, HostRec
<1>5. /\ host'.tok = host.tok /\ host'.again = host.again /\ host'.sent = host.sent + 1
      /\ host'.status = host.status /\ host'.result = host.result
  BY <1>3, <1>4, SentOnFields
<1>6. /\ ingress'[Far] = ingress[Far]
      /\ ingress'[Bridge] = ingress[Bridge] \/ ingress'[Bridge] = Append(ingress[Bridge], i)
  <2> HIDE DEF i
  <2>1. ingress \in [Board -> Seq(Item)] /\ ingress' = Enqueue(ingress, Bridge, i)
    BY <1>1, <1>3
  <2>2. \/ Enqueue(ingress, Bridge, i)[Bridge] = ingress[Bridge]
        \/ Enqueue(ingress, Bridge, i)[Bridge] = Append(ingress[Bridge], i)
    BY <1>2, <2>1, EnqueueFields
  <2>3. Enqueue(ingress, Bridge, i)[Far] = ingress[Far]
    BY <1>2, <2>1, EnqueueFields
  <2>4. QED
    BY <2>1, <2>2, <2>3
<1>7. i.frame.type \in Asking /\ \A u : IsMeta(i, u) => AtHost(host, u)
  <2>1. i.frame.type = Steps[host.sent + 1] /\ i.frame.tok = host.tok
    OBVIOUS
  <2>2. Steps[host.sent + 1] \in Asking /\ (Steps[host.sent + 1] = "META" => host.sent = 0)
    BY <1>4 DEF Steps, Asking
  <2> HIDE DEF i
  <2>3. QED
    BY <1>3, <2>1, <2>2 DEF IsMeta, AtHost
<1>8. i \in Item
  <2>1. host.tok \in Token /\ epoch \in 0 .. MaxTrouble
    BY <1>1, <1>3, ConfirmAssumption DEF HostOK, Counts, Token
  <2>2. [type |-> Steps[host.sent + 1], tok |-> host.tok] \in Frame
    BY <1>7, <2>1 DEF Frame
  <2>3. QED
    BY <2>1, <2>2 DEF Item
<1> HIDE DEF i
<1>9. ASSUME NEW u \in 1 .. Len(role) PROVE FreshIn(host', ingress', cur', ran', u)
  <2>1. FreshIn(host, ingress, cur, ran, u) /\ Single(ingress[Bridge], u)
    BY <1>1 DEF Fresh, FreshIn
  <2>2. ~AtHost(host', u)
    BY <1>4, <1>5 DEF AtHost
  <2>3. AtHost(host, u) => ~MetaIn(ingress[Bridge], u)
    BY <2>1 DEF FreshIn
  <2>4. /\ MetaIn(ingress'[Bridge], u) => MetaIn(ingress[Bridge], u) \/ AtHost(host, u)
        /\ Single(ingress'[Bridge], u)
    <3>1. CASE ingress'[Bridge] = ingress[Bridge]
      BY <2>1, <3>1
    <3>2. CASE ingress'[Bridge] = Append(ingress[Bridge], i)
      <4>1. ingress[Bridge] \in Seq(Item)
        BY <1>1, <1>2
      <4>2. QED
        BY <1>7, <1>8, <2>1, <2>3, <3>2, <4>1, MetaAppend
    <3>3. QED
      BY <1>6, <3>1, <3>2
  <2>5. QED
    BY <1>3, <1>6, <2>1, <2>2, <2>4 DEF FreshIn
<1>10. Fresh'
  BY <1>3, <1>9 DEF Fresh
<1>11. ASSUME NEW a \in Board
       PROVE  SvcTrue([cur |-> cur'[a], prev |-> prev'[a]], ran') /\ Honest(ingress'[a], ran')
  <2>1. SvcTrue([cur |-> cur[a], prev |-> prev[a]], ran) /\ Honest(ingress[a], ran)
    BY <1>1 DEF Truth, Svc
  <2>2. FrameTrue(i.frame, ran)
    BY <1>7 DEF FrameTrue, Asking
  <2>3. Honest(Append(ingress[a], i), ran)
    BY <1>1, <2>1, <2>2, HonestAppend
  <2>4. QED
    BY <1>2, <1>3, <1>6, <2>1, <2>3
<1>12. HostTrue(host', ran')
  BY <1>1, <1>3, <1>5 DEF Truth, HostTrue
<1>13. QED
  BY <1>1, <1>5, <1>10, <1>11, <1>12 DEF Truth, Svc

LEMMA HostAskCall ==
  ASSUME CallIInv, NEW b \in Board, HostAsk(b)
  PROVE  ~host'.again /\ Fresh' /\ Truth'
<1>1. /\ ConfirmIInv /\ Fresh /\ Truth /\ Counts /\ ingress \in [Board -> Seq(Item)]
      /\ \A a \in Board : SvcOK(a, Svc(a)) /\ QueueOK(a, ingress[a])
  BY DEF CallIInv, ConfirmIInv
<1>2. /\ role' = Append(role, b) /\ ran' = Append(ran, None)
      /\ host' = Asked(Len(role) + 1) /\ UNCHANGED <<cur, prev, ingress>>
  BY Zenon DEF HostAsk, Asked, service
<1>3. /\ Len(role) \in Nat /\ Len(role') = Len(role) + 1
      /\ \A u \in 1 .. Len(role) : ran'[u] = ran[u]
      /\ ran'[Len(role) + 1] = None
  BY <1>1, <1>2 DEF Counts
<1>4. /\ host'.tok = Len(role) + 1 /\ ~host'.again
      /\ host'.status = None /\ host'.result = None
  BY <1>2, <1>3, AskedFields
<1>5. ASSUME NEW u \in 1 .. Len(role') PROVE FreshIn(host', ingress', cur', ran', u)
  <2>1. CASE u \in 1 .. Len(role)
    <3>1. FreshIn(host, ingress, cur, ran, u) /\ ~AtHost(host', u) /\ ran'[u] = ran[u]
      BY <1>1, <1>3, <1>4, <2>1 DEF Fresh, AtHost
    <3>2. QED
      BY <1>2, <3>1 DEF FreshIn
  <2>2. CASE u = Len(role) + 1
    <3>1. ASSUME NEW a \in Board
          PROVE  ~MetaIn(ingress[a], u) /\ Single(ingress[a], u) /\ ~Begun(cur[a], u)
      <4>1. \A k \in 1 .. Len(ingress[a]) : ingress[a][k].frame.tok \in 1 .. Len(role)
        BY <1>1 DEF QueueOK, ItemOK
      <4>2. \A k \in 1 .. Len(ingress[a]) : ~IsMeta(ingress[a][k], u)
        BY <1>3, <2>2, <4>1 DEF IsMeta
      <4>3. cur[a].phase # "IDLE" => cur[a].tok \in 1 .. Len(role)
        BY <1>1 DEF SvcOK, Svc, TransOK
      <4>4. ~Begun(cur[a], u)
        BY <1>3, <2>2, <4>3 DEF Begun
      <4>5. QED
        BY <4>2, <4>4 DEF MetaIn, Single
    <3>2. Bridge \in Board /\ Far \in Board
      BY ConfirmAssumption DEF Far, Peer, Board
    <3>3. QED
      BY <1>2, <1>3, <2>2, <3>1, <3>2 DEF FreshIn
  <2>3. QED
    BY <1>3, <2>1, <2>2
<1>6. Keeps(ran, ran')
  BY <1>3 DEF Keeps
<1>7. ASSUME NEW a \in Board
      PROVE  SvcTrue([cur |-> cur'[a], prev |-> prev'[a]], ran') /\ Honest(ingress'[a], ran')
  <2>1. SvcTrue(Svc(a), ran')
    BY <1>1, <1>6, SvcGrows DEF Truth
  <2>2. Honest(ingress[a], ran')
    BY <1>1, <1>6, HonestGrows DEF Truth
  <2>3. QED
    BY <1>2, <2>1, <2>2 DEF Svc
<1>8. HostTrue(host', ran')
  BY <1>4 DEF HostTrue
<1>9. QED
  BY <1>4, <1>5, <1>7, <1>8 DEF Fresh, Truth, Svc

LEMMA PassCallKeeps ==
  ASSUME CallIInv, NEW b \in Board, NEW expired \in BOOLEAN, Task(b, expired)
  PROVE  ~host'.again /\ Fresh' /\ Truth'
<1>1. ConfirmIInv /\ ~host.again /\ host \in HostRec
  BY DEF CallIInv, ConfirmIInv, HostOK
<1>2. PICK t, r : Passes(b, t, r)
  BY <1>1, TaskPasses
<1>3. UNCHANGED role
  BY <1>2 DEF Passes
<1>4. Fresh'
  BY <1>2, <1>3, PassFresh DEF Fresh
<1>5. Truth'
  BY <1>2, PassTruth
<1>6. ~host'.again
  <2>1. Sends(b, r) /\ TransOK(b, r.cur)
    BY <1>1, <1>2, PassSends, LiveParts DEF Passes
  <2>2. CASE host' = host
    BY <1>1, <2>2
  <2>3. CASE r.cur.phase = "REPLYING" /\ Hears(host, Packet(r.cur), host')
    <3>1. Packet(r.cur) \in Frame
      BY <2>1, <2>3, PacketFields
    <3>2. QED
      BY <1>1, <2>3, <3>1, HearsHost
  <2>4. QED
    BY <2>1, <2>2, <2>3 DEF Sends
<1>7. QED
  BY <1>4, <1>5, <1>6

LEMMA NextCall ==
  ASSUME ~Retries, CallIInv, [Next]_vars
  PROVE  CallIInv'
<1>1. ConfirmIInv /\ ConfirmIInv'
  BY NextIInv DEF CallIInv
<1>2. ASSUME NEW b \in Board, Task(b, FALSE) \/ Task(b, TRUE)
      PROVE  ~host'.again /\ Fresh' /\ Truth'
  BY <1>2, PassCallKeeps
<1>3. ASSUME NEW b \in Board, HostAsk(b) PROVE ~host'.again /\ Fresh' /\ Truth'
  BY <1>3, HostAskCall
<1>4. CASE HostSend
  BY <1>1, <1>4, HostSendCall DEF CallIInv
<1>5. CASE \/ \E b \in Board : Lose(b) \/ Restart(b)
           \/ HostTimeout \/ Disconnect \/ UNCHANGED vars
  BY <1>1, <1>5, LessIsFewer, FewerKeeps DEF CallIInv
<1>6. ~HostRepeat(0) /\ ~HostRepeat(3)
  BY DEF HostRepeat
<1>7. QED
  BY <1>1, <1>2, <1>3, <1>4, <1>5, <1>6 DEF Next, CallIInv

LEMMA InitCall == Init => CallIInv
<1> SUFFICES ASSUME Init PROVE CallIInv
  OBVIOUS
<1>1. ConfirmIInv
  BY InitIInv
<1>2. Len(role) = 0 /\ host = Closed
  BY DEF Init
<1>3. ~Closed.again /\ Closed.status = None /\ Closed.result = None
  BY DEF Closed
<1>4. \A b \in Board : cur[b] = Nothing /\ prev[b] = Forgotten /\ ingress[b] = <<>>
  BY DEF Init
<1>5. Nothing.phase = "IDLE" /\ Forgotten.tok = 0
  BY NothingType DEF Forgotten
<1>6. \A b \in Board : SvcTrue(Svc(b), ran) /\ Honest(ingress[b], ran)
  BY <1>4, <1>5 DEF SvcTrue, Svc, Honest
<1>7. Fresh
  BY <1>2 DEF Fresh
<1>8. HostTrue(host, ran)
  BY <1>2, <1>3 DEF HostTrue
<1>9. QED
  BY <1>1, <1>2, <1>3, <1>6, <1>7, <1>8 DEF CallIInv, Truth

(* For a page that does not repeat its requests: the META frame of every   *)
(* request is in one place at most and nowhere once the request has been   *)
(* decided, and everything the boards remember, send or put together and   *)
(* the page has heard of an outcome agrees with what was decided.          *)
THEOREM CallInvariance == ~Retries => (Spec => []CallIInv)
<1> SUFFICES ASSUME ~Retries PROVE Spec => []CallIInv
  OBVIOUS
<1>1. Init => CallIInv
  BY InitCall
<1>2. CallIInv /\ [Next]_vars => CallIInv'
  BY NextCall
<1>3. QED
  BY <1>1, <1>2, PTL DEF Spec

-----------------------------------------------------------------------------
(* The service implements ConfirmedCall, step by step. *)

LEMMA Unseen ==
  ASSUME host'.tok = host.tok, host'.open = host.open, host'.again = host.again,
         host'.answer = host.answer, ran' = ran
  PROVE  UNCHANGED Call!callVars
  BY DEF Call!callVars

LEMMA GivesUp ==
  ASSUME host'.tok = host.tok, host.open, host'.open = FALSE, host'.again = host.again,
         host'.answer = host.answer, ran' = ran
  PROVE  Call!CallNext
<1>1. Call!GiveUp
  BY DEF Call!GiveUp
<1>2. QED
  BY <1>1 DEF Call!CallNext

LEMMA FewerRefines ==
  ASSUME HostOK, HostOK', Fewer
  PROVE  Call!CallNext \/ UNCHANGED Call!callVars
<1>1. host.open \in BOOLEAN /\ host'.open \in BOOLEAN
  BY DEF HostOK, HostRec
<1>2. /\ host'.tok = host.tok /\ host'.again = host.again /\ host'.answer = host.answer
      /\ (host'.open => host.open) /\ ran' = ran
  BY DEF Fewer
<1>3. CASE host'.open = host.open
  BY <1>2, <1>3, Unseen
<1>4. CASE host.open /\ host'.open = FALSE
  BY <1>2, <1>4, GivesUp
<1>5. QED
  BY <1>1, <1>2, <1>3, <1>4

LEMMA SendRefines ==
  ASSUME ConfirmIInv, HostSend
  PROVE  UNCHANGED Call!callVars
<1>1. host' = SentOn(host, host.sent + 1) /\ host.sent < 4 /\ ran' = ran
  BY DEF HostSend, SentOn
<1>2. host \in HostRec /\ host.sent + 1 \in 0 .. 4
  BY <1>1 DEF ConfirmIInv, HostOK, HostRec
<1>3. /\ host'.tok = host.tok /\ host'.open = host.open /\ host'.again = host.again
      /\ host'.answer = host.answer
  BY <1>1, <1>2, SentOnFields
<1>4. QED
  BY <1>1, <1>3, Unseen

LEMMA AskRefines ==
  ASSUME ConfirmIInv, NEW b \in Board, HostAsk(b)
  PROVE  Call!CallNext
<1>1. Counts /\ HostOK
  BY DEF ConfirmIInv
<1>2. /\ ~host.open /\ attempts < MaxAttempts /\ ran' = Append(ran, None)
      /\ host' = Asked(Len(role) + 1)
  BY Zenon DEF HostAsk, Asked
<1>3. /\ Len(role) \in Nat /\ host.tok = Len(role) /\ Len(ran) = Len(role)
      /\ \A u \in 1 .. Len(role) : ran'[u] = ran[u]
      /\ ran'[Len(role) + 1] = None
  BY <1>1, <1>2 DEF Counts, HostOK
<1>4. /\ host'.tok = Len(role) + 1 /\ host'.open = TRUE /\ host'.again = FALSE
      /\ host'.answer = None
  <2>1. /\ host'.tok = Len(role) + 1 /\ host'.open /\ ~host'.again /\ host'.answer = None
        /\ host' \in HostRec
    BY <1>2, <1>3, AskedFields
  <2>2. QED
    BY <2>1 DEF HostRec
<1>5. Len(role) + 1 \in Token
  BY <1>1, <1>2, <1>3, ConfirmAssumption DEF Counts, Token
<1>6. None \notin Nat
  BY ConfirmAssumption
<1>7. {t \in 1 .. host'.tok - 1 : ran'[t] = None}
        = {t \in 1 .. host.tok - 1 : ran[t] = None} \cup Call!Undecided
  <2>1. Call!Undecided = {t \in {host.tok} : host.tok # 0 /\ ran[t] = None}
    BY <1>3, <1>6 DEF Call!Undecided
  <2>2. \A t : t \in 1 .. host'.tok - 1
                 <=> t \in 1 .. host.tok - 1 \/ (t = host.tok /\ host.tok # 0)
    BY <1>3, <1>4
  <2>3. \A t \in 1 .. host'.tok - 1 : ran'[t] = ran[t]
    BY <1>3, <1>4
  <2>4. QED
    BY <2>1, <2>2, <2>3
<1>8. /\ (IF host'.tok = 0 THEN None ELSE host'.tok) = Len(role) + 1
      /\ (IF host'.tok = 0 THEN None ELSE ran'[host'.tok]) = None
  BY <1>3, <1>4
<1>9. Len(role) + 1 # (IF host.tok = 0 THEN None ELSE host.tok)
  BY <1>3, <1>6
<1>10. Len(role) + 1 \notin {t \in 1 .. host.tok - 1 : ran[t] = None}
  BY <1>3
<1>11. PICK n \in Token : n = Len(role) + 1
  BY <1>5
<1>12. Call!Ask(n)
  BY <1>2, <1>4, <1>7, <1>8, <1>9, <1>10, <1>11, Zenon DEF Call!Ask
<1>13. QED
  BY <1>12, Zenon DEF Call!CallNext

(* What the page may have heard: nothing that ends its wait, a             *)
(* contradiction, or what the board decided.                               *)
LEMMA HearsAnswer ==
  ASSUME NEW h \in HostRec, NEW f \in Frame, NEW R, R[h.tok] \in Outcome \cup {None},
         FrameTrue(f, R), HostTrue(h, R), NEW g, Hears(h, f, g)
  PROVE  \/ g.open = h.open /\ g.answer = h.answer
         \/ /\ h.open /\ g.open = FALSE /\ f.tok = h.tok
            /\ h.status # None \/ h.result # None
            /\ g.answer = h.answer \/ (R[h.tok] # None /\ g.answer = R[h.tok])
<1>1. CASE g = h
  BY <1>1
<1>2. CASE g = [h EXCEPT !.open = FALSE] /\ g # h
  <2>1. g \in HostRec /\ ~g.open /\ g.answer = h.answer
    BY <1>2, ClosedNow
  <2>2. CASE h.open /\ f.tok = h.tok /\ (h.status # None \/ h.result # None)
    BY <2>1, <2>2 DEF HostRec
  <2>3. CASE ~(h.open /\ f.tok = h.tok /\ (h.status # None \/ h.result # None))
    <3>1. PICK status, result :
            /\ h.open /\ f.tok = h.tok
            /\ status = h.status \/ (f.type = "ACK_META" /\ status = f.status)
            /\ result = h.result \/ (f.type = "ACK_VALUE" /\ result = f.result)
            /\ \/ g = Partial(h, status, result)
               \/ /\ status # None /\ result # None
                  /\ g = Answered(h, [status |-> status, result |-> result])
      BY <1>2, <2>3, Zenon DEF Hears
    <3>2. h.status = None /\ h.result = None
      BY <2>3, <3>1
    <3>3. g = Partial(h, status, result)
      BY <3>1, <3>2
    <3>4. /\ f.type = "ACK_META" => f.status \in Status
          /\ f.type = "ACK_VALUE" => f.result \in Results \cup {0}
      BY FrameFields
    <3>5. status \in Status \cup {None} /\ result \in Results \cup {0, None}
      BY <3>1, <3>4 DEF HostRec
    <3>6. g.open = h.open
      BY <3>3, <3>5, PartialFields
    <3>7. QED
      BY <2>1, <3>1, <3>6
  <2>4. QED
    BY <2>2, <2>3
<1>3. CASE g # h /\ g # [h EXCEPT !.open = FALSE]
  <2>1. PICK status, result :
          /\ h.open /\ f.tok = h.tok
          /\ status = h.status \/ (f.type = "ACK_META" /\ status = f.status)
          /\ result = h.result \/ (f.type = "ACK_VALUE" /\ result = f.result)
          /\ \/ g = Partial(h, status, result)
             \/ /\ status # None /\ result # None
                /\ g = Answered(h, [status |-> status, result |-> result])
    BY <1>3, Zenon DEF Hears
  <2>2. /\ f.type = "ACK_META" => f.status \in Status
        /\ f.type = "ACK_VALUE" => f.result \in Results \cup {0}
    BY FrameFields
  <2>3. status \in Status \cup {None} /\ result \in Results \cup {0, None}
    BY <2>1, <2>2 DEF HostRec
  <2>4. CASE g = Partial(h, status, result)
    <3>1. g.open = h.open /\ g.answer = h.answer
      BY <2>3, <2>4, PartialFields
    <3>2. QED
      BY <3>1
  <2>5. CASE /\ status # None /\ result # None
             /\ g = Answered(h, [status |-> status, result |-> result])
    <3> DEFINE out == [status |-> status, result |-> result]
    <3>1. out \in Outcome
      BY <2>3, <2>5 DEF Outcome
    <3>2. g \in HostRec /\ ~g.open /\ g.answer = out
      BY <2>5, <3>1, AnsweredFields
    <3>3. R[h.tok] # None /\ R[h.tok].status = status /\ R[h.tok].result = result
      BY <2>1, <2>5 DEF HostTrue, FrameTrue
    <3>4. R[h.tok] = out
      BY <3>3 DEF Outcome
    <3>5. h.status # None \/ h.result # None
      BY <2>1, <2>5
    <3> HIDE DEF out
    <3>6. g.open = FALSE
      BY <3>2 DEF HostRec
    <3>7. QED
      BY <2>1, <3>2, <3>3, <3>4, <3>5, <3>6
  <2>6. QED
    BY <2>1, <2>4, <2>5
<1>4. QED
  BY <1>1, <1>2, <1>3

LEMMA TaskRefines ==
  ASSUME CallIInv, NEW b \in Board, NEW expired \in BOOLEAN, Task(b, expired)
  PROVE  Call!CallNext \/ UNCHANGED Call!callVars
<1>1. /\ ConfirmIInv /\ Counts /\ HostOK /\ host \in HostRec /\ HostTrue(host, ran)
      /\ host.tok = Len(role) /\ Len(role) \in Nat /\ Len(ran) = Len(role)
      /\ ran \in Seq(Outcome \cup {None})
  BY DEF CallIInv, ConfirmIInv, HostOK, Counts, Truth
<1>2. PICK t, r : Passes(b, t, r)
  BY <1>1, TaskPasses
<1>3. /\ Sends(b, r) /\ Keeps(ran, ran') /\ TransOK(b, r.cur)
      /\ ran' = ran \/ \E u : Settles(b, u, r)
  BY <1>1, <1>2, PassSends, PassKeeps, PassCall, LiveParts DEF Passes
<1>4. ran' \in Seq(Outcome \cup {None}) /\ Len(ran') = Len(role)
  <2>1. ran' = Decided(b, r.prev) /\ r.prev \in Cached
    BY <1>2, LiveParts DEF Passes, CacheOK
  <2>2. QED
    BY <1>1, <2>1, DecidedType
<1>5. HostTrue(host, ran')
  BY <1>1, <1>3, HostGrows
<1>6. host'.tok = host.tok /\ host'.again = host.again
  <2>1. CASE host' = host
    BY <2>1
  <2>2. CASE r.cur.phase = "REPLYING" /\ Hears(host, Packet(r.cur), host')
    BY <1>1, <1>2, <2>2, PacketTrue, HearsHost
  <2>3. QED
    BY <1>3, <2>1, <2>2 DEF Sends
<1>7. \/ host'.open = host.open /\ host'.answer = host.answer
      \/ /\ host.open /\ host'.open = FALSE /\ r.cur.phase = "REPLYING"
         /\ r.cur.tok = host.tok /\ host.tok # 0 /\ ran[host.tok] # None
         /\ host'.answer = host.answer \/ host'.answer = ran'[host.tok]
  <2>1. CASE host' = host
    BY <2>1
  <2>2. CASE r.cur.phase = "REPLYING" /\ Hears(host, Packet(r.cur), host')
    <3>1. /\ Packet(r.cur) \in Frame /\ FrameTrue(Packet(r.cur), ran')
          /\ Packet(r.cur).tok = r.cur.tok /\ r.cur.tok \in 1 .. Len(role)
      BY <1>2, <2>2, PacketTrue
    <3>2. CASE host.tok = 0
      <4>1. host.status = None /\ host.result = None /\ Packet(r.cur).tok # host.tok
        BY <1>1, <3>1, <3>2 DEF HostTrue
      <4>2. host' = host
        BY <2>2, <4>1, Zenon DEF Hears
      <4>3. QED
        BY <4>2
    <3>3. CASE host.tok # 0
      <4>1. ran'[host.tok] \in Outcome \cup {None}
        BY <1>1, <1>4, <3>3
      <4>2. \/ host'.open = host.open /\ host'.answer = host.answer
            \/ /\ host.open /\ host'.open = FALSE /\ Packet(r.cur).tok = host.tok
               /\ host.status # None \/ host.result # None
               /\ \/ host'.answer = host.answer
                  \/ ran'[host.tok] # None /\ host'.answer = ran'[host.tok]
        BY <1>1, <1>5, <2>2, <3>1, <4>1, HearsAnswer
      <4>3. host.status # None \/ host.result # None => ran[host.tok] # None
        BY <1>1 DEF HostTrue
      <4>4. QED
        BY <2>2, <3>1, <3>3, <4>2, <4>3
    <3>4. QED
      BY <3>2, <3>3
  <2>3. QED
    BY <1>3, <2>1, <2>2 DEF Sends
<1>8. CASE ran' = ran /\ host'.open = host.open /\ host'.answer = host.answer
  BY <1>6, <1>8, Unseen
<1>9. CASE ran' = ran /\ ~(host'.open = host.open /\ host'.answer = host.answer)
  <2>1. /\ host.open /\ host'.open = FALSE /\ host.tok # 0 /\ ran[host.tok] # None
        /\ host'.answer = host.answer \/ host'.answer = ran'[host.tok]
    BY <1>7, <1>9
  <2>2. CASE host'.answer = host.answer
    BY <1>6, <1>9, <2>1, <2>2, GivesUp
  <2>3. CASE host'.answer = ran'[host.tok]
    <3>1. Call!Answer
      BY <1>6, <1>9, <2>1, <2>3 DEF Call!Answer
    <3>2. QED
      BY <3>1 DEF Call!CallNext
  <2>4. QED
    BY <2>1, <2>2, <2>3
<1>10. ASSUME NEW u, Settles(b, u, r)
       PROVE  Call!CallNext
  <2>1. PICK out \in Outcome : ran' = [ran EXCEPT ![u] = out]
    BY <1>10 DEF Settles
  <2>2. /\ u \in 1 .. Len(role) /\ ran[u] = None
        /\ r.cur.phase = "IDLE" \/ (r.cur.phase = "REPLYING" /\ r.cur.tok = u)
    BY <1>10 DEF Settles
  <2>3. host'.open = host.open /\ host'.answer = host.answer
    BY <1>7, <2>2
  <2>4. host.tok # 0 /\ host.tok \in 1 .. Len(role)
    BY <1>1, <2>2
  <2>5. ran'[u] = out /\ \A v \in 1 .. Len(role) : v # u => ran'[v] = ran[v]
    BY <1>1, <2>1, <2>2
  <2>6. None \notin Nat /\ out # None
    BY ConfirmAssumption
  <2>7. CASE u = host.tok
    <3>1. {v \in 1 .. host'.tok - 1 : ran'[v] = None} = {v \in 1 .. host.tok - 1 : ran[v] = None}
      BY <1>1, <1>6, <2>5, <2>7
    <3>2. Call!Decide
      BY <1>1, <1>6, <2>2, <2>3, <2>4, <2>5, <2>6, <2>7, <3>1 DEF Call!Decide
    <3>3. QED
      BY <3>2 DEF Call!CallNext
  <2>8. CASE u # host.tok
    <3>1. u \in {v \in 1 .. host.tok - 1 : ran[v] = None}
      BY <1>1, <2>2, <2>8
    <3>2. {v \in 1 .. host'.tok - 1 : ran'[v] = None}
            = {v \in 1 .. host.tok - 1 : ran[v] = None} \ {u}
      BY <1>1, <1>6, <2>2, <2>5, <2>6
    <3>3. ran'[host.tok] = ran[host.tok]
      BY <2>4, <2>5, <2>8
    <3>4. Call!DecideLate
      BY <1>6, <2>3, <3>1, <3>2, <3>3 DEF Call!DecideLate
    <3>5. QED
      BY <3>4 DEF Call!CallNext
  <2>9. QED
    BY <2>7, <2>8
<1>11. QED
  BY <1>3, <1>8, <1>9, <1>10

LEMMA NextRefines ==
  ASSUME ~Retries, CallIInv, [Next]_vars
  PROVE  Call!CallNext \/ UNCHANGED Call!callVars
<1>1. ConfirmIInv /\ ConfirmIInv'
  BY NextIInv DEF CallIInv
<1>2. HostOK /\ HostOK'
  BY <1>1 DEF ConfirmIInv
<1>3. ASSUME NEW b \in Board, Task(b, FALSE) \/ Task(b, TRUE)
      PROVE  Call!CallNext \/ UNCHANGED Call!callVars
  BY <1>3, TaskRefines
<1>4. ASSUME NEW b \in Board, HostAsk(b)
      PROVE  Call!CallNext \/ UNCHANGED Call!callVars
  BY <1>1, <1>4, AskRefines
<1>5. CASE HostSend
  BY <1>1, <1>5, SendRefines
<1>6. CASE \/ \E b \in Board : Lose(b) \/ Restart(b)
           \/ HostTimeout \/ Disconnect \/ UNCHANGED vars
  BY <1>1, <1>2, <1>6, LessIsFewer, FewerRefines
<1>7. ~HostRepeat(0) /\ ~HostRepeat(3)
  BY DEF HostRepeat
<1>8. QED
  BY <1>3, <1>4, <1>5, <1>6, <1>7 DEF Next

LEMMA InitRefines == Init => Call!CallInit
<1> SUFFICES ASSUME Init PROVE Call!CallInit
  OBVIOUS
<1>1. host = Closed
  BY DEF Init
<1>2. /\ Closed.tok = 0 /\ Closed.open = FALSE /\ Closed.again = FALSE
      /\ Closed.answer = None
  BY DEF Closed
<1>3. {t \in 1 .. host.tok - 1 : ran[t] = None} = {}
  BY <1>1, <1>2
<1>4. QED
  BY <1>1, <1>2, <1>3 DEF Call!CallInit

(* ImplementsCall, for the page as it is (it never repeats a request):     *)
(* over any number of requests, lost packets, full queues, expiries,       *)
(* disconnections and resets of either board, a board decides a request    *)
(* once at most, possibly after the page has given up, and the page hears  *)
(* that decision or nothing.                                               *)
THEOREM PageCallsImplementCall == ~Retries => (Spec => ImplementsCall)
<1> SUFFICES ASSUME ~Retries PROVE Spec => ImplementsCall
  OBVIOUS
<1>1. Init => Call!CallInit
  BY InitRefines
<1>2. CallIInv /\ [Next]_vars => [Call!CallNext]_(Call!callVars)
  BY NextRefines
<1>3. Spec => []CallIInv
  BY CallInvariance
<1>4. QED
  BY <1>1, <1>2, <1>3, PTL DEF Spec, ImplementsCall, Call!CallSpec

=============================================================================
