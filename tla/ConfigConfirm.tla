---------------------------- MODULE ConfigConfirm ----------------------------
(***************************************************************************)
(* The confirmed configuration service (config_confirm.c) of both boards,  *)
(* and the page (script.js) at the USB port of one of them, the bridge.    *)
(* A request is four frames (META, LO, HI, EXEC) under a token; the bridge *)
(* runs it or forwards it to its peer, which answers with two frames       *)
(* (ACK_META, ACK_VALUE).  Each board remembers its last outcome and       *)
(* answers a repetition from there.                                        *)
(*                                                                         *)
(* The page draws a new token for every request, and the link checks every *)
(* frame, so frames with one token never differ in content: the contents   *)
(* are left out, and so are the checks that compare them.  Which settings  *)
(* a request changes is the subject of ConfigStore; here running it gives  *)
(* any outcome.  Time is left out: a transaction may expire at any moment. *)
(***************************************************************************)
EXTENDS Integers, Sequences, SequencesExt

CONSTANTS
  Bridge,       \* the board whose host shows the page
  Results,      \* values a successful request may return
  None,         \* no outcome yet
  IngressCap,   \* ingress queue of the service: 8 in the firmware
  Retries,      \* FALSE: the page; TRUE: a client that also repeats its requests
  MaxAttempts,  \* bound: requests and repetitions of one
  MaxTrouble    \* bound: packets lost, USB disconnections and resets, together

Board == {0, 1}
Peer(b) == 1 - b
Token == 1 .. MaxAttempts

(* An outcome is a status and a result.  REJECTED stands for INVALID, BUSY, *)
(* CONFLICT and FLASH_MISMATCH.                                            *)
Status == {"OK", "REJECTED", "EXPIRED", "INCOMPLETE"}
Outcome == [status : Status, result : Results \cup {0}]
Executed == [status : {"OK"}, result : Results] \cup [status : {"REJECTED"}, result : {0}]
Fails(s) == [status |-> s, result |-> 0]

ASSUME ConfirmAssumption ==
  /\ Bridge \in Board /\ Results \subseteq Nat
  /\ None \notin Outcome \cup Nat \cup Status
  /\ IngressCap \in Nat \ {0} /\ Retries \in BOOLEAN
  /\ MaxAttempts \in Nat /\ MaxTrouble \in Nat

VARIABLES
  cur,       \* cur[b]: current, the transaction the service works on
  prev,      \* prev[b]: previous, the last outcome; token 0 if there is none
  ingress,   \* ingress[b]: the packets on their way into the service of b
  epoch,     \* usb_epoch of the bridge
  role,      \* role[t]: the board request t is for
  host,      \* the page
  ran,       \* ran[t]: what the board role[t] decided about t (history)
  ended,     \* requests up to this one belong to USB sessions that ended (history)
  attempts,  \* requests and repetitions so far
  trouble    \* packets lost, disconnections and resets so far

vars == <<cur, prev, ingress, epoch, role, host, ran, ended, attempts, trouble>>

service == <<cur, prev>>
bounds == <<attempts, trouble>>

Parts == {"LO", "HI"}
Steps == <<"META", "LO", "HI", "EXEC">>
Asking == {"META", "LO", "HI", "EXEC"}

Frame ==
  [type : Asking, tok : Token] \cup [type : {"ACK_META"}, tok : Token, status : Status]
    \cup [type : {"ACK_VALUE"}, tok : Token, result : Results \cup {0}]

Transaction ==
  [phase : {"IDLE", "ASSEMBLING", "FORWARDING", "WAITING", "REPLYING"},
   tok : Token \cup {0}, parts : SUBSET Parts, usb : BOOLEAN, epoch : 0 .. MaxTrouble,
   step : 0 .. 3, replay : BOOLEAN, status : Status \cup {None}, out : Outcome \cup {None}]

Cached ==
  [tok : Token \cup {0}, usb : BOOLEAN, epoch : 0 .. MaxTrouble, out : Outcome \cup {None}]

Item == [frame : Frame, usb : BOOLEAN, epoch : 0 .. MaxTrouble]

Nothing ==
  [phase |-> "IDLE", tok |-> 0, parts |-> {}, usb |-> FALSE, epoch |-> 0, step |-> 0,
   replay |-> FALSE, status |-> None, out |-> None]

Forgotten == [tok |-> 0, usb |-> FALSE, epoch |-> 0, out |-> None]

(* recalled: no reset has wiped what the boards remember of the request.   *)
Closed == [tok |-> 0, open |-> FALSE, again |-> FALSE, recalled |-> FALSE, sent |-> 4,
           status |-> None, result |-> None, answer |-> None]

Init ==
  /\ cur = [b \in Board |-> Nothing]
  /\ prev = [b \in Board |-> Forgotten]
  /\ ingress = [b \in Board |-> <<>>]
  /\ epoch = 0
  /\ role = <<>> /\ ran = <<>>
  /\ host = Closed
  /\ ended = 0 /\ attempts = 0 /\ trouble = 0

ConfirmTypeOK ==
  /\ cur \in [Board -> Transaction] /\ prev \in [Board -> Cached]
  /\ ingress \in [Board -> Seq(Item)] /\ epoch \in 0 .. MaxTrouble
  /\ role \in Seq(Board) /\ ran \in Seq(Outcome \cup {None}) /\ Len(ran) = Len(role)
  /\ host.tok \in 0 .. Len(role) /\ Len(role) <= MaxAttempts
  /\ \A b \in Board : Len(ingress[b]) <= IngressCap
  /\ ended \in 0 .. MaxAttempts
  /\ attempts \in 0 .. MaxAttempts /\ trouble \in 0 .. MaxTrouble

-----------------------------------------------------------------------------
(* The service on one board: operators on s = [cur, prev]. *)

Abandon(s) == [s EXCEPT !.cur = Nothing]

(* finish: a repetition does not destroy the outcome it repeats. *)
Finish(s, out) ==
  [cur  |-> [s.cur EXCEPT !.phase = "REPLYING", !.step = 0, !.out = out],
   prev |-> IF s.cur.replay THEN s.prev
            ELSE [tok |-> s.cur.tok, usb |-> s.cur.usb, epoch |-> s.cur.epoch, out |-> out]]

(* Mutant: a request is taken for a new one whenever it is complete. *)
RemembersNothing(s, i) == FALSE

(* The outcome remembered is the one of this request, of this USB session. *)
Remembers(s, i) ==
  /\ s.prev.tok = i.frame.tok /\ s.prev.usb = i.usb
  /\ i.usb => s.prev.epoch = i.epoch

(* execute *)
Execute(b, s) ==
  CASE s.cur.parts # Parts -> IF role[s.cur.tok] = b THEN {Finish(s, Fails("INCOMPLETE"))}
                              ELSE {Abandon(s)}
    [] s.cur.parts = Parts /\ s.cur.replay -> {Finish(s, s.prev.out)}
    [] s.cur.parts = Parts /\ ~s.cur.replay /\ role[s.cur.tok] # b ->
         IF s.cur.usb THEN {[s EXCEPT !.cur.phase = "FORWARDING", !.cur.step = 0]}
         ELSE {Abandon(s)}
    [] OTHER -> {Finish(s, out) : out \in Executed}

(* A peer's receipt, for the request this board has forwarded. *)
Acknowledge(b, s, i) ==
  IF i.usb \/ s.cur.phase # "WAITING" \/ i.frame.tok # s.cur.tok THEN s
  ELSE IF i.frame.type = "ACK_META"
  THEN IF s.cur.status \notin {None, i.frame.status} THEN Abandon(s)
       ELSE [s EXCEPT !.cur.status = i.frame.status]
  ELSE IF s.cur.status = None THEN s
  ELSE Finish(s, [status |-> s.cur.status, result |-> i.frame.result])

Assemble(b, s, i) ==
  IF s.cur.phase # "IDLE" \/ (~i.usb /\ role[i.frame.tok] # b) THEN s
  ELSE [s EXCEPT !.cur = [Nothing EXCEPT !.phase = "ASSEMBLING", !.tok = i.frame.tok,
                                         !.usb = i.usb, !.epoch = i.epoch,
                                         !.replay = Remembers(s, i)]]

(* EXEC alone repeats the last request. *)
Repeats(s, i) ==
  s.cur.phase = "IDLE" /\ i.frame.type = "EXEC" /\ Remembers(s, i)

Belongs(s, i) ==
  s.cur.phase = "ASSEMBLING" /\ s.cur.tok = i.frame.tok /\ s.cur.usb = i.usb

(* receive: the states the service may be in after it has taken item i. *)
Receive(b, s, i) ==
  IF i.usb /\ i.epoch # epoch THEN {s}
  ELSE IF i.frame.type \notin Asking THEN {Acknowledge(b, s, i)}
  ELSE IF i.frame.type = "META" THEN {Assemble(b, s, i)}
  ELSE IF Repeats(s, i)
  THEN {Finish([s EXCEPT !.cur = [Nothing EXCEPT !.tok = i.frame.tok, !.usb = i.usb,
                                                 !.epoch = i.epoch, !.replay = TRUE]],
               s.prev.out)}
  ELSE IF ~Belongs(s, i) THEN {s}
  ELSE IF i.frame.type = "EXEC" THEN Execute(b, s)
  ELSE {[s EXCEPT !.cur.parts = @ \cup {i.frame.type}]}

(* Mutant: a transaction outlives the USB session it belongs to. *)
CancelNothing(s) == s

(* The host has gone: so has what it asked for. *)
Cancel(s) ==
  IF s.cur.phase # "IDLE" /\ s.cur.usb /\ s.cur.epoch # epoch THEN Abandon(s) ELSE s

(* Mutant: a bridge waits for its peer's receipt as long as it takes. *)
ExpireButWaiting(b, s) ==
  IF s.cur.phase = "WAITING" THEN s
  ELSE IF s.cur.phase = "REPLYING" \/ role[s.cur.tok] # b THEN Abandon(s)
  ELSE Finish(s, Fails("EXPIRED"))

(* Two seconds are over.  Only the board the request is for answers. *)
Expire(b, s) ==
  IF s.cur.phase = "REPLYING" \/ role[s.cur.tok] # b THEN Abandon(s)
  ELSE Finish(s, Fails("EXPIRED"))

(* transport: one packet of a request to forward or of an answer. *)
Packet(c) ==
  IF c.phase = "FORWARDING" THEN [type |-> Steps[c.step + 1], tok |-> c.tok]
  ELSE IF c.step = 0 THEN [type |-> "ACK_META", tok |-> c.tok, status |-> c.out.status]
  ELSE [type |-> "ACK_VALUE", tok |-> c.tok, result |-> c.out.result]

Sent(c) ==
  IF c.phase = "FORWARDING"
  THEN IF c.step = 3 THEN [c EXCEPT !.phase = "WAITING", !.step = 0]
       ELSE [c EXCEPT !.step = @ + 1]
  ELSE IF c.step = 1 THEN Nothing ELSE [c EXCEPT !.step = 1]

(* Mutant: the queue is filled without a look at its size. *)
EnqueueAlways(q, b, item) == [q EXCEPT ![b] = Append(@, item)]

(* enqueue: a full queue drops the packet. *)
Enqueue(q, b, item) ==
  [q EXCEPT ![b] = IF Len(@) < IngressCap THEN Append(@, item) ELSE @]

(* configAcknowledgement of the page: both halves, and no contradiction. *)
Heard(h, f) ==
  IF ~h.open \/ f.tok # h.tok THEN h
  ELSE LET status == IF f.type = "ACK_META" THEN f.status ELSE h.status
           result == IF f.type = "ACK_VALUE" THEN f.result ELSE h.result
       IN  IF h.status \notin {None, status} \/ h.result \notin {None, result}
           THEN [h EXCEPT !.open = FALSE]
           ELSE IF status = None \/ result = None
           THEN [h EXCEPT !.status = status, !.result = result]
           ELSE [h EXCEPT !.open = FALSE, !.answer = [status |-> status, result |-> result]]

(* transport.  When the queue towards the host or the peer has no room the *)
(* packet is tried again at the next pass, and this one ignores what it    *)
(* takes: Lose has that effect, as often as MaxTrouble allows.  What       *)
(* reaches the peer goes through handle_config_confirm_msg into its        *)
(* ingress queue.                                                          *)
Transport(b, c, q) ==
  \/ /\ c.phase \notin {"FORWARDING", "REPLYING"}
     /\ cur' = [cur EXCEPT ![b] = c] /\ ingress' = q /\ UNCHANGED host
  \/ /\ c.phase = "REPLYING" /\ c.usb
     /\ cur' = [cur EXCEPT ![b] = Sent(c)]
     /\ host' = Heard(host, Packet(c)) /\ ingress' = q
  \/ /\ c.phase = "FORWARDING" \/ (c.phase = "REPLYING" /\ ~c.usb)
     /\ cur' = [cur EXCEPT ![b] = Sent(c)]
     /\ ingress' = Enqueue(q, Peer(b), [frame |-> Packet(c), usb |-> FALSE, epoch |-> 0])
     /\ UNCHANGED host

(* config_confirm_task on core 0.  The board a request is for decides it   *)
(* when it finishes it for the first time.                                 *)
Decided(b, p) ==
  IF p = prev[b] \/ role[p.tok] # b THEN ran ELSE [ran EXCEPT ![p.tok] = p.out]

(* What the peer assembles began earlier at the bridge, whose two seconds  *)
(* are over first, unless the bridge has the repetition and the peer still *)
(* the first attempt.                                                      *)
MayExpire(b) ==
  b # Bridge /\ (host.again => cur[b].replay)
    => cur[Bridge].tok # cur[b].tok \/ cur[Bridge].phase \notin {"FORWARDING", "WAITING"}

Task(b, expired) ==
  /\ expired => cur[b].phase # "IDLE" /\ MayExpire(b)
  /\ LET s == Cancel([cur |-> cur[b], prev |-> prev[b]])
         t == IF expired /\ s.cur.phase # "IDLE" THEN Expire(b, s) ELSE s
         q == [ingress EXCEPT ![b] = IF @ = <<>> THEN @ ELSE Tail(@)]
     IN  \E r \in IF ingress[b] = <<>> THEN {t} ELSE Receive(b, t, Head(ingress[b])) :
           /\ prev' = [prev EXCEPT ![b] = r.prev]
           /\ ran' = Decided(b, r.prev)
           /\ Transport(b, r.cur, q)
  /\ UNCHANGED <<epoch, role, ended, bounds>>

Trouble == trouble < MaxTrouble /\ trouble' = trouble + 1

(* A packet is lost on the link, or it is two seconds old when it is taken. *)
Lose(b) ==
  /\ ingress[b] # <<>> /\ Trouble
  /\ ingress' = [ingress EXCEPT ![b] = Tail(@)]
  /\ UNCHANGED <<service, epoch, role, host, ran, ended, attempts>>

-----------------------------------------------------------------------------
(* The page. *)

(* confirmedConfigOperation: one at a time, each with a token of its own. *)
HostAsk(b) ==
  /\ ~host.open /\ attempts < MaxAttempts /\ attempts' = attempts + 1
  /\ role' = Append(role, b)
  /\ ran' = Append(ran, None)
  /\ host' = [Closed EXCEPT !.tok = Len(role) + 1, !.open = TRUE, !.sent = 0, !.recalled = TRUE]
  /\ UNCHANGED <<service, ingress, epoch, ended, trouble>>

HostSend ==
  /\ host.open /\ host.sent < 4
  /\ ingress' = Enqueue(ingress, Bridge,
                        [frame |-> [type |-> Steps[host.sent + 1], tok |-> host.tok],
                         usb |-> TRUE, epoch |-> epoch])
  /\ host' = [host EXCEPT !.sent = @ + 1]
  /\ UNCHANGED <<service, epoch, role, ran, ended, bounds>>

(* Not the page, but a client as in tests/sim/test_config_confirm.py: the  *)
(* last request once more, whole or only its EXEC.  What a board remembers *)
(* is gone after a reset, so nobody repeats a request across one.          *)
HostRepeat(from) ==
  /\ Retries /\ host.recalled /\ host.sent = 4 /\ ~host.again /\ attempts < MaxAttempts
  /\ host' = [host EXCEPT !.open = TRUE, !.again = TRUE, !.sent = from, !.status = None,
                          !.result = None, !.answer = None]
  /\ attempts' = attempts + 1
  /\ UNCHANGED <<service, ingress, epoch, role, ran, ended, trouble>>

(* Three seconds without an answer: the outcome is unknown, and frames not *)
(* sent yet stay unsent.                                                   *)
HostTimeout ==
  /\ host.open
  /\ host' = [host EXCEPT !.open = FALSE, !.sent = 4]
  /\ UNCHANGED <<service, ingress, epoch, role, ran, ended, bounds>>

-----------------------------------------------------------------------------

(* tud_umount_cb calls config_confirm_usb_disconnect; the page cancels. *)
Disconnect ==
  /\ Trouble
  /\ epoch' = epoch + 1
  /\ prev' = [prev EXCEPT ![Bridge] = IF @.usb THEN Forgotten ELSE @]
  /\ host' = [host EXCEPT !.open = FALSE, !.sent = 4, !.recalled = FALSE]
  /\ ended' = Len(role)
  /\ UNCHANGED <<cur, ingress, role, ran, attempts>>

(* A board restarts: config_confirm_init.  What it remembers is lost, so   *)
(* that a repetition under way might run again: not while there is one.    *)
Restart(b) ==
  /\ ~host.again /\ Trouble
  /\ cur' = [cur EXCEPT ![b] = Nothing]
  /\ prev' = [prev EXCEPT ![b] = Forgotten]
  /\ ingress' = [ingress EXCEPT ![b] = <<>>]
  /\ IF b = Bridge
     THEN /\ epoch' = 0 /\ ended' = Len(role)
          /\ host' = [host EXCEPT !.open = FALSE, !.sent = 4, !.recalled = FALSE]
     ELSE host' = [host EXCEPT !.recalled = FALSE] /\ UNCHANGED <<epoch, ended>>
  /\ UNCHANGED <<role, ran, attempts>>

Next ==
  \/ \E b \in Board : Task(b, FALSE) \/ Task(b, TRUE) \/ Lose(b) \/ HostAsk(b) \/ Restart(b)
  \/ HostSend \/ HostRepeat(0) \/ HostRepeat(3) \/ HostTimeout \/ Disconnect

(* Core 0 runs the task every millisecond, and its clock goes on: two      *)
(* seconds are over at some time.                                          *)
Fairness == \A b \in Board : WF_vars(Task(b, TRUE))

Spec == Init /\ [][Next]_vars /\ Fairness

-----------------------------------------------------------------------------
(* Properties. *)

Call == INSTANCE ConfirmedCall
  WITH Call <- Token,
       call <- IF host.tok = 0 THEN None ELSE host.tok,
       open <- host.open, again <- host.again, answer <- host.answer,
       outcome <- IF host.tok = 0 THEN None ELSE ran[host.tok],
       late <- {t \in 1 .. host.tok - 1 : ran[t] = None}

(* The promise of ConfirmedCall is kept: over lost and late packets, full  *)
(* queues, expiries, disconnections and resets of either board, the board  *)
(* a request is for decides it at most once, and what the page hears is    *)
(* that decision.  A client that repeats its request does not make it run  *)
(* twice; what it then hears is the subject of ReceiptsAreWhole.           *)
ImplementsCall == Call!CallSpec

(* What the comment in receive says (config_confirm.c:184, "Do not combine *)
(* one status with another value"): the answer a bridge passes on is one   *)
(* that the peer gave, its decision or, for a repetition that was cut      *)
(* short, EXPIRED or INCOMPLETE.  True of the page; not of a client that   *)
(* repeats its requests, since receipts are told apart by the token alone. *)
ReceiptsAreWhole ==
  LET c == cur[Bridge]
  IN  c.phase = "REPLYING" /\ role[c.tok] # Bridge
        => c.out \in {ran[c.tok], Fails("EXPIRED"), Fails("INCOMPLETE")}

(* Once a USB session has ended (tud_umount_cb, or a reset of the bridge), *)
(* nothing it asked for starts any more: the bridge neither runs its       *)
(* requests nor forwards another packet of them.                           *)
EndedSessionsAreInert ==
  [][\A t \in 1 .. ended :
       /\ role[t] = Bridge => ran'[t] = ran[t]
       /\ Len(ingress'[Peer(Bridge)]) > Len(ingress[Peer(Bridge)])
            => \/ Last(ingress'[Peer(Bridge)]).frame.tok # t
               \/ Last(ingress'[Peer(Bridge)]).frame.type \notin Asking]_vars

(* No transaction holds a service for good, whatever the other board, the  *)
(* link or the host does: the next request finds it free.                  *)
ServiceFrees == \A b \in Board : []<>(cur[b].phase = "IDLE")
=============================================================================
