-------------------------- MODULE MaintenanceProofs --------------------------
(***************************************************************************)
(* For all queue lengths, and any number of requests, pulls, resets and    *)
(* lost frames: a reserved board stays safe to reset, no board resets into *)
(* its ROM under a peer that is half way through an image served by it,    *)
(* and a request has no effect that its requester was not told of.         *)
(***************************************************************************)
EXTENDS MCMaintenance, SequenceTheorems, TLAPS

(* A board that has another board's request under way does not admit one,  *)
(* and the flag the other core looks at says what the phases say.          *)
ReservationOK ==
  \A b \in Board :
    /\ reserved[b] = Reserves(client[b], server[b])
    /\ client[b].phase # "IDLE" =>
         ~(server[b].phase # "IDLE" /\ server[b].status = "ACCEPTED")

(* The lease covers a firmware word from the moment it is served to the    *)
(* end of the attempt it is written in, and no board in its ROM has one.   *)
LeaseCovers ==
  \A b \in Board :
    /\ answering[b] \/ InFlight(b, "WORD") \/ pull[Peer(b)] = "dirty" => lease[b]
    /\ rom[b] \in Request => ~lease[b]

(* A phase other than idle is about a request, and only an accepted one is *)
(* drained.                                                                *)
GoodClient == {c \in Client : c.phase # "IDLE" => c.req \in Request}
GoodServer == {s \in Server : /\ s.phase # "IDLE" => s.req \in Request
                              /\ s.phase = "DRAIN" => s.status = "ACCEPTED"}

MaintTypeInv == /\ MaintTypeOK
                /\ client \in [Board -> GoodClient]
                /\ server \in [Board -> GoodServer]

MaintIInv == MaintTypeInv /\ ReservationOK /\ ReservedIsSafe /\ LeaseCovers

-----------------------------------------------------------------------------
(* Records. *)

(* The peer is the other board. *)
LEMMA PeerFacts ==
  ASSUME NEW b \in Board
  PROVE  Peer(b) \in Board /\ Peer(b) # b /\ Peer(Peer(b)) = b
         /\ \A c \in Board : c = b \/ c = Peer(b)
BY DEF Peer, Board

(* What the frames of the protocol are made of. *)
LEMMA FrameFacts ==
  /\ \A r \in Request : [type |-> "REQUEST", req |-> r] \in MaintFrame
  /\ \A r \in Request, s \in Status : [type |-> "ACK", req |-> r, status |-> s] \in MaintFrame
  /\ MaintFrame \subseteq Frame
  /\ [type |-> "UPGRADE"] \in Frame /\ [type |-> "ASK"] \in Frame
  /\ [type |-> "WORD"] \in Frame
  /\ \A f \in Frame : f.type \in {"REQUEST", "ACK"} => f \in MaintFrame
  /\ \A f \in MaintFrame : f.req \in Request
  /\ \A f \in MaintFrame : f.type = "ACK" => f.status \in Status
BY DEF MaintFrame, Frame

(* Neither the absence of a request nor a shortcut is a request. *)
LEMMA RequestFacts ==
  /\ NoRequest \notin Request /\ Shortcut \notin Request
  /\ NoRequest \in AnyRequest /\ Shortcut \in AnyRequest
  /\ Request \subseteq AnyRequest
BY DEF Request, NoRequest, Shortcut, AnyRequest

(* The client's records. *)
LEMMA ClientFacts ==
  /\ NoClient \in GoodClient /\ NoClient.phase = "IDLE"
  /\ \A o \in Outcome : Finished(o) \in GoodClient /\ Finished(o).phase = "IDLE"
  /\ \A c \in GoodClient :
       /\ c.req \in AnyRequest /\ c.result \in Outcome
       /\ [c EXCEPT !.result = "NONE"] \in GoodClient
       /\ [c EXCEPT !.result = "NONE"].phase = c.phase
       /\ [c EXCEPT !.done = TRUE] \in GoodClient
       /\ [c EXCEPT !.done = TRUE].phase = c.phase
       /\ [c EXCEPT !.phase = "IDLE"] \in GoodClient
       /\ [c EXCEPT !.phase = "IDLE"].phase = "IDLE"
       /\ [c EXCEPT !.phase = "REPLY"].phase = "REPLY"
       /\ c.phase # "IDLE" => [c EXCEPT !.phase = "REPLY"] \in GoodClient
<1>1. NoClient \in GoodClient /\ NoClient.phase = "IDLE"
  BY RequestFacts DEF Client, NoClient, Outcome, Status, GoodClient
<1>2. ASSUME NEW o \in Outcome
      PROVE  Finished(o) \in GoodClient /\ Finished(o).phase = "IDLE"
  BY <1>1 DEF Client, NoClient, Finished, GoodClient
<1>3. ASSUME NEW c \in GoodClient
      PROVE  /\ c.req \in AnyRequest /\ c.result \in Outcome
             /\ [c EXCEPT !.result = "NONE"] \in GoodClient
             /\ [c EXCEPT !.result = "NONE"].phase = c.phase
             /\ [c EXCEPT !.done = TRUE] \in GoodClient
             /\ [c EXCEPT !.done = TRUE].phase = c.phase
             /\ [c EXCEPT !.phase = "IDLE"] \in GoodClient
             /\ [c EXCEPT !.phase = "IDLE"].phase = "IDLE"
             /\ [c EXCEPT !.phase = "REPLY"].phase = "REPLY"
             /\ c.phase # "IDLE" => [c EXCEPT !.phase = "REPLY"] \in GoodClient
  BY DEF Client, Outcome, GoodClient
<1> QED BY <1>1, <1>2, <1>3

(* The server's records. *)
LEMMA ServerFacts ==
  /\ NoServer \in GoodServer /\ NoServer.phase = "IDLE"
  /\ \A s \in GoodServer :
       /\ s.req \in AnyRequest /\ s.status \in Status
       /\ [s EXCEPT !.phase = "IDLE"] \in GoodServer
       /\ [s EXCEPT !.phase = "IDLE"].phase = "IDLE"
BY RequestFacts DEF Server, NoServer, Status, GoodServer

(* The server queues its answer. *)
LEMMA ServerQueued ==
  ASSUME NEW s \in GoodServer, NEW p \in {"DRAIN", "IDLE"}, s.phase # "IDLE",
         p = "DRAIN" => s.status = "ACCEPTED"
  PROVE  /\ [s EXCEPT !.phase = p, !.queued = TRUE] \in GoodServer
         /\ [s EXCEPT !.phase = p, !.queued = TRUE].phase = p
         /\ [s EXCEPT !.phase = p, !.queued = TRUE].status = s.status
         /\ [s EXCEPT !.phase = p, !.queued = TRUE].req = s.req
         /\ [s EXCEPT !.phase = p, !.queued = TRUE].sent = s.sent
BY DEF Server, GoodServer

(* The answer leaves the queue. *)
LEMMA ServerSent ==
  ASSUME NEW s \in GoodServer, NEW t \in BOOLEAN
  PROVE  /\ [s EXCEPT !.queued = FALSE, !.sent = t] \in GoodServer
         /\ [s EXCEPT !.queued = FALSE, !.sent = t].phase = s.phase
         /\ [s EXCEPT !.queued = FALSE, !.sent = t].status = s.status
         /\ [s EXCEPT !.queued = FALSE, !.sent = t].req = s.req
         /\ [s EXCEPT !.queued = FALSE, !.sent = t].sent = t
BY DEF Server, GoodServer

-----------------------------------------------------------------------------
(* Queues. *)

(* A word in a longer queue was there before, or is the frame added. *)
LEMMA WordAppended ==
  ASSUME NEW q \in Seq(Frame), NEW f \in Frame, Holds(Append(q, f), "WORD")
  PROVE  Holds(q, "WORD") \/ f.type = "WORD"
BY DEF Holds

(* A word behind the head was in the queue. *)
LEMMA WordInTail ==
  ASSUME NEW q \in Seq(Frame), q # <<>>, Holds(Tail(q), "WORD")
  PROVE  Holds(q, "WORD")
<1>1. PICK i \in 1 .. Len(Tail(q)) : Tail(q)[i].type = "WORD"
  BY DEF Holds
<1>2. i + 1 \in 1 .. Len(q) /\ q[i + 1] = Tail(q)[i]
  BY <1>1
<1> QED BY <1>1, <1>2 DEF Holds

(* So was one at the head. *)
LEMMA WordAtHead ==
  ASSUME NEW q \in Seq(Frame), q # <<>>, Head(q).type = "WORD"
  PROVE  Holds(q, "WORD")
<1>1. 1 \in 1 .. Len(q) /\ q[1] = Head(q)
  OBVIOUS
<1> QED BY <1>1 DEF Holds

(* A queue of one frame holds that frame only. *)
LEMMA WordSingle ==
  ASSUME NEW f \in Frame, Holds(<<f>>, "WORD")
  PROVE  f.type = "WORD"
BY DEF Holds

(* A word in two queues joined is in one of them. *)
LEMMA WordJoined ==
  ASSUME NEW q \in Seq(Frame), NEW r \in Seq(Frame), Holds(q \o r, "WORD")
  PROVE  Holds(q, "WORD") \/ Holds(r, "WORD")
<1>1. PICK i \in 1 .. Len(q) + Len(r) : (q \o r)[i].type = "WORD"
  BY DEF Holds
<1>2. CASE i <= Len(q)
  BY <1>1, <1>2 DEF Holds
<1>3. CASE i > Len(q)
  <2>1. i - Len(q) \in 1 .. Len(r) /\ (q \o r)[i] = r[i - Len(q)]
    BY <1>1, <1>3
  <2> QED BY <1>1, <2>1 DEF Holds
<1> QED BY <1>1, <1>2, <1>3

(* The shapes of the queues after the operations on them. *)
LEMMA QueueFacts ==
  ASSUME NEW S, NEW q \in Seq(S), NEW f \in S
  PROVE  /\ Append(q, f) \in Seq(S) /\ Len(Append(q, f)) = Len(q) + 1
         /\ <<f>> \in Seq(S) /\ Len(<<f>>) = 1
         /\ <<>> \in Seq(S) /\ Len(<<>>) = 0
         /\ q # <<>> => /\ Head(q) \in S /\ Tail(q) \in Seq(S)
                       /\ Len(Tail(q)) = Len(q) - 1 /\ Len(q) > 0
OBVIOUS

-----------------------------------------------------------------------------
(* Types. *)

(* A client or server with its request is one. *)
LEMMA Weaken ==
  /\ \A f \in [Board -> GoodClient] : f \in [Board -> Client]
  /\ \A f \in [Board -> GoodServer] : f \in [Board -> Server]
BY DEF GoodClient, GoodServer

(* SetClient keeps the types. *)
LEMMA SetClientType ==
  ASSUME MaintTypeInv, NEW b \in Board, NEW c \in GoodClient, SetClient(b, c)
  PROVE  /\ client' \in [Board -> GoodClient] /\ server' \in [Board -> GoodServer]
         /\ reserved' \in [Board -> BOOLEAN]
BY DEF MaintTypeInv, MaintTypeOK, SetClient, Reserves

(* So does SetServer. *)
LEMMA SetServerType ==
  ASSUME MaintTypeInv, NEW b \in Board, NEW s \in GoodServer, SetServer(b, s)
  PROVE  /\ client' \in [Board -> GoodClient] /\ server' \in [Board -> GoodServer]
         /\ reserved' \in [Board -> BOOLEAN]
BY DEF MaintTypeInv, MaintTypeOK, SetServer, Reserves

(* The console and the client. *)
LEMMA ConsoleType ==
  ASSUME MaintTypeInv, NEW b \in Board,
         \/ \E target \in Board, config \in BOOLEAN : Begin(b, target, config)
         \/ Poll(b) \/ ReplyComplete(b) \/ Cancel(b)
         \/ ClientGivesUp(b) \/ LocalEnter(b)
  PROVE  MaintTypeInv'
<1>1. ASSUME NEW target \in Board, NEW config \in BOOLEAN, Begin(b, target, config)
      PROVE  MaintTypeInv'
  <2>1. events' \in 1 .. MaxEvents
    BY <1>1, MaintAssumption DEF MaintTypeInv, MaintTypeOK, Begin, Event
  <2>2. [from |-> b, n |-> events'] \in Request \cap AnyRequest
    BY <2>1 DEF AnyRequest, Request
  <2>3. [phase |-> IF target = b THEN "LOCAL" ELSE "ADMISSION",
         req |-> [from |-> b, n |-> events'], config |-> config, done |-> FALSE,
         result |-> IF target = b THEN "LOCAL_READY" ELSE "NONE"] \in GoodClient
    BY <2>2 DEF Client, Outcome, GoodClient
  <2>4. /\ client' \in [Board -> GoodClient] /\ server' \in [Board -> GoodServer]
        /\ reserved' \in [Board -> BOOLEAN]
    BY <1>1, <2>3, SetClientType DEF Begin
  <2>5. events' \in 0 .. MaxEvents  BY <2>1
  <2> QED BY <1>1, <2>5, <2>4, Weaken DEF MaintTypeInv, MaintTypeOK, Begin, link, updater
<1>2. CASE Poll(b)
  <2>1. /\ client' \in [Board -> GoodClient] /\ server' \in [Board -> GoodServer]
        /\ reserved' \in [Board -> BOOLEAN]
    BY <1>2, SetClientType, ClientFacts DEF Poll, MaintTypeInv
  <2> QED BY <1>2, <2>1, Weaken DEF MaintTypeInv, MaintTypeOK, Poll, link, updater
<1>3. CASE ReplyComplete(b)
  <2>1. /\ client' \in [Board -> GoodClient] /\ server' \in [Board -> GoodServer]
        /\ reserved' \in [Board -> BOOLEAN]
    BY <1>3, SetClientType, ClientFacts DEF ReplyComplete, MaintTypeInv, MaintTypeOK
  <2> QED BY <1>3, <2>1, Weaken DEF MaintTypeInv, MaintTypeOK, ReplyComplete, link, updater
<1>4. CASE Cancel(b)
  <2>1. Finished("NONE") \in GoodClient
    BY ClientFacts DEF Outcome
  <2>2. /\ client' \in [Board -> GoodClient] /\ server' \in [Board -> GoodServer]
        /\ reserved' \in [Board -> BOOLEAN]
    BY <1>4, <2>1, SetClientType DEF Cancel
  <2> QED BY <1>4, <2>2, Weaken DEF MaintTypeInv, MaintTypeOK, Cancel, link, updater
<1>5. CASE ClientGivesUp(b)
  <2>1. PICK o \in {"UNCONFIRMED", "NOT_SENT", "ABORTED"} : SetClient(b, Finished(o))
    BY <1>5 DEF ClientGivesUp
  <2>2. Finished(o) \in GoodClient
    BY ClientFacts DEF Outcome
  <2>3. /\ client' \in [Board -> GoodClient] /\ server' \in [Board -> GoodServer]
        /\ reserved' \in [Board -> BOOLEAN]
    BY <2>1, <2>2, SetClientType
  <2> QED BY <1>5, <2>3, Weaken DEF MaintTypeInv, MaintTypeOK, ClientGivesUp, link, updater
<1>6. CASE LocalEnter(b)
  <2>1. /\ client' \in [Board -> GoodClient] /\ server' \in [Board -> GoodServer]
        /\ reserved' \in [Board -> BOOLEAN]
    BY <1>6, SetClientType, ClientFacts DEF LocalEnter, MaintTypeInv
  <2>2. client[b].req \in AnyRequest
    BY ClientFacts DEF MaintTypeInv
  <2>3. rom' \in [Board -> AnyRequest] /\ reboot' \in [Board -> BOOLEAN]
    BY <1>6, <2>2 DEF MaintTypeInv, MaintTypeOK, LocalEnter
  <2> QED BY <1>6, <2>1, <2>3, Weaken DEF MaintTypeInv, MaintTypeOK, LocalEnter, link, updater
<1> QED BY <1>1, <1>2, <1>3, <1>4, <1>5, <1>6

(* The transmit queue after a frame was added or taken. *)
LEMMA TxqType ==
  ASSUME MaintTypeInv, NEW b \in Board,
         \/ \E f \in Frame : Room(b) /\ Send(b, f)
         \/ txq[b] # <<>> /\ txq' = [txq EXCEPT ![b] = Tail(@)]
         \/ UNCHANGED txq
  PROVE  txq' \in [Board -> Seq(Frame)] /\ \A c \in Board : Len(txq'[c]) <= TxCap
<1>1. txq \in [Board -> Seq(Frame)] /\ \A c \in Board : Len(txq[c]) <= TxCap
  BY DEF MaintTypeInv, MaintTypeOK
<1>2. TxCap \in Nat  BY MaintAssumption
<1>3. ASSUME NEW f \in Frame, Room(b), Send(b, f)
      PROVE  txq' \in [Board -> Seq(Frame)] /\ \A c \in Board : Len(txq'[c]) <= TxCap
  <2>1. Append(txq[b], f) \in Seq(Frame) /\ Len(Append(txq[b], f)) = Len(txq[b]) + 1
    BY <1>1, QueueFacts
  <2> QED BY <1>1, <1>2, <1>3, <2>1 DEF Room, Send
<1>4. CASE txq[b] # <<>> /\ txq' = [txq EXCEPT ![b] = Tail(@)]
  <2>1. Tail(txq[b]) \in Seq(Frame) /\ Len(Tail(txq[b])) <= TxCap
    BY <1>1, <1>2, <1>4
  <2> QED BY <1>1, <1>4, <2>1
<1> QED BY <1>1, <1>3, <1>4

(* The client and the server send. *)
LEMMA SendType ==
  ASSUME MaintTypeInv, NEW b \in Board, Admit(b) \/ ServerAck(b)
  PROVE  MaintTypeInv'
<1>1. CASE Admit(b)
  <2>1. /\ client' \in [Board -> GoodClient] /\ server' \in [Board -> GoodServer]
        /\ reserved' \in [Board -> BOOLEAN]
    BY <1>1, SetClientType, ClientFacts DEF Admit, MaintTypeInv
  <2>2. [type |-> "REQUEST", req |-> client[b].req] \in Frame
    BY <1>1, FrameFacts DEF Admit, MaintTypeInv, GoodClient
  <2>3. txq' \in [Board -> Seq(Frame)] /\ \A c \in Board : Len(txq'[c]) <= TxCap
    BY <1>1, <2>2, TxqType DEF Admit
  <2> QED BY <1>1, <2>1, <2>3, Weaken DEF MaintTypeInv, MaintTypeOK, Admit, updater
<1>2. CASE ServerAck(b)
  <2>1. PICK p \in {"DRAIN", "IDLE"} :
          /\ SetServer(b, [server[b] EXCEPT !.phase = p, !.queued = TRUE])
          /\ p = "DRAIN" => server[b].status = "ACCEPTED"
    BY <1>2 DEF ServerAck
  <2>2. [server[b] EXCEPT !.phase = p, !.queued = TRUE] \in GoodServer
    <3>1. server[b] \in GoodServer /\ server[b].phase # "IDLE"
      BY <1>2 DEF ServerAck, MaintTypeInv
    <3>2. p \in {"DRAIN", "IDLE"} /\ (p = "DRAIN" => server[b].status = "ACCEPTED")
      BY <2>1
    <3> QED BY <3>1, <3>2, ServerQueued, Zenon
  <2>3. /\ client' \in [Board -> GoodClient] /\ server' \in [Board -> GoodServer]
        /\ reserved' \in [Board -> BOOLEAN]
    BY <2>1, <2>2, SetServerType
  <2>4. [type |-> "ACK", req |-> server[b].req, status |-> server[b].status] \in Frame
    BY <1>2, FrameFacts, ServerFacts DEF ServerAck, MaintTypeInv, GoodServer
  <2>5. txq' \in [Board -> Seq(Frame)] /\ \A c \in Board : Len(txq'[c]) <= TxCap
    BY <1>2, <2>4, TxqType DEF ServerAck
  <2> QED BY <1>2, <2>3, <2>5, Weaken DEF MaintTypeInv, MaintTypeOK, ServerAck, updater
<1> QED BY <1>1, <1>2

(* What core 0 takes from core 1, and the server that gives up or enters. *)
LEMMA ServerType ==
  ASSUME MaintTypeInv, NEW b \in Board,
         \/ ReceiveAck(b) \/ ReceiveRequest(b) \/ ServerGivesUp(b) \/ ServerEnter(b)
  PROVE  MaintTypeInv'
<1>1. ASSUME ingress[b] # <<>>
      PROVE  /\ Head(ingress[b]) \in MaintFrame /\ Tail(ingress[b]) \in Seq(MaintFrame)
             /\ Len(Tail(ingress[b])) = Len(ingress[b]) - 1
  BY <1>1 DEF MaintTypeInv, MaintTypeOK
<1>2. IngressCap \in Nat  BY MaintAssumption
<1>3. ASSUME ingress[b] # <<>>, TakeIngress(b),
             client' \in [Board -> GoodClient], server' \in [Board -> GoodServer],
             reserved' \in [Board -> BOOLEAN]
      PROVE  MaintTypeInv'
  <2>1. /\ ingress' \in [Board -> Seq(MaintFrame)]
        /\ \A c \in Board : Len(ingress'[c]) <= IngressCap
    BY <1>1, <1>2, <1>3 DEF TakeIngress, MaintTypeInv, MaintTypeOK
  <2> QED BY <1>3, <2>1, Weaken DEF MaintTypeInv, MaintTypeOK, TakeIngress, updater
<1>4. CASE ReceiveAck(b)
  <2>1. ingress[b] # <<>> /\ Head(ingress[b]).type = "ACK" /\ TakeIngress(b)
    BY <1>4 DEF ReceiveAck, HandedOver
  <2>2. Finished(Head(ingress[b]).status) \in GoodClient
    BY <1>1, <2>1, FrameFacts, ClientFacts DEF Outcome
  <2>3. /\ client' \in [Board -> GoodClient] /\ server' \in [Board -> GoodServer]
        /\ reserved' \in [Board -> BOOLEAN]
    BY <1>4, <2>2, SetClientType DEF ReceiveAck, MaintTypeInv, MaintTypeOK
  <2> QED BY <1>3, <2>1, <2>3
<1>5. CASE ReceiveRequest(b)
  <2>1. ingress[b] # <<>> /\ TakeIngress(b)
    BY <1>5 DEF ReceiveRequest, HandedOver
  <2>2. Head(ingress[b]).req \in Request \cap AnyRequest
    BY <1>1, <2>1, FrameFacts, RequestFacts
  <2>3. AckStatus(b) \in Status
    BY DEF AckStatus, Status
  <2>4. [phase |-> "ACK", req |-> Head(ingress[b]).req, status |-> AckStatus(b),
         queued |-> FALSE, sent |-> FALSE] \in GoodServer
    BY <2>2, <2>3 DEF Server, GoodServer
  <2>5. /\ client' \in [Board -> GoodClient] /\ server' \in [Board -> GoodServer]
        /\ reserved' \in [Board -> BOOLEAN]
    BY <1>5, <2>4, SetServerType DEF ReceiveRequest, MaintTypeInv, MaintTypeOK
  <2> QED BY <1>3, <2>1, <2>5
<1>6. CASE ServerGivesUp(b)
  <2>1. /\ client' \in [Board -> GoodClient] /\ server' \in [Board -> GoodServer]
        /\ reserved' \in [Board -> BOOLEAN]
    BY <1>6, SetServerType, ServerFacts DEF ServerGivesUp, MaintTypeInv
  <2> QED BY <1>6, <2>1, Weaken DEF MaintTypeInv, MaintTypeOK, ServerGivesUp, link, updater
<1>7. CASE ServerEnter(b)
  <2>1. /\ client' \in [Board -> GoodClient] /\ server' \in [Board -> GoodServer]
        /\ reserved' \in [Board -> BOOLEAN]
    BY <1>7, SetServerType, ServerFacts DEF ServerEnter, MaintTypeInv
  <2>2. server[b].req \in AnyRequest
    BY ServerFacts DEF MaintTypeInv
  <2> QED BY <1>7, <2>1, <2>2, Weaken DEF MaintTypeInv, MaintTypeOK, ServerEnter, link, updater
<1> QED BY <1>4, <1>5, <1>6, <1>7

(* The wire after its first frame was parsed or lost. *)
LEMMA WireType ==
  ASSUME MaintTypeInv, NEW b \in Board, wire[b] # <<>>,
         wire' = [wire EXCEPT ![b] = Tail(@)]
  PROVE  wire' \in [Board -> Seq(Frame)] /\ \A c \in Board : Len(wire'[c]) <= WireCap
<1>1. wire \in [Board -> Seq(Frame)] /\ \A c \in Board : Len(wire[c]) <= WireCap
  BY DEF MaintTypeInv, MaintTypeOK
<1>2. WireCap \in Nat  BY MaintAssumption
<1>3. Tail(wire[b]) \in Seq(Frame) /\ Len(Tail(wire[b])) <= WireCap
  BY <1>1, <1>2
<1> QED BY <1>1, <1>3

(* The UART. *)
LEMMA UartType ==
  ASSUME MaintTypeInv, NEW b \in Board,
         Transmit(b) \/ Discard(b) \/ Shift(b) \/ Lose(b)
  PROVE  MaintTypeInv'
<1>1. CASE Transmit(b)
  <2>1. txq[b] # <<>> /\ txq' = [txq EXCEPT ![b] = Tail(@)]
    BY <1>1 DEF Transmit
  <2>2. txq' \in [Board -> Seq(Frame)] /\ \A c \in Board : Len(txq'[c]) <= TxCap
    BY <2>1, TxqType
  <2>3. Head(txq[b]) \in Frame
    BY <2>1 DEF MaintTypeInv, MaintTypeOK
  <2>4. <<Head(txq[b])>> \in Seq(Frame) /\ Len(<<Head(txq[b])>>) = 1
    BY <2>3
  <2>5. out' = [out EXCEPT ![b] = <<Head(txq[b])>>]
    BY <1>1 DEF Transmit
  <2>6. out' \in [Board -> Seq(Frame)] /\ \A c \in Board : Len(out'[c]) <= 1
    BY <2>4, <2>5 DEF MaintTypeInv, MaintTypeOK
  <2>7. PICK t \in BOOLEAN : t = (Head(txq[b]).status = "ACCEPTED")
    OBVIOUS
  <2>8. \/ UNCHANGED <<client, server, reserved>>
        \/ SetServer(b, [server[b] EXCEPT !.queued = FALSE, !.sent = t])
    BY <1>1, <2>7 DEF Transmit
  <2>9. [server[b] EXCEPT !.queued = FALSE, !.sent = t] \in GoodServer
    <3>1. server[b] \in GoodServer /\ t \in BOOLEAN  BY <2>7 DEF MaintTypeInv
    <3> QED BY <3>1, ServerSent, Zenon
  <2>10. /\ client' \in [Board -> GoodClient] /\ server' \in [Board -> GoodServer]
        /\ reserved' \in [Board -> BOOLEAN]
    BY <2>8, <2>9, SetServerType DEF MaintTypeInv, MaintTypeOK
  <2> QED BY <1>1, <2>2, <2>6, <2>10, Weaken DEF MaintTypeInv, MaintTypeOK, Transmit, updater
<1>2. CASE Discard(b)
  <2>1. txq' \in [Board -> Seq(Frame)] /\ \A c \in Board : Len(txq'[c]) <= TxCap
    BY <1>2, TxqType DEF Discard
  <2> QED BY <1>2, <2>1 DEF MaintTypeInv, MaintTypeOK, Discard, maint, updater
<1>3. CASE Shift(b)
  <2>1. WireCap \in Nat \ {0}  BY MaintAssumption
  <2>2. /\ out[b] \in Seq(Frame) /\ Len(out[b]) = 1
        /\ wire[b] \in Seq(Frame) /\ Len(wire[b]) \in Nat
    <3>1. /\ out[b] \in Seq(Frame) /\ Len(out[b]) <= 1 /\ out[b] # <<>>
          /\ wire[b] \in Seq(Frame)
      BY <1>3 DEF Shift, MaintTypeInv, MaintTypeOK
    <3>2. Len(out[b]) \in Nat /\ Len(wire[b]) \in Nat
      BY <3>1, LenProperties
    <3>3. Len(out[b]) # 0
      BY <3>1, EmptySeq
    <3>4. \A n \in Nat : n <= 1 /\ n # 0 => n = 1
      OBVIOUS
    <3> QED BY <3>1, <3>2, <3>3, <3>4, Zenon
  <2>3. wire[b] \o out[b] \in Seq(Frame) /\ Len(wire[b] \o out[b]) = Len(wire[b]) + 1
    <3>1. /\ wire[b] \o out[b] \in Seq(Frame)
          /\ Len(wire[b] \o out[b]) = Len(wire[b]) + Len(out[b])
      BY <2>2, ConcatProperties, Zenon
    <3> QED BY <2>2, <3>1
  <2>4. PICK w \in Seq(Frame) : Len(w) <= WireCap /\ wire' = [wire EXCEPT ![b] = w]
    <3>1. CASE Len(wire[b]) < WireCap
      <4>1. wire' = [wire EXCEPT ![b] = wire[b] \o out[b]]
        BY <1>3, <3>1 DEF Shift
      <4>2. Len(wire[b] \o out[b]) <= WireCap
        BY <2>1, <2>2, <2>3, <3>1
      <4> QED BY <2>3, <4>1, <4>2
    <3>2. CASE ~(Len(wire[b]) < WireCap)
      <4>1. wire' = [wire EXCEPT ![b] = out[b]]
        BY <1>3, <3>2 DEF Shift
      <4>2. Len(out[b]) <= WireCap
        BY <2>1, <2>2
      <4> QED BY <2>2, <4>1, <4>2
    <3> QED BY <3>1, <3>2
  <2>5. wire' \in [Board -> Seq(Frame)] /\ \A c \in Board : Len(wire'[c]) <= WireCap
    BY <2>4 DEF MaintTypeInv, MaintTypeOK
  <2>6. <<>> \in Seq(Frame) /\ Len(<<>>) <= 1  OBVIOUS
  <2>7. out' \in [Board -> Seq(Frame)] /\ \A c \in Board : Len(out'[c]) <= 1
    BY <1>3, <2>6 DEF Shift, MaintTypeInv, MaintTypeOK
  <2> QED BY <1>3, <2>5, <2>7 DEF MaintTypeInv, MaintTypeOK, Shift, maint, updater
<1>4. CASE Lose(b)
  <2>1. wire' \in [Board -> Seq(Frame)] /\ \A c \in Board : Len(wire'[c]) <= WireCap
    BY <1>4, WireType DEF Lose
  <2>2. events' \in 0 .. MaxEvents
    BY <1>4, MaintAssumption DEF Lose, Event, MaintTypeInv, MaintTypeOK
  <2> QED BY <1>4, <2>1, <2>2 DEF MaintTypeInv, MaintTypeOK, Lose, maint, updater
<1> QED BY <1>1, <1>2, <1>3, <1>4

(* Frames of the peer. *)
LEMMA ReceiveType ==
  ASSUME MaintTypeInv, NEW b \in Board,
         HandOver(b) \/ ReceiveUpgrade(b) \/ ReceiveAsk(b) \/ ReceiveWord(b)
  PROVE  MaintTypeInv'
<1>1. Peer(b) \in Board /\ wire[Peer(b)] # <<>> /\ wire' = [wire EXCEPT ![Peer(b)] = Tail(@)]
  BY PeerFacts DEF HandOver, ReceiveUpgrade, ReceiveAsk, ReceiveWord, Arrives, Parse
<1>2. wire' \in [Board -> Seq(Frame)] /\ \A c \in Board : Len(wire'[c]) <= WireCap
  BY <1>1, WireType
<1>3. CASE HandOver(b)
  <2>1. Head(wire[Peer(b)]) \in Frame
    BY <1>1 DEF MaintTypeInv, MaintTypeOK
  <2>2. Head(wire[Peer(b)]) \in MaintFrame
    BY <1>3, <2>1, FrameFacts DEF HandOver, Arrives
  <2>3. ingress[b] \in Seq(MaintFrame) /\ Len(ingress[b]) <= IngressCap /\ IngressCap \in Nat
    BY MaintAssumption DEF MaintTypeInv, MaintTypeOK
  <2>4. /\ Append(ingress[b], Head(wire[Peer(b)])) \in Seq(MaintFrame)
        /\ Len(Append(ingress[b], Head(wire[Peer(b)]))) = Len(ingress[b]) + 1
    BY <2>2, <2>3
  <2>5. PICK q \in Seq(MaintFrame) :
          Len(q) <= IngressCap /\ ingress' = [ingress EXCEPT ![b] = q]
    <3>1. CASE Len(ingress[b]) < IngressCap
      <4>1. ingress' = [ingress EXCEPT ![b] = Append(ingress[b], Head(wire[Peer(b)]))]
        BY <1>3, <3>1 DEF HandOver
      <4>2. Len(Append(ingress[b], Head(wire[Peer(b)]))) <= IngressCap
        BY <2>3, <2>4, <3>1
      <4> QED BY <2>4, <4>1, <4>2
    <3>2. CASE ~(Len(ingress[b]) < IngressCap)
      <4>1. ingress' = [ingress EXCEPT ![b] = ingress[b]]
        BY <1>3, <3>2 DEF HandOver
      <4> QED BY <2>3, <4>1
    <3> QED BY <3>1, <3>2
  <2>6. /\ ingress' \in [Board -> Seq(MaintFrame)]
        /\ \A c \in Board : Len(ingress'[c]) <= IngressCap
    BY <2>5 DEF MaintTypeInv, MaintTypeOK
  <2> QED BY <1>2, <1>3, <2>6 DEF MaintTypeInv, MaintTypeOK, HandOver, maint, updater
<1>4. CASE ReceiveUpgrade(b)
  BY <1>2, <1>4, RequestFacts DEF MaintTypeInv, MaintTypeOK, ReceiveUpgrade, maint, updater
<1>5. CASE ReceiveAsk(b)
  BY <1>2, <1>5 DEF MaintTypeInv, MaintTypeOK, ReceiveAsk, Serves, maint
<1>6. CASE ReceiveWord(b)
  BY <1>2, <1>6 DEF MaintTypeInv, MaintTypeOK, ReceiveWord, Pull, maint
<1> QED BY <1>3, <1>4, <1>5, <1>6

(* The updater. *)
LEMMA UpdaterType ==
  ASSUME MaintTypeInv, NEW b \in Board,
         \/ QueueWord(b) \/ BeginPull(b) \/ Ask(b) \/ Stall(b) \/ LeaseExpires(b)
         \/ Drop(b)
  PROVE  MaintTypeInv'
<1>1. CASE QueueWord(b)
  <2>1. txq' \in [Board -> Seq(Frame)] /\ \A c \in Board : Len(txq'[c]) <= TxCap
    BY <1>1, FrameFacts, TxqType DEF QueueWord
  <2> QED BY <1>1, <2>1 DEF MaintTypeInv, MaintTypeOK, QueueWord, maint, updater
<1>2. CASE BeginPull(b)
  <2>1. events' \in 0 .. MaxEvents
    BY <1>2, MaintAssumption DEF BeginPull, Event, MaintTypeInv, MaintTypeOK
  <2> QED BY <1>2, <2>1 DEF MaintTypeInv, MaintTypeOK, BeginPull, Pull, maint, link
<1>3. CASE Ask(b)
  <2>1. txq' \in [Board -> Seq(Frame)] /\ \A c \in Board : Len(txq'[c]) <= TxCap
    BY <1>3, FrameFacts, TxqType DEF Ask
  <2> QED BY <1>3, <2>1 DEF MaintTypeInv, MaintTypeOK, Ask, maint, updater
<1>4. CASE Stall(b)
  BY <1>4 DEF MaintTypeInv, MaintTypeOK, Stall, Pull, maint, link
<1>5. CASE LeaseExpires(b)
  BY <1>5 DEF MaintTypeInv, MaintTypeOK, LeaseExpires, maint, link
<1>6. CASE Drop(b)
  <2>1. events' \in 0 .. MaxEvents
    BY <1>6, MaintAssumption DEF Drop, Event, MaintTypeInv, MaintTypeOK
  <2>2. older' \in [Board -> BOOLEAN] /\ reboot' \in [Board -> BOOLEAN]
    BY <1>6 DEF Drop, MaintTypeInv, MaintTypeOK
  <2>3. rom' \in [Board -> AnyRequest]
    BY <1>6, RequestFacts DEF Drop, MaintTypeInv, MaintTypeOK
  <2> QED BY <1>6, <2>1, <2>2, <2>3 DEF MaintTypeInv, MaintTypeOK, Drop, Pull, maint, link
<1> QED BY <1>1, <1>2, <1>3, <1>4, <1>5, <1>6

(* The other ways into the ROM, reboots and restarts. *)
LEMMA ResetType ==
  ASSUME MaintTypeInv, NEW b \in Board,
         \/ \E target \in {"PEER", "LOCAL"} : WebRequest(b, target)
         \/ WebTask(b)
         \/ \E target \in Board : Hotkey(b, target)
         \/ RequestReboot(b) \/ RequestRebootBlindly(b) \/ Restart(b)
  PROVE  MaintTypeInv'
<1>1. Event => events' \in 0 .. MaxEvents
  BY MaintAssumption DEF Event, MaintTypeInv, MaintTypeOK
<1>2. ASSUME NEW target \in {"PEER", "LOCAL"}, WebRequest(b, target)
      PROVE  MaintTypeInv'
  <2>1. web' \in [Board -> SUBSET {"PEER", "LOCAL"}]
    BY <1>2 DEF WebRequest, MaintTypeInv, MaintTypeOK
  <2> QED BY <1>1, <1>2, <2>1
          DEF MaintTypeInv, MaintTypeOK, WebRequest, maint, link, updater
<1>3. CASE WebTask(b)
  <2>1. \/ Room(b) /\ Send(b, [type |-> "UPGRADE"])
        \/ UNCHANGED txq
    BY <1>3 DEF WebTask
  <2>2. txq' \in [Board -> Seq(Frame)] /\ \A c \in Board : Len(txq'[c]) <= TxCap
    BY <2>1, FrameFacts, TxqType
  <2>3. PICK w : w \subseteq web[b] /\ web' = [web EXCEPT ![b] = w]
    BY <1>3 DEF WebTask
  <2>4. web' \in [Board -> SUBSET {"PEER", "LOCAL"}]
    BY <2>3 DEF MaintTypeInv, MaintTypeOK
  <2>5. \/ UNCHANGED rom \/ rom' = [rom EXCEPT ![b] = rom[b]]
        \/ rom' = [rom EXCEPT ![b] = Shortcut]
    <3>1. CASE pull[b] # "none"
      BY <1>3, <3>1 DEF WebTask
    <3>2. CASE pull[b] = "none"
      BY <1>3, <3>2 DEF WebTask
    <3> QED BY <3>1, <3>2
  <2>6. rom' \in [Board -> AnyRequest]
    BY <2>5, RequestFacts DEF MaintTypeInv, MaintTypeOK
  <2> QED BY <1>3, <2>2, <2>4, <2>6 DEF MaintTypeInv, MaintTypeOK, WebTask, maint, updater
<1>4. ASSUME NEW target \in Board, Hotkey(b, target)
      PROVE  MaintTypeInv'
  <2>1. \/ Room(b) /\ Send(b, [type |-> "UPGRADE"])
        \/ UNCHANGED txq
    BY <1>4 DEF Hotkey, Send, MaintTypeInv, MaintTypeOK
  <2>2. txq' \in [Board -> Seq(Frame)] /\ \A c \in Board : Len(txq'[c]) <= TxCap
    BY <2>1, FrameFacts, TxqType
  <2>3. rom' \in [Board -> AnyRequest]
    BY <1>4, RequestFacts DEF Hotkey, MaintTypeInv, MaintTypeOK
  <2> QED BY <1>1, <1>4, <2>2, <2>3 DEF MaintTypeInv, MaintTypeOK, Hotkey, maint, updater
<1>5. CASE RequestReboot(b) \/ RequestRebootBlindly(b)
  BY <1>1, <1>5 DEF MaintTypeInv, MaintTypeOK, RequestReboot, RequestRebootBlindly,
                    maint, link, updater
<1>6. CASE Restart(b)
  <2>1. events' \in 0 .. MaxEvents
    BY <1>1, <1>6 DEF Restart, MaintTypeInv, MaintTypeOK
  <2>2. <<>> \in Seq(Frame) /\ <<>> \in Seq(MaintFrame) /\ Len(<<>>) = 0
    OBVIOUS
  <2>3. TxCap >= 0 /\ WireCap >= 0 /\ IngressCap >= 0
    BY MaintAssumption
  <2>4. /\ txq' \in [Board -> Seq(Frame)]
        /\ \A c \in Board : Len(txq'[c]) <= TxCap
        /\ out' \in [Board -> Seq(Frame)]
        /\ \A c \in Board : Len(out'[c]) <= 1
        /\ ingress' \in [Board -> Seq(MaintFrame)]
        /\ \A c \in Board : Len(ingress'[c]) <= IngressCap
    BY <1>6, <2>2, <2>3 DEF Restart, MaintTypeInv, MaintTypeOK
  <2>5. PICK late \in {wire[b], <<>>} : wire' = [wire EXCEPT ![Peer(b)] = <<>>, ![b] = late]
    BY <1>6 DEF Restart
  <2>6. late \in Seq(Frame) /\ Len(late) <= WireCap
    <3>1. wire[b] \in Seq(Frame) /\ Len(wire[b]) <= WireCap
      BY DEF MaintTypeInv, MaintTypeOK
    <3>2. <<>> \in Seq(Frame) /\ Len(<<>>) <= WireCap
      BY <2>2, <2>3
    <3> QED BY <2>5, <3>1, <3>2
  <2>7. wire' \in [Board -> Seq(Frame)] /\ \A c \in Board : Len(wire'[c]) <= WireCap
    BY <2>2, <2>3, <2>5, <2>6, PeerFacts DEF MaintTypeInv, MaintTypeOK
  <2>8. client' \in [Board -> GoodClient] /\ server' \in [Board -> GoodServer]
    BY <1>6, ClientFacts, ServerFacts DEF Restart, MaintTypeInv
  <2>9. pull' \in [Board -> Pull]
    BY <1>6, PeerFacts DEF Restart, Pull, MaintTypeInv, MaintTypeOK
  <2> QED BY <1>6, <2>1, <2>4, <2>7, <2>8, <2>9, Weaken, RequestFacts
          DEF Restart, MaintTypeInv, MaintTypeOK
<1> QED BY <1>2, <1>3, <1>4, <1>5, <1>6

-----------------------------------------------------------------------------
(* Reservations. *)

(* A reservation changes hands only on a safe board. *)
LEMMA ReservedStep ==
  ASSUME ReservedIsSafe, UNCHANGED <<reboot, pull, lease, web>>,
         \A x \in Board : reserved'[x] => reserved[x] \/ Safe(x)
  PROVE  ReservedIsSafe'
BY DEF ReservedIsSafe, Safe, Updating

(* The client moves on; it leaves idle only beside an idle server. *)
LEMMA ClientReserves ==
  ASSUME MaintTypeInv, ReservationOK, NEW b \in Board, NEW c, SetClient(b, c),
         c.phase # "IDLE" => client[b].phase # "IDLE" \/ server[b].phase = "IDLE"
  PROVE  /\ ReservationOK'
         /\ \A x \in Board : reserved'[x] =>
              reserved[x] \/ (x = b /\ c.phase # "IDLE" /\ client[b].phase = "IDLE")
<1>1. /\ client' = [client EXCEPT ![b] = c] /\ server' = server
      /\ reserved' = [reserved EXCEPT ![b] = Reserves(c, server[b])]
      /\ client \in [Board -> GoodClient] /\ reserved \in [Board -> BOOLEAN]
  BY DEF SetClient, MaintTypeInv, MaintTypeOK
<1> QED BY <1>1 DEF ReservationOK, Reserves

(* The server moves on; it accepts only beside an idle client. *)
LEMMA ServerReserves ==
  ASSUME MaintTypeInv, ReservationOK, NEW b \in Board, NEW s, SetServer(b, s),
         s.phase # "IDLE" /\ s.status = "ACCEPTED" =>
           \/ server[b].phase # "IDLE" /\ server[b].status = "ACCEPTED"
           \/ client[b].phase = "IDLE" /\ Safe(b)
  PROVE  /\ ReservationOK'
         /\ \A x \in Board : reserved'[x] => reserved[x] \/ Safe(x)
<1>1. /\ server' = [server EXCEPT ![b] = s] /\ client' = client
      /\ reserved' = [reserved EXCEPT ![b] = Reserves(client[b], s)]
      /\ server \in [Board -> GoodServer] /\ reserved \in [Board -> BOOLEAN]
  BY DEF SetServer, MaintTypeInv, MaintTypeOK
<1> QED BY <1>1 DEF ReservationOK, Reserves

(* Console and client keep a reserved board safe. *)
LEMMA ClientKeepsReservation ==
  ASSUME MaintTypeInv, ReservationOK, ReservedIsSafe, NEW b \in Board,
         \/ \E target \in Board, config \in BOOLEAN : Begin(b, target, config)
         \/ Poll(b) \/ ReplyComplete(b) \/ Cancel(b)
         \/ ClientGivesUp(b) \/ Admit(b) \/ ReceiveAck(b)
  PROVE  ReservationOK' /\ ReservedIsSafe'
<1>1. UNCHANGED <<reboot, pull, lease, web>>
  BY DEF Begin, Poll, ReplyComplete, Cancel, ClientGivesUp, Admit, ReceiveAck,
         TakeIngress, updater
<1>2. client[b] \in GoodClient
  BY DEF MaintTypeInv
<1>3. ASSUME NEW c, SetClient(b, c), c.phase = client[b].phase \/ c.phase = "IDLE"
      PROVE  ReservationOK' /\ ReservedIsSafe'
  BY <1>1, <1>3, ClientReserves, ReservedStep
<1>4. ASSUME NEW target \in Board, NEW config \in BOOLEAN, Begin(b, target, config)
      PROVE  ReservationOK' /\ ReservedIsSafe'
  <2> DEFINE c == [phase |-> IF target = b THEN "LOCAL" ELSE "ADMISSION",
                   req |-> [from |-> b, n |-> events'], config |-> config, done |-> FALSE,
                   result |-> IF target = b THEN "LOCAL_READY" ELSE "NONE"]
  <2>1. SetClient(b, c) /\ server[b].phase = "IDLE" /\ Safe(b)
    BY <1>4 DEF Begin
  <2> HIDE DEF c
  <2> QED BY <1>1, <2>1, ClientReserves, ReservedStep
<1>5. CASE Poll(b)
  <2>1. [client[b] EXCEPT !.result = "NONE"].phase = client[b].phase
    BY <1>2, ClientFacts
  <2> QED BY <1>3, <1>5, <2>1 DEF Poll
<1>6. CASE ReplyComplete(b)
  <2>1. [client[b] EXCEPT !.done = TRUE].phase = client[b].phase
    BY <1>2, ClientFacts
  <2>2. CASE UNCHANGED <<client, server, reserved>>
    BY <1>1, <2>2, ReservedStep DEF ReservationOK
  <2> QED BY <1>3, <1>6, <2>1, <2>2 DEF ReplyComplete
<1>7. CASE Cancel(b)
  <2>1. Finished("NONE").phase = "IDLE"
    BY ClientFacts DEF Outcome
  <2> QED BY <1>3, <1>7, <2>1 DEF Cancel
<1>8. CASE ClientGivesUp(b)
  <2>1. PICK o \in {"UNCONFIRMED", "NOT_SENT", "ABORTED"} : SetClient(b, Finished(o))
    BY <1>8 DEF ClientGivesUp
  <2>2. Finished(o).phase = "IDLE"
    BY ClientFacts DEF Outcome
  <2> QED BY <1>3, <2>1, <2>2
<1>9. CASE Admit(b)
  <2>1. client[b].phase # "IDLE" /\ SetClient(b, [client[b] EXCEPT !.phase = "REPLY"])
    BY <1>9 DEF Admit
  <2> QED BY <1>1, <2>1, ClientReserves, ReservedStep
<1>10. CASE ReceiveAck(b)
  <2>1. CASE UNCHANGED <<client, server, reserved>>
    BY <1>1, <2>1, ReservedStep DEF ReservationOK
  <2>2. CASE SetClient(b, Finished(Head(ingress[b]).status))
    <3>1. Finished(Head(ingress[b]).status).phase = "IDLE"
      BY DEF Finished, NoClient
    <3> QED BY <1>3, <2>2, <3>1
  <2> QED BY <1>10, <2>1, <2>2 DEF ReceiveAck
<1> QED BY <1>4, <1>5, <1>6, <1>7, <1>8, <1>9, <1>10

(* The server keeps a reserved board safe. *)
LEMMA ServerKeepsReservation ==
  ASSUME MaintTypeInv, ReservationOK, ReservedIsSafe, NEW b \in Board,
         \/ ReceiveRequest(b) \/ ServerGivesUp(b) \/ ServerAck(b) \/ ServerEnter(b)
         \/ Transmit(b)
  PROVE  ReservationOK' /\ ReservedIsSafe'
<1>1. UNCHANGED <<reboot, pull, lease, web>>
  BY DEF ReceiveRequest, ServerGivesUp, ServerAck, ServerEnter, Transmit,
         TakeIngress, updater
<1>2. server[b] \in GoodServer
  BY DEF MaintTypeInv
<1>3. ASSUME UNCHANGED <<client, server, reserved>>
      PROVE  ReservationOK' /\ ReservedIsSafe'
  BY <1>1, <1>3, ReservedStep DEF ReservationOK
<1>4. CASE ReceiveRequest(b)
  <2> DEFINE s == [phase |-> "ACK", req |-> Head(ingress[b]).req, status |-> AckStatus(b),
                   queued |-> FALSE, sent |-> FALSE]
  <2>1. UNCHANGED <<client, server, reserved>> \/ SetServer(b, s)
    BY <1>4 DEF ReceiveRequest
  <2>2. s.status = "ACCEPTED" => client[b].phase = "IDLE" /\ Safe(b)
    BY DEF AckStatus
  <2> HIDE DEF s
  <2> QED BY <1>1, <1>3, <2>1, <2>2, ServerReserves, ReservedStep
<1>5. CASE ServerGivesUp(b) \/ ServerEnter(b)
  <2>1. SetServer(b, [server[b] EXCEPT !.phase = "IDLE"])
    BY <1>5 DEF ServerGivesUp, ServerEnter
  <2>2. [server[b] EXCEPT !.phase = "IDLE"].phase = "IDLE"
    BY <1>2, ServerFacts
  <2> QED BY <1>1, <2>1, <2>2, ServerReserves, ReservedStep
<1>6. CASE ServerAck(b)
  <2>1. PICK p \in {"DRAIN", "IDLE"} :
          /\ SetServer(b, [server[b] EXCEPT !.phase = p, !.queued = TRUE])
          /\ p = "DRAIN" => server[b].status = "ACCEPTED"
    BY <1>6 DEF ServerAck
  <2>2. server[b].phase # "IDLE"
    BY <1>6 DEF ServerAck
  <2>3. [server[b] EXCEPT !.phase = p, !.queued = TRUE].status = server[b].status
    BY <1>2, <2>1, <2>2, ServerQueued, Zenon
  <2>4. /\ ReservationOK'
        /\ \A x \in Board : reserved'[x] => reserved[x] \/ Safe(x)
    BY <2>1, <2>2, <2>3, ServerReserves, Zenon
  <2> QED BY <1>1, <2>4, ReservedStep
<1>7. CASE Transmit(b)
  <2>1. PICK t \in BOOLEAN : t = (Head(txq[b]).status = "ACCEPTED")
    OBVIOUS
  <2>2. \/ UNCHANGED <<client, server, reserved>>
        \/ SetServer(b, [server[b] EXCEPT !.queued = FALSE, !.sent = t])
    BY <1>7, <2>1 DEF Transmit
  <2>3. /\ [server[b] EXCEPT !.queued = FALSE, !.sent = t].phase = server[b].phase
        /\ [server[b] EXCEPT !.queued = FALSE, !.sent = t].status = server[b].status
    BY <1>2, ServerSent, Zenon
  <2>4. CASE SetServer(b, [server[b] EXCEPT !.queued = FALSE, !.sent = t])
    <3>1. /\ ReservationOK'
          /\ \A x \in Board : reserved'[x] => reserved[x] \/ Safe(x)
      BY <2>3, <2>4, ServerReserves, Zenon
    <3> QED BY <1>1, <3>1, ReservedStep
  <2> QED BY <1>3, <2>2, <2>4
<1> QED BY <1>4, <1>5, <1>6, <1>7

(* The local reset gives the reservation up.  Into configuration mode, it  *)
(* leaves a reboot behind, and no other reservation.                       *)
LEMMA LocalEnterReservation ==
  ASSUME MaintTypeInv, ReservationOK, ReservedIsSafe, NEW b \in Board, LocalEnter(b)
  PROVE  ReservationOK' /\ ReservedIsSafe'
<1>1. [client[b] EXCEPT !.phase = "IDLE"].phase = "IDLE"
  BY ClientFacts DEF MaintTypeInv
<1>2. SetClient(b, [client[b] EXCEPT !.phase = "IDLE"])
  BY DEF LocalEnter
<1>3. ReservationOK' /\ \A x \in Board : reserved'[x] => reserved[x]
  BY <1>1, <1>2, ClientReserves
<1>4. ~reserved'[b]
  BY <1>1, <1>2 DEF LocalEnter, ReservationOK, SetClient, Reserves, MaintTypeInv, MaintTypeOK
<1>5. /\ UNCHANGED <<pull, lease, web>>
      /\ \A x \in Board : x # b => reboot'[x] = reboot[x]
  BY DEF LocalEnter, updater, MaintTypeInv, MaintTypeOK
<1> QED BY <1>3, <1>4, <1>5 DEF ReservedIsSafe, Safe, Updating

(* Nothing that makes a board unsafe begins under a reservation. *)
LEMMA OthersKeepReservation ==
  ASSUME MaintTypeInv, ReservationOK, ReservedIsSafe, NEW b \in Board,
         \/ ReceiveAsk(b) \/ ReceiveWord(b) \/ BeginPull(b) \/ Stall(b) \/ LeaseExpires(b)
         \/ \E target \in {"PEER", "LOCAL"} : WebRequest(b, target)
         \/ WebTask(b) \/ Drop(b) \/ RequestReboot(b) \/ RequestRebootBlindly(b)
  PROVE  ReservationOK' /\ ReservedIsSafe'
<1>1. UNCHANGED <<client, server, reserved>>
  BY DEF ReceiveAsk, ReceiveWord, BeginPull, Stall, LeaseExpires, WebRequest, WebTask,
         Drop, RequestReboot, RequestRebootBlindly, maint
<1>2. ReservationOK'
  BY <1>1 DEF ReservationOK
<1>3. ASSUME NEW x \in Board, reserved[x], reserved'[x]
      PROVE  Safe(x)'
  <2>1. ~reboot[x] /\ pull[x] = "none" /\ ~lease[x] /\ web[x] = {}
    BY <1>3 DEF ReservedIsSafe, Safe, Updating
  <2>2. ~reboot'[x] /\ pull'[x] = "none"
    BY <1>3, <2>1 DEF ReceiveAsk, ReceiveWord, BeginPull, Stall, LeaseExpires, WebRequest,
       WebTask, Drop, RequestReboot, RequestRebootBlindly, Pulling, updater, MaintTypeInv, MaintTypeOK
  <2>3. ~lease'[x]
    BY <1>3, <2>1 DEF ReceiveAsk, ReceiveWord, BeginPull, Stall, LeaseExpires, WebRequest,
       WebTask, Drop, RequestReboot, RequestRebootBlindly, Serves, updater, MaintTypeInv, MaintTypeOK
  <2>4. web'[x] = {}
    BY <1>3, <2>1 DEF ReceiveAsk, ReceiveWord, BeginPull, Stall, LeaseExpires, WebRequest,
       WebTask, Drop, RequestReboot, RequestRebootBlindly, updater, MaintTypeInv, MaintTypeOK
  <2> QED BY <2>2, <2>3, <2>4 DEF Safe, Updating
<1> QED BY <1>1, <1>2, <1>3 DEF ReservedIsSafe

(* Frames and requests that leave the reservation alone. *)
LEMMA LinkKeepsReservation ==
  ASSUME MaintTypeInv, ReservationOK, ReservedIsSafe,
         \/ \E b \in Board :
              \/ Discard(b) \/ Shift(b) \/ Lose(b) \/ HandOver(b) \/ ReceiveUpgrade(b)
              \/ QueueWord(b) \/ Ask(b) \/ \E target \in Board : Hotkey(b, target)
         \/ UNCHANGED vars
  PROVE  ReservationOK' /\ ReservedIsSafe'
<1>1. UNCHANGED <<client, server, reserved, reboot, pull, lease, web>>
  BY DEF Discard, Shift, Lose, HandOver, ReceiveUpgrade, QueueWord, Ask, Hotkey, maint,
         updater, vars
<1> QED BY <1>1, ReservedStep DEF ReservationOK

(* A restarted board holds no reservation. *)
LEMMA RestartReservation ==
  ASSUME MaintTypeInv, ReservationOK, ReservedIsSafe, NEW b \in Board, Restart(b)
  PROVE  ReservationOK' /\ ReservedIsSafe'
<1>1. /\ client' = [client EXCEPT ![b] = NoClient] /\ server' = [server EXCEPT ![b] = NoServer]
      /\ reserved' = [reserved EXCEPT ![b] = FALSE]
      /\ web' = [web EXCEPT ![b] = {}] /\ reboot' = [reboot EXCEPT ![b] = FALSE]
      /\ lease' = [lease EXCEPT ![b] = FALSE]
  BY DEF Restart
<1>2. ReservationOK'
  <2>1. NoClient.phase = "IDLE" /\ NoServer.phase = "IDLE"
    BY DEF NoClient, NoServer
  <2>2. ASSUME NEW x \in Board
        PROVE  /\ (reserved[x] = Reserves(client[x], server[x]))'
               /\ client'[x].phase # "IDLE" =>
                    ~(server'[x].phase # "IDLE" /\ server'[x].status = "ACCEPTED")
    <3>1. CASE x = b
      <4>1. client'[b] = NoClient /\ server'[b] = NoServer /\ reserved'[b] = FALSE
        BY <1>1 DEF MaintTypeInv, MaintTypeOK
      <4> QED BY <2>1, <3>1, <4>1 DEF Reserves
    <3>2. CASE x # b
      <4>1. client'[x] = client[x] /\ server'[x] = server[x] /\ reserved'[x] = reserved[x]
        BY <1>1, <3>2 DEF MaintTypeInv, MaintTypeOK
      <4> QED BY <4>1 DEF ReservationOK, Reserves
    <3> QED BY <3>1, <3>2
  <2> QED BY <2>2 DEF ReservationOK
<1>3. ASSUME NEW x \in Board, reserved'[x]
      PROVE  Safe(x)'
  <2>1. x # b /\ x = Peer(b) /\ reserved[x]
    BY <1>1, <1>3, PeerFacts DEF MaintTypeInv, MaintTypeOK
  <2>2. ~reboot[x] /\ pull[x] = "none" /\ ~lease[x] /\ web[x] = {}
    BY <2>1 DEF ReservedIsSafe, Safe, Updating
  <2>3. ~reboot'[x] /\ ~lease'[x] /\ web'[x] = {}
    BY <1>1, <2>1, <2>2 DEF MaintTypeInv, MaintTypeOK
  <2>4. pull'[x] = "none"
    BY <2>1, <2>2 DEF Restart, MaintTypeInv, MaintTypeOK
  <2> QED BY <2>3, <2>4 DEF Safe, Updating
<1> QED BY <1>2, <1>3 DEF ReservedIsSafe

-----------------------------------------------------------------------------
(* Leases. *)

(* A step that adds no word, no dirty pull, and takes no lease away, and   *)
(* enters the ROM only without one.                                        *)
LEMMA LeaseStep ==
  ASSUME LeaseCovers,
         \A x \in Board :
           /\ lease'[x] = lease[x]
           /\ answering'[x] => answering[x]
           /\ InFlight(x, "WORD")' => InFlight(x, "WORD") \/ answering[x]
           /\ pull'[Peer(x)] = "dirty" => pull[Peer(x)] = "dirty" \/ InFlight(x, "WORD")
           /\ rom'[x] \in Request => rom[x] \in Request \/ ~lease[x]
  PROVE  LeaseCovers'
BY DEF LeaseCovers

(* Maintenance enters the ROM only without a lease. *)
LEMMA MaintenanceKeepsLease ==
  ASSUME MaintTypeInv, LeaseCovers,
         \/ \E b \in Board :
              \/ \E target \in Board, config \in BOOLEAN : Begin(b, target, config)
              \/ Poll(b) \/ ReplyComplete(b) \/ Cancel(b) \/ ClientGivesUp(b)
              \/ LocalEnter(b) \/ ReceiveAck(b) \/ ReceiveRequest(b)
              \/ ServerGivesUp(b) \/ ServerEnter(b)
              \/ \E target \in {"PEER", "LOCAL"} : WebRequest(b, target)
              \/ RequestReboot(b) \/ RequestRebootBlindly(b)
         \/ UNCHANGED vars
  PROVE  LeaseCovers'
<1>1. UNCHANGED <<txq, out, wire, answering, pull, lease>>
  BY DEF Begin, Poll, ReplyComplete, Cancel, ClientGivesUp, LocalEnter, ReceiveAck,
         ReceiveRequest, TakeIngress, ServerGivesUp, ServerEnter, WebRequest,
         RequestReboot, RequestRebootBlindly, link, updater, vars
<1>2. \A x \in Board : rom'[x] \in Request => rom[x] \in Request \/ ~lease[x]
  <2>1. \/ UNCHANGED rom
        \/ \E b \in Board, r \in AnyRequest :
             rom' = [rom EXCEPT ![b] = r] /\ ~lease[b]
    <3>1. ASSUME NEW b \in Board, LocalEnter(b)
          PROVE  UNCHANGED rom \/ (~lease[b] /\ rom' = [rom EXCEPT ![b] = client[b].req])
      BY <3>1 DEF LocalEnter, Safe, Updating
    <3>2. ASSUME NEW b \in Board, ServerEnter(b)
          PROVE  ~lease[b] /\ rom' = [rom EXCEPT ![b] = server[b].req]
      <4>1. server[b].status = "ACCEPTED"
        BY <3>2 DEF ServerEnter, MaintTypeInv, GoodServer
      <4> QED BY <3>2, <4>1 DEF ServerEnter, StillSafe, Safe, Updating
    <3>3. \A b \in Board : client[b].req \in AnyRequest /\ server[b].req \in AnyRequest
      BY ClientFacts, ServerFacts DEF MaintTypeInv
    <3> QED BY <3>1, <3>2, <3>3
            DEF Begin, Poll, ReplyComplete, Cancel, ClientGivesUp, ReceiveAck,
                ReceiveRequest, TakeIngress, ServerGivesUp, WebRequest, RequestReboot,
                RequestRebootBlindly, vars
  <2> QED BY <2>1 DEF MaintTypeInv, MaintTypeOK
<1>3. \A x \in Board : InFlight(x, "WORD")' => InFlight(x, "WORD")
  BY <1>1 DEF InFlight
<1> QED BY <1>1, <1>2, <1>3, LeaseStep

(* A queue that holds a word held one before, unless one was added. *)
LEMMA SendKeepsWords ==
  ASSUME MaintTypeInv, NEW b \in Board, NEW f \in Frame, f.type # "WORD", Send(b, f),
         UNCHANGED <<out, wire>>
  PROVE  \A x \in Board : InFlight(x, "WORD")' => InFlight(x, "WORD")
<1>1. ASSUME NEW x \in Board, Holds(txq'[x], "WORD")
      PROVE  Holds(txq[x], "WORD")
  <2>1. txq[x] \in Seq(Frame)
    BY DEF MaintTypeInv, MaintTypeOK
  <2>2. txq'[x] = IF x = b THEN Append(txq[x], f) ELSE txq[x]
    BY DEF Send, MaintTypeInv, MaintTypeOK
  <2>3. Holds(Append(txq[x], f), "WORD") => Holds(txq[x], "WORD")
    BY <2>1, WordAppended, Zenon
  <2> QED BY <1>1, <2>2, <2>3
<1> QED BY <1>1 DEF InFlight

(* Frames other than words come and go. *)
LEMMA SendersKeepLease ==
  ASSUME MaintTypeInv, LeaseCovers, NEW b \in Board,
         \/ Admit(b) \/ ServerAck(b) \/ Ask(b) \/ WebTask(b)
         \/ \E target \in Board : Hotkey(b, target)
  PROVE  LeaseCovers'
<1>1. UNCHANGED <<out, wire, answering, pull, lease>>
  BY DEF Admit, ServerAck, Ask, WebTask, Hotkey, updater
<1>2. UNCHANGED txq \/ \E f \in Frame : f.type # "WORD" /\ Send(b, f)
  <2>1. CASE Admit(b)
    <3>1. [type |-> "REQUEST", req |-> client[b].req] \in Frame
      BY <2>1, FrameFacts DEF Admit, MaintTypeInv, GoodClient
    <3> QED BY <2>1, <3>1 DEF Admit
  <2>2. CASE ServerAck(b)
    <3>1. [type |-> "ACK", req |-> server[b].req, status |-> server[b].status] \in Frame
      BY <2>2, FrameFacts, ServerFacts DEF ServerAck, MaintTypeInv, GoodServer
    <3> QED BY <2>2, <3>1 DEF ServerAck
  <2>3. CASE Ask(b)
    BY <2>3, FrameFacts DEF Ask
  <2>4. CASE WebTask(b)
    BY <2>4, FrameFacts DEF WebTask
  <2>5. ASSUME NEW target \in Board, Hotkey(b, target)
        PROVE  UNCHANGED txq \/ Send(b, [type |-> "UPGRADE"])
    BY <2>5 DEF Hotkey, Send, MaintTypeInv, MaintTypeOK
  <2> QED BY <2>1, <2>2, <2>3, <2>4, <2>5, FrameFacts
<1>3. \A x \in Board : InFlight(x, "WORD")' => InFlight(x, "WORD")
  <2>1. CASE UNCHANGED txq
    BY <1>1, <2>1 DEF InFlight
  <2> QED BY <1>1, <1>2, <2>1, SendKeepsWords
<1>4. \A x \in Board : rom'[x] \in Request => rom[x] \in Request
  <2>1. \/ UNCHANGED rom \/ rom' = [rom EXCEPT ![b] = rom[b]]
        \/ rom' = [rom EXCEPT ![b] = Shortcut]
    BY DEF Admit, ServerAck, Ask, WebTask, Hotkey
  <2> QED BY <2>1, RequestFacts DEF MaintTypeInv, MaintTypeOK
<1> QED BY <1>1, <1>3, <1>4, LeaseStep

(* What a queue may turn into without a word being added to the link. *)
LEMMA LinkKeepsWords ==
  ASSUME NEW x \in Board,
         \A q \in {txq'[x], out'[x], wire'[x]} :
           Holds(q, "WORD") => InFlight(x, "WORD")
  PROVE  InFlight(x, "WORD")' => InFlight(x, "WORD")
BY DEF InFlight

(* The UART moves words along, or drops them. *)
LEMMA UartKeepsLease ==
  ASSUME MaintTypeInv, LeaseCovers, NEW b \in Board,
         Transmit(b) \/ Discard(b) \/ Shift(b) \/ Lose(b)
  PROVE  LeaseCovers'
<1>1. UNCHANGED <<answering, pull, lease, rom>>
  BY DEF Transmit, Discard, Shift, Lose, updater
<1>2. ASSUME NEW x \in Board
      PROVE  txq[x] \in Seq(Frame) /\ out[x] \in Seq(Frame) /\ wire[x] \in Seq(Frame)
  BY DEF MaintTypeInv, MaintTypeOK
<1>3. ASSUME NEW x \in Board
      PROVE  \A q \in {txq'[x], out'[x], wire'[x]} :
               Holds(q, "WORD") => InFlight(x, "WORD")
  <2>1. \/ txq'[x] = txq[x]
        \/ txq[x] # <<>> /\ txq'[x] = Tail(txq[x])
    BY DEF Transmit, Discard, Shift, Lose, MaintTypeInv, MaintTypeOK
  <2>2. Holds(txq'[x], "WORD") => Holds(txq[x], "WORD")
    <3>1. CASE txq[x] # <<>> /\ txq'[x] = Tail(txq[x])
      BY <1>2, <3>1, WordInTail, Zenon
    <3> QED BY <2>1, <3>1
  <2>3. \/ out'[x] = out[x] \/ out'[x] = <<>>
        \/ txq[x] # <<>> /\ out'[x] = <<Head(txq[x])>>
    BY DEF Transmit, Discard, Shift, Lose, MaintTypeInv, MaintTypeOK
  <2>4. ASSUME txq[x] # <<>>, Holds(<<Head(txq[x])>>, "WORD")
        PROVE  Holds(txq[x], "WORD")
    <3>1. txq[x] \in Seq(Frame) /\ Head(txq[x]) \in Frame
      BY <1>2, <2>4
    <3>2. Head(txq[x]).type = "WORD"
      BY <2>4, <3>1, WordSingle, Zenon
    <3> QED BY <2>4, <3>1, <3>2, WordAtHead, Zenon
  <2>5. ~Holds(<<>>, "WORD")
    BY DEF Holds
  <2>6. Holds(out'[x], "WORD") => Holds(txq[x], "WORD") \/ Holds(out[x], "WORD")
    BY <2>3, <2>4, <2>5
  <2>7. \/ wire'[x] = wire[x] \/ wire'[x] = out[x] \/ wire'[x] = wire[x] \o out[x]
        \/ wire[x] # <<>> /\ wire'[x] = Tail(wire[x])
    <3>1. CASE Shift(b)
      <4>1. x # b => wire'[x] = wire[x]
        BY <3>1 DEF Shift, MaintTypeInv, MaintTypeOK
      <4>2. wire'[b] = IF Len(wire[b]) < WireCap THEN wire[b] \o out[b] ELSE out[b]
        BY <3>1 DEF Shift, MaintTypeInv, MaintTypeOK
      <4> QED BY <4>1, <4>2
    <3>2. CASE Transmit(b) \/ Discard(b) \/ Lose(b)
      BY <3>2 DEF Transmit, Discard, Lose, MaintTypeInv, MaintTypeOK
    <3> QED BY <3>1, <3>2
  <2>8. Holds(wire'[x], "WORD") => Holds(wire[x], "WORD") \/ Holds(out[x], "WORD")
    <3>1. CASE wire'[x] = wire[x] \o out[x]
      BY <1>2, <3>1, WordJoined, Zenon
    <3>2. CASE wire[x] # <<>> /\ wire'[x] = Tail(wire[x])
      BY <1>2, <3>2, WordInTail, Zenon
    <3> QED BY <2>7, <3>1, <3>2
  <2> QED BY <2>2, <2>6, <2>8 DEF InFlight
<1>4. \A x \in Board : InFlight(x, "WORD")' => InFlight(x, "WORD")
  BY <1>3, LinkKeepsWords
<1> QED BY <1>1, <1>4, LeaseStep

(* A word that is served starts the lease, and one that is written is      *)
(* still covered by it.                                                    *)
LEMMA ReceiveKeepsLease ==
  ASSUME MaintTypeInv, LeaseCovers, NEW b \in Board,
         HandOver(b) \/ ReceiveUpgrade(b) \/ ReceiveAsk(b) \/ ReceiveWord(b)
  PROVE  LeaseCovers'
<1>1. /\ Peer(b) \in Board /\ wire[Peer(b)] \in Seq(Frame) /\ wire[Peer(b)] # <<>>
      /\ wire' = [wire EXCEPT ![Peer(b)] = Tail(@)] /\ UNCHANGED <<txq, out>>
  BY PeerFacts DEF HandOver, ReceiveUpgrade, ReceiveAsk, ReceiveWord, Arrives, Parse,
                   MaintTypeInv, MaintTypeOK
<1>2. ASSUME NEW x \in Board
      PROVE  InFlight(x, "WORD")' => InFlight(x, "WORD")
  <2>1. wire'[x] = wire[x] \/ (x = Peer(b) /\ wire'[x] = Tail(wire[Peer(b)]))
    BY <1>1 DEF MaintTypeInv, MaintTypeOK
  <2>2. Holds(Tail(wire[Peer(b)]), "WORD") => Holds(wire[Peer(b)], "WORD")
    BY <1>1, WordInTail, Zenon
  <2> QED BY <1>1, <2>1, <2>2 DEF InFlight
<1>3. CASE HandOver(b)
  BY <1>2, <1>3, LeaseStep DEF HandOver, updater
<1>4. CASE ReceiveUpgrade(b)
  <2>1. \A x \in Board : rom'[x] \in Request => rom[x] \in Request
    BY <1>4, RequestFacts DEF ReceiveUpgrade, MaintTypeInv, MaintTypeOK
  <2> QED BY <1>2, <1>4, <2>1, LeaseStep DEF ReceiveUpgrade, updater
<1>5. CASE ReceiveAsk(b)
  <2>1. /\ UNCHANGED <<rom, pull>> /\ rom[b] \notin Request
        /\ \A x \in Board : x # b => lease'[x] = lease[x] /\ answering'[x] = answering[x]
        /\ answering'[b] = Serves(b) /\ lease'[b] = (lease[b] \/ Serves(b))
    BY <1>5, RequestFacts DEF ReceiveAsk, Arrives, Up, MaintTypeInv, MaintTypeOK
  <2> QED BY <1>2, <2>1 DEF LeaseCovers
<1>6. CASE ReceiveWord(b)
  <2>1. Holds(wire[Peer(b)], "WORD")
    <3>1. Head(wire[Peer(b)]).type = "WORD"
      BY <1>6 DEF ReceiveWord, Arrives
    <3> QED BY <1>1, <3>1, WordAtHead, Zenon
  <2>2. /\ UNCHANGED <<rom, answering, lease>>
        /\ \A x \in Board : x # b => pull'[x] = pull[x]
    BY <1>6 DEF ReceiveWord, MaintTypeInv, MaintTypeOK
  <2>3. ASSUME NEW x \in Board, pull'[Peer(x)] = "dirty"
        PROVE  pull[Peer(x)] = "dirty" \/ InFlight(x, "WORD")
    <3>1. CASE x = Peer(b)
      BY <2>1, <3>1 DEF InFlight
    <3>2. CASE x # Peer(b)
      <4>1. Peer(x) \in Board /\ Peer(x) # b
        BY <3>2, PeerFacts
      <4> QED BY <2>2, <2>3, <4>1
    <3> QED BY <3>1, <3>2
  <2> QED BY <1>2, <2>2, <2>3, LeaseStep
<1> QED BY <1>3, <1>4, <1>5, <1>6

(* The updater dirties nothing by itself, and a lease ends only when all   *)
(* it covers has.                                                          *)
LEMMA UpdaterKeepsLease ==
  ASSUME MaintTypeInv, LeaseCovers, NEW b \in Board,
         QueueWord(b) \/ BeginPull(b) \/ Stall(b) \/ LeaseExpires(b) \/ Drop(b)
  PROVE  LeaseCovers'
<1>1. CASE QueueWord(b)
  <2>1. /\ UNCHANGED <<out, wire, rom, pull, lease>> /\ answering[b]
        /\ \A x \in Board : answering'[x] => answering[x]
        /\ \A x \in Board : x # b => txq'[x] = txq[x]
    BY <1>1 DEF QueueWord, Send, updater, MaintTypeInv, MaintTypeOK
  <2>2. ASSUME NEW x \in Board
        PROVE  InFlight(x, "WORD")' => InFlight(x, "WORD") \/ answering[x]
    BY <2>1 DEF InFlight
  <2> QED BY <2>1, <2>2, LeaseStep
<1>2. CASE BeginPull(b) \/ Stall(b)
  <2>1. /\ UNCHANGED <<txq, out, wire, rom, answering, lease>>
        /\ \A x \in Board : pull'[x] = "dirty" => pull[x] = "dirty"
    BY <1>2 DEF BeginPull, Stall, link, MaintTypeInv, MaintTypeOK
  <2>2. \A x \in Board : InFlight(x, "WORD")' => InFlight(x, "WORD")
    BY <2>1 DEF InFlight
  <2> QED BY <2>1, <2>2, LeaseStep, PeerFacts
<1>3. CASE LeaseExpires(b)
  <2>1. /\ UNCHANGED <<txq, out, wire, rom, answering, pull>>
        /\ ~answering[b] /\ ~InFlight(b, "WORD") /\ pull[Peer(b)] # "dirty"
        /\ \A x \in Board : lease'[x] => lease[x]
        /\ \A x \in Board : x # b => lease'[x] = lease[x]
    BY <1>3 DEF LeaseExpires, Pulling, link, MaintTypeInv, MaintTypeOK
  <2>2. \A x \in Board : InFlight(x, "WORD")' = InFlight(x, "WORD")
    BY <2>1 DEF InFlight
  <2> QED BY <2>1, <2>2 DEF LeaseCovers
<1>4. CASE Drop(b)
  <2>1. /\ UNCHANGED <<txq, out, wire, answering, lease>>
        /\ \A x \in Board : pull'[x] = "dirty" => pull[x] = "dirty"
        /\ \A x \in Board : rom'[x] \in Request => rom[x] \in Request
    BY <1>4, RequestFacts DEF Drop, link, MaintTypeInv, MaintTypeOK
  <2>2. \A x \in Board : InFlight(x, "WORD")' => InFlight(x, "WORD")
    BY <2>1 DEF InFlight
  <2> QED BY <2>1, <2>2, LeaseStep, PeerFacts
<1> QED BY <1>1, <1>2, <1>3, <1>4

(* A board that restarts forgets its lease, with all that it covered.      *)
LEMMA RestartKeepsLease ==
  ASSUME MaintTypeInv, LeaseCovers, NEW b \in Board, Restart(b)
  PROVE  LeaseCovers'
<1>1. Peer(b) \in Board /\ Peer(b) # b /\ Peer(Peer(b)) = b
  BY PeerFacts
<1>2. ~Holds(<<>>, "WORD")
  BY DEF Holds
<1>3. /\ lease'[b] = FALSE /\ answering'[b] = FALSE /\ rom'[b] = NoRequest
      /\ txq'[b] = <<>> /\ out'[b] = <<>> /\ ~Holds(wire'[b], "WORD")
      /\ pull'[Peer(b)] # "dirty"
  BY <1>1, <1>2 DEF Restart, MaintTypeInv, MaintTypeOK
<1>4. /\ lease'[Peer(b)] = lease[Peer(b)] /\ answering'[Peer(b)] = answering[Peer(b)]
      /\ rom'[Peer(b)] = rom[Peer(b)] /\ txq'[Peer(b)] = txq[Peer(b)]
      /\ out'[Peer(b)] = out[Peer(b)] /\ wire'[Peer(b)] = <<>> /\ pull'[b] = "none"
  BY <1>1 DEF Restart, MaintTypeInv, MaintTypeOK
<1>5. ASSUME NEW x \in Board
      PROVE  /\ answering'[x] \/ InFlight(x, "WORD")' \/ pull'[Peer(x)] = "dirty" => lease'[x]
             /\ rom'[x] \in Request => ~lease'[x]
  <2>1. CASE x = b
    BY <1>2, <1>3, <2>1, RequestFacts DEF InFlight
  <2>2. CASE x = Peer(b)
    BY <1>1, <1>2, <1>4, <2>2 DEF InFlight, LeaseCovers
  <2> QED BY <2>1, <2>2, PeerFacts
<1> QED BY <1>5 DEF LeaseCovers

-----------------------------------------------------------------------------
(* The inductive invariant holds at power-up. *)
LEMMA MaintInitial == Init => MaintIInv
<1> SUFFICES ASSUME Init PROVE MaintIInv
  OBVIOUS
<1>1. NoClient.phase = "IDLE" /\ NoServer.phase = "IDLE"
  BY DEF NoClient, NoServer
<1>2. client \in [Board -> GoodClient] /\ server \in [Board -> GoodServer]
  BY ClientFacts, ServerFacts DEF Init
<1>3. <<>> \in Seq(Frame) /\ <<>> \in Seq(MaintFrame) /\ Len(<<>>) = 0
  OBVIOUS
<1>4. MaintTypeOK
  BY <1>2, <1>3, Weaken, RequestFacts, MaintAssumption DEF Init, MaintTypeOK, Pull
<1>5. ReservationOK /\ ReservedIsSafe
  BY <1>1 DEF Init, ReservationOK, ReservedIsSafe, Reserves
<1>6. LeaseCovers
  <2>1. ~Holds(<<>>, "WORD")
    BY DEF Holds
  <2>2. \A x \in Board : ~InFlight(x, "WORD")
    BY <2>1 DEF Init, InFlight
  <2> QED BY <2>2, PeerFacts, RequestFacts DEF Init, LeaseCovers
<1> QED BY <1>2, <1>4, <1>5, <1>6 DEF MaintIInv, MaintTypeInv

(* Every step preserves it. *)
LEMMA MaintStep == MaintIInv /\ [Next]_vars => MaintIInv'
<1> SUFFICES ASSUME MaintIInv, [Next]_vars PROVE MaintIInv'
  OBVIOUS
<1> USE DEF MaintIInv
<1>1. CASE UNCHANGED vars
  <2>1. MaintTypeInv'
    BY <1>1 DEF MaintTypeInv, MaintTypeOK, vars, maint, link, updater
  <2>2. ReservationOK' /\ ReservedIsSafe'
    BY <1>1, LinkKeepsReservation
  <2>3. LeaseCovers'
    BY <1>1, MaintenanceKeepsLease
  <2> QED BY <2>1, <2>2, <2>3
<1>2. ASSUME NEW b \in Board,
             \/ \E target \in Board, config \in BOOLEAN : Begin(b, target, config)
             \/ Poll(b) \/ ReplyComplete(b) \/ Cancel(b) \/ ClientGivesUp(b)
      PROVE  MaintIInv'
  BY <1>2, ConsoleType, ClientKeepsReservation, MaintenanceKeepsLease
<1>3. ASSUME NEW b \in Board, LocalEnter(b)
      PROVE  MaintIInv'
  BY <1>3, ConsoleType, LocalEnterReservation, MaintenanceKeepsLease
<1>4. ASSUME NEW b \in Board, Admit(b)
      PROVE  MaintIInv'
  BY <1>4, SendType, ClientKeepsReservation, SendersKeepLease
<1>5. ASSUME NEW b \in Board, ReceiveAck(b)
      PROVE  MaintIInv'
  BY <1>5, ServerType, ClientKeepsReservation, MaintenanceKeepsLease
<1>6. ASSUME NEW b \in Board, ReceiveRequest(b) \/ ServerGivesUp(b) \/ ServerEnter(b)
      PROVE  MaintIInv'
  BY <1>6, ServerType, ServerKeepsReservation, MaintenanceKeepsLease
<1>7. ASSUME NEW b \in Board, ServerAck(b)
      PROVE  MaintIInv'
  BY <1>7, SendType, ServerKeepsReservation, SendersKeepLease
<1>8. ASSUME NEW b \in Board, Transmit(b)
      PROVE  MaintIInv'
  BY <1>8, UartType, ServerKeepsReservation, UartKeepsLease
<1>9. ASSUME NEW b \in Board, Discard(b) \/ Shift(b) \/ Lose(b)
      PROVE  MaintIInv'
  BY <1>9, UartType, LinkKeepsReservation, UartKeepsLease
<1>10. ASSUME NEW b \in Board, HandOver(b) \/ ReceiveUpgrade(b)
       PROVE  MaintIInv'
  BY <1>10, ReceiveType, LinkKeepsReservation, ReceiveKeepsLease
<1>11. ASSUME NEW b \in Board, ReceiveAsk(b) \/ ReceiveWord(b)
       PROVE  MaintIInv'
  BY <1>11, ReceiveType, OthersKeepReservation, ReceiveKeepsLease
<1>12. ASSUME NEW b \in Board, QueueWord(b)
       PROVE  MaintIInv'
  BY <1>12, UpdaterType, LinkKeepsReservation, UpdaterKeepsLease
<1>13. ASSUME NEW b \in Board, Ask(b)
       PROVE  MaintIInv'
  BY <1>13, UpdaterType, LinkKeepsReservation, SendersKeepLease
<1>14. ASSUME NEW b \in Board, BeginPull(b) \/ Stall(b) \/ LeaseExpires(b) \/ Drop(b)
       PROVE  MaintIInv'
  BY <1>14, UpdaterType, OthersKeepReservation, UpdaterKeepsLease
<1>15. ASSUME NEW b \in Board,
              \/ \E target \in {"PEER", "LOCAL"} : WebRequest(b, target)
              \/ RequestReboot(b) \/ RequestRebootBlindly(b)
       PROVE  MaintIInv'
  BY <1>15, ResetType, OthersKeepReservation, MaintenanceKeepsLease
<1>16. ASSUME NEW b \in Board, WebTask(b)
       PROVE  MaintIInv'
  BY <1>16, ResetType, OthersKeepReservation, SendersKeepLease
<1>17. ASSUME NEW b \in Board, NEW target \in Board, Hotkey(b, target)
       PROVE  MaintIInv'
  BY <1>17, ResetType, LinkKeepsReservation, SendersKeepLease
<1>18. ASSUME NEW b \in Board, Restart(b)
       PROVE  MaintIInv'
  BY <1>18, ResetType, RestartReservation, RestartKeepsLease
<1> QED BY <1>1, <1>2, <1>3, <1>4, <1>5, <1>6, <1>7, <1>8, <1>9, <1>10, <1>11, <1>12,
           <1>13, <1>14, <1>15, <1>16, <1>17, <1>18 DEF Next

(* The inductive invariant holds in every reachable state. *)
THEOREM MaintInvariance == Spec => []MaintIInv
BY MaintInitial, MaintStep, PTL DEF Spec

(* Every variable keeps its type, and the queues their bounds: the hand-   *)
(* over between the cores among them.                                      *)
THEOREM MaintTypeCorrect == Spec => []MaintTypeOK
<1>1. MaintIInv => MaintTypeOK
  BY DEF MaintIInv, MaintTypeInv
<1> QED BY <1>1, MaintInvariance, PTL

(* From the moment maintenance.c reserves a board until it lets go, there  *)
(* is no pull, no lease, no reboot and no web request on it.               *)
THEOREM ReservationKeepsSafe == Spec => []ReservedIsSafe
<1>1. MaintIInv => ReservedIsSafe
  BY DEF MaintIInv
<1> QED BY <1>1, MaintInvariance, PTL

(* A console request never takes the source away from a board that has     *)
(* overwritten part of its slot.                                           *)
THEOREM SourceStays == Spec => []SourceNotAbandoned
<1>1. MaintIInv => SourceNotAbandoned
  BY DEF MaintIInv, LeaseCovers, SourceNotAbandoned
<1> QED BY <1>1, MaintInvariance, PTL

-----------------------------------------------------------------------------
(* What becomes of a request. *)

Req(r) == [type |-> "REQUEST", req |-> r]
Ack(r, s) == [type |-> "ACK", req |-> r, status |-> s]

(* The way of a frame from board c: its queue, its UART, the wire, and the *)
(* peer's hand-over from core 1 to core 0.                                 *)
Stage(k, c) == <<txq[c], out[c], wire[c], ingress[Peer(c)]>>[k]

Has(q, f) == \E i \in 1 .. Len(q) : q[i] = f
Once(q) == \A i, j \in 1 .. Len(q) : q[i] = q[j] /\ q[i].type = "REQUEST" => i = j

On(k, c, f) == Has(Stage(k, c), f)

(* r's frame is on its way from c; it has left c's queue; b has answered   *)
(* it; b has taken it.                                                     *)
Travels(c, r) == \E k \in 1 .. 4 : On(k, c, Req(r))
Gone(c, r) == \E k \in 2 .. 4 : On(k, c, Req(r))
Answered(b, r, s) == \E k \in 1 .. 4 : On(k, b, Ack(r, s))
Taken(b, r) == server[b].req = r \/ \E s \in Status : Answered(b, r, s)

Live(c, r) == client[c].phase # "IDLE" /\ client[c].req = r
Admitted(b, r) ==
  server[b].phase # "IDLE" /\ server[b].status = "ACCEPTED" /\ server[b].req = r

(* There is one copy of a request. *)
OneCopy(c) ==
  /\ \A k \in 1 .. 4 : Once(Stage(k, c))
  /\ \A r \in Request, j, k \in 1 .. 4 : On(j, c, Req(r)) /\ On(k, c, Req(r)) => j = k

(* Requests are numbered through, and carry their board. *)
Numbered(c, r) ==
  /\ Travels(c, r) \/ Live(c, r) => r.from = c /\ r.n <= events
  /\ Taken(c, r) => r.from = Peer(c) /\ r.n <= events

(* A request that is on its way has not been taken, one not yet queued is  *)
(* neither, and the answers to it are those of the server.                 *)
OneUse(c, r) ==
  /\ Travels(c, r) => ~Taken(Peer(c), r)
  /\ Live(c, r) /\ client[c].phase # "REPLY" => ~Travels(c, r) /\ ~Taken(Peer(c), r)
  /\ \A s \in Status : Answered(c, r, s) /\ server[c].req = r => server[c].status = s

Traffic == \A c \in Board : OneCopy(c) /\ \A r \in Request : Numbered(c, r) /\ OneUse(c, r)

(* A board in its ROM is not reserved. *)
RomIdle == \A b \in Board : ~Up(b) => ~reserved[b]

(* The requester of a frame that has left its queue waits for the answer,  *)
(* or was told that it cannot know.                                        *)
SentIsKnown ==
  \A c \in Board, r \in Request :
    Gone(c, r) => (Live(c, r) /\ client[c].phase = "REPLY") \/ r \in unsure

(* Both boards admit, or have entered, only if one requester gave up.      *)
Cross ==
  \A b \in Board, r, t \in Request :
    /\ rom[b] = r \/ Admitted(b, r)
    /\ rom[Peer(b)] = t \/ Admitted(Peer(b), t)
    /\ r.from = Peer(b) /\ t.from = b
    => r \in unsure \/ t \in unsure

(* A dead request is nowhere from where it could take effect. *)
DeadOK ==
  \A r \in dead :
    /\ r \in Request /\ r.n <= events
    /\ \A b \in Board : ~Gone(b, r) /\ ~Admitted(b, r) /\ ~Live(b, r)

(* An answer counted as sent is in the UART, or has left it. *)
AckOK ==
  \A b \in Board :
    Up(b) /\ server[b].sent =>
      \/ out[b] = <<Ack(server[b].req, "ACCEPTED")>>
      \/ server[b].req \in acked

History == RomIdle /\ SentIsKnown /\ Cross /\ DeadOK /\ AckOK /\ AckPrecedesEntry

RequestIInv == MaintIInv /\ Traffic /\ History

-----------------------------------------------------------------------------
(* Frames in queues. *)

(* From q to p frames of maintenance.c may be lost, and none is new. *)
Shrunk(q, p) ==
  /\ Once(q) => Once(p)
  /\ \A g \in MaintFrame : Has(p, g) => Has(q, g)

(* f may be new. *)
Grown(q, p, f) ==
  /\ Once(q) /\ (f.type = "REQUEST" => ~Has(q, f)) => Once(p)
  /\ \A g \in MaintFrame : Has(p, g) => Has(q, g) \/ g = f

(* f was there, and is not any more if it is a request. *)
Left(q, p, f) ==
  /\ Shrunk(q, p) /\ Has(q, f)
  /\ Once(q) /\ f.type = "REQUEST" => ~Has(p, f)

(* A queue that stays, or that is emptied. *)
LEMMA Emptied ==
  ASSUME NEW q
  PROVE  Shrunk(q, q) /\ Shrunk(q, <<>>)
BY DEF Shrunk, Once, Has

(* The head of a queue is taken off. *)
LEMMA HeadLeaves ==
  ASSUME NEW S, NEW q \in Seq(S), q # <<>>
  PROVE  Left(q, Tail(q), Head(q)) /\ Shrunk(q, Tail(q))
<1>1. /\ Len(q) \in Nat /\ Len(q) > 0 /\ Len(Tail(q)) = Len(q) - 1 /\ Head(q) = q[1]
      /\ \A i \in 1 .. Len(Tail(q)) : Tail(q)[i] = q[i + 1]
  OBVIOUS
<1> DEFINE t == Tail(q)
           h == Head(q)
           n == Len(q)
<1>2. /\ n \in Nat /\ n > 0 /\ Len(t) = n - 1 /\ h = q[1]
      /\ \A i \in 1 .. n - 1 : t[i] = q[i + 1]
  BY <1>1
<1> HIDE DEF t, h
<1>3. Has(q, h)
  BY <1>2 DEF Has
<1>4. \A g : Has(t, g) => Has(q, g)
  <2>1. SUFFICES ASSUME NEW g, NEW i \in 1 .. n - 1, t[i] = g PROVE Has(q, g)
    BY <1>2 DEF Has
  <2>2. i + 1 \in 1 .. n /\ q[i + 1] = g
    BY <1>2, <2>1
  <2> QED BY <2>2 DEF Has
<1>5. Once(q) => Once(t)
  <2>1. SUFFICES ASSUME Once(q), NEW i \in 1 .. n - 1, NEW j \in 1 .. n - 1,
                        t[i] = t[j], t[i].type = "REQUEST"
                 PROVE  i = j
    BY <1>2 DEF Once
  <2>2. i + 1 \in 1 .. n /\ j + 1 \in 1 .. n /\ q[i + 1] = t[i] /\ q[j + 1] = t[j]
    BY <1>2
  <2>3. i + 1 = j + 1
    BY <2>1, <2>2 DEF Once
  <2> QED BY <2>3
<1>6. Once(q) /\ h.type = "REQUEST" => ~Has(t, h)
  <2>1. SUFFICES ASSUME Once(q), h.type = "REQUEST", NEW i \in 1 .. n - 1, t[i] = h
                 PROVE  FALSE
    BY <1>2 DEF Has
  <2>2. i + 1 \in 1 .. n /\ 1 \in 1 .. n /\ q[i + 1] = q[1] /\ q[1].type = "REQUEST"
    BY <1>2, <2>1
  <2>3. i + 1 = 1
    BY <2>1, <2>2 DEF Once
  <2> QED BY <2>3
<1>7. Left(q, t, h)
  BY <1>3, <1>4, <1>5, <1>6 DEF Left, Shrunk
<1> QED BY <1>7 DEF Left, t, h

(* A frame is appended. *)
LEMMA FrameAppended ==
  ASSUME NEW S, NEW q \in Seq(S), NEW f \in S
  PROVE  Grown(q, Append(q, f), f)
<1> DEFINE p == Append(q, f)
           n == Len(q)
<1>1. /\ n \in Nat /\ Len(p) = n + 1 /\ p[n + 1] = f
      /\ \A i \in 1 .. n : p[i] = q[i]
  OBVIOUS
<1> HIDE DEF p
<1>2. \A g : Has(p, g) => Has(q, g) \/ g = f
  <2>1. SUFFICES ASSUME NEW g, NEW i \in 1 .. n + 1, p[i] = g PROVE Has(q, g) \/ g = f
    BY <1>1 DEF Has
  <2>2. CASE i \in 1 .. n
    BY <1>1, <2>1, <2>2 DEF Has
  <2>3. CASE i = n + 1
    BY <1>1, <2>1, <2>3
  <2> QED BY <1>1, <2>1, <2>2, <2>3
<1>3. ASSUME Once(q), f.type = "REQUEST" => ~Has(q, f) PROVE Once(p)
  <2>1. SUFFICES ASSUME NEW i \in 1 .. n + 1, NEW j \in 1 .. n + 1,
                        p[i] = p[j], p[i].type = "REQUEST"
                 PROVE  i = j
    BY <1>1 DEF Once
  <2>2. CASE i \in 1 .. n /\ j \in 1 .. n
    BY <1>1, <1>3, <2>1, <2>2 DEF Once
  <2>3. CASE i = n + 1 /\ j \in 1 .. n
    BY <1>1, <1>3, <2>1, <2>3 DEF Has
  <2>4. CASE j = n + 1 /\ i \in 1 .. n
    BY <1>1, <1>3, <2>1, <2>4 DEF Has
  <2> QED BY <1>1, <2>1, <2>2, <2>3, <2>4
<1>4. Grown(q, p, f)
  BY <1>2, <1>3 DEF Grown
<1> QED BY <1>4 DEF p

(* A frame of another kind is no frame of maintenance.c. *)
LEMMA OtherAppended ==
  ASSUME NEW q \in Seq(Frame), NEW f \in Frame, f.type \notin {"REQUEST", "ACK"}
  PROVE  Shrunk(q, Append(q, f))
<1>1. Grown(q, Append(q, f), f) /\ f \notin MaintFrame
  BY FrameAppended DEF MaintFrame
<1> QED BY <1>1 DEF Grown, Shrunk

(* A queue with one frame in it. *)
LEMMA Alone ==
  ASSUME NEW q, NEW f
  PROVE  Grown(q, <<f>>, f) /\ Left(<<f>>, <<>>, f)
<1>1. /\ Len(<<f>>) = 1 /\ <<f>>[1] = f /\ Len(<<>>) = 0
  OBVIOUS
<1>2. Has(<<f>>, f) /\ Once(<<f>>) /\ \A g : ~Has(<<>>, g)
  BY <1>1 DEF Has, Once
<1>3. Once(<<>>)
  BY DEF Once
<1>4. \A g : Has(<<f>>, g) => g = f
  BY <1>1 DEF Has
<1> QED BY <1>2, <1>3, <1>4 DEF Grown, Left, Shrunk

(* The frames of maintenance.c. *)
LEMMA ReqAck ==
  /\ \A r \in Request : Req(r) \in MaintFrame /\ Req(r).type = "REQUEST" /\ Req(r).req = r
  /\ \A r \in Request, s \in Status :
       /\ Ack(r, s) \in MaintFrame /\ Ack(r, s).type = "ACK"
       /\ Ack(r, s).req = r /\ Ack(r, s).status = s
  /\ \A f \in MaintFrame :
       /\ f.type = "REQUEST" => f = Req(f.req) /\ f.req \in Request
       /\ f.type = "ACK" => /\ f = Ack(f.req, f.status)
                            /\ f.req \in Request /\ f.status \in Status
       /\ f.type \in {"REQUEST", "ACK"}
BY DEF Req, Ack, MaintFrame

(* The stages by name, before and after a step. *)
LEMMA Stages ==
  ASSUME NEW c \in Board
  PROVE  /\ Stage(1, c) = txq[c] /\ Stage(2, c) = out[c]
         /\ Stage(3, c) = wire[c] /\ Stage(4, c) = ingress[Peer(c)]
         /\ Stage(1, c)' = txq'[c] /\ Stage(2, c)' = out'[c]
         /\ Stage(3, c)' = wire'[c] /\ Stage(4, c)' = ingress'[Peer(c)]
         /\ \A k \in 1 .. 4 : k = 1 \/ k = 2 \/ k = 3 \/ k = 4
BY DEF Stage

-----------------------------------------------------------------------------
(* What a step does to the queues. *)

(* No frame of maintenance.c is added or moved. *)
Quiet == \A c \in Board, k \in 1 .. 4 : Shrunk(Stage(k, c), Stage(k, c)')

(* Each queue for itself. *)
LEMMA QuietQueues ==
  ASSUME \A c \in Board : /\ Shrunk(txq[c], txq'[c]) /\ Shrunk(out[c], out'[c])
                          /\ Shrunk(wire[c], wire'[c]) /\ Shrunk(ingress[c], ingress'[c])
  PROVE  Quiet
<1> SUFFICES ASSUME NEW c \in Board, NEW k \in 1 .. 4
             PROVE  Shrunk(Stage(k, c), Stage(k, c)')
  BY DEF Quiet
<1>1. Peer(c) \in Board
  BY PeerFacts
<1>2. k = 1 \/ k = 2 \/ k = 3 \/ k = 4
  BY Stages
<1>3. CASE k = 1
  BY <1>3, Stages
<1>4. CASE k = 2
  BY <1>4, Stages
<1>5. CASE k = 3
  BY <1>5, Stages
<1>6. CASE k = 4
  BY <1>1, <1>6, Stages
<1> QED BY <1>2, <1>3, <1>4, <1>5, <1>6

(* Steps that leave the queues alone. *)
LEMMA LinkQuiet ==
  ASSUME MaintTypeInv, UNCHANGED <<txq, out, wire, ingress>>
  PROVE  Quiet
<1>1. \A c \in Board : /\ Shrunk(txq[c], txq'[c]) /\ Shrunk(out[c], out'[c])
                       /\ Shrunk(wire[c], wire'[c]) /\ Shrunk(ingress[c], ingress'[c])
  BY Emptied
<1> QED BY <1>1, QuietQueues

(* Frames of another kind. *)
LEMMA SendQuiet ==
  ASSUME MaintTypeInv, NEW b \in Board, NEW f \in Frame, f.type \notin {"REQUEST", "ACK"},
         txq' = txq \/ Send(b, f), UNCHANGED <<out, wire, ingress>>
  PROVE  Quiet
<1>1. txq \in [Board -> Seq(Frame)]
  BY DEF MaintTypeInv, MaintTypeOK
<1>2. ASSUME NEW c \in Board PROVE Shrunk(txq[c], txq'[c])
  <2>1. txq'[c] = txq[c] \/ (txq'[c] = Append(txq[c], f) /\ txq[c] \in Seq(Frame))
    BY <1>1 DEF Send
  <2> QED BY <2>1, Emptied, OtherAppended
<1>3. \A c \in Board : /\ Shrunk(out[c], out'[c])
                       /\ Shrunk(wire[c], wire'[c]) /\ Shrunk(ingress[c], ingress'[c])
  BY Emptied
<1> QED BY <1>2, <1>3, QuietQueues

(* A frame is taken from the wire or thrown away. *)
LEMMA DropQuiet ==
  ASSUME MaintTypeInv, NEW b \in Board,
         \/ /\ txq[b] # <<>> /\ txq' = [txq EXCEPT ![b] = Tail(@)]
            /\ UNCHANGED <<out, wire, ingress>>
         \/ /\ wire[b] # <<>> /\ wire' = [wire EXCEPT ![b] = Tail(@)]
            /\ UNCHANGED <<txq, out, ingress>>
         \/ /\ ingress[b] # <<>> /\ ingress' = [ingress EXCEPT ![b] = Tail(@)]
            /\ UNCHANGED <<txq, out, wire>>
  PROVE  Quiet
<1>1. /\ txq \in [Board -> Seq(Frame)] /\ wire \in [Board -> Seq(Frame)]
      /\ ingress \in [Board -> Seq(MaintFrame)]
  BY DEF MaintTypeInv, MaintTypeOK
<1>2. ASSUME NEW S, NEW q \in [Board -> Seq(S)], q[b] # <<>>, NEW c \in Board
      PROVE  Shrunk(q[c], [q EXCEPT ![b] = Tail(@)][c])
  <2>1. q[b] \in Seq(S)
    BY <1>2
  <2>2. Shrunk(q[b], Tail(q[b]))
    BY <1>2, <2>1, HeadLeaves
  <2>3. CASE c = b
    BY <1>2, <2>2, <2>3
  <2>4. CASE c # b
    BY <1>2, <2>4, Emptied
  <2> QED BY <2>3, <2>4
<1>3. CASE txq[b] # <<>> /\ txq' = [txq EXCEPT ![b] = Tail(@)] /\ UNCHANGED <<out, wire, ingress>>
  <2>1. \A c \in Board : Shrunk(txq[c], txq'[c])
    BY <1>1, <1>2, <1>3
  <2> QED BY <1>3, <2>1, Emptied, QuietQueues
<1>4. CASE wire[b] # <<>> /\ wire' = [wire EXCEPT ![b] = Tail(@)] /\ UNCHANGED <<txq, out, ingress>>
  <2>1. \A c \in Board : Shrunk(wire[c], wire'[c])
    BY <1>1, <1>2, <1>4
  <2> QED BY <1>4, <2>1, Emptied, QuietQueues
<1>5. CASE ingress[b] # <<>> /\ ingress' = [ingress EXCEPT ![b] = Tail(@)] /\ UNCHANGED <<txq, out, wire>>
  <2>1. \A c \in Board : Shrunk(ingress[c], ingress'[c])
    BY <1>1, <1>2, <1>5
  <2> QED BY <1>5, <2>1, Emptied, QuietQueues
<1> QED BY <1>3, <1>4, <1>5

(* A board that restarts loses frames, and adds none. *)
LEMMA RestartQuiet ==
  ASSUME MaintTypeInv, NEW b \in Board, Restart(b)
  PROVE  Quiet
<1>1. /\ txq \in [Board -> Seq(Frame)] /\ out \in [Board -> Seq(Frame)]
      /\ wire \in [Board -> Seq(Frame)] /\ ingress \in [Board -> Seq(MaintFrame)]
  BY DEF MaintTypeInv, MaintTypeOK
<1>2. ASSUME NEW c \in Board
      PROVE  /\ txq'[c] = txq[c] \/ txq'[c] = <<>>
             /\ out'[c] = out[c] \/ out'[c] = <<>>
             /\ wire'[c] = wire[c] \/ wire'[c] = <<>>
             /\ ingress'[c] = ingress[c] \/ ingress'[c] = <<>>
  BY <1>1, PeerFacts DEF Restart
<1>3. ASSUME NEW c \in Board
      PROVE  /\ Shrunk(txq[c], txq'[c]) /\ Shrunk(out[c], out'[c])
             /\ Shrunk(wire[c], wire'[c]) /\ Shrunk(ingress[c], ingress'[c])
  BY <1>2, Emptied
<1> QED BY <1>3, QuietQueues

-----------------------------------------------------------------------------
(* What a step does to a request. *)

(* A frame is queued by the client, sent while it waits for the answer,    *)
(* and answered by the server.                                             *)
FlowOK(c, r) ==
  /\ Travels(c, r)' =>
       \/ Travels(c, r)
       \/ Live(c, r) /\ client[c].phase = "ADMISSION" /\ client'[c].phase = "REPLY"
  /\ Gone(c, r)' =>
       \/ Gone(c, r)
       \/ Live(c, r) /\ client[c].phase = "REPLY" /\ client'[c] = client[c]
  /\ \A s \in Status : Answered(c, r, s)' =>
       \/ Answered(c, r, s)
       \/ server[c].req = r /\ server[c].status = s

(* A server takes a request off its way. *)
TakeOK(c, r) ==
  server'[c].req = r =>
    \/ /\ server[c].req = r /\ server'[c].status = server[c].status
       /\ server'[c].phase # "IDLE" => server[c].phase # "IDLE"
    \/ Gone(Peer(c), r) /\ ~Travels(Peer(c), r)' /\ client'[Peer(c)] = client[Peer(c)]

(* A client begins with a new number. *)
LiveOK(c, r) ==
  Live(c, r)' =>
    \/ Live(c, r) /\ (client'[c].phase # "REPLY" => client[c].phase # "REPLY")
    \/ r.from = c /\ r.n = events + 1 /\ events' = events + 1

(* It goes on, enters, or ends with an answer or without. *)
EndOK(c) ==
  client[c].phase # "IDLE" =>
    \/ /\ client'[c].phase # "IDLE" /\ client'[c].req = client[c].req
       /\ client[c].phase = "REPLY" => client'[c].phase = "REPLY"
    \/ client'[c].phase = "IDLE" /\ client[c].phase = "LOCAL"
    \/ /\ client'[c].phase = "IDLE" /\ rom'[c] = rom[c] /\ ~(reboot'[c] /\ ~reboot[c])
       /\ client'[c].result \in Status =>
            Answered(Peer(c), client[c].req, client'[c].result)

(* The ways into the ROM. *)
RomOK(c) ==
  /\ rom'[c] \in Request =>
       \/ rom'[c] = rom[c]
       \/ Admitted(c, rom'[c]) /\ Up(c) /\ server[c].sent /\ out[c] = <<>>
       \/ Live(c, rom'[c])
  /\ rom'[c] # NoRequest => (rom'[c] = rom[c] /\ reserved'[c] = reserved[c]) \/ ~reserved'[c]

(* The answer counts as sent when it is in the UART. *)
AckStepOK(c) ==
  rom'[c] = NoRequest /\ server'[c].sent =>
    \/ out'[c] = <<Ack(server'[c].req, "ACCEPTED")>>
    \/ /\ Up(c) /\ server[c].sent /\ server'[c].req = server[c].req
       /\ out[c] = <<>> \/ out'[c] = out[c] \/ out'[c] = <<>>

StepOK ==
  /\ events' \in {events, events + 1}
  /\ \A c \in Board :
       /\ OneCopy(c)' /\ EndOK(c) /\ RomOK(c) /\ AckStepOK(c)
       /\ \A r \in Request : FlowOK(c, r) /\ TakeOK(c, r) /\ LiveOK(c, r)

(* Quiet steps. *)
LEMMA QuietFlow ==
  ASSUME Traffic, Quiet
  PROVE  \A c \in Board : OneCopy(c)' /\ \A r \in Request : FlowOK(c, r)
<1> SUFFICES ASSUME NEW c \in Board
             PROVE  OneCopy(c)' /\ \A r \in Request : FlowOK(c, r)
  OBVIOUS
<1>1. ASSUME NEW k \in 1 .. 4
      PROVE  /\ Once(Stage(k, c))'
             /\ \A g \in MaintFrame : On(k, c, g)' => On(k, c, g)
  BY <1>1 DEF Quiet, Shrunk, Traffic, OneCopy, On
<1>2. \A r \in Request : Req(r) \in MaintFrame /\ \A s \in Status : Ack(r, s) \in MaintFrame
  BY ReqAck
<1>3. OneCopy(c)'
  <2>1. \A r \in Request, j, k \in 1 .. 4 : On(j, c, Req(r)) /\ On(k, c, Req(r)) => j = k
    BY DEF Traffic, OneCopy
  <2> QED BY <1>1, <1>2, <2>1 DEF OneCopy
<1>4. ASSUME NEW r \in Request PROVE FlowOK(c, r)
  <2>1. Travels(c, r)' => Travels(c, r)
    BY <1>1, <1>2 DEF Travels
  <2>2. Gone(c, r)' => Gone(c, r)
    <3>1. 2 .. 4 \subseteq 1 .. 4
      OBVIOUS
    <3> QED BY <1>1, <1>2, <3>1 DEF Gone
  <2>3. \A s \in Status : Answered(c, r, s)' => Answered(c, r, s)
    BY <1>1, <1>2 DEF Answered
  <2> QED BY <2>1, <2>2, <2>3 DEF FlowOK
<1> QED BY <1>3, <1>4

(* What a step that is not one of maintenance.c does to its records. *)
LEMMA OthersStep ==
  ASSUME MaintTypeInv, client' = client, server' = server, reserved' = reserved,
         \A c \in Board : \/ rom'[c] = rom[c]
                          \/ rom'[c] = Shortcut /\ ~reserved[c],
         \A c \in Board : out'[c] = out[c] \/ out'[c] = <<>>
  PROVE  \A c \in Board : /\ EndOK(c) /\ RomOK(c) /\ AckStepOK(c)
                          /\ \A r \in Request : TakeOK(c, r) /\ LiveOK(c, r)
<1> SUFFICES ASSUME NEW c \in Board
             PROVE  /\ EndOK(c) /\ RomOK(c) /\ AckStepOK(c)
                    /\ \A r \in Request : TakeOK(c, r) /\ LiveOK(c, r)
  OBVIOUS
<1>1. EndOK(c)
  BY DEF EndOK
<1>2. RomOK(c)
  BY RequestFacts DEF RomOK
<1>3. AckStepOK(c)
  BY DEF AckStepOK, Up, NoRequest, Shortcut
<1>4. ASSUME NEW r \in Request PROVE TakeOK(c, r) /\ LiveOK(c, r)
  BY DEF TakeOK, LiveOK, Live
<1> QED BY <1>1, <1>2, <1>3, <1>4

(* The updater, the web page, the hotkeys and the reboots. *)
LEMMA UpdaterStepOK ==
  ASSUME MaintTypeInv, Traffic, NEW b \in Board,
         \/ Discard(b) \/ Lose(b) \/ ReceiveUpgrade(b) \/ ReceiveAsk(b) \/ QueueWord(b)
         \/ ReceiveWord(b) \/ BeginPull(b) \/ Ask(b) \/ Stall(b) \/ LeaseExpires(b)
         \/ Drop(b) \/ (\E target \in {"PEER", "LOCAL"} : WebRequest(b, target))
         \/ WebTask(b) \/ (\E target \in Board : Hotkey(b, target))
         \/ RequestReboot(b) \/ RequestRebootBlindly(b)
  PROVE  StepOK
<1>1. Peer(b) \in Board
  BY PeerFacts
<1>2. /\ events' \in {events, events + 1} /\ client' = client /\ server' = server
      /\ reserved' = reserved /\ out' = out
  BY DEF Discard, Lose, ReceiveUpgrade, ReceiveAsk, QueueWord, ReceiveWord, BeginPull, Ask, Stall,
         LeaseExpires, Drop, WebRequest, WebTask, Hotkey, RequestReboot, RequestRebootBlindly,
         Event, maint, link
<1>3. ASSUME NEW c \in Board
      PROVE  rom'[c] = rom[c] \/ (rom'[c] = Shortcut /\ ~reserved[c])
  <2>1. rom \in [Board -> AnyRequest]
    BY DEF MaintTypeInv, MaintTypeOK
  <2>2. rom' = rom \/ (rom' = [rom EXCEPT ![b] = Shortcut] /\ ~reserved[b])
    <3>1. CASE ReceiveUpgrade(b)
      BY <2>1, <3>1 DEF ReceiveUpgrade
    <3>2. CASE WebTask(b)
      BY <2>1, <3>2 DEF WebTask
    <3>3. CASE Drop(b) \/ \E target \in Board : Hotkey(b, target)
      BY <3>3 DEF Drop, Hotkey
    <3> QED
      BY <3>1, <3>2, <3>3 DEF Discard, Lose, ReceiveAsk, QueueWord, ReceiveWord, BeginPull, Ask,
         Stall, LeaseExpires, WebRequest, RequestReboot, RequestRebootBlindly
  <2> QED BY <2>1, <2>2
<1>4. Quiet
  <2>1. CASE BeginPull(b) \/ Stall(b) \/ LeaseExpires(b) \/ Drop(b) \/ RequestReboot(b)
             \/ RequestRebootBlindly(b) \/ \E target \in {"PEER", "LOCAL"} : WebRequest(b, target)
    BY <2>1, LinkQuiet DEF BeginPull, Stall, LeaseExpires, Drop, RequestReboot,
       RequestRebootBlindly, WebRequest, link
  <2>2. CASE Discard(b)
    BY <2>2, DropQuiet DEF Discard
  <2>3. CASE Lose(b)
    BY <2>3, DropQuiet DEF Lose
  <2>4. CASE ReceiveUpgrade(b) \/ ReceiveAsk(b) \/ ReceiveWord(b)
    <3>1. wire[Peer(b)] # <<>> /\ wire' = [wire EXCEPT ![Peer(b)] = Tail(@)]
          /\ UNCHANGED <<txq, out, ingress>>
      BY <2>4 DEF ReceiveUpgrade, ReceiveAsk, ReceiveWord, Arrives, Parse
    <3> QED BY <1>1, <3>1, DropQuiet
  <2>5. CASE QueueWord(b)
    BY <2>5, SendQuiet, FrameFacts DEF QueueWord
  <2>6. CASE Ask(b)
    BY <2>6, SendQuiet, FrameFacts DEF Ask
  <2>7. CASE WebTask(b) \/ \E target \in Board : Hotkey(b, target)
    <3>1. /\ txq' = txq \/ Send(b, [type |-> "UPGRADE"])
          /\ UNCHANGED <<out, wire, ingress>>
      <4>1. txq \in [Board -> Seq(Frame)]
        BY DEF MaintTypeInv, MaintTypeOK
      <4> QED BY <2>7, <4>1 DEF WebTask, Hotkey, Send
    <3>2. [type |-> "UPGRADE"] \in Frame /\ [type |-> "UPGRADE"].type \notin {"REQUEST", "ACK"}
      BY FrameFacts
    <3> QED BY <3>1, <3>2, SendQuiet
  <2> QED BY <2>1, <2>2, <2>3, <2>4, <2>5, <2>6, <2>7
<1> QED BY <1>2, <1>3, <1>4, QuietFlow, OthersStep DEF StepOK

(* The client's steps, with a quiet link. *)
LEMMA ClientStep ==
  ASSUME MaintTypeInv, NEW b \in Board, Up(b), NEW cl \in GoodClient, SetClient(b, cl),
         EndOK(b), \A r \in Request : LiveOK(b, r), RomOK(b),
         out' = out, \A c \in Board : c # b => rom'[c] = rom[c]
  PROVE  \A c \in Board : /\ EndOK(c) /\ RomOK(c) /\ AckStepOK(c)
                          /\ \A r \in Request : TakeOK(c, r) /\ LiveOK(c, r)
<1> SUFFICES ASSUME NEW c \in Board
             PROVE  /\ EndOK(c) /\ RomOK(c) /\ AckStepOK(c)
                    /\ \A r \in Request : TakeOK(c, r) /\ LiveOK(c, r)
  OBVIOUS
<1>1. server' = server /\ (c # b => client'[c] = client[c] /\ reserved'[c] = reserved[c])
  BY DEF SetClient, MaintTypeInv, MaintTypeOK
<1>2. \A r \in Request : TakeOK(c, r)
  BY <1>1 DEF TakeOK
<1>3. AckStepOK(c)
  BY <1>1 DEF AckStepOK, Up
<1>4. CASE c = b
  BY <1>2, <1>3, <1>4
<1>5. CASE c # b
  <2>1. EndOK(c)
    BY <1>1, <1>5 DEF EndOK
  <2>2. RomOK(c)
    BY <1>1, <1>5 DEF RomOK
  <2>3. \A r \in Request : LiveOK(c, r)
    BY <1>1, <1>5 DEF LiveOK, Live
  <2> QED BY <1>2, <1>3, <2>1, <2>2, <2>3
<1> QED BY <1>4, <1>5

(* begin_console_maintenance: a new request. *)
LEMMA BeginOK ==
  ASSUME MaintTypeInv, Traffic, NEW b \in Board, NEW target \in Board, NEW config \in BOOLEAN,
         Begin(b, target, config)
  PROVE  StepOK
<1> DEFINE new == [from |-> b, n |-> events + 1]
           cl == [phase |-> IF target = b THEN "LOCAL" ELSE "ADMISSION",
                  req |-> new, config |-> config, done |-> FALSE,
                  result |-> IF target = b THEN "LOCAL_READY" ELSE "NONE"]
<1>1. /\ client \in [Board -> GoodClient] /\ events \in 0 .. MaxEvents /\ events < MaxEvents
      /\ events' = events + 1 /\ client[b].phase = "IDLE" /\ Up(b)
      /\ UNCHANGED <<rom, reboot, txq, out, wire, ingress>>
  BY DEF MaintTypeInv, MaintTypeOK, Begin, Event, link
<1>2. SetClient(b, cl)
  BY <1>1 DEF Begin
<1>3. new \in Request /\ new.from = b /\ new.n = events + 1
  BY <1>1, MaintAssumption DEF Request
<1>4. cl \in GoodClient /\ cl.req = new
  BY <1>3, RequestFacts DEF GoodClient, Client, Outcome
<1> HIDE DEF cl, new
<1>5. client'[b] = cl
  BY <1>1, <1>2 DEF SetClient
<1>6. EndOK(b)
  BY <1>1 DEF EndOK
<1>7. \A r \in Request : LiveOK(b, r)
  BY <1>1, <1>3, <1>4, <1>5 DEF LiveOK, Live
<1>8. RomOK(b)
  BY <1>1 DEF RomOK, Up
<1>9. Quiet
  BY <1>1, LinkQuiet
<1> QED BY <1>1, <1>2, <1>4, <1>6, <1>7, <1>8, <1>9, ClientStep, QuietFlow DEF StepOK

(* The client goes on, or ends without an answer. *)
LEMMA ClientOK ==
  ASSUME MaintIInv, Traffic, NEW b \in Board,
         Poll(b) \/ ReplyComplete(b) \/ Cancel(b) \/ ClientGivesUp(b)
  PROVE  StepOK
<1>1. /\ MaintTypeInv /\ client \in [Board -> GoodClient] /\ events' = events /\ Up(b)
      /\ UNCHANGED <<rom, reboot, txq, out, wire, ingress>>
  BY DEF MaintIInv, MaintTypeInv, MaintTypeOK, Poll, ReplyComplete, Cancel, ClientGivesUp, link
<1>2. client[b] \in GoodClient
  BY <1>1
<1>3. Quiet
  BY <1>1, LinkQuiet
<1>4. CASE UNCHANGED <<client, server, reserved>>
  BY <1>1, <1>3, <1>4, OthersStep, QuietFlow DEF StepOK
<1>5. ASSUME NEW cl \in GoodClient, SetClient(b, cl),
             \/ cl.phase = "IDLE" /\ cl.result \notin Status
             \/ cl.phase = client[b].phase /\ cl.req = client[b].req
      PROVE  StepOK
  <2>1. client'[b] = cl
    BY <1>1, <1>5 DEF SetClient
  <2>2. EndOK(b)
    BY <1>1, <1>5, <2>1 DEF EndOK
  <2>3. \A r \in Request : LiveOK(b, r)
    BY <1>5, <2>1 DEF LiveOK, Live
  <2>4. RomOK(b)
    BY <1>1 DEF RomOK, Up
  <2> QED BY <1>1, <1>3, <1>5, <2>2, <2>3, <2>4, ClientStep, QuietFlow DEF StepOK
<1>6. CASE Poll(b)
  <2>1. /\ [client[b] EXCEPT !.result = "NONE"] \in GoodClient
        /\ [client[b] EXCEPT !.result = "NONE"].phase = client[b].phase
        /\ [client[b] EXCEPT !.result = "NONE"].req = client[b].req
    BY <1>2, ClientFacts DEF GoodClient, Client
  <2> QED BY <1>5, <1>6, <2>1 DEF Poll
<1>7. CASE ReplyComplete(b)
  <2>1. /\ [client[b] EXCEPT !.done = TRUE] \in GoodClient
        /\ [client[b] EXCEPT !.done = TRUE].phase = client[b].phase
        /\ [client[b] EXCEPT !.done = TRUE].req = client[b].req
    BY <1>2, ClientFacts DEF GoodClient, Client
  <2> QED BY <1>4, <1>5, <1>7, <2>1 DEF ReplyComplete
<1>8. ASSUME NEW o \in {"NONE", "UNCONFIRMED", "NOT_SENT", "ABORTED"}
      PROVE  Finished(o) \in GoodClient /\ Finished(o).phase = "IDLE"
             /\ Finished(o).result \notin Status
  <2>1. o \in Outcome /\ o \notin Status
    BY DEF Outcome, Status
  <2>2. Finished(o).result = o
    BY DEF Finished, NoClient
  <2> QED BY <2>1, <2>2, ClientFacts
<1>9. CASE Cancel(b)
  BY <1>5, <1>8, <1>9 DEF Cancel
<1>10. CASE ClientGivesUp(b)
  <2>1. PICK o \in {"UNCONFIRMED", "NOT_SENT", "ABORTED"} : SetClient(b, Finished(o))
    <3>1. client[b].phase # "IDLE"
      BY <1>10 DEF ClientGivesUp
    <3>2. CASE client[b].phase = "REPLY"
      BY <1>10, <3>2 DEF ClientGivesUp
    <3>3. CASE client[b].phase # "REPLY" /\ client[b].phase = "ADMISSION" /\ Safe(b)
      BY <1>10, <3>3 DEF ClientGivesUp
    <3>4. CASE client[b].phase # "REPLY" /\ ~(client[b].phase = "ADMISSION" /\ Safe(b))
      BY <1>10, <3>4 DEF ClientGivesUp
    <3> QED BY <3>2, <3>3, <3>4
  <2> QED BY <1>5, <1>8, <2>1
<1> QED BY <1>6, <1>7, <1>9, <1>10

(* It enters the ROM, or asks for the reboot into configuration mode. *)
LEMMA LocalEnterOK ==
  ASSUME MaintIInv, MaintIInv', Traffic, NEW b \in Board, LocalEnter(b)
  PROVE  StepOK
<1> DEFINE cl == [client[b] EXCEPT !.phase = "IDLE"]
<1>1. /\ MaintTypeInv /\ client \in [Board -> GoodClient] /\ events' = events /\ Up(b)
      /\ rom \in [Board -> AnyRequest] /\ UNCHANGED <<txq, out, wire, ingress>>
      /\ client[b].phase = "LOCAL" /\ SetClient(b, cl)
      /\ rom' = rom \/ rom' = [rom EXCEPT ![b] = client[b].req]
  BY DEF MaintIInv, MaintTypeInv, MaintTypeOK, LocalEnter, link
<1>2. cl \in GoodClient /\ cl.phase = "IDLE"
  BY <1>1, ClientFacts
<1> HIDE DEF cl
<1>3. client'[b] = cl /\ ~reserved'[b]
  <2>1. client'[b] = cl /\ server'[b] = server[b]
    BY <1>1 DEF SetClient
  <2>2. ~(server[b].phase # "IDLE" /\ server[b].status = "ACCEPTED")
    BY <1>1 DEF MaintIInv, ReservationOK
  <2>3. reserved'[b] = Reserves(cl, server[b])
    BY <1>1 DEF SetClient, MaintTypeInv, MaintTypeOK
  <2> QED BY <1>2, <2>1, <2>2, <2>3 DEF Reserves
<1>4. EndOK(b)
  BY <1>1, <1>2, <1>3 DEF EndOK
<1>5. \A r \in Request : LiveOK(b, r)
  BY <1>2, <1>3 DEF LiveOK, Live
<1>6. RomOK(b)
  BY <1>1, <1>3 DEF RomOK, Live
<1>7. Quiet
  BY <1>1, LinkQuiet
<1> QED BY <1>1, <1>2, <1>4, <1>5, <1>6, <1>7, ClientStep, QuietFlow DEF StepOK

(* receive_ack: the answer it waits for ends the request. *)
LEMMA ReceiveAckOK ==
  ASSUME MaintIInv, Traffic, NEW b \in Board, ReceiveAck(b)
  PROVE  StepOK
<1> DEFINE ack == Head(ingress[b])
<1>1. /\ MaintTypeInv /\ client \in [Board -> GoodClient] /\ events' = events /\ Up(b)
      /\ ingress \in [Board -> Seq(MaintFrame)]
      /\ ingress[b] # <<>> /\ ingress' = [ingress EXCEPT ![b] = Tail(@)]
      /\ UNCHANGED <<rom, reboot, txq, out, wire>>
  BY DEF MaintIInv, MaintTypeInv, MaintTypeOK, ReceiveAck, HandedOver, TakeIngress
<1>2. Quiet
  BY <1>1, DropQuiet
<1>3. CASE UNCHANGED <<client, server, reserved>>
  BY <1>1, <1>2, <1>3, OthersStep, QuietFlow DEF StepOK
<1>4. CASE /\ client[b].phase = "REPLY" /\ ack.req = client[b].req
           /\ SetClient(b, Finished(ack.status))
  <2>1. ingress[b] \in Seq(MaintFrame)
    BY <1>1
  <2>2. ack \in MaintFrame /\ ack.type = "ACK" /\ Has(ingress[b], ack)
    <3>1. Has(ingress[b], ack)
      BY <1>1, <2>1, HeadLeaves DEF Left
    <3>2. ack.type = "ACK"
      BY DEF ReceiveAck, HandedOver
    <3> QED BY <1>1, <2>1, <3>1, <3>2
  <2>3. /\ ack = Ack(client[b].req, ack.status) /\ ack.status \in Status
    BY <1>4, <2>2, ReqAck
  <2>4. Answered(Peer(b), client[b].req, ack.status)
    <3>1. Peer(b) \in Board /\ Peer(Peer(b)) = b
      BY PeerFacts
    <3>2. Stage(4, Peer(b)) = ingress[b]
      BY <3>1, Stages
    <3> QED BY <2>2, <2>3, <3>2 DEF Answered, On
  <2>5. /\ Finished(ack.status) \in GoodClient /\ Finished(ack.status).phase = "IDLE"
        /\ Finished(ack.status).result = ack.status
    <3>1. ack.status \in Outcome
      BY <2>3 DEF Outcome
    <3>2. \A s \in Outcome : Finished(s).result = s
      BY DEF Finished, NoClient
    <3> QED BY <3>1, <3>2, ClientFacts
  <2>6. client'[b] = Finished(ack.status)
    BY <1>1, <1>4 DEF SetClient
  <2> HIDE DEF ack
  <2>7. EndOK(b)
    BY <1>1, <2>4, <2>5, <2>6 DEF EndOK
  <2>8. \A r \in Request : LiveOK(b, r)
    BY <2>5, <2>6 DEF LiveOK, Live
  <2>9. RomOK(b)
    BY <1>1 DEF RomOK, Up
  <2> QED BY <1>1, <1>2, <1>4, <2>5, <2>7, <2>8, <2>9, ClientStep, QuietFlow DEF StepOK
<1> QED BY <1>3, <1>4 DEF ReceiveAck

-----------------------------------------------------------------------------
(* Frames of maintenance.c on their way. *)

(* Frame f comes to stage k of board b's way, and no other frame moves. *)
Comes(f, k, b) ==
  /\ Grown(Stage(k, b), Stage(k, b)', f)
  /\ \A c \in Board, j \in 1 .. 4 : c # b \/ j # k => Shrunk(Stage(j, c), Stage(j, c)')
  /\ f.type = "REQUEST" => /\ ~On(k, b, f)
                           /\ \A j \in 1 .. 4 : j # k => ~On(j, b, f)'

LEMMA ComesOnce ==
  ASSUME Traffic, NEW b \in Board, NEW k \in 1 .. 4, NEW f \in MaintFrame, Comes(f, k, b)
  PROVE  \A c \in Board :
           /\ OneCopy(c)'
           /\ \A j \in 1 .. 4, g \in MaintFrame :
                On(j, c, g)' => On(j, c, g) \/ (c = b /\ j = k /\ g = f)
<1> SUFFICES ASSUME NEW c \in Board
             PROVE  /\ OneCopy(c)'
                    /\ \A j \in 1 .. 4, g \in MaintFrame :
                         On(j, c, g)' => On(j, c, g) \/ (c = b /\ j = k /\ g = f)
  OBVIOUS
<1>1. ASSUME NEW j \in 1 .. 4
      PROVE  /\ Once(Stage(j, c))'
             /\ \A g \in MaintFrame :
                  On(j, c, g)' => On(j, c, g) \/ (c = b /\ j = k /\ g = f)
  <2>1. Once(Stage(j, c))
    BY DEF Traffic, OneCopy
  <2>2. CASE c # b \/ j # k
    BY <2>1, <2>2 DEF Comes, Shrunk, On
  <2>3. CASE c = b /\ j = k
    BY <2>1, <2>3 DEF Comes, Grown, On
  <2> QED BY <2>2, <2>3
<1>2. ASSUME NEW r \in Request, NEW i \in 1 .. 4, NEW j \in 1 .. 4,
             On(i, c, Req(r))', On(j, c, Req(r))'
      PROVE  i = j
  <2>1. Req(r) \in MaintFrame /\ Req(r).type = "REQUEST"
    BY ReqAck
  <2>2. On(i, c, Req(r)) /\ On(j, c, Req(r)) => i = j
    BY DEF Traffic, OneCopy
  <2>3. CASE c = b /\ Req(r) = f
    BY <1>1, <1>2, <2>1, <2>2, <2>3 DEF Comes
  <2>4. CASE ~(c = b /\ Req(r) = f)
    BY <1>1, <1>2, <2>1, <2>2, <2>4
  <2> QED BY <2>3, <2>4
<1>3. OneCopy(c)'
  BY <1>1, <1>2 DEF OneCopy
<1> QED BY <1>1, <1>3

(* Frame f goes from stage k - 1 to stage k. *)
LEMMA MovesFlow ==
  ASSUME Traffic, NEW b \in Board, NEW k \in 2 .. 4, NEW f \in MaintFrame, Comes(f, k, b),
         On(k - 1, b, f),
         k = 2 /\ f.type = "REQUEST" =>
           client[b].phase = "REPLY" /\ client[b].req = f.req /\ client'[b] = client[b]
  PROVE  \A c \in Board : OneCopy(c)' /\ \A r \in Request : FlowOK(c, r)
<1>1. k \in 1 .. 4 /\ k - 1 \in 1 .. 4 /\ 2 .. 4 \subseteq 1 .. 4 /\ (k # 2 => k - 1 \in 2 .. 4)
  OBVIOUS
<1>2. ASSUME NEW c \in Board
      PROVE  /\ OneCopy(c)'
             /\ \A j \in 1 .. 4, g \in MaintFrame :
                  On(j, c, g)' => On(j, c, g) \/ (c = b /\ j = k /\ g = f)
  BY <1>1, ComesOnce
<1>3. ASSUME NEW c \in Board, NEW r \in Request PROVE FlowOK(c, r)
  <2>1. /\ Req(r) \in MaintFrame /\ Req(r).type = "REQUEST" /\ Req(r).req = r
        /\ \A s \in Status : Ack(r, s) \in MaintFrame
    BY ReqAck
  <2>2. Travels(c, r)' => Travels(c, r)
    BY <1>1, <1>2, <2>1 DEF Travels
  <2>3. \A s \in Status : Answered(c, r, s)' => Answered(c, r, s)
    BY <1>1, <1>2, <2>1 DEF Answered
  <2>4. Gone(c, r)' => \/ Gone(c, r)
                       \/ Live(c, r) /\ client[c].phase = "REPLY" /\ client'[c] = client[c]
    <3>1. SUFFICES ASSUME NEW j \in 2 .. 4, On(j, c, Req(r))'
                   PROVE  \/ Gone(c, r)
                          \/ Live(c, r) /\ client[c].phase = "REPLY" /\ client'[c] = client[c]
      BY DEF Gone
    <3>2. On(j, c, Req(r)) \/ (c = b /\ j = k /\ Req(r) = f)
      BY <1>1, <1>2, <2>1, <3>1
    <3>3. CASE On(j, c, Req(r))
      BY <3>1, <3>3 DEF Gone
    <3>4. CASE c = b /\ Req(r) = f /\ k # 2
      BY <1>1, <3>4 DEF Gone
    <3>5. CASE c = b /\ Req(r) = f /\ k = 2
      BY <2>1, <3>5 DEF Live
    <3> QED BY <3>2, <3>3, <3>4, <3>5
  <2> QED BY <2>2, <2>3, <2>4 DEF FlowOK
<1> QED BY <1>2, <1>3

(* The last bit leaves the UART. *)
LEMMA ShiftOK ==
  ASSUME MaintIInv, Traffic, NEW b \in Board, Shift(b)
  PROVE  StepOK
<1>1. /\ MaintTypeInv /\ out \in [Board -> Seq(Frame)] /\ wire \in [Board -> Seq(Frame)]
      /\ Len(out[b]) <= 1 /\ out[b] # <<>> /\ events' = events
      /\ UNCHANGED <<client, server, reserved, rom, txq, ingress>>
      /\ out' = [out EXCEPT ![b] = <<>>]
      /\ wire' = [wire EXCEPT ![b] = IF Len(@) < WireCap THEN @ \o out[b] ELSE out[b]]
  BY DEF MaintIInv, MaintTypeInv, MaintTypeOK, Shift, maint
<1>2. PICK f \in Frame : out[b] = <<f>>
  <2>1. out[b] = <<out[b][1]>> /\ out[b][1] \in Frame
    BY <1>1
  <2> QED BY <2>1
<1>3. wire[b] \in Seq(Frame) /\ (wire'[b] = Append(wire[b], f) \/ wire'[b] = <<f>>)
  <2>1. wire[b] \in Seq(Frame)
    BY <1>1
  <2>2. wire[b] \o <<f>> = Append(wire[b], f)
    BY <1>2, <2>1
  <2> QED BY <1>1, <1>2, <2>1, <2>2
<1>4. Grown(wire[b], wire'[b], f)
  BY <1>2, <1>3, FrameAppended, Alone
<1>5. Left(out[b], out'[b], f)
  BY <1>1, <1>2, Alone
<1>6. \A c \in Board : c # b => Shrunk(wire[c], wire'[c]) /\ Shrunk(out[c], out'[c])
  BY <1>1, Emptied
<1>7. \A c \in Board : Shrunk(txq[c], txq'[c]) /\ Shrunk(ingress[c], ingress'[c])
  BY <1>1, Emptied
<1>8. \A c \in Board : Peer(c) \in Board
  BY PeerFacts
<1>9. ASSUME NEW c \in Board, NEW j \in 1 .. 4, c # b \/ j # 3
      PROVE  Shrunk(Stage(j, c), Stage(j, c)')
  <2>1. CASE j = 1
    BY <1>7, <2>1, Stages
  <2>2. CASE j = 2
    BY <1>5, <1>6, <2>2, Stages DEF Left
  <2>3. CASE j = 3
    BY <1>6, <1>9, <2>3, Stages
  <2>4. CASE j = 4
    BY <1>7, <1>8, <2>4, Stages
  <2> QED BY <2>1, <2>2, <2>3, <2>4
<1>10. \A c \in Board : EndOK(c) /\ RomOK(c) /\ AckStepOK(c)
                        /\ \A r \in Request : TakeOK(c, r) /\ LiveOK(c, r)
  <2>1. \A c \in Board : out'[c] = out[c] \/ out'[c] = <<>>
    BY <1>1
  <2> QED BY <1>1, <2>1, OthersStep
<1>11. CASE f \in MaintFrame
  <2>1. On(2, b, f) /\ Stage(3, b) = wire[b] /\ Stage(3, b)' = wire'[b]
    BY <1>5, Stages DEF On, Left
  <2>2. ASSUME f.type = "REQUEST"
        PROVE  ~On(3, b, f) /\ \A j \in 1 .. 4 : j # 3 => ~On(j, b, f)'
    <3>1. f = Req(f.req) /\ f.req \in Request
      BY <1>11, <2>2, ReqAck
    <3>2. \A j \in 1 .. 4 : j # 2 => ~On(j, b, f)
      BY <2>1, <3>1 DEF Traffic, OneCopy
    <3>3. \A j \in 1 .. 4 : j # 2 /\ j # 3 => ~On(j, b, f)'
      BY <1>9, <1>11, <3>2 DEF Shrunk, On
    <3>4. ~On(2, b, f)'
      <4>1. Once(out[b])
        BY <1>2, Alone DEF Once
      <4>2. Stage(2, b)' = out'[b]
        BY Stages
      <4> QED BY <1>5, <2>2, <4>1, <4>2 DEF Left, On
    <3> QED BY <3>2, <3>3, <3>4
  <2>3. Comes(f, 3, b)
    BY <1>4, <1>9, <2>1, <2>2 DEF Comes
  <2>4. \A c \in Board : OneCopy(c)' /\ \A r \in Request : FlowOK(c, r)
    BY <1>11, <2>1, <2>3, MovesFlow
  <2> QED BY <1>1, <1>10, <2>4 DEF StepOK
<1>12. CASE f \notin MaintFrame
  <2>1. Shrunk(wire[b], wire'[b])
    <3>1. f.type # "REQUEST"
      BY <1>2, <1>12, FrameFacts
    <3> QED BY <1>4, <1>12, <3>1 DEF Grown, Shrunk
  <2>2. Quiet
    <3>1. \A c \in Board : Shrunk(out[c], out'[c]) /\ Shrunk(wire[c], wire'[c])
      BY <1>5, <1>6, <2>1 DEF Left
    <3> QED BY <1>7, <3>1, QuietQueues
  <2> QED BY <1>1, <1>10, <2>2, QuietFlow DEF StepOK
<1> QED BY <1>11, <1>12

(* maintenance_receive: core 1 hands a frame to core 0. *)
LEMMA HandOverOK ==
  ASSUME MaintIInv, Traffic, NEW b \in Board, HandOver(b)
  PROVE  StepOK
<1>1. PICK p \in Board : p = Peer(b) /\ p # b /\ Peer(p) = b /\ \A c \in Board : c = b \/ c = p
  BY PeerFacts
<1>2. /\ MaintTypeInv /\ wire \in [Board -> Seq(Frame)] /\ ingress \in [Board -> Seq(MaintFrame)]
      /\ wire[p] # <<>> /\ wire' = [wire EXCEPT ![p] = Tail(@)] /\ events' = events
      /\ Head(wire[p]).type \in {"REQUEST", "ACK"}
      /\ UNCHANGED <<client, server, reserved, rom, txq, out>>
      /\ \/ ingress' = [ingress EXCEPT ![b] = Append(@, Head(wire[p]))]
         \/ ingress' = ingress
  BY <1>1 DEF MaintIInv, MaintTypeInv, MaintTypeOK, HandOver, Arrives, Parse, maint
<1>3. PICK f \in MaintFrame : f = Head(wire[p])
  <2>1. wire[p] \in Seq(Frame)
    BY <1>2
  <2>2. Head(wire[p]) \in Frame
    BY <1>2, <2>1
  <2> QED BY <1>2, <2>2, FrameFacts
<1>4. Left(wire[p], wire'[p], f)
  <2>1. wire[p] \in Seq(Frame) /\ wire'[p] = Tail(wire[p])
    BY <1>2
  <2> QED BY <1>2, <1>3, <2>1, HeadLeaves
<1>5. /\ \A c \in Board : c # p => Shrunk(wire[c], wire'[c])
      /\ \A c \in Board : c # b => Shrunk(ingress[c], ingress'[c])
      /\ \A c \in Board : Shrunk(txq[c], txq'[c]) /\ Shrunk(out[c], out'[c])
  <2>1. \A c \in Board : c # p => wire'[c] = wire[c]
    BY <1>2
  <2>2. \A c \in Board : c # b => ingress'[c] = ingress[c]
    BY <1>2
  <2> QED BY <1>2, <2>1, <2>2, Emptied
<1>6. \A c \in Board : EndOK(c) /\ RomOK(c) /\ AckStepOK(c)
                       /\ \A r \in Request : TakeOK(c, r) /\ LiveOK(c, r)
  BY <1>2, OthersStep
<1>7. CASE ingress' = ingress
  <2>1. \A c \in Board : Shrunk(wire[c], wire'[c]) /\ Shrunk(ingress[c], ingress'[c])
    BY <1>4, <1>5, <1>7, Emptied DEF Left
  <2>2. Quiet
    BY <1>5, <2>1, QuietQueues
  <2> QED BY <1>2, <1>6, <2>2, QuietFlow DEF StepOK
<1>8. CASE ingress' = [ingress EXCEPT ![b] = Append(@, Head(wire[p]))]
  <2>1. Grown(ingress[b], ingress'[b], f)
    <3>1. ingress[b] \in Seq(MaintFrame) /\ ingress'[b] = Append(ingress[b], f)
      BY <1>2, <1>3, <1>8
    <3> QED BY <3>1, FrameAppended
  <2>2. On(3, p, f) /\ Stage(4, p) = ingress[b] /\ Stage(4, p)' = ingress'[b]
    BY <1>1, <1>4, Stages DEF On, Left
  <2>3. ASSUME NEW c \in Board, NEW j \in 1 .. 4, c # p \/ j # 4
        PROVE  Shrunk(Stage(j, c), Stage(j, c)')
    <3>1. CASE j = 1
      BY <1>5, <3>1, Stages
    <3>2. CASE j = 2
      BY <1>5, <3>2, Stages
    <3>3. CASE j = 3
      BY <1>4, <1>5, <3>3, Stages DEF Left
    <3>4. CASE j = 4
      <4>1. c = b /\ Peer(c) = p
        BY <1>1, <2>3, <3>4
      <4> QED BY <1>1, <1>5, <3>4, <4>1, Stages
    <3> QED BY <3>1, <3>2, <3>3, <3>4
  <2>4. ASSUME f.type = "REQUEST"
        PROVE  ~On(4, p, f) /\ \A j \in 1 .. 4 : j # 4 => ~On(j, p, f)'
    <3>1. f = Req(f.req) /\ f.req \in Request
      BY <2>4, ReqAck
    <3>2. \A j \in 1 .. 4 : j # 3 => ~On(j, p, f)
      BY <2>2, <3>1 DEF Traffic, OneCopy
    <3>3. \A j \in 1 .. 4 : j # 3 /\ j # 4 => ~On(j, p, f)'
      BY <2>3, <3>2 DEF Shrunk, On
    <3>4. ~On(3, p, f)'
      <4>1. Once(wire[p])
        <5>1. Once(Stage(3, p))
          BY DEF Traffic, OneCopy
        <5> QED BY <5>1, Stages
      <4>2. Stage(3, p)' = wire'[p]
        BY Stages
      <4> QED BY <1>4, <2>4, <4>1, <4>2 DEF Left, On
    <3> QED BY <3>2, <3>3, <3>4
  <2>5. Comes(f, 4, p)
    BY <2>1, <2>2, <2>3, <2>4 DEF Comes
  <2>6. \A c \in Board : OneCopy(c)' /\ \A r \in Request : FlowOK(c, r)
    BY <2>2, <2>5, MovesFlow
  <2> QED BY <1>2, <1>6, <2>6 DEF StepOK
<1> QED BY <1>2, <1>7, <1>8

(* The server's steps. *)
LEMMA ServerStep ==
  ASSUME MaintTypeInv, NEW b \in Board, NEW s \in GoodServer, SetServer(b, s),
         \A r \in Request : TakeOK(b, r), RomOK(b), AckStepOK(b),
         \A c \in Board : c # b => rom'[c] = rom[c] /\ out'[c] = out[c]
  PROVE  \A c \in Board : /\ EndOK(c) /\ RomOK(c) /\ AckStepOK(c)
                          /\ \A r \in Request : TakeOK(c, r) /\ LiveOK(c, r)
<1> SUFFICES ASSUME NEW c \in Board
             PROVE  /\ EndOK(c) /\ RomOK(c) /\ AckStepOK(c)
                    /\ \A r \in Request : TakeOK(c, r) /\ LiveOK(c, r)
  OBVIOUS
<1>1. client' = client /\ (c # b => server'[c] = server[c] /\ reserved'[c] = reserved[c])
  BY DEF SetServer, MaintTypeInv, MaintTypeOK
<1>2. EndOK(c)
  BY <1>1 DEF EndOK
<1>3. \A r \in Request : LiveOK(c, r)
  BY <1>1 DEF LiveOK, Live
<1>4. CASE c = b
  BY <1>2, <1>3, <1>4
<1>5. CASE c # b
  <2>1. AckStepOK(c)
    BY <1>1, <1>5 DEF AckStepOK, Up
  <2>2. RomOK(c)
    BY <1>1, <1>5 DEF RomOK
  <2>3. \A r \in Request : TakeOK(c, r)
    BY <1>1, <1>5 DEF TakeOK
  <2> QED BY <1>2, <1>3, <2>1, <2>2, <2>3
<1> QED BY <1>4, <1>5

(* The server gives up, or resets the board. *)
LEMMA ServerOK ==
  ASSUME MaintIInv, Traffic, NEW b \in Board, ServerGivesUp(b) \/ ServerEnter(b)
  PROVE  StepOK
<1> DEFINE s == [server[b] EXCEPT !.phase = "IDLE"]
<1>1. /\ MaintTypeInv /\ server \in [Board -> GoodServer] /\ events' = events /\ Up(b)
      /\ rom \in [Board -> AnyRequest] /\ UNCHANGED <<txq, out, wire, ingress>>
      /\ SetServer(b, s) /\ client \in [Board -> GoodClient]
  BY DEF MaintIInv, MaintTypeInv, MaintTypeOK, ServerGivesUp, ServerEnter, link
<1>2. /\ s \in GoodServer /\ s.phase = "IDLE" /\ s.req = server[b].req
      /\ s.status = server[b].status /\ s.sent = server[b].sent
  BY <1>1, ServerFacts DEF GoodServer, Server
<1> HIDE DEF s
<1>3. server'[b] = s
  BY <1>1 DEF SetServer
<1>4. \A r \in Request : TakeOK(b, r)
  BY <1>2, <1>3 DEF TakeOK
<1>5. Quiet
  BY <1>1, LinkQuiet
<1>6. CASE ServerGivesUp(b)
  <2>1. rom' = rom
    BY <1>6 DEF ServerGivesUp
  <2>2. RomOK(b) /\ AckStepOK(b)
    BY <1>1, <1>2, <1>3, <2>1 DEF RomOK, AckStepOK, Up
  <2> QED BY <1>1, <1>2, <1>4, <1>5, <2>1, <2>2, ServerStep, QuietFlow DEF StepOK
<1>7. CASE ServerEnter(b)
  <2>1. /\ rom' = [rom EXCEPT ![b] = server[b].req] /\ server[b].phase = "DRAIN"
        /\ server[b].sent /\ out[b] = <<>>
    BY <1>7 DEF ServerEnter, WireIdle
  <2>2. server[b].status = "ACCEPTED" /\ server[b].req \in Request
    BY <1>1, <2>1 DEF GoodServer
  <2>3. ~reserved'[b]
    <3>1. client[b].phase = "IDLE"
      BY <2>1, <2>2 DEF MaintIInv, ReservationOK
    <3>2. reserved'[b] = Reserves(client[b], s)
      BY <1>1 DEF SetServer, MaintTypeInv, MaintTypeOK
    <3> QED BY <1>2, <3>1, <3>2 DEF Reserves
  <2>4. rom'[b] = server[b].req /\ \A c \in Board : c # b => rom'[c] = rom[c]
    BY <1>1, <2>1
  <2>5. RomOK(b)
    BY <1>1, <2>1, <2>2, <2>3, <2>4 DEF RomOK, Admitted
  <2>6. AckStepOK(b)
    BY <2>2, <2>4, RequestFacts DEF AckStepOK
  <2> QED BY <1>1, <1>2, <1>4, <1>5, <2>4, <2>5, <2>6, ServerStep, QuietFlow DEF StepOK
<1> QED BY <1>6, <1>7

(* process_uart_tx_task: what is still wanted leaves the queue. *)
LEMMA TransmitOK ==
  ASSUME MaintIInv, Traffic, NEW b \in Board, Transmit(b)
  PROVE  StepOK
<1>1. /\ MaintTypeInv /\ txq \in [Board -> Seq(Frame)] /\ out \in [Board -> Seq(Frame)]
      /\ server \in [Board -> GoodServer] /\ events' = events /\ Up(b)
      /\ txq[b] # <<>> /\ out[b] = <<>> /\ Allowed(b, Head(txq[b]))
      /\ UNCHANGED <<rom, wire, ingress>>
      /\ txq' = [txq EXCEPT ![b] = Tail(@)]
      /\ out' = [out EXCEPT ![b] = <<Head(txq[b])>>]
  BY DEF MaintIInv, MaintTypeInv, MaintTypeOK, Transmit
<1>2. PICK f \in Frame : f = Head(txq[b])
  <2>1. txq[b] \in Seq(Frame)
    BY <1>1
  <2> QED BY <1>1, <2>1
<1>3. Left(txq[b], txq'[b], f)
  <2>1. txq[b] \in Seq(Frame) /\ txq'[b] = Tail(txq[b])
    BY <1>1
  <2> QED BY <1>1, <1>2, <2>1, HeadLeaves
<1>4. out'[b] = <<f>> /\ Grown(out[b], out'[b], f)
  <2>1. out'[b] = <<f>>
    BY <1>1, <1>2
  <2> QED BY <2>1, Alone
<1>5. \A c \in Board : c # b => Shrunk(txq[c], txq'[c]) /\ Shrunk(out[c], out'[c])
  BY <1>1, Emptied
<1>6. \A c \in Board : Shrunk(wire[c], wire'[c]) /\ Shrunk(ingress[c], ingress'[c])
  BY <1>1, Emptied
<1>7. \A c \in Board : Peer(c) \in Board
  BY PeerFacts
<1>8. \A c \in Board : c # b => rom'[c] = rom[c] /\ out'[c] = out[c]
  BY <1>1
<1>9. \A c \in Board : EndOK(c) /\ RomOK(c) /\ AckStepOK(c)
                       /\ \A r \in Request : TakeOK(c, r) /\ LiveOK(c, r)
  <2>1. RomOK(b)
    BY <1>1 DEF RomOK, Up
  <2>2. CASE f.type = "ACK"
    <3> DEFINE s == [server[b] EXCEPT !.queued = FALSE, !.sent = f.status = "ACCEPTED"]
    <3>1. SetServer(b, s)
      BY <1>2, <2>2 DEF Transmit
    <3>2. f \in MaintFrame /\ f = Ack(f.req, f.status) /\ server[b].req = f.req
      <4>1. f \in MaintFrame
        BY <1>2, <2>2, FrameFacts
      <4> QED BY <1>1, <1>2, <2>2, <4>1, ReqAck DEF Allowed
    <3>3. /\ s \in GoodServer /\ s.req = server[b].req /\ s.status = server[b].status
          /\ s.phase = server[b].phase /\ (s.sent => f.status = "ACCEPTED")
      <4> DEFINE t == f.status = "ACCEPTED"
      <4>1. server[b] \in GoodServer /\ t \in BOOLEAN /\ (t => f.status = "ACCEPTED")
        BY <1>1
      <4>2. s = [server[b] EXCEPT !.queued = FALSE, !.sent = t]
        OBVIOUS
      <4> HIDE DEF t, s
      <4>3. /\ s \in GoodServer /\ s.req = server[b].req /\ s.status = server[b].status
            /\ s.phase = server[b].phase /\ s.sent = t
        BY <4>1, <4>2, ServerSent, Zenon
      <4> QED BY <4>1, <4>3, Zenon
    <3> HIDE DEF s
    <3>4. server'[b] = s
      BY <1>1, <3>1 DEF SetServer
    <3>5. \A r \in Request : TakeOK(b, r)
      BY <3>3, <3>4 DEF TakeOK
    <3>6. AckStepOK(b)
      BY <1>4, <3>2, <3>3, <3>4 DEF AckStepOK
    <3> QED BY <1>1, <1>8, <2>1, <3>1, <3>3, <3>5, <3>6, ServerStep
  <2>3. CASE f.type # "ACK"
    <3>1. UNCHANGED <<client, server, reserved>>
      BY <1>2, <2>3 DEF Transmit
    <3>2. ASSUME NEW c \in Board PROVE EndOK(c) /\ RomOK(c) /\ AckStepOK(c)
      <4>1. EndOK(c)
        BY <3>1 DEF EndOK
      <4>2. RomOK(c)
        BY <1>1, <3>1 DEF RomOK
      <4>3. AckStepOK(c)
        BY <1>1, <1>8, <3>1 DEF AckStepOK, Up
      <4> QED BY <4>1, <4>2, <4>3
    <3>3. \A c \in Board, r \in Request : TakeOK(c, r) /\ LiveOK(c, r)
      BY <3>1 DEF TakeOK, LiveOK, Live
    <3> QED BY <3>2, <3>3
  <2> QED BY <2>2, <2>3
<1>10. CASE f \in MaintFrame
  <2>1. On(1, b, f) /\ Stage(2, b) = out[b] /\ Stage(2, b)' = out'[b]
    BY <1>3, Stages DEF On, Left
  <2>2. ASSUME NEW c \in Board, NEW j \in 1 .. 4, c # b \/ j # 2
        PROVE  Shrunk(Stage(j, c), Stage(j, c)')
    <3>1. CASE j = 1
      BY <1>3, <1>5, <3>1, Stages DEF Left
    <3>2. CASE j = 2
      BY <1>5, <2>2, <3>2, Stages
    <3>3. CASE j = 3
      BY <1>6, <3>3, Stages
    <3>4. CASE j = 4
      BY <1>6, <1>7, <3>4, Stages
    <3> QED BY <3>1, <3>2, <3>3, <3>4
  <2>3. ASSUME f.type = "REQUEST"
        PROVE  ~On(2, b, f) /\ \A j \in 1 .. 4 : j # 2 => ~On(j, b, f)'
    <3>1. f = Req(f.req) /\ f.req \in Request
      BY <1>10, <2>3, ReqAck
    <3>2. \A j \in 1 .. 4 : j # 1 => ~On(j, b, f)
      BY <2>1, <3>1 DEF Traffic, OneCopy
    <3>3. \A j \in 1 .. 4 : j # 1 /\ j # 2 => ~On(j, b, f)'
      BY <1>10, <2>2, <3>2 DEF Shrunk, On
    <3>4. ~On(1, b, f)'
      <4>1. Once(txq[b])
        <5>1. Once(Stage(1, b))
          BY DEF Traffic, OneCopy
        <5> QED BY <5>1, Stages
      <4>2. Stage(1, b)' = txq'[b]
        BY Stages
      <4> QED BY <1>3, <2>3, <4>1, <4>2 DEF Left, On
    <3> QED BY <3>2, <3>3, <3>4
  <2>4. Comes(f, 2, b)
    BY <1>4, <2>1, <2>2, <2>3 DEF Comes
  <2>5. f.type = "REQUEST" =>
          client[b].phase = "REPLY" /\ client[b].req = f.req /\ client'[b] = client[b]
    BY <1>1, <1>2 DEF Allowed, Transmit
  <2>6. \A c \in Board : OneCopy(c)' /\ \A r \in Request : FlowOK(c, r)
    BY <1>10, <2>1, <2>4, <2>5, MovesFlow
  <2> QED BY <1>1, <1>9, <2>6 DEF StepOK
<1>11. CASE f \notin MaintFrame
  <2>1. Shrunk(out[b], out'[b])
    <3>1. f.type # "REQUEST"
      BY <1>2, <1>11, FrameFacts
    <3> QED BY <1>4, <1>11, <3>1 DEF Grown, Shrunk
  <2>2. Quiet
    <3>1. \A c \in Board : Shrunk(txq[c], txq'[c]) /\ Shrunk(out[c], out'[c])
      BY <1>3, <1>5, <2>1 DEF Left
    <3> QED BY <1>6, <3>1, QuietQueues
  <2> QED BY <1>1, <1>9, <2>2, QuietFlow DEF StepOK
<1> QED BY <1>10, <1>11

(* A frame of maintenance.c is queued. *)
LEMMA QueuedOnce ==
  ASSUME MaintTypeInv, Traffic, NEW b \in Board, NEW f \in MaintFrame, Send(b, f),
         UNCHANGED <<out, wire, ingress>>,
         f.type = "REQUEST" => \A j \in 1 .. 4 : ~On(j, b, f)
  PROVE  \A c \in Board :
           /\ OneCopy(c)'
           /\ \A j \in 1 .. 4, g \in MaintFrame :
                On(j, c, g)' => On(j, c, g) \/ (c = b /\ j = 1 /\ g = f)
<1>1. txq \in [Board -> Seq(Frame)] /\ f \in Frame
  BY FrameFacts DEF MaintTypeInv, MaintTypeOK
<1>2. Grown(txq[b], txq'[b], f)
  <2>1. txq[b] \in Seq(Frame) /\ txq'[b] = Append(txq[b], f)
    BY <1>1 DEF Send
  <2> QED BY <1>1, <2>1, FrameAppended
<1>3. ASSUME NEW c \in Board, NEW j \in 1 .. 4, c # b \/ j # 1
      PROVE  Stage(j, c)' = Stage(j, c)
  <2>1. c # b => txq'[c] = txq[c]
    BY <1>1 DEF Send
  <2> QED BY <1>3, <2>1, Stages
<1>4. \A j \in 1 .. 4 : j # 1 => (On(j, b, f)' <=> On(j, b, f))
  BY <1>3 DEF On
<1>5. \A c \in Board, j \in 1 .. 4 : c # b \/ j # 1 => Shrunk(Stage(j, c), Stage(j, c)')
  BY <1>3, Emptied
<1>6. Stage(1, b) = txq[b] /\ Stage(1, b)' = txq'[b]
  BY Stages
<1>7. Comes(f, 1, b)
  BY <1>2, <1>4, <1>5, <1>6 DEF Comes
<1> QED BY <1>7, ComesOnce

(* The client queues its request. *)
LEMMA AdmitOK ==
  ASSUME MaintIInv, Traffic, NEW b \in Board, Admit(b)
  PROVE  StepOK
<1> DEFINE cl == [client[b] EXCEPT !.phase = "REPLY"]
<1>1. /\ MaintTypeInv /\ client \in [Board -> GoodClient] /\ events' = events /\ Up(b)
      /\ client[b].phase = "ADMISSION" /\ SetClient(b, cl)
      /\ Send(b, Req(client[b].req)) /\ UNCHANGED <<rom, reboot, out, wire, ingress>>
  BY DEF MaintIInv, MaintTypeInv, MaintTypeOK, Admit, Req
<1>2. PICK r \in Request : r = client[b].req
  BY <1>1 DEF GoodClient
<1>3. cl \in GoodClient /\ cl.phase = "REPLY" /\ cl.req = r
  BY <1>1, <1>2, ClientFacts DEF GoodClient, Client
<1> HIDE DEF cl
<1>4. client'[b] = cl
  BY <1>1 DEF SetClient
<1>5. EndOK(b) /\ RomOK(b)
  BY <1>1, <1>2, <1>3, <1>4 DEF EndOK, RomOK, Up
<1>6. \A t \in Request : LiveOK(b, t)
  BY <1>1, <1>2, <1>3, <1>4 DEF LiveOK, Live
<1>7. \A c \in Board : EndOK(c) /\ RomOK(c) /\ AckStepOK(c)
                       /\ \A t \in Request : TakeOK(c, t) /\ LiveOK(c, t)
  BY <1>1, <1>3, <1>5, <1>6, ClientStep
<1>8. Req(r) \in MaintFrame /\ Send(b, Req(r))
  BY <1>1, <1>2, ReqAck
<1>9. \A j \in 1 .. 4 : ~On(j, b, Req(r))
  BY <1>1, <1>2 DEF Traffic, OneUse, Live, Travels
<1>10. ASSUME NEW c \in Board
       PROVE  /\ OneCopy(c)'
              /\ \A j \in 1 .. 4, g \in MaintFrame :
                   On(j, c, g)' => On(j, c, g) \/ (c = b /\ j = 1 /\ g = Req(r))
  <2> DEFINE f == Req(r)
  <2>1. f \in MaintFrame /\ Send(b, f) /\ \A j \in 1 .. 4 : ~On(j, b, f)
    BY <1>8, <1>9
  <2> HIDE DEF f
  <2>2. /\ OneCopy(c)'
        /\ \A j \in 1 .. 4, g \in MaintFrame :
             On(j, c, g)' => On(j, c, g) \/ (c = b /\ j = 1 /\ g = f)
    BY <1>1, <2>1, QueuedOnce
  <2> QED BY <2>2 DEF f
<1>11. ASSUME NEW c \in Board, NEW t \in Request PROVE FlowOK(c, t)
  <2>1. /\ Req(t) \in MaintFrame /\ Req(t).type = "REQUEST" /\ Req(t).req = t /\ Req(r).req = r
        /\ \A s \in Status : Ack(t, s) \in MaintFrame /\ Ack(t, s).type = "ACK"
        /\ Req(r).type = "REQUEST"
    BY ReqAck
  <2>2. ASSUME Travels(c, t)'
        PROVE  \/ Travels(c, t)
               \/ Live(c, t) /\ client[c].phase = "ADMISSION" /\ client'[c].phase = "REPLY"
    <3>1. PICK j \in 1 .. 4 : On(j, c, Req(t))'
      BY <2>2 DEF Travels
    <3>2. On(j, c, Req(t)) \/ (c = b /\ Req(t) = Req(r))
      BY <1>10, <2>1, <3>1
    <3>3. CASE c = b /\ Req(t) = Req(r)
      BY <1>1, <1>2, <1>3, <1>4, <2>1, <3>3 DEF Live
    <3> QED BY <3>2, <3>3 DEF Travels
  <2>3. Gone(c, t)' => Gone(c, t)
    <3>1. \A j \in 2 .. 4 : j \in 1 .. 4 /\ j # 1
      OBVIOUS
    <3> QED BY <1>10, <2>1, <3>1 DEF Gone
  <2>4. \A s \in Status : Answered(c, t, s)' => Answered(c, t, s)
    BY <1>10, <2>1 DEF Answered
  <2> QED BY <2>2, <2>3, <2>4 DEF FlowOK
<1> QED BY <1>1, <1>7, <1>10, <1>11 DEF StepOK

(* The server queues its answer. *)
LEMMA ServerAckOK ==
  ASSUME MaintIInv, Traffic, NEW b \in Board, ServerAck(b)
  PROVE  StepOK
<1> DEFINE p == IF server[b].status = "ACCEPTED" THEN "DRAIN" ELSE "IDLE"
           s == [server[b] EXCEPT !.phase = p, !.queued = TRUE]
<1>1. /\ MaintTypeInv /\ server \in [Board -> GoodServer] /\ events' = events /\ Up(b)
      /\ server[b].phase = "ACK" /\ SetServer(b, s)
      /\ Send(b, Ack(server[b].req, server[b].status))
      /\ UNCHANGED <<rom, reboot, out, wire, ingress>>
  BY DEF MaintIInv, MaintTypeInv, MaintTypeOK, ServerAck, Ack
<1>2. PICK r \in Request, u \in Status : r = server[b].req /\ u = server[b].status
  BY <1>1, ServerFacts DEF GoodServer
<1>3. /\ s \in GoodServer /\ s.req = r /\ s.status = u /\ s.sent = server[b].sent
  <2>1. server[b] \in GoodServer /\ p \in {"DRAIN", "IDLE"} /\ (p = "DRAIN" => u = "ACCEPTED")
    BY <1>1, <1>2
  <2>2. s = [server[b] EXCEPT !.phase = p, !.queued = TRUE]
    OBVIOUS
  <2>3. server[b].phase # "IDLE" /\ (p = "DRAIN" => server[b].status = "ACCEPTED")
    BY <1>1
  <2> HIDE DEF p, s
  <2>4. /\ s \in GoodServer /\ s.req = server[b].req /\ s.status = server[b].status
        /\ s.sent = server[b].sent
    BY <2>1, <2>2, <2>3, ServerQueued, Zenon
  <2> QED BY <1>2, <2>4, Zenon
<1> HIDE DEF s
<1>4. server'[b] = s
  BY <1>1 DEF SetServer
<1>5. \A t \in Request : TakeOK(b, t)
  BY <1>1, <1>2, <1>3, <1>4 DEF TakeOK
<1>6. RomOK(b) /\ AckStepOK(b)
  BY <1>1, <1>2, <1>3, <1>4 DEF RomOK, AckStepOK, Up
<1>7. \A c \in Board : EndOK(c) /\ RomOK(c) /\ AckStepOK(c)
                       /\ \A t \in Request : TakeOK(c, t) /\ LiveOK(c, t)
  BY <1>1, <1>3, <1>5, <1>6, ServerStep
<1>8. PICK f \in MaintFrame : f = Ack(r, u)
  BY <1>2, ReqAck
<1>9. Send(b, f) /\ f.type # "REQUEST" /\ f.req = r /\ f.status = u
  BY <1>1, <1>2, <1>8, ReqAck
<1>10. ASSUME NEW c \in Board
       PROVE  /\ OneCopy(c)'
              /\ \A j \in 1 .. 4, g \in MaintFrame :
                   On(j, c, g)' => On(j, c, g) \/ (c = b /\ j = 1 /\ g = f)
  BY <1>1, <1>9, QueuedOnce
<1>11. ASSUME NEW c \in Board, NEW t \in Request PROVE FlowOK(c, t)
  <2>1. /\ Req(t) \in MaintFrame /\ Req(t).type = "REQUEST"
        /\ \A v \in Status : /\ Ack(t, v) \in MaintFrame
                             /\ Ack(t, v).req = t /\ Ack(t, v).status = v
    BY ReqAck
  <2>2. Travels(c, t)' => Travels(c, t)
    BY <1>9, <1>10, <2>1 DEF Travels
  <2>3. Gone(c, t)' => Gone(c, t)
    <3>1. \A j \in 2 .. 4 : j \in 1 .. 4
      OBVIOUS
    <3> QED BY <1>9, <1>10, <2>1, <3>1 DEF Gone
  <2>4. ASSUME NEW v \in Status, Answered(c, t, v)'
        PROVE  Answered(c, t, v) \/ (server[c].req = t /\ server[c].status = v)
    <3>1. PICK j \in 1 .. 4 : On(j, c, Ack(t, v))'
      BY <2>4 DEF Answered
    <3>2. On(j, c, Ack(t, v)) \/ (c = b /\ Ack(t, v) = f)
      BY <1>10, <2>1, <3>1
    <3> QED BY <1>2, <1>9, <2>1, <3>2 DEF Answered
  <2> QED BY <2>2, <2>3, <2>4 DEF FlowOK
<1> QED BY <1>1, <1>7, <1>10, <1>11 DEF StepOK

(* receive_request: an idle server takes the request. *)
LEMMA ReceiveRequestOK ==
  ASSUME MaintIInv, Traffic, NEW b \in Board, ReceiveRequest(b)
  PROVE  StepOK
<1>1. /\ MaintTypeInv /\ server \in [Board -> GoodServer] /\ events' = events /\ Up(b)
      /\ ingress \in [Board -> Seq(MaintFrame)] /\ Head(ingress[b]).type = "REQUEST"
      /\ ingress[b] # <<>> /\ ingress' = [ingress EXCEPT ![b] = Tail(@)]
      /\ UNCHANGED <<rom, reboot, txq, out, wire>>
  BY DEF MaintIInv, MaintTypeInv, MaintTypeOK, ReceiveRequest, HandedOver, TakeIngress
<1>2. Quiet
  BY <1>1, DropQuiet
<1>3. CASE UNCHANGED <<client, server, reserved>>
  BY <1>1, <1>2, <1>3, OthersStep, QuietFlow DEF StepOK
<1>4. CASE ~UNCHANGED <<client, server, reserved>>
  <2>1. ingress[b] \in Seq(MaintFrame)
    BY <1>1
  <2>2. PICK r \in Request : Head(ingress[b]) = Req(r)
    <3>1. Head(ingress[b]) \in MaintFrame
      BY <1>1, <2>1
    <3> QED BY <1>1, <3>1, ReqAck
  <2> DEFINE s == [phase |-> "ACK", req |-> r, status |-> AckStatus(b),
                   queued |-> FALSE, sent |-> FALSE]
  <2>3. Req(r).req = r /\ Req(r) \in MaintFrame /\ Req(r).type = "REQUEST"
    BY ReqAck
  <2>4. SetServer(b, s)
    BY <1>4, <2>2, <2>3 DEF ReceiveRequest
  <2>5. s \in GoodServer /\ s.req = r /\ ~s.sent
    <3>1. AckStatus(b) \in Status
      BY DEF AckStatus, Status
    <3> QED BY <3>1, RequestFacts DEF GoodServer, Server
  <2> HIDE DEF s
  <2>6. server'[b] = s /\ client' = client
    BY <1>1, <2>4 DEF SetServer
  <2>7. PICK p \in Board : p = Peer(b) /\ Peer(p) = b
    BY PeerFacts
  <2>8. /\ Stage(4, p) = ingress[b] /\ Stage(4, p)' = Tail(ingress[b])
        /\ \A j \in 1 .. 4 : j # 4 => Stage(j, p)' = Stage(j, p)
    <3>1. ingress'[b] = Tail(ingress[b])
      BY <1>1
    <3> QED BY <1>1, <2>7, <3>1, Stages
  <2>9. Left(Stage(4, p), Stage(4, p)', Req(r))
    BY <1>1, <2>1, <2>2, <2>8, HeadLeaves
  <2>10. On(4, p, Req(r)) /\ ~On(4, p, Req(r))'
    <3>1. Once(Stage(4, p))
      BY DEF Traffic, OneCopy
    <3> QED BY <2>3, <2>9, <3>1 DEF Left, On
  <2>11. Gone(Peer(b), r) /\ ~Travels(Peer(b), r)'
    <3>1. Gone(p, r)
      BY <2>10 DEF Gone
    <3>2. \A j \in 1 .. 4 : j # 4 => ~On(j, p, Req(r))'
      <4>1. \A j \in 1 .. 4 : j # 4 => ~On(j, p, Req(r))
        BY <2>10 DEF Traffic, OneCopy
      <4> QED BY <2>8, <4>1 DEF On
    <3>3. ~Travels(p, r)'
      BY <2>10, <3>2 DEF Travels
    <3> QED BY <2>7, <3>1, <3>3
  <2>12. \A t \in Request : TakeOK(b, t)
    BY <2>5, <2>6, <2>11 DEF TakeOK
  <2>13. RomOK(b) /\ AckStepOK(b)
    BY <1>1, <2>5, <2>6 DEF RomOK, AckStepOK, Up
  <2> QED BY <1>1, <1>2, <2>4, <2>5, <2>12, <2>13, ServerStep, QuietFlow DEF StepOK
<1> QED BY <1>3, <1>4

(* A board restarts and forgets. *)
LEMMA RestartOK ==
  ASSUME MaintIInv, Traffic, RomIdle, NEW b \in Board, Restart(b)
  PROVE  StepOK
<1>1. /\ MaintTypeInv /\ client \in [Board -> GoodClient] /\ server \in [Board -> GoodServer]
      /\ rom \in [Board -> AnyRequest] /\ reboot \in [Board -> BOOLEAN]
      /\ out \in [Board -> Seq(Frame)] /\ reserved \in [Board -> BOOLEAN]
      /\ events' \in {events, events + 1}
  BY DEF MaintIInv, MaintTypeInv, MaintTypeOK, Restart, Event
<1>2. Quiet
  BY <1>1, RestartQuiet
<1>3. /\ client'[b] = NoClient /\ server'[b] = NoServer /\ rom'[b] = NoRequest
      /\ reboot'[b] = FALSE
  BY <1>1 DEF Restart
<1>4. ASSUME NEW c \in Board, c # b
      PROVE  /\ client'[c] = client[c] /\ server'[c] = server[c] /\ rom'[c] = rom[c]
             /\ out'[c] = out[c] /\ reserved'[c] = reserved[c]
  BY <1>1, <1>4 DEF Restart
<1>5. /\ NoClient.phase = "IDLE" /\ NoClient.result \notin Status
      /\ NoServer.req \notin Request /\ ~NoServer.sent
  BY RequestFacts DEF NoClient, NoServer, Status
<1>6. EndOK(b)
  <2>1. client[b].phase # "IDLE" => rom[b] = NoRequest
    BY DEF RomIdle, MaintIInv, ReservationOK, Reserves, Up
  <2> QED BY <1>3, <1>5, <2>1 DEF EndOK
<1>7. RomOK(b) /\ AckStepOK(b)
  BY <1>3, <1>5, RequestFacts DEF RomOK, AckStepOK
<1>8. \A r \in Request : TakeOK(b, r) /\ LiveOK(b, r)
  BY <1>3, <1>5 DEF TakeOK, LiveOK, Live
<1>9. ASSUME NEW c \in Board, c # b
      PROVE  /\ EndOK(c) /\ RomOK(c) /\ AckStepOK(c)
             /\ \A r \in Request : TakeOK(c, r) /\ LiveOK(c, r)
  <2>1. EndOK(c)
    BY <1>4, <1>9 DEF EndOK
  <2>2. RomOK(c) /\ AckStepOK(c)
    BY <1>4, <1>9 DEF RomOK, AckStepOK, Up
  <2>3. \A r \in Request : TakeOK(c, r) /\ LiveOK(c, r)
    BY <1>4, <1>9 DEF TakeOK, LiveOK, Live
  <2> QED BY <2>1, <2>2, <2>3
<1>10. \A c \in Board : /\ EndOK(c) /\ RomOK(c) /\ AckStepOK(c)
                        /\ \A r \in Request : TakeOK(c, r) /\ LiveOK(c, r)
  BY <1>6, <1>7, <1>8, <1>9
<1> QED BY <1>1, <1>2, <1>10, QuietFlow DEF StepOK

-----------------------------------------------------------------------------
(* What all steps preserve. *)

(* Every step of the boards is as described. *)
LEMMA StepsOK ==
  ASSUME MaintIInv, MaintIInv', Traffic, RomIdle, Next
  PROVE  StepOK
<1>1. MaintTypeInv
  BY DEF MaintIInv
<1>2. PICK b \in Board :
        \/ \E target \in Board, config \in BOOLEAN : Begin(b, target, config)
        \/ Poll(b) \/ ReplyComplete(b) \/ Cancel(b)
        \/ ClientGivesUp(b) \/ LocalEnter(b) \/ Admit(b)
        \/ ReceiveAck(b) \/ ReceiveRequest(b)
        \/ ServerGivesUp(b) \/ ServerAck(b) \/ ServerEnter(b)
        \/ Transmit(b) \/ Discard(b) \/ Shift(b) \/ Lose(b)
        \/ HandOver(b) \/ ReceiveUpgrade(b)
        \/ ReceiveAsk(b) \/ QueueWord(b) \/ ReceiveWord(b)
        \/ BeginPull(b) \/ Ask(b) \/ Stall(b) \/ LeaseExpires(b) \/ Drop(b)
        \/ (\E target \in {"PEER", "LOCAL"} : WebRequest(b, target))
        \/ WebTask(b)
        \/ (\E target \in Board : Hotkey(b, target))
        \/ RequestReboot(b) \/ RequestRebootBlindly(b) \/ Restart(b)
  BY DEF Next
<1>3. CASE \E target \in Board, config \in BOOLEAN : Begin(b, target, config)
  BY <1>1, <1>3, BeginOK
<1>4. CASE Poll(b) \/ ReplyComplete(b) \/ Cancel(b) \/ ClientGivesUp(b)
  BY <1>4, ClientOK
<1>5. CASE LocalEnter(b)
  BY <1>5, LocalEnterOK
<1>6. CASE Admit(b)
  BY <1>6, AdmitOK
<1>7. CASE ReceiveAck(b)
  BY <1>7, ReceiveAckOK
<1>8. CASE ReceiveRequest(b)
  BY <1>8, ReceiveRequestOK
<1>9. CASE ServerGivesUp(b) \/ ServerEnter(b)
  BY <1>9, ServerOK
<1>10. CASE ServerAck(b)
  BY <1>10, ServerAckOK
<1>11. CASE Transmit(b)
  BY <1>11, TransmitOK
<1>12. CASE Shift(b)
  BY <1>12, ShiftOK
<1>13. CASE HandOver(b)
  BY <1>13, HandOverOK
<1>14. CASE Restart(b)
  BY <1>14, RestartOK
<1> QED BY <1>1, <1>2, <1>3, <1>4, <1>5, <1>6, <1>7, <1>8, <1>9, <1>10, <1>11, <1>12, <1>13,
           <1>14, UpdaterStepOK

(* A request keeps its one copy, its number and its one use. *)
LEMMA TrafficStep ==
  ASSUME MaintTypeInv, MaintTypeInv', Traffic, StepOK
  PROVE  Traffic'
<1>1. events \in Nat /\ events' \in Nat /\ events <= events'
  BY MaintAssumption DEF MaintTypeInv, MaintTypeOK, StepOK
<1> SUFFICES ASSUME NEW c \in Board, NEW r \in Request
             PROVE  Numbered(c, r)' /\ OneUse(c, r)'
  BY DEF Traffic, StepOK
<1>2. PICK p \in Board : p = Peer(c) /\ p # c /\ Peer(p) = c
  BY PeerFacts
<1>3. /\ Numbered(c, r) /\ Numbered(p, r) /\ OneUse(c, r) /\ OneUse(p, r)
      /\ r.n \in Nat
  BY DEF Traffic, Request
<1>4. /\ FlowOK(c, r) /\ FlowOK(p, r) /\ TakeOK(c, r) /\ TakeOK(p, r)
      /\ LiveOK(c, r) /\ LiveOK(p, r)
  BY DEF StepOK
<1>5. Taken(c, r)' => \/ Taken(c, r)
                      \/ Travels(p, r) /\ ~Travels(p, r)'
  <2>1. Gone(p, r) => Travels(p, r)
    BY DEF Gone, Travels
  <2> QED BY <1>2, <1>4, <2>1 DEF Taken, TakeOK, FlowOK
<1>6. Taken(p, r)' => \/ Taken(p, r)
                      \/ Travels(c, r) /\ ~Travels(c, r)'
  <2>1. Gone(c, r) => Travels(c, r)
    BY DEF Gone, Travels
  <2> QED BY <1>2, <1>4, <2>1 DEF Taken, TakeOK, FlowOK
<1>7. Travels(c, r)' => \/ Travels(c, r)
                        \/ Live(c, r) /\ client[c].phase = "ADMISSION" /\ client'[c].phase = "REPLY"
  BY <1>4 DEF FlowOK
<1>8. Live(c, r)' => \/ Live(c, r) /\ (client'[c].phase # "REPLY" => client[c].phase # "REPLY")
                     \/ r.from = c /\ r.n = events + 1 /\ events' = events + 1
  BY <1>4 DEF LiveOK
<1>9. /\ Travels(c, r) \/ Live(c, r) => r.from = c /\ r.n <= events
      /\ Taken(c, r) => r.from = p /\ r.n <= events
      /\ Travels(p, r) => r.from = p /\ r.n <= events
      /\ Taken(p, r) => r.from = c /\ r.n <= events
      /\ Travels(c, r) => ~Taken(p, r)
      /\ Travels(p, r) => ~Taken(c, r)
      /\ Live(c, r) /\ client[c].phase # "REPLY" => ~Travels(c, r) /\ ~Taken(p, r)
  BY <1>2, <1>3 DEF Numbered, OneUse
<1>10. Numbered(c, r)'
  <2>1. Travels(c, r)' \/ Live(c, r)' => r.from = c /\ r.n <= events'
    BY <1>1, <1>3, <1>7, <1>8, <1>9
  <2>2. Taken(c, r)' => r.from = p /\ r.n <= events'
    BY <1>1, <1>3, <1>5, <1>9
  <2> QED BY <1>2, <2>1, <2>2 DEF Numbered
<1>11. Travels(c, r)' => ~Taken(p, r)'
  BY <1>6, <1>7, <1>9
<1>12. Live(c, r)' /\ client'[c].phase # "REPLY" => ~Travels(c, r)' /\ ~Taken(p, r)'
  BY <1>1, <1>3, <1>6, <1>7, <1>8, <1>9
<1>13. ASSUME NEW s \in Status, Answered(c, r, s)', server'[c].req = r
       PROVE  server'[c].status = s
  <2>1. Answered(c, r, s) \/ (server[c].req = r /\ server[c].status = s)
    BY <1>4, <1>13 DEF FlowOK
  <2>2. Taken(c, r)
    BY <2>1 DEF Taken
  <2>3. server[c].req = r /\ server'[c].status = server[c].status
    <3>1. ~Gone(p, r)
      BY <1>9, <2>2 DEF Gone, Travels
    <3> QED BY <1>2, <1>4, <1>13, <3>1 DEF TakeOK
  <2> QED BY <1>3, <2>1, <2>3 DEF OneUse
<1>14. OneUse(c, r)'
  BY <1>2, <1>11, <1>12, <1>13 DEF OneUse
<1> QED BY <1>10, <1>14

(* What is on its way, in a ROM or in a server is a copy. *)
CopyOK ==
  \A b \in Board, r \in Request :
    Travels(b, r) \/ rom[b] = r \/ server[b].req = r => r \in Copies

LEMMA CopiesHold == CopyOK
<1> SUFFICES ASSUME NEW b \in Board, NEW r \in Request,
                    Travels(b, r) \/ rom[b] = r \/ server[b].req = r
             PROVE  r \in Copies
  BY DEF CopyOK
<1>1. CASE rom[b] = r \/ server[b].req = r
  BY <1>1 DEF Copies
<1>2. CASE Travels(b, r)
  <2>1. PICK k \in 1 .. 4 : Has(Stage(k, b), Req(r))
    BY <1>2 DEF Travels, On
  <2>2. r \in Requests(Stage(k, b))
    BY <2>1, ReqAck DEF Has, Requests
  <2>3. Peer(b) \in Board /\ (k = 1 \/ k = 2 \/ k = 3 \/ k = 4)
    BY PeerFacts
  <2>4. \E c \in Board : r \in Requests(txq[c]) \cup Requests(out[c])
                             \cup Requests(wire[c]) \cup Requests(ingress[c])
    BY <2>2, <2>3, Stages
  <2> QED BY <2>4 DEF Copies
<1> QED BY <1>1, <1>2

(* A settled request has not left its queue and has not been admitted. *)
LEMMA SettledIsDead ==
  ASSUME MaintTypeInv, Traffic, StepOK, NEW c \in Board, Settled(c)
  PROVE  /\ client[c].req \in Request /\ Live(c, client[c].req)
         /\ ~Gone(c, client[c].req) /\ ~Admitted(Peer(c), client[c].req)
<1>1. /\ client[c].phase # "IDLE" /\ client'[c].phase = "IDLE"
      /\ \/ client[c].phase # "REPLY" \/ Queued(c)
         \/ client'[c].result \in Status \ {"ACCEPTED"}
  BY DEF Settled, Ends
<1>2. PICK r \in Request : r = client[c].req
  BY <1>1 DEF MaintTypeInv, GoodClient
<1>3. PICK p \in Board : p = Peer(c)
  BY PeerFacts
<1>4. Live(c, r)
  BY <1>1, <1>2 DEF Live
<1>5. /\ Travels(c, r) => ~Taken(p, r)
      /\ client[c].phase # "REPLY" => ~Travels(c, r) /\ ~Taken(p, r)
      /\ \A s \in Status : Answered(p, r, s) /\ server[p].req = r => server[p].status = s
  BY <1>3, <1>4 DEF Traffic, OneUse
<1>6. (Gone(c, r) => Travels(c, r)) /\ (Admitted(p, r) => Taken(p, r))
  BY DEF Gone, Travels, Admitted, Taken
<1>7. CASE client[c].phase # "REPLY"
  BY <1>2, <1>3, <1>4, <1>5, <1>6, <1>7
<1>8. CASE Queued(c)
  <2>1. On(1, c, Req(r))
    <3>1. Has(txq[c], Req(r))
      BY <1>2, <1>8 DEF Queued, Has, Req
    <3> QED BY <3>1, Stages DEF On
  <2>2. Travels(c, r)
    BY <2>1 DEF Travels
  <2>3. ~Gone(c, r)
    <3>1. \A k \in 2 .. 4 : k \in 1 .. 4 /\ k # 1
      OBVIOUS
    <3> QED BY <2>1, <3>1 DEF Gone, Traffic, OneCopy
  <2> QED BY <1>2, <1>3, <1>4, <1>5, <1>6, <2>2, <2>3
<1>9. CASE client[c].phase = "REPLY" /\ client'[c].result \in Status \ {"ACCEPTED"}
  <2>1. PICK s \in Status \ {"ACCEPTED"} : s = client'[c].result
    BY <1>9
  <2>2. Answered(p, r, s)
    BY <1>1, <1>2, <1>3, <1>9, <2>1 DEF StepOK, EndOK
  <2>3. Taken(p, r)
    BY <2>2 DEF Taken
  <2>4. ~Admitted(p, r)
    BY <1>5, <2>1, <2>2 DEF Admitted
  <2> QED BY <1>2, <1>3, <1>4, <1>5, <1>6, <2>3, <2>4
<1> QED BY <1>1, <1>7, <1>8, <1>9

(* The history variables keep what still has a copy. *)
LEMMA HistoryVars ==
  ASSUME MCNext
  PROVE  /\ \A r \in dead' : r \in dead \/ \E c \in Board : Settled(c) /\ r = client[c].req
         /\ \A r \in Copies' : /\ r \in unsure => r \in unsure'
                               /\ r \in acked => r \in acked'
         /\ \A c \in Board : Unsure(c) /\ client[c].req \in Copies' => client[c].req \in unsure'
         /\ \A c \in Board : \A r \in Accepting(c) \cap Copies' : r \in acked'
BY DEF MCNext, Of, Board

(* Sent, or known to be unsure. *)
LEMMA SentStep ==
  ASSUME MaintTypeInv, Traffic, StepOK, MCNext, SentIsKnown
  PROVE  SentIsKnown'
<1> SUFFICES ASSUME NEW c \in Board, NEW r \in Request, Gone(c, r)'
             PROVE  (Live(c, r)' /\ client'[c].phase = "REPLY") \/ r \in unsure'
  BY DEF SentIsKnown
<1>1. r \in Copies'
  <2>1. Travels(c, r)'
    BY DEF Gone, Travels
  <2>2. CopyOK'
    BY CopiesHold, PTL
  <2> QED BY <2>1, <2>2 DEF CopyOK
<1>2. FlowOK(c, r) /\ EndOK(c)
  BY DEF StepOK
<1>3. Gone(c, r) \/ (Live(c, r) /\ client[c].phase = "REPLY" /\ client'[c] = client[c])
  BY <1>2 DEF FlowOK
<1>4. CASE Live(c, r) /\ client[c].phase = "REPLY" /\ client'[c] = client[c]
  BY <1>4 DEF Live
<1>5. CASE Gone(c, r) /\ r \in unsure
  BY <1>1, <1>5, HistoryVars
<1>6. CASE Gone(c, r) /\ Live(c, r) /\ client[c].phase = "REPLY"
  <2>1. client[c].req = r /\ client[c].phase # "IDLE"
    BY <1>6 DEF Live
  <2>2. CASE client'[c].phase # "IDLE"
    BY <1>2, <1>6, <2>1, <2>2 DEF EndOK, Live
  <2>3. CASE client'[c].phase = "IDLE"
    <3>1. Ends(c)
      BY <1>2, <1>6, <2>1, <2>3 DEF EndOK, Ends
    <3>2. ~Settled(c)
      BY <1>6, <2>1, SettledIsDead
    <3>3. client'[c].result # "ACCEPTED"
      <4>1. ASSUME client'[c].result = "ACCEPTED" PROVE FALSE
        <5>1. Answered(Peer(c), r, "ACCEPTED")
          BY <1>2, <1>6, <2>1, <2>3, <4>1 DEF EndOK, Status
        <5>2. Taken(Peer(c), r)
          BY <5>1 DEF Taken, Status
        <5>3. Travels(c, r)
          BY <1>6 DEF Gone, Travels
        <5> QED BY <5>2, <5>3 DEF Traffic, OneUse
      <4> QED BY <4>1
    <3>4. Unsure(c)
      BY <3>1, <3>2, <3>3 DEF Unsure
    <3> QED BY <1>1, <2>1, <3>4, HistoryVars
  <2> QED BY <2>2, <2>3
<1> QED BY <1>3, <1>4, <1>5, <1>6 DEF SentIsKnown

(* The dead stay dead. *)
LEMMA DeadStep ==
  ASSUME MaintTypeInv, MaintTypeInv', Traffic, Traffic', StepOK, MCNext, DeadOK
  PROVE  DeadOK'
<1>1. events \in Nat /\ events' \in Nat /\ events <= events'
  BY MaintAssumption DEF MaintTypeInv, MaintTypeOK, StepOK
<1> SUFFICES ASSUME NEW r \in dead'
             PROVE  /\ r \in Request /\ r.n <= events'
                    /\ \A c \in Board : ~Gone(c, r)' /\ ~Admitted(c, r)' /\ ~Live(c, r)'
  BY DEF DeadOK
<1>2. CASE r \in dead
  <2>1. r \in Request /\ r.n <= events /\ r.n \in Nat
    BY <1>2 DEF DeadOK, Request
  <2>2. ASSUME NEW c \in Board PROVE ~Gone(c, r)' /\ ~Admitted(c, r)' /\ ~Live(c, r)'
    <3>1. /\ ~Gone(c, r) /\ ~Admitted(c, r) /\ ~Live(c, r) /\ ~Gone(Peer(c), r)
      BY <1>2, PeerFacts DEF DeadOK
    <3>2. FlowOK(c, r) /\ TakeOK(c, r) /\ LiveOK(c, r)
      BY <2>1 DEF StepOK
    <3>3. ~Gone(c, r)'
      BY <3>1, <3>2 DEF FlowOK
    <3>4. ~Admitted(c, r)'
      BY <3>1, <3>2 DEF TakeOK, Admitted
    <3>5. ~Live(c, r)'
      BY <1>1, <2>1, <3>1, <3>2 DEF LiveOK
    <3> QED BY <3>3, <3>4, <3>5
  <2>3. r.n <= events'
    BY <1>1, <2>1
  <2> QED BY <2>1, <2>2, <2>3
<1>3. ASSUME NEW c \in Board, Settled(c), r = client[c].req
      PROVE  /\ r \in Request /\ r.n <= events'
             /\ \A d \in Board : ~Gone(d, r)' /\ ~Admitted(d, r)' /\ ~Live(d, r)'
  <2>1. PICK p \in Board : p = Peer(c) /\ p # c /\ Peer(p) = c /\ \A d \in Board : d = c \/ d = p
    BY PeerFacts
  <2>2. /\ r \in Request /\ Live(c, r) /\ ~Gone(c, r) /\ ~Admitted(p, r)
        /\ client'[c].phase = "IDLE" /\ client[c].phase # "IDLE"
    <3>1. client'[c].phase = "IDLE" /\ client[c].phase # "IDLE"
      BY <1>3 DEF Settled, Ends
    <3> QED BY <1>3, <2>1, <3>1, SettledIsDead
  <2>3. r.from = c /\ r.n <= events /\ r.n \in Nat
    BY <2>2 DEF Traffic, Numbered, Request
  <2>4. /\ Travels(p, r)' \/ Live(p, r)' => r.from = p
        /\ Taken(c, r)' => r.from = p
    BY <2>1, <2>2 DEF Traffic, Numbered
  <2>5. ~Gone(p, r)' /\ ~Live(p, r)' /\ ~Admitted(c, r)'
    <3>1. Gone(p, r)' => Travels(p, r)'
      BY DEF Gone, Travels
    <3>2. Admitted(c, r)' => Taken(c, r)'
      BY DEF Admitted, Taken
    <3> QED BY <2>1, <2>3, <2>4, <3>1, <3>2
  <2>6. FlowOK(c, r) /\ TakeOK(p, r)
    BY <2>2 DEF StepOK
  <2>7. ~Gone(c, r)'
    BY <2>2, <2>6 DEF FlowOK
  <2>8. ~Live(c, r)'
    BY <2>2 DEF Live
  <2>9. ~Admitted(p, r)'
    BY <2>1, <2>2, <2>6 DEF TakeOK, Admitted
  <2>10. r.n <= events'
    BY <1>1, <2>3
  <2> QED BY <2>1, <2>2, <2>5, <2>7, <2>8, <2>9, <2>10
<1> QED BY <1>2, <1>3, HistoryVars

(* A board in its ROM stays idle. *)
LEMMA RomIdleStep ==
  ASSUME RomIdle, StepOK
  PROVE  RomIdle'
<1> SUFFICES ASSUME NEW c \in Board, rom'[c] # NoRequest
             PROVE  ~reserved'[c]
  BY DEF RomIdle, Up
<1>1. (rom'[c] = rom[c] /\ reserved'[c] = reserved[c]) \/ ~reserved'[c]
  BY DEF StepOK, RomOK
<1> QED BY <1>1 DEF RomIdle, Up

(* Of two crossed requests one is unsure. *)
LEMMA CrossStep ==
  ASSUME MaintIInv', Traffic, RomIdle', StepOK, MCNext, SentIsKnown, Cross
  PROVE  Cross'
<1> SUFFICES ASSUME NEW b \in Board, NEW r \in Request, NEW t \in Request,
                    rom'[b] = r \/ Admitted(b, r)',
                    rom'[Peer(b)] = t \/ Admitted(Peer(b), t)',
                    r.from = Peer(b), t.from = b
             PROVE  r \in unsure' \/ t \in unsure'
  BY DEF Cross
<1>1. CopyOK'
  BY CopiesHold, PTL
<1>2. PICK p \in Board : p = Peer(b) /\ p # b /\ Peer(p) = b
  BY PeerFacts
<1>3. r \in Copies' /\ t \in Copies'
  <2>1. rom'[b] = r \/ server'[b].req = r
    BY DEF Admitted
  <2>2. rom'[p] = t \/ server'[p].req = t
    BY <1>2 DEF Admitted
  <2> QED BY <1>1, <1>2, <2>1, <2>2 DEF CopyOK
<1>4. /\ ReservationOK' /\ (rom'[p] = t \/ Admitted(p, t)')
      /\ t \in Request /\ r \in Request /\ NoRequest \notin Request
  BY <1>2, RequestFacts DEF MaintIInv
<1>5. client'[b].phase = "IDLE" /\ client'[p].phase = "IDLE"
  <2>1. ASSUME NEW c \in Board, client'[c].phase # "IDLE"
        PROVE  rom'[c] = NoRequest /\ \A u \in Request : ~Admitted(c, u)'
    <3>1. reserved'[c] = Reserves(client[c], server[c])'
      BY <1>4 DEF ReservationOK
    <3>2. reserved'[c]
      BY <2>1, <3>1 DEF Reserves
    <3> QED BY <1>4, <2>1, <3>2 DEF ReservationOK, RomIdle, Up, Admitted
  <2> QED BY <1>4, <2>1
<1>6. ASSUME NEW c \in Board, NEW u \in Request, rom'[c] = u \/ Admitted(c, u)',
             u.from = Peer(c), u \in Copies', client'[Peer(c)].phase = "IDLE",
             u \notin unsure'
      PROVE  rom[c] = u \/ Admitted(c, u)
  <2>1. RomOK(c) /\ TakeOK(c, u) /\ Peer(c) \in Board /\ Peer(c) # c
    BY PeerFacts DEF StepOK
  <2>2. CASE rom'[c] = u
    <3>1. ~Live(c, u)
      BY <1>6, <2>1 DEF Traffic, Numbered
    <3> QED BY <2>1, <2>2, <3>1 DEF RomOK
  <2>3. CASE Admitted(c, u)'
    <3>1. ~(Gone(Peer(c), u) /\ client'[Peer(c)] = client[Peer(c)])
      <4>1. u \notin unsure
        BY <1>6, HistoryVars
      <4> QED BY <1>6, <2>1, <4>1 DEF SentIsKnown, Live
    <3> QED BY <2>1, <2>3, <3>1 DEF TakeOK, Admitted
  <2> QED BY <1>6, <2>2, <2>3
<1>7. ASSUME r \notin unsure', t \notin unsure' PROVE FALSE
  <2>1. rom[b] = r \/ Admitted(b, r)
    BY <1>2, <1>3, <1>5, <1>6, <1>7
  <2>2. rom[p] = t \/ Admitted(p, t)
    BY <1>2, <1>3, <1>4, <1>5, <1>6, <1>7
  <2>3. r \in unsure \/ t \in unsure
    BY <1>2, <2>1, <2>2 DEF Cross
  <2> QED BY <1>3, <1>7, <2>3, HistoryVars
<1> QED BY <1>7

(* An answer counts as sent, and a board enters, only after the answer.    *)
LEMMA AckStep ==
  ASSUME MaintIInv, MaintIInv', Traffic, StepOK, MCNext, AckOK, AckPrecedesEntry
  PROVE  AckOK' /\ AckPrecedesEntry'
<1>1. CopyOK'
  BY CopiesHold, PTL
<1>2. ASSUME NEW c \in Board, rom'[c] = NoRequest, server'[c].sent
      PROVE  out'[c] = <<Ack(server'[c].req, "ACCEPTED")>> \/ server'[c].req \in acked'
  <2>1. SUFFICES ASSUME out'[c] # <<Ack(server'[c].req, "ACCEPTED")>>
                 PROVE  server'[c].req \in acked'
    OBVIOUS
  <2>2. /\ Up(c) /\ server[c].sent /\ server'[c].req = server[c].req
        /\ out[c] = <<>> \/ out'[c] = out[c] \/ out'[c] = <<>>
    BY <1>2, <2>1 DEF StepOK, AckStepOK
  <2>3. CASE server[c].req \in acked
    <3>1. server[c].req \in Copies'
      BY <2>2 DEF Copies
    <3> QED BY <2>2, <2>3, <3>1, HistoryVars
  <2>4. CASE out[c] = <<Ack(server[c].req, "ACCEPTED")>>
    <3>1. out[c] # <<>>
      BY <2>4
    <3>2. out'[c] = <<>>
      BY <2>1, <2>2, <2>4, <3>1
    <3>3. server[c].req \in Request
      <4>1. Ack(server[c].req, "ACCEPTED") \in Frame
        <5>1. out[c] \in Seq(Frame) /\ Len(out[c]) = 1 /\ out[c][1] = Ack(server[c].req, "ACCEPTED")
          <6>1. out[c] \in Seq(Frame)
            BY DEF MaintIInv, MaintTypeInv, MaintTypeOK
          <6> QED BY <2>4, <6>1
        <5> QED BY <5>1
      <4> QED BY <4>1 DEF Ack, Frame, MaintFrame
    <3>4. server[c].req \in Accepting(c)
      BY <2>2, <2>4, <3>2, <3>3 DEF Accepting, Ack
    <3>5. server[c].req \in Copies'
      BY <1>1, <2>2, <3>3 DEF CopyOK
    <3> QED BY <2>2, <3>4, <3>5, HistoryVars
  <2> QED BY <2>2, <2>3, <2>4 DEF AckOK
<1>3. ASSUME NEW c \in Board, rom'[c] \in Request, rom'[c].from # c
      PROVE  rom'[c] \in acked'
  <2>1. PICK r \in Request : r = rom'[c]
    BY <1>3
  <2>2. RomOK(c) /\ r \in Copies'
    BY <1>1, <2>1 DEF StepOK, CopyOK
  <2>3. ~Live(c, r)
    BY <1>3, <2>1 DEF Traffic, Numbered
  <2>4. CASE r = rom[c]
    <3>1. r \in acked
      BY <1>3, <2>1, <2>4 DEF AckPrecedesEntry
    <3> QED BY <2>1, <2>2, <3>1, HistoryVars
  <2>5. CASE Admitted(c, r) /\ Up(c) /\ server[c].sent /\ out[c] = <<>>
    <3>1. <<>> # <<Ack(server[c].req, "ACCEPTED")>>
      OBVIOUS
    <3>2. r \in acked
      BY <2>5, <3>1 DEF AckOK, Admitted
    <3> QED BY <2>1, <2>2, <3>2, HistoryVars
  <2> QED BY <1>3, <2>1, <2>2, <2>3, <2>4, <2>5 DEF RomOK
<1> QED BY <1>2, <1>3 DEF AckOK, AckPrecedesEntry, Up

(* The invariant at power-up. *)
LEMMA RequestInitial == MCInit => RequestIInv
<1> SUFFICES ASSUME MCInit PROVE RequestIInv
  OBVIOUS
<1>1. MaintIInv
  BY MaintInitial DEF MCInit
<1>2. /\ txq = [b \in Board |-> <<>>] /\ out = [b \in Board |-> <<>>]
      /\ wire = [b \in Board |-> <<>>] /\ ingress = [b \in Board |-> <<>>]
      /\ client = [b \in Board |-> NoClient] /\ server = [b \in Board |-> NoServer]
      /\ rom = [b \in Board |-> NoRequest] /\ dead = {}
  BY DEF MCInit, Init
<1>3. /\ NoClient.phase = "IDLE" /\ NoServer.phase = "IDLE" /\ NoServer.req = NoRequest
      /\ ~NoServer.sent /\ NoRequest \notin Request
  BY RequestFacts DEF NoClient, NoServer
<1>4. ASSUME NEW c \in Board, NEW k \in 1 .. 4 PROVE Stage(k, c) = <<>>
  <2>1. Peer(c) \in Board
    BY PeerFacts
  <2> QED BY <1>2, <2>1, Stages
<1>5. \A c \in Board, k \in 1 .. 4 : \A f : ~On(k, c, f)
  <2>1. \A f : ~Has(<<>>, f)
    BY DEF Has
  <2> QED BY <1>4, <2>1 DEF On
<1>6. ASSUME NEW c \in Board, NEW r \in Request
      PROVE  /\ ~Travels(c, r) /\ ~Gone(c, r) /\ ~Live(c, r) /\ ~Admitted(c, r)
             /\ ~Taken(c, r) /\ \A s \in Status : ~Answered(c, r, s)
  <2>1. 2 .. 4 \subseteq 1 .. 4
    OBVIOUS
  <2>2. ~Travels(c, r) /\ ~Gone(c, r) /\ \A s \in Status : ~Answered(c, r, s)
    BY <1>5, <2>1 DEF Travels, Gone, Answered
  <2> QED BY <1>2, <1>3, <2>2 DEF Live, Admitted, Taken
<1>7. ASSUME NEW c \in Board PROVE OneCopy(c)
  <2>1. Once(<<>>)
    BY DEF Once
  <2> QED BY <1>4, <1>5, <2>1 DEF OneCopy
<1>8. Traffic
  BY <1>6, <1>7 DEF Traffic, Numbered, OneUse
<1>9. RomIdle /\ SentIsKnown /\ DeadOK /\ AckOK /\ AckPrecedesEntry
  BY <1>2, <1>3, <1>6 DEF RomIdle, Up, SentIsKnown, DeadOK, AckOK, AckPrecedesEntry
<1>10. Cross
  BY <1>2, <1>3, <1>6 DEF Cross
<1> QED BY <1>1, <1>8, <1>9, <1>10 DEF RequestIInv, History

(* Every step preserves it. *)
LEMMA RequestStep == RequestIInv /\ [MCNext]_mcvars => RequestIInv'
<1> SUFFICES ASSUME RequestIInv, [MCNext]_mcvars PROVE RequestIInv'
  OBVIOUS
<1>1. MaintIInv /\ Traffic /\ History
  BY DEF RequestIInv
<1>2. MaintIInv'
  <2>1. [Next]_vars
    BY DEF MCNext, mcvars
  <2> QED BY <1>1, <2>1, MaintStep
<1>3. CASE MCNext
  <2>1. /\ RomIdle /\ SentIsKnown /\ Cross /\ DeadOK /\ AckOK /\ AckPrecedesEntry
        /\ MaintTypeInv /\ MaintTypeInv' /\ Next
    BY <1>1, <1>2, <1>3 DEF History, MaintIInv, MCNext
  <2>2. StepOK
    BY <1>1, <1>2, <2>1, StepsOK
  <2>3. Traffic'
    BY <1>1, <2>1, <2>2, TrafficStep
  <2>4. RomIdle'
    BY <2>1, <2>2, RomIdleStep
  <2>5. SentIsKnown'
    BY <1>1, <1>3, <2>1, <2>2, SentStep
  <2>6. Cross'
    BY <1>1, <1>2, <1>3, <2>1, <2>2, <2>4, CrossStep
  <2>7. DeadOK'
    BY <1>1, <1>3, <2>1, <2>2, <2>3, DeadStep
  <2>8. AckOK' /\ AckPrecedesEntry'
    BY <1>1, <1>2, <1>3, <2>1, <2>2, AckStep
  <2> QED BY <1>2, <2>3, <2>4, <2>5, <2>6, <2>7, <2>8 DEF RequestIInv, History
<1>4. CASE UNCHANGED mcvars
  <2>1. /\ client' = client /\ server' = server /\ reserved' = reserved /\ rom' = rom
        /\ txq' = txq /\ out' = out /\ wire' = wire /\ ingress' = ingress
        /\ events' = events /\ dead' = dead /\ unsure' = unsure /\ acked' = acked
    BY <1>4 DEF mcvars, vars, maint, link
  <2>2. \A k, c : Stage(k, c)' = Stage(k, c)
    BY <2>1 DEF Stage
  <2>3. \A k, c, f : On(k, c, f)' <=> On(k, c, f)
    BY <2>2 DEF On
  <2>4. \A c, r : /\ Travels(c, r)' <=> Travels(c, r)
                  /\ Gone(c, r)' <=> Gone(c, r)
                  /\ Live(c, r)' <=> Live(c, r)
                  /\ Admitted(c, r)' <=> Admitted(c, r)
                  /\ \A s : Answered(c, r, s)' <=> Answered(c, r, s)
    BY <2>1, <2>3 DEF Travels, Gone, Live, Admitted, Answered
  <2>5. \A c, r : Taken(c, r)' <=> Taken(c, r)
    BY <2>1, <2>4 DEF Taken
  <2>6. Traffic'
    <3>1. ASSUME NEW c \in Board PROVE OneCopy(c)'
      BY <1>1, <2>2, <2>3 DEF Traffic, OneCopy
    <3>2. ASSUME NEW c \in Board, NEW r \in Request PROVE Numbered(c, r)' /\ OneUse(c, r)'
      BY <1>1, <2>1, <2>4, <2>5 DEF Traffic, Numbered, OneUse
    <3> QED BY <3>1, <3>2 DEF Traffic
  <2>7. RomIdle' /\ AckOK' /\ AckPrecedesEntry'
    BY <1>1, <2>1 DEF History, RomIdle, AckOK, AckPrecedesEntry, Up
  <2>8. SentIsKnown' /\ Cross' /\ DeadOK'
    BY <1>1, <2>1, <2>4 DEF History, SentIsKnown, Cross, DeadOK
  <2> QED BY <1>2, <2>6, <2>7, <2>8 DEF RequestIInv, History
<1> QED BY <1>3, <1>4

(* For every number of requests, whatever is lost, delayed or reset: a     *)
(* request has one copy and is used once, and what the requester was told  *)
(* agrees with where it is.                                                *)
THEOREM RequestInvariance == MCSpec => []RequestIInv
BY RequestInitial, RequestStep, PTL DEF MCSpec

(* service_server: no board resets on its peer's request before the answer *)
(* that says so has left its UART.                                         *)
THEOREM AnswersPrecedeResets == MCSpec => []AckPrecedesEntry
<1>1. RequestIInv => AckPrecedesEntry
  BY DEF RequestIInv, History
<1> QED BY <1>1, RequestInvariance, PTL

(* Boards that ask each other do not both reset, unless a requester gave   *)
(* up on a request that was on the wire.                                   *)
THEOREM CrossedRequestsExclude == MCSpec => []CrossRequestsExclusive
<1>1. RequestIInv => CrossRequestsExclusive
  <2> SUFFICES ASSUME RequestIInv, \A b \in Board : rom[b] \in Request /\ rom[b].from # b
               PROVE  \E b \in Board : rom[b] \in unsure
    BY DEF CrossRequestsExclusive
  <2>1. 0 \in Board /\ 1 \in Board /\ Peer(0) = 1
    BY DEF Board, Peer
  <2>2. PICK r \in Request, t \in Request : r = rom[0] /\ t = rom[1]
    BY <2>1
  <2>3. r.from = 1 /\ t.from = 0
    BY <2>1, <2>2 DEF Request, Board
  <2>4. r \in unsure \/ t \in unsure
    BY <2>1, <2>2, <2>3 DEF RequestIInv, History, Cross
  <2> QED BY <2>1, <2>2, <2>4
<1> QED BY <1>1, RequestInvariance, PTL

(* A request the console reported as refused, not sent or cancelled never  *)
(* resets a board.                                                         *)
THEOREM DeadRequestsNeverReset == MCSpec => DeadRequestsStayDead
<1>1. RequestIInv /\ [MCNext]_mcvars => [(Enters(0) \cup Enters(1)) \cap dead = {}]_mcvars
  <2> SUFFICES ASSUME RequestIInv, MCNext, NEW c \in Board, NEW r \in Enters(c), r \in dead
               PROVE  FALSE
    <3>1. 0 \in Board /\ 1 \in Board
      BY DEF Board
    <3> QED BY <3>1
  <2>1. MaintIInv /\ Traffic /\ RomIdle /\ DeadOK /\ Next
    BY DEF RequestIInv, History, MCNext
  <2>2. MaintIInv'
    BY <2>1, MaintStep
  <2>3. RomOK(c)
    BY <2>1, <2>2, StepsOK DEF StepOK
  <2>4. r \in Request /\ (Admitted(c, r) \/ Live(c, r))
    BY <2>3 DEF Enters, RomOK, Live
  <2> QED BY <2>1, <2>4 DEF DeadOK
<1> QED BY <1>1, RequestInvariance, PTL DEF MCSpec, DeadRequestsStayDead

=============================================================================
