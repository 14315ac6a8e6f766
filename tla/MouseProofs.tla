----------------------------- MODULE MouseProofs -----------------------------
(***************************************************************************)
(* For every number of mice, every queue and wire length and any number of *)
(* inputs and faults: a drag that a board knows of ends with its focus.    *)
(***************************************************************************)
EXTENDS Mouse, SequenceTheorems, TLAPS

(* Interface rel will show its button up: it does and nothing is queued    *)
(* for it, or the last report queued for it says so.                       *)
LastUp(q, h, rel) ==
  \/ (\A i \in DOMAIN q : q[i].rel # rel) /\ ~h[rel]
  \/ \E i \in DOMAIN q : /\ q[i].rel = rel /\ ~q[i].down
                         /\ \A j \in DOMAIN q : q[j].rel = rel => j <= i

(* What HeldDragEnds needs to be inductive: it concerns inactive boards    *)
(* only, which queue no report of a physical mouse.                        *)
DragOver(b) ==
  ended[b] => token[b].output # b /\ \A rel \in BOOLEAN : LastUp(queue[b], host[b], rel)

MouseIInv == MouseTypeOK /\ \A b \in Board : DragOver(b)

QueueOK(q) == q \in Seq(Report) /\ Len(q) <= QueueCap
WireOK(w) == w \in Seq(Message) /\ Len(w) <= WireCap

-----------------------------------------------------------------------------
(* Sequences *)

(* The two boards. *)
LEMMA PeerFacts ==
  ASSUME NEW b \in Board
  PROVE  Peer(b) \in Board /\ Peer(b) # b /\ \A c \in Board : c = b \/ c = Peer(b)
BY DEF Board, Peer

(* A sequence of messages made one by one from a sequence. *)
LEMMA SeqOfFunction ==
  ASSUME NEW S, NEW n \in Nat, NEW f \in [1 .. n -> S]
  PROVE  f \in Seq(S) /\ Len(f) = n
OBVIOUS

(* queue_try_add never overfills, and adding nothing changes nothing. *)
LEMMA TryAddOK ==
  ASSUME NEW S, NEW seq \in Seq(S), NEW new \in Seq(S), NEW cap \in Nat, Len(seq) <= cap
  PROVE  /\ TryAdd(seq, cap, new) \in Seq(S)
         /\ Len(TryAdd(seq, cap, new)) <= cap
         /\ new = <<>> => TryAdd(seq, cap, new) = seq
<1> DEFINE k == IF Len(new) <= cap - Len(seq) THEN Len(new) ELSE cap - Len(seq)
<1>1. k \in Nat /\ k <= Len(new) /\ Len(seq) + k <= cap
  OBVIOUS
<1>2. SubSeq(new, 1, k) \in Seq(S) /\ Len(SubSeq(new, 1, k)) = k
  <2> HIDE DEF k
  <2> QED BY <1>1
<1>3. TryAdd(seq, cap, new) = seq \o SubSeq(new, 1, k)
  BY DEF TryAdd
<1>4. seq \o SubSeq(new, 1, k) \in Seq(S)
      /\ Len(seq \o SubSeq(new, 1, k)) = Len(seq) + k
  <2> HIDE DEF k
  <2> QED BY <1>2, ConcatProperties
<1>5. new = <<>> => seq \o SubSeq(new, 1, k) = seq
  <2> SUFFICES ASSUME new = <<>> PROVE seq \o SubSeq(new, 1, k) = seq
    OBVIOUS
  <2>1. k = 0  BY <1>1
  <2> HIDE DEF k
  <2>2. SubSeq(new, 1, k) = <<>>  BY <2>1, <1>2, EmptySeq
  <2> QED BY <2>2, ConcatEmptySeq
<1> HIDE DEF k
<1> QED BY <1>1, <1>3, <1>4, <1>5

(* One element is added at the end or dropped. *)
LEMMA TryAddOne ==
  ASSUME NEW S, NEW seq \in Seq(S), NEW r \in S, NEW cap \in Nat, Len(seq) <= cap
  PROVE  TryAdd(seq, cap, <<r>>) \in {seq, seq \o <<r>>}
<1> DEFINE k == IF Len(<<r>>) <= cap - Len(seq) THEN Len(<<r>>) ELSE cap - Len(seq)
<1>1. <<r>> \in Seq(S) /\ Len(<<r>>) = 1  OBVIOUS
<1>2. k = 0 \/ k = 1  BY <1>1
<1>3. TryAdd(seq, cap, <<r>>) = seq \o SubSeq(<<r>>, 1, k)  BY DEF TryAdd
<1> HIDE DEF k
<1>4. CASE k = 0
  <2>1. SubSeq(<<r>>, 1, k) = <<>>  BY <1>4
  <2> QED BY <1>3, <2>1, ConcatEmptySeq
<1>5. CASE k = 1
  <2>1. SubSeq(<<r>>, 1, 1) = <<r>>  BY <1>1, SubSeqFull
  <2> QED BY <1>3, <1>5, <2>1
<1> QED BY <1>2, <1>4, <1>5

(* A last report that is up. *)
LEMMA LastUpAppend ==
  ASSUME NEW q \in Seq(Report), NEW h \in [BOOLEAN -> BOOLEAN], NEW r \in Report, ~r.down,
         \A rel \in BOOLEAN : LastUp(q, h, rel)
  PROVE  \A rel \in BOOLEAN : LastUp(q \o <<r>>, h, rel)
<1> DEFINE q2 == q \o <<r>>
<1>1. q2 \in Seq(Report) /\ Len(q2) = Len(q) + 1
      /\ (\A i \in 1 .. Len(q) : q2[i] = q[i]) /\ q2[Len(q) + 1] = r
  OBVIOUS
<1>2. DOMAIN q = 1 .. Len(q) /\ DOMAIN q2 = 1 .. Len(q2) /\ Len(q) \in Nat
  BY <1>1
<1> SUFFICES ASSUME NEW rel \in BOOLEAN PROVE LastUp(q2, h, rel)
  OBVIOUS
<1> HIDE DEF q2
<1>3. CASE r.rel = rel
  <2>1. Len(q) + 1 \in DOMAIN q2 /\ \A j \in DOMAIN q2 : j <= Len(q) + 1
    BY <1>1, <1>2
  <2> QED BY <1>1, <1>3, <2>1 DEF LastUp
<1>4. CASE r.rel # rel /\ (\A i \in DOMAIN q : q[i].rel # rel) /\ ~h[rel]
  <2>1. \A i \in DOMAIN q2 : q2[i].rel # rel
    BY <1>1, <1>2, <1>4
  <2> QED BY <1>4, <2>1 DEF LastUp
<1>5. CASE r.rel # rel /\ \E i \in DOMAIN q : /\ q[i].rel = rel /\ ~q[i].down
                                 /\ \A j \in DOMAIN q : q[j].rel = rel => j <= i
  <2>1. PICK i \in DOMAIN q : /\ q[i].rel = rel /\ ~q[i].down
                              /\ \A j \in DOMAIN q : q[j].rel = rel => j <= i
    BY <1>5
  <2>2. i \in DOMAIN q2 /\ q2[i].rel = rel /\ ~q2[i].down
    BY <1>1, <1>2, <2>1
  <2>3. \A j \in DOMAIN q2 : q2[j].rel = rel => j <= i
    BY <1>1, <1>2, <1>5, <2>1
  <2> QED BY <2>2, <2>3 DEF LastUp
<1> QED BY <1>3, <1>4, <1>5 DEF LastUp

(* Two elements at the end of a sequence. *)
LEMMA ConcatPair ==
  ASSUME NEW S, NEW q \in Seq(S), NEW u \in S, NEW v \in S
  PROVE  /\ q \o <<u, v>> \in Seq(S)
         /\ Len(q \o <<u, v>>) = Len(q) + 2 /\ Len(q) \in Nat
         /\ (q \o <<u, v>>)[Len(q) + 1] = u /\ (q \o <<u, v>>)[Len(q) + 2] = v
<1>1. <<u, v>> \in Seq(S) /\ Len(<<u, v>>) = 2 /\ <<u, v>>[1] = u /\ <<u, v>>[2] = v
  OBVIOUS
<1> DEFINE w == <<u, v>>
<1> HIDE DEF w
<1>2. w \in Seq(S) /\ Len(w) = 2 /\ w[1] = u /\ w[2] = v
  BY <1>1 DEF w
<1>3. /\ q \o w \in Seq(S) /\ Len(q \o w) = Len(q) + Len(w)
      /\ \A i \in 1 .. Len(q) + Len(w) :
           (q \o w)[i] = IF i <= Len(q) THEN q[i] ELSE w[i - Len(q)]
  BY <1>2, ConcatProperties, Zenon
<1>4. Len(q) \in Nat  OBVIOUS
<1>5. (q \o w)[Len(q) + 1] = w[1]  BY <1>2, <1>3, <1>4
<1>6. (q \o w)[Len(q) + 2] = w[2]  BY <1>2, <1>3, <1>4
<1> QED BY <1>2, <1>3, <1>4, <1>5, <1>6 DEF w

(* Both interfaces are told, whatever went before. *)
LEMMA LastUpRelease ==
  ASSUME NEW q \in Seq(Report), NEW h
  PROVE  \A rel \in BOOLEAN : LastUp(q \o <<Up(FALSE), Up(TRUE)>>, h, rel)
<1> DEFINE q2 == q \o <<Up(FALSE), Up(TRUE)>>
           n == Len(q)
<1>0. Up(FALSE) \in Report /\ Up(TRUE) \in Report /\ Up(FALSE).rel = FALSE
      /\ Up(TRUE).rel = TRUE /\ Up(FALSE).down = FALSE /\ Up(TRUE).down = FALSE
  BY DEF Up, Report
<1>1. q2 \in Seq(Report) /\ Len(q2) = n + 2 /\ n \in Nat
      /\ q2[n + 1] = Up(FALSE) /\ q2[n + 2] = Up(TRUE)
  <2> DEFINE u == Up(FALSE)
             v == Up(TRUE)
  <2>1. u \in Report /\ v \in Report  BY <1>0
  <2> HIDE DEF u, v
  <2>2. /\ q \o <<u, v>> \in Seq(Report)
        /\ Len(q \o <<u, v>>) = Len(q) + 2 /\ Len(q) \in Nat
        /\ (q \o <<u, v>>)[Len(q) + 1] = u /\ (q \o <<u, v>>)[Len(q) + 2] = v
    BY <2>1, ConcatPair
  <2> QED BY <2>2 DEF u, v
<1>2. DOMAIN q2 = 1 .. n + 2
  BY <1>1
<1> SUFFICES ASSUME NEW rel \in BOOLEAN PROVE LastUp(q2, h, rel)
  OBVIOUS
<1> HIDE DEF q2, n
<1>3. CASE rel = TRUE
  <2>1. n + 2 \in DOMAIN q2 /\ \A j \in DOMAIN q2 : j <= n + 2
    BY <1>1, <1>2
  <2> QED BY <1>0, <1>1, <1>3, <2>1 DEF LastUp
<1>4. CASE rel = FALSE
  <2>1. n + 1 \in DOMAIN q2 /\ \A j \in DOMAIN q2 : j <= n + 1 \/ j = n + 2
    BY <1>1, <1>2
  <2> QED BY <1>0, <1>1, <1>4, <2>1 DEF LastUp
<1> QED BY <1>3, <1>4

(* One interface of the host. *)
LEMMA HostUpdate ==
  ASSUME NEW h \in [BOOLEAN -> BOOLEAN], NEW a \in BOOLEAN, NEW d \in BOOLEAN
  PROVE  /\ [h EXCEPT ![a] = d] \in [BOOLEAN -> BOOLEAN]
         /\ [h EXCEPT ![a] = d][a] = d
         /\ \A r \in BOOLEAN : r # a => [h EXCEPT ![a] = d][r] = h[r]
OBVIOUS

(* The host takes the oldest report. *)
LEMMA LastUpDrain ==
  ASSUME NEW q \in Seq(Report), q # <<>>, NEW h \in [BOOLEAN -> BOOLEAN],
         \A rel \in BOOLEAN : LastUp(q, h, rel)
  PROVE  \A rel \in BOOLEAN : LastUp(Tail(q), [h EXCEPT ![Head(q).rel] = Head(q).down], rel)
<1> DEFINE t == Tail(q)
           g == [h EXCEPT ![Head(q).rel] = Head(q).down]
<1>1. t \in Seq(Report) /\ Len(q) \in Nat \ {0} /\ Len(t) = Len(q) - 1
      /\ Head(q) = q[1] /\ \A i \in 1 .. Len(q) - 1 : t[i] = q[i + 1]
  OBVIOUS
<1>2. DOMAIN q = 1 .. Len(q) /\ DOMAIN t = 1 .. Len(q) - 1
  BY <1>1
<1>3. q[1].rel \in BOOLEAN /\ q[1].down \in BOOLEAN
  <2>1. q[1] \in Report  BY <1>1
  <2> QED BY <2>1 DEF Report
<1>4. g[q[1].rel] = q[1].down /\ \A r \in BOOLEAN : r # q[1].rel => g[r] = h[r]
  BY <1>1, <1>3, HostUpdate, Zenon
<1> SUFFICES ASSUME NEW rel \in BOOLEAN PROVE LastUp(t, g, rel)
  OBVIOUS
<1> HIDE DEF t, g
<1>5. CASE (\A i \in DOMAIN q : q[i].rel # rel) /\ ~h[rel]
  <2>1. \A i \in DOMAIN t : t[i].rel # rel
    BY <1>1, <1>2, <1>5
  <2>2. ~g[rel]  BY <1>1, <1>2, <1>4, <1>5
  <2> QED BY <2>1, <2>2 DEF LastUp
<1>6. CASE \E i \in DOMAIN q : /\ q[i].rel = rel /\ ~q[i].down
                               /\ \A j \in DOMAIN q : q[j].rel = rel => j <= i
  <2>1. PICK i \in DOMAIN q : /\ q[i].rel = rel /\ ~q[i].down
                              /\ \A j \in DOMAIN q : q[j].rel = rel => j <= i
    BY <1>6
  <2>2. CASE i = 1
    <3>1. \A j \in DOMAIN t : t[j].rel # rel
      <4> TAKE j \in DOMAIN t
      <4>1. j + 1 \in DOMAIN q /\ t[j] = q[j + 1] /\ ~(j + 1 <= i)
        BY <1>1, <1>2, <2>2
      <4> QED BY <2>1, <4>1, Zenon
    <3>2. q[1].rel = rel /\ ~q[1].down  BY <2>1, <2>2
    <3>3. g[rel] = q[1].down  BY <1>4, <3>2, Zenon
    <3> QED BY <3>1, <3>2, <3>3 DEF LastUp
  <2>3. CASE i # 1
    <3>1. i - 1 \in DOMAIN t /\ t[i - 1] = q[i]
      BY <1>1, <1>2, <2>1, <2>3
    <3>2. \A j \in DOMAIN t : t[j].rel = rel => j <= i - 1
      BY <1>1, <1>2, <2>1
    <3> QED BY <2>1, <3>1, <3>2 DEF LastUp
  <2> QED BY <2>2, <2>3
<1> QED BY <1>5, <1>6 DEF LastUp

(* The last report of an interface decides what it will show. *)
LEMMA LastUpShows ==
  ASSUME MouseTypeOK, NEW b \in Board, NEW rel \in BOOLEAN,
         LastUp(queue[b], host[b], rel)
  PROVE  ~WillShow(b, rel)
<1> DEFINE of == {i \in DOMAIN queue[b] : queue[b][i].rel = rel}
<1>0. queue[b] \in Seq(Report) /\ DOMAIN queue[b] \subseteq Nat
  BY DEF MouseTypeOK
<1>1. CASE of = {}
  <2>1. WillShow(b, rel) = host[b][rel]  BY <1>1 DEF WillShow
  <2> QED BY <1>1, <2>1 DEF LastUp
<1>2. CASE of # {}
  <2>1. PICK i \in of : ~queue[b][i].down /\ \A j \in of : j <= i
    BY <1>2 DEF LastUp
  <2> DEFINE k == CHOOSE k \in of : \A j \in of : j <= k
  <2>2. k \in of /\ \A j \in of : j <= k
    BY <2>1, Zenon
  <2>3. k = i
    <3>1. k <= i /\ i <= k  BY <2>1, <2>2
    <3>2. k \in Nat /\ i \in Nat  BY <1>0, <2>1, <2>2
    <3> HIDE DEF k
    <3> QED BY <3>1, <3>2
  <2>4. WillShow(b, rel) = queue[b][k].down  BY <1>2 DEF WillShow
  <2> QED BY <2>1, <2>3, <2>4
<1> QED BY <1>1, <1>2

-----------------------------------------------------------------------------
(* Messages and reports are of their types. *)

(* Reports as the code builds them ... *)
LEMMA ReportType ==
  ASSUME NEW d \in BOOLEAN, NEW r \in BOOLEAN
  PROVE  [down |-> d, rel |-> r] \in Report /\ Up(r) \in Report
BY DEF Report, Up

(* ... and frames. *)
LEMMA MessageTypes ==
  ASSUME NEW d \in BOOLEAN, NEW r \in BOOLEAN, NEW t \in Token
  PROVE  /\ \A k \in {"SOURCE", "NONMOTION", "SYNTHETIC"} :
              [type |-> k, down |-> d, rel |-> r] \in Message
         /\ Buttons(d, r) \in Message
         /\ Select(t) \in Message
         /\ [type |-> "GAMING", on |-> d] \in Message
<1>1. \A k \in {"SOURCE", "NONMOTION", "SYNTHETIC"} :
              [type |-> k, down |-> d, rel |-> r]
                \in [type : {"SOURCE", "NONMOTION", "SYNTHETIC"}, down : BOOLEAN, rel : BOOLEAN]
  OBVIOUS
<1>2. Buttons(d, r) \in [type : {"BUTTONS"}, down : BOOLEAN, detached : BOOLEAN]
  BY DEF Buttons
<1>3. Select(t) \in [type : {"SELECT"}, token : Token]
  BY DEF Select
<1>4. [type |-> "GAMING", on |-> d] \in [type : {"GAMING"}, on : BOOLEAN]
  OBVIOUS
<1> QED BY <1>1, <1>2, <1>3, <1>4, Zenon DEF Message

(* What a frame of each type carries. *)
LEMMA MessageFields ==
  ASSUME NEW m \in Message
  PROVE  /\ m.type \in {"SOURCE", "NONMOTION", "SYNTHETIC"}
              => m.down \in BOOLEAN /\ m.rel \in BOOLEAN
         /\ m.type = "BUTTONS" => m.down \in BOOLEAN /\ m.detached \in BOOLEAN
         /\ m.type = "SELECT" => m.token \in Token
         /\ m.type = "GAMING" => m.on \in BOOLEAN
BY DEF Message

(* set_active_output makes a token. *)
LEMMA SelectedToken ==
  ASSUME NEW t \in Token, NEW b \in Board
  PROVE  [counter |-> t.counter + 1, origin |-> b, output |-> 1 - t.output] \in Token
BY DEF Token, Board

(* The conjuncts of the type invariant, one board at a time. *)
LEMMA BoardTypes ==
  ASSUME MouseTypeOK, NEW b \in Board
  PROVE  /\ held[b] \subseteq Mice /\ peer[b] \in BOOLEAN /\ token[b] \in Token
         /\ gaming[b] \in BOOLEAN /\ QueueOK(queue[b]) /\ mounted[b] \in BOOLEAN
         /\ host[b] \in [BOOLEAN -> BOOLEAN] /\ WireOK(wire[b]) /\ ended[b] \in BOOLEAN
         /\ Active(b) \in BOOLEAN /\ Local(b) \in BOOLEAN /\ Combined(b) \in BOOLEAN
<1>1. /\ held[b] \subseteq Mice /\ peer[b] \in BOOLEAN /\ token[b] \in Token
      /\ gaming[b] \in BOOLEAN /\ mounted[b] \in BOOLEAN
      /\ host[b] \in [BOOLEAN -> BOOLEAN] /\ ended[b] \in BOOLEAN
  BY DEF MouseTypeOK
<1>2. QueueOK(queue[b]) /\ WireOK(wire[b])
  BY DEF MouseTypeOK, QueueOK, WireOK
<1>3. Active(b) \in BOOLEAN /\ Local(b) \in BOOLEAN  BY DEF Active, Local
<1>4. Combined(b) \in BOOLEAN  BY DEF Combined
<1> QED BY <1>1, <1>2, <1>3, <1>4

(* queue_mouse_report keeps to the queue's length. *)
LEMMA QueuedOK ==
  ASSUME MouseTypeOK, NEW b \in Board, NEW reports \in Seq(Report)
  PROVE  QueueOK(Queued(b, reports)) /\ (reports = <<>> => Queued(b, reports) = queue[b])
<1>1. queue[b] \in Seq(Report) /\ Len(queue[b]) <= QueueCap /\ QueueCap \in Nat
  BY BoardTypes, CapAssumption DEF QueueOK
<1> DEFINE q == TryAdd(queue[b], QueueCap, reports)
<1>2. q \in Seq(Report) /\ Len(q) <= QueueCap /\ (reports = <<>> => q = queue[b])
  BY <1>1, TryAddOK
<1>3. Queued(b, reports) = IF mounted[b] THEN q ELSE queue[b]
  BY DEF Queued
<1> HIDE DEF q
<1> QED BY <1>1, <1>2, <1>3 DEF QueueOK

(* So does queue_packet. *)
LEMMA SentOK ==
  ASSUME MouseTypeOK, NEW b \in Board, NEW msgs \in Seq(Message)
  PROVE  WireOK(Sent(b, msgs)) /\ (msgs = <<>> => Sent(b, msgs) = wire[b])
<1>1. wire[b] \in Seq(Message) /\ Len(wire[b]) <= WireCap /\ WireCap \in Nat
  BY BoardTypes, CapAssumption DEF WireOK
<1> QED BY <1>1, TryAddOK DEF Sent, WireOK

(* One queue changes. *)
LEMMA QueueUpdate ==
  ASSUME MouseTypeOK, NEW b \in Board, NEW q, QueueOK(q),
         queue' = [queue EXCEPT ![b] = q]
  PROVE  /\ queue' \in [Board -> Seq(Report)]
         /\ \A c \in Board : Len(queue'[c]) <= QueueCap
         /\ queue'[b] = q /\ \A c \in Board : c # b => queue'[c] = queue[c]
BY DEF MouseTypeOK, QueueOK

(* The same for one direction of the wire. *)
LEMMA WireUpdate ==
  ASSUME MouseTypeOK, NEW b \in Board, NEW w, WireOK(w),
         wire' = [wire EXCEPT ![b] = w]
  PROVE  /\ wire' \in [Board -> Seq(Message)]
         /\ \A c \in Board : Len(wire'[c]) <= WireCap
BY DEF MouseTypeOK, WireOK

(* A frame is taken and answered. *)
LEMMA TakenOK ==
  ASSUME MouseTypeOK, NEW b \in Board, wire[Peer(b)] # <<>>,
         NEW replies \in Seq(Message), Taken(b, replies)
  PROVE  /\ wire' \in [Board -> Seq(Message)]
         /\ \A c \in Board : Len(wire'[c]) <= WireCap
<1>1. WireOK(wire[Peer(b)]) /\ Peer(b) \in Board /\ Peer(b) # b
  BY BoardTypes, PeerFacts
<1>2. WireOK(Tail(wire[Peer(b)]))
  BY <1>1, CapAssumption DEF WireOK
<1>3. WireOK(Sent(b, replies))  BY SentOK
<1>4. \A c \in Board : wire'[c] = IF c = b THEN Sent(b, replies) ELSE Tail(wire[Peer(b)])
  BY <1>1, PeerFacts DEF Taken, MouseTypeOK
<1>5. wire' = [c \in Board |-> wire'[c]]
  BY DEF Taken, MouseTypeOK
<1> QED BY <1>2, <1>3, <1>4, <1>5 DEF WireOK

(* What is taken from the wire is a message. *)
LEMMA IncomingType ==
  ASSUME MouseTypeOK, NEW b \in Board, wire[Peer(b)] # <<>>
  PROVE  Incoming(b) \in Message
<1>1. wire[Peer(b)] \in Seq(Message)
  BY BoardTypes, PeerFacts DEF WireOK
<1> QED BY <1>1 DEF Incoming

-----------------------------------------------------------------------------
(* A step of board b: the other board's queue and host are left alone. *)
LEMMA BoardStep ==
  ASSUME MouseIInv, NEW b \in Board, MouseTypeOK', DragOver(b)',
         \A c \in Board : c # b => /\ queue'[c] = queue[c] /\ host'[c] = host[c]
                                   /\ ended'[c] = ended[c] /\ token'[c] = token[c]
  PROVE  MouseIInv'
<1>1. \A c \in Board : c # b => DragOver(c)'
  BY DEF MouseIInv, DragOver
<1> QED BY <1>1 DEF MouseIInv

(* A step that touches no queue, host or selection. *)
LEMMA CalmStep ==
  ASSUME MouseIInv, MouseTypeOK', UNCHANGED <<queue, host, ended, token>>
  PROVE  MouseIInv'
BY DEF MouseIInv, DragOver

(* An active board has no drag that is over; an inactive one keeps its     *)
(* queue.                                                                  *)
LEMMA CalmBoard ==
  ASSUME MouseIInv, NEW b \in Board, UNCHANGED <<ended, token, host>>,
         Active(b) \/ queue'[b] = queue[b]
  PROVE  DragOver(b)'
BY DEF MouseIInv, DragOver, Active

(* release_mouse_host_buttons: a drag that it ends is over. *)
LEMMA ReleaseStep ==
  ASSUME MouseTypeOK, NEW b \in Board, NEW before, QueueOK(before),
         Combined(b)' \in BOOLEAN, token' \in [Board -> Token], ReleaseHost(b, before)
  PROVE  /\ queue' \in [Board -> Seq(Report)]
         /\ \A c \in Board : Len(queue'[c]) <= QueueCap
         /\ ended' \in [Board -> BOOLEAN]
         /\ \A c \in Board : c # b => queue'[c] = queue[c] /\ ended'[c] = ended[c]
         /\ DragOver(b)'
<1> DEFINE reports == IF Combined(b)' THEN <<Up(FALSE), Up(TRUE)>> ELSE <<>>
           added == IF mounted[b] THEN reports ELSE <<>>
<1>1. Up(FALSE) \in Report /\ Up(TRUE) \in Report  BY ReportType
<1>2. <<Up(FALSE), Up(TRUE)>> \in Seq(Report) /\ <<>> \in Seq(Report)
  <2> DEFINE u == Up(FALSE)
             v == Up(TRUE)
  <2>1. u \in Report /\ v \in Report  BY <1>1
  <2> HIDE DEF u, v
  <2>2. <<u, v>> \in Seq(Report)  BY <2>1
  <2>3. <<>> \in Seq(Report)  OBVIOUS
  <2> QED BY <2>2, <2>3, Zenon DEF u, v
<1>3. added \in Seq(Report)  BY <1>2
<1>4. Len(before) + Len(added) <= QueueCap /\ queue' = [queue EXCEPT ![b] = before \o added]
  BY DEF ReleaseHost, QueueCritical
<1>5. ended' = [ended EXCEPT ![b] = token'[b].output # b /\ mounted[b] /\ Combined(b)']
  BY DEF ReleaseHost
<1>6. QueueOK(before \o added)
  <2> HIDE DEF added
  <2>1. before \in Seq(Report)  BY DEF QueueOK
  <2>2. before \o added \in Seq(Report) /\ Len(before \o added) = Len(before) + Len(added)
    BY <1>3, <2>1, ConcatProperties, Zenon
  <2> QED BY <1>4, <2>2 DEF QueueOK
<1>7. /\ queue' \in [Board -> Seq(Report)]
      /\ \A c \in Board : Len(queue'[c]) <= QueueCap
      /\ queue'[b] = before \o added /\ \A c \in Board : c # b => queue'[c] = queue[c]
  <2> HIDE DEF added
  <2> QED BY <1>4, <1>6, QueueUpdate
<1>8. ended' \in [Board -> BOOLEAN] /\ \A c \in Board : c # b => ended'[c] = ended[c]
  <2> DEFINE e == token'[b].output # b /\ mounted[b] /\ Combined(b)'
  <2>1. e \in BOOLEAN  OBVIOUS
  <2> HIDE DEF e
  <2> QED BY <1>5, <2>1 DEF MouseTypeOK, e
<1>9. ended'[b] => token'[b].output # b /\ mounted[b] /\ Combined(b)'
  <2>1. ended \in [Board -> BOOLEAN]  BY DEF MouseTypeOK
  <2> QED BY <1>5, <2>1, Zenon
<1>10. DragOver(b)'
  <2> SUFFICES ASSUME ended'[b]
               PROVE  token'[b].output # b /\ \A rel \in BOOLEAN :
                         LastUp(queue'[b], host'[b], rel)
    BY DEF DragOver
  <2>1. added = <<Up(FALSE), Up(TRUE)>>  BY <1>9
  <2>2. queue'[b] = before \o <<Up(FALSE), Up(TRUE)>>  BY <1>7, <2>1
  <2>3. before \in Seq(Report)  BY DEF QueueOK
  <2>4. \A rel \in BOOLEAN : LastUp(before \o <<Up(FALSE), Up(TRUE)>>, host'[b], rel)
    BY <2>3, LastUpRelease
  <2> QED BY <1>9, <2>2, <2>4, Zenon
<1> QED BY <1>7, <1>8, <1>10

(* set_active_output *)
LEMMA SetActiveOutputStep ==
  ASSUME MouseIInv, NEW b \in Board, NEW msgs \in Seq(Message), NEW reports \in Seq(Report),
         SetActiveOutput(b, msgs, reports),
         held' \in [Board -> SUBSET Mice], inputs' \in Nat,
         UNCHANGED <<peer, gaming, mounted, host, faults>>
  PROVE  MouseIInv'
<1>0. MouseTypeOK  BY DEF MouseIInv
<1> DEFINE t == [counter |-> token[b].counter + 1, origin |-> b, output |-> 1 - token[b].output]
<1>1. token' = [token EXCEPT ![b] = t]
  BY DEF SetActiveOutput
<1>2. t \in Token  BY <1>0, BoardTypes, SelectedToken
<1> HIDE DEF t
<1>3. token' \in [Board -> Token] /\ token'[b] = t
      /\ \A c \in Board : c # b => token'[c] = token[c]
  BY <1>0, <1>1, <1>2 DEF MouseTypeOK
<1>4. Select(t) \in Message  BY <1>2, MessageTypes
<1>5. wire' = [wire EXCEPT ![b] = wire[b] \o msgs \o <<Select(t)>>]
      /\ Len(wire[b]) + Len(msgs) < WireCap
  BY <1>0, <1>3 DEF SetActiveOutput, MouseTypeOK
<1>6. WireOK(wire[b] \o msgs \o <<Select(t)>>)
  <2> DEFINE w == wire[b] \o msgs
             m == Select(t)
  <2>1. wire[b] \in Seq(Message)  BY <1>0, BoardTypes DEF WireOK
  <2>2. w \in Seq(Message) /\ Len(w) = Len(wire[b]) + Len(msgs)
    BY <2>1, ConcatProperties, Zenon
  <2>3. m \in Message  BY <1>4
  <2>4. Len(w) < WireCap  BY <1>5, <2>2
  <2> HIDE DEF w, m
  <2>5. w \o <<m>> \in Seq(Message) /\ Len(w \o <<m>>) = Len(w) + 1
    BY <2>2, <2>3
  <2>6. WireOK(w \o <<m>>)
    BY <2>2, <2>4, <2>5, CapAssumption DEF WireOK
  <2> QED BY <2>6 DEF w, m
<1>7. wire' \in [Board -> Seq(Message)] /\ \A c \in Board : Len(wire'[c]) <= WireCap
  BY <1>0, <1>5, <1>6, WireUpdate
<1>8. QueueOK(Queued(b, reports))  BY <1>0, QueuedOK
<1>9. Combined(b)' \in BOOLEAN  BY DEF Combined
<1>10. /\ queue' \in [Board -> Seq(Report)]
       /\ \A c \in Board : Len(queue'[c]) <= QueueCap
       /\ ended' \in [Board -> BOOLEAN]
       /\ \A c \in Board : c # b => queue'[c] = queue[c] /\ ended'[c] = ended[c]
       /\ DragOver(b)'
  BY <1>0, <1>3, <1>8, <1>9, ReleaseStep DEF SetActiveOutput
<1>11. MouseTypeOK'
  BY <1>0, <1>3, <1>7, <1>10 DEF MouseTypeOK
<1> QED BY <1>3, <1>10, <1>11, BoardStep

(* What a physical report leaves alone, and the masks after it. *)
LEMMA ObserveFacts ==
  ASSUME MouseTypeOK, NEW b \in Board, NEW m \in Mice, NEW d \in BOOLEAN,
         NEW moved, Observe(b, m, d, moved)
  PROVE  /\ held' \in [Board -> SUBSET Mice] /\ inputs' \in Nat
         /\ UNCHANGED <<peer, gaming, mounted, host, faults>>
         /\ Local(b)' \in BOOLEAN /\ Combined(b)' \in BOOLEAN
<1>1. held' \in [Board -> SUBSET Mice] /\ inputs' \in Nat
  BY DEF Observe, MouseTypeOK
<1>2. UNCHANGED <<peer, gaming, mounted, host, faults>>  BY DEF Observe
<1>3. Local(b)' \in BOOLEAN /\ Combined(b)' \in BOOLEAN  BY DEF Local, Combined
<1> QED BY <1>1, <1>2, <1>3

(* What it makes the board send and queue. *)
LEMMA PhysicalTypes ==
  ASSUME MouseTypeOK, NEW b \in Board, NEW moved \in BOOLEAN,
         Local(b)' \in BOOLEAN, Combined(b)' \in BOOLEAN
  PROVE  /\ PhysicalMsgs(b, moved) \in Seq(Message)
         /\ PhysicalReports(b) \in Seq(Report)
         /\ ~Active(b) => PhysicalReports(b) = <<>>
<1> DEFINE k == IF moved THEN "SOURCE" ELSE "NONMOTION"
           sync == Buttons(Local(b)', FALSE)
           msg == [type |-> k, down |-> Local(b)', rel |-> gaming[b]]
           rep == [down |-> Combined(b)', rel |-> gaming[b]]
<1>0. token[b] \in Token /\ gaming[b] \in BOOLEAN  BY BoardTypes
<1>1. k \in {"SOURCE", "NONMOTION", "SYNTHETIC"}  OBVIOUS
<1>2. sync \in Message /\ msg \in Message
  <2> HIDE DEF k
  <2> QED BY <1>0, <1>1, MessageTypes, Zenon
<1>3. rep \in Report  BY <1>0, ReportType
<1>4. PhysicalMsgs(b, moved) = IF Active(b) THEN IF Local(b)' # Local(b) THEN <<sync>> ELSE <<>>
                               ELSE <<msg>>
  BY DEF PhysicalMsgs
<1>5. PhysicalReports(b) = IF Active(b) THEN <<rep>> ELSE <<>>
  BY DEF PhysicalReports
<1> HIDE DEF sync, msg, rep
<1>6. <<sync>> \in Seq(Message) /\ <<msg>> \in Seq(Message) /\ <<rep>> \in Seq(Report)
      /\ <<>> \in Seq(Message) /\ <<>> \in Seq(Report)
  BY <1>2, <1>3
<1> QED BY <1>4, <1>5, <1>6

(* output_mouse_report sends or queues, never both. *)
LEMMA SyntheticTypes ==
  ASSUME NEW b \in Board, NEW reports \in Seq(Report)
  PROVE  /\ SyntheticMsgs(b, reports) \in Seq(Message)
         /\ SyntheticReports(b, reports) \in Seq(Report)
         /\ ~Active(b) => SyntheticReports(b, reports) = <<>>
<1> DEFINE f == [i \in DOMAIN reports |->
          [type |-> "SYNTHETIC", down |-> reports[i].down, rel |-> reports[i].rel]]
<1>1. DOMAIN reports = 1 .. Len(reports) /\ Len(reports) \in Nat  OBVIOUS
<1>2. \A i \in DOMAIN reports :
        [type |-> "SYNTHETIC", down |-> reports[i].down, rel |-> reports[i].rel] \in Message
  <2> TAKE i \in DOMAIN reports
  <2>1. reports[i] \in Report  BY <1>1
  <2>2. reports[i].down \in BOOLEAN /\ reports[i].rel \in BOOLEAN
    BY <2>1 DEF Report
  <2>3. [type |-> "SYNTHETIC", down |-> reports[i].down, rel |-> reports[i].rel]
           \in [type : {"SOURCE", "NONMOTION", "SYNTHETIC"}, down : BOOLEAN, rel : BOOLEAN]
    BY <2>2
  <2> QED BY <2>3, Zenon DEF Message
<1>3. f \in [1 .. Len(reports) -> Message]
  BY <1>1, <1>2, Zenon
<1>4. f \in Seq(Message)
  <2> HIDE DEF f
  <2> QED BY <1>1, <1>3, SeqOfFunction
<1>5. SyntheticMsgs(b, reports) = IF Active(b) THEN <<>> ELSE f
  BY DEF SyntheticMsgs
<1> HIDE DEF f
<1>6. <<>> \in Seq(Message) /\ <<>> \in Seq(Report)  OBVIOUS
<1> QED BY <1>4, <1>5, <1>6 DEF SyntheticReports

(* Both parts of what a report makes the board do. *)
LEMMA JoinedTypes ==
  ASSUME NEW S, NEW T, NEW s1 \in Seq(S), NEW s2 \in Seq(S), NEW t1 \in Seq(T), NEW t2 \in Seq(T)
  PROVE  /\ s1 \o s2 \in Seq(S) /\ t1 \o t2 \in Seq(T)
         /\ t1 = <<>> /\ t2 = <<>> => t1 \o t2 = <<>>
<1>1. s1 \o s2 \in Seq(S) /\ t1 \o t2 \in Seq(T)  BY ConcatProperties, Zenon
<1>2. t1 = <<>> /\ t2 = <<>> => t1 \o t2 = <<>>
  <2>1. <<>> \in Seq(T)  OBVIOUS
  <2> QED BY <2>1, ConcatEmptySeq, Zenon
<1> QED BY <1>1, <1>2

(* A step of board b that queues reports while it is active, and frames. *)
LEMMA ReportStep ==
  ASSUME MouseIInv, NEW b \in Board, NEW reports \in Seq(Report), NEW msgs \in Seq(Message),
         ~Active(b) => reports = <<>>,
         queue' = [queue EXCEPT ![b] = Queued(b, reports)],
         wire' = [wire EXCEPT ![b] = Sent(b, msgs)],
         held' \in [Board -> SUBSET Mice], inputs' \in Nat,
         UNCHANGED <<peer, gaming, mounted, host, faults, token, ended>>
  PROVE  MouseIInv'
<1>0. MouseTypeOK  BY DEF MouseIInv
<1>1. QueueOK(Queued(b, reports)) /\ (reports = <<>> => Queued(b, reports) = queue[b])
  BY <1>0, QueuedOK
<1>2. WireOK(Sent(b, msgs))  BY <1>0, SentOK
<1>3. /\ queue' \in [Board -> Seq(Report)]
      /\ \A c \in Board : Len(queue'[c]) <= QueueCap
      /\ queue'[b] = Queued(b, reports) /\ \A c \in Board : c # b => queue'[c] = queue[c]
  BY <1>0, <1>1, QueueUpdate
<1>4. wire' \in [Board -> Seq(Message)] /\ \A c \in Board : Len(wire'[c]) <= WireCap
  BY <1>0, <1>2, WireUpdate
<1>5. MouseTypeOK'
  BY <1>0, <1>3, <1>4 DEF MouseTypeOK
<1>6. DragOver(b)'
  BY <1>1, <1>3, CalmBoard
<1> QED BY <1>3, <1>5, <1>6, BoardStep

(* process_mouse_report, on its screen and across a border. *)
LEMMA PhysicalStep ==
  ASSUME MouseIInv, NEW b \in Board, NEW m \in Mice, NEW d \in BOOLEAN, NEW moved \in BOOLEAN,
         MouseReport(b, m, d, moved) \/ CrossBorder(b, m, d) \/ CrossDesktop(b, m, d)
  PROVE  MouseIInv'
<1>0. MouseTypeOK  BY DEF MouseIInv
<1>1. Observe(b, m, d, moved) \/ Observe(b, m, d, TRUE)
  BY DEF MouseReport, CrossBorder, CrossDesktop
<1>2. /\ held' \in [Board -> SUBSET Mice] /\ inputs' \in Nat
      /\ UNCHANGED <<peer, gaming, mounted, host, faults>>
      /\ Local(b)' \in BOOLEAN /\ Combined(b)' \in BOOLEAN
  BY <1>0, <1>1, ObserveFacts
<1>3. \A mv \in BOOLEAN : /\ PhysicalMsgs(b, mv) \in Seq(Message)
                          /\ PhysicalReports(b) \in Seq(Report)
                          /\ ~Active(b) => PhysicalReports(b) = <<>>
  BY <1>0, <1>2, PhysicalTypes
<1>4. CASE MouseReport(b, m, d, moved)
  BY <1>2, <1>3, <1>4, ReportStep DEF MouseReport
<1>5. CASE CrossBorder(b, m, d)
  <2> DEFINE msgs == PhysicalMsgs(b, TRUE) \o SyntheticMsgs(b, <<Up(FALSE)>>)
             reports == PhysicalReports(b) \o SyntheticReports(b, <<Up(FALSE)>>)
  <2>1. <<Up(FALSE)>> \in Seq(Report)
    <3> DEFINE u == Up(FALSE)
    <3>1. u \in Report  BY ReportType
    <3> HIDE DEF u
    <3>2. <<u>> \in Seq(Report)  BY <3>1
    <3> QED BY <3>2 DEF u
  <2>2. msgs \in Seq(Message) /\ reports \in Seq(Report)
    BY <1>3, <2>1, SyntheticTypes, JoinedTypes
  <2>3. SetActiveOutput(b, msgs, reports)  BY <1>5 DEF CrossBorder
  <2> HIDE DEF msgs, reports
  <2> QED BY <1>2, <2>2, <2>3, SetActiveOutputStep
<1>6. CASE CrossDesktop(b, m, d)
  <2> DEFINE edge == [down |-> Combined(b)', rel |-> FALSE]
             u == Up(TRUE)
             steps == <<edge, u>>
             msgs == PhysicalMsgs(b, TRUE) \o SyntheticMsgs(b, steps)
             reports == PhysicalReports(b) \o SyntheticReports(b, steps)
  <2>1. edge \in Report /\ u \in Report  BY <1>2, ReportType
  <2>2. queue' = [queue EXCEPT ![b] = Queued(b, reports)]
        /\ wire' = [wire EXCEPT ![b] = Sent(b, msgs)]
        /\ UNCHANGED <<token, ended>>
    BY <1>6 DEF CrossDesktop
  <2> HIDE DEF edge, u
  <2>3. steps \in Seq(Report)  BY <2>1
  <2> HIDE DEF steps
  <2>4. /\ SyntheticMsgs(b, steps) \in Seq(Message) /\ SyntheticReports(b, steps) \in Seq(Report)
        /\ ~Active(b) => SyntheticReports(b, steps) = <<>>
    BY <2>3, SyntheticTypes
  <2>5. /\ msgs \in Seq(Message) /\ reports \in Seq(Report)
        /\ ~Active(b) => reports = <<>>
    <3>1. /\ PhysicalMsgs(b, TRUE) \in Seq(Message) /\ PhysicalReports(b) \in Seq(Report)
          /\ ~Active(b) => PhysicalReports(b) = <<>>
      BY <1>3
    <3>2. msgs \in Seq(Message) /\ reports \in Seq(Report)
      BY <2>4, <3>1, JoinedTypes
    <3>3. ~Active(b) => reports = <<>> \o <<>>
      BY <2>4, <3>1
    <3>4. <<>> \o <<>> = <<>>
      BY ConcatEmptySeq
    <3> QED BY <3>2, <3>3, <3>4
  <2> HIDE DEF msgs, reports
  <2> QED BY <1>2, <2>2, <2>5, ReportStep
<1> QED BY <1>4, <1>5, <1>6

(* queue_mouse_report_critical for one report. *)
LEMMA CriticalStep ==
  ASSUME MouseTypeOK, NEW b \in Board, NEW r \in Report, QueueCritical(b, queue[b], <<r>>)
  PROVE  /\ queue' \in [Board -> Seq(Report)]
         /\ \A c \in Board : Len(queue'[c]) <= QueueCap
         /\ \A c \in Board : c # b => queue'[c] = queue[c]
<1> DEFINE added == IF mounted[b] THEN <<r>> ELSE <<>>
<1>1. added \in Seq(Report)
  <2>1. <<r>> \in Seq(Report) /\ <<>> \in Seq(Report)  OBVIOUS
  <2> QED BY <2>1
<1>2. Len(queue[b]) + Len(added) <= QueueCap /\ queue' = [queue EXCEPT ![b] = queue[b] \o added]
  BY DEF QueueCritical
<1> HIDE DEF added
<1>3. queue[b] \in Seq(Report)  BY BoardTypes DEF QueueOK
<1>4. queue[b] \o added \in Seq(Report)
      /\ Len(queue[b] \o added) = Len(queue[b]) + Len(added)
  BY <1>1, <1>3, ConcatProperties, Zenon
<1>5. QueueOK(queue[b] \o added)  BY <1>2, <1>4 DEF QueueOK
<1> QED BY <1>2, <1>5, QueueUpdate

(* mouse_interface_removed *)
LEMMA UnplugStep ==
  ASSUME MouseIInv, NEW b \in Board, NEW m \in Mice, Unplug(b, m)
  PROVE  MouseIInv'
<1>0. MouseTypeOK  BY DEF MouseIInv
<1>1. held' \in [Board -> SUBSET Mice] /\ inputs' \in Nat
      /\ UNCHANGED <<peer, token, gaming, mounted, host, ended, faults>>
  BY <1>0 DEF Unplug, MouseTypeOK
<1>2. CASE Local(b)'
  <2>1. UNCHANGED <<wire, queue>>  BY <1>2 DEF Unplug
  <2>2. MouseTypeOK'  BY <1>0, <1>1, <2>1 DEF MouseTypeOK
  <2> QED BY <1>1, <2>1, <2>2, CalmStep
<1>3. CASE ~Local(b)'
  <2> DEFINE m2 == Buttons(FALSE, TRUE)
             r == [down |-> Combined(b)', rel |-> gaming[b]]
  <2>1. Len(wire[b]) < WireCap /\ wire' = [wire EXCEPT ![b] = Append(wire[b], m2)]
    BY <1>0, <1>3 DEF Unplug, MouseTypeOK
  <2>2. m2 \in Message
    <3>1. token[b] \in Token  BY <1>0, BoardTypes
    <3> QED BY <3>1, MessageTypes
  <2>3. r \in Report
    <3>1. Combined(b)' \in BOOLEAN  BY DEF Combined
    <3>2. gaming[b] \in BOOLEAN  BY <1>0, BoardTypes
    <3> QED BY <3>1, <3>2, ReportType
  <2>4. IF Active(b) THEN QueueCritical(b, queue[b], <<r>>) ELSE UNCHANGED queue
    BY <1>3 DEF Unplug
  <2> HIDE DEF m2, r
  <2>5. WireOK(Append(wire[b], m2))
    <3>1. wire[b] \in Seq(Message)  BY <1>0, BoardTypes DEF WireOK
    <3> QED BY <2>1, <2>2, <3>1, CapAssumption DEF WireOK
  <2>6. wire' \in [Board -> Seq(Message)] /\ \A c \in Board : Len(wire'[c]) <= WireCap
    BY <1>0, <2>1, <2>5, WireUpdate
  <2>7. CASE Active(b)
    <3>1. /\ queue' \in [Board -> Seq(Report)]
          /\ \A c \in Board : Len(queue'[c]) <= QueueCap
          /\ \A c \in Board : c # b => queue'[c] = queue[c]
      BY <1>0, <2>3, <2>4, <2>7, CriticalStep
    <3>2. MouseTypeOK'  BY <1>0, <1>1, <2>6, <3>1 DEF MouseTypeOK
    <3>3. DragOver(b)'  BY <1>1, <2>7, CalmBoard
    <3> QED BY <1>1, <3>1, <3>2, <3>3, BoardStep
  <2>8. CASE ~Active(b)
    <3>1. UNCHANGED queue  BY <2>4, <2>8
    <3>2. MouseTypeOK'  BY <1>0, <1>1, <2>6, <3>1 DEF MouseTypeOK
    <3> QED BY <1>1, <3>1, <3>2, CalmStep
  <2> QED BY <2>7, <2>8
<1> QED BY <1>2, <1>3

(* The hotkeys and the heartbeat. *)
LEMMA LocalStep ==
  ASSUME MouseIInv, NEW b \in Board, ToggleOutput(b) \/ ToggleGaming(b) \/ Heartbeat(b)
  PROVE  MouseIInv'
<1>0. MouseTypeOK  BY DEF MouseIInv
<1>b. token[b] \in Token /\ gaming[b] \in BOOLEAN /\ Local(b) \in BOOLEAN
  BY <1>0, BoardTypes
<1>1. CASE ToggleOutput(b)
  <2>1. <<>> \in Seq(Message) /\ <<>> \in Seq(Report)  OBVIOUS
  <2>2. held' \in [Board -> SUBSET Mice] /\ inputs' \in Nat
        /\ UNCHANGED <<peer, gaming, mounted, host, faults>>
        /\ SetActiveOutput(b, <<>>, <<>>)
    BY <1>0, <1>1 DEF ToggleOutput, MouseTypeOK
  <2> QED BY <2>1, <2>2, SetActiveOutputStep
<1>2. CASE ToggleGaming(b)
  <2> DEFINE m == [type |-> "GAMING", on |-> ~gaming[b]]
  <2>1. (~gaming[b]) \in BOOLEAN  BY <1>b
  <2>2. m \in Message  BY <1>b, <2>1, MessageTypes
  <2>3. /\ gaming' \in [Board -> BOOLEAN] /\ inputs' \in Nat
        /\ wire' = [wire EXCEPT ![b] = Sent(b, <<m>>)]
        /\ UNCHANGED <<held, peer, token, queue, mounted, host, ended, faults>>
    BY <1>0, <1>2, <2>1 DEF ToggleGaming, MouseTypeOK
  <2> HIDE DEF m
  <2>4. <<m>> \in Seq(Message)  BY <2>2
  <2>5. wire' \in [Board -> Seq(Message)] /\ \A c \in Board : Len(wire'[c]) <= WireCap
    BY <1>0, <2>3, <2>4, SentOK, WireUpdate
  <2>6. MouseTypeOK'  BY <1>0, <2>3, <2>5 DEF MouseTypeOK
  <2> QED BY <2>3, <2>6, CalmStep
<1>3. CASE Heartbeat(b)
  <2> DEFINE m == Buttons(Local(b), FALSE)
             n == Select(token[b])
  <2>1. m \in Message /\ n \in Message  BY <1>b, MessageTypes
  <2>2. /\ wire' = [wire EXCEPT ![b] = Sent(b, <<m, n>>)]
        /\ UNCHANGED <<held, peer, token, gaming, queue, mounted, host, ended, inputs, faults>>
    BY <1>3 DEF Heartbeat
  <2> HIDE DEF m, n
  <2>3. <<m, n>> \in Seq(Message)  BY <2>1
  <2>4. wire' \in [Board -> Seq(Message)] /\ \A c \in Board : Len(wire'[c]) <= WireCap
    BY <1>0, <2>2, <2>3, SentOK, WireUpdate
  <2>5. MouseTypeOK'  BY <1>0, <2>2, <2>4 DEF MouseTypeOK
  <2> QED BY <2>2, <2>5, CalmStep
<1> QED BY <1>1, <1>2, <1>3

(* A mirrored mask, and the report an active board makes of it. *)
LEMMA MirrorStep ==
  ASSUME MouseIInv, NEW b \in Board, wire[Peer(b)] # <<>>, Taken(b, <<>>),
         NEW d \in BOOLEAN, peer' = [peer EXCEPT ![b] = d], NEW r \in BOOLEAN,
         queue' = [queue EXCEPT ![b] =
                     IF Active(b) THEN Queued(b, <<[down |-> Combined(b)', rel |-> r]>>) ELSE @],
         UNCHANGED <<held, token, gaming, mounted, host, ended, inputs, faults>>
  PROVE  MouseIInv'
<1>0. MouseTypeOK  BY DEF MouseIInv
<1> DEFINE rep == [down |-> Combined(b)', rel |-> r]
           q == IF Active(b) THEN Queued(b, <<rep>>) ELSE queue[b]
<1>1. rep \in Report
  <2>1. Combined(b)' \in BOOLEAN  BY DEF Combined
  <2> QED BY <2>1, ReportType
<1>2. queue' = [queue EXCEPT ![b] = q]  BY <1>0 DEF MouseTypeOK
<1> HIDE DEF rep
<1>3. <<rep>> \in Seq(Report)  BY <1>1
<1>4. QueueOK(q)  BY <1>0, <1>3, QueuedOK, BoardTypes
<1>5. ~Active(b) => q = queue[b]  OBVIOUS
<1> HIDE DEF q
<1>6. /\ queue' \in [Board -> Seq(Report)]
      /\ \A c \in Board : Len(queue'[c]) <= QueueCap
      /\ queue'[b] = q /\ \A c \in Board : c # b => queue'[c] = queue[c]
  BY <1>0, <1>2, <1>4, QueueUpdate
<1>7. wire' \in [Board -> Seq(Message)] /\ \A c \in Board : Len(wire'[c]) <= WireCap
  <2>1. <<>> \in Seq(Message)  OBVIOUS
  <2> QED BY <1>0, <2>1, TakenOK
<1>8. peer' \in [Board -> BOOLEAN]  BY <1>0 DEF MouseTypeOK
<1>9. MouseTypeOK'  BY <1>0, <1>6, <1>7, <1>8 DEF MouseTypeOK
<1>10. DragOver(b)'  BY <1>5, <1>6, CalmBoard
<1> QED BY <1>6, <1>9, <1>10, BoardStep

(* handle_mouse_buttons_sync_msg *)
LEMMA ButtonsStep ==
  ASSUME MouseIInv, NEW b \in Board, ReceiveButtons(b)
  PROVE  MouseIInv'
<1>0. MouseTypeOK  BY DEF MouseIInv
<1>1. wire[Peer(b)] # <<>> /\ Incoming(b).type = "BUTTONS" /\ Taken(b, <<>>)
  BY DEF ReceiveButtons, Take, Incoming
<1>2. Incoming(b).down \in BOOLEAN  BY <1>0, <1>1, IncomingType, MessageFields
<1>3. /\ peer' \in [Board -> BOOLEAN]
      /\ UNCHANGED <<held, token, gaming, mounted, host, ended, inputs, faults>>
  BY <1>0, <1>2 DEF ReceiveButtons, MouseTypeOK
<1>4. wire' \in [Board -> Seq(Message)] /\ \A c \in Board : Len(wire'[c]) <= WireCap
  <2>1. <<>> \in Seq(Message)  OBVIOUS
  <2> QED BY <1>0, <1>1, <2>1, TakenOK
<1>5. CASE Incoming(b).detached /\ Combined(b)' # Combined(b) /\ Active(b)
  <2> DEFINE r == [down |-> Combined(b)', rel |-> gaming[b]]
  <2>1. QueueCritical(b, queue[b], <<r>>)  BY <1>5 DEF ReceiveButtons
  <2>2. r \in Report
    <3>1. Combined(b)' \in BOOLEAN  BY DEF Combined
    <3>2. gaming[b] \in BOOLEAN  BY <1>0, BoardTypes
    <3> QED BY <3>1, <3>2, ReportType
  <2> HIDE DEF r
  <2>3. /\ queue' \in [Board -> Seq(Report)]
        /\ \A c \in Board : Len(queue'[c]) <= QueueCap
        /\ \A c \in Board : c # b => queue'[c] = queue[c]
    BY <1>0, <2>1, <2>2, CriticalStep
  <2>4. MouseTypeOK'  BY <1>0, <1>3, <1>4, <2>3 DEF MouseTypeOK
  <2>5. DragOver(b)'  BY <1>3, <1>5, CalmBoard
  <2> QED BY <1>3, <2>3, <2>4, <2>5, BoardStep
<1>6. CASE ~(Incoming(b).detached /\ Combined(b)' # Combined(b) /\ Active(b))
  <2>1. UNCHANGED queue  BY <1>6 DEF ReceiveButtons
  <2>2. MouseTypeOK'  BY <1>0, <1>3, <1>4, <2>1 DEF MouseTypeOK
  <2> QED BY <1>3, <2>1, <2>2, CalmStep
<1> QED BY <1>5, <1>6

(* handle_mouse_synthetic_uart_msg: while a drag is over it queues up.     *)
LEMMA SyntheticStep ==
  ASSUME MouseIInv, NEW b \in Board, ReceiveSynthetic(b)
  PROVE  MouseIInv'
<1>0. MouseTypeOK  BY DEF MouseIInv
<1>1. wire[Peer(b)] # <<>> /\ Incoming(b).type = "SYNTHETIC" /\ Taken(b, <<>>)
  BY DEF ReceiveSynthetic, Take, Incoming
<1>2. Incoming(b).down \in BOOLEAN /\ Incoming(b).rel \in BOOLEAN
  BY <1>0, <1>1, IncomingType, MessageFields
<1> DEFINE d == Incoming(b).down
           r == [down |-> d, rel |-> Incoming(b).rel]
           q == Queued(b, <<r>>)
<1>3. r \in Report /\ r.down = d  BY <1>2, ReportType
<1>4. /\ queue' = [queue EXCEPT ![b] = q]
      /\ ended' = [ended EXCEPT ![b] = ended[b] /\ ~d]
      /\ UNCHANGED <<held, peer, token, gaming, mounted, host, inputs, faults>>
  BY <1>0 DEF ReceiveSynthetic, MouseTypeOK
<1>5. wire' \in [Board -> Seq(Message)] /\ \A c \in Board : Len(wire'[c]) <= WireCap
  <2>1. <<>> \in Seq(Message)  OBVIOUS
  <2> QED BY <1>0, <1>1, <2>1, TakenOK
<1> HIDE DEF r, d
<1>6. <<r>> \in Seq(Report)  BY <1>3
<1>7. QueueOK(q)  BY <1>0, <1>6, QueuedOK
<1>8. /\ queue' \in [Board -> Seq(Report)]
      /\ \A c \in Board : Len(queue'[c]) <= QueueCap
      /\ queue'[b] = q /\ \A c \in Board : c # b => queue'[c] = queue[c]
  BY <1>0, <1>4, <1>7, QueueUpdate
<1>9. ended \in [Board -> BOOLEAN]  BY <1>0 DEF MouseTypeOK
<1>10. ended' \in [Board -> BOOLEAN] /\ (ended'[b] => ended[b] /\ ~d)
       /\ \A c \in Board : c # b => ended'[c] = ended[c]
  <2> DEFINE e == ended[b] /\ ~d
  <2>1. e \in BOOLEAN  OBVIOUS
  <2>2. ended' = [ended EXCEPT ![b] = e]  BY <1>4
  <2> HIDE DEF e
  <2>3. ended' \in [Board -> BOOLEAN] /\ ended'[b] = e
        /\ \A c \in Board : c # b => ended'[c] = ended[c]
    BY <1>9, <2>1, <2>2
  <2> QED BY <2>3 DEF e
<1>11. MouseTypeOK'  BY <1>0, <1>4, <1>5, <1>8, <1>10 DEF MouseTypeOK
<1>12. DragOver(b)'
  <2> SUFFICES ASSUME ended'[b]
               PROVE  token'[b].output # b /\ \A rel \in BOOLEAN :
                         LastUp(queue'[b], host'[b], rel)
    BY DEF DragOver
  <2>1. ended[b] /\ ~r.down  BY <1>3, <1>10
  <2>2. token[b].output # b /\ \A rel \in BOOLEAN : LastUp(queue[b], host[b], rel)
    BY <2>1 DEF MouseIInv, DragOver
  <2>3. q = queue[b] \/ q = queue[b] \o <<r>>
    <3>1. queue[b] \in Seq(Report) /\ Len(queue[b]) <= QueueCap
      BY <1>0, BoardTypes DEF QueueOK
    <3>2. TryAdd(queue[b], QueueCap, <<r>>) \in {queue[b], queue[b] \o <<r>>}
      BY <1>3, <3>1, TryAddOne, CapAssumption
    <3> QED BY <3>2 DEF Queued
  <2>4. queue[b] \in Seq(Report) /\ host[b] \in [BOOLEAN -> BOOLEAN]
    BY <1>0, BoardTypes DEF QueueOK
  <2>5. \A rel \in BOOLEAN : LastUp(queue[b] \o <<r>>, host[b], rel)
    BY <1>3, <2>1, <2>2, <2>4, LastUpAppend
  <2>6. token'[b] = token[b] /\ host'[b] = host[b] /\ queue'[b] = q  BY <1>4, <1>8
  <2> QED BY <2>2, <2>3, <2>5, <2>6
<1> QED BY <1>4, <1>8, <1>10, <1>11, <1>12, BoardStep

(* receive_output_selection *)
LEMMA SelectStep ==
  ASSUME MouseIInv, NEW b \in Board, ReceiveSelect(b)
  PROVE  MouseIInv'
<1>0. MouseTypeOK  BY DEF MouseIInv
<1> DEFINE t == Incoming(b).token
           accepted == Newer(t, token[b])
           u == IF accepted THEN t ELSE token[b]
           replies == IF accepted THEN <<Select(token'[b])>> ELSE <<>>
<1>1. wire[Peer(b)] # <<>> /\ Incoming(b).type = "SELECT"
  BY DEF ReceiveSelect, Take, Incoming
<1>2. t \in Token /\ token[b] \in Token
  BY <1>0, <1>1, IncomingType, MessageFields, BoardTypes
<1>3. /\ token' = [token EXCEPT ![b] = u] /\ Taken(b, replies)
      /\ UNCHANGED <<held, peer, gaming, mounted, host, inputs, faults>>
      /\ IF accepted /\ t.output # token[b].output
         THEN ReleaseHost(b, queue[b]) ELSE UNCHANGED <<queue, ended>>
  BY <1>0 DEF ReceiveSelect, MouseTypeOK
<1>4. u \in Token /\ (~(accepted /\ t.output # token[b].output) => u.output = token[b].output)
  BY <1>2
<1> HIDE DEF t, accepted, u
<1>5. token' \in [Board -> Token] /\ token'[b] = u
      /\ \A c \in Board : c # b => token'[c] = token[c]
  BY <1>0, <1>3, <1>4 DEF MouseTypeOK
<1>6. replies \in Seq(Message)
  <2> DEFINE m == Select(token'[b])
  <2>1. m \in Message  BY <1>4, <1>5, MessageTypes
  <2> HIDE DEF m
  <2>2. <<m>> \in Seq(Message) /\ <<>> \in Seq(Message)  BY <2>1
  <2> QED BY <2>2 DEF m
<1> HIDE DEF replies
<1>7. wire' \in [Board -> Seq(Message)] /\ \A c \in Board : Len(wire'[c]) <= WireCap
  BY <1>0, <1>1, <1>3, <1>6, TakenOK
<1>8. CASE accepted /\ t.output # token[b].output
  <2>1. QueueOK(queue[b])  BY <1>0, BoardTypes
  <2>2. Combined(b)' \in BOOLEAN  BY DEF Combined
  <2>3. /\ queue' \in [Board -> Seq(Report)]
        /\ \A c \in Board : Len(queue'[c]) <= QueueCap
        /\ ended' \in [Board -> BOOLEAN]
        /\ \A c \in Board : c # b => queue'[c] = queue[c] /\ ended'[c] = ended[c]
        /\ DragOver(b)'
    BY <1>0, <1>3, <1>5, <1>8, <2>1, <2>2, ReleaseStep
  <2>4. MouseTypeOK'  BY <1>0, <1>3, <1>5, <1>7, <2>3 DEF MouseTypeOK
  <2> QED BY <1>3, <1>5, <2>3, <2>4, BoardStep
<1>9. CASE ~(accepted /\ t.output # token[b].output)
  <2>1. UNCHANGED <<queue, ended>> /\ token'[b].output = token[b].output
    BY <1>3, <1>4, <1>5, <1>9
  <2>2. MouseTypeOK'  BY <1>0, <1>3, <1>5, <1>7, <2>1 DEF MouseTypeOK
  <2>3. DragOver(b)'  BY <1>3, <2>1 DEF MouseIInv, DragOver
  <2> QED BY <1>3, <1>5, <2>1, <2>2, <2>3, BoardStep
<1> QED BY <1>8, <1>9

(* The frame handlers of core 1. *)
LEMMA ReceiveStep ==
  ASSUME MouseIInv, NEW b \in Board, Receive(b)
  PROVE  MouseIInv'
<1>0. MouseTypeOK  BY DEF MouseIInv
<1>1. CASE ReceiveSource(b)
  <2>1. wire[Peer(b)] # <<>> /\ Incoming(b).type = "SOURCE" /\ Taken(b, <<>>)
    BY <1>1 DEF ReceiveSource, Take, Incoming
  <2>2. Incoming(b).down \in BOOLEAN /\ Incoming(b).rel \in BOOLEAN
    BY <1>0, <2>1, IncomingType, MessageFields
  <2> QED BY <1>1, <2>1, <2>2, MirrorStep DEF ReceiveSource
<1>2. CASE ReceiveNonmotion(b)
  <2> DEFINE r == gaming[b] \/ Incoming(b).rel
  <2>1. wire[Peer(b)] # <<>> /\ Incoming(b).type = "NONMOTION" /\ Taken(b, <<>>)
    BY <1>2 DEF ReceiveNonmotion, Take, Incoming
  <2>2. Incoming(b).down \in BOOLEAN
    BY <1>0, <2>1, IncomingType, MessageFields
  <2>3. r \in BOOLEAN  OBVIOUS
  <2>4. /\ peer' = [peer EXCEPT ![b] = Incoming(b).down]
        /\ queue' = [queue EXCEPT ![b] =
                       IF Active(b) THEN Queued(b, <<[down |-> Combined(b)', rel |-> r]>>) ELSE @]
        /\ UNCHANGED <<held, token, gaming, mounted, host, ended, inputs, faults>>
    BY <1>2 DEF ReceiveNonmotion
  <2> HIDE DEF r
  <2> QED BY <2>1, <2>2, <2>3, <2>4, MirrorStep
<1>3. CASE ReceiveGaming(b)
  <2>1. wire[Peer(b)] # <<>> /\ Incoming(b).type = "GAMING" /\ Taken(b, <<>>)
    BY <1>3 DEF ReceiveGaming, Take, Incoming
  <2>2. Incoming(b).on \in BOOLEAN  BY <1>0, <2>1, IncomingType, MessageFields
  <2>3. <<>> \in Seq(Message)  OBVIOUS
  <2>4. wire' \in [Board -> Seq(Message)] /\ \A c \in Board : Len(wire'[c]) <= WireCap
    BY <1>0, <2>1, <2>3, TakenOK
  <2>5. gaming' \in [Board -> BOOLEAN]
        /\ UNCHANGED <<held, peer, token, queue, mounted, host, ended, inputs, faults>>
    BY <1>0, <1>3, <2>2 DEF ReceiveGaming, MouseTypeOK
  <2>6. MouseTypeOK'  BY <1>0, <2>4, <2>5 DEF MouseTypeOK
  <2> QED BY <2>5, <2>6, CalmStep
<1> QED
  BY <1>1, <1>2, <1>3, ButtonsStep, SyntheticStep, SelectStep DEF Receive

(* process_mouse_queue_task *)
LEMMA DrainStep ==
  ASSUME MouseIInv, NEW b \in Board, Drain(b)
  PROVE  MouseIInv'
<1>0. MouseTypeOK  BY DEF MouseIInv
<1> DEFINE q == queue[b]
           h == [host[b] EXCEPT ![Head(q).rel] = Head(q).down]
<1>1. q \in Seq(Report) /\ Len(q) <= QueueCap /\ host[b] \in [BOOLEAN -> BOOLEAN]
  BY <1>0, BoardTypes DEF QueueOK
<1>2. /\ q # <<>> /\ host' = [host EXCEPT ![b] = h]
      /\ queue' = [queue EXCEPT ![b] = Tail(q)]
      /\ UNCHANGED <<held, peer, token, gaming, mounted, wire, ended, inputs, faults>>
  BY <1>0 DEF Drain, MouseTypeOK
<1>3. Head(q) \in Report  BY <1>1, <1>2
<1>4. Head(q).rel \in BOOLEAN /\ Head(q).down \in BOOLEAN  BY <1>3 DEF Report
<1>5. h \in [BOOLEAN -> BOOLEAN]  BY <1>1, <1>4, HostUpdate
<1>6. QueueOK(Tail(q))  BY <1>1, <1>2, CapAssumption DEF QueueOK
<1>7. /\ queue' \in [Board -> Seq(Report)]
      /\ \A c \in Board : Len(queue'[c]) <= QueueCap
      /\ queue'[b] = Tail(q) /\ \A c \in Board : c # b => queue'[c] = queue[c]
  BY <1>0, <1>2, <1>6, QueueUpdate
<1>8. (\A rel \in BOOLEAN : LastUp(q, host[b], rel))
        => \A rel \in BOOLEAN : LastUp(Tail(q), h, rel)
  BY <1>1, <1>2, LastUpDrain
<1> HIDE DEF h
<1>9. host' \in [Board -> [BOOLEAN -> BOOLEAN]] /\ host'[b] = h
      /\ \A c \in Board : c # b => host'[c] = host[c]
  BY <1>0, <1>2, <1>5 DEF MouseTypeOK
<1>10. MouseTypeOK'  BY <1>0, <1>2, <1>7, <1>9 DEF MouseTypeOK
<1>11. DragOver(b)'
  BY <1>2, <1>7, <1>8, <1>9 DEF MouseIInv, DragOver
<1> QED BY <1>2, <1>7, <1>9, <1>10, <1>11, BoardStep

(* Disconnects and lost frames. *)
LEMMA FaultStep ==
  ASSUME MouseIInv, NEW b \in Board, Unmount(b) \/ Mount(b) \/ Lose(b)
  PROVE  MouseIInv'
<1>0. MouseTypeOK  BY DEF MouseIInv
<1>1. CASE Unmount(b)
  <2> DEFINE h == [r \in BOOLEAN |-> FALSE]
  <2>1. /\ mounted' \in [Board -> BOOLEAN] /\ faults' \in Nat
        /\ host' = [host EXCEPT ![b] = h]
        /\ UNCHANGED <<held, peer, token, gaming, queue, wire, ended, inputs>>
    BY <1>0, <1>1 DEF Unmount, MouseTypeOK
  <2>2. h \in [BOOLEAN -> BOOLEAN] /\ \A r \in BOOLEAN : ~h[r]  OBVIOUS
  <2> HIDE DEF h
  <2>3. host' \in [Board -> [BOOLEAN -> BOOLEAN]] /\ host'[b] = h
        /\ \A c \in Board : c # b => host'[c] = host[c]
    BY <1>0, <2>1, <2>2 DEF MouseTypeOK
  <2>4. MouseTypeOK'  BY <1>0, <2>1, <2>3 DEF MouseTypeOK
  <2>5. DragOver(b)'
    BY <2>1, <2>2, <2>3 DEF MouseIInv, DragOver, LastUp
  <2> QED BY <2>1, <2>3, <2>4, <2>5, BoardStep
<1>2. CASE Mount(b)
  <2>1. mounted' \in [Board -> BOOLEAN]
        /\ UNCHANGED <<held, peer, token, gaming, queue, host, wire, ended, inputs, faults>>
    BY <1>0, <1>2 DEF Mount, MouseTypeOK
  <2>2. MouseTypeOK'  BY <1>0, <2>1 DEF MouseTypeOK
  <2> QED BY <2>1, <2>2, CalmStep
<1>3. CASE Lose(b)
  <2>1. /\ faults' \in Nat /\ wire[Peer(b)] # <<>> /\ Taken(b, <<>>)
        /\ UNCHANGED <<held, peer, token, gaming, queue, mounted, host, ended, inputs>>
    BY <1>0, <1>3 DEF Lose, MouseTypeOK
  <2>2. <<>> \in Seq(Message)  OBVIOUS
  <2>3. wire' \in [Board -> Seq(Message)] /\ \A c \in Board : Len(wire'[c]) <= WireCap
    BY <1>0, <2>1, <2>2, TakenOK
  <2>4. MouseTypeOK'  BY <1>0, <2>1, <2>3 DEF MouseTypeOK
  <2> QED BY <2>1, <2>4, CalmStep
<1> QED BY <1>1, <1>2, <1>3

-----------------------------------------------------------------------------
(* Boards that boot satisfy the invariant ... *)
LEMMA MouseInitial == Init => MouseIInv
<1> SUFFICES ASSUME Init PROVE MouseIInv  OBVIOUS
<1>1. <<>> \in Seq(Report) /\ <<>> \in Seq(Message) /\ Len(<<>>) = 0  OBVIOUS
<1>2. [counter |-> 0, origin |-> 0, output |-> 0] \in Token  BY DEF Token, Board
<1>3. MouseTypeOK
  <2>1. queue \in [Board -> Seq(Report)] /\ wire \in [Board -> Seq(Message)]
    BY <1>1 DEF Init
  <2>2. \A b \in Board : Len(queue[b]) <= QueueCap /\ Len(wire[b]) <= WireCap
    BY <1>1, CapAssumption DEF Init
  <2>3. token \in [Board -> Token]  BY <1>2 DEF Init
  <2>4. host \in [Board -> [BOOLEAN -> BOOLEAN]]  BY DEF Init
  <2> QED BY <2>1, <2>2, <2>3, <2>4 DEF Init, MouseTypeOK
<1> QED BY <1>3 DEF Init, MouseIInv, DragOver

(* ... and every step keeps it. *)
LEMMA MouseStep == MouseIInv /\ [Next]_vars => MouseIInv'
<1> SUFFICES ASSUME MouseIInv, [Next]_vars PROVE MouseIInv'  OBVIOUS
<1>1. CASE UNCHANGED vars
  BY <1>1 DEF vars, MouseIInv, MouseTypeOK, DragOver
<1>2. CASE Next
  <2>1. PICK b \in Board :
          \/ \E m \in Mice, d \in BOOLEAN :
               \/ \E moved \in BOOLEAN : MouseReport(b, m, d, moved)
               \/ CrossBorder(b, m, d) \/ CrossDesktop(b, m, d)
          \/ \E m \in Mice : Unplug(b, m)
          \/ ToggleOutput(b) \/ ToggleGaming(b) \/ Heartbeat(b)
          \/ Receive(b) \/ Drain(b) \/ Unmount(b) \/ Mount(b) \/ Lose(b)
    BY <1>2 DEF Next
  <2>2. CASE \E m \in Mice, d \in BOOLEAN :
               \/ \E moved \in BOOLEAN : MouseReport(b, m, d, moved)
               \/ CrossBorder(b, m, d) \/ CrossDesktop(b, m, d)
    BY <2>2, PhysicalStep
  <2>3. CASE \E m \in Mice : Unplug(b, m)  BY <2>3, UnplugStep
  <2> QED BY <2>1, <2>2, <2>3, LocalStep, ReceiveStep, DrainStep, FaultStep
<1> QED BY <1>1, <1>2

(* The inductive invariant of the mouse protocol. *)
THEOREM MouseInvariance == Spec => []MouseIInv
BY MouseInitial, MouseStep, PTL DEF Spec

(* Types, and the lengths of the mouse queue and of the wire: neither      *)
(* queue_try_add nor the waiting queue_mouse_report_critical overfills.    *)
THEOREM MouseTypeCorrect == Spec => []MouseTypeOK
<1>1. MouseIInv => MouseTypeOK  BY DEF MouseIInv
<1> QED BY <1>1, MouseInvariance, PTL

(* A drag that a board knows of ends with its focus                        *)
(* (release_mouse_host_buttons): for any number of mice, reports, lost     *)
(* frames and disconnects, and any queue lengths.                          *)
THEOREM DragsEnd == Spec => []HeldDragEnds
<1>1. MouseIInv => HeldDragEnds
  BY LastUpShows DEF MouseIInv, DragOver, HeldDragEnds
<1> QED BY <1>1, MouseInvariance, PTL

=============================================================================
