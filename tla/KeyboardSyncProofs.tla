------------------------- MODULE KeyboardSyncProofs --------------------------
(***************************************************************************)
(* No stale key state is ever shown, for every length of the source queue  *)
(* and of the link and however many key events, switches, resets, expired  *)
(* leases, reboots and lost packets there are.  The argument has two       *)
(* halves.  What one board has sent, has queued and holds is in the order  *)
(* of its key events (InOrder), so that an accepted snapshot is never      *)
(* newer than what follows it.  And whatever can still answer the          *)
(* receiver's challenge is no older than its host session (Current): the   *)
(* first challenge of an epoch empties the source's queue when it arrives, *)
(* and every later one is sent only after an answer to the first.          *)
(***************************************************************************)
EXTENDS MCKeyboardSync, SequenceTheorems, TLAPS

Rest(b) == {i \in 1 .. Len(link[b]) : link[b][i].type = "REST"}
Ask(b)  == {i \in 1 .. Len(link[b]) : link[b][i].type \in {"REQUEST", "RESET"}}
Keys(b, i) == link[b][i].snap.keys

(* Key states are numbered by their events; 0, all keys up, fits anywhere. *)
Before(x, y) == x = 0 \/ y = 0 \/ x <= y

(* What board p has sent, has queued and holds is in the order of events.  *)
InOrder(p) ==
  /\ latest[p] <= events
  /\ \A k \in 1 .. Len(fifo[p]) :
       /\ fifo[p][k] <= events /\ Before(fifo[p][k], latest[p])
       /\ \A l \in 1 .. Len(fifo[p]) : k <= l => Before(fifo[p][k], fifo[p][l])
  /\ \A i \in Rest(p) :
       /\ Keys(p, i) <= events /\ Before(Keys(p, i), latest[p])
       /\ \A k \in 1 .. Len(fifo[p]) : Before(Keys(p, i), fifo[p][k])
       /\ \A j \in Rest(p) : i <= j => Before(Keys(p, i), Keys(p, j))

(* What board p has queued, and has sent from place i of its link on, may  *)
(* be shown by its peer b.                                                 *)
Shown(b, k) == k = 0 \/ k >= floor[b]

Queued(b, p) == \A k \in 1 .. Len(fifo[p]) : Shown(b, fifo[p][k])

From(b, p, i) ==
  Queued(b, p) /\ \A j \in Rest(p) : i <= j => Shown(b, Keys(p, j))

(* Whatever can answer the challenge of b may be shown by b, from the      *)
(* first answer on; in an epoch whose first challenge has been answered,   *)
(* everything may.                                                         *)
Current(b, p) ==
  /\ floor[b] <= events
  /\ Shown(b, latest[p])
  /\ ~dirty[b] /\ nonce[b] # 0
       => /\ \A i \in Rest(p) : link[p][i].snap.target = nonce[b] => From(b, p, i)
          /\ target[p] = nonce[b] => Queued(b, p)
  /\ ~dirty[b] /\ ~epoch[b] => From(b, p, 1)
  /\ \A i \in Ask(b) :
       link[b][i].type = "REQUEST" /\ link[b][i].nonce = nonce[b] => ~epoch[b]

(* A challenge travels once, and its answerer has not heard it yet. *)
AskedOnce(b, p) ==
  \A i \in Ask(b) :
    /\ link[b][i].nonce # target[p]
    /\ \A j \in Ask(b) : link[b][i].nonce = link[b][j].nonce => i = j

(* An answer is due only to a challenge. *)
Answers(b) == (ready[b] => known[b]) /\ (known[b] => target[b] # 0)

SyncIInv ==
  /\ SyncTypeOK /\ floor \in [Board -> Nat]
  /\ \A b \in Board :
       InOrder(b) /\ Answers(b) /\ Current(b, Peer(b)) /\ AskedOnce(b, Peer(b))

-----------------------------------------------------------------------------
(* Boards, packets and sequences. *)

(* There are two boards, each the peer of the other. *)
LEMMA PeerFacts ==
  ASSUME NEW b \in Board
  PROVE  /\ Peer(b) \in Board /\ Peer(b) # b /\ Peer(Peer(b)) = b
         /\ \A c \in Board : c = b \/ c = Peer(b)
  BY DEF Board, Peer

(* A packet is a challenge, a first fragment, or the rest of a snapshot. *)
LEMMA PacketFacts ==
  ASSUME NEW m \in Packet
  PROVE  /\ m.type \in {"REQUEST", "RESET", "HEAD", "REST"}
         /\ m.type # "REST" => m.nonce \in Nonces /\ m.nonce # 0 /\ PacketNonce(m) = m.nonce
         /\ m.type = "REST" => /\ m.snap \in Snapshot /\ m.snap.keys \in Nat
                               /\ m.snap.target \in Nonces /\ m.snap.target # 0
                               /\ PacketNonce(m) = m.snap.target
<1>1. 0 \notin Nonces
  BY SyncAssumption
<1>2. CASE m \in [type : {"REQUEST", "RESET", "HEAD"}, nonce : Nonces]
  BY <1>1, <1>2 DEF PacketNonce
<1>3. CASE m \in [type : {"REST"}, snap : Snapshot]
  BY <1>1, <1>3 DEF PacketNonce, Snapshot
<1>4. QED
  BY <1>2, <1>3 DEF Packet

(* The types, one by one. *)
LEMMA TypeFacts ==
  ASSUME SyncTypeOK
  PROVE  /\ token \in [Board -> Nat] /\ boot \in [Board -> Nat]
         /\ latest \in [Board -> Nat] /\ remote \in [Board -> Nat]
         /\ fifo \in [Board -> Seq(Nat)]
         /\ nonce \in [Board -> Nonces \cup {0}] /\ target \in [Board -> Nonces \cup {0}]
         /\ tail \in [Board -> BOOLEAN] /\ epoch \in [Board -> BOOLEAN]
         /\ known \in [Board -> BOOLEAN] /\ ready \in [Board -> BOOLEAN]
         /\ leased \in [Board -> BOOLEAN] /\ dirty \in [Board -> BOOLEAN]
         /\ head \in [Board -> Nonces \cup {0}] /\ peerBoot \in [Board -> Nat]
         /\ link \in [Board -> Seq(Packet)]
         /\ events \in Nat /\ epochs \in Nat /\ faults \in Nat
         /\ \A b \in Board : /\ Len(fifo[b]) <= SourceCap /\ Len(link[b]) <= LinkCap
                             /\ Len(fifo[b]) \in Nat /\ Len(link[b]) \in Nat
                             /\ \A i \in 1 .. Len(link[b]) : link[b][i] \in Packet
                             /\ \A k \in 1 .. Len(fifo[b]) : fifo[b][k] \in Nat
<1>1. /\ tail \in [Board -> BOOLEAN] /\ epoch \in [Board -> BOOLEAN]
      /\ known \in [Board -> BOOLEAN] /\ ready \in [Board -> BOOLEAN]
      /\ leased \in [Board -> BOOLEAN] /\ dirty \in [Board -> BOOLEAN]
  BY DEF SyncTypeOK
<1>2. events \in Nat /\ epochs \in Nat /\ faults \in Nat
  BY SyncAssumption DEF SyncTypeOK
<1>3. link \in [Board -> Seq(Packet)] /\ fifo \in [Board -> Seq(Nat)]
  BY DEF SyncTypeOK
<1>4. \A b \in Board : /\ Len(fifo[b]) <= SourceCap /\ Len(link[b]) <= LinkCap
                       /\ Len(fifo[b]) \in Nat /\ Len(link[b]) \in Nat
                       /\ \A i \in 1 .. Len(link[b]) : link[b][i] \in Packet
                       /\ \A k \in 1 .. Len(fifo[b]) : fifo[b][k] \in Nat
  BY <1>3 DEF SyncTypeOK
<1>5. QED
  BY <1>1, <1>2, <1>3, <1>4 DEF SyncTypeOK

(* A sequence without its first element. *)
LEMMA TailFacts ==
  ASSUME NEW S, NEW q \in Seq(S), q # <<>>
  PROVE  /\ Head(q) = q[1] /\ Head(q) \in S /\ 1 \in 1 .. Len(q)
         /\ Tail(q) \in Seq(S) /\ Len(q) \in Nat /\ Len(Tail(q)) = Len(q) - 1
         /\ \A i \in 1 .. Len(Tail(q)) : i + 1 \in 1 .. Len(q) /\ Tail(q)[i] = q[i + 1]
  OBVIOUS

(* A sequence with one more element. *)
LEMMA AppendFacts ==
  ASSUME NEW S, NEW q \in Seq(S), NEW x \in S
  PROVE  /\ Append(q, x) \in Seq(S) /\ Len(q) \in Nat /\ Len(Append(q, x)) = Len(q) + 1
         /\ \A i \in 1 .. Len(Append(q, x)) :
              \/ i \in 1 .. Len(q) /\ Append(q, x)[i] = q[i]
              \/ i = Len(q) + 1 /\ Append(q, x)[i] = x
  OBVIOUS

(* Two packets more are one, and one more. *)
LEMMA PairFacts ==
  ASSUME NEW S, NEW q \in Seq(S), NEW x \in S, NEW y \in S
  PROVE  /\ q \o <<x, y>> \in Seq(S) /\ Len(q) \in Nat /\ Len(q \o <<x, y>>) = Len(q) + 2
         /\ \A i \in 1 .. Len(q \o <<x, y>>) :
              \/ i \in 1 .. Len(q) /\ (q \o <<x, y>>)[i] = q[i]
              \/ i = Len(q) + 1 /\ (q \o <<x, y>>)[i] = x
              \/ i = Len(q) + 2 /\ (q \o <<x, y>>)[i] = y
<1>1. <<x, y>> \in Seq(S) /\ Len(<<x, y>>) = 2 /\ <<x, y>>[1] = x /\ <<x, y>>[2] = y
  OBVIOUS
<1> DEFINE w == <<x, y>>
<1> HIDE DEF w
<1>2. w \in Seq(S) /\ Len(w) = 2 /\ w[1] = x /\ w[2] = y
  BY <1>1 DEF w
<1>3. /\ q \o w \in Seq(S) /\ Len(q \o w) = Len(q) + Len(w)
      /\ \A i \in 1 .. Len(q) + Len(w) :
           (q \o w)[i] = IF i <= Len(q) THEN q[i] ELSE w[i - Len(q)]
  BY <1>2, ConcatProperties, Zenon
<1>4. Len(q) \in Nat
  OBVIOUS
<1>5. QED
  BY <1>2, <1>3, <1>4 DEF w

-----------------------------------------------------------------------------
(* Steps that add no snapshot, or no challenge, to a link. *)

RestKept(p) ==
  \E d \in {0, 1} : \A i \in Rest(p)' : i + d \in Rest(p) /\ link'[p][i] = link[p][i + d]

AskKept(p) ==
  \E d \in {0, 1} : \A i \in Ask(p)' : i + d \in Ask(p) /\ link'[p][i] = link[p][i + d]

(* Nothing is added: the link stays as it is, or its first packet goes. *)
LEMMA LinkShrinks ==
  ASSUME SyncTypeOK, NEW p \in Board,
         link'[p] = link[p] \/ (link[p] # <<>> /\ link'[p] = Tail(link[p]))
  PROVE  RestKept(p) /\ AskKept(p)
<1>1. link[p] \in Seq(Packet)
  BY TypeFacts
<1>2. PICK d \in {0, 1} : \A i \in 1 .. Len(link'[p]) :
        i + d \in 1 .. Len(link[p]) /\ link'[p][i] = link[p][i + d]
  <2>1. CASE link'[p] = link[p]
    <3>1. \A i \in 1 .. Len(link'[p]) : i + 0 \in 1 .. Len(link[p]) /\ i + 0 = i
      BY <2>1, <1>1
    <3>2. QED
      BY <2>1, <3>1
  <2>2. CASE link[p] # <<>> /\ link'[p] = Tail(link[p])
    BY <2>2, <1>1, TailFacts
  <2>3. QED
    BY <2>1, <2>2
<1>3. QED
  BY <1>2 DEF RestKept, AskKept, Rest, Ask

(* One packet is added. *)
LEMMA LinkGrows ==
  ASSUME SyncTypeOK, NEW p \in Board, NEW m \in Packet, link'[p] = Append(link[p], m)
  PROVE  /\ m.type # "REST" => RestKept(p)
         /\ m.type \notin {"REQUEST", "RESET"} => AskKept(p)
<1>1. link[p] \in Seq(Packet)
  BY TypeFacts
<1>2. \A i \in 1 .. Len(link'[p]) : \/ i + 0 \in 1 .. Len(link[p]) /\ link'[p][i] = link[p][i + 0]
                                    \/ link'[p][i] = m
  BY <1>1, AppendFacts
<1>3. QED
  BY <1>2 DEF RestKept, AskKept, Rest, Ask

(* The source has queued and sent nothing new. *)
LEMMA OrderKept ==
  ASSUME SyncTypeOK, NEW p \in Board, InOrder(p), RestKept(p),
         latest'[p] \in {latest[p], 0}, fifo'[p] \in {fifo[p], <<>>},
         events' \in Nat, events <= events'
  PROVE  InOrder(p)'
<1>1. PICK d \in {0, 1} : \A i \in Rest(p)' : i + d \in Rest(p) /\ link'[p][i] = link[p][i + d]
  BY DEF RestKept
<1>2. /\ latest[p] \in Nat /\ events \in Nat /\ Len(fifo[p]) \in Nat
      /\ \A k \in 1 .. Len(fifo[p]) : fifo[p][k] \in Nat
      /\ \A i \in Rest(p) : Keys(p, i) \in Nat
  BY TypeFacts, PacketFacts DEF Rest, Keys
<1>3. latest'[p] <= events'
  BY <1>2 DEF InOrder
<1>4. \A k \in 1 .. Len(fifo'[p]) :
        /\ k \in 1 .. Len(fifo[p]) /\ fifo'[p] = fifo[p]
        /\ fifo'[p][k] <= events' /\ Before(fifo'[p][k], latest'[p])
        /\ \A l \in 1 .. Len(fifo'[p]) : k <= l => Before(fifo'[p][k], fifo'[p][l])
  <2>1. CASE fifo'[p] = <<>>
    BY <2>1
  <2>2. CASE fifo'[p] = fifo[p]
    BY <2>2, <1>2 DEF InOrder, Before
  <2>3. QED
    BY <2>1, <2>2
<1>5. \A i \in Rest(p)' : i + d \in Rest(p) /\ Keys(p, i)' = Keys(p, i + d) /\ i \in Int
  BY <1>1 DEF Keys, Rest
<1>6. ASSUME NEW i \in Rest(p)'
      PROVE  /\ Keys(p, i)' <= events' /\ Before(Keys(p, i)', latest'[p])
             /\ \A k \in 1 .. Len(fifo'[p]) : Before(Keys(p, i)', fifo'[p][k])
             /\ \A j \in Rest(p)' : i <= j => Before(Keys(p, i)', Keys(p, j)')
  <2>1. Keys(p, i)' <= events' /\ Before(Keys(p, i)', latest'[p])
    BY <1>2, <1>5 DEF InOrder, Before
  <2>2. \A k \in 1 .. Len(fifo'[p]) : Before(Keys(p, i)', fifo'[p][k])
    BY <1>4, <1>5 DEF InOrder
  <2>3. \A j \in Rest(p)' : i <= j => i + d <= j + d
    BY <1>5
  <2>4. \A j \in Rest(p)' : i <= j => Before(Keys(p, i)', Keys(p, j)')
    BY <1>5, <2>3 DEF InOrder
  <2>5. QED
    BY <2>1, <2>2, <2>4
<1>7. QED
  BY <1>3, <1>4, <1>6 DEF InOrder, Before

(* What may be shown stays so when nothing new is queued or sent. *)
LEMMA FromKept ==
  ASSUME SyncTypeOK, NEW b \in Board, NEW p \in Board, floor'[b] = floor[b],
         fifo'[p] \in {fifo[p], <<>>}
  PROVE  /\ Queued(b, p) => Queued(b, p)'
         /\ \A d \in {0, 1} :
              (\A i \in Rest(p)' : i + d \in Rest(p) /\ link'[p][i] = link[p][i + d])
              => \A i \in Nat : From(b, p, i + d) => From(b, p, i)'
<1>1. Queued(b, p) => Queued(b, p)'
  BY DEF Queued, Shown
<1>2. ASSUME NEW d \in {0, 1},
             \A i \in Rest(p)' : i + d \in Rest(p) /\ link'[p][i] = link[p][i + d],
             NEW i \in Nat, From(b, p, i + d)
      PROVE  From(b, p, i)'
  <2>1. ASSUME NEW j \in Rest(p)', i <= j PROVE Shown(b, Keys(p, j))'
    <3>1. j + d \in Rest(p) /\ Keys(p, j)' = Keys(p, j + d) /\ j \in Int
      BY <1>2 DEF Keys, Rest
    <3>2. i + d <= j + d
      BY <2>1, <3>1
    <3>3. Shown(b, Keys(p, j + d))
      BY <1>2, <3>1, <3>2 DEF From
    <3>4. QED
      BY <3>1, <3>3 DEF Shown
  <2>2. QED
    BY <1>1, <1>2, <2>1 DEF From
<1>3. QED
  BY <1>1, <1>2

(* Neither a new session of b nor anything new from p. *)
LEMMA CurrentKept ==
  ASSUME SyncTypeOK, NEW b \in Board, NEW p \in Board, Current(b, p), RestKept(p), AskKept(b),
         floor \in [Board -> Nat], floor'[b] = floor[b], dirty'[b] = dirty[b],
         nonce'[b] \in {nonce[b], 0}, epoch'[b] = epoch[b],
         latest'[p] \in {latest[p], 0}, fifo'[p] \in {fifo[p], <<>>},
         target'[p] \in {target[p], 0}, events' \in Nat, events <= events'
  PROVE  Current(b, p)'
<1>1. PICK d \in {0, 1} : \A i \in Rest(p)' : i + d \in Rest(p) /\ link'[p][i] = link[p][i + d]
  BY DEF RestKept
<1>2. PICK e \in {0, 1} : \A i \in Ask(b)' : i + e \in Ask(b) /\ link'[b][i] = link[b][i + e]
  BY DEF AskKept
<1>3. floor'[b] <= events' /\ Shown(b, latest[p])'
  <2>1. events \in Nat /\ floor[b] \in Nat /\ floor[b] <= events /\ Shown(b, latest[p])
    BY TypeFacts DEF Current
  <2>2. QED
    BY <2>1 DEF Shown
<1>4. \A i \in Ask(b) : link[b][i].nonce # 0
  BY TypeFacts, PacketFacts DEF Ask
<1>5. ASSUME ~dirty'[b], nonce'[b] # 0
      PROVE  /\ \A i \in Rest(p)' : link'[p][i].snap.target = nonce'[b] => From(b, p, i)'
             /\ target'[p] = nonce'[b] => Queued(b, p)'
  <2>1. ASSUME NEW i \in Rest(p)', link'[p][i].snap.target = nonce'[b] PROVE From(b, p, i)'
    <3>1. i \in Nat /\ i + d \in Rest(p) /\ link[p][i + d].snap.target = nonce[b]
      BY <1>1, <1>5, <2>1 DEF Rest
    <3>2. From(b, p, i + d)
      BY <3>1, <1>5 DEF Current
    <3>3. QED
      BY <1>1, <3>1, <3>2, FromKept
  <2>2. target'[p] = nonce'[b] => Queued(b, p)'
    BY <1>5, FromKept DEF Current
  <2>3. QED
    BY <2>1, <2>2
<1>6. ASSUME ~dirty'[b], ~epoch'[b] PROVE From(b, p, 1)'
  <2>1. From(b, p, 1)
    BY <1>6 DEF Current
  <2>2. From(b, p, 1 + d)
    <3>1. \A j \in Rest(p) : j \in Int /\ (1 + d <= j => 1 <= j)
      BY DEF Rest
    <3>2. QED
      BY <2>1, <3>1 DEF From
  <2>3. QED
    BY <1>1, <2>2, FromKept
<1>7. \A i \in Ask(b)' :
        link'[b][i].type = "REQUEST" /\ link'[b][i].nonce = nonce'[b] => ~epoch'[b]
  BY <1>2, <1>4 DEF Current
<1>8. QED
  BY <1>3, <1>5, <1>6, <1>7 DEF Current

(* A new session of b, whose host may show what p holds by now: there is   *)
(* no challenge and the next one is the first of its epoch, or core 1 has  *)
(* not yet noticed the session and accepts nothing.                        *)
LEMMA CurrentRestart ==
  ASSUME SyncTypeOK, NEW b \in Board, NEW p \in Board, Current(b, p), InOrder(p), AskKept(b),
         floor'[b] \in {floor[b], latest[p]}, latest'[p] = latest[p], events' = events,
         dirty'[b] \/ (nonce'[b] = 0 /\ epoch'[b]),
         nonce'[b] = 0 \/ (nonce'[b] = nonce[b] /\ epoch'[b] = epoch[b])
  PROVE  Current(b, p)'
<1>1. PICK e \in {0, 1} : \A i \in Ask(b)' : i + e \in Ask(b) /\ link'[b][i] = link[b][i + e]
  BY DEF AskKept
<1>2. \A i \in Ask(b) : link[b][i].nonce # 0
  BY TypeFacts, PacketFacts DEF Ask
<1>3. floor'[b] <= events'
  BY DEF Current, InOrder
<1>4. Shown(b, latest[p])'
  <2>1. latest[p] \in Nat /\ Shown(b, latest[p])
    BY TypeFacts DEF Current
  <2>2. QED
    BY <2>1 DEF Shown
<1>5. \A i \in Ask(b)' :
        link'[b][i].type = "REQUEST" /\ link'[b][i].nonce = nonce'[b] => ~epoch'[b]
  BY <1>1, <1>2 DEF Current
<1>6. QED
  BY <1>3, <1>4, <1>5 DEF Current

(* No new challenge, and no new target. *)
LEMMA AskedKept ==
  ASSUME SyncTypeOK, NEW b \in Board, NEW p \in Board, AskedOnce(b, p), AskKept(b),
         target'[p] \in {target[p], 0}
  PROVE  AskedOnce(b, p)'
<1>1. PICK e \in {0, 1} : \A i \in Ask(b)' : i + e \in Ask(b) /\ link'[b][i] = link[b][i + e]
  BY DEF AskKept
<1>2. \A i \in Ask(b) : link[b][i].nonce # 0
  BY TypeFacts, PacketFacts DEF Ask
<1>3. \A i \in Ask(b)' : i \in Int
  BY DEF Ask
<1>4. ASSUME NEW i \in Ask(b)', NEW j \in Ask(b)', link'[b][i].nonce = link'[b][j].nonce
      PROVE  i = j
  <2>1. i + e = j + e
    BY <1>1, <1>4 DEF AskedOnce
  <2>2. QED
    BY <2>1, <1>3
<1>5. \A i \in Ask(b)' : link'[b][i].nonce # target'[p]
  BY <1>1, <1>2 DEF AskedOnce
<1>6. QED
  BY <1>4, <1>5 DEF AskedOnce

-----------------------------------------------------------------------------
(* floor follows the sessions of a board and what it accepts. *)

FloorStep ==
  floor' = [b \in Board |-> IF Begins(b) THEN latest[Peer(b)]
                            ELSE IF remote'[b] # remote[b] /\ remote'[b] # 0
                            THEN remote'[b] ELSE floor[b]]

(* No session begins on b and b shows nothing new of its peer. *)
LEMMA FloorStays ==
  ASSUME SyncTypeOK, floor \in [Board -> Nat], FloorStep, NEW b \in Board,
         token'[b] = token[b], boot'[b] = boot[b],
         dirty'[b] => dirty[b], leased[b] => leased'[b], remote'[b] \in {remote[b], 0}
  PROVE  floor'[b] = floor[b]
<1>1. (token'[b] - token[b]) % 2 = 0
  <2>1. token[b] \in Nat
    BY TypeFacts
  <2>2. token'[b] - token[b] = 0
    BY <2>1
  <2>3. QED
    BY <2>2
<1>2. ~Begins(b)
  BY <1>1 DEF Begins
<1>3. QED
  BY <1>2 DEF FloorStep

(* What floor may become when b shows nothing new of its peer. *)
LEMMA FloorMoves ==
  ASSUME floor \in [Board -> Nat], FloorStep, NEW b \in Board, remote'[b] \in {remote[b], 0}
  PROVE  floor'[b] \in {floor[b], latest[Peer(b)]}
  BY DEF FloorStep

(* floor is always the number of a key event, or 0. *)
LEMMA FloorType ==
  ASSUME SyncTypeOK, floor \in [Board -> Nat], FloorStep, remote' \in [Board -> Nat]
  PROVE  floor' \in [Board -> Nat]
<1>1. \A b \in Board : latest[Peer(b)] \in Nat /\ remote'[b] \in Nat /\ floor[b] \in Nat
  BY TypeFacts, PeerFacts
<1>2. QED
  BY <1>1 DEF FloorStep

-----------------------------------------------------------------------------
(* A step of board a leaves everything of its peer alone, but for what it  *)
(* takes off the link.                                                     *)
Still(p) ==
  /\ token'[p] = token[p] /\ boot'[p] = boot[p] /\ dirty'[p] = dirty[p]
  /\ latest'[p] = latest[p] /\ fifo'[p] = fifo[p]
  /\ nonce'[p] = nonce[p] /\ epoch'[p] = epoch[p]
  /\ target'[p] = target[p] /\ known'[p] = known[p] /\ ready'[p] = ready[p]
  /\ leased'[p] = leased[p] /\ remote'[p] = remote[p]

(* The parts of the invariant. *)
LEMMA Parts ==
  ASSUME SyncIInv, NEW b \in Board
  PROVE  /\ SyncTypeOK /\ floor \in [Board -> Nat] /\ Peer(b) \in Board
         /\ InOrder(b) /\ InOrder(Peer(b)) /\ Answers(b) /\ Answers(Peer(b))
         /\ Current(b, Peer(b)) /\ Current(Peer(b), b)
         /\ AskedOnce(b, Peer(b)) /\ AskedOnce(Peer(b), b)
<1>1. Peer(b) \in Board /\ Peer(Peer(b)) = b
  BY PeerFacts
<1>2. /\ InOrder(Peer(b)) /\ Answers(Peer(b))
      /\ Current(Peer(b), Peer(Peer(b))) /\ AskedOnce(Peer(b), Peer(Peer(b)))
  BY <1>1 DEF SyncIInv
<1>3. QED
  BY <1>1, <1>2 DEF SyncIInv

(* The invariant from its parts. *)
LEMMA Whole ==
  ASSUME NEW b \in Board, SyncTypeOK', floor' \in [Board -> Nat],
         InOrder(b)', InOrder(Peer(b))', Answers(b)', Answers(Peer(b))',
         Current(b, Peer(b))', Current(Peer(b), b)',
         AskedOnce(b, Peer(b))', AskedOnce(Peer(b), b)'
  PROVE  SyncIInv'
<1>1. Peer(Peer(b)) = b /\ \A c \in Board : c = b \/ c = Peer(b)
  BY PeerFacts
<1>2. \A c \in Board : (InOrder(c) /\ Answers(c) /\ Current(c, Peer(c)) /\ AskedOnce(c, Peer(c)))'
  BY <1>1
<1>3. QED
  BY <1>2 DEF SyncIInv

(* What holds of the peer of a board that takes a step. *)
LEMMA PeerPart ==
  ASSUME SyncIInv, FloorStep, NEW a \in Board, Still(Peer(a)),
         RestKept(Peer(a)), AskKept(Peer(a)), events' \in Nat, events <= events'
  PROVE  /\ InOrder(Peer(a))' /\ Answers(Peer(a))' /\ floor'[Peer(a)] = floor[Peer(a)]
         /\ target'[a] \in {target[a], 0} => AskedOnce(Peer(a), a)'
         /\ /\ target'[a] \in {target[a], 0} /\ latest'[a] \in {latest[a], 0}
            /\ fifo'[a] \in {fifo[a], <<>>} /\ RestKept(a)
            => Current(Peer(a), a)'
<1> DEFINE p == Peer(a)
<1>1. /\ p \in Board /\ SyncTypeOK /\ floor \in [Board -> Nat]
      /\ InOrder(p) /\ Answers(p) /\ Current(p, a) /\ AskedOnce(p, a)
  BY Parts
<1> HIDE DEF p
<1>2. Still(p) /\ RestKept(p) /\ AskKept(p)
  BY DEF p
<1>3. floor'[p] = floor[p]
  BY <1>1, <1>2, FloorStays DEF Still
<1>4. InOrder(p)'
  BY <1>1, <1>2, OrderKept DEF Still
<1>5. Answers(p)'
  BY <1>1, <1>2 DEF Answers, Still
<1>6. target'[a] \in {target[a], 0} => AskedOnce(p, a)'
  BY <1>1, <1>2, AskedKept
<1>7. /\ target'[a] \in {target[a], 0} /\ latest'[a] \in {latest[a], 0}
      /\ fifo'[a] \in {fifo[a], <<>>} /\ RestKept(a)
      => Current(p, a)'
  <2>1. dirty'[p] = dirty[p] /\ nonce'[p] \in {nonce[p], 0} /\ epoch'[p] = epoch[p]
    BY <1>2 DEF Still
  <2>2. QED
    BY <1>1, <1>2, <1>3, <2>1, CurrentKept
<1>8. QED
  BY <1>3, <1>4, <1>5, <1>6, <1>7 DEF p

(* A step that neither begins a session, nor queues, sends or shows a key  *)
(* state, nor sends a challenge.                                           *)
LEMMA PlainStep ==
  ASSUME SyncIInv, FloorStep, SyncTypeOK', NEW a \in Board, Still(Peer(a)),
         \A b \in Board : RestKept(b) /\ AskKept(b),
         token'[a] = token[a], boot'[a] = boot[a], dirty'[a] = dirty[a],
         latest'[a] = latest[a], fifo'[a] = fifo[a], epoch'[a] = epoch[a],
         nonce'[a] \in {nonce[a], 0}, target'[a] = target[a], known'[a] = known[a],
         ready'[a] = ready[a], leased'[a] = leased[a], remote' = remote, events' = events
  PROVE  SyncIInv'
<1>1. /\ Peer(a) \in Board /\ SyncTypeOK /\ floor \in [Board -> Nat]
      /\ InOrder(a) /\ Answers(a) /\ Current(a, Peer(a)) /\ AskedOnce(a, Peer(a))
  BY Parts
<1>2. events' \in Nat /\ events <= events' /\ remote' \in [Board -> Nat]
  <2>1. events \in Nat /\ remote \in [Board -> Nat]
    BY <1>1, TypeFacts
  <2>2. QED
    BY <2>1
<1>3. floor' \in [Board -> Nat] /\ floor'[a] = floor[a]
  BY <1>1, <1>2, FloorStays, FloorType
<1>4. InOrder(a)'
  BY <1>1, <1>2, OrderKept
<1>5. Answers(a)'
  BY <1>1 DEF Answers
<1>6. /\ latest'[Peer(a)] = latest[Peer(a)] /\ fifo'[Peer(a)] = fifo[Peer(a)]
      /\ target'[Peer(a)] = target[Peer(a)]
  BY DEF Still
<1>7. Current(a, Peer(a))'
  BY <1>1, <1>2, <1>3, <1>6, CurrentKept
<1>8. AskedOnce(a, Peer(a))'
  BY <1>1, <1>6, AskedKept
<1>9. /\ InOrder(Peer(a))' /\ Answers(Peer(a))'
      /\ AskedOnce(Peer(a), a)' /\ Current(Peer(a), a)'
  BY <1>1, <1>2, PeerPart
<1>10. QED
  BY <1>3, <1>4, <1>5, <1>7, <1>8, <1>9, Whole

(* A step that begins a session of its board: it asks for nothing and      *)
(* shows nothing until the peer has forgotten what it had queued.          *)
LEMMA SessionStep ==
  ASSUME SyncIInv, FloorStep, SyncTypeOK', NEW a \in Board, Still(Peer(a)),
         link' = link, events' = events,
         dirty'[a] \/ (nonce'[a] = 0 /\ epoch'[a]),
         nonce'[a] = 0 \/ (nonce'[a] = nonce[a] /\ epoch'[a] = epoch[a]),
         latest'[a] \in {latest[a], 0}, fifo'[a] \in {fifo[a], <<>>},
         target'[a] \in {target[a], 0}, remote'[a] \in {remote[a], 0}, Answers(a)'
  PROVE  SyncIInv'
<1>1. /\ Peer(a) \in Board /\ SyncTypeOK /\ floor \in [Board -> Nat]
      /\ InOrder(a) /\ InOrder(Peer(a)) /\ Current(a, Peer(a)) /\ AskedOnce(a, Peer(a))
  BY Parts
<1>2. events' \in Nat /\ events <= events' /\ remote' \in [Board -> Nat]
  <2>1. events \in Nat
    BY <1>1, TypeFacts
  <2>2. QED
    BY <2>1 DEF SyncTypeOK
<1>3. \A b \in Board : RestKept(b) /\ AskKept(b)
  BY <1>1, LinkShrinks
<1>4. floor' \in [Board -> Nat] /\ floor'[a] \in {floor[a], latest[Peer(a)]}
  BY <1>1, <1>2, FloorMoves, FloorType
<1>5. InOrder(a)'
  BY <1>1, <1>2, <1>3, OrderKept
<1>6. latest'[Peer(a)] = latest[Peer(a)] /\ target'[Peer(a)] = target[Peer(a)]
  BY DEF Still
<1>7. Current(a, Peer(a))'
  BY <1>1, <1>3, <1>4, <1>6, CurrentRestart
<1>8. AskedOnce(a, Peer(a))'
  BY <1>1, <1>3, <1>6, AskedKept
<1>9. /\ InOrder(Peer(a))' /\ Answers(Peer(a))'
      /\ AskedOnce(Peer(a), a)' /\ Current(Peer(a), a)'
  BY <1>1, <1>2, <1>3, PeerPart
<1>10. QED
  BY <1>4, <1>5, <1>7, <1>8, <1>9, Whole

-----------------------------------------------------------------------------
(* One lemma per action.  First what the links hold. *)

(* A packet is taken off. *)
LEMMA TakenType ==
  ASSUME SyncTypeOK, NEW p \in Board, link[p] # <<>>, link' = [link EXCEPT ![p] = Tail(@)]
  PROVE  /\ link' \in [Board -> Seq(Packet)] /\ \A b \in Board : Len(link'[b]) <= LinkCap
         /\ \A b \in Board : RestKept(b) /\ AskKept(b)
<1>1. /\ link \in [Board -> Seq(Packet)] /\ link[p] \in Seq(Packet)
      /\ \A b \in Board : Len(link[b]) <= LinkCap /\ Len(link[b]) \in Nat
  BY TypeFacts
<1>2. Tail(link[p]) \in Seq(Packet) /\ Len(Tail(link[p])) <= LinkCap
  <2>1. Tail(link[p]) \in Seq(Packet) /\ Len(Tail(link[p])) = Len(link[p]) - 1
    BY <1>1, TailFacts
  <2>2. QED
    BY <1>1, <2>1, SyncAssumption
<1>3. \A b \in Board : link'[b] = IF b = p THEN Tail(link[p]) ELSE link[b]
  BY <1>1
<1>4. \A b \in Board : RestKept(b) /\ AskKept(b)
  BY <1>3, LinkShrinks
<1>5. QED
  BY <1>1, <1>2, <1>3, <1>4

(* A packet is added. *)
LEMMA AddedType ==
  ASSUME SyncTypeOK, NEW p \in Board, NEW m \in Packet, Len(link[p]) < LinkCap,
         link' = [link EXCEPT ![p] = Append(@, m)]
  PROVE  /\ link' \in [Board -> Seq(Packet)] /\ \A b \in Board : Len(link'[b]) <= LinkCap
         /\ \A b \in Board : m.type # "REST" => RestKept(b)
         /\ \A b \in Board : m.type \notin {"REQUEST", "RESET"} => AskKept(b)
         /\ \A b \in Board : b # p => RestKept(b) /\ AskKept(b)
         /\ link'[p] = Append(link[p], m)
<1>1. /\ link \in [Board -> Seq(Packet)] /\ link[p] \in Seq(Packet)
      /\ \A b \in Board : Len(link[b]) <= LinkCap /\ Len(link[b]) \in Nat
  BY TypeFacts
<1>2. Append(link[p], m) \in Seq(Packet) /\ Len(Append(link[p], m)) <= LinkCap
  <2>1. Append(link[p], m) \in Seq(Packet) /\ Len(Append(link[p], m)) = Len(link[p]) + 1
    BY <1>1, AppendFacts
  <2>2. QED
    BY <1>1, <2>1, SyncAssumption
<1>3. \A b \in Board : link'[b] = IF b = p THEN Append(link[p], m) ELSE link[b]
  BY <1>1
<1>4. \A b \in Board : b # p => RestKept(b) /\ AskKept(b)
  BY <1>3, LinkShrinks
<1>5. /\ m.type # "REST" => RestKept(p)
      /\ m.type \notin {"REQUEST", "RESET"} => AskKept(p)
  BY <1>3, LinkGrows
<1>6. QED
  BY <1>1, <1>2, <1>3, <1>4, <1>5

(* The packet that a board receives. *)
LEMMA ArrivalFacts ==
  ASSUME SyncTypeOK, NEW a \in Board, NEW T, Arrives(a, T)
  PROVE  /\ link[Peer(a)] # <<>> /\ Peer(a) \in Board
         /\ Incoming(a) = link[Peer(a)][1] /\ Incoming(a) \in Packet /\ Incoming(a).type \in T
         /\ 1 \in 1 .. Len(link[Peer(a)]) /\ link' = [link EXCEPT ![Peer(a)] = Tail(@)]
         /\ link'[a] = link[a] /\ link'[Peer(a)] = Tail(link[Peer(a)])
         /\ link' \in [Board -> Seq(Packet)] /\ \A b \in Board : Len(link'[b]) <= LinkCap
         /\ \A b \in Board : RestKept(b) /\ AskKept(b)
<1>1. /\ Peer(a) \in Board /\ Peer(a) # a /\ link[Peer(a)] # <<>> /\ Incoming(a).type \in T
      /\ link' = [link EXCEPT ![Peer(a)] = Tail(@)]
  BY PeerFacts DEF Arrives
<1>2. link \in [Board -> Seq(Packet)]
  BY TypeFacts
<1>3. /\ Incoming(a) = link[Peer(a)][1] /\ Incoming(a) \in Packet
      /\ 1 \in 1 .. Len(link[Peer(a)])
  BY <1>1, <1>2, TailFacts DEF Incoming
<1>4. link'[a] = link[a] /\ link'[Peer(a)] = Tail(link[Peer(a)])
  BY <1>1, <1>2
<1>5. QED
  BY <1>1, <1>3, <1>4, TakenType

(* keyboard_sync_task, the challenge's deadline. *)
LEMMA NonceExpiresStep ==
  ASSUME SyncIInv, FloorStep, NEW a \in Board, NonceExpires(a)
  PROVE  SyncIInv'
<1>1. SyncTypeOK /\ Peer(a) # a /\ Peer(a) \in Board
  BY PeerFacts DEF SyncIInv
<1>2. faults' \in 0 .. MaxFaults
  BY <1>1, SyncAssumption DEF NonceExpires, SyncTypeOK
<1>3. SyncTypeOK'
  BY <1>1, <1>2 DEF NonceExpires, SyncTypeOK, source, answering
<1>4. Still(Peer(a)) /\ nonce'[a] = 0
  BY <1>1 DEF NonceExpires, SyncTypeOK, source, answering, Still
<1>5. \A b \in Board : RestKept(b) /\ AskKept(b)
  BY <1>1, LinkShrinks DEF NonceExpires
<1>6. UNCHANGED <<token, boot, source, answering, epoch, leased, remote, dirty, events>>
  BY DEF NonceExpires
<1>7. QED
  BY <1>3, <1>4, <1>5, <1>6, PlainStep DEF source, answering

(* keyboard_sync_receive, the first fragment. *)
LEMMA ReceiveHeadStep ==
  ASSUME SyncIInv, FloorStep, NEW a \in Board, ReceiveHead(a)
  PROVE  SyncIInv'
<1>1. SyncTypeOK /\ Arrives(a, {"HEAD"}) /\ head' = [head EXCEPT ![a] = Incoming(a).nonce]
  BY DEF SyncIInv, ReceiveHead
<1>2. UNCHANGED <<token, boot, source, answering, nonce, epoch, peerBoot, leased,
                  remote, dirty, bounds>>
  BY DEF ReceiveHead
<1>3. Incoming(a).nonce \in Nonces
  BY <1>1, ArrivalFacts, PacketFacts
<1>4. SyncTypeOK'
  BY <1>1, <1>2, <1>3, ArrivalFacts DEF SyncTypeOK, source, answering, bounds
<1>5. Still(Peer(a))
  BY <1>2 DEF source, answering, Still
<1>6. QED
  BY <1>1, <1>2, <1>4, <1>5, ArrivalFacts, PlainStep DEF source, answering, bounds

(* keyboard_sync_receive, a snapshot that is refused. *)
LEMMA RefuseRestStep ==
  ASSUME SyncIInv, FloorStep, NEW a \in Board, RefuseRest(a)
  PROVE  SyncIInv'
<1>1. SyncTypeOK /\ Arrives(a, {"REST"}) /\ head' = [head EXCEPT ![a] = 0]
  BY DEF SyncIInv, RefuseRest
<1>2. UNCHANGED <<token, boot, source, answering, nonce, epoch, peerBoot, leased,
                  remote, dirty, bounds>>
  BY DEF RefuseRest
<1>3. SyncTypeOK'
  BY <1>1, <1>2, ArrivalFacts DEF SyncTypeOK, source, answering, bounds
<1>4. Still(Peer(a))
  BY <1>2 DEF source, answering, Still
<1>5. QED
  BY <1>1, <1>2, <1>3, <1>4, ArrivalFacts, PlainStep DEF source, answering, bounds

(* A packet is lost. *)
LEMMA LoseStep ==
  ASSUME SyncIInv, FloorStep, NEW a \in Board, Lose(a)
  PROVE  SyncIInv'
<1>1. SyncTypeOK /\ link[a] # <<>> /\ link' = [link EXCEPT ![a] = Tail(@)]
  BY DEF SyncIInv, Lose
<1>2. UNCHANGED <<token, boot, source, answering, receiving, dirty, events, epochs>>
  BY DEF Lose
<1>3. faults' \in 0 .. MaxFaults
  BY <1>1, SyncAssumption DEF Lose, SyncTypeOK
<1>4. SyncTypeOK'
  BY <1>1, <1>2, <1>3, TakenType DEF SyncTypeOK, source, answering, receiving
<1>5. Still(Peer(a))
  BY <1>2 DEF source, answering, receiving, Still
<1>6. QED
  BY <1>1, <1>2, <1>4, <1>5, TakenType, PlainStep DEF source, answering, receiving

(* keyboard_sync_task, a snapshot cut short. *)
LEMMA SendInterruptedStep ==
  ASSUME SyncIInv, FloorStep, NEW a \in Board, SendInterrupted(a)
  PROVE  SyncIInv'
<1> DEFINE m == [type |-> "HEAD", nonce |-> target[a]]
<1>1. SyncTypeOK /\ link' = [link EXCEPT ![a] = Append(@, m)]
  BY DEF SyncIInv, SendInterrupted
<1>2. UNCHANGED <<token, boot, source, answering, receiving, dirty, bounds>>
  BY DEF SendInterrupted
<1>3. target[a] \in Nonces
  <2>1. target[a] # 0
    BY DEF SendInterrupted, SyncIInv, Answers
  <2>2. QED
    BY <1>1, <2>1 DEF SyncTypeOK
<1>4. m \in Packet /\ m.type = "HEAD"
  BY <1>3 DEF Packet
<1>5. Len(link[a]) < LinkCap
  <2>1. Len(link[a]) + 2 = LinkCap /\ Len(link[a]) \in Nat
    BY <1>1, TypeFacts DEF SendInterrupted
  <2>2. QED
    BY <2>1
<1> HIDE DEF m
<1>6. /\ link' \in [Board -> Seq(Packet)] /\ \A b \in Board : Len(link'[b]) <= LinkCap
      /\ \A b \in Board : RestKept(b) /\ AskKept(b)
  BY <1>1, <1>4, <1>5, AddedType
<1>7. SyncTypeOK'
  BY <1>1, <1>2, <1>6 DEF SyncTypeOK, source, answering, receiving, bounds
<1>8. Still(Peer(a))
  BY <1>2 DEF source, answering, receiving, Still
<1>9. QED
  BY <1>2, <1>6, <1>7, <1>8, PlainStep DEF source, answering, receiving, bounds

(* The flags' types, one by one. *)
Flags ==
  /\ tail \in [Board -> BOOLEAN] /\ epoch \in [Board -> BOOLEAN]
  /\ known \in [Board -> BOOLEAN] /\ ready \in [Board -> BOOLEAN]
  /\ leased \in [Board -> BOOLEAN] /\ dirty \in [Board -> BOOLEAN]

Others ==
  /\ token \in [Board -> Nat] /\ boot \in [Board -> Nat]
  /\ latest \in [Board -> Nat] /\ remote \in [Board -> Nat]
  /\ fifo \in [Board -> Seq(Nat)]
  /\ nonce \in [Board -> Nonces \cup {0}] /\ target \in [Board -> Nonces \cup {0}]
  /\ head \in [Board -> Nonces \cup {0}]
  /\ peerBoot \in [Board -> Nat]
  /\ link \in [Board -> Seq(Packet)]
  /\ events \in 0 .. MaxEvents /\ epochs \in 0 .. MaxEpochs
  /\ faults \in 0 .. MaxFaults
  /\ \A b \in Board : Len(fifo[b]) <= SourceCap /\ Len(link[b]) <= LinkCap

(* The type invariant in two parts. *)
LEMMA TypeSplit == SyncTypeOK <=> Flags /\ Others
  BY DEF SyncTypeOK, Flags, Others

(* The same after a step. *)
LEMMA TypeJoined == Flags' /\ Others' => SyncTypeOK'
  BY DEF SyncTypeOK, Flags, Others

(* An epoch is counted. *)
LEMMA EpochCounted ==
  ASSUME SyncTypeOK, NewEpoch PROVE epochs' \in 0 .. MaxEpochs
  BY SyncAssumption DEF SyncTypeOK, NewEpoch

(* keyboard_sync_task, the lease's deadline. *)
LEMMA LeaseExpiresStep ==
  ASSUME SyncIInv, FloorStep, NEW a \in Board, LeaseExpires(a)
  PROVE  SyncIInv'
<1>1. SyncTypeOK /\ Peer(a) # a /\ Peer(a) \in Board /\ Answers(a)
  BY PeerFacts, Parts
<1>2. SyncTypeOK'
  <2>1. Flags /\ Others /\ epochs' \in 0 .. MaxEpochs
    BY <1>1, TypeSplit, EpochCounted DEF LeaseExpires
  <2>2. Flags'
    BY <2>1 DEF Flags, LeaseExpires, RotateNonce, source, answering
  <2>3. Others'
    BY <2>1, SyncAssumption DEF Others, LeaseExpires, RotateNonce, source, answering
  <2>4. QED
    BY <2>2, <2>3, TypeJoined
<1>3. Still(Peer(a)) /\ nonce'[a] = 0 /\ epoch'[a] /\ remote'[a] = 0
  BY <1>1 DEF LeaseExpires, RotateNonce, SyncTypeOK, source, answering, Still
<1>4. UNCHANGED <<source, answering, link, events>>
  BY DEF LeaseExpires
<1>5. Answers(a)'
  BY <1>1, <1>4 DEF Answers, answering
<1>6. QED
  BY <1>2, <1>3, <1>4, <1>5, SessionStep DEF source, answering

(* keyboard_host_reset *)
LEMMA BusResetStep ==
  ASSUME SyncIInv, FloorStep, NEW a \in Board, BusReset(a)
  PROVE  SyncIInv'
<1>1. SyncTypeOK /\ Peer(a) # a /\ Peer(a) \in Board /\ Answers(a)
  BY PeerFacts, Parts
<1>2. SyncTypeOK'
  <2>1. Flags /\ Others /\ epochs' \in 0 .. MaxEpochs
    BY <1>1, TypeSplit, EpochCounted DEF BusReset
  <2>2. Flags'
    BY <2>1 DEF Flags, BusReset, source, answering, receiving
  <2>3. Others'
    BY <2>1, SyncAssumption DEF Others, BusReset, source, answering, receiving
  <2>4. QED
    BY <2>2, <2>3, TypeJoined
<1>3. Still(Peer(a)) /\ dirty'[a]
  BY <1>1 DEF BusReset, SyncTypeOK, source, answering, receiving, Still
<1>4. UNCHANGED <<source, answering, receiving, link, events>>
  BY DEF BusReset
<1>5. Answers(a)'
  BY <1>1, <1>4 DEF Answers, answering
<1>6. QED
  BY <1>2, <1>3, <1>4, <1>5, SessionStep DEF source, answering, receiving

(* keyboard_sync_task notices a new host session. *)
LEMMA ReconcileStep ==
  ASSUME SyncIInv, FloorStep, NEW a \in Board, Reconcile(a)
  PROVE  SyncIInv'
<1>1. SyncTypeOK /\ Peer(a) # a /\ Peer(a) \in Board /\ Answers(a)
  BY PeerFacts, Parts
<1>2. SyncTypeOK'
  <2>1. Flags /\ Others
    BY <1>1, TypeSplit
  <2>2. Flags'
    BY <2>1 DEF Flags, Reconcile, RotateNonce, source, answering, bounds
  <2>3. Others'
    BY <2>1, SyncAssumption DEF Others, Reconcile, RotateNonce, source, answering, bounds
  <2>4. QED
    BY <2>2, <2>3, TypeJoined
<1>3. Still(Peer(a)) /\ nonce'[a] = 0 /\ epoch'[a] /\ remote'[a] = 0
  BY <1>1 DEF Reconcile, RotateNonce, SyncTypeOK, source, answering, bounds, Still
<1>4. UNCHANGED <<source, answering, link, bounds>>
  BY DEF Reconcile
<1>5. Answers(a)'
  BY <1>1, <1>4 DEF Answers, answering
<1>6. QED
  BY <1>2, <1>3, <1>4, <1>5, SessionStep DEF source, answering, bounds

(* keyboard_focus_changed *)
LEMMA FocusStep ==
  ASSUME SyncIInv, FloorStep, NEW a \in Board, FocusChanged(a),
         token' \in [Board -> Nat], token'[Peer(a)] = token[Peer(a)],
         epochs' \in 0 .. MaxEpochs
  PROVE  SyncIInv'
<1>1. SyncTypeOK /\ Peer(a) # a /\ Peer(a) \in Board
  BY PeerFacts, Parts
<1>2. SyncTypeOK'
  <2>1. Flags /\ Others
    BY <1>1, TypeSplit
  <2>2. Flags'
    BY <2>1 DEF Flags, FocusChanged, RotateNonce
  <2>3. Others'
    <3>1. fifo' \in [Board -> Seq(Nat)] /\ \A b \in Board : Len(fifo'[b]) <= SourceCap
      <4>1. fifo' = [fifo EXCEPT ![a] = <<>>] /\ <<>> \in Seq(Nat) /\ Len(<<>>) = 0
        BY DEF FocusChanged
      <4>2. QED
        BY <2>1, <4>1, SyncAssumption DEF Others
    <3>2. QED
      BY <2>1, <3>1 DEF Others, FocusChanged, RotateNonce
  <2>4. QED
    BY <2>2, <2>3, TypeJoined
<1>3. Still(Peer(a)) /\ nonce'[a] = 0 /\ epoch'[a] /\ remote'[a] = 0 /\ dirty'[a]
  BY <1>1 DEF FocusChanged, RotateNonce, SyncTypeOK, Still
<1>4. latest'[a] = 0 /\ fifo'[a] = <<>> /\ target' = target /\ link' = link /\ events' = events
  BY <1>1 DEF FocusChanged, SyncTypeOK
<1>5. Answers(a)'
  BY <1>1 DEF FocusChanged, SyncTypeOK, Answers
<1>6. QED
  BY <1>2, <1>3, <1>4, <1>5, SessionStep

(* The user switches here ... *)
LEMMA SwitchStep ==
  ASSUME SyncIInv, FloorStep, NEW a \in Board, Switch(a)
  PROVE  SyncIInv'
<1>1. SyncTypeOK /\ Peer(a) # a /\ Peer(a) \in Board
  BY PeerFacts, Parts
<1>2. token' \in [Board -> Nat] /\ token'[Peer(a)] = token[Peer(a)]
  BY <1>1 DEF Switch, SyncTypeOK
<1>3. epochs' \in 0 .. MaxEpochs /\ FocusChanged(a)
  BY <1>1, EpochCounted DEF Switch
<1>4. QED
  BY <1>2, <1>3, FocusStep

(* ... and the peer follows: an even number of switches leaves the focus   *)
(* where it was, and nothing is reset.                                     *)
LEMMA FollowStep ==
  ASSUME SyncIInv, FloorStep, NEW a \in Board, Follow(a)
  PROVE  SyncIInv'
<1>1. SyncTypeOK /\ Peer(a) # a /\ Peer(a) \in Board
  BY PeerFacts, Parts
<1>2. token' \in [Board -> Nat] /\ token'[Peer(a)] = token[Peer(a)] /\ epochs' \in 0 .. MaxEpochs
  BY <1>1 DEF Follow, SyncTypeOK
<1>3. CASE (token[a] - token[Peer(a)]) % 2 # 0
  <2>1. FocusChanged(a)
    BY <1>3 DEF Follow
  <2>2. QED
    BY <1>2, <2>1, FocusStep
<1>4. CASE (token[a] - token[Peer(a)]) % 2 = 0
  <2>1. UNCHANGED <<boot, source, answering, receiving, dirty, link, events, faults, epochs>>
    BY <1>4 DEF Follow
  <2>2. SyncTypeOK'
    BY <1>1, <1>2, <2>1 DEF SyncTypeOK, source, answering, receiving
  <2>3. Still(Peer(a))
    BY <1>2, <2>1 DEF Still, source, answering, receiving
  <2>4. /\ floor \in [Board -> Nat] /\ InOrder(a) /\ Answers(a)
        /\ Current(a, Peer(a)) /\ AskedOnce(a, Peer(a))
    BY Parts
  <2>5. \A b \in Board : RestKept(b) /\ AskKept(b)
    BY <1>1, <2>1, LinkShrinks
  <2>6. floor'[a] = floor[a]
    <3>1. token[a] \in Nat /\ token[Peer(a)] \in Nat /\ token'[a] = token[Peer(a)]
      BY <1>1, TypeFacts DEF Follow
    <3>2. (token'[a] - token[a]) % 2 = 0
      BY <1>4, <3>1
    <3>3. ~Begins(a)
      BY <2>1, <3>2 DEF Begins, receiving
    <3>4. QED
      BY <2>1, <3>3 DEF FloorStep, receiving
  <2>7. events' \in Nat /\ events <= events' /\ remote' \in [Board -> Nat]
    <3>1. events \in Nat
      BY <1>1, TypeFacts
    <3>2. QED
      BY <2>1, <2>2, <3>1 DEF SyncTypeOK
  <2>8. floor' \in [Board -> Nat]
    BY <1>1, <2>4, <2>7, FloorType
  <2>9. InOrder(a)' /\ Answers(a)'
    BY <1>1, <2>1, <2>4, <2>5, <2>7, OrderKept DEF source, answering, Answers
  <2>10. Current(a, Peer(a))' /\ AskedOnce(a, Peer(a))'
    BY <1>1, <2>1, <2>4, <2>5, <2>6, <2>7, CurrentKept, AskedKept
       DEF source, answering, receiving
  <2>11. /\ InOrder(Peer(a))' /\ Answers(Peer(a))'
         /\ AskedOnce(Peer(a), a)' /\ Current(Peer(a), a)'
    BY <1>1, <2>1, <2>3, <2>5, <2>7, PeerPart DEF source, answering
  <2>12. QED
    BY <2>2, <2>8, <2>9, <2>10, <2>11, Whole
<1>5. QED
  BY <1>3, <1>4

(* keyboard_sync_init *)
LEMMA RebootStep ==
  ASSUME SyncIInv, FloorStep, NEW a \in Board, Reboot(a)
  PROVE  SyncIInv'
<1>1. SyncTypeOK /\ Peer(a) # a /\ Peer(a) \in Board
  BY PeerFacts, Parts
<1>2. SyncTypeOK'
  <2>1. Flags /\ Others /\ epochs' \in 0 .. MaxEpochs
    BY <1>1, TypeSplit, EpochCounted DEF Reboot
  <2>2. Flags'
    BY <2>1 DEF Flags, Reboot, RotateNonce
  <2>3. Others'
    BY <2>1, SyncAssumption DEF Others, Reboot, RotateNonce
  <2>4. QED
    BY <2>2, <2>3, TypeJoined
<1>3. Still(Peer(a)) /\ nonce'[a] = 0 /\ epoch'[a] /\ remote'[a] = 0
  BY <1>1 DEF Reboot, RotateNonce, SyncTypeOK, Still
<1>4. latest'[a] = 0 /\ fifo'[a] = <<>> /\ target'[a] = 0 /\ link' = link /\ events' = events
  BY <1>1 DEF Reboot, SyncTypeOK
<1>5. Answers(a)'
  BY <1>1 DEF Reboot, SyncTypeOK, Answers
<1>6. QED
  BY <1>2, <1>3, <1>4, <1>5, SessionStep

(* What a longer source queue holds. *)
LEMMA FifoGrows ==
  ASSUME NEW q \in Seq(Nat), NEW x \in Nat, Len(q) < SourceCap
  PROVE  /\ Append(q, x) \in Seq(Nat) /\ Len(Append(q, x)) <= SourceCap /\ Len(q) \in Nat
         /\ Len(Append(q, x)) = Len(q) + 1
         /\ \A k \in 1 .. Len(Append(q, x)) : \/ k \in 1 .. Len(q) /\ Append(q, x)[k] = q[k]
                                              \/ k = Len(q) + 1 /\ Append(q, x)[k] = x
  BY AppendFacts, SyncAssumption

(* keyboard_sync_publish: the new state is newer than everything queued or *)
(* sent before.                                                            *)
LEMMA PressStep ==
  ASSUME SyncIInv, FloorStep, NEW a \in Board, Press(a)
  PROVE  SyncIInv'
<1> DEFINE p == Peer(a)
<1>1. /\ SyncTypeOK /\ p # a /\ p \in Board /\ floor \in [Board -> Nat]
      /\ InOrder(a) /\ Answers(a) /\ Current(a, p) /\ Current(p, a) /\ AskedOnce(a, p)
  BY PeerFacts, Parts
<1>f. /\ fifo \in [Board -> Seq(Nat)] /\ events \in Nat /\ faults \in Nat
      /\ \A b \in Board : Len(fifo[b]) \in Nat /\ Len(fifo[b]) <= SourceCap
      /\ latest \in [Board -> Nat] /\ ready \in [Board -> BOOLEAN]
      /\ known \in [Board -> BOOLEAN] /\ tail \in [Board -> BOOLEAN]
      /\ \A k \in 1 .. Len(fifo[a]) : fifo[a][k] \in Nat
  BY <1>1, TypeFacts
<1>2. /\ events' = events + 1 /\ events' \in Nat /\ events' \in 0 .. MaxEvents
      /\ events <= events' /\ events < events'
  <2>1. events' = events + 1 /\ events + faults < MaxEvents /\ MaxEvents \in Nat
    BY SyncAssumption DEF Press
  <2>2. QED
    BY <1>f, <2>1
<1>3. UNCHANGED <<token, boot, target, known, receiving, dirty, link, epochs, faults>>
  BY DEF Press
<1>4. /\ latest' = [latest EXCEPT ![a] = events'] /\ latest'[a] = events'
      /\ ready' = [ready EXCEPT ![a] = @ \/ known[a]]
  BY <1>f DEF Press
<1>5. \/ fifo' = fifo
      \/ Len(fifo[a]) < SourceCap /\ fifo' = [fifo EXCEPT ![a] = Append(@, events')]
  BY <1>f, SyncAssumption DEF Press
<1>6. tail' \in [Board -> BOOLEAN]
  BY <1>f DEF Press
<1> HIDE DEF p
<1>7. /\ fifo' \in [Board -> Seq(Nat)] /\ \A b \in Board : Len(fifo'[b]) <= SourceCap
      /\ fifo'[p] = fifo[p]
      /\ Len(fifo'[a]) \in {Len(fifo[a]), Len(fifo[a]) + 1}
      /\ \A k \in 1 .. Len(fifo'[a]) : \/ k \in 1 .. Len(fifo[a]) /\ fifo'[a][k] = fifo[a][k]
                                       \/ k = Len(fifo[a]) + 1 /\ fifo'[a][k] = events'
  <2>1. CASE fifo' = fifo
    BY <1>f, <2>1
  <2>2. CASE Len(fifo[a]) < SourceCap /\ fifo' = [fifo EXCEPT ![a] = Append(@, events')]
    <3>1. fifo[a] \in Seq(Nat) /\ fifo'[a] = Append(fifo[a], events')
      BY <1>f, <2>2
    <3>2. fifo'[p] = fifo[p] /\ \A b \in Board : b # a => fifo'[b] = fifo[b]
      BY <1>1, <1>f, <2>2
    <3>3. /\ fifo'[a] \in Seq(Nat) /\ Len(fifo'[a]) <= SourceCap
          /\ Len(fifo'[a]) = Len(fifo[a]) + 1
          /\ \A k \in 1 .. Len(fifo'[a]) : \/ k \in 1 .. Len(fifo[a]) /\ fifo'[a][k] = fifo[a][k]
                                           \/ k = Len(fifo[a]) + 1 /\ fifo'[a][k] = events'
      BY <1>2, <2>2, <3>1, FifoGrows
    <3>4. QED
      BY <1>f, <2>2, <3>2, <3>3
  <2>3. QED
    BY <1>5, <2>1, <2>2
<1>8. SyncTypeOK'
  <2>1. Flags /\ Others
    BY <1>1, TypeSplit
  <2>2. Flags'
    BY <2>1, <1>3, <1>4, <1>6 DEF Flags, receiving
  <2>3. Others'
    BY <2>1, <1>2, <1>3, <1>4, <1>7 DEF Others, receiving
  <2>4. QED
    BY <2>2, <2>3, TypeJoined
<1>9. Still(p)
  BY <1>1, <1>f, <1>3, <1>4, <1>7 DEF Still, receiving
<1>10. \A b \in Board : RestKept(b) /\ AskKept(b)
  BY <1>1, <1>3, LinkShrinks
<1>11. floor' \in [Board -> Nat] /\ floor'[a] = floor[a] /\ floor'[p] = floor[p]
  <2>1. remote' \in [Board -> Nat]
    BY <1>8 DEF SyncTypeOK
  <2>2. QED
    BY <1>1, <1>3, <2>1, FloorStays, FloorType DEF receiving
<1>12. Rest(a)' = Rest(a) /\ \A i \in Rest(a) : Keys(a, i)' = Keys(a, i)
  BY <1>3 DEF Rest, Keys
<1>13. \A i \in Rest(a) : Keys(a, i) \in Nat
  BY <1>1, TypeFacts, PacketFacts DEF Rest, Keys
<1>14. InOrder(a)'
  <2>1. ASSUME NEW k \in 1 .. Len(fifo'[a])
        PROVE  /\ fifo'[a][k] <= events' /\ Before(fifo'[a][k], latest'[a])
               /\ \A l \in 1 .. Len(fifo'[a]) : k <= l => Before(fifo'[a][k], fifo'[a][l])
    <3>1. fifo'[a][k] <= events' /\ Before(fifo'[a][k], latest'[a])
      <4>1. CASE k \in 1 .. Len(fifo[a]) /\ fifo'[a][k] = fifo[a][k]
        <5>1. fifo[a][k] \in Nat /\ fifo[a][k] <= events
          BY <1>f, <1>1, <4>1 DEF InOrder
        <5>2. QED
          BY <1>f, <1>2, <1>4, <4>1, <5>1 DEF Before
      <4>2. CASE fifo'[a][k] = events'
        BY <1>2, <1>4, <4>2 DEF Before
      <4>3. QED
        BY <1>7, <4>1, <4>2
    <3>2. ASSUME NEW l \in 1 .. Len(fifo'[a]), k <= l
          PROVE  Before(fifo'[a][k], fifo'[a][l])
      <4>1. CASE l \in 1 .. Len(fifo[a])
        <5>1. k \in 1 .. Len(fifo[a]) /\ fifo'[a][k] = fifo[a][k] /\ fifo'[a][l] = fifo[a][l]
          BY <1>f, <1>7, <3>2, <4>1
        <5>2. QED
          BY <1>1, <3>2, <4>1, <5>1 DEF InOrder
      <4>2. CASE fifo'[a][l] = events'
        BY <3>1, <4>2 DEF Before
      <4>3. QED
        BY <1>7, <4>1, <4>2
    <3>3. QED
      BY <3>1, <3>2
  <2>2. ASSUME NEW i \in Rest(a)
        PROVE  /\ Keys(a, i) <= events' /\ Before(Keys(a, i), latest'[a])
               /\ \A k \in 1 .. Len(fifo'[a]) : Before(Keys(a, i), fifo'[a][k])
               /\ \A j \in Rest(a) : i <= j => Before(Keys(a, i), Keys(a, j))
    <3>1. Keys(a, i) <= events'
      BY <1>1, <1>f, <1>2, <1>13 DEF InOrder
    <3>2. QED
      BY <1>1, <1>4, <1>7, <3>1 DEF InOrder, Before
  <2>3. latest'[a] <= events'
    BY <1>2, <1>4
  <2>4. QED
    BY <1>12, <2>1, <2>2, <2>3 DEF InOrder
<1>15. Answers(a)'
  BY <1>1, <1>f, <1>3, <1>4 DEF Answers
<1>16. Current(a, p)' /\ AskedOnce(a, p)'
  BY <1>1, <1>2, <1>3, <1>9, <1>10, <1>11, CurrentKept, AskedKept DEF Still, receiving
<1>17. Current(p, a)'
  <2>1. floor[p] \in Nat /\ floor[p] <= events /\ floor'[p] <= events'
    BY <1>1, <1>f, <1>2, <1>11 DEF Current
  <2>2. Shown(p, latest[a])'
    BY <1>2, <1>4, <2>1, <1>11 DEF Shown
  <2>3. Queued(p, a) => Queued(p, a)'
    BY <1>2, <1>7, <1>11, <2>1 DEF Queued, Shown
  <2>4. ASSUME NEW i, From(p, a, i) PROVE From(p, a, i)'
    BY <2>3, <2>4, <1>11, <1>12 DEF From, Shown
  <2>5. dirty' = dirty /\ nonce' = nonce /\ epoch' = epoch /\ target' = target /\ link' = link
    BY <1>3 DEF receiving
  <2>6. Ask(p)' = Ask(p)
    BY <2>5 DEF Ask
  <2>7. QED
    BY <1>1, <1>12, <2>1, <2>2, <2>3, <2>4, <2>5, <2>6 DEF Current
<1>18. InOrder(p)' /\ Answers(p)' /\ AskedOnce(p, a)'
  BY <1>1, <1>2, <1>3, <1>9, <1>10, PeerPart DEF p
<1>19. QED
  BY <1>8, <1>11, <1>14, <1>15, <1>16, <1>17, <1>18, Whole DEF p

(* What keyboard_sync_task takes from the source: the oldest event, or the *)
(* present state if there is none; it is between what was sent before and  *)
(* what stays queued.                                                      *)
Oldest(a) == IF fifo[a] = <<>> THEN latest[a] ELSE Head(fifo[a])
Left(a)   == IF fifo[a] = <<>> THEN <<>> ELSE Tail(fifo[a])
Refilled(a) == IF tail[a] THEN Append(Left(a), latest[a]) ELSE Left(a)

(* The state that is taken and what it leaves. *)
LEMMA LeftFacts ==
  ASSUME SyncTypeOK, NEW a \in Board, InOrder(a)
  PROVE  /\ Left(a) \in Seq(Nat) /\ Len(Left(a)) \in Nat /\ Len(Left(a)) < SourceCap
         /\ Oldest(a) \in Nat /\ latest[a] \in Nat
         /\ Oldest(a) = latest[a] \/ (1 \in 1 .. Len(fifo[a]) /\ Oldest(a) = fifo[a][1])
         /\ \A k \in 1 .. Len(Left(a)) : k + 1 \in 1 .. Len(fifo[a]) /\ Left(a)[k] = fifo[a][k + 1]
         /\ Len(Left(a)) # 0 => 1 \in 1 .. Len(fifo[a]) /\ Oldest(a) = fifo[a][1]
<1>1. /\ fifo[a] \in Seq(Nat) /\ latest[a] \in Nat /\ Len(fifo[a]) \in Nat
      /\ Len(fifo[a]) <= SourceCap /\ SourceCap \in Nat /\ SourceCap # 0
  BY TypeFacts, SyncAssumption
<1>2. CASE fifo[a] = <<>>
  BY <1>1, <1>2 DEF Left, Oldest
<1>3. CASE fifo[a] # <<>>
  <2>1. Left(a) = Tail(fifo[a]) /\ Oldest(a) = Head(fifo[a])
    BY <1>3 DEF Left, Oldest
  <2>2. /\ Tail(fifo[a]) \in Seq(Nat) /\ Len(Tail(fifo[a])) = Len(fifo[a]) - 1
        /\ Head(fifo[a]) = fifo[a][1] /\ Head(fifo[a]) \in Nat /\ 1 \in 1 .. Len(fifo[a])
        /\ \A i \in 1 .. Len(Tail(fifo[a])) :
             i + 1 \in 1 .. Len(fifo[a]) /\ Tail(fifo[a])[i] = fifo[a][i + 1]
    BY <1>1, <1>3, TailFacts
  <2>3. Len(Tail(fifo[a])) \in Nat /\ Len(Tail(fifo[a])) < SourceCap
    BY <1>1, <2>2
  <2>4. QED
    BY <1>1, <2>1, <2>2, <2>3
<1>4. QED
  BY <1>2, <1>3

(* The source queue after keyboard_sync_task has taken a state from it. *)
LEMMA RefilledFacts ==
  ASSUME SyncTypeOK, NEW a \in Board, InOrder(a)
  PROVE  /\ Refilled(a) \in Seq(Nat) /\ Len(Refilled(a)) <= SourceCap
         /\ \A k \in 1 .. Len(Refilled(a)) :
              \/ /\ k \in 1 .. Len(Left(a)) /\ k + 1 \in 1 .. Len(fifo[a])
                 /\ Refilled(a)[k] = fifo[a][k + 1]
              \/ k = Len(Left(a)) + 1 /\ Refilled(a)[k] = latest[a]
<1>1. /\ Left(a) \in Seq(Nat) /\ Len(Left(a)) \in Nat /\ Len(Left(a)) < SourceCap
      /\ latest[a] \in Nat
      /\ \A k \in 1 .. Len(Left(a)) : k + 1 \in 1 .. Len(fifo[a]) /\ Left(a)[k] = fifo[a][k + 1]
  BY LeftFacts
<1>2. CASE tail[a]
  <2>1. Refilled(a) = Append(Left(a), latest[a])
    BY <1>2 DEF Refilled
  <2>2. QED
    BY <1>1, <2>1, FifoGrows
<1>3. CASE ~tail[a]
  <2>1. Refilled(a) = Left(a)
    BY <1>3 DEF Refilled
  <2>2. QED
    BY <1>1, <2>1, SyncAssumption
<1>4. QED
  BY <1>2, <1>3

(* Their order. *)
LEMMA RefilledOrder ==
  ASSUME SyncTypeOK, NEW a \in Board, InOrder(a)
  PROVE  /\ Oldest(a) <= events /\ Before(Oldest(a), latest[a])
         /\ \A i \in Rest(a) : Before(Keys(a, i), Oldest(a))
         /\ \A k \in 1 .. Len(Refilled(a)) :
              /\ Refilled(a)[k] <= events /\ Before(Refilled(a)[k], latest[a])
              /\ Before(Oldest(a), Refilled(a)[k])
              /\ \A i \in Rest(a) : Before(Keys(a, i), Refilled(a)[k])
              /\ \A l \in 1 .. Len(Refilled(a)) :
                   k <= l => Before(Refilled(a)[k], Refilled(a)[l])
<1>1. /\ Oldest(a) = latest[a] \/ (1 \in 1 .. Len(fifo[a]) /\ Oldest(a) = fifo[a][1])
      /\ latest[a] \in Nat /\ Before(latest[a], latest[a])
  BY LeftFacts DEF Before
<1>2. /\ Oldest(a) <= events /\ Before(Oldest(a), latest[a])
      /\ \A i \in Rest(a) : Before(Keys(a, i), Oldest(a))
  BY <1>1 DEF InOrder
<1>3. ASSUME NEW k \in 1 .. Len(Refilled(a))
      PROVE  /\ Refilled(a)[k] <= events /\ Before(Refilled(a)[k], latest[a])
             /\ Before(Oldest(a), Refilled(a)[k])
             /\ \A i \in Rest(a) : Before(Keys(a, i), Refilled(a)[k])
             /\ \A l \in 1 .. Len(Refilled(a)) :
                  k <= l => Before(Refilled(a)[k], Refilled(a)[l])
  <2>1. CASE k \in 1 .. Len(Left(a)) /\ k + 1 \in 1 .. Len(fifo[a])
             /\ Refilled(a)[k] = fifo[a][k + 1]
    <3>1. /\ Refilled(a)[k] <= events /\ Before(Refilled(a)[k], latest[a])
          /\ \A i \in Rest(a) : Before(Keys(a, i), Refilled(a)[k])
      BY <2>1 DEF InOrder
    <3>2. 1 \in 1 .. Len(fifo[a]) /\ Oldest(a) = fifo[a][1] /\ 1 <= k + 1
      BY <2>1, LeftFacts
    <3>3. Before(Oldest(a), Refilled(a)[k])
      BY <2>1, <3>2 DEF InOrder
    <3>4. ASSUME NEW l \in 1 .. Len(Refilled(a)), k <= l
          PROVE  Before(Refilled(a)[k], Refilled(a)[l])
      <4>1. CASE l + 1 \in 1 .. Len(fifo[a]) /\ Refilled(a)[l] = fifo[a][l + 1]
        <5>1. k + 1 <= l + 1
          BY <3>4
        <5>2. QED
          BY <2>1, <4>1, <5>1 DEF InOrder
      <4>2. CASE Refilled(a)[l] = latest[a]
        BY <3>1, <4>2
      <4>3. QED
        BY <4>1, <4>2, RefilledFacts
    <3>5. QED
      BY <3>1, <3>3, <3>4
  <2>2. CASE k = Len(Left(a)) + 1 /\ Refilled(a)[k] = latest[a]
    <3>1. \A l \in 1 .. Len(Refilled(a)) : k <= l => Refilled(a)[l] = latest[a]
      <4>1. Len(Left(a)) \in Nat
        BY LeftFacts
      <4>2. QED
        BY <2>2, <4>1, RefilledFacts
    <3>2. QED
      BY <1>1, <1>2, <2>2, <3>1 DEF InOrder
  <2>3. QED
    BY <2>1, <2>2, RefilledFacts
<1>4. QED
  BY <1>2, <1>3

(* keyboard_sync_task sends a snapshot: in its place between what was sent *)
(* and what stays queued, and from a queue that may be shown if the answer *)
(* is to the present challenge.                                            *)
LEMMA SendSnapshotStep ==
  ASSUME SyncIInv, FloorStep, NEW a \in Board, SendSnapshot(a)
  PROVE  SyncIInv'
<1> DEFINE p == Peer(a)
          snap == [target |-> target[a], boot |-> boot[a], token |-> token[a],
                   keys |-> Oldest(a)]
          x == [type |-> "HEAD", nonce |-> target[a]]
          y == [type |-> "REST", snap |-> snap]
          n == Len(link[a])
<1>1. /\ SyncTypeOK /\ p # a /\ p \in Board /\ floor \in [Board -> Nat]
      /\ InOrder(a) /\ Answers(a) /\ Current(a, p) /\ Current(p, a) /\ AskedOnce(a, p)
  BY PeerFacts, Parts
<1>f. /\ fifo \in [Board -> Seq(Nat)] /\ events \in Nat /\ latest \in [Board -> Nat]
      /\ ready \in [Board -> BOOLEAN] /\ known \in [Board -> BOOLEAN] /\ tail \in [Board -> BOOLEAN]
      /\ link \in [Board -> Seq(Packet)] /\ n \in Nat /\ token \in [Board -> Nat]
      /\ boot \in [Board -> Nat]
  BY <1>1, TypeFacts
<1>2. UNCHANGED <<token, boot, latest, target, known, receiving, dirty, bounds>>
  BY DEF SendSnapshot
<1>3. /\ link' = [link EXCEPT ![a] = @ \o <<x, y>>]
      /\ fifo' = [fifo EXCEPT ![a] = Refilled(a)]
      /\ tail' = [tail EXCEPT ![a] = FALSE]
      /\ ready' = [ready EXCEPT ![a] = fifo'[a] # <<>>]
      /\ ready[a] /\ n + 2 <= LinkCap
  BY DEF SendSnapshot, Refilled, Left, Oldest
<1>4. target[a] \in Nonces /\ target[a] # 0 /\ known[a]
  BY <1>1, <1>3 DEF Answers, SyncTypeOK
<1>5. /\ Refilled(a) \in Seq(Nat) /\ Len(Refilled(a)) <= SourceCap /\ Oldest(a) \in Nat
      /\ latest[a] \in Nat
  BY <1>1, RefilledFacts, LeftFacts
<1>6. x \in Packet /\ y \in Packet /\ y.snap.keys = Oldest(a) /\ y.snap.target = target[a]
      /\ x.type = "HEAD" /\ y.type = "REST"
  BY <1>4, <1>5, <1>f DEF Packet, Snapshot
<1> HIDE DEF p, snap, x, y, n
<1>7. /\ link'[a] = link[a] \o <<x, y>> /\ link'[p] = link[p] /\ link[a] \in Seq(Packet)
      /\ \A b \in Board : b # a => link'[b] = link[b]
  BY <1>1, <1>3, <1>f
<1>8. /\ link'[a] \in Seq(Packet) /\ Len(link'[a]) = n + 2
      /\ \A i \in 1 .. Len(link'[a]) : \/ i \in 1 .. n /\ link'[a][i] = link[a][i]
                                       \/ i = n + 1 /\ link'[a][i] = x
                                       \/ i = n + 2 /\ link'[a][i] = y
  BY <1>6, <1>7, PairFacts DEF n
<1>9. SyncTypeOK'
  <2>1. Flags /\ Others
    BY <1>1, TypeSplit
  <2>2. Flags'
    BY <2>1, <1>2, <1>3 DEF Flags, receiving
  <2>3. link' \in [Board -> Seq(Packet)] /\ \A b \in Board : Len(link'[b]) <= LinkCap
    <3>1. \A b \in Board : link'[b] \in Seq(Packet) /\ Len(link'[b]) <= LinkCap
      BY <1>3, <1>f, <1>7, <1>8, <2>1 DEF Others
    <3>2. QED
      BY <1>3, <1>f, <3>1
  <2>4. fifo' \in [Board -> Seq(Nat)] /\ \A b \in Board : Len(fifo'[b]) <= SourceCap
    BY <1>3, <1>5, <2>1 DEF Others
  <2>5. Others'
    BY <2>1, <2>3, <2>4, <1>2 DEF Others, receiving, bounds
  <2>6. QED
    BY <2>2, <2>5, TypeJoined
<1>10. Still(p) /\ fifo'[a] = Refilled(a)
  BY <1>1, <1>f, <1>2, <1>3 DEF Still, receiving
<1>11. /\ \A i \in Rest(a)' : \/ i \in Rest(a) /\ Keys(a, i)' = Keys(a, i)
                                 /\ link'[a][i] = link[a][i] /\ i <= n
                              \/ i = n + 2 /\ Keys(a, i)' = Oldest(a)
                                 /\ link'[a][i].snap.target = target[a]
       /\ \A i \in Rest(a) : i \in Int /\ i <= n
  BY <1>6, <1>8, <1>f DEF Rest, Keys, n
<1>12. RestKept(p) /\ AskKept(p) /\ AskKept(a)
  <2>1. RestKept(p) /\ AskKept(p)
    BY <1>1, <1>7, LinkShrinks
  <2>2. \A i \in Ask(a)' : i + 0 \in Ask(a) /\ link'[a][i] = link[a][i + 0]
    BY <1>6, <1>8 DEF Ask, n
  <2>3. QED
    BY <2>1, <2>2 DEF AskKept
<1>13. /\ floor' \in [Board -> Nat] /\ floor'[a] = floor[a] /\ floor'[p] = floor[p]
       /\ events' = events /\ events' \in Nat /\ events <= events' /\ latest' = latest
  <2>1. remote' \in [Board -> Nat]
    BY <1>9 DEF SyncTypeOK
  <2>2. floor' \in [Board -> Nat] /\ floor'[a] = floor[a] /\ floor'[p] = floor[p]
    BY <1>1, <1>2, <2>1, FloorStays, FloorType DEF receiving
  <2>3. QED
    BY <1>f, <1>2, <2>2 DEF bounds
<1>14. InOrder(a)'
  <2>1. \A k \in 1 .. Len(fifo'[a]) :
          /\ fifo'[a][k] <= events' /\ Before(fifo'[a][k], latest'[a])
          /\ \A l \in 1 .. Len(fifo'[a]) : k <= l => Before(fifo'[a][k], fifo'[a][l])
    BY <1>1, <1>10, <1>13, RefilledOrder
  <2>2. ASSUME NEW i \in Rest(a)'
        PROVE  /\ Keys(a, i)' <= events' /\ Before(Keys(a, i)', latest'[a])
               /\ \A k \in 1 .. Len(fifo'[a]) : Before(Keys(a, i)', fifo'[a][k])
    BY <1>1, <1>10, <1>11, <1>13, RefilledOrder DEF InOrder
  <2>3. ASSUME NEW i \in Rest(a)', NEW j \in Rest(a)', i <= j
        PROVE  Before(Keys(a, i)', Keys(a, j)')
    <3>1. CASE j \in Rest(a) /\ Keys(a, j)' = Keys(a, j) /\ j <= n
      <4>1. i \in Rest(a) /\ Keys(a, i)' = Keys(a, i)
        BY <1>f, <1>11, <2>3, <3>1
      <4>2. QED
        BY <1>1, <2>3, <3>1, <4>1 DEF InOrder
    <3>2. CASE j = n + 2 /\ Keys(a, j)' = Oldest(a)
      <4>1. Before(Oldest(a), Oldest(a))
        BY <1>5 DEF Before
      <4>2. QED
        BY <1>1, <1>11, <3>2, <4>1, RefilledOrder
    <3>3. QED
      BY <1>11, <3>1, <3>2
  <2>4. latest'[a] <= events'
    BY <1>1, <1>13 DEF InOrder
  <2>5. QED
    BY <2>1, <2>2, <2>3, <2>4 DEF InOrder
<1>15. Answers(a)'
  BY <1>1, <1>f, <1>2, <1>4 DEF Answers
<1>16. Current(a, p)' /\ AskedOnce(a, p)'
  BY <1>1, <1>2, <1>10, <1>12, <1>13, CurrentKept, AskedKept DEF Still, receiving
<1>17. Current(p, a)'
  <2>1. Shown(p, latest[a]) /\ Shown(p, latest[a])' /\ floor'[p] <= events'
    BY <1>1, <1>13 DEF Current, Shown
  <2>2. ASSUME Queued(p, a) PROVE Queued(p, a)' /\ Shown(p, Oldest(a))
    <3>1. \A k \in 1 .. Len(Refilled(a)) : Shown(p, Refilled(a)[k])
      BY <1>1, <2>1, <2>2, RefilledFacts DEF Queued
    <3>2. Shown(p, Oldest(a))
      BY <1>1, <2>1, <2>2, LeftFacts DEF Queued
    <3>3. QED
      BY <1>10, <1>13, <3>1, <3>2 DEF Queued, Shown
  <2>3. ASSUME NEW i, From(p, a, i) PROVE From(p, a, i)'
    <3>1. Queued(p, a)' /\ Shown(p, Oldest(a))
      BY <2>2, <2>3 DEF From
    <3>2. ASSUME NEW j \in Rest(a)', i <= j PROVE Shown(p, Keys(a, j))'
      BY <1>11, <1>13, <2>3, <3>1, <3>2 DEF From, Shown
    <3>3. QED
      BY <3>1, <3>2 DEF From
  <2>4. dirty' = dirty /\ nonce' = nonce /\ epoch' = epoch /\ target' = target
    BY <1>2 DEF receiving
  <2>5. ASSUME ~dirty'[p], nonce'[p] # 0
        PROVE  /\ \A i \in Rest(a)' : link'[a][i].snap.target = nonce'[p] => From(p, a, i)'
               /\ target'[a] = nonce'[p] => Queued(p, a)'
    <3>1. target'[a] = nonce'[p] => Queued(p, a)'
      BY <1>1, <2>2, <2>4, <2>5 DEF Current
    <3>2. ASSUME NEW i \in Rest(a)', link'[a][i].snap.target = nonce'[p] PROVE From(p, a, i)'
      <4>1. CASE i \in Rest(a) /\ link'[a][i] = link[a][i]
        BY <1>1, <2>3, <2>4, <2>5, <3>2, <4>1 DEF Current
      <4>2. CASE i = n + 2 /\ link'[a][i].snap.target = target[a]
        <5>1. Queued(p, a)' /\ Shown(p, Oldest(a))
          BY <1>1, <2>2, <2>4, <2>5, <3>2, <4>2 DEF Current
        <5>2. ASSUME NEW j \in Rest(a)', i <= j PROVE Shown(p, Keys(a, j))'
          <6>1. Keys(a, j)' = Oldest(a)
            BY <1>f, <1>11, <4>2, <5>2
          <6>2. QED
            BY <1>13, <5>1, <6>1 DEF Shown
        <5>3. QED
          BY <5>1, <5>2 DEF From
      <4>3. QED
        BY <1>11, <4>1, <4>2
    <3>3. QED
      BY <3>1, <3>2
  <2>6. ~dirty'[p] /\ ~epoch'[p] => From(p, a, 1)'
    BY <1>1, <2>3, <2>4 DEF Current
  <2>7. \A i \in Ask(p)' :
          link'[p][i].type = "REQUEST" /\ link'[p][i].nonce = nonce'[p] => ~epoch'[p]
    BY <1>1, <1>7, <2>4 DEF Current, Ask
  <2>8. QED
    BY <2>1, <2>5, <2>6, <2>7 DEF Current
<1>18. InOrder(p)' /\ Answers(p)' /\ AskedOnce(p, a)'
  BY <1>1, <1>2, <1>10, <1>12, <1>13, PeerPart DEF p
<1>19. QED
  BY <1>9, <1>13, <1>14, <1>15, <1>16, <1>17, <1>18, Whole DEF p

(* A nonce that is not in use occurs nowhere. *)
LEMMA UnusedNonce ==
  ASSUME SyncTypeOK, NEW n \in Nonces \ InUse, NEW b \in Board
  PROVE  /\ target[b] # n
         /\ \A i \in Rest(b) : link[b][i].snap.target # n
         /\ \A i \in Ask(b) : link[b][i].nonce # n
<1>1. n \notin {nonce[b], target[b], head[b]} \cup InLink(b)
  BY DEF InUse
<1>2. \A i \in 1 .. Len(link[b]) : PacketNonce(link[b][i]) # n
  BY <1>1 DEF InLink
<1>3. QED
  BY <1>1, <1>2 DEF Rest, Ask, PacketNonce

(* keyboard_sync_task sends a challenge, which nothing answers yet. *)
LEMMA RequestStep ==
  ASSUME SyncIInv, FloorStep, NEW a \in Board, Request(a)
  PROVE  SyncIInv'
<1> DEFINE p == Peer(a)
          ty == IF epoch[a] THEN "RESET" ELSE "REQUEST"
<1>1. /\ SyncTypeOK /\ p # a /\ p \in Board /\ floor \in [Board -> Nat]
      /\ InOrder(a) /\ Answers(a) /\ Current(a, p) /\ Current(p, a) /\ AskedOnce(a, p)
  BY PeerFacts, Parts
<1>2. PICK n \in Nonces \ InUse :
        /\ link' = [link EXCEPT ![a] = Append(@, [type |-> ty, nonce |-> n])]
        /\ nonce' = [nonce EXCEPT ![a] = n]
  BY DEF Request
<1> DEFINE m == [type |-> ty, nonce |-> n]
<1>3. /\ UNCHANGED <<token, boot, source, answering, epoch, peerBoot, leased, remote, dirty,
                     bounds>>
      /\ head' = [head EXCEPT ![a] = 0] /\ Len(link[a]) < LinkCap
  BY DEF Request
<1>4. m \in Packet /\ m.type \in {"REQUEST", "RESET"} /\ m.nonce = n /\ m.type # "REST"
      /\ (m.type = "REQUEST" => ~epoch[a])
  BY DEF Packet
<1>5. link' = [link EXCEPT ![a] = Append(@, m)]
  BY <1>2
<1> HIDE DEF p, m, ty
<1>6. /\ link' \in [Board -> Seq(Packet)] /\ \A b \in Board : Len(link'[b]) <= LinkCap
      /\ RestKept(a) /\ RestKept(p) /\ AskKept(p) /\ link'[a] = Append(link[a], m)
  BY <1>1, <1>3, <1>4, <1>5, AddedType
<1>7. SyncTypeOK'
  <2>1. Flags /\ Others
    BY <1>1, TypeSplit
  <2>2. Flags'
    BY <2>1, <1>3 DEF Flags, source, answering
  <2>3. Others'
    BY <2>1, <1>2, <1>3, <1>6 DEF Others, source, answering, bounds
  <2>4. QED
    BY <2>2, <2>3, TypeJoined
<1>8. Still(p) /\ nonce'[a] = n /\ link'[p] = link[p]
  BY <1>1, <1>2, <1>3, <1>5, TypeFacts DEF Still, source, answering
<1>9. /\ floor' \in [Board -> Nat] /\ floor'[a] = floor[a]
      /\ events' = events /\ events' \in Nat /\ events <= events'
  <2>1. remote' \in [Board -> Nat] /\ events \in Nat
    BY <1>1, <1>7, TypeFacts DEF SyncTypeOK
  <2>2. floor' \in [Board -> Nat] /\ floor'[a] = floor[a]
    BY <1>1, <1>3, <2>1, FloorStays, FloorType
  <2>3. QED
    BY <1>3, <2>1, <2>2 DEF bounds
<1>10. InOrder(a)' /\ Answers(a)'
  BY <1>1, <1>3, <1>6, <1>9, OrderKept DEF source, answering, Answers
<1>11. \A i \in Ask(a)' : \/ i \in Ask(a) /\ link'[a][i] = link[a][i] /\ i <= Len(link[a])
                          \/ i = Len(link[a]) + 1 /\ link'[a][i] = m
  <2>1. link[a] \in Seq(Packet)
    BY <1>1, TypeFacts
  <2>2. QED
    BY <1>4, <1>6, <2>1, AppendFacts DEF Ask
<1>12. Rest(p)' = Rest(p) /\ \A i \in Rest(p) : link'[p][i] = link[p][i]
  BY <1>8 DEF Rest
<1>13. Current(a, p)'
  <2>1. floor'[a] <= events' /\ Shown(a, latest[p])'
    BY <1>1, <1>3, <1>9 DEF Current, Shown, source
  <2>2. /\ \A i \in Rest(p)' : link'[p][i].snap.target = nonce'[a] => From(a, p, i)'
        /\ target'[p] = nonce'[a] => Queued(a, p)'
    BY <1>1, <1>3, <1>8, <1>12, UnusedNonce DEF answering
  <2>3. ASSUME ~dirty'[a], ~epoch'[a] PROVE From(a, p, 1)'
    <3>1. From(a, p, 1)
      BY <1>1, <1>3, <2>3 DEF Current
    <3>2. Queued(a, p)'
      BY <1>3, <1>9, <3>1 DEF From, Queued, Shown, source
    <3>3. \A j \in Rest(p)' : 1 <= j => Shown(a, Keys(p, j))'
      BY <1>9, <1>12, <3>1 DEF From, Shown, Keys
    <3>4. QED
      BY <3>2, <3>3 DEF From
  <2>4. \A i \in Ask(a)' :
          link'[a][i].type = "REQUEST" /\ link'[a][i].nonce = nonce'[a] => ~epoch'[a]
    BY <1>1, <1>3, <1>4, <1>8, <1>11, UnusedNonce
  <2>5. QED
    BY <2>1, <2>2, <2>3, <2>4 DEF Current
<1>14. AskedOnce(a, p)'
  <2>1. \A i \in Ask(a)' : link'[a][i].nonce # target'[p]
    BY <1>1, <1>3, <1>4, <1>11, UnusedNonce DEF AskedOnce, answering
  <2>2. ASSUME NEW i \in Ask(a)', NEW j \in Ask(a)', link'[a][i].nonce = link'[a][j].nonce
        PROVE  i = j
    <3>1. CASE i \in Ask(a) /\ link'[a][i] = link[a][i] /\ j \in Ask(a) /\ link'[a][j] = link[a][j]
      BY <1>1, <2>2, <3>1 DEF AskedOnce
    <3>2. QED
      BY <1>1, <1>4, <1>11, <2>2, <3>1, UnusedNonce
  <2>3. QED
    BY <2>1, <2>2 DEF AskedOnce
<1>15. InOrder(p)' /\ Answers(p)' /\ AskedOnce(p, a)' /\ Current(p, a)'
  BY <1>1, <1>3, <1>6, <1>8, <1>9, PeerPart DEF p, source, answering
<1>16. QED
  BY <1>7, <1>9, <1>10, <1>13, <1>14, <1>15, Whole DEF p

(* keyboard_sync_receive, a challenge: the first of an epoch empties the   *)
(* queue; a later one comes from a board that may show everything.         *)
LEMMA ReceiveRequestStep ==
  ASSUME SyncIInv, FloorStep, NEW a \in Board, ReceiveRequest(a)
  PROVE  SyncIInv'
<1> DEFINE p == Peer(a)
          m == Incoming(a)
          forget == m.type = "RESET" /\ m.nonce # target[a]
<1>1. /\ SyncTypeOK /\ p # a /\ p \in Board /\ floor \in [Board -> Nat]
      /\ InOrder(a) /\ Answers(a) /\ Current(a, p) /\ Current(p, a)
      /\ AskedOnce(a, p) /\ AskedOnce(p, a)
  BY PeerFacts, Parts
<1>2. /\ Arrives(a, {"REQUEST", "RESET"})
      /\ UNCHANGED <<token, boot, latest, receiving, dirty, bounds>>
  BY DEF ReceiveRequest
<1>3. /\ link[p] # <<>> /\ m = link[p][1] /\ m \in Packet /\ m.type \in {"REQUEST", "RESET"}
      /\ 1 \in 1 .. Len(link[p]) /\ link'[a] = link[a] /\ link'[p] = Tail(link[p])
      /\ link' \in [Board -> Seq(Packet)] /\ \A b \in Board : Len(link'[b]) <= LinkCap
      /\ \A b \in Board : RestKept(b) /\ AskKept(b)
  BY <1>1, <1>2, ArrivalFacts
<1>4. m.nonce \in Nonces /\ m.nonce # 0
  BY <1>3, PacketFacts
<1>5. \/ UNCHANGED <<fifo, tail, answering>>
      \/ /\ fifo' = [fifo EXCEPT ![a] = IF forget THEN <<>> ELSE @]
         /\ tail' = [tail EXCEPT ![a] = @ /\ ~forget]
         /\ target' = [target EXCEPT ![a] = m.nonce]
         /\ known' = [known EXCEPT ![a] = TRUE]
         /\ ready' = [ready EXCEPT ![a] = TRUE]
  BY DEF ReceiveRequest
<1> HIDE DEF p, m
<1>6. SyncTypeOK'
  <2>1. Flags /\ Others
    BY <1>1, TypeSplit
  <2>2. Flags'
    BY <2>1, <1>2, <1>5 DEF Flags, receiving, answering
  <2>3. fifo' \in [Board -> Seq(Nat)] /\ \A b \in Board : Len(fifo'[b]) <= SourceCap
    <3>1. fifo' = fifo \/ fifo' = [fifo EXCEPT ![a] = <<>>]
      BY <1>5, <2>1 DEF Others
    <3>2. CASE fifo' = fifo
      BY <2>1, <3>2 DEF Others
    <3>3. CASE fifo' = [fifo EXCEPT ![a] = <<>>]
      <4>1. fifo' = [fifo EXCEPT ![a] = <<>>] /\ <<>> \in Seq(Nat) /\ Len(<<>>) = 0
        BY <3>3
      <4>2. QED
        BY <2>1, <4>1, SyncAssumption DEF Others
    <3>4. QED
      BY <3>1, <3>2, <3>3
  <2>4. target' \in [Board -> Nonces \cup {0}]
    BY <2>1, <1>4, <1>5 DEF Others, answering
  <2>5. Others'
    BY <2>1, <2>3, <2>4, <1>2, <1>3 DEF Others, receiving, bounds
  <2>6. QED
    BY <2>2, <2>5, TypeJoined
<1>7. Still(p)
  BY <1>1, <1>2, <1>5, TypeFacts DEF Still, receiving, answering
<1>8. /\ floor' \in [Board -> Nat] /\ floor'[a] = floor[a] /\ floor'[p] = floor[p]
      /\ events' = events /\ events' \in Nat /\ events <= events'
  <2>1. remote' \in [Board -> Nat] /\ events \in Nat
    BY <1>1, <1>6, TypeFacts DEF SyncTypeOK
  <2>2. floor' \in [Board -> Nat] /\ floor'[a] = floor[a] /\ floor'[p] = floor[p]
    BY <1>1, <1>2, <2>1, FloorStays, FloorType DEF receiving
  <2>3. QED
    BY <1>2, <2>1, <2>2 DEF bounds
<1>9. /\ fifo'[a] \in {fifo[a], <<>>} /\ latest'[a] = latest[a]
      /\ target'[a] \in {target[a], m.nonce}
      /\ target'[a] # target[a] /\ forget => fifo'[a] = <<>>
  BY <1>1, <1>2, <1>5, TypeFacts DEF answering
<1>10. InOrder(a)' /\ Answers(a)'
  <2>1. InOrder(a)'
    BY <1>1, <1>3, <1>8, <1>9, OrderKept
  <2>2. Answers(a)'
    BY <1>1, <1>4, <1>5, TypeFacts DEF Answers, answering
  <2>3. QED
    BY <2>1, <2>2
<1>11. Current(a, p)' /\ AskedOnce(a, p)'
  BY <1>1, <1>2, <1>3, <1>7, <1>8, CurrentKept, AskedKept DEF Still, receiving
<1>12. InOrder(p)' /\ Answers(p)' /\ (target'[a] = target[a] => AskedOnce(p, a)' /\ Current(p, a)')
  BY <1>1, <1>3, <1>7, <1>8, <1>9, PeerPart DEF p
<1>13. ASSUME target'[a] # target[a] PROVE AskedOnce(p, a)' /\ Current(p, a)'
  <2>1. target'[a] = m.nonce /\ 1 \in Ask(p)
    BY <1>3, <1>9, <1>13 DEF Ask
  <2>2. \A i \in Ask(p)' : i + 1 \in Ask(p) /\ i + 1 # 1 /\ link'[p][i] = link[p][i + 1] /\ i \in Int
    <3>1. link[p] \in Seq(Packet)
      BY <1>1, TypeFacts
    <3>2. \A i \in 1 .. Len(link'[p]) : i + 1 \in 1 .. Len(link[p]) /\ link'[p][i] = link[p][i + 1]
      BY <1>3, <3>1, TailFacts
    <3>3. \A i \in 1 .. Len(link'[p]) : i \in Int /\ i + 1 # 1
      OBVIOUS
    <3>4. QED
      BY <3>2, <3>3 DEF Ask
  <2>3. AskedOnce(p, a)'
    <3>1. \A i \in Ask(p)' : link'[p][i].nonce # target'[a]
      BY <1>1, <1>3, <2>1, <2>2 DEF AskedOnce
    <3>2. ASSUME NEW i \in Ask(p)', NEW j \in Ask(p)', link'[p][i].nonce = link'[p][j].nonce
          PROVE  i = j
      <4>1. i + 1 = j + 1
        BY <1>1, <2>2, <3>2 DEF AskedOnce
      <4>2. QED
        BY <2>2, <4>1
    <3>3. QED
      BY <3>1, <3>2 DEF AskedOnce
  <2>4. dirty' = dirty /\ nonce' = nonce /\ epoch' = epoch
    BY <1>2 DEF receiving
  <2>5. ASSUME ~dirty[p], nonce[p] # 0, m.nonce = nonce[p] PROVE Queued(p, a)'
    <3>1. CASE m.type = "RESET"
      <4>1. fifo'[a] = <<>>
        BY <1>9, <1>13, <2>1, <3>1
      <4>2. QED
        BY <4>1 DEF Queued
    <3>2. CASE m.type = "REQUEST"
      <4>1. From(p, a, 1)
        BY <1>1, <1>3, <2>1, <2>5, <3>2 DEF Current
      <4>2. QED
        BY <1>1, <1>8, <1>9, <4>1, FromKept DEF From
    <3>3. QED
      BY <1>3, <3>1, <3>2
  <2>6. Rest(a)' = Rest(a) /\ \A i \in Rest(a) : link'[a][i] = link[a][i] /\ i \in Nat
    BY <1>3 DEF Rest
  <2>7. ASSUME NEW i \in Nat, From(p, a, i) PROVE From(p, a, i)'
    <3>1. Queued(p, a)'
      BY <1>1, <1>8, <1>9, <2>7, FromKept DEF From
    <3>2. QED
      BY <1>8, <2>6, <2>7, <3>1 DEF From, Keys, Shown
  <2>8. floor'[p] <= events' /\ Shown(p, latest[a])'
    BY <1>1, <1>8, <1>9 DEF Current, Shown
  <2>9. ASSUME ~dirty'[p], nonce'[p] # 0
        PROVE  /\ \A i \in Rest(a)' : link'[a][i].snap.target = nonce'[p] => From(p, a, i)'
               /\ target'[a] = nonce'[p] => Queued(p, a)'
    BY <1>1, <2>1, <2>4, <2>5, <2>6, <2>7, <2>9 DEF Current
  <2>10. ~dirty'[p] /\ ~epoch'[p] => From(p, a, 1)'
    BY <1>1, <2>4, <2>7 DEF Current
  <2>11. \A i \in Ask(p)' :
           link'[p][i].type = "REQUEST" /\ link'[p][i].nonce = nonce'[p] => ~epoch'[p]
    BY <1>1, <2>2, <2>4 DEF Current
  <2>12. Current(p, a)'
    BY <2>8, <2>9, <2>10, <2>11 DEF Current
  <2>13. QED
    BY <2>3, <2>12
<1>14. QED
  BY <1>6, <1>8, <1>10, <1>11, <1>12, <1>13, Whole DEF p

(* What an accepted snapshot was followed by is no older than it. *)
LEMMA AcceptedFrom ==
  ASSUME SyncTypeOK, floor \in [Board -> Nat], NEW a \in Board, NEW p \in Board,
         InOrder(p), From(a, p, 1), Shown(a, latest[p]), floor[a] <= events, 1 \in Rest(p),
         floor'[a] \in {floor[a], Keys(p, 1)}, fifo'[p] = fifo[p], latest'[p] = latest[p],
         events' = events, floor'[a] = 0 \/ floor'[a] = floor[a] \/ Keys(p, 1) # 0,
         link[p] # <<>>, link'[p] = Tail(link[p])
  PROVE  /\ floor'[a] <= events' /\ Shown(a, latest[p])' /\ Queued(a, p)'
         /\ \A i \in Nat \ {0} : From(a, p, i)'
<1> DEFINE k == Keys(p, 1)
<1>1. /\ k \in Nat /\ latest[p] \in Nat /\ floor[a] \in Nat
      /\ \A i \in Rest(p) : Keys(p, i) \in Nat
      /\ \A j \in 1 .. Len(fifo[p]) : fifo[p][j] \in Nat
  BY TypeFacts, PacketFacts DEF Rest, Keys
<1>2. /\ k <= events /\ Before(k, latest[p])
      /\ \A j \in 1 .. Len(fifo[p]) : Before(k, fifo[p][j])
      /\ \A j \in Rest(p) : 1 <= j => Before(k, Keys(p, j))
  BY DEF InOrder
<1>3. /\ floor'[a] \in {floor[a], k}
      /\ floor'[a] = 0 \/ floor'[a] = floor[a] \/ k # 0
  OBVIOUS
<1> HIDE DEF k
<1>4. ASSUME NEW x \in Nat, Shown(a, x), Before(k, x) PROVE x = 0 \/ x >= floor'[a]
  BY <1>1, <1>3, <1>4 DEF Shown, Before
<1>5. floor'[a] <= events' /\ Shown(a, latest[p])'
  <2>1. Shown(a, latest[p])'
    BY <1>1, <1>2, <1>4 DEF Shown
  <2>2. QED
    BY <1>2, <1>3, <2>1
<1>6. Queued(a, p)'
  BY <1>1, <1>2, <1>4 DEF From, Queued, Shown
<1>7. ASSUME NEW j \in Rest(p)' PROVE Shown(a, Keys(p, j))'
  <2>1. link[p] \in Seq(Packet)
    BY TypeFacts
  <2>2. j + 1 \in 1 .. Len(link[p]) /\ link'[p][j] = link[p][j + 1] /\ 1 <= j + 1
    BY <1>7, <2>1, TailFacts DEF Rest
  <2>3. j + 1 \in Rest(p) /\ Keys(p, j)' = Keys(p, j + 1)
    BY <1>7, <2>2 DEF Rest, Keys
  <2>4. Shown(a, Keys(p, j + 1)) /\ Before(k, Keys(p, j + 1)) /\ Keys(p, j + 1) \in Nat
    BY <1>1, <1>2, <2>2, <2>3 DEF From
  <2>5. Keys(p, j + 1) = 0 \/ Keys(p, j + 1) >= floor'[a]
    BY <1>4, <2>4
  <2>6. QED
    BY <2>3, <2>5 DEF Shown
<1>8. QED
  BY <1>5, <1>6, <1>7 DEF From

(* What ReceiveRest takes is the answer to the challenge that is out. *)
LEMMA AcceptedFacts ==
  ASSUME SyncIInv, NEW a \in Board, ReceiveRest(a)
  PROVE  /\ 1 \in Rest(Peer(a)) /\ From(a, Peer(a), 1)
         /\ Incoming(a) = link[Peer(a)][1] /\ Incoming(a).snap \in Snapshot
         /\ remote'[a] = Keys(Peer(a), 1) /\ remote'[Peer(a)] = remote[Peer(a)]
         /\ remote' \in [Board -> Nat] /\ ~dirty[a]
<1> DEFINE p == Peer(a)
          snap == Incoming(a).snap
<1>1. SyncTypeOK /\ Current(a, p) /\ p \in Board /\ p # a
  BY Parts, PeerFacts
<1>2. /\ Arrives(a, {"REST"}) /\ Acceptable(a, snap)
      /\ remote' = [remote EXCEPT ![a] = snap.keys]
  BY DEF ReceiveRest
<1>3. /\ Incoming(a) = link[p][1] /\ Incoming(a) \in Packet /\ Incoming(a).type = "REST"
      /\ 1 \in 1 .. Len(link[p])
  BY <1>1, <1>2, ArrivalFacts
<1>4. snap \in Snapshot /\ snap.keys \in Nat /\ snap.target # 0
  BY <1>3, PacketFacts
<1>5. 1 \in Rest(p) /\ snap.keys = Keys(p, 1)
  BY <1>3 DEF Rest, Keys
<1>6. ~dirty[a] /\ nonce[a] # 0 /\ link[p][1].snap.target = nonce[a]
  BY <1>2, <1>3, <1>4 DEF Acceptable
<1>7. From(a, p, 1)
  BY <1>1, <1>5, <1>6 DEF Current
<1>8. remote \in [Board -> Nat]
  BY <1>1, TypeFacts
<1>9. /\ remote'[a] = Keys(p, 1) /\ remote'[p] = remote[p] /\ remote' \in [Board -> Nat]
  BY <1>1, <1>2, <1>4, <1>5, <1>8
<1>10. QED
  BY <1>3, <1>4, <1>5, <1>6, <1>7, <1>9

(* keyboard_sync_receive, a snapshot that is accepted. *)
LEMMA ReceiveRestStep ==
  ASSUME SyncIInv, FloorStep, NEW a \in Board, ReceiveRest(a)
  PROVE  SyncIInv'
<1> DEFINE p == Peer(a)
          snap == Incoming(a).snap
          fresh == NewSession(a, snap)
<1>1. /\ SyncTypeOK /\ p # a /\ p \in Board /\ floor \in [Board -> Nat]
      /\ InOrder(a) /\ InOrder(p) /\ Answers(a) /\ Current(a, p) /\ AskedOnce(a, p)
  BY PeerFacts, Parts
<1>2. /\ Arrives(a, {"REST"})
      /\ UNCHANGED <<token, boot, source, answering, dirty, bounds>>
      /\ epoch' = [epoch EXCEPT ![a] = fresh]
      /\ nonce' = [nonce EXCEPT ![a] = IF fresh THEN 0 ELSE @]
      /\ peerBoot' = [peerBoot EXCEPT ![a] = snap.boot]
      /\ leased' = [leased EXCEPT ![a] = TRUE]
      /\ head' = [head EXCEPT ![a] = 0]
  BY DEF ReceiveRest
<1>3. fresh \in BOOLEAN
  BY DEF NewSession
<1>4. /\ link[p] # <<>> /\ link'[a] = link[a] /\ link'[p] = Tail(link[p])
      /\ link' \in [Board -> Seq(Packet)] /\ \A b \in Board : Len(link'[b]) <= LinkCap
      /\ \A b \in Board : RestKept(b) /\ AskKept(b)
  BY <1>1, <1>2, ArrivalFacts
<1>5. /\ 1 \in Rest(p) /\ From(a, p, 1) /\ snap.boot \in Nat /\ remote'[a] = Keys(p, 1)
      /\ remote'[p] = remote[p] /\ remote' \in [Board -> Nat]
  BY AcceptedFacts DEF Snapshot
<1> HIDE DEF p, snap, fresh
<1>6. SyncTypeOK'
  <2>1. Flags /\ Others
    BY <1>1, TypeSplit
  <2>2. Flags'
    BY <2>1, <1>2, <1>3 DEF Flags, source, answering
  <2>3. Others'
    BY <2>1, <1>2, <1>4, <1>5 DEF Others, source, answering, bounds
  <2>4. QED
    BY <2>2, <2>3, TypeJoined
<1>7. Still(p) /\ epoch'[a] = fresh /\ nonce'[a] = (IF fresh THEN 0 ELSE nonce[a]) /\ leased'[a]
  BY <1>1, <1>2, <1>5, TypeFacts DEF Still, source, answering
<1>8. /\ floor' \in [Board -> Nat] /\ floor'[a] \in {floor[a], Keys(p, 1)}
      /\ floor'[a] = floor[a] \/ Keys(p, 1) # 0
  <2>1. (token'[a] - token[a]) % 2 = 0
    <3>1. token[a] \in Nat /\ token'[a] = token[a]
      BY <1>1, <1>2, TypeFacts
    <3>2. token'[a] - token[a] = 0
      BY <3>1
    <3>3. QED
      BY <3>2
  <2>2. ~Begins(a)
    BY <1>2, <1>7, <2>1 DEF Begins
  <2>3. QED
    BY <1>1, <1>5, <2>2, FloorType DEF FloorStep
<1>9. events' = events /\ events' \in Nat /\ events <= events'
  <2>1. events \in Nat
    BY <1>1, TypeFacts
  <2>2. QED
    BY <1>2, <2>1 DEF bounds
<1>10. InOrder(a)' /\ Answers(a)'
  BY <1>1, <1>2, <1>4, <1>9, OrderKept DEF source, answering, Answers
<1>11. /\ floor'[a] <= events' /\ Shown(a, latest[p])' /\ Queued(a, p)'
       /\ \A i \in Nat \ {0} : From(a, p, i)'
  <2>1. Shown(a, latest[p]) /\ floor[a] <= events
    BY <1>1 DEF Current
  <2>2. fifo'[p] = fifo[p] /\ latest'[p] = latest[p]
    BY <1>2 DEF source
  <2>3. QED
    BY <1>1, <1>4, <1>5, <1>8, <1>9, <2>1, <2>2, AcceptedFrom
<1>12. Current(a, p)'
  <2>1. \A i \in Rest(p)' : i \in Nat \ {0}
    BY DEF Rest
  <2>2. \A i \in Ask(a)' : link'[a][i].nonce # 0
    <3>1. Ask(a)' = Ask(a) /\ \A i \in Ask(a) : link'[a][i] = link[a][i]
      BY <1>4 DEF Ask
    <3>2. \A i \in Ask(a) : link[a][i].nonce # 0
      BY <1>1, TypeFacts, PacketFacts DEF Ask
    <3>3. QED
      BY <3>1, <3>2
  <2>3. \A i \in Ask(a)' :
          link'[a][i].type = "REQUEST" /\ link'[a][i].nonce = nonce'[a] => ~epoch'[a]
    BY <1>7, <2>2
  <2>4. QED
    BY <1>11, <2>1, <2>3 DEF Current
<1>13. AskedOnce(a, p)'
  BY <1>1, <1>2, <1>4, AskedKept DEF answering
<1>14. InOrder(p)' /\ Answers(p)' /\ AskedOnce(p, a)' /\ Current(p, a)'
  BY <1>2, <1>1, <1>4, <1>7, <1>9, PeerPart DEF p, source, answering
<1>15. QED
  BY <1>6, <1>8, <1>10, <1>12, <1>13, <1>14, Whole DEF p

-----------------------------------------------------------------------------
(* The theorems. *)

(* At power-up nothing is held, queued or under way. *)
LEMMA InitIInv == MCInit => SyncIInv
<1> SUFFICES ASSUME MCInit PROVE SyncIInv
  OBVIOUS
<1>1. \A b \in Board : /\ latest[b] = 0 /\ fifo[b] = <<>> /\ link[b] = <<>>
                       /\ nonce[b] = 0 /\ target[b] = 0 /\ floor[b] = 0
                       /\ epoch[b] /\ ~known[b] /\ ~ready[b]
  BY DEF MCInit, Init
<1>2. Flags
  BY DEF MCInit, Init, Flags
<1>3. Others
  <2>1. <<>> \in Seq(Nat) /\ <<>> \in Seq(Packet) /\ Len(<<>>) = 0
    OBVIOUS
  <2>2. link \in [Board -> Seq(Packet)] /\ fifo \in [Board -> Seq(Nat)]
    BY <2>1 DEF MCInit, Init
  <2>3. \A b \in Board : Len(fifo[b]) <= SourceCap /\ Len(link[b]) <= LinkCap
    BY <1>1, <2>1, SyncAssumption
  <2>4. QED
    BY <2>2, <2>3, SyncAssumption DEF MCInit, Init, Others
<1>4. SyncTypeOK /\ floor \in [Board -> Nat]
  BY <1>2, <1>3, TypeSplit DEF MCInit
<1>5. events = 0
  BY DEF MCInit, Init
<1>6. ASSUME NEW b \in Board, NEW p \in Board
      PROVE  InOrder(b) /\ Answers(b) /\ Current(b, p) /\ AskedOnce(b, p)
  <2>1. Rest(b) = {} /\ Rest(p) = {} /\ Ask(b) = {} /\ Ask(p) = {}
    BY <1>1 DEF Rest, Ask
  <2>2. Len(fifo[b]) = 0 /\ Len(fifo[p]) = 0
    BY <1>1
  <2>3. InOrder(b)
    BY <1>1, <1>5, <2>1, <2>2 DEF InOrder
  <2>4. QED
    BY <1>1, <1>5, <2>1, <2>2, <2>3 DEF Answers, Current, AskedOnce, Shown
<1>7. QED
  BY <1>4, <1>6, PeerFacts DEF SyncIInv

(* Every step of either board keeps the invariant. *)
LEMMA NextIInv == SyncIInv /\ [MCNext]_<<vars, floor>> => SyncIInv'
<1> SUFFICES ASSUME SyncIInv, [MCNext]_<<vars, floor>> PROVE SyncIInv'
  OBVIOUS
<1>1. CASE MCNext
  <2>1. Next /\ FloorStep
    BY <1>1 DEF MCNext, FloorStep
  <2>2. PICK b \in Board :
          \/ Press(b) \/ SendSnapshot(b) \/ SendInterrupted(b)
          \/ Request(b) \/ NonceExpires(b) \/ LeaseExpires(b) \/ BusReset(b) \/ Reconcile(b)
          \/ ReceiveRequest(b) \/ ReceiveHead(b) \/ ReceiveRest(b) \/ RefuseRest(b)
          \/ Lose(b) \/ Switch(b) \/ Follow(b) \/ Reboot(b)
    BY <2>1 DEF Next
  <2>3. CASE Press(b) \/ SendSnapshot(b) \/ SendInterrupted(b)
    BY <2>1, <2>3, PressStep, SendSnapshotStep, SendInterruptedStep
  <2>4. CASE Request(b) \/ NonceExpires(b) \/ LeaseExpires(b) \/ BusReset(b) \/ Reconcile(b)
    BY <2>1, <2>4, RequestStep, NonceExpiresStep, LeaseExpiresStep, BusResetStep, ReconcileStep
  <2>5. CASE ReceiveRequest(b) \/ ReceiveHead(b) \/ ReceiveRest(b) \/ RefuseRest(b)
    BY <2>1, <2>5, ReceiveRequestStep, ReceiveHeadStep, ReceiveRestStep, RefuseRestStep
  <2>6. CASE Lose(b) \/ Switch(b) \/ Follow(b) \/ Reboot(b)
    BY <2>1, <2>6, LoseStep, SwitchStep, FollowStep, RebootStep
  <2>7. QED
    BY <2>2, <2>3, <2>4, <2>5, <2>6
<1>2. CASE UNCHANGED <<vars, floor>>
  BY <1>2 DEF SyncIInv, SyncTypeOK, InOrder, Answers, Current, AskedOnce, Rest, Ask, Keys,
              Shown, Queued, From, vars
<1>3. QED
  BY <1>1, <1>2

(* The order of each board's key states, and that whatever can answer a    *)
(* challenge is no older than the host session, hold of every behaviour of *)
(* the two boards and the link between them.                               *)
THEOREM SyncInvariance == MCSpec => []SyncIInv
  BY InitIInv, NextIInv, PTL DEF MCSpec

(* The variables keep their types; neither the source queue nor the link   *)
(* holds more than it has room for.                                        *)
THEOREM SyncTypeCorrect == MCSpec => []SyncTypeOK
<1>1. SyncIInv => SyncTypeOK
  BY DEF SyncIInv
<1>2. QED
  BY <1>1, SyncInvariance, PTL

(* Only an accepted snapshot shows keys of the peer: every other step      *)
(* leaves them or lets them go up.                                         *)
LEMMA ShowsAccepted ==
  ASSUME SyncIInv, Next, NEW b \in Board, remote'[b] # remote[b], remote'[b] # 0
  PROVE  ReceiveRest(b)
<1>1. remote \in [Board -> Nat]
  BY TypeFacts DEF SyncIInv
<1>2. PICK a \in Board :
        \/ Press(a) \/ SendSnapshot(a) \/ SendInterrupted(a)
        \/ Request(a) \/ NonceExpires(a) \/ LeaseExpires(a) \/ BusReset(a) \/ Reconcile(a)
        \/ ReceiveRequest(a) \/ ReceiveHead(a) \/ ReceiveRest(a) \/ RefuseRest(a)
        \/ Lose(a) \/ Switch(a) \/ Follow(a) \/ Reboot(a)
  BY DEF Next
<1>3. CASE ReceiveRest(a)
  <2>1. remote' = [remote EXCEPT ![a] = Incoming(a).snap.keys]
    BY <1>3 DEF ReceiveRest
  <2>2. a = b
    BY <1>1, <2>1
  <2>3. QED
    BY <1>3, <2>2
<1>4. CASE Press(a) \/ SendSnapshot(a) \/ SendInterrupted(a) \/ Request(a) \/ NonceExpires(a)
  BY <1>4 DEF Press, SendSnapshot, SendInterrupted, Request, NonceExpires, receiving
<1>5. CASE ReceiveRequest(a) \/ ReceiveHead(a) \/ RefuseRest(a) \/ Lose(a) \/ BusReset(a)
  BY <1>5 DEF ReceiveRequest, ReceiveHead, RefuseRest, Lose, BusReset, receiving
<1>6. CASE LeaseExpires(a) \/ Reconcile(a) \/ Switch(a) \/ Follow(a) \/ Reboot(a)
  BY <1>1, <1>6 DEF LeaseExpires, Reconcile, Switch, Follow, FocusChanged, Reboot, receiving
<1>7. QED
  BY <1>2, <1>3, <1>4, <1>5, <1>6

(* No key state older than the host session, or than one already shown, is *)
(* ever shown: not after a switch, a bus reset, an expired lease, a reboot *)
(* of either board or the loss of any packet.                              *)
THEOREM StaleKeysStayOut == MCSpec => NoStaleKeys
<1>1. SyncIInv /\ [MCNext]_<<vars, floor>>
      => [\A b \in Board : remote'[b] # remote[b] /\ remote'[b] # 0
                             => remote'[b] >= floor[b]]_<<vars, floor>>
  <2> SUFFICES ASSUME SyncIInv, MCNext, NEW b \in Board, remote'[b] # remote[b], remote'[b] # 0
               PROVE  remote'[b] >= floor[b]
    OBVIOUS
  <2>1. ReceiveRest(b)
    BY ShowsAccepted DEF MCNext
  <2>2. 1 \in Rest(Peer(b)) /\ From(b, Peer(b), 1) /\ remote'[b] = Keys(Peer(b), 1)
    BY <2>1, AcceptedFacts
  <2>3. QED
    BY <2>2 DEF From, Shown
<1>2. QED
  BY <1>1, SyncInvariance, PTL DEF MCSpec, NoStaleKeys
=============================================================================
