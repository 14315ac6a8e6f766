---------------------------- MODULE MCMaintenance ----------------------------
(***************************************************************************)
(* Maintenance for TLC, with history variables: the requests that must not *)
(* take effect any more, those whose fate the requester was told it cannot *)
(* know, and those whose acceptance was transmitted; each as long as there *)
(* is still a copy of the request.                                         *)
(***************************************************************************)
EXTENDS Maintenance

VARIABLES dead, unsure, acked

mcvars == <<vars, dead, unsure, acked>>

Requests(q) == {f.req : f \in {q[i] : i \in 1 .. Len(q)} \cap MaintFrame}

Copies ==
  UNION {{rom[b], server[b].req, client[b].req}
           \cup Requests(txq[b]) \cup Requests(out[b])
           \cup Requests(wire[b]) \cup Requests(ingress[b]) : b \in Board}

(* Board b's client gives up its request in this step, without entering. *)
Ends(b) ==
  /\ client[b].phase # "IDLE" /\ client'[b].phase = "IDLE"
  /\ rom'[b] = rom[b] /\ ~(reboot'[b] /\ ~reboot[b])

Enters(b) ==
  {r \in Request : \/ r = rom'[b] /\ r # rom[b]
                   \/ r = client[b].req /\ client[b].phase = "LOCAL" /\ reboot'[b] /\ ~reboot[b]}

Queued(b) ==
  \E i \in 1 .. Len(txq[b]) : txq[b][i] = [type |-> "REQUEST", req |-> client[b].req]

(* A request is settled when it ends before it was transmitted, or with a  *)
(* negative answer; it ends unsure when it was transmitted and neither     *)
(* answer came.                                                            *)
Settled(b) ==
  Ends(b) /\ \/ client[b].phase # "REPLY" \/ Queued(b)
             \/ client'[b].result \in Status \ {"ACCEPTED"}

Unsure(b) == Ends(b) /\ ~Settled(b) /\ client'[b].result # "ACCEPTED"

Of(P(_)) == {client[b].req : b \in {b \in Board : P(b)}}

Accepting(b) ==
  {r \in Request : /\ out[b] = <<[type |-> "ACK", req |-> r, status |-> "ACCEPTED"]>>
                   /\ out'[b] = <<>> /\ Up(b)}

MCInit == Init /\ dead = {} /\ unsure = {} /\ acked = {}

MCNext ==
  /\ Next
  /\ dead' = (dead \cup Of(Settled)) \cap Copies'
  /\ unsure' = (unsure \cup Of(Unsure)) \cap Copies'
  /\ acked' = (acked \cup Accepting(0) \cup Accepting(1)) \cap Copies'

MCSpec == MCInit /\ [][MCNext]_mcvars /\ Fairness

(* What the console reports is true for good: a request reported as        *)
(* rejected, not sent or cancelled, or withdrawn while its frame was still *)
(* queued, never resets a board, however late anything arrives.            *)
DeadRequestsStayDead == [][(Enters(0) \cup Enters(1)) \cap dead = {}]_mcvars

(* A board enters its ROM on the peer's request only after the answer that *)
(* says so has left it: the requester is not left in the dark by the       *)
(* reset itself.                                                           *)
AckPrecedesEntry ==
  \A b \in Board : rom[b] \in Request /\ rom[b].from # b => rom[b] \in acked

(* Two boards that ask each other never both end in the ROM, unless one of *)
(* the requesters gave up with an unconfirmed request on the wire.         *)
CrossRequestsExclusive ==
  (\A b \in Board : rom[b] \in Request /\ rom[b].from # b)
    => \E b \in Board : rom[b] \in unsure
=============================================================================
