------------------------------- MODULE H3Datagram -------------------------------
(***************************************************************************)
(* UDP over HTTP/3 datagrams on one server session: anchor requests attach *)
(* and detach their datagram routes, the connection's demux queues uplink  *)
(* datagrams per request, the relay's link follows the anchor, and the     *)
(* client sends datagrams behind its gate.                                 *)
(*                                                                         *)
(* A request is named by its quarter stream id, so a registration is named *)
(* by its request.  A VLESS session ("after") arms its downlink with the   *)
(* first uplink datagram; an SS session ("immediate") at once; any other   *)
(* command ("decline") not at all.  A datagram is one unit.                *)
(***************************************************************************)
EXTENDS Integers, Sequences, FiniteSets

CONSTANTS
    Requests,    \* 1 .. n: anchor requests of the session, used in order
    OneShot,     \* the ones that are stream-one POSTs, the others are GETs
    Policies,    \* \subseteq {"immediate", "after", "decline"}
    QueueCap,    \* REGISTRATION_QUEUE_BYTES
    TotalCap,    \* CONNECTION_QUEUE_BYTES
    MaxUp,       \* uplink packets
    Faults       \* \subseteq {"dead", "end"}

VARIABLES
    policy,   \* LinkPolicy
    slot,     \* the request that holds the GET slot, 0 when free
    rq,       \* request -> its handler: the downlink half, the uplink half
    demux,    \* route of each request, its queue, the queued total, the reader
    anchor,   \* DatagramAnchor: pending update, dirty flag, Notify permit
    link,     \* DatagramLink and its DatagramTarget
    relay,    \* where the relay is
    cl,       \* the client
    missed    \* a stream packet was ingested behind an attach it followed

vars == <<policy, slot, rq, demux, anchor, link, relay, cl, missed>>

NoUpdate == [kind |-> "none", r |-> 0]

NoLink == [reg |-> 0, unarmed |-> 0, target |-> 0, agreed |-> FALSE]

Init ==
    /\ policy \in Policies
    /\ slot = 0
    /\ rq = [r \in Requests |-> [down |-> "idle", up |-> "none"]]
    /\ demux = [route |-> [r \in Requests |-> "none"],
                queue |-> [r \in Requests |-> 0],
                total |-> 0, dead |-> FALSE, looked |-> 0]
    /\ anchor = [pending |-> NoUpdate, dirty |-> FALSE, permit |-> FALSE]
    /\ link = NoLink
    /\ relay = [pc |-> IF policy = "immediate" THEN "loop" ELSE "header", packet |-> 0]
    /\ cl = [header |-> "none", air |-> {}, sent |-> 0, early |-> FALSE]
    /\ missed = FALSE

--------------------------------------------------------------------------------
(* The demux *)

(* DatagramRegistration::drop: the route becomes a tombstone and the queued
   datagrams give their bytes back. *)
Unregister(d, r) ==
    IF r = 0 THEN d
    ELSE [d EXCEPT !.route[r] = IF @ = "live" THEN "closed" ELSE @,
                   !.total = @ - d.queue[r], !.queue[r] = 0]

(* register *)
Register(d, r) == IF d.dead THEN d ELSE [d EXCEPT !.route[r] = "live"]

(* The reader looks the route up, then queues outside the lock. *)
DemuxLooksUp(r) ==
    /\ r \in cl.air /\ demux.looked = 0 /\ ~demux.dead
    /\ cl' = [cl EXCEPT !.air = @ \ {r}]
    /\ demux' = [demux EXCEPT !.looked = IF demux.route[r] = "live" THEN r ELSE 0]
    /\ UNCHANGED <<policy, slot, rq, anchor, link, relay, missed>>

(* Both caps drop the datagram; so does a receiver that went meanwhile. *)
DemuxQueues ==
    /\ demux.looked # 0
    /\ LET r == demux.looked
           room == demux.queue[r] + 1 <= QueueCap /\ demux.total + 1 <= TotalCap
       IN demux' = IF room /\ demux.route[r] = "live"
                   THEN [demux EXCEPT !.queue[r] = @ + 1, !.total = @ + 1, !.looked = 0]
                   ELSE [demux EXCEPT !.looked = 0]
    /\ UNCHANGED <<policy, slot, rq, anchor, link, relay, cl, missed>>

(* A tombstone is pruned. *)
Prune(r) ==
    /\ demux.route[r] = "closed"
    /\ demux' = [demux EXCEPT !.route[r] = "none"]
    /\ UNCHANGED <<policy, slot, rq, anchor, link, relay, cl, missed>>

(* The connection ends: every route goes, receivers drain what they hold. *)
ConnectionDies ==
    /\ "dead" \in Faults /\ ~demux.dead /\ demux.looked = 0
    /\ demux' = [demux EXCEPT !.dead = TRUE, !.route = [r \in Requests |-> "none"]]
    /\ cl' = [cl EXCEPT !.air = {}]
    /\ UNCHANGED <<policy, slot, rq, anchor, link, relay, missed>>

--------------------------------------------------------------------------------
(* DatagramAnchor::publish in its two halves: replace the pending update
   (the superseded one drops its registration), then flag and notify. *)
Replaced(update) ==
    /\ anchor' = [anchor EXCEPT !.pending = update]
    /\ LET old == IF anchor.pending.kind = "attach" THEN anchor.pending.r ELSE 0
           base == IF update.kind = "attach" THEN Register(demux, update.r) ELSE demux
       IN demux' = Unregister(base, old)

Flagged == anchor' = [anchor EXCEPT !.dirty = TRUE, !.permit = TRUE]

Detach == [kind |-> "detach", r |-> 0]

(* An anchor request takes the GET slot and attaches its route. *)
Attach(r) ==
    /\ rq[r].down = "idle" /\ slot = 0 /\ ~demux.dead
    /\ \A q \in Requests : q < r => rq[q].down # "idle"
    /\ slot' = r
    /\ Replaced([kind |-> "attach", r |-> r])
    /\ rq' = [rq EXCEPT ![r].down = "flag"]
    /\ UNCHANGED <<policy, link, relay, cl, missed>>

AttachFlags(r) ==
    /\ rq[r].down = "flag"
    /\ Flagged
    /\ rq' = [rq EXCEPT ![r].down = "respond"]
    /\ UNCHANGED <<policy, slot, demux, link, relay, cl, missed>>

(* The response head goes out, or cannot. *)
Respond(r) ==
    /\ rq[r].down = "respond"
    /\ \/ rq' = [rq EXCEPT ![r] = [down |-> "stream",
                                   up |-> IF r \in OneShot THEN "run" ELSE "over"]]
       \/ rq' = [rq EXCEPT ![r].down = "release"]
    /\ UNCHANGED <<policy, slot, demux, anchor, link, relay, cl, missed>>

(* The downlink pump ends. *)
DownlinkEnds(r) ==
    /\ rq[r].down = "stream"
    /\ rq' = [rq EXCEPT ![r].down = "release"]
    /\ UNCHANGED <<policy, slot, demux, anchor, link, relay, cl, missed>>

(* release_anchor: the route first, then the slot. *)
release_anchor(r) ==
    \/ /\ rq[r].down = "release"
       /\ Replaced(Detach)
       /\ rq' = [rq EXCEPT ![r].down = "unflag"]
       /\ UNCHANGED <<policy, slot, link, relay, cl, missed>>
    \/ /\ rq[r].down = "unflag" /\ Flagged
       /\ rq' = [rq EXCEPT ![r].down = "unslot"]
       /\ UNCHANGED <<policy, slot, demux, link, relay, cl, missed>>
    \/ /\ rq[r].down = "unslot"
       /\ slot' = 0
       /\ rq' = [rq EXCEPT ![r].down = "over"]
       /\ UNCHANGED <<policy, demux, anchor, link, relay, cl, missed>>

(* A stream-one body ends: its task detaches the route as well. *)
UplinkEnds(r) ==
    \/ /\ rq[r].up = "run"
       /\ Replaced(Detach)
       /\ rq' = [rq EXCEPT ![r].up = "unflag"]
       /\ UNCHANGED <<policy, slot, link, relay, cl, missed>>
    \/ /\ rq[r].up = "unflag" /\ Flagged
       /\ rq' = [rq EXCEPT ![r].up = "over"]
       /\ UNCHANGED <<policy, slot, demux, link, relay, cl, missed>>

--------------------------------------------------------------------------------
(* DatagramLink::apply: the new link, and the registration it drops *)

Applied(update) ==
    IF update.kind = "detach" \/ policy = "decline" THEN NoLink
    ELSE IF policy = "immediate"
         THEN [reg |-> update.r, unarmed |-> 0, target |-> update.r, agreed |-> TRUE]
    ELSE [reg |-> update.r, unarmed |-> update.r, target |-> 0, agreed |-> TRUE]

Apply(update) ==
    /\ link' = Applied(update)
    /\ LET dropped == IF update.kind = "attach" /\ link'.reg # update.r THEN update.r ELSE 0
       IN demux' = Unregister(Unregister(demux, link.reg), dropped)

(* next_update inside the relay's select: take what is pending, or park on
   the Notify (a stored permit is consumed first). *)
SelectUpdate ==
    /\ relay.pc = "loop" /\ anchor.pending # NoUpdate
    /\ Apply(anchor.pending)
    /\ anchor' = [anchor EXCEPT !.pending = NoUpdate]
    /\ UNCHANGED <<policy, slot, rq, relay, cl, missed>>

Park ==
    /\ relay.pc = "loop" /\ anchor.pending = NoUpdate
    /\ IF anchor.permit
       THEN anchor' = [anchor EXCEPT !.permit = FALSE] /\ UNCHANGED relay
       ELSE relay' = [relay EXCEPT !.pc = "parked"] /\ UNCHANGED anchor
    /\ UNCHANGED <<policy, slot, rq, demux, link, cl, missed>>

Woken ==
    /\ relay.pc = "parked" /\ anchor.permit
    /\ relay' = [relay EXCEPT !.pc = "loop"]
    /\ anchor' = [anchor EXCEPT !.permit = FALSE]
    /\ UNCHANGED <<policy, slot, rq, demux, link, cl, missed>>

(* next_datagram: a datagram arms an unarmed target. *)
next_datagram ==
    /\ relay.pc \in {"loop", "parked"} /\ link.reg # 0 /\ demux.queue[link.reg] > 0
    /\ demux' = [demux EXCEPT !.queue[link.reg] = @ - 1, !.total = @ - 1]
    /\ link' = IF link.unarmed = 0 THEN link
               ELSE [link EXCEPT !.target = link.unarmed, !.unarmed = 0]
    /\ relay' = [relay EXCEPT !.pc = "loop"]
    /\ UNCHANGED <<policy, slot, rq, anchor, cl, missed>>

(* The registration's sender is gone: the stream takes over. *)
RegistrationEnds ==
    /\ relay.pc \in {"loop", "parked"} /\ link.reg # 0
    /\ demux.queue[link.reg] = 0 /\ demux.route[link.reg] # "live"
    /\ link' = [link EXCEPT !.reg = 0, !.unarmed = 0, !.target = 0]
    /\ relay' = [relay EXCEPT !.pc = "loop"]
    /\ UNCHANGED <<policy, slot, rq, demux, anchor, cl, missed>>

(* The relay reads a stream packet: apply_pending in its two halves, then
   the ingest. `packet` is the anchor the client had when it sent it. *)
ReadPacket(r) ==
    /\ relay.pc \in {"loop", "parked"} /\ cl.sent < MaxUp
    /\ (r # 0 => rq[r].down = "stream")
    /\ cl' = [cl EXCEPT !.sent = @ + 1]
    /\ relay' = [pc |-> IF anchor.dirty THEN "take" ELSE "ingest", packet |-> r]
    /\ anchor' = [anchor EXCEPT !.dirty = FALSE]
    /\ UNCHANGED <<policy, slot, rq, demux, link, missed>>

take_update ==
    /\ relay.pc = "take"
    /\ IF anchor.pending = NoUpdate THEN UNCHANGED <<link, demux>> ELSE Apply(anchor.pending)
    /\ anchor' = [anchor EXCEPT !.pending = NoUpdate]
    /\ relay' = [relay EXCEPT !.pc = "ingest"]
    /\ UNCHANGED <<policy, slot, rq, cl, missed>>

Ingest ==
    /\ relay.pc = "ingest"
    /\ missed' = (missed \/ (/\ relay.packet # 0 /\ policy # "decline"
                             /\ rq[relay.packet].down = "stream"
                             /\ (relay.packet \in OneShot => rq[relay.packet].up = "run")
                             /\ ~link.agreed))
    /\ relay' = [pc |-> "loop", packet |-> 0]
    /\ UNCHANGED <<policy, slot, rq, demux, anchor, link, cl>>

(* VLESS: the request header came, the upstream stands: start_datagram_link
   applies what is pending.  The response header will ride the stream. *)
start_datagram_link ==
    /\ relay.pc = "header"
    /\ IF anchor.dirty /\ anchor.pending # NoUpdate
       THEN Apply(anchor.pending) /\ anchor' = [anchor EXCEPT !.pending = NoUpdate, !.dirty = FALSE]
       ELSE anchor' = [anchor EXCEPT !.dirty = FALSE] /\ UNCHANGED <<link, demux>>
    /\ relay' = [relay EXCEPT !.pc = "loop"]
    /\ UNCHANGED <<policy, slot, rq, cl, missed>>

(* The relay ends and drops its link. *)
RelayEnds ==
    /\ "end" \in Faults /\ relay.pc \in {"loop", "parked"}
    /\ relay' = [relay EXCEPT !.pc = "over"]
    /\ demux' = Unregister(demux, link.reg)
    /\ link' = NoLink
    /\ UNCHANGED <<policy, slot, rq, anchor, cl, missed>>

--------------------------------------------------------------------------------
(* The downlink: the first record of a VLESS session rides the stream with
   the response header; later ones go to the target when there is one. *)
SendHeader ==
    /\ policy = "after" /\ relay.pc \notin {"header", "over"} /\ cl.header = "none"
    /\ cl' = [cl EXCEPT !.header = "wire"]
    /\ UNCHANGED <<policy, slot, rq, demux, anchor, link, relay, missed>>

send_record ==
    /\ link.target # 0 /\ ~demux.dead
    /\ cl' = [cl EXCEPT !.early = @ \/ (policy = "after" /\ cl.header # "read")]
    /\ UNCHANGED <<policy, slot, rq, demux, anchor, link, relay, missed>>

(* The client parses the response header off the stream: DatagramGate. *)
ReadHeader ==
    /\ cl.header = "wire"
    /\ cl' = [cl EXCEPT !.header = "read"]
    /\ UNCHANGED <<policy, slot, rq, demux, anchor, link, relay, missed>>

(* The client's channel sends a datagram once the gate is open, to the
   anchor it has; a packet that does not fit rides the stream. *)
GateOpen == policy = "immediate" \/ cl.header = "read"

try_send_datagram(r) ==
    /\ rq[r].down = "stream" /\ GateOpen /\ ~demux.dead
    /\ cl.sent < MaxUp /\ r \notin cl.air
    /\ cl' = [cl EXCEPT !.air = @ \cup {r}, !.sent = @ + 1]
    /\ UNCHANGED <<policy, slot, rq, demux, anchor, link, relay, missed>>

--------------------------------------------------------------------------------
Relay == SelectUpdate \/ Park \/ Woken \/ take_update \/ Ingest \/ start_datagram_link
         \/ RegistrationEnds

Handler(r) == AttachFlags(r) \/ release_anchor(r) \/ (rq[r].up = "unflag" /\ UplinkEnds(r))

Next ==
    \/ Relay \/ next_datagram \/ RelayEnds
    \/ DemuxQueues \/ ConnectionDies
    \/ SendHeader \/ send_record \/ ReadHeader
    \/ \E r \in Requests :
         \/ Attach(r) \/ Handler(r) \/ Respond(r) \/ DownlinkEnds(r) \/ UplinkEnds(r)
         \/ DemuxLooksUp(r) \/ Prune(r) \/ try_send_datagram(r)
    \/ \E r \in Requests \cup {0} : ReadPacket(r)

Spec == Init /\ [][Next]_vars

(* The relay and the handlers run; peers owe nothing. *)
FairSpec == Spec /\ WF_vars(Relay) /\ \A r \in Requests : WF_vars(Handler(r))

--------------------------------------------------------------------------------
(* The link follows the anchor: once a request is answered, and no update is
   on its way to the relay, the relay receives and sends through exactly
   that request's route (negotiate_udp_datagram, release_anchor). *)
AnchorInForce ==
    \A r \in Requests :
        (/\ slot = r /\ rq[r].down = "stream" /\ ~demux.dead /\ policy # "decline"
         /\ (r \in OneShot => rq[r].up = "run")
         /\ relay.pc \notin {"header", "over"} /\ anchor.pending = NoUpdate)
        => link.reg = r /\ {link.target, link.unarmed} = {0, r}

(* A packet sent after its anchor attached finds the anchor in force,
   whichever arm of the relay's select wins (the comment in the SS-UDP
   relay loop). *)
AttachBeforePacket == ~missed

(* A VLESS client never gets a datagram before it has read the response
   header off the stream: the route arms with the first uplink datagram,
   which the client's gate holds until then (LinkPolicy::AfterUplink). *)
NoEarlyDatagram == ~cl.early

(* The connection's queued bytes are those of its queues, over registrations
   dropped with datagrams in them and superseded before the relay saw them
   (Queued, CONNECTION_QUEUE_BYTES). *)
QueuedExact ==
    LET RECURSIVE Sum(_)
        Sum(S) == IF S = {} THEN 0
                  ELSE LET r == CHOOSE x \in S : TRUE IN demux.queue[r] + Sum(S \ {r})
    IN demux.total = Sum(Requests)

UpdatePending == anchor.pending # NoUpdate /\ relay.pc # "over"

(* Every published update reaches a relay that runs (DatagramAnchor). *)
UpdateApplied == UpdatePending ~> ~UpdatePending
================================================================================
