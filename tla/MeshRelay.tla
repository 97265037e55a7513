------------------------------- MODULE MeshRelay -------------------------------
(***************************************************************************)
(* A session parked on its home node and continued by a client through an  *)
(* edge node of the cluster: the two-phase OPEN (a probe of the park, then *)
(* the attested user), the prologue (upstream ack and downlink replay),    *)
(* the splice of the mesh stream onto the parked upstream, and what        *)
(* becomes of the bundle when the carrier, the mesh or the upstream ends.  *)
(* Translated from transport/mesh_relay.rs, transport/upstream_source.rs   *)
(* and cluster/mesh/{endpoint,peer_pool,datagram}.rs.                      *)
(*                                                                         *)
(* One session; its carriers are the relays 1 .. Relays, used in turn.     *)
(* Bytes are numbered from 1 in each direction.  No edge of this program   *)
(* sends CloseIntent::ClientDone, so the intent the home reads is always   *)
(* CarrierEnded.  A mesh stream is a reliable queue in each direction that *)
(* ends by FIN, in order, or by reset, which drops what is queued.         *)
(***************************************************************************)
EXTENDS Integers, Sequences, FiniteSets

CONSTANTS Relays,        \* carriers the client uses, one after the other
          Shapes,        \* of the park: "tcp", "udp" (NAT keys), "socket", "mux"
          Up, Down,      \* bytes the client sends, bytes the target answers
          FrameLen,      \* bytes of one uplink frame
          Ring,          \* capacity of the downlink ring
          HomePermits,   \* relay_permits
          Faults         \* kinds of faults that may happen

VARIABLES b,      \* the bundle: where it is, and the target's side of it
          rl,     \* the relays: edge, home task and the two mesh queues
          cl      \* the client

vars == <<b, rl, cl>>

R == 1 .. Relays
Registry == 0
Closed == -1

NoRelay == [e |-> "off", h |-> "off", asked |-> 0, user |-> FALSE,
            up |-> <<>>, upEnd |-> "open", dn |-> <<>>, dnEnd |-> "open",
            cur |-> <<>>, wr |-> 0, end |-> "ok"]

\* The edge's half is over: a FIN follows what it wrote, and it reads no more
Hangup(x) == [x EXCEPT !.e = "dead", !.upEnd = IF @ = "open" THEN "fin" ELSE @,
                       !.dn = <<>>]

\* refuse_relay: both halves of the stream are reset
Refused(x) == [x EXCEPT !.h = "done", !.dn = <<>>, !.dnEnd = "reset", !.up = <<>>]

-----------------------------------------------------------------------------
\* The OPEN

EdgeOpens(r) ==
  /\ cl.carrier = 0 /\ ~cl.fresh /\ ~cl.eof /\ cl.used = r - 1
  /\ cl' = [cl EXCEPT !.carrier = r, !.used = r]
  /\ rl' = [rl EXCEPT ![r].e = "open", ![r].asked = cl.down]
  /\ UNCHANGED b

Serving == {r \in R : rl[r].h \in {"user", "splice", "stop"}}

\* handle_mesh_connection and the first half of serve_relayed: probe_park says
\* whether a park is there, and takes nothing
HomeProbes(r) ==
  /\ rl[r].e # "off" /\ rl[r].h = "off"
  /\ rl' = IF b.at = Registry /\ Cardinality(Serving) < HomePermits
           THEN [rl EXCEPT ![r].h = "user"]
           ELSE [rl EXCEPT ![r] = Refused(@)]
  /\ UNCHANGED <<b, cl>>

EdgeAcked(r) ==
  /\ rl[r].e = "open" /\ rl[r].h = "user"
  /\ rl' = [rl EXCEPT ![r].e = "acked"]
  /\ UNCHANGED <<b, cl>>

\* Refused, or OPEN_ACK_WAIT elapsed: the edge serves a fresh session itself
EdgeNotAcked(r) ==
  /\ rl[r].e = "open" /\ (rl[r].h = "done" \/ "ackwait" \in Faults)
  /\ rl' = [rl EXCEPT ![r] = Hangup(@)]
  /\ cl' = [cl EXCEPT !.carrier = 0, !.fresh = TRUE]
  /\ UNCHANGED b

\* MeshUpstreamSetup::exchange: the client authenticated, its user is attested
Attest(r) ==
  /\ rl[r].e = "acked"
  /\ rl' = [rl EXCEPT ![r].e = "user", ![r].user = TRUE]
  /\ UNCHANGED <<b, cl>>

\* USER_FRAME_WAIT elapses, or the edge left without attesting
UserFrameFails(r) ==
  /\ rl[r].h = "user" /\ ~rl[r].user
  /\ rl[r].e = "dead" \/ "userwait" \in Faults
  /\ rl' = [rl EXCEPT ![r] = Refused(@)]
  /\ UNCHANGED <<b, cl>>

-----------------------------------------------------------------------------
\* The prologue

Ack(n) == [ack |-> TRUE, n |-> n]
Byte(n) == [ack |-> FALSE, n |-> n]

\* replay_from on the downlink ring: an evicted suffix is not replayed, and the
\* edge is not told
replay_from(from) ==
  IF from < b.start THEN <<>> ELSE [i \in 1 .. b.read - from |-> Byte(from + i)]

\* Mutant: a relay that finds the stream dead keeps the session it took
TakeAndDrop(r) ==
  /\ rl[r].h = "user" /\ rl[r].user
  /\ IF b.at = Registry /\ rl[r].dnEnd = "open"
     THEN /\ b' = [b EXCEPT !.at = r]
          /\ rl' = [rl EXCEPT ![r].h = "splice",
                      ![r].dn = IF rl[r].e = "dead" THEN <<>>
                                ELSE IF b.shape = "tcp"
                                THEN <<Ack(b.acked)>> \o replay_from(rl[r].asked)
                                ELSE <<Ack(0)>>]
     ELSE /\ b' = [b EXCEPT !.at = IF @ = Registry THEN r ELSE @]
          /\ rl' = [rl EXCEPT ![r] = Refused(@)]
  /\ UNCHANGED cl

\* The second probe and take_for_resume; the ack frame and the suffix the client
\* lacks go out before anything else.  A write that fails puts the bundle back.
HomeTakes(r) ==
  /\ rl[r].h = "user" /\ rl[r].user
  /\ IF b.at = Registry /\ rl[r].dnEnd = "open"
     THEN /\ b' = [b EXCEPT !.at = r]
          /\ rl' = [rl EXCEPT ![r].h = "splice",
                      ![r].dn = IF rl[r].e = "dead" THEN <<>>
                                ELSE IF b.shape = "tcp"
                                THEN <<Ack(b.acked)>> \o replay_from(rl[r].asked)
                                ELSE <<Ack(0)>>]
     ELSE rl' = [rl EXCEPT ![r] = Refused(@)] /\ UNCHANGED b
  /\ UNCHANGED cl

\* The edge reads the ack frame and tells the client where to continue
EdgeAttaches(r) ==
  /\ rl[r].e = "user" /\ rl[r].dn # <<>>
  /\ rl' = [rl EXCEPT ![r].e = "live", ![r].dn = Tail(@)]
  /\ cl' = [cl EXCEPT !.sent = IF b.shape = "tcp" THEN Head(rl[r].dn).n ELSE @]
  /\ UNCHANGED b

\* The exchange failed or timed out: the client is told to try again
EdgeAttachFails(r) ==
  /\ rl[r].e = "user" /\ rl[r].dn = <<>>
  /\ rl[r].dnEnd = "reset" \/ "ackwait" \in Faults
  /\ rl' = [rl EXCEPT ![r] = Hangup(@)]
  /\ cl' = [cl EXCEPT !.carrier = 0]
  /\ UNCHANGED b

-----------------------------------------------------------------------------
\* The end of a splice

\* SpliceEnd::stream_close
stream_close(fault) == IF fault THEN "reset" ELSE "fin"

\* A socket or a TCP upstream is parked as it stands; of NAT keys, only those
\* still detached, of a mux, only the sub-connections that survived the harvest
TcpParks(harvested) == TRUE
UdpParks(harvested) == harvested
SocketParks(harvested) == TRUE
MuxParks(harvested) == harvested

Parks(harvested) ==
  CASE b.shape = "tcp" -> TcpParks(harvested)
    [] b.shape = "udp" -> UdpParks(harvested)
    [] b.shape = "socket" -> SocketParks(harvested)
    [] b.shape = "mux" -> MuxParks(harvested)

\* SpliceEnd::reparks
End(r, fault, healthy, harvested) ==
  /\ b' = [b EXCEPT !.broken = @ \/ ~healthy,
                    !.at = IF healthy /\ Parks(harvested)
                           THEN Registry ELSE Closed]
  /\ rl' = [rl EXCEPT ![r].h = "done", ![r].cur = <<>>, ![r].up = <<>>, ![r].wr = 0,
              ![r].dnEnd = IF @ = "open" THEN stream_close(fault) ELSE @,
              ![r].dn = IF fault /\ rl[r].dnEnd = "open" THEN <<>> ELSE @]
  /\ UNCHANGED cl

\* The uplink pump is over; the downlink is stopped at its next read
Stop(r, end) == rl' = [rl EXCEPT ![r].h = "stop", ![r].end = end]

-----------------------------------------------------------------------------
\* The uplink pump of the home

HomeReads(r) ==
  /\ rl[r].h = "splice" /\ rl[r].cur = <<>> /\ rl[r].up # <<>>
  /\ rl' = [rl EXCEPT ![r].cur = Head(rl[r].up), ![r].up = Tail(@)]
  /\ UNCHANGED <<b, cl>>

\* Mutant: bytes are counted when the whole chunk is written
CountChunk(x) == IF Len(x.cur) = 1 THEN FrameLen ELSE 0

\* write_uplink_chunk counts what each write took
Counted(x) == 1

HomeWrites(r) ==
  /\ b.shape = "tcp" /\ rl[r].h = "splice" /\ rl[r].cur # <<>>
  /\ b' = [b EXCEPT !.target = Append(@, Head(rl[r].cur)), !.acked = @ + Counted(rl[r])]
  /\ rl' = [rl EXCEPT ![r].cur = Tail(@)]
  /\ UNCHANGED cl

\* A whole frame is handed on, or dropped where the shape allows it
Forward(r, dropped) ==
  /\ rl[r].h = "splice" /\ rl[r].cur # <<>>
  /\ b' = [b EXCEPT !.target = IF dropped THEN @ ELSE @ \o rl[r].cur]
  /\ rl' = [rl EXCEPT ![r].cur = <<>>]
  /\ UNCHANGED cl

\* relay_socks5_datagram, unless a concurrency limit is reached; a send that fails
\* is logged
RelayDatagram(r, dropped) == b.shape = "udp" /\ Forward(r, dropped)

\* One send on the parked socket; a short one is logged
SocketSends(r) == b.shape = "socket" /\ Forward(r, FALSE)

\* vless_mux::handle_client_bytes
MuxHandles(r) == b.shape = "mux" /\ Forward(r, FALSE)

\* The upstream fails, or takes nothing for the health budget
HomeWriteFails(r) ==
  /\ "upstream" \in Faults /\ b.shape # "udp" /\ rl[r].h = "splice" /\ rl[r].cur # <<>>
  /\ Stop(r, "upstream") /\ b' = [b EXCEPT !.broken = TRUE]
  /\ UNCHANGED cl

HomeUplinkEnds(r) ==
  /\ rl[r].h = "splice" /\ rl[r].cur = <<>> /\ rl[r].up = <<>> /\ rl[r].upEnd # "open"
  /\ Stop(r, IF rl[r].upEnd = "fin" THEN "ok" ELSE "mesh")
  /\ UNCHANGED <<b, cl>>

\* The downlink pump of the home

\* The read and the ring push that precedes the mesh write
PushRing(n) == [b EXCEPT !.read = n, !.start = IF n > Ring THEN n - Ring ELSE 0]

DownReads(r) ==
  /\ rl[r].h = "splice" /\ rl[r].wr = 0 /\ rl[r].dnEnd # "fin"
  /\ b.read < Down /\ ~b.broken
  /\ b' = PushRing(b.read + 1)
  /\ rl' = [rl EXCEPT ![r].wr = b.read + 1]
  /\ UNCHANGED cl

DownWrites(r) ==
  /\ rl[r].wr # 0 /\ rl[r].dnEnd = "open"
  /\ rl' = [rl EXCEPT ![r].wr = 0,
              ![r].dn = IF rl[r].e = "dead" THEN <<>> ELSE Append(@, Byte(rl[r].wr))]
  /\ UNCHANGED <<b, cl>>

\* A mux whose downlink broke may hold half a frame: it is not parked
deny_park == b.shape = "mux"

\* The edge stopped the stream, the mesh is gone, or it stalled past the budget:
\* while the uplink runs this ends the splice at once, cutting the uplink short.
DownWriteFails(r, harvested) ==
  /\ rl[r].wr # 0
  /\ rl[r].e = "dead" \/ rl[r].dnEnd = "reset" \/ "budget" \in Faults
  /\ IF rl[r].h = "splice"
     THEN End(r, TRUE, ~b.broken /\ ~deny_park, harvested)
     ELSE End(r, TRUE, rl[r].end # "upstream", harvested)

\* The upstream closed: the send half is finished and the uplink goes on
DownEof(r) ==
  /\ "eof" \in Faults /\ b.shape = "tcp"
  /\ rl[r].h = "splice" /\ rl[r].wr = 0 /\ rl[r].dnEnd = "open" /\ b.read = Down
  /\ rl' = [rl EXCEPT ![r].dnEnd = "fin"]
  /\ b' = [b EXCEPT !.broken = TRUE]
  /\ UNCHANGED cl

DownReadFails(r) ==
  /\ "upstream" \in Faults /\ b.shape \in {"tcp", "socket"}
  /\ rl[r].h = "splice" /\ rl[r].wr = 0 /\ rl[r].dnEnd = "open"
  /\ End(r, TRUE, FALSE, FALSE)

\* splice_end: both halves must have found the upstream healthy
HomeEnds(r, harvested) ==
  /\ rl[r].h = "stop" /\ rl[r].wr = 0
  /\ End(r, rl[r].end # "ok", ~b.broken, harvested)

-----------------------------------------------------------------------------
\* The edge and its client

Frame == [i \in 1 .. IF Up - cl.sent < FrameLen THEN Up - cl.sent ELSE FrameLen |-> cl.sent + i]

\* A write on a stream the home left fails; the client is told to try again
ClientSends(r) ==
  /\ rl[r].e = "live" /\ cl.sent < Up
  /\ IF rl[r].h = "done" \/ rl[r].upEnd # "open"
     THEN rl' = [rl EXCEPT ![r] = Hangup(@)] /\ cl' = [cl EXCEPT !.carrier = 0]
     ELSE /\ rl' = [rl EXCEPT ![r].up = Append(@, Frame)]
          /\ cl' = [cl EXCEPT !.sent = @ + Len(Frame)]
  /\ UNCHANGED b

\* UpstreamWriter::write_all stalls past the budget and resets the stream
EdgeStalls(r) ==
  /\ "budget" \in Faults /\ rl[r].e = "live" /\ rl[r].upEnd = "open"
  /\ rl' = [rl EXCEPT ![r] = [Hangup(@) EXCEPT !.up = <<>>, !.upEnd = "reset"]]
  /\ cl' = [cl EXCEPT !.carrier = 0]
  /\ UNCHANGED b

EdgeDelivers(r) ==
  /\ rl[r].e = "live" /\ rl[r].dn # <<>>
  /\ rl' = [rl EXCEPT ![r].dn = Tail(@)]
  /\ cl' = [cl EXCEPT !.exact = @ /\ Head(rl[r].dn) = Byte(cl.down + 1), !.down = @ + 1]
  /\ UNCHANGED b

\* The relay of the edge reads the end of the stream and closes the carrier
EdgeSeesFin(r) ==
  /\ rl[r].e = "live" /\ rl[r].dn = <<>> /\ rl[r].dnEnd = "fin"
  /\ rl' = [rl EXCEPT ![r] = Hangup(@)]
  /\ cl' = [cl EXCEPT !.carrier = 0, !.eof = TRUE]
  /\ UNCHANGED b

\* The client's carrier breaks, or the client replaces it
CarrierEnds(r) ==
  /\ rl[r].e \in {"acked", "user", "live"}
  /\ rl' = [rl EXCEPT ![r] = Hangup(@)]
  /\ cl' = [cl EXCEPT !.carrier = 0]
  /\ UNCHANGED b

MeshLost(r) ==
  /\ "mesh" \in Faults /\ rl[r].e # "off" /\ rl[r].h \in {"user", "splice"}
  /\ rl[r].upEnd # "reset"
  /\ rl' = [rl EXCEPT ![r].up = <<>>, ![r].upEnd = "reset", ![r].dn = <<>>,
                      ![r].dnEnd = "reset"]
  /\ UNCHANGED <<b, cl>>

Expire ==
  /\ "ttl" \in Faults /\ b.at = Registry
  /\ b' = [b EXCEPT !.at = Closed]
  /\ UNCHANGED <<rl, cl>>

Init ==
  /\ \E shape \in Shapes :
     b = [shape |-> shape, at |-> Registry, target |-> <<>>, acked |-> 0, read |-> 0,
          start |-> 0, broken |-> FALSE]
  /\ rl = [r \in R |-> NoRelay]
  /\ cl = [carrier |-> 0, used |-> 0, sent |-> 0, down |-> 0, exact |-> TRUE,
           eof |-> FALSE, fresh |-> FALSE]

Home(r) ==
  \/ HomeProbes(r) \/ UserFrameFails(r) \/ HomeTakes(r)
  \/ HomeReads(r) \/ HomeWrites(r) \/ SocketSends(r) \/ MuxHandles(r)
  \/ HomeUplinkEnds(r) \/ DownWrites(r)
  \/ \E k \in BOOLEAN : RelayDatagram(r, k) \/ DownWriteFails(r, k) \/ HomeEnds(r, k)

Next ==
  \/ \E r \in R :
       \/ Home(r)
       \/ EdgeOpens(r) \/ EdgeAcked(r) \/ EdgeNotAcked(r) \/ Attest(r)
       \/ EdgeAttaches(r) \/ EdgeAttachFails(r)
       \/ HomeWriteFails(r) \/ DownReads(r) \/ DownEof(r) \/ DownReadFails(r)
       \/ ClientSends(r) \/ EdgeStalls(r) \/ EdgeDelivers(r) \/ EdgeSeesFin(r)
       \/ CarrierEnds(r) \/ MeshLost(r)
  \/ Expire

Spec == Init /\ [][Next]_vars

\* The home's tasks run, and a write that cannot finish is cut by the budget
FairSpec == Spec /\ \A r \in R : WF_vars(Home(r))

-----------------------------------------------------------------------------
\* The target receives the client's bytes exactly once and in order, whatever
\* carrier each one came over and wherever a splice was cut: the count the next
\* edge is told is what the upstream took (write_uplink_chunk,
\* upstream_bytes_acked).
UplinkExact ==
  b.shape = "tcp" => \A i \in 1 .. Len(b.target) : b.target[i] = i

\* The client receives the target's bytes exactly once and in order across
\* carriers, and a clean end only after the last of them: a fault is never
\* mistaken for the end of the response (ring push before the write, replay_from,
\* stream_close).
DownlinkExact == b.shape = "tcp" => (cl.exact /\ (cl.eof => cl.down = Down))

CarrierGone(r) == b.at = r /\ rl[r].e = "dead"
BackOrBroken == b.at = Registry \/ b.broken \/ b.shape \in {"udp", "mux"}

\* A session whose carrier is gone goes back to the registry unless its upstream
\* failed: every way out of the splice hands the bundle back (reparks,
\* bundle_intact).
SessionComesBack == \A r \in R : CarrierGone(r) ~> BackOrBroken

=============================================================================
