---------------------------- MODULE VlessSession ----------------------------
(***************************************************************************)
(* A VLESS session of one client and the server, for the two single-flow   *)
(* commands: TCP and UDP.  The client dials carriers one after another;    *)
(* carrier c + 1 asks to resume the session carrier c was issued.          *)
(*                                                                         *)
(* Server, per carrier: the relay task (receives the client's messages,    *)
(* establishes the upstream, parks it when the carrier goes away), the     *)
(* reader task (upstream to the carrier's channel) and the writer task     *)
(* (channel to the network).  The two directions of a dead carrier fail    *)
(* at times of their own: the relay sees its receive end, the writer sees  *)
(* its send fail.                                                          *)
(*                                                                         *)
(* A TCP unit is a number 1..Up or 1..Down.  A UDP record is two halves,   *)
(* since its length prefix and its payload may arrive in different chunks  *)
(* on a carrier that keeps no message boundaries ("split").                *)
(***************************************************************************)
EXTENDS Integers, Sequences, SequencesExt

CONSTANTS
    Carriers,    \* 1 .. n, the carriers the client may dial, in order
    Shapes,      \* subset of {"tcp", "udp"}
    Up,          \* units (records) the client has to send
    Down,        \* units (records) the target has to send
    Ring,        \* units the downlink ring keeps
    ChanCap,     \* messages the carrier's outbound channel holds
    Faults       \* what may go wrong besides the loss of carriers

VARIABLES
    shape,       \* the command of the session
    client,      \* the client's ends of the current carrier
    wire,        \* carrier -> uplink pieces in flight
    broken,      \* the carriers the network has lost
    srv,         \* carrier -> relay task, reader task and writer task
    conn,        \* carrier -> the upstream that carrier opened
    parked,      \* carrier -> the session parked under that carrier's id
    seen         \* carrier -> messages the client received

vars == <<shape, client, wire, broken, srv, conn, parked, seen>>

NoPark == [conn |-> 0, buf |-> <<>>]

Idle == [st |-> "off", conn |-> 0, buf |-> <<>>, hdr |-> "held",
         reader |-> "none", unit |-> 0, cancel |-> FALSE,
         chan |-> <<>>, writer |-> "ok"]

Unopened == [open |-> FALSE, read |-> 0, acked |-> 0, wrote |-> <<>>]

Init ==
    /\ shape \in Shapes
    /\ client = [at |-> 0, hdr |-> FALSE, waits |-> FALSE, sent |-> 0,
                 rcv |-> <<>>]
    /\ wire = [c \in Carriers |-> <<>>]
    /\ broken = {}
    /\ srv = [c \in Carriers |-> Idle]
    /\ conn = [c \in Carriers |-> Unopened]
    /\ parked = [c \in Carriers |-> NoPark]
    /\ seen = [c \in Carriers |-> <<>>]

---------------------------------------------------------------------------
(* The client.                                                             *)

\* A new carrier: request header pending, response header expected.  A TCP
\* session that resumes first waits for the control frames.
Dial(c) ==
    /\ client.at = c - 1
    /\ c = 1 \/ c - 1 \in broken
    /\ srv' = [srv EXCEPT ![c].st = "live"]
    /\ client' = [client EXCEPT !.at = c, !.hdr = TRUE,
                                !.waits = shape = "tcp" /\ c > 1]
    /\ UNCHANGED <<shape, wire, broken, conn, parked, seen>>

Piece(h, u, p) == [hdr |-> h, unit |-> u, part |-> p]

\* The header of a resumed TCP session goes out without payload.
SendHeader ==
    LET c == client.at IN
    /\ c > 0 /\ c \notin broken /\ client.hdr /\ client.waits
    /\ wire' = [wire EXCEPT ![c] = Append(@, Piece(TRUE, 0, 0))]
    /\ client' = [client EXCEPT !.hdr = FALSE]
    /\ UNCHANGED <<shape, broken, srv, conn, parked, seen>>

send_chunk ==
    LET c == client.at IN
    /\ c > 0 /\ c \notin broken /\ shape = "tcp" /\ ~client.waits
    /\ client.sent < Up
    /\ wire' = [wire EXCEPT ![c] = Append(@, Piece(client.hdr, client.sent + 1, 0))]
    /\ client' = [client EXCEPT !.sent = @ + 1, !.hdr = FALSE]
    /\ UNCHANGED <<shape, broken, srv, conn, parked, seen>>

\* A record is handed to the carrier in one call.  A carrier that keeps no
\* boundaries may deliver its two halves as separate chunks.
send_packet ==
    LET c == client.at
        first == Piece(client.hdr, client.sent + 1, 1)
        second == Piece(FALSE, client.sent + 1, 2) IN
    /\ c > 0 /\ c \notin broken /\ shape = "udp" /\ client.sent < Up
    /\ \/ wire' = [wire EXCEPT ![c] = Append(@, [first EXCEPT !.part = 0])]
       \/ "split" \in Faults /\ wire' = [wire EXCEPT ![c] = @ \o <<first, second>>]
    /\ client' = [client EXCEPT !.sent = @ + 1, !.hdr = FALSE]
    /\ UNCHANGED <<shape, broken, srv, conn, parked, seen>>

\* The network loses carrier c with any tail of what is in flight.
Break(c) ==
    /\ client.at = c /\ c \notin broken
    /\ broken' = broken \cup {c}
    /\ \E n \in 0 .. Len(wire[c]) : wire' = [wire EXCEPT ![c] = SubSeq(@, 1, n)]
    /\ UNCHANGED <<shape, client, srv, conn, parked, seen>>

\* What the reader half of the client makes of a message.  A session that does
\* not find the control frames it waits for, or whose replay was truncated, is
\* given up (at = -1); else the uplink goes on where the server's count ends.
GiveUp == [client EXCEPT !.at = -1]

consume_downlink_replay(m) ==
    IF m.truncated THEN GiveUp
    ELSE [client EXCEPT !.waits = FALSE, !.sent = m.acked, !.rcv = @ \o m.units]

consume_ack_prefix(m) ==
    IF m.acked < 0 THEN GiveUp ELSE consume_downlink_replay(m)

read_chunk(m) == [client EXCEPT !.rcv = @ \o m.units]

\* UDP records need not all arrive: the client keeps no account of them.
Consume(m) ==
    IF shape = "udp" THEN client
    ELSE IF client.waits THEN consume_ack_prefix(m) ELSE read_chunk(m)

---------------------------------------------------------------------------
(* Server: establishing the upstream from the request header.              *)

Message(h, us) ==
    [hdr |-> h, units |-> us, acked |-> -1, truncated |-> FALSE, close |-> FALSE]

Range1(a, b) == [i \in 1 .. b - a |-> a + i]

\* replay_from(offset) of the downlink ring the session was parked with.
Oldest(k) == IF conn[k].read > Ring THEN conn[k].read - Ring ELSE 0

ReplayControls(k, offset) ==
    LET lost == offset < Oldest(k) \/ offset > conn[k].read IN
    [hdr |-> TRUE, acked |-> conn[k].acked, truncated |-> lost, close |-> FALSE,
     units |-> IF lost THEN <<>> ELSE Range1(offset, conn[k].read)]

\* The resume request of carrier c: the id issued to carrier c - 1.
Requested(c) == IF c = 1 THEN NoPark ELSE parked[c - 1]
ParkInProgress(c) == c > 1 /\ srv[c - 1].st = "parking"

\* The writes of the relay: TCP payload is counted once written.
Written(k, u) ==
    IF u = 0 THEN conn[k]
    ELSE [conn[k] EXCEPT !.wrote = Append(@, <<u>>), !.acked = @ + 1]

\* A parked TCP session: the header leads the control frames at once, the
\* reader goes on with the ring it inherits.
TcpHit(c, p, k) ==
    /\ srv' = [srv EXCEPT ![c].conn = k, ![c].reader = "read", ![c].hdr = "sent",
                          ![c].chan = Append(@, ReplayControls(k, Len(client.rcv)))]
    /\ conn' = [conn EXCEPT ![k] = Written(k, p.unit)]

\* Whole records leave the buffer; what remains is an incomplete record.
Halves(p) ==
    IF p.part = 0 THEN <<Piece(FALSE, p.unit, 1), Piece(FALSE, p.unit, 2)>> ELSE <<p>>

Records(h) == [i \in 1 .. Len(h) \div 2 |-> <<h[2 * i - 1], h[2 * i]>>]
Rest(h) == SubSeq(h, 2 * (Len(h) \div 2) + 1, Len(h))

Forwarded(k, h) ==
    [conn[k] EXCEPT !.wrote =
        @ \o [i \in DOMAIN Records(h) |-> <<Records(h)[i][1].unit, Records(h)[i][2].unit>>]]

\* A parked UDP session: header held for the first record, the incomplete
\* record of the previous carrier in front of what this one brings.
UdpHit(c, p, k) ==
    LET h == Requested(c).buf \o Halves(p) IN
    /\ srv' = [srv EXCEPT ![c].conn = k, ![c].reader = "read", ![c].buf = Rest(h)]
    /\ conn' = [conn EXCEPT ![k] = Forwarded(k, h)]

\* No parked session: a new upstream, header held for its first data.
FreshTcp(c, p) ==
    /\ srv' = [srv EXCEPT ![c].conn = c, ![c].reader = "read"]
    /\ conn' = [conn EXCEPT ![c] = [Written(c, p.unit) EXCEPT !.open = TRUE]]

FreshUdp(c, p) ==
    LET h == Halves(p) IN
    /\ srv' = [srv EXCEPT ![c].conn = c, ![c].reader = "read", ![c].buf = Rest(h)]
    /\ conn' = [conn EXCEPT ![c] = [Forwarded(c, h) EXCEPT !.open = TRUE]]

\* A frame that ends the session with an error: no park, the reader goes with
\* the relay's state.
Refused(c) ==
    /\ srv' = [srv EXCEPT ![c].st = "done", ![c].reader = "aborted",
                          ![c].chan = <<>>, ![c].writer = "dead"]
    /\ conn' = IF srv[c].conn = 0 THEN conn
               ELSE [conn EXCEPT ![srv[c].conn].open = FALSE]

\* The first message: parse the header, find the user, then resume or connect.
\* take_for_resume waits while the session's park is in progress.
Establish(c) ==
    LET p == Head(wire[c])
        k == Requested(c).conn IN
    /\ srv[c].st = "live" /\ srv[c].conn = 0 /\ wire[c] # <<>> /\ p.hdr
    /\ ~ParkInProgress(c)
    /\ wire' = [wire EXCEPT ![c] = Tail(@)]
    /\ \/ k # 0 /\ shape = "tcp" /\ TcpHit(c, p, k)
       \/ k # 0 /\ shape = "udp" /\ UdpHit(c, p, k)
       \/ k = 0 /\ shape = "tcp" /\ FreshTcp(c, p)
       \/ k = 0 /\ shape = "udp" /\ FreshUdp(c, p)
       \/ k = 0 /\ "connect" \in Faults /\ Refused(c)
    /\ parked' = IF c = 1 THEN parked ELSE [parked EXCEPT ![c - 1] = NoPark]
    /\ UNCHANGED <<shape, client, broken, seen>>

\* A message of an established session.
HandleBinary(c) ==
    LET p == Head(wire[c])
        k == srv[c].conn
        h == srv[c].buf \o Halves(p) IN
    /\ srv[c].st = "live" /\ k # 0 /\ wire[c] # <<>>
    /\ wire' = [wire EXCEPT ![c] = Tail(@)]
    /\ \/ shape = "tcp" /\ conn' = [conn EXCEPT ![k] = Written(k, p.unit)]
                        /\ UNCHANGED srv
       \/ shape = "udp" /\ conn' = [conn EXCEPT ![k] = Forwarded(k, h)]
                        /\ srv' = [srv EXCEPT ![c].buf = Rest(h)]
       \/ "upstream" \in Faults /\ Refused(c)
    /\ UNCHANGED <<shape, client, broken, parked, seen>>

---------------------------------------------------------------------------
(* Server: the reader task.                                                *)

Unread(c) == conn[srv[c].conn].read < Down

\* Data is counted into the ring before it is sent.
ReaderReads(c) ==
    /\ srv[c].reader = "read" /\ ~srv[c].cancel /\ Unread(c)
    /\ srv' = [srv EXCEPT ![c].reader = "send", ![c].unit = conn[srv[c].conn].read + 1]
    /\ conn' = [conn EXCEPT ![srv[c].conn].read = @ + 1]
    /\ UNCHANGED <<shape, client, wire, broken, parked, seen>>

\* The stop signal: looked at between reads, by the UDP pump also while it
\* waits for room or after the carrier has gone.
ReaderStops(c) ==
    /\ srv[c].cancel
    /\ \/ srv[c].reader = "read"
       \/ shape = "udp" /\ srv[c].reader \in {"send", "gone"}
    /\ srv' = [srv EXCEPT ![c].reader = "cancelled"]
    /\ UNCHANGED <<shape, client, wire, broken, conn, parked, seen>>

Room(c) == Len(srv[c].chan) < ChanCap

\* The held header travels in front of the first message.
ReaderSends(c) ==
    /\ srv[c].reader = "send" /\ srv[c].writer # "dead" /\ Room(c)
    /\ ~(shape = "udp" /\ srv[c].cancel)
    /\ srv' = [srv EXCEPT ![c].reader = "read", ![c].hdr = "sent",
                          ![c].chan = Append(@, Message(srv[c].hdr = "held",
                                                        <<srv[c].unit>>))]
    /\ UNCHANGED <<shape, client, wire, broken, conn, parked, seen>>

\* The channel is closed under the send.
ReaderFails(c) ==
    /\ srv[c].reader = "send" /\ srv[c].writer = "dead"
    /\ srv' = [srv EXCEPT ![c].reader = IF shape = "udp" THEN "gone" ELSE "failed"]
    /\ UNCHANGED <<shape, client, wire, broken, conn, parked, seen>>

\* The target closes: a header still held goes out, then the close.
TargetEof(c) ==
    /\ "eof" \in Faults
    /\ srv[c].reader = "read" /\ ~srv[c].cancel
    /\ srv[c].writer = "dead" \/ Room(c)
    /\ srv' = [srv EXCEPT ![c].reader = "closed", ![c].hdr = "sent",
                  ![c].chan = IF srv[c].writer = "dead" THEN @
                              ELSE Append(@, [Message(srv[c].hdr = "held", <<>>)
                                                EXCEPT !.close = TRUE])]
    /\ UNCHANGED <<shape, client, wire, broken, conn, parked, seen>>

---------------------------------------------------------------------------
(* Server: the writer task.                                                *)

WriterSends(c) ==
    LET m == Head(srv[c].chan) IN
    /\ srv[c].writer = "ok" /\ srv[c].chan # <<>> /\ c \notin broken
    /\ srv' = [srv EXCEPT ![c].chan = Tail(@)]
    /\ seen' = [seen EXCEPT ![c] = Append(@, m)]
    /\ client' = IF client.at = c THEN Consume(m) ELSE client
    /\ UNCHANGED <<shape, wire, broken, conn, parked>>

\* The send fails; what is queued goes with the channel.
WriterDies(c) ==
    /\ srv[c].st # "off" /\ srv[c].writer # "dead" /\ c \in broken
    /\ srv' = [srv EXCEPT ![c].writer = "dead", ![c].chan = <<>>]
    /\ UNCHANGED <<shape, client, wire, broken, conn, parked, seen>>

\* The client stopped reading: the send neither succeeds nor fails.
WriterStalls(c) ==
    /\ "stall" \in Faults
    /\ srv[c].st = "live" /\ srv[c].writer = "ok" /\ c \notin broken
    /\ srv' = [srv EXCEPT ![c].writer = "stuck"]
    /\ broken' = broken \cup {c}
    /\ UNCHANGED <<shape, client, wire, conn, parked, seen>>

---------------------------------------------------------------------------
(* Server: the end of the carrier.                                         *)

\* The receive side ends (end of stream, reset, keepalive deadline) once the
\* messages that arrived are handled; the park asks the reader to stop.
RelayEnds(c) ==
    /\ srv[c].st = "live" /\ c \in broken /\ wire[c] = <<>>
    /\ srv' = [srv EXCEPT ![c].st = IF srv[c].conn = 0 THEN "done" ELSE "parking",
                          ![c].cancel = srv[c].conn # 0]
    /\ UNCHANGED <<shape, client, wire, broken, conn, parked, seen>>

\* A reader that stopped when asked is parked, with its counter and ring or
\* with its incomplete record; one that ended by itself is shut down.
Park(c) ==
    /\ srv[c].reader = "cancelled"
    /\ parked' = [parked EXCEPT ![c] = [conn |-> srv[c].conn, buf |-> srv[c].buf]]
    /\ UNCHANGED conn

Shutdown(c) ==
    /\ srv[c].reader \in {"failed", "closed"}
    /\ conn' = [conn EXCEPT ![srv[c].conn].open = FALSE]
    /\ UNCHANGED parked

ParkEnds(c) ==
    /\ srv[c].st = "parking"
    /\ srv' = [srv EXCEPT ![c].st = "done"]
    /\ Park(c) \/ Shutdown(c)
    /\ UNCHANGED <<shape, client, wire, broken, seen>>

\* PARK_HARVEST_WAIT runs out before a UDP pump answered.
ParkTimesOut(c) ==
    /\ "timeout" \in Faults /\ shape = "udp" /\ srv[c].st = "parking"
    /\ srv[c].reader \in {"read", "send", "gone"}
    /\ srv' = [srv EXCEPT ![c].st = "done", ![c].reader = "aborted"]
    /\ conn' = [conn EXCEPT ![srv[c].conn].open = FALSE]
    /\ UNCHANGED <<shape, client, wire, broken, parked, seen>>

\* The registry drops a parked session: its time to live is over.
Expire(c) ==
    /\ "ttl" \in Faults /\ parked[c].conn # 0
    /\ conn' = [conn EXCEPT ![parked[c].conn].open = FALSE]
    /\ parked' = [parked EXCEPT ![c] = NoPark]
    /\ UNCHANGED <<shape, client, wire, broken, srv, seen>>

---------------------------------------------------------------------------

ServerStep(c) ==
    \/ Establish(c) \/ HandleBinary(c)
    \/ ReaderReads(c) \/ ReaderStops(c) \/ ReaderSends(c) \/ ReaderFails(c)
    \/ WriterSends(c) \/ WriterDies(c)
    \/ RelayEnds(c) \/ ParkEnds(c)

Next ==
    \/ SendHeader \/ send_chunk \/ send_packet
    \/ \E c \in Carriers :
          \/ Dial(c) \/ Break(c) \/ ServerStep(c)
          \/ TargetEof(c) \/ WriterStalls(c) \/ ParkTimesOut(c) \/ Expire(c)

Spec == Init /\ [][Next]_vars

\* The tasks of the server run; the network, the client and the target owe
\* nothing.  The writer's failure is the network's to report: with a client
\* that merely stopped reading it may never come.
TaskStep(c) ==
    \/ Establish(c) \/ HandleBinary(c)
    \/ ReaderReads(c) \/ ReaderStops(c) \/ ReaderSends(c) \/ ReaderFails(c)
    \/ RelayEnds(c) \/ ParkEnds(c)

FairSpec == Spec /\ \A c \in Carriers : WF_vars(TaskStep(c))

---------------------------------------------------------------------------

\* The response header opens every carrier's downlink and appears nowhere else,
\* whatever the first message is: relayed data, the control frames of a resume
\* or the close of a target that sent nothing.
HeaderOpensCarrier ==
    \A c \in Carriers : \A i \in DOMAIN seen[c] : seen[c][i].hdr <=> i = 1

\* The TCP stream is exact in both directions across carriers: the client holds
\* an unbroken prefix of what the target sent, and an upstream was written an
\* unbroken prefix of what the client sent.
StreamExact ==
    shape = "tcp" =>
        /\ client.rcv = Range1(0, Len(client.rcv))
        /\ \A c \in Carriers :
              conn[c].wrote = [i \in 1 .. Len(conn[c].wrote) |-> <<i>>]

\* A UDP carrier that goes away does not cost the session its socket: when the
\* relay is done and nothing but the carrier failed, the socket is parked or a
\* later carrier has it.
DropKeepsSocket ==
    (shape = "udp" /\ Faults \cap {"timeout", "ttl", "upstream", "eof"} = {}) =>
        \A c \in Carriers : conn[c].open \/ conn[c] = Unopened

Parking(c) == srv[c].st = "parking"
ParkDone(c) == srv[c].st = "done"

\* A park never waits on a carrier the client stopped reading: the relay of a
\* lost carrier ends.
ParkFinishes == \A c \in Carriers : Parking(c) ~> ParkDone(c)

=============================================================================
