-------------------------- MODULE CarrierMigration --------------------------
(***************************************************************************)
(* One TUN TCP flow and the server session behind it, across carrier       *)
(* deaths and operator soft switches.                                      *)
(*                                                                         *)
(* Client (outline-tun/src/tcp): the read loop fills the flow's buffer,    *)
(* the upstream pump drains it into the carrier, the upstream reader takes *)
(* the downlink and, when the carrier dies, dials a fresh one that resumes *)
(* the parked session.  Pump and reader share the flow (flow lock, one     *)
(* action per critical section) and the carrier (carrier lock, held by the *)
(* pump at "send" and by the reader at "replay").                          *)
(*                                                                         *)
(* Server (outline-ss-rust/src/server): the relay loop of each carrier     *)
(* forwards the uplink to the upstream, the relay task reads the upstream  *)
(* into the downlink; a carrier's end parks the upstream, a resume request *)
(* takes it.  The park registry itself is OrphanRegistry; here it is one   *)
(* slot that may be lost at any time.                                      *)
(*                                                                         *)
(* A byte is its offset in its stream, a run of bytes [from, to).  Carrier *)
(* k is the k-th dial of the flow, and k also names the Session ID minted  *)
(* on it (resumption is enabled on both sides).                            *)
(***************************************************************************)
EXTENDS Integers, Sequences, RingWindow

CONSTANTS MaxUp, MaxDown,   \* bounds: bytes of each stream
          MaxDials,         \* bound: carriers dialled after the first
          UpCap,            \* TUN_UPLINK_REPLAY_RING_BYTES
          DownCap,          \* downlink_buffer_bytes
          MaxAttempts,      \* TUN_TCP_MIGRATION_MAX_ATTEMPTS
          SymmetricReplay,  \* both sides negotiated the v2 downlink replay
          SoftSwitches,     \* the group is shared_resume: soft switches occur
          None

ASSUME MigrationAssumption ==
  /\ MaxUp \in Nat /\ MaxDown \in Nat /\ MaxDials \in Nat
  /\ UpCap \in Nat /\ DownCap \in Nat /\ MaxAttempts \in Nat \ {0}
  /\ SymmetricReplay \in BOOLEAN /\ SoftSwitches \in BOOLEAN
  /\ None \notin Nat /\ None \notin Window

Conns == 0..MaxDials

VARIABLES
  \* the flow, under the flow lock
  status,               \* open, fin (client half-closed) or closed
  written, taken,       \* bytes buffered by the read loop / popped by the pump
  replay,               \* the uplink replay ring, or None once overflowed
  session_id, carrier_epoch, phase, attempts,
  client_acked_offset,  \* downlink bytes accepted
  permit,               \* a stored carrier_migration notification
  \* the carrier, under its own lock
  carrier,
  \* the two tasks
  pump, reader,
  \* the network
  dials, net, uplink, downlink,
  \* the server
  request,              \* resume headers of the latest dial
  session,              \* what the server runs on each carrier
  attached, parked,     \* the carrier / the ID that holds the upstream
  relay,                \* the upstream's relay task
  upstream_bytes_acked, downlink_ring,
  \* history: a byte arrived that is not the next one of its stream
  torn_up, torn_down

flow_vars == <<status, written, taken, replay, session_id, carrier_epoch,
               phase, attempts>>
net_vars == <<dials, net, uplink, downlink, request>>
server_vars == <<session, attached, parked, relay, upstream_bytes_acked,
                 downlink_ring, torn_up>>
vars == <<flow_vars, client_acked_offset, torn_down, permit, carrier, pump,
          reader, net_vars, server_vars>>

(* Bytes from .. to - 1 of a stream; a frame may carry none. *)
Run == {r \in [from : Nat, to : Nat] : r.from < r.to}
Frame == {f \in [kind : {"data", "ack", "replay", "truncated", "fresh", "close"},
                 from : Nat, to : Nat] : f.from <= f.to}
PumpPc == {"pop", "lock", "send", "verdict", "asleep", "closing", "done"}
ReaderPc == {"read", "plan", "retire", "dial", "v1", "v2", "commit", "replay",
             "deliver", "finish", "giveup", "teardown", "ended"}

(* A task between batches, between migrations, or at its end holds nothing. *)
PumpIdle(pc) == [pc |-> pc, from |-> 0, to |-> 0, epoch |-> 0, sent |-> FALSE,
                 armed |-> FALSE]
ReaderIdle(pc) == [pc |-> pc, soft |-> FALSE, fresh |-> None, up_acked |-> 0,
                   upto |-> 0, from |-> 0, to |-> 0]

Init ==
  /\ status = "open" /\ written = 0 /\ taken = 0
  /\ replay = EmptyWindow
  /\ session_id = 0 /\ carrier_epoch = 0 /\ phase = "Idle" /\ attempts = 0
  /\ client_acked_offset = 0 /\ torn_down = FALSE /\ permit = FALSE
  /\ carrier = [conn |-> 0, epoch |-> 0]
  /\ pump = PumpIdle("pop")
  /\ reader = ReaderIdle("read")
  /\ dials = 0
  /\ net = [c \in Conns |-> IF c = 0 THEN "open" ELSE "unused"]
  /\ uplink = [c \in Conns |-> <<>>] /\ downlink = [c \in Conns |-> <<>>]
  /\ request = [id |-> None, down_acked |-> 0]
  /\ session = [c \in Conns |-> IF c = 0 THEN "live" ELSE "none"]
  /\ attached = 0 /\ parked = None /\ relay = "running"
  /\ upstream_bytes_acked = 0 /\ downlink_ring = EmptyWindow /\ torn_up = FALSE

-----------------------------------------------------------------------------
(* FlowResume.                                                             *)

migration_in_flight == phase = "InFlight"

(* A dial is always issued a Session ID here, and the deadline of a series can
   only pass while phase is InFlight or Abandoned, where it is not consulted. *)
can_attempt_migration ==
  /\ phase # "Abandoned"
  /\ replay # None
  /\ attempts < MaxAttempts

(* record_uplink_batch of the chunks that begin at cuts: a chunk larger than
   the ring drops the ring. *)
record_uplink_batch(cuts, to) ==
  IF \/ replay = None
     \/ \E s \in cuts : s + UpCap < to /\ cuts \cap (s + 1)..(s + UpCap) = {}
  THEN None
  ELSE PushChunks(replay, cuts, to, UpCap)

-----------------------------------------------------------------------------
(* The TUN client.                                                         *)

(* The read loop buffers a byte of the client. *)
ClientWrite ==
  /\ status = "open" /\ written < MaxUp
  /\ written' = written + 1
  /\ UNCHANGED <<status, taken, replay, session_id, carrier_epoch, phase,
                 attempts, client_acked_offset, torn_down, permit, carrier,
                 pump, reader, net_vars, server_vars>>

ClientFin ==
  /\ status = "open"
  /\ status' = "fin"
  /\ UNCHANGED <<written, taken, replay, session_id, carrier_epoch, phase,
                 attempts, client_acked_offset, torn_down, permit, carrier,
                 pump, reader, net_vars, server_vars>>

(* The flow is reset or closed from elsewhere (client RST, idle, eviction). *)
FlowClose ==
  /\ status # "closed"
  /\ status' = "closed"
  /\ UNCHANGED <<written, taken, replay, session_id, carrier_epoch, phase,
                 attempts, client_acked_offset, torn_down, permit, carrier,
                 pump, reader, net_vars, server_vars>>

(* Whoever closed the flow closes its carrier's writer next, once it gets the
   carrier lock. *)
close_upstream_writer ==
  /\ status = "closed" /\ pump.pc # "send" /\ reader.pc # "replay"
  /\ net[carrier.conn] = "open"
  /\ net' = [net EXCEPT ![carrier.conn] = "closed"]
  /\ UNCHANGED <<flow_vars, client_acked_offset, torn_down, permit, carrier,
                 pump, reader, dials, uplink, downlink, request, server_vars>>

-----------------------------------------------------------------------------
(* The upstream pump.                                                      *)

pump_frame == <<client_acked_offset, torn_down, carrier, reader, dials, net,
                downlink, request, server_vars>>

(* Takes a batch and mirrors it into the ring, in one critical section. *)
PumpPop ==
  /\ pump.pc = "pop" /\ status # "closed" /\ ~migration_in_flight
  /\ \E to \in (taken + 1)..written : \E more \in SUBSET ((taken + 1)..(to - 1)) :
       /\ replay' = record_uplink_batch({taken} \cup more, to)
       /\ taken' = to
       /\ pump' = [pump EXCEPT !.pc = "lock", !.from = taken, !.to = to,
                               !.epoch = carrier_epoch]
  /\ UNCHANGED <<status, written, session_id, carrier_epoch, phase, attempts,
                 permit, uplink, pump_frame>>

(* Popped::Migrating, also on the way to a half-close. *)
PumpPopMigrating ==
  /\ pump.pc = "pop" /\ status # "closed" /\ migration_in_flight
  /\ taken < written \/ status = "fin"
  /\ pump' = [PumpIdle("verdict") EXCEPT !.epoch = carrier_epoch]
  /\ UNCHANGED <<flow_vars, permit, uplink, pump_frame>>

(* The carrier lock is taken; a batch of an older epoch is dropped. *)
PumpLockAnyEpoch ==
  /\ pump.pc = "lock" /\ reader.pc # "replay"
  /\ pump' = [pump EXCEPT !.pc = "send"]
  /\ UNCHANGED <<flow_vars, permit, uplink, pump_frame>>

PumpLock ==
  /\ pump.pc = "lock" /\ reader.pc # "replay"
  /\ pump' = IF carrier.epoch # pump.epoch THEN PumpIdle("pop")
             ELSE [pump EXCEPT !.pc = "send"]
  /\ UNCHANGED <<flow_vars, permit, uplink, pump_frame>>

(* send_chunk queues the batch on the carrier.  On a carrier that broke it may
   also vanish in a buffer nobody drains any more. *)
PumpSend ==
  /\ pump.pc = "send" /\ net[carrier.conn] \in {"open", "broken"}
  /\ uplink' = IF net[carrier.conn] = "open"
               THEN [uplink EXCEPT ![carrier.conn] =
                       Append(@, [from |-> pump.from, to |-> pump.to])]
               ELSE uplink
  /\ pump' = PumpIdle("pop")
  /\ UNCHANGED <<flow_vars, permit, pump_frame>>

PumpSendError ==
  /\ pump.pc = "send" /\ net[carrier.conn] # "open"
  /\ pump' = [PumpIdle("verdict") EXCEPT !.epoch = pump.epoch, !.sent = TRUE]
  /\ UNCHANGED <<flow_vars, permit, uplink, pump_frame>>

(* One round of await_carrier_verdict.  The grace timer is armed only if no
   migration is in flight when the wait begins. *)
PumpVerdict ==
  /\ pump.pc = "verdict" /\ status # "closed"
  /\ \/ /\ carrier_epoch # pump.epoch
        /\ pump' = PumpIdle("pop")
        /\ UNCHANGED status
     \/ /\ carrier_epoch = pump.epoch
        /\ migration_in_flight \/ can_attempt_migration
        /\ pump' = [pump EXCEPT !.pc = "asleep", !.armed = ~migration_in_flight]
        /\ UNCHANGED status
     \/ /\ carrier_epoch = pump.epoch
        /\ ~migration_in_flight /\ ~can_attempt_migration
        /\ pump' = PumpIdle(IF pump.sent THEN "done" ELSE "pop")
        /\ status' = IF pump.sent THEN "closed" ELSE status
  /\ UNCHANGED <<written, taken, replay, session_id, carrier_epoch, phase,
                 attempts, permit, uplink, pump_frame>>

PumpWake ==
  /\ pump.pc = "asleep" /\ permit
  /\ permit' = FALSE
  /\ pump' = [pump EXCEPT !.pc = "verdict", !.armed = FALSE]
  /\ UNCHANGED <<flow_vars, uplink, pump_frame>>

(* CARRIER_MIGRATION_START_GRACE runs out: the verdict is Abandoned, and a pump
   whose send had failed resets the flow. *)
PumpGrace ==
  /\ pump.pc = "asleep" /\ pump.armed /\ status # "closed"
  /\ pump' = PumpIdle(IF pump.sent THEN "done" ELSE "pop")
  /\ status' = IF pump.sent THEN "closed" ELSE status
  /\ UNCHANGED <<written, taken, replay, session_id, carrier_epoch, phase,
                 attempts, permit, uplink, pump_frame>>

(* Buffer drained and the client half-closed: the flow lock is dropped, then
   the carrier's writer is closed under the carrier lock. *)
PumpFin ==
  /\ pump.pc = "pop" /\ status = "fin" /\ taken = written
  /\ ~migration_in_flight
  /\ pump' = PumpIdle("closing")
  /\ UNCHANGED <<flow_vars, permit, uplink, pump_frame>>

PumpClose ==
  /\ pump.pc = "closing" /\ reader.pc # "replay"
  /\ net' = [net EXCEPT ![carrier.conn] = IF @ = "open" THEN "closed" ELSE @]
  /\ pump' = PumpIdle("done")
  /\ UNCHANGED <<flow_vars, client_acked_offset, torn_down, permit, carrier,
                 reader, dials, uplink, downlink, request, server_vars>>

PumpExit ==
  /\ pump.pc \in {"pop", "verdict", "asleep"} /\ status = "closed"
  /\ pump' = PumpIdle("done")
  /\ UNCHANGED <<flow_vars, permit, uplink, pump_frame>>

-----------------------------------------------------------------------------
(* The upstream reader.  While it reads, it reads the installed carrier.   *)

In == downlink[carrier.conn]
reader_frame == <<written, taken, replay, pump, uplink, dials, request,
                  server_vars>>

Goto(pc) == reader' = [reader EXCEPT !.pc = pc]

(* A chunk of the downlink joins the flow's server buffer. *)
ReaderChunk ==
  /\ reader.pc = "read" /\ status # "closed"
  /\ In # <<>> /\ Head(In).kind = "data"
  /\ client_acked_offset' = client_acked_offset + Head(In).to - Head(In).from
  /\ torn_down' = (torn_down \/ Head(In).from # client_acked_offset)
  /\ downlink' = [downlink EXCEPT ![carrier.conn] = Tail(@)]
  /\ UNCHANGED <<status, session_id, carrier_epoch, phase, attempts, permit,
                 carrier, reader, net, reader_frame>>

(* A clean end: the server's Close frame, or the answer to our own. *)
ReaderEof ==
  /\ reader.pc = "read" /\ status # "closed"
  /\ \/ In # <<>> /\ Head(In).kind = "close"
     \/ In = <<>> /\ net[carrier.conn] = "closed" /\ session[carrier.conn] = "over"
  /\ reader' = ReaderIdle("ended")
  /\ UNCHANGED <<status, session_id, carrier_epoch, phase, attempts,
                 client_acked_offset, torn_down, permit, carrier, net, downlink,
                 reader_frame>>

(* A dirty end of the carrier, or the group repointed while it is healthy. *)
ReaderDied ==
  /\ reader.pc = "read" /\ status # "closed"
  /\ In = <<>> /\ net[carrier.conn] = "broken"
  /\ reader' = ReaderIdle("plan")
  /\ UNCHANGED <<status, session_id, carrier_epoch, phase, attempts,
                 client_acked_offset, torn_down, permit, carrier, net, downlink,
                 reader_frame>>

ReaderSoftMigrate ==
  /\ SoftSwitches
  /\ reader.pc = "read" /\ status # "closed"
  /\ reader' = [ReaderIdle("plan") EXCEPT !.soft = TRUE]
  /\ UNCHANGED <<status, session_id, carrier_epoch, phase, attempts,
                 client_acked_offset, torn_down, permit, carrier, net, downlink,
                 reader_frame>>

ReaderExit ==
  /\ reader.pc = "read" /\ status = "closed"
  /\ reader' = ReaderIdle("ended")
  /\ UNCHANGED <<status, session_id, carrier_epoch, phase, attempts,
                 client_acked_offset, torn_down, permit, carrier, net, downlink,
                 reader_frame>>

(* plan_migration: claim an attempt under the flow lock. *)
PlanMigration ==
  /\ reader.pc = "plan"
  /\ IF status # "closed" /\ can_attempt_migration
     THEN /\ phase' = "InFlight" /\ attempts' = attempts + 1
          /\ Goto(IF reader.soft THEN "retire" ELSE "dial")
     ELSE /\ Goto("teardown")
          /\ UNCHANGED <<phase, attempts>>
  /\ UNCHANGED <<status, session_id, carrier_epoch, client_acked_offset,
                 torn_down, permit, carrier, net, downlink, reader_frame>>

(* A soft switch closes the healthy carrier, so that the server parks. *)
RetireCarrier ==
  /\ reader.pc = "retire" /\ pump.pc # "send"
  /\ net' = [net EXCEPT ![carrier.conn] = IF @ = "open" THEN "closed" ELSE @]
  /\ downlink' = [downlink EXCEPT ![carrier.conn] = <<>>]
  /\ Goto("dial")
  /\ UNCHANGED <<status, session_id, carrier_epoch, phase, attempts,
                 client_acked_offset, torn_down, permit, carrier, reader_frame>>

(* redial_tcp_uplink_for_migration, with the resume headers. *)
Redial ==
  /\ reader.pc = "dial" /\ dials < MaxDials
  /\ dials' = dials + 1
  /\ net' = [net EXCEPT ![dials + 1] = "open"]
  /\ session' = [session EXCEPT ![dials + 1] = "resuming"]
  /\ request' = [id |-> session_id, down_acked |-> client_acked_offset]
  /\ reader' = [reader EXCEPT !.pc = "v1", !.fresh = dials + 1]
  /\ UNCHANGED <<flow_vars, client_acked_offset, torn_down, permit, carrier,
                 pump, uplink, downlink, attached, parked, relay,
                 upstream_bytes_acked, downlink_ring, torn_up>>

RedialFailed ==
  /\ reader.pc = "dial"
  /\ Goto("giveup")
  /\ UNCHANGED <<status, session_id, carrier_epoch, phase, attempts,
                 client_acked_offset, torn_down, permit, carrier, net, downlink,
                 reader_frame>>

(* attach_resumed_carrier.  Only an Ack-Prefix frame confirms the hit. *)
FreshIn == downlink[reader.fresh]

ConsumeAckPrefix ==
  /\ reader.pc = "v1"
  /\ FreshIn # <<>> /\ Head(FreshIn).kind = "ack"
  /\ reader' = [reader EXCEPT !.pc = "v2", !.up_acked = Head(FreshIn).from]
  /\ downlink' = [downlink EXCEPT ![reader.fresh] = Tail(@)]
  /\ UNCHANGED <<status, session_id, carrier_epoch, phase, attempts,
                 client_acked_offset, torn_down, permit, carrier, net,
                 reader_frame>>

(* The downlink replay frame, expected iff v2 was negotiated. *)
ConsumeDownlinkReplay ==
  /\ reader.pc = "v2"
  /\ IF ~SymmetricReplay
     THEN Goto("commit") /\ UNCHANGED downlink
     ELSE /\ FreshIn # <<>> /\ Head(FreshIn).kind = "replay"
          /\ reader' = [reader EXCEPT !.pc = "commit", !.from = Head(FreshIn).from,
                                      !.to = Head(FreshIn).to]
          /\ downlink' = [downlink EXCEPT ![reader.fresh] = Tail(@)]
  /\ UNCHANGED <<status, session_id, carrier_epoch, phase, attempts,
                 client_acked_offset, torn_down, permit, carrier, net,
                 reader_frame>>

(* Any other frame, a truncated replay, the carrier's end, or the timeout. *)
ConsumeFailedResumes ==
  /\ reader.pc \in {"v1", "v2"}
  /\ Goto(IF reader.pc = "v1" THEN "commit" ELSE "giveup")
  /\ UNCHANGED <<status, session_id, carrier_epoch, phase, attempts,
                 client_acked_offset, torn_down, permit, carrier, net, downlink,
                 reader_frame>>

ConsumeFailed ==
  /\ reader.pc \in {"v1", "v2"}
  /\ Goto("giveup")
  /\ UNCHANGED <<status, session_id, carrier_epoch, phase, attempts,
                 client_acked_offset, torn_down, permit, carrier, net, downlink,
                 reader_frame>>

(* Under the carrier lock: snapshot the tail, bump the epoch and install the
   fresh carrier; the lock is kept for the replay. *)
CommitMigration ==
  /\ reader.pc = "commit" /\ pump.pc # "send"
  /\ IF status # "closed" /\ replay # None /\ Available(replay, reader.up_acked)
     THEN /\ session_id' = reader.fresh
          /\ carrier_epoch' = carrier_epoch + 1
          /\ phase' = "Idle" /\ attempts' = 0
          /\ carrier' = [conn |-> reader.fresh, epoch |-> carrier_epoch + 1]
          /\ reader' = [reader EXCEPT !.pc = "replay", !.upto = replay.total]
     ELSE /\ Goto("giveup")
          /\ UNCHANGED <<session_id, carrier_epoch, phase, attempts, carrier>>
  /\ UNCHANGED <<status, client_acked_offset, torn_down, permit, net, downlink,
                 reader_frame>>

(* The tail goes out on the fresh carrier before the lock is released. *)
SendReplayNever ==
  /\ reader.pc = "replay"
  /\ Goto("deliver")
  /\ UNCHANGED <<flow_vars, client_acked_offset, torn_down, permit, carrier,
                 pump, net_vars, server_vars>>

SendReplay ==
  /\ reader.pc = "replay"
  /\ \/ reader.up_acked = reader.upto
     \/ net[carrier.conn] \in {"open", "broken"}
  /\ uplink' = IF reader.up_acked < reader.upto /\ net[carrier.conn] = "open"
               THEN [uplink EXCEPT ![carrier.conn] =
                       Append(@, [from |-> reader.up_acked, to |-> reader.upto])]
               ELSE uplink
  /\ Goto("deliver")
  /\ UNCHANGED <<flow_vars, client_acked_offset, torn_down, permit, carrier,
                 pump, dials, net, downlink, request, server_vars>>

SendReplayFailed ==
  /\ reader.pc = "replay" /\ reader.up_acked < reader.upto
  /\ net[carrier.conn] # "open"
  /\ Goto("giveup")
  /\ UNCHANGED <<status, session_id, carrier_epoch, phase, attempts,
                 client_acked_offset, torn_down, permit, carrier, net, downlink,
                 reader_frame>>

(* deliver_downlink_replay, ahead of anything the fresh carrier brings.  The
   TUN write may fail once the bytes are accounted. *)
DeliverDownlinkReplayUncounted ==
  /\ reader.pc = "deliver"
  /\ torn_down' = (torn_down \/ reader.from \notin {reader.to, client_acked_offset})
  /\ Goto("finish")
  /\ UNCHANGED <<status, session_id, carrier_epoch, phase, attempts, permit,
                 client_acked_offset, carrier, net, downlink, reader_frame>>

DeliverDownlinkReplay ==
  /\ reader.pc = "deliver"
  /\ IF reader.from = reader.to
     THEN Goto("finish") /\ UNCHANGED <<client_acked_offset, torn_down>>
     ELSE IF status = "closed"
     THEN Goto("giveup") /\ UNCHANGED <<client_acked_offset, torn_down>>
     ELSE /\ client_acked_offset' = client_acked_offset + reader.to - reader.from
          /\ torn_down' = (torn_down \/ reader.from # client_acked_offset)
          /\ \E pc \in {"finish", "giveup"} : Goto(pc)
  /\ UNCHANGED <<status, session_id, carrier_epoch, phase, attempts, permit,
                 carrier, net, downlink, reader_frame>>

(* Success: release the pump and read on. *)
FinishMigration ==
  /\ reader.pc = "finish"
  /\ permit' = TRUE
  /\ reader' = ReaderIdle("read")
  /\ UNCHANGED <<status, session_id, carrier_epoch, phase, attempts,
                 client_acked_offset, torn_down, carrier, net, downlink,
                 reader_frame>>

(* Failure: close a fresh stream that was not installed, abandon for good and
   release the pump. *)
AbandonMigration ==
  /\ reader.pc = "giveup"
  /\ net' = IF reader.fresh \notin {None, carrier.conn}
            THEN [net EXCEPT ![reader.fresh] = IF @ = "open" THEN "closed" ELSE @]
            ELSE net
  /\ phase' = "Abandoned"
  /\ permit' = TRUE
  /\ Goto("teardown")
  /\ UNCHANGED <<status, session_id, carrier_epoch, attempts,
                 client_acked_offset, torn_down, carrier, downlink,
                 reader_frame>>

(* NotMigrated: a soft switch resets the flow, a carrier death ends it with a
   FIN towards the client. *)
Teardown ==
  /\ reader.pc = "teardown"
  /\ status' = IF reader.soft THEN "closed" ELSE status
  /\ reader' = ReaderIdle("ended")
  /\ UNCHANGED <<session_id, carrier_epoch, phase, attempts,
                 client_acked_offset, torn_down, permit, carrier, net, downlink,
                 reader_frame>>

-----------------------------------------------------------------------------
(* The network.                                                            *)

(* Carrier c breaks: of what is in flight, a prefix still arrives. *)
CarrierBreak(c) ==
  /\ \/ net[c] = "open"
     \/ net[c] = "closed" /\ session[c] # "over"
  /\ net' = [net EXCEPT ![c] = "broken"]
  /\ \E i \in 0..Len(uplink[c]) :
       uplink' = [uplink EXCEPT ![c] = SubSeq(@, 1, i)]
  /\ \E i \in 0..Len(downlink[c]) :
       downlink' = [downlink EXCEPT ![c] = SubSeq(@, 1, i)]
  /\ UNCHANGED <<flow_vars, client_acked_offset, torn_down, permit, carrier,
                 pump, reader, dials, request, server_vars>>

-----------------------------------------------------------------------------
(* The server.                                                             *)

server_frame == <<flow_vars, client_acked_offset, torn_down, permit, carrier,
                  pump, reader, dials, net, request>>

(* Queue frames for the client; a broken carrier loses them. *)
Emit(c, frames) ==
  downlink' = IF net[c] = "broken" THEN downlink
              ELSE [downlink EXCEPT ![c] = @ \o frames]

FrameOf(kind, from, to) == [kind |-> kind, from |-> from, to |-> to]

(* forward_plaintext_to_writer: n more bytes reach the upstream socket. *)
ServerForward(c) ==
  /\ attached = c /\ session[c] = "live" /\ uplink[c] # <<>>
  /\ LET run == Head(uplink[c])
     IN \E n \in 1..(run.to - run.from) :
          /\ upstream_bytes_acked' = upstream_bytes_acked + n
          /\ torn_up' = (torn_up \/ run.from # upstream_bytes_acked)
          /\ uplink' = [uplink EXCEPT ![c] =
                          IF run.from + n = run.to THEN Tail(@)
                          ELSE [@ EXCEPT ![1] = [run EXCEPT !.from = @ + n]]]
  /\ UNCHANGED <<downlink, session, attached, parked, relay, downlink_ring,
                 server_frame>>

(* The upstream write fails: the loop returns without parking. *)
ServerFrameError(c) ==
  /\ attached = c /\ session[c] = "live" /\ uplink[c] # <<>>
  /\ session' = [session EXCEPT ![c] = "over"] /\ attached' = None
  /\ Emit(c, <<FrameOf("close", 0, 0)>>)
  /\ UNCHANGED <<uplink, parked, relay, upstream_bytes_acked, downlink_ring,
                 torn_up, server_frame>>

(* A Ping is read after the writer task has ended: its Pong cannot be queued,
   and the loop returns without parking, too. *)
ServerPongError(c) ==
  /\ attached = c /\ session[c] = "live" /\ net[c] = "broken"
  /\ session' = [session EXCEPT ![c] = "over"] /\ attached' = None
  /\ UNCHANGED <<uplink, downlink, parked, relay, upstream_bytes_acked,
                 downlink_ring, torn_up, server_frame>>

(* relay_upstream_to_client: a chunk enters the ring, then the sink.  A sink
   whose carrier is gone takes the chunk to no avail, or fails the task. *)
ServerRelay(c) ==
  /\ attached = c /\ session[c] \in {"live", "reserved"} /\ relay = "running"
  /\ \E n \in 1..(MaxDown - downlink_ring.total) :
       /\ downlink_ring' = PushDownlink(downlink_ring, n, DownCap)
       /\ \/ /\ Emit(c, <<FrameOf("data", downlink_ring.total,
                                     downlink_ring.total + n)>>)
             /\ UNCHANGED relay
          \/ /\ net[c] # "open"
             /\ relay' = "failed"
             /\ UNCHANGED downlink
  /\ UNCHANGED <<uplink, session, attached, parked, upstream_bytes_acked,
                 torn_up, server_frame>>

(* The upstream reaches EOF: the client is told with a Close frame. *)
ServerUpstreamEof(c) ==
  /\ attached = c /\ session[c] \in {"live", "reserved"} /\ relay = "running"
  /\ relay' = "eof"
  /\ Emit(c, <<FrameOf("close", 0, 0)>>)
  /\ UNCHANGED <<uplink, session, attached, parked, upstream_bytes_acked,
                 downlink_ring, torn_up, server_frame>>

(* Reading the upstream fails: the relay task ends, and nobody tells the client. *)
ServerUpstreamError(c) ==
  /\ attached = c /\ session[c] \in {"live", "reserved"} /\ relay = "running"
  /\ relay' = "reset"
  /\ UNCHANGED <<uplink, downlink, session, attached, parked,
                 upstream_bytes_acked, downlink_ring, torn_up, server_frame>>

(* The loop sees the carrier end and reserves the ID. *)
ServerReserve(c) ==
  /\ attached = c /\ session[c] = "live"
  /\ net[c] # "open" /\ uplink[c] = <<>>
  /\ session' = [session EXCEPT ![c] = "reserved"]
  /\ UNCHANGED <<uplink, downlink, attached, parked, relay,
                 upstream_bytes_acked, downlink_ring, torn_up, server_frame>>

(* try_park_on_drop parks what the cancelled relay task hands back; a task that
   had ended hands back nothing. *)
ServerPark(c) ==
  /\ attached = c /\ session[c] = "reserved"
  /\ session' = [session EXCEPT ![c] = "over"]
  /\ attached' = None
  /\ parked' = IF relay = "running" THEN c ELSE None
  /\ UNCHANGED <<uplink, downlink, relay, upstream_bytes_acked, downlink_ring,
                 torn_up, server_frame>>

(* Taken by somebody's cap or by the TTL. *)
ServerExpire ==
  /\ parked # None
  /\ parked' = None
  /\ UNCHANGED <<uplink, downlink, session, attached, relay,
                 upstream_bytes_acked, downlink_ring, torn_up, server_frame>>

(* take_for_resume hits: the counter and the ring's suffix go out first. *)
ServerResumeHit(c) ==
  LET o == request.down_acked
      v2 == IF ~SymmetricReplay THEN <<>>
            ELSE IF Available(downlink_ring, o)
            THEN <<FrameOf("replay", o, downlink_ring.total)>>
            ELSE <<FrameOf("truncated", 0, 0)>>
  IN /\ session[c] = "resuming" /\ parked # None /\ parked = request.id
     /\ parked' = None
     /\ \/ /\ session' = [session EXCEPT ![c] = "live"] /\ attached' = c
           /\ Emit(c, <<FrameOf("ack", upstream_bytes_acked,
                                upstream_bytes_acked)>> \o v2)
        \/ /\ net[c] # "open"
           /\ session' = [session EXCEPT ![c] = "over"]
           /\ UNCHANGED <<attached, downlink>>
     /\ UNCHANGED <<uplink, relay, upstream_bytes_acked, downlink_ring, torn_up,
                    server_frame>>

(* It misses: the ID is unknown, or its reservation did not commit in time.  A
   fresh upstream is dialled, or the carrier broke before it could be. *)
ServerResumeMiss(c) ==
  /\ session[c] = "resuming" /\ parked # request.id
  /\ \/ /\ session' = [session EXCEPT ![c] = "fresh"]
        /\ Emit(c, <<FrameOf("fresh", 0, 0)>>)
     \/ /\ net[c] # "open"
        /\ session' = [session EXCEPT ![c] = "over"]
        /\ UNCHANGED downlink
  /\ UNCHANGED <<uplink, attached, parked, relay, upstream_bytes_acked,
                 downlink_ring, torn_up, server_frame>>

-----------------------------------------------------------------------------
PumpStep ==
  \/ PumpPop \/ PumpPopMigrating \/ PumpLock \/ PumpSend \/ PumpSendError
  \/ PumpVerdict \/ PumpWake \/ PumpGrace \/ PumpFin \/ PumpClose \/ PumpExit

ReaderRead ==
  ReaderChunk \/ ReaderEof \/ ReaderDied \/ ReaderExit

MigrationStep ==
  \/ PlanMigration \/ RetireCarrier \/ Redial \/ RedialFailed
  \/ ConsumeAckPrefix \/ ConsumeDownlinkReplay \/ ConsumeFailed
  \/ CommitMigration \/ SendReplay \/ SendReplayFailed
  \/ DeliverDownlinkReplay \/ FinishMigration \/ AbandonMigration \/ Teardown

ServerStep(c) ==
  \/ ServerForward(c) \/ ServerFrameError(c) \/ ServerPongError(c)
  \/ ServerRelay(c) \/ ServerUpstreamEof(c) \/ ServerUpstreamError(c)
  \/ ServerReserve(c) \/ ServerPark(c) \/ ServerResumeHit(c) \/ ServerResumeMiss(c)

Next ==
  \/ ClientWrite \/ ClientFin \/ FlowClose \/ close_upstream_writer
  \/ PumpStep \/ ReaderRead \/ ReaderSoftMigrate \/ MigrationStep
  \/ \E c \in Conns : CarrierBreak(c) \/ ServerStep(c)
  \/ ServerExpire

Spec == Init /\ [][Next]_vars

(* The two tasks are scheduled fairly, and every wait of a migration is under a
   timeout.  Nothing is assumed of the peer, the network or the client. *)
FairSpec == Spec /\ WF_vars(PumpStep) /\ WF_vars(MigrationStep)

-----------------------------------------------------------------------------
Status == {"open", "fin", "closed"}
Net == {"unused", "open", "broken", "closed"}
Session == {"none", "resuming", "live", "reserved", "over", "fresh"}

PumpState == [pc : PumpPc, from : Nat, to : Nat, epoch : Nat, sent : BOOLEAN,
              armed : BOOLEAN]
ReaderState == [pc : ReaderPc, soft : BOOLEAN, fresh : Conns \cup {None},
                up_acked : Nat, upto : Nat, from : Nat, to : Nat]

FlowTypeOK ==
  /\ status \in Status /\ written \in Nat /\ taken \in Nat
  /\ replay \in Window \cup {None}
  /\ session_id \in Conns /\ carrier_epoch \in Nat
  /\ phase \in {"Idle", "InFlight", "Abandoned"} /\ attempts \in Nat
  /\ client_acked_offset \in Nat /\ torn_down \in BOOLEAN /\ permit \in BOOLEAN

TaskTypeOK ==
  /\ carrier \in [conn : Conns, epoch : Nat]
  /\ pump \in PumpState /\ reader \in ReaderState

NetTypeOK ==
  /\ dials \in Conns /\ net \in [Conns -> Net]
  /\ uplink \in [Conns -> Seq(Run)] /\ downlink \in [Conns -> Seq(Frame)]
  /\ request \in [id : Conns \cup {None}, down_acked : Nat]

ServerTypeOK ==
  /\ session \in [Conns -> Session]
  /\ attached \in Conns \cup {None} /\ parked \in Conns \cup {None}
  /\ relay \in {"running", "eof", "failed", "reset"}
  /\ upstream_bytes_acked \in Nat /\ downlink_ring \in Window
  /\ torn_up \in BOOLEAN

TypeOK == FlowTypeOK /\ TaskTypeOK /\ NetTypeOK /\ ServerTypeOK

(* Every byte the destination receives is the next byte of the client's stream,
   whatever carriers die, are switched and are resumed in between: no byte is
   duplicated, skipped or reordered ("the upstream server receives every
   payload byte exactly once", uplink_replay.rs 5-7). *)
UplinkExact == ~torn_up

(* Every byte the client's flow accepts is the next byte the destination sent:
   the v2 replay closes the downlink gap of a dead carrier exactly
   (migrate.rs 431-436, 562-595). *)
DownlinkExact == ~torn_down

(* While a flow is healthy, nothing of its uplink is missing: what reached the
   destination and what is in flight make up all the pump took.  A batch taken
   around the commit is neither lost between the replay and the pump
   (migrate.rs 485-487) nor sent twice (pump.rs 191-203). *)
UplinkComplete ==
  (/\ pump.pc = "pop" /\ reader.pc = "read"
   /\ net[carrier.conn] = "open" /\ attached = carrier.conn)
  => taken = IF uplink[carrier.conn] = <<>> THEN upstream_bytes_acked
             ELSE uplink[carrier.conn][Len(uplink[carrier.conn])].to

(* A flow never rides a carrier whose session the server did not resume for it:
   a fresh upstream would splice a new byte stream onto a half-finished one
   (migrate.rs 398-429). *)
CarrierIsResumed == session[carrier.conn] \in {"live", "reserved", "over"}

UpPipe == INSTANCE BytePipe WITH
            sent <- written, received <- upstream_bytes_acked, intact <- ~torn_up
DownPipe == INSTANCE BytePipe WITH
              sent <- downlink_ring.total, received <- client_acked_offset,
              intact <- ~torn_down

(* Together the flow and the server session are a reliable byte pipe from the
   client to the destination, over any number of carriers: what is delivered
   was written before, in order and once. *)
ImplementsUpPipe == UpPipe!Spec

(* They are one from the destination to the client, too, where v2 is on. *)
ImplementsDownPipe == DownPipe!Spec

Migrating == phase = "InFlight"

(* A migration that began ends, with a commit or with an abandon. *)
MigrationEnds == Migrating ~> ~Migrating

PumpSleeps == pump.pc = "asleep"

(* A pump that waits for the verdict of a migration gets it. *)
PumpResumes == PumpSleeps ~> ~PumpSleeps

=============================================================================
