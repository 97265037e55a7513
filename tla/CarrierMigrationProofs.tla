----------------------- MODULE CarrierMigrationProofs -----------------------
(***************************************************************************)
(* The proofs of CarrierMigration, for every ring size, every number of    *)
(* carriers and streams of any length: the inductive invariant and its     *)
(* preservation by the client, the pump, the network, the server session,  *)
(* the reader and every step of a migration; what follows for the uplink;  *)
(* and the downlink, where both sides negotiated the v2 replay.            *)
(***************************************************************************)
EXTENDS CarrierMigration, TLAPS

(* Runs that follow each other without a gap, the first one starting at a. *)
Chain(q, a) ==
  /\ q # <<>> => q[1].from = a
  /\ \A i \in 1..(Len(q) - 1) : q[i].to = q[i + 1].from

EndOf(q, a) == IF q = <<>> THEN a ELSE q[Len(q)].to

(* The first byte of the flow that is not yet on the installed carrier. *)
NextByte ==
  IF pump.pc \in {"lock", "send"} /\ pump.epoch = carrier_epoch
  THEN pump.from ELSE taken

(* The carrier c was attached by a resume hit and nothing moved since. *)
Resumed(c) ==
  /\ attached \in {c, None} /\ parked \in {c, None}
  /\ session[c] \in {"live", "reserved", "over"}

-----------------------------------------------------------------------------
(* The parts of the inductive invariant. *)

FlowOK ==
  /\ carrier.epoch = carrier_epoch
  /\ session_id = carrier.conn
  /\ replay # None => replay.total = taken
  /\ taken <= written

PumpOK ==
  /\ pump.pc \in {"lock", "send"} =>
       pump.from < pump.to /\ pump.to = taken /\ pump.epoch <= carrier_epoch
  /\ pump.pc = "send" => reader.pc # "replay" /\ pump.epoch = carrier_epoch

DialsOK ==
  /\ carrier.conn <= dials /\ dials <= carrier.conn + 1
  /\ \A c \in Conns : c > dials =>
       /\ net[c] = "unused" /\ session[c] = "none"
       /\ downlink[c] = <<>>
  /\ \A c \in Conns : c > carrier.conn => uplink[c] = <<>>

ReaderOK ==
  /\ reader.from <= reader.to
  /\ reader.pc \in {"read", "plan", "retire", "dial"} => carrier.conn = dials
  /\ reader.fresh \in {None, dials}
  /\ reader.pc \in {"v1", "v2", "commit"} =>
       reader.fresh = dials /\ carrier.conn < dials
  /\ reader.pc \in {"replay", "deliver", "finish"} => carrier.conn = dials

SessionOK ==
  /\ session[carrier.conn] \in {"live", "reserved", "over"}
  /\ attached # None => /\ parked = None /\ attached >= carrier.conn
                        /\ session[attached] \in {"live", "reserved"}
  /\ \A c \in Conns :
       /\ session[c] \in {"live", "reserved"} => attached = c
       /\ session[c] = "resuming" => c = dials /\ carrier.conn < c

(* The counter an unread Ack-Prefix frame carries, and the one the migration
   read, is still the server's counter. *)
AckOK ==
  /\ \A c \in Conns : \A i \in 1..Len(downlink[c]) :
       downlink[c][i].kind = "ack" /\ c > carrier.conn
         => downlink[c][i].from = upstream_bytes_acked /\ Resumed(c)
  /\ reader.pc \in {"v2", "commit"}
       => reader.up_acked = upstream_bytes_acked /\ Resumed(dials)

(* What is in flight to the attached session continues what it forwarded, and
   on a healthy carrier it ends where the pump or the replay goes on. *)
UplinkOK ==
  /\ ~torn_up
  /\ upstream_bytes_acked <= taken
  /\ \A c \in Conns : \A i \in 1..Len(uplink[c]) : uplink[c][i].to <= taken
  /\ attached # None => Chain(uplink[attached], upstream_bytes_acked)
  /\ attached = carrier.conn /\ net[carrier.conn] = "open" /\ reader.pc # "replay"
       => EndOf(uplink[carrier.conn], upstream_bytes_acked) = NextByte

ReplayOK ==
  reader.pc = "replay" =>
    /\ uplink[carrier.conn] = <<>>
    /\ attached = carrier.conn => upstream_bytes_acked = reader.up_acked
    /\ reader.up_acked <= reader.upto /\ reader.upto = NextByte

IInv == /\ FlowTypeOK /\ TaskTypeOK /\ NetTypeOK /\ ServerTypeOK
        /\ FlowOK /\ PumpOK /\ DialsOK /\ ReaderOK /\ SessionOK
        /\ AckOK /\ UplinkOK /\ ReplayOK

-----------------------------------------------------------------------------
(* Chains of runs. *)

LEMMA EmptyLen ==
  ASSUME NEW S, NEW q \in Seq(S)
  PROVE  Len(q) = 0 <=> q = <<>>
OBVIOUS

LEMMA NoneIsNoConn == None \notin Conns
BY MigrationAssumption DEF Conns

LEMMA GreaterDiffers == \A c, k \in 0..MaxDials : c > k => c # k
OBVIOUS

LEMMA PrefixOf ==
  ASSUME NEW S, NEW q \in Seq(S), NEW i \in 0..Len(q)
  PROVE  /\ SubSeq(q, 1, i) \in Seq(S) /\ Len(SubSeq(q, 1, i)) = i
         /\ \A m \in 1..i : m \in 1..Len(q) /\ SubSeq(q, 1, i)[m] = q[m]
OBVIOUS

LEMMA NonEmpty ==
  ASSUME NEW q, NEW m \in 1..Len(q) PROVE q # <<>>
OBVIOUS

LEMMA HeadInSet ==
  ASSUME NEW S, NEW q \in Seq(S), q # <<>> PROVE Head(q) \in S
OBVIOUS

LEMMA RunFields ==
  ASSUME NEW r \in Run PROVE r.from \in Nat /\ r.to \in Nat /\ r.from < r.to
BY DEF Run

LEMMA PositiveStep ==
  \A m, k \in Nat : \A n \in 1..(m - k) : n \in Nat /\ n > 0
OBVIOUS

(* The frames of a resume hit. *)
LEMMA ResumeFrames ==
  /\ \A n \in Nat : /\ FrameOf("ack", n, n) \in Frame
                     /\ FrameOf("ack", n, n).kind = "ack"
                     /\ FrameOf("ack", n, n).from = n
  /\ \A w \in Window, o \in Nat : Available(w, o) =>
       /\ FrameOf("replay", o, w.total) \in Frame
       /\ FrameOf("replay", o, w.total).kind = "replay"
       /\ FrameOf("replay", o, w.total).from = o
       /\ FrameOf("replay", o, w.total).to = w.total
  /\ /\ FrameOf("truncated", 0, 0) \in Frame
     /\ FrameOf("truncated", 0, 0).kind = "truncated"
BY DEF Frame, FrameOf, Available, Window

(* One run joins one carrier. *)
LEMMA OneAppended ==
  ASSUME NEW u \in [Conns -> Seq(Run)], NEW k \in Conns, NEW r \in Run
  PROVE  [u EXCEPT ![k] = Append(@, r)] \in [Conns -> Seq(Run)]
OBVIOUS

LEMMA AppendedRun ==
  ASSUME NEW q \in Seq(Run), NEW r, NEW n,
         \A m \in 1..Len(q) : q[m].to <= n, r.to <= n
  PROVE  \A m \in 1..Len(Append(q, r)) : Append(q, r)[m].to <= n
OBVIOUS

(* Appending the run that starts where a chain ends extends the chain. *)
LEMMA ChainAppend ==
  ASSUME NEW q \in Seq(Run), NEW a \in Nat, NEW r \in Run,
         Chain(q, a), r.from = EndOf(q, a)
  PROVE  Chain(Append(q, r), a) /\ EndOf(Append(q, r), a) = r.to
<1> DEFINE t == Append(q, r)
<1>1. /\ Len(q) \in Nat /\ Len(t) = Len(q) + 1 /\ t # <<>> /\ t[Len(q) + 1] = r
      /\ \A i \in 1..Len(q) : t[i] = q[i]
  OBVIOUS
<1> HIDE DEF t
<1>2. q = <<>> <=> Len(q) = 0
  BY EmptyLen
<1>3. q = <<>> => t[1].from = a
  BY <1>1, <1>2 DEF EndOf
<1>4. q # <<>> => t[1].from = a /\ t[Len(q)].to = r.from
  BY <1>1, <1>2 DEF EndOf, Chain
<1>5. ASSUME NEW i \in 1..(Len(t) - 1)
      PROVE  t[i + 1].from = t[i].to
  <2>1. CASE i = Len(q)
    BY <1>1, <1>2, <1>4, <2>1
  <2>2. CASE i < Len(q)
    BY <1>1, <2>2 DEF Chain
  <2> QED  BY <1>1, <2>1, <2>2
<1>6. Chain(t, a)
  BY <1>3, <1>4, <1>5 DEF Chain
<1>7. EndOf(t, a) = r.to
  BY <1>1 DEF EndOf
<1> QED  BY <1>6, <1>7 DEF t

(* Consuming the first run of a chain leaves a chain from that run's end. *)
LEMMA ChainTail ==
  ASSUME NEW q \in Seq(Run), NEW a \in Nat, Chain(q, a), q # <<>>
  PROVE  /\ Tail(q) \in Seq(Run)
         /\ Chain(Tail(q), q[1].to) /\ EndOf(Tail(q), q[1].to) = EndOf(q, a)
<1> DEFINE t == Tail(q)
<1>1. /\ t \in Seq(Run) /\ Len(q) \in Nat /\ Len(q) >= 1
      /\ Len(t) = Len(q) - 1
      /\ \A i \in 1..(Len(q) - 1) : t[i] = q[i + 1]
  OBVIOUS
<1> HIDE DEF t
<1>2. t = <<>> <=> Len(q) = 1
  BY <1>1, EmptyLen
<1>3. Chain(t, q[1].to)
  BY <1>1, <1>2, SMTT(60) DEF Chain
<1>4. t # <<>> => t[Len(t)] = q[Len(q)]
  BY <1>1, <1>2
<1>5. EndOf(t, q[1].to) = EndOf(q, a)
  BY <1>1, <1>2, <1>4 DEF EndOf
<1> QED  BY <1>1, <1>3, <1>5 DEF t

(* So does consuming a part of it. *)
LEMMA ChainTrim ==
  ASSUME NEW q \in Seq(Run), NEW a \in Nat, Chain(q, a), q # <<>>,
         NEW r \in Run, r.to = q[1].to
  PROVE  /\ [q EXCEPT ![1] = r] \in Seq(Run)
         /\ Chain([q EXCEPT ![1] = r], r.from)
         /\ EndOf([q EXCEPT ![1] = r], r.from) = EndOf(q, a)
<1> DEFINE t == [q EXCEPT ![1] = r]
<1>1. Len(q) \in Nat /\ Len(q) >= 1 /\ q \in [1..Len(q) -> Run]
  BY EmptyLen
<1>2. /\ t \in Seq(Run) /\ Len(t) = Len(q) /\ t[1] = r
      /\ \A i \in 2..Len(q) : t[i] = q[i]
  BY <1>1
<1> HIDE DEF t
<1>3. t # <<>> /\ t[Len(t)].to = q[Len(q)].to
  BY <1>1, <1>2, EmptyLen
<1>4. \A i \in 1..(Len(t) - 1) : t[i + 1].from = t[i].to
  BY <1>1, <1>2 DEF Chain
<1>5. Chain(t, r.from)
  BY <1>2, <1>4 DEF Chain
<1>6. EndOf(t, r.from) = EndOf(q, a)
  BY <1>3 DEF EndOf
<1> QED  BY <1>2, <1>5, <1>6 DEF t

(* A prefix of a chain is a chain. *)
LEMMA ChainPrefix ==
  ASSUME NEW q \in Seq(Run), NEW a \in Nat, Chain(q, a), NEW i \in 0..Len(q)
  PROVE  SubSeq(q, 1, i) \in Seq(Run) /\ Chain(SubSeq(q, 1, i), a)
BY SMTT(60) DEF Chain, Run

(* A push of the downlink ring yields a window. *)
LEMMA PushDownlinkType ==
  ASSUME NEW w \in Window, NEW n \in Nat, NEW cap \in Nat
  PROVE  PushDownlink(w, n, cap) \in Window
<1>1. w.starts \in SUBSET Nat /\ w.total \in Nat
  BY DEF Window
<1>2. {s \in w.starts \cup {w.total} : w.total + n - s <= cap} \in SUBSET Nat
  BY <1>1
<1>3. n >= cap => {w.total + n - cap} \in SUBSET Nat
  BY <1>1
<1>4. [w EXCEPT !.total = @ + n] \in Window
  BY <1>1 DEF Window
<1> QED  BY <1>1, <1>2, <1>3, <1>4 DEF PushDownlink, PushChunks, Window

LEMMA RunEnds ==
  ASSUME NetTypeOK
  PROVE  \A c \in Conns : \A i \in 1..Len(uplink[c]) :
           uplink[c][i] \in Run /\ uplink[c][i].to \in Nat
<1>1. \A c \in Conns : uplink[c] \in Seq(Run)
  BY DEF NetTypeOK
<1>2. \A c \in Conns : \A i \in 1..Len(uplink[c]) : uplink[c][i] \in Run
  BY <1>1
<1>3. \A r \in Run : r.to \in Nat
  BY Zenon DEF Run
<1> QED  BY <1>2, <1>3

-----------------------------------------------------------------------------
(* A step that leaves the variables of a part alone preserves the part. *)
LEMMA Frames ==
  /\ FlowTypeOK /\ UNCHANGED <<status, written, taken, replay, session_id,
                               carrier_epoch, phase, attempts,
                               client_acked_offset, torn_down, permit>>
       => FlowTypeOK'
  /\ TaskTypeOK /\ UNCHANGED <<carrier, pump, reader>> => TaskTypeOK'
  /\ NetTypeOK /\ UNCHANGED <<dials, net, uplink, downlink, request>>
       => NetTypeOK'
  /\ ServerTypeOK /\ UNCHANGED <<session, attached, parked, relay,
                                 upstream_bytes_acked, downlink_ring, torn_up>>
       => ServerTypeOK'
  /\ FlowOK /\ UNCHANGED <<carrier, carrier_epoch, session_id, replay, taken,
                           written>>
       => FlowOK'
  /\ PumpOK /\ UNCHANGED <<pump, taken, carrier_epoch, reader>> => PumpOK'
  /\ DialsOK /\ UNCHANGED <<carrier, dials, net, session, downlink, uplink>>
       => DialsOK'
  /\ ReaderOK /\ UNCHANGED <<reader, carrier, dials>> => ReaderOK'
  /\ SessionOK /\ UNCHANGED <<session, carrier, attached, parked, dials>>
       => SessionOK'
  /\ AckOK /\ UNCHANGED <<downlink, carrier, upstream_bytes_acked, attached,
                          parked, session, reader, dials>>
       => AckOK'
  /\ UplinkOK /\ UNCHANGED <<torn_up, upstream_bytes_acked, taken, uplink,
                             attached, net, carrier, reader, pump,
                             carrier_epoch>>
       => UplinkOK'
  /\ ReplayOK /\ UNCHANGED <<reader, uplink, carrier, attached,
                             upstream_bytes_acked, pump, carrier_epoch, taken>>
       => ReplayOK'
BY DEF FlowTypeOK, TaskTypeOK, NetTypeOK, ServerTypeOK, FlowOK, PumpOK, DialsOK,
       ReaderOK, SessionOK, AckOK, UplinkOK, ReplayOK, Resumed, NextByte

(* The reader moves on, outside the handshake of a fresh carrier. *)
LEMMA ReaderMoves ==
  ASSUME IInv,
         UNCHANGED <<carrier, carrier_epoch, taken, pump, dials, uplink,
                     attached, parked, session, upstream_bytes_acked, torn_up>>,
         reader' \in ReaderState, reader'.from <= reader'.to,
         reader'.fresh \in {None, dials},
         reader'.pc \notin {"v1", "v2", "commit", "replay"},
         reader'.pc \in {"read", "plan", "retire", "dial", "deliver", "finish"}
           => carrier.conn = dials,
         net'[carrier.conn] = "open"
           => net[carrier.conn] = "open" /\ reader.pc # "replay",
         \A c \in Conns : c > carrier.conn => downlink'[c] = downlink[c]
  PROVE  TaskTypeOK' /\ PumpOK' /\ ReaderOK' /\ AckOK' /\ UplinkOK' /\ ReplayOK'
<1>1. TaskTypeOK'
  BY DEF IInv, TaskTypeOK
<1>2. PumpOK'
  BY DEF IInv, PumpOK
<1>3. ReaderOK'
  BY DEF IInv, ReaderOK
<1>4. AckOK'
  BY DEF IInv, AckOK, Resumed
<1>5. UplinkOK'
  BY DEF IInv, UplinkOK, NextByte
<1>6. ReplayOK'
  BY DEF ReplayOK
<1> QED  BY <1>1, <1>2, <1>3, <1>4, <1>5, <1>6

(* The pump moves on, with no batch in hand: the one it had is on the carrier,
   was dropped because a replay covers it, or was lost with the carrier. *)
LEMMA PumpMoves ==
  ASSUME IInv,
         UNCHANGED <<carrier, carrier_epoch, taken, reader, uplink, attached,
                     upstream_bytes_acked, torn_up>>,
         pump' \in PumpState, pump'.pc \notin {"lock", "send"},
         NextByte = taken \/ net[carrier.conn] # "open",
         pump.pc \in {"lock", "send"} => reader.pc # "replay",
         net'[carrier.conn] = "open" => net[carrier.conn] = "open"
  PROVE  TaskTypeOK' /\ PumpOK' /\ UplinkOK' /\ ReplayOK'
<1>1. TaskTypeOK'
  BY DEF IInv, TaskTypeOK
<1>2. PumpOK'
  BY DEF PumpOK
<1>3. UplinkOK'
  BY DEF IInv, UplinkOK, NextByte
<1>4. ReplayOK'
  BY DEF IInv, ReplayOK, NextByte
<1> QED  BY <1>1, <1>2, <1>3, <1>4

(* What the server queues for a client leaves what was queued in place. *)
LEMMA Emitted ==
  ASSUME IInv, NEW c \in Conns, c <= dials, NEW fs \in Seq(Frame), Emit(c, fs),
         UNCHANGED <<dials, net, uplink, request>>
  PROVE  /\ NetTypeOK'
         /\ \A e \in Conns : e > dials => downlink'[e] = <<>>
         /\ \A e \in Conns : \A m \in 1..Len(downlink'[e]) :
              \/ m \in 1..Len(downlink[e]) /\ downlink'[e][m] = downlink[e][m]
              \/ e = c /\ \E i \in 1..Len(fs) : downlink'[e][m] = fs[i]
<1>1. /\ downlink \in [Conns -> Seq(Frame)] /\ dials \in Conns
      /\ \A e \in Conns : e > dials => downlink[e] = <<>>
  BY DEF IInv, NetTypeOK, DialsOK
<1>2. CASE net[c] = "broken"
  BY <1>1, <1>2 DEF Emit, IInv, NetTypeOK
<1>3. CASE net[c] # "broken"
  <2>1. downlink' = [downlink EXCEPT ![c] = downlink[c] \o fs]
    BY <1>1, <1>3 DEF Emit
  <2>2. downlink[c] \o fs \in Seq(Frame)
    BY <1>1
  <2>3. NetTypeOK'
    BY <1>1, <2>1, <2>2 DEF IInv, NetTypeOK
  <2>4. \A e \in Conns : e > dials => downlink'[e] = <<>>
    BY <1>1, <2>1 DEF Conns
  <2>5. \A m \in 1..Len(downlink[c] \o fs) :
          \/ m \in 1..Len(downlink[c]) /\ (downlink[c] \o fs)[m] = downlink[c][m]
          \/ \E i \in 1..Len(fs) : (downlink[c] \o fs)[m] = fs[i]
    <3> SUFFICES ASSUME NEW m \in 1..Len(downlink[c] \o fs),
                        m \notin 1..Len(downlink[c])
                 PROVE  \E i \in 1..Len(fs) : (downlink[c] \o fs)[m] = fs[i]
      BY <1>1
    <3>1. /\ m - Len(downlink[c]) \in 1..Len(fs)
          /\ (downlink[c] \o fs)[m] = fs[m - Len(downlink[c])]
      BY <1>1
    <3> QED  BY <3>1
  <2>6. /\ downlink'[c] = downlink[c] \o fs
        /\ \A e \in Conns : e # c => downlink'[e] = downlink[e]
    BY <1>1, <2>1
  <2>7. ASSUME NEW e \in Conns, NEW m \in 1..Len(downlink'[e])
        PROVE  \/ m \in 1..Len(downlink[e]) /\ downlink'[e][m] = downlink[e][m]
               \/ e = c /\ \E i \in 1..Len(fs) : downlink'[e][m] = fs[i]
    <3>1. CASE e = c
      BY <2>5, <2>6, <3>1, Zenon
    <3>2. CASE e # c
      BY <2>6, <3>2
    <3> QED  BY <3>1, <3>2
  <2> QED  BY <2>3, <2>4, <2>7
<1> QED  BY <1>2, <1>3

(* Frames without an Ack-Prefix leave the parts about the downlink intact. *)
LEMMA EmittedPlain ==
  ASSUME IInv, NEW c \in Conns, c <= dials, NEW f \in Frame, f.kind # "ack",
         downlink' = downlink \/ Emit(c, <<f>>),
         UNCHANGED <<dials, net, uplink, request, carrier, upstream_bytes_acked,
                     reader>>,
         \A e \in Conns : Resumed(e) => Resumed(e)'
  PROVE  /\ NetTypeOK' /\ AckOK'
         /\ \A e \in Conns : e > dials => downlink'[e] = <<>>
<1> DEFINE fs == <<f>>
<1>1. fs \in Seq(Frame) /\ \A i \in 1..Len(fs) : fs[i] = f
  OBVIOUS
<1>2. /\ NetTypeOK'
      /\ \A e \in Conns : e > dials => downlink'[e] = <<>>
      /\ \A e \in Conns : \A m \in 1..Len(downlink'[e]) :
           \/ m \in 1..Len(downlink[e]) /\ downlink'[e][m] = downlink[e][m]
           \/ downlink'[e][m] = f
  <2>1. CASE downlink' = downlink
    BY <2>1, Frames, ZenonT(60) DEF IInv, DialsOK
  <2>2. CASE Emit(c, fs)
    <3> HIDE DEF fs
    <3>1. UNCHANGED <<dials, net, uplink, request>>
      OBVIOUS
    <3>2. /\ NetTypeOK' /\ \A e \in Conns : e > dials => downlink'[e] = <<>>
          /\ \A e \in Conns : \A m \in 1..Len(downlink'[e]) :
               \/ m \in 1..Len(downlink[e]) /\ downlink'[e][m] = downlink[e][m]
               \/ e = c /\ \E i \in 1..Len(fs) : downlink'[e][m] = fs[i]
      <4>1. fs \in Seq(Frame) /\ Emit(c, fs)
        BY <1>1, <2>2
      <4> QED  BY <3>1, <4>1, Emitted, SMTT(30)
    <3> QED  BY <1>1, <3>2, Zenon
  <2> QED  BY <2>1, <2>2
<1>3. dials \in Conns
  BY DEF IInv, NetTypeOK
<1>4. AckOK'
  BY <1>2, <1>3, SMTT(60) DEF IInv, AckOK
<1> QED  BY <1>2, <1>4

-----------------------------------------------------------------------------
(* The client and the pump. *)

LEMMA ClientWriteStep == IInv /\ ClientWrite => IInv'
<1> SUFFICES ASSUME IInv, ClientWrite PROVE IInv'
  OBVIOUS
<1> USE DEF ClientWrite, net_vars, server_vars
<1>1. FlowTypeOK'
  BY DEF IInv, FlowTypeOK
<1>2. FlowOK'
  BY SMTT(60) DEF IInv, FlowTypeOK, FlowOK
<1> QED  BY <1>1, <1>2, Frames DEF IInv

LEMMA ClientFinStep == IInv /\ (ClientFin \/ FlowClose) => IInv'
<1> SUFFICES ASSUME IInv, ClientFin \/ FlowClose PROVE IInv'
  OBVIOUS
<1> USE DEF ClientFin, FlowClose, net_vars, server_vars
<1>1. FlowTypeOK'
  BY DEF IInv, FlowTypeOK, Status
<1> QED  BY <1>1, Frames, Zenon DEF IInv

LEMMA PumpPopStep == IInv /\ PumpPop => IInv'
<1> SUFFICES ASSUME IInv, PumpPop PROVE IInv'
  OBVIOUS
<1> USE DEF pump_frame, server_vars
<1>1. PICK to \in (taken + 1)..written :
           \E more \in SUBSET ((taken + 1)..(to - 1)) :
             /\ replay' = record_uplink_batch({taken} \cup more, to)
             /\ taken' = to
             /\ pump' = [pump EXCEPT !.pc = "lock", !.from = taken, !.to = to,
                                     !.epoch = carrier_epoch]
  BY Zenon DEF PumpPop
<1>2. PICK more \in SUBSET ((taken + 1)..(to - 1)) :
           replay' = record_uplink_batch({taken} \cup more, to)
  BY <1>1, Zenon
<1>3. /\ taken \in Nat /\ written \in Nat /\ to \in Nat /\ taken < to
      /\ to <= written
  BY DEF IInv, FlowTypeOK
<1>4. /\ replay' \in Window \cup {None}
      /\ replay' # None => replay'.total = to
  <2>1. CASE replay' = None
    BY <2>1
  <2>2. CASE replay' # None
    <3>1. replay' = PushChunks(replay, {taken} \cup more, to, UpCap)
      BY <1>2, <2>2 DEF record_uplink_batch
    <3>2. replay \in Window
      BY <1>2, <2>2 DEF record_uplink_batch, IInv, FlowTypeOK
    <3>3. {s \in replay.starts \cup ({taken} \cup more) : to - s <= UpCap}
            \in SUBSET Nat
      <4>1. replay.starts \in SUBSET Nat
        BY <3>2 DEF Window
      <4>2. more \in SUBSET Nat
        BY <1>2, <1>3, SMTT(60)
      <4> QED  BY <4>1, <4>2, <1>3, Zenon
    <3>4. replay' = [starts |-> {s \in replay.starts \cup ({taken} \cup more) :
                                  to - s <= UpCap},
                     total |-> to]
      BY <3>1 DEF PushChunks
    <3> QED  BY <3>3, <3>4, <1>3 DEF Window
  <2> QED  BY <2>1, <2>2
<1>5. FlowTypeOK'
  BY <1>1, <1>3, <1>4 DEF PumpPop, IInv, FlowTypeOK
<1>6. FlowOK'
  BY <1>1, <1>3, <1>4 DEF PumpPop, IInv, FlowOK
<1>7. /\ pump' \in PumpState /\ pump'.pc = "lock" /\ pump'.from = taken
      /\ pump'.to = to /\ pump'.epoch = carrier_epoch
  BY <1>1, <1>3, Zenon DEF IInv, TaskTypeOK, FlowTypeOK, PumpState, PumpPc
<1>8. TaskTypeOK'
  BY <1>7 DEF PumpPop, IInv, TaskTypeOK
<1>9. PumpOK'
  BY <1>1, <1>3, <1>7 DEF PumpPop, PumpOK, IInv, FlowTypeOK
<1>10. NextByte' = NextByte
  BY <1>7 DEF PumpPop, NextByte
<1>11. UplinkOK'
  <2>1. \A c \in Conns : \A i \in 1..Len(uplink[c]) : uplink[c][i].to \in Nat
    BY RunEnds DEF IInv
  <2>2. \A c \in Conns : \A i \in 1..Len(uplink[c]) : uplink[c][i].to <= to
    BY <2>1, <1>3, SMTT(60) DEF IInv, UplinkOK
  <2>3. upstream_bytes_acked <= to
    BY <1>3 DEF IInv, UplinkOK, ServerTypeOK
  <2> QED  BY <1>1, <1>10, <2>2, <2>3 DEF PumpPop, IInv, UplinkOK
<1>12. ReplayOK'
  BY <1>10, Zenon DEF PumpPop, IInv, ReplayOK
<1> QED
  BY <1>5, <1>6, <1>8, <1>9, <1>11, <1>12, Frames DEF PumpPop, IInv

(* The pump's steps that touch neither the ring nor the carrier. *)
LEMMA PumpQuietStep ==
  IInv /\ (\/ PumpPopMigrating \/ PumpSendError \/ PumpVerdict \/ PumpWake
           \/ PumpGrace \/ PumpFin \/ PumpExit)
    => IInv'
<1> SUFFICES ASSUME IInv,
                    \/ PumpPopMigrating \/ PumpSendError \/ PumpVerdict
                    \/ PumpWake \/ PumpGrace \/ PumpFin \/ PumpExit
             PROVE  IInv'
  OBVIOUS
<1> USE DEF pump_frame, flow_vars, server_vars
<1>1. /\ pump' \in PumpState /\ pump'.pc \notin {"lock", "send"}
      /\ pump.pc = "send" => net[carrier.conn] # "open"
      /\ pump.pc # "lock"
  <2> USE DEF IInv, TaskTypeOK, FlowTypeOK, PumpIdle, PumpState, PumpPc
  <2>1. CASE PumpPopMigrating
    BY <2>1, Zenon DEF PumpPopMigrating
  <2>2. CASE PumpSendError
    BY <2>2, Zenon DEF PumpSendError
  <2>3. CASE PumpVerdict
    <3> DEFINE armed == ~migration_in_flight
    <3>1. armed \in BOOLEAN
      OBVIOUS
    <3>2. \/ pump' = PumpIdle("pop") \/ pump' = PumpIdle("done")
          \/ pump' = [pump EXCEPT !.pc = "asleep", !.armed = armed]
      BY <2>3 DEF PumpVerdict
    <3>3. pump.pc = "verdict"
      BY <2>3 DEF PumpVerdict
    <3> HIDE DEF armed
    <3>4. pump \in PumpState
      OBVIOUS
    <3>5. CASE pump' = [pump EXCEPT !.pc = "asleep", !.armed = armed]
      BY <3>1, <3>3, <3>4, <3>5, Zenon
    <3>6. CASE pump' = PumpIdle("pop")
      BY <3>3, <3>6, Zenon
    <3>7. CASE pump' = PumpIdle("done")
      BY <3>3, <3>7
    <3> QED  BY <3>2, <3>5, <3>6, <3>7
  <2>4. CASE PumpWake
    BY <2>4, Zenon DEF PumpWake
  <2>5. CASE PumpGrace
    BY <2>5, Zenon DEF PumpGrace
  <2>6. CASE PumpFin
    BY <2>6, Zenon DEF PumpFin
  <2>7. CASE PumpExit
    BY <2>7 DEF PumpExit
  <2> QED  BY <2>1, <2>2, <2>3, <2>4, <2>5, <2>6, <2>7
<1>2. /\ FlowTypeOK'
      /\ UNCHANGED <<written, taken, replay, session_id, carrier_epoch, uplink>>
      /\ UNCHANGED pump_frame
  BY Zenon DEF PumpPopMigrating, PumpSendError, PumpVerdict, PumpWake, PumpGrace,
         PumpFin, PumpExit, IInv, FlowTypeOK, Status
<1>3. TaskTypeOK' /\ PumpOK' /\ UplinkOK' /\ ReplayOK'
  BY <1>1, <1>2, PumpMoves, Zenon DEF NextByte, IInv, PumpOK
<1> QED  BY <1>2, <1>3, Frames DEF IInv

LEMMA PumpLockStep == IInv /\ PumpLock => IInv'
<1> SUFFICES ASSUME IInv, PumpLock PROVE IInv'
  OBVIOUS
<1> USE DEF pump_frame, flow_vars, server_vars
<1>1. CASE carrier.epoch # pump.epoch
  <2>1. pump' \in PumpState /\ pump'.pc \notin {"lock", "send"}
    BY <1>1 DEF PumpLock, PumpIdle, PumpState, PumpPc
  <2>2. TaskTypeOK' /\ PumpOK' /\ UplinkOK' /\ ReplayOK'
    BY <1>1, <2>1, PumpMoves DEF PumpLock, NextByte, IInv, FlowOK
  <2> QED  BY <2>2, Frames DEF PumpLock, IInv
<1>2. CASE carrier.epoch = pump.epoch
  <2>1. /\ pump' \in PumpState /\ pump'.pc = "send" /\ pump'.epoch = pump.epoch
        /\ pump'.from = pump.from /\ pump'.to = pump.to
    BY <1>2 DEF PumpLock, IInv, TaskTypeOK, PumpState, PumpPc
  <2>2. TaskTypeOK' /\ PumpOK'
    BY <1>2, <2>1 DEF PumpLock, IInv, TaskTypeOK, PumpOK, FlowOK
  <2>3. NextByte' = NextByte
    BY <2>1 DEF PumpLock, NextByte
  <2>4. UplinkOK' /\ ReplayOK'
    BY <2>3, Zenon DEF PumpLock, IInv, UplinkOK, ReplayOK
  <2> QED  BY <2>2, <2>4, Frames DEF PumpLock, IInv
<1> QED  BY <1>1, <1>2

LEMMA PumpCloseStep == IInv /\ PumpClose => IInv'
<1> SUFFICES ASSUME IInv, PumpClose PROVE IInv'
  OBVIOUS
<1> USE DEF PumpClose, flow_vars, server_vars
<1>1. /\ pump' \in PumpState /\ pump'.pc \notin {"lock", "send"}
      /\ net'[carrier.conn] = "open" => net[carrier.conn] = "open"
      /\ NextByte = taken
  BY DEF IInv, NetTypeOK, TaskTypeOK, PumpIdle, PumpState, PumpPc, NextByte
<1>2. TaskTypeOK' /\ PumpOK' /\ UplinkOK' /\ ReplayOK'
  BY <1>1, PumpMoves
<1>3. NetTypeOK'
  BY DEF IInv, NetTypeOK, TaskTypeOK, Net
<1>4. DialsOK'
  <2>1. /\ carrier.conn \in Conns /\ dials \in Conns /\ carrier.conn <= dials
        /\ net \in [Conns -> Net]
    BY Zenon DEF IInv, DialsOK, NetTypeOK, TaskTypeOK
  <2>2. \A c \in Conns : c > dials => c # carrier.conn
    BY <2>1 DEF Conns
  <2>3. \A c \in Conns : c > dials => net'[c] = net[c]
    BY <2>1, <2>2, Zenon
  <2> QED  BY <2>3, Zenon DEF IInv, DialsOK
<1>5. FlowTypeOK' /\ ServerTypeOK' /\ FlowOK' /\ ReaderOK' /\ SessionOK' /\ AckOK'
  BY Frames, ZenonT(60) DEF IInv
<1> QED  BY <1>2, <1>3, <1>4, <1>5, Zenon DEF IInv

LEMMA CloseUpstreamWriterStep == IInv /\ close_upstream_writer => IInv'
<1> SUFFICES ASSUME IInv, close_upstream_writer PROVE IInv'
  OBVIOUS
<1> USE DEF close_upstream_writer, flow_vars, server_vars
<1>1. NextByte' = NextByte /\ net'[carrier.conn] # "open"
  BY DEF NextByte, IInv, NetTypeOK, TaskTypeOK
<1>2. NetTypeOK'
  BY Zenon DEF IInv, NetTypeOK, TaskTypeOK, Net
<1>3. DialsOK'
  BY Zenon DEF IInv, DialsOK, NetTypeOK, TaskTypeOK, Conns
<1>4. UplinkOK' /\ ReplayOK'
  BY <1>1, Zenon DEF IInv, UplinkOK, ReplayOK
<1> QED  BY <1>2, <1>3, <1>4, Frames, Zenon DEF IInv

-----------------------------------------------------------------------------
(* The pump sends, the migration replays, the carrier breaks, the server
   forwards. *)

(* On an open carrier the batch joins the chain that ends at its first byte. *)
LEMMA PumpSendStep == IInv /\ PumpSend => IInv'
<1> SUFFICES ASSUME IInv, PumpSend PROVE IInv'
  OBVIOUS
<1> USE DEF pump_frame, flow_vars, server_vars
<1>1. /\ pump' \in PumpState /\ pump'.pc \notin {"lock", "send"}
      /\ reader.pc # "replay"
  BY ZenonT(60) DEF PumpSend, PumpIdle, PumpState, PumpPc, IInv, PumpOK
<1>2. CASE net[carrier.conn] # "open"
  <2>1. TaskTypeOK' /\ PumpOK' /\ UplinkOK' /\ ReplayOK'
    BY <1>1, <1>2, PumpMoves, ZenonT(60) DEF PumpSend
  <2> QED  BY <1>2, <2>1, Frames, ZenonT(60) DEF PumpSend, IInv
<1>3. CASE net[carrier.conn] = "open"
  <2> DEFINE k == carrier.conn
             r == [from |-> pump.from, to |-> pump.to]
  <2>1. /\ k \in Conns /\ uplink \in [Conns -> Seq(Run)]
        /\ r \in Run /\ r.to = taken /\ r.from = NextByte
        /\ uplink' = [uplink EXCEPT ![k] = Append(@, r)]
        /\ taken \in Nat /\ upstream_bytes_acked \in Nat
    <3>1. /\ k \in Conns /\ uplink \in [Conns -> Seq(Run)]
          /\ pump.from \in Nat /\ pump.to \in Nat
          /\ taken \in Nat /\ upstream_bytes_acked \in Nat
      BY Zenon DEF IInv, TaskTypeOK, PumpState, NetTypeOK, FlowTypeOK, ServerTypeOK
    <3>2. pump.from < pump.to /\ pump.to = taken /\ pump.from = NextByte
      BY Zenon DEF PumpSend, IInv, PumpOK, NextByte
    <3>3. uplink' = [uplink EXCEPT ![k] = Append(@, r)]
      BY <1>3, Zenon DEF PumpSend
    <3>4. r \in Run
      BY <3>1, <3>2, Zenon DEF Run
    <3> QED  BY <3>1, <3>2, <3>3, <3>4, Zenon
  <2> HIDE DEF k, r
  <2>2. TaskTypeOK' /\ PumpOK'
    BY <1>1, Zenon DEF PumpSend, IInv, TaskTypeOK, PumpOK
  <2>3. NetTypeOK'
    BY <2>1, SMTT(60) DEF PumpSend, IInv, NetTypeOK
  <2>4. DialsOK'
    <3>1. UNCHANGED <<carrier, dials, net, session, downlink>>
      BY Zenon DEF PumpSend
    <3>2. \A c \in Conns : c > k => uplink'[c] = uplink[c]
      BY <2>1, Zenon, GreaterDiffers DEF Conns
    <3> QED  BY <3>1, <3>2, Zenon DEF IInv, DialsOK, k
  <2>5. NextByte' = taken
    BY <1>1, Zenon DEF PumpSend, NextByte
  <2>6. uplink'[k] = Append(uplink[k], r) /\ uplink[k] \in Seq(Run)
    BY <2>1
  <2>7. \A c \in Conns : \A i \in 1..Len(uplink'[c]) : uplink'[c][i].to <= taken
    <3> SUFFICES ASSUME NEW c \in Conns, NEW i \in 1..Len(uplink'[c])
                 PROVE  uplink'[c][i].to <= taken
      OBVIOUS
    <3>1. CASE c = k
      <4>1. uplink'[c] = Append(uplink[c], r) /\ uplink[c] \in Seq(Run)
        BY <2>6, <3>1, Zenon
      <4>2. \A m \in 1..Len(uplink[c]) : uplink[c][m].to <= taken
        BY Zenon DEF IInv, UplinkOK
      <4>3. r.to <= taken
        BY <2>1
      <4> QED  BY <4>1, <4>2, <4>3, AppendedRun
    <3>2. CASE c # k
      BY <2>1, <3>2, Zenon DEF IInv, UplinkOK
    <3> QED  BY <3>1, <3>2
  <2>8. attached = k => /\ Chain(uplink'[k], upstream_bytes_acked)
                        /\ EndOf(uplink'[k], upstream_bytes_acked) = taken
    <3> SUFFICES ASSUME attached = k
                 PROVE  /\ Chain(uplink'[k], upstream_bytes_acked)
                        /\ EndOf(uplink'[k], upstream_bytes_acked) = taken
      OBVIOUS
    <3>1. Chain(uplink[k], upstream_bytes_acked)
          /\ EndOf(uplink[k], upstream_bytes_acked) = r.from
      <4>1. k # None
        BY <2>1, NoneIsNoConn, Zenon
      <4> QED  BY <1>1, <1>3, <2>1, <4>1, Zenon DEF IInv, UplinkOK, k
    <3> QED  BY <3>1, <2>1, <2>6, ChainAppend
  <2>9. attached \notin {None, k} => Chain(uplink'[attached], upstream_bytes_acked)
    BY <2>1, Zenon DEF IInv, UplinkOK, ServerTypeOK
  <2>10. UplinkOK'
    BY <2>5, <2>7, <2>8, <2>9, ZenonT(60) DEF PumpSend, IInv, UplinkOK, k
  <2>11. ReplayOK'
    BY <1>1, Zenon DEF PumpSend, ReplayOK
  <2> QED
    BY <2>2, <2>3, <2>4, <2>10, <2>11, Frames, ZenonT(60) DEF PumpSend, IInv
<1> QED  BY <1>2, <1>3, Zenon

(* The replay starts the fresh carrier's chain. *)
LEMMA SendReplayStep == IInv /\ SendReplay => IInv'
<1> SUFFICES ASSUME IInv, SendReplay PROVE IInv'
  OBVIOUS
<1> USE DEF flow_vars, server_vars
<1> DEFINE k == carrier.conn
           r == [from |-> reader.up_acked, to |-> reader.upto]
<1>1. /\ k \in Conns /\ reader \in ReaderState /\ uplink[k] = <<>>
      /\ attached = k => upstream_bytes_acked = reader.up_acked
      /\ reader.up_acked <= reader.upto /\ reader.upto = NextByte
      /\ uplink \in [Conns -> Seq(Run)] /\ k = dials
      /\ upstream_bytes_acked \in Nat /\ taken \in Nat /\ None \notin Conns
  <2>1. reader.pc = "replay"
    BY Zenon DEF SendReplay
  <2>2. /\ k \in Conns /\ reader \in ReaderState
        /\ uplink \in [Conns -> Seq(Run)] /\ upstream_bytes_acked \in Nat
        /\ taken \in Nat /\ None \notin Conns
    BY MigrationAssumption, SMTT(60)
       DEF IInv, TaskTypeOK, NetTypeOK, ServerTypeOK, FlowTypeOK, Conns
  <2> QED  BY <2>1, <2>2, Zenon DEF IInv, ReplayOK, ReaderOK
<1>a. reader.up_acked # reader.upto <=> reader.up_acked < reader.upto
  <2>1. reader.up_acked \in Nat /\ reader.upto \in Nat
    BY <1>1, Zenon DEF ReaderState
  <2>2. reader.up_acked <= reader.upto
    BY <1>1, Zenon
  <2> QED  BY <2>1, <2>2
<1>2. /\ reader' \in ReaderState /\ reader'.pc = "deliver"
      /\ reader'.from = reader.from /\ reader'.to = reader.to
      /\ reader'.fresh = reader.fresh
  <2>1. reader' = [reader EXCEPT !.pc = "deliver"]
    BY Zenon DEF SendReplay, Goto
  <2> QED  BY <1>1, <2>1, Zenon DEF ReaderState, ReaderPc
<1>3. TaskTypeOK' /\ PumpOK' /\ ReaderOK' /\ ReplayOK'
  BY <1>1, <1>2, ZenonT(60) DEF SendReplay, IInv, TaskTypeOK, PumpOK, ReaderOK, ReplayOK
<1>4. AckOK'
  BY <1>2, ZenonT(60) DEF SendReplay, IInv, AckOK, Resumed
<1>5. NextByte' = NextByte /\ reader.upto <= taken
  <2>1. NextByte' = NextByte
    BY Zenon DEF SendReplay, NextByte
  <2>2. pump.from \in Nat /\ pump.to \in Nat /\ taken \in Nat
    BY Zenon DEF IInv, FlowTypeOK, TaskTypeOK, PumpState
  <2>3. \/ NextByte = taken
        \/ NextByte = pump.from /\ pump.from < pump.to /\ pump.to = taken
    BY Zenon DEF NextByte, IInv, PumpOK
  <2>4. NextByte <= taken
    BY <2>2, <2>3
  <2> QED  BY <1>1, <2>1, <2>4, Zenon
<1>6. CASE net[k] # "open" \/ reader.up_acked = reader.upto
  <2>1. uplink' = uplink
    BY <1>a, <1>6, Zenon DEF SendReplay
  <2>2. UplinkOK'
    BY <1>1, <1>2, <1>5, <1>6, <2>1, Zenon DEF SendReplay, IInv, UplinkOK, EndOf
  <2>3. FlowTypeOK' /\ ServerTypeOK' /\ FlowOK' /\ SessionOK'
    BY Frames, ZenonT(60) DEF SendReplay, IInv
  <2>4. NetTypeOK' /\ DialsOK'
    BY <2>1, Frames, ZenonT(60) DEF SendReplay, IInv
  <2> QED  BY <1>3, <1>4, <2>2, <2>3, <2>4, Zenon DEF IInv
<1>7. CASE net[k] = "open" /\ reader.up_acked # reader.upto
  <2>1. r \in Run /\ r.from = reader.up_acked /\ r.to = reader.upto
    <3>1. /\ reader.up_acked \in Nat /\ reader.upto \in Nat
          /\ reader.up_acked < reader.upto
      BY <1>1, <1>a, <1>7, Zenon DEF ReaderState
    <3> QED  BY <3>1, Zenon DEF Run
  <2>2. uplink' = [uplink EXCEPT ![k] = Append(@, r)]
    BY <1>a, <1>7, Zenon DEF SendReplay
  <2> HIDE DEF r
  <2>3. uplink'[k] = <<r>>
    BY <1>1, <2>2
  <2>4. Chain(uplink'[k], r.from) /\ EndOf(uplink'[k], r.from) = r.to
    BY <2>3 DEF Chain, EndOf
  <2>5. NetTypeOK'
    <3>1. UNCHANGED <<dials, net, downlink, request>>
      BY Zenon DEF SendReplay
    <3>2. uplink' \in [Conns -> Seq(Run)]
      BY <1>1, <2>1, <2>2, OneAppended
    <3> QED  BY <3>1, <3>2, Zenon DEF IInv, NetTypeOK
  <2>6. DialsOK'
    BY <1>1, <2>2, Zenon DEF SendReplay, IInv, DialsOK, Conns
  <2>7. \A c \in Conns : \A i \in 1..Len(uplink'[c]) : uplink'[c][i].to <= taken
    <3> SUFFICES ASSUME NEW c \in Conns, NEW i \in 1..Len(uplink'[c])
                 PROVE  uplink'[c][i].to <= taken
      OBVIOUS
    <3>1. CASE c = k
      BY <1>5, <2>1, <2>3, <3>1, SMTT(60)
    <3>2. CASE c # k
      BY <1>1, <2>2, <3>2, ZenonT(60) DEF IInv, UplinkOK
    <3> QED  BY <3>1, <3>2
  <2>8. attached \notin {None, k} => Chain(uplink'[attached], upstream_bytes_acked)
    BY <1>1, <2>2, ZenonT(60) DEF IInv, UplinkOK, ServerTypeOK
  <2>9. UplinkOK'
    BY <1>1, <1>5, <2>1, <2>4, <2>7, <2>8, ZenonT(60) DEF SendReplay, IInv, UplinkOK
  <2> QED  BY <1>3, <1>4, <2>5, <2>6, <2>9, Frames, ZenonT(60) DEF SendReplay, IInv
<1> QED  BY <1>6, <1>7, Zenon

LEMMA CarrierBreakStep ==
  ASSUME NEW c \in Conns PROVE IInv /\ CarrierBreak(c) => IInv'
<1> SUFFICES ASSUME IInv, CarrierBreak(c) PROVE IInv'
  OBVIOUS
<1> USE DEF flow_vars, server_vars
<1>1. /\ uplink \in [Conns -> Seq(Run)] /\ downlink \in [Conns -> Seq(Frame)]
      /\ net \in [Conns -> Net] /\ dials \in Conns /\ carrier.conn \in Conns
      /\ upstream_bytes_acked \in Nat
  BY Zenon DEF IInv, NetTypeOK, TaskTypeOK, ServerTypeOK
<1>2. PICK i \in 0..Len(uplink[c]) :
           uplink' = [uplink EXCEPT ![c] = SubSeq(@, 1, i)]
  BY Zenon DEF CarrierBreak
<1>3. PICK j \in 0..Len(downlink[c]) :
           downlink' = [downlink EXCEPT ![c] = SubSeq(@, 1, j)]
  BY Zenon DEF CarrierBreak
<1>4. /\ SubSeq(uplink[c], 1, i) \in Seq(Run) /\ Len(SubSeq(uplink[c], 1, i)) = i
      /\ \A m \in 1..i : /\ m \in 1..Len(uplink[c])
                         /\ SubSeq(uplink[c], 1, i)[m] = uplink[c][m]
  <2>1. uplink[c] \in Seq(Run)
    BY <1>1, Zenon
  <2> QED  BY <2>1, PrefixOf
<1>5. /\ SubSeq(downlink[c], 1, j) \in Seq(Frame)
      /\ Len(SubSeq(downlink[c], 1, j)) = j
      /\ \A m \in 1..j : /\ m \in 1..Len(downlink[c])
                         /\ SubSeq(downlink[c], 1, j)[m] = downlink[c][m]
  <2>1. downlink[c] \in Seq(Frame)
    BY <1>1, Zenon
  <2> QED  BY <2>1, PrefixOf
<1>6. net' = [net EXCEPT ![c] = "broken"] /\ net[c] # "unused"
  BY Zenon DEF CarrierBreak
<1>7. NetTypeOK'
  <2>1. UNCHANGED <<dials, request>>
    BY Zenon DEF CarrierBreak
  <2>2. net' \in [Conns -> Net]
    BY <1>6 DEF IInv, NetTypeOK, Net
  <2>3. uplink' \in [Conns -> Seq(Run)] /\ downlink' \in [Conns -> Seq(Frame)]
    BY <1>1, <1>2, <1>3, <1>4, <1>5, ZenonT(60)
  <2> QED  BY <2>1, <2>2, <2>3, Zenon DEF IInv, NetTypeOK
<1>8. DialsOK'
  <2>1. c <= dials
    BY <1>1, <1>6 DEF IInv, DialsOK, Conns
  <2>2. \A e \in Conns : e > dials => net'[e] = net[e] /\ downlink'[e] = downlink[e]
    <3>1. \A e \in Conns : e > dials => e # c
      BY <1>1, <2>1 DEF Conns
    <3> QED  BY <1>1, <1>3, <1>6, <3>1, Zenon
  <2>3. \A e \in Conns : e > carrier.conn => uplink'[e] = <<>>
    <3> SUFFICES ASSUME NEW e \in Conns, e > carrier.conn PROVE uplink'[e] = <<>>
      OBVIOUS
    <3>1. uplink[e] = <<>>
      BY DEF IInv, DialsOK
    <3>2. CASE e = c
      <4>1. i = 0
        BY <3>1, <3>2
      <4> QED  BY <1>1, <1>2, <1>4, <3>2, <4>1, EmptyLen, Zenon
    <3>3. CASE e # c
      BY <1>1, <1>2, <3>1, <3>3, Zenon
    <3> QED  BY <3>2, <3>3, ZenonT(60)
  <2> QED  BY <2>2, <2>3, Zenon DEF CarrierBreak, IInv, DialsOK
<1>9. AckOK'
  <2>1. ASSUME NEW e \in Conns, NEW m \in 1..Len(downlink'[e]),
               downlink'[e][m].kind = "ack", e > carrier.conn
        PROVE  downlink'[e][m].from = upstream_bytes_acked /\ Resumed(e)
    <3>1. m \in 1..Len(downlink[e]) /\ downlink'[e][m] = downlink[e][m]
      <4>1. CASE e = c
        <5>1. downlink'[e] = SubSeq(downlink[c], 1, j)
          BY <1>1, <1>3, <4>1, Zenon
        <5>2. m \in 1..j
          BY <1>5, <2>1, <5>1, Zenon
        <5> QED  BY <1>5, <4>1, <5>1, <5>2, Zenon
      <4>2. CASE e # c
        BY <1>1, <1>3, <2>1, <4>2, Zenon
      <4> QED  BY <4>1, <4>2, Zenon
    <3> QED  BY <2>1, <3>1, ZenonT(60) DEF IInv, AckOK
  <2> QED  BY <2>1, ZenonT(60) DEF CarrierBreak, IInv, AckOK, Resumed
<1>10. UplinkOK'
  <2>1. \A e \in Conns : \A m \in 1..Len(uplink'[e]) : uplink'[e][m].to <= taken
    BY <1>1, <1>2, <1>4, ZenonT(60) DEF IInv, UplinkOK
  <2>2. attached # None => Chain(uplink'[attached], upstream_bytes_acked)
    BY <1>1, <1>2, ChainPrefix, Zenon DEF IInv, UplinkOK, ServerTypeOK
  <2>3. net'[carrier.conn] = "open" => /\ net[carrier.conn] = "open"
                                      /\ uplink'[carrier.conn] = uplink[carrier.conn]
    BY <1>1, <1>2, <1>6, Zenon
  <2>4. UNCHANGED <<torn_up, upstream_bytes_acked, taken, attached, carrier,
                    reader, pump, carrier_epoch>>
    BY Zenon DEF CarrierBreak
  <2> QED  BY <2>1, <2>2, <2>3, <2>4, Zenon DEF IInv, UplinkOK, NextByte
<1>11. ReplayOK'
  <2>1. uplink[carrier.conn] = <<>> => uplink'[carrier.conn] = <<>>
    <3> SUFFICES ASSUME uplink[carrier.conn] = <<>>
                 PROVE  uplink'[carrier.conn] = <<>>
      BY Zenon
    <3>1. CASE carrier.conn = c
      <4>1. i = 0
        BY <3>1
      <4> QED  BY <1>1, <1>2, <1>4, <3>1, <4>1, EmptyLen, Zenon
    <3>2. CASE carrier.conn # c
      BY <1>1, <1>2, <3>2, Zenon
    <3> QED  BY <3>1, <3>2, ZenonT(60)
  <2> QED  BY <2>1, Zenon DEF CarrierBreak, IInv, ReplayOK, NextByte
<1> QED
  BY <1>7, <1>8, <1>9, <1>10, <1>11, Frames, Zenon DEF CarrierBreak, IInv

LEMMA ServerForwardStep ==
  ASSUME NEW c \in Conns PROVE IInv /\ ServerForward(c) => IInv'
<1> SUFFICES ASSUME IInv, ServerForward(c) PROVE IInv'
  OBVIOUS
<1> USE DEF server_frame, flow_vars
<1>1. /\ c = carrier.conn /\ attached = c /\ uplink[c] # <<>>
      /\ uplink \in [Conns -> Seq(Run)] /\ uplink[c] \in Seq(Run)
      /\ reader.pc \notin {"replay", "v2", "commit"} /\ carrier.conn \in Conns
      /\ upstream_bytes_acked \in Nat /\ taken \in Nat /\ dials \in Conns
      /\ c # None /\ ~torn_up
  <2>1. attached = c /\ uplink[c] # <<>>
    BY Zenon DEF ServerForward
  <2>2. /\ uplink \in [Conns -> Seq(Run)] /\ uplink[c] \in Seq(Run)
        /\ carrier.conn \in Conns /\ taken \in Nat /\ dials \in Conns
        /\ upstream_bytes_acked \in Nat /\ c # None
    BY MigrationAssumption, SMTT(60)
       DEF IInv, NetTypeOK, TaskTypeOK, FlowTypeOK, ServerTypeOK, Conns
  <2>3. c = carrier.conn
    <3>1. c >= carrier.conn
      BY <2>1, <2>2, Zenon DEF IInv, SessionOK
    <3>2. ~(c > carrier.conn)
      BY <2>1, Zenon DEF IInv, DialsOK
    <3> QED  BY <2>2, <3>1, <3>2 DEF Conns
  <2>4. reader.pc # "replay"
    BY <2>1, <2>3 DEF IInv, ReplayOK
  <2>5. reader.pc \notin {"v2", "commit"}
    BY <2>1, <2>2, <2>3, SMTT(60) DEF IInv, AckOK, ReaderOK, Resumed, Conns
  <2> QED  BY <2>1, <2>2, <2>3, <2>4, <2>5, Zenon DEF IInv, UplinkOK
<1>2. \A e \in Conns : \A m \in 1..Len(downlink[e]) :
        ~(downlink[e][m].kind = "ack" /\ e > carrier.conn)
  <2>1. \A e \in Conns : e > carrier.conn => e # c
    BY <1>1, GreaterDiffers DEF Conns
  <2> QED  BY <1>1, <2>1, Zenon DEF IInv, AckOK, Resumed
<1> DEFINE run == Head(uplink[c])
           rest(n) == IF run.from + n = run.to THEN Tail(uplink[c])
                      ELSE [uplink[c] EXCEPT ![1] = [run EXCEPT !.from = @ + n]]
<1>3. PICK n \in 1..(run.to - run.from) :
           /\ upstream_bytes_acked' = upstream_bytes_acked + n
           /\ torn_up' = (torn_up \/ run.from # upstream_bytes_acked)
           /\ uplink' = [uplink EXCEPT ![c] = rest(n)]
  BY Zenon DEF ServerForward
<1>4. /\ run \in Run /\ run.from \in Nat /\ run.to \in Nat /\ n \in Nat
      /\ run.from + n <= run.to /\ run.to <= taken
      /\ run.from = upstream_bytes_acked /\ Chain(uplink[c], upstream_bytes_acked)
      /\ run = uplink[c][1]
  <2>1. run \in Run /\ run = uplink[c][1]
    BY <1>1
  <2>2. run.from \in Nat /\ run.to \in Nat
    BY <2>1, Zenon DEF Run
  <2>3. Chain(uplink[c], upstream_bytes_acked) /\ run.to <= taken
    <3>1. 1 \in 1..Len(uplink[c])
      BY <1>1, EmptyLen
    <3> QED  BY <1>1, <2>1, <3>1, Zenon DEF IInv, UplinkOK
  <2> QED  BY <1>1, <1>3, <2>1, <2>2, <2>3, SMTT(60) DEF Chain
<1>5. /\ rest(n) \in Seq(Run) /\ Chain(rest(n), upstream_bytes_acked + n)
      /\ EndOf(rest(n), upstream_bytes_acked + n)
           = EndOf(uplink[c], upstream_bytes_acked)
  <2>1. CASE run.from + n = run.to
    BY <1>1, <1>4, <2>1, ChainTail, Zenon
  <2>2. CASE run.from + n # run.to
    <3> DEFINE r == [run EXCEPT !.from = @ + n]
    <3>1. r \in Run /\ r.to = run.to /\ r.from = upstream_bytes_acked + n
      BY <1>4, <2>2 DEF Run
    <3>2. rest(n) = [uplink[c] EXCEPT ![1] = r]
      BY <2>2
    <3> HIDE DEF r, rest
    <3>3. /\ [uplink[c] EXCEPT ![1] = r] \in Seq(Run)
          /\ Chain([uplink[c] EXCEPT ![1] = r], r.from)
          /\ EndOf([uplink[c] EXCEPT ![1] = r], r.from)
               = EndOf(uplink[c], upstream_bytes_acked)
      BY <1>1, <1>4, <3>1, ChainTrim, Zenon
    <3> QED  BY <3>1, <3>2, <3>3, Zenon
  <2> QED  BY <2>1, <2>2
<1>6. \A m \in 1..Len(rest(n)) : rest(n)[m].to <= taken
  <2>1. \A m \in 1..Len(uplink[c]) : uplink[c][m].to <= taken
    BY Zenon DEF IInv, UplinkOK
  <2>2. CASE run.from + n = run.to
    <3>1. \A m \in 1..Len(Tail(uplink[c])) :
            /\ m + 1 \in 1..Len(uplink[c])
            /\ Tail(uplink[c])[m] = uplink[c][m + 1]
      BY <1>1
    <3> QED  BY <2>1, <2>2, <3>1
  <2>3. CASE run.from + n # run.to
    BY <1>1, <1>4, <2>1, <2>3, SMTT(60)
  <2> QED  BY <2>2, <2>3
<1> HIDE DEF rest
<1>7. NetTypeOK' /\ ServerTypeOK' /\ torn_up' = FALSE
  <2>1. torn_up' = FALSE
    BY <1>1, <1>3, <1>4, Zenon
  <2>2. upstream_bytes_acked' \in Nat
    BY <1>1, <1>3, <1>4, SMTT(60)
  <2> QED
    BY <1>1, <1>3, <1>5, <2>1, <2>2, Zenon
       DEF ServerForward, IInv, NetTypeOK, ServerTypeOK
<1>8. DialsOK'
  BY <1>1, <1>3, Zenon DEF ServerForward, IInv, DialsOK, Conns
<1>9. AckOK'
  BY <1>1, <1>2 DEF ServerForward, AckOK
<1>10. UplinkOK'
  <2>1. uplink'[c] = rest(n) /\ \A e \in Conns : e # c => uplink'[e] = uplink[e]
    BY <1>1, <1>3
  <2>2. ~torn_up' /\ upstream_bytes_acked' <= taken
    BY <1>1, <1>3, <1>4, <1>7, SMTT(60)
  <2>3. \A e \in Conns : \A m \in 1..Len(uplink'[e]) : uplink'[e][m].to <= taken
    BY <1>6, <2>1, Zenon DEF IInv, UplinkOK
  <2> QED
    BY <1>1, <1>3, <1>5, <2>1, <2>2, <2>3, Zenon
       DEF ServerForward, IInv, UplinkOK, NextByte
<1>11. ReplayOK'
  BY <1>1, SMTT(60) DEF ServerForward, ReplayOK
<1> QED
  BY <1>7, <1>8, <1>9, <1>10, <1>11, Frames, Zenon DEF ServerForward, IInv

-----------------------------------------------------------------------------
(* The server session: relaying, parking and resuming.                     *)

(* A session that leaves the upstream, or has none, may end or go on. *)
LEMMA ServerQuietStep ==
  ASSUME NEW c \in Conns
  PROVE  IInv /\ (\/ ServerFrameError(c) \/ ServerPongError(c)
                  \/ ServerRelay(c) \/ ServerUpstreamEof(c)
                  \/ ServerUpstreamError(c) \/ ServerReserve(c) \/ ServerPark(c)
                  \/ ServerResumeMiss(c) \/ ServerExpire)
           => IInv'
<1> SUFFICES ASSUME IInv,
                    \/ ServerFrameError(c) \/ ServerPongError(c)
                    \/ ServerRelay(c) \/ ServerUpstreamEof(c)
                    \/ ServerUpstreamError(c) \/ ServerReserve(c) \/ ServerPark(c)
                    \/ ServerResumeMiss(c) \/ ServerExpire
             PROVE  IInv'
  OBVIOUS
<1>1. /\ session \in [Conns -> Session] /\ attached \in Conns \cup {None}
      /\ parked \in Conns \cup {None} /\ downlink_ring \in Window
      /\ dials \in Conns /\ carrier.conn \in Conns /\ None \notin Conns
  BY MigrationAssumption, SMTT(60) DEF IInv, ServerTypeOK, NetTypeOK, TaskTypeOK, Conns
<1>2. UNCHANGED <<uplink, upstream_bytes_acked, torn_up>> /\ UNCHANGED server_frame
  BY Zenon DEF ServerFrameError, ServerPongError, ServerRelay, ServerUpstreamEof,
         ServerUpstreamError, ServerReserve,
         ServerPark, ServerResumeMiss, ServerExpire
<1>3. c <= dials \/ ServerExpire
  <2>1. session[c] # "none" \/ ServerExpire
    BY ZenonT(60) DEF ServerFrameError, ServerPongError, ServerRelay, ServerUpstreamEof,
           ServerUpstreamError, ServerReserve, ServerPark, ServerResumeMiss
  <2>2. c > dials => session[c] = "none"
    BY Zenon DEF IInv, DialsOK
  <2> QED  BY <1>1, <2>1, <2>2, SMTT(60) DEF Conns
<1>4. /\ session' \in [Conns -> Session] /\ attached' \in {attached, None}
      /\ parked' \in Conns \cup {None}
      /\ parked' # None => parked' = parked \/ parked' = attached
      /\ attached' # None => parked' = parked \/ parked' = None
      /\ \A e \in Conns :
           \/ session'[e] = session[e]
           \/ session[e] = "resuming" /\ session'[e] \in {"fresh", "over"}
           \/ session[e] = "live" /\ session'[e] = "reserved" /\ attached' = e
           \/ /\ session[e] \in {"live", "reserved"} /\ session'[e] = "over"
              /\ attached' = None
      /\ attached' = None => \A e \in Conns : session'[e] \notin {"live", "reserved"}
  <2> USE <1>1 DEF Session
  <2>1. CASE ServerFrameError(c) \/ ServerPongError(c)
    BY <2>1, Zenon DEF ServerFrameError, ServerPongError, IInv, SessionOK
  <2>2. CASE ServerRelay(c) \/ ServerUpstreamEof(c) \/ ServerUpstreamError(c)
    <3>1. UNCHANGED <<session, attached, parked>> /\ attached = c
      BY <2>2, Zenon DEF ServerRelay, ServerUpstreamEof, ServerUpstreamError
    <3> QED  BY <3>1, Zenon
  <2>3. CASE ServerReserve(c)
    BY <2>3, Zenon DEF ServerReserve, IInv, SessionOK
  <2>4. CASE ServerPark(c)
    BY <2>4, ZenonT(60) DEF ServerPark, IInv, SessionOK
  <2>5. CASE ServerResumeMiss(c)
    BY <2>5, ZenonT(60) DEF ServerResumeMiss, IInv, SessionOK
  <2>6. CASE ServerExpire
    BY <2>6, ZenonT(60) DEF ServerExpire, IInv, SessionOK
  <2> QED  BY <2>1, <2>2, <2>3, <2>4, <2>5, <2>6, ZenonT(60)
<1>5. ServerTypeOK'
  <2>1. relay' \in {"running", "eof", "failed", "reset"} /\ downlink_ring' \in Window
    <3>1. CASE ServerRelay(c)
      <4>1. PICK n \in 1..(MaxDown - downlink_ring.total) :
                 downlink_ring' = PushDownlink(downlink_ring, n, DownCap)
        BY <3>1, Zenon DEF ServerRelay
      <4>2. n \in Nat
        <5>1. downlink_ring.total \in Nat /\ MaxDown \in Nat
          BY <1>1, MigrationAssumption, Zenon DEF Window
        <5> QED  BY <5>1
      <4>3. downlink_ring' \in Window
        BY <1>1, <4>1, <4>2, PushDownlinkType, MigrationAssumption, Zenon
      <4>4. relay' \in {"running", "failed"}
        BY <3>1, Zenon DEF ServerRelay
      <4> QED  BY <4>3, <4>4, Zenon
    <3>2. CASE ~ServerRelay(c)
      BY <3>2, <1>1, Zenon DEF ServerFrameError, ServerPongError, ServerUpstreamEof,
           ServerUpstreamError, ServerReserve,
           ServerPark, ServerResumeMiss, ServerExpire, IInv, ServerTypeOK
    <3> QED  BY <3>1, <3>2
  <2> QED  BY <1>1, <1>2, <1>4, <2>1, Zenon DEF IInv, ServerTypeOK
<1>6. SessionOK'
  <2>1. UNCHANGED <<carrier, dials>>
    BY <1>2, Zenon DEF server_frame
  <2>2. session'[carrier.conn] \in {"live", "reserved", "over"}
    BY <1>1, <1>4, Zenon DEF IInv, SessionOK
  <2>3. attached' # None => attached' = attached /\ attached \in Conns
    BY <1>1, <1>4, Zenon
  <2>4. attached' # None => /\ parked' = None /\ attached' >= carrier.conn
                            /\ session'[attached'] \in {"live", "reserved"}
    BY <1>4, <2>3, Zenon DEF IInv, SessionOK
  <2>5. \A e \in Conns :
          /\ session'[e] \in {"live", "reserved"} => attached' = e
          /\ session'[e] = "resuming" => e = dials /\ carrier.conn < e
    BY <1>4, Zenon DEF IInv, SessionOK
  <2> QED  BY <2>1, <2>2, <2>4, <2>5, Zenon DEF SessionOK
<1>7. \A e \in Conns : Resumed(e) => Resumed(e)'
  BY <1>1, <1>4, Zenon DEF Resumed
<1>8. NetTypeOK' /\ AckOK' /\ \A e \in Conns : e > dials => downlink'[e] = <<>>
  <2>1. CASE ServerReserve(c) \/ ServerPark(c) \/ ServerExpire
    <3>1. downlink' = downlink
      BY <2>1, ZenonT(60) DEF ServerReserve, ServerPark, ServerExpire
    <3>2. NetTypeOK'
      BY <1>2, <3>1, Zenon DEF IInv, NetTypeOK, server_frame
    <3>3. AckOK'
      BY <1>2, <1>7, <3>1, ZenonT(60) DEF IInv, NetTypeOK, AckOK, server_frame
    <3> QED  BY <3>1, <3>2, <3>3, ZenonT(60) DEF IInv, DialsOK
  <2>2. CASE ~(ServerReserve(c) \/ ServerPark(c) \/ ServerExpire)
    <3>1. \E f \in Frame : f.kind # "ack" /\ (downlink' = downlink \/ Emit(c, <<f>>))
      <4>1. FrameOf("close", 0, 0) \in Frame /\ FrameOf("fresh", 0, 0) \in Frame
        BY SMTT(60) DEF FrameOf, Frame
      <4>2. \A n \in Nat : /\ FrameOf("data", downlink_ring.total,
                                      downlink_ring.total + n) \in Frame
                           /\ FrameOf("data", downlink_ring.total,
                                      downlink_ring.total + n).kind # "ack"
        BY <1>1, SMTT(60) DEF FrameOf, Frame, Window
      <4>3. CASE ServerRelay(c)
        <5>1. downlink_ring.total \in Nat
          BY <1>1, Zenon DEF Window
        <5>2. PICK n \in 1..(MaxDown - downlink_ring.total) :
                   \/ downlink' = downlink
                   \/ Emit(c, <<FrameOf("data", downlink_ring.total,
                                        downlink_ring.total + n)>>)
          BY <4>3, Zenon DEF ServerRelay
        <5>3. n \in Nat
          BY <5>1, MigrationAssumption, SMTT(60)
        <5> QED  BY <4>2, <5>2, <5>3
      <4>4. CASE ~ServerRelay(c)
        BY <2>2, <4>1, <4>4, ZenonT(60)
           DEF ServerFrameError, ServerPongError, ServerUpstreamEof,
               ServerUpstreamError, ServerResumeMiss, FrameOf
      <4> QED  BY <4>3, <4>4, Zenon
    <3> QED  BY <1>2, <1>3, <1>7, <2>2, <3>1, EmittedPlain, Zenon DEF server_frame
  <2> QED  BY <2>1, <2>2, Zenon
<1>9. DialsOK'
  <2>1. UNCHANGED <<carrier, dials, net, uplink>>
    BY <1>2, Zenon DEF server_frame
  <2>2. \A e \in Conns : e > dials => session'[e] = "none"
    BY <1>4, ZenonT(60) DEF IInv, DialsOK
  <2> QED  BY <1>8, <2>1, <2>2, Zenon DEF IInv, DialsOK
<1>10. UplinkOK'
  BY <1>1, <1>2, <1>4, ZenonT(60) DEF IInv, UplinkOK, NextByte, server_frame, flow_vars
<1>11. ReplayOK'
  BY <1>1, <1>2, <1>4, Zenon DEF IInv, ReplayOK, NextByte, server_frame, flow_vars
<1> QED
  BY <1>2, <1>5, <1>6, <1>8, <1>9, <1>10, <1>11, Frames, Zenon
     DEF IInv, server_frame, flow_vars

(* The server hands the parked upstream to the redial and tells it its counter;
   nothing of the uplink is on the fresh carrier yet. *)
LEMMA ServerResumeHitStep ==
  ASSUME NEW c \in Conns PROVE IInv /\ ServerResumeHit(c) => IInv'
<1> SUFFICES ASSUME IInv, ServerResumeHit(c) PROVE IInv'
  OBVIOUS
<1>1. /\ session \in [Conns -> Session] /\ session[c] = "resuming"
      /\ c = dials /\ carrier.conn < c /\ uplink[c] = <<>>
      /\ parked # None /\ attached = None /\ parked' = None
      /\ carrier.conn \in Conns /\ upstream_bytes_acked \in Nat
      /\ downlink_ring \in Window /\ None \notin Conns
      /\ request.down_acked \in Nat /\ dials \in Conns
  <2>1. session[c] = "resuming" /\ parked # None /\ parked' = None
    BY Zenon DEF ServerResumeHit
  <2>2. /\ session \in [Conns -> Session] /\ carrier.conn \in Conns
        /\ upstream_bytes_acked \in Nat /\ downlink_ring \in Window
        /\ None \notin Conns /\ request.down_acked \in Nat /\ dials \in Conns
    BY MigrationAssumption, SMTT(60) DEF IInv, ServerTypeOK, NetTypeOK, TaskTypeOK, Conns
  <2>3. c = dials /\ carrier.conn < c /\ attached = None
    BY <2>1 DEF IInv, SessionOK
  <2>4. c > carrier.conn
    BY <2>2, <2>3 DEF Conns
  <2>5. uplink[c] = <<>>
    BY <2>4, Zenon DEF IInv, DialsOK
  <2> QED  BY <2>1, <2>2, <2>3, <2>5, Zenon
<1>2. /\ UNCHANGED <<uplink, relay, upstream_bytes_acked, downlink_ring, torn_up>>
      /\ UNCHANGED server_frame
  BY Zenon DEF ServerResumeHit
<1>3. reader.pc \notin {"v2", "commit", "replay", "deliver", "finish"}
  <2>1. reader.pc \notin {"v2", "commit"}
    BY <1>1, Zenon DEF IInv, AckOK, Resumed
  <2>2. carrier.conn # dials
    BY <1>1 DEF Conns
  <2> QED  BY <2>1, <2>2, Zenon DEF IInv, ReaderOK
<1>4. \A m \in 1..Len(downlink[c]) : downlink[c][m].kind # "ack"
  BY <1>1, Zenon DEF IInv, AckOK, Resumed
<1> DEFINE o == request.down_acked
           v2 == IF ~SymmetricReplay THEN <<>>
                 ELSE IF Available(downlink_ring, o)
                 THEN <<FrameOf("replay", o, downlink_ring.total)>>
                 ELSE <<FrameOf("truncated", 0, 0)>>
           ack == FrameOf("ack", upstream_bytes_acked, upstream_bytes_acked)
           fs == <<ack>> \o v2
<1>5. /\ fs \in Seq(Frame)
      /\ \A i \in 1..Len(fs) : fs[i].kind = "ack" => fs[i].from = upstream_bytes_acked
  <2>1. ack \in Frame /\ ack.from = upstream_bytes_acked
    BY <1>1, ResumeFrames, Zenon
  <2>2. CASE ~SymmetricReplay
    <3>1. fs = <<ack>>
      BY <2>2, SMTT(60)
    <3> HIDE DEF ack, fs
    <3> QED  BY <2>1, <3>1
  <2>3. CASE SymmetricReplay
    <3>1. PICK f \in Frame : f.kind # "ack" /\ v2 = <<f>>
      <4>1. FrameOf("truncated", 0, 0) \in Frame
        BY SMTT(60) DEF Frame, FrameOf
      <4>2. CASE Available(downlink_ring, o)
        BY <1>1, <2>3, <4>2, ResumeFrames, Zenon
      <4>3. CASE ~Available(downlink_ring, o)
        BY <2>3, <4>1, <4>3, ZenonT(60) DEF FrameOf
      <4> QED  BY <4>2, <4>3, Zenon
    <3> HIDE DEF ack, v2
    <3>2. fs \in Seq(Frame) /\ Len(fs) = 2 /\ fs[1] = ack /\ fs[2] = f
      BY <2>1, <3>1, SMTT(60)
    <3> HIDE DEF fs
    <3> QED  BY <2>1, <3>1, <3>2, SMTT(60)
  <2> QED  BY <2>2, <2>3, Zenon
<1>6. \/ /\ session' = [session EXCEPT ![c] = "live"] /\ attached' = c
         /\ Emit(c, fs)
      \/ /\ session' = [session EXCEPT ![c] = "over"]
         /\ UNCHANGED <<attached, downlink>>
  BY ZenonT(60) DEF ServerResumeHit
<1> HIDE DEF fs
<1>7. ServerTypeOK'
  BY <1>1, <1>2, <1>6, ZenonT(60) DEF IInv, ServerTypeOK, Session
<1>8. /\ NetTypeOK' /\ \A e \in Conns : e > dials => downlink'[e] = <<>>
      /\ \A e \in Conns : \A m \in 1..Len(downlink'[e]) :
           \/ m \in 1..Len(downlink[e]) /\ downlink'[e][m] = downlink[e][m]
           \/ e = c /\ attached' = c /\ \E i \in 1..Len(fs) : downlink'[e][m] = fs[i]
  <2>1. CASE downlink' = downlink
    BY <1>2, <2>1, Frames, Zenon DEF IInv, DialsOK, server_frame
  <2>2. CASE attached' = c /\ Emit(c, fs)
    <3>1. c <= dials
      BY <1>1 DEF Conns
    <3>2. UNCHANGED <<dials, net, uplink, request>>
      BY <1>2 DEF server_frame
    <3>3. /\ NetTypeOK' /\ \A e \in Conns : e > dials => downlink'[e] = <<>>
          /\ \A e \in Conns : \A m \in 1..Len(downlink'[e]) :
               \/ m \in 1..Len(downlink[e]) /\ downlink'[e][m] = downlink[e][m]
               \/ e = c /\ \E i \in 1..Len(fs) : downlink'[e][m] = fs[i]
      <4>1. fs \in Seq(Frame) /\ Emit(c, fs)
        BY <1>5, <2>2
      <4> QED  BY <3>1, <3>2, <4>1, Emitted, ZenonT(60)
    <3> QED  BY <2>2, <3>3, Zenon
  <2> QED  BY <1>6, <2>1, <2>2, Zenon
<1>9. DialsOK'
  BY <1>1, <1>2, <1>6, <1>8, Zenon DEF IInv, DialsOK, server_frame, Conns
<1>10. SessionOK'
  <2>1. UNCHANGED <<carrier, dials>>
    BY <1>2 DEF server_frame
  <2>2. /\ session'[carrier.conn] = session[carrier.conn]
        /\ \A e \in Conns : e # c => session'[e] = session[e]
        /\ \A e \in Conns : session[e] \notin {"live", "reserved"}
    BY <1>1, <1>6, Zenon DEF IInv, SessionOK, Conns
  <2>3. \/ session'[c] = "live" /\ attached' = c
        \/ session'[c] = "over" /\ attached' = None
    BY <1>1, <1>6
  <2>4. c >= carrier.conn
    BY <1>1 DEF Conns
  <2> QED  BY <1>1, <2>1, <2>2, <2>3, <2>4, Zenon DEF IInv, SessionOK
<1>11. AckOK'
  <2>1. ASSUME NEW e \in Conns, NEW m \in 1..Len(downlink'[e]),
               downlink'[e][m].kind = "ack", e > carrier.conn
        PROVE  downlink'[e][m].from = upstream_bytes_acked /\ Resumed(e)'
    <3>1. CASE m \in 1..Len(downlink[e]) /\ downlink'[e][m] = downlink[e][m]
      <4>1. e # c
        BY <1>4, <2>1, <3>1, Zenon
      <4>2. e > dials => downlink[e] = <<>>
        BY Zenon DEF IInv, DialsOK
      <4>3. dials <= carrier.conn + 1
        BY Zenon DEF IInv, DialsOK
      <4>4. ~(e > dials)
        BY <3>1, <4>2, NonEmpty, Zenon
      <4>5. c = dials /\ carrier.conn \in Conns /\ dials \in Conns
        BY <1>1, Zenon
      <4> QED  BY <2>1, <4>1, <4>3, <4>4, <4>5 DEF Conns
    <3>2. CASE e = c /\ attached' = c /\ \E i \in 1..Len(fs) : downlink'[e][m] = fs[i]
      <4>1. session'[c] = "live" /\ parked' = None
        BY <1>1, <1>6, <3>2, ZenonT(60)
      <4>2. Resumed(e)'
        BY <3>2, <4>1, Zenon DEF Resumed
      <4> QED  BY <1>5, <2>1, <3>2, <4>2, Zenon
    <3> QED  BY <1>8, <3>1, <3>2, ZenonT(60)
  <2> QED  BY <1>2, <1>3, <2>1, Zenon DEF AckOK, server_frame
<1>12. UplinkOK'
  <2>1. /\ UNCHANGED <<uplink, upstream_bytes_acked, torn_up, taken, carrier, net,
                       reader, NextByte>>
    BY <1>2, Zenon DEF server_frame, flow_vars, NextByte
  <2>2. attached' \in {c, None} /\ c # carrier.conn /\ Chain(uplink[c], upstream_bytes_acked)
    BY <1>1, <1>6, SMTT(60) DEF Chain, Conns
  <2>3. attached' # None => Chain(uplink[attached'], upstream_bytes_acked)
    BY <2>2, Zenon
  <2>4. attached' # carrier.conn
    BY <1>1, <2>2, ZenonT(60)
  <2> QED  BY <2>1, <2>3, <2>4, Zenon DEF IInv, UplinkOK
<1>13. ReplayOK'
  BY <1>2, <1>3 DEF ReplayOK, server_frame
<1> QED
  BY <1>2, <1>7, <1>8, <1>9, <1>10, <1>11, <1>12, <1>13, Frames, Zenon
     DEF IInv, server_frame, flow_vars

-----------------------------------------------------------------------------
(* The reader and the migration.                                           *)

(* The reader's steps that leave the network as it is. *)
LEMMA ReaderQuietStep ==
  IInv /\ (\/ ReaderEof \/ ReaderDied \/ ReaderExit \/ ReaderSoftMigrate
           \/ PlanMigration \/ RedialFailed \/ ConsumeFailed
           \/ SendReplayFailed \/ DeliverDownlinkReplay \/ FinishMigration
           \/ Teardown)
    => IInv'
<1> SUFFICES ASSUME IInv,
                    \/ ReaderEof \/ ReaderDied \/ ReaderExit
                    \/ ReaderSoftMigrate \/ PlanMigration \/ RedialFailed
                    \/ ConsumeFailed \/ SendReplayFailed
                    \/ DeliverDownlinkReplay \/ FinishMigration \/ Teardown
             PROVE  IInv'
  OBVIOUS
<1> DEFINE Moved(pcs) ==
             /\ reader' \in ReaderState /\ reader'.from <= reader'.to
             /\ reader'.fresh \in {None, dials} /\ reader'.pc \in pcs
<1>1. /\ reader \in ReaderState /\ reader.from <= reader.to
      /\ reader.fresh \in {None, dials}
  BY DEF IInv, TaskTypeOK, ReaderOK
<1>2. ASSUME NEW pc \in ReaderPc, reader' = [reader EXCEPT !.pc = pc]
      PROVE  Moved({pc})
  BY <1>1, <1>2 DEF ReaderState
<1>3. ASSUME NEW pc \in ReaderPc, NEW soft \in BOOLEAN,
             reader' = [ReaderIdle(pc) EXCEPT !.soft = soft]
      PROVE  Moved({pc})
  BY <1>3 DEF ReaderState, ReaderIdle
<1>4. ASSUME NEW pc \in ReaderPc, reader' = ReaderIdle(pc)
      PROVE  Moved({pc})
  BY <1>4 DEF ReaderState, ReaderIdle
<1>5. /\ Moved({"read", "plan", "retire", "dial", "finish", "giveup",
                "teardown", "ended"})
      /\ reader'.pc \in {"read", "plan", "retire", "dial", "finish"}
           => reader.pc \in {"read", "plan", "deliver", "finish"}
      /\ reader.pc = "replay" => net[carrier.conn] # "open"
  <2> HIDE DEF Moved
  <2>1. CASE ReaderEof \/ ReaderExit
    <3>1. Moved({"ended"}) /\ reader.pc = "read"
      BY <2>1, <1>4 DEF ReaderEof, ReaderExit, ReaderPc
    <3> QED  BY <3>1 DEF Moved
  <2>2. CASE ReaderDied
    <3>1. Moved({"plan"}) /\ reader.pc = "read"
      BY <2>2, <1>4 DEF ReaderDied, ReaderPc
    <3> QED  BY <3>1 DEF Moved
  <2>3. CASE ReaderSoftMigrate
    <3>1. Moved({"plan"}) /\ reader.pc = "read"
      BY <2>3, <1>3, Zenon DEF ReaderSoftMigrate, ReaderPc
    <3> QED  BY <3>1 DEF Moved
  <2>4. CASE PlanMigration
    <3>1. /\ Moved({"retire"}) \/ Moved({"dial"}) \/ Moved({"teardown"})
          /\ reader.pc = "plan"
      BY <2>4, <1>2 DEF PlanMigration, Goto, ReaderPc
    <3> QED  BY <3>1 DEF Moved
  <2>5. CASE RedialFailed \/ ConsumeFailed
    <3>1. Moved({"giveup"}) /\ reader.pc \in {"dial", "v1", "v2"}
      BY <2>5, <1>2 DEF RedialFailed, ConsumeFailed, Goto, ReaderPc
    <3> QED  BY <3>1 DEF Moved
  <2>6. CASE SendReplayFailed
    <3>1. Moved({"giveup"}) /\ net[carrier.conn] # "open"
      BY <2>6, <1>2 DEF SendReplayFailed, Goto, ReaderPc
    <3> QED  BY <3>1 DEF Moved
  <2>7. CASE DeliverDownlinkReplay
    <3>1. Moved({"finish"}) \/ Moved({"giveup"})
      BY <2>7, <1>2 DEF DeliverDownlinkReplay, Goto, ReaderPc
    <3>2. reader.pc = "deliver"
      BY <2>7 DEF DeliverDownlinkReplay
    <3> QED  BY <3>1, <3>2 DEF Moved
  <2>8. CASE FinishMigration
    <3>1. Moved({"read"}) /\ reader.pc = "finish"
      BY <2>8, <1>4 DEF FinishMigration, ReaderPc
    <3> QED  BY <3>1 DEF Moved
  <2>9. CASE Teardown
    <3>1. Moved({"ended"}) /\ reader.pc = "teardown"
      BY <2>9, <1>4 DEF Teardown, ReaderPc
    <3> QED  BY <3>1 DEF Moved
  <2> QED  BY <2>1, <2>2, <2>3, <2>4, <2>5, <2>6, <2>7, <2>8, <2>9
<1>6. /\ UNCHANGED <<session_id, carrier_epoch, carrier, net, downlink>>
      /\ UNCHANGED reader_frame
  BY DEF ReaderEof, ReaderDied, ReaderExit, ReaderSoftMigrate, PlanMigration,
         RedialFailed, ConsumeFailed, SendReplayFailed, DeliverDownlinkReplay,
         FinishMigration, Teardown
<1>7. FlowTypeOK'
  <2>1. CASE DeliverDownlinkReplay
    <3>1. client_acked_offset + reader.to - reader.from \in Nat
      BY <1>1 DEF IInv, FlowTypeOK, ReaderState
    <3> QED
      BY <2>1, <3>1, <1>6, Zenon DEF DeliverDownlinkReplay, IInv, FlowTypeOK, reader_frame
  <2>2. CASE PlanMigration
    BY <2>2, <1>6 DEF PlanMigration, IInv, FlowTypeOK, reader_frame
  <2>3. CASE ~DeliverDownlinkReplay /\ ~PlanMigration
    BY <2>3, <1>6, Zenon DEF ReaderEof, ReaderDied, ReaderExit, ReaderSoftMigrate,
         RedialFailed, ConsumeFailed, SendReplayFailed,
         FinishMigration, Teardown, IInv, FlowTypeOK, reader_frame, Status
  <2> QED  BY <2>1, <2>2, <2>3
<1>8. TaskTypeOK' /\ PumpOK' /\ ReaderOK' /\ AckOK' /\ UplinkOK' /\ ReplayOK'
  BY <1>5, <1>6, ReaderMoves DEF reader_frame, server_vars, IInv, ReaderOK
<1> QED  BY <1>6, <1>7, <1>8, Frames DEF IInv, reader_frame, server_vars

LEMMA ReaderChunkStep == IInv /\ ReaderChunk => IInv'
<1> SUFFICES ASSUME IInv, ReaderChunk PROVE IInv'
  OBVIOUS
<1> USE DEF ReaderChunk, reader_frame, server_vars
<1> DEFINE k == carrier.conn
<1>1. /\ k \in Conns /\ downlink \in [Conns -> Seq(Frame)]
      /\ downlink' = [downlink EXCEPT ![k] = Tail(@)]
      /\ downlink[k] # <<>> /\ Head(downlink[k]) \in Frame
  BY DEF IInv, TaskTypeOK, NetTypeOK, In
<1>2. client_acked_offset' \in Nat
  BY <1>1, SMTT(60) DEF IInv, FlowTypeOK, Frame, In
<1>3. FlowTypeOK'
  BY <1>2 DEF IInv, FlowTypeOK
<1>4. NetTypeOK'
  BY <1>1 DEF IInv, NetTypeOK
<1>5. DialsOK'
  BY <1>1 DEF IInv, DialsOK, NetTypeOK, Conns
<1>6. AckOK'
  BY <1>1 DEF IInv, AckOK, Resumed, Conns
<1> QED  BY <1>3, <1>4, <1>5, <1>6, Frames DEF IInv

LEMMA RetireCarrierStep == IInv /\ RetireCarrier => IInv'
<1> SUFFICES ASSUME IInv, RetireCarrier PROVE IInv'
  OBVIOUS
<1> USE DEF RetireCarrier, reader_frame, server_vars
<1>1. /\ carrier.conn \in Conns /\ dials \in Conns /\ net \in [Conns -> Net]
      /\ downlink \in [Conns -> Seq(Frame)] /\ reader \in ReaderState
  BY DEF IInv, TaskTypeOK, NetTypeOK
<1>2. /\ reader' \in ReaderState /\ reader'.pc = "dial"
      /\ reader'.from = reader.from /\ reader'.to = reader.to
      /\ reader'.fresh = reader.fresh
  BY <1>1, Zenon DEF Goto, ReaderState, ReaderPc
<1>3. NetTypeOK'
  BY <1>1, SMTT(60) DEF IInv, NetTypeOK, Net
<1>4. DialsOK'
  BY <1>1, Zenon DEF IInv, DialsOK, Conns
<1>5. TaskTypeOK' /\ PumpOK' /\ ReaderOK' /\ AckOK' /\ UplinkOK' /\ ReplayOK'
  BY <1>1, <1>2, ReaderMoves, SMTT(60) DEF IInv, ReaderOK, Conns
<1> QED  BY <1>3, <1>4, <1>5, Frames DEF IInv

LEMMA AbandonMigrationStep == IInv /\ AbandonMigration => IInv'
<1> SUFFICES ASSUME IInv, AbandonMigration PROVE IInv'
  OBVIOUS
<1> USE DEF AbandonMigration, reader_frame, server_vars
<1>1. /\ carrier.conn \in Conns /\ dials \in Conns /\ net \in [Conns -> Net]
      /\ reader \in ReaderState
  BY DEF IInv, TaskTypeOK, NetTypeOK
<1>2. /\ reader' \in ReaderState /\ reader'.pc = "teardown"
      /\ reader'.from = reader.from /\ reader'.to = reader.to
      /\ reader'.fresh = reader.fresh
  BY <1>1 DEF Goto, ReaderState, ReaderPc
<1>3. NetTypeOK' /\ FlowTypeOK'
  BY <1>1, Zenon DEF IInv, NetTypeOK, Net, FlowTypeOK, ReaderState
<1>4. DialsOK'
  BY <1>1, Zenon DEF IInv, DialsOK, Conns, ReaderOK
<1>5. TaskTypeOK' /\ PumpOK' /\ ReaderOK' /\ AckOK' /\ UplinkOK' /\ ReplayOK'
  BY <1>1, <1>2, ReaderMoves DEF IInv, ReaderOK
<1> QED  BY <1>3, <1>4, <1>5, Frames, Zenon DEF IInv

LEMMA RedialStep == IInv /\ Redial => IInv'
<1> SUFFICES ASSUME IInv, Redial PROVE IInv'
  OBVIOUS
<1> USE DEF Redial, flow_vars
<1> DEFINE d == dials + 1
<1>1. /\ d \in Conns /\ d > dials /\ carrier.conn \in Conns /\ carrier.conn = dials
      /\ net \in [Conns -> Net] /\ session \in [Conns -> Session]
      /\ reader \in ReaderState /\ downlink[d] = <<>>
      /\ attached \in Conns \cup {None} /\ parked \in Conns \cup {None}
      /\ session[d] = "none" /\ dials \in Conns /\ None \notin Conns
  BY MigrationAssumption, SMTT(60)
     DEF IInv, NetTypeOK, TaskTypeOK, ServerTypeOK, ReaderOK, DialsOK, Conns
<1>2. /\ reader' \in ReaderState /\ reader'.pc = "v1" /\ reader'.fresh = d
      /\ reader'.from = reader.from /\ reader'.to = reader.to
  BY <1>1, Zenon DEF ReaderState, ReaderPc
<1>3. TaskTypeOK' /\ PumpOK'
  BY <1>2 DEF IInv, TaskTypeOK, PumpOK
<1>4. NetTypeOK'
  BY <1>1, Zenon DEF IInv, NetTypeOK, Net, FlowTypeOK
<1>5. ServerTypeOK'
  BY <1>1 DEF IInv, ServerTypeOK, Session
<1>6. ReaderOK'
  BY <1>1, <1>2 DEF IInv, ReaderOK, Conns
<1>7. DialsOK'
  BY <1>1 DEF IInv, DialsOK, Conns
<1>8. SessionOK'
  BY <1>1 DEF IInv, SessionOK, Conns
<1>9. AckOK'
  BY <1>1, <1>2 DEF IInv, AckOK, Resumed, DialsOK, Conns
<1>10. UplinkOK' /\ ReplayOK'
  BY <1>1, <1>2 DEF IInv, UplinkOK, NextByte, ReplayOK, Conns
<1> QED
  BY <1>3, <1>4, <1>5, <1>6, <1>7, <1>8, <1>9, <1>10, Frames, Zenon DEF IInv

(* The handshake consumes a frame of the fresh carrier. *)
LEMMA FreshFrameConsumed ==
  ASSUME IInv, downlink[dials] # <<>>,
         downlink' = [downlink EXCEPT ![dials] = Tail(@)],
         UNCHANGED <<carrier, attached, parked, session, upstream_bytes_acked,
                     dials, net, uplink, request>>
  PROVE  /\ NetTypeOK' /\ DialsOK'
         /\ \A c \in Conns : \A i \in 1..Len(downlink'[c]) :
              downlink'[c][i].kind = "ack" /\ c > carrier.conn
                => downlink'[c][i].from = upstream_bytes_acked /\ Resumed(c)
<1>1. /\ dials \in Conns /\ downlink \in [Conns -> Seq(Frame)]
      /\ downlink[dials] \in Seq(Frame)
  BY DEF IInv, NetTypeOK
<1>2. /\ Tail(downlink[dials]) \in Seq(Frame)
      /\ \A i \in 1..Len(Tail(downlink[dials])) :
           /\ i + 1 \in 1..Len(downlink[dials])
           /\ Tail(downlink[dials])[i] = downlink[dials][i + 1]
  BY <1>1
<1>3. NetTypeOK'
  BY <1>1, <1>2 DEF IInv, NetTypeOK
<1>4. DialsOK'
  BY <1>1 DEF IInv, DialsOK, Conns
<1>5. ASSUME NEW c \in Conns, NEW i \in 1..Len(downlink'[c]),
             downlink'[c][i].kind = "ack", c > carrier.conn
      PROVE  downlink'[c][i].from = upstream_bytes_acked /\ Resumed(c)
  <2>1. CASE c = dials
    <3>1. downlink'[c] = Tail(downlink[dials])
      BY <1>1, <2>1
    <3>2. i + 1 \in 1..Len(downlink[c]) /\ downlink'[c][i] = downlink[c][i + 1]
      BY <1>2, <2>1, <3>1, Zenon
    <3> QED  BY <1>5, <3>2 DEF IInv, AckOK
  <2>2. CASE c # dials
    <3>1. downlink'[c] = downlink[c]
      BY <1>1, <2>2
    <3> QED  BY <1>5, <3>1 DEF IInv, AckOK
  <2> QED  BY <2>1, <2>2
<1> QED  BY <1>3, <1>4, <1>5, Zenon

LEMMA ConsumeAckPrefixStep == IInv /\ ConsumeAckPrefix => IInv'
<1> SUFFICES ASSUME IInv, ConsumeAckPrefix PROVE IInv'
  OBVIOUS
<1> USE DEF ConsumeAckPrefix, reader_frame, server_vars
<1>1. /\ reader.fresh = dials /\ carrier.conn < dials
      /\ dials \in Conns /\ carrier.conn \in Conns
      /\ downlink \in [Conns -> Seq(Frame)] /\ reader \in ReaderState
      /\ downlink[dials] # <<>> /\ downlink[dials][1].kind = "ack"
      /\ downlink[dials][1] \in Frame
  BY DEF IInv, TaskTypeOK, NetTypeOK, ReaderOK, FreshIn
<1>2. /\ reader' \in ReaderState /\ reader'.pc = "v2"
      /\ reader'.up_acked = downlink[dials][1].from
      /\ reader'.from = reader.from /\ reader'.to = reader.to
      /\ reader'.fresh = reader.fresh
  <2> DEFINE n == downlink[dials][1].from
  <2>1. n \in Nat
    BY <1>1 DEF Frame
  <2>2. reader' = [reader EXCEPT !.pc = "v2", !.up_acked = n]
    BY <1>1 DEF FreshIn
  <2> HIDE DEF n
  <2>3. /\ reader' \in ReaderState /\ reader'.pc = "v2" /\ reader'.up_acked = n
        /\ reader'.from = reader.from /\ reader'.to = reader.to
        /\ reader'.fresh = reader.fresh
    BY <1>1, <2>1, <2>2, Zenon DEF ReaderState, ReaderPc
  <2> QED  BY <2>3 DEF n
<1>3. TaskTypeOK' /\ PumpOK' /\ ReaderOK' /\ ReplayOK'
  BY <1>1, <1>2 DEF IInv, TaskTypeOK, PumpOK, ReaderOK, ReplayOK
<1>4. /\ NetTypeOK' /\ DialsOK'
      /\ \A c \in Conns : \A i \in 1..Len(downlink'[c]) :
           downlink'[c][i].kind = "ack" /\ c > carrier.conn
             => downlink'[c][i].from = upstream_bytes_acked /\ Resumed(c)
  BY <1>1, FreshFrameConsumed
<1>5. downlink[dials][1].from = upstream_bytes_acked /\ Resumed(dials)
  BY <1>1 DEF IInv, AckOK, Conns
<1>6. AckOK'
  BY <1>2, <1>4, <1>5 DEF AckOK, Resumed
<1>7. UplinkOK'
  BY <1>2 DEF IInv, UplinkOK, NextByte
<1> QED  BY <1>3, <1>4, <1>6, <1>7, Frames DEF IInv

LEMMA ConsumeDownlinkReplayStep == IInv /\ ConsumeDownlinkReplay => IInv'
<1> SUFFICES ASSUME IInv, ConsumeDownlinkReplay PROVE IInv'
  OBVIOUS
<1> USE DEF ConsumeDownlinkReplay, reader_frame, server_vars
<1>1. /\ reader.fresh = dials /\ carrier.conn < dials
      /\ dials \in Conns /\ carrier.conn \in Conns
      /\ downlink \in [Conns -> Seq(Frame)] /\ reader \in ReaderState
      /\ reader.from <= reader.to
  BY DEF IInv, TaskTypeOK, NetTypeOK, ReaderOK
<1>2. /\ reader' \in ReaderState /\ reader'.pc = "commit"
      /\ reader'.up_acked = reader.up_acked
      /\ reader'.from <= reader'.to /\ reader'.fresh = reader.fresh
  <2>1. CASE ~SymmetricReplay
    BY <1>1, <2>1 DEF ReaderState, ReaderPc, Goto
  <2>2. CASE SymmetricReplay
    <3> DEFINE f == Head(FreshIn)
    <3>1. f \in Frame /\ reader' = [reader EXCEPT !.pc = "commit",
                                     !.from = f.from, !.to = f.to]
      BY <1>1, <2>2 DEF FreshIn
    <3> HIDE DEF f
    <3>2. f.from \in Nat /\ f.to \in Nat /\ f.from <= f.to
      BY <3>1 DEF Frame
    <3> QED  BY <1>1, <3>1, <3>2, Zenon DEF ReaderState, ReaderPc
  <2> QED  BY <2>1, <2>2
<1>3. TaskTypeOK' /\ PumpOK' /\ ReaderOK' /\ ReplayOK'
  BY <1>1, <1>2 DEF IInv, TaskTypeOK, PumpOK, ReaderOK, ReplayOK
<1>4. /\ NetTypeOK' /\ DialsOK'
      /\ \A c \in Conns : \A i \in 1..Len(downlink'[c]) :
           downlink'[c][i].kind = "ack" /\ c > carrier.conn
             => downlink'[c][i].from = upstream_bytes_acked /\ Resumed(c)
  <2>1. CASE downlink' = downlink
    BY <2>1, Frames, Zenon DEF IInv, AckOK
  <2>2. CASE downlink' # downlink
    <3>1. /\ downlink' = [downlink EXCEPT ![dials] = Tail(@)]
          /\ downlink[dials] # <<>>
      BY <1>1, <2>2 DEF FreshIn
    <3> QED  BY <3>1, FreshFrameConsumed
  <2> QED  BY <2>1, <2>2, Zenon
<1>5. AckOK'
  BY <1>2, <1>4 DEF IInv, AckOK, Resumed
<1>6. UplinkOK'
  BY <1>2 DEF IInv, UplinkOK, NextByte
<1> QED  BY <1>3, <1>4, <1>5, <1>6, Frames DEF IInv

(* The commit: the ring's tail, from the server's counter on, is what the fresh
   carrier still lacks, whatever batch the pump has in hand. *)
LEMMA CommitMigrationStep == IInv /\ CommitMigration => IInv'
<1> SUFFICES ASSUME IInv, CommitMigration PROVE IInv'
  OBVIOUS
<1> USE DEF reader_frame, server_vars
<1>1. /\ reader.fresh = dials /\ carrier.conn < dials
      /\ dials \in Conns /\ carrier.conn \in Conns
      /\ reader \in ReaderState /\ reader.up_acked = upstream_bytes_acked
      /\ Resumed(dials) /\ carrier_epoch \in Nat /\ uplink[dials] = <<>>
      /\ pump.pc # "send" /\ dials \in Nat /\ carrier.conn \in Nat
      /\ None \notin Conns /\ None \notin Nat
  BY MigrationAssumption, SMTT(60)
     DEF CommitMigration, IInv, TaskTypeOK, NetTypeOK, ReaderOK, AckOK,
         FlowTypeOK, DialsOK, Conns
<1>2. CASE ~(status # "closed" /\ replay # None
             /\ Available(replay, reader.up_acked))
  <2>1. /\ reader' = [reader EXCEPT !.pc = "giveup"]
        /\ UNCHANGED <<session_id, carrier_epoch, phase, attempts, carrier>>
    BY <1>2 DEF CommitMigration, Goto
  <2>2. /\ reader' \in ReaderState /\ reader'.pc = "giveup"
        /\ reader'.from = reader.from /\ reader'.to = reader.to
        /\ reader'.fresh = reader.fresh
    BY <1>1, <2>1 DEF ReaderState, ReaderPc
  <2>3. TaskTypeOK' /\ PumpOK' /\ ReaderOK' /\ AckOK' /\ UplinkOK' /\ ReplayOK'
    BY <2>1, <2>2, ReaderMoves DEF CommitMigration, IInv, ReaderOK
  <2> QED  BY <2>1, <2>3, Frames DEF CommitMigration, IInv
<1>3. CASE status # "closed" /\ replay # None
           /\ Available(replay, reader.up_acked)
  <2>1. /\ session_id' = dials /\ carrier_epoch' = carrier_epoch + 1
        /\ phase' = "Idle" /\ attempts' = 0
        /\ carrier' = [conn |-> dials, epoch |-> carrier_epoch + 1]
        /\ reader' = [reader EXCEPT !.pc = "replay", !.upto = replay.total]
    BY <1>1, <1>3 DEF CommitMigration
  <2>2. /\ replay.total = taken /\ taken \in Nat /\ reader.up_acked <= taken
    BY <1>3 DEF IInv, FlowTypeOK, FlowOK, Window, Available
  <2>3. /\ reader' \in ReaderState /\ reader'.pc = "replay"
        /\ reader'.upto = taken /\ reader'.up_acked = reader.up_acked
        /\ reader'.from = reader.from /\ reader'.to = reader.to
        /\ reader'.fresh = reader.fresh
    BY <1>1, <2>1, <2>2, Zenon DEF ReaderState, ReaderPc
  <2>4. carrier'.conn = dials /\ carrier'.epoch = carrier_epoch + 1
    BY <2>1
  <2>5. FlowTypeOK' /\ TaskTypeOK'
    BY <1>1, <2>1, <2>3 DEF CommitMigration, IInv, FlowTypeOK, TaskTypeOK
  <2>6. FlowOK'
    BY <2>1, <2>4 DEF CommitMigration, IInv, FlowOK
  <2>7. pump.pc = "lock" => pump.epoch < carrier_epoch + 1
    BY <1>1 DEF IInv, PumpOK, TaskTypeOK, PumpState
  <2>8. PumpOK'
    BY <1>1, <2>1, <2>3, <2>7
       DEF CommitMigration, IInv, PumpOK, TaskTypeOK, PumpState
  <2>9. NextByte' = taken
    BY <1>1, <2>1, <2>7 DEF CommitMigration, NextByte, IInv, TaskTypeOK, PumpState
  <2>10. DialsOK' /\ ReaderOK'
    BY <1>1, <2>3, <2>4, SMTT(60) DEF CommitMigration, IInv, DialsOK, ReaderOK, Conns
  <2>11. SessionOK'
    BY <1>1, <2>4, SMTT(60) DEF CommitMigration, IInv, SessionOK, Resumed, Conns
  <2>12. AckOK'
    BY <1>1, <2>3, <2>4 DEF CommitMigration, IInv, AckOK, Resumed, DialsOK, Conns
  <2>13. UplinkOK'
    BY <1>1, <2>3 DEF CommitMigration, IInv, UplinkOK
  <2>14. ReplayOK'
    BY <1>1, <2>2, <2>3, <2>4, <2>9, Zenon DEF CommitMigration, ReplayOK
  <2> QED
    BY <2>5, <2>6, <2>8, <2>10, <2>11, <2>12, <2>13, <2>14, Frames, Zenon
       DEF CommitMigration, IInv
<1> QED  BY <1>2, <1>3

-----------------------------------------------------------------------------
(* The invariant and the theorems.                                         *)

LEMMA InitIInv == Init => IInv
<1> SUFFICES ASSUME Init PROVE IInv
  OBVIOUS
<1> USE MigrationAssumption DEF Init, Conns
<1>1. EmptyWindow \in Window /\ EmptyWindow.total = 0
  BY Zenon DEF EmptyWindow, Window
<1>2. /\ pump \in PumpState /\ pump.pc = "pop"
      /\ reader \in ReaderState /\ reader.pc = "read" /\ reader.fresh = None
      /\ reader.from = 0 /\ reader.to = 0
  BY DEF PumpIdle, ReaderIdle, PumpState, ReaderState, PumpPc, ReaderPc
<1>3. FlowTypeOK
  <2>1. torn_down \in BOOLEAN /\ permit \in BOOLEAN
    BY Zenon
  <2>2. session_id \in Conns /\ replay \in Window \cup {None}
    BY <1>1
  <2> QED  BY <2>1, <2>2 DEF FlowTypeOK, Status
<1>4. TaskTypeOK
  BY <1>2, SMTT(60) DEF TaskTypeOK
<1>5. NetTypeOK
  BY DEF NetTypeOK, Net
<1>6. ServerTypeOK
  <2>1. torn_up \in BOOLEAN
    BY Zenon
  <2>2. session \in [Conns -> Session]
    BY DEF Session
  <2>3. attached \in Conns \cup {None} /\ parked \in Conns \cup {None}
    OBVIOUS
  <2> QED  BY <1>1, <2>1, <2>2, <2>3, Zenon DEF ServerTypeOK
<1>7. FlowOK /\ PumpOK /\ ReaderOK
  BY <1>1, <1>2, SMTT(60) DEF FlowOK, PumpOK, ReaderOK
<1>8. DialsOK /\ SessionOK
  BY DEF DialsOK, SessionOK
<1>9. AckOK /\ ReplayOK
  BY <1>2 DEF AckOK, ReplayOK
<1>10. UplinkOK
  BY <1>2 DEF UplinkOK, Chain, EndOf, NextByte
<1> QED
  BY <1>3, <1>4, <1>5, <1>6, <1>7, <1>8, <1>9, <1>10 DEF IInv

LEMMA NextIInv == IInv /\ [Next]_vars => IInv'
<1> SUFFICES ASSUME IInv, [Next]_vars PROVE IInv'
  OBVIOUS
<1>1. CASE ClientWrite \/ ClientFin \/ FlowClose \/ close_upstream_writer
  BY <1>1, ClientWriteStep, ClientFinStep, CloseUpstreamWriterStep
<1>2. CASE PumpStep
  BY <1>2, PumpPopStep, PumpQuietStep, PumpLockStep, PumpSendStep, PumpCloseStep
     DEF PumpStep
<1>3. CASE ReaderRead \/ ReaderSoftMigrate
  BY <1>3, ReaderChunkStep, ReaderQuietStep DEF ReaderRead
<1>4. CASE MigrationStep
  BY <1>4, ReaderQuietStep, RetireCarrierStep, RedialStep, ConsumeAckPrefixStep,
     ConsumeDownlinkReplayStep, CommitMigrationStep, SendReplayStep,
     AbandonMigrationStep, Zenon DEF MigrationStep
<1>5. ASSUME NEW c \in Conns, CarrierBreak(c) \/ ServerStep(c) PROVE IInv'
  BY <1>5, CarrierBreakStep, ServerForwardStep, ServerQuietStep,
     ServerResumeHitStep DEF ServerStep
<1>6. CASE ServerExpire
  <2>1. 0 \in Conns
    BY MigrationAssumption, SMTT(60) DEF Conns
  <2> QED  BY <1>6, <2>1, ServerQuietStep
<1>7. CASE UNCHANGED vars
  BY <1>7, Frames DEF vars, flow_vars, net_vars, server_vars, IInv
<1> QED  BY <1>1, <1>2, <1>3, <1>4, <1>5, <1>6, <1>7 DEF Next

(* IInv is an invariant. *)
THEOREM Invariance == Spec => []IInv
BY InitIInv, NextIInv, PTL DEF Spec

(* Every variable of the flow, its tasks, the network and the server keeps its
   type, for any bounds, ring sizes and numbers of carriers. *)
THEOREM TypeCorrect == Spec => []TypeOK
<1>1. IInv => TypeOK
  BY DEF IInv, TypeOK
<1> QED  BY <1>1, Invariance, PTL

(* No byte of the uplink is duplicated, skipped or reordered by any number of
   carrier deaths, soft switches, resumes and replays. *)
THEOREM UplinkIsExact == Spec => []UplinkExact
<1>1. IInv => UplinkExact
  BY Zenon DEF IInv, UplinkOK, UplinkExact
<1> QED  BY <1>1, Invariance, PTL

(* On a healthy flow what reached the destination and what is in flight make up
   everything the pump took from the client. *)
THEOREM UplinkIsComplete == Spec => []UplinkComplete
<1>1. IInv => UplinkComplete
  BY Zenon DEF IInv, UplinkOK, UplinkComplete, EndOf, NextByte
<1> QED  BY <1>1, Invariance, PTL

(* The installed carrier is always one the server resumed for this flow. *)
THEOREM CarrierIsAlwaysResumed == Spec => []CarrierIsResumed
<1>1. IInv => CarrierIsResumed
  BY DEF IInv, SessionOK, CarrierIsResumed
<1> QED  BY <1>1, Invariance, PTL

(* Client to destination, the flow and the server session implement the byte
   pipe: a client write is a Send, a forwarded run is a Deliver, and every other
   step of pump, reader, network and server is a stutter. *)
THEOREM UplinkIsAPipe == Spec => ImplementsUpPipe
<1>1. Init => UpPipe!Init
  BY DEF Init, UpPipe!Init
<1>2. IInv /\ IInv' /\ [Next]_vars => [UpPipe!Next]_UpPipe!pipe
  <2> SUFFICES ASSUME IInv, IInv', [Next]_vars PROVE [UpPipe!Next]_UpPipe!pipe
    OBVIOUS
  <2>1. /\ written \in Nat /\ upstream_bytes_acked \in Nat
        /\ written' \in Nat /\ upstream_bytes_acked' \in Nat
        /\ upstream_bytes_acked' <= written'
    <3>1. /\ taken \in Nat /\ written \in Nat /\ upstream_bytes_acked \in Nat
          /\ taken' \in Nat /\ written' \in Nat /\ upstream_bytes_acked' \in Nat
      BY Zenon DEF IInv, FlowTypeOK, ServerTypeOK
    <3>2. upstream_bytes_acked' <= taken' /\ taken' <= written'
      BY Zenon DEF IInv, UplinkOK, FlowOK
    <3> QED  BY <3>1, <3>2
  <2>2. UNCHANGED (~torn_up)
    BY Zenon DEF IInv, UplinkOK
  <2>3. CASE UNCHANGED <<written, upstream_bytes_acked>>
    BY <2>2, <2>3 DEF UpPipe!pipe
  <2>4. CASE ClientWrite
    BY <2>1, <2>2, <2>4 DEF ClientWrite, server_vars, UpPipe!Next, UpPipe!Send
  <2>5. ASSUME NEW c \in Conns, ServerForward(c)
        PROVE  [UpPipe!Next]_UpPipe!pipe
    <3>1. UNCHANGED written
      BY <2>5 DEF ServerForward, server_frame, flow_vars
    <3>2. PICK n \in Nat : n > 0 /\ upstream_bytes_acked' = upstream_bytes_acked + n
      <4>1. uplink[c] # <<>> /\ uplink[c] \in Seq(Run)
        BY <2>5 DEF ServerForward, IInv, NetTypeOK
      <4>2. Head(uplink[c]) \in Run
        BY <4>1, HeadInSet, Zenon
      <4>3. Head(uplink[c]).from \in Nat /\ Head(uplink[c]).to \in Nat
        BY <4>2, RunFields, Zenon
      <4> QED  BY <2>5, <4>3 DEF ServerForward
    <3> QED  BY <2>1, <2>2, <3>1, <3>2 DEF UpPipe!Next, UpPipe!Deliver
  <2> USE DEF flow_vars, net_vars, server_vars, pump_frame, reader_frame,
              server_frame
  <2>6. CASE \/ ClientFin \/ FlowClose \/ close_upstream_writer
             \/ UNCHANGED vars
    BY <2>3, <2>6, Zenon DEF ClientFin, FlowClose, close_upstream_writer, vars
  <2>7. CASE PumpStep
    BY <2>3, <2>7, Zenon
       DEF PumpStep, PumpPop, PumpPopMigrating, PumpLock, PumpSend,
           PumpSendError, PumpVerdict, PumpWake, PumpGrace, PumpFin, PumpClose,
           PumpExit
  <2>8. CASE ReaderRead \/ ReaderSoftMigrate
    BY <2>3, <2>8, Zenon
       DEF ReaderRead, ReaderSoftMigrate, ReaderChunk, ReaderEof, ReaderDied,
           ReaderExit
  <2>9. CASE MigrationStep
    BY <2>3, <2>9, Zenon
       DEF MigrationStep, PlanMigration, RetireCarrier, Redial, RedialFailed,
           ConsumeAckPrefix, ConsumeDownlinkReplay, ConsumeFailed,
           CommitMigration, SendReplay, SendReplayFailed, DeliverDownlinkReplay,
           FinishMigration, AbandonMigration, Teardown
  <2>10. ASSUME NEW c \in Conns, CarrierBreak(c) \/ ServerStep(c)
         PROVE  [UpPipe!Next]_UpPipe!pipe
    <3>1. ServerForward(c) \/ UNCHANGED <<written, upstream_bytes_acked>>
      BY <2>10, Zenon
         DEF CarrierBreak, ServerStep, ServerFrameError, ServerPongError,
             ServerRelay,
             ServerUpstreamEof, ServerUpstreamError, ServerReserve, ServerPark,
             ServerResumeHit,
             ServerResumeMiss
    <3> QED  BY <2>3, <2>5, <3>1, Zenon
  <2>11. CASE ServerExpire
    BY <2>3, <2>11 DEF ServerExpire
  <2> QED  BY <2>4, <2>6, <2>7, <2>8, <2>9, <2>10, <2>11 DEF Next
<1> QED
  BY <1>1, <1>2, Invariance, PTL DEF Spec, ImplementsUpPipe, UpPipe!Spec

-----------------------------------------------------------------------------
(* The downlink: where both sides negotiated the v2 replay, the client's flow
   accepts exactly the bytes the destination sent. *)

(* A frame after the stream's byte o - 1: the bytes from o on, or the end. *)
Continues(g, o) == g.kind = "close" \/ (g.kind = "data" /\ g.from = o)

(* The frame g may follow the frame f on a carrier of a v2 session: the replay
   follows the Ack-Prefix, live bytes go on where the replay ended, and nothing
   but another Close follows a Close. *)
Follows(f, g) ==
  /\ f.kind = "ack" => g.kind \in {"replay", "truncated"}
  /\ f.kind \in {"replay", "data"} => Continues(g, f.to)
  /\ f.kind = "truncated" => g.kind \in {"data", "close"}
  /\ f.kind = "close" => g.kind = "close"
  /\ f.kind # "fresh"

Linked(q) == \A i \in 1..(Len(q) - 1) : Follows(q[i], q[i + 1])

(* No byte of q lies at t or beyond, and a replay in q begins at o. *)
Bounded(q, t) ==
  \A i \in 1..Len(q) : q[i].kind \in {"data", "replay"} => q[i].to <= t
ReplayFrom(q, o) ==
  \A i \in 1..Len(q) : q[i].kind = "replay" => q[i].from = o

First(q) == q[1]
Final(q) == q[Len(q)]

(* The reader reads the latest carrier, or will once its migration is through;
   Expected is the first byte it lacks beyond the replay it holds. *)
Holding == reader.pc \in {"commit", "replay", "deliver"}
Reading == Holding \/ reader.pc \in {"read", "finish"}
Expected == IF Holding THEN reader.to ELSE client_acked_offset

-----------------------------------------------------------------------------
(* The parts of the downlink's inductive invariant. *)

LinkedOK == \A c \in Conns : Linked(downlink[c])

(* What the latest carrier brings first is what the reader lacks. *)
FirstFrame(q) ==
  /\ Reading /\ q # <<>> => Continues(First(q), Expected)
  /\ reader.pc = "v2" /\ q # <<>> => First(q).kind \in {"truncated", "replay"}
  /\ reader.pc \in {"v1", "v2"} => ReplayFrom(q, client_acked_offset)

HeadOK ==
  /\ FirstFrame(downlink[dials])
  /\ Holding => reader.from = client_acked_offset

RequestOK ==
  /\ \A c \in Conns : session[c] = "resuming" => downlink[c] = <<>>
  /\ reader.pc = "v1" => request.down_acked = client_acked_offset

(* The queue q of the attached carrier ends where the upstream's relay goes on. *)
LastFrame(q) ==
  /\ q # <<>> => Final(q).kind \notin {"ack", "fresh"}
  /\ attached = dials /\ reader.pc \in {"v1", "v2"} => q # <<>>
  /\ relay = "running" =>
       /\ q # <<>> =>
            \/ Final(q).kind = "truncated"
            \/ Final(q).kind \in {"data", "replay"} /\ Final(q).to = downlink_ring.total
       /\ attached = dials /\ Reading /\ q = <<>> => Expected = downlink_ring.total

TailOK ==
  attached # None /\ net[attached] # "broken" => LastFrame(downlink[attached])

(* Nothing is delivered that the upstream did not send. *)
TotalOK ==
  /\ client_acked_offset <= downlink_ring.total
  /\ reader.to <= downlink_ring.total
  /\ \A c \in Conns : Bounded(downlink[c], downlink_ring.total)

DownInv ==
  /\ LinkedOK /\ HeadOK /\ RequestOK /\ TailOK /\ TotalOK /\ ~torn_down

-----------------------------------------------------------------------------
(* Queues of frames. *)

(* Taking the first frame. *)
LEMMA Shorter ==
  ASSUME NEW q \in Seq(Frame), q # <<>>, Linked(q)
  PROVE  /\ Tail(q) \in Seq(Frame) /\ Linked(Tail(q)) /\ First(q) \in Frame
         /\ Tail(q) # <<>> => /\ Follows(First(q), First(Tail(q)))
                              /\ Final(Tail(q)) = Final(q)
         /\ Tail(q) = <<>> => Final(q) = First(q)
         /\ \A t : Bounded(q, t) => Bounded(Tail(q), t)
         /\ \A o : ReplayFrom(q, o) => ReplayFrom(Tail(q), o)
<1> DEFINE t == Tail(q)
<1>1. /\ t \in Seq(Frame) /\ Len(q) \in Nat /\ Len(q) >= 1
      /\ Len(t) = Len(q) - 1
      /\ \A i \in 1..(Len(q) - 1) : t[i] = q[i + 1]
      /\ q[1] \in Frame
  OBVIOUS
<1> HIDE DEF t
<1>2. t = <<>> <=> Len(q) = 1
  BY <1>1, EmptyLen
<1>3. Linked(t)
  BY <1>1 DEF Linked
<1>4. t # <<>> => Follows(First(q), First(t)) /\ Final(t) = Final(q)
  BY <1>1, <1>2 DEF Linked, First, Final
<1>5. t = <<>> => Final(q) = First(q)
  BY <1>2 DEF First, Final
<1>6. \A n : Bounded(q, n) => Bounded(t, n)
  BY <1>1, SMTT(60) DEF Bounded
<1>7. \A o : ReplayFrom(q, o) => ReplayFrom(t, o)
  BY <1>1 DEF ReplayFrom
<1> QED  BY <1>1, <1>3, <1>4, <1>5, <1>6, <1>7 DEF t, First

(* Losing the last frames. *)
LEMMA Cut ==
  ASSUME NEW q \in Seq(Frame), NEW j \in 0..Len(q), Linked(q)
  PROVE  /\ Linked(SubSeq(q, 1, j))
         /\ q = <<>> => SubSeq(q, 1, j) = <<>>
         /\ SubSeq(q, 1, j) # <<>> => First(SubSeq(q, 1, j)) = First(q)
         /\ \A t : Bounded(q, t) => Bounded(SubSeq(q, 1, j), t)
         /\ \A o : ReplayFrom(q, o) => ReplayFrom(SubSeq(q, 1, j), o)
<1> DEFINE p == SubSeq(q, 1, j)
<1>1. /\ p \in Seq(Frame) /\ Len(q) \in Nat /\ Len(p) = j
      /\ \A i \in 1..j : i \in 1..Len(q) /\ p[i] = q[i]
  OBVIOUS
<1> HIDE DEF p
<1>2. p = <<>> <=> j = 0
  BY <1>1, EmptyLen
<1>3. Linked(p)
  BY <1>1 DEF Linked
<1>4. q = <<>> => p = <<>>
  BY <1>1, <1>2
<1>5. p # <<>> => First(p) = First(q)
  BY <1>1, <1>2 DEF First
<1>6. \A n : Bounded(q, n) => Bounded(p, n)
  BY <1>1 DEF Bounded
<1>7. \A o : ReplayFrom(q, o) => ReplayFrom(p, o)
  BY <1>1 DEF ReplayFrom
<1> QED  BY <1>3, <1>4, <1>5, <1>6, <1>7 DEF p

(* Queueing one more frame. *)
LEMMA Longer ==
  ASSUME NEW q \in Seq(Frame), NEW f \in Frame, Linked(q),
         q # <<>> => Follows(Final(q), f)
  PROVE  /\ q \o <<f>> # <<>> /\ Linked(q \o <<f>>) /\ Final(q \o <<f>>) = f
         /\ First(q \o <<f>>) = IF q = <<>> THEN f ELSE First(q)
         /\ \A t : Bounded(q, t) /\ (f.kind \in {"data", "replay"} => f.to <= t)
                     => Bounded(q \o <<f>>, t)
         /\ \A o : ReplayFrom(q, o) /\ (f.kind = "replay" => f.from = o)
                     => ReplayFrom(q \o <<f>>, o)
<1> DEFINE p == q \o <<f>>
<1>1. /\ p \in Seq(Frame) /\ Len(q) \in Nat /\ Len(p) = Len(q) + 1
      /\ \A i \in 1..Len(q) : p[i] = q[i]
      /\ p[Len(q) + 1] = f
  OBVIOUS
<1> HIDE DEF p
<1>2. p # <<>> /\ (q = <<>> <=> Len(q) = 0)
  BY <1>1, EmptyLen
<1>3. Linked(p)
  <2> SUFFICES ASSUME NEW i \in 1..(Len(p) - 1) PROVE Follows(p[i], p[i + 1])
    BY DEF Linked
  <2>1. CASE i < Len(q)
    BY <1>1, <2>1 DEF Linked
  <2>2. CASE i = Len(q)
    BY <1>1, <1>2, <2>2 DEF Final
  <2> QED  BY <1>1, <2>1, <2>2
<1>4. Final(p) = f
  BY <1>1 DEF Final
<1>5. First(p) = IF q = <<>> THEN f ELSE First(q)
  BY <1>1, <1>2 DEF First
<1>6. \A n : Bounded(q, n) /\ (f.kind \in {"data", "replay"} => f.to <= n)
               => Bounded(p, n)
  BY <1>1 DEF Bounded
<1>7. \A o : ReplayFrom(q, o) /\ (f.kind = "replay" => f.from = o)
               => ReplayFrom(p, o)
  BY <1>1 DEF ReplayFrom
<1> QED  BY <1>2, <1>3, <1>4, <1>5, <1>6, <1>7 DEF p

(* A bound on a queue may grow, and an empty queue has every bound. *)
LEMMA EmptyQueue ==
  /\ Linked(<<>>)
  /\ \A t : Bounded(<<>>, t)
  /\ \A o : ReplayFrom(<<>>, o)
BY DEF Linked, Bounded, ReplayFrom

LEMMA LargerBound ==
  ASSUME NEW q \in Seq(Frame), NEW t \in Nat, NEW u \in Nat, t <= u, Bounded(q, t)
  PROVE  Bounded(q, u)
<1>1. \A i \in 1..Len(q) : q[i] \in Frame
  OBVIOUS
<1>2. \A f \in Frame : f.to \in Nat
  BY DEF Frame
<1> QED  BY <1>1, <1>2 DEF Bounded

LEMMA PushedTotal ==
  ASSUME NEW w \in Window, NEW n \in Nat, n > 0, NEW cap \in Nat
  PROVE  PushDownlink(w, n, cap).total = w.total + n
<1>1. w.total \in Nat
  BY DEF Window
<1>2. [w EXCEPT !.total = @ + n].total = w.total + n
  BY DEF Window
<1> QED  BY <1>1, <1>2 DEF PushDownlink, PushChunks

-----------------------------------------------------------------------------
(* Steps that leave every queue alone. *)

LEMMA DownTypes ==
  ASSUME IInv
  PROVE  /\ dials \in Conns /\ carrier.conn \in Conns /\ None \notin Conns
         /\ downlink \in [Conns -> Seq(Frame)] /\ net \in [Conns -> Net]
         /\ session \in [Conns -> Session] /\ attached \in Conns \cup {None}
         /\ downlink_ring \in Window /\ downlink_ring.total \in Nat
         /\ client_acked_offset \in Nat /\ reader \in ReaderState
         /\ reader.from \in Nat /\ reader.to \in Nat
         /\ request.down_acked \in Nat
<1>1. /\ reader \in ReaderState /\ downlink_ring \in Window
      /\ request \in [id : Conns \cup {None}, down_acked : Nat]
  BY DEF IInv, TaskTypeOK, ServerTypeOK, NetTypeOK
<1>2. reader.from \in Nat /\ reader.to \in Nat
  BY <1>1 DEF ReaderState
<1>3. downlink_ring.total \in Nat /\ request.down_acked \in Nat
  BY <1>1 DEF Window
<1>4. None \notin Conns
  BY MigrationAssumption DEF Conns
<1>5. /\ carrier.conn \in Conns /\ client_acked_offset \in Nat
      /\ dials \in Conns /\ downlink \in [Conns -> Seq(Frame)] /\ net \in [Conns -> Net]
  BY Zenon DEF IInv, TaskTypeOK, NetTypeOK, FlowTypeOK
<1>6. session \in [Conns -> Session] /\ attached \in Conns \cup {None}
  BY DEF IInv, ServerTypeOK
<1> QED  BY <1>1, <1>2, <1>3, <1>4, <1>5, <1>6

(* The reader stays, goes on with what it holds, begins to read, or goes to a
   place where it looks at no queue. *)
ReaderGoesOn ==
  \/ reader' = reader
  \/ /\ reader'.to <= downlink_ring.total
     /\ \/ reader'.pc \notin {"v1", "v2", "commit", "replay", "deliver", "read",
                              "finish"}
        \/ /\ reader'.pc \in {"replay", "deliver"} /\ Holding
           /\ reader'.from = reader.from /\ reader'.to = reader.to
        \/ reader'.pc = "read" /\ reader.pc = "finish"

LEMMA DownQuiet ==
  ASSUME DownInv, ReaderGoesOn,
         UNCHANGED <<downlink, dials, client_acked_offset, torn_down,
                     downlink_ring, request>>,
         \A c \in Conns : session'[c] = "resuming" => session[c] = "resuming",
         attached' \in {attached, None},
         attached' # None =>
           /\ relay' = "running" => relay = "running"
           /\ net'[attached] # "broken" => net[attached] # "broken"
  PROVE  DownInv'
<1> USE DEF DownInv
<1>1. LinkedOK' /\ TotalOK'
  BY DEF LinkedOK, TotalOK, ReaderGoesOn
<1>2. RequestOK'
  BY DEF RequestOK, ReaderGoesOn
<1>3. HeadOK'
  BY DEF HeadOK, FirstFrame, Reading, Holding, Expected, ReaderGoesOn
<1>4. TailOK'
  BY DEF TailOK, LastFrame, Reading, Holding, Expected, ReaderGoesOn
<1> QED  BY <1>1, <1>2, <1>3, <1>4

(* While the server looks the redial up, the reader waits for its answer. *)
LEMMA ResumingReader ==
  ASSUME IInv, session[dials] = "resuming", carrier.conn # dials
  PROVE  reader.pc \notin {"v2", "commit", "replay", "deliver", "finish", "read"}
<1>1. reader.pc \notin {"v2", "commit"}
  BY Zenon DEF IInv, AckOK, Resumed
<1>2. reader.pc \notin {"replay", "deliver", "finish", "read"}
  BY Zenon DEF IInv, ReaderOK
<1> QED  BY <1>1, <1>2, Zenon

(* The client, the pump, and whoever closes a carrier's writer. *)
LEMMA DownClientStep ==
  ASSUME IInv, DownInv,
         ClientWrite \/ ClientFin \/ FlowClose \/ close_upstream_writer \/ PumpStep
  PROVE  DownInv'
<1>1. /\ UNCHANGED <<downlink, dials, client_acked_offset, torn_down, reader,
                     downlink_ring, request, session, attached, relay>>
      /\ \/ net' = net
         \/ net' = [net EXCEPT ![carrier.conn] = "closed"] /\ net[carrier.conn] = "open"
         \/ net' = [net EXCEPT ![carrier.conn] = IF @ = "open" THEN "closed" ELSE @]
  <2> USE DEF flow_vars, net_vars, server_vars, pump_frame
  <2>1. CASE ClientWrite \/ ClientFin \/ FlowClose \/ close_upstream_writer
    BY <2>1, Zenon DEF ClientWrite, ClientFin, FlowClose, close_upstream_writer
  <2>2. CASE PumpStep
    BY <2>2, Zenon
       DEF PumpStep, PumpPop, PumpPopMigrating, PumpLock, PumpSend, PumpSendError,
           PumpVerdict, PumpWake, PumpGrace, PumpFin, PumpClose, PumpExit
  <2> QED  BY <2>1, <2>2
<1>2. attached # None => (net'[attached] # "broken" => net[attached] # "broken")
  BY <1>1, DownTypes
<1> QED  BY <1>1, <1>2, DownQuiet DEF ReaderGoesOn

(* The reader's and the migration's steps that touch no queue. *)
LEMMA DownReaderStep ==
  ASSUME IInv, DownInv,
         \/ ReaderEof \/ ReaderDied \/ ReaderExit \/ ReaderSoftMigrate
         \/ PlanMigration \/ RedialFailed \/ ConsumeFailed \/ CommitMigration
         \/ SendReplay \/ SendReplayFailed \/ FinishMigration
         \/ AbandonMigration \/ Teardown
  PROVE  DownInv'
<1>1. reader \in ReaderState /\ reader.to <= downlink_ring.total
      /\ downlink_ring.total \in Nat
  BY DownTypes DEF DownInv, TotalOK
<1>2. ASSUME NEW pc \in ReaderPc, reader' = [reader EXCEPT !.pc = pc]
      PROVE  reader'.pc = pc /\ reader'.from = reader.from /\ reader'.to = reader.to
  BY <1>1, <1>2 DEF ReaderState
<1>3. ReaderIdle("read").to = 0 /\ ReaderIdle("read").pc = "read"
  BY DEF ReaderIdle
<1>4. ReaderGoesOn
  <2>1. CASE ReaderEof \/ ReaderExit \/ Teardown
    <3>1. reader' = ReaderIdle("ended")
      BY <2>1, Zenon DEF ReaderEof, ReaderExit, Teardown
    <3>2. reader'.pc = "ended" /\ reader'.to = 0
      BY <3>1 DEF ReaderIdle
    <3> QED  BY <1>1, <3>2 DEF ReaderGoesOn
  <2>2. CASE ReaderDied
    <3>1. reader' = ReaderIdle("plan")
      BY <2>2, Zenon DEF ReaderDied
    <3>2. reader'.pc = "plan" /\ reader'.to = 0
      BY <3>1 DEF ReaderIdle
    <3> QED  BY <1>1, <3>2 DEF ReaderGoesOn
  <2>3. CASE ReaderSoftMigrate
    <3>1. reader'.pc = "plan" /\ reader'.to = 0
      BY <2>3 DEF ReaderSoftMigrate, ReaderIdle
    <3> QED  BY <1>1, <3>1 DEF ReaderGoesOn
  <2>4. CASE PlanMigration \/ RedialFailed \/ ConsumeFailed \/ SendReplayFailed
             \/ AbandonMigration
    <3>1. \E pc \in {"retire", "dial", "teardown", "giveup"} :
            reader' = [reader EXCEPT !.pc = pc]
      BY <2>4 DEF PlanMigration, RedialFailed, ConsumeFailed, SendReplayFailed,
                  AbandonMigration, Goto
    <3> QED  BY <1>1, <1>2, <3>1 DEF ReaderGoesOn, ReaderPc
  <2>5. CASE CommitMigration
    <3>1. CASE reader' = [reader EXCEPT !.pc = "giveup"]
      BY <1>1, <1>2, <3>1 DEF ReaderGoesOn, ReaderPc
    <3>2. CASE reader' # [reader EXCEPT !.pc = "giveup"]
      <4>1. /\ reader.pc = "commit"
            /\ reader' = [reader EXCEPT !.pc = "replay", !.upto = replay.total]
        BY <2>5, <3>2 DEF CommitMigration, Goto
      <4>2. /\ reader'.pc = "replay" /\ reader'.from = reader.from
            /\ reader'.to = reader.to
        BY <1>1, <4>1, Zenon DEF ReaderState
      <4> QED  BY <1>1, <4>1, <4>2 DEF ReaderGoesOn, Holding
    <3> QED  BY <3>1, <3>2
  <2>6. CASE SendReplay
    <3>1. reader.pc = "replay" /\ reader' = [reader EXCEPT !.pc = "deliver"]
      BY <2>6 DEF SendReplay, Goto
    <3> QED  BY <1>1, <1>2, <3>1 DEF ReaderGoesOn, Holding, ReaderPc
  <2>7. CASE FinishMigration
    BY <2>7, <1>1, <1>3 DEF FinishMigration, ReaderGoesOn
  <2> QED  BY <2>1, <2>2, <2>3, <2>4, <2>5, <2>6, <2>7, Zenon
<1>5. /\ UNCHANGED <<downlink, dials, client_acked_offset, torn_down,
                     downlink_ring, request, session, attached, relay>>
      /\ \/ net' = net
         \/ net' = [net EXCEPT ![reader.fresh] = IF @ = "open" THEN "closed" ELSE @]
  BY Zenon
     DEF ReaderEof, ReaderDied, ReaderExit, ReaderSoftMigrate, PlanMigration,
         RedialFailed, ConsumeFailed, CommitMigration, SendReplay,
         SendReplayFailed, FinishMigration, AbandonMigration, Teardown,
         reader_frame, server_vars
<1>6. attached # None => (net'[attached] # "broken" => net[attached] # "broken")
  BY <1>5, DownTypes, Zenon
<1> QED  BY <1>4, <1>5, <1>6, DownQuiet

(* The server's steps that queue nothing. *)
LEMMA DownServerStep ==
  ASSUME IInv, DownInv, NEW c \in Conns,
         \/ ServerForward(c) \/ ServerPongError(c) \/ ServerUpstreamError(c)
         \/ ServerReserve(c) \/ ServerPark(c) \/ ServerExpire
         \/ ServerResumeMiss(c) /\ UNCHANGED downlink
  PROVE  DownInv'
<1>1. session \in [Conns -> Session]
  BY DownTypes
<1>2. /\ UNCHANGED <<downlink, dials, client_acked_offset, torn_down, reader,
                     downlink_ring, request, net>>
      /\ attached' \in {attached, None} /\ relay' \in {relay, "reset"}
  BY Zenon
     DEF ServerForward, ServerPongError, ServerUpstreamError, ServerReserve,
         ServerPark, ServerExpire, ServerResumeMiss, server_frame
<1>3. \E v \in {"fresh", "over", "reserved"} :
        session' = session \/ session' = [session EXCEPT ![c] = v]
  BY DEF ServerForward, ServerPongError, ServerUpstreamError, ServerReserve,
         ServerPark, ServerExpire, ServerResumeMiss
<1>4. \A e \in Conns : session'[e] = "resuming" => session[e] = "resuming"
  BY <1>1, <1>3
<1>5. relay' = "running" => relay = "running"
  BY <1>2
<1> QED  BY <1>2, <1>4, <1>5, DownQuiet DEF ReaderGoesOn

-----------------------------------------------------------------------------
(* Steps that queue frames. *)

(* Emit appends to a queue, or its carrier is broken. *)
LEMMA EmitCases ==
  ASSUME IInv, NEW c \in Conns, NEW fs, Emit(c, fs)
  PROVE  \/ net[c] = "broken" /\ downlink' = downlink
         \/ /\ net[c] # "broken" /\ downlink'[c] = downlink[c] \o fs
            /\ \A e \in Conns \ {c} : downlink'[e] = downlink[e]
BY DownTypes, Zenon DEF Emit

(* A Close. *)
LEMMA DownCloseStep ==
  ASSUME IInv, DownInv, NEW c \in Conns,
         ServerFrameError(c) \/ ServerUpstreamEof(c)
  PROVE  DownInv'
<1> DEFINE f == FrameOf("close", 0, 0)
           q == downlink[c]
<1>1. /\ UNCHANGED <<dials, client_acked_offset, torn_down, reader, downlink_ring,
                     request, net>>
      /\ attached = c /\ Emit(c, <<f>>)
      /\ \/ attached' = None
         \/ attached' = attached /\ relay' = "eof"
      /\ session[c] \in {"live", "reserved"}
      /\ session' = session \/ session' = [session EXCEPT ![c] = "over"]
  BY DEF ServerFrameError, ServerUpstreamEof, server_frame
<1>2. /\ dials \in Conns /\ None \notin Conns /\ session \in [Conns -> Session]
      /\ q \in Seq(Frame) /\ downlink_ring.total \in Nat
  BY DownTypes
<1>3. \A e \in Conns : session'[e] = "resuming" => session[e] = "resuming" /\ e # c
  BY <1>1, <1>2
<1>4. f \in Frame /\ f.kind = "close"
  BY DEF Frame, FrameOf
<1> HIDE DEF f
<1>5. CASE net[c] = "broken" /\ downlink' = downlink
  BY <1>1, <1>2, <1>3, <1>5, DownQuiet DEF ReaderGoesOn
<1>6. CASE /\ net[c] # "broken" /\ downlink'[c] = q \o <<f>>
           /\ \A e \in Conns \ {c} : downlink'[e] = downlink[e]
  <2>1. LastFrame(q)
    BY <1>1, <1>2, <1>6, Zenon DEF DownInv, TailOK
  <2>2. q # <<>> => Follows(Final(q), f)
    BY <2>1, <1>4, Zenon DEF LastFrame, Follows, Continues
  <2> DEFINE p == q \o <<f>>
  <2>3. /\ p # <<>> /\ Linked(p) /\ Final(p) = f
        /\ First(p) = IF q = <<>> THEN f ELSE First(q)
        /\ \A t : Bounded(q, t) => Bounded(p, t)
        /\ \A o : ReplayFrom(q, o) => ReplayFrom(p, o)
    <3>1. Linked(q)
      BY DEF DownInv, LinkedOK
    <3> QED  BY <1>2, <1>4, <2>2, <3>1, Longer
  <2> HIDE DEF p, q
  <2>4. downlink'[c] = p /\ q = downlink[c]
    BY <1>6, Zenon DEF p, q
  <2>5. LinkedOK' /\ TotalOK'
    BY <1>1, <1>6, <2>3, <2>4, Zenon DEF DownInv, LinkedOK, TotalOK
  <2>6. RequestOK'
    BY <1>1, <1>3, <1>6 DEF DownInv, RequestOK
  <2>7. FirstFrame(downlink[dials])'
    <3>1. CASE dials = c
      <4>1. reader.pc = "v2" => q # <<>>
        BY <1>1, <2>1, <3>1 DEF LastFrame
      <4>2. FirstFrame(q)
        BY <2>4, <3>1, Zenon DEF DownInv, HeadOK
      <4> QED
        BY <1>1, <1>4, <2>3, <2>4, <3>1, <4>1, <4>2, ZenonT(60)
           DEF FirstFrame, Reading, Holding, Expected, Continues
    <3>2. CASE dials # c
      BY <1>1, <1>2, <1>6, <3>2, ZenonT(60)
         DEF DownInv, HeadOK, FirstFrame, Reading, Holding, Expected
    <3> QED  BY <3>1, <3>2, Zenon
  <2>8. HeadOK'
    BY <1>1, <2>7, Zenon DEF DownInv, HeadOK, Holding
  <2>9. TailOK'
    BY <1>1, <1>4, <2>3, <2>4, Zenon DEF TailOK, LastFrame
  <2> QED  BY <1>1, <2>5, <2>6, <2>8, <2>9, Zenon DEF DownInv
<1> QED  BY <1>1, <1>5, <1>6, EmitCases, Zenon

(* The relay task sends what the upstream sent. *)
LEMMA DownRelayStep ==
  ASSUME IInv, DownInv, NEW c \in Conns, ServerRelay(c)
  PROVE  DownInv'
<1> DEFINE T == downlink_ring.total
           q == downlink[c]
<1>1. PICK n \in 1..(MaxDown - T) :
        /\ downlink_ring' = PushDownlink(downlink_ring, n, DownCap)
        /\ \/ Emit(c, <<FrameOf("data", T, T + n)>>) /\ relay' = relay
           \/ net[c] # "open" /\ relay' = "failed" /\ downlink' = downlink
  BY Zenon DEF ServerRelay
<1>2. /\ attached = c /\ relay = "running"
      /\ session[c] \in {"live", "reserved"}
      /\ UNCHANGED <<dials, client_acked_offset, torn_down, reader, request, net,
                     session, attached>>
  BY Zenon DEF ServerRelay, server_frame
<1>3. /\ dials \in Conns /\ None \notin Conns /\ q \in Seq(Frame) /\ T \in Nat
      /\ downlink \in [Conns -> Seq(Frame)] /\ downlink_ring \in Window
      /\ client_acked_offset \in Nat /\ reader.to \in Nat
  BY DownTypes, Zenon
<1>4. n \in Nat /\ n > 0 /\ downlink_ring'.total = T + n
  <2>1. n \in Nat /\ n > 0
    BY <1>3, MigrationAssumption
  <2>2. downlink_ring' = PushDownlink(downlink_ring, n, DownCap) /\ DownCap \in Nat
    BY <1>1, MigrationAssumption, Zenon
  <2> QED  BY <1>3, <2>1, <2>2, PushedTotal, Zenon
<1> DEFINE U == T + n
           f == FrameOf("data", T, U)
<1>5. /\ f \in Frame /\ f.kind = "data" /\ f.from = T /\ f.to = U
      /\ U \in Nat /\ T <= U
  <2>1. U \in Nat /\ T \in Nat /\ T <= U
    BY <1>3, <1>4
  <2> HIDE DEF T, U
  <2>2. f.kind = "data" /\ f.from = T /\ f.to = U
    BY Zenon DEF FrameOf
  <2>3. f \in Frame
    BY <2>1, SMTT(60) DEF Frame, FrameOf
  <2> QED  BY <2>1, <2>2, <2>3, Zenon
<1>6. \A e \in Conns : Bounded(downlink[e], U)
  BY <1>3, <1>5, LargerBound DEF DownInv, TotalOK
<1>7. client_acked_offset <= U /\ reader.to <= U
  BY <1>3, <1>5, SMTT(60) DEF DownInv, TotalOK
<1> HIDE DEF f, U
<1>8. CASE downlink' = downlink /\ (relay' = "failed" \/ net[c] = "broken")
  <2>1. LinkedOK' /\ RequestOK'
    BY <1>2, <1>8, Zenon DEF DownInv, LinkedOK, RequestOK
  <2>2. HeadOK'
    BY <1>2, <1>8, ZenonT(60) DEF DownInv, HeadOK, FirstFrame, Reading, Holding, Expected
  <2>3. TailOK'
    BY <1>2, <1>8, Zenon DEF DownInv, TailOK, LastFrame
  <2>4. TotalOK'
    BY <1>2, <1>4, <1>6, <1>7, <1>8 DEF TotalOK, U
  <2> QED  BY <1>2, <2>1, <2>2, <2>3, <2>4, Zenon DEF DownInv
<1>9. CASE /\ net[c] # "broken" /\ downlink'[c] = q \o <<f>>
           /\ \A e \in Conns \ {c} : downlink'[e] = downlink[e]
  <2>1. LastFrame(q)
    BY <1>2, <1>3, <1>9, Zenon DEF DownInv, TailOK
  <2>2. q # <<>> => Follows(Final(q), f)
    BY <2>1, <1>2, <1>5, ZenonT(60) DEF LastFrame, Follows, Continues
  <2> DEFINE p == q \o <<f>>
  <2>3. /\ p # <<>> /\ Linked(p) /\ Final(p) = f
        /\ First(p) = IF q = <<>> THEN f ELSE First(q)
        /\ Bounded(p, U)
        /\ \A o : ReplayFrom(q, o) => ReplayFrom(p, o)
    <3>1. Linked(q) /\ Bounded(q, U) /\ f.to <= U /\ f.kind # "replay"
      BY <1>5, <1>6 DEF DownInv, LinkedOK
    <3> QED  BY <1>3, <1>5, <2>2, <3>1, Longer, Zenon
  <2> HIDE DEF p, q
  <2>4. downlink'[c] = p /\ q = downlink[c]
    BY <1>9, Zenon DEF p, q
  <2>5. LinkedOK' /\ TotalOK'
    <3>1. LinkedOK'
      BY <1>9, <2>3, <2>4, Zenon DEF DownInv, LinkedOK
    <3>2. downlink_ring'.total = U
      BY <1>4, Zenon DEF U
    <3>3. TotalOK'
      BY <1>2, <1>6, <1>7, <1>9, <2>3, <2>4, <3>2, Zenon DEF TotalOK
    <3> QED  BY <3>1, <3>3, Zenon
  <2>6. RequestOK'
    BY <1>2, <1>9, Zenon DEF DownInv, RequestOK
  <2>7. FirstFrame(downlink[dials])'
    <3>1. CASE dials = c
      <4>1. /\ reader.pc \in {"v1", "v2"} => q # <<>>
            /\ Reading /\ q = <<>> => Expected = T
        BY <1>2, <2>1, <3>1, Zenon DEF LastFrame
      <4>2. FirstFrame(q)
        BY <2>4, <3>1, Zenon DEF DownInv, HeadOK
      <4> QED
        BY <1>2, <1>5, <2>3, <2>4, <3>1, <4>1, <4>2, Zenon
           DEF FirstFrame, Reading, Holding, Expected, Continues
    <3>2. CASE dials # c
      <4>1. downlink'[dials] = downlink[dials]
        BY <1>3, <1>9, <3>2, Zenon
      <4> QED
        BY <1>2, <4>1, Zenon
           DEF DownInv, HeadOK, FirstFrame, Reading, Holding, Expected
    <3> QED  BY <3>1, <3>2, Zenon
  <2>8. HeadOK'
    BY <1>2, <2>7, ZenonT(60) DEF DownInv, HeadOK, Holding
  <2>9. TailOK'
    BY <1>2, <1>4, <1>5, <2>3, <2>4, Zenon DEF TailOK, LastFrame, U
  <2> QED  BY <1>2, <2>5, <2>6, <2>8, <2>9, Zenon DEF DownInv
<1> QED
  <2>1. CASE net[c] # "open" /\ relay' = "failed" /\ downlink' = downlink
    BY <1>8, <2>1
  <2>2. CASE Emit(c, <<f>>)
    BY <1>8, <1>9, <2>2, EmitCases, Zenon
  <2> QED  BY <1>1, <2>1, <2>2 DEF f, U

(* A miss: the fresh upstream is told of, on a carrier with an empty queue. *)
LEMMA DownMissStep ==
  ASSUME IInv, DownInv, NEW c \in Conns, ServerResumeMiss(c)
  PROVE  DownInv'
<1> DEFINE f == FrameOf("fresh", 0, 0)
<1>1. /\ session[c] = "resuming"
      /\ \/ Emit(c, <<f>>) /\ session' = [session EXCEPT ![c] = "fresh"]
         \/ UNCHANGED downlink
      /\ UNCHANGED <<dials, client_acked_offset, torn_down, reader, downlink_ring,
                     request, net, attached, relay>>
  BY DEF ServerResumeMiss, server_frame
<1>2. CASE UNCHANGED downlink
  BY <1>2, DownServerStep
<1>3. CASE Emit(c, <<f>>) /\ session' = [session EXCEPT ![c] = "fresh"]
           /\ downlink' # downlink
  <2>1. /\ dials \in Conns /\ None \notin Conns /\ session \in [Conns -> Session]
        /\ downlink[c] = <<>> /\ c = dials /\ carrier.conn < c /\ attached # c
        /\ carrier.conn \in Conns /\ attached \in Conns \cup {None}
    BY <1>1, DownTypes DEF DownInv, RequestOK, IInv, SessionOK
  <2>2. f \in Frame /\ f.kind = "fresh"
    BY SMTT(60) DEF Frame, FrameOf
  <2> HIDE DEF f
  <2>3. /\ downlink'[c] = <<>> \o <<f>>
        /\ \A e \in Conns \ {c} : downlink'[e] = downlink[e]
    BY <1>3, <2>1, EmitCases, Zenon
  <2> DEFINE p == <<>> \o <<f>>
  <2>4. /\ p # <<>> /\ Linked(p) /\ First(p) = f
        /\ \A t : Bounded(p, t)
        /\ \A o : ReplayFrom(p, o)
    <3>1. <<>> \in Seq(Frame)
      OBVIOUS
    <3> QED  BY <2>2, <3>1, EmptyQueue, Longer, Zenon
  <2> HIDE DEF p
  <2>5. downlink'[c] = p
    BY <2>3, Zenon DEF p
  <2>6. reader.pc \notin {"v2", "commit", "replay", "deliver", "finish", "read"}
    <3>1. carrier.conn # dials
      BY <2>1 DEF Conns
    <3> QED  BY <1>1, <2>1, <3>1, ResumingReader, Zenon
  <2>7. LinkedOK' /\ TotalOK'
    BY <1>1, <2>3, <2>4, <2>5, Zenon DEF DownInv, LinkedOK, TotalOK
  <2>8. RequestOK'
    BY <1>1, <1>3, <2>1, <2>3, ZenonT(60) DEF DownInv, RequestOK
  <2>9. HeadOK'
    BY <1>1, <2>1, <2>4, <2>5, <2>6, ZenonT(60) DEF HeadOK, FirstFrame, Reading, Holding
  <2>10. TailOK'
    BY <1>1, <2>1, <2>3, Zenon DEF DownInv, TailOK, LastFrame, Reading, Holding, Expected
  <2> QED  BY <1>1, <2>7, <2>8, <2>9, <2>10, Zenon DEF DownInv
<1> QED  BY <1>1, <1>2, <1>3, Zenon

(* A hit: the Ack-Prefix and the replay open the carrier's queue. *)
LEMMA DownHitStep ==
  ASSUME SymmetricReplay, IInv, DownInv, NEW c \in Conns, ServerResumeHit(c)
  PROVE  DownInv'
<1> DEFINE o == request.down_acked
           T == downlink_ring.total
           U == upstream_bytes_acked
           a == FrameOf("ack", U, U)
           r == IF Available(downlink_ring, o) THEN FrameOf("replay", o, T)
                ELSE FrameOf("truncated", 0, 0)
<1>1. /\ session[c] = "resuming" /\ parked # None
      /\ \/ /\ session' = [session EXCEPT ![c] = "live"] /\ attached' = c
            /\ Emit(c, <<a>> \o <<r>>)
         \/ /\ session' = [session EXCEPT ![c] = "over"]
            /\ UNCHANGED <<attached, downlink>>
      /\ UNCHANGED <<dials, client_acked_offset, torn_down, reader, downlink_ring,
                     request, net, relay>>
  <2>1. (IF ~SymmetricReplay THEN <<>>
         ELSE IF Available(downlink_ring, o)
              THEN <<FrameOf("replay", o, downlink_ring.total)>>
              ELSE <<FrameOf("truncated", 0, 0)>>) = <<r>>
    OBVIOUS
  <2> QED  BY <2>1, Zenon DEF ServerResumeHit, server_frame
<1>2. /\ dials \in Conns /\ None \notin Conns /\ session \in [Conns -> Session]
      /\ downlink[c] = <<>> /\ c = dials /\ carrier.conn < c /\ attached = None
      /\ carrier.conn \in Conns /\ T \in Nat /\ o \in Nat /\ U \in Nat
  BY <1>1, DownTypes, Zenon DEF DownInv, RequestOK, IInv, SessionOK, ServerTypeOK
<1>3. reader.pc \notin {"v2", "commit", "replay", "deliver", "finish", "read"}
  <2>1. carrier.conn # dials
    BY <1>2, SMTT(60) DEF Conns
  <2> QED  BY <1>1, <1>2, <2>1, ResumingReader, Zenon
<1>4. /\ a \in Frame /\ a.kind = "ack" /\ r \in Frame
      /\ \/ r.kind = "truncated"
         \/ r.kind = "replay" /\ r.from = o /\ r.to = T
  <2>1. downlink_ring \in Window
    BY Zenon DEF IInv, ServerTypeOK
  <2> QED  BY <1>2, <2>1, ResumeFrames, ZenonT(60)
<1> HIDE DEF a, r
<1>5. \A e \in Conns : session'[e] = "resuming" => session[e] = "resuming" /\ e # c
  BY <1>1, <1>2, Zenon
<1>6. CASE downlink' = downlink /\ (attached' = attached \/ net[c] = "broken")
  <2>1. LinkedOK' /\ TotalOK' /\ RequestOK'
    BY <1>1, <1>5, <1>6, ZenonT(60) DEF DownInv, LinkedOK, TotalOK, RequestOK
  <2>2. HeadOK'
    BY <1>1, <1>6, ZenonT(60) DEF DownInv, HeadOK, FirstFrame, Reading, Holding, Expected
  <2>3. TailOK'
    BY <1>1, <1>2, <1>6, Zenon DEF TailOK
  <2> QED  BY <1>1, <2>1, <2>2, <2>3, Zenon DEF DownInv
<1>7. CASE /\ attached' = c /\ downlink'[c] = <<>> \o (<<a>> \o <<r>>)
           /\ \A e \in Conns \ {c} : downlink'[e] = downlink[e]
  <2> DEFINE b == <<>> \o <<a>>
             p == b \o <<r>>
  <2>1. /\ b \in Seq(Frame) /\ Linked(b) /\ b # <<>> /\ Final(b) = a
        /\ \A t : Bounded(b, t)
        /\ \A x : ReplayFrom(b, x)
    <3>1. <<>> \in Seq(Frame) /\ b \in Seq(Frame)
      BY <1>4
    <3> QED  BY <1>4, <3>1, EmptyQueue, Longer, Zenon
  <2>2. downlink'[c] = p
    BY <1>4, <1>7, SMTT(60)
  <2> HIDE DEF b
  <2>3. /\ p # <<>> /\ Linked(p) /\ Final(p) = r
        /\ Bounded(p, T) /\ ReplayFrom(p, o)
    <3>1. Follows(Final(b), r) /\ (r.kind \in {"data", "replay"} => r.to <= T)
          /\ (r.kind = "replay" => r.from = o)
      <4>1. T <= T
        BY <1>2
      <4> QED  BY <1>4, <2>1, <4>1, Zenon DEF Follows
    <3> QED  BY <1>4, <2>1, <3>1, Longer, ZenonT(60)
  <2> HIDE DEF p
  <2>4. LinkedOK' /\ TotalOK'
    BY <1>1, <1>7, <2>2, <2>3, ZenonT(60) DEF DownInv, LinkedOK, TotalOK
  <2>5. RequestOK'
    BY <1>1, <1>5, <1>7, Zenon DEF DownInv, RequestOK
  <2>6. HeadOK'
    <3>1. reader.pc = "v1" => o = client_acked_offset
      BY Zenon DEF DownInv, RequestOK
    <3> QED
      BY <1>1, <1>2, <1>3, <2>2, <2>3, <3>1, Zenon DEF HeadOK, FirstFrame, Reading, Holding
  <2>7. TailOK'
    BY <1>1, <1>4, <1>7, <2>2, <2>3, Zenon DEF TailOK, LastFrame
  <2> QED  BY <1>1, <2>4, <2>5, <2>6, <2>7 DEF DownInv
<1> QED
  <2>1. CASE attached' = c /\ Emit(c, <<a>> \o <<r>>)
    BY <1>2, <1>6, <1>7, <2>1, EmitCases, ZenonT(60)
  <2> QED  BY <1>1, <1>6, <2>1, Zenon

-----------------------------------------------------------------------------
(* Steps that take frames from a queue. *)

(* The carrier c breaks, and the last frames on it are lost. *)
LEMMA DownBreakStep ==
  ASSUME IInv, DownInv, NEW c \in Conns, CarrierBreak(c)
  PROVE  DownInv'
<1> DEFINE q == downlink[c]
<1>1. PICK j \in 0..Len(q) : downlink' = [downlink EXCEPT ![c] = SubSeq(q, 1, j)]
  BY DownTypes, Zenon DEF CarrierBreak
<1>2. /\ net' = [net EXCEPT ![c] = "broken"]
      /\ UNCHANGED <<dials, client_acked_offset, torn_down, reader, request, session,
                     attached, relay, downlink_ring>>
  BY DEF CarrierBreak, server_vars
<1>3. /\ dials \in Conns /\ None \notin Conns /\ q \in Seq(Frame)
      /\ net \in [Conns -> Net] /\ downlink \in [Conns -> Seq(Frame)]
      /\ attached \in Conns \cup {None}
  BY DownTypes, Zenon
<1> DEFINE p == SubSeq(q, 1, j)
<1>4. /\ Linked(p) /\ (q = <<>> => p = <<>>) /\ (p # <<>> => First(p) = First(q))
      /\ \A t : Bounded(q, t) => Bounded(p, t)
      /\ \A o : ReplayFrom(q, o) => ReplayFrom(p, o)
  <2>1. Linked(q)
    BY DEF DownInv, LinkedOK
  <2> QED  BY <1>3, <2>1, Cut, ZenonT(60)
<1>5. downlink'[c] = p /\ \A e \in Conns \ {c} : downlink'[e] = downlink[e]
  BY <1>1, <1>3, Zenon
<1> HIDE DEF p
<1>6. LinkedOK' /\ TotalOK'
  BY <1>2, <1>4, <1>5, ZenonT(60) DEF DownInv, LinkedOK, TotalOK
<1>7. RequestOK'
  BY <1>2, <1>4, <1>5 DEF DownInv, RequestOK
<1>8. HeadOK'
  <2>1. CASE dials = c
    BY <1>2, <1>4, <1>5, <2>1, ZenonT(60)
       DEF DownInv, HeadOK, FirstFrame, Reading, Holding, Expected
  <2>2. CASE dials # c
    BY <1>2, <1>3, <1>5, <2>2, ZenonT(60)
       DEF DownInv, HeadOK, FirstFrame, Reading, Holding, Expected
  <2> QED  BY <2>1, <2>2, Zenon
<1>9. TailOK'
  <2>1. CASE attached = c
    BY <1>2, <1>3, <2>1, Zenon DEF TailOK
  <2>2. CASE attached # c
    BY <1>2, <1>3, <1>5, <2>2, Zenon
       DEF DownInv, TailOK, LastFrame, Reading, Holding, Expected
  <2> QED  BY <2>1, <2>2
<1> QED  BY <1>2, <1>6, <1>7, <1>8, <1>9 DEF DownInv

(* A soft switch retires the carrier, with what is queued on it. *)
LEMMA DownRetireStep ==
  ASSUME IInv, DownInv, RetireCarrier
  PROVE  DownInv'
<1> DEFINE k == carrier.conn
<1>1. /\ reader.pc = "retire" /\ reader' = [reader EXCEPT !.pc = "dial"]
      /\ net' = [net EXCEPT ![k] = IF @ = "open" THEN "closed" ELSE @]
      /\ downlink' = [downlink EXCEPT ![k] = <<>>]
      /\ UNCHANGED <<dials, client_acked_offset, torn_down, request, session,
                     attached, relay, downlink_ring>>
  BY DEF RetireCarrier, Goto, reader_frame, server_vars
<1>2. /\ dials \in Conns /\ None \notin Conns /\ k \in Conns
      /\ net \in [Conns -> Net] /\ downlink \in [Conns -> Seq(Frame)]
      /\ attached \in Conns \cup {None} /\ reader \in ReaderState
  BY DownTypes
<1>3. reader'.pc = "dial" /\ reader'.from = reader.from /\ reader'.to = reader.to
  BY <1>1, <1>2 DEF ReaderState
<1>4. downlink'[k] = <<>> /\ \A e \in Conns \ {k} : downlink'[e] = downlink[e]
  BY <1>1, <1>2
<1>5. LinkedOK' /\ TotalOK'
  BY <1>1, <1>3, <1>4, EmptyQueue DEF DownInv, LinkedOK, TotalOK
<1>6. RequestOK' /\ HeadOK'
  BY <1>1, <1>3, <1>4 DEF DownInv, RequestOK, HeadOK, FirstFrame, Reading, Holding
<1>7. attached # None /\ net'[attached] # "broken" => net[attached] # "broken"
  BY <1>1, <1>2
<1>8. TailOK'
  BY <1>1, <1>2, <1>3, <1>4, <1>7 DEF DownInv, TailOK, LastFrame, Reading, Holding
<1> QED  BY <1>1, <1>5, <1>6, <1>8 DEF DownInv

(* The redial asks for the replay from what the flow has accepted. *)
LEMMA DownRedialStep ==
  ASSUME IInv, DownInv, Redial
  PROVE  DownInv'
<1> DEFINE d == dials + 1
<1>1. /\ reader.pc = "dial" /\ dials' = d
      /\ reader' = [reader EXCEPT !.pc = "v1", !.fresh = d]
      /\ net' = [net EXCEPT ![d] = "open"]
      /\ session' = [session EXCEPT ![d] = "resuming"]
      /\ request'.down_acked = client_acked_offset
      /\ UNCHANGED <<downlink, client_acked_offset, torn_down, attached, relay,
                     downlink_ring>>
  BY DEF Redial
<1>2. /\ dials \in Conns /\ d \in Conns /\ None \notin Conns
      /\ net \in [Conns -> Net] /\ session \in [Conns -> Session]
      /\ attached \in Conns \cup {None} /\ reader \in ReaderState
  <2>1. dials \in Conns /\ dials < MaxDials
    BY DownTypes, Zenon DEF Redial
  <2>2. d \in Conns
    BY <2>1, MigrationAssumption DEF Conns
  <2> QED  BY <2>2, DownTypes, Zenon
<1>3. reader'.pc = "v1" /\ reader'.from = reader.from /\ reader'.to = reader.to
  BY <1>1, <1>2, Zenon DEF ReaderState
<1>4. downlink[d] = <<>> /\ attached # d
  <2>1. d > dials
    BY <1>2 DEF Conns
  <2> QED  BY <1>2, <2>1 DEF IInv, DialsOK, SessionOK
<1>5. LinkedOK' /\ TotalOK'
  BY <1>1, <1>3 DEF DownInv, LinkedOK, TotalOK
<1>6. RequestOK'
  BY <1>1, <1>2, <1>4 DEF DownInv, RequestOK
<1>7. HeadOK'
  BY <1>1, <1>3, <1>4, EmptyQueue DEF HeadOK, FirstFrame, Reading, Holding
<1>8. attached # None => net'[attached] = net[attached]
  BY <1>1, <1>2, <1>4
<1>9. TailOK'
  BY <1>1, <1>3, <1>4, <1>8, Zenon DEF DownInv, TailOK, LastFrame, Reading, Holding
<1> QED  BY <1>1, <1>5, <1>6, <1>7, <1>9 DEF DownInv

(* The facts the three steps that take a frame of the latest carrier share. *)
LEMMA FrameTaken ==
  ASSUME IInv, DownInv, downlink[dials] # <<>>,
         downlink' = [downlink EXCEPT ![dials] = Tail(@)],
         UNCHANGED <<dials, net, session, attached, relay, downlink_ring, request>>
  PROVE  LET q == downlink[dials]
             p == downlink'[dials]
         IN /\ LinkedOK' /\ First(q) \in Frame
            /\ p # <<>> => Follows(First(q), First(p)) /\ Final(p) = Final(q)
            /\ p = <<>> => Final(q) = First(q)
            /\ Bounded(q, downlink_ring.total)
            /\ \A e \in Conns : Bounded(downlink'[e], downlink_ring.total)
            /\ \A o : ReplayFrom(q, o) => ReplayFrom(p, o)
            /\ \A e \in Conns : session'[e] = "resuming" => downlink'[e] = <<>>
            /\ \A e \in Conns \ {dials} : downlink'[e] = downlink[e]
            /\ Head(q) = First(q)
<1> DEFINE q == downlink[dials]
           p == Tail(q)
<1>1. /\ dials \in Conns /\ downlink \in [Conns -> Seq(Frame)] /\ q \in Seq(Frame)
  BY DownTypes, Zenon
<1>2. downlink'[dials] = p /\ \A e \in Conns \ {dials} : downlink'[e] = downlink[e]
  BY <1>1, Zenon
<1>3. /\ Linked(p) /\ First(q) \in Frame
      /\ p # <<>> => Follows(First(q), First(p)) /\ Final(p) = Final(q)
      /\ p = <<>> => Final(q) = First(q)
      /\ \A t : Bounded(q, t) => Bounded(p, t)
      /\ \A o : ReplayFrom(q, o) => ReplayFrom(p, o)
  <2>1. Linked(q)
    BY <1>1 DEF DownInv, LinkedOK
  <2> QED  BY <1>1, <2>1, Shorter
<1>4. Head(q) = First(q)
  BY <1>1 DEF First
<1> HIDE DEF p
<1>5. LinkedOK'
  BY <1>2, <1>3, Zenon DEF DownInv, LinkedOK
<1>6. Bounded(q, downlink_ring.total)
      /\ \A e \in Conns : Bounded(downlink'[e], downlink_ring.total)
  BY <1>1, <1>2, <1>3, Zenon DEF DownInv, TotalOK
<1>7. \A e \in Conns : session'[e] = "resuming" => downlink'[e] = <<>>
  BY <1>1, <1>2, Zenon DEF DownInv, RequestOK
<1> QED  BY <1>2, <1>3, <1>4, <1>5, <1>6, <1>7, Zenon

(* The reader accepts a chunk. *)
LEMMA DownChunkStep ==
  ASSUME IInv, DownInv, ReaderChunk
  PROVE  DownInv'
<1> DEFINE q == downlink[dials]
           p == downlink'[dials]
           h == First(q)
           T == downlink_ring.total
<1>1. /\ reader.pc = "read" /\ q # <<>> /\ Head(q).kind = "data"
      /\ client_acked_offset' = client_acked_offset + Head(q).to - Head(q).from
      /\ torn_down' = (torn_down \/ Head(q).from # client_acked_offset)
      /\ downlink' = [downlink EXCEPT ![dials] = Tail(@)]
      /\ UNCHANGED <<dials, net, session, attached, relay, downlink_ring, request,
                     reader>>
  <2>1. reader.pc = "read" /\ carrier.conn = dials
    BY Zenon DEF ReaderChunk, IInv, ReaderOK
  <2> QED  BY <2>1, Zenon DEF ReaderChunk, In, reader_frame, server_vars
<1>2. /\ LinkedOK' /\ h \in Frame /\ Head(q) = h
      /\ p # <<>> => Follows(h, First(p)) /\ Final(p) = Final(q)
      /\ p = <<>> => Final(q) = h
      /\ Bounded(q, T) /\ \A e \in Conns : Bounded(downlink'[e], T)
      /\ \A e \in Conns : session'[e] = "resuming" => downlink'[e] = <<>>
      /\ \A e \in Conns \ {dials} : downlink'[e] = downlink[e]
  <2>1. UNCHANGED <<dials, net, session, attached, relay, downlink_ring, request>>
    BY <1>1
  <2> QED  BY <1>1, <2>1, FrameTaken, Zenon
<1>3. /\ dials \in Conns /\ T \in Nat /\ client_acked_offset \in Nat
      /\ q \in Seq(Frame) /\ Len(q) \in Nat /\ Len(q) > 0
      /\ attached \in Conns \cup {None}
  <2>1. q \in Seq(Frame)
    BY DownTypes
  <2>2. Len(q) \in Nat /\ Len(q) > 0
    BY <1>1, <2>1, SMTT(60)
  <2> QED  BY <2>1, <2>2, DownTypes
<1> HIDE DEF p
<1>4. Reading /\ ~Holding /\ Expected = client_acked_offset
  BY <1>1, Zenon DEF Reading, Holding, Expected
<1>5. h.kind = "data" /\ h.from = client_acked_offset
  BY <1>1, <1>2, <1>4, Zenon DEF DownInv, HeadOK, FirstFrame, Continues
<1>6. h.to \in Nat /\ h.to <= T /\ client_acked_offset' = h.to
  <2>1. h.to \in Nat /\ h.from \in Nat
    BY <1>2, Zenon DEF Frame
  <2>2. h.to <= T
    <3>1. 1 \in 1..Len(q)
      BY <1>3
    <3> QED  BY <1>2, <1>5, <3>1, Zenon DEF Bounded, First
  <2>3. client_acked_offset' = h.from + h.to - h.from
    BY <1>1, <1>2, <1>5, Zenon
  <2> HIDE DEF h
  <2> QED  BY <2>1, <2>2, <2>3, SMTT(60)
<1>7. ~torn_down'
  BY <1>1, <1>2, <1>5, Zenon DEF DownInv
<1>8. Reading' /\ ~Holding' /\ Expected' = h.to
  BY <1>1, <1>6, Zenon DEF Reading, Holding, Expected
<1>9. TotalOK'
  BY <1>1, <1>2, <1>6, ZenonT(60) DEF DownInv, TotalOK
<1>10. RequestOK'
  BY <1>1, <1>2, ZenonT(60) DEF RequestOK
<1>11. HeadOK'
  <2>1. p # <<>> => Continues(First(p), h.to)
    BY <1>2, <1>5, Zenon DEF Follows
  <2> QED  BY <1>1, <1>8, <2>1, Zenon DEF HeadOK, FirstFrame, p
<1>12. TailOK'
  <2>1. CASE attached = dials
    <3>1. CASE net[dials] = "broken"
      BY <1>1, <2>1, <3>1, Zenon DEF TailOK
    <3>2. CASE net[dials] # "broken"
      <4>1. LastFrame(q)
        BY <1>3, <2>1, <3>2, DownTypes, ZenonT(60) DEF DownInv, TailOK
      <4>2. relay = "running" /\ p = <<>> => h.to = T
        BY <1>1, <1>2, <1>5, <4>1, Zenon DEF LastFrame
      <4> QED
        BY <1>1, <1>2, <1>8, <2>1, <4>1, <4>2, ZenonT(60) DEF TailOK, LastFrame, p
    <3> QED  BY <3>1, <3>2, Zenon
  <2>2. CASE attached # dials
    BY <1>1, <1>2, <1>3, <2>2, Zenon DEF DownInv, TailOK, LastFrame
  <2> QED  BY <2>1, <2>2
<1> QED  BY <1>2, <1>7, <1>9, <1>10, <1>11, <1>12 DEF DownInv

(* The Ack-Prefix of the fresh carrier is read; the replay comes next. *)
LEMMA DownAckPrefixStep ==
  ASSUME IInv, DownInv, ConsumeAckPrefix
  PROVE  DownInv'
<1> DEFINE q == downlink[dials]
           p == downlink'[dials]
           h == First(q)
           T == downlink_ring.total
<1>1. /\ reader.pc = "v1" /\ q # <<>> /\ Head(q).kind = "ack"
      /\ reader' = [reader EXCEPT !.pc = "v2", !.up_acked = Head(q).from]
      /\ downlink' = [downlink EXCEPT ![dials] = Tail(@)]
      /\ UNCHANGED <<dials, net, session, attached, relay, downlink_ring, request,
                     client_acked_offset, torn_down>>
  <2>1. reader.pc = "v1" /\ reader.fresh = dials
    BY DEF ConsumeAckPrefix, IInv, ReaderOK
  <2> QED  BY <2>1, Zenon DEF ConsumeAckPrefix, FreshIn, reader_frame, server_vars
<1>2. /\ LinkedOK' /\ Head(q) = h
      /\ p # <<>> => Follows(h, First(p)) /\ Final(p) = Final(q)
      /\ p = <<>> => Final(q) = h
      /\ \A e \in Conns : Bounded(downlink'[e], T)
      /\ \A o : ReplayFrom(q, o) => ReplayFrom(p, o)
      /\ \A e \in Conns : session'[e] = "resuming" => downlink'[e] = <<>>
      /\ \A e \in Conns \ {dials} : downlink'[e] = downlink[e]
  <2>1. UNCHANGED <<dials, net, session, attached, relay, downlink_ring, request>>
    BY <1>1
  <2> QED  BY <1>1, <2>1, FrameTaken
<1>3. /\ dials \in Conns /\ attached \in Conns \cup {None} /\ None \notin Conns
      /\ reader \in ReaderState
  BY DownTypes
<1>4. reader'.pc = "v2" /\ reader'.from = reader.from /\ reader'.to = reader.to
  BY <1>1, <1>3, Zenon DEF ReaderState
<1> HIDE DEF p
<1>5. ~Reading' /\ ~Holding' /\ ~Reading
  BY <1>1, <1>4 DEF Reading, Holding
<1>6. TotalOK'
  BY <1>1, <1>2, <1>4, Zenon DEF DownInv, TotalOK
<1>7. RequestOK'
  BY <1>2, <1>4, Zenon DEF RequestOK
<1>8. HeadOK'
  <2>1. p # <<>> => First(p).kind \in {"truncated", "replay"}
    BY <1>1, <1>2 DEF Follows
  <2>2. ReplayFrom(p, client_acked_offset)
    BY <1>1, <1>2 DEF DownInv, HeadOK, FirstFrame
  <2> QED  BY <1>1, <1>5, <2>1, <2>2 DEF HeadOK, FirstFrame, p
<1>9. TailOK'
  <2>1. CASE attached = dials
    <3>1. CASE net[dials] = "broken"
      BY <1>1, <2>1, <3>1, Zenon DEF TailOK
    <3>2. CASE net[dials] # "broken"
      <4>1. LastFrame(q)
        BY <1>3, <2>1, <3>2 DEF DownInv, TailOK
      <4>2. p # <<>>
        BY <1>1, <1>2, <4>1 DEF LastFrame
      <4> QED
        BY <1>1, <1>2, <1>5, <2>1, <4>1, <4>2, Zenon DEF TailOK, LastFrame, p
    <3> QED  BY <3>1, <3>2
  <2>2. CASE attached # dials
    BY <1>1, <1>2, <1>3, <2>2 DEF DownInv, TailOK, LastFrame
  <2> QED  BY <2>1, <2>2
<1> QED  BY <1>1, <1>2, <1>6, <1>7, <1>8, <1>9 DEF DownInv

(* The replay frame of the fresh carrier is read: it begins at the first byte
   the flow lacks, and what follows it on the carrier begins at its end. *)
LEMMA DownReplayStep ==
  ASSUME SymmetricReplay, IInv, DownInv, ConsumeDownlinkReplay
  PROVE  DownInv'
<1> DEFINE q == downlink[dials]
           p == downlink'[dials]
           h == First(q)
           T == downlink_ring.total
<1>1. /\ reader.pc = "v2" /\ q # <<>> /\ Head(q).kind = "replay"
      /\ reader' = [reader EXCEPT !.pc = "commit", !.from = Head(q).from,
                                  !.to = Head(q).to]
      /\ downlink' = [downlink EXCEPT ![dials] = Tail(@)]
      /\ UNCHANGED <<dials, net, session, attached, relay, downlink_ring, request,
                     client_acked_offset, torn_down>>
  <2>1. reader.pc = "v2" /\ reader.fresh = dials
    BY DEF ConsumeDownlinkReplay, IInv, ReaderOK
  <2> QED
    BY <2>1, Zenon DEF ConsumeDownlinkReplay, FreshIn, reader_frame, server_vars
<1>2. /\ LinkedOK' /\ Head(q) = h /\ h \in Frame
      /\ p # <<>> => Follows(h, First(p)) /\ Final(p) = Final(q)
      /\ p = <<>> => Final(q) = h
      /\ Bounded(q, T) /\ \A e \in Conns : Bounded(downlink'[e], T)
      /\ \A e \in Conns : session'[e] = "resuming" => downlink'[e] = <<>>
      /\ \A e \in Conns \ {dials} : downlink'[e] = downlink[e]
  <2>1. UNCHANGED <<dials, net, session, attached, relay, downlink_ring, request>>
    BY <1>1
  <2> QED  BY <1>1, <2>1, FrameTaken
<1>3. /\ dials \in Conns /\ attached \in Conns \cup {None} /\ None \notin Conns
      /\ reader \in ReaderState /\ q \in Seq(Frame)
  BY DownTypes
<1>4. reader'.pc = "commit" /\ reader'.from = h.from /\ reader'.to = h.to
  BY <1>1, <1>2, <1>3, Zenon DEF ReaderState
<1> HIDE DEF p
<1>5. h.kind = "replay" /\ h.from = client_acked_offset /\ h.to <= T
  <2>1. 1 \in 1..Len(q)
    BY <1>1, <1>3
  <2>2. ReplayFrom(q, client_acked_offset)
    BY <1>1 DEF DownInv, HeadOK, FirstFrame
  <2> QED  BY <1>1, <1>2, <2>1, <2>2 DEF ReplayFrom, Bounded, First
<1>6. Reading' /\ Holding' /\ Expected' = h.to
  BY <1>4 DEF Reading, Holding, Expected
<1>7. TotalOK'
  BY <1>1, <1>2, <1>4, <1>5, Zenon DEF DownInv, TotalOK
<1>8. RequestOK'
  BY <1>2, <1>4, Zenon DEF RequestOK
<1>9. HeadOK'
  <2>1. p # <<>> => Continues(First(p), h.to)
    BY <1>2, <1>5, Zenon DEF Follows
  <2> QED  BY <1>1, <1>4, <1>5, <1>6, <2>1, Zenon DEF HeadOK, FirstFrame, p
<1>10. TailOK'
  <2>1. CASE attached = dials
    <3>1. CASE net[dials] = "broken"
      BY <1>1, <2>1, <3>1, Zenon DEF TailOK
    <3>2. CASE net[dials] # "broken"
      <4>1. LastFrame(q)
        BY <1>3, <2>1, <3>2 DEF DownInv, TailOK
      <4>2. relay = "running" /\ p = <<>> => h.to = T
        BY <1>1, <1>2, <1>5, <4>1, Zenon DEF LastFrame
      <4> QED
        BY <1>1, <1>2, <1>4, <1>6, <2>1, <4>1, <4>2, Zenon DEF TailOK, LastFrame, p
    <3> QED  BY <3>1, <3>2
  <2>2. CASE attached # dials
    BY <1>1, <1>2, <1>3, <2>2 DEF DownInv, TailOK, LastFrame
  <2> QED  BY <2>1, <2>2
<1> QED  BY <1>1, <1>2, <1>7, <1>8, <1>9, <1>10, Zenon DEF DownInv

(* The replay is delivered, and the flow expects the byte after it. *)
LEMMA DownDeliverStep ==
  ASSUME IInv, DownInv, DeliverDownlinkReplay
  PROVE  DownInv'
<1>1. /\ reader.pc = "deliver"
      /\ \E pc \in {"finish", "giveup"} :
           /\ reader' = [reader EXCEPT !.pc = pc]
           /\ \/ pc = "giveup" /\ UNCHANGED <<client_acked_offset, torn_down>>
              \/ reader.from = reader.to /\ UNCHANGED <<client_acked_offset, torn_down>>
              \/ /\ client_acked_offset' = client_acked_offset + reader.to - reader.from
                 /\ torn_down' = (torn_down \/ reader.from # client_acked_offset)
  BY Zenon DEF DeliverDownlinkReplay, Goto
<1>2. UNCHANGED <<downlink, dials, net, session, attached, relay, downlink_ring,
                  request>>
  BY DEF DeliverDownlinkReplay, reader_frame, server_vars
<1>3. /\ client_acked_offset \in Nat /\ reader.to \in Nat /\ reader \in ReaderState
      /\ reader.to <= downlink_ring.total /\ reader.from = client_acked_offset
      /\ client_acked_offset <= downlink_ring.total /\ ~torn_down
  BY <1>1, DownTypes DEF DownInv, TotalOK, HeadOK, Holding
<1>4. PICK pc \in {"finish", "giveup"} :
        /\ reader' = [reader EXCEPT !.pc = pc]
        /\ \/ pc = "giveup" /\ client_acked_offset' = client_acked_offset
           \/ client_acked_offset' = reader.to
        /\ ~torn_down'
  <2>1. client_acked_offset + reader.to - reader.from = reader.to
    BY <1>3
  <2>2. PICK pc \in {"finish", "giveup"} :
           /\ reader' = [reader EXCEPT !.pc = pc]
           /\ \/ pc = "giveup" /\ UNCHANGED <<client_acked_offset, torn_down>>
              \/ reader.from = reader.to /\ UNCHANGED <<client_acked_offset, torn_down>>
              \/ /\ client_acked_offset' = client_acked_offset + reader.to - reader.from
                 /\ torn_down' = (torn_down \/ reader.from # client_acked_offset)
    BY <1>1, Zenon
  <2>3. /\ \/ pc = "giveup" /\ client_acked_offset' = client_acked_offset
           \/ client_acked_offset' = reader.to
        /\ ~torn_down'
    <3>1. CASE pc = "giveup" /\ UNCHANGED <<client_acked_offset, torn_down>>
      BY <1>3, <3>1
    <3>2. CASE reader.from = reader.to /\ UNCHANGED <<client_acked_offset, torn_down>>
      BY <1>3, <3>2, Zenon
    <3>3. CASE /\ client_acked_offset' = client_acked_offset + reader.to - reader.from
               /\ torn_down' = (torn_down \/ reader.from # client_acked_offset)
      BY <1>3, <2>1, <3>3, Zenon
    <3> QED  BY <2>2, <3>1, <3>2, <3>3, Zenon
  <2> QED  BY <2>2, <2>3, Zenon
<1>5. reader'.pc = pc /\ reader'.to = reader.to
  BY <1>3, <1>4, Zenon DEF ReaderState
<1>6. Holding /\ Reading /\ ~Holding' /\ Expected = reader.to
      /\ (Reading' => Expected' = reader.to)
  BY <1>1, <1>4, <1>5 DEF Holding, Reading, Expected
<1>7. LinkedOK' /\ RequestOK' /\ TotalOK'
  BY <1>2, <1>3, <1>4, <1>5 DEF DownInv, LinkedOK, RequestOK, TotalOK
<1>8. HeadOK'
  BY <1>2, <1>4, <1>5, <1>6 DEF DownInv, HeadOK, FirstFrame
<1>9. TailOK'
  BY <1>2, <1>4, <1>5, <1>6, Zenon DEF DownInv, TailOK, LastFrame
<1> QED  BY <1>4, <1>7, <1>8, <1>9 DEF DownInv

-----------------------------------------------------------------------------
(* The invariant holds, and what follows from it. *)

LEMMA InitDown == Init => DownInv
<1> SUFFICES ASSUME Init PROVE DownInv
  OBVIOUS
<1>1. /\ reader = ReaderIdle("read") /\ downlink_ring = EmptyWindow
      /\ client_acked_offset = 0 /\ dials = 0 /\ attached = 0 /\ ~torn_down
      /\ downlink = [c \in Conns |-> <<>>]
  BY Zenon DEF Init
<1>2. /\ reader.pc = "read" /\ reader.to = 0 /\ downlink_ring.total = 0
  BY <1>1 DEF ReaderIdle, EmptyWindow
<1>3. \A c \in Conns : downlink[c] = <<>>
  BY <1>1, Zenon
<1>4. 0 \in Conns /\ 0 <= 0
  BY MigrationAssumption DEF Conns
<1>5. LinkedOK /\ TotalOK
  BY <1>1, <1>2, <1>3, <1>4, EmptyQueue, Zenon DEF LinkedOK, TotalOK
<1>6. RequestOK /\ HeadOK
  BY <1>1, <1>2, <1>3, <1>4, Zenon DEF RequestOK, HeadOK, FirstFrame, Holding
<1>7. TailOK
  BY <1>1, <1>2, <1>3, <1>4, Zenon DEF TailOK, LastFrame, Expected, Holding
<1> QED  BY <1>1, <1>5, <1>6, <1>7, Zenon DEF DownInv

LEMMA NextDown ==
  ASSUME SymmetricReplay
  PROVE  IInv /\ DownInv /\ [Next]_vars => DownInv'
<1> SUFFICES ASSUME IInv, DownInv, [Next]_vars PROVE DownInv'
  OBVIOUS
<1>1. CASE ClientWrite \/ ClientFin \/ FlowClose \/ close_upstream_writer \/ PumpStep
  BY <1>1, DownClientStep
<1>2. CASE ReaderRead \/ ReaderSoftMigrate
  BY <1>2, DownReaderStep, DownChunkStep DEF ReaderRead
<1>3. CASE MigrationStep
  BY <1>3, DownReaderStep, DownRetireStep, DownRedialStep, DownAckPrefixStep,
     DownReplayStep, DownDeliverStep, Zenon DEF MigrationStep
<1>4. ASSUME NEW c \in Conns, CarrierBreak(c) \/ ServerStep(c) PROVE DownInv'
  BY <1>4, DownBreakStep, DownServerStep, DownCloseStep, DownRelayStep,
     DownMissStep, DownHitStep, Zenon DEF ServerStep
<1>5. CASE ServerExpire
  <2>1. 0 \in Conns
    BY MigrationAssumption, SMTT(60) DEF Conns
  <2> QED  BY <1>5, <2>1, DownServerStep
<1>6. CASE UNCHANGED vars
  BY <1>6, DownQuiet DEF vars, flow_vars, net_vars, server_vars, ReaderGoesOn
<1> QED  BY <1>1, <1>2, <1>3, <1>4, <1>5, <1>6 DEF Next

(* DownInv is an invariant where v2 was negotiated. *)
THEOREM DownInvariance ==
  ASSUME SymmetricReplay PROVE Spec => []DownInv
BY InitDown, NextDown, Invariance, PTL DEF Spec

(* Where both sides negotiated the v2 replay, every byte the flow accepts is the
   next one the destination sent, for any ring sizes and any number of carrier
   deaths, soft switches, truncated replays and lost frames. *)
THEOREM DownlinkIsExact ==
  ASSUME SymmetricReplay PROVE Spec => []DownlinkExact
<1>1. DownInv => DownlinkExact
  BY DEF DownInv, DownlinkExact
<1> QED  BY <1>1, DownInvariance, PTL

(* Destination to client, the session and the flow implement the byte pipe: the
   upstream's relay is a Send, a chunk the reader accepts and a replay it
   delivers are Delivers, and every other step is a stutter. *)
THEOREM DownlinkIsAPipe ==
  ASSUME SymmetricReplay PROVE Spec => ImplementsDownPipe
<1>1. Init => DownPipe!Init
  <2> SUFFICES ASSUME Init PROVE DownPipe!Init
    OBVIOUS
  <2>1. /\ client_acked_offset = 0 /\ downlink_ring = EmptyWindow
        /\ torn_down = FALSE
    BY Zenon DEF Init
  <2> QED  BY <2>1 DEF EmptyWindow, DownPipe!Init
<1>2. IInv /\ IInv' /\ DownInv /\ DownInv' /\ [Next]_vars
        => [DownPipe!Next]_DownPipe!pipe
  <2> SUFFICES ASSUME IInv, IInv', DownInv, DownInv', [Next]_vars
               PROVE  [DownPipe!Next]_DownPipe!pipe
    OBVIOUS
  <2> DEFINE R == client_acked_offset
             T == downlink_ring.total
  <2>1. R \in Nat /\ T \in Nat /\ R' \in Nat /\ T' \in Nat /\ R <= T /\ R' <= T'
    <3>1. R \in Nat /\ R' \in Nat
      BY Zenon DEF IInv, FlowTypeOK
    <3>2. downlink_ring \in Window /\ downlink_ring' \in Window
      BY Zenon DEF IInv, ServerTypeOK
    <3>3. T \in Nat /\ T' \in Nat
      BY <3>2 DEF Window
    <3>4. R <= T /\ R' <= T'
      BY Zenon DEF DownInv, TotalOK
    <3> QED  BY <3>1, <3>3, <3>4
  <2>2. UNCHANGED (~torn_down)
    BY DEF DownInv
  <2>3. ASSUME UNCHANGED downlink_ring, R' >= R PROVE [DownPipe!Next]_DownPipe!pipe
    <3>1. CASE R' = R
      BY <2>2, <2>3, <3>1, Zenon DEF DownPipe!pipe
    <3>2. CASE R' > R
      BY <2>1, <2>2, <2>3, <3>2, Zenon DEF DownPipe!Next, DownPipe!Deliver
    <3> QED  BY <2>1, <2>3, <3>1, <3>2, SMTT(60)
  <2>4. ASSUME UNCHANGED R, T' > T PROVE [DownPipe!Next]_DownPipe!pipe
    BY <2>1, <2>2, <2>4 DEF DownPipe!Next, DownPipe!Send
  <2>5. CASE UNCHANGED <<client_acked_offset, downlink_ring>>
    BY <2>1, <2>3, <2>5
  <2>6. CASE ReaderChunk
    <3>1. /\ UNCHANGED downlink_ring
          /\ R' = R + Head(In).to - Head(In).from /\ In # <<>>
      BY <2>6, Zenon DEF ReaderChunk, reader_frame, server_vars
    <3>2. In \in Seq(Frame)
      BY DownTypes DEF In
    <3>3. Head(In) \in Frame
      BY <3>1, <3>2, HeadInSet, Zenon
    <3>4. Head(In).from \in Nat /\ Head(In).to \in Nat /\ Head(In).from <= Head(In).to
      BY <3>3 DEF Frame
    <3>5. R' >= R
      BY <2>1, <3>1, <3>4, SMTT(60)
    <3> QED  BY <2>3, <3>1, <3>5
  <2>7. CASE DeliverDownlinkReplay
    <3>1. /\ UNCHANGED downlink_ring
          /\ R' = R \/ R' = R + reader.to - reader.from
      BY <2>7, Zenon DEF DeliverDownlinkReplay, reader_frame, server_vars
    <3>2. reader.from \in Nat /\ reader.to \in Nat /\ reader.from <= reader.to
      BY DownTypes, Zenon DEF IInv, ReaderOK
    <3>3. R' >= R
      BY <2>1, <3>1, <3>2, SMTT(60)
    <3> QED  BY <2>3, <3>1, <3>3
  <2>8. ASSUME NEW c \in Conns, ServerRelay(c)
        PROVE  [DownPipe!Next]_DownPipe!pipe
    <3>1. PICK n \in 1..(MaxDown - T) :
            downlink_ring' = PushDownlink(downlink_ring, n, DownCap)
      BY <2>8, Zenon DEF ServerRelay
    <3>2. n \in Nat /\ n > 0 /\ downlink_ring \in Window
      BY <2>1, MigrationAssumption, DownTypes, PositiveStep, Zenon
    <3>3. T' = T + n
      BY <3>1, <3>2, PushedTotal, MigrationAssumption, Zenon
    <3>4. T' > T
      BY <2>1, <3>2, <3>3, SMTT(60)
    <3> QED  BY <2>4, <2>8, <3>4, ZenonT(60) DEF ServerRelay, server_frame
  <2> USE DEF flow_vars, net_vars, server_vars, pump_frame, reader_frame,
              server_frame
  <2>9. CASE \/ ClientWrite \/ ClientFin \/ FlowClose \/ close_upstream_writer
             \/ ReaderEof \/ ReaderDied \/ ReaderExit \/ ReaderSoftMigrate
             \/ ServerExpire \/ UNCHANGED vars
    BY <2>5, <2>9, Zenon
       DEF ClientWrite, ClientFin, FlowClose, close_upstream_writer, ReaderEof,
           ReaderDied, ReaderExit, ReaderSoftMigrate, ServerExpire, vars
  <2>10. CASE PumpStep
    BY <2>5, <2>10, Zenon
       DEF PumpStep, PumpPop, PumpPopMigrating, PumpLock, PumpSend,
           PumpSendError, PumpVerdict, PumpWake, PumpGrace, PumpFin, PumpClose,
           PumpExit
  <2>11. CASE MigrationStep
    BY <2>5, <2>7, <2>11, Zenon
       DEF MigrationStep, PlanMigration, RetireCarrier, Redial, RedialFailed,
           ConsumeAckPrefix, ConsumeDownlinkReplay, ConsumeFailed,
           CommitMigration, SendReplay, SendReplayFailed, FinishMigration,
           AbandonMigration, Teardown
  <2>12. ASSUME NEW c \in Conns, CarrierBreak(c) \/ ServerStep(c)
         PROVE  [DownPipe!Next]_DownPipe!pipe
    <3>1. ServerRelay(c) \/ UNCHANGED <<client_acked_offset, downlink_ring>>
      BY <2>12, Zenon
         DEF CarrierBreak, ServerStep, ServerForward, ServerFrameError,
             ServerPongError, ServerUpstreamEof, ServerUpstreamError,
             ServerReserve, ServerPark, ServerResumeHit, ServerResumeMiss
    <3> QED  BY <2>5, <2>8, <3>1, Zenon
  <2> QED
    BY <2>6, <2>9, <2>10, <2>11, <2>12 DEF Next, ReaderRead
<1> QED
  BY <1>1, <1>2, Invariance, DownInvariance, PTL
     DEF Spec, ImplementsDownPipe, DownPipe!Spec
=============================================================================
