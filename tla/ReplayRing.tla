----------------------------- MODULE ReplayRing -----------------------------
(***************************************************************************)
(* The two replay rings byte by byte: a deque of (offset, payload) entries *)
(* with a cached byte count.  The content of a byte is its position in the *)
(* pushed stream, so a replay is right iff it is the run of positions from *)
(* the requested offset to the end.                                        *)
(***************************************************************************)
EXTENDS Integers, Sequences, SequencesExt, RingWindow

CONSTANTS Capacity,   \* capacity_bytes of both rings
          MaxChunk,   \* bound: longest chunk pushed
          MaxTotal    \* bound: bytes pushed into one ring

VARIABLES up, down    \* ClientUpstreamRingBuffer, DownlinkRing

vars == <<up, down>>

new == [entries |-> <<>>, current_bytes |-> 0, total_sent |-> 0,
        panicked |-> FALSE]

Init == up = new /\ down = new

(* The n bytes of the stream that start at position p. *)
Chunk(p, n) == [k \in 1..n |-> p + k - 1]

-----------------------------------------------------------------------------
oldest_offset(r) ==
  IF r.entries = <<>> THEN r.total_sent ELSE Head(r.entries).offset

(* The eviction loop: pop the front entry until n more bytes fit.  Popping an
   empty deque is the expect() of the loop. *)
RECURSIVE evict(_, _)
evict(r, n) ==
  IF r.current_bytes + n <= Capacity THEN r
  ELSE IF r.entries = <<>> THEN [r EXCEPT !.panicked = TRUE]
  ELSE evict([r EXCEPT !.entries = Tail(@),
                       !.current_bytes = @ - Len(Head(r.entries).payload)], n)

append(r, n) ==
  [r EXCEPT !.entries = Append(@, [offset |-> r.total_sent,
                                   payload |-> Chunk(r.total_sent, n)]),
            !.current_bytes = @ + n,
            !.total_sent = @ + n]

(* ClientUpstreamRingBuffer::push.  An oversized chunk is an error and leaves
   the ring as it was. *)
uplink_push(r, n) ==
  IF n = 0 \/ n > Capacity THEN r ELSE append(evict(r, n), n)

(* DownlinkRing::push.  An oversized chunk leaves its trailing window. *)
downlink_push_keeps_offset(r, n) ==
  IF n = 0 THEN r
  ELSE IF Capacity = 0 THEN [r EXCEPT !.total_sent = @ + n]
  ELSE IF n >= Capacity
  THEN [r EXCEPT !.entries =
          <<[offset |-> r.total_sent,
             payload |-> Chunk(r.total_sent + n - Capacity, Capacity)]>>,
                 !.current_bytes = Capacity,
                 !.total_sent = @ + n]
  ELSE append(evict(r, n), n)

downlink_push(r, n) ==
  IF n = 0 THEN r
  ELSE IF Capacity = 0 THEN [r EXCEPT !.total_sent = @ + n]
  ELSE IF n >= Capacity
  THEN [r EXCEPT !.entries =
          <<[offset |-> r.total_sent + n - Capacity,
             payload |-> Chunk(r.total_sent + n - Capacity, Capacity)]>>,
                 !.current_bytes = Capacity,
                 !.total_sent = @ + n]
  ELSE append(evict(r, n), n)

(* The copy loop of replay_from: entries below the cursor are skipped, the one
   the cursor splits gives its tail, the others are copied whole. *)
suffix(r, o) ==
  FlattenSeq([k \in 1..Len(r.entries) |->
    LET e == r.entries[k]
    IN IF e.offset + Len(e.payload) <= o THEN <<>>
       ELSE IF e.offset >= o THEN e.payload
       ELSE SubSeq(e.payload, o - e.offset + 1, Len(e.payload))])

replay_from_skips_split(r, o) ==
  IF o > r.total_sent THEN [result |-> "ahead", bytes |-> <<>>]
  ELSE IF o = r.total_sent THEN [result |-> "ok", bytes |-> <<>>]
  ELSE IF o < oldest_offset(r) THEN [result |-> "evicted", bytes |-> <<>>]
  ELSE [result |-> "ok",
        bytes |-> FlattenSeq([k \in 1..Len(r.entries) |->
                    IF r.entries[k].offset >= o
                    THEN r.entries[k].payload ELSE <<>>])]

replay_from(r, o) ==
  IF o > r.total_sent THEN [result |-> "ahead", bytes |-> <<>>]
  ELSE IF o = r.total_sent THEN [result |-> "ok", bytes |-> <<>>]
  ELSE IF o < oldest_offset(r) THEN [result |-> "evicted", bytes |-> <<>>]
  ELSE [result |-> "ok", bytes |-> suffix(r, o)]

-----------------------------------------------------------------------------
UplinkPush ==
  \E n \in 0..MaxChunk :
    /\ up.total_sent + n <= MaxTotal
    /\ up' = uplink_push(up, n)
    /\ UNCHANGED down

DownlinkPush ==
  \E n \in 0..MaxChunk :
    /\ down.total_sent + n <= MaxTotal
    /\ down' = downlink_push(down, n)
    /\ UNCHANGED up

Next == UplinkPush \/ DownlinkPush

Spec == Init /\ [][Next]_vars

-----------------------------------------------------------------------------
Entry == [offset : 0..MaxTotal, payload : Seq(0..MaxTotal)]
Ring == [entries : Seq(Entry), current_bytes : 0..Capacity,
         total_sent : 0..MaxTotal, panicked : BOOLEAN]

(* A replay is byte exact or refused: for every offset a peer may report, the
   answer is exactly the pushed bytes from that offset on, and it is refused
   only when a byte of that run is really no longer held (replay_from of both
   rings, uplink_replay.rs 185-227 and downlink_ring.rs 220-251). *)
ReplayExact ==
  \A r \in {up, down} : \A o \in 0..(MaxTotal + 1) :
    LET a == replay_from(r, o)
        held == UNION {Range(r.entries[k].payload) : k \in 1..Len(r.entries)}
    IN CASE a.result = "ahead"   -> o > r.total_sent
         [] a.result = "evicted" -> ~(o..(r.total_sent - 1) \subseteq held)
         [] OTHER -> a.bytes = Chunk(o, r.total_sent - o)

(* The eviction loop never pops an empty deque (the expect() at
   uplink_replay.rs 166 and downlink_ring.rs 202 is unreachable), and what is
   held stays within the capacity. *)
EvictionTerminates ==
  \A r \in {up, down} :
    /\ ~r.panicked
    /\ r.current_bytes = Len(FlattenSeq([k \in 1..Len(r.entries) |->
                                           r.entries[k].payload]))
    /\ r.current_bytes <= Capacity

(* The window a ring stands for. *)
View(r) == [starts |-> {r.entries[k].offset : k \in 1..Len(r.entries)},
            total |-> r.total_sent]

(* The rings implement the windows that the session models use in their place:
   every push takes the window where RingWindow says (uplink_replay.rs 147-174,
   downlink_ring.rs 163-213). *)
PushesWindow ==
  /\ View(up') = PushUplink(View(up), up'.total_sent - up.total_sent, Capacity)
  /\ View(down') = PushDownlink(View(down),
                                down'.total_sent - down.total_sent, Capacity)
PushImplementsWindow == [][PushesWindow]_vars

(* Every offset is answered, refused as evicted or refused as ahead just as the
   windows of RingWindow do (uplink_replay.rs 186-201). *)
ReplayImplementsWindow ==
  \A r \in {up, down} : \A o \in 0..(MaxTotal + 1) :
    LET a == replay_from(r, o).result
    IN /\ a = "ahead" <=> Ahead(View(r), o)
       /\ a = "evicted" <=> Evicted(View(r), o)
=============================================================================
