-------------------------------- MODULE Bbr --------------------------------
(***************************************************************************)
(* The congestion controller of the TUN TCP stack's downlink: the windowed *)
(* maximum of the delivery rate (BtlBw), the minimum RTT, the mode machine *)
(* (STARTUP, DRAIN, PROBE_BW, PROBE_RTT), the loss-rate cap and the two    *)
(* in-flight ceilings.                                                     *)
(*                                                                         *)
(* Bytes are counted in segments, gains in quarters, and every Instant is  *)
(* kept as its age, saturating just past the longest comparison made with  *)
(* it; the round numbers of the filter likewise.  A segment in flight is   *)
(* "old" when it left before the current round began.  Token-bucket pacing *)
(* decides when a segment leaves, so a send is any time; the head room for *)
(* aggregated ACKs is part of Quantum.                                     *)
(***************************************************************************)
EXTENDS Integers, Sequences

CONSTANTS
    Rates, Rtts,     \* what a sample may measure
    Scale,           \* rate * rtt per segment of BDP
    Slots,           \* of bw_filter
    Window,          \* BBR_BW_WINDOW_ROUNDS
    RttWindow,       \* BBR_MIN_RTT_WINDOW
    Hold,            \* BBR_PROBE_RTT_DURATION
    Gains,           \* BBR_PROBE_BW_GAINS, in quarters
    MinPipe,         \* BBR_MIN_PIPE_CWND_SEGMENTS and BBR_PROBE_RTT_CWND_SEGMENTS
    Quantum,         \* quantization_budget and aggregation head room
    FullCount,       \* BBR_STARTUP_FULL_BW_COUNT
    MinSample,       \* BBR_LOSS_MIN_SAMPLE_BYTES
    ThreshInv,       \* 1 / BBR_LOSS_THRESH
    FloorRate,       \* BBR_LOSS_CAP_FLOOR_BPS
    InitialWindow, ClientWindow,
    MaxOdd           \* bound: losses, and ACKs of retransmitted segments

VARIABLES
    bbr,    \* BbrState
    pipe,   \* segments in flight, sent before and since the round began
    odd,
    seen    \* history: accepted samples per round, the last, the peak

vars == <<bbr, pipe, odd, seen>>

Inf == 1000
NoSample == [rate |-> 0, limited |-> TRUE]
Larger(a, b) == IF a >= b THEN a ELSE b
Smaller(a, b) == IF a <= b THEN a ELSE b
Sat(n, max) == Smaller(n, max)
MaxOf(S) == CHOOSE x \in S : \A y \in S : y <= x

NewState ==
    [mode |-> "startup", phase |-> 1,
     filter |-> [i \in 1..Slots |-> [rate |-> 0, age |-> 0]], btlbw |-> 0,
     full_bw |-> 0, full_bw_count |-> 0,
     min_rtt |-> 0, rtt_age |-> 0, cycle_age |-> 0, hold |-> -1,
     loss_cap |-> 0, hi |-> Inf, lo |-> Inf, latest |-> 0,
     lost |-> 0, delivered |-> 0, loss |-> FALSE]

Init ==
    /\ bbr = NewState
    /\ pipe = [old |-> 0, new |-> 0]
    /\ odd = 0
    /\ seen = [acc |-> [a \in 0..Window |-> 0], last |-> 0, peak |-> 0]

-----------------------------------------------------------------------------
\* The bandwidth filter.
InWindow(s) == s.age <= Window

\* Mutant: a sample stays one round too long.
InWindowLate(s) == s.age <= Window + 1

Live(s) == InWindow(s)

refresh_btlbw(b) ==
    [b EXCEPT !.btlbw =
       MaxOf({0} \union {b.filter[i].rate :
                           i \in {j \in 1..Slots : Live(b.filter[j])}})]

First(S) == CHOOSE i \in S : \A j \in S : i <= j

update_bw_filter(b, rate) ==
    LET now == {i \in 1..Slots : b.filter[i].age = 0 /\ b.filter[i].rate > 0}
        free == {i \in 1..Slots : b.filter[i].rate = 0 \/ ~InWindow(b.filter[i])}
        least == {i \in 1..Slots : \A j \in 1..Slots :
                                     b.filter[i].rate <= b.filter[j].rate}
        slot == IF now # {} THEN First(now)
                ELSE IF free # {} THEN First(free) ELSE First(least)
        put == \/ now = {} /\ free # {}
               \/ rate > b.filter[slot].rate
    IN  refresh_btlbw(IF put THEN [b EXCEPT !.filter[slot] =
                                     [rate |-> rate, age |-> 0]]
                      ELSE b)

effective_btlbw(b) ==
    IF b.loss_cap > 0 THEN Smaller(b.btlbw, b.loss_cap) ELSE b.btlbw

HasBdp(b) == b.btlbw > 0 /\ b.min_rtt > 0

bdp(b) == (effective_btlbw(b) * b.min_rtt) \div Scale

inflight_for_gain(b, gain) ==
    IF HasBdp(b) THEN Larger((bdp(b) * gain) \div 4 + Quantum, MinPipe) ELSE Inf

\* pacing_gain and cwnd_gain, which the mode and the phase determine.
pacing_gain(b) ==
    CASE b.mode = "startup" -> 12
      [] b.mode = "drain" -> 1
      [] b.mode = "probe_bw" -> Gains[b.phase]
      [] b.mode = "probe_rtt" -> 4

cwnd_gain(b) == IF b.mode \in {"startup", "drain"} THEN 12 ELSE 8

inflight_cap(b) ==
    IF b.mode = "probe_rtt" THEN MinPipe ELSE inflight_for_gain(b, cwnd_gain(b))

is_probing_bandwidth(b) ==
    b.mode = "startup" \/ (b.mode = "probe_bw" /\ pacing_gain(b) > 4)

-----------------------------------------------------------------------------
\* The loss cap and the in-flight ceilings.

release_loss_cap(b) == [b EXCEPT !.loss_cap = 0, !.lo = Inf]

reset_loss_cap(b) ==
    [release_loss_cap(b) EXCEPT !.lost = 0, !.delivered = 0, !.latest = 0,
                                !.hi = Inf]

WindowCloses(b) ==
    /\ b.btlbw > 0
    /\ ~is_probing_bandwidth(b)
    /\ b.lost + b.delivered >= MinSample

BackOff(n) == (n * 17) \div 20

Restarted(b) == [b EXCEPT !.lost = 0, !.delivered = 0, !.latest = 0]

Pinned(b, inflight) ==
    [b EXCEPT !.hi = Larger(Smaller(@, inflight), MinPipe),
              !.lo = Larger(BackOff(IF @ = Inf THEN inflight ELSE @), MinPipe)]

Capped(b, latest) ==
    [b EXCEPT !.loss_cap =
       Larger(Larger(BackOff(IF @ > 0 THEN @ ELSE effective_btlbw(b)), latest),
              FloorRate)]

adapt_loss_cap(b, inflight) ==
    LET lossy == b.lost * ThreshInv > b.lost + b.delivered
        p == Pinned(Restarted(b), inflight)
    IN  IF ~WindowCloses(b) THEN b
        ELSE IF ~lossy THEN Restarted(b)
        ELSE IF b.latest = 0 THEN p ELSE Capped(p, b.latest)

-----------------------------------------------------------------------------
\* The mode machine.
enter_drain(b) == [b EXCEPT !.mode = "drain"]

enter_probe_bw(b) ==
    reset_loss_cap([b EXCEPT !.mode = "probe_bw", !.phase = 3, !.cycle_age = 0])

enter_probe_rtt(b) == [b EXCEPT !.mode = "probe_rtt", !.hold = -1]

check_startup_full_pipe(b, s) ==
    IF b.btlbw >= (b.full_bw * 5) \div 4
    THEN [b EXCEPT !.full_bw = b.btlbw, !.full_bw_count = 0]
    ELSE [b EXCEPT !.full_bw_count = Sat(@ + 1, FullCount)]

PhaseOver(b, inflight) ==
    LET full_length == b.cycle_age >= Larger(b.min_rtt, 1)
        gain == pacing_gain(b)
    IN  CASE gain > 4 -> full_length /\ (b.loss \/ inflight >= inflight_for_gain(b, gain))
          [] gain < 4 -> full_length \/ (HasBdp(b) /\ inflight <= bdp(b))
          [] OTHER -> full_length

NextPhase(b) ==
    LET n == [b EXCEPT !.phase = (@ % Len(Gains)) + 1, !.cycle_age = 0]
    IN  IF pacing_gain(n) > 4
        THEN release_loss_cap([n EXCEPT !.hi = IF b.loss THEN @ ELSE Inf])
        ELSE n

update_mode(b0, inflight) ==
    LET b == IF b0.mode # "probe_rtt" /\ b0.rtt_age > RttWindow
             THEN enter_probe_rtt(b0) ELSE b0
    IN  CASE b.mode = "startup" ->
               IF b.full_bw_count >= FullCount THEN enter_drain(b) ELSE b
          [] b.mode = "drain" ->
               IF HasBdp(b) => inflight <= bdp(b) THEN enter_probe_bw(b) ELSE b
          [] b.mode = "probe_bw" ->
               IF PhaseOver(b, inflight) THEN NextPhase(b) ELSE b
          [] b.mode = "probe_rtt" ->
               CASE b.hold = -1 -> IF inflight <= MinPipe
                                   THEN [b EXCEPT !.hold = Hold] ELSE b
                 [] b.hold = 0 -> enter_probe_bw([b EXCEPT !.rtt_age = 0])
                 [] OTHER -> b

-----------------------------------------------------------------------------
\* A round begins: the filter's samples age, STARTUP and the loss cap look back.
RoundStart(b, s, inflight) ==
    LET aged == [b EXCEPT !.filter = [i \in 1..Slots |->
                   IF @[i].rate = 0 THEN @[i]
                   ELSE [@[i] EXCEPT !.age = Sat(@ + 1, Window + 2)]]]
        looked == IF b.mode = "startup" THEN check_startup_full_pipe(aged, s) ELSE aged
    IN  [adapt_loss_cap(looked, inflight) EXCEPT !.loss = FALSE]

Accepted(b, s) == s # NoSample /\ (~s.limited \/ s.rate > b.btlbw)

RateSample(b, s) ==
    LET l == [b EXCEPT !.latest = Larger(@, s.rate)]
    IN  IF Accepted(b, s) THEN update_bw_filter(l, s.rate) ELSE l

RttSample(b, rtt) ==
    IF rtt > 0 /\ (b.min_rtt = 0 \/ rtt < b.min_rtt \/ b.rtt_age > RttWindow)
    THEN [b EXCEPT !.min_rtt = rtt, !.rtt_age = 0] ELSE b

record_delivery(b, n, s, start, rtt, inflight) ==
    LET d == [b EXCEPT !.delivered = Sat(@ + n, MinSample)]
        r == IF start THEN RoundStart(d, s, inflight) ELSE d
    IN  RttSample(IF s = NoSample THEN r ELSE RateSample(r, s), rtt)

Noted(b, s, start) ==
    LET acc0 == IF start THEN [a \in 0..Window |-> IF a = 0 THEN 0 ELSE seen.acc[a - 1]]
                ELSE seen.acc
        acc == [acc0 EXCEPT ![0] = Larger(@, s.rate)]
    IN  IF Accepted(b, s)
        THEN [acc |-> acc, last |-> s.rate, peak |-> MaxOf({acc[a] : a \in 0..Window})]
        ELSE [seen EXCEPT !.acc = acc0]

\* on_ack for n segments; a sample of a segment sent since the round began
\* starts the next one, and everything still in flight is then old.
on_ack(n, s, rtt) ==
    LET rest == pipe.old + pipe.new - n
        start == s # NoSample /\ n > pipe.old
    IN  /\ rest >= 0
        /\ bbr' = update_mode(record_delivery(bbr, n, s, start, rtt, rest), rest)
        /\ pipe' = IF start THEN [old |-> rest, new |-> 0]
                   ELSE [old |-> Larger(pipe.old - n, 0), new |-> Smaller(pipe.new, rest)]
        /\ seen' = Noted(bbr, s, start)

Acked ==
    /\ \E n \in 1..2, rate \in Rates, limited \in BOOLEAN, rtt \in Rtts :
         on_ack(n, [rate |-> rate, limited |-> limited], rtt)
    /\ UNCHANGED odd

\* Karn: a retransmitted segment gives neither a rate nor an RTT.
AckedRetransmit ==
    /\ odd < MaxOdd
    /\ odd' = odd + 1
    /\ on_ack(1, NoSample, 0)

\* note_loss and note_bytes_lost, by fast recovery or the RTO.
Lost ==
    /\ odd < MaxOdd /\ pipe.old + pipe.new > 0
    /\ odd' = odd + 1
    /\ bbr' = [bbr EXCEPT !.loss = TRUE, !.lost = Sat(@ + 1, MinSample)]
    /\ UNCHANGED <<pipe, seen>>

congestion_window(b) ==
    IF b.btlbw > 0 THEN Smaller(inflight_cap(b), Smaller(b.hi, b.lo))
    ELSE InitialWindow

CanAck == pipe.old + pipe.new > 0

CanSend == pipe.old + pipe.new < Smaller(congestion_window(bbr), ClientWindow)

Send ==
    /\ CanSend
    /\ pipe' = [pipe EXCEPT !.new = @ + 1]
    /\ UNCHANGED <<bbr, odd, seen>>

CanTick == bbr.rtt_age <= RttWindow \/ bbr.cycle_age < MaxOf(Rtts) \/ bbr.hold > 0

Tick ==
    /\ CanTick
    /\ bbr' = [bbr EXCEPT !.rtt_age = Sat(@ + 1, RttWindow + 1),
                          !.cycle_age = Sat(@ + 1, MaxOf(Rtts)),
                          !.hold = IF @ > 0 THEN @ - 1 ELSE @]
    /\ UNCHANGED <<pipe, odd, seen>>

Next == Acked \/ AckedRetransmit \/ Lost \/ Send \/ Tick

Spec == Init /\ [][Next]_vars

\* The client acknowledges what is in flight, upstream has data, and the clock
\* runs.  FairAcked is weak fairness with the guard of Acked written out, which is
\* much cheaper to evaluate than ENABLED.
FairAcked == ([]<>~CanAck) \/ ([]<><<Acked>>_vars)
Fairness == FairAcked /\ WF_vars(Send) /\ WF_vars(Tick)

FairSpec == Spec /\ Fairness

-----------------------------------------------------------------------------
\* A probe runs free: in STARTUP and in the gain-up phase neither the loss cap
\* nor the short-term ceiling is in force, whatever was lost before and during.
ProbesUncapped ==
    is_probing_bandwidth(bbr) => bbr.loss_cap = 0 /\ bbr.lo = Inf

\* BtlBw is a windowed maximum: at least the last accepted sample, at most the
\* largest one accepted in the window that ended with it, whatever slots of the
\* filter were reused in between.
FilterSound ==
    seen.last <= bbr.btlbw /\ bbr.btlbw <= seen.peak

CeilingSet == bbr.hi # Inf

\* "lifted back up by a clean PROBE_BW gain-up phase": once the path has stopped
\* losing, the long-term ceiling is lifted.
HiIsLifted == CeilingSet ~> ~CeilingSet
=============================================================================
