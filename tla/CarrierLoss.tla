----------------------------- MODULE CarrierLoss -----------------------------
(***************************************************************************)
(* Loss measured on the client's carriers: a dial files a probe of its     *)
(* carrier under the wire it dialed, a sampling loop differences the       *)
(* probes' counters into a per-wire verdict, and a hot apply carries the   *)
(* probes over to the managers it builds.                                  *)
(*                                                                         *)
(* One uplink and one transport.  A TCP probe is a duplicate of the        *)
(* carrier's descriptor: while it is held, the close of the carrier's own  *)
(* descriptor sends no FIN.  A QUIC probe is a weak reference.             *)
(***************************************************************************)
EXTENDS Integers, Sequences, FiniteSets, FiniteSetsExt

CONSTANTS
    Carriers,
    Family,       \* carrier -> "tcp" or "quic"
    Address,      \* carrier -> identity(): a later carrier may reuse one
    WireOf,       \* carrier -> the wire that dials it
    Wires,
    MaxProbes,    \* MAX_PROBES_PER_WIRE
    MaxIdle,      \* MAX_IDLE_TICKS
    Staleness,    \* loss_max_staleness, in ticks
    MinPackets,   \* loss_sample_min_packets
    MaxSent,      \* bound: packets per carrier
    MaxApplies, MaxFlips

VARIABLES
    carrier,   \* carrier -> [st, sent, lost]
    entries,   \* CarrierLossRegistry of the manager in use
    carried,   \* registries taken from it by an apply
    apply,     \* "idle", "taken": between the take and the swap
    loss,      \* wire -> "none", "clean", "lossy": LossEwma's ratio and the threshold
    stamp,     \* loss_last_qualifying_at: [wire, age]
    since,     \* loss_elevated_since is set
    active,    \* active_wire
    counted,   \* history: packets of each carrier that this manager's windows counted
    applies, flips

vars == <<carrier, entries, carried, apply, loss, stamp, since, active, counted,
          applies, flips>>

NoStamp == [wire |-> -1, age |-> 0]
Unmeasured == [w \in Wires |-> "none"]

Init ==
    /\ carrier = [c \in Carriers |-> [st |-> "none", sent |-> 0, lost |-> 0]]
    /\ entries = <<>> /\ carried = <<>> /\ apply = "idle"
    /\ loss = Unmeasured /\ stamp = NoStamp /\ since = FALSE
    /\ active = 0
    /\ counted = [c \in Carriers |-> 0]
    /\ applies = 0 /\ flips = 0

Probed(s, c) == \E i \in DOMAIN s : s[i].c = c

\* sample(): a carrier whose own descriptor is closed is still established as
\* long as a duplicate is held.
Alive(c) == carrier[c].st \in {"open", "closed"}

KeepStatus == UNCHANGED <<loss, stamp, since, active, flips>>

-----------------------------------------------------------------------------
\* A carrier is dialed.  An address is reused once its last user is gone.
Dial(c) ==
    /\ carrier[c].st = "none"
    /\ \A d \in Carriers : d # c /\ Address[d] = Address[c] =>
         carrier[d].st \in {"none", "dead"}
    /\ carrier' = [carrier EXCEPT ![c].st = "open"]
    /\ UNCHANGED <<entries, carried, apply, counted, applies>> /\ KeepStatus

Traffic(c) ==
    /\ carrier[c].st = "open" /\ carrier[c].sent < MaxSent
    /\ \E l \in 0..1 :
         carrier' = [carrier EXCEPT ![c].sent = @ + 1, ![c].lost = @ + l]
    /\ UNCHANGED <<entries, carried, apply, counted, applies>> /\ KeepStatus

\* Mutant: every session of a shared carrier files its own probe.
NoneFiled(c) == {}

\* The probes filed under this wire for the address of c.
FiledFor(c) ==
    {i \in DOMAIN entries : /\ WireOf[entries[i].c] = WireOf[c]
                            /\ Address[entries[i].c] = Address[c]}

RemoveAt(s, i) == SubSeq(s, 1, i - 1) \o SubSeq(s, i + 1, Len(s))

FirstOf(S) == CHOOSE i \in S : \A j \in S : i <= j

WithoutFirst(s, S) == IF S = {} THEN s ELSE RemoveAt(s, FirstOf(S))

\* register: a corpse of the same address goes, then the oldest of a full wire;
\* the baseline is read now.
Registered(c) ==
    LET alone == WithoutFirst(entries, FiledFor(c))
        wire == {i \in DOMAIN alone : WireOf[alone[i].c] = WireOf[c]}
        room == IF Cardinality(wire) >= MaxProbes
                THEN WithoutFirst(alone, wire) ELSE alone
    IN  Append(room, [c |-> c, sent |-> carrier[c].sent, lost |-> carrier[c].lost,
                      idle |-> 0])

\* A carrier whose own descriptor is closed sends its FIN with the last
\* duplicate.
Released(f, es, cs) ==
    [c \in Carriers |-> IF f[c].st = "closed" /\ ~Probed(es, c) /\ ~Probed(cs, c)
                        THEN [f[c] EXCEPT !.st = "dead"] ELSE f[c]]

\* register_carrier_loss_probe: on every dial and every hand-out of the pool.  A
\* live carrier already filed is not filed again.
register(c) ==
    /\ carrier[c].st = "open"
    /\ \A i \in FiledFor(c) : ~Alive(entries[i].c)
    /\ entries' = Registered(c)
    /\ carrier' = Released(carrier, entries', carried)
    /\ UNCHANGED <<carried, apply, counted, applies>> /\ KeepStatus

\* The transport drops the carrier.
Close(c) ==
    /\ carrier[c].st = "open"
    /\ LET f == [carrier EXCEPT ![c].st = IF Family[c] = "tcp" THEN "closed" ELSE "dead"]
       IN  carrier' = Released(f, entries, carried)
    /\ UNCHANGED <<entries, carried, apply, counted, applies>> /\ KeepStatus

\* The peer or the path ends it.
Reset(c) ==
    /\ carrier[c].st \in {"open", "closed"}
    /\ carrier' = [carrier EXCEPT ![c].st = "dead"]
    /\ UNCHANGED <<entries, carried, apply, counted, applies>> /\ KeepStatus

-----------------------------------------------------------------------------
\* A dropped weak reference reads as zero counters.
Sent(e) == IF Family[e.c] = "quic" /\ ~Alive(e.c) THEN 0 ELSE carrier[e.c].sent
LostNow(e) == IF Family[e.c] = "quic" /\ ~Alive(e.c) THEN 0 ELSE carrier[e.c].lost

Delta(a, b) == IF a >= b THEN a - b ELSE 0

Reading(e) ==
    [e EXCEPT !.sent = Sent(e), !.lost = LostNow(e),
              !.idle = IF Delta(Sent(e), e.sent) > 0 THEN 0
                       ELSE IF @ < MaxIdle THEN @ + 1 ELSE @]

Stays(e) == Alive(e.c) /\ e.idle < MaxIdle

On(s, w) == {i \in DOMAIN s : WireOf[s[i].c] = w}

NewSent(i) == Delta(Sent(entries[i]), entries[i].sent)
NewLost(i) == Delta(LostNow(entries[i]), entries[i].lost)

WindowSent(w) == MapThenSumSet(NewSent, On(entries, w))
WindowLost(w) == MapThenSumSet(NewLost, On(entries, w))

Qualifies(w) == WindowSent(w) >= MinPackets /\ WindowSent(w) > 0

\* emptied_wires: it held a probe before this pass and holds none after it.
Emptied(es, w) == On(entries, w) # {} /\ On(es, w) = {}

\* record_window, with the EWMA reduced to the side of the threshold it is on:
\* a clean window may or may not bring a lossy average below it.
Verdict(es, w) ==
    IF Emptied(es, w) THEN {"none"}
    ELSE IF ~Qualifies(w) THEN {loss[w]}
    ELSE IF WindowLost(w) = 0
    THEN IF loss[w] = "lossy" THEN {"lossy", "clean"} ELSE {"clean"}
    ELSE {"clean", "lossy"}

loss_is_fresh(s) == s.wire = active /\ s.age <= Staleness

\* sample_carrier_loss_once: collect_windows, then apply_loss_collection.
Kept == LET read == [i \in DOMAIN entries |-> Reading(entries[i])]
        IN  SelectSeq(read, Stays)

sample_carrier_loss_once ==
    /\ entries' = Kept
    /\ carrier' = Released(carrier, entries', carried)
    /\ counted' = [c \in Carriers |-> counted[c] +
         MapThenSumSet(NewSent, {i \in DOMAIN entries : entries[i].c = c})]
    /\ loss' \in [Wires -> {"none", "clean", "lossy"}]
    /\ \A w \in Wires : loss'[w] \in Verdict(entries', w)
    /\ stamp' = IF Qualifies(active) THEN [wire |-> active, age |-> 0]
                ELSE IF stamp = NoStamp THEN stamp
                ELSE [stamp EXCEPT !.age = IF @ > Staleness THEN @ ELSE @ + 1]
    /\ since' = (loss_is_fresh(stamp') /\ loss'[active] = "lossy")
    /\ UNCHANGED <<carried, apply, active, applies, flips>>

\* A wire failover between two ticks.
ActiveFlips ==
    /\ flips < MaxFlips
    /\ \E w \in Wires \ {active} : active' = w
    /\ flips' = flips + 1
    /\ UNCHANGED <<carrier, entries, carried, apply, loss, stamp, since, counted, applies>>

-----------------------------------------------------------------------------
\* Hot apply: the registries are taken from the running managers ...
take_carrier_loss_registries ==
    /\ apply = "idle" /\ applies < MaxApplies
    /\ carried' = entries /\ entries' = <<>>
    /\ apply' = "taken" /\ applies' = applies + 1
    /\ UNCHANGED <<carrier, counted>> /\ KeepStatus

\* ... adopted by the new ones before their samplers start, and the new managers
\* take over; what was filed with the old ones since is dropped with them.
adopt_carrier_loss_registries ==
    /\ apply = "taken"
    /\ entries' = carried /\ carried' = <<>>
    /\ apply' = "idle"
    /\ carrier' = Released(carrier, entries', <<>>)
    /\ loss' = Unmeasured /\ stamp' = NoStamp /\ since' = FALSE
    /\ counted' = [c \in Carriers |-> 0]
    /\ UNCHANGED <<active, applies, flips>>

Next ==
    \/ \E c \in Carriers : Dial(c) \/ Traffic(c) \/ register(c) \/ Close(c) \/ Reset(c)
    \/ sample_carrier_loss_once \/ ActiveFlips
    \/ take_carrier_loss_registries \/ adopt_carrier_loss_registries

Spec == Init /\ [][Next]_vars

\* The sampler ticks, and an apply that began ends.
FairSpec ==
    Spec /\ WF_vars(sample_carrier_loss_once) /\ WF_vars(adopt_carrier_loss_registries)

-----------------------------------------------------------------------------
\* A packet is counted at most once, however often its carrier is filed, handed
\* over, evicted and filed again: the volume that loss_sample_min_packets is
\* compared with is real.
CountedOnce == \A c \in Carriers : counted[c] <= carrier[c].sent

\* A wire nothing is measured on has no verdict: outside a hand-over, a ratio is
\* never left behind by carriers that are gone.
EmptyIsUnmeasured ==
    apply = "idle" =>
        \A w \in Wires : loss[w] # "none" => On(entries, w) # {}

Closed(c) == carrier[c].st = "closed"
FinSent(c) == carrier[c].st = "dead"

\* Measuring does not keep a carrier open: once the transport has closed its
\* descriptor, the duplicate is released and the FIN goes out.
FinGoesOut == \A c \in Carriers : Closed(c) ~> FinSent(c)

=============================================================================
