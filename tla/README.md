# outline-proxy: TLA+ models and proofs

outline-proxy is a client (`bins/outline-ws-rust`: SOCKS5 and TUN) and a server
(`bins/outline-ss-rust`) that carry TCP and UDP over WebSocket, XHTTP, HTTP/2,
HTTP/3 and raw QUIC carriers, with Shadowsocks or VLESS inside.  Almost all of
it is concurrent: tasks that share maps, rings, carriers and files, and lose
them to each other between two awaits.  The core is that a byte stream must
survive its carrier: the server parks the upstream of a session whose carrier
ended, the client redials, presents the Session ID, learns how much the server
has, and replays the rest, in both directions, without losing, repeating or
reordering a byte.

This directory models that core and the machinery around it in TLA+, checks the
models with TLC on small instances, and proves the resumption core, the park
registry and the TUN scheduler with TLAPS for every instance.

Paths below are relative to `src/`.  `ss/` is `bins/outline-ss-rust/src/server/`,
`ws/` is `bins/outline-ws-rust/src/`, `transport/`, `uplink/` and `tun/` are the
`src/` directories of the crates `outline-transport`, `outline-uplink` and
`outline-tun`.

## 1. The system and its modules

One module models one component.  Its variables are the component's state, an
action is a handler or the part of one between two awaits or lock operations,
and its constants are sizes, bounds and the faults that may happen.

### Resumption

| Part | Source | Module |
|---|---|---|
| One TUN flow, its carriers and the server session behind them: pump, reader, migration, park, resume, replay | `tun/tcp/engine/tasks/upstream/`, `tun/tcp/state_machine/resume.rs`, `ss/transport/tcp.rs`, `ss/relay.rs` | `CarrierMigration` |
| What a session promises for one direction of its stream | | `BytePipe` |
| The client's and the server's replay ring, byte by byte | `transport/uplink_replay.rs`, `ss/resumption/downlink_ring.rs` | `ReplayRing` |
| What a ring promises: the offsets it still holds | | `RingWindow` |
| The registry of parked sessions: three concurrent maps, caps, TTL, reserve and notify | `ss/resumption/registry.rs` | `OrphanRegistry` |

### Server

| Part | Source | Module |
|---|---|---|
| A session parked on its home node and continued through an edge node | `ss/transport/mesh_relay.rs`, `ss/transport/upstream_source.rs`, `ss/cluster/mesh/` | `MeshRelay` |
| VLESS TCP and UDP sessions over successive carriers | `ss/transport/vless/` | `VlessSession` |
| VLESS mux: sub-connections, shared response header, harvest | `ss/transport/vless_mux/` | `VlessMux` |
| XHTTP session registry, relay, GET downlink, janitor | `ss/transport/xhttp/` | `XhttpSessions` |
| XHTTP uplink, both ends: send window, reorder queue, held POSTs | `transport/xhttp/`, `ss/transport/xhttp/` | `XhttpUplink` |
| UDP over HTTP/3 datagrams: anchors, demux, client gate | `ss/transport/h3_datagram.rs`, `transport/h3/datagram.rs` | `H3Datagram` |
| UDP NAT table, its readers, resume and park of UDP streams | `ss/nat/`, `ss/transport/udp.rs` | `UdpNat` |
| Replay filters: packet windows, salts, per-user quota | `ss/replay.rs`, `ss/salt_replay.rs` | `ReplayFilter` |
| Control API: users, section patches, the file, the restart | `ss/control/`, `bins/outline-ss-rust/src/config/` | `ServerControl` |
| DNS cache, singleflight, staggered connect | `ss/dns_cache.rs`, `ss/connect.rs`, `crates/outline-net/src/dns_cache.rs` | `Resolver` |
| IPv6 source pool, refresh, sticky pins | `bins/outline-ss-rust/src/outbound.rs`, `ss/nat/table.rs` | `OutboundIpv6` |

### Client

| Part | Source | Module |
|---|---|---|
| Strict selection of an uplink: sessions, probes, operator, timer move one pointer | `uplink/manager/` | `UplinkSelection` |
| Wires and carrier descent inside one uplink | `uplink/manager/active_wire.rs`, `failures.rs`, `mode_downgrade.rs` | `WireFailover` |
| Wall-clock re-selection and the order shared by nodes | `uplink/manager/reselect.rs`, `sync_order.rs` | `ReselectSchedule` |
| Health probes, warm pipes, keepalive | `uplink/probe/`, `uplink/manager/probe/` | `ProbeCycle` |
| Warm-standby pool | `uplink/manager/standby_pool.rs`, `standby/` | `StandbyPool` |
| Loss measured on carriers | `uplink/loss.rs`, `uplink/manager/loss_sampler.rs`, `transport/carrier_loss.rs` | `CarrierLoss` |
| The state file | `uplink/state.rs` | `UplinkState` |
| Policy routing: tables, file watchers, hot apply, dispatch | `crates/outline-routing`, `ws/proxy/dispatcher.rs`, `tun/routing.rs` | `RouteTable` |
| Control API: staged edits and apply | `ws/http/control/` | `ClientControl` |
| SOCKS TCP session | `ws/proxy/tcp/connect/` | `SocksTcp` |
| SOCKS UDP association | `ws/proxy/udp/` | `SocksUdp` |
| Shared carriers: reuse or dial, reaper | `transport/shared_cache.rs`, `shared_dial.rs` | `SharedCarriers` |
| Dial plan and mode memories | `transport/dial_plan.rs`, `ws_mode_cache.rs`, `xhttp_mode_cache.rs`, `mode_health.rs` | `DialPlan` |
| VLESS-UDP session mux | `transport/vless/udp_mux_core.rs` | `VlessUdpMux` |
| Carrier I/O: budgeted queue, writer, close | `transport/frame_io_ws.rs` | `WsCarrierIo` |

### TUN

| Part | Source | Module |
|---|---|---|
| Deadline heap and the one maintenance task | `tun/tcp/engine/scheduler.rs`, `tun/tcp/engine/tasks/maintenance.rs` | `FlowScheduler` |
| Receive side: window, reassembly, delayed ACK, pump | `tun/tcp/` | `TunTcpReceive` |
| Loss recovery: SACK scoreboard, pipe accounting | `tun/tcp/state_machine/congestion.rs` | `TunTcpScoreboard` |
| Send side: window, persist, keepalive, FIN | `tun/tcp/state_machine/send/` | `TunTcpSend` |
| Sequence numbers modulo the sequence space | `tun/tcp/state_machine/seq.rs` | `TcpSeq` |
| Flow table, eviction, carrier slots, backlog budget | `tun/tcp/engine/` | `TunTcpEngine` |
| Congestion control | `tun/tcp/state_machine/bbr.rs` | `Bbr` |
| UDP flows | `tun/udp/` | `TunUdp` |
| Fragment reassembly | `tun/defrag/` | `Defrag` |

`PROJECT.json` lists every part with its sources and its status; its `map` names
the lines each definition models.  A helper whose lines lie within those of the
definition that uses it has no entry of its own.

## 2. How code becomes a model

- A *byte* is its offset in its stream, so a lost, repeated or reordered one is
  visible.  A datagram is its number.  Names, addresses, users and Session IDs
  are model values.  Cryptography, framing, logging and metrics are left out.
- *Atomicity*: what the code does under one lock is one action.  Two operations
  on a concurrent map, or two sides of an await, are two actions, and anything
  else may happen between them.
- *Drops*: a future that is cancelled, a guard that is dropped and an `Arc`
  whose last reference goes are actions where they change state.
- *Networks*: a carrier is a pair of queues.  A carrier that dies loses an
  arbitrary suffix of each; a send on a dead carrier may fail or vanish.  HTTP
  requests of one session overtake each other where the protocol lets them.
- *Time* is a small clock or an age that saturates, and a timeout is an action
  enabled when it may have run out.
- *Faults* happen where a constant (`Faults`) names them, at most `MaxFaults`
  times.
- *Undecided data* (which entry of an index is the oldest, what a weighted draw
  returns, which timer a deadline comes from) is a nondeterministic choice.

`CarrierMigration` is the largest.  The *flow lock* makes each critical section
one action; the *carrier lock* is held by the pump at `send` and by the reader
at `replay`, and disables the other task's actions meanwhile.  The pump is
`PumpPop`, `PumpLock` (the epoch check), `PumpSend`, the verdict loop
`PumpVerdict`, `PumpWake`, `PumpGrace`, and the half-close.  The reader is
`ReaderChunk`, `ReaderEof`, `ReaderDied`, `ReaderSoftMigrate`, and the migration
`PlanMigration`, `RetireCarrier`, `Redial`, `ConsumeAckPrefix`,
`ConsumeDownlinkReplay`, `CommitMigration`, `SendReplay`,
`DeliverDownlinkReplay`, `FinishMigration`; every `Err` leads to
`AbandonMigration` and `Teardown`.  The server's registry is one slot that may
be emptied at any time.  `torn_up` and `torn_down` are history: a byte arrived
that was not the next one.

In `OrphanRegistry` every operation on one of the three maps is an action:
`park` is `ParkIndex`, `ParkChooseVictim`, `ParkEvict`, `ParkDetach`,
`ParkInsert`, `ParkRelease`, `ParkNotify`; `take_for_resume` is `TakeStart`,
`TakeLookup`, `TakeArm`, `TakeRecheck`, `TakeWoken`, `TakeTimeout`,
`TakeRemove`, `TakeReinsert`, `TakeDetach`; the sweep is three more.  The mesh
relay puts a park it cannot serve back without a reservation (`RePark`): the same
steps from `ParkIndex` on.

In `FlowScheduler` a flow enters the table (`Open`) before its opener commits the
first deadline (`FirstCommit`), and may be closed or evicted between the two.  In
`TunUdp` a fail-over after a failed send is the redial, the bind, which waits for
the table's lock, and the resend: three actions, and the old reader runs on until
the second.

Two replay rings are modelled twice: byte by byte in `ReplayRing`, with the
eviction loop and the early returns of the code, and as a window of offsets in
`RingWindow`, which `CarrierMigration` uses.  `PushImplementsWindow` and
`RingsExact` justify the second by the first.

## 3. Runs

Parts that do not interact are checked in one run: `MCServer`, `MCClient` and
`MCTun` hold one `INSTANCE` of a module per part, a behaviour stays in its part,
and the parts share variables, because a state of the run is a state of one part
only.  For the same reason the leads-to formulas of the liveness runs take the
parts together.  `MCResume` holds `CarrierMigration` under four sets of bounds.
Callers, requests, dials and targets that the code does not tell apart are two
interchangeable model values (`PairSymmetry`) in the safety runs, never in the
liveness runs.

| Run | Module, config | Shows |
|---|---|---|
| `resume` | `MCResume`, `Resume.cfg` | a stream over carriers that die, are switched and are resumed: `UplinkExact`, `UplinkComplete`, `DownlinkExact`, `CarrierIsResumed`, and both directions refine `BytePipe` |
| `server` | `MCServer`, `Server.cfg` | the server's tables and relays under concurrent callers, sweepers and faults |
| `server_live` | `MCServer`, `ServerLive.cfg` | whoever waits on the server side is answered |
| `client` | `MCClient`, `Client.cfg` | the client's choices, sessions, pools and files as interleaving tasks |
| `client_live` | `MCClient`, `ClientLive.cfg` | the client leaves what is bad, moves what was left behind, and repairs |
| `tun` | `MCTun`, `Tun.cfg` | the TUN stack with reordered, repeated and lost segments and wrapping sequence numbers |
| `registry_cap` | `MCServer`, `RegistryCap.cfg` | violation, section 6 |
| `socks_lost_chunk`, `socks_redial` | `SocksTcp`, `SocksLostChunk.cfg`, `SocksRedial.cfg` | violations, section 6 |
| `socks_udp_reader` | `SocksUdp`, `SocksUdpReader.cfg` | violation, section 6 |
| `bbr_ceiling` | `MCClient`, `BbrCeiling.cfg` | violation, section 6 |

What the properties say:

- `UplinkExact`, `DownlinkExact`: every byte that arrives is the next one.
  `UplinkComplete`: on a healthy flow, forwarded and in-flight bytes make up all
  the pump took, so a batch taken around the commit is not lost between the
  replay and the pump.  `CarrierIsResumed`: the installed carrier is one the
  server resumed for this flow, never a fresh upstream.  `ImplementsUpPipe`,
  `ImplementsDownPipe`: each direction is a `BytePipe`.
- `NoStaleSlot`: every ID listed under a user is committed, being committed, or
  in the hands of a task about to unlist it; a leaked slot would eat the user's
  cap for good.  `OneHitPerPark`: an upstream goes to one redial at most, and to
  its owner.  `UnknownOnlyIfGone`: a redial that found a park in flight or landed,
  and did not time out, is told Unknown only if the entry is really gone.
- `RingsExact`, `PushImplementsWindow`: a replay is exactly the bytes asked for,
  eviction ends, and rings behave as windows.
- `RelayedExact`, `HeaderFirst`, `SessionsKeepTheirOwn`: what mesh, VLESS, mux,
  XHTTP and datagram relays hand on is a prefix of what they got, under the
  right header, to the session that owns it.
- `ServerCountsExact`, `ClientCountsExact`, `TunCountsExact`: a count that
  admission is decided on is that of what it counts.
- `FilterPassesOnce`, `LookupsSound`, `ControlSaves`: the replay filters, the
  resolver and the control plane of the server.
- `SessionsExact`, `BlameIsFair`, `DialsRemembered`, `CloseIsOrderly`,
  `PacingSound`, `DecisionsFresh`, `ConfigSound`, `RotationSound`,
  `EvidenceMoves`, `LiveIsKept`: the client.  `EvidenceMoves` and `LiveIsKept`
  are action properties: what a step may never do.
- `SessionsExact` covers a SOCKS session without resumption (`retry`), one with
  resumption whose client speaks first and whose carriers reset, stall or refuse
  (`speaks`), and one whose target speaks first and that is resumed and switched
  (`resume`).  What it leaves out are the two findings about the first-chunk
  window and the offsets of the ring (section 6).  For the VLESS-UDP mux it says
  that a session that carried a datagram has a reader for the reply, with dials
  that take no time and dials that take less than the idle timeout, as the
  defaults (10 s and 60 s) do.
- `RotationSound` says of the selection that repeating it with nothing new known
  comes to rest, with failback on and off, with equal and with different weights,
  wherever `Undisputed` holds: section 6 lists the cases in which two rules of the
  selection undo each other.  Of the calendar it says that a slot fires once on
  each node, through restarts and late wake-ups, unless its window overlaps that
  of another slot.
- `SleepIsSound`, `TunStreamsExact`, `DutiesKept`, `FlowOnItsCarrier`: the TUN
  stack.
- `ResumptionEnds`, `WaitsEnd`, `BadIsLeft`, `SessionsFollow`, `RepairsHappen`:
  liveness.

The comment at each definition names its conjuncts, one per part.

### Bounds

The bounds are those at which the interesting cases meet, and no larger:

- Streams: two bytes over a ring of one, so that a chunk can be too large for
  the ring, a batch can be forwarded in part and a replay can start inside a
  chunk; or one byte and two migrations, so that a batch can be two epochs old.
- Tables, pools and caches hold one or two entries and are used by two callers
  and one sweeper, so that they are full, raced for and swept.  The per-user and
  the global cap are both reached.
- Clocks run for one TTL and a tick more: an entry expires before, during and
  after its use.
- Rings: capacity four, chunks up to six, streams up to nine bytes: empty, exact
  fit, oversized and multi-chunk eviction, and every split offset.
- Sequence spaces are 16 numbers and streams start just before the wrap; replay
  windows are two words of two bits, and packet ids move within a word, across
  words and out of the window.
- A late acknowledgement or SACK block speaks of at most one byte below the last
  acknowledgement (`MaxStale` of `TunTcpScoreboard`): older ones are stale in the
  same way.
- Two uplinks, two or three wires, three carrier ranks, two nodes of a schedule:
  enough for one to be bad, the other not, and a third choice to exist.
- Faults: one or two per behaviour, of every kind the part handles.
- The migration's liveness is checked with one byte up and carriers that die
  (`migration`), and without it under operator switches (`migration_soft`); dead
  shared carriers over h2, h3 and xhttp; replay filters also at their caps
  (`full`).

Every part comes to rest once its bounded inputs are used up, so deadlock is not
checked; that a wait ends is a liveness property instead.

### Fairness

Weak fairness of tasks the runtime polls: handlers, pumps, readers, writers,
sweepers and loops whose timer fires.  A step that stands for the end of a wait
is fair only if the code puts a timeout on it (a dial, a probe stage, a frame of
a migration, a flush) or somebody must notify.  Nothing is assumed of the
network, peers, operators, faults, or of clients that stop reading.
`TakeTimeout` is not fair: a redial gets its answer by notification alone.  One
strong fairness: the debounce of the state writer ends although new changes keep
restarting it, which is what a quiet interval of 200 ms in the end amounts to.
Each module states its own as `FairSpec`; the MC modules repeat them part by
part.

## 4. Refinements

- `CarrierMigration` implements `BytePipe` twice, once per direction:
  `ClientWrite` is a `Send` and `ServerForward` a `Deliver`; a relayed upstream
  byte is a `Send` and the reader's or the replay's hand-over a `Deliver`; all
  else stutters.  Checked by TLC and proved.
- `ReplayRing` implements `RingWindow`, step by step for pushes and answer by
  answer for replays.  Checked by TLC.

## 5. Proofs

TLAPS proves the following for every value of the constants.  The assumptions
are the types of the constants (`MigrationAssumption`, `RegistryAssumption`,
`FlowAssumption`), which TLC evaluates in the runs, and what a theorem states
after `ASSUME`.

### The uplink of a migrating flow

`CarrierMigrationProofs`: `TypeCorrect`,
`UplinkIsExact`, `UplinkIsComplete`, `CarrierIsAlwaysResumed`, `UplinkIsAPipe`,
for every ring size, number of redials, attempt budget and stream length, with
v2 on or off.

None of these is inductive.  `~torn_up` says nothing about what is in flight, so
`IInv` adds:

- `UplinkOK`: the runs in flight to the attached session form a chain from the
  server's counter, and on a healthy carrier the chain ends at `NextByte`, the
  first byte the pump has not put on this carrier.  A batch of an older epoch
  does not count: the replay has carried it.
- `ReplayOK`: at the replay the fresh carrier is empty and the server's counter
  is the one the migration read, so the replayed tail continues it exactly.
- `AckOK`: between the resume hit and the commit that counter does not move.
  Nobody else can be attached, because (`SessionOK`) one carrier at most holds
  the upstream, and the old carrier can no longer be attached once its session
  was parked and taken.
- `FlowOK`, `PumpOK`, `DialsOK`, `ReaderOK`: the ring's total is what the pump
  took, the carrier's epoch is the flow's, the pump sends only in the current
  epoch and never during a replay, at most one dial is ahead of the carrier.

`NextIInv` has one lemma per action or group of actions, over lemmas about
chains (append, tail, trim, prefix).

### The downlink

Also in `CarrierMigrationProofs`: `DownlinkIsExact` and `DownlinkIsAPipe`, where both
sides negotiated the v2 replay (`ASSUME SymmetricReplay`).  Without v2 they are
false, and the code says so: a migration then commits over the bytes the dead
carrier had lost.

`DownInv`, on top of `IInv`:

- `LinkedOK`: on every carrier a frame follows its predecessor: the replay
  follows the Ack-Prefix, live bytes go on where the replay ended, and nothing
  but another Close follows a Close.  A truncated replay is followed by bytes
  that start anywhere, and the reader gives up on it.
- `HeadOK`: what the latest carrier brings first is what the reader lacks,
  beyond the replay it holds and has not delivered.
- `RequestOK`: the offset a resume asks for is still the reader's when the
  server answers it.
- `TailOK`: the queue of the attached carrier ends where the upstream's relay
  goes on, as long as the relay runs and the carrier is whole.
- `TotalOK`: nothing is on its way that the upstream did not send.

A carrier that breaks keeps a prefix of its queue, so `HeadOK` survives and
`TailOK` is no longer asked; a resume hit empties both and starts a queue that
satisfies them again.  That is the argument; a lemma per action carries it out.

### The registry of parked sessions

`OrphanRegistryProofs`: `RegistryTypeCorrect`, `NoSlotGoesStale`,
`HandedOutOnce`, `MissesAreAccounted`, `ParkMissRaceClosed`, for any sets of
sessions, users and redials, any caps and any TTL of each session, with every map
operation a step of its own and parks put back by the mesh relay included.

`IInv` has three parts.  `SlotInv`: before its insert an ID is not committed and
in nobody's hand (`NotYetParked`), and every listed ID is backed.  `HoldInv`: a
take that removed an entry is the only one to have it, and knows whether it is
the owner's.  `AwaitInv`: an entry that has landed is *accounted for* - in the
map, gone, or out of it for another redial's owner check - and so is one whose
reservation a take saw, by the time that take looks again.  `ParkMissRaceClosed`
needs that every claim is the owner's: the owner check removes an entry and puts
it back, and a redial in between is told Unknown.  `MissesAreAccounted` is what
holds without that assumption.

### The TUN scheduler

`FlowSchedulerProofs`: `CoveredHolds`, `SleepIsSoundHolds`, for any flows, keys,
heap entries and instants.  `SleepIsSound` speaks of the sleeping task only;
`Covered` (every live flow the task is not working on has a heap entry at or
before its deadline, or an opener about to commit its first) is what its other
steps preserve, with `TaskOK` and `TableOK` saying which flow the task works on,
that the table holds no closed one, and that a flow being opened is in the table
or closed.

### Only model-checked

Liveness and `ENABLED` are out of the prover's reach.  So is induction over
data: the rings (their eviction is recursive), the replay window's bitmap, and
whatever a fold or `SelectSeq` computes.  The components without a proof module
are checked on their instances only.

## 6. Findings

Five runs show a behaviour of the code that contradicts what the repository
says of it; `PROJECT.json` quotes the line.

- `socks_lost_chunk`: a client chunk that is read while the first answer is
  awaited is sent before it is buffered (`first_chunk.rs` 85); if the send fails,
  the uplink that takes over gets the stream with a gap.
- `socks_redial`: a redial in the first-chunk window presents the session's id
  and replays its whole buffer (`retry.rs` 72); when the server has parked the
  upstream and resumes it, the target gets the bytes a second time.
- `registry_cap`: an ID is listed before its entry is inserted (`registry.rs`
  410); a second park of the user at the cap unlists the first, finds no entry to
  evict, and both entries are then inserted: one more than `orphan_per_user_cap`.
  The lists themselves stay within the cap.
- `socks_udp_reader`: after a failover the downlink task reads the replacement
  once without its move watch (`group.rs` 299); a second switch ends the task
  while the association goes on sending.
- `bbr_ceiling`: an in-flight ceiling below the target of the probe that should
  lift it keeps that probe from ending (`bbr.rs` 760).

Modelling met more places where the code does not do what a comment or a
document says.  The models contain them; the properties or the instances of the
passing runs leave these cases out.

Resumption and sessions:

- A redial under another user removes the entry, compares and reinserts; the
  owner's redial in between is told Unknown (`registry.rs` 484).
- The global cap of the registry is checked and enforced in two steps and is
  approximate.
- The pump's grace timer is armed before a migration starts and resets the flow
  while the migration runs (`pump.rs` 363).
- Without v2 a migration commits over a downlink gap (`migrate.rs` 441); after a
  replay that fails to send, the fresh carrier stays installed (526); the first
  failed migration is final, so the second attempt is never made (223).
- A relay task that failed on its sink is not parked (`tcp.rs` 732).
- A VLESS-UDP record cut in two by a carrier's end is completed with the head of
  the next carrier's first record (`parked.rs` 191).
- A relay of an evicted XHTTP session removes its successor's entry, by ID
  (`xhttp/handlers.rs` 1074); a stream-one request may detach late (`h3.rs` 617).
- A mesh session whose client changes edges before its home has re-parked it is
  not found there.
- SOCKS: a rescued session is aborted after its first chunk because the active
  pointer stayed behind (`candidates.rs` 271); the ring of the relay starts empty
  after the first chunk while the server counts from the first byte, so a session
  whose client spoke before that chunk replays from the wrong offset after a
  reset (`pinned_relay.rs` 149); the client's own read error in the first-chunk
  window carries no `ClientIo` mark and is put down to the uplink
  (`first_chunk.rs` 108); chunks larger than the ring are
  sent and not counted, and a partial write is repeated; on a single uplink one
  carrier loss can end a UDP association although both redials succeed.

Selection, dialling and pools:

- A binary mode cap turns an XHTTP dial into a WebSocket one (`ws_mode_cache.rs`
  184).  A warm probe pipe is keyed without its URL (`probe/http.rs` 80).
- A carrier that just became busy can be reaped (`shared_cache.rs` 404), and a
  dead VLESS-UDP session stays in its slot (`udp_mux_core.rs` 486).
- A repeated selection need not settle, and moves the pointer to and fro with
  nothing new known: with `auto_failback = true` while an uplink cools down
  (failback does not look at the cooldown failover left it for; per uplink with
  two uplinks, global with three); with `auto_failback = true`, equal weights and
  a degraded or lossy uplink (`UPLINK-CONFIGURATIONS.md` 1508-1517 says so);
  with equal weights, one uplink degraded and another lossy, also with
  `auto_failback = false`; and where a fallback wire vouches for an uplink whose
  probe fails.
- Failback that has found a stable better uplink then takes the first of the
  general order, by score (`candidates.rs` 1104): with three uplinks of one weight
  it may take one below the active, where `UPLINK-CONFIGURATIONS.md` 850-853 has
  it "only ever" move up.
- Slots less than the tolerance (90 s) apart fire twice: only the slot fired last
  is remembered (`reselect.rs` 83-116, against `UPLINK-CONFIGURATIONS.md` 814-821).
- With the shuffle timer a round need not cover all wires, and a wire without data may be
  taken again; two nodes may disagree in the slot around New Year.
- A sweep restores the carriers it had drained over a pool that was refilled
  meanwhile, so a standby pool may hold more than `desired`; concurrent callers
  can take the sticky pins past their cap.
- A wire with a live carrier may be left unmeasured.  Store and publication of
  the active uplink are two steps, so a stale snapshot may be published last.
- `WsDatagramChannel::close` waits for a free slot without a bound when the peer
  has stopped reading (`frame_io_ws.rs` 585).

Configuration:

- The server may save a file it would refuse on restart (`manager.rs` 269), and
  a section patch racing a user change can drop it (`handlers.rs` 853): the
  control part of the runs serves one request at a time.
- Two creates of one uplink name in two groups are both staged (`mutate.rs` 60).
- TUN flows without routes keep the default group's manager of the start
  (`routing.rs` 81); a watched file that changes between its seed and its watch
  is seen at its next change only.

TUN:

- A FIN may go upstream before payload that was queued with it (`pump.rs` 234).
- A zero-window probe that the client accepts is answered with a number above
  `server_seq`, which is challenged, so a flow whose window update was lost may
  wait for the next one.
- Every commit that moves a deadline earlier leaves the superseded heap entry
  behind, so the heap is not bounded by the number of flows.
- The reassembly queue can exceed its cap by the second half of a split
  segment; the ACK of a FIN is compared without wrap-around.
- A flow re-routed by SNI leaves a stale record in the carrier index; a drop
  verdict is stamped with the routing version read after its await, so one
  decided before a reload may outlive it.
- While a UDP flow that failed over waits for the lock to bind its new carrier,
  the reader of the old one may fail and close the flow (`lifecycle.rs` 527).
- The client's resolver caches an empty answer and does not share lookups.

## 7. Not modelled

Cryptography, codecs and wire layouts; HTTP, TLS and QUIC framing and connection
set-up (a carrier is a pair of queues); configuration parsing, metrics, the UI
and process start; sticky routes of the non-strict scopes; ICMP replies, packet
building and checksums; token-bucket pacing.  The components with status
`partly` in `PROJECT.json` say what is missing from each.

`PROJECT.json` also lists the hazards of the code, each with the property that
would catch it going wrong.
