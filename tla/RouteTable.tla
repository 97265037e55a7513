----------------------------- MODULE RouteTable -----------------------------
(***************************************************************************)
(* Policy routing of the client: the compiled table and its file watchers  *)
(* (crates/outline-routing), the per-association cache of decisions        *)
(* (proxy/udp/routing.rs), and the dispatch of a new flow to a group's     *)
(* manager by the SOCKS listener (proxy/dispatcher.rs) and by the TUN      *)
(* engine (outline-tun/src/routing.rs), all racing POST /control/apply.    *)
(*                                                                         *)
(* An address has Bits bits.  A rule holds prefixes given inline and those *)
(* of one watched file.  Tables and registry generations are numbered by   *)
(* the apply that created them; generation 0 is the one built at startup.  *)
(***************************************************************************)
EXTENDS Naturals, Integers, Sequences, FiniteSets, SequencesExt

CONSTANTS
  Bits,        \* width of an address
  Configs,     \* per apply (0 = startup): [inline, invert, target, fallback, groups, bypass]
  Contents,    \* what the watched file may hold: sequences of prefixes
  Modes,       \* [routed, kind]: with or without [[route]]; "socks" or "tun" flows
  Flows,       \* new flows to dispatch
  Address,     \* the destination of the flows and of the cached packets
  MaxWrites,   \* bound: changes of the file
  MaxDowns,    \* bound: changes of group health
  QuietSwap,   \* no watcher is reloading when its table is swapped out
  QuietSeed    \* the file does not change between compile and the watcher's first look

VARIABLES
  mode,      \* the process: one member of Modes
  file,      \* the watched file: [content, mtime]; content <<"gone">> when unreadable
  tables,    \* the compiled tables, by generation
  cur,       \* the generation of the table in SharedRoutingTable
  watch,     \* per table, its watcher task: [pc, seen, next]
  cache,     \* the association's cache entry: [decision, version]
  look,      \* a packet being resolved: [pc, table, version]
  gen,       \* the registry generation in the ArcSwap
  job,       \* POST /control/apply: [pc, table]
  down,      \* groups without a healthy uplink
  flow,      \* per flow: [pc, born, decision, route]
  writes, downs

vars == <<mode, file, tables, cur, watch, cache, look, gen, job, down, flow, writes, downs>>

Addresses == 0 .. 2^Bits - 1
MaxAddr == 2^Bits - 1
Gone == <<"gone">>

-----------------------------------------------------------------------------
(* CidrSet: prefixes become ranges, sorted and merged. *)

(* start = addr & mask, end = start | !mask; length 0 is the whole space. *)
cidr_to_range(p) ==
  IF p.len = 0 THEN <<0, MaxAddr>>
  ELSE LET size == 2^(Bits - p.len)
           start == p.addr - (p.addr % size)
       IN <<start, start + size - 1>>

saturating_succ(x) == IF x = MaxAddr THEN MaxAddr ELSE x + 1

(* One step of merge_v4 / merge_v6 over the ranges sorted by start. *)
MergeRange(out, r) ==
  IF out # <<>> /\ r[1] <= saturating_succ(Last(out)[2])
  THEN IF r[2] > Last(out)[2] THEN Front(out) \o << <<Last(out)[1], r[2]>> >> ELSE out
  ELSE Append(out, r)

(* sort_unstable_by_key on the start of the range. *)
SortedByStart(ranges) ==
  LET Ins(out, r) == SelectSeq(out, LAMBDA q : q[1] <= r[1]) \o <<r>>
                     \o SelectSeq(out, LAMBDA q : q[1] > r[1])
      upTo[n \in 0 .. Len(ranges)] == IF n = 0 THEN <<>> ELSE Ins(upTo[n - 1], ranges[n])
  IN upTo[Len(ranges)]

parse(prefixes) ==
  LET ranges == SortedByStart([i \in DOMAIN prefixes |-> cidr_to_range(prefixes[i])])
      merged[n \in 0 .. Len(ranges)] ==
        IF n = 0 THEN <<>> ELSE MergeRange(merged[n - 1], ranges[n])
  IN merged[Len(ranges)]

(* partition_point: the ranges that start at or below the address come first. *)
contains(ranges, ip) ==
  LET i == Cardinality({k \in DOMAIN ranges : ranges[k][1] <= ip})
  IN i > 0 /\ ip <= ranges[i][2]

-----------------------------------------------------------------------------
(* The table of a configuration: one file-backed rule and the default.     *)

Config(g) == Configs[g + 1]

(* build_cidr_set, and the refusal of an inverted empty set. *)
compile(g, content) ==
  IF content = Gone THEN {}
  ELSE LET set == parse(Config(g).inline \o content)
       IN IF Config(g).invert /\ set = <<>> THEN {} ELSE {set}

(* A watcher re-reads the inline entries and every file of its rule. *)
reload_rule_sets(g) == compile(g, file.content)

match_ip_rules(g, set, ip) ==
  LET inSet == contains(set, ip) IN IF Config(g).invert THEN ~inSet ELSE inSet

(* What a table decides: which rule of which table, that is its targets. *)
Decide(g, set, ip) ==
  IF match_ip_rules(g, set, ip)
  THEN [table |-> g, primary |-> Config(g).target, fallback |-> Config(g).fallback]
  ELSE [table |-> g, primary |-> "direct", fallback |-> "none"]

None == [table |-> 0, primary |-> "none", fallback |-> "none"]
NoLook == [pc |-> "idle", table |-> 0, version |-> 0]
NoTable == [set |-> <<>>, version |-> 0]
Unwatched == [pc |-> "none", seen |-> 0, next |-> <<>>]
LastGen == Len(Configs) - 1

Init ==
  /\ mode \in Modes
  /\ file \in {[content |-> c, mtime |-> 0] : c \in {d \in Contents : compile(0, d) # {}}}
  /\ tables = [g \in 0 .. LastGen |->
                 IF g = 0 THEN [set |-> parse(Config(0).inline \o file.content), version |-> 0]
                 ELSE NoTable]
  /\ cur = 0
  /\ watch = [g \in 0 .. LastGen |->
                IF g = 0 /\ mode.routed THEN [Unwatched EXCEPT !.pc = "seed"] ELSE Unwatched]
  /\ cache = [decision |-> None, version |-> 0]
  /\ look = NoLook
  /\ gen = 0
  /\ job = [pc |-> "idle", table |-> <<>>]
  /\ down = {}
  /\ flow = [f \in Flows |-> [pc |-> "new", born |-> 0, decision |-> None,
                              route |-> [to |-> "none", gen |-> 0]]]
  /\ writes = 0 /\ downs = 0

-----------------------------------------------------------------------------
(* The watched file is rewritten, removed or restored. *)
WriteFile ==
  /\ writes < MaxWrites
  /\ QuietSeed => /\ job.pc # "compiled"
                  /\ \A g \in DOMAIN watch : watch[g].pc # "seed"
  /\ \E c \in (Contents \cup {Gone}) \ {file.content} :
       file' = [content |-> c, mtime |-> file.mtime + 1]
  /\ writes' = writes + 1
  /\ UNCHANGED <<mode, tables, cur, watch, cache, look, gen, job, down, flow, downs>>

(* The watcher task starts: it notes the file's mtime as it is now. *)
WatcherSeeds(g) ==
  /\ watch[g].pc = "seed"
  /\ watch' = [watch EXCEPT ![g].pc = "poll", ![g].seen = file.mtime]
  /\ UNCHANGED <<mode, file, tables, cur, cache, look, gen, job, down, flow, writes, downs>>

(* A poll that finds a new mtime notes it and reloads; a reload that fails, *)
(* or would leave an inverted rule empty, keeps the old sets.               *)
WatcherReloads(g) ==
  /\ watch[g].pc = "poll" /\ watch[g].seen # file.mtime
  /\ QuietSwap => g >= cur
  /\ LET set == reload_rule_sets(g)
     IN watch' = [watch EXCEPT ![g] =
          IF set = {} THEN [@ EXCEPT !.seen = file.mtime]
          ELSE [pc |-> "store", seen |-> file.mtime, next |-> CHOOSE s \in set : TRUE]]
  /\ UNCHANGED <<mode, file, tables, cur, cache, look, gen, job, down, flow, writes, downs>>

(* The new sets are stored first ... *)
WatcherStores(g) ==
  /\ watch[g].pc = "store"
  /\ tables' = [tables EXCEPT ![g].set = watch[g].next]
  /\ watch' = [watch EXCEPT ![g].pc = "bump", ![g].next = <<>>]
  /\ UNCHANGED <<mode, file, cur, cache, look, gen, job, down, flow, writes, downs>>

(* ... and the version is bumped after. *)
WatcherBumps(g) ==
  /\ watch[g].pc = "bump"
  /\ tables' = [tables EXCEPT ![g].version = @ + 1]
  /\ watch' = [watch EXCEPT ![g].pc = "poll"]
  /\ UNCHANGED <<mode, file, cur, cache, look, gen, job, down, flow, writes, downs>>

(* The dropped guard's shutdown signal, seen at the task's next poll. *)
WatcherStops(g) ==
  /\ g < cur /\ watch[g].pc = "poll"
  /\ watch' = [watch EXCEPT ![g] = Unwatched]
  /\ UNCHANGED <<mode, file, tables, cur, cache, look, gen, job, down, flow, writes, downs>>

-----------------------------------------------------------------------------
(* POST /control/apply.  The new registry is swapped in first. *)
ApplyGroups ==
  /\ job.pc = "idle" /\ gen < LastGen
  /\ gen' = gen + 1
  /\ job' = [job EXCEPT !.pc = IF mode.routed THEN "groups" ELSE "idle"]
  /\ UNCHANGED <<mode, file, tables, cur, watch, cache, look, down, flow, writes, downs>>

(* rebuild_routing compiles: it reads the rule files. *)
ApplyCompiles ==
  /\ job.pc = "groups"
  /\ LET set == compile(gen, file.content)
     IN job' = IF set = {} THEN [job EXCEPT !.pc = "idle"]
               ELSE [pc |-> "compiled", table |-> CHOOSE s \in set : TRUE]
  /\ UNCHANGED <<mode, file, tables, cur, watch, cache, look, gen, down, flow, writes, downs>>

(* swap_preserving_version: one more than the version of the table replaced. *)
NextVersion == tables[cur].version + 1

(* The old watchers are told to stop, the table is swapped, new watchers    *)
(* are spawned.                                                             *)
ApplySwaps ==
  /\ job.pc = "compiled"
  /\ QuietSwap => watch[cur].pc \notin {"store", "bump"}
  /\ tables' = [tables EXCEPT ![gen] = [set |-> job.table, version |-> NextVersion]]
  /\ cur' = gen
  /\ watch' = [watch EXCEPT ![gen] = [Unwatched EXCEPT !.pc = "seed"]]
  /\ job' = [pc |-> "idle", table |-> <<>>]
  /\ UNCHANGED <<mode, file, cache, look, gen, down, flow, writes, downs>>

-----------------------------------------------------------------------------
(* A UDP packet of an association: the cached decision is used while its    *)
(* version is the table's, otherwise it is resolved again.                  *)
PacketMisses ==
  /\ mode.routed /\ look.pc = "idle"
  /\ cache.decision = None \/ cache.version # tables[cur].version
  /\ look' = [pc |-> "load", table |-> cur, version |-> 0]
  /\ UNCHANGED <<mode, file, tables, cur, watch, cache, gen, job, down, flow, writes, downs>>

(* resolve_versioned on the loaded table: its version before any set is read. *)
PacketReadsVersion ==
  /\ look.pc = "load"
  /\ look' = [look EXCEPT !.pc = "read", !.version = tables[look.table].version]
  /\ UNCHANGED <<mode, file, tables, cur, watch, cache, gen, job, down, flow, writes, downs>>

(* The version was read before the sets were. *)
Tag(t, v) == v

PacketResolves ==
  /\ look.pc = "read"
  /\ look' = [look EXCEPT !.pc = "put"]
  /\ cache' = [cache EXCEPT !.decision = Decide(look.table, tables[look.table].set, Address),
                            !.version = 0 - 1]
  /\ UNCHANGED <<mode, file, tables, cur, watch, gen, job, down, flow, writes, downs>>

PacketCaches ==
  /\ look.pc = "put"
  /\ look' = NoLook
  /\ cache' = [cache EXCEPT !.version = Tag(look.table, look.version)]
  /\ UNCHANGED <<mode, file, tables, cur, watch, gen, job, down, flow, writes, downs>>

-----------------------------------------------------------------------------
(* Dispatch of a new flow. *)

HealthMoves ==
  /\ downs < MaxDowns
  /\ downs' = downs + 1
  /\ \E g \in Config(gen).groups :
       down' = IF g \in down THEN down \ {g} ELSE down \cup {g}
  /\ UNCHANGED <<mode, file, tables, cur, watch, cache, look, gen, job, flow, writes>>

Names(g) == Config(g).groups
default_group_name(g) == Config(g).first
bypasses(g, name) == name \in Config(g).bypass /\ name \in down

(* resolve_dispatch / resolve_sni: the table decides; without a table the   *)
(* flow goes to the default group.                                          *)
Decides(f) ==
  /\ flow[f].pc = "new"
  /\ flow' = [flow EXCEPT ![f].pc = "decided", ![f].born = gen,
       ![f].decision = IF mode.routed THEN Decide(cur, tables[cur].set, Address) ELSE None]
  /\ UNCHANGED <<mode, file, tables, cur, watch, cache, look, gen, job, down, writes, downs>>

(* bypass_substituted_group: a substitute that is down and bypasses is Direct. *)
bypass_substituted_group(name) ==
  IF name \in Names(gen) /\ bypasses(gen, name) THEN "direct" ELSE name

(* apply_fallback_strategy: the target after looking at the group's health.  *)
apply_fallback_strategy(d) ==
  IF d.primary \in {"direct", "drop"} THEN d.primary
  ELSE IF d.primary \notin Names(gen)
       THEN bypass_substituted_group(IF d.fallback # "none" THEN d.fallback
                                     ELSE default_group_name(gen))
       ELSE IF (d.fallback # "none" \/ d.primary \in Config(gen).bypass) /\ d.primary \in down
            THEN IF d.fallback # "none" THEN bypass_substituted_group(d.fallback) ELSE "direct"
            ELSE d.primary

(* TunRouting::materialize_target: as above, except that an unknown group   *)
(* without a fallback drops the flow, and a fallback has no fallback.       *)
tun_target(d) ==
  LET Second(t) == IF t \in {"direct", "drop"} THEN t
                   ELSE IF t \notin Names(gen) THEN "drop"
                   ELSE IF bypasses(gen, t) THEN "direct" ELSE t
  IN IF d.primary \in {"direct", "drop"} THEN d.primary
     ELSE IF d.primary \notin Names(gen)
          THEN IF d.fallback # "none" THEN Second(d.fallback) ELSE "drop"
          ELSE IF (d.fallback # "none" \/ d.primary \in Config(gen).bypass) /\ d.primary \in down
               THEN IF d.fallback # "none" THEN Second(d.fallback) ELSE "direct"
               ELSE d.primary

(* SOCKS: the strategy picks a target, then the registry is loaded again    *)
(* for the manager; a name that is gone by then falls to the default group. *)
SocksChooses(f) ==
  /\ mode.kind = "socks" /\ flow[f].pc = "decided"
  /\ flow' = [flow EXCEPT ![f].pc = "chosen",
       ![f].route.to = IF mode.routed THEN apply_fallback_strategy(flow[f].decision)
                       ELSE bypass_substituted_group(default_group_name(gen))]
  /\ UNCHANGED <<mode, file, tables, cur, watch, cache, look, gen, job, down, writes, downs>>

(* registry.group_by_name / default_group: of the registry as it is now. *)
LiveManager == gen

SocksDispatches(f) ==
  /\ flow[f].pc = "chosen"
  /\ flow' = [flow EXCEPT ![f].pc = "done", ![f].route.gen = LiveManager]
  /\ UNCHANGED <<mode, file, tables, cur, watch, cache, look, gen, job, down, writes, downs>>

(* TunRouting holds the default group's manager it was built with. *)
TunDefaultManager == 0

(* TUN: with a table the registry is loaded once, name and manager together. *)
TunDispatches(f) ==
  /\ mode.kind = "tun" /\ flow[f].pc = "decided"
  /\ LET to == IF mode.routed THEN tun_target(flow[f].decision)
               ELSE IF bypasses(TunDefaultManager, default_group_name(TunDefaultManager))
                    THEN "direct" ELSE default_group_name(gen)
     IN flow' = [flow EXCEPT ![f].pc = "done",
          ![f].route = [to |-> to, gen |-> IF mode.routed THEN LiveManager ELSE TunDefaultManager]]
  /\ UNCHANGED <<mode, file, tables, cur, watch, cache, look, gen, job, down, writes, downs>>

Watcher(g) ==
  WatcherSeeds(g) \/ WatcherReloads(g) \/ WatcherStores(g) \/ WatcherBumps(g) \/ WatcherStops(g)

Next ==
  \/ WriteFile \/ HealthMoves
  \/ \E g \in 0 .. LastGen : Watcher(g)
  \/ ApplyGroups \/ ApplyCompiles \/ ApplySwaps
  \/ PacketMisses \/ PacketReadsVersion \/ PacketResolves \/ PacketCaches
  \/ \E f \in Flows : Decides(f) \/ SocksChooses(f) \/ SocksDispatches(f) \/ TunDispatches(f)

Spec == Init /\ [][Next]_vars

Busy(g) ==
  \/ watch[g].pc \in {"seed", "store", "bump"}
  \/ watch[g].pc = "poll" /\ (watch[g].seen # file.mtime \/ g < cur)

(* A watcher task keeps polling (weak fairness of the watchers' steps, with *)
(* their enabledness written out).                                          *)
FairSpec ==
  /\ Spec
  /\ \A g \in 0 .. LastGen : ([]<>~Busy(g)) \/ ([]<><<Watcher(g)>>_vars)

-----------------------------------------------------------------------------
(* Matching is exact: an address is in the merged, binary-searched ranges   *)
(* exactly when some prefix of the configured list covers it, at both ends  *)
(* of the address space and for adjacent, nested and repeated prefixes.     *)
MatchExact ==
  file.content # Gone =>
    LET prefixes == Config(cur).inline \o file.content
        ranges == parse(prefixes)
        Covers(p, ip) == p.len = 0 \/ ip \div 2^(Bits - p.len) = p.addr \div 2^(Bits - p.len)
    IN \A ip \in Addresses :
         contains(ranges, ip) <=> \E i \in DOMAIN prefixes : Covers(prefixes[i], ip)

(* A cached decision that still passes for current is the decision the live *)
(* table takes: no reload and no hot-apply, whatever it interleaves with,   *)
(* leaves an association on an older rule set for good.  (Between a store   *)
(* and its bump the old decision is still in use.)                          *)
CacheFresh ==
  (cache.decision # None /\ look.pc = "idle" /\ cache.version = tables[cur].version
     /\ watch[cur].pc # "bump")
  => cache.decision = Decide(cur, tables[cur].set, Address)

(* A flow that starts after an apply has finished runs on a manager of the  *)
(* registry that apply installed, never on one it shut down.                *)
NewFlowsUseLive ==
  \A f \in Flows : flow[f].pc = "done" => flow[f].route.gen >= flow[f].born
=============================================================================
