--------------------------- MODULE ClientControl ---------------------------
(***************************************************************************)
(* The client's control API (bins/outline-ws-rust/src/http/control): the   *)
(* handlers that stage edits of the configuration file (uplink groups,     *)
(* uplinks, routes, the remaining sections), and POST /control/apply,      *)
(* which loads that file, swaps the uplink registry and then the routing   *)
(* table.                                                                  *)
(*                                                                         *)
(* Every mutating handler takes config_write_lock, reads the file, edits   *)
(* the parsed document and writes it back by an atomic rename.  What a     *)
(* handler checks BEFORE it takes the lock is a step of its own.  Apply    *)
(* has a lock of its own and never takes the write lock.                   *)
(*                                                                         *)
(* The file is a record: the groups and uplinks in file order, the route   *)
(* rules in match order, and for every other section the class of value    *)
(* it holds ("ok", or "bad" when the loader refuses it).                   *)
(***************************************************************************)
EXTENDS Naturals, Sequences, FiniteSets, SequencesExt

CONSTANTS
  Requests,      \* mutating requests in flight
  Ops,           \* the operations a request may carry
  Booted,        \* the configuration file the process started from
  MaxGroups,     \* MAX_UPLINK_GROUPS
  MaxOps,        \* bound: requests made
  CompileFails   \* whether a prefix file may be unreadable when it is compiled

VARIABLES
  disk,      \* the configuration file
  live,      \* the registry: the groups with their uplinks
  table,     \* the live routing table
  lock,      \* holder of config_write_lock, or "free"
  req,       \* per request: [pc, op, doc, seen]
  view,      \* the route list a client last fetched (its revision)
  apply,     \* POST /control/apply: [pc, cfg]
  ops        \* requests made so far

vars == <<disk, live, table, lock, req, view, apply, ops>>

Idle == [pc |-> "idle", op |-> [kind |-> "none"], doc |-> Booted, seen |-> <<>>]

GroupNames(d) == [i \in DOMAIN d.groups |-> d.groups[i].name]

(* position(|t| t.name == name): the index of the first such entry, 0 if none. *)
find_group_index(d, g) == SelectInSeq(d.groups, LAMBDA t : t.name = g)

find_outline_uplink_index(d, g, n) ==
  SelectInSeq(d.uplinks, LAMBDA t : t.group = g /\ t.name = n)

count_uplinks_for_group(d, g) ==
  Cardinality({i \in DOMAIN d.uplinks : d.uplinks[i].group = g})

(* Vec::remove(from) followed by Vec::insert(to). *)
MoveTo(s, from, to) == InsertAt(RemoveAt(s, from), to, s[from])

-----------------------------------------------------------------------------
(* The edits.  Each takes the parsed document and the operation and yields  *)
(* the set holding the edited document, or the empty set when it refuses.   *)

Set(d, f, v) == {[d EXCEPT ![f] = v]}

group_apply_create(d, o) ==
  IF \/ o.policy = "bad"
     \/ find_group_index(d, o.group) # 0
     \/ Len(d.groups) >= MaxGroups
  THEN {}
  ELSE Set(d, "groups", Append(d.groups, [name |-> o.group, policy |-> o.policy]))

group_apply_update(d, o) ==
  LET i == find_group_index(d, o.group)
  IN IF i = 0 \/ o.policy = "bad" THEN {}
     ELSE Set(d, "groups", [d.groups EXCEPT ![i].policy = o.policy])

group_apply_delete(d, o) ==
  LET i == find_group_index(d, o.group)
  IN IF i = 0 \/ count_uplinks_for_group(d, o.group) > 0 THEN {}
     ELSE Set(d, "groups", RemoveAt(d.groups, i))

group_apply_reorder(d, o) ==
  LET i == find_group_index(d, o.group)
  IN IF i = 0 \/ o.to > Len(d.groups) THEN {}
     ELSE Set(d, "groups", MoveTo(d.groups, i, o.to))

uplink_create(d, o) ==
  IF \/ find_group_index(d, o.group) = 0
     \/ find_outline_uplink_index(d, o.group, o.name) # 0
  THEN {}
  ELSE Set(d, "uplinks", Append(d.uplinks, [name |-> o.name, group |-> o.group, weight |-> 1]))

uplink_update(d, o) ==
  LET i == find_outline_uplink_index(d, o.group, o.name)
  IN IF find_group_index(d, o.group) = 0 \/ i = 0 THEN {}
     ELSE Set(d, "uplinks", [d.uplinks EXCEPT ![i].weight = o.weight])

uplink_delete(d, o) ==
  LET i == find_outline_uplink_index(d, o.group, o.name)
  IN IF \/ find_group_index(d, o.group) = 0 \/ i = 0
        \/ count_uplinks_for_group(d, o.group) <= 1
     THEN {}
     ELSE Set(d, "uplinks", RemoveAt(d.uplinks, i))

(* Only the group's own slots are permuted; the entries of the other groups *)
(* keep theirs.                                                             *)
uplink_apply_reorder(d, o) ==
  LET slots == SelectSeq([i \in DOMAIN d.uplinks |-> i],
                         LAMBDA i : d.uplinks[i].group = o.group)
      src   == find_outline_uplink_index(d, o.group, o.name)
  IN IF find_group_index(d, o.group) = 0 \/ src = 0 \/ o.to > Len(slots) THEN {}
     ELSE LET from  == SelectInSeq(slots, LAMBDA i : i = src)
              moved == MoveTo(slots, from, o.to)
              At(i) == SelectInSeq(slots, LAMBDA j : j = i)
          IN Set(d, "uplinks",
                 [i \in DOMAIN d.uplinks |->
                    IF At(i) = 0 THEN d.uplinks[i] ELSE d.uplinks[moved[At(i)]]])

default_index(rs) == SelectInSeq(rs, LAMBDA r : r.dflt)

(* Without an index a new rule goes before the default one. *)
route_apply_create(d, o) ==
  LET n   == Len(d.routes)
      pos == IF o.at # 0 THEN o.at
             ELSE IF default_index(d.routes) = 0 THEN n + 1 ELSE default_index(d.routes)
  IN IF o.at > n + 1 THEN {} ELSE Set(d, "routes", InsertAt(d.routes, pos, o.rule))

route_apply_update(d, o) ==
  IF \/ o.index > Len(d.routes)
     \/ d.routes[o.index].dflt /\ ~o.rule.dflt
  THEN {}
  ELSE Set(d, "routes", [d.routes EXCEPT ![o.index] = o.rule])

route_apply_delete(d, o) ==
  IF o.index > Len(d.routes) \/ d.routes[o.index].dflt THEN {}
  ELSE Set(d, "routes", RemoveAt(d.routes, o.index))

route_apply_reorder(d, o) ==
  IF o.from > Len(d.routes) \/ o.to > Len(d.routes) THEN {}
  ELSE Set(d, "routes", MoveTo(d.routes, o.from, o.to))

-----------------------------------------------------------------------------
(* Loading the file.                                                        *)

(* load_routing_config: every target names a declared group (or direct /    *)
(* drop), and exactly one rule is the default.                              *)
load_routing_config(rs, names) ==
  /\ rs # <<>>
  /\ \A i \in DOMAIN rs : rs[i].via \in names \cup {"direct", "drop"}
  /\ Cardinality({i \in DOMAIN rs : rs[i].dflt}) = 1

load_groups(d) ==
  LET names == GroupNames(d)
  IN /\ Len(names) <= MaxGroups /\ names # <<>> /\ d.uplinks # <<>>
     /\ IsInjective(names)
     /\ \A i \in DOMAIN d.uplinks : d.uplinks[i].group \in ToSet(names)
     /\ \A i \in DOMAIN names : count_uplinks_for_group(d, names[i]) > 0

load_config(d) ==
  /\ load_groups(d)
  /\ load_routing_config(d.routes, ToSet(GroupNames(d)))
  /\ \A s \in DOMAIN d.sections : d.sections[s] = "ok"

validate_uplink_names(d) == IsInjective([i \in DOMAIN d.uplinks |-> d.uplinks[i].name])

(* The registry built from a configuration: per group its uplinks, in order. *)
build_state(d) ==
  [g \in ToSet(GroupNames(d)) |-> SelectSeq(d.uplinks, LAMBDA u : u.group = g)]

-----------------------------------------------------------------------------
Init ==
  /\ disk = Booted
  /\ live = build_state(Booted)
  /\ table = Booted.routes
  /\ lock = "free"
  /\ req = [r \in Requests |-> Idle]
  /\ view = Booted.routes
  /\ apply = [pc |-> "idle", cfg |-> Booted]
  /\ ops = 0

LiveNames == UNION {{live[g][i].name : i \in DOMAIN live[g]} : g \in DOMAIN live}

(* The create handler of an uplink compares the name with the names in the  *)
(* live registry, before it takes the lock.                                 *)
NameIsFree(o) == o.kind = "uplink_create" => o.name \notin LiveNames

(* handle_patch_config checks the values it can check before the lock; the  *)
(* rest reaches the file.                                                   *)
PatchAccepted(o) == o.kind = "patch" => o.value # "refused"

(* A request arrives, and passes what its handler checks without the lock.  *)
Accept(r, o) ==
  /\ req[r].pc = "idle" /\ ops < MaxOps
  /\ ops' = ops + 1
  /\ req' = IF NameIsFree(o) /\ PatchAccepted(o)
            THEN [req EXCEPT ![r] = [pc |-> "wait", op |-> o, doc |-> disk, seen |-> view]]
            ELSE req
  /\ UNCHANGED <<disk, live, table, lock, view, apply>>

(* Mutant: the handler does not wait for the lock. *)
AcquireAnyway(r) ==
  /\ req[r].pc = "wait"
  /\ lock' = r
  /\ req' = [req EXCEPT ![r].pc = "edit", ![r].doc = disk]
  /\ UNCHANGED <<disk, live, table, view, apply, ops>>

(* config_write_lock.lock().await, then the file is read and parsed. *)
AcquireAndRead(r) ==
  /\ req[r].pc = "wait" /\ lock = "free"
  /\ lock' = r
  /\ req' = [req EXCEPT ![r].pc = "edit", ![r].doc = disk]
  /\ UNCHANGED <<disk, live, table, view, apply, ops>>

RouteKinds == {"route_create", "route_update", "route_delete", "route_reorder"}

(* The revision is a hash of the route array: it matches exactly when the   *)
(* array is the one the client fetched.                                     *)
RevisionMatches(r) == req[r].doc.routes = req[r].seen

(* Whole-list validation of the edited rules against the document's groups. *)
validate_route_array(d) ==
  IF load_routing_config(d.routes, ToSet(GroupNames(d))) THEN {d} ELSE {}

RouteEdit(d, o) ==
  CASE o.kind = "route_create"  -> route_apply_create(d, o)
    [] o.kind = "route_update"  -> route_apply_update(d, o)
    [] o.kind = "route_delete"  -> route_apply_delete(d, o)
    [] o.kind = "route_reorder" -> route_apply_reorder(d, o)

apply_section_patch(d, o) == {[d EXCEPT !.sections[o.section] = o.value]}

Edit(d, o) ==
  CASE o.kind = "group_create"   -> group_apply_create(d, o)
    [] o.kind = "group_update"   -> group_apply_update(d, o)
    [] o.kind = "group_delete"   -> group_apply_delete(d, o)
    [] o.kind = "group_reorder"  -> group_apply_reorder(d, o)
    [] o.kind = "uplink_create"  -> uplink_create(d, o)
    [] o.kind = "uplink_update"  -> uplink_update(d, o)
    [] o.kind = "uplink_delete"  -> uplink_delete(d, o)
    [] o.kind = "uplink_reorder" -> uplink_apply_reorder(d, o)
    [] o.kind = "patch"          -> apply_section_patch(d, o)

Finish(r) ==
  /\ lock' = IF lock = r THEN "free" ELSE lock
  /\ req' = [req EXCEPT ![r] = Idle]
  /\ UNCHANGED <<live, table, view, apply, ops>>

(* mutate() of the route endpoints: revision, edit, validation, write. *)
MutateRoutes(r) ==
  /\ req[r].pc = "edit" /\ req[r].op.kind \in RouteKinds
  /\ LET edited == IF RevisionMatches(r) THEN RouteEdit(req[r].doc, req[r].op) ELSE {}
         staged == UNION {validate_route_array(d) : d \in edited}
     IN disk' \in IF staged = {} THEN {disk} ELSE staged
  /\ Finish(r)

(* The group, uplink and section handlers: edit, write. *)
MutateNamed(r) ==
  /\ req[r].pc = "edit" /\ req[r].op.kind \notin RouteKinds
  /\ LET edited == Edit(req[r].doc, req[r].op)
     IN disk' \in IF edited = {} THEN {disk} ELSE edited
  /\ Finish(r)

(* Reading the file or writing the new one fails: the file stays as it was. *)
MutateFails(r) ==
  /\ req[r].pc = "edit"
  /\ disk' = disk
  /\ Finish(r)

(* GET /control/routes: the list and its revision, read without the lock. *)
ListRoutes ==
  /\ view # disk.routes
  /\ view' = disk.routes
  /\ UNCHANGED <<disk, live, table, lock, req, apply, ops>>

(* POST /control/apply under its own lock: the file is loaded and checked. *)
ApplyLoads ==
  /\ apply.pc = "idle" /\ disk # apply.cfg
  /\ apply' = IF load_config(disk) THEN [pc |-> "loaded", cfg |-> disk]
              ELSE [apply EXCEPT !.pc = "idle"]
  /\ UNCHANGED <<disk, live, table, lock, req, view, ops>>

(* apply_new_groups: the registry is built first (a duplicate uplink name   *)
(* stops it there), then swapped in as a whole.                             *)
apply_new_groups ==
  /\ apply.pc = "loaded"
  /\ IF validate_uplink_names(apply.cfg)
     THEN /\ live' = build_state(apply.cfg)
          /\ apply' = [apply EXCEPT !.pc = "swapped"]
     ELSE /\ apply' = [apply EXCEPT !.pc = "idle"]
          /\ live' = live
  /\ UNCHANGED <<disk, table, lock, req, view, ops>>

(* rebuild_routing: compile, stop the old watchers, swap the table. *)
rebuild_routing ==
  /\ apply.pc = "swapped"
  /\ table' = apply.cfg.routes
  /\ apply' = [apply EXCEPT !.pc = "idle"]
  /\ UNCHANGED <<disk, live, lock, req, view, ops>>

(* A prefix file cannot be read: the handler answers 500 and stops here. *)
RebuildFails ==
  /\ CompileFails /\ apply.pc = "swapped"
  /\ apply' = [apply EXCEPT !.pc = "idle"]
  /\ UNCHANGED <<disk, live, table, lock, req, view, ops>>

Next ==
  \/ \E r \in Requests :
       \/ \E o \in Ops : Accept(r, o)
       \/ AcquireAndRead(r) \/ MutateRoutes(r) \/ MutateNamed(r) \/ MutateFails(r)
  \/ ListRoutes \/ ApplyLoads \/ apply_new_groups \/ rebuild_routing \/ RebuildFails

Spec == Init /\ [][Next]_vars

-----------------------------------------------------------------------------
(* No edit is lost: whoever is about to write the file edits the document   *)
(* that is on disk, so no other handler's write came in between.            *)
WriterSeesDisk == \A r \in Requests : req[r].pc = "edit" => req[r].doc = disk

(* A route edit addresses its rule by index, so it may only land on the     *)
(* list its client fetched: whatever the other handlers and other clients   *)
(* did in between, the rule at the index is the rule the client saw.        *)
HitsSeenRule ==
  \A r \in Requests :
    (req[r].pc = "edit" /\ req[r].op.kind \in RouteKinds /\ disk' # disk
      /\ req'[r].pc = "idle")
    => disk.routes = req[r].seen
EditHitsSeenRule == [][HitsSeenRule]_vars

(* Between two applies every live rule names a group of the live registry:  *)
(* the registry and the table were taken from one loaded file, never from   *)
(* two, however many edits were staged while the apply ran.                 *)
LiveRoutesResolve ==
  apply.pc = "idle" =>
    \A i \in DOMAIN table : table[i].via \in DOMAIN live \cup {"direct", "drop"}

=============================================================================
