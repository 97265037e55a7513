--------------------------- MODULE ServerControl ---------------------------
(***************************************************************************)
(* The server's control plane: the user manager, the config-file patches   *)
(* behind it, and the loader a restart runs on the file they leave.        *)
(*                                                                         *)
(* A user mutation holds the manager's mutex, rebuilds the snapshots,      *)
(* writes the one changed user to the file in a blocking task, and only    *)
(* then publishes.  PATCH /control/config writes the same file without     *)
(* that mutex.  The file is replaced through one fixed temp name.  A       *)
(* client may hang up while the blocking task runs: the handler is         *)
(* dropped, the task is not.                                               *)
(***************************************************************************)
EXTENDS Naturals, FiniteSets, TLC

CONSTANTS
  Requests,     \* concurrent control requests
  Ops,          \* what a request may ask for
  Files,        \* config files the server may have been started from
  Extra,        \* ids an operator may add to the file by hand
  Serial,       \* TRUE: requests reach the file one at a time
  MaxOps,       \* bound on requests served
  MaxFaults     \* bound on write errors, hang-ups, crashes and hand edits

VARIABLES
  disk,         \* the config file: a document, or Torn
  tmp,          \* the temp file: NoTmp, or [doc, by]
  mem,          \* UserManager.inner: the users the runtime holds
  routes,       \* the published route registry: its enabled users
  auth,         \* the published auth slice: its enabled password users
  lock,         \* the holder of the manager's mutex, or Unset
  req,          \* per request: its place and what it computed
  up,           \* is the process running?
  may,          \* history: per id, the values the file may hold
  served, faults

vars == <<disk, tmp, mem, routes, auth, lock, req, up, may, served,
          faults>>

Unset == "none"
Absent == [absent |-> TRUE]
Torn == [torn |-> TRUE]
UserIds == UNION {DOMAIN f.users : f \in Files}
Mask == "********"
NoTmp == [by |-> Unset]
NoOp == [kind |-> Unset]

(***************************************************************************)
(* A user entry is [password, vless, enabled, alias]; the file's user list *)
(* is a function from ids to entries or Absent.                            *)
(***************************************************************************)
Held(users) == {i \in DOMAIN users : users[i] # Absent}
is_enabled(e) == e.enabled
Enabled(users) == {i \in Held(users) : is_enabled(users[i])}

(* Alias names must differ from every id and every other alias. *)
validate_ip_aliases(users, ids) ==
  LET named == {i \in ids : users[i].alias # Unset}
  IN /\ \A i \in named : users[i].alias \notin ids
     /\ \A i, j \in named : users[i].alias = users[j].alias => i = j

validate_new(e) == e.password \/ e.vless # Unset

(* Every enabled password user becomes a key, every enabled VLESS id must  *)
(* parse.  Routes carry the whole enabled set.                             *)
build_ss_user_pool(users) == {i \in Enabled(users) : users[i].password}
build_vless_user_pool(users) == {i \in Enabled(users) : users[i].vless # Unset}
build_route_registry(users) ==
  [i \in build_ss_user_pool(users) \cup build_vless_user_pool(users)
     |-> users[i]]
rebuild_snapshots(users) ==
  /\ validate_ip_aliases(users, Enabled(users))
  /\ \A i \in build_vless_user_pool(users) : users[i].vless # "bad"

(***************************************************************************)
(* Patching the file.                                                      *)
(***************************************************************************)
(* The entry is merged in place, pushed at the end, or removed: no other   *)
(* entry is touched.                                                       *)
patch_user_tables(users, m) == [users EXCEPT ![m.id] = m.value]
patch_inline_users(users, m) == [users EXCEPT ![m.id] = m.value]
patch_toml(doc, m) ==
  [doc EXCEPT !.users = CASE doc.shape = "tables" -> patch_user_tables(@, m)
                          [] doc.shape = "inline" -> patch_inline_users(@, m)]

(* A section patch sets the fields it names; fields are merged with @@. *)
Merged(section, fields) == fields @@ section

PatchCluster(doc, p) ==
  LET kept == IF "psk" \in DOMAIN p /\ p.psk \in {"", Mask}
              THEN [f \in DOMAIN p \ {"psk"} |-> p[f]]
              ELSE p
  IN [doc EXCEPT !.cluster = Merged(@, kept)]

PatchServer(doc, p) == [doc EXCEPT !.server = Merged(@, p)]
PatchResumption(doc, p) == [doc EXCEPT !.resumption = Merged(@, p)]
PatchOutbound(doc, p) == [doc EXCEPT !.outbound = Merged(@, p)]
PatchPadding(doc, p) == [doc EXCEPT !.padding = Merged(@, p)]
PatchHttpFallback(doc, p) == [doc EXCEPT !.fallback = Merged(@, p)]
(* A list of backends drops the single-backend form. *)
PatchSniFallback(doc, p) ==
  [doc EXCEPT !.sni = IF "backends" \in DOMAIN p
                      THEN Merged([Merged(@, p) EXCEPT !.backend = Unset], p)
                      ELSE Merged(@, p)]
PatchProfile(doc, p) == [doc EXCEPT !.profile = p.profile]
(* Only the padded flag of an endpoint whose path matches. *)
PatchEndpoints(doc, p) ==
  [doc EXCEPT !.endpoints =
     [path \in DOMAIN @ |-> IF path \in DOMAIN p THEN p[path] ELSE @[path]]]

patch_toml_config(doc, s, p) ==
  CASE s = "cluster" -> PatchCluster(doc, p)
    [] s = "server" -> PatchServer(doc, p)
    [] s = "resumption" -> PatchResumption(doc, p)
    [] s = "outbound" -> PatchOutbound(doc, p)
    [] s = "padding" -> PatchPadding(doc, p)
    [] s = "fallback" -> PatchHttpFallback(doc, p)
    [] s = "sni" -> PatchSniFallback(doc, p)
    [] s = "profile" -> PatchProfile(doc, p)
    [] s = "endpoints" -> PatchEndpoints(doc, p)

(* The handler's own checks, which look at the request alone. *)
Field(p, f, default) == IF f \in DOMAIN p THEN p[f] ELSE default

PatchProfileOk(p) == p.profile \in {"small", "Small", "medium", "large"}
PatchPaddingOk(p) ==
  ("min" \in DOMAIN p /\ "max" \in DOMAIN p) => p.min <= p.max
PatchFallbackOk(p) == Field(p, "proxy", "") \in {"", "v1", "v2"}
(* Only the last backend may be a catch-all. *)
CatchAllLast(bs) == \A k \in DOMAIN bs : bs[k] = "all" => k = Cardinality(DOMAIN bs)
PatchSniOk(p) ==
  /\ "" \notin Field(p, "match", {})
  /\ CatchAllLast(Field(p, "backends", <<>>))
PatchClusterOk(p) ==
  /\ Field(p, "shard", 0) < 16
  /\ Field(p, "psk", "") # "not base64"
  /\ Field(p, "mesh_listen", "addr") # ""
PatchServerOk(p) == Field(p, "listen", "") \in {"", "addr"}

PatchAccepted(s, p) ==
  CASE s = "profile" -> PatchProfileOk(p)
    [] s = "padding" -> PatchPaddingOk(p)
    [] s = "fallback" -> PatchFallbackOk(p)
    [] s = "sni" -> PatchSniOk(p)
    [] s = "cluster" -> PatchClusterOk(p)
    [] s = "server" -> PatchServerOk(p)
    [] OTHER -> TRUE

(***************************************************************************)
(* What GET /control/config answers, and the patch a form built from it    *)
(* sends back unchanged.                                                   *)
(***************************************************************************)
ClusterView(doc) ==
  [doc.cluster EXCEPT !.psk = IF @ = Unset THEN "" ELSE Mask]

(***************************************************************************)
(* The loader: FileConfig -> Config, refused on the first error.           *)
(***************************************************************************)
resolve_cluster(c) ==
  c.enabled => /\ c.shard < 16
               /\ c.psk \notin {Unset, "", "not base64"}
               /\ c.mesh_listen = "addr"
HttpFallbackLoads(h, server) ==
  h.backend # "" => /\ h.backend = "url"
                    /\ h.timeout > 0
                    /\ h.h1 \/ h.h3
                    /\ ~(h.h3 /\ h.proxy = "v1")
                    /\ h.h1 => server.listen = "addr"
parse_sni_backends(bs) == CatchAllLast(bs)
SniFallbackLoads(s, server) ==
  LET single == s.backend # Unset
      multi == s.backends # <<>>
  IN (single \/ multi) => /\ ~(single /\ multi)
                          /\ s.match \notin {{}}
                          /\ "" \notin s.match
                          /\ parse_sni_backends(s.backends)
                          /\ server.listen = "addr"
                          /\ server.cert
validate_cert_pair(server) == server.cert = server.key
VlessIdsLoad(users) ==
  LET vs == {i \in Held(users) : users[i].vless # Unset}
  IN /\ \A i \in vs : users[i].vless # "bad"
     /\ \A i, j \in vs : users[i].vless = users[j].vless => i = j
OutboundLoads(o) ==
  /\ ~(o.prefix /\ o.interface)
  /\ o.refresh > 0
effective_users(users) ==
  \E i \in Held(users) : users[i].password \/ users[i].vless # Unset
ProfileLoads(p) == p \in {"small", "medium", "large"}

validate(doc) ==
  /\ doc.server.listen = "addr"
  /\ validate_cert_pair(doc.server)
  /\ VlessIdsLoad(doc.users)
  /\ validate_ip_aliases(doc.users, Held(doc.users))
  /\ OutboundLoads(doc.outbound)
  /\ HttpFallbackLoads(doc.fallback, doc.server)
  /\ SniFallbackLoads(doc.sni, doc.server)

Loads(doc) ==
  /\ doc # Torn
  /\ ProfileLoads(doc.profile)
  /\ resolve_cluster(doc.cluster)
  /\ validate(doc)
  /\ effective_users(doc.users)

(***************************************************************************)
(* Requests.                                                               *)
(***************************************************************************)
Idle == [pc |-> "idle", op |-> NoOp, users |-> Unset, doc |-> Unset,
         alone |-> FALSE]
Writing == {"read", "open", "fill", "rename"}

Init ==
  \E f \in Files :
    /\ disk = f /\ tmp = NoTmp
    /\ mem = f.users
    /\ routes = build_route_registry(f.users)
    /\ auth = build_ss_user_pool(f.users)
    /\ lock = Unset /\ up = TRUE
    /\ req = [r \in Requests |-> Idle]
    /\ may = [i \in UserIds |-> {f.users[i]}]
    /\ served = 0 /\ faults = 0

Fault == faults < MaxFaults /\ faults' = faults + 1

FileFree == Serial => \A r \in Requests : req[r].pc \notin Writing

(* The user list a mutation asks for, or {} when it is refused before any  *)
(* snapshot is built.                                                      *)
Created(op) ==
  IF validate_new(op.entry) /\ mem[op.id] = Absent
  THEN {[mem EXCEPT ![op.id] = op.entry]} ELSE {}
Updated(op) ==
  IF mem[op.id] # Absent /\ validate_new(Merged(mem[op.id], op.patch))
  THEN {[mem EXCEPT ![op.id] = Merged(@, op.patch)]} ELSE {}
Deleted(op) ==
  IF mem[op.id] # Absent THEN {[mem EXCEPT ![op.id] = Absent]} ELSE {}
SetEnabled(op) ==
  IF mem[op.id] # Absent
  THEN {[mem EXCEPT ![op.id] = Merged(@, [enabled |-> op.enabled])]} ELSE {}

Candidates(op) ==
  CASE op.kind = "create" -> Created(op)
    [] op.kind = "update" -> Updated(op)
    [] op.kind = "delete" -> Deleted(op)
    [] op.kind = "enable" -> SetEnabled(op)

(* Takes the mutex, checks the request, rebuilds the snapshots: the whole  *)
(* of a mutation up to the blocking write.                                 *)
CommitStarts(r) ==
  /\ up /\ req[r].pc = "idle" /\ served < MaxOps
  /\ lock = Unset /\ FileFree
  /\ \E op \in {o \in Ops : o.kind # "patch"} :
       LET good == {c \in Candidates(op) : rebuild_snapshots(c)}
       IN /\ good # {}
          /\ \E c \in good :
               /\ req' = [req EXCEPT ![r] = [Idle EXCEPT !.pc = "read", !.op = op,
                                                        !.users = c]]
               /\ may' = [may EXCEPT ![op.id] = @ \cup {c[op.id]}]
  /\ lock' = r /\ served' = served + 1
  /\ UNCHANGED <<disk, tmp, mem, routes, auth, up, faults>>

(* PATCH /control/config: checked against the request, no mutex. *)
PatchStarts(r) ==
  /\ up /\ req[r].pc = "idle" /\ served < MaxOps /\ FileFree
  /\ \E op \in {o \in Ops : o.kind = "patch"} :
       /\ PatchAccepted(op.section, op.fields)
       /\ req' = [req EXCEPT ![r] = [Idle EXCEPT !.pc = "read", !.op = op]]
  /\ served' = served + 1
  /\ UNCHANGED <<disk, tmp, mem, routes, auth, lock, up, may, faults>>

(* A form shows the view and saves it back as it was. *)
SaveView(r) ==
  /\ up /\ req[r].pc = "idle" /\ served < MaxOps /\ FileFree
  /\ disk # Torn
  /\ req' = [req EXCEPT ![r] =
               [Idle EXCEPT !.pc = "read",
                            !.op = [kind |-> "patch", section |-> "cluster",
                                    fields |-> ClusterView(disk),
                                    view |-> TRUE]]]
  /\ served' = served + 1
  /\ UNCHANGED <<disk, tmp, mem, routes, auth, lock, up, may, faults>>

Patched(r) ==
  LET op == req[r].op
  IN IF op.kind = "patch"
     THEN patch_toml_config(disk, op.section, op.fields)
     ELSE patch_toml(disk, [id |-> op.id, value |-> req[r].users[op.id]])

(* The mutex is released and the request is over, published or not. *)
Over(r) ==
  /\ req' = [req EXCEPT ![r] = Idle]
  /\ lock' = IF lock = r THEN Unset ELSE lock

(* Saved: a mutation goes on to publish, a patch answers, and the task of  *)
(* a dropped handler just ends.                                            *)
Saved(r) ==
  IF req[r].op.kind = "patch" \/ req[r].alone
  THEN Over(r)
  ELSE /\ req' = [req EXCEPT ![r].pc = "routes"]
       /\ UNCHANGED lock

(* Mutant: the snapshots go live before the change is saved. *)
PublishFirst(r) ==
  /\ up /\ req[r].pc = "read" /\ disk # Torn
  /\ IF Patched(r) = disk
     THEN Saved(r)
     ELSE /\ req' = [req EXCEPT ![r].pc = "open", ![r].doc = Patched(r)]
          /\ UNCHANGED lock
  /\ routes' = IF req[r].op.kind = "patch" THEN routes
               ELSE build_route_registry(req[r].users)
  /\ UNCHANGED <<disk, tmp, mem, auth, up, may, served, faults>>

(* persist_user_mutation / persist_config_patch: read and patch the text;  *)
(* nothing is written when it did not change.                              *)
ReadFile(r) ==
  /\ up /\ req[r].pc = "read" /\ disk # Torn
  /\ IF Patched(r) = disk
     THEN Saved(r)
     ELSE /\ req' = [req EXCEPT ![r].pc = "open", ![r].doc = Patched(r)]
          /\ UNCHANGED lock
  /\ UNCHANGED <<disk, tmp, mem, routes, auth, up, may, served, faults>>

(* write_temp: create or truncate the one temp name, ... *)
OpenTmp(r) ==
  /\ up /\ req[r].pc = "open"
  /\ tmp' = [doc |-> Torn, by |-> r]
  /\ req' = [req EXCEPT ![r].pc = "fill"]
  /\ UNCHANGED <<disk, mem, routes, auth, lock, up, may, served, faults>>

(* ... then write and fsync it.  When another writer truncated or renamed  *)
(* the inode meanwhile, the bytes of the two mix.                          *)
FillTmp(r) ==
  /\ up /\ req[r].pc = "fill"
  /\ IF tmp = NoTmp
     THEN disk' = Torn /\ UNCHANGED tmp
     ELSE /\ tmp' = [tmp EXCEPT !.doc = IF tmp.by = r THEN req[r].doc
                                        ELSE Torn]
          /\ UNCHANGED disk
  /\ req' = [req EXCEPT ![r].pc = "rename"]
  /\ UNCHANGED <<mem, routes, auth, lock, up, may, served, faults>>

(* atomic_write's rename; without the temp file it fails like a write. *)
RenameTmp(r) ==
  /\ up /\ req[r].pc = "rename" /\ tmp # NoTmp
  /\ disk' = tmp.doc /\ tmp' = NoTmp
  /\ Saved(r)
  /\ UNCHANGED <<mem, routes, auth, up, may, served, faults>>

(* A failed open, write, fsync or rename: the temp file is removed and the *)
(* mutation is reported as failed; nothing was published.                  *)
WriteFails(r) ==
  /\ up /\ req[r].pc \in {"open", "fill", "rename"}
  /\ IF req[r].pc = "rename" /\ tmp = NoTmp THEN UNCHANGED faults ELSE Fault
  /\ tmp' = NoTmp
  /\ Over(r)
  /\ may' = IF req[r].op.kind = "patch" \/ req[r].alone THEN may
            ELSE [may EXCEPT ![req[r].op.id] = {mem[req[r].op.id]}]
  /\ UNCHANGED <<disk, mem, routes, auth, up, served>>

(* commit publishes the routes, then the auth slice; the caller stores the *)
(* new list, answers, and drops the mutex.                                 *)
StoreRoutes(r) ==
  /\ up /\ req[r].pc = "routes"
  /\ routes' = build_route_registry(req[r].users)
  /\ req' = [req EXCEPT ![r].pc = "auth"]
  /\ UNCHANGED <<disk, tmp, mem, auth, lock, up, may, served, faults>>

StoreAuth(r) ==
  /\ up /\ req[r].pc = "auth"
  /\ auth' = build_ss_user_pool(req[r].users)
  /\ mem' = req[r].users
  /\ may' = [may EXCEPT ![req[r].op.id] = {req[r].users[req[r].op.id]}]
  /\ Over(r)
  /\ UNCHANGED <<disk, tmp, routes, up, served, faults>>

(* The client hangs up while the blocking task runs: the handler future is *)
(* dropped with its mutex guard, the task goes on alone.                   *)
HangUp(r) ==
  /\ up /\ req[r].pc \in Writing /\ ~req[r].alone /\ Fault
  /\ req' = [req EXCEPT ![r].alone = TRUE]
  /\ lock' = IF lock = r THEN Unset ELSE lock
  /\ UNCHANGED <<disk, tmp, mem, routes, auth, up, may, served>>

(* The operator adds a user to the file by hand. *)
HandEdit ==
  /\ disk # Torn /\ Fault
  /\ \A r \in Requests : req[r].pc \notin Writing
  /\ \E i \in Extra :
       LET e == [password |-> TRUE, vless |-> Unset, enabled |-> TRUE,
                 alias |-> Unset]
       IN /\ disk.users[i] = Absent /\ mem[i] = Absent
          /\ disk' = [disk EXCEPT !.users[i] = e]
          /\ may' = [may EXCEPT ![i] = {e}]
  /\ UNCHANGED <<tmp, mem, routes, auth, lock, req, up, served>>

Crash ==
  /\ up /\ Fault
  /\ up' = FALSE /\ lock' = Unset
  /\ req' = [r \in Requests |-> Idle]
  /\ UNCHANGED <<disk, tmp, mem, routes, auth, may, served>>

Restart ==
  /\ ~up /\ Loads(disk)
  /\ up' = TRUE
  /\ mem' = disk.users
  /\ routes' = build_route_registry(disk.users)
  /\ auth' = build_ss_user_pool(disk.users)
  /\ may' = [i \in UserIds |-> {disk.users[i]}]
  /\ UNCHANGED <<disk, tmp, lock, req, served, faults>>

Next ==
  \/ \E r \in Requests :
       \/ CommitStarts(r) \/ PatchStarts(r) \/ SaveView(r)
       \/ ReadFile(r) \/ OpenTmp(r) \/ FillTmp(r) \/ RenameTmp(r)
       \/ WriteFails(r) \/ StoreRoutes(r) \/ StoreAuth(r) \/ HangUp(r)
  \/ HandEdit \/ Crash \/ Restart

Spec == Init /\ [][Next]_vars

(***************************************************************************)
(* Properties.                                                             *)
(***************************************************************************)
(* A user change the API reported as done is in the file, whatever crash,  *)
(* write error, hang-up or hand edit came since; the file never holds a    *)
(* value nobody asked for and is never half-written.                       *)
AckedOnDisk ==
  /\ disk # Torn
  /\ \A i \in UserIds : disk.users[i] \in may[i]

(* What goes live was saved before: every route commit adds or changes is  *)
(* the user the file already holds, so a change that could not be saved is *)
(* not live.                                                               *)
NewlyLive(i) == i \notin DOMAIN routes \/ routes'[i] # routes[i]
SavesFirst ==
  \A i \in DOMAIN routes' : NewlyLive(i) => disk'.users[i] = routes'[i]
SavedFirst == [][SavesFirst]_vars

(* Saving a form that was filled from GET /control/config never changes    *)
(* the cluster secret, which the view shows only as a mask.                *)
KeepsSecret ==
  \A r \in Requests :
    ("view" \in DOMAIN req[r].op
     /\ disk' # disk /\ req[r].pc = "rename" /\ req'[r].pc = "idle")
    => disk'.cluster.psk = disk.cluster.psk
SecretSurvives == [][KeepsSecret]_vars

=============================================================================
