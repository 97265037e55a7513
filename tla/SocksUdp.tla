------------------------------- MODULE SocksUdp -------------------------------
(***************************************************************************)
(* One SOCKS5 UDP association of the client: the uplink task that routes   *)
(* and sends the client's datagrams, the downlink task that reads one      *)
(* group's carrier, and the single active-carrier cell both of them repair *)
(* (failover after an error, reconcile after the group's active uplink     *)
(* moved).  Translated from bins/outline-ws-rust/src/proxy/udp/            *)
(* {transport,group,socks5,in_tcp,dispatch}.rs and the carrier acquisition *)
(* in crates/outline-uplink/src/manager/standby/mod.rs.                    *)
(*                                                                         *)
(* Both tasks run concurrently; every await is a step boundary.  A carrier *)
(* is named by its session id, which the server issues anew per dial.      *)
(***************************************************************************)
EXTENDS Integers, Sequences, FiniteSets, TLC

CONSTANTS Uplinks,      \* the group's uplinks, 1 the initially active one
          Scopes,       \* BOOLEAN subset: strict_active_uplink_for(Udp)
          Shared,       \* shared_resume: one resume slot for the group
          Ingresses,    \* subset of {"associate", "in_tcp"}
          Standby,      \* whether a pooled carrier may be taken
          MaxCarriers,  \* carriers ever dialled
          MaxSends, RespCap,
          Faults,       \* subset of {"loss", "half", "dial", "junk", "direct", "client"}
          Intents,      \* of the active-uplink moves: {"soft", "hard"}
          MaxFaults, MaxSwitches

VARIABLES assoc,   \* [st, ingress, strict, addr, ctx, sends]
          active,  \* the ArcSwap cell: a carrier, 0 before the context exists
          car,     \* carriers by id: [up, st, port, sess]
          store,   \* resume slot per scope key: the id to present, 0 if none
          ptr,     \* the manager's published pointer: [up, intent, version]
          blamed,  \* uplinks with a reported runtime failure
          task,    \* the two tasks
          resp,    \* responses queued for the client: [queued, frames]
          seen     \* what happened so far: [fault, loss, switch]

vars == <<assoc, active, car, store, ptr, blamed, task, resp, seen>>

None == 0
Tasks == {"up", "down"}
Key(u) == IF Shared THEN None ELSE u

Idle == [pc |-> "off", at |-> "none", cur |-> None, new |-> None, sel |-> None,
         up |-> None, ask |-> None, tried |-> {}, version |-> 0]

Init ==
  /\ \E i \in Ingresses, s \in Scopes :
       assoc = [st |-> "open", ingress |-> i, strict |-> s, addr |-> FALSE,
                ctx |-> FALSE, sends |-> 0]
  /\ active = None /\ car = <<>>
  /\ store = [k \in Uplinks \union {None} |-> None]
  /\ ptr = [up |-> 1, intent |-> "soft", version |-> 0]
  /\ blamed = {}
  /\ task = [t \in Tasks |-> [Idle EXCEPT !.pc = IF t = "up" THEN "wait" ELSE "off"]]
  /\ resp = [queued |-> 0, frames |-> 0]
  /\ seen = [fault |-> 0, loss |-> 0, switch |-> 0]

-----------------------------------------------------------------------------
\* Helpers

Go(t, r) == task' = [task EXCEPT ![t] = r @@ @]

\* close_udp_transport: from here on the server can park the session
close_udp_transport(cs, c) ==
  [cs EXCEPT ![c].st = "closed", ![c].sess = IF @ = "live" THEN "parked" ELSE @]

\* The select! ended: the downlink task is aborted, the context's carrier closed
Shutdown(cs) == IF assoc.ctx THEN close_udp_transport(cs, active) ELSE cs

Ends(how) ==
  /\ assoc' = [assoc EXCEPT !.st = how, !.ctx = FALSE]
  /\ task' = [t \in Tasks |-> Idle]
  /\ car' = Shutdown(car)

\* An error leaves the task: the uplink's ends the association, the
\* downlink's only its own task
Fails(t) ==
  IF t = "up" THEN Ends("error")
  ELSE task' = [task EXCEPT ![t] = Idle] /\ UNCHANGED <<assoc, car>>

\* After the carrier cell was looked at, a task uses what it loaded
Loaded(t) == [pc |-> IF t = "up" THEN "send" ELSE "read", at |-> "none", cur |-> active,
              new |-> None, sel |-> None, up |-> None, ask |-> None, tried |-> {}]

\* Using the carrier a failover settled on: resend, or the one read
Settled(t, c) == [pc |-> IF t = "up" THEN "resend" ELSE "reread", at |-> "none", cur |-> c,
                  new |-> None, sel |-> None, up |-> None, ask |-> None, tried |-> {}]

Open == assoc.st = "open"
May(f) == f \in Faults /\ seen.fault + seen.loss < MaxFaults
Faulted == seen' = [seen EXCEPT !.fault = @ + 1]

-----------------------------------------------------------------------------
\* The client's datagrams

\* A tunnelled datagram goes through the group's context, built on first use
Tunnelled == IF assoc.ctx THEN [pc |-> "reconcile"]
             ELSE [pc |-> "select", at |-> "context", sel |-> None, tried |-> {}]

\* serve_udp_associate, uplink: datagrams that fail to parse or reassemble, that
\* the routes drop or that are too large cost only themselves
AssociateReceives(route) ==
  /\ Open /\ assoc.ingress = "associate" /\ task["up"].pc = "wait" /\ assoc.sends < MaxSends
  /\ \/ /\ route = "tunnel"
        /\ Go("up", Tunnelled)
        /\ assoc' = [assoc EXCEPT !.addr = TRUE, !.sends = @ + 1]
        /\ UNCHANGED <<car, seen>>
     \/ /\ route \in {"noise", "direct"}
        /\ assoc' = [assoc EXCEPT !.addr = TRUE, !.sends = @ + 1]
        /\ UNCHANGED <<task, car, seen>>
     \/ /\ route = "direct" /\ May("direct")
        /\ Ends("error") /\ Faulted
  /\ UNCHANGED <<active, store, ptr, blamed, resp>>

\* serve_udp_in_tcp, uplink: a frame that does not parse ends the session
InTcpReceives(route) ==
  /\ Open /\ assoc.ingress = "in_tcp" /\ task["up"].pc = "wait" /\ assoc.sends < MaxSends
  /\ \/ /\ route = "tunnel"
        /\ Go("up", Tunnelled)
        /\ assoc' = [assoc EXCEPT !.sends = @ + 1]
        /\ UNCHANGED <<car, seen>>
     \/ /\ route = "direct"
        /\ assoc' = [assoc EXCEPT !.sends = @ + 1]
        /\ UNCHANGED <<task, car, seen>>
     \/ /\ route = "direct" /\ May("direct")
        /\ Ends("error") /\ Faulted
     \/ /\ route = "noise" /\ May("junk")
        /\ Ends("error") /\ Faulted
  /\ UNCHANGED <<active, store, ptr, blamed, resp>>

-----------------------------------------------------------------------------
\* Selecting and dialling a carrier

\* The manager's candidates: the active uplink alone in a strict
\* scope, moved off an uplink with a reported failure; any order otherwise,
\* with the failed ones last
udp_candidates_for(t) ==
  LET rest == (IF assoc.strict /\ task[t].tried # {} THEN {} ELSE Uplinks) \ task[t].tried
      good == rest \ blamed
  IN IF assoc.strict /\ ptr.up \in rest /\ (ptr.up \notin blamed \/ good = {}) THEN {ptr.up}
     ELSE IF good # {} THEN good ELSE rest

\* acquire_udp_on_wire looks the association's own slot up before it dials
SelectDials(t) ==
  /\ task[t].pc = "select" /\ Len(car) < MaxCarriers
  /\ \E u \in udp_candidates_for(t) :
       Go(t, [pc |-> "dial", up |-> u, ask |-> store[Key(u)], tried |-> task[t].tried \union {u}])
  /\ UNCHANGED <<assoc, active, car, store, ptr, blamed, resp, seen>>

\* No candidate is left: "all UDP uplinks failed"
SelectExhausted(t) ==
  /\ task[t].pc = "select" /\ udp_candidates_for(t) = {}
  /\ Fails(t)
  /\ UNCHANGED <<active, store, ptr, blamed, resp, seen>>

\* The server answers the handshake: a parked session's upstream moves to the
\* new carrier, anything else gets a fresh one
Answered(u, ask) ==
  LET c == Len(car) + 1
      hit == ask # None /\ car[ask].sess = "parked"
      taken == IF hit THEN [car EXCEPT ![ask].sess = "taken"] ELSE car
  IN Append(taken, [up |-> u, st |-> "live", port |-> IF hit THEN car[ask].port ELSE c,
                    sess |-> "live"])

ServerAnswers(t) ==
  /\ task[t].pc = "dial" /\ Len(car) < MaxCarriers
  /\ car' = Answered(task[t].up, task[t].ask)
  /\ Go(t, [pc |-> "dialled", new |-> Len(car) + 1])
  /\ UNCHANGED <<assoc, active, store, ptr, blamed, resp, seen>>

\* A pooled carrier was dialled without a resume request
PoolGives(t) ==
  /\ Standby /\ task[t].pc = "dial" /\ Len(car) < MaxCarriers
  /\ car' = Answered(task[t].up, None)
  /\ Go(t, [pc |-> "dialled", new |-> Len(car) + 1])
  /\ UNCHANGED <<assoc, active, store, ptr, blamed, resp, seen>>

DialFails(t) ==
  /\ task[t].pc = "dial" /\ May("dial") /\ Faulted
  /\ blamed' = blamed \union {task[t].up}
  /\ Go(t, [pc |-> "select", up |-> None, ask |-> None])
  /\ UNCHANGED <<assoc, active, car, store, ptr, resp>>

\* store_if_issued, then confirm_selected_uplink_for: a strict scope's pointer
\* follows the uplink that answered
Confirmed(u) ==
  IF assoc.strict /\ ptr.up # u
  THEN [up |-> u, intent |-> "soft", version |-> ptr.version + 1] ELSE ptr

DialDone(t) ==
  /\ task[t].pc = "dialled"
  /\ store' = [store EXCEPT ![Key(task[t].up)] = task[t].new]
  /\ ptr' = Confirmed(task[t].up)
  /\ Go(t, [pc |-> "swap"])
  /\ UNCHANGED <<assoc, active, car, blamed, resp, seen>>

-----------------------------------------------------------------------------
\* The active-carrier cell

\* resolve_group_context: the context and its downlink task appear together
ContextInserted ==
  /\ task["up"].pc = "swap" /\ task["up"].at = "context"
  /\ active' = task["up"].new
  /\ assoc' = [assoc EXCEPT !.ctx = TRUE]
  /\ task' = [task EXCEPT !["up"] = [pc |-> "reconcile", new |-> None, at |-> "none"] @@ @,
                          !["down"] = [Idle EXCEPT !.pc = "reconcile", !.version = ptr.version]]
  /\ UNCHANGED <<car, store, ptr, blamed, resp, seen>>

\* replace_active_udp_transport_if_current: by index, then compare-and-swap
IsCurrent(expected) == car[active].up = expected

\* Mutant: the carrier that was replaced is left open
LeaveOpen(cs, c) == cs

\* The winner closes the carrier it replaced
CloseReplaced(cs, c) == close_udp_transport(cs, c)

\* failover_udp_transport, after the dial; the loser uses what it finds
FailoverSwaps(t) ==
  /\ task[t].pc = "swap" /\ task[t].at = "failover"
  /\ IF IsCurrent(task[t].sel)
     THEN /\ active' = task[t].new /\ car' = CloseReplaced(car, active)
          /\ Go(t, Settled(t, task[t].new))
     ELSE Go(t, Settled(t, active)) /\ UNCHANGED <<active, car>>
  /\ UNCHANGED <<assoc, store, ptr, blamed, resp, seen>>

\* reconcile_global_udp_transport, after the dial; then the caller loads the cell
ReconcileSwaps(t) ==
  /\ task[t].pc = "swap" /\ task[t].at = "reconcile"
  /\ IF IsCurrent(task[t].sel)
     THEN active' = task[t].new /\ car' = CloseReplaced(car, active)
     ELSE UNCHANGED <<active, car>>
  /\ Go(t, [pc |-> "load", new |-> None])
  /\ UNCHANGED <<assoc, store, ptr, blamed, resp, seen>>

Loads(t) ==
  /\ task[t].pc = "load" /\ Go(t, Loaded(t))
  /\ UNCHANGED <<assoc, active, car, store, ptr, blamed, resp, seen>>

\* The per-datagram look at the published snapshot
ReconcileLooks(t) ==
  /\ task[t].pc = "reconcile"
  /\ IF ~assoc.strict \/ ptr.up = car[active].up THEN Go(t, Loaded(t))
     ELSE Go(t, [pc |-> "recheck", sel |-> car[active].up])
  /\ UNCHANGED <<assoc, active, car, store, ptr, blamed, resp, seen>>

\* The authoritative look; a migrating switch retires the old carrier first
ReconcileRechecks(t) ==
  /\ task[t].pc = "recheck"
  /\ IF ptr.up = task[t].sel \/ car[active].up # task[t].sel
     THEN Go(t, Loaded(t)) /\ UNCHANGED car
     ELSE /\ car' = IF ptr.intent = "soft" /\ Shared THEN close_udp_transport(car, active) ELSE car
          /\ Go(t, [pc |-> "select", at |-> "reconcile", tried |-> {}])
  /\ UNCHANGED <<assoc, active, store, ptr, blamed, resp, seen>>

\* failover_udp_transport, up to the dial: another task's replacement is used as
\* it is; otherwise the uplink is reported and a replacement dialled
FailsOver(t) ==
  LET failed == car[task[t].cur].up IN
  IF car[active].up # failed
  THEN Go(t, Settled(t, active)) /\ UNCHANGED blamed
  ELSE /\ blamed' = blamed \union {failed}
       /\ Go(t, [pc |-> "select", at |-> "failover", sel |-> failed, cur |-> None, tried |-> {}])

-----------------------------------------------------------------------------
\* GroupUdpContext::send_packet

Writable(c) == car[c].st = "live"
Readable(c) == car[c].st \in {"live", "half"}

Sent == Go("up", [pc |-> "wait", cur |-> None])

Sends ==
  /\ task["up"].pc = "send"
  /\ IF Writable(task["up"].cur) THEN Sent /\ UNCHANGED blamed ELSE FailsOver("up")
  /\ UNCHANGED <<assoc, active, car, store, ptr, resp, seen>>

\* The second error is the association's
Resends ==
  /\ task["up"].pc = "resend"
  /\ IF Writable(task["up"].cur) THEN Sent /\ UNCHANGED <<assoc, car>> ELSE Fails("up")
  /\ UNCHANGED <<active, store, ptr, blamed, resp, seen>>

-----------------------------------------------------------------------------
\* run_group_downlink

\* The select is biased: a published move is taken before a read's result
MoveSeen == task["down"].version # ptr.version

ReaderWakes ==
  /\ task["down"].pc = "read" /\ MoveSeen
  /\ Go("down", [pc |-> "reconcile", cur |-> None, version |-> ptr.version])
  /\ UNCHANGED <<assoc, active, car, store, ptr, blamed, resp, seen>>

ReaderErrs ==
  /\ task["down"].pc = "read" /\ ~MoveSeen /\ ~Readable(task["down"].cur)
  /\ FailsOver("down")
  /\ UNCHANGED <<assoc, active, car, store, ptr, resp, seen>>

\* The one read after a failover watches nothing else; its error is final
RereadErrs ==
  /\ task["down"].pc = "reread" /\ ~Readable(task["down"].cur)
  /\ Fails("down")
  /\ UNCHANGED <<active, store, ptr, blamed, resp, seen>>

\* A datagram arrives; one that fails to open costs only itself where the loop
\* reads it, and one whose address does not parse ends the task
ReaderGets(kind) ==
  /\ \/ task["down"].pc = "read" /\ ~MoveSeen
     \/ task["down"].pc = "reread"
  /\ Readable(task["down"].cur)
  /\ \/ kind = "reply" /\ Go("down", [pc |-> "deliver"]) /\ UNCHANGED <<assoc, car, seen>>
     \/ /\ kind = "corrupt" /\ May("junk") /\ Faulted
        /\ IF task["down"].pc = "read"
           THEN Go("down", [pc |-> "reconcile", cur |-> None]) /\ UNCHANGED <<assoc, car>>
           ELSE Fails("down")
     \/ kind = "junk" /\ May("junk") /\ Faulted /\ Fails("down")
  /\ UNCHANGED <<active, store, ptr, blamed, resp>>

\* responses.send waits for room
ReaderDelivers ==
  /\ task["down"].pc = "deliver" /\ resp.queued < RespCap
  /\ resp' = [resp EXCEPT !.queued = @ + 1]
  /\ Go("down", [pc |-> "reconcile", cur |-> None])
  /\ UNCHANGED <<assoc, active, car, store, ptr, blamed, seen>>

-----------------------------------------------------------------------------
\* The writers and the end of the association

AssociateWrites ==
  /\ Open /\ assoc.ingress = "associate" /\ resp.queued > 0
  /\ \/ resp' = [resp EXCEPT !.queued = @ - 1] /\ UNCHANGED <<assoc, car, task, seen>>
     \/ May("client") /\ Faulted /\ Ends("error") /\ UNCHANGED resp
  /\ UNCHANGED <<active, store, ptr, blamed>>

InTcpFrames ==
  /\ Open /\ assoc.ingress = "in_tcp" /\ resp.queued > 0 /\ resp.frames < RespCap
  /\ resp' = [queued |-> resp.queued - 1, frames |-> resp.frames + 1]
  /\ UNCHANGED <<assoc, active, car, store, ptr, blamed, task, seen>>

InTcpWrites ==
  /\ Open /\ resp.frames > 0
  /\ \/ resp' = [resp EXCEPT !.frames = @ - 1] /\ UNCHANGED <<assoc, car, task, seen>>
     \/ May("client") /\ Faulted /\ Ends("error") /\ UNCHANGED resp
  /\ UNCHANGED <<active, store, ptr, blamed>>

\* The client closes its TCP connection
ControlEnds ==
  /\ Open /\ Ends("closed")
  /\ UNCHANGED <<active, store, ptr, blamed, resp, seen>>

\* A carrier nobody holds is dropped, and its Drop closes it
Held(c) == (assoc.ctx /\ active = c) \/ \E t \in Tasks : c \in {task[t].cur, task[t].new}

CarrierDropped(c) ==
  /\ car[c].st # "closed" /\ ~Held(c)
  /\ car' = close_udp_transport(car, c)
  /\ UNCHANGED <<assoc, active, store, ptr, blamed, task, resp, seen>>

-----------------------------------------------------------------------------
\* The environment

CarrierFails(c, how) ==
  /\ Open /\ car[c].st = "live" /\ May(how)
  /\ seen' = [seen EXCEPT !.loss = @ + 1]
  /\ car' = [car EXCEPT ![c].st = IF how = "half" THEN "half" ELSE "broken"]
  /\ UNCHANGED <<assoc, active, store, ptr, blamed, task, resp>>

\* The server notices a broken carrier and parks its session
ServerParks(c) ==
  /\ car[c].st = "broken" /\ car[c].sess = "live"
  /\ car' = [car EXCEPT ![c].sess = "parked"]
  /\ UNCHANGED <<assoc, active, store, ptr, blamed, task, resp, seen>>

ActiveMoves(u, intent) ==
  /\ Open /\ seen.switch < MaxSwitches /\ ptr.up # u /\ u \notin blamed
  /\ ptr' = [up |-> u, intent |-> intent, version |-> ptr.version + 1]
  /\ seen' = [seen EXCEPT !.switch = @ + 1]
  /\ UNCHANGED <<assoc, active, car, store, blamed, task, resp>>

-----------------------------------------------------------------------------
TaskStep(t) ==
  \/ SelectDials(t) \/ SelectExhausted(t) \/ ServerAnswers(t) \/ PoolGives(t) \/ DialDone(t)
  \/ FailoverSwaps(t) \/ ReconcileSwaps(t) \/ Loads(t)
  \/ ReconcileLooks(t) \/ ReconcileRechecks(t)

UpStep == TaskStep("up") \/ ContextInserted \/ Sends \/ Resends
DownStep == TaskStep("down") \/ ReaderWakes \/ ReaderErrs \/ RereadErrs \/ ReaderDelivers

Writes == AssociateWrites \/ InTcpFrames \/ InTcpWrites

Environment ==
  \/ \E r \in {"noise", "direct", "tunnel"} : AssociateReceives(r) \/ InTcpReceives(r)
  \/ \E k \in {"reply", "corrupt", "junk"} : ReaderGets(k)
  \/ \E t \in Tasks : DialFails(t)
  \/ \E c \in DOMAIN car : ServerParks(c)
  \/ \E c \in DOMAIN car, h \in {"loss", "half"} : CarrierFails(c, h)
  \/ \E u \in Uplinks, i \in Intents : ActiveMoves(u, i)
  \/ ControlEnds

Next == UpStep \/ DownStep \/ Writes \/ Environment \/ \E c \in DOMAIN car : CarrierDropped(c)

Spec == Init /\ [][Next]_vars

\* The runtime polls both tasks and the writers; dials answer or fail
FairSpec == Spec /\ WF_vars(UpStep) /\ WF_vars(DownStep) /\ WF_vars(Writes)

-----------------------------------------------------------------------------
\* Properties

\* One carrier loss or one move of the active uplink, with every dial answered,
\* costs the client neither the association nor its downlink task, however the
\* two tasks' repairs of the carrier cell interleave.
OneLossSurvived ==
  (seen.fault = 0 /\ seen.loss + seen.switch <= 1 /\ Len(car) < MaxCarriers) =>
     /\ assoc.st # "error"
     /\ assoc.ctx => task["down"].pc # "off"

ReadsReplaced == task["down"].pc \in {"read", "reread"} /\ task["down"].cur # active
ReaderMoved ==
  task["down"].pc = "off" \/ task["down"].cur = active \/ Len(car) = MaxCarriers

\* A downlink task blocked on a carrier that has been replaced leaves it: closing
\* the replaced carrier, or the published move, wakes the read.
ReaderFollows == ReadsReplaced ~> ReaderMoved

\* "every map entry has exactly one downlink task" (resolve_group_context)
ContextHasReader == assoc.ctx => task["down"].pc # "off"

===============================================================================
