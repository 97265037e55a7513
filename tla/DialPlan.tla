------------------------------ MODULE DialPlan ------------------------------
(***************************************************************************)
(* How the client dials a carrier of an uplink: connect_transport with its *)
(* fallback chains H3 -> H2 -> H1, the per-host memories that choose where *)
(* a chain starts (ws_mode_cache, xhttp_mode_cache, mode_health), the one  *)
(* that chooses how an XHTTP carrier opens (xhttp_submode_cache), and the  *)
(* uplink's downgrade window, which a dial that ended lower than asked     *)
(* opens.  Dials run concurrently and every cache access is an await of    *)
(* its own.                                                                *)
(*                                                                         *)
(* All uplinks share one (host, port).  A mode is its family and its rank. *)
(* Weighting is a choice among the ranks it can return; a penalty is the   *)
(* time it takes to decay.                                                 *)
(***************************************************************************)
EXTENDS Naturals, FiniteSets

CONSTANTS
  Dials,
  Uplinks,      \* the configured mode of each uplink, [fam, r]
  Kinds,        \* "fresh", "redial", "migrate"
  Weighted,     \* liveness weighting, or the binary cap
  StreamOne,    \* the URL asks for stream-one
  Ttl,          \* of the host memories
  Window,       \* mode_downgrade_duration of the uplink
  MaxPenalty,
  Paths,        \* what may stop working: <<"ws", 2>>, ..., <<"one", 0>>
  MaxFlips,     \* times the network changes
  Cancels       \* a dial may be dropped by its caller

VARIABLES ws, xh, sub, win, dial, net, owed

vars == <<ws, xh, sub, win, dial, net, owed>>

-----------------------------------------------------------------------------
\* One entry of a host memory

NoEntry == [on |-> FALSE, max |-> 2, left |-> 0, pen |-> [r \in 0..2 |-> 0]]

Less(n) == IF n > 0 THEN n - 1 ELSE 0
AtMost(n, m) == IF n > m THEN m ELSE n

\* descend_start_rank: a rank without a penalty is never passed over
StartRanks(top, pen) == {r \in 0..top : \A h \in (r + 1)..top : pen[h] > 0}

\* ModePenalty::add
Penalised(pen, r) == [pen EXCEPT ![r] = AtMost(@ + 1, MaxPenalty)]

effective_mode_legacy(e, top) ==
  IF e.on /\ e.left > 0 /\ e.max < top THEN e.max ELSE top

effective_ranks(e, top) ==
  IF ~Weighted THEN {effective_mode_legacy(e, top)}
  ELSE IF e.on /\ e.left > 0 THEN StartRanks(top, e.pen) ELSE {top}

\* record_failure with weighting on: ranks 1 and 2 only
record_failure_weighted(e, r) ==
  IF r = 0 THEN e ELSE [e EXCEPT !.on = TRUE, !.pen = Penalised(@, r), !.left = Ttl]

record_success_weighted(e, r) == IF e.on THEN [e EXCEPT !.pen[r] = 0] ELSE e

\* A success that meets or exceeds the cap drops it
record_success_legacy(e, r) == IF e.on /\ r >= e.max THEN NoEntry ELSE e

record_success(e, r) ==
  IF Weighted THEN record_success_weighted(e, r) ELSE record_success_legacy(e, r)

-----------------------------------------------------------------------------
\* ws_mode_cache

\* An entry with a deeper cap is left as it is, expired or not
ws_record_failure_legacy(e, r) ==
  IF r = 0 \/ (e.on /\ r - 1 > e.max) THEN e
  ELSE [e EXCEPT !.on = TRUE, !.max = r - 1, !.left = Ttl]

ws_record_failure(e, r) ==
  IF Weighted THEN record_failure_weighted(e, r) ELSE ws_record_failure_legacy(e, r)

\* effective_mode: with the binary cap an XHTTP mode ranks above every WS mode
ws_effective(m) ==
  IF m.fam = "ws" THEN {[m EXCEPT !.r = r] : r \in effective_ranks(ws, m.r)}
  ELSE IF ~Weighted /\ ws.on /\ ws.left > 0 THEN {[fam |-> "ws", r |-> ws.max]}
  ELSE {m}

-----------------------------------------------------------------------------
\* xhttp_mode_cache

\* Inside a window the cap only goes down; an expired one is overwritten
xhttp_record_failure_legacy(e, r) ==
  IF r = 0 THEN e
  ELSE IF ~e.on \/ e.left = 0 \/ r - 1 <= e.max
  THEN [e EXCEPT !.on = TRUE, !.max = r - 1, !.left = Ttl]
  ELSE [e EXCEPT !.left = Ttl]

xhttp_record_failure(e, r) ==
  IF Weighted THEN record_failure_weighted(e, r) ELSE xhttp_record_failure_legacy(e, r)

xhttp_effective(m) ==
  IF m.fam # "xh" THEN {m} ELSE {[m EXCEPT !.r = r] : r \in effective_ranks(xh, m.r)}

-----------------------------------------------------------------------------
\* The uplink layer

\* effective_tcp_mode: the window's cap, or the configured mode
effective_tcp_mode(u) == IF win[u].left > 0 THEN [u EXCEPT !.r = win[u].cap] ELSE u

\* A migration probes the configured mode whatever the window says
tcp_dial_mode_for(u, kind) == IF kind = "migrate" THEN u ELSE effective_tcp_mode(u)

\* note_silent_transport_fallback_for_wire.  The same family, below the
\* configured rank; inside a window the cap only goes down
SilentFallback(u, requested) ==
  IF requested.fam # u.fam \/ requested.r = 0 \/ requested.r > u.r THEN win
  ELSE [win EXCEPT ![u] =
         [cap  |-> IF @.left > 0 /\ @.cap < requested.r - 1 THEN @.cap ELSE requested.r - 1,
          left |-> Window]]

-----------------------------------------------------------------------------
\* A dial

None == [fam |-> "none", r |-> 0]
Idle == [pc |-> "idle", up |-> None, kind |-> "fresh", req |-> None, sel |-> None,
         cur |-> None]

At(d, pc) == dial[d].pc = pc
Goes(d, pc) == dial' = [dial EXCEPT ![d].pc = pc]
Works(m) == <<m.fam, m.r>> \in net.good

\* connect_tcp_ws_fresh_internal up to connect_transport
Start(d, u, kind) ==
  /\ dial[d].pc \in {"idle", "done", "failed"}
  /\ dial' = [dial EXCEPT ![d] = [Idle EXCEPT !.pc = "ws", !.up = u, !.kind = kind,
                                              !.req = tcp_dial_mode_for(u, kind)]]
  /\ UNCHANGED <<ws, xh, sub, win, net, owed>>

\* DialPlan::resolve, one cache after the other
ResolveWs(d) ==
  /\ At(d, "ws")
  /\ \E m \in ws_effective(dial[d].req) :
        dial' = [dial EXCEPT ![d].pc = "xh", ![d].sel = m]
  /\ UNCHANGED <<ws, xh, sub, win, net, owed>>

ResolveXhttp(d) ==
  /\ At(d, "xh")
  /\ \E m \in xhttp_effective(dial[d].sel) :
        dial' = [dial EXCEPT ![d].pc = "try", ![d].sel = m, ![d].cur = m]
  /\ UNCHANGED <<ws, xh, sub, win, net, owed>>

\* A chain records a success only of the mode it started at
Connected(rec) == IF rec.cur = rec.sel THEN "good" ELSE "report"

\* connect_websocket_h3, _h2 and _http1
TryWs(d) ==
  /\ At(d, "try") /\ dial[d].cur.fam = "ws"
  /\ Goes(d, IF Works(dial[d].cur) THEN Connected(dial[d])
             ELSE IF dial[d].cur.r = 0 THEN "failed" ELSE "bad")
  /\ UNCHANGED <<ws, xh, sub, win, net, owed>>

\* xhttp_submode_cache
effective_submode(one) == one /\ sub = 0
SubmodeFailed == Ttl
SubmodeWorks == 0

\* H1 carries packet-up only
resolve_effective_submode(r) == effective_submode(StreamOne /\ r > 0)

\* connect_xhttp chooses how the carrier opens
TryXhttp(d) ==
  /\ At(d, "try") /\ dial[d].cur.fam = "xh"
  /\ Goes(d, IF resolve_effective_submode(dial[d].cur.r) THEN "one" ELSE "get")
  /\ UNCHANGED <<ws, xh, sub, win, net, owed>>

\* open_h2_stream_one, open_h3_stream_one
OpenStreamOne(d) ==
  /\ At(d, "one")
  /\ IF Works(dial[d].cur) /\ <<"one", 0>> \in net.good
     THEN Goes(d, Connected(dial[d])) /\ sub' = SubmodeWorks
     ELSE Goes(d, "get") /\ sub' = SubmodeFailed
  /\ UNCHANGED <<ws, xh, win, net, owed>>

\* open_h1_get, open_h2_get, open_h3_get
OpenGet(d) ==
  /\ At(d, "get")
  /\ Goes(d, IF Works(dial[d].cur) THEN Connected(dial[d])
             ELSE IF dial[d].cur.r = 0 THEN "failed" ELSE "bad")
  /\ UNCHANGED <<ws, xh, sub, win, net, owed>>

\* The carriers; a stream-one that fails to open falls back to packet-up on the
\* same connection
connect_xhttp_h3(d) == dial[d].cur.r = 2 /\ (OpenStreamOne(d) \/ OpenGet(d))
connect_xhttp_h2(d) == dial[d].cur.r = 1 /\ (OpenStreamOne(d) \/ OpenGet(d))
connect_xhttp_h1(d) == dial[d].cur.r = 0 /\ OpenGet(d)

Lower(m) == [m EXCEPT !.r = @ - 1]

\* The failure is recorded, then the chain goes on one rank lower
RecordWsFailure(d) ==
  /\ At(d, "bad") /\ dial[d].cur.fam = "ws"
  /\ ws' = ws_record_failure(ws, dial[d].cur.r)
  /\ owed' = [owed EXCEPT !["ws"][dial[d].cur.r] = Ttl]
  /\ dial' = [dial EXCEPT ![d].pc = "try", ![d].cur = Lower(@)]
  /\ UNCHANGED <<xh, sub, win, net>>

RecordXhttpFailure(d) ==
  /\ At(d, "bad") /\ dial[d].cur.fam = "xh"
  /\ xh' = xhttp_record_failure(xh, dial[d].cur.r)
  /\ owed' = [owed EXCEPT !["xh"][dial[d].cur.r] = Ttl]
  /\ dial' = [dial EXCEPT ![d].pc = "try", ![d].cur = Lower(@)]
  /\ UNCHANGED <<ws, sub, win, net>>

Forgiven(fam, before, after) ==
  IF before.on /\ ~after.on THEN [owed EXCEPT ![fam] = [r \in 1..2 |-> 0]] ELSE owed

RecordWsSuccess(d) ==
  /\ At(d, "good") /\ dial[d].cur.fam = "ws"
  /\ ws' = record_success(ws, dial[d].cur.r)
  /\ owed' = Forgiven("ws", ws, ws')
  /\ Goes(d, "report")
  /\ UNCHANGED <<xh, sub, win, net>>

RecordXhttpSuccess(d) ==
  /\ At(d, "good") /\ dial[d].cur.fam = "xh"
  /\ xh' = record_success(xh, dial[d].cur.r)
  /\ owed' = Forgiven("xh", xh, xh')
  /\ Goes(d, "report")
  /\ UNCHANGED <<ws, sub, win, net>>

downgrade_marker(d) == dial[d].cur # dial[d].req

\* What connect_tcp_ws_fresh_internal does with the marker
Reported(d) ==
  IF downgrade_marker(d) THEN SilentFallback(dial[d].up, dial[d].req) ELSE win

Report(d) ==
  /\ At(d, "report") /\ Goes(d, "done")
  /\ win' = Reported(d)
  /\ UNCHANGED <<ws, xh, sub, net, owed>>

Cancel(d) ==
  /\ Cancels /\ dial[d].pc \notin {"idle", "done", "failed"}
  /\ dial' = [dial EXCEPT ![d] = Idle]
  /\ UNCHANGED <<ws, xh, sub, win, net, owed>>

-----------------------------------------------------------------------------
\* Time, the sweep of expired entries and the network

Ticked(e) == [e EXCEPT !.left = Less(@), !.pen = [r \in 0..2 |-> Less(@[r])]]

Tick ==
  /\ ws' = Ticked(ws) /\ xh' = Ticked(xh) /\ sub' = Less(sub)
  /\ win' = [u \in Uplinks |-> [win[u] EXCEPT !.left = Less(@)]]
  /\ owed' = [f \in {"ws", "xh"} |-> [r \in 1..2 |-> Less(owed[f][r])]]
  /\ UNCHANGED <<dial, net>>

\* gc of the two mode caches
Swept(e) == IF e.left = 0 THEN NoEntry ELSE e

Gc ==
  /\ ws' = Swept(ws) /\ xh' = Swept(xh)
  /\ UNCHANGED <<sub, win, dial, net, owed>>

Flip(p) ==
  /\ net.flips < MaxFlips
  /\ net' = [good |-> IF p \in net.good THEN net.good \ {p} ELSE net.good \cup {p},
             flips |-> net.flips + 1]
  /\ UNCHANGED <<ws, xh, sub, win, dial, owed>>

AllModes == {"ws", "xh", "one"} \X (0..2)

Init ==
  /\ ws = NoEntry /\ xh = NoEntry /\ sub = 0
  /\ win = [u \in Uplinks |-> [cap |-> 0, left |-> 0]]
  /\ dial = [d \in Dials |-> Idle]
  /\ net = [good |-> AllModes, flips |-> 0]
  /\ owed = [f \in {"ws", "xh"} |-> [r \in 1..2 |-> 0]]

Step(d) ==
  \/ ResolveWs(d) \/ ResolveXhttp(d) \/ TryWs(d) \/ TryXhttp(d)
  \/ connect_xhttp_h3(d) \/ connect_xhttp_h2(d) \/ connect_xhttp_h1(d)
  \/ RecordWsFailure(d) \/ RecordXhttpFailure(d)
  \/ RecordWsSuccess(d) \/ RecordXhttpSuccess(d) \/ Report(d)

Starts(d) == \E u \in Uplinks, k \in Kinds : Start(d, u, k)

Next ==
  \/ \E d \in Dials : Starts(d) \/ Step(d) \/ Cancel(d)
  \/ Tick \/ Gc
  \/ \E p \in Paths : Flip(p)

Spec == Init /\ [][Next]_vars

\* Sessions keep dialling, a dial ends and time passes
FairSpec ==
  /\ Spec
  /\ \A d \in Dials : WF_vars(Starts(d)) /\ WF_vars(Step(d))
  /\ WF_vars(Tick)

-----------------------------------------------------------------------------
\* A carrier is of the family its uplink asked for and never above the rank it
\* asked for, though the two families keep their memories under the same
\* (host, port), and the caller is told exactly when it is lower.
StreamAsAsked ==
  \A d \in Dials : At(d, "report") =>
     /\ dial[d].cur.fam = dial[d].req.fam
     /\ dial[d].cur.r <= dial[d].req.r
     /\ downgrade_marker(d) = (dial[d].cur.r < dial[d].req.r)

\* A failure recorded for a rank keeps later dials below it for the TTL, unless a
\* dial met the cap since: also when it arrives after a deeper failure, or finds
\* an entry that has expired and was not swept yet (record_failure_legacy).
FailureRemembered ==
  \A u \in Uplinks : \A r \in 1..2 :
     owed[u.fam][r] > 0 =>
        effective_mode_legacy(IF u.fam = "ws" THEN ws ELSE xh, r) < r

\* With weighting a success clears the penalty of its own rank only, so that a
\* working H2 does not re-arm a broken H3 while other dials are still failing.
LowerKeepsPenalty ==
  \A d \in Dials, r \in 0..2 :
     At(d, "good") /\ dial'[d].pc = "report" /\ r # dial[d].cur.r =>
        ws'.pen[r] = ws.pen[r] /\ xh'.pen[r] = xh.pen[r]

PenaltySurvives == [][LowerKeepsPenalty]_vars

NetworkFaulty == net.good # AllModes
ConfiguredServes == \E d \in Dials : At(d, "done") /\ dial[d].cur = dial[d].up

\* Once the network works again, sessions that keep dialling get the configured
\* carrier back: the host memory and the uplink's window, each of which is
\* renewed by what the other one causes, do not keep each other alive.
ConfiguredReturns == []<>NetworkFaulty \/ []<>ConfiguredServes
=============================================================================
