------------------------------ MODULE ProbeCycle -------------------------------
(***************************************************************************)
(* The health probe of one uplink: a cycle of up to Attempts attempts, in  *)
(* each of which the TCP and the UDP plane are probed side by side (a      *)
(* carrier dial, then an application exchange through the tunnel), the     *)
(* warm pipes kept between cycles, and the keepalive loop that uses the    *)
(* same pipes.  Translated from crates/outline-uplink/src/probe/*.rs and   *)
(* manager/probe/{scheduler,warm_tcp,warm_udp,keepalive,endpoint}.rs.      *)
(*                                                                         *)
(* The uplink is "up" (it serves every dial and exchange), "silent" (what  *)
(* is sent to it times out) or "down" (its endpoints refuse); the probed   *)
(* sites answer whenever the uplink is up.  A pipe is the record of the    *)
(* site its tunnel is bound to and of what is outstanding on it.           *)
(***************************************************************************)
EXTENDS Integers, FiniteSets

CONSTANTS Urls,           \* number of http / tls targets, probed in rotation
          Apps,           \* TCP application probes: "http", "tls", "tunnel", "none"
          Dns,            \* whether a DNS probe is configured for the UDP plane
          WsProbe,        \* probe.ws.enabled
          Attempts,       \* probe.attempts
          Permits,        \* probe_dial_limit, shared by the uplinks of the group
          Others,         \* how many of them stalled dials to other uplinks may hold
          EndpointCheck,  \* probe.endpoint_check
          Liveness,       \* cycles that recent traffic may leave out (liveness_interval)
          Keepalive,      \* whether the warm keepalive loop runs
          MaxCycles, MaxEvents

VARIABLES uplink,   \* "up", "silent", "down"
          app,      \* the configured TCP application probe
          cursor,   \* rotation cursor of the targets
          slot,     \* per plane: the warm pipe
          mode,     \* per plane: the effective mode, 0 or 1
          pl,       \* per plane: the probe in flight
          cyc,      \* the cycle
          ka,       \* the keepalive loop: the plane it is at and the pipe it holds
          others,   \* permits held by dials to other uplinks
          events

vars == <<uplink, app, cursor, slot, mode, pl, cyc, ka, others, events>>

Planes == {"tcp", "udp"}

NoPipe == [site |-> 0, mode |-> 0, alive |-> FALSE, clean |-> TRUE]
Fresh(site, m) == [site |-> site, mode |-> m, alive |-> TRUE, clean |-> TRUE]
IsPipe(p) == p.site # 0

NoProbe == [pc |-> "off", mode |-> 0, carrier |-> FALSE, url |-> 0, pipe |-> NoPipe,
            warm |-> FALSE, ok |-> FALSE]

-----------------------------------------------------------------------------
\* Warm slots

peek_matches(p, m) == IsPipe(slot[p]) /\ slot[p].mode = m

\* take_if_matches: a pipe of another mode is dropped
Taken(p, m) == IF peek_matches(p, m) THEN slot[p] ELSE NoPipe

put_back(p, pipe) == IF IsPipe(slot[p]) THEN slot ELSE [slot EXCEPT ![p] = pipe]

\* A permit is held while dialling, and dropped before the exchange
Holding == {p \in Planes : pl[p].pc \in {"wsdial", "appdial"}}
Permit == Cardinality(Holding) + others < Permits

-----------------------------------------------------------------------------
\* The cycle

\* should_skip_probe_cycle_for_recent_activity: a cycle is left out while traffic
\* shows the uplink working, but not past the liveness interval
CycleSkipped ==
  /\ cyc.pc = "sleep" /\ cyc.n < MaxCycles
  /\ cyc.verdict = "ok" /\ cyc.skipped < Liveness
  /\ cyc' = [cyc EXCEPT !.n = @ + 1, !.skipped = @ + 1]
  /\ UNCHANGED <<uplink, app, cursor, slot, mode, pl, ka, others, events>>

\* probe_all starts a cycle: the effective modes are read once
CycleStarts ==
  /\ cyc.pc = "sleep" /\ cyc.n < MaxCycles
  /\ cyc' = [pc |-> "attempt", n |-> cyc.n + 1, attempt |-> 1, skipped |-> 0, clean |-> uplink = "up",
             tcp |-> FALSE, udp |-> FALSE, verdict |-> "none"]
  /\ pl' = [p \in Planes |-> [NoProbe EXCEPT !.pc = "carrier", !.mode = mode[p]]]
  /\ UNCHANGED <<uplink, app, cursor, slot, mode, ka, others, events>>

Done(p, ok) == pl' = [pl EXCEPT ![p].pc = "done", ![p].ok = ok, ![p].pipe = NoPipe]

\* Mutant: one attempt is all a cycle makes
OneAttempt == FALSE

\* An attempt that was not fully ok is repeated
Again == cyc.attempt < Attempts

fully_ok == pl["tcp"].ok /\ pl["udp"].ok

AttemptEnds ==
  /\ cyc.pc = "attempt" /\ \A p \in Planes : pl[p].pc = "done"
  /\ IF fully_ok \/ ~Again
     THEN /\ cyc' = [cyc EXCEPT !.pc = "verdict", !.tcp = pl["tcp"].ok, !.udp = pl["udp"].ok]
          /\ pl' = [p \in Planes |-> NoProbe]
     ELSE /\ cyc' = [cyc EXCEPT !.attempt = @ + 1]
          /\ pl' = [p \in Planes |-> [NoProbe EXCEPT !.pc = "carrier", !.mode = pl[p].mode]]
  /\ UNCHANGED <<uplink, app, cursor, slot, mode, ka, others, events>>

\* probe_confirms_failure, then the endpoints; what follows is the verdict
\* process_probe_ok and process_probe_err are given
probe_confirms_failure == ~cyc.tcp /\ ~cyc.udp

CycleEnds ==
  /\ cyc.pc = "verdict"
  /\ cyc' = [cyc EXCEPT !.pc = "sleep",
               !.verdict = IF EndpointCheck /\ probe_confirms_failure /\ uplink = "down"
                           THEN "unreachable"
                           ELSE IF cyc.tcp /\ cyc.udp THEN "ok" ELSE "fail"]
  /\ UNCHANGED <<uplink, app, cursor, slot, mode, pl, ka, others, events>>

-----------------------------------------------------------------------------
\* The carrier stage of either plane

CarrierSkipped(p) ==
  /\ pl[p].pc = "carrier" /\ (~WsProbe \/ peek_matches(p, pl[p].mode))
  /\ pl' = [pl EXCEPT ![p].pc = "app", ![p].carrier = TRUE]
  /\ UNCHANGED <<uplink, app, cursor, slot, mode, cyc, ka, others, events>>

\* run_ws_probe waits for a permit and dials
CarrierDials(p) ==
  /\ pl[p].pc = "carrier" /\ WsProbe /\ ~peek_matches(p, pl[p].mode) /\ Permit
  /\ pl' = [pl EXCEPT ![p].pc = "wsdial"]
  /\ UNCHANGED <<uplink, app, cursor, slot, mode, cyc, ka, others, events>>

CarrierAnswers(p) ==
  /\ pl[p].pc = "wsdial"
  /\ IF uplink = "up" THEN pl' = [pl EXCEPT ![p].pc = "app", ![p].carrier = TRUE]
                      ELSE Done(p, FALSE)
  /\ UNCHANGED <<uplink, app, cursor, slot, mode, cyc, ka, others, events>>

\* A stage's timeout runs while it waits for a permit
Waiting(p) == pl[p].pc \in {"carrier", "app", "redial"} /\ ~Permit

StageTimesOut(p) ==
  /\ Waiting(p) /\ (uplink # "up" \/ others = Permits)
  /\ Done(p, FALSE)
  /\ UNCHANGED <<uplink, app, cursor, slot, mode, cyc, ka, others, events>>

-----------------------------------------------------------------------------
\* The application stage of the TCP plane

NoApp ==
  /\ pl["tcp"].pc = "app" /\ app = "none"
  /\ Done("tcp", pl["tcp"].carrier)
  /\ UNCHANGED <<uplink, app, cursor, slot, mode, cyc, ka, others, events>>

\* next_url and next_target advance the shared cursor
NextUrl == (cursor % Urls) + 1

\* run_http_probe takes the warm pipe or dials a tunnel to the url's host
HttpStarts ==
  LET pipe == Taken("tcp", pl["tcp"].mode)
  IN  /\ pl["tcp"].pc = "app" /\ app = "http"
      /\ IsPipe(pipe) \/ Permit
      /\ cursor' = NextUrl
      /\ slot' = [slot EXCEPT !["tcp"] = NoPipe]
      /\ pl' = [pl EXCEPT !["tcp"].pc = IF IsPipe(pipe) THEN "exchange" ELSE "appdial",
                          !["tcp"].url = NextUrl, !["tcp"].pipe = pipe]
      /\ UNCHANGED <<uplink, app, mode, cyc, ka, others, events>>

\* The tls and tunnel probes always dial
run_tls_probe ==
  /\ pl["tcp"].pc = "app" /\ app = "tls" /\ Permit
  /\ cursor' = NextUrl
  /\ pl' = [pl EXCEPT !["tcp"].pc = "appdial", !["tcp"].url = NextUrl]
  /\ UNCHANGED <<uplink, app, slot, mode, cyc, ka, others, events>>

run_tcp_tunnel_probe ==
  /\ pl["tcp"].pc = "app" /\ app = "tunnel" /\ Permit
  /\ pl' = [pl EXCEPT !["tcp"].pc = "appdial", !["tcp"].url = 1]
  /\ UNCHANGED <<uplink, app, cursor, slot, mode, cyc, ka, others, events>>

connect_probe_tcp(p) ==
  /\ pl[p].pc = "appdial"
  /\ IF uplink = "up"
     THEN pl' = [pl EXCEPT ![p].pc = "exchange", ![p].pipe = Fresh(pl[p].url, pl[p].mode)]
     ELSE Done(p, FALSE)
  /\ UNCHANGED <<uplink, app, cursor, slot, mode, cyc, ka, others, events>>

Answered(p) == uplink = "up" /\ pl[p].pipe.alive

\* The request is written, the answer read; the pipe is kept only after a whole
\* answer from a server that keeps the connection
exchange_http_probe ==
  \E server_will_close \in BOOLEAN :
     /\ pl["tcp"].pc = "exchange" /\ app = "http"
     /\ slot' = IF Answered("tcp") /\ ~server_will_close THEN put_back("tcp", pl["tcp"].pipe)
                                                         ELSE slot
     /\ Done("tcp", Answered("tcp"))
     /\ UNCHANGED <<uplink, app, cursor, mode, cyc, ka, others, events>>

drive_tls_handshake ==
  /\ pl["tcp"].pc = "exchange" /\ app = "tls"
  /\ Done("tcp", Answered("tcp"))
  /\ UNCHANGED <<uplink, app, cursor, slot, mode, cyc, ka, others, events>>

exchange_tcp_tunnel_probe ==
  /\ pl["tcp"].pc = "exchange" /\ app = "tunnel"
  /\ Done("tcp", Answered("tcp"))
  /\ UNCHANGED <<uplink, app, cursor, slot, mode, cyc, ka, others, events>>

-----------------------------------------------------------------------------
\* The application stage of the UDP plane

NoDns ==
  /\ pl["udp"].pc = "app" /\ ~Dns
  /\ Done("udp", pl["udp"].carrier)
  /\ UNCHANGED <<uplink, app, cursor, slot, mode, cyc, ka, others, events>>

\* run_dns_probe tries the warm transport with half of the budget
DnsWarm ==
  /\ pl["udp"].pc = "app" /\ Dns /\ ~pl["udp"].warm /\ peek_matches("udp", pl["udp"].mode)
  /\ slot' = [slot EXCEPT !["udp"] = NoPipe]
  /\ pl' = [pl EXCEPT !["udp"].pc = "exchange", !["udp"].warm = TRUE,
                      !["udp"].pipe = slot["udp"], !["udp"].url = 1]
  /\ UNCHANGED <<uplink, app, cursor, mode, cyc, ka, others, events>>

DnsDials ==
  /\ pl["udp"].pc = "app" /\ Dns /\ Permit
  /\ pl["udp"].warm \/ ~peek_matches("udp", pl["udp"].mode)
  /\ pl' = [pl EXCEPT !["udp"].pc = "appdial", !["udp"].url = 1]
  /\ UNCHANGED <<uplink, app, cursor, slot, mode, cyc, ka, others, events>>

\* A warm transport that failed is followed by a fresh dial
FreshFollows == pl["udp"].warm /\ pl["udp"].pc = "exchange"

DnsExchange ==
  LET stale == FreshFollows /\ ~Answered("udp")
  IN  /\ pl["udp"].pc = "exchange"
      /\ slot' = IF Answered("udp") THEN put_back("udp", pl["udp"].pipe) ELSE slot
      /\ IF stale
         THEN pl' = [pl EXCEPT !["udp"].pc = "redial", !["udp"].pipe = NoPipe]
         ELSE Done("udp", Answered("udp"))
      /\ UNCHANGED <<uplink, app, cursor, mode, cyc, ka, others, events>>

DnsRedials ==
  /\ pl["udp"].pc = "redial" /\ Permit
  /\ pl' = [pl EXCEPT !["udp"].pc = "appdial", !["udp"].warm = FALSE, !["udp"].url = 1]
  /\ UNCHANGED <<uplink, app, cursor, slot, mode, cyc, ka, others, events>>

-----------------------------------------------------------------------------
\* tick_warm_probe_keepalive: the UDP slot, then the TCP slot.  An http request is
\* built, and the cursor moved, even when the slot turns out to be empty.

KeepaliveTakes(p) ==
  /\ Keepalive /\ ka.pc = "at" /\ ka.plane = p
  /\ ka' = [ka EXCEPT !.pc = "wait", !.pipe = IF IsPipe(slot[p])
                                             THEN [slot[p] EXCEPT !.clean = FALSE]
                                             ELSE NoPipe]
  /\ cursor' = IF p = "tcp" /\ app = "http" THEN NextUrl ELSE cursor
  /\ slot' = [slot EXCEPT ![p] = NoPipe]
  /\ UNCHANGED <<uplink, app, mode, pl, cyc, others, events>>

\* Only a pipe whose answer was read whole goes back
Kept(p) ==
  IF uplink = "up" /\ ka.pipe.alive THEN put_back(p, [ka.pipe EXCEPT !.clean = TRUE]) ELSE slot

KeepaliveEnds(p) ==
  /\ ka.pc = "wait" /\ ka.plane = p
  /\ slot' = Kept(p)
  /\ ka' = [pc |-> "at", plane |-> CHOOSE q \in Planes \ {p} : TRUE, pipe |-> NoPipe]
  /\ UNCHANGED <<uplink, app, cursor, mode, pl, cyc, others, events>>

-----------------------------------------------------------------------------
\* The network

UplinkTurns(s) ==
  /\ events > 0 /\ s # uplink
  /\ uplink' = s /\ events' = events - 1
  /\ cyc' = [cyc EXCEPT !.clean = FALSE]
  /\ UNCHANGED <<app, cursor, slot, mode, pl, ka, others>>

\* The server closes an idle warm pipe
PipeDies(p) ==
  /\ events > 0 /\ IsPipe(slot[p]) /\ slot[p].alive
  /\ slot' = [slot EXCEPT ![p].alive = FALSE] /\ events' = events - 1
  /\ UNCHANGED <<uplink, app, cursor, mode, pl, cyc, ka, others>>

ModeMoves(p) ==
  /\ events > 0
  /\ mode' = [mode EXCEPT ![p] = 1 - @] /\ events' = events - 1
  /\ UNCHANGED <<uplink, app, cursor, slot, pl, cyc, ka, others>>

\* A dial to another, silent uplink takes a permit, or gives it back
OthersDial ==
  /\ Cardinality(Holding) + others < Permits /\ others < Others
  /\ others' = others + 1
  /\ UNCHANGED <<uplink, app, cursor, slot, mode, pl, cyc, ka, events>>

OthersEnd ==
  /\ others > 0 /\ others' = others - 1
  /\ UNCHANGED <<uplink, app, cursor, slot, mode, pl, cyc, ka, events>>

Init ==
  /\ uplink = "up" /\ app \in Apps /\ cursor = 0 /\ events = MaxEvents
  /\ slot = [p \in Planes |-> NoPipe] /\ others = 0
  /\ ka = [pc |-> "at", plane |-> "udp", pipe |-> NoPipe]
  /\ mode = [p \in Planes |-> 0]
  /\ pl = [p \in Planes |-> NoProbe]
  /\ cyc = [pc |-> "sleep", n |-> 0, attempt |-> 0, skipped |-> 0, clean |-> FALSE, tcp |-> FALSE,
            udp |-> FALSE, verdict |-> "none"]

ProbeSteps ==
  \/ AttemptEnds \/ CycleEnds \/ NoApp \/ HttpStarts \/ exchange_http_probe
  \/ run_tls_probe \/ drive_tls_handshake \/ run_tcp_tunnel_probe \/ exchange_tcp_tunnel_probe
  \/ NoDns \/ DnsWarm \/ DnsDials \/ DnsExchange \/ DnsRedials
  \/ \E p \in Planes :
       CarrierSkipped(p) \/ CarrierDials(p) \/ CarrierAnswers(p) \/ connect_probe_tcp(p)
       \/ StageTimesOut(p)

Next ==
  \/ CycleStarts \/ CycleSkipped \/ ProbeSteps \/ OthersDial \/ OthersEnd
  \/ \E p \in Planes : KeepaliveTakes(p) \/ KeepaliveEnds(p) \/ PipeDies(p) \/ ModeMoves(p)
  \/ \E s \in {"up", "silent", "down"} : UplinkTurns(s)

Spec == Init /\ [][Next]_vars

\* Every stage is cut by its timeout
FairSpec == Spec /\ WF_vars(ProbeSteps)

-----------------------------------------------------------------------------
\* An uplink that served throughout the cycle is not reported as failing because
\* a warm pipe had been closed while idle or the keepalive loop used it
\* (run_dns_probe's fresh dial, the attempts of probe_all).
HealthyNotBlamed == (cyc.verdict \in {"fail", "unreachable"}) => ~cyc.clean

\* A pipe in a slot has nothing outstanding: the next request on it reads its own
\* answer (keepalive_tick, the stash rules of run_http_probe and run_dns_probe).
SlotIsClean == \A p \in Planes : IsPipe(slot[p]) => slot[p].clean

Attempting == cyc.pc = "attempt"
Reported == cyc.pc = "sleep"

\* A cycle ends with a verdict, whoever holds the dial permits (probe_dial_limit).
CycleReports == Attempting ~> Reported

=============================================================================
