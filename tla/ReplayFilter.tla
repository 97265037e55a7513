---------------------------- MODULE ReplayFilter ----------------------------
(***************************************************************************)
(* The server's replay filters: the SS-2022 packet windows and the legacy  *)
(* salts of ReplayStore (server/replay.rs), and the TCP handshake salts of *)
(* SaltReplayStore (server/salt_replay.rs), as the datagram and handshake  *)
(* paths call them.                                                        *)
(*                                                                         *)
(* A call checks one item: <<"window", sid, pid>>, <<"legacy", salt>> or   *)
(* <<"tcp", salt>>.  Calls run concurrently and every map operation is a   *)
(* step.  A window is an object: a call may still mark one the sweep has   *)
(* removed from the map.  The bitmap is kept word by word, WordBits bits   *)
(* to the word, as the code shifts it; 1024 bits are Words * WordBits.     *)
(***************************************************************************)
EXTENDS Integers, FiniteSets, FiniteSetsExt

CONSTANTS Calls,       \* concurrent callers
          Users, Sids, Pids, Salts,
          WindowIds,   \* identities of window objects
          WordBits, Words,
          MaxSessions, \* max_sessions, and max_salts of the TCP store
          MaxPerUser,  \* max_sessions_per_user
          None

VARIABLES
  windows,    \* entries: client session id -> window, or None
  win,        \* the window objects in use
  salts,      \* legacy_salts: salt -> owner, or None
  tcp_salts,  \* SaltReplayStore.entries
  quota,      \* per_user: user -> slots
  owed,       \* released: slots the running sweep has yet to hand back
  retaining,  \* the sweep still scans (or is idle), it hands back afterwards
  call,       \* caller -> the item it checks and how far it is
  fresh,      \* history: how often a salt passed since its record expired (0, 1,
              \* 2 for more)
  open        \* history: the salts a full TCP store let through since then

filterVars == <<windows, win, salts, tcp_salts, quota, owed, retaining,
                call, fresh, open>>

WINDOW_BITS == Words * WordBits
Items == ({"window"} \X Sids \X Pids) \cup ({"legacy", "tcp"} \X Salts)

ZeroBitmap == [i \in 0..(Words - 1) |-> 0]
NewWindow(u) == [owner |-> u, highest |-> 0, bitmap |-> ZeroBitmap,
                 initialised |-> FALSE, passed |-> {}]
NoWindow == NewWindow(None)
NoCall == [pc |-> "idle", item |-> None, user |-> None, w |-> None]

Init ==
  /\ windows = [x \in Sids |-> None]
  /\ win = [w \in WindowIds |-> NoWindow]
  /\ salts = [z \in Salts |-> None]
  /\ tcp_salts = {}
  /\ quota = [u \in Users |-> 0]
  /\ owed = [u \in Users |-> 0]
  /\ retaining = TRUE
  /\ call = [c \in Calls |-> NoCall]
  /\ fresh = [i \in {"legacy", "tcp"} \X Salts |-> 0]
  /\ open = {}

-----------------------------------------------------------------------------
(* ReplayWindow.                                                           *)
Bit(bm, o) == (bm[o \div WordBits] \div 2^(o % WordBits)) % 2
set_bit(bm, o) == IF Bit(bm, o) = 1 THEN bm
                  ELSE [bm EXCEPT ![o \div WordBits] = @ + 2^(o % WordBits)]

(* Mutant: the bits carried out of the word below are lost.                *)
ShiftWithoutCarry(bm, n) ==
  IF n >= WINDOW_BITS THEN ZeroBitmap
  ELSE [i \in 0..(Words - 1) |->
          IF i < n \div WordBits THEN 0
          ELSE (bm[i - n \div WordBits] * 2^(n % WordBits)) % 2^WordBits]

shift_left(bm, n) ==
  LET ws == n \div WordBits
      bs == n % WordBits
      carry(src) == IF bs # 0 /\ src >= 1 THEN bm[src - 1] \div 2^(WordBits - bs) ELSE 0
  IN IF n >= WINDOW_BITS THEN ZeroBitmap
     ELSE [i \in 0..(Words - 1) |->
             IF i < ws THEN 0
             ELSE ((bm[i - ws] * 2^bs) % 2^WordBits) + carry(i - ws)]

Accepts(x, pid) ==
  \/ ~x.initialised \/ pid > x.highest
  \/ x.highest - pid < WINDOW_BITS /\ Bit(x.bitmap, x.highest - pid) = 0

(* ReplayWindow::check_and_mark on an accepted id; passed is history.      *)
Marked(x, pid) ==
  LET y == [x EXCEPT !.passed = @ \cup {pid}, !.initialised = TRUE] IN
  IF ~x.initialised
  THEN [y EXCEPT !.highest = pid, !.bitmap = set_bit(ZeroBitmap, 0)]
  ELSE IF pid > x.highest
  THEN [y EXCEPT !.highest = pid,
                 !.bitmap = set_bit(shift_left(x.bitmap, pid - x.highest), 0)]
  ELSE [y EXCEPT !.bitmap = set_bit(x.bitmap, x.highest - pid)]

-----------------------------------------------------------------------------
Return(c) == call' = [call EXCEPT ![c] = NoCall]
Goto(c, pc) == call' = [call EXCEPT ![c].pc = pc]

Held(w, cl) == \E c \in Calls : cl[c].w = w
Reap(wn, ws, cl) == [w \in WindowIds |->
  IF Held(w, cl) \/ \E x \in Sids : ws[x] = w THEN wn[w] ELSE NoWindow]

Passes(item) == fresh' = [fresh EXCEPT ![item] = IF @ < 2 THEN @ + 1 ELSE @]

(* A datagram or handshake that has authenticated as the user.             *)
Begin(c, item, u) ==
  /\ call[c] = NoCall
  /\ call' = [call EXCEPT ![c] = [pc |-> "get", item |-> item, user |-> u, w |-> None]]
  /\ UNCHANGED <<windows, win, salts, tcp_salts, quota, owed, fresh, open, retaining>>

Recorded(item) ==
  CASE item[1] = "window" -> windows[item[2]] # None
    [] item[1] = "legacy" -> salts[item[2]] # None
    [] item[1] = "tcp" -> item[2] \in tcp_salts

Size(kind) ==
  CASE kind = "window" -> Cardinality({x \in Sids : windows[x] # None})
    [] kind = "legacy" -> Cardinality({z \in Salts : salts[z] # None})
    [] kind = "tcp" -> Cardinality(tcp_salts)

(* The fast path: a known session goes on to its window, a known salt is a *)
(* replay.  A full UDP store drops the datagram; the full TCP store lets   *)
(* the handshake through unrecorded.                                       *)
Get(c) ==
  LET i == call[c].item IN
  /\ call[c].pc = "get"
  /\ \/ /\ Recorded(i)
        /\ IF i[1] = "window"
           THEN call' = [call EXCEPT ![c].pc = "mark", ![c].w = windows[i[2]]]
           ELSE Return(c)
        /\ UNCHANGED <<fresh, open>>
     \/ /\ ~Recorded(i) /\ Size(i[1]) >= MaxSessions
        /\ Return(c)
        /\ IF i[1] = "tcp" THEN Passes(i) /\ open' = open \cup {i}
                           ELSE UNCHANGED <<fresh, open>>
     \/ /\ ~Recorded(i) /\ Size(i[1]) < MaxSessions
        /\ Goto(c, IF i[1] = "tcp" THEN "insert" ELSE "reserve")
        /\ UNCHANGED <<fresh, open>>
  /\ UNCHANGED <<windows, win, salts, tcp_salts, quota, owed, retaining>>

reserve_user_slot(c) ==
  LET u == call[c].user IN
  /\ call[c].pc = "reserve"
  /\ \/ quota[u] >= MaxPerUser /\ Return(c) /\ UNCHANGED quota
     \/ /\ quota[u] < MaxPerUser
        /\ quota' = [quota EXCEPT ![u] = @ + 1]
        /\ Goto(c, "insert")
  /\ UNCHANGED <<windows, win, salts, tcp_salts, owed, fresh, open, retaining>>

Released(u) == [quota EXCEPT ![u] = IF @ > 0 THEN @ - 1 ELSE 0]

InsertWindow(c) ==
  LET x == call[c].item[2] IN
  /\ call[c].pc = "insert" /\ call[c].item[1] = "window"
  /\ \/ /\ windows[x] # None
        /\ quota' = Released(call[c].user)
        /\ call' = [call EXCEPT ![c].pc = "mark", ![c].w = windows[x]]
        /\ UNCHANGED <<windows, win, retaining>>
     \/ /\ windows[x] = None
        /\ LET w == Min({v \in WindowIds : win[v] = NoWindow}) IN
           /\ win' = [win EXCEPT ![w] = NewWindow(call[c].user)]
           /\ windows' = [windows EXCEPT ![x] = w]
           /\ call' = [call EXCEPT ![c].pc = "mark", ![c].w = w]
        /\ UNCHANGED quota
  /\ UNCHANGED <<salts, tcp_salts, owed, fresh, open, retaining>>

RacedSaltIsReplay(item) == UNCHANGED fresh

InsertLegacy(c) ==
  LET i == call[c].item IN
  /\ call[c].pc = "insert" /\ i[1] = "legacy"
  /\ \/ salts[i[2]] # None /\ quota' = Released(call[c].user)
        /\ RacedSaltIsReplay(i) /\ UNCHANGED salts
     \/ /\ salts[i[2]] = None
        /\ salts' = [salts EXCEPT ![i[2]] = call[c].user]
        /\ Passes(i)
        /\ UNCHANGED quota
  /\ Return(c)
  /\ UNCHANGED <<windows, win, tcp_salts, owed, open, retaining>>

InsertTcp(c) ==
  LET i == call[c].item IN
  /\ call[c].pc = "insert" /\ i[1] = "tcp"
  /\ \/ i[2] \in tcp_salts /\ RacedSaltIsReplay(i) /\ UNCHANGED tcp_salts
     \/ /\ i[2] \notin tcp_salts
        /\ tcp_salts' = tcp_salts \cup {i[2]}
        /\ Passes(i)
  /\ Return(c)
  /\ UNCHANGED <<windows, win, salts, quota, owed, open, retaining>>

(* The window lock: the packet passes, or is a replay or too old.          *)
Mark(c) ==
  LET w == call[c].w
      pid == call[c].item[3] IN
  /\ call[c].pc = "mark"
  /\ Return(c)
  /\ win' = Reap(IF Accepts(win[w], pid) THEN [win EXCEPT ![w] = Marked(@, pid)] ELSE win,
                 windows, call')
  /\ UNCHANGED <<windows, salts, tcp_salts, quota, owed, fresh, open, retaining>>

-----------------------------------------------------------------------------
(* sweep and evict_idle_at: time is abstract, any record may have expired. *)
Owe(u) == retaining /\ owed' = [owed EXCEPT ![u] = @ + 1]

EvictWindow(x) ==
  /\ windows[x] # None
  /\ Owe(win[windows[x]].owner)
  /\ windows' = [windows EXCEPT ![x] = None]
  /\ win' = Reap(win, windows', call)
  /\ UNCHANGED <<salts, tcp_salts, quota, call, fresh, open, retaining>>

EvictLegacy(z) ==
  /\ salts[z] # None
  /\ Owe(salts[z])
  /\ salts' = [salts EXCEPT ![z] = None]
  /\ fresh' = [fresh EXCEPT ![<<"legacy", z>>] = 0]
  /\ UNCHANGED <<windows, win, tcp_salts, quota, call, open, retaining>>

EvictTcp(z) ==
  /\ z \in tcp_salts
  /\ tcp_salts' = tcp_salts \ {z}
  /\ fresh' = [fresh EXCEPT ![<<"tcp", z>>] = 0]
  /\ open' = open \ {<<"tcp", z>>}
  /\ UNCHANGED <<windows, win, salts, quota, owed, call, retaining>>

HandBack(u) == quota' = Released(u)

SweepRelease(u) ==
  /\ owed[u] > 0
  /\ owed' = [owed EXCEPT ![u] = @ - 1]
  /\ HandBack(u)
  /\ retaining' = (\A v \in Users : owed'[v] = 0)
  /\ UNCHANGED <<windows, win, salts, tcp_salts, call, fresh, open>>

Next ==
  \/ \E c \in Calls, i \in Items, u \in Users : Begin(c, i, u)
  \/ \E c \in Calls : Get(c) \/ reserve_user_slot(c) \/ InsertWindow(c)
                      \/ InsertLegacy(c) \/ InsertTcp(c) \/ Mark(c)
  \/ \E x \in Sids : EvictWindow(x)
  \/ \E z \in Salts : EvictLegacy(z) \/ EvictTcp(z)
  \/ \E u \in Users : SweepRelease(u)

Spec == Init /\ [][Next]_filterVars

-----------------------------------------------------------------------------
(* The bitmap of a window in use, shifted word by word with its carries,   *)
(* is exactly the ids it has let pass within WINDOW_BITS of the highest -  *)
(* the definition of a sliding window.  So an id in the window passes once *)
(* and a fresh one is never refused.                                       *)
WindowExact ==
  \A w \in WindowIds : win[w].initialised =>
    /\ win[w].highest = Max(win[w].passed)
    /\ \A o \in 0..(WINDOW_BITS - 1) :
         Bit(win[w].bitmap, o) = IF win[w].highest - o \in win[w].passed THEN 1 ELSE 0

(* While a salt is recorded, one datagram or handshake that carries it has *)
(* passed, however many callers presented it at once, and none has passed  *)
(* unrecorded.  The exception is the documented one: a TCP salt that a     *)
(* full store has let through may pass again (tcp.rs 1058, fail-open).     *)
SaltPassesOnce ==
  \A i \in DOMAIN fresh \ open : fresh[i] <= 1 /\ (Recorded(i) <=> fresh[i] = 1)

(* The per-user counter over both UDP maps neither leaks nor is returned   *)
(* twice: it counts the user's records, the slots reserved for one being   *)
(* inserted and the slots the sweep still owes, within the user's share.   *)
QuotaExact ==
  \A u \in Users :
    /\ quota[u] = owed[u]
         + Cardinality({x \in Sids : windows[x] # None /\ win[windows[x]].owner = u})
         + Cardinality({z \in Salts : salts[z] = u})
         + Cardinality({c \in Calls : /\ call[c].pc = "insert" /\ call[c].user = u
                                      /\ call[c].item[1] # "tcp"})
    /\ quota[u] <= MaxPerUser
=============================================================================
