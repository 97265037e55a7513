------------------------------ MODULE VlessMux ------------------------------
(***************************************************************************)
(* The server's VLESS mux: one carrier, several sub-connections, each with *)
(* a reader task of its own.  All readers, and the frame handler with its  *)
(* End replies, write into the carrier's one channel; the first of them    *)
(* carries the response header, which HeldResponseHeader keeps in a slot   *)
(* behind a mutex.  When the carrier goes away the relay harvests the      *)
(* sub-connections one by one and parks those that are still alive; the    *)
(* next carrier attaches them again.                                       *)
(***************************************************************************)
EXTENDS Integers, Sequences, FiniteSets

CONSTANTS
    Ids,         \* sub-connection ids the client uses
    MaxSubs,     \* MAX_MUX_SUB_CONNS
    Units,       \* data units each target sends
    ChanCap,     \* messages the carrier's channel holds
    MaxCarriers, \* carriers of the session
    MaxFrames,   \* frames the client sends per carrier
    Faults       \* subset of {"connect", "write", "eof", "junk"}

VARIABLES
    phase,       \* "live", "harvest", "parked", "down"
    carrier,     \* number of the carrier
    subs,        \* id -> sub-connection
    held,        \* the held header: slot, sent, and who holds the mutex
    relay,       \* the frame handler's own send, if it is in one
    chan, writer, seen,
    frames,      \* frames the client sent on this carrier
    todo, kept   \* harvest: subs still to stop, subs to park

vars == <<phase, carrier, subs, held, relay, chan, writer, seen, frames, todo, kept>>

Relay == "relay"
Nobody == "nobody"
Senders == Ids \cup {Relay}

NoFrame == [id |-> Nobody, end |-> FALSE]
NoSub == [open |-> FALSE, task |-> "none", read |-> 0, frame |-> NoFrame, cancel |-> FALSE]
Quiet == [task |-> "none", frame |-> NoFrame]
NewHeader == [slot |-> TRUE, sent |-> FALSE, lock |-> Nobody]

Init ==
    /\ phase = "live" /\ carrier = 1
    /\ subs = [i \in Ids |-> NoSub]
    /\ held = NewHeader
    /\ relay = Quiet
    /\ chan = <<>> /\ writer = "ok" /\ seen = <<>>
    /\ frames = 0 /\ todo = {} /\ kept = {}

OpenIds == {i \in Ids : subs[i].open}

---------------------------------------------------------------------------
(* send_downlink: a sender has a frame and is in one of four places:       *)
(* "check" the sent flag, "wait" for the mutex, "carry" (holds the mutex,  *)
(* waits for room with the header in front), "plain" (waits for room).     *)

Task(s) == IF s = Relay THEN relay.task ELSE subs[s].task
FrameOf(s) == IF s = Relay THEN relay.frame ELSE subs[s].frame

Move(s, to) ==
    IF s = Relay
    THEN /\ relay' = IF to = "none" THEN Quiet ELSE [relay EXCEPT !.task = to]
         /\ UNCHANGED subs
    ELSE subs' = [subs EXCEPT ![s].task = to] /\ UNCHANGED relay

\* Where a sender goes once its frame is queued: the relay to its next frame, a
\* reader to its next read, or to its end after its End frame.
After(s) == IF s = Relay THEN "none" ELSE IF FrameOf(s).end THEN "closed" ELSE "read"

\* Where it goes when the channel is closed.  The relay's error is fatal.
Broken(s) == IF s = Relay THEN "fatal" ELSE "closed"

CheckSent(s) ==
    /\ Task(s) = "check"
    /\ Move(s, IF held.sent THEN "plain" ELSE "wait")
    /\ UNCHANGED <<phase, carrier, held, chan, writer, seen, frames, todo, kept>>

\* Mutant: the header is taken from its slot without the mutex.
TakeUnlocked(s) ==
    /\ Task(s) = "wait"
    /\ IF held.slot
       THEN held' = [held EXCEPT !.slot = FALSE] /\ Move(s, "carry")
       ELSE UNCHANGED held /\ Move(s, "plain")
    /\ UNCHANGED <<phase, carrier, chan, writer, seen, frames, todo, kept>>

LockSlot(s) ==
    /\ Task(s) = "wait" /\ held.lock = Nobody
    /\ IF held.slot
       THEN held' = [held EXCEPT !.lock = s] /\ Move(s, "carry")
       ELSE UNCHANGED held /\ Move(s, "plain")
    /\ UNCHANGED <<phase, carrier, chan, writer, seen, frames, todo, kept>>

Room == writer # "dead" /\ Len(chan) < ChanCap

SendCarrying(s) ==
    /\ Task(s) = "carry" /\ Room
    /\ chan' = Append(chan, [hdr |-> TRUE, frame |-> FrameOf(s)])
    /\ held' = [slot |-> FALSE, sent |-> TRUE, lock |-> Nobody]
    /\ Move(s, After(s))
    /\ UNCHANGED <<phase, carrier, writer, seen, frames, todo, kept>>

SendPlain(s) ==
    /\ Task(s) = "plain" /\ Room
    /\ chan' = Append(chan, [hdr |-> FALSE, frame |-> FrameOf(s)])
    /\ Move(s, After(s))
    /\ UNCHANGED <<phase, carrier, held, writer, seen, frames, todo, kept>>

\* Releasing the mutex with the task that held it.
Released(dead) ==
    IF held.lock \in dead THEN [held EXCEPT !.lock = Nobody] ELSE held

SendFails(s) ==
    /\ Task(s) \in {"carry", "plain"} /\ writer = "dead"
    /\ held' = Released({s})
    /\ Move(s, Broken(s))
    /\ UNCHANGED <<phase, carrier, chan, writer, seen, frames, todo, kept>>

---------------------------------------------------------------------------
(* Frames of the client.                                                   *)

send_end(i) ==
    /\ relay' = [task |-> "check", frame |-> [id |-> i, end |-> TRUE]]
    /\ UNCHANGED <<subs, held>>

\* A sub-connection opens with its reader task.
Opened(i) == [NoSub EXCEPT !.open = TRUE, !.task = "read"]

\* A duplicate id, a full table and a failed connect answer with End.
handle_new(i) ==
    IF subs[i].open \/ Cardinality(OpenIds) >= MaxSubs THEN send_end(i)
    ELSE \/ subs' = [subs EXCEPT ![i] = Opened(i)] /\ UNCHANGED <<relay, held>>
         \/ "connect" \in Faults /\ send_end(i)

\* The sub leaves the table and its reader task is aborted, wherever it is.
finish_sub(i) ==
    /\ subs' = [subs EXCEPT ![i] = NoSub]
    /\ held' = Released({i})
    /\ UNCHANGED relay

\* Data for a sub that is gone is ignored; a failed write finishes the sub and
\* tells the client nothing.
handle_keep(i) ==
    \/ UNCHANGED <<subs, held, relay>>
    \/ "write" \in Faults /\ subs[i].open /\ finish_sub(i)

\* The relay handles one frame at a time, to its end.
handle_client_bytes ==
    /\ phase = "live" /\ relay.task = "none" /\ frames < MaxFrames
    /\ frames' = frames + 1
    /\ \E i \in Ids : handle_new(i) \/ handle_keep(i) \/ finish_sub(i)
    /\ UNCHANGED <<phase, carrier, chan, writer, seen, todo, kept>>

\* A frame that does not parse, a failed initial write or a failed End reply
\* ends the session without a park: every reader is aborted with the state.
FrameError ==
    /\ phase = "live"
    /\ relay.task = "fatal" \/ ("junk" \in Faults /\ relay.task = "none")
    /\ phase' = "down"
    /\ subs' = [i \in Ids |-> NoSub]
    /\ held' = Released(Senders)
    /\ relay' = Quiet
    /\ UNCHANGED <<carrier, chan, writer, seen, frames, todo, kept>>

---------------------------------------------------------------------------
(* Reader tasks and the writer.                                            *)

ReadUnit(i) ==
    /\ subs[i].task = "read" /\ ~subs[i].cancel /\ subs[i].read < Units
    /\ subs' = [subs EXCEPT ![i].read = @ + 1, ![i].task = "check",
                            ![i].frame = [id |-> i, end |-> FALSE]]
    /\ UNCHANGED <<phase, carrier, held, relay, chan, writer, seen, frames, todo, kept>>

ReadEof(i) ==
    /\ "eof" \in Faults
    /\ subs[i].task = "read" /\ ~subs[i].cancel
    /\ subs' = [subs EXCEPT ![i].task = "check", ![i].frame = [id |-> i, end |-> TRUE]]
    /\ UNCHANGED <<phase, carrier, held, relay, chan, writer, seen, frames, todo, kept>>

ReadCancelled(i) ==
    /\ subs[i].task = "read" /\ subs[i].cancel
    /\ subs' = [subs EXCEPT ![i].task = "cancelled"]
    /\ UNCHANGED <<phase, carrier, held, relay, chan, writer, seen, frames, todo, kept>>

WriterSends ==
    /\ writer = "ok" /\ chan # <<>>
    /\ chan' = Tail(chan)
    /\ seen' = Append(seen, Head(chan))
    /\ UNCHANGED <<phase, carrier, subs, held, relay, writer, frames, todo, kept>>

WriterDies ==
    /\ writer = "ok" /\ phase # "parked"
    /\ writer' = "dead" /\ chan' = <<>>
    /\ UNCHANGED <<phase, carrier, subs, held, relay, seen, frames, todo, kept>>

---------------------------------------------------------------------------
(* Park and attach.                                                        *)

\* The receive side ends between two frames.
CarrierEnds ==
    /\ phase = "live" /\ relay.task = "none"
    /\ IF OpenIds = {} THEN phase' = "down" /\ UNCHANGED todo
       ELSE phase' = "harvest" /\ todo' = OpenIds
    /\ kept' = {}
    /\ UNCHANGED <<carrier, subs, held, relay, chan, writer, seen, frames>>

\* harvest_into_parked takes the subs one after another: ask one to stop ...
StopOne(i) ==
    /\ phase = "harvest" /\ i \in todo
    /\ \A j \in todo : ~subs[j].cancel
    /\ subs' = [subs EXCEPT ![i].cancel = TRUE]
    /\ UNCHANGED <<phase, carrier, held, relay, chan, writer, seen, frames, todo, kept>>

\* ... and wait for its reader: one that ended by itself is dropped.
JoinOne(i) ==
    /\ phase = "harvest" /\ i \in todo /\ subs[i].cancel
    /\ subs[i].task \in {"cancelled", "closed"}
    /\ todo' = todo \ {i}
    /\ IF subs[i].task = "cancelled"
       THEN kept' = kept \cup {i} /\ UNCHANGED subs
       ELSE UNCHANGED kept /\ subs' = [subs EXCEPT ![i] = NoSub]
    /\ UNCHANGED <<phase, carrier, held, relay, chan, writer, seen, frames>>

HarvestEnds ==
    /\ phase = "harvest" /\ todo = {}
    /\ phase' = IF kept = {} THEN "down" ELSE "parked"
    /\ chan' = <<>> /\ writer' = "dead"
    /\ UNCHANGED <<carrier, subs, held, relay, seen, frames, todo, kept>>

Attached(i) == [subs[i] EXCEPT !.task = "read", !.cancel = FALSE, !.frame = NoFrame]

\* A new carrier resumes: fresh channel and header, a new reader per sub.
attach_parked ==
    /\ phase = "parked" /\ carrier < MaxCarriers
    /\ phase' = "live" /\ carrier' = carrier + 1
    /\ subs' = [i \in Ids |-> IF i \in kept THEN Attached(i) ELSE NoSub]
    /\ held' = NewHeader /\ relay' = Quiet
    /\ chan' = <<>> /\ writer' = "ok" /\ seen' = <<>> /\ frames' = 0
    /\ kept' = {}
    /\ UNCHANGED todo

---------------------------------------------------------------------------

SenderStep(s) == CheckSent(s) \/ LockSlot(s) \/ SendCarrying(s) \/ SendPlain(s) \/ SendFails(s)

ReaderStep(i) == ReadUnit(i) \/ ReadCancelled(i) \/ StopOne(i) \/ JoinOne(i)

Next ==
    \/ \E s \in Senders : SenderStep(s)
    \/ \E i \in Ids : ReaderStep(i) \/ ReadEof(i)
    \/ handle_client_bytes \/ FrameError
    \/ WriterSends \/ WriterDies
    \/ CarrierEnds \/ HarvestEnds \/ attach_parked

Spec == Init /\ [][Next]_vars

\* Tasks run, and the writer of a carrier that is not dead sends.
FairSpec ==
    /\ Spec
    /\ \A s \in Senders : WF_vars(SenderStep(s))
    /\ \A i \in Ids : WF_vars(ReadCancelled(i) \/ StopOne(i) \/ JoinOne(i))
    /\ WF_vars(WriterSends) /\ WF_vars(HarvestEnds)

---------------------------------------------------------------------------

\* The client reads the response header first and once, whichever of the
\* concurrent writers of the carrier's channel came first.
HeaderLeads == \A n \in DOMAIN seen : seen[n].hdr <=> n = 1

\* A parked sub-connection has no reader left: its next carrier starts the only
\* one, and nothing of the old carrier holds the header's mutex.
ParkedAreQuiet ==
    phase = "parked" =>
        /\ \A i \in kept : subs[i].task = "cancelled"
        /\ \A i \in Ids \ kept : subs[i] = NoSub
        /\ held.lock = Nobody

Harvesting == phase = "harvest"
Harvested == phase \in {"parked", "down"}

\* A harvest ends: no reader, with or without the header's mutex, keeps the
\* relay of a lost carrier waiting for ever.
HarvestCompletes == Harvesting ~> Harvested

=============================================================================
