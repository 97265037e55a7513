------------------------------ MODULE UplinkState ------------------------------
(***************************************************************************)
(* StateStore of crates/outline-uplink/src/state.rs: the selections an     *)
(* uplink group wants to find again after a restart.  Changes go to memory *)
(* under a mutex and ring a Notify; one writer task takes the ring, waits  *)
(* until no further one comes for 200 ms, clones the state and replaces    *)
(* the file by rename.                                                     *)
(***************************************************************************)
EXTENDS Integers, Sequences

CONSTANTS Keys,       \* what is stored: active slots and enabled flags
          Values,     \* the values stored under them
          Default,    \* the value of a key no one has stored
          MaxFailures, MaxCrash

VARIABLES store,      \* PersistedState in memory
          permit,     \* the Notify's permit
          writer,     \* "wait", "debounce", "clone", "write", "rename"
          copy,       \* the snapshot being written
          tmp,        \* the temporary file, written to its end or not
          disk,       \* the state file
          unsaved,    \* the last write failed
          held,       \* every state the store has ever had
          failures, crashes

vars == <<store, permit, writer, copy, tmp, disk, unsaved, held, failures, crashes>>
files == <<tmp, disk, unsaved>>

Empty == [k \in Keys |-> Default]
Whole(data) == [whole |-> TRUE, data |-> data]
Partial == [whole |-> FALSE, data |-> Empty]

\* Mutant: the ring is lost on a writer that is not waiting for it
UpdateUnheard(k, v) ==
  /\ store' = [store EXCEPT ![k] = v]
  /\ held' = held \cup {store'}
  /\ permit' = (permit \/ (store[k] # v /\ writer \in {"wait", "debounce"}))
  /\ UNCHANGED <<writer, copy, files, failures, crashes>>

\* update_active, update_uplink_enabled: only a change rings
Update(k, v) ==
  /\ store' = [store EXCEPT ![k] = v]
  /\ held' = held \cup {store'}
  /\ permit' = (permit \/ store[k] # v)
  /\ UNCHANGED <<writer, copy, files, failures, crashes>>

\* spawn_writer: wait for a ring, then absorb the ones that follow it
WriterWakes ==
  /\ writer = "wait" /\ permit
  /\ permit' = FALSE /\ writer' = "debounce"
  /\ UNCHANGED <<store, copy, files, held, failures, crashes>>

Debounce ==
  /\ writer = "debounce"
  /\ IF permit THEN UNCHANGED writer ELSE writer' = "clone"
  /\ permit' = FALSE
  /\ UNCHANGED <<store, copy, files, held, failures, crashes>>

Clone ==
  /\ writer = "clone"
  /\ copy' = store /\ writer' = "write"
  /\ UNCHANGED <<store, permit, files, held, failures, crashes>>

\* write_atomic: create or truncate the temporary file, write it, sync it
WriteTmp ==
  /\ writer = "write"
  /\ IF ~tmp.whole THEN tmp' = Whole(copy) /\ writer' = "rename"
     ELSE tmp' = Partial /\ UNCHANGED writer
  /\ UNCHANGED <<store, permit, copy, disk, unsaved, held, failures, crashes>>

\* ... and rename it over the state file
Rename ==
  /\ writer = "rename"
  /\ disk' = tmp /\ tmp' = Whole(Empty) /\ unsaved' = FALSE
  /\ writer' = "wait"
  /\ UNCHANGED <<store, permit, copy, held, failures, crashes>>

\* Any step of write_atomic may fail: a warning, and the writer waits again
WriteFails ==
  /\ writer \in {"write", "rename"}
  /\ failures < MaxFailures
  /\ failures' = failures + 1
  /\ unsaved' = TRUE /\ writer' = "wait"
  /\ UNCHANGED <<store, permit, copy, tmp, disk, held, crashes>>

\* The process dies; load_or_default reads the file of the next one, and
\* falls back to an empty state when it does not parse
Restart ==
  /\ crashes < MaxCrash
  /\ crashes' = crashes + 1
  /\ store' = IF disk.whole THEN disk.data ELSE Empty
  /\ held' = {store'}
  /\ permit' = FALSE /\ writer' = "wait" /\ copy' = Empty
  /\ unsaved' = FALSE
  /\ UNCHANGED <<tmp, disk, failures>>

Init ==
  /\ store = Empty /\ disk = Whole(Empty) /\ copy = Empty /\ held = {Empty}
  /\ permit = FALSE /\ writer = "wait" /\ tmp = Whole(Empty)
  /\ unsaved = FALSE /\ failures = 0 /\ crashes = 0

WriterStep == WriterWakes \/ Debounce \/ Clone \/ WriteTmp \/ Rename

Next ==
  \/ \E k \in Keys, v \in Values : Update(k, v)
  \/ WriterStep
  \/ WriteFails
  \/ Restart

\* The writer task runs whenever it can, and the changes pause for 200 ms
\* once in a while (SF: a debounce that keeps hearing rings does not end).
DebounceEnds == Debounce /\ ~permit
FairSpec ==
  /\ Init /\ [][Next]_vars
  /\ WF_vars(WriterStep)
  /\ SF_vars(DebounceEnds)

-----------------------------------------------------------------------------
\* The state file is at every moment a state the process has really had, or
\* the one it started from: neither a crash nor a failed write leaves part of
\* one (write_atomic).
FileIsWhole == disk.whole /\ disk.data \in held

Stored(k, v) == store[k] = v
SavedOrMoved(k, v) == disk.data[k] = v \/ store[k] # v \/ unsaved

\* A change is not forgotten: a value that stays in the store reaches the file,
\* however the change falls around a write in progress and whatever changes to
\* other keys come after it, unless the write fails (the permit of Notify in
\* spawn_writer; a failed write is only logged, and the next change retries it).
DiskCatchesUp == \A k \in Keys, v \in Values : Stored(k, v) ~> SavedOrMoved(k, v)
=============================================================================
