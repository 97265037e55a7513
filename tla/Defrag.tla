------------------------------- MODULE Defrag -------------------------------
(***************************************************************************)
(* TunDefragmenter: IPv4 and IPv6 reassembly on the way out of the TUN.    *)
(* Lengths are in fragment units; byte p of a datagram is written <<v, p>> *)
(* with v the datagram it was cut from, because two datagrams of one       *)
(* sender may share an identification.  A header or prefix is one byte.    *)
(***************************************************************************)
EXTENDS Integers, Sequences, FiniteSets, FiniteSetsExt, SequencesExt

CONSTANTS Keys,      \* reassembly keys, [family, id]
          Versions,  \* datagrams cut under one key
          MaxOffset, \* offsets are 0..MaxOffset
          MaxLen,    \* payload lengths of a fragment are 1..MaxLen
          MaxSets, MaxPerSet, MaxBytesPerSet, MaxTotal, \* the four limits
          Timeout    \* REASSEMBLY_TIMEOUT = CLEANUP_INTERVAL, in ticks

VARIABLES sets,      \* key -> fragment set, NoSet when there is none
          total_buffered_bytes,
          next_cleanup, \* ticks to next_cleanup_at
          out        \* the packet the last push returned, <<>> when none

vars == <<sets, total_buffered_bytes, next_cleanup, out>>

NoSet == [live |-> FALSE, header |-> FALSE, shape |-> 0, chunks |-> <<>>,
          total |-> -1, ttl |-> 0]

Fragments ==
    [key : Keys, version : Versions, offset : 0..MaxOffset, len : 1..MaxLen,
     more : BOOLEAN, shape : {1, 2}]

(* inspect_ipv4: what is neither offset nor followed is no fragment.       *)
IsFragment(f) == f.key.family = "v4" => (f.offset # 0 \/ f.more)

Init ==
    /\ sets = [k \in Keys |-> NoSet]
    /\ total_buffered_bytes = 0
    /\ next_cleanup = Timeout
    /\ out = <<>>

Chunk(f) == [offset |-> f.offset,
             data |-> [j \in 1..f.len |-> <<f.version, f.offset + j - 1>>]]
End(c) == c.offset + Len(c.data)

(* insert_chunk: position, duplicate and overlap against the sorted list.  *)
Position(cs, c) == Cardinality({j \in 1..Len(cs) : c.offset >= End(cs[j])}) + 1
Overlaps(cs, c) ==
    \E j \in 1..Len(cs) : c.offset < End(cs[j]) /\ cs[j].offset < End(c)
DuplicateExact(cs, c) == \E j \in 1..Len(cs) : cs[j] = c

(* chunks_are_complete: no hole from 0 to the declared length.             *)
chunks_are_complete(cs, total) ==
    /\ \A j \in 1..Len(cs) : cs[j].offset = IF j = 1 THEN 0 ELSE End(cs[j - 1])
    /\ total = IF cs = <<>> THEN 0 ELSE End(Last(cs))

is_complete(s) == s.header /\ s.total # -1 /\ chunks_are_complete(s.chunks, s.total)

build_packet(s) == FlattenSeq([j \in 1..Len(s.chunks) |-> s.chunks[j].data])

estimated_bytes(s) == (IF s.header THEN 1 ELSE 0) + Len(build_packet(s))

recalculate_total_buffered_bytes(ss) ==
    MapThenSumSet(LAMBDA k : IF ss[k].live THEN estimated_bytes(ss[k]) ELSE 0, Keys)

(* run_maintenance_at, before every push: sweep_expired when it is due.    *)
Maintained ==
    IF next_cleanup > 0 THEN sets
    ELSE [k \in Keys |-> IF sets[k].ttl > 0 THEN sets[k] ELSE NoSet]
SweptBytes == IF Maintained = sets THEN total_buffered_bytes
              ELSE recalculate_total_buffered_bytes(Maintained)
Cleaned == IF next_cleanup > 0 THEN next_cleanup ELSE Timeout

(* The set fragment f finds, or the one made for it.                       *)
SetFor(ss, f) ==
    IF ss[f.key].live THEN ss[f.key]
    ELSE [NoSet EXCEPT !.live = TRUE, !.header = f.key.family = "v6",
                       !.shape = f.shape, !.ttl = Timeout]
WithHeader(s, f) == [s EXCEPT !.header = @ \/ f.offset = 0]
Added(s, c) == [s EXCEPT !.chunks = InsertAt(@, Position(@, c), c), !.ttl = Timeout]

(* remove_ipv4_set, remove_ipv6_set.                                       *)
RemoveSet(ss, k, bytes) ==
    LET left == [ss EXCEPT ![k] = NoSet] IN
    sets' = left /\ total_buffered_bytes' = recalculate_total_buffered_bytes(left)

(* A chunk joins set s1 of its key: an exact duplicate only renews the      *)
(* deadline, an overlap, a second length or a limit drops the whole set,   *)
(* the last missing chunk completes it.                                    *)
Join(ss, f, s1, before) ==
    LET c == Chunk(f)
        s2 == Added(s1, c)
        s3 == IF f.more THEN s2 ELSE [s2 EXCEPT !.total = End(c)]
        bytes == before + f.len
        inconsistent == ~f.more /\ s1.total # -1 /\ s1.total # End(c)
        limited == \/ Len(s3.chunks) > MaxPerSet
                   \/ estimated_bytes(s3) > MaxBytesPerSet
                   \/ bytes > MaxTotal IN
    IF DuplicateExact(s1.chunks, c)
    THEN /\ sets' = [ss EXCEPT ![f.key] = [s1 EXCEPT !.ttl = Timeout]]
         /\ total_buffered_bytes' = before
         /\ out' = <<>>
    ELSE IF Overlaps(s1.chunks, c) \/ inconsistent \/ limited
    THEN RemoveSet(ss, f.key, bytes) /\ out' = <<>>
    ELSE IF is_complete(s3)
    THEN RemoveSet(ss, f.key, bytes) /\ out' = build_packet(s3)
    ELSE /\ sets' = [ss EXCEPT ![f.key] = s3]
         /\ total_buffered_bytes' = bytes
         /\ out' = <<>>

(* The header is kept, and charged, with the first fragment at offset 0.   *)
handle_ipv4_fragment(ss, f) ==
    LET s0 == SetFor(ss, f)
        s1 == WithHeader(s0, f) IN
    Join(ss, f, s1, SweptBytes + (IF s1.header /\ ~s0.header THEN 1 ELSE 0))

(* The prefix is charged with the set, and a later one must agree with it. *)
handle_ipv6_fragment(ss, f) ==
    LET s1 == SetFor(ss, f)
        before == SweptBytes + (IF ss[f.key].live THEN 0 ELSE 1) IN
    IF s1.shape # f.shape
    THEN RemoveSet(ss, f.key, before) /\ out' = <<>>
    ELSE Join(ss, f, s1, before)

(* push of a fragment: maintenance, the limit on sets, the family's rules. *)
push(f) ==
    LET ss == Maintained
        room == ss[f.key].live \/ Cardinality({k \in Keys : ss[k].live}) < MaxSets IN
    /\ IsFragment(f)
    /\ next_cleanup' = Cleaned
    /\ \/ /\ ~room
          /\ sets' = ss
          /\ total_buffered_bytes' = SweptBytes
          /\ out' = <<>>
       \/ room /\ f.key.family = "v4" /\ handle_ipv4_fragment(ss, f)
       \/ room /\ f.key.family = "v6" /\ handle_ipv6_fragment(ss, f)

(* The periodic task, and the passage of time.                             *)
run_maintenance ==
    /\ next_cleanup = 0
    /\ sets' = Maintained
    /\ total_buffered_bytes' = SweptBytes
    /\ next_cleanup' = Timeout
    /\ out' = <<>>

Tick ==
    /\ \/ next_cleanup > 0
       \/ \E k \in Keys : sets[k].ttl > 0
    /\ next_cleanup' = Max({0, next_cleanup - 1})
    /\ sets' = [k \in Keys |-> [sets[k] EXCEPT !.ttl = Max({0, @ - 1})]]
    /\ out' = <<>>
    /\ UNCHANGED total_buffered_bytes

Next == (\E f \in Fragments : push(f)) \/ run_maintenance \/ Tick

Spec == Init /\ [][Next]_vars

-----------------------------------------------------------------------------
(* The byte total the global limit is compared with is what the sets hold, *)
(* whichever way fragments came, were dropped, completed or timed out.     *)
BytesAccounted == total_buffered_bytes = recalculate_total_buffered_bytes(sets)

(* A packet that leaves the reassembler has each byte where its sender put *)
(* it, with no hole and no byte twice, whatever order, duplication or mix  *)
(* of datagrams the fragments arrived in.                                  *)
ReassemblyExact == \A p \in 1..Len(out) : out[p][2] = p - 1
=============================================================================
