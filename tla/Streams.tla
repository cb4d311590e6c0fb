------------------------------ MODULE Streams ------------------------------
(***************************************************************************)
(* The files of one stream tap in embarch-core (src/src/stream_store.rs)   *)
(* and the two readers that join them again: the outpost trace's rendering *)
(* (outpost_manifest.rs) and the rebased offsets of a text console.        *)
(*                                                                         *)
(* Records arrive one by one.  Each is appended to the raw file, which     *)
(* rotates through two segments, and then stamped in the arrival sidecar,  *)
(* which does not rotate: by frame for an outpost trace, by byte offset    *)
(* for a text.  Any append may fail.  A byte carries, beside its value,    *)
(* the time it arrived: files do not have it, it is what the readers'      *)
(* answers are held against.  A record's time is its number.               *)
(***************************************************************************)
EXTENDS Integers, Sequences, SequencesExt, FiniteSetsExt

CONSTANTS
    Payload,        \* what a record may hold: runs of 0, the delimiter, and 1
    SegmentMax,     \* max_bytes of a segment
    MaxRecords      \* bound: how many records arrive

ASSUME PayloadAssumption == \A p \in Payload : p # <<>> /\ p \in Seq({0, 1})
ASSUME SegmentAssumption == SegmentMax \in Nat \ {0}
ASSUME BoundAssumption == MaxRecords \in Nat

VARIABLES
    arrivalKind,    \* ArrivalKind: "frames" or "bytes"
    arrived,        \* every byte the source delivered
    accepted,       \* those of them that a raw append took
    previous, live, \* the raw file's segments
    liveLen,        \* live_len, which a torn append leaves behind
    truncated,      \* a segment was deleted
    writeFailed,    \* write_failed
    torn,           \* whether a failed append left some of its bytes behind
    pending,        \* ArrivalLog.pending
    nextKey,        \* ArrivalLog.frames or .offset: the next row's key
    rows,           \* the sidecar
    clock           \* records so far

rawVars == <<accepted, previous, live, liveLen, truncated, writeFailed, torn>>
sidecarVars == <<pending, nextKey, rows>>
streamVars == <<arrivalKind, arrived, rawVars, sidecarVars, clock>>

TimedByte == [v : {0, 1}, at : 1 .. MaxRecords]
Row == [key : Nat, at : 1 .. MaxRecords, len : Nat \ {0}]

StreamTypeOK ==
    /\ arrivalKind \in {"frames", "bytes"}
    /\ \A file \in {arrived, accepted, previous, live} : file \in Seq(TimedByte)
    /\ liveLen \in 0 .. Len(live)
    /\ {truncated, writeFailed, torn} \subseteq BOOLEAN
    /\ pending \in 0 .. Len(arrived)
    /\ nextKey \in 0 .. Len(arrived)
    /\ rows \in Seq(Row)
    /\ clock \in 0 .. MaxRecords

StreamInit ==
    /\ arrivalKind \in {"frames", "bytes"}
    /\ arrived = <<>>
    /\ accepted = <<>>
    /\ previous = <<>>
    /\ live = <<>>
    /\ liveLen = 0
    /\ truncated = FALSE
    /\ writeFailed = FALSE
    /\ torn = FALSE
    /\ pending = 0
    /\ nextKey = 0
    /\ rows = <<>>
    /\ clock = 0

Stamped(p, t) == [i \in DOMAIN p |-> [v |-> p[i], at |-> t]]

-----------------------------------------------------------------------------
(* SegmentedFile                                                           *)

MustRotate(p) == liveLen > 0 /\ liveLen + Len(p) > SegmentMax

\* Mutant: the deleted segment is not remembered.
RotateQuietly ==
    /\ previous' = live
    /\ UNCHANGED truncated

\* The live segment becomes the previous one, and that one stops existing.
Rotate ==
    /\ previous' = live
    /\ truncated' = (truncated \/ previous # <<>>)

\* The append goes through, after a rotation if one is due.
AppendWhole(p, bytes) ==
    /\ IF MustRotate(p)
       THEN /\ Rotate
            /\ live' = bytes
            /\ liveLen' = Len(bytes)
       ELSE /\ live' = live \o bytes
            /\ liveLen' = liveLen + Len(bytes)
            /\ UNCHANGED <<previous, truncated>>
    /\ accepted' = accepted \o bytes
    /\ UNCHANGED <<writeFailed, torn>>

\* The append fails, after a rotation if one was due; a write may have put
\* some of the record down before it failed, which live_len does not count.
AppendFails(p, bytes) ==
    /\ \E n \in 0 .. Len(bytes) - 1 :
        /\ IF MustRotate(p)
           THEN Rotate /\ live' = SubSeq(bytes, 1, n) /\ liveLen' = 0
           ELSE /\ live' = live \o SubSeq(bytes, 1, n)
                /\ UNCHANGED <<previous, truncated, liveLen>>
        /\ torn' = (torn \/ n > 0)
    /\ writeFailed' = TRUE
    /\ UNCHANGED accepted

\* A rotation cannot delete the previous segment, or it can, and then cannot
\* rename the live one.
RotateFails(p) ==
    /\ MustRotate(p)
    /\ previous' \in {previous, <<>>}
    /\ truncated' = (truncated \/ previous' # previous)
    /\ writeFailed' = TRUE
    /\ UNCHANGED <<accepted, live, liveLen, torn>>

\* StreamRef.truncated, as far as it is the store's own doing.
RefTruncated == truncated \/ writeFailed

-----------------------------------------------------------------------------
(* ArrivalLog: note and the append of what it returns                      *)

\* One byte, for whoever counts frames: the runs between delimiters.
Feed(acc, b) ==
    IF b.v # 0 THEN [acc EXCEPT !.pending = @ + 1]
    ELSE IF acc.pending = 0 THEN acc
    ELSE [done |-> Append(acc.done, [len |-> acc.pending, at |-> b.at]), pending |-> 0]

Frames(start, bytes) ==
    LET upTo[n \in 0 .. Len(bytes)] ==
            IF n = 0 THEN [done |-> <<>>, pending |-> start] ELSE Feed(upTo[n - 1], bytes[n])
    IN  upTo[Len(bytes)]

\* The rows are numbered whether or not their append succeeds.
NoteFrames(bytes) ==
    LET got == Frames(pending, bytes)
        new == [i \in DOMAIN got.done |->
                    [key |-> nextKey + i - 1, at |-> got.done[i].at, len |-> got.done[i].len]]
    IN  /\ pending' = got.pending
        /\ nextKey' = nextKey + Len(new)
        /\ rows' \in {rows, rows \o new}

NoteBytes(bytes) ==
    /\ rows' \in {rows, Append(rows, [key |-> nextKey, at |-> bytes[1].at, len |-> Len(bytes)])}
    /\ nextKey' = nextKey + Len(bytes)
    /\ UNCHANGED pending

NoteArrival(bytes) == IF arrivalKind = "frames" THEN NoteFrames(bytes) ELSE NoteBytes(bytes)

\* write_stream_record: raw first, then the stamp, under the store's lock; a
\* record that the raw file did not take gets no row.
Arrive(p) ==
    LET bytes == Stamped(p, clock + 1) IN
    /\ clock < MaxRecords
    /\ clock' = clock + 1
    /\ arrived' = arrived \o bytes
    /\ \/ AppendWhole(p, bytes) /\ NoteArrival(bytes)
       \/ AppendFails(p, bytes) /\ UNCHANGED sidecarVars
       \/ RotateFails(p) /\ UNCHANGED sidecarVars
    /\ UNCHANGED arrivalKind

StreamNext == \E p \in Payload : Arrive(p)

StreamSpec == StreamInit /\ [][StreamNext]_streamVars

-----------------------------------------------------------------------------
(* The readers                                                             *)

\* read_capture
Served == previous \o live

\* outpost::chunks: the runs between delimiters, an unfinished last one too.
\* A chunk's time is the arrival of the delimiter that ended it.
Chunks(bytes) ==
    LET got == Frames(0, bytes)
    IN  IF got.pending = 0 THEN got.done
        ELSE Append(got.done, [len |-> got.pending, at |-> 0])

\* Mutant: rows are taken in their order, holes or not.
KeptAcrossHoles == rows

\* ArrivalIndex::read: the rows before the first hole.
Kept == SubSeq(rows, 1, Cardinality({i \in DOMAIN rows : rows[i].key = i - 1}))

\* offset_for: the capture's first frame is the log's first, or the two end
\* together; lengths must agree on two frames at least.
Aligned(log, chunks, off) ==
    LET overlap == Min({Len(chunks), Len(log) - off})
    IN  /\ overlap >= 2
        /\ \A i \in 1 .. overlap : log[off + i].len = chunks[i].len

Offsets(log, chunks) ==
    LET end == Max({0, Len(log) - Len(chunks)})
    IN  IF Aligned(log, chunks, 0) THEN {0}
        ELSE {off \in {end} : Aligned(log, chunks, off)}

\* render decodes the live segment, and stamps its frames from the log.
\* Every stamp that it gives is the time its frame arrived.
StampsAreTrue ==
    LET log == Kept
        chunks == Chunks(live)
    IN  \A off \in Offsets(log, chunks), i \in DOMAIN chunks :
            off + i <= Len(log) => log[off + i].at = chunks[i].at

\* rebase_byte_arrivals: the log says how long the capture was, the raw file
\* how much of it is left; the rows are cut and shifted by the difference.
Rebase(log, rawLen) ==
    LET captured == Max({0} \cup {r.key + r.len : r \in ToSet(log)})
        deleted == Max({0, captured - rawLen})
        start(r) == Max({0, r.key - deleted})
    IN  {[key |-> start(r), at |-> r.at, len |-> r.key + r.len - deleted - start(r)] :
            r \in {q \in ToSet(log) : q.key + q.len > deleted}}

-----------------------------------------------------------------------------
(* Properties                                                              *)

\* Nothing the source delivered goes missing from what is served without
\* StreamRef.truncated saying so, be it by rotation or by a failed append; and what
\* is served is the end of what the raw file took, in the order it came, across
\* rotations that succeeded, half succeeded or failed.
LossIsSaid ==
    /\ StreamTypeOK
    /\ Len(Served) < Len(arrived) => RefTruncated
    /\ ~torn => IsSuffix(Served, accepted)

\* A trace that never rotated is stamped right or not at all; a console's rebased
\* row names the served bytes that arrived at its time, as long as the sidecar has
\* the last record's row.  Whichever other rows of the sidecar were lost
\* (ArrivalIndex, rebase_bytes).  A sidecar that was read before the raw file's
\* length, with records between the two, dates no byte later than it arrived.
LastRowKept == nextKey = IF rows = <<>> THEN 0 ELSE Last(rows).key + Last(rows).len

StampsAreRight ==
    /\ arrivalKind = "frames" /\ ~torn /\ previous = <<>> /\ ~truncated => StampsAreTrue
    /\ arrivalKind = "bytes" /\ ~torn =>
          \A n \in 0 .. Len(rows) : \A r \in Rebase(SubSeq(rows, 1, n), Len(Served)) :
              \A i \in r.key + 1 .. r.key + r.len :
                  /\ i \in DOMAIN Served /\ Served[i].at >= r.at
                  /\ n = Len(rows) /\ LastRowKept => Served[i].at = r.at
=============================================================================
