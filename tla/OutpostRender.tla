---------------------------- MODULE OutpostRender ---------------------------
(***************************************************************************)
(* The two decodes of an outpost capture in embarch-core                   *)
(* (src/src/outpost_manifest.rs): render, of the file's live segment once  *)
(* the tap is closed, and LiveDecoder, of each frame as it arrives, written *)
(* or not; and what the study's index then says of the rendering           *)
(* (src/src/study.rs).                                                     *)
(*                                                                         *)
(* A capture is a sequence of frames [what, seq, cycles, flags].  The wire *)
(* format is embarch-study-designer's: a frame is a header of the build    *)
(* that the manifest describes ("header") or of another ("stranger"),      *)
(* records, records of which the rest cannot be read ("half"), a frame     *)
(* that is longer than the live decoder takes ("long") or one that fails   *)
(* its CRC ("bad").  A frame of records holds one, with the low Wrap       *)
(* values of the DUT's cycle counter.                                      *)
(***************************************************************************)
EXTENDS Integers, Sequences, FiniteSets, SequencesExt, FiniteSetsExt

Wrap == 16      \* the cycle counter's 2^32
SeqMax == 256   \* a frame's sequence number is a byte
NoRow == -1     \* a column that stays empty

Header == {"header", "stranger"}
Records == {"records", "half", "long"}

-----------------------------------------------------------------------------
(* What both have in common                                                *)

\* Unwrapper::absolute: the counter goes on by the difference to its last value.
Unwrapped(last, low) == IF last = NoRow THEN low ELSE last + ((low - last) % Wrap)

RowOf(index, frame, ms, at, dated, named) ==
    [frame |-> index, seq |-> frame.seq, ms |-> ms, at |-> at, dated |-> dated, named |-> named]

\* OutpostManifest::check, of a manifest that the flash has bound
Applies(bound, frame) == bound /\ frame.what = "header"

-----------------------------------------------------------------------------
(* render                                                                  *)

\* The first header in the capture, wherever it is, is looked for before the
\* first row is written.
HeaderOf(capture, i) == {j \in DOMAIN capture : capture[j].what \in Header}

Found(capture) == HeaderOf(capture, Len(capture))

\* One frame: those that do not decode keep their index, and are missing from
\* the sequence numbers.
RenderFrame(acc, i, capture, stamps, bound) ==
    LET frame == capture[i]
        headers == HeaderOf(capture, i)
        applied == headers # {} /\ Applies(bound, capture[Min(headers)])
        ms == IF i <= stamps THEN i ELSE NoRow
        at == Unwrapped(acc.at, frame.cycles)
        counted == [acc EXCEPT
            !.frames = @ + 1,
            !.lost = @ + IF acc.seq = NoRow THEN 0 ELSE (frame.seq - acc.seq - 1) % SeqMax,
            !.seq = frame.seq]
    IN  CASE frame.what = "bad" -> [acc EXCEPT !.bad = @ + 1]
          [] frame.what \in Header -> counted
          [] frame.what \in Records ->
                [counted EXCEPT
                    !.stamped = @ + IF ms = NoRow THEN 0 ELSE 1,
                    !.at = at,
                    !.bad = @ + IF frame.what = "half" THEN 1 ELSE 0,
                    !.rows = Append(@, RowOf(i - 1, frame, ms, at, headers # {}, applied))]

Nothing == [frames |-> 0, bad |-> 0, lost |-> 0, stamped |-> 0, seq |-> NoRow, at |-> NoRow,
            rows |-> <<>>]

Render(capture, stamps, bound) ==
    FoldLeft(LAMBDA acc, i : RenderFrame(acc, i, capture, stamps, bound), Nothing,
             [i \in DOMAIN capture |-> i])

Named(capture, bound) ==
    Found(capture) # {} /\ Applies(bound, capture[Min(Found(capture))])

\* render_outpost_traces: what the tap's entry in the index says afterwards.
Entry(capture, stamps, bound) ==
    LET outcome == Render(capture, stamps, bound)
    IN  [named |-> Named(capture, bound),
         timed |-> outcome.stamped > 0,
         selfExcluded |-> IF Found(capture) = {} THEN "unknown"
                          ELSE ~capture[Min(Found(capture))].traceSelf,
         noted |-> \/ ~Named(capture, bound)
                   \/ outcome.stamped = 0 /\ outcome.frames > 0
                   \/ Found(capture) # {} /\ ~capture[Min(Found(capture))].traceSelf]

-----------------------------------------------------------------------------
(* LiveDecoder                                                             *)

Blank == [index |-> 0, seen |-> FALSE, applied |-> FALSE, at |-> NoRow, out |-> <<>>]

\* Mutant: a frame that does not decode has no index.
IndexOfDecoded(live, frame) == IF frame.what \in {"bad", "long"} THEN live.index ELSE live.index + 1

\* Every run between delimiters has one.
NextIndex(live, frame) == live.index + 1

\* decode: a frame past the bound has lost its end by now and fails its CRC.
Decode(live, frame) ==
    LET next == [live EXCEPT !.index = NextIndex(live, frame)]
        at == Unwrapped(live.at, frame.cycles)
    IN  CASE frame.what \in {"bad", "long"} -> next
          [] frame.what \in Header ->
                [next EXCEPT !.seen = TRUE,
                             !.applied = IF live.seen THEN @ ELSE frame.what = "header"]
          [] frame.what \in {"records", "half"} ->
                [next EXCEPT
                    !.at = at,
                    !.out = Append(@, RowOf(live.index, frame, 0, at, live.seen, live.applied))]

\* push: the frames that have been ended by a delimiter.
Live(frames, bound) ==
    LET live == FoldLeft(Decode, Blank, frames)
    IN  [live EXCEPT !.out = [i \in DOMAIN @ |-> [@[i] EXCEPT !.named = @ /\ bound]]]

-----------------------------------------------------------------------------
(* The captures                                                            *)

\* What a DUT sends, and what becomes of it: a frame may be lost on the way.
Kinds == Header \cup Records \cup {"bad", "lost"}
Sent == UNION {[1 .. n -> Kinds] : n \in 1 .. 4}

\* The low part of the cycle counter, which moves on by five with each frame;
\* the sequence numbers begin just before they wrap.
Cycles(n) == 9 + 5 * n
FrameOf(sent, n) ==
    [what |-> sent[n], seq |-> (253 + n) % SeqMax, cycles |-> Cycles(n) % Wrap,
     traceSelf |-> FALSE]

Captured(sent) ==
    LET frames == [n \in DOMAIN sent |-> FrameOf(sent, n)]
    IN  SelectSeq(frames, LAMBDA f : f.what # "lost")

\* What render finds of it: the live segment, which begins with the frame at cut,
\* or within it and then with what does not decode, and lacks the frame whose raw
\* append failed.
Complete == [cut |-> 1, through |-> FALSE, failed |-> 0]
Damage(capture) ==
    [cut : DOMAIN capture, through : BOOLEAN, failed : {0} \cup DOMAIN capture]

Kept(capture, damage) ==
    SelectSeq([n \in DOMAIN capture |-> n],
              LAMBDA n : n >= damage.cut /\ n # damage.failed)

File(capture, damage) ==
    LET kept == Kept(capture, damage)
    IN  [i \in DOMAIN kept |->
            IF kept[i] = damage.cut /\ damage.through
            THEN [capture[kept[i]] EXCEPT !.what = "bad"] ELSE capture[kept[i]]]

-----------------------------------------------------------------------------
(* Properties                                                              *)

Same(l, r) == l.seq = r.seq /\ l.at % Wrap = r.at % Wrap

\* What has been pushed live of a tap whose file is complete is what the
\* rendering will say: the same record at the same index and time (the cycle
\* counter is counted on from the first record that is decoded), with less of a
\* name and a date and never with another.
LiveIsKept(capture, bound, ended) ==
    LET live == Live(SubSeq(capture, 1, ended), bound).out
        rows == Render(File(capture, Complete), 0, bound).rows
    IN  \A i \in DOMAIN live : \E j \in DOMAIN rows :
            /\ live[i].frame = rows[j].frame /\ Same(live[i], rows[j])
            /\ (\A n \in DOMAIN capture : capture[n].what # "long") => live[i].at = rows[j].at
            /\ live[i].dated => rows[j].dated
            /\ live[i].named => rows[j].named

\* What is rendered, also of a file that has rotated or lacks a frame, has been
\* pushed live, but for the frames that were too long and the one whose delimiter
\* has not come; its index then is less by the frames that are not before it.
RenderedWasLive(capture, bound, ended, damage) ==
    LET live == Live(SubSeq(capture, 1, ended), bound).out
        rows == Render(File(capture, damage), 0, bound).rows
    IN  \A j \in DOMAIN rows : \A n \in {Kept(capture, damage)[rows[j].frame + 1]} :
            \/ \E i \in DOMAIN live : live[i].frame = n - 1 /\ Same(live[i], rows[j])
            \/ n > ended
            \/ capture[n].what = "long"

\* The index says a trace is named if and only if its rows are, also those that
\* came before the header, and timed if a row has a time; what it lacks, the
\* note says.
EntryIsTrue(capture, stamps, bound) ==
    LET rows == Render(capture, stamps, bound).rows
        entry == Entry(capture, stamps, bound)
    IN  /\ \A i \in DOMAIN rows : rows[i].named = entry.named
        /\ entry.timed = (\E i \in DOMAIN rows : rows[i].ms # NoRow)
        /\ (\E i \in DOMAIN rows : ~rows[i].named \/ ~entry.timed) => entry.noted

\* Every frame of the DUT's between the first and the last that decode is among
\* the frames or the lost ones, over the wrap of their numbers.
FramesAddUp(sent) ==
    LET decoded == {n \in DOMAIN sent : sent[n] \in Header \cup Records}
        outcome == Render(Captured(sent), 0, FALSE)
    IN  decoded # {} => outcome.frames + outcome.lost = Max(decoded) - Min(decoded) + 1

\* The two decodes and the index agree, whatever frames are damaged, too long,
\* lost or cut off, and wherever the header is; if the file has rotated or an
\* append failed, as far as RenderedWasLive says (render, LiveDecoder::push,
\* render_outpost_traces).
TracesAgree ==
    \A sent \in Sent :
        LET capture == Captured(sent) IN
        /\ FramesAddUp(sent)
        /\ \A bound \in BOOLEAN :
              /\ \A ended \in {Len(capture), Len(capture) - 1} \cap Nat :
                    /\ LiveIsKept(capture, bound, ended)
                    /\ RenderedWasLive(capture, bound, ended, Complete)
              /\ \A stamps \in {0, 1, Len(capture)} : EntryIsTrue(capture, stamps, bound)
        /\ \A damage \in Damage(capture) :
              RenderedWasLive(capture, FALSE, Len(capture), damage)

\* "What the two agree on exactly is frame_index": a row that is pushed live and
\* rendered has the same one in both, also in a file that has rotated.
IndicesAgree ==
    \A sent \in Sent : LET capture == Captured(sent) IN
        \A damage \in Damage(capture) :
            LET live == Live(capture, FALSE).out
                rows == Render(File(capture, damage), 0, FALSE).rows
            IN  \A i \in DOMAIN live, j \in DOMAIN rows :
                    live[i].seq = rows[j].seq => live[i].frame = rows[j].frame
=============================================================================
