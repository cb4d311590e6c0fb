----------------------------- MODULE HostCounts -----------------------------
(***************************************************************************)
(* The line counts of a finished host study in embarch-core                *)
(* (src/src/host_counts.rs, and render_counts_for in                       *)
(* src/src/host_study.rs): which lines of a console match a count's        *)
(* pattern, and in which pass of which Repeat they came.                   *)
(*                                                                         *)
(* A console's bytes are "x", which the pattern looks for, "." or "nl".  A *)
(* row of its arrival sidecar is [from, at], the first byte of a record    *)
(* and when it came; Streams shows that the rows still fit a file that has *)
(* rotated.  A marker [k, pass, at] is the start of a pass of the k-th     *)
(* Repeat, and a span [from, to] the time that Repeat ran.                 *)
(***************************************************************************)
EXTENDS Integers, Sequences, FiniteSets, SequencesExt, FiniteSetsExt

NoTime == -1
Outside == <<0, 0>>

\* split_lines: where the lines begin, an unfinished last one too.
LineStarts(raw) == {i \in DOMAIN raw : i = 1 \/ raw[i - 1] = "nl"}

\* LineCount::count, of one line
Matches(raw, start) ==
    \E i \in start .. Len(raw) : raw[i] = "x" /\ \A j \in start .. i - 1 : raw[j] # "nl"

\* Mutant: a line has the time of the record that begins in it.
StampOfNext(rows, offset) ==
    LET after == {i \in DOMAIN rows : rows[i].from >= offset}
    IN  IF after = {} THEN NoTime ELSE rows[Min(after)].at

\* stamp_of: a line's time is that of the record with its first byte.
StampOf(rows, offset) ==
    LET before == {i \in DOMAIN rows : rows[i].from <= offset}
    IN  IF before = {} THEN NoTime ELSE rows[Max(before)].at

\* pass_at: the pass that was begun last.
PassAt(markers, k, t) == Max({0} \cup {m.pass : m \in {n \in markers : n.k = k /\ n.at <= t}})

\* The first Repeat whose span holds the time, and its pass.
Home(markers, spans, t) ==
    LET inside == {k \in DOMAIN spans : spans[k].from <= t /\ t <= spans[k].to}
    IN  IF t = NoTime \/ inside = {} \/ PassAt(markers, Min(inside), t) = 0 THEN Outside
        ELSE <<Min(inside), PassAt(markers, Min(inside), t)>>

\* render, of one count
View(raw, rows, markers, spans) ==
    LET hits == {s \in LineStarts(raw) : Matches(raw, s)}
        HomeOf(s) == Home(markers, spans, StampOf(rows, s))
    IN  [total |-> Cardinality(hits),
         tapLines |-> Cardinality(LineStarts(raw)),
         passes |-> [m \in markers |-> Cardinality({s \in hits : HomeOf(s) = <<m.k, m.pass>>})],
         outside |-> Cardinality({s \in hits : HomeOf(s) = Outside})]

\* render_counts_for: what a run left in its directory, and the count asked for.
Answer(dir, count) ==
    LET Refused(code) == [code |-> code]
    IN  CASE ~dir.kept -> Refused(404)
          [] dir.kept /\ ~dir.finished -> Refused(409)
          [] dir.kept /\ dir.finished /\ count.tap \notin dir.taps -> Refused(400)
          [] dir.kept /\ dir.finished /\ count.tap \in dir.taps
                /\ dir.raw # <<>> /\ (dir.rows = <<>> \/ ~count.compiles) -> Refused(400)
          [] OTHER -> [code |-> 200, view |-> View(dir.raw, dir.rows, dir.markers, dir.spans)]

-----------------------------------------------------------------------------
(* The runs: a console of three bytes, cut into records in every way, of    *)
(* which some may have lost their row, and two Repeats, of two passes and    *)
(* of one, each behind its own delay.                                       *)

Consoles == UNION {[1 .. n -> {"x", ".", "nl"}] : n \in 0 .. 3}

\* The n-th record comes at time 2n; its row's append may fail.
Cuts(raw) == IF raw = <<>> THEN {{}} ELSE {{1} \cup cut : cut \in SUBSET (2 .. Len(raw))}
RowsOf(cut, lost) ==
    LET froms == SetToSortSeq(cut, LAMBDA a, b : a < b)
        kept == SelectSeq([n \in DOMAIN froms |-> n], LAMBDA n : froms[n] \notin lost)
    IN  [i \in DOMAIN kept |-> [from |-> froms[kept[i]], at |-> 2 * kept[i]]]

Runs == {r \in [1 .. 7 -> {0, 2, 3, 6}] :
            r[2] < r[3] /\ \A n \in 1 .. 6 : r[n] <= r[n + 1]}
Markers(r) == {[k |-> 1, pass |-> 1, at |-> r[2]], [k |-> 1, pass |-> 2, at |-> r[3]],
               [k |-> 2, pass |-> 1, at |-> r[6]]}
Spans(r) == <<[from |-> r[1], to |-> r[4]], [from |-> r[5], to |-> r[7]]>>

\* The record of a byte, and when it came, whatever the rows are taken to say
RecordOf(cut, i) == Max({c \in cut : c <= i})
CameAt(cut, i) == 2 * Cardinality({c \in cut : c <= i})

\* When a pass was the one that ran, its ends included
Lasts(r, m) == CASE m.k = 1 /\ m.pass = 1 -> r[2] .. r[3]
                 [] m.k = 1 /\ m.pass = 2 -> r[3] .. r[4]
                 [] m.k = 2 -> r[6] .. r[7]

\* A line that matches is counted once, in a pass that ran when its first byte
\* came, or outside of all if none did; but one whose record has no row anywhere.
LinesAreCounted(raw, cut, r, lost, view) ==
    LET hits == {s \in LineStarts(raw) : Matches(raw, s)}
        anywhere == {s \in hits : RecordOf(cut, s) \in lost}
        During(m) == {s \in hits : CameAt(cut, s) \in Lasts(r, m)}
        Others(m) == UNION {During(n) : n \in Markers(r) \ {m}}
        outside == hits \ UNION {During(m) : m \in Markers(r)}
    IN  /\ view.outside + MapThenSumSet(LAMBDA m : view.passes[m], Markers(r)) = view.total
        /\ view.total = Cardinality(hits)
        /\ \A m \in Markers(r) :
              view.passes[m] \in Cardinality(During(m) \ (Others(m) \cup anywhere))
                                 .. Cardinality(During(m) \cup anywhere)
        /\ view.outside \in Cardinality(outside \ anywhere) .. Cardinality(outside \cup anywhere)

ViewOf(raw, cut, r, lost) ==
    Answer([kept |-> TRUE, finished |-> TRUE, taps |-> {"console"}, raw |-> raw,
            rows |-> RowsOf(cut, lost), markers |-> Markers(r), spans |-> Spans(r)],
           [tap |-> "console", compiles |-> TRUE])

\* Whatever the reads cut a console into, its lines are counted once and where they
\* came, but those whose row is missing (render, split_lines, stamp_of); a console
\* of which no row is there is not counted.
CountsAreTrue ==
    \A raw \in Consoles : \A cut \in Cuts(raw) : \A lost \in SUBSET cut : \A r \in Runs :
        LET answer == ViewOf(raw, cut, r, lost)
        IN  IF cut \ lost = {} /\ raw # <<>> THEN answer.code = 400
            ELSE answer.code = 200 /\ LinesAreCounted(raw, cut, r, lost, answer.view)

\* "Losing a row here costs the time on those frames": the line of a record without
\* a row would be outside of all passes, not in another's.
LostRowsGoUntimed ==
    \A raw \in Consoles : \A cut \in Cuts(raw) : \A lost \in SUBSET cut \ {cut} : \A r \in Runs :
        LET view == ViewOf(raw, cut, r, lost).view
            timed == {s \in LineStarts(raw) : Matches(raw, s) /\ RecordOf(cut, s) \notin lost}
        IN  MapThenSumSet(LAMBDA m : view.passes[m], Markers(r)) <= Cardinality(timed)
=============================================================================
