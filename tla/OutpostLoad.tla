----------------------------- MODULE OutpostLoad ----------------------------
(***************************************************************************)
(* The load answer of an outpost capture (src/src/outpost_load.rs): the    *)
(* rows of a rendered trace, the clock that dates them, the gaps they      *)
(* report, the spans of each subject, and the extents that are summed.     *)
(*                                                                         *)
(* A row is a record [frame, ms, us, kind, a, b, of]: the frame it came     *)
(* in, when that reached Core, its own stamp on the DUT, its kind and its  *)
(* arguments, of which a is the subject; and, which no answer looks at,     *)
(* what it is a record of.  Cycles go at one to the microsecond; names,     *)
(* labels and the CSV's text are left out, so that a row is parsed or not   *)
(* by what it is.  The rest of the module is the definition that the answer *)
(* is compared with: a schedule, and the trace of it from which records are *)
(* missing, said or not.                                                   *)
(***************************************************************************)
EXTENDS Integers, Sequences, FiniteSets, SequencesExt, FiniteSetsExt

NoStamp == -1
Dated(r) == r.us # NoStamp
Stamped(r) == r.ms # NoStamp
IsGap(r) == r.kind = "gap"

Dist(m, n) == IF m > n THEN m - n ELSE n - m
Extent(S) == IF S = {} THEN 0 ELSE Max(S) - Min(S)
Rows(rows, Test(_)) == {i \in DOMAIN rows : Test(rows[i])}

-----------------------------------------------------------------------------
(* The clock                                                               *)

\* dut_clock_health: the DUT's clock is broken if it steps by more than the
\* rows can have taken, as the host's clock says, or else the DUT's own.
Bound(rows) ==
    LET host == Extent({rows[i].ms : i \in Rows(rows, Stamped)}) * 1000
    IN  IF host > 0 THEN host ELSE Extent({rows[i].us : i \in Rows(rows, Dated)})

Clocked(r) == ~IsGap(r) /\ Dated(r)

Steps(rows) ==
    LET dated == SelectSeq(rows, Clocked)
    IN  {Dist(dated[k + 1].us, dated[k].us) : k \in 1 .. Len(dated) - 1}

Broken(rows) == \E step \in Steps(rows) : step > Bound(rows)

\* stale_prefix_end: a capture that opens with records from before a reset, no
\* more of them than come after it, begins behind the step.
StaleEnd(rows, maxRows, minStep) ==
    LET dated == SelectSeq([i \in DOMAIN rows |-> i], LAMBDA i : Clocked(rows[i]))
        Step(k) == Dist(rows[dated[k + 1]].us, rows[dated[k]].us)
        Rest(k) == SubSeq(rows, dated[k + 1], Len(rows))
        ends == {k \in 1 .. Len(dated) - 1 :
                    /\ k <= maxRows /\ k <= Len(dated) - k /\ Len(dated) - k >= 2
                    /\ Step(k) > minStep
                    /\ Step(k) > Bound(Rest(k)) /\ ~Broken(Rest(k))}
    IN  IF Broken(rows) /\ ends # {} THEN dated[Min(ends) + 1] - 1 ELSE 0

WithoutStale(rows, maxRows, minStep) ==
    SubSeq(rows, StaleEnd(rows, maxRows, minStep) + 1, Len(rows))

\* The DUT's own clock if it dates every row and is sound, the host's, or none.
Unit(rows) ==
    CASE rows = <<>> -> "frame"
      [] rows # <<>> /\ Rows(rows, Dated) = DOMAIN rows /\ ~Broken(rows) -> "us"
      [] rows # <<>> /\ (Rows(rows, Dated) # DOMAIN rows \/ Broken(rows))
            /\ Rows(rows, Stamped) = DOMAIN rows -> "ms"
      [] OTHER -> "frame"

Time(r, unit) == CASE unit = "us" -> r.us [] unit = "ms" -> r.ms [] unit = "frame" -> r.frame

-----------------------------------------------------------------------------
(* Gaps                                                                    *)

\* Mutant: without a DUT clock a gap is an instant.
GapFromItself(rows, r, unit) == Time(r, unit)

\* Without a DUT clock a gap reaches back to the frame before the one that
\* reports it.
GapFrom(rows, r, unit) ==
    LET before == {i \in DOMAIN rows : rows[i].frame # r.frame
                        /\ \A j \in 1 .. i : rows[j].frame # r.frame}
    IN  IF unit = "us" \/ before = {} THEN Time(r, unit)
        ELSE LET last == rows[Max(before)].frame
             IN  Time(rows[Min({i \in before : rows[i].frame = last})], unit)

\* With one it is the span that the record tells of, from its own stamp on.
Gap(rows, r, unit) ==
    [from |-> GapFrom(rows, r, unit),
     to |-> IF unit = "us" /\ r.us > 0 THEN r.us + r.b ELSE Time(r, unit)]

Gaps(rows, unit) == {Gap(rows, rows[i], unit) : i \in Rows(rows, IsGap)}

\* Bands in the order of their start, and of their end where that is the same.
ByStart(bands) ==
    LET Place(b) == Cardinality({x \in bands : \/ x[1] < b[1]
                                               \/ x[1] = b[1] /\ x[2] <= b[2]})
    IN  [n \in 1 .. Cardinality(bands) |-> CHOOSE b \in bands : Place(b) = n]

\* merged_gap_extent: sorted by their start, bands that touch are one.
MergedExtent(gaps, from, to) ==
    LET Clamped(g) == <<Max({g.from, from}), Min({g.to, to})>>
        bands == {b \in {Clamped(g) : g \in gaps} : b[1] < b[2]}
        Take(acc, b) ==
            IF acc.open /\ b[1] <= acc.hi
            THEN [acc EXCEPT !.hi = Max({@, b[2]})]
            ELSE [total |-> acc.total + acc.hi - acc.lo, open |-> TRUE, lo |-> b[1], hi |-> b[2]]
        end == FoldLeft(Take, [total |-> 0, open |-> FALSE, lo |-> 0, hi |-> 0],
                        ByStart(bands))
    IN  end.total + end.hi - end.lo

-----------------------------------------------------------------------------
(* Lanes                                                                   *)

NoLane == [open |-> <<>>, spans |-> <<>>]

\* below_resolution: both ends in one frame, and no clock of the DUT's.
SpanOf(start, to, frame, openEnd, unit) ==
    [from |-> start.t, to |-> to, openStart |-> FALSE, openEnd |-> openEnd,
     below |-> unit # "us" /\ start.frame = frame]

\* The last run that is open ends here, seen to or not.
Closed(lane, r, unit, openEnd) ==
    IF lane.open = <<>> THEN lane
    ELSE [open |-> Front(lane.open),
          spans |-> Append(lane.spans,
                           SpanOf(Last(lane.open), Time(r, unit), r.frame, openEnd, unit))]

Opened(lane, r, unit) ==
    [lane EXCEPT !.open = Append(@, [t |-> Time(r, unit), frame |-> r.frame])]

\* The record that closes a run; its start may have been lost.
Ends(lane, r, unit) ==
    IF lane.open # <<>> THEN Closed(lane, r, unit, FALSE)
    ELSE [lane EXCEPT !.spans = Append(@, [from |-> Time(r, unit), to |-> Time(r, unit),
                                           openStart |-> TRUE, openEnd |-> FALSE, below |-> FALSE])]

\* A thread does not nest in itself, nor does idle, and a switch-in ends idle,
\* which has no record of its own for that.
Fold(lanes, r, unit) ==
    CASE r.kind = "in" ->
            [lanes EXCEPT ![r.a] = Opened(Closed(@, r, unit, TRUE), r, unit),
                          !["idle"] = Closed(@, r, unit, FALSE)]
      [] r.kind = "idle" -> [lanes EXCEPT !["idle"] = Opened(Closed(@, r, unit, TRUE), r, unit)]
      [] r.kind = "enter" -> [lanes EXCEPT ![r.a] = Opened(@, r, unit)]
      [] r.kind \in {"out", "exit"} -> [lanes EXCEPT ![r.a] = Ends(@, r, unit)]
      [] OTHER -> lanes

Subject == {"A", "B", "idle", "I"}

\* What is open at the end is drawn out to it.
DrawnOut(lane, to) ==
    lane.spans \o [i \in DOMAIN lane.open |->
        [from |-> lane.open[i].t, to |-> to, openStart |-> FALSE, openEnd |-> TRUE,
         below |-> FALSE]]

Crosses(span, gaps) == \E g \in gaps : span.from < g.to /\ g.from < span.to

\* The spans that are summed: the others are a shape and not a duration.
Measured(span, gaps) ==
    ~(Crosses(span, gaps) \/ span.openEnd \/ span.openStart \/ span.below)

\* The answer over the rows that the cap lets in: the spans that are measured,
\* each subject's extent, and how much of the window nobody can vouch for.
Answer(csv, cap, maxStale, minStep) ==
    LET rows == WithoutStale(SubSeq(csv, 1, Min({cap, Len(csv)})), maxStale, minStep)
        unit == Unit(rows)
        gaps == Gaps(rows, unit)
        timeline == SelectSeq(rows, LAMBDA r : ~IsGap(r))
        times == {Time(timeline[i], unit) : i \in DOMAIN timeline}
        starts == IF times = {} THEN {0} ELSE times
        from == Min(starts \cup {g.from : g \in gaps})
        to == Max(times \cup {g.to : g \in gaps} \cup {from})
        lanes == FoldLeft(LAMBDA acc, r : Fold(acc, r, unit),
                          [a \in Subject |-> NoLane], timeline)
        spans == [a \in Subject |-> SelectSeq(DrawnOut(lanes[a], to), LAMBDA s : Measured(s, gaps))]
    IN  [unit |-> unit, from |-> from, to |-> to, spans |-> spans,
         extent |-> [a \in Subject |-> FoldLeft(LAMBDA sum, s : sum + s.to - s.from, 0, spans[a])],
         lost |-> FoldLeft(LAMBDA sum, r : IF IsGap(r) THEN sum + r.a ELSE sum, 0, rows),
         gapExtent |-> MergedExtent(gaps, from, to), dropped |-> Len(csv) - Min({cap, Len(csv)})]

-----------------------------------------------------------------------------
(* What the answer is about: the CPU goes through a history of threads, of *)
(* idle and of interrupts, the firmware's hooks record it, and its ring     *)
(* drops some of the records.  A history is a sequence of subjects.         *)

Threads == {"A", "B"}
Histories == {h \in [1 .. 4 -> Subject] : h[1] # "I"}

\* What was running before the i-th: an interrupt leaves that as it is.
Before(h, i) == LET threads == {j \in 1 .. i - 1 : h[j] # "I"}
                IN  IF threads = {} THEN "nothing" ELSE h[Max(threads)]

HookCalls(h, i) ==
    LET was == Before(h, i)
        out == IF was \in Threads THEN <<<<"out", was>>>> ELSE <<>>
    IN  CASE h[i] = "I" -> <<<<"enter", "I">>, <<"exit", "I">>>>
          [] h[i] = was -> <<>>
          [] h[i] \in Threads /\ h[i] # was -> Append(out, <<"in", h[i]>>)
          [] h[i] = "idle" /\ h[i] # was -> Append(out, <<"idle", "idle">>)

Calls(h) == FoldLeft(LAMBDA acc, i : acc \o HookCalls(h, i), <<>>, <<1, 2, 3, 4>>)

\* s runs from the n-th record on: it is what was last let run.
Runs(calls, s, n) ==
    LET about == {i \in 1 .. n : \/ calls[i][2] = s
                                 \/ s = "idle" /\ calls[i][1] = "in"}
    IN  about # {} /\ calls[Max(about)][1] \in {"in", "enter", "idle"}
                   /\ calls[Max(about)][2] = s

\* A capture with and without the DUT's clock and Core's, and a frame's records.
Clocks == {[us |-> TRUE, ms |-> TRUE, size |-> 2], [us |-> FALSE, ms |-> TRUE, size |-> 1],
           [us |-> FALSE, ms |-> TRUE, size |-> 2], [us |-> FALSE, ms |-> FALSE, size |-> 2]}

MsPerFrame == 4

RowOf(clock, frame, us, kind, a, b, of) ==
    [frame |-> frame, ms |-> IF clock.ms THEN MsPerFrame * frame ELSE NoStamp,
     us |-> IF clock.us THEN us ELSE NoStamp, kind |-> kind, a |-> a, b |-> b, of |-> of]

\* The rows of calls of which the ring dropped first .. last: the frame after
\* the loss opens with the record that tells of it.
Trace(calls, clock, first, last) ==
    LET Frame(n) == (n + clock.size - 1) \div clock.size
        after == Frame(first - 1) + 1
        Row(n, frame) == RowOf(clock, frame, n, calls[n][1], calls[n][2], 0, {n})
        kept == [n \in 1 .. first - 1 |-> Row(n, Frame(n))]
        rest == [n \in 1 .. Len(calls) - last |->
                    Row(last + n, after + (n \div clock.size))]
    IN  IF last < first THEN [n \in DOMAIN calls |-> Row(n, Frame(n))]
        ELSE Append(kept, RowOf(clock, after, first, "gap", last - first + 1, last - first,
                               first .. last)) \o rest

Losses(calls) == {<<1, 0>>} \cup {l \in (DOMAIN calls) \X (DOMAIN calls) : l[1] <= l[2]}

\* One frame arrives damaged, or not at all, and no record tells of it; a
\* damaged one has its index, which is missing from the rows, and another has none.
Without(rows, frame, counted) ==
    LET kept == SelectSeq(rows, LAMBDA r : r.frame # frame)
    IN  [i \in DOMAIN kept |->
            [kept[i] EXCEPT !.frame = IF @ > frame /\ ~counted THEN @ - 1 ELSE @]]

NoFrame == 0

\* The frame that is missing from what reaches Core, if one is.
Missing(trace) == {<<NoFrame, TRUE>>} \cup ({trace[i].frame : i \in DOMAIN trace} \X BOOLEAN)

\* The records that are missing and of which no gap tells.
Unsaid(calls, rows) == {n \in DOMAIN calls : \A i \in DOMAIN rows : n \notin rows[i].of}

\* Every span that is summed is one in which the subject was let run at its
\* start, stopped at its end, and ran throughout, but for spans that unsaid records
\* are missing from; if none is, threads take up no more than the window.
SpansAreTrue(calls, rows, answer, unsaid) ==
    LET At(n, t) == \E i \in DOMAIN rows :
                       n \in rows[i].of /\ ~IsGap(rows[i]) /\ Time(rows[i], answer.unit) = t
    IN  /\ \A s \in Subject : \A span \in ToSet(answer.spans[s]) :
              \E p, q \in DOMAIN calls :
                  /\ p < q /\ At(p, span.from) /\ At(q, span.to)
                  /\ Runs(calls, s, p) /\ ~Runs(calls, s, q)
                  /\ \/ \A n \in p .. q - 1 : Runs(calls, s, n)
                     \/ unsaid \cap p .. q # {}
        /\ unsaid = {} => answer.extent["A"] + answer.extent["B"] <= answer.to - answer.from

\* Records from before a reset of the DUT, no more than two, change nothing, if
\* their stamps are off by more than minStep and than Core's clock says that the
\* capture took.
StaleIsDropped(rows, answer) ==
    \A m \in {1, 2}, off \in {10001, 20000, 90000} :
        LET stale == [n \in 1 .. m |->
                        RowOf([us |-> TRUE, ms |-> TRUE], 0, rows[1].us + off + m - n, "in", "A", 0, {})]
        IN  m <= Len(rows) /\ Len(rows) >= 2 /\ off > Bound(stale \o rows) =>
                Answer(stale \o rows, 99, 2, 10000) = answer

\* The lost time is that of the points of all bands together.
Bands == {[from |-> from, to |-> to] : from \in 0 .. 4, to \in 0 .. 4}
GapsCountOnce ==
    \A gaps \in {S \in SUBSET {b \in Bands : b.from <= b.to} : Cardinality(S) <= 3} :
        MergedExtent(gaps, 1, 4) = Cardinality({n \in 1 .. 3 : \E g \in gaps : g.from <= n /\ n < g.to})

\* A summed duration is one in which the subject ran throughout, whatever
\* records a gap says were lost, by whichever clock, and unless others are missing
\* (of a frame that arrived damaged or not at all); lost time counts once, and what
\* is left in the ring from before a reset counts for nothing
\* (decode_with_cap, summarize, merged_gap_extent, stale_prefix_end).
LoadIsTrue ==
    /\ \A calls \in {Calls(h) : h \in Histories}, clock \in Clocks :
          \A loss \in Losses(calls) : \A trace \in {Trace(calls, clock, loss[1], loss[2])} :
              /\ \A gone \in Missing(trace) : \A rows \in {Without(trace, gone[1], gone[2])} :
                    SpansAreTrue(calls, rows, Answer(rows, Len(rows), 2, 10000), Unsaid(calls, rows))
              /\ clock.us /\ loss[2] < loss[1] =>
                    StaleIsDropped(trace, Answer(trace, Len(trace), 2, 10000))
    /\ GapsCountOnce

\* The coverage line is "how much of the window is in a state a reader must
\* doubt": where it says none, a summed duration is one in which the subject ran.
CoverageTellsAll ==
    \A calls \in {Calls(h) : h \in Histories}, clock \in Clocks :
        \A trace \in {Trace(calls, clock, 1, 0)} : \A gone \in Missing(trace) :
            LET rows == Without(trace, gone[1], gone[2])
                answer == Answer(rows, Len(rows), 2, 10000)
            IN  answer.gapExtent = 0 /\ answer.lost = 0 => SpansAreTrue(calls, rows, answer, {})
=============================================================================
