------------------------------- MODULE Results -------------------------------
(***************************************************************************)
(* What embarch-core reads back of its studies (src/src/study.rs and       *)
(* src/src/stream_store.rs): the results directory of a study while it is  *)
(* being written, listed, served and swept, without any lock between.      *)
(*                                                                         *)
(* A directory's life is the sequence of writes to it, and a moment of it  *)
(* is the number of the last write: 1 it is made, 2 and 3 the index is     *)
(* truncated and written, 4 the record is begun, 5 and 6 a step each, 7    *)
(* the trace is rendered, 8 and 9 the index again, 10 the record is        *)
(* complete, 11 renamed, 12 and 13 swept.  Core may be killed at any of    *)
(* them, and the directory stays as it is.  A file's mtime and length are   *)
(* the number of the write that last changed it: the file system's clock   *)
(* is taken to tick between two writes to one file.                        *)
(***************************************************************************)
EXTENDS Integers, Sequences, FiniteSets, SequencesExt, FiniteSetsExt

Moment == 1 .. 13
Renamed == 11
Swept == 12
Absent == 0

LastOf(writes, now) == Max({Absent} \cup {w \in writes : w <= now})

-----------------------------------------------------------------------------
(* The files                                                               *)

\* EventsJsonWriter: a partial record, that is renamed when it is complete.
Events(now) ==
    CASE now < 4 \/ now >= Swept -> "missing"
      [] now \in 4 .. 10 -> "partial"
      [] now = Renamed -> "finalized"

EventsStamp(now) == IF Events(now) = "missing" THEN Absent ELSE LastOf({4, 5, 6, 10}, now)

\* Whether the text is a whole document.
Parses(now) == now \in {10, Renamed}

\* StreamStore::create, and update_index once the capture is closed; a file that
\* is written is truncated first.
Index(now) ==
    CASE now < 2 \/ now = 13 -> "missing"
      [] now \in {2, 8} -> "torn"
      [] now \in 3 .. 7 -> "first"
      [] now \in 9 .. Swept -> "last"

IndexStamp(now) == IF now = 13 THEN Absent ELSE LastOf({2, 3, 8, 9}, now)

-----------------------------------------------------------------------------
(* The listing                                                             *)

\* fingerprint_study_dir: events.json, or else its partial, and then the index,
\* each looked at on its own.
Fingerprint(i, j, k) ==
    [state |-> CASE Events(i) = "finalized" -> "finalized"
                 [] Events(i) # "finalized" /\ Events(j) = "partial" -> "partial"
                 [] OTHER -> "missing",
     stamp |-> CASE Events(i) = "finalized" -> EventsStamp(i)
                 [] Events(i) # "finalized" /\ Events(j) = "partial" -> EventsStamp(j)
                 [] OTHER -> Absent,
     index |-> IndexStamp(k)]

\* StudyStepTally, of what outcome_name_and_reason makes of the outcomes.
Tally(outcomes) ==
    LET Count(o) == Cardinality({n \in DOMAIN outcomes : outcomes[n] = o})
    IN  [total |-> Len(outcomes), passed |-> Count("Pass"), failed |-> Count("Fail"),
         timedOut |-> Count("TimedOut"),
         unknown |-> Cardinality({n \in DOMAIN outcomes :
                                    outcomes[n] \notin {"Pass", "Fail", "TimedOut"}})]

NoTally == [total |-> -1]

\* read_study_disk_summary: the record the fingerprint saw, if it is still there
\* and parses; the index, if it is.  What is not read is said to be missing.
Summary(print, j, k, outcomes) ==
    LET steps == IF print.state # "missing" /\ Events(j) = print.state /\ Parses(j)
                 THEN Tally(outcomes) ELSE NoTally
        taps == IF print.index # Absent /\ Index(k) \in {"first", "last"}
                THEN Index(k) ELSE "absent"
    IN  [events |-> print.state, steps |-> steps, taps |-> taps,
         noted |-> steps = NoTally \/ taps = "absent"]

\* Mutant: the cache goes by the stamps alone, which a rename does not move.
SameStamps(cached, print) == cached.stamp = print.stamp /\ cached.index = print.index

\* read_studies: a summary is used again as long as the fingerprint is the same.
StillTrue(cached, print) == cached = print

\* studies_handler, of a study that the registry knows nothing about
Status(summary) ==
    CASE summary.events = "finalized" -> "completed"
      [] summary.events = "partial" -> "interrupted"
      [] summary.events = "missing" -> "unknown"

\* study_steps_handler
StepsOf(now, outcomes, stamped) ==
    IF Events(now) # "finalized" THEN [code |-> 404, outcomes |-> <<>>, timed |-> FALSE]
    ELSE [code |-> 200, outcomes |-> outcomes, timed |-> outcomes # <<>> /\ stamped]

-----------------------------------------------------------------------------
(* The streams                                                             *)

Encoding == {"trace", "text", "samples", "raw"}

\* What a tap's writes have left of its files: any of them may fail, but a record
\* that the raw file did not take gets no row in the sidecar, and there is no
\* rendering of a trace without one.  Bytes may hold no sample, and make no row.
Files == {"raw", "csv", "arrival.csv", "trace.csv"}
Written == {has \in SUBSET Files : has \cap {"arrival.csv", "trace.csv"} # {} => "raw" \in has}

\* rendered_extension, and what render_outpost_traces adds to the index
Rendered(encoding, now, has) ==
    \/ encoding = "samples"
    \/ encoding = "trace" /\ Index(now) = "last" /\ "trace.csv" \in has

\* read_capture: a file is there from its first byte on.
Exists(file, now, has) == now < Swept /\ file \in has /\ (file = "trace.csv" => now >= 7)

FileOf(encoding) == IF encoding = "trace" THEN "trace.csv" ELSE "csv"

\* The index that a route reads, or why there is none to read.
Found(now) ==
    CASE Index(now) = "missing" -> 404
      [] Index(now) = "torn" -> 500
      [] Index(now) \in {"first", "last"} -> 200

\* stream_index_handler, of a tap: whether its stream is more than its raw bytes.
Told(encoding, now, has) ==
    [code |-> Found(now), rendered |-> Found(now) = 200 /\ Rendered(encoding, now, has)]

\* serve_capture, of the file that the index names
Got(found, file, later, has) ==
    CASE found # 200 -> [code |-> found, file |-> "none"]
      [] found = 200 /\ ~Exists(file, later, has) -> [code |-> 404, file |-> "none"]
      [] found = 200 /\ Exists(file, later, has) -> [code |-> 200, file |-> file]

\* stream_data_handler with serve_capture: the rendering, or the raw file if that
\* is asked for or all there is.
Served(encoding, raw, now, later, has) ==
    Got(Found(now),
        IF ~raw /\ Rendered(encoding, now, has) THEN FileOf(encoding) ELSE "raw",
        later, has)

\* stream_arrivals_handler: two encodings have a sidecar.
Arrivals(encoding, now, later, has) ==
    IF Found(now) = 200 /\ encoding \notin {"trace", "text"}
    THEN [code |-> 404, file |-> "none"]
    ELSE Got(Found(now), "arrival.csv", later, has)

\* rendered_outpost_csv, of which stream_load_handler makes the load answer
Loaded(encoding, now, later, has) ==
    CASE Found(now) = 200 /\ encoding # "trace" -> [code |-> 400, file |-> "none"]
      [] Found(now) = 200 /\ encoding = "trace" /\ ~Rendered(encoding, now, has) ->
            [code |-> 404, file |-> "none"]
      [] OTHER -> Got(Found(now), "trace.csv", later, has)

\* content_type_for
ContentType(encoding, file) ==
    CASE file \in {"csv", "trace.csv", "arrival.csv"} -> "csv"
      [] file = "raw" /\ encoding = "text" -> "text"
      [] OTHER -> "bytes"

\* unique_stem: a name that is no file's becomes one, and a stem that is taken
\* gains the tap's id.  A name is what is left of it and the ids it ends in.
Stem(used, name, id) == IF name \in used THEN Append(name, id) ELSE name

Stems(names) ==
    FoldLeft(LAMBDA acc, n : Append(acc, Stem(ToSet(acc), names[n], n)), <<>>,
             [n \in DOMAIN names |-> n])

-----------------------------------------------------------------------------
(* Retention                                                               *)

\* study_result_dirs: newest first, and by path where that is the same.
ByAge(dirs) ==
    LET Newer(d, e) == \/ d.mtime > e.mtime
                       \/ d.mtime = e.mtime /\ d.path < e.path
        Place(d) == Cardinality({e \in dirs : Newer(e, d)}) + 1
    IN  [n \in 1 .. Cardinality(dirs) |-> CHOOSE d \in dirs : Place(d) = n]

Newest(dirs, keep) == ToSet(SubSeq(ByAge(dirs), 1, Min({keep, Cardinality(dirs)})))

\* studies_handler lists them; 0 is no bound.
Listed(dirs, keep) == IF keep = 0 THEN dirs ELSE Newest(dirs, keep)

\* sweep_study_results leaves them, and those that cannot be removed, in the state
\* and with the mtime that the attempt left them with.
SweepLeaves(dirs, keep, stuck, now) ==
    IF keep = 0 THEN dirs
    ELSE Newest(dirs, keep) \cup
         {[d EXCEPT !.mtime = now] : d \in {e \in dirs \ Newest(dirs, keep) : e.path \in stuck}}

-----------------------------------------------------------------------------
(* Live events                                                             *)

NoEvents == [queue |-> <<>>, missed |-> 0, seen |-> <<>>]

\* The broadcast channel: a subscriber that is behind loses the oldest.
Broadcast(sub, event, buffer) ==
    IF Len(sub.queue) < buffer THEN [sub EXCEPT !.queue = Append(@, event)]
    ELSE [sub EXCEPT !.queue = Append(Tail(@), event), !.missed = @ + 1]

\* study_events_handler: the loss is told first, and another study's events are
\* passed over.
Poll(sub, own) ==
    CASE sub.missed > 0 ->
            [sub EXCEPT !.missed = 0, !.seen = Append(@, [lagged |-> sub.missed, n |-> 0])]
      [] sub.missed = 0 /\ sub.queue # <<>> ->
            [sub EXCEPT !.queue = Tail(@),
                        !.seen = IF Head(sub.queue).study = own
                                 THEN Append(@, [lagged |-> 0, n |-> Head(sub.queue).n]) ELSE @]
      [] OTHER -> sub

-----------------------------------------------------------------------------
(* Properties                                                              *)

Outcomes == {<<>>, <<"Pass", "Fail">>, <<"TimedOut", "Skipped">>}

\* The looks of one listing, one after another.
Looks == {l \in [1 .. 5 -> Moment] : \A n \in 1 .. 4 : l[n] <= l[n + 1]}
SummaryAt(l, outcomes) == Summary(Fingerprint(l[1], l[2], l[3]), l[4], l[5], outcomes)

\* A cached summary is used only while a fresh one would say the same, however the
\* looks and reads that made it fell between the study's writes.
CacheIsTrue ==
    \A l \in Looks : \A now \in l[5] .. 13 : \A outcomes \in Outcomes :
        StillTrue(Fingerprint(l[1], l[2], l[3]), Fingerprint(now, now, now))
            => SummaryAt(l, outcomes) = Summary(Fingerprint(now, now, now), now, now, outcomes)

\* A study listed as completed off the disk has been, its steps and its last index
\* are in the row, and they are those that its own route tells; whatever a row
\* lacks is said.
CompletedIsWhole ==
    \A l \in Looks : \A outcomes \in Outcomes :
        LET row == SummaryAt(l, outcomes)
        IN  /\ Status(row) = "completed" => l[1] >= Renamed
            /\ Status(row) = "completed" /\ l[5] < Swept =>
                  /\ row.steps = Tally(StepsOf(l[5], outcomes, TRUE).outcomes)
                  /\ row.taps = "last" /\ ~row.noted
            /\ row.steps = NoTally => row.noted

\* Once a tap is said to be rendered its stream is never its raw bytes instead,
\* and a trace's load is there; a route that is asked until the sweep says no only
\* of a file that nothing was written to, or while the index is being written
\* again; and what is served is named for what it is.
ServedAsSaid ==
    \A encoding \in Encoding, has \in Written, raw \in BOOLEAN :
    \A now, look, later \in Moment :
        LET told == Told(encoding, now, has)
            served == Served(encoding, raw, look, later, has)
            load == Loaded(encoding, look, later, has)
            arrivals == Arrivals(encoding, look, later, has)
            csv == served.code = 200 /\ ContentType(encoding, served.file) = "csv"
        IN  told.code = 200 /\ now <= look /\ look <= later /\ later < Swept =>
                /\ \A route \in {served, load, arrivals} : route.code = 500 <=> Index(look) = "torn"
                /\ told.rendered /\ ~raw => served.file # "raw"
                /\ raw => served.file \in {"raw", "none"}
                /\ served.code = 404 => \/ "raw" \notin has
                                        \/ encoding = "samples" /\ ~raw /\ "csv" \notin has
                /\ csv <=> served.file \in {"csv", "trace.csv"}
                /\ told.rendered /\ encoding = "trace" => load.code \in {200, 500}
                /\ arrivals.code = 200 => encoding \in {"trace", "text"} /\ "raw" \in has

\* The index is "never rewritten": what it has told once it tells until the sweep.
IndexStaysReadable ==
    \A now, later \in Moment :
        now <= later /\ later < Swept /\ Found(now) = 200 => Found(later) = 200

\* Taps have a file each, if no name reads like another that gained its id.
Names == {<<"a">>, <<"b">>, <<"a", 9>>}
FilesAreApart ==
    \A names \in [1 .. 4 -> Names] : \A m, n \in 1 .. 4 :
        m # n => Stems(names)[m] # Stems(names)[n]

\* A row that is listed outlives a sweep, so does the directory of the study that
\* sweeps, which is the newest; and one that could not be removed displaces no more
\* than one of the others.
Outlives(dirs, keep, stuck, now) ==
    LET left == SweepLeaves(dirs, keep, stuck, now)
    IN  /\ dirs # {} => ByAge(dirs)[1] \in left
        /\ Listed(dirs, keep) \subseteq left
        /\ Cardinality(Listed(left, keep) \ dirs) <= Cardinality(stuck)

Dirs == {dirs \in SUBSET [path : 1 .. 3, mtime : 1 .. 4] :
            \A d, e \in dirs : d = e \/ (d.path # e.path /\ d.mtime # e.mtime)}
RetentionIsListed ==
    \A dirs \in Dirs : \A keep \in 0 .. 3 : \A stuck \in SUBSET (1 .. 3) :
        Outlives(dirs, keep, stuck, 6)

\* A subscriber gets its study's events in order and once, and where one of them is
\* missing, is told of a loss between those before and those after it.
Received(seen) == {n \in DOMAIN seen : seen[n].lagged = 0}
LossesAreTold(seen, mine) ==
    LET got == Received(seen)
    IN  /\ \A n \in got : seen[n].n \in mine
        /\ \A m, n \in got : m < n => seen[m].n < seen[n].n
        /\ \A n \in got : \A own \in mine :
              own < seen[n].n =>
                  \/ \E m \in got : seen[m].n = own
                  \/ \E m \in DOMAIN seen \ got : \A g \in got : g < m <=> seen[g].n < own

\* The n-th of what happens: a poll, or an event of the subscriber's study or another.
Hears(sub, kind, n, buffer) ==
    IF kind = "poll" THEN Poll(sub, "own") ELSE Broadcast(sub, [study |-> kind, n |-> n], buffer)

Schedules == [1 .. 7 -> {"own", "other", "poll"}]
EventsAreInOrder ==
    \A schedule \in Schedules :
        LET end == FoldLeft(LAMBDA sub, n : Hears(sub, schedule[n], n, 2), NoEvents, <<1, 2, 3, 4, 5, 6, 7>>)
        IN  LossesAreTold(end.seen, {n \in 1 .. 7 : schedule[n] = "own"})

\* What Core reads back of its studies is true, whatever is being written
\* meanwhile (read_studies, stream_data_handler, sweep_study_results,
\* study_events_handler).
ResultsAreTrue ==
    /\ CacheIsTrue /\ CompletedIsWhole
    /\ ServedAsSaid /\ FilesAreApart
    /\ RetentionIsListed /\ EventsAreInOrder
=============================================================================
