---------------------------- MODULE RenderedRows ----------------------------
(***************************************************************************)
(* The rendering that embarch-core writes of a tap while it captures it    *)
(* (src/src/study.rs): the rows of samples, of a GATT transcript or of a   *)
(* declared structure, and the CSV file that rotates with a header in each *)
(* segment and is read back as one (src/src/stream_store.rs).  The raw     *)
(* bytes, which go down before, are in Streams.                            *)
(*                                                                         *)
(* A file is a sequence of Header, NewLine and the numbers of rows; each   *)
(* counts as one byte.  A record is a sequence of parts, of which some do  *)
(* not fit a row, and its decode may fail.  Any write may fail, and where, *)
(* is its fault.                                                           *)
(***************************************************************************)
EXTENDS Integers, Sequences, FiniteSets, SequencesExt, FiniteSetsExt

Header == 0
NewLine == -1
FileMax == 7     \* max_bytes: a header and two rows

Faults == {"none", "delete", "rename", "open", "header", "row", "full"}

-----------------------------------------------------------------------------
(* SegmentedFile                                                           *)

NewFile == [previous |-> <<>>, live |-> <<>>, open |-> FALSE, len |-> 0,
            truncated |-> FALSE, ok |-> TRUE]

\* rotate, if it is due: the segment before is deleted, and that alone is said.
Rotate(file, text, fault) ==
    LET due == file.len > 0 /\ file.len + Len(text) > FileMax
        kept == file.previous # <<>>
        closed == [file EXCEPT !.open = FALSE]
        deleted == [closed EXCEPT !.previous = <<>>, !.truncated = @ \/ kept]
    IN  CASE ~due -> file
          [] due /\ fault = "delete" /\ kept -> [closed EXCEPT !.ok = FALSE]
          [] due /\ fault = "rename" -> [deleted EXCEPT !.ok = FALSE]
          [] OTHER -> [deleted EXCEPT !.previous = file.live, !.live = <<>>, !.len = 0]

\* Mutant: the header opens the capture, and not each of its segments.
OpenCapture(file, fault) ==
    CASE file.open \/ ~file.ok -> file
      [] OTHER -> IF file.live # <<>> \/ file.previous # <<>> THEN [file EXCEPT !.open = TRUE]
                  ELSE [file EXCEPT !.open = TRUE, !.live = <<Header, NewLine>>, !.len = @ + 2]

\* A segment that is fresh gets the header first; half a header is left behind if
\* that fails, and the next write takes it for one.
OpenSegment(file, fault) ==
    CASE file.open \/ ~file.ok -> file
      [] ~file.open /\ file.ok /\ fault = "open" -> [file EXCEPT !.ok = FALSE]
      [] ~file.open /\ file.ok /\ fault = "header" /\ file.live = <<>> ->
            [file EXCEPT !.ok = FALSE, !.live = <<Header>>]
      [] OTHER -> IF file.live # <<>> THEN [file EXCEPT !.open = TRUE]
                  ELSE [file EXCEPT !.open = TRUE, !.live = <<Header, NewLine>>, !.len = @ + 2]

Put(file, text, fault) ==
    CASE ~file.ok -> file
      [] file.ok /\ fault = "full" -> [file EXCEPT !.ok = FALSE]
      [] file.ok /\ fault = "row" ->
            [file EXCEPT !.ok = FALSE, !.live = Append(@, Head(text))]
      [] OTHER -> [file EXCEPT !.live = @ \o text, !.len = @ + Len(text)]

\* write_rendered_row: a failure marks the tap and nothing else.
WriteRow(tap, row, fault) ==
    LET text == <<row, NewLine>>
        rotated == Rotate([tap.file EXCEPT !.ok = TRUE], text, fault)
        file == Put(OpenSegment(rotated, fault), text, fault)
    IN  [tap EXCEPT !.file = file, !.failed = @ \/ ~file.ok, !.writes = @ + 1]

\* read_capture, of a CSV: the second segment without its first line
AfterFirstLine(text) ==
    LET ends == {i \in DOMAIN text : text[i] = NewLine}
    IN  IF ends = {} THEN <<>> ELSE SubSeq(text, Min(ends) + 1, Len(text))

ReadCapture(file) ==
    IF file.previous = <<>> THEN file.live
    ELSE file.previous \o AfterFirstLine(file.live)

-----------------------------------------------------------------------------
(* write_stream_record                                                     *)

\* The n-th record's k-th row, and the one that says that it does not decode
RowNumber(n, k) == 10 * n + k
Undecoded(n) == RowNumber(n, 9)

\* write_sample and write_transcript_entry: a row that does not fit is dropped.
Fitting(n, record) ==
    [i \in 1 .. Cardinality({k \in DOMAIN record.fits : record.fits[k]}) |->
        RowNumber(n, CHOOSE k \in DOMAIN record.fits :
            record.fits[k] /\ Cardinality({j \in 1 .. k : record.fits[j]}) = i)]

\* write_struct_rows: a payload that does not fit its layout has a row all the same.
StructRows(n, record) ==
    IF record.decodes THEN [k \in DOMAIN record.fits |-> RowNumber(n, k)] ELSE <<Undecoded(n)>>

RowsOf(encoding, n, record) ==
    CASE encoding = "samples" -> Fitting(n, record)
      [] encoding = "transcript" -> IF record.decodes THEN Fitting(n, record) ELSE <<>>
      [] encoding = "struct" -> StructRows(n, record)

\* What subscribers are told of the record; of a structure, its chart's values.
Told(encoding, n, record) ==
    IF record.decodes \/ encoding = "samples"
    THEN {RowNumber(n, k) : k \in DOMAIN record.fits} ELSE {}

\* write_stream_record, of the n-th record, with the faults of each write
Write(tap, n, record, encoding, faults) ==
    LET rows == RowsOf(encoding, n, record)
        WriteNext(acc, row) ==
            WriteRow(acc, row, IF acc.writes + 1 \in DOMAIN faults
                               THEN faults[acc.writes + 1] ELSE "none")
    IN  [FoldLeft(WriteNext, tap, rows) EXCEPT
            !.rows = @ \o rows, !.told = @ \cup Told(encoding, n, record)]

NewTap == [file |-> NewFile, failed |-> FALSE, writes |-> 0, rows |-> <<>>, told |-> {}]

Capture(encoding, records, faults) ==
    FoldLeft(LAMBDA tap, n : Write(tap, n, records[n], encoding, faults), NewTap,
             [n \in DOMAIN records |-> n])

-----------------------------------------------------------------------------
(* Captures: of three records at most, and with up to two writes that fail *)

RecordsFor(encoding) ==
    LET Of(fits, decodes) == [fits |-> fits, decodes |-> decodes]
    IN  CASE encoding = "samples" -> {Of(<<TRUE, TRUE>>, TRUE), Of(<<FALSE, TRUE>>, TRUE)}
          [] encoding = "transcript" ->
                {Of(<<TRUE>>, TRUE), Of(<<FALSE>>, TRUE), Of(<<TRUE>>, FALSE)}
          [] encoding = "struct" -> {Of(<<TRUE, TRUE>>, TRUE), Of(<<TRUE>>, FALSE)}

FaultPlans == {f \in [1 .. 6 -> Faults] : Cardinality({i \in 1 .. 6 : f[i] # "none"}) <= 2}

Csv(rows) ==
    IF rows = <<>> THEN <<>>
    ELSE <<Header, NewLine>> \o FoldLeft(LAMBDA acc, row : acc \o <<row, NewLine>>, <<>>, rows)

\* Unless a write failed, which the tap says, the rendering reads back as one
\* header and the last of the rows, all of them if the tap is not said to be
\* truncated.  Even then no row is out of its order, or there twice.  What a
\* subscriber was told is a row, or was too long for one (write_stream_record,
\* SegmentedFile, read_capture, refs).
RowsAreServed ==
    \A encoding \in {"samples", "transcript", "struct"} :
        \A records \in BoundedSeq(RecordsFor(encoding), 3) : \A faults \in FaultPlans :
            LET tap == Capture(encoding, records, faults)
                served == ReadCapture(tap.file)
                rows == SelectSeq(served, LAMBDA t : t > 0)
            IN  /\ ~tap.failed =>
                      /\ \E n \in 1 .. Len(tap.rows) + 1 :
                            served = Csv(SubSeq(tap.rows, n, Len(tap.rows)))
                      /\ ~tap.file.truncated => rows = tap.rows
                /\ \A i \in 1 .. Len(rows) - 1 : rows[i] < rows[i + 1]
                /\ \A row \in tap.told :
                      row \in ToSet(tap.rows)
                        \/ ~records[row \div 10].fits[row % 10]
=============================================================================
