----------------------------- MODULE MCStreams -----------------------------
(* Short records: a frame, the end of one, the start of one, and a record  *)
(* with a frame and a half.  The functions over a capture that is kept are *)
(* checked once, in one initial state.                                    *)
EXTENDS Streams

Records == {<<1, 0>>, <<1>>, <<0, 1, 1>>, <<1, 1, 0>>}

Load == INSTANCE OutpostLoad
Traces == INSTANCE OutpostRender
Rows == INSTANCE RenderedRows

\* A summed duration is one in which its subject ran throughout, whatever was
\* lost (OutpostLoad's LoadIsTrue, of every history of four steps).
LoadIsRight == StreamInit /\ arrivalKind = "frames" => Load!LoadIsTrue

\* What is decoded of a tap while it runs, what is rendered of it and what the
\* index says agree: a trace (OutpostRender's TracesAgree, of every capture of up to
\* four frames), and the rows of the other encodings (RenderedRows' RowsAreServed,
\* of up to three records and two failed writes).
RenderingsAreRight ==
    StreamInit /\ arrivalKind = "bytes" => Traces!TracesAgree /\ Rows!RowsAreServed

\* A row has one index, live and rendered (OutpostRender's IndicesAgree), as
\* outpost_manifest.rs says of both decodes; not of a file that has rotated.
FrameIndicesAgree == StreamInit /\ arrivalKind = "frames" => Traces!IndicesAgree

\* The coverage line tells how much is in doubt (OutpostLoad's CoverageTellsAll),
\* as outpost_load.rs says of it; not of a frame that arrives damaged or not at all.
CoverageTellsAll == StreamInit /\ arrivalKind = "frames" => Load!CoverageTellsAll
=============================================================================
