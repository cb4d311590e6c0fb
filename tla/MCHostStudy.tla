---------------------------- MODULE MCHostStudy -----------------------------
(* An exchange, a Repeat of two passes with a prompt each, and a tolerated *)
(* wait; then a teardown of a prompt and an exchange.                      *)
EXTENDS HostStudy

Kept == INSTANCE Results
Lines == INSTANCE HostCounts

S(kind, delay, tolerant) == [kind |-> kind, delay |-> delay, tolerant |-> tolerant]
SomeSteps == <<S("exchange", TRUE, FALSE), S("repeat", TRUE, FALSE), S("prompt", FALSE, TRUE),
               S("prompt", FALSE, FALSE), S("wait", FALSE, TRUE)>>
SomeTeardown == <<S("prompt", FALSE, FALSE), S("exchange", FALSE, FALSE)>>

\* What Core reads back of a study is true, also while it is being written, and
\* its lines are counted once and where they came: Results' ResultsAreTrue and
\* HostCounts' CountsAreTrue, which are about no variable, and are looked at once.
ResultsAreRight == Init => Kept!ResultsAreTrue /\ Lines!CountsAreTrue

\* A client that was told of a study's streams is told again (Results'
\* IndexStaysReadable), as stream_store.rs says of the index; not while the index
\* is being written again.
IndexStaysReadable == Init => Kept!IndexStaysReadable

\* A line without a row in the sidecar is in no pass (HostCounts' LostRowsGoUntimed),
\* as stream_store.rs says of lost rows; it has the time of the row before.
LostRowsGoUntimed == Init => Lines!LostRowsGoUntimed
=============================================================================
