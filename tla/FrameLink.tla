----------------------------- MODULE FrameLink -----------------------------
(***************************************************************************)
(* What the loop of a study has from its link to the dev-bench             *)
(* (src/src/dev_bench_link.rs, DevBenchLink): frames that are whole, each  *)
(* once and in the order they were sent, with junk where something was     *)
(* lost.  Whatever is under way when the link is closed may be lost, from  *)
(* its front.                                                              *)
(***************************************************************************)
EXTENDS Naturals, Sequences, SequencesExt

CONSTANTS
    Message,        \* numbered in the order the dev-bench sends them
    Junk            \* a frame that does not decode

VARIABLES
    queue,          \* frames on their way to the loop
    delivered       \* what recv gave the loop

vars == <<queue, delivered>>

Init == queue = <<>> /\ delivered = <<>>

\* Nothing comes twice or out of order.
InOrder(frames) ==
    \A i, j \in DOMAIN frames :
        i < j /\ Junk \notin {frames[i], frames[j]} => frames[i] < frames[j]

Arrive(f) ==
    /\ UNCHANGED delivered
    /\ queue' = Append(queue, f)
    /\ InOrder(delivered \o queue')

Deliver ==
    /\ queue # <<>>
    /\ delivered' = Append(delivered, Head(queue))
    /\ queue' = Tail(queue)

\* The link is closed.  Cut in its middle, a frame is junk, or the whole one
\* that junk had run into.
Cut(n) ==
    LET rest == SubSeq(queue, n + 1, Len(queue)) IN
    /\ UNCHANGED delivered
    /\ \/ queue' = rest
       \/ \E f \in Message \cup {Junk} :
            n > 0 /\ queue' = <<f>> \o rest /\ InOrder(delivered \o queue')

Next ==
    \/ \E f \in Message \cup {Junk} : Arrive(f)
    \/ Deliver
    \/ \E n \in 0 .. Len(queue) : Cut(n)

Spec == Init /\ [][Next]_vars
=============================================================================
