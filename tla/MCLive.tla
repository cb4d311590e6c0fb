------------------------------- MODULE MCLive -------------------------------
(* Two reads that stop the core, one that only looks on, and a flash or    *)
(* reset.  Any of their clients may hang up.                               *)
EXTENDS Live
CONSTANTS memRead, coreHalt, coreState, reset
Routes == {memRead, coreHalt, coreState, reset}
StopsTheCore == {memRead, coreHalt}
LooksOn == {coreState}
StartsTheCore == {reset}
=============================================================================
