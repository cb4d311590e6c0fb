----------------------------- MODULE MCStudyRun -----------------------------
(* Three steps, the first tolerated and the second delayed for longer than *)
(* its timeout and the grace together, and a tap.                          *)
EXTENDS StudyRun
Delays == <<0, 3, 0>>
Timeouts == <<1, 1, 1>>
=============================================================================
