------------------------------ MODULE MCBench ------------------------------
(* A flash, whose client may hang up, a bootload and a change of           *)
(* enrollment on one DUT, and a lease that may be taken beside them.       *)
EXTENDS Bench
CONSTANTS f1, b1, u1, s1
Routes == {f1, b1, u1}
OneFlash == {f1}
Bootloads == {b1}
Enrollment == {u1}
OneLease == {s1}
=============================================================================
