---------------------------- MODULE MCPreflight ----------------------------
(* A study's pre-flight and two flashes, one with the mode it wants, sent  *)
(* at boot only, and one with a flag it must not have, which repeats its   *)
(* header; the first image lacks a flag.                                   *)
EXTENDS Preflight
CONSTANTS study, good, bad, isr, self
Routes == {study, good, bad}
Studies == {study}
Flashes == {good, bad}
HangUps == {study, bad}
MCFlags == [i \in Image |-> CASE i = good -> {isr} [] i = bad -> {isr, self} [] OTHER -> {}]
MCWanted == {isr}
MCUnwanted == {self}
MCRepeats == {bad, Factory}
=============================================================================
