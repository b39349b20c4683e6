---------------------------- MODULE MCAccessState ----------------------------
(* AccessState with two commands at the same time, at whole seconds; and     *)
(* with one command at a time, within one second.                            *)
EXTENDS AccessState

CONSTANTS p, q, s1

OneCommand == {p}
TwoCommands == {p, q}
OneSubject == {s1}
AnyFields == SUBSET Field \ {{}}

WholeSeconds == [second : 1..2, fraction : {0}]
WithinASecond == [second : {1}, fraction : {0, 5, 9}]
=============================================================================
