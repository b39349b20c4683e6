----------------------------- MODULE MCLocalFiles -----------------------------
(* LocalFiles with two commands at a time, of which one may install, three   *)
(* syncs, one reader and three generations of an artifact.                   *)
EXTENDS LocalFiles

CONSTANTS p, q, s1, w1, w2, w3, r1, g1, g2, g3

TwoCommands == {p, q}
OnlyP == {p}
OneSubject == {s1}
OneOrTwoFields == {{"application"}, {"quota"}, {"application", "quota"}}
TwoSeconds == [second : 1..2, fraction : {0, 5}]
ThreeWriters == {w1, w2, w3}
OneReader == {r1}
ThreeGenerations == {g1, g2, g3}
=============================================================================
