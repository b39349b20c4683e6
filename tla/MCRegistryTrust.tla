--------------------------- MODULE MCRegistryTrust ---------------------------
(* RegistryTrust with one release of each kind and two commands at a time,   *)
(* which nothing tells apart.                                                *)
EXTENDS RegistryTrust, TLC

CONSTANTS a, b, p1, p2

TwoReleases == {a, b}
OneDecided == {a}
TwoCommands == {p1, p2}
Symmetry == Permutations(TwoCommands)
=============================================================================
