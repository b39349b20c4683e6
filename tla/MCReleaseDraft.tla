---------------------------- MODULE MCReleaseDraft ----------------------------
(* ReleaseDraft with two Registries and two commands at a time.              *)
EXTENDS ReleaseDraft, TLC

CONSTANTS r1, r2, p1, p2

TwoSources == {r1, r2}
OneUnadapted == {r1}
TwoProcesses == {p1, p2}
Interchangeable == Permutations(TwoProcesses)
=============================================================================
