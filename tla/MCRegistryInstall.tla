-------------------------- MODULE MCRegistryInstall --------------------------
(* RegistryInstall on two snapshots, one of them without release evidence.   *)
EXTENDS RegistryInstall

CONSTANTS s1, s2

MCSnapshots == {s1, s2}
MCBare == {s2}
=============================================================================
