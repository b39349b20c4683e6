------------------------ MODULE MCRegistryInstallRace ------------------------
(* RegistryInstallRace with two invocations.                                 *)
EXTENDS RegistryInstallRace

CONSTANTS p, q

Both == {p, q}
OnlyP == {p}
Nobody == {}
=============================================================================
