------------------------- MODULE MCInstallSettlement -------------------------
(* InstallSettlement with and without a loader's base version.             *)
EXTENDS InstallSettlement
=============================================================================
