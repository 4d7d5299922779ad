--------------------------- MODULE MCInstallQueue ---------------------------
(* InstallQueue over small sets of installs and callers.                   *)
EXTENDS InstallQueue
=============================================================================
