---------------------------- MODULE MCExclusions ----------------------------
(* Exclusions on three leases over one target and two artifacts.           *)
EXTENDS Exclusions, TLC

(* Lease incarnations and artifacts are only compared.                     *)
Symmetry == Permutations(Leases)
=============================================================================
