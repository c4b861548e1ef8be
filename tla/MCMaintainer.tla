---------------------------- MODULE MCMaintainer ----------------------------
(* Small instances of Maintainer. *)
EXTENDS Maintainer

CONSTANTS m1, m2
=============================================================================
