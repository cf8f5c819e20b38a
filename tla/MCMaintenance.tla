--------------------------- MODULE MCMaintenance ---------------------------
(***************************************************************************)
(* Small instances of Maintenance for TLC.  The instances are small enough *)
(* to do without symmetry.                                                 *)
(***************************************************************************)
EXTENDS Maintenance
=============================================================================
