--------------------------- MODULE MCJobDelivery ---------------------------
(***************************************************************************)
(* Small instances of JobDelivery for TLC.  Message copies, publishers and *)
(* sweeps are interchangeable; dispatch ids are not, FreshId chooses among *)
(* them.                                                                   *)
(***************************************************************************)
EXTENDS JobDelivery, TLC

Sym == Permutations(Slots) \union Permutations(Publishers) \union Permutations(Sweepers)

\* An action that needs a new dispatch id waits while there is none, so an
\* instance must have enough of them.  To be checked as an invariant whenever
\* the bounds of a configuration change.
IdsSuffice == FreshIds # {}
=============================================================================
