-------------------------- MODULE MCEmailDelivery --------------------------
(***************************************************************************)
(* Small instances of EmailDelivery for TLC.  Handlers are interchangeable.*)
(***************************************************************************)
EXTENDS EmailDelivery, TLC

Sym == Permutations(Handlers)
=============================================================================
