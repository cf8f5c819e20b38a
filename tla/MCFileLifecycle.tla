-------------------------- MODULE MCFileLifecycle --------------------------
(***************************************************************************)
(* Small instances of FileLifecycle for TLC.  Handlers, and requests, are  *)
(* interchangeable; the bytes are not.                                     *)
(***************************************************************************)
EXTENDS FileLifecycle, TLC

Sym == Permutations(Handlers) \union Permutations(Completers) \union Permutations(Deleters)
=============================================================================
