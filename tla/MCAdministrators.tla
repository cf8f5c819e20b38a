-------------------------- MODULE MCAdministrators --------------------------
(***************************************************************************)
(* Small instances of Administrators for TLC.  Requests are                *)
(* interchangeable, and so are the accounts that are configured alike.     *)
(***************************************************************************)
EXTENDS Administrators, TLC

Sym == Permutations(Requests) \union Permutations(Configured)
       \union Permutations(Users \ Configured)
=============================================================================
