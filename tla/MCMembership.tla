---------------------------- MODULE MCMembership ----------------------------
(***************************************************************************)
(* Small instances of Membership for TLC.                                  *)
(***************************************************************************)
EXTENDS Membership, TLC

Sym == Permutations(Users) \union Permutations(Addresses) \union Permutations(Invitations)
       \union Permutations(Logins) \union Permutations(Clerks)
=============================================================================
