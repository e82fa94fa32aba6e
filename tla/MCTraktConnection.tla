-------------------------- MODULE MCTraktConnection --------------------------
(***************************************************************************)
(* Two accounts, which nothing tells apart.                                *)
(***************************************************************************)
EXTENDS TraktConnection, TLC

AccountSymmetry == Permutations(Accounts)
=============================================================================
