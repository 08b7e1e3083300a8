----------------------------- MODULE MCAccounts -----------------------------
(* Accounts with interchangeable tabs.                                     *)
EXTENDS Accounts, TLC

Symmetric == Permutations(Tab)

=============================================================================
