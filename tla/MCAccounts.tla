----------------------------- MODULE MCAccounts -----------------------------
(***************************************************************************)
(* Small instances of Accounts.                                            *)
(***************************************************************************)
EXTENDS AccountsProofs, TLC

MCSymmetry == Permutations(Requests) \cup Permutations(Accounts)
=============================================================================
