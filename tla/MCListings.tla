----------------------------- MODULE MCListings -----------------------------
(***************************************************************************)
(* Small instances of PropertyListings.                                    *)
(***************************************************************************)
EXTENDS PropertyListingsProofs, TLC

MCSymmetry == Permutations(Requests)
=============================================================================
