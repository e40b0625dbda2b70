----------------------------- MODULE MCCatalog -----------------------------
(***************************************************************************)
(* A small instance of Catalog: one listing, its owner and a stranger.     *)
(***************************************************************************)
EXTENDS CatalogProofs, TLC

CONSTANTS p1, owner, stranger

MCOwner == p1 :> owner

MCSymmetry == Permutations(Requests)
=============================================================================
