------------------------------ MODULE MCImages ------------------------------
(***************************************************************************)
(* Small instances of PropertyImages.  Every listing belongs to owner; a   *)
(* second listing, when there is one, belongs to stranger.                 *)
(***************************************************************************)
EXTENDS PropertyImagesProofs, TLC

CONSTANTS p1, owner, stranger

MCOwner == [p \in Properties |-> IF p = p1 THEN owner ELSE stranger]

MCSymmetry == Permutations(Images) \cup Permutations(Requests)
=============================================================================
