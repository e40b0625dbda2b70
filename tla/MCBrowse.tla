------------------------------ MODULE MCBrowse ------------------------------
(***************************************************************************)
(* A small instance of Browse: one request at a time, beside one reader.   *)
(***************************************************************************)
EXTENDS BrowseProofs, TLC
=============================================================================
