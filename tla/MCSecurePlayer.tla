--------------------------- MODULE MCSecurePlayer ---------------------------
(***************************************************************************)
(* Model checking of SecurePlayer on a film of three positions.            *)
(***************************************************************************)
EXTENDS SecurePlayer
=============================================================================
