-------------------------- MODULE MCPublicPlayback --------------------------
(***************************************************************************)
(* Model checking of PublicPlayback: requests, rows and sessions are       *)
(* interchangeable.                                                        *)
(***************************************************************************)
EXTENDS PublicPlayback, TLC

Symmetry ==
  Permutations(Request) \cup Permutations(Session) \cup Permutations(Row)
=============================================================================
