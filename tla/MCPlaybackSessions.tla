------------------------- MODULE MCPlaybackSessions -------------------------
(***************************************************************************)
(* Model checking of PlaybackSessions: symmetry, and all operations.       *)
(***************************************************************************)
EXTENDS PlaybackSessions, TLC

Symmetry == Permutations(Request)

AllOps == Operations
=============================================================================
