--------------------------- MODULE MCVideoCatalog ---------------------------
(***************************************************************************)
(* Model checking of VideoCatalog: events of the video at Bunny that say   *)
(* Failed and Ready, and others without a code.                            *)
(***************************************************************************)
EXTENDS VideoCatalog, TLC

CONSTANTS v1, e1, e2

Symmetry == Permutations(Request)

eventVideos == [e \in Event |-> v1]
eventCodes == [e \in Event |-> CASE e = e1 -> 6 [] e = e2 -> 4 [] OTHER -> NoCode]
=============================================================================
