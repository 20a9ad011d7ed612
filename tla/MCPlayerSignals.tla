--------------------------- MODULE MCPlayerSignals ---------------------------
(***************************************************************************)
(* Model checking of PlayerSignals.                                        *)
(***************************************************************************)
EXTENDS PlayerSignals
=============================================================================
