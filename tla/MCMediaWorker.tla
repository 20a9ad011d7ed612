---------------------------- MODULE MCMediaWorker ---------------------------
(* Model checking of MediaWorker. *)
EXTENDS MediaWorker
=============================================================================
