-------------------------- MODULE MCWatermarkGuard --------------------------
(***************************************************************************)
(* Model checking of WatermarkGuard with two spans.                        *)
(***************************************************************************)
EXTENDS WatermarkGuard

TwoSpans == 1..2
=============================================================================
