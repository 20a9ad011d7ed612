----------------------------- MODULE MCUploadPage -----------------------------
(***************************************************************************)
(* Model checking of UploadPage: a video at Bunny whose upload fails at    *)
(* first and is then finished, and a protected one.                        *)
(***************************************************************************)
EXTENDS UploadPage

CONSTANTS v1, e1, e2

eventVideos == [e \in Event |-> v1]
eventCodes == [e \in Event |-> CASE e = e1 -> 6 [] e = e2 -> 4 [] OTHER -> NoCode]
=============================================================================
