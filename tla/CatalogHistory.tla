--------------------------- MODULE CatalogHistory ---------------------------
(***************************************************************************)
(* VideoCatalog with a history variable: which webhook events have been in *)
(* force.  Webhooks judge a transition by the status that they loaded and  *)
(* write it later, others write statuses in between, and so the status in  *)
(* the end may be behind what a processed event says.  The history tells   *)
(* that apart from an event that was marked and never applied.             *)
(***************************************************************************)
EXTENDS VideoCatalog

VARIABLE effective   \* the events in force at some moment since they happened

hvars == <<vars, effective>>

(* The video's status is as advanced as event e says, or more. *)
InForce(e) ==
  HasRow(EventVideo[e]) /\
    StatusRank[status[EventVideo[e]]] >= StatusRank[MapStatus(EventCode[e])]

HTypeOK == TypeOK /\ effective \in SUBSET emitted

HInit == Init /\ effective = {}

HNext ==
  /\ Next
  /\ effective' = effective \cup {e \in Event : (e \in emitted /\ InForce(e))'}

HSpec == HInit /\ [][HNext]_hvars
-----------------------------------------------------------------------------
(* BunnyWebhookController.cs:142-158: no event is marked as processed that was
   never applied.  Whatever overlaps with the webhook, and wherever it fails,
   the video of a processed event has had, at some moment since the event
   happened, a status at least as advanced as the event says. *)
ProcessedTookEffect ==
  \A e \in Event :
    events[e] = "processed" /\ EventCode[e] # NoCode => e \in effective
=============================================================================
