---------------------------- MODULE PlayerSignals ----------------------------
(***************************************************************************)
(* What one open page tells the server, and what the server makes of it:   *)
(* startPlayer's session request, the heartbeat timer, the debounced       *)
(* events, beforeunload; the heartbeat's save of risk and watch progress,  *)
(* and the event's save of risk.  Every post is best effort: sendBeacon or *)
(* a fetch whose failure nobody looks at.  Posts overlap at the server and *)
(* arrive in any order.  The page of embed-init.js belongs to an anonymous *)
(* viewer, that of watch-page.js to a signed-in one.                       *)
(* How the score adds up and revokes is in PlaybackSessions; here matters  *)
(* only whether it has left zero, which no save takes back.                *)
(* WatermarkGuard is about the same page: names like those of its own have *)
(* a prefix here.                                                          *)
(***************************************************************************)
EXTENDS Integers

CONSTANTS
  Post,     \* posts of this page under way at one time
  Signals,  \* the event types besides visibility that the page may post
  MaxPos    \* bound: the heartbeats that lastPos counts

ASSUME SignalsAssumption ==
  /\ MaxPos \in Nat
  /\ Signals \subseteq {"FocusLost", "DevToolsOpen"}

VARIABLES
  \* the page
  signedIn,   \* its viewer has an account's cookie
  phase,      \* "loading", "open", "denied"; "left" after beforeunload, "back"
              \* when the document is shown again after it
  hidden,     \* document.hidden
  remembered, \* event types that the debouncer remembers
  lastPos,    \* lastPos in steps of HB_MS
  \* posts and their handlers
  what,       \* what[c]: the post, "Idle" if there is none
  at,         \* at[c]: where it is
  pos,        \* pos[c]: PositionSeconds of a heartbeat
  had,        \* had[c]: FurthestPositionSeconds as its handler has loaded it
  \* the database
  over,       \* the session is revoked or has expired
  noticed,    \* RiskScore > 0
  furthest    \* FurthestPositionSeconds of the viewer, NoRow if there is none

NoRow == -1

page == <<signedIn, phase, hidden, remembered, lastPos>>
posts == <<what, at, pos, had>>
rows == <<over, noticed, furthest>>
signalVars == <<signedIn, phase, hidden, remembered, lastPos, what, at, pos,
                had, over, noticed, furthest>>

EventType == {"VisibilityHidden", "Other"} \cup Signals
Heartbeats == {"Heartbeat", "RiskyHeartbeat"}

SignalsTypeOK ==
  /\ signedIn \in BOOLEAN /\ hidden \in BOOLEAN
  /\ phase \in {"loading", "open", "denied", "left", "back"}
  /\ remembered \in SUBSET EventType
  /\ lastPos \in 0..MaxPos
  /\ what \in [Post -> EventType \cup Heartbeats \cup {"Idle"}]
  /\ at \in [Post -> {"client", "sent", "progress", "save"}]
  /\ pos \in [Post -> 0..MaxPos]
  /\ had \in [Post -> (0..MaxPos) \cup {NoRow}]
  /\ over \in BOOLEAN
  /\ noticed \in BOOLEAN
  /\ furthest \in (0..MaxPos) \cup {NoRow}

SignalsInit ==
  /\ signedIn \in BOOLEAN
  /\ phase = "loading" /\ hidden = FALSE
  /\ remembered = {} /\ lastPos = 0
  /\ what = [c \in Post |-> "Idle"]
  /\ at = [c \in Post |-> "client"]
  /\ pos = [c \in Post |-> 0]
  /\ had = [c \in Post |-> NoRow]
  /\ over = FALSE /\ noticed = FALSE
  /\ furthest \in {NoRow, MaxPos}
-----------------------------------------------------------------------------
(* postEvent: with the antiforgery token a fetch with keepalive, without it
   navigator.sendBeacon, neither of them awaited.  It may be lost at once. *)
PostEvent(type, position) ==
  \/ \E c \in Post :
       /\ what[c] = "Idle"
       /\ what' = [what EXCEPT ![c] = type]
       /\ at' = [at EXCEPT ![c] = "sent"]
       /\ pos' = [pos EXCEPT ![c] = position]
       /\ UNCHANGED had
  \/ UNCHANGED posts

(* makeEventDebouncer: one of a type it remembers may be less than three
   seconds old, and then swallows the next. *)
Debounced(type) ==
  \/ type \in remembered /\ UNCHANGED <<remembered, posts>>
  \/ remembered' = remembered \cup {type} /\ PostEvent(type, 0)

(* startPlayer: a session, or nothing at all: refused, no network, or a secure
   stream that did not start.  It is not tried again. *)
StartPlayer ==
  /\ phase = "loading"
  /\ phase' \in {"open", "denied"}
  /\ UNCHANGED <<signedIn, hidden, remembered, lastPos, posts, rows>>

WatchPage == signedIn /\ StartPlayer
EmbedInit == ~signedIn /\ StartPlayer

(* Mutant of HeartbeatTimer: no heartbeats from a page that is not visible. *)
BeatsWhenVisible ==
  /\ phase = "open" /\ ~hidden
  /\ PostEvent("Heartbeat", lastPos)
  /\ lastPos' = IF lastPos < MaxPos THEN lastPos + 1 ELSE lastPos
  /\ UNCHANGED <<signedIn, phase, hidden, remembered, rows>>

(* The interval of 15 s: visibility, focus and overlay as they are now, any of
   which adds to the risk, and the position counted so far. *)
HeartbeatTimer ==
  /\ phase = "open"
  /\ \/ ~hidden /\ PostEvent("Heartbeat", lastPos)
     \/ PostEvent("RiskyHeartbeat", lastPos)
  /\ lastPos' = IF lastPos < MaxPos THEN lastPos + 1 ELSE lastPos
  /\ UNCHANGED <<signedIn, phase, hidden, remembered, rows>>

Listening == phase \in {"open", "back"}

VisibilityChange ==
  /\ phase \notin {"denied", "left"}
  /\ hidden' = ~hidden
  /\ IF Listening
     THEN Debounced(IF hidden' THEN "VisibilityHidden" ELSE "Other")
     ELSE UNCHANGED <<remembered, posts>>
  /\ UNCHANGED <<signedIn, phase, lastPos, rows>>

(* The blur listener, and the heuristic of 8 s for developer tools. *)
PageSignal ==
  /\ Listening
  /\ \E type \in Signals : Debounced(type)
  /\ UNCHANGED <<signedIn, phase, hidden, lastPos, rows>>

(* beforeunload stops the heartbeats and posts a last event, past the debouncer.
   A document may be shown again after it, when the navigation comes to nothing
   or from the browser's cache; nothing starts the heartbeats again. *)
Unload ==
  /\ Listening /\ phase' = "left"
  /\ PostEvent("Other", 0)
  /\ UNCHANGED <<signedIn, hidden, remembered, lastPos, rows>>

ShownAgain ==
  /\ phase = "left" /\ phase' = "back"
  /\ UNCHANGED <<signedIn, hidden, remembered, lastPos, posts, rows>>
-----------------------------------------------------------------------------
GoesOn(c, label, loaded) ==
  /\ at' = [at EXCEPT ![c] = label]
  /\ had' = [had EXCEPT ![c] = loaded]
  /\ UNCHANGED <<what, pos>>

Done(c) ==
  /\ what' = [what EXCEPT ![c] = "Idle"]
  /\ at' = [at EXCEPT ![c] = "client"]
  /\ pos' = [pos EXCEPT ![c] = 0]
  /\ had' = [had EXCEPT ![c] = NoRow]

(* RecordHeartbeatAsync loads the session, then the progress row. *)
LoadSession(c) ==
  /\ at[c] = "sent" /\ what[c] \in Heartbeats
  /\ IF over THEN Done(c) ELSE GoesOn(c, "progress", NoRow)
  /\ UNCHANGED <<page, rows>>

LoadProgress(c) ==
  /\ at[c] = "progress"
  /\ GoesOn(c, "save", furthest)
  /\ UNCHANGED <<page, rows>>

(* Mutant of NewFurthest: the position is stored without the comparison. *)
WhereverItIs(c) == pos[c]

(* A column that the handler does not change is not written. *)
NewFurthest(c) ==
  IF had[c] = NoRow \/ pos[c] > had[c] THEN pos[c] ELSE furthest

(* One save for all.  A row inserted by another heartbeat since then violates
   the unique index, and the heartbeat's risk is lost with it. *)
SaveHeartbeat(c) ==
  /\ at[c] = "save" /\ what[c] \in Heartbeats
  /\ IF had[c] = NoRow /\ furthest # NoRow
     THEN UNCHANGED rows
     ELSE /\ noticed' = (noticed \/ what[c] = "RiskyHeartbeat")
          /\ furthest' = NewFurthest(c)
          /\ UNCHANGED over
  /\ Done(c)
  /\ UNCHANGED page

(* SecurityEventsController.Post, RecordAsync and the load of ApplyRiskAsync.
   The event is stored; without an account it is about no session, and "Other"
   adds nothing.  A session that has only expired is not excused. *)
RecordAsync(c) ==
  /\ at[c] = "sent" /\ what[c] \in EventType
  /\ \/ signedIn /\ what[c] # "Other" /\ GoesOn(c, "save", NoRow)
     \/ (~signedIn \/ what[c] = "Other" \/ over) /\ Done(c)
  /\ UNCHANGED <<page, rows>>

ApplyRiskAsync(c) ==
  /\ at[c] = "save" /\ what[c] \in EventType
  /\ noticed' = TRUE
  /\ Done(c)
  /\ UNCHANGED <<page, over, furthest>>

(* Lost on its way, refused by the rate limit, or a save fails. *)
Fails(c) ==
  /\ what[c] # "Idle"
  /\ Done(c)
  /\ UNCHANGED <<page, rows>>

(* Its score or somebody revokes the session, or its time is up. *)
SessionEnds ==
  /\ phase # "loading"
  /\ ~over /\ over' = TRUE
  /\ UNCHANGED <<page, posts, noticed, furthest>>
-----------------------------------------------------------------------------
Page ==
  \/ WatchPage \/ EmbedInit \/ HeartbeatTimer \/ VisibilityChange
  \/ PageSignal \/ Unload \/ ShownAgain

Server(c) ==
  \/ LoadSession(c) \/ LoadProgress(c) \/ SaveHeartbeat(c)
  \/ RecordAsync(c) \/ ApplyRiskAsync(c)

SignalsNext ==
  \/ Page
  \/ \E c \in Post : Server(c) \/ Fails(c)
  \/ SessionEnds

SignalsSpec == SignalsInit /\ [][SignalsNext]_signalVars

(* The interval goes on, a post ends at some time, and not every heartbeat is
   lost: now and then one gets past each stage. *)
SignalsFairness ==
  /\ \A c \in Post : WF_signalVars(Server(c) \/ Fails(c))
  /\ SF_signalVars(HeartbeatTimer /\ posts' # posts)
  /\ SF_signalVars(\E c \in Post : LoadSession(c))
  /\ SF_signalVars(\E c \in Post : LoadProgress(c))
  /\ SF_signalVars(\E c \in Post : SaveHeartbeat(c))

FairSignals == SignalsSpec /\ SignalsFairness
-----------------------------------------------------------------------------
(* How far the viewer has come is never taken back by a heartbeat that arrives
   late, after a reload or from a second tab, unless its handler loaded a row
   that another heartbeat has moved on since. *)
FurthestKept ==
  [][furthest' < furthest =>
       \E c \in Post : at[c] = "save" /\ what'[c] = "Idle" /\ had[c] < furthest
  ]_signalVars

(* A page that stays hidden is noticed although its event may be swallowed by
   the debouncer, lost, or anonymous: the heartbeats bring it up, also when two
   first ones collide, unless the page has been left or the session ends. *)
HiddenNoticed ==
  (phase = "open" /\ hidden) ~>
     (noticed \/ over \/ phase # "open" \/ ~hidden)
=============================================================================
