---------------------------- MODULE SecurePlayer ----------------------------
(***************************************************************************)
(* One browser page that plays a Secure WebRTC session (player.js) and the *)
(* server's side of its calls (SecurePlaybackController): offer, seek and  *)
(* close.  The worker publishes the file from the position it was started  *)
(* at; the page only ever sees a stream without position and adds the      *)
(* position the last seek was answered with.  A call the page has given up *)
(* goes on at the server.                                                  *)
(* Positions count in the ten seconds of the two seek buttons.  The media  *)
(* server between worker and page is external: it answers an offer while   *)
(* the worker publishes, or not yet.  Stopping and starting the worker are *)
(* single steps: MediaWorker shows what they consist of.                   *)
(***************************************************************************)
EXTENDS Naturals

CONSTANTS
  Call,         \* calls of this page in flight at one time
  Last,         \* the last position a seek is clamped to, duration - 1
  Elapsed,      \* how far the stream may have played when it is looked at
  MaxAttempts,  \* upstream attempts of one offer
  MaxProcess,   \* bound: FFmpeg processes started
  MaxPos        \* bound: the page's own count lastPos

ASSUME SecurePlayerAssumption ==
  /\ "none" \notin Call
  /\ Last \in Nat /\ MaxPos \in Nat
  /\ Elapsed \subseteq Nat
  /\ MaxAttempts \in Nat \ {0} /\ MaxProcess \in Nat \ {0}

Process == 1..MaxProcess

VARIABLES
  \* the page
  phase,      \* what startPlayer or the click handler awaits
  installed,  \* heartbeat, buttons and beforeunload are there
  await,      \* the call whose answer the page awaits
  held, base, \* secureState: the process its peer receives (0 is null), and
              \* basePositionSeconds
  heldOpen,   \* secureState.peer is open
  newOpen,    \* the peer startSecureWebRtc works on is open
  newBase, newProcess,  \* what it will return
  lastPos,    \* the position counted without a stream
  \* the server
  kind, at, position, attempt, result,  \* of each call
  ended,      \* the session is revoked or expired
  lastKnown,  \* LastKnownPositionSeconds
  streaming,  \* the process that publishes, 0 if none
  started,    \* processes started so far
  start,      \* start[n]: the position process n was started at
  overlapped  \* history: a seek began while another was in flight

peers == <<held, base, heldOpen, newOpen, newBase, newProcess>>
page == <<phase, installed, await, lastPos, peers>>
calls == <<kind, at, position, attempt, result>>
worker == <<streaming, started, start>>
row == <<ended, lastKnown>>
vars == <<phase, installed, await, held, base, heldOpen, newOpen, newBase,
          newProcess, lastPos, kind, at, position, attempt, result, ended,
          lastKnown, streaming, started, start, overlapped>>

TypeOK ==
  /\ phase \in {"offering", "playing", "ready", "seeking", "failed", "left"}
  /\ installed \in BOOLEAN
  /\ await \in Call \cup {"none"}
  /\ held \in Process \cup {0} /\ newProcess \in Process \cup {0}
  /\ base \in 0..Last /\ newBase \in 0..Last
  /\ heldOpen \in BOOLEAN /\ newOpen \in BOOLEAN
  /\ lastPos \in 0..MaxPos
  /\ kind \in [Call -> {"none", "offer", "seek", "close"}]
  /\ at \in [Call -> {"idle", "validate", "attempt", "delay", "stop", "start",
                      "save", "stopClose", "saveClose", "answered"}]
  /\ position \in [Call -> Nat]
  /\ attempt \in [Call -> 0..MaxAttempts]
  /\ result \in [Call -> Process \cup {0}]
  /\ ended \in BOOLEAN
  /\ lastKnown \in Nat
  /\ streaming \in Process \cup {0}
  /\ started \in Process
  /\ start \in [Process -> 0..Last]
  /\ overlapped \in BOOLEAN

(* CreateAsync has answered and has started the worker at zero. *)
Init ==
  /\ phase = "offering" /\ installed = FALSE /\ await = "none"
  /\ held = 0 /\ base = 0 /\ heldOpen = FALSE
  /\ newOpen = TRUE /\ newBase = 0 /\ newProcess = 0
  /\ lastPos = 0
  /\ kind = [c \in Call |-> "none"]
  /\ at = [c \in Call |-> "idle"]
  /\ position = [c \in Call |-> 0]
  /\ attempt = [c \in Call |-> 0]
  /\ result = [c \in Call |-> 0]
  /\ ended = FALSE /\ lastKnown = 0
  /\ streaming = 1 /\ started = 1
  /\ start = [n \in Process |-> 0]
  /\ overlapped = FALSE
-----------------------------------------------------------------------------
Send(c, what, p) ==
  /\ at[c] = "idle"
  /\ at' = [at EXCEPT ![c] = "validate"]
  /\ kind' = [kind EXCEPT ![c] = what]
  /\ position' = [position EXCEPT ![c] = p]
  /\ UNCHANGED <<attempt, result>>

Free(c) ==
  /\ at' = [at EXCEPT ![c] = "idle"]
  /\ kind' = [kind EXCEPT ![c] = "none"]
  /\ position' = [position EXCEPT ![c] = 0]
  /\ attempt' = [attempt EXCEPT ![c] = 0]
  /\ result' = [result EXCEPT ![c] = 0]

(* startSecureWebRtc returns a state, and its caller holds it. *)
Started ==
  /\ held' = newProcess /\ base' = newBase /\ heldOpen' = TRUE
  /\ newOpen' = FALSE /\ newBase' = 0 /\ newProcess' = 0
  /\ phase' = "ready" /\ installed' = TRUE

(* It closes its peer and returns null: startPlayer then returns before it
   installs anything, a seek leaves the page without a stream. *)
StartFailed ==
  /\ held' = 0 /\ base' = 0 /\ heldOpen' = FALSE
  /\ newOpen' = FALSE /\ newBase' = 0 /\ newProcess' = 0
  /\ phase' = (IF installed THEN "ready" ELSE "failed")
  /\ UNCHANGED installed

(* createOffer, ICE gathering, POST offer. *)
SendOffer(c) ==
  /\ phase = "offering" /\ await = "none"
  /\ Send(c, "offer", 0)
  /\ await' = c
  /\ UNCHANGED <<phase, installed, lastPos, peers, row, worker, overlapped>>

OfferAnswered(c) ==
  /\ phase = "offering" /\ await = c /\ at[c] = "answered" /\ result[c] # 0
  /\ newProcess' = result[c]
  /\ phase' = "playing"
  /\ await' = "none"
  /\ Free(c)
  /\ UNCHANGED <<installed, lastPos, held, base, heldOpen, newOpen, newBase, row,
                 worker, overlapped>>

OfferRefused(c) ==
  /\ phase = "offering" /\ await = c /\ at[c] = "answered" /\ result[c] = 0
  /\ StartFailed
  /\ await' = "none"
  /\ Free(c)
  /\ UNCHANGED <<lastPos, row, worker, overlapped>>

(* video.play() settles when the first media arrive; it stays pending while
   none do. *)
PlaySettles ==
  /\ phase = "playing" /\ newProcess = streaming
  /\ Started
  /\ UNCHANGED <<await, lastPos, calls, row, worker, overlapped>>

(* The browser does not allow the page to play: play() rejects at once. *)
PlayRejected ==
  /\ phase = "playing"
  /\ Started
  /\ UNCHANGED <<await, lastPos, calls, row, worker, overlapped>>

CurrentSecurePosition(e) == IF held = 0 THEN 0 ELSE base + e

SeekInFlight == \E c \in Call : kind[c] = "seek" /\ at[c] # "answered"

(* A click on one of the two seek buttons, which are disabled until the seek
   has ended, and reconnectSecureAt up to its POST. *)
Click(c, e, target) ==
  /\ phase = "ready"
  /\ target = CurrentSecurePosition(e) + 1
       \/ target = IF CurrentSecurePosition(e) = 0 THEN 0
                   ELSE CurrentSecurePosition(e) - 1
  /\ Send(c, "seek", target)
  /\ phase' = "seeking" /\ await' = c
  /\ overlapped' = (overlapped \/ SeekInFlight)
  /\ UNCHANGED <<installed, lastPos, peers, row, worker>>

(* Mutants of SeekAnswered: the old peer is left open, and the base is the
   position asked for instead of the one answered. *)
OldPeerKept(c) ==
  /\ phase = "seeking" /\ await = c /\ at[c] = "answered" /\ result[c] # 0
  /\ newOpen' = TRUE /\ newBase' = position[c]
  /\ phase' = "offering" /\ await' = "none"
  /\ Free(c)
  /\ UNCHANGED <<installed, lastPos, held, base, heldOpen, newProcess, row, worker,
                 overlapped>>

BaseUnchanged(c) ==
  /\ phase = "seeking" /\ await = c /\ at[c] = "answered" /\ result[c] # 0
  /\ heldOpen' = FALSE
  /\ newOpen' = TRUE /\ newBase' = base
  /\ phase' = "offering" /\ await' = "none"
  /\ Free(c)
  /\ UNCHANGED <<installed, lastPos, held, base, newProcess, row, worker, overlapped>>

(* The answer closes the old peer and startSecureWebRtc begins again; until
   it returns, secureState is still the old one. *)
SeekAnswered(c) ==
  /\ phase = "seeking" /\ await = c /\ at[c] = "answered" /\ result[c] # 0
  /\ heldOpen' = FALSE
  /\ newOpen' = TRUE /\ newBase' = position[c]
  /\ phase' = "offering" /\ await' = "none"
  /\ Free(c)
  /\ UNCHANGED <<installed, lastPos, held, base, newProcess, row, worker, overlapped>>

(* Mutant of SeekRefused: the buttons are enabled again only after success. *)
ButtonsStayDisabled(c) ==
  /\ phase = "seeking" /\ await = c /\ at[c] = "answered" /\ result[c] = 0
  /\ await' = "none"
  /\ Free(c)
  /\ UNCHANGED <<phase, installed, lastPos, peers, row, worker, overlapped>>

(* An error leaves the old peer and the old position. *)
SeekRefused(c) ==
  /\ phase = "seeking" /\ await = c /\ at[c] = "answered" /\ result[c] = 0
  /\ phase' = "ready" /\ await' = "none"
  /\ Free(c)
  /\ UNCHANGED <<installed, lastPos, peers, row, worker, overlapped>>

(* fetch rejects: for the page the call has failed, the server has it all the
   same. *)
CallLost ==
  /\ await # "none"
  /\ await' = "none"
  /\ \/ phase = "seeking" /\ phase' = "ready" /\ UNCHANGED <<installed, peers>>
     \/ phase = "offering" /\ StartFailed
  /\ UNCHANGED <<lastPos, calls, row, worker, overlapped>>

(* The heartbeat timer.  A session that has ended refuses, which the page does
   not look at.  Without a stream the page counts the seconds. *)
Heartbeat(e) ==
  /\ installed /\ phase # "left"
  /\ lastKnown' = (IF ended THEN lastKnown
                   ELSE IF held = 0 THEN lastPos ELSE CurrentSecurePosition(e))
  /\ lastPos' = (IF held = 0 /\ lastPos < MaxPos THEN lastPos + 1 ELSE lastPos)
  /\ UNCHANGED <<phase, installed, await, peers, calls, ended, worker, overlapped>>

(* beforeunload closes the peer and posts close, which may not get through; a
   page that never started just goes. *)
Leave ==
  /\ phase # "left"
  /\ phase' = "left" /\ await' = "none"
  /\ heldOpen' = FALSE /\ newOpen' = FALSE
  /\ held' = 0 /\ base' = 0 /\ newBase' = 0 /\ newProcess' = 0
  /\ \/ installed /\ \E c \in Call : Send(c, "close", 0)
     \/ UNCHANGED calls
  /\ UNCHANGED <<installed, lastPos, row, worker, overlapped>>
-----------------------------------------------------------------------------
(* The server.  A call nobody awaits is done when it is answered. *)
Move(c, to) ==
  /\ at' = [at EXCEPT ![c] = to]
  /\ UNCHANGED <<kind, position, attempt, result>>

Respond(c, value) ==
  IF await = c
  THEN /\ at' = [at EXCEPT ![c] = "answered"]
       /\ result' = [result EXCEPT ![c] = value]
       /\ UNCHANGED <<kind, position, attempt>>
  ELSE Free(c)

Clamp(p) == IF p > Last THEN Last ELSE p

(* ValidateSessionAsync, and what the handlers compute from it. *)
ValidateSessionAsync(c) ==
  /\ at[c] = "validate"
  /\ IF ended
     THEN Respond(c, 0)
     ELSE /\ at' = [at EXCEPT ![c] = CASE kind[c] = "offer" -> "attempt"
                                       [] kind[c] = "seek"  -> "stop"
                                       [] OTHER             -> "stopClose"]
          /\ position' = [position EXCEPT ![c] = Clamp(@)]
          /\ attempt' = [attempt EXCEPT ![c] = IF kind[c] = "offer" THEN 1 ELSE 0]
          /\ UNCHANGED <<kind, result>>
  /\ UNCHANGED <<page, row, worker, overlapped>>

(* One POST to the media server: an answer while the worker publishes; a
   status that says it may still be starting, an error or the time limit are
   tried again; any other status is passed on. *)
Attempt(c) ==
  /\ at[c] = "attempt"
  /\ \/ streaming # 0 /\ Respond(c, streaming)
     \/ attempt[c] < MaxAttempts /\ Move(c, "delay")
     \/ Respond(c, 0)
  /\ UNCHANGED <<page, row, worker, overlapped>>

(* Task.Delay, which throws when the time limit has passed. *)
Delay(c) ==
  /\ at[c] = "delay"
  /\ \/ /\ at' = [at EXCEPT ![c] = "attempt"]
        /\ attempt' = [attempt EXCEPT ![c] = @ + 1]
        /\ UNCHANGED <<kind, position, result>>
     \/ Respond(c, 0)
  /\ UNCHANGED <<page, row, worker, overlapped>>

(* SeekAsync of the worker: StopProcess, then StartProcessAsync, which leaves
   a process alone that another call has started in between. *)
StopWorker(c) ==
  /\ at[c] = "stop"
  /\ streaming' = 0
  /\ Move(c, "start")
  /\ UNCHANGED <<page, row, started, start, overlapped>>

StartWorker(c) ==
  /\ at[c] = "start"
  /\ \/ /\ streaming = 0 /\ started < MaxProcess
        /\ started' = started + 1
        /\ streaming' = started + 1
        /\ start' = [start EXCEPT ![started + 1] = position[c]]
        /\ Move(c, "save")
     \/ streaming # 0 /\ Move(c, "save") /\ UNCHANGED worker
     \/ streaming = 0 /\ Respond(c, 0) /\ UNCHANGED worker
  /\ UNCHANGED <<page, row, overlapped>>

SaveSeek(c) ==
  /\ at[c] = "save"
  /\ lastKnown' = position[c]
  /\ Respond(c, started)
  /\ UNCHANGED <<page, ended, worker, overlapped>>

(* Close: the worker is stopped, then Revoked is saved. *)
StopForClose(c) ==
  /\ at[c] = "stopClose"
  /\ streaming' = 0
  /\ Move(c, "saveClose")
  /\ UNCHANGED <<page, row, started, start, overlapped>>

SaveClose(c) ==
  /\ at[c] = "saveClose"
  /\ ended' = TRUE
  /\ Respond(c, 0)
  /\ UNCHANGED <<page, lastKnown, worker, overlapped>>

(* A handler throws at one of its awaits. *)
HandlerFails(c) ==
  /\ at[c] \notin {"idle", "answered"}
  /\ Respond(c, 0)
  /\ UNCHANGED <<page, row, worker, overlapped>>

(* The end of the file, or the process crashes. *)
ProcessExits ==
  /\ streaming # 0 /\ streaming' = 0
  /\ UNCHANGED <<page, calls, row, started, start, overlapped>>

(* The session is revoked by somebody else, or the cleanup service ends it. *)
SessionEnds ==
  /\ ~ended /\ ended' = TRUE /\ streaming' = 0
  /\ UNCHANGED <<page, calls, lastKnown, started, start, overlapped>>
-----------------------------------------------------------------------------
PageStep ==
  \/ \E c \in Call : \/ SendOffer(c) \/ OfferAnswered(c) \/ OfferRefused(c)
                     \/ SeekAnswered(c) \/ SeekRefused(c)
  \/ PlaySettles

ServerStep(c) ==
  \/ ValidateSessionAsync(c) \/ Attempt(c) \/ Delay(c)
  \/ StopWorker(c) \/ StartWorker(c) \/ SaveSeek(c)
  \/ StopForClose(c) \/ SaveClose(c)

Next ==
  \/ PageStep \/ PlayRejected \/ CallLost \/ Leave
  \/ \E e \in Elapsed : Heartbeat(e)
  \/ \E c \in Call, e \in Elapsed, target \in 0..(Last + 2) : Click(c, e, target)
  \/ \E c \in Call : ServerStep(c) \/ HandlerFails(c)
  \/ ProcessExits \/ SessionEnds

(* The browser runs the page's continuations, the server its handlers. *)
Fairness == WF_vars(PageStep) /\ \A c \in Call : WF_vars(ServerStep(c))

Spec == Init /\ [][Next]_vars
FairSpec == Spec /\ Fairness
-----------------------------------------------------------------------------
Watching == heldOpen /\ held = streaming /\ streaming # 0

(* The page never receives two streams at a time: a seek closes its peer
   before the next one opens, and a start that fails closes its own. *)
OnePeer == ~(heldOpen /\ newOpen)

(* What the page adds to the stream's time is where the stream it watches was
   started, unless a seek it gave up was still running when the next began. *)
BaseMatchesStream == Watching /\ ~overlapped => base = start[held]

(* A seek ends and the buttons come back, whatever fails, unless the stream
   dies between its answer and its first picture: play() then stays pending. *)
SeekSettles ==
  (installed /\ phase \in {"seeking", "offering", "playing"})
    ~> (phase \in {"ready", "left"} \/ (phase = "playing" /\ newProcess # streaming))
=============================================================================
