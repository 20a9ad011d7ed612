--------------------------- MODULE WatermarkGuard ---------------------------
(***************************************************************************)
(* The overlay of player.js (a container with two drifting spans, and a    *)
(* grid), its mutation observers, its timers, and whatever else changes    *)
(* the document: an extension, a script of the embedding page, a person    *)
(* with the developer tools.  Observers run as microtasks, before the next *)
(* timer, on the document as it is then and not as it was reported.        *)
(* A span's opacity changes over a transition of 1.2 s (player.css): one   *)
(* that is faded out is still visible when its observer looks at it.       *)
(***************************************************************************)
EXTENDS Naturals

CONSTANTS
  Span,       \* the spans of a whole overlay, two
  MaxChanges  \* bound: changes made by others

ASSUME WatermarkAssumption == Span # {} /\ MaxChanges \in Nat

VARIABLES
  container,  \* #player-watermark in the document: the "first", which
              \* startWatermark knows, a "later" one, or "none"
  classed,    \* it has its class
  wmStyle,    \* how it is displayed
  span,       \* span[i]: how the i-th span is displayed
  grid,       \* the grid is there; nobody hides it by its style, which
              \* player.js:301-305 would not see
  pendingContainer, pendingShell,  \* mutation records wait for the observer
  guarding,   \* guard.stop has not been called
  window,     \* a WatermarkTamper event was posted less than 3 s ago
  posted,     \* alternates with each event posted
  owed,       \* history: a change to be reported at once, not yet reported
  changes

dom == <<container, classed, wmStyle, span, grid>>
vars == <<container, classed, wmStyle, span, grid, pendingContainer,
          pendingShell, guarding, window, posted, owed, changes>>

(* "inline" is display or visibility in the element's own style, "sticky" its
   hidden attribute, "fading", "faded" and "appearing" are the course of a
   transition. *)
Displays == {"shown", "inline", "sticky", "fading", "faded", "appearing", "gone"}

TypeOK ==
  /\ container \in {"first", "later", "none"}
  /\ classed \in BOOLEAN
  /\ wmStyle \in {"shown", "inline", "sticky"}
  /\ span \in [Span -> Displays]
  /\ grid \in BOOLEAN
  /\ pendingContainer \in BOOLEAN /\ pendingShell \in BOOLEAN
  /\ guarding \in BOOLEAN /\ window \in BOOLEAN
  /\ posted \in 0..1
  /\ owed \in BOOLEAN
  /\ changes \in 0..MaxChanges

NewSpans == [i \in Span |-> "shown"]

Init ==
  /\ container = "first" /\ classed = TRUE /\ wmStyle = "shown"
  /\ span = NewSpans /\ grid = TRUE
  /\ pendingContainer = FALSE /\ pendingShell = FALSE
  /\ guarding = TRUE /\ window = FALSE /\ posted = 0
  /\ owed = FALSE /\ changes = 0

(* isSpanHidden and anySpanVisible. *)
SpanHidden(i) ==
  \/ span[i] \in {"inline", "sticky", "faded", "appearing", "gone"}
  \/ wmStyle # "shown"
AnySpanVisible == container # "none" /\ \E i \in Span : ~SpanHidden(i)

(* makeEventDebouncer: at most one event of a type in three seconds. *)
ReportTamper(tampered) ==
  IF tampered /\ ~window
  THEN window' = TRUE /\ posted' = 1 - posted /\ owed' = FALSE
  ELSE UNCHANGED <<window, posted, owed>>

(* unhide, of a span. *)
Unhidden(d) == CASE d = "inline" -> "shown" [] d = "faded" -> "appearing" [] OTHER -> d
-----------------------------------------------------------------------------
(* Mutant of ContainerObserver: missing spans are put back and not reported. *)
HealsSilently ==
  LET style == IF wmStyle = "inline" THEN "shown" ELSE wmStyle
      missing == \E i \in Span : span[i] = "gone"
      hidden == \E i \in Span :
                  \/ style # "shown"
                  \/ span[i] \in {"inline", "sticky", "faded", "appearing"}
  IN /\ pendingContainer /\ container # "none"
     /\ wmStyle' = style /\ classed' = TRUE
     /\ span' = IF missing THEN NewSpans ELSE [i \in Span |-> Unhidden(span[i])]
     /\ ReportTamper(~classed \/ (hidden /\ ~missing))
     /\ pendingContainer' = (<<wmStyle', classed', span'>> # <<wmStyle, classed, span>>)
     /\ grid' = TRUE
     /\ pendingShell' = (pendingShell \/ ~grid)
     /\ UNCHANGED <<container, guarding, changes>>

(* Mutant of ContainerObserver: every record counts as tampering. *)
ReportsEveryRecord ==
  /\ pendingContainer /\ container # "none"
  /\ wmStyle' = (IF wmStyle = "inline" THEN "shown" ELSE wmStyle)
  /\ classed' = TRUE
  /\ span' = (IF \E i \in Span : span[i] = "gone" THEN NewSpans
              ELSE [i \in Span |-> Unhidden(span[i])])
  /\ ReportTamper(TRUE)
  /\ pendingContainer' = (<<wmStyle', classed', span'>> # <<wmStyle, classed, span>>)
  /\ grid' = TRUE
  /\ pendingShell' = (pendingShell \/ ~grid)
  /\ UNCHANGED <<container, guarding, changes>>

(* The observer of the container: its own style is put right and not reported;
   the class, missing spans and hidden spans are put right and reported, and
   spans that are missing make it look no further.  What it changes is a
   mutation again, of the container or of the shell. *)
ContainerObserver ==
  LET style == IF wmStyle = "inline" THEN "shown" ELSE wmStyle
      missing == \E i \in Span : span[i] = "gone"
      hidden == \E i \in Span :
                  \/ style # "shown"
                  \/ span[i] \in {"inline", "sticky", "faded", "appearing"}
  IN /\ pendingContainer /\ container # "none"
     /\ wmStyle' = style /\ classed' = TRUE
     /\ span' = IF missing THEN NewSpans ELSE [i \in Span |-> Unhidden(span[i])]
     /\ ReportTamper(~classed \/ missing \/ hidden)
     /\ pendingContainer' = (<<wmStyle', classed', span'>> # <<wmStyle, classed, span>>)
     /\ grid' = TRUE
     /\ pendingShell' = (pendingShell \/ ~grid)
     /\ UNCHANGED <<container, guarding, changes>>

(* The same observer, its container no longer in the document: none of its
   spans is connected, which it reports. *)
DetachedObserver ==
  /\ pendingContainer /\ container = "none"
  /\ ReportTamper(TRUE)
  /\ pendingContainer' = FALSE
  /\ grid' = TRUE
  /\ pendingShell' = (pendingShell \/ ~grid)
  /\ UNCHANGED <<container, classed, wmStyle, span, guarding, changes>>

(* Mutant of ShellObserver: looks after the grid only. *)
ShellForGrid ==
  /\ pendingShell
  /\ grid' = TRUE
  /\ pendingShell' = ~grid
  /\ UNCHANGED <<container, classed, wmStyle, span, pendingContainer, guarding, window,
                 posted, owed, changes>>

(* The observer of the shell: ensureContainer, with a new observer in place of
   the old one and its records, and ensureGrid. *)
ShellObserver ==
  /\ pendingShell
  /\ IF container = "none"
     THEN /\ container' = "later" /\ classed' = TRUE /\ wmStyle' = "shown"
          /\ span' = NewSpans
          /\ pendingContainer' = FALSE
          /\ ReportTamper(TRUE)
     ELSE UNCHANGED <<container, classed, wmStyle, span, pendingContainer, window,
                      posted, owed>>
  /\ grid' = TRUE
  /\ pendingShell' = (container = "none" \/ ~grid)
  /\ UNCHANGED <<guarding, changes>>

NoMicrotask == ~pendingContainer /\ ~pendingShell

(* Mutant of Sweep: fewer spans than a whole overlay has, not none visible. *)
SweepCounts ==
  /\ NoMicrotask /\ guarding
  /\ LET missing == \E i \in Span : span[i] = "gone"
     IN /\ span' = IF missing THEN NewSpans ELSE span
        /\ pendingContainer' = missing
        /\ ReportTamper(missing)
  /\ UNCHANGED <<container, classed, wmStyle, grid, pendingShell, guarding, changes>>

(* Every five seconds: ensureContainer, ensureGrid, and when no span is visible
   the spans are made again. *)
Sweep ==
  LET lost == container = "none"
      dark == ~lost /\ ~AnySpanVisible
  IN /\ NoMicrotask /\ guarding
     /\ container' = IF lost THEN "later" ELSE container
     /\ classed' = (classed \/ lost)
     /\ wmStyle' = IF lost THEN "shown" ELSE wmStyle
     /\ span' = IF lost \/ dark THEN NewSpans ELSE span
     /\ grid' = TRUE
     /\ pendingContainer' = dark
     /\ pendingShell' = (lost \/ ~grid)
     /\ ReportTamper(lost \/ dark)
     /\ UNCHANGED <<guarding, changes>>

(* Every three and a half seconds, the spans of the container that
   startWatermark was given, with an opacity of their own each. *)
Reposition ==
  /\ NoMicrotask /\ container = "first"
  /\ span' = [i \in Span |-> CASE span[i] = "fading" -> "shown"
                               [] span[i] = "faded"  -> "appearing"
                               [] OTHER              -> span[i]]
  /\ pendingContainer' = guarding
  /\ UNCHANGED <<container, classed, wmStyle, grid, pendingShell, guarding, window,
                 posted, owed, changes>>

(* fullscreenchange: the grid is removed and installed again. *)
Fullscreen ==
  /\ NoMicrotask
  /\ grid' = TRUE /\ pendingShell' = guarding
  /\ UNCHANGED <<container, classed, wmStyle, span, pendingContainer, guarding, window,
                 posted, owed, changes>>

(* Three seconds without an event; the ends of transitions. *)
WindowEnds ==
  /\ NoMicrotask /\ window /\ window' = FALSE
  /\ UNCHANGED <<dom, pendingContainer, pendingShell, guarding, posted, owed, changes>>

TransitionEnds(i) ==
  /\ NoMicrotask /\ span[i] \in {"fading", "appearing"}
  /\ span' = [span EXCEPT ![i] = IF @ = "fading" THEN "faded" ELSE "shown"]
  /\ UNCHANGED <<container, classed, wmStyle, grid, pendingContainer, pendingShell,
                 guarding, window, posted, owed, changes>>

(* beforeunload: guard.stop clears the sweep and disconnects both observers.
   When the user stays after all, nothing installs them again; the other two
   timers of the overlay go on. *)
BeforeUnload ==
  /\ NoMicrotask /\ guarding /\ guarding' = FALSE
  /\ UNCHANGED <<dom, pendingContainer, pendingShell, window, posted, owed, changes>>
-----------------------------------------------------------------------------
(* Changes others make, one or several in one task, each for the worse. *)
Change(seen) ==
  /\ changes < MaxChanges
  /\ changes' = changes + 1
  /\ owed' = (owed \/ (seen /\ guarding /\ ~window))
  /\ UNCHANGED <<guarding, window, posted>>

SpanChanged(i, d) ==
  /\ container # "none"
  /\ \/ span[i] \in {"shown", "fading", "faded", "appearing"} /\ d # span[i]
     \/ span[i] \in {"inline", "sticky"} /\ d = "gone"
  /\ span' = [span EXCEPT ![i] = d]
  /\ Change(d # "fading")
  /\ pendingContainer' = guarding
  /\ UNCHANGED <<container, classed, wmStyle, grid, pendingShell>>

ContainerChanged(style, class) ==
  /\ container # "none"
  /\ \/ wmStyle = "shown" /\ style # "shown" /\ class = classed
     \/ classed /\ ~class /\ style = wmStyle
  /\ wmStyle' = style /\ classed' = class
  /\ Change(style = "sticky" \/ ~class)
  /\ pendingContainer' = guarding
  /\ UNCHANGED <<container, span, grid, pendingShell>>

ContainerRemoved ==
  /\ container # "none"
  /\ container' = "none"
  /\ span' = [i \in Span |-> "gone"] /\ wmStyle' = "shown" /\ classed' = TRUE
  /\ Change(TRUE)
  /\ pendingShell' = guarding
  /\ UNCHANGED <<grid, pendingContainer>>

GridRemoved ==
  /\ grid /\ grid' = FALSE
  /\ Change(FALSE)
  /\ pendingShell' = guarding
  /\ UNCHANGED <<container, classed, wmStyle, span, pendingContainer>>

Others ==
  \/ \E i \in Span, d \in {"inline", "sticky", "fading", "gone"} : SpanChanged(i, d)
  \/ \E style \in {"shown", "inline", "sticky"}, class \in BOOLEAN :
       ContainerChanged(style, class)
  \/ ContainerRemoved \/ GridRemoved

Next ==
  \/ ContainerObserver \/ DetachedObserver \/ ShellObserver
  \/ Sweep \/ Reposition \/ Fullscreen \/ WindowEnds \/ BeforeUnload
  \/ \E i \in Span : TransitionEnds(i)
  \/ Others

(* Microtasks run; each interval timer comes due again and again, and runs
   between microtasks. *)
Fairness ==
  /\ WF_vars(ContainerObserver \/ DetachedObserver \/ ShellObserver)
  /\ SF_vars(Sweep) /\ SF_vars(Reposition)
  /\ \A i \in Span : SF_vars(TransitionEnds(i))

Spec == Init /\ [][Next]_vars
FairSpec == Spec /\ Fairness
-----------------------------------------------------------------------------
Whole ==
  /\ container # "none" /\ classed /\ wmStyle = "shown"
  /\ \A i \in Span : span[i] = "shown"

(* Until beforeunload no timer, the heartbeat's included, finds the overlay
   invisible: what others have removed or hidden is back before the next task.
   The hidden attribute and the course of a transition are the exceptions. *)
HealedBeforeTimers ==
  NoMicrotask /\ guarding =>
    /\ grid /\ container # "none" /\ classed
    /\ \/ AnySpanVisible
       \/ wmStyle = "sticky"
       \/ \A i \in Span : span[i] \in {"sticky", "faded", "appearing"}

(* What is to be reported has been reported before the next task, unless an
   event has been posted within three seconds. *)
ReportedBeforeTimers == NoMicrotask => ~owed

(* Only damage is reported: neither a repair of the guard itself nor a timer
   that moves the spans or renews the grid ever counts as tampering. *)
ReportsDamage == [][posted' # posted => ~Whole]_vars

(* Once others leave the page alone a visible overlay comes back and stays,
   transitions over, unless the container carries the hidden attribute or the
   guard was stopped. *)
OverlayRestored == <>[](AnySpanVisible \/ wmStyle = "sticky" \/ ~guarding)
=============================================================================
