-------------------------- MODULE PlayerPageProofs --------------------------
(***************************************************************************)
(* Proofs about what runs in a page beside its player: WatermarkGuard, for *)
(* overlays of any number of spans and any number of changes, and at the   *)
(* end PlayerSignals, for any number of posts under way.                   *)
(* The invariant of the guard says that damage the observers answer for    *)
(* never waits without a record, and that an event owed never waits        *)
(* without damage its observer will find.                                  *)
(***************************************************************************)
EXTENDS WatermarkGuard, PlayerSignals, TLAPS

ShellMinded == guarding /\ ~pendingShell => grid /\ container # "none"

ContainerMinded ==
  guarding /\ container # "none" /\ ~pendingContainer =>
    classed /\ wmStyle # "inline" /\ \A i \in Span : span[i] \notin {"inline", "gone"}

(* Damage that stays until the container's observer has seen it. *)
Evidence ==
  \/ ~classed \/ wmStyle = "sticky"
  \/ \E i \in Span : span[i] \in {"inline", "sticky", "gone"}

OwedMinded ==
  owed => /\ guarding /\ ~window
          /\ container = "none" \/ (pendingContainer /\ Evidence)

IInv == TypeOK /\ ShellMinded /\ ContainerMinded /\ OwedMinded

-----------------------------------------------------------------------------
(* unhide gives a way to be displayed, and one it leaves alone is neither
   hidden by style nor faded out. *)
LEMMA UnhiddenType ==
  ASSUME NEW d \in Displays
  PROVE  /\ Unhidden(d) \in Displays
         /\ Unhidden(d) = d => d \notin {"inline", "faded"}
         /\ Unhidden(d) = "gone" => d = "gone"
         /\ Unhidden(d) # "inline"
BY DEF Unhidden, Displays

(* The sequence of makeEventDebouncer keeps its types, and settles the debt of
   whatever it finds tampered with. *)
LEMMA ReportTamperKeeps ==
  ASSUME TypeOK, NEW tampered, tampered \in BOOLEAN, ReportTamper(tampered)
  PROVE  /\ window' \in BOOLEAN /\ posted' \in 0..1 /\ owed' \in BOOLEAN
         /\ owed' => owed /\ (tampered => window)
         /\ window' => window \/ ~owed'
         /\ owed' => window' = window
         /\ posted' # posted => tampered
<1>1. 1 - posted \in 0..1
  BY DEF TypeOK
<1> QED BY <1>1 DEF TypeOK, ReportTamper

LEMMA NewSpansType ==
  /\ NewSpans \in [Span -> Displays]
  /\ \A i \in Span : NewSpans[i] = "shown"
BY DEF NewSpans, Displays
-----------------------------------------------------------------------------
LEMMA InitIInv == Init => IInv
<1> SUFFICES ASSUME Init PROVE IInv
  OBVIOUS
<1>1. 0 \in 0..1 /\ 0 \in 0..MaxChanges
  BY WatermarkAssumption
<1>2. TypeOK
  BY <1>1, NewSpansType DEF Init, TypeOK
<1>3. ShellMinded /\ ContainerMinded /\ OwedMinded
  BY NewSpansType DEF Init, ShellMinded, ContainerMinded, OwedMinded
<1> QED BY <1>2, <1>3 DEF IInv

(* What the container's observer has found tampered with. *)
Style == IF wmStyle = "inline" THEN "shown" ELSE wmStyle
Missing == \E i \in Span : span[i] = "gone"
Hidden ==
  \E i \in Span : \/ Style # "shown"
                  \/ span[i] \in {"inline", "sticky", "faded", "appearing"}
Tampered == ~classed \/ Missing \/ Hidden

LEMMA TamperedType == Tampered \in BOOLEAN /\ (TypeOK /\ Evidence => Tampered)
<1>1. Tampered \in BOOLEAN
  BY DEF Tampered, Missing, Hidden, TypeOK
<1>2. ASSUME TypeOK, Evidence PROVE Tampered
  <2>1. CASE ~classed
    BY <2>1 DEF Tampered
  <2>2. CASE wmStyle = "sticky"
    <3>1. PICK i \in Span : TRUE
      BY WatermarkAssumption
    <3>2. Style # "shown"
      BY <2>2 DEF Style
    <3> QED BY <3>1, <3>2 DEF Tampered, Hidden
  <2>3. CASE \E i \in Span : span[i] \in {"inline", "sticky", "gone"}
    BY <2>3 DEF Tampered, Hidden, Missing
  <2> QED BY <1>2, <2>1, <2>2, <2>3 DEF Evidence
<1> QED BY <1>1, <1>2

LEMMA ContainerObserverKeeps ==
  ASSUME IInv, ContainerObserver
  PROVE  IInv'
<1> DEFINE Repaired == IF Missing THEN NewSpans ELSE [i \in Span |-> Unhidden(span[i])]
<1>0. /\ pendingContainer /\ container # "none"
      /\ wmStyle' = Style /\ classed' = TRUE /\ span' = Repaired
      /\ ReportTamper(Tampered)
      /\ pendingContainer' = (<<wmStyle', classed', span'>> # <<wmStyle, classed, span>>)
      /\ grid' = TRUE /\ pendingShell' = (pendingShell \/ ~grid)
      /\ container' = container /\ guarding' = guarding /\ changes' = changes
  BY DEF ContainerObserver, Tampered, Hidden, Missing, Style
<1>1. /\ window' \in BOOLEAN /\ posted' \in 0..1 /\ owed' \in BOOLEAN
      /\ owed' => owed /\ (Tampered => window)
  BY <1>0, TamperedType, ReportTamperKeeps DEF IInv
<1>2. Repaired \in [Span -> Displays]
  BY UnhiddenType, NewSpansType DEF IInv, TypeOK
<1>3. TypeOK'
  <2>1. Style \in {"shown", "inline", "sticky"}
    BY DEF IInv, TypeOK, Style
  <2>2. pendingContainer' \in BOOLEAN /\ pendingShell' \in BOOLEAN
    BY <1>0
  <2> HIDE DEF Repaired
  <2> QED BY <1>0, <1>1, <1>2, <2>1, <2>2 DEF IInv, TypeOK
<1>4. ShellMinded'
  BY <1>0 DEF IInv, ShellMinded
<1>5. ContainerMinded'
  <2> SUFFICES ASSUME ~pendingContainer'
               PROVE  /\ classed' /\ wmStyle' # "inline"
                      /\ \A i \in Span : span'[i] \notin {"inline", "gone"}
    BY DEF ContainerMinded
  <2>1. span' = span
    BY <1>0
  <2>2. ~Missing
    <3> SUFFICES ASSUME Missing PROVE FALSE
      OBVIOUS
    <3>1. span = NewSpans
      BY <1>0, <2>1
    <3> QED BY <3>1, NewSpansType DEF Missing
  <2>3. ASSUME NEW i \in Span PROVE span'[i] \notin {"inline", "gone"}
    <3>1. span[i] # "gone"
      BY <2>2 DEF Missing
    <3>2. span[i] = Unhidden(span[i])
      BY <1>0, <2>1, <2>2
    <3>3. span[i] \in Displays
      BY DEF IInv, TypeOK
    <3> QED BY <2>1, <3>1, <3>2, <3>3, UnhiddenType
  <2>4. wmStyle' # "inline"
    BY <1>0 DEF Style
  <2> QED BY <1>0, <2>3, <2>4
<1>6. OwedMinded'
  <2>1. owed => container = "none" \/ Tampered
    BY TamperedType DEF IInv, OwedMinded
  <2>2. ~owed'
    BY <1>0, <1>1, <2>1 DEF IInv, OwedMinded
  <2> QED BY <2>2 DEF OwedMinded
<1> QED BY <1>3, <1>4, <1>5, <1>6 DEF IInv

LEMMA DetachedObserverKeeps ==
  ASSUME IInv, DetachedObserver
  PROVE  IInv'
<1>1. /\ window' \in BOOLEAN /\ posted' \in 0..1 /\ owed' \in BOOLEAN
      /\ owed' => owed /\ window
  BY ReportTamperKeeps DEF DetachedObserver, IInv
<1>2. TypeOK'
  BY <1>1 DEF DetachedObserver, IInv, TypeOK
<1>3. ShellMinded' /\ ContainerMinded'
  BY DEF DetachedObserver, IInv, ShellMinded, ContainerMinded
<1>4. OwedMinded'
  BY <1>1 DEF IInv, OwedMinded
<1> QED BY <1>2, <1>3, <1>4 DEF IInv

LEMMA ShellObserverKeeps ==
  ASSUME IInv, ShellObserver
  PROVE  IInv'
<1>1. CASE container = "none"
  <2>0. /\ container' = "later" /\ classed' = TRUE /\ wmStyle' = "shown"
        /\ span' = NewSpans /\ pendingContainer' = FALSE /\ ReportTamper(TRUE)
        /\ grid' = TRUE /\ pendingShell' = TRUE
        /\ guarding' = guarding /\ changes' = changes
    BY <1>1 DEF ShellObserver
  <2>1. /\ window' \in BOOLEAN /\ posted' \in 0..1 /\ owed' \in BOOLEAN
        /\ owed' => owed /\ window
    BY <2>0, ReportTamperKeeps DEF IInv
  <2>2. TypeOK'
    BY <2>0, <2>1, NewSpansType DEF IInv, TypeOK
  <2>3. ShellMinded' /\ ContainerMinded'
    BY <2>0, NewSpansType DEF ShellMinded, ContainerMinded
  <2>4. OwedMinded'
    BY <2>1 DEF IInv, OwedMinded
  <2> QED BY <2>2, <2>3, <2>4 DEF IInv
<1>2. CASE container # "none"
  <2>1. TypeOK'
    BY <1>2 DEF ShellObserver, IInv, TypeOK
  <2>2. ShellMinded' /\ ContainerMinded' /\ OwedMinded'
    BY <1>2 DEF ShellObserver, IInv, ShellMinded, ContainerMinded, OwedMinded, Evidence
  <2> QED BY <2>1, <2>2 DEF IInv
<1> QED BY <1>1, <1>2

LEMMA SweepKeeps ==
  ASSUME IInv, Sweep
  PROVE  IInv'
<1> DEFINE lost == container = "none"
           dark == ~lost /\ ~AnySpanVisible
<1>0. /\ NoMicrotask /\ guarding
      /\ container' = IF lost THEN "later" ELSE container
      /\ classed' = (classed \/ lost)
      /\ wmStyle' = IF lost THEN "shown" ELSE wmStyle
      /\ span' = IF lost \/ dark THEN NewSpans ELSE span
      /\ grid' = TRUE /\ pendingContainer' = dark /\ pendingShell' = (lost \/ ~grid)
      /\ ReportTamper(lost \/ dark)
      /\ guarding' = guarding /\ changes' = changes
  BY DEF Sweep
<1>1. dark \in BOOLEAN /\ (lost \/ dark) \in BOOLEAN
  OBVIOUS
<1> HIDE DEF dark
<1>2. /\ window' \in BOOLEAN /\ posted' \in 0..1 /\ owed' \in BOOLEAN
      /\ owed' => owed
  BY <1>0, <1>1, ReportTamperKeeps DEF IInv
<1>3. TypeOK'
  BY <1>0, <1>1, <1>2, NewSpansType DEF IInv, TypeOK
<1>4. ShellMinded' /\ ContainerMinded'
  BY <1>0, NewSpansType DEF IInv, NoMicrotask, ShellMinded, ContainerMinded
<1>5. ~owed
  BY <1>0 DEF IInv, OwedMinded, ShellMinded, NoMicrotask
<1>6. OwedMinded'
  BY <1>2, <1>5 DEF OwedMinded
<1> QED BY <1>3, <1>4, <1>6 DEF IInv

(* Between microtasks nothing is owed. *)
LEMMA NothingOwed == IInv /\ NoMicrotask => ~owed
BY DEF IInv, OwedMinded, ShellMinded, NoMicrotask

LEMMA TimersKeep ==
  ASSUME IInv, Reposition \/ Fullscreen \/ WindowEnds \/ BeforeUnload
  PROVE  IInv'
<1>1. CASE Reposition
  <2>1. ASSUME NEW i \in Span
        PROVE  /\ span'[i] \in Displays
               /\ span[i] \notin {"inline", "gone"} => span'[i] \notin {"inline", "gone"}
    BY <1>1 DEF Reposition, IInv, TypeOK, Displays
  <2>2. span' \in [Span -> Displays]
    BY <1>1, <2>1 DEF Reposition
  <2>3. TypeOK'
    BY <1>1, <2>2 DEF Reposition, IInv, TypeOK
  <2>4. ShellMinded' /\ ContainerMinded'
    BY <1>1, <2>1 DEF Reposition, IInv, ShellMinded, ContainerMinded, NoMicrotask
  <2>5. OwedMinded'
    BY <1>1, NothingOwed DEF Reposition, OwedMinded
  <2> QED BY <2>3, <2>4, <2>5 DEF IInv
<1>2. CASE Fullscreen
  <2>1. TypeOK'
    BY <1>2 DEF Fullscreen, IInv, TypeOK
  <2>2. ShellMinded' /\ ContainerMinded'
    BY <1>2 DEF Fullscreen, IInv, ShellMinded, ContainerMinded
  <2>3. OwedMinded'
    BY <1>2, NothingOwed DEF Fullscreen, OwedMinded
  <2> QED BY <2>1, <2>2, <2>3 DEF IInv
<1>3. CASE WindowEnds
  <2>1. TypeOK'
    BY <1>3 DEF WindowEnds, dom, IInv, TypeOK
  <2>2. ShellMinded' /\ ContainerMinded'
    BY <1>3 DEF WindowEnds, dom, IInv, ShellMinded, ContainerMinded
  <2>3. OwedMinded'
    BY <1>3, NothingOwed DEF WindowEnds, OwedMinded
  <2> QED BY <2>1, <2>2, <2>3 DEF IInv
<1>4. CASE BeforeUnload
  <2>1. TypeOK'
    BY <1>4 DEF BeforeUnload, dom, IInv, TypeOK
  <2>2. ShellMinded' /\ ContainerMinded'
    BY <1>4 DEF BeforeUnload, ShellMinded, ContainerMinded
  <2>3. OwedMinded'
    BY <1>4, NothingOwed DEF BeforeUnload, OwedMinded
  <2> QED BY <2>1, <2>2, <2>3 DEF IInv
<1> QED BY <1>1, <1>2, <1>3, <1>4

LEMMA TransitionEndsKeeps ==
  ASSUME IInv, NEW i \in Span, TransitionEnds(i)
  PROVE  IInv'
<1>1. TypeOK'
  BY DEF TransitionEnds, IInv, TypeOK, Displays
<1>2. ShellMinded' /\ ContainerMinded'
  BY DEF TransitionEnds, IInv, TypeOK, ShellMinded, ContainerMinded
<1>3. OwedMinded'
  BY NothingOwed DEF TransitionEnds, OwedMinded
<1> QED BY <1>1, <1>2, <1>3 DEF IInv

(* A change of others counts, and is owed only while the guard listens. *)
LEMMA ChangeKeeps ==
  ASSUME TypeOK, NEW seen \in BOOLEAN, Change(seen)
  PROVE  /\ changes' \in 0..MaxChanges /\ owed' \in BOOLEAN
         /\ guarding' = guarding /\ window' = window /\ posted' = posted
         /\ owed' => owed \/ (seen /\ guarding /\ ~window)
BY WatermarkAssumption DEF TypeOK, Change

LEMMA SpanChangedKeeps ==
  ASSUME IInv, NEW i \in Span, NEW d \in {"inline", "sticky", "fading", "gone"},
         SpanChanged(i, d)
  PROVE  IInv'
<1>0. /\ container # "none" /\ span' = [span EXCEPT ![i] = d]
      /\ pendingContainer' = guarding
      /\ container' = container /\ classed' = classed /\ wmStyle' = wmStyle
      /\ grid' = grid /\ pendingShell' = pendingShell
  BY DEF SpanChanged
<1>1. /\ changes' \in 0..MaxChanges /\ owed' \in BOOLEAN
      /\ guarding' = guarding /\ window' = window /\ posted' = posted
      /\ owed' => owed \/ (d # "fading" /\ guarding /\ ~window)
  BY ChangeKeeps DEF IInv, SpanChanged
<1>2. TypeOK'
  <2>1. span' \in [Span -> Displays]
    BY <1>0 DEF IInv, TypeOK, Displays
  <2> QED BY <1>0, <1>1, <2>1 DEF IInv, TypeOK
<1>3. ShellMinded' /\ ContainerMinded'
  BY <1>0, <1>1 DEF IInv, TypeOK, ShellMinded, ContainerMinded
<1>4. OwedMinded'
  <2> SUFFICES ASSUME owed' PROVE guarding' /\ ~window' /\ Evidence'
    BY <1>0, <1>1 DEF OwedMinded, IInv, TypeOK
  <2>1. guarding /\ ~window
    BY <1>1 DEF IInv, OwedMinded
  <2>2. span'[i] = d
    BY <1>0 DEF IInv, TypeOK
  <2>3. CASE d # "fading"
    BY <1>1, <2>1, <2>2, <2>3 DEF Evidence
  <2>4. CASE d = "fading"
    <3>1. Evidence
      BY <1>0, <1>1, <2>4 DEF IInv, OwedMinded
    <3>2. span[i] \notin {"inline", "sticky", "gone"}
      BY <2>4 DEF SpanChanged
    <3>3. \A j \in Span : j # i => span'[j] = span[j]
      BY <1>0 DEF IInv, TypeOK
    <3> QED BY <1>0, <1>1, <2>1, <3>1, <3>2, <3>3 DEF Evidence
  <2> QED BY <2>3, <2>4
<1> QED BY <1>2, <1>3, <1>4 DEF IInv

LEMMA ContainerChangedKeeps ==
  ASSUME IInv, NEW style \in {"shown", "inline", "sticky"}, NEW class \in BOOLEAN,
         ContainerChanged(style, class)
  PROVE  IInv'
<1>0. /\ container # "none" /\ wmStyle' = style /\ classed' = class
      /\ pendingContainer' = guarding
      /\ container' = container /\ span' = span /\ grid' = grid
      /\ pendingShell' = pendingShell
  BY DEF ContainerChanged
<1>1. /\ changes' \in 0..MaxChanges /\ owed' \in BOOLEAN
      /\ guarding' = guarding /\ window' = window /\ posted' = posted
      /\ owed' => owed \/ ((style = "sticky" \/ ~class) /\ guarding /\ ~window)
  BY ChangeKeeps DEF IInv, ContainerChanged
<1>2. TypeOK'
  BY <1>0, <1>1 DEF IInv, TypeOK
<1>3. ShellMinded' /\ ContainerMinded'
  BY <1>0, <1>1 DEF IInv, TypeOK, ShellMinded, ContainerMinded
<1>4. OwedMinded'
  <2> SUFFICES ASSUME owed' PROVE guarding' /\ ~window' /\ Evidence'
    BY <1>0, <1>1 DEF OwedMinded, IInv, TypeOK
  <2>1. guarding /\ ~window
    BY <1>1 DEF IInv, OwedMinded
  <2>2. CASE style = "sticky" \/ ~class
    BY <1>0, <1>1, <2>1, <2>2 DEF Evidence
  <2>3. CASE ~(style = "sticky" \/ ~class)
    <3>1. Evidence
      BY <1>0, <1>1, <2>3 DEF IInv, OwedMinded
    <3>2. classed /\ wmStyle # "sticky"
      BY <2>3 DEF ContainerChanged
    <3> QED BY <1>0, <1>1, <2>1, <3>1, <3>2 DEF Evidence
  <2> QED BY <2>2, <2>3
<1> QED BY <1>2, <1>3, <1>4 DEF IInv

LEMMA ContainerRemovedKeeps ==
  ASSUME IInv, ContainerRemoved
  PROVE  IInv'
<1>1. /\ changes' \in 0..MaxChanges /\ owed' \in BOOLEAN
      /\ guarding' = guarding /\ window' = window /\ posted' = posted
      /\ owed' => owed \/ (guarding /\ ~window)
  BY ChangeKeeps DEF IInv, ContainerRemoved
<1>2. TypeOK'
  BY <1>1 DEF ContainerRemoved, IInv, TypeOK, Displays
<1>3. ShellMinded' /\ ContainerMinded'
  BY <1>1 DEF ContainerRemoved, IInv, TypeOK, ShellMinded, ContainerMinded
<1>4. OwedMinded'
  BY <1>1 DEF ContainerRemoved, IInv, OwedMinded
<1> QED BY <1>2, <1>3, <1>4 DEF IInv

LEMMA GridRemovedKeeps ==
  ASSUME IInv, GridRemoved
  PROVE  IInv'
<1>1. /\ changes' \in 0..MaxChanges /\ owed' \in BOOLEAN
      /\ guarding' = guarding /\ window' = window /\ posted' = posted
      /\ owed' => owed
  BY ChangeKeeps DEF IInv, GridRemoved
<1>2. TypeOK'
  BY <1>1 DEF GridRemoved, IInv, TypeOK
<1>3. ShellMinded' /\ ContainerMinded'
  BY <1>1 DEF GridRemoved, IInv, TypeOK, ShellMinded, ContainerMinded
<1>4. OwedMinded'
  BY <1>1 DEF GridRemoved, IInv, OwedMinded, Evidence
<1> QED BY <1>2, <1>3, <1>4 DEF IInv

LEMMA NextIInv == IInv /\ [Next]_vars => IInv'
<1> SUFFICES ASSUME IInv, [Next]_vars PROVE IInv'
  OBVIOUS
<1>1. CASE UNCHANGED vars
  BY <1>1 DEF vars, IInv, TypeOK, ShellMinded, ContainerMinded, OwedMinded, Evidence
<1>2. CASE ContainerObserver
  BY <1>2, ContainerObserverKeeps
<1>3. CASE DetachedObserver
  BY <1>3, DetachedObserverKeeps
<1>4. CASE ShellObserver
  BY <1>4, ShellObserverKeeps
<1>5. CASE Sweep
  BY <1>5, SweepKeeps
<1>6. CASE Reposition \/ Fullscreen \/ WindowEnds \/ BeforeUnload
  BY <1>6, TimersKeep
<1>7. ASSUME NEW i \in Span, TransitionEnds(i) PROVE IInv'
  BY <1>7, TransitionEndsKeeps
<1>8. CASE Others
  BY <1>8, SpanChangedKeeps, ContainerChangedKeeps, ContainerRemovedKeeps,
     GridRemovedKeeps DEF Others
<1> QED BY <1>1, <1>2, <1>3, <1>4, <1>5, <1>6, <1>7, <1>8 DEF Next

LEMMA Inductive == Spec => []IInv
<1>1. Init => IInv
  BY InitIInv
<1>2. IInv /\ [Next]_vars => IInv'
  BY NextIInv
<1> QED BY <1>1, <1>2, PTL DEF Spec
-----------------------------------------------------------------------------
(* Whatever is repaired, replaced or removed stays an overlay of its spans. *)
THEOREM TypeCorrect == Spec => []TypeOK
<1>1. IInv => TypeOK
  BY DEF IInv
<1> QED BY <1>1, Inductive, PTL

(* No timer finds the overlay invisible: the observers of player.js have put
   back what others removed or hid before the next task. *)
THEOREM HealedBeforeTimersHolds == Spec => []HealedBeforeTimers
<1>1. IInv => HealedBeforeTimers
  <2> SUFFICES ASSUME IInv, NoMicrotask, guarding, wmStyle # "sticky",
                      ~AnySpanVisible
               PROVE  /\ grid /\ container # "none" /\ classed
                      /\ \A i \in Span : span[i] \in {"sticky", "faded", "appearing"}
    BY DEF HealedBeforeTimers, IInv, ShellMinded, ContainerMinded, NoMicrotask
  <2>1. /\ grid /\ container # "none" /\ classed /\ wmStyle = "shown"
        /\ \A i \in Span : span[i] \notin {"inline", "gone"}
    BY DEF IInv, TypeOK, ShellMinded, ContainerMinded, NoMicrotask
  <2>2. \A i \in Span : span[i] \in {"sticky", "faded", "appearing"}
    BY <2>1 DEF AnySpanVisible, SpanHidden, IInv, TypeOK, Displays
  <2> QED BY <2>1, <2>2
<1> QED BY <1>1, Inductive, PTL

(* What the observers are to report they have reported before the next task,
   unless an event was posted within three seconds. *)
THEOREM ReportedBeforeTimersHolds == Spec => []ReportedBeforeTimers
<1>1. IInv => ReportedBeforeTimers
  BY NothingOwed DEF ReportedBeforeTimers
<1> QED BY <1>1, Inductive, PTL

(* An event is posted only of an overlay that is not whole. *)
THEOREM ReportsDamageHolds == Spec => ReportsDamage
<1>1. ASSUME IInv, [Next]_vars, posted' # posted PROVE ~Whole
  <2>1. CASE ContainerObserver
    <3>1. ReportTamper(Tampered)
      BY <2>1 DEF ContainerObserver, Tampered, Hidden, Missing, Style
    <3>2. Tampered
      BY <1>1, <3>1, TamperedType, ReportTamperKeeps DEF IInv
    <3> QED BY <3>2 DEF Tampered, Missing, Hidden, Style, Whole
  <2>2. CASE DetachedObserver
    BY <2>2 DEF DetachedObserver, Whole
  <2>3. CASE ShellObserver
    BY <1>1, <2>3 DEF ShellObserver, Whole
  <2>4. CASE Sweep
    <3>1. PICK i \in Span : TRUE
      BY WatermarkAssumption
    <3>2. container = "none" \/ ~AnySpanVisible
      BY <1>1, <2>4 DEF Sweep, ReportTamper
    <3> QED BY <3>1, <3>2 DEF Whole, AnySpanVisible, SpanHidden
  <2>5. CASE Others
    BY <1>1, <2>5 DEF Others, SpanChanged, ContainerChanged, ContainerRemoved,
                      GridRemoved, Change
  <2>6. CASE Reposition \/ Fullscreen \/ WindowEnds \/ BeforeUnload
    BY <1>1, <2>6 DEF Reposition, Fullscreen, WindowEnds, BeforeUnload
  <2>7. CASE \E i \in Span : TransitionEnds(i)
    BY <1>1, <2>7 DEF TransitionEnds
  <2> QED BY <1>1, <2>1, <2>2, <2>3, <2>4, <2>5, <2>6, <2>7 DEF Next, vars
<1>2. IInv /\ [Next]_vars => (posted' # posted => ~Whole)
  BY <1>1
<1> QED BY <1>2, Inductive, PTL DEF Spec, ReportsDamage

-----------------------------------------------------------------------------
(* PlayerSignals. *)
USE SignalsAssumption

LEMMA PostEventType ==
  ASSUME SignalsTypeOK, NEW type \in EventType \cup Heartbeats,
         NEW position \in 0..MaxPos, PostEvent(type, position)
  PROVE  /\ what' \in [Post -> EventType \cup Heartbeats \cup {"Idle"}]
         /\ at' \in [Post -> {"client", "sent", "progress", "save"}]
         /\ pos' \in [Post -> 0..MaxPos]
         /\ had' \in [Post -> (0..MaxPos) \cup {NoRow}]
BY DEF SignalsTypeOK, PostEvent, posts

LEMMA DebouncedType ==
  ASSUME SignalsTypeOK, NEW type \in EventType, Debounced(type)
  PROVE  /\ remembered' \in SUBSET EventType
         /\ what' \in [Post -> EventType \cup Heartbeats \cup {"Idle"}]
         /\ at' \in [Post -> {"client", "sent", "progress", "save"}]
         /\ pos' \in [Post -> 0..MaxPos]
         /\ had' \in [Post -> (0..MaxPos) \cup {NoRow}]
<1>1. CASE UNCHANGED <<remembered, posts>>
  BY <1>1 DEF SignalsTypeOK, posts
<1>2. CASE remembered' = remembered \cup {type} /\ PostEvent(type, 0)
  <2>1. 0 \in 0..MaxPos
    OBVIOUS
  <2>. QED  BY <1>2, <2>1, PostEventType DEF SignalsTypeOK
<1>. QED  BY <1>1, <1>2 DEF Debounced

LEMMA PageType ==
  ASSUME SignalsTypeOK, Page
  PROVE  SignalsTypeOK'
<1>1. CASE WatchPage \/ EmbedInit \/ ShownAgain
  BY <1>1 DEF SignalsTypeOK, WatchPage, EmbedInit, StartPlayer,
     ShownAgain, posts, rows
<1>2. CASE HeartbeatTimer
  <2>1. PICK type \in Heartbeats : PostEvent(type, lastPos)
    BY <1>2 DEF HeartbeatTimer, Heartbeats
  <2>2. lastPos' \in 0..MaxPos
    BY <1>2 DEF HeartbeatTimer, SignalsTypeOK
  <2>. QED
    BY <1>2, <2>1, <2>2, PostEventType DEF HeartbeatTimer, SignalsTypeOK, rows
<1>3. CASE VisibilityChange
  <2>1. CASE UNCHANGED <<remembered, posts>>
    BY <1>3, <2>1 DEF VisibilityChange, SignalsTypeOK, posts, rows
  <2>2. CASE \E type \in EventType : Debounced(type)
    BY <1>3, <2>2, DebouncedType DEF VisibilityChange, SignalsTypeOK, rows
  <2>. QED  BY <1>3, <2>1, <2>2 DEF VisibilityChange, EventType
<1>4. CASE PageSignal
  <2>1. PICK type \in EventType : Debounced(type)
    BY <1>4 DEF PageSignal, EventType
  <2>. QED  BY <1>4, <2>1, DebouncedType DEF PageSignal, SignalsTypeOK, rows
<1>5. CASE Unload
  <2>1. "Other" \in EventType /\ 0 \in 0..MaxPos
    BY DEF EventType
  <2>. QED  BY <1>5, <2>1, PostEventType DEF Unload, SignalsTypeOK, rows
<1>. QED  BY <1>1, <1>2, <1>3, <1>4, <1>5 DEF Page

LEMMA DoneType ==
  ASSUME SignalsTypeOK, NEW c \in Post, Done(c)
  PROVE  /\ what' \in [Post -> EventType \cup Heartbeats \cup {"Idle"}]
         /\ at' \in [Post -> {"client", "sent", "progress", "save"}]
         /\ pos' \in [Post -> 0..MaxPos]
         /\ had' \in [Post -> (0..MaxPos) \cup {NoRow}]
BY DEF SignalsTypeOK, Done

LEMMA GoesOnType ==
  ASSUME SignalsTypeOK, NEW c \in Post, NEW label \in {"progress", "save"},
         NEW loaded \in (0..MaxPos) \cup {NoRow}, GoesOn(c, label, loaded)
  PROVE  /\ what' \in [Post -> EventType \cup Heartbeats \cup {"Idle"}]
         /\ at' \in [Post -> {"client", "sent", "progress", "save"}]
         /\ pos' \in [Post -> 0..MaxPos]
         /\ had' \in [Post -> (0..MaxPos) \cup {NoRow}]
BY DEF SignalsTypeOK, GoesOn

LEMMA ServerType ==
  ASSUME SignalsTypeOK, NEW c \in Post,
         Server(c) \/ Fails(c)
  PROVE  SignalsTypeOK'
<1>1. CASE LoadSession(c) \/ LoadProgress(c) \/ RecordAsync(c)
  <2>1. \/ Done(c)
        \/ \E label \in {"progress", "save"}, loaded \in (0..MaxPos) \cup {NoRow} :
             GoesOn(c, label, loaded)
    BY <1>1 DEF LoadSession, LoadProgress, RecordAsync, SignalsTypeOK
  <2>2. UNCHANGED <<page, rows>>
    BY <1>1 DEF LoadSession, LoadProgress, RecordAsync
  <2>. QED  BY <2>1, <2>2, DoneType, GoesOnType DEF SignalsTypeOK, page, rows
<1>2. CASE SaveHeartbeat(c)
  <2>1. /\ noticed' \in BOOLEAN /\ over' = over
        /\ furthest' \in (0..MaxPos) \cup {NoRow}
    BY <1>2 DEF SaveHeartbeat, NewFurthest, SignalsTypeOK, rows
  <2>. QED  BY <1>2, <2>1, DoneType DEF SaveHeartbeat, SignalsTypeOK, page
<1>3. CASE ApplyRiskAsync(c) \/ Fails(c)
  BY <1>3, DoneType DEF ApplyRiskAsync, Fails, SignalsTypeOK, page, rows
<1>. QED  BY <1>1, <1>2, <1>3 DEF Server

LEMMA SignalsType == SignalsTypeOK /\ [SignalsNext]_signalVars => SignalsTypeOK'
<1>. SUFFICES ASSUME SignalsTypeOK, [SignalsNext]_signalVars
              PROVE  SignalsTypeOK'
  OBVIOUS
<1>1. CASE SessionEnds
  BY <1>1 DEF SessionEnds, SignalsTypeOK, page, posts
<1>2. CASE UNCHANGED signalVars
  BY <1>2 DEF signalVars, SignalsTypeOK
<1>. QED  BY <1>1, <1>2, PageType, ServerType DEF SignalsNext

(* The page, its posts and the rows they are saved to keep their types, and no
   position in any of them is beyond the heartbeats that lastPos counts. *)
THEOREM SignalsTypeCorrect == SignalsSpec => []SignalsTypeOK
<1>1. SignalsInit => SignalsTypeOK
  <2>1. 0 \in 0..MaxPos /\ MaxPos \in 0..MaxPos
    OBVIOUS
  <2>. QED  BY <2>1 DEF SignalsInit, SignalsTypeOK
<1>. QED  BY <1>1, SignalsType, PTL DEF SignalsSpec

(* RecordHeartbeatAsync takes watch progress back only on behalf of a handler
   whose loaded row another heartbeat has overtaken, for any number of posts in
   any order. *)
THEOREM FurthestKeptHolds == SignalsSpec => FurthestKept
<1>1. ASSUME SignalsTypeOK, [SignalsNext]_signalVars, furthest' < furthest
      PROVE  \E c \in Post : at[c] = "save" /\ what'[c] = "Idle" /\ had[c] < furthest
  <2>1. furthest' # furthest
    BY <1>1 DEF SignalsTypeOK, NoRow
  <2>2. PICK c \in Post : SaveHeartbeat(c)
    BY <1>1, <2>1
       DEF SignalsNext, signalVars, Page, Server, WatchPage, EmbedInit,
           StartPlayer, HeartbeatTimer, VisibilityChange, PageSignal,
           Unload, ShownAgain, LoadSession, LoadProgress,
           RecordAsync, ApplyRiskAsync, Fails, SessionEnds, rows
  <2>3. ~(had[c] = NoRow /\ furthest # NoRow) /\ furthest' = NewFurthest(c)
    BY <2>1, <2>2 DEF SaveHeartbeat, rows
  <2>4. had[c] < furthest
    <3>1. /\ pos[c] \in 0..MaxPos /\ had[c] \in (0..MaxPos) \cup {-1}
          /\ furthest \in (0..MaxPos) \cup {-1}
      BY <1>1 DEF SignalsTypeOK, NoRow
    <3>2. furthest' = pos[c] /\ (had[c] = -1 => furthest = -1)
      BY <2>1, <2>3 DEF NewFurthest, NoRow
    <3>3. had[c] = -1 \/ pos[c] > had[c]
      BY <2>1, <2>3 DEF NewFurthest, NoRow
    <3>. QED  BY <1>1, <3>1, <3>2, <3>3
  <2>. QED  BY <1>1, <2>2, <2>4 DEF SaveHeartbeat, Done, SignalsTypeOK
<1>2. SignalsTypeOK /\ [SignalsNext]_signalVars =>
        (furthest' < furthest =>
           \E c \in Post : at[c] = "save" /\ what'[c] = "Idle" /\ had[c] < furthest)
  BY <1>1
<1>. QED  BY <1>2, SignalsTypeCorrect, PTL DEF SignalsSpec, FurthestKept
=============================================================================
