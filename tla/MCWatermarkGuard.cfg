CONSTANTS
  Span <- TwoSpans
  MaxChanges = 5
SPECIFICATION FairSpec
INVARIANTS HealedBeforeTimers ReportedBeforeTimers
PROPERTIES ReportsDamage OverlayRestored
CHECK_DEADLOCK FALSE
