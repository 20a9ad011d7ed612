CONSTANTS
  Session = {s1}
  Call = {c1, c2}
  Proc = {p1, p2}
  None = None
SPECIFICATION FairSpec
INVARIANTS NoOrphan DisposedIsDead DisposeStopsAll
PROPERTIES RemovedToBeKilled ImplementsRegistry StopEndsProcess HandlesReleased
CHECK_DEADLOCK FALSE
