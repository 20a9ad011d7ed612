CONSTANTS
  Session = {s1}
  User = {u1, guest}
  PublicUser = {guest}
  Request = {r1, r2, r3}
  Creators = {r1, r2, r3}
  Cleaner = Cleaner
  Ops <- AllOps
  SecureWebRtc = TRUE
  MaxConcurrentSessions = 1
  AutoRevokeRiskThreshold = 2
  HeartbeatGains = {0, 1}
  EventGains = {1}
  BatchSize = 1
SPECIFICATION Spec
SYMMETRY Symmetry
INVARIANTS WorkerAccounted RiskRevokes
PROPERTIES RevocationFinal CleanupSparesLive
CHECK_DEADLOCK FALSE
