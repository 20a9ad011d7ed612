CONSTANTS
  Session = {s1, s2, s3}
  User = {u1}
  PublicUser = {}
  Request = {r1, r2}
  Creators = {r1, r2}
  Cleaner = Cleaner
  Ops = {"create", "cleanup"}
  SecureWebRtc = FALSE
  MaxConcurrentSessions = 1
  AutoRevokeRiskThreshold = 2
  HeartbeatGains = {0}
  EventGains = {1}
  BatchSize = 1
SPECIFICATION FairSpec
PROPERTIES ImplementsSlots EverySessionEnds
CHECK_DEADLOCK FALSE
