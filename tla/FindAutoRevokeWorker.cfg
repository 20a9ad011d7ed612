CONSTANTS
  Session = {s1}
  User = {u1}
  PublicUser = {}
  Request = {r1}
  Creators = {r1}
  Cleaner = Cleaner
  Ops = {"create", "heartbeat", "event"}
  SecureWebRtc = TRUE
  MaxConcurrentSessions = 0
  AutoRevokeRiskThreshold = 2
  HeartbeatGains = {0, 1}
  EventGains = {1, 2}
  BatchSize = 1
SPECIFICATION Spec
INVARIANTS AutoRevokeStopsWorker
CHECK_DEADLOCK FALSE
