CONSTANTS
  v1 = v1
  e1 = e1
  e2 = e2
  Video = {v1, l1}
  Local = {l1}
  Event = {e2}
  Awaited = {e2}
  EventVideo <- eventVideos
  EventCode <- eventCodes
  Body = {b1}
  Codes = {4}
  File = {f1}
  Request = {r1, r2}
  Webhooks = {r1, r2}
  Ops = {"webhook", "create", "createSecure", "get", "sync", "syncAll", "delete", "upload", "abort"}
SPECIFICATION HSpec
SYMMETRY Symmetry
INVARIANTS ReadyHasSource AcceptedProcessed ProcessedTookEffect
CHECK_DEADLOCK FALSE
