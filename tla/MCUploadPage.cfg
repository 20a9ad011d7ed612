CONSTANTS
  v1 = v1
  e1 = e1
  e2 = e2
  Video = {v1, l1}
  Local = {l1}
  Event = {e1, e2}
  Awaited = {e2}
  EventVideo <- eventVideos
  EventCode <- eventCodes
  Body = {b1}
  Codes = {4, 6}
  File = {f1}
  Request = {r1, r2}
  Webhooks = {r1}
  Ops = {"webhook", "create", "createSecure", "abort"}
  Submission = {u1}
  Chunks = 3
  Retries = 2
SPECIFICATION UploadSpec
INVARIANTS ProcessedApplied CompleteIsWhole ReadyIsWhole
PROPERTIES EveryEventAnswered SubmitSettles
CHECK_DEADLOCK FALSE
