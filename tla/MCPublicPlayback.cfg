CONSTANTS
  Viewer = {v1}
  Owner = {}
  Page = {p1}
  Request = {r1, r2}
  Session = {s1, s2}
  Row = {g1, g2}
  Key = {k1}
  SecureWebRtc = TRUE
SPECIFICATION Spec
SYMMETRY Symmetry
INVARIANTS PermittedDuringRequest OneSessionPerPage AnsweredTokenWorks
CHECK_DEADLOCK FALSE
