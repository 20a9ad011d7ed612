CONSTANTS
  u1 = u1
  User = {u1, u2}
  Role = {Admin, VideoAdmin}
  AdminRole = Admin
  Seeded = {u1}
  Purpose = {embed}
  Video = {v1}
  Ticket = {t1, t2}
  UserOf <- userOf
  Request = {r1, r2, r3}
  None = None
  PolicyTtl = 2
  Slowest = 1
  MaxVersion = 3
  MaxEdits = 2
SPECIFICATION PartSpec
SYMMETRY Symmetry
INVARIANTS LastAdminKept OneActiveVersion SignInRecorded SignInOnce
PROPERTIES PolicyTakesEffect
CHECK_DEADLOCK FALSE
