SPECIFICATION Spec
CONSTANTS
  u1 = u1 u2 = u2 t1 = t1 t2 = t2 t3 = t3 t4 = t4 n1 = n1 n2 = n2
  a1 = a1 a2 = a2 why1 = why1 why2 = why2 q1 = q1 q2 = q2 q3 = q3 None = None
  Users = {u1}
  Tokens = {t1, t2, t3}
  ResetTokens = {n1, n2}
  Admins = {a1}
  Reasons = {why1}
  Requests = {q1, q2, q3}
  MaxPassword = 2
  MaxCalls = 5
  MaxFaults = 1
SYMMETRY Symmetry
INVARIANTS RotationKeepsOneSession OldPasswordSessionsExplained ResetSpentOnce OnlyLatestResetValid AuditTrailTornByOverlap
PROPERTIES DisabledStaysOut
CHECK_DEADLOCK FALSE
