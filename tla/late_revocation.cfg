SPECIFICATION Spec
CONSTANTS
  Users = {u1, u2}
  Unknown = u2
  Roles = {a}
  Emails = {e1}
  Usernames = {n1}
  RoleNames = {m1}
  Permissions = {p1}
  Requests = {r1, r2}
  None = None
  Null = Null
  MaxCalls = 2
  MaxFaults = 0
SYMMETRY Symmetry
INVARIANTS RevocationIsImmediate
CHECK_DEADLOCK FALSE
