SPECIFICATION Spec
CONSTANTS
  Users = {u1, u2, u3, u4}
  Unknown = u4
  Roles = {a, b, c}
  Emails = {e1, e2}
  Usernames = {n1, n2}
  RoleNames = {m1, m2}
  Permissions = {p1}
  Requests = {r1, r2}
  None = None
  Null = Null
  MaxCalls = 4
  MaxFaults = 1
SYMMETRY Symmetry
INVARIANTS IdentitiesUnique ErrorsExplained VerdictsExplained
PROPERTIES GrantedOnce
CHECK_DEADLOCK FALSE
