CONSTANTS
  Passwords = {pw}
  Links = {l1, l2}
  Requests = {r1, r2}
  Browsers = {b1}
  Tabs = {t1, t2}
  Retries = 1
  Absent = Absent
  Numbers = {n1}
  Codes = {k1, k2}
  CodeCalls = {c1, c2}
  MaxAttempts = 1
  Cooldown = 0
  Expiry = 1
  MaxTime = 2
  Unknown = Unknown
SPECIFICATION Spec
SYMMETRY Symmetry
INVARIANTS
  LinksBounded
  SignedInHasTokens
  CodesBounded
  AttemptsBounded
