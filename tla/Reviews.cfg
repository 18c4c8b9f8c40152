CONSTANTS
  Phones = {x1, x2, x3}
  Emails = {e1}
  Applications = {a1, a2, a3}
  Submitters = {c1, c2}
  Admins = {admin}
  None = None
  Items = {x1, x2, x3}
  Reporters = {c1, c2}
  Moderators = {c1, c2}
  NoItem = NoItem
SPECIFICATION ReviewsSpec
CHECK_DEADLOCK FALSE
SYMMETRY Symmetry
INVARIANTS
  AccountsMatch
  EmailsBounded
  PendingBounded
  DecisionsBounded
PROPERTIES
  DecisionIsFinal
