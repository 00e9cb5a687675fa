SPECIFICATION SpecAnswers
CONSTANTS
  Accounts = {u1, u2, u3}
  Attempts = {a1, a2}
  Parts = {p, q}
  Absent = Absent
  Pending = Pending
  Nobody = Nobody
  MaxCustodians = 2
  MaxSaves = 2
SYMMETRY Symmetries
CHECK_DEADLOCK FALSE
INVARIANT ServedOwnerHoldsNoExpiredParts
