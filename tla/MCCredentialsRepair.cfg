SPECIFICATION Spec
CONSTANTS
  Chosen = {p1, p2}
  Temporary = {t}
  Pins = {k}
  NoPin = NoPin
  Clients = {c1, c2}
  EnableArgon2id = TRUE
  PinLimit = 2
  MaxRecoveries = 1
SYMMETRY Symmetries
INVARIANT PasswordOpensKey
