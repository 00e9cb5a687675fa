SPECIFICATION MCSpec
CONSTANTS
  Files = {f1, f2}
  Values = {pin, secret}
  AccountPin = pin
  MaxLoads = 2
  None = None
SYMMETRY Symmetries
CHECK_DEADLOCK FALSE
INVARIANTS
  TypeOK
  SecretsAreCurrent
  LockedVaultEmpties
  ShownIsTheFile
