SPECIFICATION Spec
CONSTANTS
  Account = {a, b}
  Administrator = {a, b}
  Member = {b}
  Tx = {t, u}
  Role = Role
  MaxChanges = 2
SYMMETRY Connections
INVARIANTS
  AccountsTypeOK
  AdministratorRemains
  DecisionsStand
  SessionsAreCurrent
