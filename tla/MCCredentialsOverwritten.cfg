SPECIFICATION Spec
CONSTANTS
  Families = {gmail, google_drive}
  Mail = gmail
  Users = {g1}
  Callbacks = {c1, c2}
  Workers = {w1}
  MaxSessions = 2
  MaxTransactions = 2
  MaxLoads = 2
SYMMETRY Symmetric
INVARIANT
  CredentialsMatchScopes
