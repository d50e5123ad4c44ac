SPECIFICATION Spec
CONSTANTS
  Families = {gmail, google_drive}
  Mail = gmail
  Users = {g1, g2}
  Callbacks = {c1, c2}
  Workers = {w1, w2}
  MaxSessions = 2
  MaxTransactions = 2
  MaxLoads = 3
SYMMETRY Symmetric
INVARIANTS
  TypeOK
  ExchangedOnce
  OneConnectionPerAccount
  CredentialsFit
