SPECIFICATION Spec
CONSTANTS
  Requests = {r1, r2}
  VerifyLifetime = 1
  SessionLifetime = 2
  AccessLifetime = 1
  MaxSessions = 4
  MaxClock = 3
SYMMETRY Symmetric
INVARIANTS
  TypeOK
  OneChainPerFamily
  FamilyEnds
  VerifiedOnce
PROPERTIES
  EndedFamilyStaysEnded
  FamilyImplementation
