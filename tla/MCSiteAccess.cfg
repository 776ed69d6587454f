SPECIFICATION Spec
CONSTANTS
  MaxFlight = 2
  MaxCalls = 3
  MaxLost = 1
  MaxTries = 1
  Visits <- MCVisits
INVARIANTS
  TypeOK
  Step2HasCode
  CodeUsedOnce
  ResetTokenOnce
  AuthenticatorMatches
  TotpAskedWhenRequired
  PendingIsAwaited
PROPERTIES
  LastEmailKept
