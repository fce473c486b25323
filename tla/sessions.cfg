SPECIFICATION Spec
CONSTANTS
  Requests = {r1, r2}
  Browsers = {b1}
  Passwords = {p1, p2}
  Grace = 2
  Ttl = 3
  MaxFailed = 2
  Lockout = 1
  MaxClock = 3
  MaxTokens = 4
  MaxSent = 4
SYMMETRY Symmetry
INVARIANT OneLiveToken
INVARIANT EndedStaysEnded
INVARIANT RetriesKeepTheSession
INVARIANT PasswordIsLastSet
PROPERTY NeverRevived
PROPERTY LockoutStands
