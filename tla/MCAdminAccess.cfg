\* Two requests at a time, each part of the module in turn.
SPECIFICATION Spec
CONSTANTS
  Slots = {r1, r2}
  Addresses = {a1}
  Names <- MCNames
  Passwords <- MCPasswords
  Secrets <- MCSecrets
  CodesOf <- MCCodesOf
  TokenNames = {"cli", "ci"}
  MaxFailures = 2
  LockFor = 2
  SessionTTL = 2
  MaxAge = 3
  SetupTTL = 1
  MaxTickets = 2
  TicketTTL = 1
  TouchEvery = 1
  Starts <- MCStarts
  MaxTime = 4
SYMMETRY Slot
INVARIANTS SessionsAreEntitled CodesWorkOnce TicketsHold
PROPERTIES ChangesFollowTheirCheck LocksHold  RevocationSticks
CHECK_DEADLOCK FALSE
