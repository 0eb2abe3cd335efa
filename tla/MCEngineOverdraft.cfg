CONSTANTS
  a = a
  b = b
  p1 = p1
  p2 = p2
  p3 = p3
  p4 = p4
  p5 = p5
  e1 = e1
  e2 = e2
  e3 = e3
  alice = alice
  bob = bob
  carol = carol
  key1 = key1
  NoOne = NoOne
  NoKey = NoKey
  Never = Never
  Sessions = {h1, h2, c}
  Handlers = {h1, h2}
  Checkers = {}
  Liabilities = {a, b}
  Assets = {}
  Opening <- Opening2
  Amounts = {1, 2}
  MaxReserve = 0
  Payments = {}
  Escrows = {e1, e2}
  Terms <- Rivals
  Evidence <- NoEvidence
  Cleared = {b}
  MaxClock = 1
  MaxCrashes = 0
SPECIFICATION Spec
CHECK_DEADLOCK FALSE
INVARIANT
  NoOverdraft
