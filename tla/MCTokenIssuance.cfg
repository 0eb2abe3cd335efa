CONSTANTS
  a = a
  b = b
  i1 = i1
  i2 = i2
  d1 = d1
  d2 = d2
  Omnibus = Omnibus
  NoOne = NoOne
  NoKey = NoKey
  Sessions = {h1, h2}
  Handlers = {h1, h2}
  Liabilities = {a, b}
  Assets = {Omnibus}
  Opening <- MCOpening
  Amounts = {1, 2}
  MaxReserve = 9
  Refs = {i1, i2, d1, d2}
  Request <- MCRequest
  Cleared = {a}
  MaxHolds <- MCMaxHolds
  MaxReleases <- MCMaxReleases
SPECIFICATION Spec
INVARIANTS
  IssuanceTypeOK
  OverdraftBounded
PROPERTIES
  KeepsPromise
  
  CheckedBalanceStands
