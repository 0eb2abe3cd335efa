CONSTANTS
  a = a
  b = b
  r1 = r1
  r2 = r2
  r3 = r3
  r4 = r4
  x = x
  y = y
  NoOne = NoOne
  NoKey = NoKey
  NoActor = NoActor
  Sessions = {w1, w2}
  Workers = {w1, w2}
  Liabilities = {a, b}
  Assets = {}
  Opening <- MCOpening
  Amounts = {1, 2}
  MaxReserve = 0
  Refs = {r1, r2, r3}
  Instruction <- Crossing
  ApiKeys <- ThreeKeys
  BatchLimit = 2
  MaxCrashes = 1
SPECIFICATION Spec
INVARIANTS
  RtgsTypeOK
  Reconciled
  OutboxAgrees
  TwoPersonRule
PROPERTIES
  LedgerSpec
  KeepsPromise
