CONSTANTS
  a = a
  b = b
  r1 = r1
  r2 = r2
  r3 = r3
  r4 = r4
  x = x
  y = y
  NoOne = NoOne
  NoKey = NoKey
  NoActor = NoActor
  Sessions = {w1, w2}
  Workers = {w1, w2}
  Liabilities = {a, b}
  Assets = {}
  Opening <- MCOpening
  Amounts = {1, 2}
  MaxReserve = 0
  Refs = {r1, r2, r3, r4}
  Instruction <- Backlogged
  ApiKeys <- TwoKeys
  BatchLimit = 2
  MaxCrashes = 2
SPECIFICATION BacklogSpec
PROPERTY
  QueueDrains
