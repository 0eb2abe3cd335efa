CONSTANTS
  aGBP = aGBP
  aUSD = aUSD
  bUSD = bUSD
  bEUR = bEUR
  nGBP = nGBP
  nUSD = nUSD
  nEUR = nEUR
  r1 = r1
  r2 = r2
  r3 = r3
  NoOne = NoOne
  NoKey = NoKey
  Sessions = {w1, w2}
  Workers = {w1, w2}
  Liabilities = {aGBP, aUSD, bUSD, bEUR}
  Assets = {nGBP, nUSD, nEUR}
  Opening <- MCOpening
  Amounts = {1, 2, 3}
  MaxReserve = 20
  Refs = {r1, r2, r3}
  Instruction <- MCInstruction
  Currency <- MCCurrency
  Nostro <- MCNostro
  Quoted <- MCQuoted
  Scale = 4
  Rates = {4, 6}
  FirstRate = 4
  HalfSpread <- MCHalfSpread
  Nodes = {n1, n2, n3}
  BatchLimit = 2
  MaxCrashes = 1
SPECIFICATION Spec
INVARIANTS
  FxTypeOK
  LegsReconcile
  SettledHasBothLegs
  OutboxAgrees
PROPERTY
  LedgerSpec
