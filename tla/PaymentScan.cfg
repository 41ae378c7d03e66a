CONSTANTS
  i1 = i1
  i2 = i2
  t1 = t1
  t2 = t2
  t3 = t3
  Invoices = {i1, i2}
  Transfers = {t1, t2, t3}
  NoTx = NoTx
  Pays <- MCPays
  Pasted = {t2}
  Confirmations = 2
  Chunk = 2
  ChunksPerPass = 1
  MaxBlock = 4
  MaxFailures = 1
SPECIFICATION FairSpec
INVARIANTS TypeOK CreditsAreSound
PROPERTIES PaymentsAreFound
CHECK_DEADLOCK FALSE
