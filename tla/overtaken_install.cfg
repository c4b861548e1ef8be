SPECIFICATION Spec
CONSTANTS
  A = A
  B = B
  C = C
  r1 = r1
  r2 = r2
  r3 = r3
  a = a
  b = b
  c = c
  main = main
  dev = dev
  Null = Null
  Instances = {A, B}
  Publishers = {A, B}
  Readers = {A}
  Requests = {r1, r2, r3}
  Refs = {main, dev}
  Oids = {a, b, c}
  Txn <- RacingTxns
  Receipts = {}
  MaxBatch = 1
  MaxRetries = 2
  GraceProbes = 1
  MaxBurn = 2
  DeleteRetries = 0
  MaxCrashes = 0
  MaxStoreErrors = 0
  MaxLostCas = 0
CHECK_DEADLOCK FALSE
INVARIANT ReadsSeeAcked
