SPECIFICATION CheckpointSpec
CONSTANTS
  A = A
  B = B
  C = C
  r1 = r1
  r2 = r2
  r3 = r3
  a = a
  b = b
  c = c
  main = main
  dev = dev
  Null = Null
  Instances = {A}
  Publishers = {A}
  Readers = {}
  Requests = {r1, r2, r3}
  Refs = {main, dev}
  Oids = {a, b, c}
  Txn <- ChainedTxns
  Receipts = {}
  MaxBatch = 1
  MaxRetries = 2
  GraceProbes = 1
  MaxBurn = 2
  DeleteRetries = 0
  MaxCrashes = 0
  MaxStoreErrors = 0
  MaxLostCas = 0
  Checkpointers = {A}
  MaxCheckpoints = 1
CHECK_DEADLOCK FALSE
PROPERTY FoldingOnlyGrows
