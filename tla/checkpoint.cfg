SPECIFICATION CheckpointSpec
CONSTANTS
  A = A
  B = B
  C = C
  r1 = r1
  r2 = r2
  r3 = r3
  a = a
  b = b
  c = c
  main = main
  dev = dev
  Null = Null
  Instances = {A, B, C}
  Publishers = {A, B}
  Readers = {}
  Requests = {r1, r2}
  Refs = {main, dev}
  Oids = {a, b, c}
  Txn <- TwoTxns
  Receipts = {}
  MaxBatch = 1
  MaxRetries = 2
  GraceProbes = 1
  MaxBurn = 2
  DeleteRetries = 0
  MaxCrashes = 1
  MaxStoreErrors = 1
  MaxLostCas = 0
  Checkpointers = {C}
  MaxCheckpoints = 2
SYMMETRY PublisherSymmetry
CHECK_DEADLOCK FALSE
INVARIANTS
  CheckpointTypeOK
  ColdStartCurrent
  CurrentVersionCurrentRefs
PROPERTY FoldingOnlyGrows
