SPECIFICATION Spec
CONSTANTS
  A = A
  B = B
  C = C
  r1 = r1
  r2 = r2
  r3 = r3
  a = a
  b = b
  c = c
  main = main
  dev = dev
  Null = Null
  Instances = {A, B}
  Publishers = {A, B}
  Readers = {}
  Requests = {r1, r2, r3}
  Refs = {main, dev}
  Oids = {a, b, c}
  Txn <- InitializingTxns
  Receipts = {r2}
  MaxBatch = 2
  MaxRetries = 2
  GraceProbes = 2
  MaxBurn = 2
  DeleteRetries = 0
  MaxCrashes = 1
  MaxStoreErrors = 1
  MaxLostCas = 0
SYMMETRY InstanceSymmetry
CHECK_DEADLOCK FALSE
INVARIANTS
  TypeOK
  LogComplete
  AckedCommitted
  CommittedOnce
  ReceiptFirst
  RejectionJustified
  CurrentVersionCurrentRefs
PROPERTIES
  LogOnlyGrows
  ImplementsRefLog
