--------------------------- MODULE WalCopyProofs ----------------------------
(***************************************************************************)
(* The steps of WalPublish keep the types, also with checkpoints beside    *)
(* them, and keep every copy of the refs that an instance holds in         *)
(* agreement with the log.                                                 *)
(***************************************************************************)
EXTENDS WalFacts, WalCheckpoint

\* A step that names no prover is for Zenon.  Where SMT is named, Z3 is a second attempt.
USE ZenonT(40)

-----------------------------------------------------------------------------
(* Types: what a step leaves alone, clients and syncs *)

\* A probe counter that is reset is within the grace bound.
LEMMA NoProbes == 0 \in 0..GraceProbes
  BY ProtocolAssumption, SMTT(30), Z3T(30)

\* The empty queue is a queue.
LEMMA EmptySeq ==
  ASSUME NEW S
  PROVE  <<>> \in Seq(S)
  BY SMTT(30), Z3T(30)

\* What is at a position of a queue belongs to what is queued.
LEMMA ElementOfSeq ==
  ASSUME NEW S, NEW q \in Seq(S), NEW k \in 1..Len(q)
  PROVE  q[k] \in S
  BY SMTT(30), Z3T(30)

\* A request is queued behind the others.
LEMMA AppendType ==
  ASSUME NEW S, NEW q \in Seq(S), NEW x \in S
  PROVE  Append(q, x) \in Seq(S)
  BY SMTT(30), Z3T(30)

\* The number after a number.
LEMMA Successor == \A n \in Nat : n + 1 \in Nat
  BY SMTT(30), Z3T(30)

\* The positions of a batch are counted from one.
LEMMA BatchPositions ==
  ASSUME NEW b \in Batches
  PROVE  DOMAIN b \in SUBSET (Nat \ {0})
  BY BatchFacts, SMTT(30), Z3T(30)

\* Replaying a bounded set of entries over a ref map gives a ref map.
LEMMA ApplyEntriesType ==
  ASSUME Replayable,
         NEW rs \in RefMaps, NEW es \in SUBSET Entries, NEW B \in Nat,
         \A e \in es : e.seq <= B
  PROVE  ApplyEntries(rs, es) \in RefMaps
<1> SUFFICES ASSUME NEW n \in Refs PROVE ApplyEntries(rs, es)[n] \in Values
  BY DEF ApplyEntries, RefMaps
<1> DEFINE naming == {e \in es : n \in DOMAIN Txn[e.req]}
<1>1. CASE naming = {}
  BY <1>1 DEF ApplyEntries, RefMaps
<1>2. CASE naming # {}
  <2>1. Latest(naming) \in naming
    BY <1>2, LatestExists
  <2>2. Txn[Latest(naming).req][n] \in Updates
    BY <2>1, TxnAssumption DEF Entries
  <2> QED
    BY <1>2, <2>2 DEF ApplyEntries, Updates
<1> QED
  BY <1>1, <1>2

\* A step that leaves the bucket alone, or only counts a fault, keeps its types ...
LEMMA SameBucketType ==
  ASSUME BucketTypeOK, UNCHANGED <<bucketVars, hist>>, UNCHANGED faults \/ StoreError
  PROVE  BucketTypeOK'
<1>1. faults' \in [crash : Nat, store : Nat, cas : Nat]
  BY SMTT(30), Z3T(30) DEF BucketTypeOK, StoreError
<1> QED
  BY <1>1 DEF BucketTypeOK, bucketVars

\* ... as does one that leaves the local copies alone ...
LEMMA SameLocalType ==
  ASSUME LocalTypeOK, UNCHANGED localVars
  PROVE  LocalTypeOK'
  BY DEF LocalTypeOK, localVars

\* ... and one that leaves the pushes and reads alone.
LEMMA SameClientType ==
  ASSUME ClientTypeOK, UNCHANGED clientVars
  PROVE  ClientTypeOK'
  BY DEF ClientTypeOK, clientVars

\* process_batch returning leaves an idle publisher.
LEMMA ResetType ==
  ASSUME PublisherInv, NEW i \in Instances, ResetPublisher(i)
  PROVE  PublisherInv'
<1>1. PublisherTypeOK'
  BY InitialTypes, EmptyIsBatch, ProtocolAssumption, SMTT(30), Z3T(30) DEF PublisherInv,
     ResetPublisher, PublisherTypeOK, Steps
<1>2. \A j \in Instances : pc'[j] \in Publishing => valid'[j] # <<>>
  BY DEF PublisherInv, ResetPublisher, PublisherTypeOK, Publishing
<1> QED
  BY <1>1, <1>2 DEF PublisherInv

\* Answering a whole batch with the error keeps the types.
LEMMA FinishErrorsType ==
  ASSUME PublisherInv, ClientTypeOK, NEW i \in Instances, FinishErrors(i)
  PROVE  PublisherInv' /\ ClientTypeOK'
<1>1. PublisherInv'
  BY ResetType DEF FinishErrors
<1>2. ClientTypeOK'
  BY DEF FinishErrors, AnswerAll, ClientTypeOK
<1> QED
  BY <1>1, <1>2

\* So does a contended attempt, retried or given up.
LEMMA ContendedType ==
  ASSUME PublisherInv, ClientTypeOK, NEW i \in Instances, Contended(i)
  PROVE  PublisherInv' /\ ClientTypeOK'
<1>1. CASE attempts[i] + 1 >= MaxRetries
  BY <1>1, FinishErrorsType DEF Contended
<1>2. CASE ~(attempts[i] + 1 >= MaxRetries)
  <2>1. PublisherTypeOK'
    <3>1. attempts[i] + 1 \in 0..(MaxRetries - 1) /\ 0 \in 0..GraceProbes
      BY <1>2, ProtocolAssumption, SMTT(30), Z3T(30) DEF PublisherInv, PublisherTypeOK
    <3>2. attempts' \in [Instances -> 0..(MaxRetries - 1)]
      BY <1>2, <3>1 DEF PublisherInv, Contended, PublisherTypeOK
    <3>3. /\ slot' = [slot EXCEPT ![i] = NoSlot] /\ burned' = [burned EXCEPT ![i] = {}]
          /\ pc' = [pc EXCEPT ![i] = "sync"] /\ probes' = [probes EXCEPT ![i] = 0]
      BY <1>2 DEF Contended
    <3>4. /\ slot' \in [Instances -> Slots] /\ burned' \in [Instances -> SUBSET Slots]
          /\ pc' \in [Instances -> Steps] /\ probes' \in [Instances -> 0..GraceProbes]
      BY <3>1, <3>3, InitialTypes DEF PublisherInv, PublisherTypeOK, Steps
    <3>5. UNCHANGED <<batch, valid, view, done>>
      BY <1>2 DEF Contended
    <3> QED
      BY <3>2, <3>4, <3>5 DEF PublisherInv, PublisherTypeOK
  <2>2. \A j \in Instances : pc'[j] \in Publishing => valid'[j] # <<>>
    BY <1>2 DEF PublisherInv, Contended, PublisherTypeOK, Publishing
  <2>3. ClientTypeOK'
    BY <1>2 DEF Contended, ClientTypeOK, clientVars
  <2> QED
    BY <2>1, <2>2, <2>3 DEF PublisherInv
<1> QED
  BY <1>1, <1>2

\* The write of an attempt is a manifest with the version it replaces.
LEMMA ManifestWriteType ==
  ASSUME PublisherTypeOK, NEW i \in Instances, valid[i] # <<>>
  PROVE  ManifestWrite(i) \in [base : Nat, m : Manifests, slot : Slots, reqs : Batches]
  BY UpdatedManifestType DEF ManifestWrite, PublisherTypeOK

\* A conditional delete names a slot, its version and who waits for it.
LEMMA CasDeleteType ==
  ASSUME BucketTypeOK, NEW i \in Instances, NEW s \in Slots, CasDelete(i, s)
  PROVE  dels' \in SUBSET [seq : Nat, ver : Nat, by : Instances, held : BOOLEAN, left : Nat]
<1>1. [seq |-> s.seq, ver |-> s.ver, by |-> i, held |-> TRUE, left |-> DeleteRetries]
        \in [seq : Nat, ver : Nat, by : Instances, held : BOOLEAN, left : Nat]
  BY ProtocolAssumption DEF Slots
<1> QED
  BY <1>1 DEF CasDelete, BucketTypeOK

\* A delete nobody waits for any more is still a delete.
LEMMA UnheldType ==
  ASSUME BucketTypeOK, NEW i \in Instances
  PROVE  Unheld(i) \in SUBSET [seq : Nat, ver : Nat, by : Instances, held : BOOLEAN, left : Nat]
  BY DEF BucketTypeOK, Unheld

\* Fault counters count.
LEMMA FaultType ==
  ASSUME BucketTypeOK
  PROVE  /\ [faults EXCEPT !.store = @ + 1] \in [crash : Nat, store : Nat, cas : Nat]
         /\ [faults EXCEPT !.cas = @ + 1] \in [crash : Nat, store : Nat, cas : Nat]
<1>1. faults \in [crash : Nat, store : Nat, cas : Nat]
  BY DEF BucketTypeOK
<1> QED
  BY <1>1, SMTT(30), Z3T(30)

\* A store error counts as one.
LEMMA StoreErrorType ==
  ASSUME BucketTypeOK, StoreError
  PROVE  faults' \in [crash : Nat, store : Nat, cas : Nat]
  BY FaultType DEF StoreError

\* What a sync installs is a ref map.
LEMMA InstallType ==
  ASSUME Replayable,
         BucketTypeOK, LocalTypeOK, NEW i \in Instances
  PROVE  LET m == sync[i].m IN
         /\ BaseRefs(i, m) \in RefMaps /\ BaseSeq(i, m) \in Nat
         /\ ApplyEntries(BaseRefs(i, m), EntriesIn(m, BaseSeq(i, m))) \in RefMaps
<1> DEFINE m == sync[i].m
<1>1. m \in Manifests /\ m.head \in Nat /\ m.ckpt \in Nat
  BY DEF LocalTypeOK, Manifests
<1>2. BaseRefs(i, m) \in RefMaps
  BY <1>1 DEF BucketTypeOK, LocalTypeOK, BaseRefs, UsesSnapshot
<1>3. BaseSeq(i, m) \in Nat
  BY <1>1 DEF LocalTypeOK, BaseSeq
<1>4. ASSUME NEW o \in log PROVE EntriesAt(o.seq, o.reqs) \in SUBSET Entries
  <2>1. o.seq \in Nat /\ o.reqs \in Batches
    BY DEF BucketTypeOK, LogObjects
  <2> QED
    BY <2>1, EntriesAtFacts
<1>5. EntriesIn(m, BaseSeq(i, m)) \in SUBSET Entries
  BY <1>4 DEF EntriesIn, ObjectAt
<1>6. \A e \in EntriesIn(m, BaseSeq(i, m)) : e.seq <= m.head
  BY DEF EntriesIn
<1> HIDE DEF m
<1>7. ApplyEntries(BaseRefs(i, m), EntriesIn(m, BaseSeq(i, m))) \in RefMaps
  BY <1>1, <1>2, <1>5, <1>6, ApplyEntriesType
<1> QED
  BY <1>2, <1>3, <1>7 DEF m

\* Replaying some of a batch's own entries over the local refs gives a ref map.
LEMMA OwnEntriesType ==
  ASSUME Replayable,
         LocalTypeOK, PublisherTypeOK, NEW i \in Instances, NEW b \in Batches
  PROVE  ApplyEntries(refs[i], EntriesAt(slot[i].seq, b)) \in RefMaps
<1>1. slot[i].seq \in Nat /\ refs[i] \in RefMaps /\ slot[i].seq + Len(b) \in Nat
  BY BatchFacts, SMTT(30), Z3T(30) DEF PublisherTypeOK, Slots, LocalTypeOK
<1>2. /\ EntriesAt(slot[i].seq, b) \in SUBSET Entries
      /\ \A e \in EntriesAt(slot[i].seq, b) : e.seq <= slot[i].seq + Len(b)
  BY <1>1, EntriesAtFacts
<1> QED
  BY <1>1, <1>2, ApplyEntriesType

\* Pushing and reading keep the types.
LEMMA ClientTypes ==
  ASSUME TypeInv, NEW i \in Instances, ClientStep(i)
  PROVE  TypeInv'
<1>1. ASSUME NEW r \in Requests, PublishPush(i, r)
      PROVE  TypeInv'
  <2>1. BucketTypeOK' /\ LocalTypeOK' /\ PublisherInv'
    BY <1>1 DEF TypeInv, TypeOK, PublishPush, bucketVars, localVars, pubVars, BucketTypeOK,
       LocalTypeOK, PublisherTypeOK, PublisherInv
  <2>2. ClientTypeOK'
    <3>1. HeadSeq \in Nat
      BY DEF TypeInv, TypeOK, BucketTypeOK, HeadSeq, Manifests
    <3>2. Append(queue[i], [req |-> r, synced |-> FALSE]) \in Seq([req : Requests, synced : BOOLEAN])
      BY AppendType DEF TypeInv, TypeOK, ClientTypeOK
    <3> QED
      BY <1>1, <3>1, <3>2 DEF TypeInv, TypeOK, PublishPush, ClientTypeOK
  <2> QED
    BY <2>1, <2>2 DEF TypeInv, TypeOK, PublisherInv
<1>2. ASSUME NEW r \in Requests, PublishPushSynced(i, r)
      PROVE  TypeInv'
  <2>1. BucketTypeOK' /\ LocalTypeOK' /\ PublisherInv'
    BY <1>2 DEF TypeInv, TypeOK, PublishPushSynced, bucketVars, localVars, pubVars,
       BucketTypeOK, LocalTypeOK, PublisherTypeOK, PublisherInv
  <2>2. ClientTypeOK'
    <3>1. reader[i].since \in Nat
      BY DEF TypeInv, TypeOK, ClientTypeOK
    <3>2. Append(queue[i], [req |-> r, synced |-> TRUE]) \in Seq([req : Requests, synced : BOOLEAN])
      BY AppendType DEF TypeInv, TypeOK, ClientTypeOK
    <3> QED
      BY <1>2, <3>1, <3>2, InitialTypes DEF TypeInv, TypeOK, PublishPushSynced, ClientTypeOK
  <2> QED
    BY <2>1, <2>2 DEF TypeInv, TypeOK, PublisherInv
<1>3. CASE StartRead(i)
  <2>1. BucketTypeOK' /\ PublisherInv'
    BY <1>3 DEF TypeInv, TypeOK, StartRead, bucketVars, pubVars, BucketTypeOK,
       PublisherTypeOK, PublisherInv
  <2>2. LocalTypeOK'
    BY <1>3, InitialTypes DEF TypeInv, TypeOK, StartRead, LocalTypeOK, Fetched, BucketTypeOK
  <2>3. AckedSeqs \in SUBSET Nat /\ HeadSeq \in Nat
    BY SMTT(30), Z3T(30) DEF TypeInv, TypeOK, AckedSeqs, HeadSeq, ClientTypeOK, BucketTypeOK, Manifests
  <2>4. ClientTypeOK'
    BY <1>3, <2>3 DEF TypeInv, TypeOK, StartRead, ClientTypeOK
  <2> QED
    BY <2>1, <2>2, <2>4 DEF TypeInv, TypeOK, PublisherInv
<1>4. CASE FinishRead(i)
  <2>1. BucketTypeOK' /\ LocalTypeOK' /\ PublisherInv'
    BY <1>4 DEF TypeInv, TypeOK, FinishRead, bucketVars, localVars, pubVars, BucketTypeOK,
       LocalTypeOK, PublisherTypeOK, PublisherInv
  <2>2. ClientTypeOK'
    BY <1>4, InitialTypes DEF TypeInv, TypeOK, FinishRead, ClientTypeOK
  <2> QED
    BY <2>1, <2>2 DEF TypeInv, TypeOK, PublisherInv
<1> QED
  BY <1>1, <1>2, <1>3, <1>4 DEF ClientStep

\* Types of what a sync installs.
LEMMA ApplyType ==
  ASSUME Replayable,
         BucketTypeOK, LocalTypeOK, NEW i \in Instances, Apply(i)
  PROVE  /\ refs' \in [Instances -> RefMaps] /\ hm' \in [Instances -> Manifests]
         /\ hv' \in [Instances -> Nat] /\ applied' \in [Instances -> Nat]
         /\ saved' \in [Instances -> Nat]
<1>1. /\ sync[i].m \in Manifests /\ sync[i].ver \in Nat /\ sync[i].m.head \in Nat
  BY DEF LocalTypeOK, Manifests
<1>2. CASE Install(i, sync[i])
  BY <1>1, <1>2, InstallType DEF Install, LocalTypeOK
<1>3. CASE UNCHANGED <<refs, applied, saved, hm, hv>>
  BY <1>3 DEF LocalTypeOK
<1>4. CASE hv' = [hv EXCEPT ![i] = sync[i].ver] /\ UNCHANGED <<refs, applied, saved, hm>>
  BY <1>1, <1>4 DEF LocalTypeOK
<1>5. CASE /\ hm' = [hm EXCEPT ![i] = sync[i].m]
           /\ hv' = [hv EXCEPT ![i] = sync[i].ver]
           /\ UNCHANGED <<refs, applied, saved>>
  BY <1>1, <1>5 DEF LocalTypeOK
<1> QED
  BY <1>2, <1>3, <1>4, <1>5 DEF Apply

\* So do the steps of a sync.
LEMMA SyncTypes ==
  ASSUME Replayable,
         TypeInv, NEW i \in Instances, SyncStep(i)
  PROVE  TypeInv'
<1>1. CASE OpenRepo(i)
  <2>1. BucketTypeOK' /\ PublisherInv' /\ ClientTypeOK'
    BY <1>1 DEF TypeInv, TypeOK, OpenRepo, bucketVars, pubVars, clientVars, BucketTypeOK,
       PublisherTypeOK, PublisherInv, ClientTypeOK
  <2>2. LocalTypeOK'
    BY <1>1 DEF TypeInv, TypeOK, OpenRepo, LocalTypeOK, Fetched, BucketTypeOK
  <2> QED
    BY <2>1, <2>2 DEF TypeInv, TypeOK, PublisherInv
<1>2. CASE SyncDone(i)
  <2>1. BucketTypeOK'
    BY <1>2, SameBucketType DEF TypeInv, TypeOK, SyncDone
  <2>2. LocalTypeOK'
    <3>1. /\ refs' \in [Instances -> RefMaps] /\ hm' \in [Instances -> Manifests]
          /\ hv' \in [Instances -> Nat] /\ applied' \in [Instances -> Nat]
          /\ saved' \in [Instances -> Nat]
      BY <1>2, ApplyType DEF TypeInv, TypeOK, SyncDone
    <3>2. sync' = [sync EXCEPT ![i] = NoSync] /\ open' = [open EXCEPT ![i] = TRUE]
      BY <1>2 DEF SyncDone
    <3> QED
      BY <3>1, <3>2, InitialTypes DEF TypeInv, TypeOK, LocalTypeOK
  <2>3. PublisherInv'
    BY <1>2 DEF TypeInv, TypeOK, SyncDone, PublisherInv, PublisherTypeOK, Steps, Publishing
  <2>4. ClientTypeOK'
    <3> DEFINE step == IF sync[i].by = "reader" THEN "read" ELSE reader[i].pc
    <3>1. step \in {"idle", "sync", "read"}
      BY SMTT(30), Z3T(30) DEF TypeInv, TypeOK, ClientTypeOK
    <3>2. reader' = [reader EXCEPT ![i].pc = step] /\ UNCHANGED <<queue, resp, since>>
      BY <1>2 DEF SyncDone
    <3> HIDE DEF step
    <3>3. reader' \in [Instances -> [pc : {"idle", "sync", "read"}, acked : SUBSET Nat, since : Nat]]
      <4>1. [reader[i] EXCEPT !.pc = step]
              \in [pc : {"idle", "sync", "read"}, acked : SUBSET Nat, since : Nat]
        BY <3>1 DEF TypeInv, TypeOK, ClientTypeOK
      <4> QED
        BY <3>2, <4>1 DEF TypeInv, TypeOK, ClientTypeOK
    <3> QED
      BY <3>2, <3>3 DEF TypeInv, TypeOK, ClientTypeOK
  <2> QED
    BY <2>1, <2>2, <2>3, <2>4 DEF TypeInv, TypeOK, PublisherInv
<1>3. CASE SyncFailed(i)
  <2>1. BucketTypeOK'
    BY <1>3, SameBucketType DEF TypeInv, TypeOK, SyncFailed
  <2>2. LocalTypeOK'
    <3>1. /\ BaseRefs(i, sync[i].m) \in RefMaps /\ BaseSeq(i, sync[i].m) \in Nat
      BY InstallType DEF TypeInv, TypeOK
    <3>2. refs' \in [Instances -> RefMaps] /\ applied' \in [Instances -> Nat]
      <4>1. CASE UNCHANGED <<refs, applied>>
        BY <4>1 DEF TypeInv, TypeOK, LocalTypeOK
      <4>2. CASE /\ refs' = [refs EXCEPT ![i] = BaseRefs(i, sync[i].m)]
                 /\ applied' = [applied EXCEPT ![i] = IF open[i] THEN BaseSeq(i, sync[i].m)
                                                                ELSE saved[i]]
        BY <3>1, <4>2 DEF TypeInv, TypeOK, LocalTypeOK
      <4> QED
        BY <1>3, <4>1, <4>2 DEF SyncFailed
    <3>3. sync' = [sync EXCEPT ![i] = NoSync] /\ UNCHANGED <<open, hm, hv, saved>>
      BY <1>3 DEF SyncFailed
    <3> QED
      BY <3>2, <3>3, InitialTypes DEF TypeInv, TypeOK, LocalTypeOK
  <2>3. PublisherInv' /\ ClientTypeOK'
    <3>1. CASE sync[i].by = "publisher"
      BY <1>3, <3>1, FinishErrorsType DEF TypeInv, TypeOK, SyncFailed, PublisherInv
    <3>2. CASE sync[i].by # "publisher"
      <4>1. UNCHANGED <<pubVars, queue, resp, since>>
        BY <1>3, <3>2 DEF SyncFailed
      <4>2. PublisherInv'
        BY <4>1 DEF TypeInv, TypeOK, pubVars, PublisherInv, PublisherTypeOK
      <4>3. ClientTypeOK'
        <5>1. reader' = [reader EXCEPT ![i] = IF sync[i].by = "reader" THEN NoReader ELSE @]
          BY <1>3, <3>2 DEF SyncFailed
        <5> QED
          BY <4>1, <5>1, InitialTypes DEF TypeInv, TypeOK, ClientTypeOK
      <4> QED
        BY <4>2, <4>3
    <3> QED
      BY <3>1, <3>2
  <2> QED
    BY <2>1, <2>2, <2>3 DEF TypeInv, TypeOK, PublisherInv
<1> QED
  BY <1>1, <1>2, <1>3 DEF SyncStep

-----------------------------------------------------------------------------
(* Types: publishers, crashes and late writes *)

\* Steps of a publisher preserve the types.
LEMMA PublisherTypes ==
  ASSUME Replayable,
         TypeInv, NEW i \in Instances, PublisherStep(i)
  PROVE  TypeInv'
<1>1. CASE TakeBatch(i)
  <2>1. BucketTypeOK'
    BY <1>1, SameBucketType DEF TypeInv, TypeOK, TakeBatch
  <2>2. LocalTypeOK'
    BY <1>1, SameLocalType DEF TypeInv, TypeOK, TakeBatch
  <2>3. PublisherInv'
    <3>1. PICK n \in 1..Len(queue[i]) :
            /\ n <= MaxBatch
            /\ batch' = [batch EXCEPT ![i] = [k \in 1..n |-> queue[i][k].req]]
            /\ pc' = [pc EXCEPT ![i] = IF \A k \in 1..n : queue[i][k].synced
                                       THEN "verify" ELSE "sync"]
      BY <1>1 DEF TakeBatch
    <3>2. queue[i] \in Seq([req : Requests, synced : BOOLEAN])
      BY DEF TypeInv, TypeOK, ClientTypeOK
    <3>3. ASSUME NEW k \in 1..n PROVE queue[i][k].req \in Requests
      <4>1. k \in 1..Len(queue[i])
        BY <3>2, SMTT(30), Z3T(30)
      <4>2. queue[i][k] \in [req : Requests, synced : BOOLEAN]
        BY <3>2, <4>1, ElementOfSeq
      <4> QED
        BY <4>2
    <3>4. [k \in 1..n |-> queue[i][k].req] \in [1..n -> Requests] /\ n \in 0..MaxBatch
      BY <3>1, <3>2, <3>3, ProtocolAssumption, SMTT(30), Z3T(30)
    <3>5. [k \in 1..n |-> queue[i][k].req] \in Batches
      BY <3>4 DEF Batches
    <3>6. UNCHANGED <<valid, view, slot, burned, probes, attempts, done>>
      BY <1>1 DEF TakeBatch
    <3> QED
      BY <3>1, <3>5, <3>6 DEF TypeInv, TypeOK, PublisherTypeOK, PublisherInv, Steps,
         Publishing
  <2>4. ClientTypeOK'
    <3>1. PICK n \in 1..Len(queue[i]) :
            queue' = [queue EXCEPT ![i] = SubSeq(@, n + 1, Len(@))]
      BY <1>1 DEF TakeBatch
    <3>2. queue[i] \in Seq([req : Requests, synced : BOOLEAN])
      BY DEF TypeInv, TypeOK, ClientTypeOK
    <3>3. SubSeq(queue[i], n + 1, Len(queue[i])) \in Seq([req : Requests, synced : BOOLEAN])
      <4> DEFINE S == [req : Requests, synced : BOOLEAN]
                 q == queue[i]
      <4> HIDE DEF S, q
      <4>1. q \in Seq(S) /\ Len(q) \in Nat /\ n \in 1..Len(q)
        BY <3>2, SMTT(30), Z3T(30) DEF S, q
      <4>2. n + 1 \in Int /\ \A k \in (n + 1)..Len(q) : q[k] \in S
        BY <4>1, SMTT(30), Z3T(30)
      <4>3. SubSeq(q, n + 1, Len(q)) \in Seq(S)
        BY <4>1, SMTT(30), Z3T(30)
      <4> QED
        BY <4>3 DEF S, q
    <3>4. UNCHANGED <<reader, resp, since>>
      BY <1>1 DEF TakeBatch
    <3> QED
      BY <3>1, <3>3, <3>4 DEF TypeInv, TypeOK, ClientTypeOK
  <2> QED
    BY <2>1, <2>2, <2>3, <2>4 DEF TypeInv, TypeOK, PublisherInv
<1>2. CASE PublisherSync(i)
  <2>1. BucketTypeOK'
    BY <1>2, SameBucketType DEF TypeInv, TypeOK, PublisherSync
  <2>2. LocalTypeOK'
    BY <1>2, InitialTypes DEF TypeInv, TypeOK, PublisherSync, LocalTypeOK, Fetched,
       BucketTypeOK
  <2>3. PublisherInv'
    BY <1>2 DEF TypeInv, TypeOK, PublisherSync, pubVars, PublisherTypeOK, PublisherInv, Steps,
       Publishing
  <2>4. ClientTypeOK'
    BY <1>2, SameClientType DEF TypeInv, TypeOK, PublisherSync
  <2> QED
    BY <2>1, <2>2, <2>3, <2>4 DEF TypeInv, TypeOK, PublisherInv
<1>3. CASE VerifyBatch(i)
  <2>1. BucketTypeOK'
    BY <1>3, SameBucketType DEF TypeInv, TypeOK, VerifyBatch
  <2>2. LocalTypeOK'
    BY <1>3, SameLocalType DEF TypeInv, TypeOK, VerifyBatch
  <2>3. PublisherInv'
    <3>1. CASE ResetPublisher(i)
      BY <3>1, ResetType DEF TypeInv, TypeOK, PublisherInv
    <3>2. CASE \E v \in Batches :
                 /\ v # <<>>
                 /\ valid' = [valid EXCEPT ![i] = v]
                 /\ view' = [view EXCEPT ![i] = [m |-> hm[i], ver |-> hv[i]]]
                 /\ slot' = [slot EXCEPT ![i] = [seq |-> hm[i].head + 1, ver |-> 0]]
                 /\ pc' = [pc EXCEPT ![i] = "claim"]
                 /\ UNCHANGED <<batch, burned, probes, attempts, done>>
      <4>1. /\ [m |-> hm[i], ver |-> hv[i]] \in [m : Manifests, ver : Nat]
            /\ [seq |-> hm[i].head + 1, ver |-> 0] \in Slots
        <5>1. hm[i] \in Manifests /\ hv[i] \in Nat
          BY DEF TypeInv, TypeOK, LocalTypeOK
        <5>2. hm[i].head + 1 \in Nat
          BY <5>1, Successor DEF Manifests
        <5> QED
          BY <5>1, <5>2 DEF Slots
      <4>2. PublisherTypeOK'
        BY <3>2, <4>1, SMTT(30), Z3T(30) DEF TypeInv, TypeOK, PublisherTypeOK, Steps
      <4>3. \A j \in Instances : pc'[j] \in Publishing => valid'[j] # <<>>
        BY <3>2 DEF TypeInv, TypeOK, PublisherTypeOK
      <4> QED
        BY <4>2, <4>3 DEF PublisherInv
    <3> QED
      BY <1>3, <3>1, <3>2 DEF VerifyBatch, clientVars
  <2>4. ClientTypeOK'
    <3>1. CASE AnswerAll(Elements(batch[i]), "rejected") /\ UNCHANGED <<queue, reader, since>>
      BY <3>1 DEF TypeInv, TypeOK, AnswerAll, ClientTypeOK
    <3>2. CASE UNCHANGED clientVars
      BY <3>2, SameClientType DEF TypeInv, TypeOK
    <3> QED
      BY <1>3, <3>1, <3>2 DEF VerifyBatch
  <2> QED
    BY <2>1, <2>2, <2>3, <2>4 DEF TypeInv, TypeOK, PublisherInv
<1>4. CASE ClaimLogSlot(i)
  <2>1. BucketTypeOK'
    <3>1. [seq |-> slot[i].seq, ver |-> nver, reqs |-> valid[i]] \in LogObjects /\ nver + 1 \in Nat
      BY SMTT(30), Z3T(30) DEF TypeInv, TypeOK, LogObjects, PublisherTypeOK, Slots, BucketTypeOK
    <3>2. log' \in SUBSET LogObjects /\ nver' \in Nat
      BY <1>4, <3>1 DEF TypeInv, TypeOK, ClaimLogSlot, BucketTypeOK
    <3>3. UNCHANGED <<manifest, mver, snaps, marker, late, dels, hist, faults>>
      BY <1>4 DEF ClaimLogSlot
    <3> QED
      BY <3>2, <3>3 DEF TypeInv, TypeOK, BucketTypeOK
  <2>2. LocalTypeOK'
    BY <1>4, SameLocalType DEF TypeInv, TypeOK, ClaimLogSlot
  <2>3. PublisherInv'
    <3>1. slot' \in [Instances -> Slots]
      <4>1. slot[i] \in Slots /\ nver \in Nat /\ slot \in [Instances -> Slots]
        BY DEF TypeInv, TypeOK, PublisherTypeOK, BucketTypeOK
      <4>2. [seq |-> slot[i].seq, ver |-> nver] \in Slots
        BY <4>1 DEF Slots
      <4>3. \/ slot' = slot
            \/ slot' = [slot EXCEPT ![i] = [seq |-> slot[i].seq, ver |-> nver]]
        BY <1>4 DEF ClaimLogSlot
      <4> QED
        BY <4>1, <4>2, <4>3
    <3>2. \E q \in {"cas", "probe"} : pc' = [pc EXCEPT ![i] = q]
      BY <1>4 DEF ClaimLogSlot
    <3>3. pc[i] = "claim" /\ UNCHANGED <<batch, valid, view, burned, probes, attempts, done>>
      BY <1>4 DEF ClaimLogSlot
    <3> QED
      BY <3>1, <3>2, <3>3 DEF TypeInv, TypeOK, PublisherTypeOK, PublisherInv, Steps,
         Publishing
  <2>4. ClientTypeOK'
    BY <1>4, SameClientType DEF TypeInv, TypeOK, ClaimLogSlot
  <2> QED
    BY <2>1, <2>2, <2>3, <2>4 DEF TypeInv, TypeOK, PublisherInv
<1>5. CASE ClaimFailed(i)
  <2>1. BucketTypeOK'
    <3>1. [seq |-> slot[i].seq, ver |-> nver, reqs |-> valid[i]] \in LogObjects /\ nver + 1 \in Nat
      BY SMTT(30), Z3T(30) DEF TypeInv, TypeOK, LogObjects, PublisherTypeOK, Slots, BucketTypeOK
    <3>2. log' \in SUBSET LogObjects /\ nver' \in Nat
      BY <1>5, <3>1 DEF TypeInv, TypeOK, ClaimFailed, BucketTypeOK
    <3>3. UNCHANGED <<manifest, mver, snaps, marker, late, dels, hist>> /\ StoreError
      BY <1>5 DEF ClaimFailed
    <3>4. faults' \in [crash : Nat, store : Nat, cas : Nat]
      BY <3>3, StoreErrorType DEF TypeInv, TypeOK
    <3> QED
      BY <3>2, <3>3, <3>4 DEF TypeInv, TypeOK, BucketTypeOK
  <2>2. LocalTypeOK'
    BY <1>5, SameLocalType DEF TypeInv, TypeOK, ClaimFailed
  <2>3. PublisherInv' /\ ClientTypeOK'
    BY <1>5, FinishErrorsType DEF TypeInv, TypeOK, ClaimFailed, PublisherInv
  <2> QED
    BY <2>1, <2>2, <2>3 DEF TypeInv, TypeOK, PublisherInv
<1>6. CASE ProbeManifest(i)
  <2>1. BucketTypeOK'
    BY <1>6, SameBucketType DEF TypeInv, TypeOK, ProbeManifest
  <2>2. LocalTypeOK'
    BY <1>6, SameLocalType DEF TypeInv, TypeOK, ProbeManifest
  <2>3. PublisherInv'
    <3>1. CASE Contended(i)
      BY <3>1, ContendedType DEF TypeInv, TypeOK, PublisherInv
    <3>2. CASE /\ pc' = [pc EXCEPT ![i] = "probehead"]
               /\ UNCHANGED <<batch, valid, view, slot, burned, probes, attempts, done>>
      BY <1>6, <3>2 DEF TypeInv, TypeOK, ProbeManifest, PublisherTypeOK, PublisherInv, Steps,
         Publishing
    <3> QED
      BY <1>6, <3>1, <3>2 DEF ProbeManifest
  <2>4. ClientTypeOK'
    <3>1. CASE Contended(i)
      BY <3>1, ContendedType DEF TypeInv, TypeOK, PublisherInv
    <3>2. CASE UNCHANGED clientVars
      BY <3>2, SameClientType DEF TypeInv, TypeOK
    <3> QED
      BY <1>6, <3>1, <3>2 DEF ProbeManifest
  <2> QED
    BY <2>1, <2>2, <2>3, <2>4 DEF TypeInv, TypeOK, PublisherInv
<1>7. CASE ProbeHead(i)
  <2>1. BucketTypeOK'
    BY <1>7, SameBucketType DEF TypeInv, TypeOK, ProbeHead
  <2>2. LocalTypeOK'
    BY <1>7, SameLocalType DEF TypeInv, TypeOK, ProbeHead
  <2>3. PublisherInv'
    <3>0. pc[i] = "probehead" /\ 0 \in 0..GraceProbes
      BY <1>7, NoProbes DEF ProbeHead
    <3>1. CASE FinishErrors(i)
      BY <3>1, FinishErrorsType DEF TypeInv, TypeOK, PublisherInv
    <3>2. CASE /\ pc' = [pc EXCEPT ![i] = "claim"] /\ probes' = [probes EXCEPT ![i] = 0]
               /\ UNCHANGED <<batch, valid, view, slot, burned, attempts, done>>
      BY <3>0, <3>2 DEF TypeInv, TypeOK, PublisherTypeOK, PublisherInv, Steps, Publishing
    <3>3. CASE /\ probes[i] + 1 < GraceProbes
               /\ pc' = [pc EXCEPT ![i] = "probe"]
               /\ probes' = [probes EXCEPT ![i] = @ + 1]
               /\ UNCHANGED <<batch, valid, view, slot, burned, attempts, done>>
      <4>1. probes[i] + 1 \in 0..GraceProbes
        BY <3>3, ProtocolAssumption, SMTT(30), Z3T(30) DEF TypeInv, TypeOK, PublisherTypeOK
      <4>2. probes' \in [Instances -> 0..GraceProbes]
        BY <3>3, <4>1 DEF TypeInv, TypeOK, PublisherTypeOK
      <4> QED
        BY <3>0, <3>3, <4>2 DEF TypeInv, TypeOK, PublisherTypeOK, PublisherInv, Steps,
           Publishing
    <3>4. CASE \E o \in ObjectAt(slot[i].seq) :
                 /\ burned' = [burned EXCEPT ![i] = @ \cup {[seq |-> o.seq, ver |-> o.ver]}]
                 /\ slot' = [slot EXCEPT ![i] = [seq |-> o.seq + 1, ver |-> 0]]
                 /\ probes' = [probes EXCEPT ![i] = 0]
                 /\ pc' = [pc EXCEPT ![i] = "claim"]
                 /\ UNCHANGED <<batch, valid, view, attempts, done>>
      <4>1. PICK o \in ObjectAt(slot[i].seq) :
                 /\ burned' = [burned EXCEPT ![i] = @ \cup {[seq |-> o.seq, ver |-> o.ver]}]
                 /\ slot' = [slot EXCEPT ![i] = [seq |-> o.seq + 1, ver |-> 0]]
                 /\ probes' = [probes EXCEPT ![i] = 0]
                 /\ pc' = [pc EXCEPT ![i] = "claim"]
                 /\ UNCHANGED <<batch, valid, view, attempts, done>>
        BY <3>4
      <4>2. [seq |-> o.seq, ver |-> o.ver] \in Slots
        BY DEF TypeInv, TypeOK, ObjectAt, BucketTypeOK, LogObjects, Slots
      <4>3. burned' \in [Instances -> SUBSET Slots]
        BY <4>1, <4>2 DEF TypeInv, TypeOK, PublisherTypeOK
      <4>4. slot' \in [Instances -> Slots]
        <5>1. o.seq + 1 \in Nat
          BY Successor DEF TypeInv, TypeOK, ObjectAt, BucketTypeOK, LogObjects
        <5> QED
          BY <4>1, <5>1 DEF TypeInv, TypeOK, PublisherTypeOK, Slots
      <4> QED
        BY <3>0, <4>1, <4>3, <4>4 DEF TypeInv, TypeOK, PublisherTypeOK, PublisherInv, Steps,
           Publishing
    <3> QED
      BY <1>7, <3>1, <3>2, <3>3, <3>4 DEF ProbeHead
  <2>4. ClientTypeOK'
    <3>1. CASE FinishErrors(i)
      BY <3>1, FinishErrorsType DEF TypeInv, TypeOK, PublisherInv
    <3>2. CASE UNCHANGED clientVars
      BY <3>2, SameClientType DEF TypeInv, TypeOK
    <3> QED
      BY <1>7, <3>1, <3>2 DEF ProbeHead
  <2> QED
    BY <2>1, <2>2, <2>3, <2>4 DEF TypeInv, TypeOK, PublisherInv
<1>8. CASE ProbeFailed(i)
  <2>1. BucketTypeOK'
    BY <1>8, SameBucketType DEF TypeInv, TypeOK, ProbeFailed
  <2>2. LocalTypeOK'
    BY <1>8, SameLocalType DEF TypeInv, TypeOK, ProbeFailed
  <2>3. PublisherInv' /\ ClientTypeOK'
    BY <1>8, FinishErrorsType DEF TypeInv, TypeOK, ProbeFailed, PublisherInv
  <2> QED
    BY <2>1, <2>2, <2>3 DEF TypeInv, TypeOK, PublisherInv
<1>9. CASE CommitManifest(i)
  <2>1. BucketTypeOK'
    <3>1. valid[i] # <<>> /\ slot[i].seq \in Nat /\ valid[i] \in Batches
      BY <1>9 DEF TypeInv, TypeOK, CommitManifest, Publishing, PublisherTypeOK, Slots
    <3>2. UpdatedManifest(i) \in Manifests
      BY <3>1, UpdatedManifestType DEF TypeInv, TypeOK
    <3>3. EntriesAt(slot[i].seq, valid[i]) \in SUBSET Entries
      BY <3>1, EntriesAtFacts
    <3>4. /\ manifest' = UpdatedManifest(i) /\ mver' = mver + 1
          /\ hist' = hist \cup EntriesAt(slot[i].seq, valid[i])
          /\ UNCHANGED <<log, snaps, marker, late, dels, nver, faults>>
      BY <1>9 DEF CommitManifest, PutManifest
    <3> QED
      BY <3>2, <3>3, <3>4, SMTT(30), Z3T(30) DEF TypeInv, TypeOK, BucketTypeOK
  <2>2. LocalTypeOK'
    BY <1>9, SameLocalType DEF TypeInv, TypeOK, CommitManifest
  <2>3. PublisherInv'
    <3>1. valid[i] # <<>>
      BY <1>9 DEF TypeInv, TypeOK, CommitManifest, Publishing
    <3>2. [m |-> UpdatedManifest(i), ver |-> mver + 1] \in [m : Manifests, ver : Nat]
      BY <3>1, UpdatedManifestType, SMTT(30), Z3T(30) DEF TypeInv, TypeOK, BucketTypeOK
    <3> QED
      BY <1>9, <3>1, <3>2 DEF TypeInv, TypeOK, CommitManifest, PublisherTypeOK, PublisherInv,
         Steps
  <2>4. ClientTypeOK'
    BY <1>9, SameClientType DEF TypeInv, TypeOK, CommitManifest
  <2> QED
    BY <2>1, <2>2, <2>3, <2>4 DEF TypeInv, TypeOK, PublisherInv
<1>10. CASE CommitRefused(i)
  <2>1. BucketTypeOK'
    BY <1>10, SameBucketType DEF TypeInv, TypeOK, CommitRefused
  <2>2. LocalTypeOK'
    BY <1>10, SameLocalType DEF TypeInv, TypeOK, CommitRefused
  <2>3. PublisherInv'
    BY <1>10 DEF TypeInv, TypeOK, CommitRefused, pubVars, PublisherTypeOK, PublisherInv,
       Steps, Publishing
  <2>4. ClientTypeOK'
    BY <1>10, SameClientType DEF TypeInv, TypeOK, CommitRefused
  <2> QED
    BY <2>1, <2>2, <2>3, <2>4 DEF TypeInv, TypeOK, PublisherInv
<1>11. CASE CommitLost(i)
  <2>1. BucketTypeOK'
    <3>1. valid[i] # <<>>
      BY <1>11 DEF TypeInv, TypeOK, CommitLost, Publishing
    <3>2. ManifestWrite(i) \in [base : Nat, m : Manifests, slot : Slots, reqs : Batches]
      BY <3>1, ManifestWriteType DEF TypeInv, TypeOK
    <3>3. faults' = [faults EXCEPT !.cas = @ + 1] /\ late' = late \cup {ManifestWrite(i)}
      BY <1>11 DEF CommitLost
    <3>4. faults' \in [crash : Nat, store : Nat, cas : Nat]
      BY <3>3, FaultType DEF TypeInv, TypeOK
    <3>5. late' \subseteq [base : Nat, m : Manifests, slot : Slots, reqs : Batches]
      BY <3>2, <3>3 DEF TypeInv, TypeOK, BucketTypeOK
    <3>6. UNCHANGED <<manifest, mver, log, snaps, marker, dels, nver, hist>>
      BY <1>11 DEF CommitLost
    <3> QED
      BY <3>4, <3>5, <3>6 DEF TypeInv, TypeOK, BucketTypeOK
  <2>2. LocalTypeOK'
    BY <1>11, SameLocalType DEF TypeInv, TypeOK, CommitLost
  <2>3. PublisherInv'
    BY <1>11 DEF TypeInv, TypeOK, CommitLost, pubVars, PublisherTypeOK, PublisherInv, Steps,
       Publishing
  <2>4. ClientTypeOK'
    BY <1>11, SameClientType DEF TypeInv, TypeOK, CommitLost
  <2> QED
    BY <2>1, <2>2, <2>3, <2>4 DEF TypeInv, TypeOK, PublisherInv
<1>12. CASE CasLanded(i)
  <2>1. BucketTypeOK'
    BY <1>12, SameBucketType DEF TypeInv, TypeOK, CasLanded
  <2>2. LocalTypeOK'
    BY <1>12, SameLocalType DEF TypeInv, TypeOK, CasLanded
  <2>3. PublisherInv'
    <3>1. CASE FinishErrors(i)
      BY <3>1, FinishErrorsType DEF TypeInv, TypeOK, PublisherInv
    <3>2. CASE /\ done' = [done EXCEPT ![i] = [m |-> manifest, ver |-> 0]]
               /\ pc' = [pc EXCEPT ![i] = "mark"]
               /\ UNCHANGED <<batch, valid, view, slot, burned, probes, attempts>>
      BY <1>12, <3>2 DEF TypeInv, TypeOK, CasLanded, PublisherTypeOK, PublisherInv, Steps,
         Publishing, BucketTypeOK
    <3> QED
      BY <1>12, <3>1, <3>2 DEF CasLanded
  <2>4. ClientTypeOK'
    <3>1. CASE FinishErrors(i)
      BY <3>1, FinishErrorsType DEF TypeInv, TypeOK, PublisherInv
    <3>2. CASE UNCHANGED clientVars
      BY <3>2, SameClientType DEF TypeInv, TypeOK
    <3> QED
      BY <1>12, <3>1, <3>2 DEF CasLanded
  <2> QED
    BY <2>1, <2>2, <2>3, <2>4 DEF TypeInv, TypeOK, PublisherInv
<1>13. CASE MarkPending(i)
  <2>1. BucketTypeOK'
    <3>1. marker' \in BOOLEAN
      BY <1>13 DEF TypeInv, TypeOK, MarkPending, BucketTypeOK
    <3>2. faults' \in [crash : Nat, store : Nat, cas : Nat]
      BY <1>13, SMTT(30), Z3T(30) DEF TypeInv, TypeOK, MarkPending, StoreError, BucketTypeOK
    <3>3. UNCHANGED <<manifest, mver, log, snaps, late, dels, nver, hist>>
      BY <1>13 DEF MarkPending
    <3> QED
      BY <3>1, <3>2, <3>3 DEF TypeInv, TypeOK, BucketTypeOK
  <2>2. LocalTypeOK'
    BY <1>13, SameLocalType DEF TypeInv, TypeOK, MarkPending
  <2>3. PublisherInv'
    BY <1>13 DEF TypeInv, TypeOK, MarkPending, pubVars, PublisherTypeOK, PublisherInv, Steps,
       Publishing
  <2>4. ClientTypeOK'
    BY <1>13, SameClientType DEF TypeInv, TypeOK, MarkPending
  <2> QED
    BY <2>1, <2>2, <2>3, <2>4 DEF TypeInv, TypeOK, PublisherInv
<1>14. CASE RecoverManifestVersion(i)
  <2>1. BucketTypeOK'
    BY <1>14, SameBucketType DEF TypeInv, TypeOK, RecoverManifestVersion
  <2>2. LocalTypeOK'
    BY <1>14, SameLocalType DEF TypeInv, TypeOK, RecoverManifestVersion
  <2>3. PublisherInv'
    <3>1. done' \in [Instances -> [m : Manifests, ver : Nat]]
      <4>1. /\ done \in [Instances -> [m : Manifests, ver : Nat]]
            /\ [m |-> done[i].m, ver |-> mver] \in [m : Manifests, ver : Nat]
        BY DEF TypeInv, TypeOK, PublisherTypeOK, BucketTypeOK
      <4>2. \/ done' = done
            \/ done' = [done EXCEPT ![i] = [m |-> done[i].m, ver |-> mver]]
        BY <1>14 DEF RecoverManifestVersion
      <4> QED
        BY <4>1, <4>2
    <3>2. /\ pc[i] = "recover" /\ pc' = [pc EXCEPT ![i] = "local"]
          /\ UNCHANGED <<batch, valid, view, slot, burned, probes, attempts>>
      BY <1>14 DEF RecoverManifestVersion
    <3> QED
      BY <3>1, <3>2 DEF TypeInv, TypeOK, PublisherTypeOK, PublisherInv, Steps, Publishing
  <2>4. ClientTypeOK'
    BY <1>14, SameClientType DEF TypeInv, TypeOK, RecoverManifestVersion
  <2> QED
    BY <2>1, <2>2, <2>3, <2>4 DEF TypeInv, TypeOK, PublisherInv
<1>15. CASE CommitLocal(i)
  <2>1. BucketTypeOK'
    BY <1>15, SameBucketType DEF TypeInv, TypeOK, CommitLocal, InstallCommit, ForgetVersion
  <2>2. LocalTypeOK'
    <3>1. valid[i] # <<>> /\ valid[i] \in Batches
      BY <1>15 DEF TypeInv, TypeOK, CommitLocal, Publishing, PublisherTypeOK
    <3>2. LastSeq(i) \in Nat
      BY <3>1, UpdatedManifestType DEF TypeInv, TypeOK
    <3>3. done[i].m \in Manifests /\ done[i].ver \in Nat
      BY DEF TypeInv, TypeOK, PublisherTypeOK
    <3>4. ApplyEntries(refs[i], EntriesAt(slot[i].seq, valid[i])) \in RefMaps
      BY <3>1, OwnEntriesType DEF TypeInv, TypeOK
    <3>5. \A n \in 0..Len(valid[i]) :
            ApplyEntries(refs[i], EntriesAt(slot[i].seq, SubSeq(valid[i], 1, n))) \in RefMaps
      BY <3>1, OwnEntriesType, PrefixIsBatch DEF TypeInv, TypeOK
    <3>6. UNCHANGED <<open, sync>>
      BY <1>15 DEF CommitLocal
    <3>7. CASE InstallCommit(i)
      BY <3>2, <3>3, <3>4, <3>6, <3>7 DEF TypeInv, TypeOK, InstallCommit, LocalTypeOK
    <3>8. CASE ForgetVersion(i)
      <4>1. refs' \in [Instances -> RefMaps]
        BY <3>4, <3>5, <3>8 DEF TypeInv, TypeOK, ForgetVersion, LocalTypeOK
      <4> QED
        BY <3>6, <3>8, <4>1 DEF TypeInv, TypeOK, ForgetVersion, LocalTypeOK
    <3> QED
      BY <1>15, <3>7, <3>8 DEF CommitLocal
  <2>3. PublisherInv'
    BY <1>15 DEF TypeInv, TypeOK, CommitLocal, pubVars, PublisherTypeOK, PublisherInv, Steps,
       Publishing
  <2>4. ClientTypeOK'
    BY <1>15, SameClientType DEF TypeInv, TypeOK, CommitLocal
  <2> QED
    BY <2>1, <2>2, <2>3, <2>4 DEF TypeInv, TypeOK, PublisherInv
<1>16. CASE SweepBurned(i)
  <2>1. BucketTypeOK'
    <3>1. \A b \in burned[i] : b \in Slots
      BY DEF TypeInv, TypeOK, PublisherTypeOK
    <3>2. dels' \in SUBSET [seq : Nat, ver : Nat, by : Instances, held : BOOLEAN, left : Nat]
      BY <1>16, <3>1, CasDeleteType DEF TypeInv, TypeOK, SweepBurned, BucketTypeOK
    <3>3. faults' \in [crash : Nat, store : Nat, cas : Nat]
      BY <1>16, SMTT(30), Z3T(30) DEF TypeInv, TypeOK, SweepBurned, StoreError, BucketTypeOK
    <3>4. UNCHANGED <<manifest, mver, log, snaps, marker, late, nver, hist>>
      BY <1>16 DEF SweepBurned
    <3> QED
      BY <3>2, <3>3, <3>4 DEF TypeInv, TypeOK, BucketTypeOK
  <2>2. LocalTypeOK'
    BY <1>16, SameLocalType DEF TypeInv, TypeOK, SweepBurned
  <2>3. PublisherInv'
    BY <1>16 DEF TypeInv, TypeOK, SweepBurned, pubVars, PublisherTypeOK, PublisherInv, Steps,
       Publishing
  <2>4. ClientTypeOK'
    BY <1>16, SameClientType DEF TypeInv, TypeOK, SweepBurned
  <2> QED
    BY <2>1, <2>2, <2>3, <2>4 DEF TypeInv, TypeOK, PublisherInv
<1>17. CASE Respond(i)
  <2>1. BucketTypeOK'
    BY <1>17, SameBucketType DEF TypeInv, TypeOK, Respond
  <2>2. LocalTypeOK'
    BY <1>17, SameLocalType DEF TypeInv, TypeOK, Respond
  <2>3. PublisherInv'
    BY <1>17, ResetType DEF TypeInv, TypeOK, Respond, PublisherInv
  <2>4. ClientTypeOK'
    <3>1. slot[i].seq \in Nat /\ valid[i] \in Batches
      BY DEF TypeInv, TypeOK, PublisherTypeOK, Slots
    <3>2. DOMAIN valid[i] \in SUBSET (Nat \ {0})
      BY <3>1, BatchPositions
    <3>3. ASSUME NEW r \in Requests, \E k \in DOMAIN valid[i] : valid[i][k] = r
          PROVE  slot[i].seq + (CHOOSE k \in DOMAIN valid[i] : valid[i][k] = r) - 1 \in Nat
      <4> DEFINE K == CHOOSE k \in DOMAIN valid[i] : valid[i][k] = r
      <4>1. K \in DOMAIN valid[i]
        BY <3>3
      <4>2. K \in Nat \ {0}
        BY <3>2, <4>1
      <4> HIDE DEF K
      <4>3. slot[i].seq + K - 1 \in Nat
        BY <3>1, <4>2, SMTT(30), Z3T(30)
      <4> QED
        BY <4>3 DEF K
    <3>4. resp' \in [Requests -> [kind : {"none", "ok", "rejected", "error"}, seq : Nat]]
      BY <1>17, <3>3 DEF TypeInv, TypeOK, Respond, Answers, ClientTypeOK
    <3>5. UNCHANGED <<queue, reader, since>>
      BY <1>17 DEF Respond
    <3> QED
      BY <3>4, <3>5 DEF TypeInv, TypeOK, ClientTypeOK
  <2> QED
    BY <2>1, <2>2, <2>3, <2>4 DEF TypeInv, TypeOK, PublisherInv
<1>18. CASE DropOwnSlot(i)
  <2>1. BucketTypeOK'
    <3>1. slot[i] \in Slots
      BY DEF TypeInv, TypeOK, PublisherTypeOK
    <3>2. dels' \in SUBSET [seq : Nat, ver : Nat, by : Instances, held : BOOLEAN, left : Nat]
      BY <1>18, <3>1, CasDeleteType DEF TypeInv, TypeOK, DropOwnSlot, BucketTypeOK
    <3>3. faults' \in [crash : Nat, store : Nat, cas : Nat]
      BY <1>18, SMTT(30), Z3T(30) DEF TypeInv, TypeOK, DropOwnSlot, StoreError, BucketTypeOK
    <3>4. UNCHANGED <<manifest, mver, log, snaps, marker, late, nver, hist>>
      BY <1>18 DEF DropOwnSlot
    <3> QED
      BY <3>2, <3>3, <3>4 DEF TypeInv, TypeOK, BucketTypeOK
  <2>2. LocalTypeOK'
    BY <1>18, SameLocalType DEF TypeInv, TypeOK, DropOwnSlot
  <2>3. PublisherInv'
    BY <1>18 DEF TypeInv, TypeOK, DropOwnSlot, pubVars, PublisherTypeOK, PublisherInv, Steps,
       Publishing
  <2>4. ClientTypeOK'
    BY <1>18, SameClientType DEF TypeInv, TypeOK, DropOwnSlot
  <2> QED
    BY <2>1, <2>2, <2>3, <2>4 DEF TypeInv, TypeOK, PublisherInv
<1>19. CASE RetryAfterDrop(i)
  <2>1. BucketTypeOK'
    BY <1>19, SameBucketType DEF TypeInv, TypeOK, RetryAfterDrop
  <2>2. LocalTypeOK'
    BY <1>19, SameLocalType DEF TypeInv, TypeOK, RetryAfterDrop
  <2>3. PublisherInv' /\ ClientTypeOK'
    BY <1>19, ContendedType DEF TypeInv, TypeOK, RetryAfterDrop, PublisherInv
  <2> QED
    BY <2>1, <2>2, <2>3 DEF TypeInv, TypeOK, PublisherInv
<1>20. CASE AbandonDelete(i)
  <2>1. BucketTypeOK'
    <3>1. StoreError /\ dels' = Unheld(i) /\ UNCHANGED <<manifest, mver, log, snaps, marker, late, nver, hist>>
      BY <1>20 DEF AbandonDelete
    <3>2. faults' \in [crash : Nat, store : Nat, cas : Nat]
      BY <3>1, StoreErrorType DEF TypeInv, TypeOK
    <3>3. dels' \in SUBSET [seq : Nat, ver : Nat, by : Instances, held : BOOLEAN, left : Nat]
      BY <3>1, UnheldType DEF TypeInv, TypeOK
    <3> QED
      BY <3>1, <3>2, <3>3 DEF TypeInv, TypeOK, BucketTypeOK
  <2>2. LocalTypeOK'
    BY <1>20, SameLocalType DEF TypeInv, TypeOK, AbandonDelete
  <2>3. PublisherInv'
    BY <1>20 DEF TypeInv, TypeOK, AbandonDelete, pubVars, PublisherTypeOK, PublisherInv,
       Steps, Publishing
  <2>4. ClientTypeOK'
    BY <1>20, SameClientType DEF TypeInv, TypeOK, AbandonDelete
  <2> QED
    BY <2>1, <2>2, <2>3, <2>4 DEF TypeInv, TypeOK, PublisherInv
<1> QED
  BY <1>1, <1>2, <1>3, <1>4, <1>5, <1>6, <1>7, <1>8, <1>9, <1>10, <1>11, <1>12, <1>13, <1>14,
     <1>15, <1>16, <1>17, <1>18, <1>19, <1>20 DEF PublisherStep

\* A crash preserves the types.
LEMMA CrashTypes ==
  ASSUME TypeInv, NEW i \in Instances, Crash(i)
  PROVE  TypeInv'
<1>1. BucketTypeOK'
  <2>1. late' \in SUBSET [base : Nat, m : Manifests, slot : Slots, reqs : Batches]
    <3>1. CASE UNCHANGED late
      BY <3>1 DEF TypeInv, TypeOK, BucketTypeOK
    <3>2. CASE pc[i] = "cas" /\ late' = late \cup {ManifestWrite(i)}
      <4>1. valid[i] # <<>>
        BY <3>2 DEF TypeInv, TypeOK, Publishing
      <4> QED
        BY <3>2, <4>1, ManifestWriteType DEF TypeInv, TypeOK, BucketTypeOK
    <3> QED
      BY <3>1, <3>2 DEF Crash
  <2>2. dels' \in SUBSET [seq : Nat, ver : Nat, by : Instances, held : BOOLEAN, left : Nat]
    BY UnheldType DEF TypeInv, TypeOK, Crash
  <2>3. faults' \in [crash : Nat, store : Nat, cas : Nat]
    BY SMTT(30), Z3T(30) DEF TypeInv, TypeOK, Crash, BucketTypeOK
  <2>4. UNCHANGED <<manifest, mver, log, snaps, marker, nver, hist>>
    BY DEF Crash
  <2> QED
    BY <2>1, <2>2, <2>3, <2>4 DEF TypeInv, TypeOK, BucketTypeOK
<1>2. LocalTypeOK'
  <2>1. /\ open' = [open EXCEPT ![i] = FALSE] /\ hm' = [hm EXCEPT ![i] = NewManifest]
        /\ hv' = [hv EXCEPT ![i] = 0] /\ sync' = [sync EXCEPT ![i] = NoSync]
    BY DEF Crash
  <2>2. /\ refs' \in [Instances -> RefMaps] /\ applied' \in [Instances -> Nat]
        /\ saved' \in [Instances -> Nat]
    <3>1. CASE applied' = [applied EXCEPT ![i] = saved[i]] /\ UNCHANGED <<refs, saved>>
      BY <3>1 DEF TypeInv, TypeOK, LocalTypeOK
    <3>2. CASE /\ refs' = [refs EXCEPT ![i] = NoRefs]
               /\ saved' = [saved EXCEPT ![i] = 0]
               /\ applied' = [applied EXCEPT ![i] = 0]
      BY <3>2, InitialTypes DEF TypeInv, TypeOK, LocalTypeOK
    <3> QED
      BY <3>1, <3>2 DEF Crash
  <2> QED
    BY <2>1, <2>2, InitialTypes DEF TypeInv, TypeOK, LocalTypeOK
<1>3. PublisherInv'
  BY ResetType DEF TypeInv, TypeOK, Crash, PublisherInv
<1>4. ClientTypeOK'
  <2>1. resp' \in [Requests -> [kind : {"none", "ok", "rejected", "error"}, seq : Nat]]
    BY DEF TypeInv, TypeOK, Crash, AnswerAll, ClientTypeOK
  <2>2. queue' \in [Instances -> Seq([req : Requests, synced : BOOLEAN])]
    BY EmptySeq DEF TypeInv, TypeOK, Crash, ClientTypeOK
  <2> QED
    BY <2>1, <2>2, InitialTypes DEF TypeInv, TypeOK, Crash, ClientTypeOK
<1> QED
  BY <1>1, <1>2, <1>3, <1>4 DEF TypeInv, TypeOK, PublisherInv

\* Late writes and DELETEs preserve the types.
LEMMA LandTypes ==
  ASSUME TypeInv, LandDelete \/ LandManifest
  PROVE  TypeInv'
<1>1. LocalTypeOK' /\ PublisherInv' /\ ClientTypeOK'
  BY DEF TypeInv, TypeOK, LandDelete, LandManifest, localVars, pubVars, clientVars,
     LocalTypeOK, PublisherTypeOK, PublisherInv, ClientTypeOK
<1>2. CASE LandDelete
  <2>1. PICK d \in dels :
          /\ log' = log \ ObjectAt(d.seq)
          /\ \/ dels' = dels \ {d}
             \/ d.left > 0 /\ dels' = (dels \ {d}) \cup {[d EXCEPT !.left = @ - 1]}
    BY <1>2 DEF LandDelete
  <2>2. d.left > 0 => [d EXCEPT !.left = @ - 1]
                        \in [seq : Nat, ver : Nat, by : Instances, held : BOOLEAN, left : Nat]
    BY SMTT(30), Z3T(30) DEF TypeInv, TypeOK, BucketTypeOK
  <2>3. dels' \in SUBSET [seq : Nat, ver : Nat, by : Instances, held : BOOLEAN, left : Nat]
    BY <2>1, <2>2 DEF TypeInv, TypeOK, BucketTypeOK
  <2>4. UNCHANGED <<manifest, mver, snaps, marker, late, nver, hist, faults>>
    BY <1>2 DEF LandDelete
  <2>5. BucketTypeOK'
    BY <2>1, <2>3, <2>4 DEF TypeInv, TypeOK, BucketTypeOK
  <2> QED
    BY <1>1, <2>5 DEF TypeInv, TypeOK, PublisherInv
<1>3. CASE LandManifest
  <2>1. PICK w \in late :
          /\ late' = late \ {w}
          /\ IF w.base = mver
             THEN /\ PutManifest(w.m)
                  /\ hist' = hist \cup EntriesAt(w.slot.seq, w.reqs)
             ELSE UNCHANGED <<manifest, mver, hist>>
    BY <1>3 DEF LandManifest
  <2>2. w.m \in Manifests /\ w.slot.seq \in Nat /\ w.reqs \in Batches
    BY DEF TypeInv, TypeOK, BucketTypeOK, Slots
  <2>3. EntriesAt(w.slot.seq, w.reqs) \in SUBSET Entries
    BY <2>2, EntriesAtFacts
  <2>4. manifest' \in Manifests /\ mver' \in Nat /\ hist' \in SUBSET Entries
    BY <2>1, <2>2, <2>3, SMTT(30), Z3T(30) DEF TypeInv, TypeOK, PutManifest, BucketTypeOK
  <2>5. UNCHANGED <<log, snaps, marker, dels, nver, faults>>
    BY <1>3 DEF LandManifest
  <2>6. BucketTypeOK'
    BY <2>1, <2>4, <2>5 DEF TypeInv, TypeOK, BucketTypeOK
  <2> QED
    BY <1>1, <2>6 DEF TypeInv, TypeOK, PublisherInv
<1> QED
  BY <1>2, <1>3

\* Every step preserves the types.
LEMMA TypeNext == Replayable /\ TypeInv /\ [Next]_vars => TypeInv'
<1> SUFFICES ASSUME Replayable, TypeInv, [Next]_vars PROVE TypeInv'
  BY SMTT(30), Z3T(30)
<1>1. ASSUME NEW i \in Instances, ClientStep(i) \/ SyncStep(i) \/ PublisherStep(i) \/ Crash(i)
      PROVE  TypeInv'
  BY <1>1, ClientTypes, SyncTypes, PublisherTypes, CrashTypes
<1>2. CASE LandDelete \/ LandManifest
  BY <1>2, LandTypes
<1>3. CASE UNCHANGED vars
  BY <1>3 DEF vars, bucketVars, localVars, pubVars, clientVars, TypeInv, TypeOK, BucketTypeOK,
     LocalTypeOK, PublisherTypeOK, ClientTypeOK
<1> QED
  BY <1>1, <1>2, <1>3 DEF Next

-----------------------------------------------------------------------------
(* Types: checkpoints *)

Writers == [pc : CheckpointSteps, seq : Nat, snap : RefMaps, m : Manifests, ver : Nat,
            tries : 0..(MaxRetries - 1)]

WritersOK == ck \in [Instances -> Writers]

CheckpointInv == TypeInv /\ WritersOK /\ begun \in 0..MaxCheckpoints

\* A writer that has not begun, or has stopped, has its type.
LEMMA StoppedType == NoCheckpoint \in Writers
<1>1. 0 \in 0..(MaxRetries - 1) /\ 0 \in Nat
  BY ProtocolAssumption, SMTT(30), Z3T(30)
<1>2. "idle" \in CheckpointSteps
  BY DEF CheckpointSteps
<1> QED
  BY <1>1, <1>2, InitialTypes DEF NoCheckpoint, Writers

\* What a writer reads and records is typed.
LEMMA WriterFields ==
  ASSUME WritersOK, NEW i \in Instances
  PROVE  /\ ck[i] \in Writers /\ ck[i].pc \in CheckpointSteps /\ ck[i].seq \in Nat
         /\ ck[i].snap \in RefMaps /\ ck[i].m \in Manifests /\ ck[i].m.head \in Nat
         /\ ck[i].ver \in Nat /\ ck[i].tries \in 0..(MaxRetries - 1)
<1>1. ck[i] \in Writers
  BY DEF WritersOK
<1> QED
  BY <1>1 DEF Writers, Manifests

\* A writer that changes to a typed state leaves the others as they are.
LEMMA WriterMoves ==
  ASSUME WritersOK, NEW i \in Instances, NEW c \in Writers, ck' = [ck EXCEPT ![i] = c]
  PROVE  WritersOK'
  BY DEF WritersOK

LEMMA StopType ==
  ASSUME WritersOK, NEW i \in Instances, Stop(i)
  PROVE  WritersOK'
  BY StoppedType DEF WritersOK, Stop

LEMMA GotoType ==
  ASSUME WritersOK, NEW i \in Instances, NEW step \in CheckpointSteps, Goto(i, step)
  PROVE  WritersOK'
<1>1. [ck[i] EXCEPT !.pc = step] \in Writers
  BY WriterFields DEF Writers
<1>2. ck' = [ck EXCEPT ![i] = [ck[i] EXCEPT !.pc = step]]
  BY DEF Goto
<1> QED
  BY <1>1, <1>2, WriterMoves

\* The manifest of a checkpoint is a manifest.
LEMMA CheckpointManifestType ==
  ASSUME WritersOK, NEW i \in Instances
  PROVE  CheckpointManifest(i) \in Manifests
<1>1. ck[i].m \in Manifests /\ ck[i].seq \in Nat
  BY WriterFields
<1>2. ck[i].seq + 1 \in Nat /\ ck[i].m.rev + 1 \in Nat
  BY <1>1, SMTT(30), Z3T(30) DEF Manifests
<1>3. {g \in ck[i].m.segs : g.last > ck[i].seq} \in SUBSET Segments
  BY <1>1 DEF Manifests
<1> QED
  BY <1>1, <1>2, <1>3 DEF CheckpointManifest, Manifests

\* A step of a writer that leaves what the publish protocol works on alone.
LEMMA QuietWriter ==
  ASSUME CheckpointInv, UNCHANGED vars, WritersOK', UNCHANGED begun
  PROVE  CheckpointInv'
<1>1. TypeInv'
  BY DEF CheckpointInv, vars, bucketVars, localVars, pubVars, clientVars, TypeInv, TypeOK,
     BucketTypeOK, LocalTypeOK, PublisherTypeOK, ClientTypeOK
<1> QED
  BY <1>1 DEF CheckpointInv

\* The steps of the publish protocol keep the types whatever checkpoints are under way.
LEMMA BesideWriter ==
  ASSUME Replayable, CheckpointInv, WritersOK', UNCHANGED begun,
         \/ \E i \in Instances : ClientStep(i) \/ SyncStep(i) \/ PublisherStep(i) \/ Crash(i)
         \/ LandDelete \/ LandManifest
  PROVE  CheckpointInv'
<1>1. TypeInv'
  BY ClientTypes, SyncTypes, PublisherTypes, CrashTypes, LandTypes DEF CheckpointInv
<1> QED
  BY <1>1 DEF CheckpointInv

\* A writer that changes the bucket or its handle, in that and no more.
LEMMA ActiveWriter ==
  ASSUME CheckpointInv, BucketTypeOK', LocalTypeOK', UNCHANGED <<pubVars, clientVars>>,
         WritersOK', UNCHANGED begun
  PROVE  CheckpointInv'
<1>1. ClientTypeOK'
  BY SameClientType DEF CheckpointInv, TypeInv, TypeOK
<1>2. PublisherTypeOK' /\ \A i \in Instances : pc'[i] \in Publishing => valid'[i] # <<>>
  BY DEF CheckpointInv, TypeInv, TypeOK, PublisherTypeOK, pubVars
<1> QED
  BY <1>1, <1>2 DEF CheckpointInv, TypeInv, TypeOK

\* The steps that read what the instance holds.
LEMMA ReadingTypes ==
  ASSUME CheckpointInv, NEW i \in Instances,
         ChooseSeq(i) \/ ReadRefs(i) \/ LoadManifest(i) \/ LoadVersion(i)
  PROVE  CheckpointInv'
<1>1. WritersOK /\ ck[i] \in Writers
  BY WriterFields DEF CheckpointInv
<1>2. /\ hm[i] \in Manifests /\ hm[i].head \in Nat /\ hv[i] \in Nat /\ refs[i] \in RefMaps
  BY DEF CheckpointInv, TypeInv, TypeOK, LocalTypeOK, Manifests
<1>3. {"refs", "put", "version", "write"} \subseteq CheckpointSteps
  BY DEF CheckpointSteps
<1>4. /\ [ck[i] EXCEPT !.seq = hm[i].head, !.pc = "refs"] \in Writers
      /\ [ck[i] EXCEPT !.snap = refs[i], !.pc = "put"] \in Writers
      /\ [ck[i] EXCEPT !.m = hm[i], !.pc = "version"] \in Writers
      /\ [ck[i] EXCEPT !.ver = hv[i], !.pc = "write"] \in Writers
  BY <1>1, <1>2, <1>3 DEF Writers
<1>5. \/ Stop(i)
      \/ ck' = [ck EXCEPT ![i].seq = hm[i].head, ![i].pc = "refs"]
      \/ ck' = [ck EXCEPT ![i].snap = refs[i], ![i].pc = "put"]
      \/ ck' = [ck EXCEPT ![i].m = hm[i], ![i].pc = "version"]
      \/ ck' = [ck EXCEPT ![i].ver = hv[i], ![i].pc = "write"]
  BY DEF ChooseSeq, ReadRefs, LoadManifest, LoadVersion
<1>6. WritersOK'
  <2>1. CASE ck' = [ck EXCEPT ![i].seq = hm[i].head, ![i].pc = "refs"]
    BY <1>1, <1>4, <2>1, SMTT(30), Z3T(30) DEF WritersOK
  <2>2. CASE ck' = [ck EXCEPT ![i].snap = refs[i], ![i].pc = "put"]
    BY <1>1, <1>4, <2>2, SMTT(30), Z3T(30) DEF WritersOK
  <2>3. CASE ck' = [ck EXCEPT ![i].m = hm[i], ![i].pc = "version"]
    BY <1>1, <1>4, <2>3, SMTT(30), Z3T(30) DEF WritersOK
  <2>4. CASE ck' = [ck EXCEPT ![i].ver = hv[i], ![i].pc = "write"]
    BY <1>1, <1>4, <2>4, SMTT(30), Z3T(30) DEF WritersOK
  <2> QED
    BY <1>1, <1>5, <2>1, <2>2, <2>3, <2>4, StopType
<1>7. UNCHANGED vars /\ UNCHANGED begun
  BY DEF ChooseSeq, ReadRefs, LoadManifest, LoadVersion
<1> QED
  BY <1>6, <1>7, QuietWriter

\* The syncs of a writer.
LEMMA WriterSyncTypes ==
  ASSUME Replayable, CheckpointInv, NEW i \in Instances,
         CheckpointSync(i) \/ CheckpointSyncDone(i) \/ CheckpointSyncFailed(i)
  PROVE  CheckpointInv'
<1>1. WritersOK /\ AfterSync(i) \in CheckpointSteps
  BY DEF CheckpointInv, AfterSync, CheckpointSteps
<1>2. CASE CheckpointSync(i)
  <2>1. WritersOK'
    BY <1>1, <1>2, GotoType DEF CheckpointSync, WritersOK
  <2>2. BucketTypeOK'
    BY <1>2, SameBucketType DEF CheckpointSync, CheckpointInv, TypeInv, TypeOK
  <2>3. LocalTypeOK'
    <3>1. /\ LocalTypeOK /\ UNCHANGED <<open, hm, hv, refs, applied, saved>>
          /\ UNCHANGED sync \/ sync' = [sync EXCEPT ![i] = Fetched("checkpoint")]
      BY <1>2 DEF CheckpointSync, CheckpointInv, TypeInv, TypeOK
    <3>2. Fetched("checkpoint") \in [by : {"none", "reader", "publisher", "open", "checkpoint"},
                                     m : Manifests, ver : Nat]
      BY DEF Fetched, CheckpointInv, TypeInv, TypeOK, BucketTypeOK
    <3>3. sync' \in [Instances -> [by : {"none", "reader", "publisher", "open", "checkpoint"},
                                    m : Manifests, ver : Nat]]
      BY <3>1, <3>2, SMTT(30), Z3T(30) DEF LocalTypeOK
    <3> QED
      BY <3>1, <3>3 DEF LocalTypeOK
  <2> QED
    BY <1>2, <2>1, <2>2, <2>3, ActiveWriter DEF CheckpointSync
<1>3. CASE CheckpointSyncDone(i)
  <2>1. WritersOK'
    BY <1>1, <1>3, GotoType DEF CheckpointSyncDone
  <2> QED
    BY <1>3, <2>1, BesideWriter DEF CheckpointSyncDone, SyncStep
<1>4. CASE CheckpointSyncFailed(i)
  <2>1. WritersOK'
    BY <1>1, <1>4, StopType DEF CheckpointSyncFailed
  <2> QED
    BY <1>4, <2>1, BesideWriter DEF CheckpointSyncFailed, SyncStep
<1> QED
  BY <1>2, <1>3, <1>4

\* The steps that write to the bucket: the snapshot and the manifest.
LEMMA WritingTypes ==
  ASSUME CheckpointInv, NEW i \in Instances,
         PutSnapshot(i) \/ WriteCheckpoint(i) \/ CheckpointRefused(i) \/ CheckpointLost(i)
  PROVE  CheckpointInv'
<1>1. WritersOK /\ ck[i] \in Writers /\ ck[i].seq \in Nat /\ ck[i].snap \in RefMaps /\ ck[i].ver \in Nat
  BY WriterFields DEF CheckpointInv
<1>2. BucketTypeOK /\ CheckpointManifest(i) \in Manifests
  BY <1>1, CheckpointManifestType DEF CheckpointInv, TypeInv, TypeOK
<1>3. {"load", "install", "resync"} \subseteq CheckpointSteps
  BY DEF CheckpointSteps
<1>4. LocalTypeOK'
  BY SameLocalType DEF PutSnapshot, WriteCheckpoint, CheckpointRefused, CheckpointLost,
     CheckpointInv, TypeInv, TypeOK
<1>5. UNCHANGED <<pubVars, clientVars>> /\ UNCHANGED begun /\ UNCHANGED hist
  BY DEF PutSnapshot, WriteCheckpoint, CheckpointRefused, CheckpointLost
<1>6. CASE PutSnapshot(i)
  <2>1. WritersOK'
    BY <1>1, <1>3, <1>6, GotoType, StopType DEF PutSnapshot
  <2>2. StoredSnapshot(i) \in SUBSET [seq : Nat, refs : RefMaps]
    <3>1. snaps \in SUBSET [seq : Nat, refs : RefMaps]
      BY <1>2 DEF BucketTypeOK
    <3>2. [seq |-> ck[i].seq, refs |-> ck[i].snap] \in [seq : Nat, refs : RefMaps]
      BY <1>1
    <3> QED
      BY <3>1, <3>2 DEF StoredSnapshot
  <2>3. snaps' \in {snaps, StoredSnapshot(i)} /\ (UNCHANGED faults \/ StoreError)
    BY <1>6 DEF PutSnapshot
  <2>4. UNCHANGED <<manifest, mver, log, marker, late, dels, nver>>
    BY <1>6 DEF PutSnapshot
  <2>5. BucketTypeOK'
    BY <1>2, <1>5, <2>2, <2>3, <2>4, StoreErrorType DEF BucketTypeOK
  <2> QED
    BY <1>4, <1>5, <2>1, <2>5, ActiveWriter
<1>7. CASE WriteCheckpoint(i)
  <2>1. mver + 1 \in Nat
    BY <1>2, SMTT(30), Z3T(30) DEF BucketTypeOK
  <2>2. [ck[i] EXCEPT !.m = CheckpointManifest(i), !.ver = mver + 1, !.pc = "install"] \in Writers
    BY <1>1, <1>2, <1>3, <2>1 DEF Writers
  <2>3. WritersOK'
    BY <1>1, <1>7, <2>2, SMTT(30), Z3T(30) DEF WriteCheckpoint, WritersOK
  <2>4. BucketTypeOK'
    BY <1>2, <1>5, <1>7, <2>1 DEF WriteCheckpoint, PutManifest, BucketTypeOK
  <2> QED
    BY <1>4, <1>5, <2>3, <2>4, ActiveWriter
<1>8. CASE CheckpointRefused(i)
  <2>1. WritersOK'
    <3>1. CASE Stop(i)
      BY <1>1, <3>1, StopType
    <3>2. CASE /\ ~(ck[i].tries + 1 >= MaxRetries)
               /\ ck' = [ck EXCEPT ![i].tries = ck[i].tries + 1, ![i].pc = "resync"]
      <4>1. ck[i].tries + 1 \in 0..(MaxRetries - 1)
        BY <1>1, <3>2, WriterFields, ProtocolAssumption, SMTT(30), Z3T(30)
      <4>2. [ck[i] EXCEPT !.tries = ck[i].tries + 1, !.pc = "resync"] \in Writers
        BY <1>1, <1>3, <4>1 DEF Writers
      <4> QED
        BY <1>1, <3>2, <4>2, SMTT(30), Z3T(30) DEF WritersOK
    <3> QED
      BY <1>8, <3>1, <3>2 DEF CheckpointRefused
  <2>2. BucketTypeOK'
    BY <1>2, <1>5, <1>8, SameBucketType DEF CheckpointRefused
  <2> QED
    BY <1>4, <1>5, <2>1, <2>2, ActiveWriter
<1>9. CASE CheckpointLost(i)
  <2>1. WritersOK'
    BY <1>1, <1>9, StopType DEF CheckpointLost
  <2>2. [base |-> ck[i].ver, m |-> CheckpointManifest(i), slot |-> NoSlot, reqs |-> <<>>]
          \in [base : Nat, m : Manifests, slot : Slots, reqs : Batches]
    BY <1>1, <1>2, InitialTypes, EmptyIsBatch
  <2>3. BucketTypeOK'
    BY <1>2, <1>5, <1>9, <2>2, StoreErrorType DEF CheckpointLost, BucketTypeOK
  <2> QED
    BY <1>4, <1>5, <2>1, <2>3, ActiveWriter
<1> QED
  BY <1>6, <1>7, <1>8, <1>9

\* The steps that take the new manifest into the handle.
LEMMA AdoptingTypes ==
  ASSUME CheckpointInv, NEW i \in Instances, InstallCheckpoint(i) \/ AdoptVersion(i)
  PROVE  CheckpointInv'
<1>1. WritersOK /\ ck[i].m \in Manifests /\ ck[i].m.head \in Nat /\ ck[i].ver \in Nat
  BY WriterFields DEF CheckpointInv
<1>2. BucketTypeOK'
  BY SameBucketType DEF InstallCheckpoint, AdoptVersion, CheckpointInv, TypeInv, TypeOK
<1>3. LocalTypeOK'
  BY <1>1 DEF InstallCheckpoint, AdoptVersion, CheckpointInv, TypeInv, TypeOK, LocalTypeOK
<1>4. WritersOK'
  <2>1. "adopt" \in CheckpointSteps
    BY DEF CheckpointSteps
  <2> QED
    BY <1>1, <2>1, GotoType, StopType DEF InstallCheckpoint, AdoptVersion
<1>5. UNCHANGED <<pubVars, clientVars>> /\ UNCHANGED begun
  BY DEF InstallCheckpoint, AdoptVersion
<1> QED
  BY <1>2, <1>3, <1>4, <1>5, ActiveWriter

\* Beginning a checkpoint counts it.
LEMMA StartType ==
  ASSUME CheckpointInv, NEW i \in Instances, StartCheckpoint(i)
  PROVE  CheckpointInv'
<1>1. begun' \in 0..MaxCheckpoints
  BY CheckpointAssumption, SMTT(30), Z3T(30) DEF StartCheckpoint, CheckpointInv
<1>2. WritersOK'
  <2>1. "sync" \in CheckpointSteps
    BY DEF CheckpointSteps
  <2> QED
    BY <2>1, GotoType DEF StartCheckpoint, CheckpointInv
<1>3. TypeInv'
  BY DEF StartCheckpoint, CheckpointInv, vars, bucketVars, localVars, pubVars, clientVars,
     TypeInv, TypeOK, BucketTypeOK, LocalTypeOK, PublisherTypeOK, ClientTypeOK
<1> QED
  BY <1>1, <1>2, <1>3 DEF CheckpointInv

LEMMA CheckpointTypeInit == CheckpointInit => CheckpointInv
<1> SUFFICES ASSUME CheckpointInit PROVE CheckpointInv
  OBVIOUS
<1>1. TypeInv
  BY TypeInit DEF CheckpointInit
<1>2. WritersOK
  BY StoppedType DEF CheckpointInit, WritersOK
<1>3. begun \in 0..MaxCheckpoints
  BY CheckpointAssumption, SMTT(30), Z3T(30) DEF CheckpointInit
<1> QED
  BY <1>1, <1>2, <1>3 DEF CheckpointInv

\* Every step of the protocol with checkpoints preserves the types.
LEMMA CheckpointTypeNext ==
  Replayable /\ CheckpointInv /\ [CheckpointNext]_checkpointVars => CheckpointInv'
<1> SUFFICES ASSUME Replayable, CheckpointInv, [CheckpointNext]_checkpointVars
             PROVE  CheckpointInv'
  OBVIOUS
<1>1. UNCHANGED ckVars => WritersOK' /\ UNCHANGED begun
  BY DEF ckVars, CheckpointInv, WritersOK
<1>2. ASSUME NEW i \in Instances, CheckpointStep(i) PROVE CheckpointInv'
  BY <1>2, ReadingTypes, WriterSyncTypes, WritingTypes, AdoptingTypes, StartType
     DEF CheckpointStep
<1>3. ASSUME NEW i \in Instances, PublishStep(i) PROVE CheckpointInv'
  BY <1>1, <1>3, BesideWriter DEF PublishStep
<1>4. ASSUME NEW i \in Instances, CrashAll(i) PROVE CheckpointInv'
  <2>1. WritersOK' /\ UNCHANGED begun
    BY <1>4, StopType DEF CrashAll, CheckpointInv
  <2> QED
    BY <1>4, <2>1, BesideWriter DEF CrashAll
<1>5. CASE (LandDelete \/ LandManifest) /\ UNCHANGED ckVars
  BY <1>1, <1>5, BesideWriter
<1>6. CASE UNCHANGED checkpointVars
  BY <1>1, <1>6, QuietWriter DEF checkpointVars
<1> QED
  BY <1>2, <1>3, <1>4, <1>5, <1>6 DEF CheckpointNext

-----------------------------------------------------------------------------
(* What a local copy mirrors *)

\* A copy at a seq is, up to the refs set since, one at an earlier seq.
LEMMA MirrorsEarlier ==
  ASSUME NEW rs, NEW es \in SUBSET Entries, NEW s \in Nat, NEW t \in Nat, t <= s,
         Mirrors(rs, es, s)
  PROVE  Mirrors(rs, es, t)
<1> SUFFICES ASSUME NEW n \in Refs, ~\E e \in es : e.seq > t /\ n \in DOMAIN Txn[e.req]
             PROVE  rs[n] = ApplyEntries(NoRefs, {e \in es : e.seq <= t})[n]
  BY DEF Mirrors
<1>1. \A e \in es : e.seq \in Nat
  BY DEF Entries
<1>2. \A e \in es : /\ e.seq > s => e.seq > t
                    /\ e.seq <= t => e.seq <= s
                    /\ e.seq > t \/ e.seq <= t
  BY <1>1, SMTT(30), Z3T(30)
<1>3. rs[n] = ApplyEntries(NoRefs, {e \in es : e.seq <= s})[n]
  BY <1>2 DEF Mirrors
<1>4. \A e \in es : Names(e, n) => e.seq <= t
  BY <1>2 DEF Names
<1>5. ApplyEntries(NoRefs, {e \in es : e.seq <= s})[n] = ApplyEntries(NoRefs, {e \in es : e.seq <= t})[n]
  <2>1. {e \in {f \in es : f.seq <= s} : n \in DOMAIN Txn[e.req]}
          = {e \in {f \in es : f.seq <= t} : n \in DOMAIN Txn[e.req]}
    BY <1>2, <1>4 DEF Names
  <2> QED
    BY <2>1 DEF ApplyEntries
<1> QED
  BY <1>3, <1>5

\* Entries behind the seq of a copy leave it as it is.
LEMMA MirrorsLonger ==
  ASSUME NEW rs, NEW es \in SUBSET Entries, NEW fs \in SUBSET Entries, NEW s \in Nat,
         Mirrors(rs, es, s), \A e \in fs : e.seq > s
  PROVE  Mirrors(rs, es \cup fs, s)
<1>1. \A e \in fs : ~(e.seq <= s)
  BY SMTT(30), Z3T(30) DEF Entries
<1>2. {e \in es \cup fs : e.seq <= s} = {e \in es : e.seq <= s}
  BY <1>1
<1> QED
  BY <1>2 DEF Mirrors

\* Entries behind the seq of a copy may be applied to it in part.
LEMMA MirrorsPartly ==
  ASSUME NEW rs, NEW es \in SUBSET Entries, NEW s \in Nat, Mirrors(rs, es, s),
         NEW B \in SUBSET es, \A e \in B : e.seq > s
  PROVE  Mirrors(ApplyEntries(rs, B), es, s)
<1> SUFFICES ASSUME NEW n \in Refs, ~\E e \in es : e.seq > s /\ n \in DOMAIN Txn[e.req]
             PROVE  ApplyEntries(rs, B)[n] = ApplyEntries(NoRefs, {e \in es : e.seq <= s})[n]
  BY DEF Mirrors
<1>1. \A e \in B : ~Names(e, n)
  BY DEF Names
<1>2. ApplyEntries(rs, B)[n] = rs[n]
  BY <1>1, ApplyNone
<1> QED
  BY <1>2 DEF Mirrors

\* An empty copy is one at seq 0.
LEMMA MirrorsNone ==
  ASSUME NEW es \in SUBSET Entries, \A e \in es : e.seq > 0
  PROVE  Mirrors(NoRefs, es, 0)
<1>1. \A e \in es : ~(e.seq <= 0)
  BY SMTT(30), Z3T(30) DEF Entries
<1>2. {e \in es : e.seq <= 0} = {}
  BY <1>1
<1>3. \A n \in Refs : ApplyEntries(NoRefs, {})[n] = NoRefs[n]
  BY ApplyNone
<1> QED
  BY <1>2, <1>3 DEF Mirrors

-----------------------------------------------------------------------------
(* The local copies *)

AttemptSame(i) ==
  /\ pc'[i] = pc[i] /\ valid'[i] = valid[i] /\ view'[i] = view[i] /\ slot'[i] = slot[i]
  /\ done'[i] = done[i]

OthersSame(i) == \A j \in Instances \ {i} : LocalSame(j) /\ AttemptSame(j)

\* A copy that a step does not touch still mirrors the log.
LEMMA SameCopy ==
  ASSUME NEW i \in Instances, CopyOK(i), LocalSame(i), UNCHANGED <<manifest, hist>>,
         pc'[i] = pc[i] \/ pc'[i] = "idle" \/ open[i]
  PROVE  CopyOK(i)'
<1>1. Mirrors(refs[i], hist, applied[i])'
  BY DEF CopyOK, LocalSame
<1> QED
  BY <1>1 DEF CopyOK, LocalSame

\* A batch that a step does not touch keeps what it was verified on.
LEMMA SameBase ==
  ASSUME NEW i \in Instances, BaseOK(i), AttemptSame(i), applied'[i] = applied[i],
         UNCHANGED <<manifest, hist>>
  PROVE  BaseOK(i)'
<1>1. LastSeq(i)' = LastSeq(i)
  BY DEF LastSeq, AttemptSame
<1> QED
  BY <1>1 DEF BaseOK, AttemptSame

\* When one instance moves and the log does not, only its own copy is at stake.
LEMMA QuietCopy ==
  ASSUME CopyInv, NEW i \in Instances, OthersSame(i), UNCHANGED <<manifest, hist>>,
         CopyOK(i)', BaseOK(i)'
  PROVE  CopyInv'
<1>1. ASSUME NEW j \in Instances, j # i PROVE CopyOK(j)' /\ BaseOK(j)'
  <2>1. LocalSame(j) /\ AttemptSame(j) /\ CopyOK(j) /\ BaseOK(j)
    BY <1>1 DEF OthersSame, CopyInv
  <2>2. pc'[j] = pc[j] /\ applied'[j] = applied[j]
    BY <2>1 DEF AttemptSame, LocalSame
  <2> QED
    BY <2>1, <2>2, SameCopy, SameBase
<1> QED
  BY <1>1 DEF CopyInv

\* An attempt that has not committed relies only on the manifest it started from.
LEMMA MoveBase ==
  ASSUME NEW i \in Instances, BaseOK(i), applied'[i] = applied[i], pc'[i] \notin Committed,
         pc'[i] \in Publishing => pc[i] \in Publishing /\ view'[i] = view[i]
  PROVE  BaseOK(i)'
  BY DEF BaseOK

\* A committed batch keeps its base from step to step.
LEMMA KeepBase ==
  ASSUME NEW i \in Instances, BaseOK(i), applied'[i] = applied[i], UNCHANGED <<manifest, hist>>,
         pc[i] \in Committed,
         valid'[i] = valid[i] /\ view'[i] = view[i] /\ slot'[i] = slot[i] /\ done'[i] = done[i]
  PROVE  BaseOK(i)'
<1>1. LastSeq(i)' = LastSeq(i)
  BY DEF LastSeq
<1>2. pc[i] \in Publishing
  BY DEF Committed, Publishing
<1> QED
  BY <1>1, <1>2 DEF BaseOK

\* The publisher moves on and the copy stays.
LEMMA MoveCopy ==
  ASSUME CopyInv, NEW i \in Instances, OthersSame(i), UNCHANGED <<manifest, hist>>, LocalSame(i),
         pc[i] # "idle" \/ pc'[i] = "idle", pc'[i] \notin Committed,
         pc'[i] \in Publishing => pc[i] \in Publishing /\ view'[i] = view[i]
  PROVE  CopyInv'
<1>1. CopyOK(i) /\ BaseOK(i) /\ applied'[i] = applied[i]
  BY DEF CopyInv, LocalSame
<1>2. pc'[i] = "idle" \/ open[i]
  BY <1>1 DEF CopyOK
<1>3. CopyOK(i)'
  BY <1>1, <1>2, SameCopy
<1>4. BaseOK(i)'
  BY <1>1, MoveBase
<1> QED
  BY <1>3, <1>4, QuietCopy

\* The steps after a commit that leave the copy alone.
LEMMA KeepCopy ==
  ASSUME CopyInv, NEW i \in Instances, OthersSame(i), UNCHANGED <<manifest, hist>>, LocalSame(i),
         pc[i] \in Committed,
         valid'[i] = valid[i] /\ view'[i] = view[i] /\ slot'[i] = slot[i] /\ done'[i] = done[i]
  PROVE  CopyInv'
<1>1. CopyOK(i) /\ BaseOK(i) /\ applied'[i] = applied[i]
  BY DEF CopyInv, LocalSame
<1>2. open[i]
  BY <1>1 DEF CopyOK, Committed
<1>3. CopyOK(i)' /\ BaseOK(i)'
  BY <1>1, <1>2, SameCopy, KeepBase
<1> QED
  BY <1>3, QuietCopy

\* A sync fetches the current manifest, or ends.
LEMMA FetchCopy ==
  ASSUME IInv, CopyInv, NEW i \in Instances, UNCHANGED <<manifest, hist>>,
         NEW x, sync' = [sync EXCEPT ![i] = x], x.by = "none" \/ x.m = manifest,
         UNCHANGED <<open, hm, hv, refs, applied, saved, valid, view, slot, done>>,
         \A j \in Instances \ {i} : pc'[j] = pc[j],
         \/ pc'[i] = pc[i]
         \/ pc[i] = "sync" /\ pc'[i] \in {"sync", "verify"}
  PROVE  CopyInv'
<1>1. OthersSame(i) /\ sync'[i] = x
  BY DEF OthersSame, LocalSame, AttemptSame, IInv, TypeInv, TypeOK, LocalTypeOK
<1>2. CopyOK(i) /\ BaseOK(i)
  BY DEF CopyInv
<1>3. CopyOK(i)'
  BY <1>1, <1>2 DEF CopyOK
<1>4. BaseOK(i)'
  <2>1. CASE pc'[i] = pc[i]
    BY <1>2, <2>1, SameBase DEF AttemptSame
  <2>2. CASE pc'[i] \in {"sync", "verify"}
    BY <1>2, <2>2, MoveBase DEF Committed, Publishing
  <2> QED
    BY <2>1, <2>2
<1> QED
  BY <1>1, <1>3, <1>4, QuietCopy

\* A commit on top of the log concerns no copy.
LEMMA AppendCopy ==
  ASSUME IInv, CopyInv, NEW m \in Manifests, NEW s \in Slots, NEW reqs \in Batches,
         Appends(m, s), manifest' = m, hist' = hist \cup EntriesAt(s.seq, reqs),
         NEW j \in Instances, LocalSame(j), pc'[j] = pc[j] \/ open[j]
  PROVE  CopyOK(j)' /\ (AttemptSame(j) => BaseOK(j)')
<1>1. TypeInv /\ CopyOK(j) /\ BaseOK(j)
  BY DEF IInv, CopyInv
<1>2. PICK C : C = EntriesAt(s.seq, reqs)
  BY SMTT(30), Z3T(30)
<1>3. /\ s.seq \in Nat /\ m.head \in Nat /\ m.head >= s.seq /\ s.seq > manifest.head
      /\ C \in SUBSET Entries /\ \A e \in C : e.seq >= s.seq
  BY <1>2, EntriesAtFacts DEF Slots, Manifests, Appends
<1>4. /\ applied[j] \in Nat /\ hist \in SUBSET Entries /\ manifest.head \in Nat
      /\ saved[j] \in Nat
  BY <1>1, CopyTypes
<1>5. applied[j] <= manifest.head
  BY <1>1 DEF CopyOK
<1>6. applied[j] <= m.head
  BY <1>3, <1>4, <1>5, SMTT(30), Z3T(30)
<1>7. \A e \in C : e.seq > applied[j]
  <2>1. \A e \in C : e.seq \in Nat
    BY <1>3 DEF Entries
  <2> QED
    BY <1>3, <1>4, <1>5, <2>1, SMTT(30), Z3T(30)
<1>8. Mirrors(refs[j], hist \cup C, applied[j])
  BY <1>1, <1>3, <1>4, <1>7, MirrorsLonger DEF CopyOK
<1>9. CopyOK(j)'
  BY <1>1, <1>2, <1>6, <1>8 DEF CopyOK, LocalSame
<1>10. ASSUME AttemptSame(j) PROVE BaseOK(j)'
  <2>1. LastSeq(j)' = LastSeq(j)
    BY <1>10 DEF LastSeq, AttemptSame
  <2>2. pc'[j] = pc[j] /\ view'[j] = view[j] /\ valid'[j] = valid[j] /\ slot'[j] = slot[j]
        /\ done'[j] = done[j] /\ applied'[j] = applied[j]
    BY <1>10 DEF AttemptSame, LocalSame
  <2>3. CASE pc[j] \in Committed
    <3>1. LastSeq(j) <= manifest.head /\ LastSeq(j) = done[j].m.head /\ done[j].m.head \in Nat
      BY <1>1, <2>3, CopyTypes DEF BaseOK
    <3>2. LastSeq(j) <= m.head /\ \A e \in C : e.seq > LastSeq(j)
      <4>1. \A e \in C : e.seq \in Nat
        BY <1>3 DEF Entries
      <4>2. PICK l : l = LastSeq(j)
        BY SMTT(30), Z3T(30)
      <4> QED
        BY <1>3, <1>4, <3>1, <4>1, <4>2, SMTT(30), Z3T(30)
    <3> QED
      BY <1>1, <1>2, <2>1, <2>2, <2>3, <3>2 DEF BaseOK
  <2>4. CASE pc[j] \notin Committed
    BY <1>1, <2>2, <2>4 DEF BaseOK
  <2> QED
    BY <2>3, <2>4
<1> QED
  BY <1>9, <1>10

\* apply_delta brings the copy to the head of the manifest it fetched.
LEMMA InstallCopy ==
  ASSUME Replayable,
         IInv, OrderInv, ListingInv, NEW i \in Instances, CopyOK(i), sync[i].by # "none"
  PROVE  Mirrors(ApplyEntries(BaseRefs(i, sync[i].m), EntriesIn(sync[i].m, BaseSeq(i, sync[i].m))),
                 hist, sync[i].m.head)
<1>1. /\ applied[i] \in Nat /\ hist \in SUBSET Entries /\ sync[i].m \in Manifests
      /\ sync[i].m.head \in Nat
  BY CopyTypes DEF IInv
<1>2. applied[i] <= sync[i].m.head /\ Mirrors(refs[i], hist, applied[i])
  BY DEF CopyOK
<1>3. PICK B : B = {e \in hist : e.seq > applied[i] /\ e.seq <= sync[i].m.head}
  OBVIOUS
<1>4. EntriesIn(sync[i].m, applied[i]) = B
  BY <1>1, <1>3, EntriesRead DEF ListingInv
<1>5. \A e, f \in hist : e.seq = f.seq => e = f
  BY OrderFacts DEF HistOnce
<1>6. applied[i] <= applied[i]
  BY <1>1, SMTT(30), Z3T(30)
<1>7. B \in SUBSET hist /\ \A e \in hist : e \in B <=> applied[i] < e.seq /\ e.seq <= sync[i].m.head
  <2>1. \A e \in hist : e.seq > applied[i] <=> applied[i] < e.seq
    BY <1>1, SMTT(30), Z3T(30) DEF Entries
  <2> QED
    BY <1>3, <2>1
<1>8. Mirrors(ApplyEntries(refs[i], B), hist, sync[i].m.head)
  BY <1>1, <1>2, <1>5, <1>6, <1>7, MirrorsReplay
<1> QED
  BY <1>4, <1>8, NoSnapshot

\* apply moves a copy to the manifest it read, and never back.
LEMMA ApplyCopy ==
  ASSUME Replayable,
         IInv, OrderInv, ListingInv, NEW i \in Instances, CopyOK(i), sync[i].by # "none",
         Apply(i), UNCHANGED <<manifest, hist>>, sync'[i] = NoSync, open'[i] = TRUE
  PROVE  CopyOK(i)' /\ applied'[i] >= applied[i]
<1>1. TypeInv /\ NoSync.by = "none"
  BY DEF IInv, NoSync
<1>2. /\ applied[i] \in Nat /\ saved[i] \in Nat /\ sync[i].m.head \in Nat /\ manifest.head \in Nat
  BY <1>1, CopyTypes
<1>3. /\ refs \in [Instances -> RefMaps] /\ applied \in [Instances -> Nat]
      /\ saved \in [Instances -> Nat] /\ hm \in [Instances -> Manifests] /\ hv \in [Instances -> Nat]
  BY <1>1 DEF TypeInv, TypeOK, LocalTypeOK
<1>4. /\ saved[i] <= applied[i] /\ applied[i] <= manifest.head /\ applied[i] <= sync[i].m.head
      /\ hv[i] # 0 => applied[i] = hm[i].head
      /\ Mirrors(refs[i], hist, applied[i])
  BY DEF CopyOK
<1>5. sync[i].m.head <= manifest.head
  BY DEF ListingInv, Prefix
<1>6. ASSUME saved'[i] <= applied'[i], applied'[i] <= manifest.head,
             hv'[i] # 0 => applied'[i] = hm'[i].head, Mirrors(refs'[i], hist, applied'[i])
      PROVE  CopyOK(i)'
  BY <1>1, <1>6 DEF CopyOK
<1>7. CASE Install(i, sync[i])
  <2>1. /\ refs'[i] = ApplyEntries(BaseRefs(i, sync[i].m), EntriesIn(sync[i].m, BaseSeq(i, sync[i].m)))
        /\ applied'[i] = sync[i].m.head /\ saved'[i] = sync[i].m.head
        /\ hm'[i] = sync[i].m /\ hv'[i] = sync[i].ver
    BY <1>3, <1>7 DEF Install
  <2>2. Mirrors(refs'[i], hist, applied'[i])
    BY <2>1, InstallCopy
  <2>3. saved'[i] <= applied'[i] /\ applied'[i] >= applied[i]
    BY <1>2, <1>4, <2>1, SMTT(30), Z3T(30)
  <2> QED
    BY <1>5, <1>6, <2>1, <2>2, <2>3
<1>8. CASE UNCHANGED <<refs, applied, saved>>
  <2>1. applied'[i] >= applied[i]
    BY <1>2, <1>8, SMTT(30), Z3T(30)
  <2>2. CASE UNCHANGED <<hm, hv>>
    BY <1>4, <1>6, <1>8, <2>1, <2>2
  <2>3. CASE ~Behind(i) /\ sync[i].by # "open" /\ sync[i].m.rev = hm[i].rev /\ UNCHANGED hm
    <3>1. hv[i] # 0
      BY <2>3 DEF Behind
    <3> QED
      BY <1>4, <1>6, <1>8, <2>1, <2>3, <3>1
  <2>4. CASE /\ ~Behind(i) /\ sync[i].by = "open"
             /\ hm' = [hm EXCEPT ![i] = sync[i].m]
    <3>1. ~(applied[i] < sync[i].m.head)
      BY <2>4 DEF Behind
    <3>2. applied[i] = sync[i].m.head
      BY <1>2, <1>4, <3>1, SMTT(30), Z3T(30)
    <3>3. hm'[i] = sync[i].m
      BY <1>3, <2>4
    <3> QED
      BY <1>4, <1>6, <1>8, <2>1, <3>2, <3>3
  <2> QED
    BY <1>7, <1>8, <2>1, <2>2, <2>3, <2>4 DEF Apply
<1> QED
  BY <1>7, <1>8 DEF Apply

\* A sync that succeeds leaves a copy that mirrors the log.
LEMMA SyncDoneCopy ==
  ASSUME Replayable,
         IInv, OrderInv, ListingInv, CopyInv, NEW i \in Instances, SyncDone(i)
  PROVE  CopyInv'
<1>1. /\ UNCHANGED <<manifest, hist, valid, view, slot, done>> /\ sync[i].by # "none" /\ Apply(i)
  BY DEF SyncDone, bucketVars
<1>2. /\ sync'[i] = NoSync /\ open'[i] = TRUE
      /\ \A j \in Instances \ {i} : sync'[j] = sync[j] /\ open'[j] = open[j]
  BY DEF IInv, TypeInv, TypeOK, SyncDone, LocalTypeOK
<1>3. /\ \A j \in Instances \ {i} : pc'[j] = pc[j]
      /\ pc'[i] = "verify" \/ pc'[i] = pc[i]
  BY DEF IInv, TypeInv, TypeOK, SyncDone, PublisherTypeOK
<1>4. \A j \in Instances \ {i} : /\ refs'[j] = refs[j] /\ applied'[j] = applied[j]
                                 /\ saved'[j] = saved[j] /\ hm'[j] = hm[j] /\ hv'[j] = hv[j]
  BY <1>1 DEF IInv, TypeInv, TypeOK, Apply, Install, LocalTypeOK
<1>5. OthersSame(i)
  BY <1>1, <1>2, <1>3, <1>4 DEF OthersSame, LocalSame, AttemptSame
<1>6. CopyOK(i) /\ BaseOK(i)
  BY DEF CopyInv
<1>7. CopyOK(i)' /\ applied'[i] >= applied[i]
  BY <1>1, <1>2, <1>6, ApplyCopy
<1>8. BaseOK(i)'
  <2>1. CASE pc'[i] = "verify"
    BY <2>1 DEF BaseOK, Committed, Publishing
  <2>2. CASE pc'[i] = pc[i]
    <3>1. LastSeq(i)' = LastSeq(i)
      BY <1>1 DEF LastSeq
    <3>2. applied[i] \in Nat /\ applied'[i] \in Nat /\ view[i].m.head \in Nat
      <4>1. applied' \in [Instances -> Nat]
        <5>1. applied' = applied \/ applied' = [applied EXCEPT ![i] = sync[i].m.head]
          BY <1>1 DEF Apply, Install
        <5>2. sync[i].m.head \in Nat
          BY CopyTypes DEF IInv, TypeInv, TypeOK
        <5> QED
          BY <5>1, <5>2 DEF IInv, TypeInv, TypeOK, LocalTypeOK
      <4> QED
        BY <4>1, CopyTypes DEF IInv, TypeInv, TypeOK
    <3>3. view[i].m.head <= applied[i] => view[i].m.head <= applied'[i]
      BY <1>7, <3>2, SMTT(30), Z3T(30)
    <3> QED
      BY <1>1, <1>6, <2>2, <3>1, <3>3 DEF BaseOK
  <2> QED
    BY <1>3, <2>1, <2>2
<1> QED
  BY <1>1, <1>5, <1>7, <1>8, QuietCopy

\* A sync that fails leaves the copy as it is.
LEMMA SyncFailedCopy ==
  ASSUME IInv, ListingInv, CopyInv, NEW i \in Instances, SyncFailed(i)
  PROVE  CopyInv'
<1>1. UNCHANGED <<manifest, hist, open, hm, hv, saved>> /\ sync' = [sync EXCEPT ![i] = NoSync]
  BY DEF SyncFailed, bucketVars
<1>2. CopyOK(i) /\ BaseOK(i)
  BY DEF CopyInv
<1>3. /\ refs \in [Instances -> RefMaps] /\ applied \in [Instances -> Nat]
      /\ sync'[i] = NoSync /\ \A j \in Instances \ {i} : sync'[j] = sync[j]
  BY <1>1 DEF IInv, TypeInv, TypeOK, LocalTypeOK
<1>4. \A j \in Instances : refs'[j] = refs[j] /\ applied'[j] = applied[j]
  <2>1. CASE UNCHANGED <<refs, applied>>
    BY <2>1
  <2>2. CASE /\ refs' = [refs EXCEPT ![i] = BaseRefs(i, sync[i].m)]
             /\ applied' = [applied EXCEPT ![i] = IF open[i] THEN BaseSeq(i, sync[i].m) ELSE saved[i]]
    <3>1. BaseRefs(i, sync[i].m) = refs[i] /\ BaseSeq(i, sync[i].m) = applied[i]
      BY NoSnapshot
    <3>2. ~open[i] => applied[i] = saved[i]
      BY <1>2 DEF CopyOK
    <3> QED
      BY <1>3, <2>2, <3>1, <3>2
  <2> QED
    BY <2>1, <2>2 DEF SyncFailed
<1>5. /\ \A j \in Instances \ {i} : AttemptSame(j)
      /\ pc'[i] = "idle" \/ AttemptSame(i)
  <2>1. CASE ResetPublisher(i)
    BY <2>1 DEF IInv, TypeInv, TypeOK, ResetPublisher, AttemptSame, PublisherTypeOK
  <2>2. CASE UNCHANGED pubVars
    BY <2>2 DEF pubVars, AttemptSame
  <2> QED
    BY <2>1, <2>2 DEF SyncFailed, FinishErrors
<1>6. OthersSame(i)
  BY <1>1, <1>3, <1>4, <1>5 DEF OthersSame, LocalSame
<1>7. NoSync.by = "none"
  BY DEF NoSync
<1>8. CopyOK(i)'
  <2>1. pc'[i] = "idle" \/ pc'[i] = pc[i]
    BY <1>5 DEF AttemptSame
  <2> QED
    BY <1>1, <1>2, <1>3, <1>4, <1>7, <2>1 DEF CopyOK
<1>9. BaseOK(i)'
  <2>1. CASE pc'[i] = "idle"
    BY <2>1 DEF BaseOK, Committed, Publishing
  <2>2. CASE AttemptSame(i)
    BY <1>1, <1>2, <1>4, <2>2, SameBase
  <2> QED
    BY <1>5, <2>1, <2>2
<1> QED
  BY <1>1, <1>6, <1>8, <1>9, QuietCopy

\* commit_local brings the copy to the end of its batch, also when a sync was there
\* before it.
LEMMA InstalledMirrors ==
  ASSUME Replayable,
         IInv, OrderInv, NEW i \in Instances, CopyOK(i), BaseOK(i), pc[i] \in Committed
  PROVE  Mirrors(ApplyEntries(refs[i], EntriesAt(slot[i].seq, valid[i])), hist, LastSeq(i))
<1>1. PICK B : B = EntriesAt(slot[i].seq, valid[i])
  BY SMTT(30), Z3T(30)
<1>2. PICK l : l = LastSeq(i)
  BY SMTT(30), Z3T(30)
<1>3. PICK v : v = view[i].m.head
  BY SMTT(30), Z3T(30)
<1>4. /\ B \in SUBSET hist /\ l \in Nat /\ v <= l
      /\ \A e \in hist : e \in B <=> v < e.seq /\ e.seq <= l
  BY <1>1, <1>2, <1>3, OwnEntries
<1>5. applied[i] \in Nat /\ v \in Nat /\ hist \in SUBSET Entries
  BY <1>3, CopyTypes DEF IInv
<1>6. v <= applied[i] /\ Mirrors(refs[i], hist, applied[i])
  BY <1>3 DEF BaseOK, CopyOK, Committed, Publishing
<1>7. \A e, f \in hist : e.seq = f.seq => e = f
  BY OrderFacts DEF HistOnce
<1>8. CASE applied[i] <= l
  <2>1. Mirrors(ApplyEntries(refs[i], B), hist, l)
    BY <1>4, <1>5, <1>6, <1>7, <1>8, MirrorsReplay
  <2> QED
    BY <1>1, <1>2, <2>1
<1>9. CASE ~(applied[i] <= l)
  <2>1. l <= applied[i] /\ l <= l
    BY <1>4, <1>5, <1>9, SMTT(30), Z3T(30)
  <2>2. Mirrors(refs[i], hist, l)
    BY <1>4, <1>5, <1>6, <2>1, MirrorsEarlier
  <2>3. Mirrors(ApplyEntries(refs[i], B), hist, l)
    BY <1>4, <1>5, <1>7, <2>1, <2>2, MirrorsReplay
  <2> QED
    BY <1>1, <1>2, <2>3
<1> QED
  BY <1>8, <1>9

\* commit_local installs the committed batch, or the part of it a failure lets through.
LEMMA CommitLocalCopy ==
  ASSUME Replayable,
         IInv, OrderInv, CopyInv, Undisturbed, NEW i \in Instances, CommitLocal(i)
  PROVE  CopyInv'
<1>1. /\ UNCHANGED <<manifest, hist, open, sync, valid, view, slot, done>>
      /\ pc[i] = "local" /\ sync[i] = NoSync /\ pc' = [pc EXCEPT ![i] = "sweep"]
  BY DEF CommitLocal, Unlocked, bucketVars
<1>2. CopyOK(i) /\ BaseOK(i) /\ pc[i] \in Committed /\ open[i]
  BY <1>1 DEF CopyInv, CopyOK, Committed
<1>3. /\ refs \in [Instances -> RefMaps] /\ applied \in [Instances -> Nat]
      /\ saved \in [Instances -> Nat] /\ hm \in [Instances -> Manifests] /\ hv \in [Instances -> Nat]
      /\ pc'[i] = "sweep" /\ \A j \in Instances \ {i} : pc'[j] = pc[j]
  BY <1>1 DEF IInv, TypeInv, TypeOK, LocalTypeOK, PublisherTypeOK
<1>4. /\ saved[i] <= applied[i] /\ applied[i] <= manifest.head
      /\ Mirrors(refs[i], hist, applied[i])
  BY <1>2 DEF CopyOK
<1>5. /\ done[i].ver # 0 /\ done[i].m.head = LastSeq(i) /\ LastSeq(i) <= manifest.head
      /\ view[i].m.head <= applied[i]
  BY <1>2 DEF BaseOK, Committed, Publishing
<1>6. PICK B : B = EntriesAt(slot[i].seq, valid[i])
  BY SMTT(30), Z3T(30)
<1>7. /\ B \in SUBSET hist /\ \A e \in B : slot[i].seq <= e.seq
      /\ LastSeq(i) \in Nat /\ view[i].m.head <= LastSeq(i) /\ slot[i].seq <= LastSeq(i) + 1
  BY <1>2, <1>6, OwnEntries
<1>8. /\ applied[i] \in Nat /\ saved[i] \in Nat /\ slot[i].seq \in Nat /\ valid[i] \in Batches
      /\ hist \in SUBSET Entries /\ view[i].m.head \in Nat
  BY CopyTypes DEF IInv, TypeInv, TypeOK
<1>9. StoreError => applied[i] < slot[i].seq
  <2>1. faults \in [crash : Nat, store : Nat, cas : Nat]
    BY DEF IInv, TypeInv, TypeOK, BucketTypeOK
  <2>2. StoreError => faults' # faults
    BY <2>1, SMTT(30), Z3T(30) DEF StoreError
  <2> QED
    BY <2>2 DEF Undisturbed
<1>10. NoSync.by = "none" /\ LastSeq(i)' = LastSeq(i)
  BY <1>1 DEF NoSync, LastSeq
<1>11. ASSUME saved'[i] <= applied'[i], applied'[i] <= manifest.head,
              hv'[i] # 0 => applied'[i] = hm'[i].head, Mirrors(refs'[i], hist, applied'[i])
       PROVE  CopyOK(i)'
  BY <1>1, <1>2, <1>10, <1>11 DEF CopyOK
<1>12. ASSUME view[i].m.head <= applied'[i] PROVE BaseOK(i)'
  BY <1>1, <1>2, <1>3, <1>10, <1>12 DEF BaseOK
<1>13. ASSUME InstallCommit(i) PROVE CopyOK(i)' /\ BaseOK(i)'
  <2>1. /\ refs'[i] = ApplyEntries(refs[i], B) /\ hm'[i] = done[i].m /\ applied'[i] = LastSeq(i)
        /\ saved'[i] = LastSeq(i) \/ (StoreError /\ saved'[i] = saved[i])
    BY <1>3, <1>6, <1>13 DEF InstallCommit
  <2>2. Mirrors(refs'[i], hist, applied'[i])
    BY <1>2, <1>6, <2>1, InstalledMirrors
  <2>3. saved'[i] <= applied'[i]
    <3>1. PICK l : l = LastSeq(i)
      BY SMTT(30), Z3T(30)
    <3> QED
      BY <1>4, <1>7, <1>8, <1>9, <2>1, <3>1, SMTT(30), Z3T(30)
  <2> QED
    BY <1>5, <1>7, <1>11, <1>12, <2>1, <2>2, <2>3
<1>14. ASSUME ForgetVersion(i) PROVE CopyOK(i)' /\ BaseOK(i)'
  <2>1. UNCHANGED <<applied, saved>> /\ hv' = [hv EXCEPT ![i] = 0] /\ StoreError
    BY <1>5, <1>14 DEF ForgetVersion
  <2>2. PICK n \in 0..Len(valid[i]) :
          refs' = [refs EXCEPT ![i] = ApplyEntries(@, EntriesAt(slot[i].seq, SubSeq(valid[i], 1, n)))]
    BY <1>5, <1>14 DEF ForgetVersion
  <2>3. PICK C : C = EntriesAt(slot[i].seq, SubSeq(valid[i], 1, n))
    BY SMTT(30), Z3T(30)
  <2>4. C \subseteq B
    BY <1>6, <1>8, <2>3, FirstEntries
  <2>5. \A e \in C : e.seq > applied[i]
    <3>1. \A e \in C : e.seq \in Nat /\ slot[i].seq <= e.seq
      BY <1>7, <1>8, <2>4 DEF Entries
    <3> QED
      BY <1>8, <1>9, <2>1, <3>1, SMTT(30), Z3T(30)
  <2>6. C \in SUBSET hist
    BY <1>7, <2>4
  <2>7. Mirrors(ApplyEntries(refs[i], C), hist, applied[i])
    BY <1>4, <1>8, <2>5, <2>6, MirrorsPartly
  <2>8. refs'[i] = ApplyEntries(refs[i], C) /\ hv'[i] = 0 /\ applied'[i] = applied[i]
        /\ saved'[i] = saved[i]
    BY <1>3, <2>1, <2>2, <2>3
  <2> QED
    BY <1>4, <1>5, <1>11, <1>12, <2>7, <2>8
<1>15. OthersSame(i)
  <2>1. \A j \in Instances \ {i} : /\ refs'[j] = refs[j] /\ applied'[j] = applied[j]
                                   /\ saved'[j] = saved[j] /\ hm'[j] = hm[j] /\ hv'[j] = hv[j]
    <3>1. CASE InstallCommit(i)
      BY <1>3, <3>1 DEF InstallCommit
    <3>2. CASE ForgetVersion(i)
      BY <1>3, <3>2 DEF ForgetVersion
    <3> QED
      BY <3>1, <3>2 DEF CommitLocal
  <2> QED
    BY <1>1, <1>3, <2>1 DEF OthersSame, LocalSame, AttemptSame
<1>16. CopyOK(i)' /\ BaseOK(i)'
  BY <1>13, <1>14 DEF CommitLocal
<1> QED
  BY <1>1, <1>15, <1>16, QuietCopy

\* The next process starts from what was saved, or from nothing.
LEMMA CrashCopy ==
  ASSUME IInv, CopyInv, NEW i \in Instances, Crash(i)
  PROVE  CopyInv'
<1>1. /\ UNCHANGED <<manifest, hist>> /\ ResetPublisher(i)
      /\ open' = [open EXCEPT ![i] = FALSE] /\ hm' = [hm EXCEPT ![i] = NewManifest]
      /\ hv' = [hv EXCEPT ![i] = 0] /\ sync' = [sync EXCEPT ![i] = NoSync]
      /\ \/ applied' = [applied EXCEPT ![i] = saved[i]] /\ UNCHANGED <<refs, saved>>
         \/ /\ refs' = [refs EXCEPT ![i] = NoRefs] /\ saved' = [saved EXCEPT ![i] = 0]
            /\ applied' = [applied EXCEPT ![i] = 0]
  BY DEF Crash
<1>2. CopyOK(i) /\ NoSync.by = "none"
  BY DEF CopyInv, NoSync
<1>3. /\ pc'[i] = "idle" /\ \A j \in Instances \ {i} : AttemptSame(j)
  BY <1>1 DEF IInv, TypeInv, TypeOK, ResetPublisher, AttemptSame, PublisherTypeOK
<1>4. /\ open'[i] = FALSE /\ hv'[i] = 0 /\ sync'[i] = NoSync
      /\ \A j \in Instances \ {i} : LocalSame(j)
  BY <1>1 DEF IInv, TypeInv, TypeOK, LocalSame, LocalTypeOK
<1>5. /\ saved[i] \in Nat /\ applied[i] \in Nat /\ manifest.head \in Nat /\ hist \in SUBSET Entries
  BY CopyTypes DEF IInv, TypeInv, TypeOK
<1>6. /\ saved[i] <= applied[i] /\ applied[i] <= manifest.head /\ Mirrors(refs[i], hist, applied[i])
  BY <1>2 DEF CopyOK
<1>7. /\ applied'[i] = saved'[i] /\ saved'[i] <= applied'[i] /\ applied'[i] <= manifest.head
      /\ Mirrors(refs'[i], hist, applied'[i])
  <2>1. CASE applied' = [applied EXCEPT ![i] = saved[i]] /\ UNCHANGED <<refs, saved>>
    <3>1. applied'[i] = saved[i] /\ saved'[i] = saved[i] /\ refs'[i] = refs[i]
      BY <2>1 DEF IInv, TypeInv, TypeOK, LocalTypeOK
    <3>2. Mirrors(refs[i], hist, saved[i])
      BY <1>5, <1>6, MirrorsEarlier
    <3>3. saved[i] <= saved[i] /\ saved[i] <= manifest.head
      BY <1>5, <1>6, SMTT(30), Z3T(30)
    <3> QED
      BY <3>1, <3>2, <3>3
  <2>2. CASE /\ refs' = [refs EXCEPT ![i] = NoRefs] /\ saved' = [saved EXCEPT ![i] = 0]
             /\ applied' = [applied EXCEPT ![i] = 0]
    <3>1. applied'[i] = 0 /\ saved'[i] = 0 /\ refs'[i] = NoRefs
      BY <2>2 DEF IInv, TypeInv, TypeOK, LocalTypeOK
    <3>2. Mirrors(NoRefs, hist, 0)
      BY <1>5, MirrorsNone DEF IInv, SegmentsInv
    <3>3. 0 <= 0 /\ 0 <= manifest.head
      BY <1>5, SMTT(30), Z3T(30)
    <3> QED
      BY <3>1, <3>2, <3>3
  <2> QED
    BY <1>1, <2>1, <2>2
<1>8. CopyOK(i)'
  BY <1>1, <1>2, <1>3, <1>4, <1>7 DEF CopyOK
<1>9. BaseOK(i)'
  BY <1>3 DEF BaseOK, Committed, Publishing
<1> QED
  BY <1>1, <1>3, <1>4, <1>8, <1>9, QuietCopy DEF OthersSame

\* verify_batch remembers the manifest whose refs the copy holds.
LEMMA VerifyCopy ==
  ASSUME IInv, CopyInv, NEW i \in Instances, VerifyBatch(i)
  PROVE  CopyInv'
<1>1. UNCHANGED <<manifest, hist>> /\ UNCHANGED localVars /\ pc[i] = "verify"
  BY DEF VerifyBatch, bucketVars
<1>2. \A j \in Instances : LocalSame(j)
  BY <1>1 DEF localVars, LocalSame
<1>3. CASE ResetPublisher(i)
  <2>1. pc'[i] = "idle" /\ \A j \in Instances \ {i} : AttemptSame(j)
    BY <1>3 DEF IInv, TypeInv, TypeOK, ResetPublisher, AttemptSame, PublisherTypeOK
  <2> QED
    BY <1>1, <1>2, <2>1, MoveCopy DEF OthersSame, Committed, Publishing
<1>4. ASSUME NEW v, valid' = [valid EXCEPT ![i] = v],
             view' = [view EXCEPT ![i] = [m |-> hm[i], ver |-> hv[i]]],
             slot' = [slot EXCEPT ![i] = [seq |-> hm[i].head + 1, ver |-> 0]],
             pc' = [pc EXCEPT ![i] = "claim"], UNCHANGED done
      PROVE  CopyInv'
  <2>1. /\ pc'[i] = "claim" /\ view'[i] = [m |-> hm[i], ver |-> hv[i]]
        /\ \A j \in Instances \ {i} : AttemptSame(j)
    BY <1>4 DEF IInv, TypeInv, TypeOK, AttemptSame, PublisherTypeOK
  <2>2. CopyOK(i) /\ applied'[i] = applied[i]
    BY <1>2 DEF CopyInv, LocalSame
  <2>3. open[i]
    BY <1>1, <2>2 DEF CopyOK
  <2>4. CopyOK(i)'
    BY <1>1, <1>2, <2>2, <2>3, SameCopy
  <2>5. view'[i].ver # 0 => view'[i].m.head <= applied'[i]
    <3>1. view'[i].ver = hv[i] /\ view'[i].m = hm[i]
      BY <2>1, SMTT(30), Z3T(30)
    <3>2. hv[i] # 0 => applied[i] = hm[i].head
      BY <2>2 DEF CopyOK
    <3>3. applied[i] <= applied[i]
      BY CopyTypes, SMTT(30), Z3T(30) DEF IInv, TypeInv, TypeOK
    <3> QED
      BY <2>2, <3>1, <3>2, <3>3
  <2>6. BaseOK(i)'
    BY <2>1, <2>5 DEF BaseOK, Committed
  <2> QED
    BY <1>1, <1>2, <2>1, <2>4, <2>6, QuietCopy DEF OthersSame
<1> QED
  BY <1>3, <1>4 DEF VerifyBatch

\* A commit starts from the current manifest and appends to it.
LEMMA CommitCopy ==
  ASSUME IInv, OrderInv, CopyInv, NEW i \in Instances, CommitManifest(i)
  PROVE  CopyInv'
<1>1. PICK m \in Manifests, s \in Slots, reqs \in Batches :
           /\ m = UpdatedManifest(i) /\ s = slot[i] /\ reqs = valid[i] /\ reqs # <<>>
           /\ Appends(m, s) /\ Holds(s, reqs) /\ m.head = s.seq + Len(reqs) - 1
           /\ manifest' = m /\ mver' = mver + 1 /\ hist' = hist \cup EntriesAt(s.seq, reqs)
  BY CommitFacts
<1>2. /\ UNCHANGED localVars /\ UNCHANGED <<valid, view, slot>>
      /\ pc[i] = "cas" /\ view[i].ver = mver
      /\ pc' = [pc EXCEPT ![i] = "mark"]
      /\ done' = [done EXCEPT ![i] = [m |-> UpdatedManifest(i), ver |-> mver + 1]]
  BY DEF CommitManifest
<1>3. \A j \in Instances : LocalSame(j)
  BY <1>2 DEF localVars, LocalSame
<1>4. /\ pc'[i] = "mark" /\ done'[i] = [m |-> m, ver |-> mver + 1]
      /\ \A j \in Instances \ {i} : AttemptSame(j)
  BY <1>1, <1>2 DEF IInv, TypeInv, TypeOK, AttemptSame, PublisherTypeOK
<1>5. open[i] /\ BaseOK(i)
  BY <1>2 DEF CopyInv, CopyOK
<1>6. ASSUME NEW j \in Instances, j # i PROVE CopyOK(j)' /\ BaseOK(j)'
  <2>1. LocalSame(j) /\ AttemptSame(j) /\ pc'[j] = pc[j]
    BY <1>3, <1>4, <1>6 DEF AttemptSame
  <2> QED
    BY <1>1, <2>1, AppendCopy
<1>7. CopyOK(i)'
  BY <1>1, <1>3, <1>5, AppendCopy
<1>8. BaseOK(i)'
  <2>1. mver \in Nat /\ mver > 0 /\ view[i].m = manifest /\ manifest.head \in Nat
    BY <1>2, BucketFacts DEF IInv, TypeInv, TypeOK, ViewsInv, AttemptOK, Paired
  <2>2. mver # 0 /\ mver + 1 # 0
    BY <2>1, SMTT(30), Z3T(30)
  <2>3. manifest.head < slot[i].seq /\ slot[i].seq \in Nat /\ m.head \in Nat
    <3>1. slot[i].seq > manifest.head /\ slot[i].seq \in Nat /\ m.head \in Nat
      BY <1>1 DEF Appends, Slots, Manifests
    <3> QED
      BY <2>1, <3>1, SMTT(30), Z3T(30)
  <2>4. view[i].m.head <= applied'[i]
    <3>1. view[i].m.head <= applied[i] /\ applied'[i] = applied[i]
      BY <1>2, <1>3, <1>5, <2>2 DEF BaseOK, LocalSame, Publishing
    <3> QED
      BY <3>1
  <2>5. LastSeq(i)' = m.head /\ m.head <= m.head
    <3>1. LastSeq(i)' = LastSeq(i) /\ LastSeq(i) = m.head
      BY <1>1, <1>2 DEF LastSeq
    <3> QED
      BY <2>3, <3>1, SMTT(30), Z3T(30)
  <2>6. done'[i].ver # 0 /\ done'[i].m = m
    BY <1>4, <2>2, SMTT(30), Z3T(30)
  <2>7. \A e \in hist : e.seq <= manifest.head
    BY OrderFacts DEF HistOnce
  <2>8. \A e \in hist' : e.seq <= view[i].m.head \/ e \in EntriesAt(slot[i].seq, valid[i])
    BY <1>1, <2>1, <2>7
  <2> QED
    BY <1>1, <1>2, <2>1, <2>2, <2>3, <2>4, <2>5, <2>6, <2>8 DEF BaseOK
<1> QED
  BY <1>6, <1>7, <1>8 DEF CopyInv

\* A write that takes effect late lengthens the log beyond every copy.
LEMMA LandCopy ==
  ASSUME IInv, OrderInv, CopyInv, LandManifest
  PROVE  CopyInv'
<1>1. UNCHANGED localVars /\ UNCHANGED pubVars
  BY DEF LandManifest
<1>2. \A j \in Instances : LocalSame(j) /\ AttemptSame(j) /\ pc'[j] = pc[j] /\ applied'[j] = applied[j]
  BY <1>1 DEF localVars, pubVars, LocalSame, AttemptSame
<1>3. CASE mver' # mver
  BY <1>2, <1>3, LandFacts, AppendCopy DEF CopyInv
<1>4. CASE mver' = mver
  BY <1>2, <1>4, LandNothing, SameCopy, SameBase DEF CopyInv
<1> QED
  BY <1>3, <1>4

\* Clients touch no copy.
LEMMA ClientCopy ==
  ASSUME IInv, CopyInv, NEW i \in Instances, ClientStep(i)
  PROVE  CopyInv'
<1>1. UNCHANGED <<manifest, hist>> /\ UNCHANGED pubVars
  BY DEF ClientStep, PublishPush, PublishPushSynced, StartRead, FinishRead, bucketVars
<1>2. CASE StartRead(i)
  <2>1. PICK x : /\ x = IF hv[i] = mver THEN NoSync ELSE Fetched("reader")
                 /\ sync' = [sync EXCEPT ![i] = x]
    BY <1>2 DEF StartRead
  <2>2. x.by = "none" \/ x.m = manifest
    BY <2>1 DEF NoSync, Fetched
  <2> QED
    BY <1>1, <1>2, <2>1, <2>2, FetchCopy DEF StartRead, pubVars
<1>3. CASE UNCHANGED localVars
  BY <1>1, <1>3, SameCopy, SameBase DEF CopyInv, localVars, pubVars, LocalSame, AttemptSame
<1> QED
  BY <1>2, <1>3 DEF ClientStep, PublishPush, PublishPushSynced, FinishRead

\* Syncs, also failing ones, leave copies that mirror the log.
LEMMA SyncCopy ==
  ASSUME Replayable,
         IInv, OrderInv, ListingInv, CopyInv, NEW i \in Instances, SyncStep(i)
  PROVE  CopyInv'
<1>1. CASE OpenRepo(i)
  <2>1. PICK x : x = Fetched("open") /\ sync' = [sync EXCEPT ![i] = x]
    BY <1>1 DEF OpenRepo
  <2>2. x.m = manifest
    BY <2>1 DEF Fetched
  <2> QED
    BY <1>1, <2>1, <2>2, FetchCopy DEF OpenRepo, pubVars, bucketVars
<1> QED
  BY <1>1, SyncDoneCopy, SyncFailedCopy DEF SyncStep

\* The publisher's steps before its commit, and the ends of an attempt.
LEMMA AttemptCopy ==
  ASSUME IInv, CopyInv, NEW i \in Instances,
         \/ TakeBatch(i) \/ ClaimLogSlot(i) \/ ClaimFailed(i) \/ ProbeManifest(i) \/ ProbeHead(i)
         \/ ProbeFailed(i) \/ CommitRefused(i) \/ DropOwnSlot(i) \/ RetryAfterDrop(i) \/ Respond(i)
  PROVE  CopyInv'
<1>1. UNCHANGED <<manifest, hist>> /\ UNCHANGED localVars
  BY DEF TakeBatch, ClaimLogSlot, ClaimFailed, ProbeManifest, ProbeHead, ProbeFailed,
     CommitRefused, DropOwnSlot, RetryAfterDrop, Respond, bucketVars
<1>2. \A j \in Instances : LocalSame(j)
  BY <1>1 DEF localVars, LocalSame
<1>3. CASE ResetPublisher(i)
  <2>1. pc'[i] = "idle" /\ \A j \in Instances \ {i} : AttemptSame(j)
    BY <1>3 DEF IInv, TypeInv, TypeOK, ResetPublisher, AttemptSame, PublisherTypeOK
  <2> QED
    BY <1>1, <1>2, <2>1, MoveCopy DEF OthersSame, Committed, Publishing
<1>4. ASSUME NEW q \in Steps \ Committed, pc' = [pc EXCEPT ![i] = q],
             NEW x, slot' = [slot EXCEPT ![i] = x] \/ UNCHANGED slot, UNCHANGED <<valid, view, done>>,
             pc[i] # "idle", q \in Publishing => pc[i] \in Publishing
      PROVE  CopyInv'
  <2>1. pc'[i] = q /\ view'[i] = view[i] /\ \A j \in Instances \ {i} : AttemptSame(j)
    BY <1>4 DEF IInv, TypeInv, TypeOK, AttemptSame, PublisherTypeOK
  <2> QED
    BY <1>1, <1>2, <1>4, <2>1, MoveCopy DEF OthersSame
<1>5. CASE TakeBatch(i)
  <2>1. PICK q \in {"sync", "verify"} : pc' = [pc EXCEPT ![i] = q]
    BY <1>5 DEF TakeBatch
  <2>2. UNCHANGED <<valid, view, slot, done>> /\ open[i]
    BY <1>5 DEF TakeBatch
  <2>3. pc'[i] = q /\ \A j \in Instances \ {i} : AttemptSame(j)
    BY <2>1, <2>2 DEF IInv, TypeInv, TypeOK, AttemptSame, PublisherTypeOK
  <2>4. CopyOK(i) /\ BaseOK(i) /\ applied'[i] = applied[i]
    BY <1>2 DEF CopyInv, LocalSame
  <2>5. CopyOK(i)'
    BY <1>1, <1>2, <2>2, <2>4, SameCopy
  <2>6. BaseOK(i)'
    BY <2>3, <2>4, MoveBase DEF Committed, Publishing
  <2> QED
    BY <1>1, <1>2, <2>3, <2>5, <2>6, QuietCopy DEF OthersSame
<1>6. CASE ClaimLogSlot(i)
  <2>1. PICK q \in {"cas", "probe"} : pc' = [pc EXCEPT ![i] = q]
    BY <1>6 DEF ClaimLogSlot
  <2>2. /\ slot' = [slot EXCEPT ![i] = [seq |-> slot[i].seq, ver |-> nver]] \/ UNCHANGED slot
        /\ UNCHANGED <<valid, view, done>> /\ pc[i] = "claim"
    BY <1>6 DEF ClaimLogSlot
  <2> QED
    BY <1>4, <2>1, <2>2 DEF Steps, Committed, Publishing
<1>7. CASE CommitRefused(i) \/ DropOwnSlot(i)
  <2>1. PICK q \in {"drop", "dropped"} : pc' = [pc EXCEPT ![i] = q]
    BY <1>7 DEF CommitRefused, DropOwnSlot
  <2>2. UNCHANGED <<valid, view, done, slot>> /\ pc[i] \in {"cas", "drop"}
    BY <1>7 DEF CommitRefused, DropOwnSlot
  <2> QED
    BY <1>4, <2>1, <2>2 DEF Steps, Committed, Publishing
<1>8. ASSUME Contended(i), pc[i] # "idle" PROVE CopyInv'
  <2>1. CASE pc' = [pc EXCEPT ![i] = "sync"] /\ slot' = [slot EXCEPT ![i] = NoSlot]
             /\ UNCHANGED <<valid, view, done>>
    <3>1. "sync" \in Steps \ Committed /\ "sync" \notin Publishing
      BY DEF Steps, Committed, Publishing
    <3> QED
      BY <1>4, <1>8, <2>1, <3>1
  <2> QED
    BY <1>3, <1>8, <2>1 DEF Contended, FinishErrors
<1>9. CASE ProbeManifest(i)
  <2>1. CASE pc' = [pc EXCEPT ![i] = "probehead"] /\ UNCHANGED <<valid, view, slot, done>>
    BY <1>4, <1>9, <2>1 DEF ProbeManifest, Steps, Committed, Publishing
  <2> QED
    BY <1>8, <1>9, <2>1 DEF ProbeManifest
<1>10. CASE ProbeHead(i)
  <2>1. ASSUME NEW q \in {"claim", "probe"}, pc' = [pc EXCEPT ![i] = q],
               NEW x, slot' = [slot EXCEPT ![i] = x] \/ UNCHANGED slot, UNCHANGED <<valid, view, done>>
        PROVE  CopyInv'
    BY <1>4, <1>10, <2>1 DEF ProbeHead, Steps, Committed, Publishing
  <2> QED
    BY <1>3, <1>10, <2>1 DEF ProbeHead, FinishErrors
<1>11. CASE ClaimFailed(i) \/ ProbeFailed(i) \/ Respond(i)
  BY <1>3, <1>11 DEF ClaimFailed, ProbeFailed, Respond, FinishErrors
<1>12. CASE RetryAfterDrop(i)
  BY <1>8, <1>12 DEF RetryAfterDrop
<1> QED
  BY <1>5, <1>6, <1>7, <1>9, <1>10, <1>11, <1>12

\* The publisher's steps after its commit but the one that installs it.
LEMMA CommittedCopy ==
  ASSUME IInv, CopyInv, NEW i \in Instances, MarkPending(i) \/ SweepBurned(i) \/ AbandonDelete(i)
  PROVE  CopyInv'
<1>1. UNCHANGED <<manifest, hist>> /\ UNCHANGED localVars /\ UNCHANGED <<valid, view, slot, done>>
  BY DEF MarkPending, SweepBurned, AbandonDelete, bucketVars, pubVars
<1>2. \A j \in Instances : LocalSame(j) /\ applied'[j] = applied[j]
  BY <1>1 DEF localVars, LocalSame
<1>3. CASE UNCHANGED pc
  BY <1>1, <1>2, <1>3, SameCopy, SameBase DEF CopyInv, AttemptSame
<1>4. CASE MarkPending(i)
  <2>1. \A j \in Instances \ {i} : pc'[j] = pc[j]
    BY <1>4 DEF IInv, TypeInv, TypeOK, MarkPending, PublisherTypeOK
  <2>2. OthersSame(i)
    BY <1>1, <1>2, <2>1 DEF OthersSame, AttemptSame
  <2>3. pc[i] \in Committed
    BY <1>4 DEF MarkPending, Committed
  <2> QED
    BY <1>1, <1>2, <2>2, <2>3, KeepCopy
<1> QED
  BY <1>3, <1>4 DEF SweepBurned, AbandonDelete, pubVars

\* So do the steps of a publisher.
LEMMA PublisherCopy ==
  ASSUME Replayable,
         IInv, OrderInv, CopyInv, Undisturbed, NEW i \in Instances, PublisherStep(i)
  PROVE  CopyInv'
<1>1. CASE PublisherSync(i)
  <2>1. PICK x : /\ x = IF hv[i] = mver THEN NoSync ELSE Fetched("publisher")
                 /\ sync' = [sync EXCEPT ![i] = x]
    BY <1>1 DEF PublisherSync
  <2>2. x.by = "none" \/ x.m = manifest
    BY <2>1 DEF NoSync, Fetched
  <2>3. /\ pc[i] = "sync" /\ pc'[i] \in {"sync", "verify"}
        /\ \A j \in Instances \ {i} : pc'[j] = pc[j]
    BY <1>1 DEF PublisherSync, IInv, TypeInv, TypeOK, PublisherTypeOK
  <2> QED
    BY <1>1, <2>1, <2>2, <2>3, FetchCopy DEF PublisherSync, bucketVars
<1>2. ~CommitLost(i)
  <2>1. faults.cas \in Nat /\ MaxLostCas = 0
    BY DEF IInv, NoAmbiguity, TypeInv, TypeOK, BucketTypeOK
  <2>2. ~(faults.cas < MaxLostCas)
    BY <2>1, SMTT(30), Z3T(30)
  <2> QED
    BY <2>2 DEF CommitLost
<1>3. ~CasLanded(i) /\ ~RecoverManifestVersion(i)
  BY DEF IInv, ViewsInv, AttemptOK, CasLanded, RecoverManifestVersion
<1> QED
  BY <1>1, <1>2, <1>3, VerifyCopy, AttemptCopy, CommittedCopy, CommitCopy, CommitLocalCopy DEF
     PublisherStep

\* At the start every copy is empty, as the log is.
LEMMA CopyInit == Init => CopyInv
<1> SUFFICES ASSUME Init, NEW i \in Instances PROVE CopyOK(i) /\ BaseOK(i)
  BY DEF CopyInv
<1>1. /\ hist = {} /\ manifest = NewManifest /\ open[i] = TRUE /\ hm[i] = NewManifest
      /\ refs[i] = NoRefs /\ applied[i] = 0 /\ saved[i] = 0 /\ sync[i] = NoSync /\ pc[i] = "idle"
  BY DEF Init
<1>2. NewManifest.head = 0 /\ NoSync.by = "none" /\ 0 <= 0
  <2>1. 0 <= 0
    BY SMTT(30), Z3T(30)
  <2> QED
    BY <2>1 DEF NewManifest, NoSync
<1>3. Mirrors(NoRefs, {}, 0)
  BY MirrorsNone, SMTT(30), Z3T(30)
<1> QED
  BY <1>1, <1>2, <1>3 DEF CopyOK, BaseOK, Committed, Publishing

\* Where the store never fails, commit_local is not disturbed.
LEMMA FaultlessInstall ==
  ASSUME IInv, MaxStoreErrors = 0, [Next]_vars
  PROVE  [Undisturbed]_vars
<1> SUFFICES ASSUME NEW i \in Instances, CommitLocal(i), faults' # faults PROVE FALSE
  BY DEF Undisturbed
<1>1. StoreError
  BY DEF CommitLocal, InstallCommit, ForgetVersion, bucketVars
<1>2. faults.store \in Nat
  BY DEF IInv, TypeInv, TypeOK, BucketTypeOK
<1> QED
  BY <1>1, <1>2, SMTT(30), Z3T(30) DEF StoreError

\* Every step keeps the copies, where commit_local is not disturbed by a sync.
LEMMA CopyNext ==
  /\ Replayable /\ IInv /\ OrderInv /\ ListingInv /\ CopyInv
  /\ [Undisturbed]_vars /\ [Next]_vars
  => CopyInv'
<1> SUFFICES ASSUME Replayable, IInv, OrderInv, ListingInv, CopyInv, [Undisturbed]_vars, [Next]_vars
             PROVE  CopyInv'
  BY SMTT(30), Z3T(30)
<1>1. ASSUME Undisturbed, NEW i \in Instances,
             ClientStep(i) \/ SyncStep(i) \/ PublisherStep(i) \/ Crash(i)
      PROVE  CopyInv'
  BY <1>1, ClientCopy, SyncCopy, PublisherCopy, CrashCopy
<1>2. CASE LandManifest
  BY <1>2, LandCopy
<1>3. CASE LandDelete \/ UNCHANGED vars
  <2>1. UNCHANGED <<manifest, hist>> /\ UNCHANGED localVars /\ UNCHANGED pubVars
    BY <1>3 DEF LandDelete, vars, bucketVars
  <2> QED
    BY <2>1, SameCopy, SameBase DEF CopyInv, localVars, pubVars, LocalSame, AttemptSame
<1> QED
  BY <1>1, <1>2, <1>3 DEF Next
=============================================================================
