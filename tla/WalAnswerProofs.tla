-------------------------- MODULE WalAnswerProofs ---------------------------
(***************************************************************************)
(* What clients are answered: a read is served from no older a log than    *)
(* the pushes acknowledged before it, and a push is rejected only where    *)
(* the log, at some moment since it arrived, disagreed with what it        *)
(* expects.  Each is answered once.                                        *)
(***************************************************************************)
EXTENDS WalFacts, WalAnswerInvariants, WalRefinement

\* A step that names no prover is for Zenon.  Where SMT is named, Z3 is a second attempt.
USE ZenonT(40)

-----------------------------------------------------------------------------
(* Copies of the log *)

\* The log up to the head stays as it is.
LogGrows ==
  /\ manifest.head <= manifest'.head /\ manifest'.head \in Nat /\ hist \subseteq hist'
  /\ \A s \in Nat : s <= manifest.head => RefsAt(s)' = RefsAt(s)

\* A step that leaves the log alone.
LEMMA LogStays ==
  ASSUME IInv, OrderInv, UNCHANGED <<manifest, hist>>
  PROVE  LogGrows
<1>1. \A s \in Nat : RefsAt(s)' = RefsAt(s)
  BY DEF RefsAt
<1>2. manifest.head \in Nat
  BY LogFacts
<1>3. manifest.head <= manifest.head
  BY <1>2, SMTT(30), Z3T(30)
<1> QED
  BY <1>1, <1>2, <1>3 DEF LogGrows

\* A commit.
LEMMA LogAppends ==
  ASSUME IInv, OrderInv, NEW m \in Manifests, NEW s \in Slots, NEW reqs \in Batches, Appends(m, s),
         manifest' = m, hist' = hist \cup EntriesAt(s.seq, reqs)
  PROVE  LogGrows
<1>1. s.seq \in Nat /\ manifest.head \in Nat /\ m.head \in Nat /\ s.seq > manifest.head
      /\ m.head >= s.seq
  BY LogFacts DEF Slots, Manifests, Appends
<1>2. manifest.head <= m.head
  BY <1>1, SMTT(30), Z3T(30)
<1>3. ASSUME NEW t \in Nat, t <= manifest.head PROVE RefsAt(t)' = RefsAt(t)
  <2>1. \A e \in EntriesAt(s.seq, reqs) : e.seq \in Nat /\ s.seq <= e.seq
    BY <1>1, EntriesAtFacts, EntryPlaces DEF Entries
  <2>2. \A x \in Nat : s.seq <= x => ~(x <= t)
    BY <1>1, <1>3, SMTT(30), Z3T(30)
  <2>3. {e \in hist' : e.seq <= t} = {e \in hist : e.seq <= t}
    BY <2>1, <2>2
  <2> QED
    BY <2>3 DEF RefsAt
<1> QED
  BY <1>1, <1>2, <1>3 DEF LogGrows

\* Every step of the system.
LEMMA LogNext ==
  ASSUME IInv, OrderInv, [Next]_vars
  PROVE  LogGrows
<1>1. ASSUME NEW i \in Instances, CommitManifest(i) PROVE LogGrows
  BY <1>1, CommitFacts, LogAppends
<1>2. ASSUME NEW i \in Instances, ClientStep(i) \/ SyncStep(i) \/ PublisherStep(i), ~CommitManifest(i)
      PROVE  LogGrows
  BY <1>2, LogFrame, NoneLost, LogStays
<1>3. ASSUME NEW i \in Instances, Crash(i) PROVE LogGrows
  BY <1>3, LogStays DEF Crash
<1>4. CASE LandManifest
  <2>1. CASE mver' = mver
    BY <1>4, <2>1, LandNothing, LogStays
  <2>2. CASE mver' # mver
    BY <1>4, <2>2, LandFacts, LogAppends
  <2> QED
    BY <2>1, <2>2
<1>5. CASE LandDelete \/ UNCHANGED vars
  BY <1>5, LogStays DEF LandDelete, vars, bucketVars
<1> QED
  BY <1>1, <1>2, <1>3, <1>4, <1>5 DEF Next

\* A copy that a step leaves alone is still the log up to some seq.
LEMMA SameRefs ==
  ASSUME IInv, LogGrows, NEW i \in Instances, CopyOK(i), refs'[i] = refs[i], applied'[i] = applied[i],
         NEW n \in Nat, n <= manifest.head, RefsUpTo(i, n), NEW m \in Nat, n <= m
  PROVE  RefsUpTo(i, m)'
<1>1. PICK s \in Nat : applied[i] <= s /\ s <= n /\ refs[i] = RefsAt(s)
  BY DEF RefsUpTo
<1>2. s <= m /\ s <= manifest.head
  <2>1. PICK h \in Nat : h = manifest.head
    BY CopyTypes DEF IInv
  <2>2. s <= m /\ s <= h
    BY <1>1, <2>1, SMTT(30), Z3T(30)
  <2> QED
    BY <2>1, <2>2
<1>3. RefsAt(s)' = RefsAt(s)
  BY <1>2 DEF LogGrows
<1>4. applied'[i] <= s /\ refs'[i] = RefsAt(s)'
  BY <1>1, <1>3
<1> QED
  BY <1>2, <1>4 DEF RefsUpTo

\* ... and an exact one is exact.
LEMMA SameExact ==
  ASSUME IInv, LogGrows, NEW i \in Instances, CopyOK(i), refs'[i] = refs[i], applied'[i] = applied[i],
         Exact(i)
  PROVE  Exact(i)'
<1>1. applied[i] \in Nat /\ applied[i] <= manifest.head
  BY CopyTypes DEF IInv, CopyOK
<1>2. RefsAt(applied[i])' = RefsAt(applied[i])
  <2>1. PICK a \in Nat : a = applied[i] /\ a <= manifest.head
    BY <1>1
  <2>2. RefsAt(a)' = RefsAt(a)
    BY <2>1 DEF LogGrows
  <2> QED
    BY <2>1, <2>2 DEF RefsAt
<1> QED
  BY <1>2 DEF Exact

\* A sync that fails leaves the copy as it is (no checkpoint, no snapshot to start from).
LEMMA FailedSame ==
  ASSUME IInv, ListingInv, CopyInv, NEW i \in Instances, SyncFailed(i)
  PROVE  /\ UNCHANGED <<manifest, hist, open, hm, hv, saved>> /\ sync' = [sync EXCEPT ![i] = NoSync]
         /\ \A j \in Instances : refs'[j] = refs[j] /\ applied'[j] = applied[j]
<1>1. UNCHANGED <<manifest, hist, open, hm, hv, saved>> /\ sync' = [sync EXCEPT ![i] = NoSync]
  BY DEF SyncFailed, bucketVars
<1>2. refs \in [Instances -> RefMaps] /\ applied \in [Instances -> Nat]
  BY DEF IInv, TypeInv, TypeOK, LocalTypeOK
<1>3. CASE UNCHANGED <<refs, applied>>
  BY <1>1, <1>3
<1>4. CASE /\ refs' = [refs EXCEPT ![i] = BaseRefs(i, sync[i].m)]
           /\ applied' = [applied EXCEPT ![i] = IF open[i] THEN BaseSeq(i, sync[i].m) ELSE saved[i]]
  <2>1. BaseRefs(i, sync[i].m) = refs[i] /\ BaseSeq(i, sync[i].m) = applied[i]
    BY NoSnapshot
  <2>2. ~open[i] => applied[i] = saved[i]
    BY DEF CopyInv, CopyOK
  <2> QED
    BY <1>1, <1>2, <1>4, <2>1, <2>2
<1> QED
  BY <1>3, <1>4 DEF SyncFailed

\* The other steps of a publisher touch neither the copy nor a request.
LEMMA CopyFrame ==
  ASSUME NEW i \in Instances, PublisherStep(i), ~PublisherSync(i), ~CommitLocal(i)
  PROVE  UNCHANGED localVars /\ UNCHANGED reader
<1>1. CASE TakeBatch(i) \/ VerifyBatch(i) \/ ClaimLogSlot(i) \/ ClaimFailed(i)
  BY <1>1 DEF TakeBatch, VerifyBatch, ClaimLogSlot, ClaimFailed, FinishErrors, clientVars
<1>2. CASE ProbeManifest(i) \/ ProbeHead(i) \/ ProbeFailed(i)
  BY <1>2 DEF ProbeManifest, ProbeHead, ProbeFailed, Contended, FinishErrors, clientVars
<1>3. CASE CommitManifest(i) \/ CommitRefused(i) \/ CommitLost(i) \/ CasLanded(i)
  BY <1>3 DEF CommitManifest, CommitRefused, CommitLost, CasLanded, FinishErrors, clientVars
<1>4. CASE MarkPending(i) \/ RecoverManifestVersion(i) \/ SweepBurned(i) \/ Respond(i)
  BY <1>4 DEF MarkPending, RecoverManifestVersion, SweepBurned, Respond, clientVars
<1>5. CASE DropOwnSlot(i) \/ RetryAfterDrop(i) \/ AbandonDelete(i)
  BY <1>5 DEF DropOwnSlot, RetryAfterDrop, AbandonDelete, Contended, FinishErrors, clientVars
<1> QED
  BY <1>1, <1>2, <1>3, <1>4, <1>5 DEF PublisherStep

\* A sync brings the copy to the manifest it fetched, whichever way it takes.
LEMMA SyncExact ==
  ASSUME Replayable, IInv, OrderInv, ListingInv, NEW i \in Instances, CopyOK(i), HandleOK(i),
         sync[i].by # "none", Apply(i)
  PROVE  /\ applied'[i] = sync[i].m.head /\ hm'[i] = sync[i].m
         /\ refs'[i] = RefsAt(sync[i].m.head)
<1>1. /\ refs \in [Instances -> RefMaps] /\ applied \in [Instances -> Nat]
      /\ saved \in [Instances -> Nat] /\ hm \in [Instances -> Manifests] /\ hv \in [Instances -> Nat]
      /\ sync[i].m \in Manifests /\ hm[i] \in Manifests
  BY DEF IInv, TypeInv, TypeOK, LocalTypeOK
<1>2. PICK a \in Nat, h \in Nat : a = applied[i] /\ h = sync[i].m.head /\ a <= h
  BY CopyTypes DEF IInv, CopyOK
<1>3. PICK s \in Nat : a <= s /\ s <= h /\ refs[i] = RefsAt(s)
  BY <1>2 DEF HandleOK, RefsUpTo
<1>4. CASE Install(i, sync[i])
  <2>1. /\ refs'[i] = ApplyEntries(refs[i], EntriesIn(sync[i].m, a))
        /\ applied'[i] = h /\ hm'[i] = sync[i].m
    BY <1>1, <1>2, <1>4, NoSnapshot DEF Install
  <2>2. PICK B : B = {e \in hist : e.seq > a /\ e.seq <= sync[i].m.head}
    OBVIOUS
  <2>3. EntriesIn(sync[i].m, a) = B
    BY <1>1, <2>2, EntriesRead DEF ListingInv
  <2>4. B \in SUBSET hist /\ \A e \in hist : e \in B <=> a < e.seq /\ e.seq <= h
    <3>1. \A n \in Nat : n > a <=> a < n
      BY SMTT(30), Z3T(30)
    <3> QED
      BY <1>2, <2>2, <3>1, LogFacts
  <2>5. Bridges(B, s, h)
    <3>1. hist \in SUBSET Entries /\ \A e, f \in hist : e.seq = f.seq => e = f
      BY LogFacts
    <3>2. a <= s /\ s <= h
      BY <1>3
    <3> QED
      BY <2>4, <3>1, <3>2, RefsReplayed
  <2> QED
    BY <1>2, <1>3, <2>1, <2>3, <2>5 DEF Bridges
<1>5. CASE ~Behind(i) /\ sync[i].by # "open" /\ UNCHANGED <<refs, applied, hm>>
  <2>1. PICK p \in Nat, q \in Nat : p = sync[i].m.rev /\ q = hm[i].rev
    BY <1>1 DEF Manifests
  <2>2. ~(p > q) /\ ~(hv[i] = 0 /\ p = q)
    BY <1>5, <2>1 DEF Behind
  <2>3. hm[i] = sync[i].m \/ q < p
    BY <2>1 DEF HandleOK
  <2>4. ~(q < p)
    BY <2>2, SMTT(30), Z3T(30)
  <2>5. hm[i] = sync[i].m /\ hv[i] # 0
    BY <2>1, <2>2, <2>3, <2>4
  <2>6. applied[i] = h /\ Exact(i)
    BY <1>2, <2>5 DEF HandleOK, CopyOK
  <2> QED
    BY <1>2, <1>5, <2>5, <2>6 DEF Exact
<1>6. CASE /\ ~Behind(i) /\ sync[i].by = "open" /\ hm' = [hm EXCEPT ![i] = sync[i].m]
           /\ UNCHANGED <<refs, applied>>
  <2>1. ~(a < h)
    BY <1>2, <1>6 DEF Behind
  <2>2. a <= s /\ s <= h
    BY <1>3
  <2>3. s = h /\ a = h
    BY <2>1, <2>2, SMTT(30), Z3T(30)
  <2> QED
    BY <1>1, <1>2, <1>3, <1>6, <2>3
<1> QED
  BY <1>4, <1>5, <1>6 DEF Apply

-----------------------------------------------------------------------------
(* Reads *)

\* An attempt that is verified on a copy finds it exact.
AttemptMoves(j) ==
  pc'[j] \in Working /\ view'[j].ver # 0 =>
    (pc[j] \in Working /\ view[j].ver # 0) \/ hv[j] # 0

\* An attempt that stays as it was begins with no new version.
LEMMA KeptMoves ==
  ASSUME NEW j, AttemptKept(j)
  PROVE  AttemptMoves(j)
  BY DEF AttemptMoves, AttemptKept, Working

\* verify_batch begins an attempt with the version the instance holds.
LEMMA VerifyMoves ==
  ASSUME IInv, NEW i \in Instances, VerifyBatch(i), NEW j \in Instances
  PROVE  AttemptMoves(j)
<1>0. TypeInv
  BY DEF IInv
<1>1. CASE ResetPublisher(i)
  BY <1>0, <1>1, ResetKept, KeptMoves
<1>2. CASE /\ view' = [view EXCEPT ![i] = [m |-> hm[i], ver |-> hv[i]]]
           /\ pc' = [pc EXCEPT ![i] = "claim"]
  <2>1. view'[i].ver = hv[i] /\ (j # i => pc'[j] = pc[j] /\ view'[j] = view[j])
    BY <1>0, <1>2 DEF TypeInv, TypeOK, PublisherTypeOK
  <2> QED
    BY <2>1 DEF AttemptMoves
<1> QED
  BY <1>1, <1>2 DEF VerifyBatch

\* What a step of somebody else does to an instance.
Bystander(j) == LocalSame(j) /\ AttemptMoves(j) /\ reader'[j] = reader[j]

\* A handle that a step leaves alone.
LEMMA StillHandle ==
  ASSUME IInv, LogGrows, ListingInv, NEW j \in Instances, CopyOK(j), HandleOK(j),
         LocalSame(j), AttemptMoves(j)
  PROVE  HandleOK(j)'
<1>1. /\ open'[j] = open[j] /\ applied'[j] = applied[j] /\ refs'[j] = refs[j]
      /\ sync'[j] = sync[j] /\ hm'[j] = hm[j] /\ hv'[j] = hv[j]
  BY DEF LocalSame
<1>2. PICK h \in Nat, k \in Nat, n \in Nat :
        h = manifest.head /\ k = manifest'.head /\ n = sync[j].m.head
  BY CopyTypes DEF IInv, LogGrows
<1>3. h <= h /\ n <= n /\ h <= k /\ n <= h
  <2>1. h <= k /\ n <= h
    BY <1>2 DEF LogGrows, ListingInv, Prefix
  <2> QED
    BY <2>1, SMTT(30), Z3T(30)
<1>4. RefsUpTo(j, k)'
  <2>1. RefsUpTo(j, h) /\ h <= manifest.head
    BY <1>2, <1>3 DEF HandleOK
  <2> QED
    BY <1>1, <1>3, <2>1, SameRefs
<1>5. sync[j].by # "none" => RefsUpTo(j, n)'
  <2>1. n <= manifest.head /\ (sync[j].by # "none" => RefsUpTo(j, n))
    BY <1>2, <1>3 DEF HandleOK
  <2> QED
    BY <1>1, <1>3, <2>1, SameRefs
<1>6. RefsUpTo(j, manifest.head)'
  BY <1>2, <1>4 DEF RefsUpTo
<1>7. sync'[j].by # "none" => RefsUpTo(j, sync[j].m.head)'
  BY <1>1, <1>2, <1>5 DEF RefsUpTo
<1>8. Exact(j) => Exact(j)'
  BY <1>1, SameExact
<1>9. pc'[j] \in Working /\ view'[j].ver # 0 => Exact(j)
  BY DEF AttemptMoves, HandleOK
<1> QED
  BY <1>1, <1>6, <1>7, <1>8, <1>9 DEF HandleOK

\* A request that a step leaves alone, or that ends.
LEMMA StillReader ==
  ASSUME NEW j \in Instances, ReaderOK(j), LocalSame(j),
         reader'[j] = reader[j] \/ (reader'[j] = NoReader /\ reader[j].pc # "sync")
  PROVE  ReaderOK(j)'
<1>1. open'[j] = open[j] /\ applied'[j] = applied[j] /\ sync'[j] = sync[j]
  BY DEF LocalSame
<1>2. CASE reader'[j] = reader[j]
  BY <1>1, <1>2 DEF ReaderOK, AckedBy
<1>3. CASE reader'[j] = NoReader /\ reader[j].pc # "sync"
  <2>1. NoReader.pc = "idle"
    BY DEF NoReader
  <2> QED
    BY <1>1, <1>3, <2>1 DEF ReaderOK
<1> QED
  BY <1>2, <1>3

\* When one instance moves, only its own copy is at stake.
LEMMA OneMoves ==
  ASSUME IInv, LogGrows, ListingInv, CopyInv, ReadInv, NEW i \in Instances,
         \A j \in Instances \ {i} : Bystander(j), HandleOK(i)', ReaderOK(i)'
  PROVE  ReadInv'
<1>1. ASSUME NEW j \in Instances, j # i PROVE HandleOK(j)' /\ ReaderOK(j)'
  <2>1. LocalSame(j) /\ AttemptMoves(j) /\ reader'[j] = reader[j]
    BY <1>1 DEF Bystander
  <2>2. CopyOK(j) /\ HandleOK(j) /\ ReaderOK(j)
    BY DEF CopyInv, ReadInv
  <2> QED
    BY <2>1, <2>2, StillHandle, StillReader
<1> QED
  BY <1>1 DEF ReadInv

\* When no copy moves, none is.
LEMMA NoneMoves ==
  ASSUME IInv, LogGrows, ListingInv, CopyInv, ReadInv,
         \A j \in Instances : Bystander(j)
  PROVE  ReadInv'
<1>1. ASSUME NEW j \in Instances PROVE HandleOK(j)' /\ ReaderOK(j)'
  <2>1. LocalSame(j) /\ AttemptMoves(j) /\ reader'[j] = reader[j]
    BY DEF Bystander
  <2>2. CopyOK(j) /\ HandleOK(j) /\ ReaderOK(j)
    BY DEF CopyInv, ReadInv
  <2> QED
    BY <2>1, <2>2, StillHandle, StillReader
<1> QED
  BY <1>1 DEF ReadInv

\* A handle while a sync starts, or ends without effect.
LEMMA FetchHandle ==
  ASSUME IInv, OrderInv, UNCHANGED <<manifest, hist>>, NEW i \in Instances, CopyOK(i), HandleOK(i),
         open'[i] = open[i] /\ hm'[i] = hm[i] /\ hv'[i] = hv[i] /\ refs'[i] = refs[i]
           /\ applied'[i] = applied[i],
         AttemptMoves(i), sync'[i].by = "none" \/ sync'[i].m = manifest
  PROVE  HandleOK(i)'
<1>1. LogGrows
  BY LogStays
<1>2. PICK h \in Nat : h = manifest.head
  BY LogFacts
<1>3. RefsUpTo(i, h)'
  <2>1. RefsUpTo(i, h) /\ h <= h
    BY <1>2, SMTT(30), Z3T(30) DEF HandleOK
  <2> QED
    BY <1>1, <1>2, <2>1, SameRefs
<1>4. RefsUpTo(i, manifest.head)'
  BY <1>2, <1>3 DEF RefsUpTo
<1>5. hm[i] = manifest \/ hm[i].rev < manifest.rev
  <2>1. hm[i] \in Manifests /\ manifest \in Manifests
    BY DEF IInv, TypeInv, TypeOK, LocalTypeOK, BucketTypeOK
  <2>2. PICK a \in Nat, b \in Nat : a = hm[i].rev /\ b = manifest.rev
    BY <2>1 DEF Manifests
  <2>3. a <= b /\ (a = b => hm[i] = manifest)
    BY <2>2 DEF IInv, ViewsInv, LocalOK, Past
  <2>4. a = b \/ a < b
    BY <2>3, SMTT(30), Z3T(30)
  <2> QED
    BY <2>2, <2>3, <2>4
<1>6. sync'[i].by # "none" =>
        (hm[i] = sync'[i].m \/ hm[i].rev < sync'[i].m.rev) /\ RefsUpTo(i, sync[i].m.head)'
  BY <1>4, <1>5 DEF RefsUpTo
<1>7. Exact(i) => Exact(i)'
  BY <1>1, SameExact
<1>8. pc'[i] \in Working /\ view'[i].ver # 0 => Exact(i)
  BY DEF AttemptMoves, HandleOK
<1> QED
  BY <1>4, <1>6, <1>7, <1>8 DEF HandleOK

\* What was acknowledged is committed.
LEMMA AckedBelowHead ==
  ASSUME IInv, OrderInv, NEW t \in AckedSeqs
  PROVE  t <= manifest.head
<1>1. PICK r \in Requests : resp[r].kind = "ok" /\ t = resp[r].seq
  BY DEF AckedSeqs
<1>2. PICK e \in hist : e = [seq |-> resp[r].seq, req |-> r]
  BY <1>1 DEF IInv, AckedCommitted
<1>3. e.seq = t
  BY <1>1, <1>2
<1> QED
  BY <1>2, <1>3, LogFacts

\* A request starts with a freshness check (sync_refs).
LEMMA StartReadStep ==
  ASSUME IInv, OrderInv, ListingInv, CopyInv, ReadInv, NEW i \in Instances, StartRead(i)
  PROVE  ReadInv'
<1>1. PICK x, y : /\ x = IF hv[i] = mver THEN NoSync ELSE Fetched("reader")
                  /\ y = [pc |-> IF hv[i] = mver THEN "read" ELSE "sync",
                          acked |-> AckedSeqs, since |-> HeadSeq]
                  /\ sync' = [sync EXCEPT ![i] = x] /\ reader' = [reader EXCEPT ![i] = y]
  BY DEF StartRead
<1>2. /\ UNCHANGED <<manifest, hist, open, hm, hv, refs, applied, saved>> /\ UNCHANGED pubVars
      /\ open[i]
  BY DEF StartRead, bucketVars
<1>3. /\ sync'[i] = x /\ reader'[i] = y
      /\ \A j \in Instances \ {i} : sync'[j] = sync[j] /\ reader'[j] = reader[j]
  BY <1>1 DEF IInv, TypeInv, TypeOK, LocalTypeOK, ClientTypeOK
<1>4. \A j \in Instances : AttemptMoves(j)
  BY <1>2 DEF AttemptMoves, pubVars
<1>5. \A j \in Instances \ {i} : Bystander(j)
  BY <1>2, <1>3, <1>4 DEF Bystander, LocalSame
<1>6. CopyOK(i) /\ HandleOK(i)
  BY DEF CopyInv, ReadInv
<1>7. x.by = "none" \/ x.m = manifest
  BY <1>1 DEF NoSync, Fetched
<1>8. HandleOK(i)'
  BY <1>2, <1>3, <1>4, <1>6, <1>7, FetchHandle
<1>9. ASSUME NEW n, n = manifest.head PROVE AckedBy(i, n)'
  <2>1. y.acked = AckedSeqs /\ y.since = n
    BY <1>1, <1>9 DEF HeadSeq
  <2>2. n <= n
    BY <1>9, LogFacts, SMTT(30), Z3T(30)
  <2> QED
    BY <1>3, <1>9, <2>1, <2>2, AckedBelowHead DEF AckedBy
<1>10. CASE hv[i] = mver
  <2>1. x = NoSync /\ x.by = "none" /\ y.pc = "read"
    BY <1>1, <1>10 DEF NoSync
  <2>2. applied[i] = manifest.head
    <3>1. hm[i] = manifest
      BY <1>10, CopyCurrent
    <3>2. hv[i] # 0
      <4>1. PICK v \in Nat : v = mver /\ v > 0
        BY BucketFacts DEF IInv, TypeInv, TypeOK, ViewsInv
      <4>2. v # 0
        BY <4>1, SMTT(30), Z3T(30)
      <4> QED
        BY <1>10, <4>1, <4>2
    <3> QED
      BY <1>6, <3>1, <3>2 DEF CopyOK
  <2>3. AckedBy(i, applied[i])'
    BY <1>2, <1>9, <2>2 DEF AckedBy
  <2> QED
    BY <1>2, <1>3, <1>5, <1>8, <2>1, <2>3, LogStays, OneMoves DEF ReaderOK
<1>11. CASE hv[i] # mver
  <2>1. x.by = "reader" /\ x.m = manifest /\ y.pc = "sync"
    BY <1>1, <1>11 DEF Fetched
  <2>2. AckedBy(i, sync[i].m.head)'
    BY <1>3, <1>9, <2>1 DEF AckedBy
  <2> QED
    BY <1>2, <1>3, <1>5, <1>8, <2>1, <2>2, LogStays, OneMoves DEF ReaderOK
<1> QED
  BY <1>10, <1>11

\* A publisher asks for the manifest, and so does whoever opens the repository.
LEMMA FetchStep ==
  ASSUME IInv, OrderInv, ListingInv, CopyInv, ReadInv, NEW i \in Instances,
         PublisherSync(i) \/ OpenRepo(i)
  PROVE  ReadInv'
<1>1. PICK x : /\ x = NoSync \/ x = Fetched("publisher") \/ x = Fetched("open")
               /\ sync' = [sync EXCEPT ![i] = x]
  <2>1. CASE PublisherSync(i)
    <3>1. PICK x : /\ x = IF hv[i] = mver THEN NoSync ELSE Fetched("publisher")
                   /\ sync' = [sync EXCEPT ![i] = x]
      BY <2>1 DEF PublisherSync
    <3> QED
      BY <3>1
  <2> QED
    BY <2>1 DEF OpenRepo
<1>2. /\ UNCHANGED <<manifest, hist, open, hm, hv, refs, applied, saved, reader>>
      /\ sync[i] = NoSync
  BY DEF PublisherSync, OpenRepo, Unlocked, bucketVars, clientVars
<1>3. sync'[i] = x /\ \A j \in Instances \ {i} : sync'[j] = sync[j]
  BY <1>1 DEF IInv, TypeInv, TypeOK, LocalTypeOK
<1>4. \A j \in Instances : AttemptMoves(j)
  <2>1. ~VerifyBatch(i)
    BY DEF PublisherSync, OpenRepo, VerifyBatch, CopyInv, CopyOK
  <2> QED
    BY <2>1, StepsKeep, KeptMoves DEF SyncStep, PublisherStep
<1>5. \A j \in Instances \ {i} : Bystander(j)
  BY <1>2, <1>3, <1>4 DEF Bystander, LocalSame
<1>6. CopyOK(i) /\ HandleOK(i) /\ ReaderOK(i)
  BY DEF CopyInv, ReadInv
<1>7. /\ x.by = "none" \/ x.m = manifest
      /\ x.by # "reader" /\ NoSync.by # "reader"
  <2>1. NoSync.by = "none"
    BY DEF NoSync
  <2>2. Fetched("publisher").by = "publisher" /\ Fetched("publisher").m = manifest
    BY DEF Fetched
  <2>3. Fetched("open").by = "open" /\ Fetched("open").m = manifest
    BY DEF Fetched
  <2> QED
    BY <1>1, <2>1, <2>2, <2>3
<1>8. HandleOK(i)'
  BY <1>2, <1>3, <1>4, <1>6, <1>7, FetchHandle
<1>9. ReaderOK(i)'
  BY <1>2, <1>3, <1>6, <1>7 DEF ReaderOK, AckedBy
<1> QED
  BY <1>2, <1>5, <1>8, <1>9, LogStays, OneMoves

\* What is up to n is up to any later seq.
LEMMA AckedLater ==
  ASSUME TypeInv, NEW i \in Instances, NEW n \in Nat, NEW m \in Nat, n <= m, AckedBy(i, n)
  PROVE  AckedBy(i, m)
<1>1. reader[i].since \in Nat /\ reader[i].acked \in SUBSET Nat
  BY DEF TypeInv, TypeOK, ClientTypeOK
<1>2. \A t \in Nat : t <= n => t <= m
  BY SMTT(30), Z3T(30)
<1> QED
  BY <1>1, <1>2 DEF AckedBy

\* After a sync the copy is exact, and the request that asked for it reads on.
LEMMA SyncDoneStep ==
  ASSUME Replayable, IInv, OrderInv, ListingInv, CopyInv, ReadInv, NEW i \in Instances, SyncDone(i)
  PROVE  ReadInv'
<1>1. UNCHANGED <<manifest, hist>> /\ sync[i].by # "none" /\ Apply(i)
  BY DEF SyncDone, bucketVars
<1>2. /\ sync'[i] = NoSync /\ open'[i] = TRUE
      /\ \A j \in Instances \ {i} : sync'[j] = sync[j] /\ open'[j] = open[j]
  BY DEF IInv, TypeInv, TypeOK, SyncDone, LocalTypeOK
<1>3. /\ reader'[i].pc = IF sync[i].by = "reader" THEN "read" ELSE reader[i].pc
      /\ reader'[i].acked = reader[i].acked /\ reader'[i].since = reader[i].since
      /\ \A j \in Instances \ {i} : reader'[j] = reader[j]
  BY DEF IInv, TypeInv, TypeOK, SyncDone, ClientTypeOK
<1>4. \A j \in Instances \ {i} : /\ refs'[j] = refs[j] /\ applied'[j] = applied[j]
                                 /\ saved'[j] = saved[j] /\ hm'[j] = hm[j] /\ hv'[j] = hv[j]
  BY <1>1 DEF IInv, TypeInv, TypeOK, Apply, Install, LocalTypeOK
<1>5. \A j \in Instances : AttemptMoves(j)
  <2>1. ~VerifyBatch(i)
    <3>1. NoSync.by = "none"
      BY DEF NoSync
    <3> QED
      BY <1>1, <3>1 DEF VerifyBatch, Unlocked
  <2> QED
    BY <2>1, StepsKeep, KeptMoves DEF SyncStep
<1>6. \A j \in Instances \ {i} : Bystander(j)
  BY <1>2, <1>3, <1>4, <1>5 DEF Bystander, LocalSame
<1>7. CopyOK(i) /\ HandleOK(i) /\ ReaderOK(i) /\ TypeInv
  BY DEF CopyInv, ReadInv, IInv
<1>8. PICK a \in Nat, h \in Nat : /\ a = applied[i] /\ h = sync[i].m.head /\ a <= h
                                 /\ h <= manifest.head
  BY <1>1, <1>7, CopyTypes DEF CopyOK, ListingInv, Prefix
<1>9. applied'[i] = h /\ hm'[i] = sync[i].m /\ refs'[i] = RefsAt(h)
  BY <1>1, <1>7, <1>8, SyncExact
<1>10. RefsAt(h)' = RefsAt(h)
  BY <1>1 DEF RefsAt
<1>11. NoSync.by = "none"
  BY DEF NoSync
<1>12. HandleOK(i)'
  <2>1. Exact(i)'
    BY <1>9, <1>10 DEF Exact
  <2>2. h <= h
    BY SMTT(30), Z3T(30)
  <2>3. RefsUpTo(i, manifest.head)'
    BY <1>1, <1>8, <1>9, <1>10, <2>2 DEF RefsUpTo
  <2> QED
    BY <1>2, <1>8, <1>9, <1>11, <2>1, <2>3 DEF HandleOK
<1>13. ReaderOK(i)'
  <2>1. reader[i].pc = "read" => AckedBy(i, h)
    BY <1>7, <1>8, AckedLater DEF ReaderOK
  <2>2. reader[i].pc = "sync" => AckedBy(i, h)
    BY <1>7, <1>8 DEF ReaderOK
  <2>3. reader'[i].pc = "read" => AckedBy(i, applied[i])'
    BY <1>3, <1>7, <1>9, <2>1, <2>2 DEF AckedBy, ReaderOK
  <2>4. reader'[i].pc # "sync"
    BY <1>3, <1>7 DEF ReaderOK
  <2> QED
    BY <1>2, <1>11, <2>3, <2>4 DEF ReaderOK
<1> QED
  BY <1>1, <1>6, <1>12, <1>13, LogStays, OneMoves

\* A request whose sync fails reads nothing.
LEMMA SyncFailedStep ==
  ASSUME IInv, OrderInv, ListingInv, CopyInv, ReadInv, NEW i \in Instances, SyncFailed(i)
  PROVE  ReadInv'
<1>1. /\ UNCHANGED <<manifest, hist, open, hm, hv, saved>> /\ sync' = [sync EXCEPT ![i] = NoSync]
      /\ \A j \in Instances : refs'[j] = refs[j] /\ applied'[j] = applied[j]
      /\ sync[i].by # "none"
  BY FailedSame DEF SyncFailed
<1>2. sync'[i] = NoSync /\ \A j \in Instances \ {i} : sync'[j] = sync[j]
  BY <1>1 DEF IInv, TypeInv, TypeOK, LocalTypeOK
<1>3. /\ reader'[i] = (IF sync[i].by = "reader" THEN NoReader ELSE reader[i])
      /\ \A j \in Instances \ {i} : reader'[j] = reader[j]
  <2>1. CASE sync[i].by = "publisher"
    <3>1. UNCHANGED reader
      BY <2>1 DEF SyncFailed, FinishErrors
    <3> QED
      BY <2>1, <3>1
  <2>2. CASE sync[i].by # "publisher"
    <3>1. PICK y : /\ y = IF sync[i].by = "reader" THEN NoReader ELSE reader[i]
                   /\ reader' = [reader EXCEPT ![i] = y]
      BY <2>2 DEF SyncFailed
    <3> QED
      BY <3>1 DEF IInv, TypeInv, TypeOK, ClientTypeOK
  <2> QED
    BY <2>1, <2>2
<1>4. NoSync.by = "none" /\ NoReader.pc = "idle"
  BY DEF NoSync, NoReader
<1>5. \A j \in Instances : AttemptMoves(j)
  <2>1. ~VerifyBatch(i)
    BY <1>1, <1>4 DEF VerifyBatch, Unlocked
  <2> QED
    BY <2>1, StepsKeep, KeptMoves DEF SyncStep
<1>6. \A j \in Instances \ {i} : Bystander(j)
  BY <1>1, <1>2, <1>3, <1>5 DEF Bystander, LocalSame
<1>7. CopyOK(i) /\ HandleOK(i) /\ ReaderOK(i)
  BY DEF CopyInv, ReadInv
<1>8. HandleOK(i)'
  BY <1>1, <1>2, <1>4, <1>5, <1>7, FetchHandle
<1>9. ReaderOK(i)'
  <2>1. CASE reader'[i] = NoReader
    BY <1>2, <1>4, <2>1 DEF ReaderOK
  <2>2. CASE sync[i].by # "reader" /\ reader'[i] = reader[i]
    BY <1>1, <1>2, <1>4, <1>7, <2>2 DEF ReaderOK, AckedBy
  <2> QED
    BY <1>3, <2>1, <2>2
<1> QED
  BY <1>1, <1>6, <1>8, <1>9, LogStays, OneMoves

\* commit_local installs a batch on an exact copy, or stops after a part of it.
LEMMA CommitLocalStep ==
  ASSUME Replayable, IInv, OrderInv, ListingInv, CopyInv, ReadInv, Undisturbed, Unovertaken,
         NEW i \in Instances, CommitLocal(i)
  PROVE  ReadInv'
<1>1. /\ UNCHANGED <<manifest, hist, open, sync, valid, view, slot, done, reader>>
      /\ pc[i] = "local" /\ sync[i] = NoSync /\ pc' = [pc EXCEPT ![i] = "sweep"]
  BY DEF CommitLocal, Unlocked, bucketVars, clientVars
<1>2. CopyOK(i) /\ BaseOK(i) /\ HandleOK(i) /\ ReaderOK(i) /\ pc[i] \in Committed /\ open[i]
  BY <1>1 DEF CopyInv, CopyOK, ReadInv, Committed
<1>3. /\ refs \in [Instances -> RefMaps] /\ applied \in [Instances -> Nat]
      /\ saved \in [Instances -> Nat] /\ hm \in [Instances -> Manifests] /\ hv \in [Instances -> Nat]
      /\ pc'[i] = "sweep" /\ \A j \in Instances \ {i} : pc'[j] = pc[j]
  BY <1>1 DEF IInv, TypeInv, TypeOK, LocalTypeOK, PublisherTypeOK
<1>4. PICK B : B = EntriesAt(slot[i].seq, valid[i])
  OBVIOUS
<1>5. PICK v, a, l : v = view[i].m.head /\ a = applied[i] /\ l = LastSeq(i)
  OBVIOUS
<1>6. /\ B \in SUBSET hist /\ l \in Nat
      /\ \A e \in hist : e \in B <=> v < e.seq /\ e.seq <= l
  BY <1>2, <1>4, <1>5, OwnEntries
<1>7. v \in Nat /\ a \in Nat /\ v <= a /\ a <= l /\ refs[i] = RefsAt(a)
      /\ l <= manifest.head /\ done[i].ver # 0 /\ done[i].m.head = l
  <2>1. v \in Nat /\ a \in Nat
    BY <1>5, CopyTypes DEF IInv
  <2>2. v <= a /\ l <= manifest.head /\ done[i].ver # 0 /\ done[i].m.head = l
    BY <1>2, <1>5 DEF BaseOK, Committed, Publishing
  <2>3. Exact(i)
    BY <1>1, <1>2 DEF BaseOK, HandleOK, Working, Publishing
  <2> QED
    BY <1>5, <2>1, <2>2, <2>3 DEF Exact, Unovertaken
<1>8. hist \in SUBSET Entries /\ \A e, f \in hist : e.seq = f.seq => e = f
  BY LogFacts
<1>9. NoSync.by = "none" /\ \A n \in Nat : RefsAt(n)' = RefsAt(n)
  BY <1>1 DEF NoSync, RefsAt
<1>10. ASSUME InstallCommit(i) PROVE HandleOK(i)' /\ ReaderOK(i)'
  <2>1. /\ refs'[i] = ApplyEntries(RefsAt(a), B) /\ hm'[i] = done[i].m /\ applied'[i] = l
    BY <1>3, <1>4, <1>5, <1>7, <1>10 DEF InstallCommit
  <2>2. Bridges(B, a, l)
    <3>1. v <= a /\ a <= l
      BY <1>7
    <3> QED
      BY <1>6, <1>7, <1>8, <3>1, RefsReplayed
  <2>3. refs'[i] = RefsAt(l)' /\ l <= l
    <3>1. l <= l
      BY <1>6, SMTT(30), Z3T(30)
    <3> QED
      BY <1>6, <1>9, <2>1, <2>2, <3>1 DEF Bridges
  <2>4. Exact(i)' /\ RefsUpTo(i, manifest.head)'
    BY <1>1, <1>6, <1>7, <2>1, <2>3 DEF Exact, RefsUpTo
  <2>5. HandleOK(i)'
    BY <1>1, <1>7, <1>9, <2>1, <2>4 DEF HandleOK
  <2>6. reader[i].pc = "read" => AckedBy(i, l)
    BY <1>2, <1>5, <1>6, <1>7, AckedLater DEF ReaderOK, IInv
  <2>7. ReaderOK(i)'
    BY <1>1, <1>2, <1>9, <2>1, <2>6 DEF ReaderOK, AckedBy
  <2> QED
    BY <2>5, <2>7
<1>11. ASSUME ForgetVersion(i) PROVE HandleOK(i)' /\ ReaderOK(i)'
  <2>1. UNCHANGED <<hm, applied, saved>> /\ hv' = [hv EXCEPT ![i] = 0] /\ StoreError
    BY <1>7, <1>11 DEF ForgetVersion
  <2>2. PICK n \in 0..Len(valid[i]) :
          refs' = [refs EXCEPT ![i] = ApplyEntries(@, EntriesAt(slot[i].seq, SubSeq(valid[i], 1, n)))]
    BY <1>7, <1>11 DEF ForgetVersion
  <2>3. PICK C : C = EntriesAt(slot[i].seq, SubSeq(valid[i], 1, n))
    OBVIOUS
  <2>4. PICK f \in Nat, k \in Nat : f = slot[i].seq /\ k = Len(valid[i]) /\ n \in Nat /\ n <= k
                                  /\ valid[i] \in Batches /\ l = f + k - 1
    <3>1. slot[i].seq \in Nat /\ valid[i] \in Batches
      BY CopyTypes DEF IInv
    <3> QED
      BY <1>5, <3>1, BatchFacts, PrefixIsBatch DEF LastSeq
  <2>5. a < f
    <3>1. faults' # faults
      <4>1. faults \in [crash : Nat, store : Nat, cas : Nat]
        BY DEF IInv, TypeInv, TypeOK, BucketTypeOK
      <4> QED
        BY <2>1, <4>1, SMTT(30), Z3T(30) DEF StoreError
    <3> QED
      BY <1>5, <2>4, <3>1 DEF Undisturbed
  <2>6. PICK t \in Nat : t = f + n - 1 /\ a <= t /\ t <= l
    <3>1. a \in Nat /\ n \in Nat /\ n <= k
      BY <1>7, <2>4
    <3>2. f + n - 1 \in Nat /\ a <= f + n - 1 /\ f + n - 1 <= f + k - 1
      BY <2>5, <3>1, SMTT(30), Z3T(30)
    <3> QED
      BY <2>4, <3>2
  <2>7. C \in SUBSET hist /\ \A e \in hist : e \in C <=> v < e.seq /\ e.seq <= t
    <3>1. C \subseteq B /\ \A e \in B : e \in C <=> e.seq <= t
      BY <1>4, <2>3, <2>4, <2>6, FirstEntries
    <3>2. \A x \in Nat : x <= t => x <= l
      BY <1>6, <2>6, SMTT(30), Z3T(30)
    <3>3. \A e \in hist : e.seq \in Nat
      BY LogFacts
    <3> QED
      BY <1>6, <3>1, <3>2, <3>3
  <2>8. Bridges(C, a, t)
    <3>1. v <= a /\ a <= t
      BY <1>7, <2>6
    <3> QED
      BY <1>7, <1>8, <2>7, <3>1, RefsReplayed
  <2>9. refs'[i] = RefsAt(t)' /\ hv'[i] = 0 /\ applied'[i] = a
    BY <1>3, <1>5, <1>7, <1>9, <2>1, <2>2, <2>3, <2>8 DEF Bridges
  <2>10. t <= manifest.head
    <3>1. PICK h \in Nat : h = manifest.head
      BY LogFacts
    <3>2. t <= l /\ l <= h
      BY <1>7, <2>6, <3>1
    <3>3. t <= h
      BY <1>6, <3>2, SMTT(30), Z3T(30)
    <3> QED
      BY <3>1, <3>3
  <2>11. RefsUpTo(i, manifest.head)'
    BY <1>1, <2>6, <2>9, <2>10 DEF RefsUpTo
  <2>12. HandleOK(i)'
    BY <1>1, <1>2, <1>3, <1>9, <2>1, <2>9, <2>11 DEF HandleOK, Working
  <2>13. ReaderOK(i)'
    BY <1>1, <1>2, <2>1 DEF ReaderOK, AckedBy
  <2> QED
    BY <2>12, <2>13
<1>12. \A j \in Instances \ {i} : Bystander(j)
  <2>1. \A j \in Instances \ {i} : /\ refs'[j] = refs[j] /\ applied'[j] = applied[j]
                                   /\ saved'[j] = saved[j] /\ hm'[j] = hm[j] /\ hv'[j] = hv[j]
    <3>1. CASE InstallCommit(i)
      BY <1>3, <3>1 DEF InstallCommit
    <3>2. CASE ForgetVersion(i)
      BY <1>3, <3>2 DEF ForgetVersion
    <3> QED
      BY <3>1, <3>2 DEF CommitLocal
  <2>2. \A j \in Instances \ {i} : AttemptMoves(j)
    BY <1>1, <1>3 DEF AttemptMoves
  <2> QED
    BY <1>1, <2>1, <2>2 DEF Bystander, LocalSame
<1>13. HandleOK(i)' /\ ReaderOK(i)'
  BY <1>10, <1>11 DEF CommitLocal
<1> QED
  BY <1>1, <1>12, <1>13, LogStays, OneMoves

\* The next process starts from what was saved, or from nothing.
LEMMA CrashRead ==
  ASSUME IInv, OrderInv, ListingInv, CopyInv, ReadInv, NEW i \in Instances, Crash(i)
  PROVE  ReadInv'
<1>1. /\ UNCHANGED <<manifest, hist>> /\ ResetPublisher(i)
      /\ open' = [open EXCEPT ![i] = FALSE] /\ hm' = [hm EXCEPT ![i] = NewManifest]
      /\ hv' = [hv EXCEPT ![i] = 0] /\ sync' = [sync EXCEPT ![i] = NoSync]
      /\ reader' = [reader EXCEPT ![i] = NoReader]
      /\ \/ applied' = [applied EXCEPT ![i] = saved[i]] /\ UNCHANGED <<refs, saved>>
         \/ /\ refs' = [refs EXCEPT ![i] = NoRefs] /\ saved' = [saved EXCEPT ![i] = 0]
            /\ applied' = [applied EXCEPT ![i] = 0]
  BY DEF Crash
<1>2. CopyOK(i) /\ HandleOK(i) /\ NoSync.by = "none" /\ NoReader.pc = "idle"
  BY DEF CopyInv, ReadInv, NoSync, NoReader
<1>3. /\ open'[i] = FALSE /\ hv'[i] = 0 /\ sync'[i] = NoSync /\ reader'[i] = NoReader
      /\ \A j \in Instances \ {i} : LocalSame(j) /\ reader'[j] = reader[j]
  BY <1>1 DEF IInv, TypeInv, TypeOK, LocalSame, LocalTypeOK, ClientTypeOK
<1>4. TypeInv /\ \A j \in Instances : AttemptMoves(j)
  BY <1>1, ResetKept, KeptMoves DEF IInv
<1>5. pc'[i] = "idle" /\ \A n \in Nat : RefsAt(n)' = RefsAt(n)
  BY <1>1, <1>4, ResetPlaces DEF RefsAt
<1>6. PICK h \in Nat : h = manifest.head
  BY LogFacts
<1>7. \E s \in Nat : applied'[i] <= s /\ s <= h /\ refs'[i] = RefsAt(s)
  <2>1. CASE applied' = [applied EXCEPT ![i] = saved[i]] /\ UNCHANGED <<refs, saved>>
    <3>1. applied'[i] = saved[i] /\ refs'[i] = refs[i]
      BY <2>1 DEF IInv, TypeInv, TypeOK, LocalTypeOK
    <3>2. PICK s \in Nat : applied[i] <= s /\ s <= h /\ refs[i] = RefsAt(s)
      BY <1>2, <1>6 DEF HandleOK, RefsUpTo
    <3>3. PICK a \in Nat, d \in Nat : a = applied[i] /\ d = saved[i] /\ d <= a
      BY <1>2, <1>4, CopyTypes DEF CopyOK
    <3>4. a <= s
      BY <3>2, <3>3
    <3>5. d <= s
      BY <3>3, <3>4, SMTT(30), Z3T(30)
    <3> QED
      BY <3>1, <3>2, <3>3, <3>5
  <2>2. CASE /\ refs' = [refs EXCEPT ![i] = NoRefs] /\ applied' = [applied EXCEPT ![i] = 0]
    <3>1. applied'[i] = 0 /\ refs'[i] = NoRefs
      BY <2>2 DEF IInv, TypeInv, TypeOK, LocalTypeOK
    <3>2. 0 \in Nat /\ 0 <= 0 /\ 0 <= h /\ \A x \in Nat : x > 0 => ~(x <= 0)
      BY SMTT(30), Z3T(30)
    <3>3. {e \in hist : e.seq <= 0} = {}
      BY <3>2, LogFacts
    <3>4. RefsAt(0) = NoRefs
      BY <3>3 DEF RefsAt, ApplyEntries, NoRefs
    <3> QED
      BY <3>1, <3>2, <3>4
  <2> QED
    BY <1>1, <2>1, <2>2
<1>8. RefsUpTo(i, manifest.head)'
  BY <1>1, <1>5, <1>6, <1>7 DEF RefsUpTo
<1>9. HandleOK(i)'
  BY <1>2, <1>3, <1>5, <1>8 DEF HandleOK, Working, Publishing
<1>10. ReaderOK(i)'
  BY <1>2, <1>3 DEF ReaderOK
<1>11. \A j \in Instances \ {i} : Bystander(j)
  BY <1>3, <1>4 DEF Bystander
<1> QED
  BY <1>1, <1>9, <1>10, <1>11, LogStays, OneMoves

\* Requests come, start and end.
LEMMA ClientRead ==
  ASSUME IInv, OrderInv, ListingInv, CopyInv, ReadInv, NEW i \in Instances, ClientStep(i)
  PROVE  ReadInv'
<1>1. CASE ~StartRead(i)
  <2>1. UNCHANGED localVars /\ UNCHANGED <<manifest, hist>> /\ UNCHANGED pubVars
    BY <1>1 DEF ClientStep, PublishPush, PublishPushSynced, FinishRead, bucketVars
  <2>2. \A j \in Instances : LocalSame(j) /\ AttemptMoves(j)
    BY <2>1 DEF localVars, LocalSame, pubVars, AttemptMoves
  <2>3. \/ UNCHANGED reader
        \/ reader[i].pc = "read" /\ reader' = [reader EXCEPT ![i] = NoReader]
    BY <1>1 DEF ClientStep, PublishPush, PublishPushSynced, FinishRead
  <2>4. \A j \in Instances : \/ reader'[j] = reader[j]
                             \/ reader'[j] = NoReader /\ reader[j].pc # "sync"
    BY <2>3 DEF IInv, TypeInv, TypeOK, ClientTypeOK
  <2>5. ASSUME NEW j \in Instances PROVE HandleOK(j)' /\ ReaderOK(j)'
    <3>1. CopyOK(j) /\ HandleOK(j) /\ ReaderOK(j)
      BY DEF CopyInv, ReadInv
    <3>2. LogGrows
      BY <2>1, LogStays
    <3> QED
      BY <2>2, <2>4, <3>1, <3>2, StillHandle, StillReader
  <2> QED
    BY <2>5 DEF ReadInv
<1> QED
  BY <1>1, StartReadStep

\* Every step keeps what the copies and the readers rely on.
LEMMA ReadNext ==
  /\ Replayable /\ IInv /\ OrderInv /\ ListingInv /\ CopyInv /\ ReadInv
  /\ [Undisturbed]_vars /\ [Unovertaken]_vars /\ [Next]_vars
  => ReadInv'
<1> SUFFICES ASSUME Replayable, IInv, OrderInv, ListingInv, CopyInv, ReadInv,
                    [Undisturbed]_vars, [Unovertaken]_vars, [Next]_vars
             PROVE  ReadInv'
  OBVIOUS
<1>0. LogGrows
  BY LogNext
<1>1. ASSUME NEW i \in Instances, PublisherStep(i), ~PublisherSync(i), ~CommitLocal(i)
      PROVE  ReadInv'
  <2>1. UNCHANGED localVars /\ UNCHANGED reader
    BY <1>1, CopyFrame
  <2>2. \A j \in Instances : AttemptMoves(j)
    <3>1. CASE VerifyBatch(i)
      BY <3>1, VerifyMoves
    <3>2. CASE ~VerifyBatch(i)
      BY <1>1, <3>2, StepsKeep, KeptMoves
    <3> QED
      BY <3>1, <3>2
  <2>3. \A j \in Instances : Bystander(j)
    BY <2>1, <2>2 DEF Bystander, LocalSame, localVars
  <2> QED
    BY <1>0, <2>3, NoneMoves
<1>2. ASSUME Undisturbed, Unovertaken, NEW i \in Instances, PublisherStep(i) PROVE ReadInv'
  BY <1>1, <1>2, FetchStep, CommitLocalStep
<1>3. ASSUME NEW i \in Instances, SyncStep(i) PROVE ReadInv'
  BY <1>3, FetchStep, SyncDoneStep, SyncFailedStep DEF SyncStep
<1>4. CASE LandManifest \/ LandDelete \/ UNCHANGED vars
  <2>1. UNCHANGED localVars /\ UNCHANGED pubVars /\ UNCHANGED reader
    BY <1>4 DEF LandManifest, LandDelete, vars, clientVars
  <2>2. \A j \in Instances : Bystander(j)
    BY <2>1 DEF Bystander, LocalSame, localVars, AttemptMoves, pubVars
  <2> QED
    BY <1>0, <2>2, NoneMoves
<1>5. CASE UNCHANGED vars
  BY <1>4, <1>5
<1> QED
  BY <1>2, <1>3, <1>4, <1>5, ClientRead, CrashRead DEF Next

\* At the start every copy is empty, as the log is, and nobody reads.
LEMMA ReadInit == Init => ReadInv
<1> SUFFICES ASSUME Init, NEW i \in Instances PROVE HandleOK(i) /\ ReaderOK(i)
  BY DEF ReadInv
<1>1. /\ hist = {} /\ manifest = NewManifest /\ open[i] = TRUE /\ hm[i] = NewManifest
      /\ refs[i] = NoRefs /\ applied[i] = 0 /\ sync[i] = NoSync /\ pc[i] = "idle"
      /\ reader[i] = NoReader
  BY DEF Init
<1>2. NewManifest.head = 0 /\ NoSync.by = "none" /\ NoReader.pc = "idle" /\ 0 <= 0 /\ 0 \in Nat
  <2>1. 0 <= 0 /\ 0 \in Nat
    BY SMTT(30), Z3T(30)
  <2> QED
    BY <2>1 DEF NewManifest, NoSync, NoReader
<1>3. RefsAt(0) = NoRefs
  <2>1. {e \in hist : e.seq <= 0} = {}
    BY <1>1
  <2> QED
    BY <2>1 DEF RefsAt, ApplyEntries, NoRefs
<1> QED
  BY <1>1, <1>2, <1>3 DEF HandleOK, ReaderOK, Exact, RefsUpTo, Working, Publishing

\* What a request reads is the log up to a seq that covers what was acknowledged
\* when it arrived.
LEMMA ReadsCovered == IInv /\ OrderInv /\ CopyInv /\ ReadInv => ReadsSeeAcked
<1> SUFFICES ASSUME IInv, OrderInv, CopyInv, ReadInv PROVE ReadsSeeAcked
  OBVIOUS
<1> SUFFICES ASSUME NEW i \in Instances, reader[i].pc = "read"
             PROVE  \E s \in 0..HeadSeq : /\ \A t \in reader[i].acked : t <= s
                                          /\ refs[i] = RefsAt(s)
  BY DEF ReadsSeeAcked
<1>1. HandleOK(i) /\ ReaderOK(i) /\ TypeInv
  BY DEF ReadInv, IInv
<1>2. PICK s \in Nat : applied[i] <= s /\ s <= manifest.head /\ refs[i] = RefsAt(s)
  BY <1>1 DEF HandleOK, RefsUpTo
<1>3. AckedBy(i, applied[i]) /\ applied[i] \in Nat
  BY <1>1, CopyTypes DEF ReaderOK
<1>4. AckedBy(i, s)
  BY <1>1, <1>2, <1>3, AckedLater
<1>5. s \in 0..HeadSeq
  <2>1. PICK h \in Nat : h = manifest.head
    BY LogFacts
  <2>2. s <= h
    BY <1>2, <2>1
  <2>3. s \in 0..h
    BY <2>2, SMTT(30), Z3T(30)
  <2> QED
    BY <2>1, <2>3 DEF HeadSeq
<1> QED
  BY <1>2, <1>4, <1>5 DEF AckedBy

-----------------------------------------------------------------------------
(* Requests and what they are verified on *)

\* What waits keeps its arrival.
ArrivalsKept == \A j \in Instances : \A r \in Waiting(j) : since'[r] = since[r]

\* What is up to n is up to any later seq.
LEMMA ArrivedLater ==
  ASSUME TypeInv, NEW rs \in SUBSET Requests, NEW n \in Nat, NEW m \in Nat, n <= m, ArrivedBy(rs, n)
  PROVE  ArrivedBy(rs, m)
<1>1. \A r \in rs : since[r] \in Nat \cup {-1}
  BY DEF TypeInv, TypeOK, ClientTypeOK
<1>2. \A t \in Nat \cup {-1} : t <= n => t <= m
  BY SMTT(30), Z3T(30)
<1> QED
  BY <1>1, <1>2 DEF ArrivedBy

\* The requests of a batch.
LEMMA BatchRequests ==
  ASSUME TypeInv, NEW j \in Instances
  PROVE  Elements(batch[j]) \in SUBSET Requests /\ Elements(batch[j]) \in SUBSET Waiting(j)
<1>1. batch[j] \in Batches
  BY DEF TypeInv, TypeOK, PublisherTypeOK
<1> QED
  BY <1>1, BatchFacts DEF Elements, Waiting

\* A queue that stays, while the copy does not go back.
LEMMA QueueStays ==
  ASSUME TypeInv, ArrivalsKept, NEW j \in Instances, QueueArrived(j), queue'[j] = queue[j],
         applied'[j] \in Nat, applied[j] <= applied'[j]
  PROVE  QueueArrived(j)'
<1>1. PICK a \in Nat, b \in Nat : a = applied[j] /\ b = applied'[j] /\ a <= b
  BY DEF TypeInv, TypeOK, LocalTypeOK
<1>2. \A t \in Nat \cup {-1} : t <= a => t <= b
  BY <1>1, SMTT(30), Z3T(30)
<1>3. \A k \in DOMAIN queue[j] : queue[j][k].req \in Waiting(j)
  BY DEF Waiting
<1>4. \A k \in DOMAIN queue[j] : since[queue[j][k].req] \in Nat \cup {-1}
  BY <1>3, RequestTypes DEF TypeInv, TypeOK, ClientTypeOK
<1> QED
  BY <1>1, <1>2, <1>3, <1>4 DEF QueueArrived, ArrivalsKept

\* A batch that stays, ...
LEMMA BatchStays ==
  ASSUME TypeInv, ArrivalsKept, NEW j \in Instances, batch'[j] = batch[j], NEW n,
         ArrivedBy(Elements(batch[j]), n)
  PROVE  \A r \in Elements(batch'[j]) : since'[r] <= n
  BY BatchRequests DEF ArrivedBy, ArrivalsKept

\* ... with the manifest that is fetched for it, ...
LEMMA FetchStays ==
  ASSUME TypeInv, ArrivalsKept, NEW j \in Instances, FetchArrived(j),
         sync'[j].by = "publisher" => sync'[j] = sync[j] /\ batch'[j] = batch[j]
  PROVE  FetchArrived(j)'
<1> SUFFICES ASSUME sync'[j].by = "publisher" PROVE ArrivedBy(Elements(batch[j]), sync[j].m.head)'
  BY DEF FetchArrived
<1>1. sync'[j] = sync[j] /\ batch'[j] = batch[j] /\ ArrivedBy(Elements(batch[j]), sync[j].m.head)
  BY DEF FetchArrived
<1>2. \A r \in Elements(batch'[j]) : since'[r] <= sync[j].m.head
  BY <1>1, BatchStays
<1> QED
  BY <1>1, <1>2 DEF ArrivedBy

\* ... with the copy it is verified on, ...
LEMMA VerifyStays ==
  ASSUME TypeInv, ArrivalsKept, NEW j \in Instances, VerifyArrived(j),
         applied'[j] \in Nat, applied[j] <= applied'[j],
         pc'[j] = "verify" => pc[j] = "verify" /\ batch'[j] = batch[j]
  PROVE  VerifyArrived(j)'
<1> SUFFICES ASSUME pc'[j] = "verify" PROVE ArrivedBy(Elements(batch[j]), applied[j])'
  BY DEF VerifyArrived
<1>1. PICK a \in Nat, b \in Nat : a = applied[j] /\ b = applied'[j] /\ a <= b
  BY DEF TypeInv, TypeOK, LocalTypeOK
<1>2. batch'[j] = batch[j] /\ ArrivedBy(Elements(batch[j]), a)
  BY <1>1 DEF VerifyArrived
<1>3. ArrivedBy(Elements(batch[j]), b)
  BY <1>1, <1>2, BatchRequests, ArrivedLater
<1>4. \A r \in Elements(batch'[j]) : since'[r] <= b
  BY <1>2, <1>3, BatchStays
<1> QED
  BY <1>1, <1>4 DEF ArrivedBy

\* ... and with the log it was verified on.
LEMMA AttemptStays ==
  ASSUME TypeInv, CopyInv, LogGrows, ArrivalsKept, NEW j \in Instances, AttemptArrived(j),
         AttemptKept(j)
  PROVE  AttemptArrived(j)'
<1> SUFFICES ASSUME pc'[j] \in Publishing, view'[j].ver # 0
             PROVE  /\ ArrivedBy(Elements(batch[j]), view[j].m.head)'
                    /\ Verified(valid[j], batch[j], view[j].m)'
  BY DEF AttemptArrived
<1>1. /\ pc[j] \in Publishing /\ view'[j] = view[j] /\ valid'[j] = valid[j]
      /\ batch'[j] = batch[j] /\ view[j].ver # 0
  BY DEF AttemptKept
<1>2. ArrivedBy(Elements(batch[j]), view[j].m.head) /\ Verified(valid[j], batch[j], view[j].m)
  BY <1>1 DEF AttemptArrived
<1>3. \A r \in Elements(batch'[j]) : since'[r] <= view[j].m.head
  BY <1>1, <1>2, BatchStays
<1>4. PICK h \in Nat : h = view[j].m.head /\ h <= manifest.head
  <2>1. PICK h \in Nat, a \in Nat, n \in Nat :
          h = view[j].m.head /\ a = applied[j] /\ n = manifest.head /\ h <= a /\ a <= n
    BY <1>1, CopyTypes DEF CopyInv, CopyOK, BaseOK
  <2>2. h <= n
    BY <2>1, SMTT(30), Z3T(30)
  <2> QED
    BY <2>1, <2>2
<1>5. RefsAt(h)' = RefsAt(h)
  BY <1>4 DEF LogGrows
<1>6. RefsAt(view[j].m.head)' = RefsAt(view[j].m.head)
  BY <1>1, <1>4, <1>5 DEF RefsAt
<1> QED
  BY <1>1, <1>2, <1>3, <1>6 DEF ArrivedBy, Verified

\* Instance j takes no part in the step.
Aside(j) ==
  /\ queue'[j] = queue[j] /\ batch'[j] = batch[j] /\ pc'[j] = pc[j]
  /\ sync'[j] = sync[j] /\ applied'[j] = applied[j]

\* All four, while the copy does not go back and nobody starts to wait for it.
LEMMA ArrivedStays ==
  ASSUME TypeInv, CopyInv, LogGrows, ArrivalsKept, NEW j \in Instances, ArrivedOK(j), AttemptKept(j),
         queue'[j] = queue[j], applied'[j] \in Nat, applied[j] <= applied'[j],
         sync'[j].by = "publisher" => sync'[j] = sync[j] /\ batch'[j] = batch[j],
         pc'[j] = "verify" => pc[j] = "verify" /\ batch'[j] = batch[j]
  PROVE  ArrivedOK(j)'
<1>1. QueueArrived(j) /\ FetchArrived(j) /\ VerifyArrived(j) /\ AttemptArrived(j)
  BY DEF ArrivedOK
<1>2. QueueArrived(j)' /\ FetchArrived(j)'
  BY <1>1, QueueStays, FetchStays
<1>3. VerifyArrived(j)' /\ AttemptArrived(j)'
  BY <1>1, VerifyStays, AttemptStays
<1> QED
  BY <1>2, <1>3 DEF ArrivedOK

\* What was applied is at least what was applied.
LEMMA AppliedStays ==
  ASSUME TypeInv, NEW j \in Instances
  PROVE  applied[j] \in Nat /\ applied[j] <= applied[j]
<1>1. \A n \in Nat : n <= n
  BY SMTT(30), Z3T(30)
<1> QED
  BY <1>1, CopyTypes

\* An instance that takes no part.
LEMMA ArrivedAside ==
  ASSUME TypeInv, CopyInv, LogGrows, ArrivalsKept, NEW j \in Instances, ArrivedOK(j), AttemptKept(j),
         Aside(j)
  PROVE  ArrivedOK(j)'
<1>1. applied[j] \in Nat /\ applied[j] <= applied[j]
  BY AppliedStays
<1>2. /\ queue'[j] = queue[j] /\ applied'[j] = applied[j] /\ sync'[j] = sync[j]
      /\ batch'[j] = batch[j] /\ pc'[j] = pc[j]
  BY DEF Aside
<1> QED
  BY <1>1, <1>2, ArrivedStays

\* The steps of an instance are its own.
LEMMA ElsewhereAside ==
  ASSUME TypeInv, NEW i \in Instances, NEW j \in Instances \ {i},
         ClientStep(i) \/ SyncStep(i) \/ PublisherStep(i) \/ Crash(i)
  PROVE  Aside(j)
<1>1. /\ pc \in [Instances -> Steps] /\ batch \in [Instances -> Batches]
      /\ queue \in [Instances -> Seq([req : Requests, synced : BOOLEAN])]
      /\ applied \in [Instances -> Nat] /\ DOMAIN sync = Instances
  BY DEF TypeInv, TypeOK, PublisherTypeOK, ClientTypeOK, LocalTypeOK
<1>2. CASE ClientStep(i)
  BY <1>1, <1>2 DEF ClientStep, PublishPush, PublishPushSynced, StartRead, FinishRead, Aside,
     localVars, pubVars
<1>3. CASE OpenRepo(i) \/ SyncDone(i) \/ SyncFailed(i)
  BY <1>1, <1>3, ResetPlaces DEF OpenRepo, SyncDone, SyncFailed, Apply, Install, FinishErrors, Aside,
     pubVars, clientVars
<1>4. CASE Crash(i)
  BY <1>1, <1>4, ResetPlaces DEF Crash, Aside
<1>5. CASE TakeBatch(i) \/ PublisherSync(i) \/ VerifyBatch(i)
  BY <1>1, <1>5, ResetPlaces DEF TakeBatch, PublisherSync, VerifyBatch, Aside, localVars, clientVars
<1>6. CASE ClaimLogSlot(i) \/ ClaimFailed(i) \/ ProbeFailed(i)
  BY <1>1, <1>6, ResetPlaces DEF ClaimLogSlot, ClaimFailed, ProbeFailed, FinishErrors, Aside, localVars,
     clientVars
<1>7. CASE ProbeManifest(i) \/ ProbeHead(i) \/ RetryAfterDrop(i)
  BY <1>1, <1>7, ResetPlaces DEF ProbeManifest, ProbeHead, RetryAfterDrop, Contended, FinishErrors,
     Aside, localVars, clientVars
<1>8. CASE CommitManifest(i) \/ CommitRefused(i) \/ CommitLost(i) \/ CasLanded(i)
  BY <1>1, <1>8, ResetPlaces DEF CommitManifest, CommitRefused, CommitLost, CasLanded, FinishErrors,
     Aside, localVars, clientVars
<1>9. CASE MarkPending(i) \/ RecoverManifestVersion(i) \/ SweepBurned(i) \/ Respond(i)
  BY <1>1, <1>9, ResetPlaces DEF MarkPending, RecoverManifestVersion, SweepBurned, Respond, Aside,
     localVars, clientVars
<1>10. CASE CommitLocal(i)
  BY <1>1, <1>10 DEF CommitLocal, InstallCommit, ForgetVersion, Aside, clientVars
<1>11. CASE DropOwnSlot(i) \/ AbandonDelete(i)
  BY <1>1, <1>11 DEF DropOwnSlot, AbandonDelete, Aside, localVars, pubVars, clientVars
<1> QED
  BY <1>2, <1>3, <1>4, <1>5, <1>6, <1>7, <1>8, <1>9, <1>10, <1>11 DEF SyncStep, PublisherStep

\* A publisher works on a batch that it took before: it verifies none, and keeps what a
\* sync under way is for.
Onward(i) == /\ UNCHANGED <<queue, since>>
             /\ pc'[i] = "verify" => UNCHANGED <<pc, batch>>
             /\ pc[i] = "sync" => UNCHANGED batch

\* Giving a batch up verifies nothing.
LEMMA ResetOnward ==
  ASSUME TypeInv, NEW i \in Instances, FinishErrors(i), pc[i] # "sync"
  PROVE  Onward(i)
  BY ResetPlaces DEF FinishErrors, Onward

\* Going on with a batch past its verification.
LEMMA MoveOnward ==
  ASSUME TypeInv, NEW i \in Instances, NEW q \in Steps \ {"verify"}, pc' = [pc EXCEPT ![i] = q],
         UNCHANGED batch, UNCHANGED clientVars
  PROVE  Onward(i)
  BY DEF TypeInv, TypeOK, PublisherTypeOK, Onward, clientVars

\* The steps of a publisher that take no batch and wait for no sync.
LEMMA PublisherOnward ==
  ASSUME TypeInv, NEW i \in Instances, PublisherStep(i), ~TakeBatch(i), ~PublisherSync(i)
  PROVE  Onward(i)
<1>1. ASSUME NEW q \in Steps \ {"verify"}, pc' = [pc EXCEPT ![i] = q], UNCHANGED batch,
             UNCHANGED clientVars
      PROVE  Onward(i)
  BY <1>1, MoveOnward
<1>2. ASSUME Contended(i), pc[i] # "sync" PROVE Onward(i)
  BY <1>1, <1>2, ResetOnward DEF Contended, Steps
<1>3. CASE VerifyBatch(i)
  BY <1>1, <1>3, ResetPlaces DEF VerifyBatch, Onward, Steps
<1>4. CASE ClaimLogSlot(i) \/ CommitManifest(i) \/ CommitRefused(i) \/ CommitLost(i)
  BY <1>1, <1>4 DEF ClaimLogSlot, CommitManifest, CommitRefused, CommitLost, Steps
<1>5. CASE ClaimFailed(i) \/ ProbeFailed(i)
  BY <1>5, ResetOnward DEF ClaimFailed, ProbeFailed
<1>6. CASE ProbeManifest(i) \/ RetryAfterDrop(i)
  BY <1>1, <1>2, <1>6 DEF ProbeManifest, RetryAfterDrop, Steps
<1>7. CASE ProbeHead(i)
  BY <1>1, <1>7, ResetOnward DEF ProbeHead, Steps
<1>8. CASE CasLanded(i)
  BY <1>1, <1>8, ResetOnward DEF CasLanded, Steps
<1>9. CASE MarkPending(i)
  <2>1. PICK q \in Steps \ {"verify"} : pc' = [pc EXCEPT ![i] = q]
    BY <1>9 DEF MarkPending, Steps
  <2> QED
    BY <1>1, <1>9, <2>1 DEF MarkPending
<1>10. CASE RecoverManifestVersion(i) \/ CommitLocal(i) \/ DropOwnSlot(i)
  BY <1>1, <1>10 DEF RecoverManifestVersion, CommitLocal, DropOwnSlot, Steps
<1>11. CASE SweepBurned(i) \/ AbandonDelete(i)
  BY <1>11 DEF SweepBurned, AbandonDelete, Onward, pubVars, clientVars
<1>12. CASE Respond(i)
  BY <1>12, ResetPlaces DEF Respond, Onward
<1> QED
  BY <1>3, <1>4, <1>5, <1>6, <1>7, <1>8, <1>9, <1>10, <1>11, <1>12 DEF PublisherStep

\* What waits at such a publisher.
LEMMA OnwardArrived ==
  ASSUME IInv, CopyInv, LogGrows, NEW i \in Instances, ArrivedOK(i), Onward(i), sync' = sync,
         applied'[i] \in Nat, applied[i] <= applied'[i]
  PROVE  /\ QueueArrived(i)' /\ FetchArrived(i)' /\ VerifyArrived(i)'
         /\ AttemptKept(i) => AttemptArrived(i)'
<1>1. QueueArrived(i) /\ FetchArrived(i) /\ VerifyArrived(i) /\ AttemptArrived(i)
  BY DEF ArrivedOK
<1>2. TypeInv /\ ArrivalsKept /\ queue'[i] = queue[i]
  BY DEF IInv, ArrivalsKept, Onward
<1>3. sync'[i].by = "publisher" => sync'[i] = sync[i] /\ batch'[i] = batch[i]
  BY DEF IInv, ViewsInv, SyncOwner, Onward
<1>4. pc'[i] = "verify" => pc[i] = "verify" /\ batch'[i] = batch[i]
  BY DEF Onward
<1>5. QueueArrived(i)' /\ FetchArrived(i)'
  BY <1>1, <1>2, <1>3, QueueStays, FetchStays
<1>6. VerifyArrived(i)'
  BY <1>1, <1>2, <1>4, VerifyStays
<1>7. AttemptKept(i) => AttemptArrived(i)'
  BY <1>1, <1>2, AttemptStays
<1> QED
  BY <1>5, <1>6, <1>7

\* The queue after a batch was taken from it (run_batcher).
LEMMA TakeArrived ==
  ASSUME IInv, CopyInv, NEW i \in Instances, ArrivedOK(i), TakeBatch(i)
  PROVE  ArrivedOK(i)'
<1>1. PICK n \in 1..Len(queue[i]) :
        /\ batch' = [batch EXCEPT ![i] = [k \in 1..n |-> queue[i][k].req]]
        /\ queue' = [queue EXCEPT ![i] = SubSeq(@, n + 1, Len(@))]
        /\ pc' = [pc EXCEPT ![i] = IF \A k \in 1..n : queue[i][k].synced
                                   THEN "verify" ELSE "sync"]
  BY DEF TakeBatch
<1>2. UNCHANGED <<since, sync, applied>> /\ pc[i] = "idle"
  BY DEF TakeBatch, localVars
<1>3. /\ DOMAIN queue = Instances /\ DOMAIN batch = Instances /\ DOMAIN pc = Instances
      /\ queue[i] \in Seq([req : Requests, synced : BOOLEAN])
  BY DEF IInv, TypeInv, TypeOK, PublisherTypeOK, ClientTypeOK
<1>4. PICK q : q = queue[i]
  OBVIOUS
<1>5. /\ q \in Seq([req : Requests, synced : BOOLEAN]) /\ n \in 1..Len(q)
      /\ queue'[i] = SubSeq(q, n + 1, Len(q)) /\ batch'[i] = [k \in 1..n |-> q[k].req]
      /\ pc'[i] = IF \A k \in 1..n : q[k].synced THEN "verify" ELSE "sync"
  BY <1>1, <1>3, <1>4
<1>6. /\ \A k \in DOMAIN queue'[i] : queue'[i][k] = q[n + k] /\ n + k \in DOMAIN q
      /\ \A k \in 1..n : k \in DOMAIN q
  <2>1. PICK T, l : q \in Seq(T) /\ l = Len(q) /\ n \in 1..l
    BY <1>5
  <2>2. DOMAIN q = 1..l /\ l \in Nat
    BY <2>1, LenFacts
  <2>3. n \in Nat /\ n <= l
    BY <2>1, <2>2, SMTT(30), Z3T(30)
  <2>4. (\A k \in 1..(l - n) : n + k \in 1..l) /\ \A k \in 1..n : k \in 1..l
    BY <2>2, <2>3, SMTT(30), Z3T(30)
  <2>5. /\ DOMAIN SubSeq(q, n + 1, l) = 1..(l - n)
        /\ \A k \in 1..(l - n) : SubSeq(q, n + 1, l)[k] = q[n + k]
    BY <2>2, <2>3, RestFacts
  <2>6. queue'[i] = SubSeq(q, n + 1, l)
    BY <1>5, <2>1
  <2> QED
    BY <2>2, <2>4, <2>5, <2>6
<1>7. \A k \in DOMAIN q : q[k].synced => since[q[k].req] <= applied[i]
  BY <1>4 DEF ArrivedOK, QueueArrived
<1>8. QueueArrived(i)'
  BY <1>2, <1>6, <1>7 DEF QueueArrived
<1>9. FetchArrived(i)'
  BY <1>2 DEF FetchArrived, IInv, ViewsInv, SyncOwner
<1>10. VerifyArrived(i)'
  <2> SUFFICES ASSUME pc'[i] = "verify", NEW r \in Elements(batch'[i]) PROVE since[r] <= applied[i]
    BY <1>2 DEF VerifyArrived, ArrivedBy
  <2>1. PICK k \in 1..n : r = q[k].req
    BY <1>5 DEF Elements
  <2> QED
    BY <1>5, <1>6, <1>7, <2>1
<1>11. AttemptArrived(i)'
  BY <1>5 DEF AttemptArrived, Publishing
<1> QED
  BY <1>8, <1>9, <1>10, <1>11 DEF ArrivedOK

\* verify_batch: the batch was verified on a copy no older than its requests.
LEMMA VerifyArrives ==
  ASSUME IInv, CopyInv, LogGrows, NEW i \in Instances, HandleOK(i), ArrivedOK(i), VerifyBatch(i)
  PROVE  AttemptArrived(i)'
<1>1. CASE ResetPublisher(i)
  <2>1. pc'[i] = "idle"
    BY <1>1, ResetPlaces DEF IInv
  <2> QED
    BY <2>1 DEF AttemptArrived, Publishing
<1>2. ASSUME NEW acc \in SUBSET DOMAIN batch[i], NEW v \in Batches,
             Accepts(acc, batch[i], hm[i], refs[i]), AcceptedReqs(v, acc, batch[i]),
             valid' = [valid EXCEPT ![i] = v],
             view' = [view EXCEPT ![i] = [m |-> hm[i], ver |-> hv[i]]],
             UNCHANGED <<batch, since, hist>>
      PROVE  AttemptArrived(i)'
  <2>1. valid'[i] = v /\ view'[i] = [m |-> hm[i], ver |-> hv[i]]
    BY <1>2 DEF IInv, TypeInv, TypeOK, PublisherTypeOK
  <2>2. view'[i].ver = hv[i] /\ view'[i].m = hm[i]
    <3>1. PICK x : x = [m |-> hm[i], ver |-> hv[i]]
      OBVIOUS
    <3>2. x.ver = hv[i] /\ x.m = hm[i]
      BY <3>1
    <3> QED
      BY <2>1, <3>1, <3>2
  <2> SUFFICES ASSUME hv[i] # 0
               PROVE  /\ ArrivedBy(Elements(batch[i]), hm[i].head)
                      /\ Verified(v, batch[i], hm[i])
    BY <1>2, <2>1, <2>2 DEF AttemptArrived, ArrivedBy, Verified, RefsAt
  <2>3. applied[i] = hm[i].head /\ refs[i] = RefsAt(hm[i].head)
    BY DEF CopyInv, CopyOK, HandleOK, Exact
  <2>4. ArrivedBy(Elements(batch[i]), applied[i])
    BY DEF VerifyBatch, ArrivedOK, VerifyArrived
  <2> QED
    BY <1>2, <2>3, <2>4 DEF Verified
<1> QED
  BY <1>1, <1>2 DEF VerifyBatch, clientVars

\* The publisher finds its copy current, or fetches the current manifest.
LEMMA SyncArrived ==
  ASSUME IInv, OrderInv, CopyInv, LogGrows, NEW i \in Instances, ArrivedOK(i), PublisherSync(i),
         \A r \in Requests : since[r] <= manifest.head
  PROVE  ArrivedOK(i)'
<1>1. /\ UNCHANGED <<queue, since, applied, batch>> /\ pc[i] = "sync"
      /\ pc' = [pc EXCEPT ![i] = IF hv[i] = mver THEN "verify" ELSE "sync"]
      /\ sync' = [sync EXCEPT ![i] = IF hv[i] = mver THEN NoSync ELSE Fetched("publisher")]
  BY DEF PublisherSync, clientVars
<1>2. /\ pc'[i] = IF hv[i] = mver THEN "verify" ELSE "sync"
      /\ sync'[i] = IF hv[i] = mver THEN NoSync ELSE Fetched("publisher")
  BY <1>1 DEF IInv, TypeInv, TypeOK, PublisherTypeOK, LocalTypeOK
<1>3. \A r \in Elements(batch[i]) : since[r] <= manifest.head
  BY BatchRequests DEF IInv
<1>4. QueueArrived(i)'
  BY <1>1 DEF ArrivedOK, QueueArrived
<1>5. FetchArrived(i)'
  <2>1. NoSync.by = "none"
    BY DEF NoSync
  <2>2. Fetched("publisher").m = manifest
    BY DEF Fetched
  <2> QED
    BY <1>1, <1>2, <1>3, <2>1, <2>2 DEF FetchArrived, ArrivedBy
<1>6. VerifyArrived(i)'
  <2> SUFFICES ASSUME hv[i] = mver PROVE applied[i] = manifest.head
    BY <1>1, <1>2, <1>3 DEF VerifyArrived, ArrivedBy
  <2>1. hm[i] = manifest /\ mver > 0 /\ mver \in Nat
    BY CopyCurrent, CopyTypes DEF IInv, ViewsInv
  <2>2. hv[i] # 0
    BY <2>1, SMTT(30), Z3T(30)
  <2> QED
    BY <2>1, <2>2 DEF CopyInv, CopyOK
<1>7. AttemptArrived(i)'
  BY <1>2 DEF AttemptArrived, Publishing
<1> QED
  BY <1>4, <1>5, <1>6, <1>7 DEF ArrivedOK

\* A sync ends: with the copy at the manifest that was fetched for the batch, ...
LEMMA DoneArrived ==
  ASSUME Replayable, IInv, OrderInv, ListingInv, CopyInv, LogGrows, NEW i \in Instances, HandleOK(i),
         ArrivedOK(i), SyncDone(i)
  PROVE  ArrivedOK(i)'
<1>1. /\ UNCHANGED <<queue, since, batch, valid, view>> /\ sync[i].by # "none" /\ Apply(i)
      /\ sync' = [sync EXCEPT ![i] = NoSync]
      /\ pc' = [pc EXCEPT ![i] = IF sync[i].by = "publisher" THEN "verify" ELSE @]
  BY DEF SyncDone
<1>2. /\ sync'[i] = NoSync
      /\ pc'[i] = IF sync[i].by = "publisher" THEN "verify" ELSE pc[i]
  BY <1>1 DEF IInv, TypeInv, TypeOK, PublisherTypeOK, LocalTypeOK
<1>3. CopyOK(i) /\ TypeInv
  BY DEF CopyInv, IInv
<1>4. PICK a \in Nat, h \in Nat : a = applied[i] /\ h = sync[i].m.head /\ a <= h /\ applied'[i] = h
  BY <1>1, <1>3, CopyTypes, SyncExact DEF CopyOK
<1>5. NoSync.by = "none"
  BY DEF NoSync
<1>6. ArrivalsKept
  BY <1>1 DEF ArrivalsKept
<1>7. CASE sync[i].by = "publisher"
  <2>1. pc'[i] = "verify" /\ ArrivedBy(Elements(batch[i]), h)
    BY <1>2, <1>4, <1>7 DEF ArrivedOK, FetchArrived
  <2>2. VerifyArrived(i)'
    BY <1>1, <1>4, <2>1 DEF VerifyArrived, ArrivedBy
  <2>3. QueueArrived(i)'
    BY <1>1, <1>3, <1>4, <1>6, QueueStays DEF ArrivedOK
  <2> QED
    BY <1>2, <1>5, <2>1, <2>2, <2>3 DEF ArrivedOK, FetchArrived, AttemptArrived, Publishing
<1>8. CASE sync[i].by # "publisher"
  <2>1. pc'[i] = pc[i]
    BY <1>2, <1>8
  <2>2. AttemptKept(i)
    BY <1>1, <2>1 DEF AttemptKept
  <2> QED
    BY <1>1, <1>2, <1>3, <1>4, <1>5, <1>6, <2>1, <2>2, ArrivedStays
<1> QED
  BY <1>7, <1>8

\* ... or as it was.
LEMMA FailedArrived ==
  ASSUME IInv, ListingInv, CopyInv, LogGrows, NEW i \in Instances, ArrivedOK(i), SyncFailed(i),
         AttemptKept(i)
  PROVE  ArrivedOK(i)'
<1>1. TypeInv /\ applied'[i] = applied[i] /\ sync' = [sync EXCEPT ![i] = NoSync]
  BY FailedSame DEF IInv
<1>2. UNCHANGED <<queue, since>> /\ (UNCHANGED <<pc, batch>> \/ ResetPublisher(i))
  BY DEF SyncFailed, FinishErrors, pubVars
<1>3. sync'[i].by = "none" /\ (pc'[i] = "verify" => UNCHANGED <<pc, batch>>)
  <2>1. sync'[i] = NoSync
    BY <1>1 DEF TypeInv, TypeOK, LocalTypeOK
  <2>2. NoSync.by = "none"
    BY DEF NoSync
  <2> QED
    BY <1>1, <1>2, <2>1, <2>2, ResetPlaces
<1>4. applied[i] \in Nat /\ applied[i] <= applied[i]
  BY <1>1, AppliedStays
<1>5. ArrivalsKept
  BY <1>2 DEF ArrivalsKept
<1> QED
  BY <1>1, <1>2, <1>3, <1>4, <1>5, ArrivedStays

\* commit_local takes the copy no step back.
LEMMA LocalArrived ==
  ASSUME IInv, CopyInv, LogGrows, NEW i \in Instances, ArrivedOK(i), CommitLocal(i), AttemptKept(i),
         applied[i] <= LastSeq(i)
  PROVE  ArrivedOK(i)'
<1>1. Onward(i) /\ sync' = sync
  <2>1. TypeInv /\ PublisherStep(i) /\ ~TakeBatch(i) /\ ~PublisherSync(i)
    BY DEF IInv, PublisherStep, CommitLocal, TakeBatch, PublisherSync
  <2> QED
    BY <2>1, PublisherOnward DEF CommitLocal
<1>2. PICK a \in Nat : a = applied[i]
  BY CopyTypes DEF IInv
<1>3. applied'[i] = a \/ applied'[i] = LastSeq(i)
  BY <1>2 DEF CommitLocal, InstallCommit, ForgetVersion, IInv, TypeInv, TypeOK, LocalTypeOK
<1>4. PICK n \in Nat : n = LastSeq(i)
  <2>1. PICK d \in Nat : d = done[i].m.head
    BY CopyTypes DEF IInv
  <2> QED
    BY <2>1 DEF CommitLocal, CopyInv, BaseOK, Committed
<1>5. a <= a
  BY SMTT(30), Z3T(30)
<1>6. applied'[i] \in Nat /\ applied[i] <= applied'[i]
  BY <1>2, <1>3, <1>4, <1>5
<1> QED
  BY <1>1, <1>6, OnwardArrived DEF ArrivedOK

\* The empty sequence has no places.
LEMMA NothingEmpty == DOMAIN <<>> = {}
  BY SMTT(30), Z3T(30)

\* Nobody waits for a process that died.
LEMMA CrashArrived ==
  ASSUME TypeInv, NEW i \in Instances, Crash(i)
  PROVE  ArrivedOK(i)'
<1>1. queue'[i] = <<>> /\ sync'[i] = NoSync
  BY DEF Crash, TypeInv, TypeOK, ClientTypeOK, LocalTypeOK
<1>2. pc'[i] = "idle"
  BY ResetPlaces DEF Crash
<1>3. NoSync.by = "none"
  BY DEF NoSync
<1> QED
  BY <1>1, <1>2, <1>3, NothingEmpty DEF ArrivedOK, QueueArrived, FetchArrived, VerifyArrived,
     AttemptArrived, Publishing

\* A request joins a queue: unsynced, or after its own sync (receive-pack).
LEMMA PushArrived ==
  ASSUME IInv, CopyInv, LogGrows, ArrivalsKept, NEW i \in Instances, NEW r \in Requests, ReaderOK(i),
         ArrivedOK(i), PublishPush(i, r) \/ PublishPushSynced(i, r)
  PROVE  ArrivedOK(i)'
<1>1. UNCHANGED <<batch, pc, sync, applied, view, valid>> /\ AttemptKept(i) /\ TypeInv
  BY DEF PublishPush, PublishPushSynced, localVars, pubVars, AttemptKept, IInv
<1>2. PICK x \in [req : Requests, synced : BOOLEAN] :
        /\ queue' = [queue EXCEPT ![i] = Append(@, x)] /\ x.req = r
        /\ x.synced => reader[i].pc = "read" /\ since' = [since EXCEPT ![r] = reader[i].since]
  <2>1. CASE PublishPush(i, r)
    <3>1. PICK x : x = [req |-> r, synced |-> FALSE]
      OBVIOUS
    <3>2. x \in [req : Requests, synced : BOOLEAN] /\ x.req = r /\ ~x.synced
      BY <3>1
    <3> QED
      BY <2>1, <3>1, <3>2 DEF PublishPush
  <2>2. CASE PublishPushSynced(i, r)
    <3>1. PICK x : x = [req |-> r, synced |-> TRUE]
      OBVIOUS
    <3>2. x \in [req : Requests, synced : BOOLEAN] /\ x.req = r
      BY <3>1
    <3> QED
      BY <2>2, <3>1, <3>2 DEF PublishPushSynced
  <2> QED
    BY <2>1, <2>2
<1>3. PICK q \in Seq([req : Requests, synced : BOOLEAN]) : q = queue[i] /\ queue'[i] = Append(q, x)
  BY <1>2 DEF IInv, TypeInv, TypeOK, ClientTypeOK
<1>4. PICK n : /\ DOMAIN queue'[i] = DOMAIN q \cup {n} /\ queue'[i][n] = x
               /\ \A k \in DOMAIN q : queue'[i][k] = q[k]
  <2>1. PICK n, p : n = Len(q) + 1 /\ p = Append(q, x)
    OBVIOUS
  <2>2. DOMAIN p = DOMAIN q \cup {n} /\ p[n] = x /\ \A k \in DOMAIN q : p[k] = q[k]
    BY <2>1, AppendFacts, SMTT(30), Z3T(30)
  <2> QED
    BY <1>3, <2>1, <2>2
<1>5. \A k \in DOMAIN q : since'[q[k].req] = since[q[k].req]
  BY <1>3 DEF ArrivalsKept, Waiting
<1>6. x.synced => since'[r] <= applied[i]
  <2>1. reader[i].pc = "read" => reader[i].since <= applied[i]
    BY DEF ReaderOK, AckedBy
  <2>2. DOMAIN since = Requests
    BY DEF IInv, TypeInv, TypeOK, ClientTypeOK
  <2> QED
    BY <1>2, <2>1, <2>2
<1>7. QueueArrived(i)'
  <2> SUFFICES ASSUME NEW k \in DOMAIN queue'[i], queue'[i][k].synced
               PROVE  since'[queue'[i][k].req] <= applied[i]
    BY <1>1 DEF QueueArrived
  <2>1. CASE k \in DOMAIN q
    BY <1>3, <1>4, <1>5, <2>1 DEF ArrivedOK, QueueArrived
  <2>2. CASE k = n
    BY <1>2, <1>4, <1>6, <2>2
  <2> QED
    BY <1>4, <2>1, <2>2
<1>8. applied[i] \in Nat /\ applied[i] <= applied[i]
  BY <1>1, AppliedStays
<1>9. FetchArrived(i)' /\ AttemptArrived(i)'
  BY <1>1, FetchStays, AttemptStays DEF ArrivedOK
<1>10. VerifyArrived(i)'
  BY <1>1, <1>8, VerifyStays DEF ArrivedOK
<1> QED
  BY <1>7, <1>9, <1>10 DEF ArrivedOK

\* A request arrives once, at a seq that is committed.
SinceMoves ==
  \A r \in Requests : \/ since'[r] = since[r]
                      \/ since[r] = -1 /\ since'[r] \in Nat /\ since'[r] <= manifest.head

\* No step changes when a request arrived.
LEMMA SinceNext ==
  ASSUME IInv, CopyInv, ReadInv, [Next]_vars
  PROVE  SinceMoves
<1>1. ASSUME UNCHANGED since PROVE SinceMoves
  BY <1>1 DEF SinceMoves
<1>2. ASSUME NEW r \in Requests, Fresh(r), NEW n \in Nat, n <= manifest.head,
             since' = [since EXCEPT ![r] = n]
      PROVE  SinceMoves
  BY <1>2 DEF SinceMoves, Fresh, IInv, TypeInv, TypeOK, ClientTypeOK
<1>3. ASSUME NEW i \in Instances, NEW r \in Requests, PublishPush(i, r) PROVE SinceMoves
  <2>1. HeadSeq \in Nat /\ HeadSeq <= manifest.head
    <3>1. manifest.head \in Nat
      BY CopyTypes DEF IInv
    <3>2. manifest.head <= manifest.head
      BY <3>1, SMTT(30), Z3T(30)
    <3> QED
      BY <3>1, <3>2 DEF HeadSeq
  <2> QED
    BY <1>2, <1>3, <2>1 DEF PublishPush
<1>4. ASSUME NEW i \in Instances, NEW r \in Requests, PublishPushSynced(i, r) PROVE SinceMoves
  <2>1. PICK t \in Nat, a \in Nat, h \in Nat :
          t = reader[i].since /\ a = applied[i] /\ h = manifest.head /\ t <= a /\ a <= h
    <3>1. reader[i].since \in Nat
      BY DEF IInv, TypeInv, TypeOK, ClientTypeOK
    <3>2. reader[i].since <= applied[i] /\ applied[i] <= manifest.head
      BY <1>4 DEF PublishPushSynced, ReadInv, ReaderOK, AckedBy, CopyInv, CopyOK
    <3> QED
      BY <3>1, <3>2, CopyTypes DEF IInv
  <2>2. t <= h
    BY <2>1, SMTT(30), Z3T(30)
  <2> QED
    BY <1>2, <1>4, <2>1, <2>2 DEF PublishPushSynced
<1>5. ASSUME NEW i \in Instances, ClientStep(i) PROVE SinceMoves
  BY <1>1, <1>3, <1>4, <1>5 DEF ClientStep, StartRead, FinishRead
<1>6. ASSUME NEW i \in Instances, SyncStep(i) \/ Crash(i) PROVE UNCHANGED since
  BY <1>6 DEF SyncStep, OpenRepo, SyncDone, SyncFailed, FinishErrors, Crash, clientVars
<1>7. ASSUME NEW i \in Instances, PublisherStep(i) PROVE UNCHANGED since
  BY <1>7, PublisherOnward DEF Onward, TakeBatch, PublisherSync, clientVars, IInv
<1>8. CASE LandDelete \/ LandManifest \/ UNCHANGED vars
  BY <1>1, <1>8 DEF LandDelete, LandManifest, vars, clientVars
<1> QED
  BY <1>1, <1>5, <1>6, <1>7, <1>8 DEF Next

\* Who waits has arrived.
LEMMA ArrivalsNext ==
  ASSUME TypeInv, OrderInv, SinceMoves
  PROVE  ArrivalsKept
<1>1. \A j \in Instances : \A r \in Waiting(j) : r \in Requests /\ since[r] # -1
  BY RequestTypes, OrderFacts DEF Unanswered
<1> QED
  BY <1>1 DEF SinceMoves, ArrivalsKept

\* verify_batch starts an attempt of its own instance only.
LEMMA VerifyElsewhere ==
  ASSUME TypeInv, NEW i \in Instances, VerifyBatch(i), NEW j \in Instances \ {i}
  PROVE  AttemptKept(j)
<1>1. CASE ResetPublisher(i)
  BY <1>1, ResetKept
<1>2. CASE /\ \E v : valid' = [valid EXCEPT ![i] = v]
           /\ view' = [view EXCEPT ![i] = [m |-> hm[i], ver |-> hv[i]]]
           /\ pc' = [pc EXCEPT ![i] = "claim"] /\ UNCHANGED batch
  BY <1>2 DEF AttemptKept, TypeInv, TypeOK, PublisherTypeOK
<1> QED
  BY <1>1, <1>2 DEF VerifyBatch

\* A step of an instance: what waits there is still verified on a copy no older than its
\* arrival.
LEMMA OwnArrived ==
  ASSUME Replayable, IInv, OrderInv, ListingInv, CopyInv, ReadInv, LogGrows, ArrivalsKept,
         NEW i \in Instances, ArrivedOK(i), \A r \in Requests : since[r] <= manifest.head,
         CommitLocal(i) => applied[i] <= LastSeq(i), ~VerifyBatch(i) => AttemptKept(i),
         ClientStep(i) \/ SyncStep(i) \/ PublisherStep(i) \/ Crash(i)
  PROVE  ArrivedOK(i)'
<1>1. TypeInv /\ HandleOK(i) /\ ReaderOK(i)
  BY DEF IInv, ReadInv
<1>2. applied[i] \in Nat /\ applied[i] <= applied[i]
  BY <1>1, AppliedStays
<1>3. ASSUME UNCHANGED <<queue, batch, pc, applied>>, sync'[i].by # "publisher", AttemptKept(i)
      PROVE  ArrivedOK(i)'
  BY <1>1, <1>2, <1>3, ArrivedStays
<1>4. CASE StartRead(i) \/ OpenRepo(i)
  <2>1. sync'[i] \in {NoSync, Fetched("reader"), Fetched("open")}
    BY <1>1, <1>4 DEF StartRead, OpenRepo, TypeInv, TypeOK, LocalTypeOK
  <2>2. NoSync.by = "none"
    BY DEF NoSync
  <2>3. Fetched("reader").by = "reader" /\ Fetched("open").by = "open"
    BY DEF Fetched
  <2>4. UNCHANGED <<queue, batch, pc, applied, view, valid>>
    BY <1>4 DEF StartRead, OpenRepo, pubVars, clientVars
  <2>5. AttemptKept(i)
    BY <2>4 DEF AttemptKept
  <2> QED
    BY <1>3, <2>1, <2>2, <2>3, <2>4, <2>5
<1>5. CASE FinishRead(i)
  <2>1. Aside(i) /\ AttemptKept(i)
    BY <1>5 DEF FinishRead, Aside, AttemptKept, localVars, pubVars
  <2> QED
    BY <1>1, <2>1, ArrivedAside
<1>6. ASSUME NEW r \in Requests, PublishPush(i, r) \/ PublishPushSynced(i, r) PROVE ArrivedOK(i)'
  BY <1>1, <1>6, PushArrived
<1>7. CASE SyncDone(i)
  BY <1>1, <1>7, DoneArrived
<1>8. CASE SyncFailed(i)
  <2>1. ~VerifyBatch(i)
    <3>1. NoSync.by = "none"
      BY DEF NoSync
    <3> QED
      BY <1>8, <3>1 DEF SyncFailed, VerifyBatch, Unlocked
  <2> QED
    BY <1>8, <2>1, FailedArrived
<1>9. CASE Crash(i)
  BY <1>1, <1>9, CrashArrived
<1>10. CASE TakeBatch(i)
  BY <1>10, TakeArrived
<1>11. CASE PublisherSync(i)
  BY <1>11, SyncArrived
<1>12. CASE CommitLocal(i)
  <2>1. ~VerifyBatch(i)
    BY <1>12 DEF CommitLocal, VerifyBatch
  <2> QED
    BY <1>12, <2>1, LocalArrived
<1>13. CASE PublisherStep(i) /\ ~TakeBatch(i) /\ ~PublisherSync(i) /\ ~CommitLocal(i)
  <2>1. Onward(i)
    BY <1>1, <1>13, PublisherOnward
  <2>2. sync' = sync /\ applied'[i] = applied[i]
    BY <1>13, CopyFrame DEF localVars
  <2>3. /\ QueueArrived(i)' /\ FetchArrived(i)' /\ VerifyArrived(i)'
        /\ AttemptKept(i) => AttemptArrived(i)'
    BY <1>2, <2>1, <2>2, OnwardArrived
  <2>4. VerifyBatch(i) => AttemptArrived(i)'
    BY <1>1, VerifyArrives
  <2> QED
    BY <2>3, <2>4 DEF ArrivedOK
<1> QED
  BY <1>4, <1>5, <1>6, <1>7, <1>8, <1>9, <1>10, <1>11, <1>12, <1>13 DEF ClientStep, SyncStep

\* Every step.
LEMMA ArrivedNext ==
  ASSUME Replayable, IInv, OrderInv, ListingInv, CopyInv, ReadInv, RejectInv, LogGrows, ArrivalsKept,
         [Next]_vars, [Unovertaken]_vars, NEW j \in Instances
  PROVE  ArrivedOK(j)'
<1>1. TypeInv /\ ArrivedOK(j) /\ \A r \in Requests : since[r] <= manifest.head
  BY DEF IInv, RejectInv
<1>2. ASSUME NEW i \in Instances, ClientStep(i) \/ SyncStep(i) \/ PublisherStep(i) \/ Crash(i)
      PROVE  ArrivedOK(j)'
  <2>1. ~VerifyBatch(i) => AttemptKept(j)
    BY <1>2, StepsKeep
  <2>2. CASE j # i
    <3>1. AttemptKept(j) /\ Aside(j)
      BY <1>1, <1>2, <2>1, <2>2, VerifyElsewhere, ElsewhereAside
    <3> QED
      BY <1>1, <3>1, ArrivedAside
  <2>3. CASE j = i
    <3>1. ASSUME CommitLocal(i) PROVE applied[i] <= LastSeq(i)
      <4>1. pc'[i] = "sweep" /\ pc[i] = "local"
        BY <1>1, <3>1 DEF CommitLocal, TypeInv, TypeOK, PublisherTypeOK
      <4> QED
        BY <3>1, <4>1 DEF Unovertaken, vars, pubVars
    <3> QED
      BY <1>1, <1>2, <2>1, <2>3, <3>1, OwnArrived
  <2> QED
    BY <2>2, <2>3
<1>3. CASE LandDelete \/ LandManifest \/ UNCHANGED vars
  <2>1. UNCHANGED <<queue, batch, pc, sync, applied, view, valid>>
    BY <1>3 DEF LandDelete, LandManifest, vars, localVars, pubVars, clientVars
  <2>2. Aside(j) /\ AttemptKept(j)
    BY <2>1 DEF Aside, AttemptKept
  <2> QED
    BY <1>1, <2>2, ArrivedAside
<1> QED
  BY <1>2, <1>3 DEF Next

-----------------------------------------------------------------------------
(* A repository nobody has pushed to *)

\* A commit puts something into the log.
LEMMA AppendsSome ==
  ASSUME NEW m \in Manifests, NEW s \in Slots, NEW reqs \in Batches, Appends(m, s),
         m.head = s.seq + Len(reqs) - 1
  PROVE  EntriesAt(s.seq, reqs) # {}
<1>1. PICK a \in Nat, h \in Nat, n \in Nat : a = s.seq /\ h = m.head /\ n = Len(reqs)
  BY BatchFacts DEF Manifests, Slots
<1>2. h >= a /\ h = a + n - 1
  BY <1>1 DEF Appends
<1>3. 1 \in 1..n
  BY <1>2, SMTT(30), Z3T(30)
<1> QED
  BY <1>1, <1>3 DEF EntriesAt

\* The manifests an instance comes to hold.
LEMMA ManifestsSeen ==
  ASSUME TypeInv, NEW i \in Instances, NEW j \in Instances, ~CommitLocal(i),
         ClientStep(i) \/ SyncStep(i) \/ PublisherStep(i) \/ Crash(i)
  PROVE  /\ hm'[j] \in {hm[j], sync[j].m, NewManifest}
         /\ sync'[j] = sync[j] \/ sync'[j].m \in {manifest, NewManifest}
<1>1. DOMAIN hm = Instances /\ DOMAIN sync = Instances
  BY DEF TypeInv, TypeOK, LocalTypeOK
<1>2. NoSync.m = NewManifest
  BY DEF NoSync
<1>3. \A who : Fetched(who).m = manifest
  BY DEF Fetched
<1>4. CASE ClientStep(i)
  BY <1>1, <1>2, <1>3, <1>4 DEF ClientStep, PublishPush, PublishPushSynced, StartRead, FinishRead,
     localVars
<1>5. CASE OpenRepo(i) \/ SyncFailed(i)
  BY <1>1, <1>2, <1>3, <1>5 DEF OpenRepo, SyncFailed
<1>6. CASE SyncDone(i)
  BY <1>1, <1>2, <1>6 DEF SyncDone, Apply, Install
<1>7. CASE Crash(i)
  BY <1>1, <1>2, <1>7 DEF Crash
<1>8. CASE PublisherSync(i)
  BY <1>1, <1>2, <1>3, <1>8 DEF PublisherSync
<1>9. CASE PublisherStep(i) /\ ~PublisherSync(i)
  BY <1>9, CopyFrame DEF localVars
<1> QED
  BY <1>4, <1>5, <1>6, <1>7, <1>8, <1>9 DEF SyncStep

\* While nothing is committed, every manifest is the first one.
LEMMA UntouchedNext ==
  ASSUME IInv, OrderInv, LogGrows, Untouched, [Next]_vars
  PROVE  Untouched'
<1> SUFFICES ASSUME hist' = {}
             PROVE  /\ mver' = 1 /\ IsPristine(manifest)'
                    /\ \A j \in Instances : IsPristine(hm[j])' /\ IsPristine(sync[j].m)'
  BY DEF Untouched
<1>1. /\ hist = {} /\ mver = 1 /\ IsPristine(manifest)
      /\ \A j \in Instances : IsPristine(hm[j]) /\ IsPristine(sync[j].m)
  BY DEF Untouched, LogGrows
<1>2. IsPristine(NewManifest)
  BY DEF IsPristine, NewManifest
<1>3. ASSUME NEW m \in Manifests, NEW s \in Slots, NEW reqs \in Batches, Appends(m, s),
             m.head = s.seq + Len(reqs) - 1, hist' = hist \cup EntriesAt(s.seq, reqs)
      PROVE  FALSE
  BY <1>3, AppendsSome
<1>4. ASSUME NEW i \in Instances, ClientStep(i) \/ SyncStep(i) \/ PublisherStep(i) \/ Crash(i)
      PROVE  /\ UNCHANGED <<manifest, mver>>
             /\ \A j \in Instances : IsPristine(hm[j])' /\ IsPristine(sync[j].m)'
  <2>1. ~CommitManifest(i)
    BY <1>3, CommitFacts
  <2>2. UNCHANGED <<manifest, mver>>
    BY <1>4, <2>1, LogFrame, NoneLost DEF Crash
  <2>3. ~CommitLocal(i)
    <3> SUFFICES ASSUME CommitLocal(i) PROVE FALSE
      OBVIOUS
    <3>1. EntriesAt(slot[i].seq, valid[i]) = {}
      BY <1>1 DEF CommitLocal, IInv, ClaimsInv, ClaimOK, Committed
    <3>2. valid[i] \in Batches /\ valid[i] # <<>> /\ slot[i] \in Slots
      BY DEF CommitLocal, IInv, TypeInv, TypeOK, PublisherTypeOK, Publishing
    <3>3. 1 \in 1..Len(valid[i])
      BY <3>2, BatchFacts, SMTT(30), Z3T(30)
    <3> QED
      BY <3>1, <3>3 DEF EntriesAt
  <2>4. TypeInv
    BY DEF IInv
  <2>5. ASSUME NEW j \in Instances PROVE IsPristine(hm[j])' /\ IsPristine(sync[j].m)'
    <3>1. /\ hm'[j] \in {hm[j], sync[j].m, NewManifest}
          /\ sync'[j] = sync[j] \/ sync'[j].m \in {manifest, NewManifest}
      BY <1>4, <2>3, <2>4, ManifestsSeen
    <3> QED
      BY <1>1, <1>2, <3>1 DEF IsPristine
  <2> QED
    BY <2>2, <2>5
<1>5. CASE LandManifest
  <2>1. mver' = mver
    BY <1>3, <1>5, LandFacts
  <2> QED
    BY <1>1, <1>5, <2>1, LandNothing DEF LandManifest, localVars, IsPristine
<1>6. CASE LandDelete \/ UNCHANGED vars
  BY <1>1, <1>6 DEF LandDelete, vars, bucketVars, localVars, IsPristine
<1> QED
  BY <1>1, <1>4, <1>5, <1>6 DEF Next, IsPristine

-----------------------------------------------------------------------------
(* Rejections are justified *)

\* Between its arrival and now the log disagreed with what r expects.
Justified(r) ==
  \E s \in since[r]..HeadSeq : \/ ~VerifyTxn(r, RefsAt(s))
                               \/ r \in Receipts /\ \E e \in hist : e.seq <= s

\* A seq that shows it.
LEMMA JustifiedAt ==
  ASSUME TypeInv, NEW r \in Requests, NEW s \in Nat, since[r] <= s, s <= manifest.head,
         ~VerifyTxn(r, RefsAt(s)) \/ (r \in Receipts /\ \E e \in hist : e.seq <= s)
  PROVE  Justified(r)
<1>1. PICK t \in Nat \cup {-1}, h \in Nat : t = since[r] /\ h = HeadSeq /\ t <= s /\ s <= h
  BY DEF TypeInv, TypeOK, ClientTypeOK, BucketTypeOK, Manifests, HeadSeq
<1>2. s \in t..h
  BY <1>1, SMTT(30), Z3T(30)
<1> QED
  BY <1>1, <1>2 DEF Justified

\* It shows it for good.
LEMMA JustifiedStays ==
  ASSUME IInv, OrderInv, LogGrows, NEW r \in Requests, since'[r] = since[r], since[r] # -1,
         Justified(r)
  PROVE  Justified(r)'
<1>1. PICK t \in Nat, h \in Nat, k \in Nat :
        t = since[r] /\ h = manifest.head /\ k = manifest'.head /\ h <= k
  BY LogFacts DEF IInv, TypeInv, TypeOK, ClientTypeOK, LogGrows
<1>2. PICK s \in t..h : ~VerifyTxn(r, RefsAt(s)) \/ (r \in Receipts /\ \E e \in hist : e.seq <= s)
  BY <1>1 DEF Justified, HeadSeq
<1>3. s \in Nat /\ s <= h /\ s \in t..k
  BY <1>1, <1>2, SMTT(30), Z3T(30)
<1>4. RefsAt(s)' = RefsAt(s) /\ hist \subseteq hist'
  BY <1>1, <1>3 DEF LogGrows
<1>5. VerifyTxn(r, RefsAt(s))' <=> VerifyTxn(r, RefsAt(s))
  BY <1>4 DEF VerifyTxn
<1>6. s \in (since[r]..HeadSeq)'
  BY <1>1, <1>3 DEF HeadSeq
<1> QED
  BY <1>2, <1>4, <1>5, <1>6 DEF Justified

\* A receipt in a log with entries.
LEMMA ReceiptJustified ==
  ASSUME IInv, OrderInv, RejectInv, NEW r \in Receipts, r \in Requests, hist # {}
  PROVE  Justified(r)
<1>1. PICK e \in hist : e.seq <= manifest.head
  BY LogFacts
<1>2. PICK h \in Nat : h = manifest.head
  BY LogFacts
<1>3. h <= h
  BY SMTT(30), Z3T(30)
<1>4. since[r] <= h /\ h <= manifest.head /\ e.seq <= h /\ TypeInv
  BY <1>1, <1>2, <1>3 DEF RejectInv, IInv
<1> QED
  BY <1>4, JustifiedAt

\* verify_batch accepts nothing of a batch: each request disagreed with the local copy.
LEMMA NoneAccepted ==
  ASSUME IInv, OrderInv, CopyInv, ReadInv, RejectInv, NEW i \in Instances, pc[i] = "verify",
         NEW acc \in SUBSET DOMAIN batch[i], Accepts(acc, batch[i], hm[i], refs[i]),
         AcceptedReqs(<<>>, acc, batch[i]), NEW r \in Elements(batch[i])
  PROVE  Justified(r)
<1>1. TypeInv /\ r \in Requests
  BY BatchRequests DEF IInv
<1>2. PICK k \in DOMAIN batch[i] : r = batch[i][k]
  BY DEF Elements
<1>3. acc = {}
  <2>1. PICK p \in [1..Len(<<>>) -> acc] : ValidIndices(p, acc)
    BY DEF AcceptedReqs
  <2>2. 1..Len(<<>>) = {}
    BY SMTT(30), Z3T(30)
  <2> QED
    BY <2>1, <2>2 DEF ValidIndices
<1>4. PICK es, bs : es = {[seq |-> j, req |-> batch[i][j]] : j \in bs} /\ bs = {j \in acc : j < k}
  OBVIOUS
<1>5. bs = {} /\ es = {}
  BY <1>3, <1>4
<1>6. ~VerifyTxn(r, ApplyEntries(refs[i], es)) \/ (r \in Receipts /\ ~IsPristine(hm[i]))
  BY <1>2, <1>3, <1>4, <1>5 DEF Accepts
<1>7. CASE ~VerifyTxn(r, ApplyEntries(refs[i], es))
  <2>1. \A n \in Refs : ApplyEntries(refs[i], es)[n] = refs[i][n]
    BY <1>5, ApplyNone
  <2>2. ~VerifyTxn(r, refs[i])
    BY <1>1, <1>7, <2>1, VerifySame
  <2>3. PICK s \in Nat : applied[i] <= s /\ s <= manifest.head /\ refs[i] = RefsAt(s)
    BY DEF ReadInv, HandleOK, RefsUpTo
  <2>4. PICK a \in Nat, t \in Nat \cup {-1} : a = applied[i] /\ t = since[r] /\ t <= a
    <3>1. since[r] <= applied[i]
      BY DEF RejectInv, ArrivedOK, VerifyArrived, ArrivedBy
    <3> QED
      BY <1>1, <3>1, CopyTypes DEF TypeInv, TypeOK, ClientTypeOK
  <2>5. t <= s
    BY <2>3, <2>4, SMTT(30), Z3T(30)
  <2> QED
    BY <1>1, <2>2, <2>3, <2>4, <2>5, JustifiedAt
<1>8. CASE r \in Receipts /\ ~IsPristine(hm[i])
  <2>1. hist # {}
    BY <1>8 DEF RejectInv, Untouched
  <2> QED
    BY <1>1, <1>8, <2>1, ReceiptJustified
<1> QED
  BY <1>6, <1>7, <1>8

\* respond: what a committed batch left out.
LEMMA LeftOut ==
  ASSUME LeftOutLogged, IInv, OrderInv, CopyInv, RejectInv, NEW i \in Instances, pc[i] = "sweep",
         NEW r \in Elements(batch[i]), r \notin Elements(valid[i])
  PROVE  Justified(r)
<1>1. pc[i] \in Committed /\ pc[i] \in Publishing
  BY DEF Committed, Publishing
<1>2. TypeInv /\ r \in Requests
  BY BatchRequests DEF IInv
<1>3. CASE r \in Receipts
  <2>1. EntriesAt(slot[i].seq, valid[i]) \subseteq hist /\ valid[i] \in Batches /\ valid[i] # <<>>
    BY <1>1, <1>2, CopyTypes DEF IInv, ClaimsInv, ClaimOK, TypeInv
  <2>2. 1 \in 1..Len(valid[i])
    BY <2>1, BatchFacts, SMTT(30), Z3T(30)
  <2>3. hist # {}
    BY <2>1, <2>2 DEF EntriesAt
  <2> QED
    BY <1>2, <1>3, <2>3, ReceiptJustified
<1>4. CASE r \notin Receipts
  <2>1. ArrivedBy(Elements(batch[i]), view[i].m.head) /\ Verified(valid[i], batch[i], view[i].m)
    BY <1>1 DEF RejectInv, ArrivedOK, AttemptArrived, CopyInv, BaseOK
  <2>2. PICK s \in Nat : view[i].m.head <= s /\ s <= manifest.head /\ ~VerifyTxn(r, RefsAt(s))
    BY <1>1, <1>4, <2>1 DEF LeftOutLogged
  <2>3. PICK v \in Nat, t \in Nat \cup {-1} : v = view[i].m.head /\ t = since[r] /\ t <= v
    BY <1>2, <2>1, CopyTypes DEF ArrivedBy, TypeInv, TypeOK, ClientTypeOK
  <2>4. t <= s
    BY <2>2, <2>3, SMTT(30), Z3T(30)
  <2> QED
    BY <1>2, <2>2, <2>3, <2>4, JustifiedAt
<1> QED
  BY <1>3, <1>4

\* A batch error is no rejection.
LEMMA ErrorAnswers ==
  ASSUME NEW i \in Instances, FinishErrors(i), NEW r \in Requests
  PROVE  resp'[r] = resp[r] \/ resp'[r].kind = "error"
<1>1. PICK x : x = [kind |-> "error", seq |-> 0]
  OBVIOUS
<1>2. x.kind = "error"
  BY <1>1
<1> QED
  BY <1>1, <1>2 DEF FinishErrors, AnswerAll

\* Who is told of a rejection, and when.
LEMMA RejectFrame ==
  ASSUME LeftOutLogged, IInv, OrderInv, CopyInv, ReadInv, RejectInv, NEW i \in Instances,
         ClientStep(i) \/ SyncStep(i) \/ PublisherStep(i) \/ Crash(i),
         NEW r \in Requests, resp'[r].kind = "rejected"
  PROVE  resp'[r] = resp[r] \/ (Justified(r) /\ since[r] # -1)
<1>0. r \in Elements(batch[i]) => since[r] # -1
  BY OrderFacts DEF Unanswered, Waiting
<1>1. ASSUME FinishErrors(i) \/ UNCHANGED clientVars PROVE resp'[r] = resp[r]
  BY <1>1, ErrorAnswers DEF clientVars
<1>2. CASE ClientStep(i)
  BY <1>2 DEF ClientStep, PublishPush, PublishPushSynced, StartRead, FinishRead
<1>3. CASE SyncStep(i)
  BY <1>1, <1>3 DEF SyncStep, OpenRepo, SyncDone, SyncFailed
<1>4. CASE Crash(i)
  <2>1. PICK x : x = [kind |-> "error", seq |-> 0]
    OBVIOUS
  <2>2. x.kind = "error"
    BY <2>1
  <2> QED
    BY <1>4, <2>1, <2>2 DEF Crash, AnswerAll
<1>5. CASE VerifyBatch(i)
  <2>1. pc[i] = "verify"
    BY <1>5 DEF VerifyBatch
  <2>2. ASSUME NEW acc \in SUBSET DOMAIN batch[i], Accepts(acc, batch[i], hm[i], refs[i]),
               AcceptedReqs(<<>>, acc, batch[i]), AnswerAll(Elements(batch[i]), "rejected")
        PROVE  resp'[r] = resp[r] \/ (Justified(r) /\ since[r] # -1)
    BY <1>0, <2>1, <2>2, NoneAccepted DEF AnswerAll
  <2> QED
    BY <1>1, <1>5, <2>2 DEF VerifyBatch
<1>6. CASE ClaimLogSlot(i) \/ ClaimFailed(i) \/ ProbeManifest(i) \/ ProbeHead(i) \/ ProbeFailed(i)
  BY <1>1, <1>6 DEF ClaimLogSlot, ClaimFailed, ProbeManifest, ProbeHead, ProbeFailed, Contended
<1>7. CASE CommitManifest(i) \/ CommitRefused(i) \/ CommitLost(i) \/ CasLanded(i) \/ MarkPending(i)
  BY <1>1, <1>7 DEF CommitManifest, CommitRefused, CommitLost, CasLanded, MarkPending
<1>8. CASE \/ RecoverManifestVersion(i) \/ CommitLocal(i) \/ SweepBurned(i) \/ DropOwnSlot(i)
           \/ RetryAfterDrop(i) \/ AbandonDelete(i)
  BY <1>1, <1>8 DEF RecoverManifestVersion, CommitLocal, SweepBurned, DropOwnSlot, RetryAfterDrop,
     Contended, AbandonDelete
<1>9. CASE Respond(i)
  <2> SUFFICES ASSUME resp'[r] # resp[r] PROVE Justified(r) /\ since[r] # -1
    OBVIOUS
  <2>1. ASSUME NEW k \in DOMAIN valid[i], valid[i][k] = r PROVE FALSE
    <3>1. PICK n : resp'[r] = [kind |-> "ok", seq |-> n]
      BY <1>9, <2>1 DEF Respond, Answers
    <3>2. PICK x : x = [kind |-> "ok", seq |-> n]
      OBVIOUS
    <3>3. x.kind = "ok"
      BY <3>2
    <3> QED
      BY <3>1, <3>2, <3>3
  <2>2. r \in Elements(batch[i]) /\ r \notin Elements(valid[i])
    BY <1>9, <2>1 DEF Respond, Answers, Elements
  <2> QED
    BY <1>0, <1>9, <2>2, LeftOut DEF Respond
<1>10. CASE TakeBatch(i) \/ PublisherSync(i)
  BY <1>10 DEF TakeBatch, PublisherSync, clientVars
<1> QED
  BY <1>2, <1>3, <1>4, <1>5, <1>6, <1>7, <1>8, <1>9, <1>10 DEF PublisherStep

\* Nobody was rejected, and nothing has arrived.
LEMMA RejectInit == Init => RejectInv
<1> SUFFICES ASSUME Init PROVE RejectInv
  OBVIOUS
<1>1. \A r \in Requests : since[r] = -1 /\ resp[r].kind = "none"
  BY DEF Init, NoAnswer
<1>2. manifest = NewManifest /\ mver = 1 /\ hist = {}
  BY DEF Init
<1>3. -1 <= NewManifest.head
  BY SMTT(30), Z3T(30) DEF NewManifest
<1>4. NoSync.by = "none" /\ NoSync.m = NewManifest
  BY DEF NoSync
<1>5. ASSUME NEW i \in Instances
      PROVE  queue[i] = <<>> /\ sync[i] = NoSync /\ pc[i] = "idle" /\ hm[i] = NewManifest
  BY DEF Init
<1>6. IsPristine(NewManifest)
  BY DEF IsPristine, NewManifest
<1>7. \A i \in Instances : ArrivedOK(i)
  BY <1>4, <1>5, NothingEmpty DEF ArrivedOK, QueueArrived, FetchArrived, VerifyArrived, AttemptArrived,
     Publishing
<1>8. Untouched
  BY <1>2, <1>4, <1>5, <1>6 DEF Untouched
<1>9. RejectionJustified
  BY <1>1 DEF RejectionJustified
<1> QED
  BY <1>1, <1>2, <1>3, <1>7, <1>8, <1>9 DEF RejectInv

\* Every step keeps rejections justified.
LEMMA RejectNext ==
  ASSUME Replayable, LeftOutLogged, IInv, OrderInv, ListingInv, CopyInv, ReadInv, RejectInv,
         [Unovertaken]_vars, [Next]_vars
  PROVE  RejectInv'
<1>1. LogGrows /\ SinceMoves /\ TypeInv
  BY LogNext, SinceNext DEF IInv
<1>2. ArrivalsKept
  BY <1>1, ArrivalsNext
<1>3. \A j \in Instances : ArrivedOK(j)'
  BY <1>1, <1>2, ArrivedNext
<1>4. Untouched'
  BY <1>1, UntouchedNext DEF RejectInv
<1>5. ASSUME NEW r \in Requests PROVE since'[r] <= manifest'.head
  <2>1. PICK t \in Nat \cup {-1}, h \in Nat, k \in Nat :
          t = since'[r] /\ h = manifest.head /\ k = manifest'.head /\ t <= h /\ h <= k
    BY <1>1, LogFacts DEF SinceMoves, LogGrows, RejectInv, TypeInv, TypeOK, ClientTypeOK
  <2>2. t <= k
    BY <2>1, SMTT(30), Z3T(30)
  <2> QED
    BY <2>1, <2>2
<1>6. ASSUME NEW r \in Requests, resp'[r].kind = "rejected" PROVE Justified(r)'
  <2>1. resp'[r] = resp[r] \/ (Justified(r) /\ since[r] # -1)
    <3>1. CASE LandDelete \/ LandManifest \/ UNCHANGED vars
      BY <3>1 DEF LandDelete, LandManifest, vars, clientVars
    <3> QED
      BY <1>6, <3>1, RejectFrame DEF Next
  <2>2. Justified(r)
    BY <1>6, <2>1 DEF RejectInv, RejectionJustified, Justified
  <2>3. since[r] # -1
    BY <1>6, <2>1, OrderFacts DEF Unseen
  <2> QED
    BY <1>1, <2>2, <2>3, JustifiedStays DEF SinceMoves
<1> QED
  BY <1>3, <1>4, <1>5, <1>6 DEF RejectInv, RejectionJustified, Justified

-----------------------------------------------------------------------------
(* One publisher *)

\* With one publisher nobody commits between its commit and commit_local.
Unrivalled ==
  \A i \in Instances : pc[i] \in {"mark", "local"} =>
    manifest.head = LastSeq(i) /\ \A w \in late : w.base # mver

\* A publisher that is between its commit and commit_local stays as it was.
Waits(i) == /\ pc[i] \in {"mark", "local"} /\ slot'[i] = slot[i] /\ valid'[i] = valid[i]
            /\ UNCHANGED <<manifest, mver>> /\ late' \subseteq late

\* A step of the publisher gets there by a commit.
LEMMA PublisherWaits ==
  ASSUME IInv, NEW i \in Instances, PublisherStep(i), ~CommitManifest(i), pc'[i] \in {"mark", "local"}
  PROVE  Waits(i)
<1>0. TypeInv
  BY DEF IInv
<1>1. ~CommitLost(i) /\ ~CasLanded(i) /\ ~RecoverManifestVersion(i)
  BY NothingLost
<1>2. UNCHANGED <<manifest, mver, hist, late>>
  BY <1>1, LogFrame
<1>3. pc \in [Instances -> Steps]
  BY <1>0 DEF TypeInv, TypeOK, PublisherTypeOK
<1>4. ASSUME NEW q, q \notin {"mark", "local"}, pc' = [pc EXCEPT ![i] = q] PROVE FALSE
  BY <1>3, <1>4
<1>5. ASSUME ResetPublisher(i) \/ FinishErrors(i) \/ Contended(i) PROVE FALSE
  BY <1>4, <1>5 DEF Contended, FinishErrors, ResetPublisher
<1>6. CASE MarkPending(i)
  BY <1>2, <1>6 DEF MarkPending, Waits
<1>7. CASE TakeBatch(i) \/ PublisherSync(i) \/ VerifyBatch(i)
  BY <1>4, <1>5, <1>7 DEF TakeBatch, PublisherSync, VerifyBatch
<1>8. CASE ClaimLogSlot(i) \/ ClaimFailed(i) \/ ProbeFailed(i)
  BY <1>4, <1>5, <1>8 DEF ClaimLogSlot, ClaimFailed, ProbeFailed
<1>9. CASE ProbeManifest(i) \/ ProbeHead(i)
  BY <1>4, <1>5, <1>9 DEF ProbeManifest, ProbeHead
<1>10. CASE CommitRefused(i) \/ CommitLocal(i) \/ Respond(i) \/ DropOwnSlot(i) \/ RetryAfterDrop(i)
  BY <1>4, <1>5, <1>10 DEF CommitRefused, CommitLocal, Respond, DropOwnSlot, RetryAfterDrop
<1>11. CASE SweepBurned(i) \/ AbandonDelete(i)
  BY <1>2, <1>11 DEF SweepBurned, AbandonDelete, Waits, pubVars
<1> QED
  BY <1>1, <1>6, <1>7, <1>8, <1>9, <1>10, <1>11 DEF PublisherStep

\* So does any other step of the instance, and a write that takes effect late.
LEMMA OthersWaitFor ==
  ASSUME IInv, Unrivalled, NEW i \in Instances, pc'[i] \in {"mark", "local"},
         ClientStep(i) \/ SyncStep(i) \/ Crash(i) \/ LandDelete \/ LandManifest \/ UNCHANGED vars
  PROVE  Waits(i)
<1>0. TypeInv
  BY DEF IInv
<1>1. pc \in [Instances -> Steps]
  BY <1>0 DEF TypeInv, TypeOK, PublisherTypeOK
<1>2. ASSUME ResetPublisher(i) PROVE FALSE
  BY <1>0, <1>2, ResetPlaces
<1>3. CASE ClientStep(i)
  <2>1. UNCHANGED <<manifest, mver, hist, late>>
    BY <1>3 DEF ClientStep, PublishPush, PublishPushSynced, StartRead, FinishRead, bucketVars
  <2> QED
    BY <1>3, <2>1 DEF ClientStep, PublishPush, PublishPushSynced, StartRead, FinishRead, pubVars, Waits
<1>4. CASE SyncStep(i)
  <2>1. UNCHANGED <<manifest, mver, late>>
    BY <1>4 DEF SyncStep, OpenRepo, SyncDone, SyncFailed, bucketVars
  <2>2. pc'[i] = pc[i] /\ UNCHANGED <<slot, valid>>
    BY <1>1, <1>2, <1>4 DEF SyncStep, OpenRepo, SyncDone, SyncFailed, FinishErrors, pubVars
  <2> QED
    BY <2>1, <2>2 DEF Waits
<1>5. CASE Crash(i)
  BY <1>2, <1>5 DEF Crash
<1>6. CASE LandDelete \/ UNCHANGED vars
  BY <1>6 DEF LandDelete, vars, bucketVars, pubVars, Waits
<1>7. CASE LandManifest
  <2>1. UNCHANGED <<pc, slot, valid>> /\ pc[i] \in {"mark", "local"}
    BY <1>7 DEF LandManifest, pubVars
  <2>2. \A w \in late : w.base # mver
    BY <2>1 DEF Unrivalled
  <2> QED
    BY <1>7, <2>1, <2>2 DEF LandManifest, Waits
<1> QED
  BY <1>3, <1>4, <1>5, <1>6, <1>7

\* A commit leaves no other write a chance.
LEMMA CommitUnrivalled ==
  ASSUME IInv, OrderInv, NEW i \in Instances, CommitManifest(i)
  PROVE  manifest'.head = LastSeq(i)' /\ \A w \in late' : w.base # mver'
<1>1. manifest' = UpdatedManifest(i) /\ mver' = mver + 1 /\ UNCHANGED <<late, slot, valid>>
  BY DEF CommitManifest, PutManifest
<1>2. UpdatedManifest(i).head = LastSeq(i)
  <2>1. view[i].m \in Manifests
    BY DEF IInv, TypeInv, TypeOK, PublisherTypeOK
  <2> QED
    BY <2>1, SMTT(30), Z3T(30) DEF UpdatedManifest, Manifests
<1>3. LastSeq(i)' = LastSeq(i)
  BY <1>1 DEF LastSeq
<1>4. ASSUME NEW w \in late PROVE w.base # mver + 1
  <2>1. PICK a \in Nat, n \in Nat : a = w.base /\ n = mver /\ a <= n
    BY DEF IInv, ClaimsInv, LateOK, TypeInv, TypeOK, BucketTypeOK
  <2> QED
    BY <2>1, SMTT(30), Z3T(30)
<1> QED
  BY <1>1, <1>2, <1>3, <1>4

\* Where there is one instance, nobody commits before it has installed its batch.
LEMMA SoleNext ==
  ASSUME IInv, OrderInv, Unrivalled, \A i, j \in Instances : i = j, [Next]_vars
  PROVE  Unrivalled'
<1> SUFFICES ASSUME NEW i \in Instances, pc'[i] \in {"mark", "local"}
             PROVE  manifest'.head = LastSeq(i)' /\ \A w \in late' : w.base # mver'
  BY DEF Unrivalled
<1>1. CASE CommitManifest(i)
  BY <1>1, CommitUnrivalled
<1>2. CASE ~CommitManifest(i)
  <2>1. Waits(i)
    BY <1>2, PublisherWaits, OthersWaitFor DEF Next
  <2> QED
    BY <2>1 DEF Waits, Unrivalled, LastSeq
<1> QED
  BY <1>1, <1>2

\* There, commit_local installs no batch that a sync has gone beyond.
LEMMA SoleInstalls == TypeInv /\ CopyInv /\ Unrivalled => Unovertaken
  BY DEF CopyInv, CopyOK, Unrivalled, Unovertaken, CommitLocal

\* At first nothing is committed.
LEMMA SoleInit == Init => Unrivalled
  BY DEF Init, Unrivalled

-----------------------------------------------------------------------------
(* Single answers *)

\* Only who waits at the instance is answered.
LEMMA FinishAnswers ==
  ASSUME NEW i \in Instances, FinishErrors(i), NEW r \in Requests
  PROVE  resp'[r] = resp[r] \/ r \in Waiting(i)
  BY DEF FinishErrors, AnswerAll, Waiting

\* A step of an instance answers only who waits there.
LEMMA AnswerFrame ==
  ASSUME OrderInv, NEW i \in Instances, NEW r \in Requests,
         ClientStep(i) \/ SyncStep(i) \/ PublisherStep(i) \/ Crash(i)
  PROVE  resp'[r] = resp[r] \/ r \in Waiting(i)
<1>1. ASSUME Contended(i) PROVE resp'[r] = resp[r] \/ r \in Waiting(i)
  BY <1>1, FinishAnswers DEF Contended, clientVars
<1>2. CASE ClientStep(i)
  BY <1>2 DEF ClientStep, PublishPush, PublishPushSynced, StartRead, FinishRead
<1>3. CASE SyncStep(i)
  BY <1>3, FinishAnswers DEF SyncStep, OpenRepo, SyncDone, SyncFailed, clientVars
<1>4. CASE Crash(i)
  BY <1>4 DEF Crash, AnswerAll
<1>5. CASE VerifyBatch(i)
  BY <1>5 DEF VerifyBatch, AnswerAll, Waiting, clientVars
<1>6. CASE ClaimFailed(i) \/ ProbeFailed(i)
  BY <1>6, FinishAnswers DEF ClaimFailed, ProbeFailed
<1>7. CASE ProbeManifest(i) \/ RetryAfterDrop(i)
  BY <1>1, <1>7 DEF ProbeManifest, RetryAfterDrop, clientVars
<1>8. CASE ProbeHead(i)
  BY <1>8, FinishAnswers DEF ProbeHead, clientVars
<1>9. CASE CasLanded(i)
  BY <1>9, FinishAnswers DEF CasLanded, clientVars
<1>10. CASE Respond(i)
  <2>1. Elements(valid[i]) \subseteq Elements(batch[i])
    BY <1>10, OrderFacts DEF Respond, ValidOK, Publishing
  <2>2. resp'[r] = resp[r] \/ r \in Elements(valid[i]) \/ r \in Elements(batch[i])
    BY <1>10 DEF Respond, Answers, Elements
  <2> QED
    BY <2>1, <2>2 DEF Waiting
<1>11. CASE \/ TakeBatch(i) \/ PublisherSync(i) \/ ClaimLogSlot(i) \/ CommitManifest(i)
            \/ CommitRefused(i) \/ CommitLost(i) \/ MarkPending(i)
  BY <1>11 DEF TakeBatch, PublisherSync, ClaimLogSlot, CommitManifest, CommitRefused,
     CommitLost, MarkPending, clientVars
<1>12. CASE \/ RecoverManifestVersion(i) \/ CommitLocal(i) \/ SweepBurned(i) \/ DropOwnSlot(i)
            \/ AbandonDelete(i)
  BY <1>12 DEF RecoverManifestVersion, CommitLocal, SweepBurned, DropOwnSlot, AbandonDelete,
     clientVars
<1> QED
  BY <1>2, <1>3, <1>4, <1>5, <1>6, <1>7, <1>8, <1>9, <1>10, <1>11, <1>12 DEF PublisherStep

\* A client is answered once, after its request arrived.
LEMMA AnsweredOnce ==
  ASSUME OrderInv, [Next]_vars, NEW r \in Requests, resp'[r] # resp[r]
  PROVE  resp[r].kind = "none" /\ since[r] # -1
<1>1. ASSUME NEW i \in Instances, ClientStep(i) \/ SyncStep(i) \/ PublisherStep(i) \/ Crash(i)
      PROVE  resp[r].kind = "none" /\ since[r] # -1
  BY <1>1, AnswerFrame, OrderFacts DEF Unanswered
<1>2. CASE LandDelete \/ LandManifest \/ UNCHANGED vars
  BY <1>2 DEF LandDelete, LandManifest, vars, clientVars
<1> QED
  BY <1>1, <1>2 DEF Next

\* Any other step is an Answer, if only to nobody.
LEMMA OtherAnswers ==
  ASSUME OrderInv, IInv', CommittedOnce', [Next]_vars, UNCHANGED hist
  PROVE  Abstract!Answer
<1>1. \A r \in Requests : resp'[r].kind \in {"none", "ok", "rejected", "error"}
  BY DEF IInv, TypeInv, TypeOK, ClientTypeOK
<1>2. [r \in Requests |-> resp'[r].kind] \in [Requests -> {"none", "ok", "rejected", "error"}]
  BY <1>1
<1>3. ASSUME NEW r \in Requests, resp'[r].kind # resp[r].kind
      PROVE  /\ resp[r].kind = "none"
             /\ resp'[r].kind = "ok" => Abstract!Committed(r)
             /\ resp'[r].kind = "rejected" => ~Abstract!Committed(r)
  <2>1. resp[r].kind = "none"
    BY <1>3, AnsweredOnce
  <2>2. ASSUME resp'[r].kind = "ok" PROVE Abstract!Committed(r)
    <3>1. PICK e : e = [seq |-> resp'[r].seq, req |-> r]
      OBVIOUS
    <3>2. e \in hist /\ e.req = r
      BY <2>2, <3>1 DEF IInv, AckedCommitted
    <3> QED
      BY <3>2 DEF Abstract!Committed
  <2>3. ASSUME resp'[r].kind = "rejected" PROVE ~Abstract!Committed(r)
    BY <2>3 DEF Abstract!Committed, CommittedOnce
  <2> QED
    BY <2>1, <2>2, <2>3
<1> QED
  BY <1>2, <1>3 DEF Abstract!Answer
=============================================================================
