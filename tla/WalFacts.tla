------------------------------ MODULE WalFacts ------------------------------
(***************************************************************************)
(* Facts about batches, entries, manifests, replay and commits that the    *)
(* proofs about WalPublish share.                                          *)
(***************************************************************************)
EXTENDS WalInvariants, TLAPS

\* A step that names no prover is for Zenon.  Where SMT is named, Z3 is a second attempt.
USE ZenonT(40)

-----------------------------------------------------------------------------
(* Batches, entries and manifests *)

\* Batches are sequences of at most MaxBatch requests.
LEMMA BatchFacts ==
  ASSUME NEW b \in Batches
  PROVE  /\ Len(b) \in Nat /\ Len(b) <= MaxBatch
         /\ DOMAIN b = 1..Len(b)
         /\ \A k \in 1..Len(b) : b[k] \in Requests
         /\ b \in Seq(Requests)
<1>1. PICK n \in 0..MaxBatch : b \in [1..n -> Requests]
  BY DEF Batches
<1>2. n \in Nat /\ n <= MaxBatch
  BY ProtocolAssumption, SMTT(30), Z3T(30)
<1>3. b \in Seq(Requests) /\ Len(b) = n
  BY <1>1, <1>2, SMTT(30), Z3T(30)
<1> QED
  BY <1>1, <1>2, <1>3

\* The seqs of a batch follow its slot.
LEMMA EntriesAtFacts ==
  ASSUME NEW s \in Nat, NEW b \in Batches
  PROVE  /\ EntriesAt(s, b) \in SUBSET Entries
         /\ \A e \in EntriesAt(s, b) : e.seq >= s /\ e.seq <= s + Len(b)
<1>1. Len(b) \in Nat /\ \A k \in 1..Len(b) : b[k] \in Requests
  BY BatchFacts
<1> QED
  BY <1>1, SMTT(30), Z3T(30) DEF EntriesAt, Entries

\* A batch that is not empty has a first request.
LEMMA NonEmptyBatch ==
  ASSUME NEW b \in Batches, b # <<>>
  PROVE  Len(b) > 0
  BY BatchFacts, SMTT(30), Z3T(30)

\* The empty batch is a batch.
LEMMA EmptyIsBatch == <<>> \in Batches
<1>1. <<>> \in [1..0 -> Requests]
  BY SMTT(30), Z3T(30)
<1> QED
  BY <1>1, ProtocolAssumption, SMTT(30), Z3T(30) DEF Batches

\* Types of the initial values.
LEMMA InitialTypes ==
  /\ NewManifest \in Manifests
  /\ NoView \in [m : Manifests, ver : Nat]
  /\ NoSlot \in Slots
  /\ NoSync \in [by : {"none", "reader", "publisher", "open", "checkpoint"},
               m : Manifests, ver : Nat]
  /\ NoReader \in [pc : {"idle", "sync", "read"}, acked : SUBSET Nat, since : Nat]
  /\ NoAnswer \in [kind : {"none", "ok", "rejected", "error"}, seq : Nat]
  /\ NoRefs \in RefMaps
  BY DEF NewManifest, Manifests, NoView, NoSlot, Slots, NoSync, NoReader, NoAnswer, NoRefs,
     RefMaps, Values

\* updated_manifest of a non-empty batch.
LEMMA UpdatedManifestType ==
  ASSUME PublisherTypeOK, NEW i \in Instances, valid[i] # <<>>
  PROVE  /\ LastSeq(i) \in Nat /\ LastSeq(i) >= slot[i].seq
         /\ UpdatedManifest(i) \in Manifests
<1>1. /\ slot[i] \in Slots /\ valid[i] \in Batches
      /\ view[i] \in [m : Manifests, ver : Nat]
  BY DEF PublisherTypeOK
<1>2. Len(valid[i]) \in Nat /\ Len(valid[i]) > 0
  BY <1>1, NonEmptyBatch, BatchFacts
<1>3. LastSeq(i) \in Nat /\ LastSeq(i) >= slot[i].seq
  BY <1>1, <1>2, SMTT(30), Z3T(30) DEF LastSeq, Slots
<1>4. EntriesAt(slot[i].seq, valid[i]) \in SUBSET Entries
  BY <1>1, EntriesAtFacts DEF Slots
<1>5. ReceiptSeqs(i) \in SUBSET Nat
  BY <1>4 DEF ReceiptSeqs, Entries
<1>6. ReceiptSeqs(i) # {} => (CHOOSE s \in ReceiptSeqs(i) : TRUE) \in Nat
  BY <1>5
<1>7. [first |-> slot[i].seq, last |-> LastSeq(i)] \in Segments
  BY <1>1, <1>3 DEF Segments, Slots
<1> DEFINE m == view[i].m
           receipt == IF ReceiptSeqs(i) = {} THEN m.receipt ELSE CHOOSE s \in ReceiptSeqs(i) : TRUE
           segs == m.segs \cup {[first |-> slot[i].seq, last |-> LastSeq(i)]}
<1>8. m \in Manifests /\ m.rev + 1 \in Nat
  BY <1>1, SMTT(30), Z3T(30) DEF Manifests
<1>9. receipt \in Nat
  BY <1>6, <1>8 DEF Manifests
<1>10. segs \in SUBSET Segments
  BY <1>7, <1>8 DEF Manifests
<1>11. UpdatedManifest(i) = [m EXCEPT !.head = LastSeq(i), !.segs = segs, !.receipt = receipt,
                                     !.rev = m.rev + 1]
  BY DEF UpdatedManifest
<1> HIDE DEF m, receipt, segs
<1>12. UpdatedManifest(i) \in Manifests
  BY <1>3, <1>8, <1>9, <1>10, <1>11 DEF Manifests
<1> QED
  BY <1>3, <1>12

\* Types of what is in the bucket.
LEMMA BucketFacts ==
  ASSUME BucketTypeOK
  PROVE  /\ manifest \in Manifests /\ manifest.head \in Nat /\ manifest.rev \in Nat
         /\ mver \in Nat /\ nver \in Nat
         /\ \A d \in dels : d.seq \in Nat /\ d.ver \in Nat
         /\ \A o \in log : o.seq \in Nat /\ o.ver \in Nat
<1>1. manifest \in Manifests /\ mver \in Nat /\ nver \in Nat
  BY DEF BucketTypeOK
<1>2. manifest.head \in Nat /\ manifest.rev \in Nat
  BY <1>1 DEF Manifests
<1>3. \A d \in dels : d.seq \in Nat /\ d.ver \in Nat
  BY DEF BucketTypeOK
<1>4. \A o \in log : o.seq \in Nat /\ o.ver \in Nat
  BY DEF BucketTypeOK, LogObjects
<1> QED
  BY <1>1, <1>2, <1>3, <1>4

\* What a publisher with the current version writes appends to the current manifest.
LEMMA UpdatedAppends ==
  ASSUME IInv, NEW i \in Instances, pc[i] = "cas", view[i].ver = mver
  PROVE  /\ UpdatedManifest(i) \in Manifests
         /\ Appends(UpdatedManifest(i), slot[i]) /\ Holds(slot[i], valid[i])
<1>1. view[i].m = manifest /\ slot[i].seq > manifest.head /\ Holds(slot[i], valid[i])
  BY DEF IInv, ViewsInv, AttemptOK, Paired, ClaimsInv, ClaimOK
<1>2. valid[i] # <<>>
  BY DEF IInv, TypeInv, TypeOK, Publishing
<1>3. /\ LastSeq(i) \in Nat /\ LastSeq(i) >= slot[i].seq
      /\ UpdatedManifest(i) \in Manifests
  BY <1>2, UpdatedManifestType DEF IInv, TypeInv, TypeOK
<1>4. manifest \in Manifests
  BY DEF IInv, TypeInv, TypeOK, BucketTypeOK
<1> DEFINE m == UpdatedManifest(i)
<1>5. /\ m.head = LastSeq(i) /\ m.rev = manifest.rev + 1 /\ m.ckpt = manifest.ckpt
      /\ m.segs = manifest.segs \cup {[first |-> slot[i].seq, last |-> LastSeq(i)]}
  BY <1>1, <1>4 DEF UpdatedManifest, Manifests
<1> HIDE DEF m
<1>6. Appends(m, slot[i])
  BY <1>1, <1>3, <1>5 DEF Appends
<1> QED
  BY <1>1, <1>3, <1>6 DEF m

\* A bounded, nonempty set of entries has a latest one.
LEMMA LatestExists ==
  ASSUME Replayable, NEW es \in SUBSET Entries, NEW B \in Nat, es # {}, \A e \in es : e.seq <= B
  PROVE  Latest(es) \in es /\ \A e \in es : e.seq <= Latest(es).seq
<1>1. \E e \in es : \A f \in es : f.seq <= e.seq
  BY DEF Replayable
<1> QED
  BY <1>1 DEF Latest

\* The types hold of a new repository.
LEMMA TypeInit == Init => TypeInv
<1> SUFFICES ASSUME Init PROVE TypeInv
  BY SMTT(30), Z3T(30)
<1>1. BucketTypeOK
  BY InitialTypes DEF Init, BucketTypeOK
<1>2. LocalTypeOK
  BY InitialTypes DEF Init, LocalTypeOK
<1>3. PublisherTypeOK
  BY InitialTypes, EmptyIsBatch, ProtocolAssumption, SMTT(30), Z3T(30) DEF Init, PublisherTypeOK, Steps
<1>4. ClientTypeOK
  BY InitialTypes, SMTT(30), Z3T(30) DEF Init, ClientTypeOK
<1>5. \A i \in Instances : pc[i] \notin Publishing
  BY DEF Init, Publishing
<1> QED
  BY <1>1, <1>2, <1>3, <1>4, <1>5 DEF TypeInv, TypeOK

-----------------------------------------------------------------------------
(* Replaying entries *)

\* Distances below a bound order naturals backwards.
LEMMA Distances ==
  ASSUME NEW b \in Nat, NEW s \in Nat, NEW t \in Nat, s <= b
  PROVE  b - s \in Nat /\ (~(b - s < b - t) => s <= t)
  BY SMTT(30), Z3T(30)

Names(e, n) == n \in DOMAIN Txn[e.req]

\* e is the last entry of es that sets ref n.
LastNaming(e, n, es) ==
  e \in es /\ Names(e, n) /\ \A f \in es : Names(f, n) /\ f # e => f.seq < e.seq

\* A ref no entry names keeps its value.
LEMMA ApplyNone ==
  ASSUME NEW rs, NEW es, NEW n \in Refs, \A e \in es : ~Names(e, n)
  PROVE  ApplyEntries(rs, es)[n] = rs[n]
<1>1. {e \in es : n \in DOMAIN Txn[e.req]} = {}
  BY DEF Names
<1> QED
  BY <1>1 DEF ApplyEntries

\* Otherwise it gets the value the last entry naming it sets.
LEMMA ApplyLast ==
  ASSUME NEW rs, NEW es \in SUBSET Entries, NEW n \in Refs, NEW e, LastNaming(e, n, es)
  PROVE  ApplyEntries(rs, es)[n] = Txn[e.req][n].new
<1> DEFINE N == {f \in es : n \in DOMAIN Txn[f.req]}
<1>1. e \in N /\ N # {} /\ \A f \in N : f # e => f.seq < e.seq
  BY DEF LastNaming, Names
<1>2. \A f \in N : f.seq \in Nat
  BY DEF Entries
<1>3. \A f \in N : f.seq <= e.seq
  BY <1>1, <1>2, SMTT(30), Z3T(30)
<1>4. Latest(N) \in N /\ \A f \in N : f.seq <= Latest(N).seq
  BY <1>1, <1>3 DEF Latest
<1>5. Latest(N) = e
  <2> SUFFICES ASSUME Latest(N) # e PROVE FALSE
    BY SMTT(30), Z3T(30)
  <2>1. Latest(N).seq < e.seq /\ e.seq <= Latest(N).seq
    BY <1>1, <1>4
  <2>2. Latest(N).seq \in Nat /\ e.seq \in Nat
    BY <1>1, <1>2, <1>4
  <2> HIDE DEF N
  <2> QED
    BY <2>1, <2>2, SMTT(30), Z3T(30)
<1>6. ApplyEntries(rs, es)[n] = Txn[Latest(N).req][n].new
  BY <1>1 DEF ApplyEntries
<1> QED
  BY <1>5, <1>6

\* Bounded entries with a seq each: some entry naming n is the last one.
LEMMA LastExists ==
  ASSUME Replayable,
         NEW es \in SUBSET Entries, NEW B \in Nat, \A e \in es : e.seq <= B,
         \A e, f \in es : e.seq = f.seq => e = f,
         NEW n \in Refs, \E e \in es : Names(e, n)
  PROVE  \E e \in es : LastNaming(e, n, es)
<1> DEFINE N == {f \in es : Names(f, n)}
<1>1. N \in SUBSET Entries /\ N # {} /\ \A e \in N : e.seq <= B
  BY SMTT(30), Z3T(30)
<1>3. PICK e \in N : \A f \in N : f.seq <= e.seq
  BY <1>1, LatestExists
<1>4. \A f \in N : f # e => f.seq < e.seq
  <2>1. \A f \in N : f.seq \in Nat
    BY DEF Entries
  <2> QED
    BY <1>3, <2>1, SMTT(30), Z3T(30)
<1> QED
  BY <1>3, <1>4 DEF LastNaming

-----------------------------------------------------------------------------
(* Requests and their places in the log *)

\* The parts of the order invariant.
LEMMA OrderFacts ==
  ASSUME OrderInv
  PROVE  /\ \A r \in Requests : Unseen(r)
         /\ \A i \in Instances : Unanswered(i) /\ PlaceOK(i) /\ ValidOK(i)
         /\ \A i, j \in Instances : i # j => Waiting(i) \cap Waiting(j) = {}
         /\ \A w \in late : LateAnswered(w) /\ LateNew(w)
         /\ HistOnce /\ \A e \in hist : Told(e)
  BY DEF OrderInv, WaitingInv, OnceInv

\* An entry of a batch is at the place its seq says.
LEMMA EntryPlaces ==
  ASSUME NEW first \in Nat, NEW reqs \in Batches, NEW e \in EntriesAt(first, reqs)
  PROVE  \E k \in DOMAIN reqs : /\ e = [seq |-> first + k - 1, req |-> reqs[k]]
                                /\ e.seq = first + k - 1 /\ e.req = reqs[k]
                                /\ first <= e.seq /\ e.seq <= first + Len(reqs) - 1
<1>1. DOMAIN reqs = 1..Len(reqs) /\ Len(reqs) \in Nat
  BY BatchFacts
<1>2. PICK k \in 1..Len(reqs) : e = [seq |-> first + k - 1, req |-> reqs[k]]
  BY DEF EntriesAt
<1>3. first <= first + k - 1 /\ first + k - 1 <= first + Len(reqs) - 1
  BY <1>1, SMTT(30), Z3T(30)
<1> QED
  BY <1>1, <1>2, <1>3

-----------------------------------------------------------------------------
(* What a commit appends *)

\* Without a lost answer there is nothing to find out.
LEMMA NothingLost ==
  ASSUME IInv, NEW i \in Instances,
         CommitLost(i) \/ CasLanded(i) \/ RecoverManifestVersion(i)
  PROVE  FALSE
<1>1. faults.cas \in Nat /\ MaxLostCas = 0
  BY DEF IInv, NoAmbiguity, TypeInv, TypeOK, BucketTypeOK
<1>2. pc[i] \notin {"landed", "recover"}
  BY DEF IInv, ViewsInv, AttemptOK
<1> QED
  BY <1>1, <1>2, SMTT(30), Z3T(30) DEF CommitLost, CasLanded, RecoverManifestVersion

\* A copy at the end of the log is exact.
LEMMA MirrorsAll ==
  ASSUME NEW rs \in RefMaps, NEW es \in SUBSET Entries, NEW s \in Nat, Mirrors(rs, es, s),
         \A e \in es : e.seq <= s
  PROVE  rs = ApplyEntries(NoRefs, {e \in es : e.seq <= s})
<1>1. \A e \in es : ~(e.seq > s)
  BY SMTT(30), Z3T(30) DEF Entries
<1>2. \A n \in Refs : rs[n] = ApplyEntries(NoRefs, {e \in es : e.seq <= s})[n]
  BY <1>1 DEF Mirrors
<1>3. PICK A : A = ApplyEntries(NoRefs, {e \in es : e.seq <= s})
  BY SMTT(30), Z3T(30)
<1>4. A = [n \in Refs |-> A[n]]
  BY <1>3 DEF ApplyEntries
<1>5. rs = [n \in Refs |-> rs[n]]
  BY DEF RefMaps
<1>6. [n \in Refs |-> rs[n]] = [n \in Refs |-> A[n]]
  BY <1>2, <1>3
<1> QED
  BY <1>3, <1>4, <1>5, <1>6

\* The log between a seq and the head of a manifest somebody fetched.
LEMMA EntriesRead ==
  ASSUME IInv, ListingInv, NEW m \in Manifests, Prefix(m), NEW from \in Nat
  PROVE  EntriesIn(m, from) = {e \in hist : e.seq > from /\ e.seq <= m.head}
<1>1. /\ log \subseteq LogObjects /\ manifest \in Manifests /\ hist = ListedEntries
      /\ \A o, p \in log : o.seq = p.seq => o = p
      /\ \A o \in log, g \in manifest.segs : o.seq = g.first => g.last = o.seq + Len(o.reqs) - 1
      /\ m.segs = {g \in manifest.segs : g.first <= m.head}
  BY DEF IInv, TypeInv, TypeOK, BucketTypeOK, SegmentsInv, VersionsInv, ListingInv, Prefix
<1>2. \A e \in hist : e.seq \in Nat
  BY DEF IInv, TypeInv, TypeOK, BucketTypeOK, Entries
<1>3. ASSUME NEW e \in EntriesIn(m, from)
      PROVE  e \in hist /\ e.seq > from /\ e.seq <= m.head
  <2>1. PICK g \in Needed(m, from) : \E o \in ObjectAt(g.first) : e \in EntriesAt(o.seq, o.reqs)
    BY <1>3 DEF EntriesIn
  <2>2. PICK o \in ObjectAt(g.first) : e \in EntriesAt(o.seq, o.reqs)
    BY <2>1
  <2>3. o \in log /\ o.seq = g.first /\ g \in manifest.segs
    BY <1>1 DEF ObjectAt, Needed
  <2>4. e \in ListedEntries
    BY <2>2, <2>3 DEF ListedEntries
  <2> QED
    BY <1>1, <1>3, <2>4 DEF EntriesIn
<1>4. ASSUME NEW e \in hist, e.seq > from, e.seq <= m.head
      PROVE  e \in EntriesIn(m, from)
  <2>1. PICK o \in log : /\ \E g \in manifest.segs : g.first = o.seq
                         /\ e \in EntriesAt(o.seq, o.reqs)
    BY <1>1 DEF ListedEntries
  <2>2. PICK g \in manifest.segs : g.first = o.seq
    BY <2>1
  <2>3. o.seq \in Nat /\ o.reqs \in Batches
    BY <1>1 DEF LogObjects
  <2>4. PICK l \in Nat : l = Len(o.reqs)
    BY <2>3, BatchFacts
  <2>5. o.seq <= e.seq /\ e.seq <= o.seq + l - 1 /\ e.seq \in Nat
    BY <1>2, <2>1, <2>3, <2>4, EntryPlaces
  <2>6. g.first <= m.head /\ g.last > from
    <3>1. m.head \in Nat /\ g.last = o.seq + l - 1
      BY <1>1, <2>2, <2>4 DEF Manifests
    <3>2. o.seq <= m.head
      BY <1>4, <2>3, <2>5, <3>1, SMTT(30), Z3T(30)
    <3>3. o.seq + l - 1 > from
      BY <1>4, <2>3, <2>5, SMTT(30), Z3T(30)
    <3> QED
      BY <2>2, <3>1, <3>2, <3>3
  <2>7. g \in Needed(m, from)
    BY <1>1, <2>6 DEF Needed
  <2>8. o \in ObjectAt(g.first)
    BY <2>2 DEF ObjectAt
  <2> QED
    BY <1>4, <2>1, <2>7, <2>8 DEF EntriesIn
<1> QED
  BY <1>3, <1>4

\* The facts about a commit, by its publisher or late.
LEMMA CommitFacts ==
  ASSUME IInv, OrderInv, NEW i \in Instances, CommitManifest(i)
  PROVE  \E m \in Manifests, s \in Slots, reqs \in Batches :
           /\ m = UpdatedManifest(i) /\ s = slot[i] /\ reqs = valid[i] /\ reqs # <<>>
           /\ Appends(m, s) /\ Holds(s, reqs) /\ m.head = s.seq + Len(reqs) - 1
           /\ manifest' = m /\ mver' = mver + 1 /\ hist' = hist \cup EntriesAt(s.seq, reqs)
<1>1. /\ pc[i] = "cas" /\ view[i].ver = mver /\ manifest' = UpdatedManifest(i) /\ mver' = mver + 1
      /\ hist' = hist \cup EntriesAt(slot[i].seq, valid[i])
  BY DEF CommitManifest, PutManifest
<1>2. /\ UpdatedManifest(i) \in Manifests /\ Appends(UpdatedManifest(i), slot[i])
      /\ Holds(slot[i], valid[i])
  BY <1>1, UpdatedAppends
<1>3. /\ slot[i] \in Slots /\ valid[i] \in Batches /\ view[i].m \in Manifests
  BY DEF IInv, TypeInv, TypeOK, PublisherTypeOK
<1>4. valid[i] # <<>>
  BY <1>1 DEF IInv, TypeInv, Publishing
<1>5. UpdatedManifest(i).head = LastSeq(i)
  BY <1>3, SMTT(30), Z3T(30) DEF UpdatedManifest, Manifests
<1> QED
  BY <1>1, <1>2, <1>3, <1>4, <1>5 DEF LastSeq

\* What a write that takes effect late appends.
LEMMA LandFacts ==
  ASSUME IInv, OrderInv, LandManifest, mver' # mver
  PROVE  \E w \in late :
           /\ w.base = mver /\ late' = late \ {w}
           /\ w.m \in Manifests /\ w.slot \in Slots /\ w.reqs \in Batches
           /\ Appends(w.m, w.slot) /\ Holds(w.slot, w.reqs)
           /\ w.m.head = w.slot.seq + Len(w.reqs) - 1
           /\ manifest' = w.m /\ mver' = mver + 1
           /\ hist' = hist \cup EntriesAt(w.slot.seq, w.reqs)
<1>1. PICK w \in late : /\ late' = late \ {w} /\ w.base = mver
                        /\ manifest' = w.m /\ mver' = mver + 1
                        /\ hist' = hist \cup EntriesAt(w.slot.seq, w.reqs)
  BY DEF LandManifest, PutManifest
<1>2. w.m \in Manifests /\ w.slot \in Slots /\ w.reqs \in Batches
  BY DEF IInv, TypeInv, TypeOK, BucketTypeOK
<1>3. Appends(w.m, w.slot) /\ Holds(w.slot, w.reqs)
  BY <1>1 DEF IInv, ClaimsInv, LateOK
<1>4. w.m.head = w.slot.seq + Len(w.reqs) - 1
  BY OrderFacts DEF LateAnswered
<1> QED
  BY <1>1, <1>2, <1>3, <1>4

\* A late write that comes too late changes nothing.
LEMMA LandNothing ==
  ASSUME IInv, LandManifest, mver' = mver
  PROVE  UNCHANGED <<manifest, hist>>
<1>1. mver \in Nat /\ mver + 1 # mver
  BY BucketFacts, SMTT(30), Z3T(30) DEF IInv, TypeInv, TypeOK
<1> QED
  BY <1>1 DEF LandManifest, PutManifest

\* Types of what a copy and an attempt consist of.
LEMMA CopyTypes ==
  ASSUME TypeInv, NEW i \in Instances
  PROVE  /\ saved[i] \in Nat /\ applied[i] \in Nat /\ hv[i] \in Nat /\ refs[i] \in RefMaps
         /\ sync[i].m \in Manifests /\ sync[i].m.head \in Nat /\ hm[i].head \in Nat
         /\ view[i].m.head \in Nat /\ done[i].m.head \in Nat
         /\ slot[i].seq \in Nat /\ valid[i] \in Batches
         /\ hist \in SUBSET Entries /\ manifest.head \in Nat /\ mver \in Nat
<1>1. saved[i] \in Nat /\ applied[i] \in Nat /\ hv[i] \in Nat /\ refs[i] \in RefMaps
  BY DEF TypeInv, TypeOK, LocalTypeOK
<1>2. sync[i].m \in Manifests /\ hm[i] \in Manifests
  BY DEF TypeInv, TypeOK, LocalTypeOK
<1>3. view[i].m \in Manifests /\ done[i].m \in Manifests /\ slot[i] \in Slots /\ valid[i] \in Batches
  BY DEF TypeInv, TypeOK, PublisherTypeOK
<1>4. hist \in SUBSET Entries /\ manifest \in Manifests /\ mver \in Nat
  BY DEF TypeInv, TypeOK, BucketTypeOK
<1> QED
  BY <1>1, <1>2, <1>3, <1>4 DEF Manifests, Slots

\* A copy with the current version holds the current refs.
LEMMA CopyCurrent ==
  ASSUME IInv, OrderInv, CopyInv, NEW i \in Instances, hv[i] = mver
  PROVE  refs[i] = RefsAt(manifest.head) /\ hm[i] = manifest
<1>1. mver > 0 /\ hm[i] = manifest
  BY DEF IInv, ViewsInv, LocalOK, Paired
<1>2. /\ refs[i] \in RefMaps /\ hist \in SUBSET Entries /\ manifest.head \in Nat /\ mver \in Nat
  BY CopyTypes DEF IInv
<1>3. hv[i] # 0
  BY <1>1, <1>2, SMTT(30), Z3T(30)
<1>4. applied[i] = manifest.head /\ Mirrors(refs[i], hist, applied[i])
  BY <1>1, <1>3 DEF CopyInv, CopyOK
<1>5. \A e \in hist : e.seq <= manifest.head
  BY OrderFacts DEF HistOnce
<1> QED
  BY <1>1, <1>2, <1>4, <1>5, MirrorsAll DEF RefsAt

-----------------------------------------------------------------------------
(* Requests and their places in the log *)

\* What a sequence holds.
LEMMA SeqElement ==
  ASSUME NEW T, NEW q \in Seq(T), NEW k \in DOMAIN q
  PROVE  q[k] \in T
  BY SMTT(30), Z3T(30)

\* How long a sequence is.
LEMMA LenFacts ==
  ASSUME NEW T, NEW q \in Seq(T)
  PROVE  Len(q) \in Nat /\ DOMAIN q = 1..Len(q)
  BY SMTT(30), Z3T(30)

\* A queue with one more request (tx.send).
LEMMA AppendFacts ==
  ASSUME NEW T, NEW q \in Seq(T), NEW x \in T
  PROVE  /\ DOMAIN Append(q, x) = DOMAIN q \cup {Len(q) + 1} /\ Len(q) + 1 \notin DOMAIN q
         /\ Append(q, x)[Len(q) + 1] = x
         /\ \A k \in DOMAIN q : Append(q, x)[k] = q[k]
  BY SMTT(30), Z3T(30)

\* What is left of a sequence of length l behind its first n elements.
LEMMA RestFacts ==
  ASSUME NEW q, NEW l \in Nat, NEW n \in Nat, n <= l
  PROVE  /\ DOMAIN SubSeq(q, n + 1, l) = 1..(l - n)
         /\ \A k \in 1..(l - n) : SubSeq(q, n + 1, l)[k] = q[n + k]
<1>1. SubSeq(q, n + 1, l) = [k \in 1..(1 + l - (n + 1)) |-> q[k + (n + 1) - 1]]
  BY SMTT(30), Z3T(30)
<1>2. 1 + l - (n + 1) = l - n
  BY SMTT(30), Z3T(30)
<1>3. \A k \in 1..(l - n) : k + (n + 1) - 1 = n + k
  BY SMTT(30), Z3T(30)
<1> QED
  BY <1>1, <1>2, <1>3

\* Types of what waits, of what is under way and of what is committed.
LEMMA RequestTypes ==
  ASSUME TypeInv
  PROVE  /\ \A i \in Instances : Waiting(i) \subseteq Requests
         /\ \A w \in late : Elements(w.reqs) \subseteq Requests
         /\ \A e \in hist : e.req \in Requests /\ e.seq \in Nat
<1> USE DEF TypeInv, TypeOK
<1>1. ASSUME NEW i \in Instances PROVE Waiting(i) \subseteq Requests
  <2>1. batch[i] \in Batches /\ queue[i] \in Seq([req : Requests, synced : BOOLEAN])
    BY DEF PublisherTypeOK, ClientTypeOK
  <2>2. Elements(batch[i]) \subseteq Requests
    BY <2>1, BatchFacts DEF Elements
  <2>3. ASSUME NEW k \in DOMAIN queue[i] PROVE queue[i][k].req \in Requests
    <3>1. queue[i][k] \in [req : Requests, synced : BOOLEAN]
      BY <2>1, SeqElement
    <3> QED
      BY <3>1
  <2> QED
    BY <2>2, <2>3 DEF Waiting
<1>2. ASSUME NEW w \in late PROVE Elements(w.reqs) \subseteq Requests
  <2>1. w.reqs \in Batches
    BY DEF BucketTypeOK
  <2> QED
    BY <2>1, BatchFacts DEF Elements
<1>3. \A e \in hist : e.req \in Requests /\ e.seq \in Nat
  BY DEF BucketTypeOK, Entries
<1> QED
  BY <1>1, <1>2, <1>3

\* What ResetPublisher leaves behind.
LEMMA ResetPlaces ==
  ASSUME TypeInv, NEW i \in Instances, ResetPublisher(i)
  PROVE  /\ pc'[i] = "idle" /\ batch'[i] = <<>>
         /\ \A j \in Instances \ {i} :
              pc'[j] = pc[j] /\ valid'[j] = valid[j] /\ batch'[j] = batch[j]
  BY DEF ResetPublisher, TypeInv, TypeOK, PublisherTypeOK

\* The entries that follow are applied, whether or not a few of the first were already.
LEMMA MirrorsReplay ==
  ASSUME Replayable,
         NEW rs, NEW es \in SUBSET Entries, \A e, f \in es : e.seq = f.seq => e = f,
         NEW v \in Nat, NEW s \in Nat, NEW t \in Nat, v <= s, s <= t,
         Mirrors(rs, es, s),
         NEW B \in SUBSET es, \A e \in es : e \in B <=> v < e.seq /\ e.seq <= t
  PROVE  Mirrors(ApplyEntries(rs, B), es, t)
<1> DEFINE E == {e \in es : e.seq <= t}
<1>0. \A e \in es : e.seq \in Nat
  BY DEF Entries
<1>1. /\ E \in SUBSET Entries /\ B \in SUBSET Entries /\ B \subseteq E
      /\ \A e \in B : e.seq <= t
      /\ \A e, f \in B : e.seq = f.seq => e = f
  OBVIOUS
<1> SUFFICES ASSUME NEW n \in Refs, ~\E e \in es : e.seq > t /\ n \in DOMAIN Txn[e.req]
             PROVE  ApplyEntries(rs, B)[n] = ApplyEntries(NoRefs, E)[n]
  BY DEF Mirrors
<1>2. \A e \in es : Names(e, n) => e \in E
  BY <1>0, SMTT(30), Z3T(30) DEF Names
<1>3. \A e \in E : e \in es /\ e.seq <= t
  BY SMTT(30), Z3T(30)
<1> HIDE DEF E
<1>4. CASE \E e \in B : Names(e, n)
  <2>1. PICK e \in B : LastNaming(e, n, B)
    BY <1>1, <1>4, LastExists
  <2>2. ASSUME NEW f \in E, Names(f, n), f # e PROVE f.seq < e.seq
    <3>1. CASE f \in B
      BY <2>1, <2>2, <3>1 DEF LastNaming
    <3>2. CASE f \notin B
      BY <1>0, <1>3, <2>1, <3>2, SMTT(30), Z3T(30)
    <3> QED
      BY <3>1, <3>2
  <2>3. LastNaming(e, n, E)
    BY <1>1, <2>1, <2>2 DEF LastNaming
  <2> QED
    BY <1>1, <2>1, <2>3, ApplyLast, SMTT(30), Z3T(30)
<1>5. CASE \A e \in B : ~Names(e, n)
  <2>1. ApplyEntries(rs, B)[n] = rs[n]
    BY <1>5, ApplyNone
  <2>2. \A e \in es : Names(e, n) => e.seq <= v
    BY <1>0, <1>2, <1>3, <1>5, SMTT(30), Z3T(30)
  <2>3. \A e \in es : Names(e, n) => e.seq <= s /\ ~(e.seq > s)
    BY <1>0, <2>2, SMTT(30), Z3T(30)
  <2>4. rs[n] = ApplyEntries(NoRefs, {e \in es : e.seq <= s})[n]
    BY <2>3 DEF Mirrors, Names
  <2>5. PICK F : F = {e \in es : e.seq <= s}
    OBVIOUS
  <2>6. \A e \in F : Names(e, n) => e \in E
    BY <1>2, <2>5
  <2>7. \A e \in E : Names(e, n) => e \in F
    BY <1>3, <2>3, <2>5
  <2>8. ApplyEntries(NoRefs, F)[n] = ApplyEntries(NoRefs, E)[n]
    <3>1. {e \in F : n \in DOMAIN Txn[e.req]} = {e \in E : n \in DOMAIN Txn[e.req]}
      BY <2>6, <2>7 DEF Names
    <3> QED
      BY <3>1 DEF ApplyEntries
  <2> QED
    BY <2>1, <2>4, <2>5, <2>8
<1> QED
  BY <1>4, <1>5

\* Without checkpoints a copy is brought forward from where it is.
LEMMA NoSnapshot ==
  ASSUME ListingInv, NEW i, NEW m
  PROVE  BaseRefs(i, m) = refs[i] /\ BaseSeq(i, m) = applied[i]
<1>1. ~UsesSnapshot(i, m)
  BY DEF ListingInv, UsesSnapshot
<1> QED
  BY <1>1 DEF BaseRefs, BaseSeq

\* The entries of a committed batch.
LEMMA OwnEntries ==
  ASSUME IInv, NEW i \in Instances, BaseOK(i), pc[i] \in Committed,
         NEW B, B = EntriesAt(slot[i].seq, valid[i])
  PROVE  /\ B \in SUBSET hist /\ \A e \in B : slot[i].seq <= e.seq
         /\ LastSeq(i) \in Nat /\ view[i].m.head <= LastSeq(i) /\ slot[i].seq <= LastSeq(i) + 1
         /\ \A e \in hist : e \in B <=> view[i].m.head < e.seq /\ e.seq <= LastSeq(i)
<1>1. /\ slot[i].seq \in Nat /\ valid[i] \in Batches /\ view[i].m.head \in Nat
      /\ hist \in SUBSET Entries
  BY CopyTypes DEF IInv
<1>2. Len(valid[i]) \in Nat
  BY <1>1, BatchFacts
<1>3. PICK l : l = slot[i].seq + Len(valid[i]) - 1
  BY SMTT(30), Z3T(30)
<1>4. LastSeq(i) = l
  BY <1>3 DEF LastSeq
<1>5. /\ view[i].m.head < slot[i].seq
      /\ \A e \in hist : e.seq <= view[i].m.head \/ e.seq > l \/ e \in B
  BY <1>4 DEF BaseOK
<1>6. l \in Nat /\ view[i].m.head <= l /\ slot[i].seq <= l + 1
  <2>1. PICK a \in Nat, n \in Nat, v \in Nat : a = slot[i].seq /\ n = Len(valid[i]) /\ v = view[i].m.head
    BY <1>1, <1>2
  <2>2. l = a + n - 1 /\ v < a
    BY <1>3, <1>5, <2>1
  <2>3. l \in Nat /\ v <= l /\ a <= l + 1
    BY <2>2, SMTT(30), Z3T(30)
  <2> QED
    BY <2>1, <2>3
<1>7. B \in SUBSET hist
  BY DEF IInv, ClaimsInv, ClaimOK
<1>8. \A e \in B : slot[i].seq <= e.seq /\ e.seq <= l
  BY <1>1, <1>3, EntryPlaces
<1>9. \A e \in hist : e.seq \in Nat
  BY <1>1 DEF Entries
<1>10. \A e \in hist : e \in B <=> view[i].m.head < e.seq /\ e.seq <= l
  <2>1. \A e \in B : view[i].m.head < e.seq
    <3>1. PICK a \in Nat, v \in Nat : a = slot[i].seq /\ v = view[i].m.head
      BY <1>1
    <3>2. v < a /\ \A e \in B : e.seq \in Nat /\ a <= e.seq
      BY <1>5, <1>7, <1>8, <1>9, <3>1
    <3>3. \A x \in Nat : a <= x => v < x
      BY <3>2, SMTT(30), Z3T(30)
    <3> QED
      BY <3>1, <3>2, <3>3
  <2>2. \A e \in hist : view[i].m.head < e.seq /\ e.seq <= l => e \in B
    BY <1>1, <1>5, <1>6, <1>9, SMTT(30), Z3T(30)
  <2> QED
    BY <1>8, <2>1, <2>2
<1> QED
  BY <1>4, <1>6, <1>7, <1>8, <1>10

\* The first requests of a batch are a batch.
LEMMA PrefixIsBatch ==
  ASSUME NEW b \in Batches, NEW n \in 0..Len(b)
  PROVE  /\ SubSeq(b, 1, n) \in Batches /\ n \in Nat /\ n <= Len(b)
         /\ Len(SubSeq(b, 1, n)) = n /\ \A k \in 1..n : SubSeq(b, 1, n)[k] = b[k]
<1>1. PICK l \in Nat : l = Len(b) /\ l <= MaxBatch /\ \A k \in 1..l : b[k] \in Requests
  BY BatchFacts
<1>2. n \in Nat /\ n <= l /\ n \in 0..MaxBatch /\ \A k \in 1..n : k \in 1..l
  BY <1>1, ProtocolAssumption, SMTT(30), Z3T(30)
<1>3. PICK f : f = SubSeq(b, 1, n)
  OBVIOUS
<1>4. f = [k \in 1..n |-> b[k]]
  <2>1. f = [k \in 1..(1 + n - 1) |-> b[k + 1 - 1]]
    BY <1>2, <1>3, SMTT(30), Z3T(30)
  <2>2. 1 + n - 1 = n /\ \A k \in 1..n : k + 1 - 1 = k
    BY <1>2, SMTT(30), Z3T(30)
  <2> QED
    BY <2>1, <2>2
<1>5. f \in [1..n -> Requests] /\ \A k \in 1..n : f[k] = b[k]
  BY <1>1, <1>2, <1>4
<1>6. f \in Batches
  BY <1>2, <1>5 DEF Batches
<1>7. Len(f) = n
  BY <1>2, <1>5, SMTT(30), Z3T(30)
<1> QED
  BY <1>1, <1>2, <1>3, <1>5, <1>6, <1>7

\* The first updates of a batch are the entries of it up to a seq.
LEMMA FirstEntries ==
  ASSUME NEW s \in Nat, NEW b \in Batches, NEW n \in 0..Len(b)
  PROVE  /\ EntriesAt(s, SubSeq(b, 1, n)) \subseteq EntriesAt(s, b)
         /\ \A e \in EntriesAt(s, b) : e \in EntriesAt(s, SubSeq(b, 1, n)) <=> e.seq <= s + n - 1
<1>1. PICK l \in Nat : l = Len(b)
  BY BatchFacts
<1>2. PICK f : f = SubSeq(b, 1, n)
  OBVIOUS
<1>3. n \in Nat /\ n <= l /\ Len(f) = n /\ \A k \in 1..n : f[k] = b[k]
  BY <1>1, <1>2, PrefixIsBatch
<1>4. \A k \in 1..n : k \in 1..l /\ s + k - 1 <= s + n - 1
  BY <1>3, SMTT(30), Z3T(30)
<1>5. \A k \in 1..l : s + k - 1 <= s + n - 1 => k \in 1..n
  BY <1>3, SMTT(30), Z3T(30)
<1>6. ASSUME NEW e \in EntriesAt(s, f) PROVE e \in EntriesAt(s, b) /\ e.seq <= s + n - 1
  <2>1. PICK k \in 1..n : e = [seq |-> s + k - 1, req |-> b[k]]
    BY <1>3 DEF EntriesAt
  <2> QED
    BY <1>1, <1>4, <2>1 DEF EntriesAt
<1>7. ASSUME NEW e \in EntriesAt(s, b), e.seq <= s + n - 1 PROVE e \in EntriesAt(s, f)
  <2>1. PICK k \in 1..l : e = [seq |-> s + k - 1, req |-> b[k]]
    BY <1>1 DEF EntriesAt
  <2>2. k \in 1..n
    BY <1>5, <1>7, <2>1
  <2> QED
    BY <1>3, <2>1, <2>2 DEF EntriesAt
<1> QED
  BY <1>2, <1>6, <1>7

LocalSame(i) ==
  /\ open'[i] = open[i] /\ saved'[i] = saved[i] /\ applied'[i] = applied[i]
  /\ refs'[i] = refs[i] /\ sync'[i] = sync[i] /\ hm'[i] = hm[i] /\ hv'[i] = hv[i]

-----------------------------------------------------------------------------
(* Attempts *)

\* An attempt goes on with the batch, the manifest and the requests it was verified with,
\* and never back to an earlier phase.
AttemptKept(j) ==
  pc'[j] \in Publishing =>
    /\ pc[j] \in Publishing
    /\ view'[j] = view[j] /\ valid'[j] = valid[j] /\ batch'[j] = batch[j]
    /\ pc'[j] \in Claiming \cup {"cas"} => pc[j] \in Claiming \cup {"cas"}
    /\ pc[j] = "sweep" => pc'[j] = "sweep"

\* A publisher that gives up has no attempt.
LEMMA ResetKept ==
  ASSUME TypeInv, NEW i \in Instances, ResetPublisher(i), NEW j \in Instances
  PROVE  AttemptKept(j)
<1>1. pc'[i] = "idle"
  BY ResetPlaces
<1>2. j # i => /\ pc'[j] = pc[j] /\ view'[j] = view[j] /\ valid'[j] = valid[j]
               /\ batch'[j] = batch[j]
  BY DEF ResetPublisher, TypeInv, TypeOK, PublisherTypeOK
<1> QED
  BY <1>1, <1>2 DEF AttemptKept, Publishing

\* A step from one phase of an attempt to the next.
LEMMA StepKept ==
  ASSUME TypeInv, NEW i \in Instances, UNCHANGED <<view, valid, batch>>,
         NEW q \in Publishing, pc' = [pc EXCEPT ![i] = q], pc[i] \in Publishing,
         q \in Claiming \cup {"cas"} => pc[i] \in Claiming \cup {"cas"},
         pc[i] = "sweep" => q = "sweep", NEW j \in Instances
  PROVE  AttemptKept(j)
<1>1. pc'[i] = q /\ (j # i => pc'[j] = pc[j])
  BY DEF TypeInv, TypeOK, PublisherTypeOK
<1> QED
  BY <1>1 DEF AttemptKept

\* A step before an attempt.
LEMMA IdleKept ==
  ASSUME TypeInv, NEW i \in Instances, UNCHANGED <<view, valid>>,
         NEW b, UNCHANGED batch \/ batch' = [batch EXCEPT ![i] = b],
         NEW q, q \notin Publishing, pc' = [pc EXCEPT ![i] = q], NEW j \in Instances
  PROVE  AttemptKept(j)
<1>1. pc'[i] = q /\ (j # i => pc'[j] = pc[j] /\ batch'[j] = batch[j])
  BY DEF TypeInv, TypeOK, PublisherTypeOK
<1> QED
  BY <1>1 DEF AttemptKept

\* The steps of a publisher up to its commit.
LEMMA ClaimKept ==
  ASSUME TypeInv, NEW i \in Instances, NEW j \in Instances,
         \/ TakeBatch(i) \/ PublisherSync(i) \/ ClaimLogSlot(i) \/ ProbeManifest(i) \/ ProbeHead(i)
         \/ CommitManifest(i) \/ CommitRefused(i) \/ DropOwnSlot(i) \/ RetryAfterDrop(i)
  PROVE  AttemptKept(j)
<1>1. ASSUME UNCHANGED <<view, valid, batch>>, NEW q \in Publishing \ {"sweep"},
             pc' = [pc EXCEPT ![i] = q], pc[i] \in Publishing, pc[i] # "sweep",
             q \in Claiming \cup {"cas"} => pc[i] \in Claiming \cup {"cas"}
      PROVE  AttemptKept(j)
  BY <1>1, StepKept
<1>2. CASE TakeBatch(i)
  <2>1. PICK q, b : /\ q \in {"sync", "verify"} /\ pc' = [pc EXCEPT ![i] = q]
                    /\ batch' = [batch EXCEPT ![i] = b]
    BY <1>2 DEF TakeBatch
  <2>2. q \notin Publishing
    BY <2>1 DEF Publishing
  <2> QED
    BY <1>2, <2>1, <2>2, IdleKept DEF TakeBatch
<1>3. CASE PublisherSync(i)
  <2>1. PICK q \in {"sync", "verify"} : pc' = [pc EXCEPT ![i] = q]
    BY <1>3 DEF PublisherSync
  <2>2. q \notin Publishing
    BY DEF Publishing
  <2> QED
    BY <1>3, <2>1, <2>2, IdleKept DEF PublisherSync
<1>4. CASE ClaimLogSlot(i)
  <2>1. PICK q \in {"cas", "probe"} : pc' = [pc EXCEPT ![i] = q]
    BY <1>4 DEF ClaimLogSlot
  <2> QED
    BY <1>1, <1>4, <2>1 DEF ClaimLogSlot, Claiming, Publishing
<1>5. ASSUME Contended(i) PROVE AttemptKept(j)
  <2>1. CASE pc' = [pc EXCEPT ![i] = "sync"] /\ UNCHANGED <<view, valid, batch>>
    <3>1. "sync" \notin Publishing
      BY DEF Publishing
    <3> QED
      BY <2>1, <3>1, IdleKept
  <2> QED
    BY <1>5, <2>1, ResetKept DEF Contended, FinishErrors
<1>6. CASE ProbeManifest(i)
  <2>1. CASE pc' = [pc EXCEPT ![i] = "probehead"] /\ UNCHANGED <<view, valid, batch>>
    BY <1>1, <1>6, <2>1 DEF ProbeManifest, Claiming, Publishing
  <2> QED
    BY <1>5, <1>6, <2>1 DEF ProbeManifest
<1>7. CASE ProbeHead(i)
  <2>1. ASSUME NEW q \in {"claim", "probe"}, pc' = [pc EXCEPT ![i] = q],
               UNCHANGED <<view, valid, batch>>
        PROVE  AttemptKept(j)
    BY <1>1, <1>7, <2>1 DEF ProbeHead, Claiming, Publishing
  <2> QED
    BY <1>7, <2>1, ResetKept DEF ProbeHead, FinishErrors
<1>8. CASE CommitManifest(i)
  BY <1>1, <1>8 DEF CommitManifest, Claiming, Publishing
<1>9. CASE CommitRefused(i)
  BY <1>1, <1>9 DEF CommitRefused, Claiming, Publishing
<1>10. CASE DropOwnSlot(i)
  BY <1>1, <1>10 DEF DropOwnSlot, Claiming, Publishing
<1>11. CASE RetryAfterDrop(i)
  BY <1>5, <1>11 DEF RetryAfterDrop
<1> QED
  BY <1>2, <1>3, <1>4, <1>6, <1>7, <1>8, <1>9, <1>10, <1>11

\* Only verify_batch starts an attempt.
LEMMA StepsKeep ==
  ASSUME IInv, NEW i \in Instances, NEW j \in Instances, ~VerifyBatch(i),
         ClientStep(i) \/ SyncStep(i) \/ PublisherStep(i) \/ Crash(i)
  PROVE  AttemptKept(j)
<1>0. TypeInv /\ ~CommitLost(i) /\ ~CasLanded(i) /\ ~RecoverManifestVersion(i)
  BY NothingLost DEF IInv
<1>1. ASSUME UNCHANGED <<pc, view, valid, batch>> PROVE AttemptKept(j)
  BY <1>1 DEF AttemptKept
<1>2. CASE ClientStep(i)
  BY <1>1, <1>2 DEF ClientStep, PublishPush, PublishPushSynced, StartRead, FinishRead, pubVars
<1>3. CASE OpenRepo(i)
  BY <1>1, <1>3 DEF OpenRepo, pubVars
<1>4. CASE SyncDone(i)
  <2>1. CASE sync[i].by = "publisher"
    <3>1. pc' = [pc EXCEPT ![i] = "verify"] /\ UNCHANGED <<view, valid, batch>>
      BY <1>4, <2>1 DEF SyncDone
    <3>2. "verify" \notin Publishing
      BY DEF Publishing
    <3> QED
      BY <1>0, <3>1, <3>2, IdleKept
  <2>2. CASE sync[i].by # "publisher"
    <3>1. \A h \in Instances : pc'[h] = pc[h]
      BY <1>0, <1>4, <2>2 DEF SyncDone, TypeInv, TypeOK, PublisherTypeOK
    <3> QED
      BY <1>4, <3>1 DEF SyncDone, AttemptKept
  <2> QED
    BY <2>1, <2>2
<1>5. CASE SyncFailed(i)
  BY <1>0, <1>1, <1>5, ResetKept DEF SyncFailed, FinishErrors, pubVars
<1>6. CASE ClaimFailed(i) \/ ProbeFailed(i) \/ Respond(i) \/ Crash(i)
  BY <1>0, <1>6, ResetKept DEF ClaimFailed, ProbeFailed, Respond, Crash, FinishErrors
<1>7. CASE MarkPending(i) \/ CommitLocal(i)
  <2>1. PICK q \in {"recover", "local", "sweep"} : pc' = [pc EXCEPT ![i] = q]
    BY <1>7 DEF MarkPending, CommitLocal
  <2>2. UNCHANGED <<view, valid, batch>> /\ pc[i] \in {"mark", "local"}
    BY <1>7 DEF MarkPending, CommitLocal
  <2> QED
    BY <1>0, <2>1, <2>2, StepKept DEF Claiming, Publishing
<1>8. CASE SweepBurned(i) \/ AbandonDelete(i)
  BY <1>1, <1>8 DEF SweepBurned, AbandonDelete, pubVars
<1> QED
  BY <1>0, <1>2, <1>3, <1>4, <1>5, <1>6, <1>7, <1>8, ClaimKept DEF SyncStep, PublisherStep

\* The steps that touch neither the manifest nor what is under way to it.
LEMMA LogFrame ==
  ASSUME NEW i \in Instances, ClientStep(i) \/ SyncStep(i) \/ PublisherStep(i),
         ~CommitManifest(i), ~CommitLost(i)
  PROVE  UNCHANGED <<manifest, mver, hist, late>>
<1>1. CASE ClientStep(i)
  BY <1>1 DEF ClientStep, PublishPush, PublishPushSynced, StartRead, FinishRead, bucketVars
<1>2. CASE SyncStep(i)
  BY <1>2 DEF SyncStep, OpenRepo, SyncDone, SyncFailed, bucketVars
<1>3. CASE TakeBatch(i) \/ PublisherSync(i) \/ VerifyBatch(i) \/ ClaimLogSlot(i) \/ ClaimFailed(i)
  BY <1>3 DEF TakeBatch, PublisherSync, VerifyBatch, ClaimLogSlot, ClaimFailed, bucketVars
<1>4. CASE ProbeManifest(i) \/ ProbeHead(i) \/ ProbeFailed(i) \/ CommitRefused(i) \/ CasLanded(i)
  BY <1>4 DEF ProbeManifest, ProbeHead, ProbeFailed, CommitRefused, CasLanded, bucketVars
<1>5. CASE MarkPending(i) \/ RecoverManifestVersion(i) \/ CommitLocal(i) \/ SweepBurned(i) \/ Respond(i)
  BY <1>5 DEF MarkPending, RecoverManifestVersion, CommitLocal, SweepBurned, Respond,
     bucketVars
<1>6. CASE DropOwnSlot(i) \/ RetryAfterDrop(i) \/ AbandonDelete(i)
  BY <1>6 DEF DropOwnSlot, RetryAfterDrop, AbandonDelete, bucketVars
<1> QED
  BY <1>1, <1>2, <1>3, <1>4, <1>5, <1>6 DEF PublisherStep

\* Every answer of the bucket is known.
LEMMA NoneLost ==
  ASSUME IInv, NEW i \in Instances
  PROVE  ~CommitLost(i) /\ ~CasLanded(i) /\ ~RecoverManifestVersion(i)
  BY NothingLost

-----------------------------------------------------------------------------
(* The refs along the log, and the copies of them *)

\* Replaying the entries B takes the refs at seq s to the refs at seq t.
Bridges(B, s, t) == ApplyEntries(RefsAt(s), B) = RefsAt(t)

\* Replaying the log between two seqs takes the refs at the first to the refs at the
\* second, also when a few of the first entries were applied before.
LEMMA RefsReplayed ==
  ASSUME Replayable, hist \in SUBSET Entries, \A e, f \in hist : e.seq = f.seq => e = f,
         NEW v \in Nat, NEW s \in Nat, NEW t \in Nat, v <= s, s <= t,
         NEW B \in SUBSET hist, \A e \in hist : e \in B <=> v < e.seq /\ e.seq <= t
  PROVE  Bridges(B, s, t)
<1>1. PICK es : es = {e \in hist : e.seq <= t}
  OBVIOUS
<1>2. \A e \in hist : e.seq \in Nat
  BY DEF Entries
<1>3. /\ es \in SUBSET Entries /\ \A e, f \in es : e.seq = f.seq => e = f
      /\ B \in SUBSET es /\ \A e \in es : e \in B <=> v < e.seq /\ e.seq <= t
      /\ \A e \in es : e.seq <= t
  BY <1>1
<1>4. {e \in es : e.seq <= s} = {e \in hist : e.seq <= s}
  <2>1. \A e \in hist : e.seq <= s => e.seq <= t
    BY <1>2, SMTT(30), Z3T(30)
  <2> QED
    BY <1>1, <2>1
<1>5. Mirrors(RefsAt(s), es, s)
  BY <1>4 DEF Mirrors, RefsAt
<1>6. Mirrors(ApplyEntries(RefsAt(s), B), es, t)
  BY <1>3, <1>5, MirrorsReplay
<1>7. \A e \in es : ~(e.seq > t)
  <2>1. \A x \in Nat : x <= t => ~(x > t)
    BY SMTT(30), Z3T(30)
  <2> QED
    BY <1>1, <1>2, <1>3, <2>1
<1>8. {e \in es : e.seq <= t} = es
  BY <1>3
<1>9. \A n \in Refs : ApplyEntries(RefsAt(s), B)[n] = RefsAt(t)[n]
  BY <1>1, <1>6, <1>7, <1>8 DEF Mirrors, RefsAt
<1>10. PICK f, g : f = ApplyEntries(RefsAt(s), B) /\ g = RefsAt(t)
  OBVIOUS
<1>11. f = [n \in Refs |-> f[n]] /\ g = [n \in Refs |-> g[n]]
  BY <1>10 DEF ApplyEntries, RefsAt
<1>12. [n \in Refs |-> f[n]] = [n \in Refs |-> g[n]]
  BY <1>9, <1>10
<1> QED
  BY <1>10, <1>11, <1>12 DEF Bridges

\* The facts about the log a replay rests on.
LEMMA LogFacts ==
  ASSUME IInv, OrderInv
  PROVE  /\ hist \in SUBSET Entries /\ \A e, f \in hist : e.seq = f.seq => e = f
         /\ \A e \in hist : e.seq \in Nat /\ e.seq > 0 /\ e.seq <= manifest.head
         /\ manifest.head \in Nat
<1>1. hist \in SUBSET Entries /\ manifest \in Manifests
  BY DEF IInv, TypeInv, TypeOK, BucketTypeOK
<1> QED
  BY <1>1, OrderFacts DEF HistOnce, IInv, SegmentsInv, Entries, Manifests

\* A transaction is checked against the refs it names.
LEMMA VerifySame ==
  ASSUME NEW r \in Requests, NEW rs, NEW ss, \A n \in Refs : rs[n] = ss[n]
  PROVE  VerifyTxn(r, rs) <=> VerifyTxn(r, ss)
  BY TxnAssumption DEF VerifyTxn
=============================================================================
