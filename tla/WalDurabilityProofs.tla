------------------------ MODULE WalDurabilityProofs -------------------------
(***************************************************************************)
(* The steps of WalPublish keep the log complete: no claim, cleanup, crash *)
(* or late write loses or replaces a committed segment, every segment is   *)
(* listed with the seqs its object holds, and the log only grows.          *)
(***************************************************************************)
EXTENDS WalFacts

\* A step that names no prover is for Zenon.  Where SMT is named, Z3 is a second attempt.
USE ZenonT(40)

-----------------------------------------------------------------------------
(* What a step that leaves the log and the manifest alone does *)

BucketSame == UNCHANGED <<manifest, mver, log, late, dels, nver, hist>>

\* Only instance i moves.
PubFrame(i) ==
  \A j \in Instances \ {i} :
    /\ pc'[j] = pc[j] /\ valid'[j] = valid[j] /\ view'[j] = view[j]
    /\ slot'[j] = slot[j] /\ burned'[j] = burned[j] /\ done'[j] = done[j]

LocFrame(i) ==
  \A j \in Instances \ {i} : hm'[j] = hm[j] /\ hv'[j] = hv[j] /\ sync'[j] = sync[j]

\* Instance i gets hold of no log object.
SlotKept(i) ==
  /\ slot'[i].ver < nver
  /\ pc'[i] \in Holding => pc[i] \in Holding /\ slot'[i] = slot[i]

-----------------------------------------------------------------------------
(* What a step does not touch keeps its part of the invariant *)

\* The next number is above whatever the last one bounds.
LEMMA Grows ==
  ASSUME NEW a \in Nat, NEW b \in Nat, a <= b
  PROVE  a <= b + 1 /\ a # b + 1 /\ a < b + 1
  BY SMTT(30), Z3T(30)

\* The next number is positive and greater.
LEMMA Later ==
  ASSUME NEW a \in Nat
  PROVE  /\ a + 1 \in Nat /\ a + 1 > 0 /\ a + 1 # 0 /\ a + 1 <= a + 1
         /\ a < a + 1 /\ a <= a + 1 /\ a # a + 1
  BY SMTT(30), Z3T(30)

\* Whatever is above a number is positive.
LEMMA Above ==
  ASSUME NEW a \in Nat, NEW b \in Nat, a < b
  PROVE  0 < b /\ a < b + 1
  BY SMTT(30), Z3T(30)

\* What a smaller number bounds is below and apart from the greater ones.
LEMMA Reaches ==
  ASSUME NEW a \in Nat, NEW b \in Nat, NEW c \in Nat, b > a, c >= b
  PROVE  \A n \in Nat : n <= a => n <= c /\ n # b
  BY SMTT(30), Z3T(30)

\* Numbers are totally ordered.
LEMMA Ordered ==
  ASSUME NEW a \in Nat, NEW b \in Nat
  PROVE  (a <= b <=> ~(a > b)) /\ (a < b <=> b > a)
  BY SMTT(30), Z3T(30)

\* The same for the manifests that are held.
LEMMA SameViews ==
  ASSUME ViewsInv, NEW i \in Instances, UNCHANGED <<manifest, mver>>, PubFrame(i), LocFrame(i),
         LocalOK(i)', AttemptOK(i)', SyncOwner(i)'
  PROVE  ViewsInv'
<1>1. ASSUME NEW j \in Instances \ {i} PROVE LocalOK(j)' /\ AttemptOK(j)' /\ SyncOwner(j)'
  BY SMTT(30), Z3T(30) DEF ViewsInv, LocalOK, AttemptOK, SyncOwner, Past, Paired, PubFrame, LocFrame
<1> QED
  BY <1>1 DEF ViewsInv, Past

\* A step of i that leaves the bucket and the other instances alone preserves the
\* invariant when its own part does.
LEMMA QuietStep ==
  ASSUME IInv, TypeInv', NEW i \in Instances, BucketSame, PubFrame(i), LocFrame(i),
         LocalOK(i)', AttemptOK(i)', ClaimOK(i)', SyncOwner(i)', SlotKept(i), AckedCommitted'
  PROVE  IInv'
<1> USE DEF BucketSame
<1>1. ViewsInv'
  BY SameViews DEF IInv
<1>2. ClaimsInv'
  <2>1. ASSUME NEW j \in Instances \ {i} PROVE ClaimOK(j)'
    BY DEF IInv, ClaimsInv, ClaimOK, Listed, Holds, PubFrame
  <2>2. ASSUME NEW w \in late' PROVE LateOK(w)'
    BY DEF IInv, ClaimsInv, LateOK, Holds, Appends
  <2> QED
    BY <2>1, <2>2 DEF ClaimsInv
<1>3. ASSUME NEW j \in Instances
      PROVE  /\ slot'[j].ver < nver
             /\ pc'[j] \in Holding => pc[j] \in Holding /\ slot'[j] = slot[j]
  BY DEF PubFrame, SlotKept, IInv, VersionsInv
<1>4. VersionsInv'
  BY <1>3, SMTT(30), Z3T(30) DEF IInv, VersionsInv, Listed
<1>5. DeletesInv'
  BY <1>3, SMTT(30), Z3T(30) DEF IInv, DeletesInv, Listed
<1>6. SegmentsInv'
  BY DEF IInv, SegmentsInv, ListedEntries
<1> QED
  BY <1>1, <1>2, <1>4, <1>5, <1>6 DEF IInv, NoAmbiguity

\* Answers other than "ok" acknowledge nothing.
LEMMA AnswerAllAcked ==
  ASSUME AckedCommitted, NEW S, NEW kind, kind # "ok", AnswerAll(S, kind), hist \subseteq hist'
  PROVE  AckedCommitted'
  BY DEF AckedCommitted, AnswerAll

\* A publisher that starts over holds no slot.
LEMMA ResetOK ==
  ASSUME IInv, NEW i \in Instances, ResetPublisher(i), UNCHANGED <<manifest, mver>>
  PROVE  PubFrame(i) /\ AttemptOK(i)' /\ ClaimOK(i)' /\ SlotKept(i)
<1>1. PubFrame(i)
  BY DEF IInv, TypeInv, TypeOK, ResetPublisher, PubFrame, PublisherTypeOK
<1>2. /\ pc'[i] = "idle" /\ view'[i] = NoView /\ done'[i] = NoView /\ slot'[i] = NoSlot
      /\ burned'[i] = {}
  BY DEF IInv, TypeInv, TypeOK, ResetPublisher, PublisherTypeOK
<1>3. AttemptOK(i)'
  BY <1>2, SMTT(30), Z3T(30) DEF IInv, TypeInv, TypeOK, AttemptOK, ViewsInv, Past, Paired, NoView,
     BucketTypeOK
<1>4. ClaimOK(i)'
  BY <1>2 DEF ClaimOK, Claiming, Committed
<1>5. slot[i].ver \in Nat /\ slot[i].ver < nver /\ nver \in Nat
  BY DEF IInv, TypeInv, TypeOK, VersionsInv, PublisherTypeOK, BucketTypeOK, Slots
<1>6. SlotKept(i)
  BY <1>2, <1>5, SMTT(30), Z3T(30) DEF SlotKept, NoSlot, Holding
<1> QED
  BY <1>1, <1>3, <1>4, <1>6

\* A publisher that ends its batch with an error.
LEMMA FinishQuiet ==
  ASSUME IInv, TypeInv', NEW i \in Instances, FinishErrors(i), BucketSame, LocFrame(i),
         LocalOK(i)', SyncOwner(i)'
  PROVE  IInv'
<1>1. PubFrame(i) /\ AttemptOK(i)' /\ ClaimOK(i)' /\ SlotKept(i)
  BY ResetOK DEF FinishErrors, BucketSame
<1>2. AckedCommitted'
  BY AnswerAllAcked DEF FinishErrors, BucketSame, IInv
<1> QED
  BY <1>1, <1>2, QuietStep

\* Nothing local changes.
LEMMA SameLocal ==
  ASSUME IInv, NEW i \in Instances, UNCHANGED <<manifest, mver, localVars>>
  PROVE  LocFrame(i) /\ LocalOK(i)'
  BY DEF IInv, ViewsInv, LocFrame, LocalOK, Past, Paired, localVars

\* Nothing of the publisher changes.
LEMMA SamePublisher ==
  ASSUME IInv, NEW i \in Instances, BucketSame, UNCHANGED pubVars
  PROVE  PubFrame(i) /\ AttemptOK(i)' /\ ClaimOK(i)' /\ SlotKept(i)
<1>1. PubFrame(i)
  BY DEF PubFrame, pubVars
<1>2. AttemptOK(i)'
  BY DEF IInv, ViewsInv, AttemptOK, Past, Paired, pubVars, BucketSame
<1>3. ClaimOK(i)'
  BY DEF IInv, ClaimsInv, ClaimOK, Listed, Holds, pubVars, BucketSame
<1>4. SlotKept(i)
  BY DEF IInv, VersionsInv, SlotKept, pubVars
<1> QED
  BY <1>1, <1>2, <1>3, <1>4

\* What a sync fetches, or leaves behind, is in order.
LEMMA FetchedOK ==
  ASSUME IInv
  PROVE  /\ Past(NoSync.m) /\ Paired(NoSync.m, NoSync.ver)
         /\ \A who : /\ Past(Fetched(who).m)
                     /\ Paired(Fetched(who).m, Fetched(who).ver)
  BY SMTT(30), Z3T(30) DEF IInv, TypeInv, TypeOK, BucketTypeOK, Manifests, ViewsInv, Past, Paired,
     NoSync, Fetched

\* A step of a publisher that changes only its own bookkeeping.
LEMMA PublisherQuiet ==
  ASSUME IInv, TypeInv', NEW i \in Instances, pc[i] # "sync", BucketSame, UNCHANGED localVars,
         PubFrame(i), AttemptOK(i)', ClaimOK(i)', SlotKept(i), AckedCommitted'
  PROVE  IInv'
<1>1. LocFrame(i) /\ LocalOK(i)'
  BY SameLocal DEF BucketSame
<1>2. SyncOwner(i)'
  BY DEF IInv, ViewsInv, SyncOwner, localVars
<1> QED
  BY <1>1, <1>2, QuietStep

\* Answering a batch with errors.
LEMMA FinishPublisherQuiet ==
  ASSUME IInv, TypeInv', NEW i \in Instances, pc[i] # "sync", BucketSame, UNCHANGED localVars,
         FinishErrors(i)
  PROVE  IInv'
<1>1. LocFrame(i) /\ LocalOK(i)'
  BY SameLocal DEF BucketSame
<1>2. SyncOwner(i)'
  BY DEF IInv, ViewsInv, SyncOwner, localVars
<1> QED
  BY <1>1, <1>2, FinishQuiet

\* Some version has been handed out before any object is written.
LEMMA VersionsStarted ==
  ASSUME VersionsInv, BucketTypeOK, PublisherTypeOK, NEW i \in Instances
  PROVE  0 < nver
<1>1. slot[i].ver \in Nat /\ nver \in Nat
  BY DEF PublisherTypeOK, BucketTypeOK, Slots
<1> QED
  BY <1>1, Above DEF VersionsInv

-----------------------------------------------------------------------------
(* Creating a log object *)

\* A create-if-absent puts a new version at a key nobody uses: nothing that is
\* listed, claimed or being deleted is touched.
LEMMA CreateStep ==
  ASSUME IInv, TypeInv', NEW i \in Instances, NEW s \in Nat, NEW reqs \in Batches,
         ObjectAt(s) = {},
         log' = log \cup {[seq |-> s, ver |-> nver, reqs |-> reqs]}, nver' = nver + 1,
         UNCHANGED <<manifest, mver, late, dels, hist, localVars>>,
         PubFrame(i), AttemptOK(i)', ClaimOK(i)', pc[i] # "sync",
         slot'[i].ver < nver + 1,
         pc'[i] \in Holding => slot'[i].ver = nver,
         AckedCommitted'
  PROVE  IInv'
<1> DEFINE new == [seq |-> s, ver |-> nver, reqs |-> reqs]
<1>1. /\ nver \in Nat
      /\ \A o \in log : o.ver \in Nat /\ o.ver < nver /\ o.seq # s
      /\ \A j \in Instances : slot[j].ver \in Nat /\ slot[j].ver < nver
      /\ \A w \in late : w.slot.ver \in Nat /\ w.slot.ver < nver
      /\ \A d \in dels : d.ver \in Nat /\ d.ver < nver
  BY DEF IInv, TypeInv, TypeOK, BucketTypeOK, PublisherTypeOK, LogObjects, Slots, VersionsInv,
     ObjectAt
<1>2. ~Listed(s) /\ \A t : Listed(t)' <=> Listed(t)
  BY <1>1 DEF IInv, SegmentsInv, Listed
<1>3. ASSUME NEW j \in Instances \ {i}
      PROVE  slot'[j] = slot[j] /\ pc'[j] = pc[j]
  BY DEF PubFrame
<1>4. ViewsInv'
  <2>1. LocFrame(i) /\ LocalOK(i)'
    BY SameLocal
  <2>2. SyncOwner(i)'
    BY DEF IInv, ViewsInv, SyncOwner, localVars
  <2> QED
    BY <2>1, <2>2, SameViews DEF IInv, TypeInv, TypeOK
<1>5. ClaimsInv'
  <2>1. ASSUME NEW j \in Instances \ {i} PROVE ClaimOK(j)'
    BY <1>2 DEF IInv, ClaimsInv, ClaimOK, Holds, PubFrame
  <2>2. ASSUME NEW w \in late' PROVE LateOK(w)'
    BY DEF IInv, ClaimsInv, LateOK, Holds, Appends
  <2> QED
    BY <2>1, <2>2 DEF IInv, ClaimsInv
<1>6. VersionsInv'
  <2>1. /\ \A o \in log' : o.ver < nver'
        /\ \A o, p \in log' : o.seq = p.seq => o = p
    <3>1. new.seq = s /\ new.ver = nver /\ log' = log \cup {new}
      BY SMTT(30), Z3T(30)
    <3> HIDE DEF new
    <3>2. \A o \in log' : o.ver < nver'
      BY <1>1, <3>1, SMTT(30), Z3T(30)
    <3>3. \A o, p \in log' : o.seq = p.seq => o = p
      BY <1>1, <3>1 DEF IInv, VersionsInv
    <3> QED
      BY <3>2, <3>3
  <2>2. /\ \A j \in Instances : slot'[j].ver < nver'
        /\ \A w \in late' : w.slot.ver < nver'
        /\ \A d \in dels' : d.ver < nver'
    BY <1>1, <1>3, SMTT(30), Z3T(30)
  <2>3. \A j, k \in Instances : j # k /\ pc'[j] \in Holding /\ pc'[k] \in Holding
                                 => slot'[j].ver # slot'[k].ver
    <3>1. \A j, k \in Instances : j # k /\ pc[j] \in Holding /\ pc[k] \in Holding
                                   => slot[j].ver # slot[k].ver
      BY DEF IInv, VersionsInv
    <3> QED
      BY <1>1, <1>3, <3>1, SMTT(30), Z3T(30)
  <2>4. \A j \in Instances, w \in late' : pc'[j] \in Holding => slot'[j].ver # w.slot.ver
    <3>1. \A j \in Instances, w \in late : pc[j] \in Holding => slot[j].ver # w.slot.ver
      BY DEF IInv, VersionsInv
    <3> QED
      BY <1>1, <1>3, <3>1, SMTT(30), Z3T(30)
  <2>5. \A j \in Instances, o \in log' :
          pc'[j] \in Holding /\ o.ver = slot'[j].ver => ~Listed(o.seq)
    BY <1>1, <1>2, <1>3, SMTT(30), Z3T(30) DEF IInv, VersionsInv
  <2>6. \A j \in Instances, o \in log' :
          pc'[j] \in Holding /\ o.ver = slot'[j].ver => ~Listed(o.seq)'
    BY <2>5 DEF Listed
  <2> QED
    BY <2>1, <2>2, <2>3, <2>4, <2>6 DEF IInv, VersionsInv
<1>7. DeletesInv'
  BY <1>1, <1>3, SMTT(30), Z3T(30) DEF IInv, DeletesInv, Listed
<1>8. SegmentsInv'
  <2>1. ListedEntries' = ListedEntries
    BY <1>2, SMTT(30), Z3T(30) DEF ListedEntries, Listed
  <2> QED
    BY <2>1 DEF IInv, SegmentsInv
<1> QED
  BY <1>4, <1>5, <1>6, <1>7, <1>8 DEF IInv, NoAmbiguity

\* A created segment is above the head and its owner's alone.
LEMMA ClaimLogSlotStep ==
  ASSUME IInv, TypeInv', NEW i \in Instances, ClaimLogSlot(i)
  PROVE  IInv'
<1>1. /\ UNCHANGED <<manifest, mver, late, dels, hist, localVars>> /\ pc[i] = "claim"
      /\ UNCHANGED <<valid, view, burned, done, resp>>
  BY DEF ClaimLogSlot, clientVars
<1>2. AckedCommitted'
  BY <1>1 DEF IInv, AckedCommitted
<1>3. CASE /\ ObjectAt(slot[i].seq) = {}
           /\ log' = log \cup {[seq |-> slot[i].seq, ver |-> nver, reqs |-> valid[i]]}
           /\ slot' = [slot EXCEPT ![i] = [seq |-> slot[i].seq, ver |-> nver]]
           /\ nver' = nver + 1
           /\ pc' = [pc EXCEPT ![i] = "cas"]
  <2>1. PubFrame(i)
    BY <1>1, <1>3 DEF IInv, TypeInv, TypeOK, PubFrame, PublisherTypeOK
  <2>2. pc'[i] = "cas" /\ slot'[i].seq = slot[i].seq /\ slot'[i].ver = nver
    BY <1>3 DEF IInv, TypeInv, TypeOK, PublisherTypeOK
  <2>3. AttemptOK(i)'
    BY <1>1, <2>2 DEF IInv, ViewsInv, AttemptOK, Past, Paired
  <2>4. ClaimOK(i)'
    <3>1. /\ slot[i].seq > view[i].m.head
          /\ \A b \in burned[i] : view[i].m.head < b.seq /\ b.seq < slot[i].seq
      BY <1>1 DEF IInv, ClaimsInv, ClaimOK, Claiming
    <3>2. view'[i] = view[i] /\ burned'[i] = burned[i] /\ valid'[i] = valid[i]
      BY <1>1
    <3>3. Holds(slot[i], valid[i])'
      BY <1>3, <2>2, <3>2, SMTT(30), Z3T(30) DEF Holds
    <3> QED
      BY <2>2, <3>1, <3>2, <3>3 DEF ClaimOK, Committed
  <2>5. slot[i].seq \in Nat /\ valid[i] \in Batches /\ nver \in Nat
    BY DEF IInv, TypeInv, TypeOK, PublisherTypeOK, BucketTypeOK, Slots
  <2>6. slot'[i].ver < nver + 1 /\ (pc'[i] \in Holding => slot'[i].ver = nver) /\ pc[i] # "sync"
    BY <1>1, <2>2, <2>5, SMTT(30), Z3T(30)
  <2> QED
    BY <1>1, <1>2, <1>3, <2>1, <2>3, <2>4, <2>5, <2>6, CreateStep
<1>4. CASE pc' = [pc EXCEPT ![i] = "probe"] /\ UNCHANGED <<log, slot, nver>>
  <2>1. PubFrame(i) /\ pc'[i] = "probe"
    BY <1>1, <1>4 DEF IInv, TypeInv, TypeOK, PubFrame, PublisherTypeOK
  <2>2. AttemptOK(i)'
    BY <1>1, <2>1 DEF IInv, ViewsInv, AttemptOK, Past, Paired
  <2>3. ClaimOK(i)'
    BY <1>1, <1>4, <2>1 DEF IInv, ClaimsInv, ClaimOK, Claiming, Committed
  <2>4. SlotKept(i)
    BY <1>4, <2>1 DEF IInv, VersionsInv, SlotKept, Holding
  <2>5. BucketSame
    BY <1>1, <1>4 DEF BucketSame
  <2> QED
    BY <1>1, <1>2, <2>1, <2>2, <2>3, <2>4, <2>5, PublisherQuiet
<1> QED
  BY <1>3, <1>4 DEF ClaimLogSlot

\* A PUT that failed leaves an orphan or nothing.
LEMMA ClaimFailedStep ==
  ASSUME IInv, TypeInv', NEW i \in Instances, ClaimFailed(i)
  PROVE  IInv'
<1>1. /\ UNCHANGED <<manifest, mver, late, dels, hist, localVars>> /\ pc[i] = "claim"
      /\ FinishErrors(i)
  BY DEF ClaimFailed
<1>2. CASE UNCHANGED <<log, nver>>
  BY <1>1, <1>2, FinishPublisherQuiet DEF BucketSame
<1>3. CASE /\ ObjectAt(slot[i].seq) = {}
           /\ log' = log \cup {[seq |-> slot[i].seq, ver |-> nver, reqs |-> valid[i]]}
           /\ nver' = nver + 1
  <2>1. PubFrame(i) /\ AttemptOK(i)' /\ ClaimOK(i)'
    BY <1>1, ResetOK DEF FinishErrors
  <2>2. AckedCommitted'
    BY <1>1, AnswerAllAcked DEF IInv, TypeInv, TypeOK, FinishErrors
  <2>3. slot[i].seq \in Nat /\ valid[i] \in Batches /\ nver \in Nat
    BY DEF IInv, TypeInv, TypeOK, PublisherTypeOK, BucketTypeOK, Slots
  <2>4. pc'[i] = "idle" /\ slot'[i].ver = 0
    BY <1>1 DEF IInv, TypeInv, TypeOK, FinishErrors, ResetPublisher, PublisherTypeOK, NoSlot
  <2>5. pc'[i] \notin Holding /\ slot'[i].ver < nver + 1
    BY <2>3, <2>4, SMTT(30), Z3T(30) DEF Holding
  <2> QED
    BY <1>1, <1>3, <2>1, <2>2, <2>3, <2>5, CreateStep
<1> QED
  BY <1>2, <1>3 DEF ClaimFailed

-----------------------------------------------------------------------------
(* Committing *)

\* A manifest write that appends a segment takes effect.
LEMMA AppendStep ==
  ASSUME IInv, NEW s \in Slots, NEW reqs \in Batches, NEW m \in Manifests,
         Holds(s, reqs), Appends(m, s),
         \A d \in dels : d.seq > manifest.head => d.ver # s.ver,
         \A j \in Instances : pc'[j] \in Holding => pc[j] \in Holding /\ slot[j].ver # s.ver,
         manifest' = m, mver' = mver + 1, hist' = hist \cup EntriesAt(s.seq, reqs),
         UNCHANGED <<log, dels, nver, slot>>, late' \subseteq late
  PROVE  /\ VersionsInv' /\ DeletesInv' /\ SegmentsInv'
         /\ \A w \in late' : LateOK(w)'
         /\ \A x \in Manifests : Past(x) => Past(x)'
         /\ \A x \in Manifests, v \in Nat : Paired(x, v) => Paired(x, v)'
         /\ \A t : Listed(t)' <=> Listed(t) \/ t = s.seq
<1> DEFINE own == [seq |-> s.seq, ver |-> s.ver, reqs |-> reqs]
<1>1. /\ s.seq \in Nat /\ manifest.head \in Nat /\ m.head \in Nat /\ mver \in Nat
      /\ manifest.rev \in Nat
  BY DEF IInv, TypeInv, TypeOK, Slots, Manifests, BucketTypeOK
<1>2. own \in log /\ own.seq = s.seq /\ own.ver = s.ver /\ own.reqs = reqs
  BY DEF Holds
<1> HIDE DEF own
<1>3. /\ s.seq > manifest.head /\ m.head >= s.seq /\ m.rev = manifest.rev + 1
      /\ m.ckpt = manifest.ckpt
      /\ m.segs = manifest.segs \cup {[first |-> s.seq, last |-> m.head]}
  BY DEF Appends
<1>4. ASSUME NEW t PROVE Listed(t)' <=> Listed(t) \/ t = s.seq
  <2>1. manifest'.segs = manifest.segs \cup {[first |-> s.seq, last |-> m.head]}
    BY <1>3
  <2>2. [first |-> s.seq, last |-> m.head].first = s.seq
    BY SMTT(30), Z3T(30)
  <2> QED
    BY <2>1, <2>2 DEF Listed
<1>5. \A o \in log : o.seq = s.seq => o = own
  BY <1>2 DEF IInv, VersionsInv
<1>6. \A x \in Manifests : Past(x) => Past(x)'
  BY <1>1, <1>3, SMTT(30), Z3T(30) DEF Past, Manifests
<1>7. \A x \in Manifests, v \in Nat : Paired(x, v) => Paired(x, v)'
  BY <1>1, SMTT(30), Z3T(30) DEF Paired
<1>8. ASSUME NEW w \in late' PROVE LateOK(w)'
  <2>1. w.base \in Nat /\ w.base <= mver
    BY DEF IInv, TypeInv, TypeOK, ClaimsInv, LateOK, BucketTypeOK
  <2> QED
    BY <1>1, <2>1, SMTT(30), Z3T(30) DEF LateOK
<1>9. VersionsInv'
  <2>1. ASSUME NEW j \in Instances, NEW o \in log, pc'[j] \in Holding, o.ver = slot[j].ver
        PROVE  ~Listed(o.seq)'
    <3>1. ~Listed(o.seq) /\ slot[j].ver # s.ver
      BY <2>1 DEF IInv, VersionsInv
    <3>2. o.seq # s.seq
      BY <1>2, <1>5, <2>1, <3>1
    <3> QED
      BY <1>4, <3>1, <3>2
  <2> QED
    BY <2>1 DEF IInv, VersionsInv
<1>10. DeletesInv'
  <2>1. ASSUME NEW d \in dels PROVE ~Listed(d.seq)' /\ d.left = 0 /\ d.seq \in Nat
    <3>1. d.seq \in Nat /\ d.left = 0 /\ ~Listed(d.seq)
      BY DEF IInv, TypeInv, TypeOK, DeletesInv, BucketTypeOK
    <3>2. d.seq # s.seq
      <4> SUFFICES ASSUME d.seq = s.seq PROVE FALSE
        BY SMTT(30), Z3T(30)
      <4>1. d.seq > manifest.head
        BY <1>3
      <4>2. \E o \in log : o.seq = d.seq /\ o.ver = d.ver
        BY <1>1, <3>1, <4>1, SMTT(30), Z3T(30) DEF IInv, DeletesInv
      <4>3. d.ver = s.ver
        BY <1>2, <1>5, <4>2
      <4> QED
        BY <4>1, <4>3
    <3> QED
      BY <1>4, <3>1, <3>2
  <2>2. ASSUME NEW d \in dels, ~(d.seq <= m.head)
        PROVE  /\ \E o \in log' : o.seq = d.seq /\ o.ver = d.ver
               /\ \A j \in Instances : pc'[j] \in Holding => slot'[j].ver # d.ver
               /\ \A w \in late' : w.slot.ver # d.ver
    <3>1. ~(d.seq <= manifest.head)
      <4>1. d.seq \in Nat
        BY <2>1
      <4> QED
        BY <1>1, <1>3, <2>2, <4>1, SMTT(30), Z3T(30)
    <3> QED
      BY <3>1 DEF IInv, DeletesInv
  <2>3. ASSUME NEW d \in dels, NEW e \in dels, d.ver = e.ver, d.seq > m.head, e.seq > m.head
        PROVE  d = e
    <3>1. d.seq > manifest.head /\ e.seq > manifest.head
      <4>1. d.seq \in Nat /\ e.seq \in Nat
        BY <2>1
      <4> QED
        BY <1>1, <1>3, <2>3, <4>1, SMTT(30), Z3T(30)
    <3> QED
      BY <2>3, <3>1 DEF IInv, DeletesInv
  <2> QED
    BY <2>1, <2>2, <2>3 DEF IInv, DeletesInv
<1>11. SegmentsInv'
  <2>1. manifest'.ckpt = 0
    BY <1>3 DEF IInv, SegmentsInv
  <2>2. ASSUME NEW g \in m.segs PROVE g.first <= m.head /\ \E o \in log : o.seq = g.first
    <3>1. CASE g \in manifest.segs
      <4>1. g.first <= manifest.head /\ \E o \in log : o.seq = g.first
        BY <3>1 DEF IInv, SegmentsInv
      <4>2. g.first \in Nat
        BY <3>1 DEF IInv, TypeInv, TypeOK, BucketTypeOK, Manifests, Segments
      <4> QED
        BY <1>1, <1>3, <4>1, <4>2, SMTT(30), Z3T(30)
    <3>2. CASE g = [first |-> s.seq, last |-> m.head]
      BY <1>2, <1>3, <3>2
    <3> QED
      BY <1>3, <3>1, <3>2
  <2>3. ListedEntries' = ListedEntries \cup EntriesAt(s.seq, reqs)
    <3>1. ListedEntries = UNION {EntriesAt(o.seq, o.reqs) : o \in {p \in log : Listed(p.seq)}}
      BY DEF ListedEntries, Listed
    <3>2. ListedEntries' = UNION {EntriesAt(o.seq, o.reqs) : o \in {p \in log : Listed(p.seq)'}}
      BY DEF ListedEntries, Listed
    <3>3. {p \in log : Listed(p.seq)'} = {p \in log : Listed(p.seq)} \cup {own}
      BY <1>2, <1>4, <1>5
    <3> QED
      BY <1>2, <3>1, <3>2, <3>3
  <2>4. \A e \in hist' : e.seq > 0
    <3>1. \A e \in EntriesAt(s.seq, reqs) : e.seq >= s.seq /\ e.seq \in Nat
      BY <1>1, EntriesAtFacts DEF Entries
    <3>2. \A e \in EntriesAt(s.seq, reqs) : e.seq > 0
      BY <1>1, <1>3, <3>1, SMTT(30), Z3T(30)
    <3> QED
      BY <3>2 DEF IInv, SegmentsInv
  <2> QED
    BY <2>1, <2>2, <2>3, <2>4 DEF IInv, SegmentsInv
<1> QED
  BY <1>4, <1>6, <1>7, <1>8, <1>9, <1>10, <1>11

\* What the others hold stays in order when the manifest moves on.
LEMMA AppendViews ==
  ASSUME IInv, NEW j \in Instances,
         \A x \in Manifests : Past(x) => Past(x)',
         \A x \in Manifests, v \in Nat : Paired(x, v) => Paired(x, v)',
         hm'[j] = hm[j], hv'[j] = hv[j], sync'[j] = sync[j]
  PROVE  /\ LocalOK(j)'
         /\ Past(view[j].m)' \/ view'[j] # view[j]
         /\ view'[j] = view[j] /\ done'[j] = done[j] /\ pc'[j] = pc[j]
              => AttemptOK(j)' /\ SyncOwner(j)'
<1>1. /\ hm[j] \in Manifests /\ hv[j] \in Nat /\ sync[j].m \in Manifests /\ sync[j].ver \in Nat
      /\ view[j].m \in Manifests /\ view[j].ver \in Nat
      /\ done[j].m \in Manifests /\ done[j].ver \in Nat
  BY DEF IInv, TypeInv, TypeOK, LocalTypeOK, PublisherTypeOK
<1>2. LocalOK(j) /\ AttemptOK(j) /\ SyncOwner(j)
  BY DEF IInv, ViewsInv
<1>3. LocalOK(j)'
  BY <1>1, <1>2 DEF LocalOK
<1>4. CASE view'[j] = view[j] /\ done'[j] = done[j] /\ pc'[j] = pc[j]
  BY <1>1, <1>2, <1>3, <1>4 DEF AttemptOK, SyncOwner
<1>5. Past(view[j].m)' \/ view'[j] # view[j]
  BY <1>1, <1>2 DEF AttemptOK
<1> QED
  BY <1>3, <1>4, <1>5

\* A claim that has lost the race can wait; a batch that has committed stays so.
LEMMA AppendClaims ==
  ASSUME IInv, NEW j \in Instances, NEW s \in Slots, s.seq > manifest.head,
         \A t : Listed(t)' <=> Listed(t) \/ t = s.seq,
         manifest'.head >= s.seq, manifest' \in Manifests, mver' = mver + 1, hist \subseteq hist',
         pc'[j] = pc[j], view'[j] = view[j], slot'[j] = slot[j], burned'[j] = burned[j],
         valid'[j] = valid[j]
  PROVE  ClaimOK(j)'
<1>1. /\ view[j].ver \in Nat /\ mver \in Nat /\ view[j].ver <= mver
      /\ s.seq \in Nat /\ manifest.head \in Nat /\ manifest'.head \in Nat
  BY DEF IInv, TypeInv, TypeOK, PublisherTypeOK, BucketTypeOK, ViewsInv, AttemptOK, Paired,
     Slots, Manifests
<1>2. view'[j].ver # mver'
  BY <1>1, Grows
<1>3. ClaimOK(j)
  BY DEF IInv, ClaimsInv
<1>4. ASSUME pc[j] \in Committed, NEW b \in burned[j]
      PROVE  b.seq <= manifest'.head /\ ~Listed(b.seq)'
  <2>1. b.seq <= manifest.head /\ ~Listed(b.seq) /\ b.seq \in Nat
    BY <1>3, <1>4, SMTT(30), Z3T(30) DEF IInv, TypeInv, TypeOK, ClaimOK, PublisherTypeOK, Slots
  <2> QED
    BY <1>1, <2>1, Reaches, SMTT(30), Z3T(30)
<1> QED
  BY <1>2, <1>3, <1>4 DEF ClaimOK

\* A manifest CAS that succeeds appends to the current manifest.
LEMMA CommitManifestStep ==
  ASSUME IInv, TypeInv', NEW i \in Instances, CommitManifest(i)
  PROVE  IInv'
<1> DEFINE m == UpdatedManifest(i)
<1>1. /\ pc[i] = "cas" /\ view[i].ver = mver /\ manifest' = m /\ mver' = mver + 1
      /\ hist' = hist \cup EntriesAt(slot[i].seq, valid[i])
      /\ done' = [done EXCEPT ![i] = [m |-> m, ver |-> mver + 1]]
      /\ pc' = [pc EXCEPT ![i] = "mark"]
      /\ UNCHANGED <<log, late, dels, nver, localVars, valid, view, slot, burned, resp>>
  BY DEF CommitManifest, PutManifest, clientVars
<1>2. m \in Manifests /\ Appends(m, slot[i]) /\ Holds(slot[i], valid[i])
  BY <1>1, UpdatedAppends
<1> HIDE DEF m
<1>3. slot[i] \in Slots /\ valid[i] \in Batches /\ mver \in Nat
  BY DEF IInv, TypeInv, TypeOK, PublisherTypeOK, BucketTypeOK
<1>4. pc'[i] = "mark" /\ done'[i] = [m |-> m, ver |-> mver + 1]
  BY <1>1 DEF IInv, TypeInv, TypeOK, PublisherTypeOK
<1>5. ASSUME NEW j \in Instances \ {i} PROVE pc'[j] = pc[j] /\ done'[j] = done[j]
  BY <1>1 DEF IInv, TypeInv, TypeOK, PublisherTypeOK
<1>6. \A j \in Instances : pc'[j] \in Holding => pc[j] \in Holding /\ slot[j].ver # slot[i].ver
  <2>1. ASSUME NEW j \in Instances \ {i}, pc'[j] \in Holding
        PROVE  pc[j] \in Holding /\ slot[j].ver # slot[i].ver
    BY <1>1, <1>5, <2>1 DEF IInv, VersionsInv, Holding
  <2> QED
    BY <1>4, <2>1 DEF Holding
<1>7. \A d \in dels : d.seq > manifest.head => d.ver # slot[i].ver
  <2>1. ASSUME NEW d \in dels, d.seq > manifest.head PROVE d.ver # slot[i].ver
    <3>1. ~(d.seq <= manifest.head)
      <4>1. d.seq \in Nat /\ manifest.head \in Nat
        BY BucketFacts DEF IInv, TypeInv, TypeOK
      <4> QED
        BY <2>1, <4>1, SMTT(30), Z3T(30)
    <3> QED
      BY <1>1, <3>1 DEF IInv, DeletesInv, Holding
  <2> QED
    BY <2>1
<1>8. /\ VersionsInv' /\ DeletesInv' /\ SegmentsInv'
      /\ \A w \in late' : LateOK(w)'
      /\ \A x \in Manifests : Past(x) => Past(x)'
      /\ \A x \in Manifests, v \in Nat : Paired(x, v) => Paired(x, v)'
      /\ \A t : Listed(t)' <=> Listed(t) \/ t = slot[i].seq
  BY <1>1, <1>2, <1>3, <1>6, <1>7, AppendStep
<1>9. UNCHANGED <<hm, hv, sync>>
  BY <1>1 DEF localVars
<1>10. ViewsInv'
  <2>1. ASSUME NEW j \in Instances \ {i} PROVE LocalOK(j)' /\ AttemptOK(j)' /\ SyncOwner(j)'
    BY <1>1, <1>5, <1>8, <1>9, AppendViews
  <2>2. LocalOK(i)' /\ Past(view[i].m)'
    BY <1>1, <1>8, <1>9, AppendViews
  <2>3. Paired(view[i].m, view[i].ver)'
    BY <1>1, <1>3, Later DEF Paired
  <2>4. Past(done[i].m)' /\ Paired(done[i].m, done[i].ver)'
    <3>1. done'[i].m = m /\ done'[i].ver = mver + 1 /\ m.rev \in Nat
      BY <1>2, <1>4, SMTT(30), Z3T(30) DEF Manifests
    <3>2. m.rev <= m.rev /\ mver + 1 <= mver + 1
      BY <1>3, <3>1, SMTT(30), Z3T(30)
    <3> QED
      BY <1>1, <3>1, <3>2 DEF Past, Paired
  <2>5. AttemptOK(i)'
    <3>1. done'[i].ver # 0
      BY <1>3, <1>4, Later, SMTT(30), Z3T(30)
    <3> QED
      BY <1>4, <2>2, <2>3, <2>4, <3>1 DEF AttemptOK
  <2>6. SyncOwner(i)'
    BY <1>1, <1>9 DEF IInv, ViewsInv, SyncOwner
  <2>7. mver' > 0 /\ Past(NewManifest)'
    <3>1. NewManifest \in Manifests /\ Past(NewManifest)
      BY InitialTypes DEF IInv, ViewsInv
    <3> QED
      BY <1>1, <1>3, <1>8, <3>1, Later
  <2> QED
    BY <2>1, <2>2, <2>5, <2>6, <2>7 DEF IInv, ViewsInv
<1>11. ClaimsInv'
  <2>1. slot[i].seq > manifest.head /\ manifest'.head >= slot[i].seq
    BY <1>1, <1>2 DEF Appends
  <2>2. ASSUME NEW j \in Instances \ {i} PROVE ClaimOK(j)'
    BY <1>1, <1>2, <1>3, <1>5, <1>8, <2>1, AppendClaims
  <2>3. ClaimOK(i)'
    <3>1. view[i].m = manifest
      BY <1>1 DEF IInv, ViewsInv, AttemptOK, Paired
    <3>2. ASSUME NEW b \in burned[i] PROVE b.seq <= manifest'.head /\ ~Listed(b.seq)'
      <4>1. manifest.head < b.seq /\ b.seq < slot[i].seq
        BY <1>1, <3>1 DEF IInv, ClaimsInv, ClaimOK
      <4>2. /\ b.seq \in Nat /\ slot[i].seq \in Nat /\ manifest'.head \in Nat
            /\ manifest.head \in Nat
        <5>1. b.seq \in Nat /\ slot[i].seq \in Nat
          BY <1>3, SMTT(30), Z3T(30) DEF IInv, TypeInv, TypeOK, PublisherTypeOK, Slots
        <5>2. manifest'.head \in Nat
          BY <1>1, <1>2 DEF Manifests
        <5> QED
          BY <5>1, <5>2, BucketFacts DEF IInv, TypeInv, TypeOK
      <4>3. ~Listed(b.seq)
        <5>1. \A g \in manifest.segs : g.first <= manifest.head /\ g.first \in Nat
          BY DEF IInv, TypeInv, TypeOK, SegmentsInv, BucketTypeOK, Manifests, Segments
        <5> QED
          BY <4>1, <4>2, <5>1, SMTT(30), Z3T(30) DEF Listed
      <4>4. b.seq <= manifest'.head /\ b.seq # slot[i].seq
        BY <2>1, <4>1, <4>2, SMTT(30), Z3T(30)
      <4>5. ~Listed(b.seq)'
        BY <1>8, <4>3, <4>4
      <4> QED
        BY <4>4, <4>5
    <3> QED
      BY <1>1, <1>4, <3>2 DEF ClaimOK, Claiming
  <2> QED
    BY <1>8, <2>2, <2>3 DEF IInv, ClaimsInv
<1>12. AckedCommitted'
  BY <1>1 DEF IInv, AckedCommitted
<1> QED
  BY <1>8, <1>10, <1>11, <1>12 DEF IInv, NoAmbiguity

\* The write of a crashed publisher that lands late does so too.
LEMMA LandManifestStep ==
  ASSUME IInv, TypeInv', LandManifest
  PROVE  IInv'
<1>1. PICK w \in late :
        /\ late' = late \ {w}
        /\ IF w.base = mver
           THEN /\ PutManifest(w.m)
                /\ hist' = hist \cup EntriesAt(w.slot.seq, w.reqs)
           ELSE UNCHANGED <<manifest, mver, hist>>
  BY DEF LandManifest
<1>2. UNCHANGED <<log, dels, nver, hm, hv, sync, pc, valid, view, slot, burned, done, resp>>
  BY DEF LandManifest, localVars, pubVars, clientVars
<1>3. w.slot \in Slots /\ w.m \in Manifests /\ w.reqs \in Batches
  BY DEF IInv, TypeInv, TypeOK, BucketTypeOK
<1>4. CASE w.base = mver
  <2>1. /\ manifest' = w.m /\ mver' = mver + 1
        /\ hist' = hist \cup EntriesAt(w.slot.seq, w.reqs)
    BY <1>1, <1>4 DEF PutManifest
  <2>2. Holds(w.slot, w.reqs) /\ Appends(w.m, w.slot)
    BY <1>4 DEF IInv, ClaimsInv, LateOK
  <2>3. \A j \in Instances : pc'[j] \in Holding => pc[j] \in Holding /\ slot[j].ver # w.slot.ver
    BY <1>2 DEF IInv, VersionsInv
  <2>4. ASSUME NEW d \in dels, d.seq > manifest.head PROVE d.ver # w.slot.ver
    <3>1. ~(d.seq <= manifest.head)
      <4>1. d.seq \in Nat /\ manifest.head \in Nat
        BY BucketFacts DEF IInv, TypeInv, TypeOK
      <4> QED
        BY <2>4, <4>1, SMTT(30), Z3T(30)
    <3> QED
      BY <3>1 DEF IInv, DeletesInv
  <2>5. /\ VersionsInv' /\ DeletesInv' /\ SegmentsInv'
        /\ \A x \in late' : LateOK(x)'
        /\ \A x \in Manifests : Past(x) => Past(x)'
        /\ \A x \in Manifests, v \in Nat : Paired(x, v) => Paired(x, v)'
        /\ \A t : Listed(t)' <=> Listed(t) \/ t = w.slot.seq
    BY <1>1, <1>2, <1>3, <2>1, <2>2, <2>3, <2>4, AppendStep
  <2>6. ViewsInv'
    <3>1. ASSUME NEW j \in Instances PROVE LocalOK(j)' /\ AttemptOK(j)' /\ SyncOwner(j)'
      BY <1>2, <2>5, AppendViews
    <3>2. mver' > 0 /\ Past(NewManifest)'
      <4>1. mver \in Nat
        BY BucketFacts DEF IInv, TypeInv, TypeOK
      <4>2. Past(NewManifest)
        BY DEF IInv, ViewsInv
      <4> QED
        BY <2>1, <2>5, <4>1, <4>2, InitialTypes, Later
    <3> QED
      BY <3>1, <3>2 DEF IInv, ViewsInv
  <2>7. w.slot.seq > manifest.head /\ manifest'.head >= w.slot.seq
    BY <2>1, <2>2 DEF Appends
  <2>8. ASSUME NEW j \in Instances PROVE ClaimOK(j)'
    BY <1>2, <1>3, <2>1, <2>5, <2>7, AppendClaims
  <2>9. AckedCommitted'
    BY <1>2, <2>1 DEF IInv, AckedCommitted
  <2> QED
    BY <2>5, <2>6, <2>8, <2>9 DEF IInv, ClaimsInv, NoAmbiguity
<1>5. CASE w.base # mver
  <2>1. UNCHANGED <<manifest, mver, hist>>
    BY <1>1, <1>5
  <2>2. ViewsInv' /\ SegmentsInv' /\ AckedCommitted'
    BY <1>2, <2>1 DEF IInv, ViewsInv, LocalOK, AttemptOK, SyncOwner, Past, Paired,
       SegmentsInv, ListedEntries, AckedCommitted
  <2>3. ClaimsInv'
    BY <1>1, <1>2, <2>1 DEF IInv, ClaimsInv, ClaimOK, LateOK, Holds, Appends, Listed
  <2>4. VersionsInv'
    BY <1>1, <1>2, <2>1 DEF IInv, VersionsInv, Listed
  <2>5. DeletesInv'
    BY <1>1, <1>2, <2>1 DEF IInv, DeletesInv, Listed
  <2> QED
    BY <2>2, <2>3, <2>4, <2>5 DEF IInv, NoAmbiguity
<1> QED
  BY <1>4, <1>5

-----------------------------------------------------------------------------
(* Deleting *)

\* A DELETE takes effect: it hits a key that is not listed, and no claim that can
\* still commit.
LEMMA LandDeleteStep ==
  ASSUME IInv, TypeInv', LandDelete
  PROVE  IInv'
<1>1. PICK d \in dels : /\ log' = log \ ObjectAt(d.seq)
                       /\ \/ dels' = dels \ {d}
                          \/ d.left > 0
  BY DEF LandDelete
<1>2. UNCHANGED <<manifest, mver, late, nver, hist, hm, hv, sync, pc, valid, view, slot, burned,
                  done, resp>>
  BY DEF LandDelete, localVars, pubVars, clientVars
<1>3. dels' = dels \ {d}
  BY <1>1, SMTT(30), Z3T(30) DEF IInv, DeletesInv
<1>4. d.seq \in Nat /\ d.ver \in Nat /\ manifest.head \in Nat /\ ~Listed(d.seq)
  BY BucketFacts DEF IInv, TypeInv, TypeOK, DeletesInv
<1>5. \A o \in log : o \in log' <=> o.seq # d.seq
  BY <1>1 DEF ObjectAt
<1>6. log' \subseteq log
  BY <1>1
<1>7. ASSUME d.seq > manifest.head
      PROVE  /\ \A o \in log : o.seq = d.seq => o.ver = d.ver
             /\ \A i \in Instances : pc[i] \in Holding => slot[i].ver # d.ver
             /\ \A w \in late : w.slot.ver # d.ver
  <2>1. ~(d.seq <= manifest.head)
    BY <1>4, <1>7, SMTT(30), Z3T(30)
  <2>2. /\ \E o \in log : o.seq = d.seq /\ o.ver = d.ver
        /\ \A i \in Instances : pc[i] \in Holding => slot[i].ver # d.ver
        /\ \A w \in late : w.slot.ver # d.ver
    BY <2>1 DEF IInv, DeletesInv
  <2> QED
    BY <2>2 DEF IInv, VersionsInv
<1>8. ViewsInv' /\ AckedCommitted'
  BY <1>2 DEF IInv, ViewsInv, LocalOK, AttemptOK, SyncOwner, Past, Paired, AckedCommitted
<1>9. ASSUME NEW s, NEW reqs, Holds(s, reqs), s.seq > manifest.head,
             d.seq > manifest.head => s.ver # d.ver
      PROVE  Holds(s, reqs)'
  <2> DEFINE o == [seq |-> s.seq, ver |-> s.ver, reqs |-> reqs]
  <2>1. o \in log /\ o.seq = s.seq /\ o.ver = s.ver
    BY <1>9 DEF Holds
  <2> HIDE DEF o
  <2>2. o.seq # d.seq
    BY <1>7, <1>9, <2>1
  <2>3. o \in log'
    BY <1>5, <2>1, <2>2
  <2> QED
    BY <2>3 DEF o, Holds
<1>10. ClaimsInv'
  <2>1. ASSUME NEW i \in Instances PROVE ClaimOK(i)'
    <3>1. ClaimOK(i)
      BY DEF IInv, ClaimsInv
    <3>2. ASSUME pc[i] = "cas", view[i].ver = mver PROVE Holds(slot[i], valid[i])'
      <4>1. Holds(slot[i], valid[i]) /\ slot[i].seq > view[i].m.head
        BY <3>1, <3>2 DEF ClaimOK
      <4>2. view[i].m = manifest
        BY <3>2 DEF IInv, ViewsInv, AttemptOK, Paired
      <4>3. d.seq > manifest.head => slot[i].ver # d.ver
        BY <1>7, <3>2 DEF Holding
      <4>4. Holds(slot[i], valid[i])'
        <5>1. ASSUME NEW s, NEW reqs, s = slot[i], reqs = valid[i] PROVE Holds(s, reqs)'
          BY <1>9, <4>1, <4>2, <4>3, <5>1
        <5> QED
          BY <1>2, <5>1 DEF Holds
      <4> QED
        BY <4>4
    <3> QED
      BY <1>2, <3>1, <3>2 DEF ClaimOK, Listed
  <2>2. ASSUME NEW w \in late PROVE LateOK(w)'
    <3>1. LateOK(w)
      BY DEF IInv, ClaimsInv
    <3>2. ASSUME w.base = mver PROVE Holds(w.slot, w.reqs)'
      <4>1. Holds(w.slot, w.reqs) /\ w.slot.seq > manifest.head
        BY <3>1, <3>2 DEF LateOK, Appends
      <4>2. d.seq > manifest.head => w.slot.ver # d.ver
        BY <1>7
      <4> QED
        BY <1>9, <4>1, <4>2
    <3> QED
      BY <1>2, <3>1, <3>2 DEF LateOK, Appends
  <2> QED
    BY <1>2, <2>1, <2>2 DEF IInv, ClaimsInv
<1>11. VersionsInv'
  BY <1>2, <1>3, <1>6 DEF IInv, VersionsInv, Listed
<1>12. DeletesInv'
  <2>1. ASSUME NEW e \in dels', ~(e.seq <= manifest.head)
        PROVE  \E o \in log' : o.seq = e.seq /\ o.ver = e.ver
    <3>1. PICK o \in log : o.seq = e.seq /\ o.ver = e.ver
      BY <1>3, <2>1 DEF IInv, DeletesInv
    <3>2. e \in dels /\ e # d /\ e.seq \in Nat
      BY <1>3, BucketFacts DEF IInv, TypeInv, TypeOK
    <3>3. e.seq > manifest.head
      BY <1>4, <2>1, <3>2, SMTT(30), Z3T(30)
    <3>4. e.seq # d.seq
      <4> SUFFICES ASSUME e.seq = d.seq PROVE FALSE
        BY SMTT(30), Z3T(30)
      <4>1. d.ver = e.ver /\ d.seq > manifest.head
        BY <1>7, <3>1, <3>3
      <4> QED
        BY <3>2, <3>3, <4>1 DEF IInv, DeletesInv
    <3> QED
      BY <1>5, <3>1, <3>4
  <2>2. ASSUME NEW e \in dels'
        PROVE  /\ e.left = 0 /\ ~Listed(e.seq)'
               /\ \/ e.seq <= manifest'.head
                  \/ /\ \E o \in log' : o.seq = e.seq /\ o.ver = e.ver
                     /\ \A i \in Instances : pc'[i] \in Holding => slot'[i].ver # e.ver
                     /\ \A w \in late' : w.slot.ver # e.ver
    <3>1. e \in dels
      BY <1>3
    <3> QED
      BY <1>2, <2>1, <3>1 DEF IInv, DeletesInv, Listed
  <2>3. \A e, f \in dels' :
          e.ver = f.ver /\ e.seq > manifest'.head /\ f.seq > manifest'.head => e = f
    BY <1>2, <1>3 DEF IInv, DeletesInv
  <2> QED
    BY <2>2, <2>3 DEF IInv, DeletesInv
<1>13. SegmentsInv'
  <2>1. {p \in log' : Listed(p.seq)} = {p \in log : Listed(p.seq)}
    BY <1>4, <1>5, <1>6
  <2>2. ListedEntries' = ListedEntries
    BY <1>2, <2>1 DEF ListedEntries, Listed
  <2>3. \A g \in manifest.segs : \E o \in log' : o.seq = g.first
    BY <1>4, <1>5 DEF IInv, SegmentsInv, Listed
  <2> QED
    BY <1>2, <2>2, <2>3 DEF IInv, SegmentsInv
<1> QED
  BY <1>8, <1>10, <1>11, <1>12, <1>13 DEF IInv, NoAmbiguity

\* Everything but DeletesInv, when only deletes and one publisher's bookkeeping
\* change.
LEMMA DeleteFrame ==
  ASSUME IInv, TypeInv', NEW i \in Instances,
         UNCHANGED <<manifest, mver, log, late, nver, hist, localVars>>,
         PubFrame(i), AttemptOK(i)', ClaimOK(i)', SlotKept(i), pc[i] # "sync",
         \A d \in dels' : d.ver < nver,
         AckedCommitted', DeletesInv'
  PROVE  IInv'
<1>1. ViewsInv'
  <2>1. LocFrame(i) /\ LocalOK(i)'
    BY SameLocal
  <2>2. SyncOwner(i)'
    BY DEF IInv, ViewsInv, SyncOwner, localVars
  <2> QED
    BY <2>1, <2>2, SameViews DEF IInv
<1>2. ClaimsInv'
  <2>1. ASSUME NEW j \in Instances \ {i} PROVE ClaimOK(j)'
    BY DEF IInv, ClaimsInv, ClaimOK, Listed, Holds, PubFrame
  <2>2. ASSUME NEW w \in late' PROVE LateOK(w)'
    BY DEF IInv, ClaimsInv, LateOK, Holds, Appends
  <2> QED
    BY <2>1, <2>2 DEF IInv, ClaimsInv
<1>3. ASSUME NEW j \in Instances
      PROVE  /\ slot'[j].ver < nver
             /\ pc'[j] \in Holding => pc[j] \in Holding /\ slot'[j] = slot[j]
  BY DEF IInv, PubFrame, SlotKept, VersionsInv
<1>4. VersionsInv'
  BY <1>3 DEF IInv, VersionsInv, Listed
<1>5. SegmentsInv'
  BY DEF IInv, SegmentsInv, ListedEntries
<1> QED
  BY <1>1, <1>2, <1>4, <1>5 DEF IInv, NoAmbiguity

\* The slots a committed batch burned are below the head and unlisted.
LEMMA SweepBurnedStep ==
  ASSUME IInv, TypeInv', NEW i \in Instances, SweepBurned(i)
  PROVE  IInv'
<1>1. /\ UNCHANGED <<manifest, mver, log, late, nver, hist, localVars>> /\ pc[i] = "sweep"
      /\ UNCHANGED <<pc, valid, view, slot, done, resp>>
  BY DEF SweepBurned, clientVars
<1>2. PICK b \in burned[i] : /\ burned' = [burned EXCEPT ![i] = @ \ {b}]
                             /\ CasDelete(i, b) \/ UNCHANGED dels
  BY DEF SweepBurned
<1>3. PubFrame(i) /\ burned'[i] \subseteq burned[i]
  BY <1>1, <1>2 DEF IInv, TypeInv, TypeOK, PubFrame, PublisherTypeOK
<1>4. AttemptOK(i)'
  BY <1>1 DEF IInv, ViewsInv, AttemptOK, Past, Paired
<1>5. ClaimOK(i)'
  BY <1>1, <1>3 DEF IInv, ClaimsInv, ClaimOK, Claiming, Committed, Listed
<1>6. SlotKept(i)
  BY <1>1 DEF IInv, VersionsInv, SlotKept
<1>7. AckedCommitted'
  BY <1>1 DEF IInv, AckedCommitted
<1>8. b.seq <= manifest.head /\ ~Listed(b.seq) /\ b.seq \in Nat /\ manifest.head \in Nat
  <2>1. ClaimOK(i) /\ pc[i] \in Committed
    BY <1>1 DEF IInv, ClaimsInv, Committed
  <2>2. b.seq \in Nat
    <3>1. burned[i] \in SUBSET Slots
      BY DEF IInv, TypeInv, TypeOK, PublisherTypeOK
    <3> QED
      BY <3>1 DEF Slots
  <2>3. manifest.head \in Nat
    BY BucketFacts DEF IInv, TypeInv, TypeOK
  <2> QED
    BY <2>1, <2>2, <2>3 DEF ClaimOK
<1>9. CASE UNCHANGED dels
  <2>1. DeletesInv' /\ \A d \in dels' : d.ver < nver
    BY <1>1, <1>9 DEF IInv, DeletesInv, VersionsInv, Listed
  <2> QED
    BY <1>1, <1>3, <1>4, <1>5, <1>6, <1>7, <2>1, DeleteFrame
<1>10. ASSUME NEW o \in log, o.seq = b.seq, o.ver = b.ver, NEW d,
              d = [seq |-> b.seq, ver |-> b.ver, by |-> i, held |-> TRUE, left |-> DeleteRetries],
              dels' = dels \cup {d}
       PROVE  IInv'
  <2>1. d.seq = b.seq /\ d.ver = o.ver /\ d.left = 0
    BY <1>10 DEF IInv, NoAmbiguity
  <2>2. \A e \in dels' : e.ver < nver
    BY <1>10, <2>1 DEF IInv, VersionsInv
  <2>3. DeletesInv'
    <3>1. \A e \in dels : e.seq \in Nat
      BY BucketFacts DEF IInv, TypeInv, TypeOK
    <3>2. ~(d.seq > manifest.head)
      BY <1>8, <2>1, SMTT(30), Z3T(30)
    <3>3. \A e, f \in dels' :
            e.ver = f.ver /\ e.seq > manifest'.head /\ f.seq > manifest'.head => e = f
      BY <1>1, <1>10, <3>2 DEF IInv, DeletesInv
    <3>4. d.left = 0 /\ ~Listed(d.seq)' /\ d.seq <= manifest'.head
      BY <1>1, <1>8, <2>1 DEF Listed
    <3>5. ASSUME NEW e \in dels
          PROVE  /\ e.left = 0 /\ ~Listed(e.seq)'
                 /\ \/ e.seq <= manifest'.head
                    \/ /\ \E p \in log' : p.seq = e.seq /\ p.ver = e.ver
                       /\ \A j \in Instances : pc'[j] \in Holding => slot'[j].ver # e.ver
                       /\ \A w \in late' : w.slot.ver # e.ver
      BY <1>1 DEF IInv, DeletesInv, Listed
    <3> QED
      BY <1>10, <3>3, <3>4, <3>5 DEF IInv, DeletesInv
  <2> QED
    BY <1>1, <1>3, <1>4, <1>5, <1>6, <1>7, <2>2, <2>3, DeleteFrame
<1> QED
  BY <1>2, <1>9, <1>10 DEF CasDelete, ObjectAt

\* The instance gives up its own segment: nobody else can commit it.
LEMMA DropOwnSlotStep ==
  ASSUME IInv, TypeInv', NEW i \in Instances, DropOwnSlot(i)
  PROVE  IInv'
<1>1. /\ UNCHANGED <<manifest, mver, log, late, nver, hist, localVars>> /\ pc[i] = "drop"
      /\ pc' = [pc EXCEPT ![i] = "dropped"]
      /\ UNCHANGED <<valid, view, slot, burned, done, resp>>
  BY DEF DropOwnSlot, clientVars
<1>2. PubFrame(i) /\ pc'[i] = "dropped"
  BY <1>1 DEF IInv, TypeInv, TypeOK, PubFrame, PublisherTypeOK
<1>3. AttemptOK(i)'
  BY <1>1, <1>2 DEF IInv, ViewsInv, AttemptOK, Past, Paired
<1>4. ClaimOK(i)'
  BY <1>2 DEF ClaimOK, Claiming, Committed
<1>5. SlotKept(i)
  BY <1>1, <1>2 DEF IInv, VersionsInv, SlotKept, Holding
<1>6. AckedCommitted'
  BY <1>1 DEF IInv, AckedCommitted
<1>7. \A j \in Instances : pc'[j] \in Holding => j # i /\ pc[j] \in Holding
  BY <1>2 DEF PubFrame, Holding
<1>8. ASSUME NEW e \in dels
      PROVE  /\ e.left = 0 /\ ~Listed(e.seq)'
             /\ \/ e.seq <= manifest'.head
                \/ /\ \E p \in log' : p.seq = e.seq /\ p.ver = e.ver
                   /\ \A j \in Instances : pc'[j] \in Holding => slot'[j].ver # e.ver
                   /\ \A w \in late' : w.slot.ver # e.ver
  BY <1>1, <1>7 DEF IInv, DeletesInv, Listed
<1>9. CASE UNCHANGED dels
  <2>1. DeletesInv'
    BY <1>1, <1>8, <1>9 DEF IInv, DeletesInv
  <2>2. \A d \in dels' : d.ver < nver
    BY <1>9 DEF IInv, VersionsInv
  <2> QED
    BY <1>1, <1>2, <1>3, <1>4, <1>5, <1>6, <2>1, <2>2, DeleteFrame
<1>10. ASSUME NEW o \in log, o.seq = slot[i].seq, o.ver = slot[i].ver, NEW d,
              d = [seq |-> slot[i].seq, ver |-> slot[i].ver, by |-> i, held |-> TRUE,
                   left |-> DeleteRetries],
              dels' = dels \cup {d}
       PROVE  IInv'
  <2>1. d.seq = o.seq /\ d.ver = o.ver /\ d.left = 0
    BY <1>10 DEF IInv, NoAmbiguity
  <2>2. \A e \in dels' : e.ver < nver
    BY <1>10, <2>1 DEF IInv, VersionsInv
  <2>3. pc[i] \in Holding
    BY <1>1 DEF Holding
  <2>4. ~Listed(d.seq)
    BY <1>10, <2>1, <2>3 DEF IInv, VersionsInv
  <2>5. \A j \in Instances : pc'[j] \in Holding => slot'[j].ver # d.ver
    BY <1>1, <1>7, <1>10, <2>1, <2>3 DEF IInv, VersionsInv
  <2>6. \A w \in late' : w.slot.ver # d.ver
    BY <1>1, <1>10, <2>1, <2>3 DEF IInv, VersionsInv
  <2>7. ASSUME NEW e \in dels, e.ver = d.ver PROVE ~(e.seq > manifest.head)
    <3>1. e.seq \in Nat /\ manifest.head \in Nat
      BY BucketFacts DEF IInv, TypeInv, TypeOK
    <3>2. e.seq <= manifest.head
      BY <1>10, <2>1, <2>3, <2>7 DEF IInv, DeletesInv
    <3> QED
      BY <3>1, <3>2, SMTT(30), Z3T(30)
  <2>8. \A e, f \in dels' :
          e.ver = f.ver /\ e.seq > manifest'.head /\ f.seq > manifest'.head => e = f
    <3>1. ASSUME NEW e \in dels', NEW f \in dels', e.ver = f.ver, e.seq > manifest'.head,
                 f.seq > manifest'.head
          PROVE  e = f
      <4>1. manifest' = manifest
        BY <1>1
      <4>2. CASE e = d
        BY <1>10, <2>7, <3>1, <4>1, <4>2
      <4>3. CASE f = d
        BY <1>10, <2>7, <3>1, <4>1, <4>3
      <4>4. CASE e \in dels /\ f \in dels
        BY <3>1, <4>1, <4>4 DEF IInv, DeletesInv
      <4> QED
        BY <1>10, <4>2, <4>3, <4>4
    <3> QED
      BY <3>1
  <2>9. d.left = 0 /\ ~Listed(d.seq)' /\ \E p \in log' : p.seq = d.seq /\ p.ver = d.ver
    BY <1>1, <2>1, <2>4 DEF Listed
  <2>10. DeletesInv'
    <3>1. ASSUME NEW e \in dels'
          PROVE  /\ e.left = 0 /\ ~Listed(e.seq)'
                 /\ \/ e.seq <= manifest'.head
                    \/ /\ \E p \in log' : p.seq = e.seq /\ p.ver = e.ver
                       /\ \A j \in Instances : pc'[j] \in Holding => slot'[j].ver # e.ver
                       /\ \A w \in late' : w.slot.ver # e.ver
      <4>1. CASE e \in dels
        BY <1>8, <4>1
      <4>2. CASE e = d
        BY <2>5, <2>6, <2>9, <4>2
      <4> QED
        BY <1>10, <4>1, <4>2
    <3> QED
      BY <2>8, <3>1 DEF IInv, DeletesInv
  <2> QED
    BY <1>1, <1>2, <1>3, <1>4, <1>5, <1>6, <2>2, <2>10, DeleteFrame
<1> QED
  BY <1>9, <1>10 DEF DropOwnSlot, CasDelete, ObjectAt

\* Giving up waiting changes nothing about the DELETE itself.
LEMMA UnheldFacts ==
  ASSUME BucketTypeOK, NEW i \in Instances, NEW e \in Unheld(i)
  PROVE  \E d \in dels : /\ e = IF d.by = i THEN [d EXCEPT !.held = FALSE] ELSE d
                         /\ e.seq = d.seq /\ e.ver = d.ver /\ e.left = d.left
<1>1. PICK d \in dels : e = IF d.by = i THEN [d EXCEPT !.held = FALSE] ELSE d
  BY DEF Unheld
<1>2. d \in [seq : Nat, ver : Nat, by : Instances, held : BOOLEAN, left : Nat]
  BY DEF BucketTypeOK
<1>3. e.seq = d.seq /\ e.ver = d.ver /\ e.left = d.left
  BY <1>1, <1>2
<1> QED
  BY <1>1, <1>3

\* DeletesInv survives when fewer instances hold slots, senders stop waiting, and
\* late writes carry only slots that were held.
LEMMA UnheldDeletes ==
  ASSUME IInv, NEW i \in Instances, dels' = Unheld(i), UNCHANGED <<manifest, log>>,
         \A j \in Instances : pc'[j] \in Holding => pc[j] \in Holding /\ slot'[j] = slot[j],
         \A w \in late' : \/ w \in late
                          \/ \E j \in Instances : pc[j] \in Holding /\ w.slot = slot[j]
  PROVE  DeletesInv' /\ \A d \in dels' : d.ver < nver
<1>1. ASSUME NEW e \in dels'
      PROVE  /\ e.left = 0 /\ ~Listed(e.seq)' /\ e.ver < nver
             /\ \/ e.seq <= manifest'.head
                \/ /\ \E o \in log' : o.seq = e.seq /\ o.ver = e.ver
                   /\ \A j \in Instances : pc'[j] \in Holding => slot'[j].ver # e.ver
                   /\ \A w \in late' : w.slot.ver # e.ver
  <2>1. PICK d \in dels : e.seq = d.seq /\ e.ver = d.ver /\ e.left = d.left
    BY UnheldFacts DEF IInv, TypeInv, TypeOK
  <2>2. /\ d.left = 0 /\ ~Listed(d.seq) /\ d.ver < nver
        /\ \/ d.seq <= manifest.head
           \/ /\ \E o \in log : o.seq = d.seq /\ o.ver = d.ver
              /\ \A j \in Instances : pc[j] \in Holding => slot[j].ver # d.ver
              /\ \A w \in late : w.slot.ver # d.ver
    BY DEF IInv, DeletesInv, VersionsInv
  <2>3. e.left = 0 /\ ~Listed(e.seq)' /\ e.ver < nver
    BY <2>1, <2>2 DEF Listed
  <2> QED
    BY <2>1, <2>2, <2>3
<1>2. ASSUME NEW e \in dels', NEW f \in dels', e.ver = f.ver, e.seq > manifest'.head,
             f.seq > manifest'.head
      PROVE  e = f
  <2>1. PICK d \in dels : /\ e = IF d.by = i THEN [d EXCEPT !.held = FALSE] ELSE d
                         /\ e.seq = d.seq /\ e.ver = d.ver
    BY UnheldFacts DEF IInv, TypeInv, TypeOK
  <2>2. PICK c \in dels : /\ f = IF c.by = i THEN [c EXCEPT !.held = FALSE] ELSE c
                         /\ f.seq = c.seq /\ f.ver = c.ver
    BY UnheldFacts DEF IInv, TypeInv, TypeOK
  <2>3. d = c
    BY <1>2, <2>1, <2>2, SMTT(30), Z3T(30) DEF IInv, DeletesInv
  <2> QED
    BY <2>1, <2>2, <2>3
<1> QED
  BY <1>1, <1>2 DEF IInv, DeletesInv

\* A DELETE whose sender gives up.
LEMMA AbandonDeleteStep ==
  ASSUME IInv, TypeInv', NEW i \in Instances, AbandonDelete(i)
  PROVE  IInv'
<1>1. /\ UNCHANGED <<manifest, mver, log, late, nver, hist, localVars, pubVars, resp>>
      /\ dels' = Unheld(i)
  BY DEF AbandonDelete, clientVars
<1>2. DeletesInv' /\ \A d \in dels' : d.ver < nver
  BY <1>1, UnheldDeletes DEF pubVars
<1>3. ViewsInv' /\ SegmentsInv' /\ AckedCommitted'
  BY <1>1 DEF IInv, ViewsInv, LocalOK, AttemptOK, SyncOwner, Past, Paired, SegmentsInv,
     ListedEntries, AckedCommitted, localVars, pubVars
<1>4. ClaimsInv'
  BY <1>1 DEF IInv, ClaimsInv, ClaimOK, LateOK, Holds, Appends, Listed, pubVars
<1>5. VersionsInv'
  BY <1>1, <1>2 DEF IInv, VersionsInv, Listed, pubVars
<1> QED
  BY <1>2, <1>3, <1>4, <1>5 DEF IInv, NoAmbiguity

-----------------------------------------------------------------------------
(* Crashing *)

\* A crash leaves a claim that can still commit, or none.
LEMMA CrashStep ==
  ASSUME IInv, TypeInv', NEW i \in Instances, Crash(i)
  PROVE  IInv'
<1>1. /\ UNCHANGED <<manifest, mver, log, nver, hist>> /\ ResetPublisher(i)
      /\ dels' = Unheld(i) /\ AnswerAll(Waiting(i), "error")
      /\ hm' = [hm EXCEPT ![i] = NewManifest] /\ hv' = [hv EXCEPT ![i] = 0]
      /\ sync' = [sync EXCEPT ![i] = NoSync]
      /\ \/ late' = late
         \/ pc[i] = "cas" /\ late' = late \cup {ManifestWrite(i)}
  BY DEF Crash
<1>2. PubFrame(i) /\ AttemptOK(i)' /\ ClaimOK(i)' /\ SlotKept(i)
  BY <1>1, ResetOK
<1>3. pc'[i] = "idle"
  BY <1>1 DEF IInv, TypeInv, TypeOK, ResetPublisher, PublisherTypeOK
<1>4. AckedCommitted'
  BY <1>1, AnswerAllAcked DEF IInv, TypeInv, TypeOK
<1>5. ViewsInv'
  <2>1. hm'[i] = NewManifest /\ hv'[i] = 0 /\ sync'[i] = NoSync /\ LocFrame(i)
    BY <1>1 DEF IInv, TypeInv, TypeOK, LocFrame, LocalTypeOK
  <2>2. Past(NewManifest) /\ Past(NoSync.m) /\ Paired(NoSync.m, NoSync.ver)
    BY FetchedOK DEF IInv, ViewsInv
  <2>3. Paired(NewManifest, 0)
    <3>1. mver \in Nat /\ mver > 0
      BY BucketFacts DEF IInv, TypeInv, TypeOK, ViewsInv
    <3> QED
      BY <3>1, SMTT(30), Z3T(30) DEF Paired
  <2>4. LocalOK(i)'
    BY <1>1, <2>1, <2>2, <2>3, SMTT(30), Z3T(30) DEF LocalOK, Past, Paired
  <2>5. SyncOwner(i)'
    <3>1. NoSync.by # "publisher"
      BY DEF NoSync
    <3> QED
      BY <2>1, <3>1 DEF SyncOwner
  <2> QED
    BY <1>1, <1>2, <2>1, <2>4, <2>5, SameViews DEF IInv, TypeInv, TypeOK
<1>6. \A j \in Instances : pc'[j] \in Holding =>
                              /\ j # i /\ pc[j] \in Holding /\ slot'[j] = slot[j]
  BY <1>2, <1>3 DEF PubFrame, Holding
<1>7. \A w \in late' : \/ w \in late
                       \/ pc[i] = "cas" /\ w = ManifestWrite(i) /\ w.slot = slot[i]
  <2>1. ManifestWrite(i).slot = slot[i]
    BY DEF ManifestWrite
  <2> QED
    BY <1>1, <2>1
<1>8. DeletesInv' /\ \A d \in dels' : d.ver < nver
  <2>1. \A w \in late' : \/ w \in late
                         \/ \E j \in Instances : pc[j] \in Holding /\ w.slot = slot[j]
    BY <1>7 DEF Holding
  <2> QED
    BY <1>1, <1>6, <2>1, UnheldDeletes
<1>9. ClaimsInv'
  <2>1. ASSUME NEW j \in Instances \ {i} PROVE ClaimOK(j)'
    BY <1>1, <1>2 DEF IInv, ClaimsInv, ClaimOK, Listed, Holds, PubFrame
  <2>2. ASSUME NEW w \in late PROVE LateOK(w)'
    BY <1>1 DEF IInv, ClaimsInv, LateOK, Holds, Appends
  <2>3. ASSUME pc[i] = "cas", NEW w, w = ManifestWrite(i) PROVE LateOK(w)'
    <3>1. /\ w.base = view[i].ver /\ w.m = UpdatedManifest(i) /\ w.slot = slot[i]
          /\ w.reqs = valid[i]
      BY <2>3 DEF ManifestWrite
    <3>2. view[i].ver <= mver
      BY DEF IInv, ViewsInv, AttemptOK, Paired
    <3>3. view[i].ver = mver => Holds(w.slot, w.reqs) /\ Appends(w.m, w.slot)
      BY <2>3, <3>1, UpdatedAppends
    <3> QED
      BY <1>1, <3>1, <3>2, <3>3 DEF LateOK, Holds, Appends
  <2> QED
    BY <1>2, <1>7, <2>1, <2>2, <2>3 DEF IInv, ClaimsInv
<1>10. VersionsInv'
  <2>1. \A j \in Instances : slot'[j].ver < nver
    BY <1>2 DEF IInv, PubFrame, SlotKept, VersionsInv
  <2>2. \A w \in late' : w.slot.ver < nver
    BY <1>7 DEF IInv, VersionsInv
  <2>3. \A j \in Instances, w \in late' : pc'[j] \in Holding => slot'[j].ver # w.slot.ver
    <3>1. pc[i] = "cas" => pc[i] \in Holding
      BY DEF Holding
    <3>2. ASSUME NEW j \in Instances, NEW w \in late', pc'[j] \in Holding
          PROVE  slot'[j].ver # w.slot.ver
      <4>1. j # i /\ pc[j] \in Holding /\ slot'[j] = slot[j]
        BY <1>6, <3>2
      <4>2. CASE w \in late
        BY <4>1, <4>2 DEF IInv, VersionsInv
      <4>3. CASE pc[i] = "cas" /\ w = ManifestWrite(i) /\ w.slot = slot[i]
        BY <3>1, <4>1, <4>3 DEF IInv, VersionsInv
      <4> QED
        BY <1>7, <4>2, <4>3
    <3> QED
      BY <3>2
  <2>4. \A j, k \in Instances : j # k /\ pc'[j] \in Holding /\ pc'[k] \in Holding
                                 => slot'[j].ver # slot'[k].ver
    BY <1>6 DEF IInv, VersionsInv
  <2>5. \A j \in Instances, o \in log' :
          pc'[j] \in Holding /\ o.ver = slot'[j].ver => ~Listed(o.seq)'
    BY <1>1, <1>6 DEF IInv, VersionsInv, Listed
  <2> QED
    BY <1>1, <1>8, <2>1, <2>2, <2>3, <2>4, <2>5 DEF IInv, VersionsInv
<1>11. SegmentsInv'
  BY <1>1 DEF IInv, SegmentsInv, ListedEntries
<1> QED
  BY <1>4, <1>5, <1>8, <1>9, <1>10, <1>11 DEF IInv, NoAmbiguity

-----------------------------------------------------------------------------
(* The steps that leave the log and the manifest alone *)

\* Clients leave the bucket alone.
LEMMA ClientQuiet ==
  ASSUME IInv, TypeInv', NEW i \in Instances, ClientStep(i)
  PROVE  IInv'
<1>1. BucketSame /\ UNCHANGED pubVars /\ UNCHANGED resp /\ UNCHANGED <<hm, hv>>
  BY DEF ClientStep, PublishPush, PublishPushSynced, StartRead, FinishRead, BucketSame,
     bucketVars, localVars
<1>2. AckedCommitted'
  BY <1>1 DEF IInv, AckedCommitted, BucketSame
<1>3. LocFrame(i) /\ LocalOK(i)' /\ SyncOwner(i)'
  <2>1. CASE UNCHANGED localVars
    BY <1>1, <2>1, SameLocal DEF BucketSame, IInv, ViewsInv, SyncOwner, localVars, pubVars
  <2>2. CASE StartRead(i)
    <3>1. LocFrame(i)
      BY <2>2 DEF StartRead, LocFrame, IInv, TypeInv, TypeOK, LocalTypeOK
    <3>2. sync'[i] = NoSync \/ sync'[i] = Fetched("reader")
      BY <2>2 DEF StartRead, IInv, TypeInv, TypeOK, LocalTypeOK
    <3>3. LocalOK(i)'
      BY <1>1, <3>2, FetchedOK DEF IInv, ViewsInv, LocalOK, Past, Paired, BucketSame
    <3>4. SyncOwner(i)'
      BY <3>2, SMTT(30), Z3T(30) DEF SyncOwner, NoSync, Fetched
    <3> QED
      BY <3>1, <3>3, <3>4
  <2> QED
    BY <2>1, <2>2 DEF ClientStep, PublishPush, PublishPushSynced, FinishRead
<1> QED
  BY <1>1, <1>2, <1>3, SamePublisher, QuietStep

\* apply_delta adopts the manifest together with its version, and a version alone
\* only for the manifest it belongs to.
LEMMA ApplyOK ==
  ASSUME IInv, NEW i \in Instances, Apply(i), UNCHANGED <<manifest, mver>>
  PROVE  /\ Past(hm[i])' /\ Paired(hm[i], hv[i])'
         /\ \A j \in Instances \ {i} : hm'[j] = hm[j] /\ hv'[j] = hv[j]
<1> DEFINE f == sync[i]
<1>1. /\ Past(hm[i]) /\ Paired(hm[i], hv[i]) /\ Past(f.m) /\ Paired(f.m, f.ver)
      /\ f.m \in Manifests /\ hm[i] \in Manifests /\ manifest \in Manifests
  BY DEF IInv, ViewsInv, LocalOK, TypeInv, TypeOK, LocalTypeOK, BucketTypeOK
<1>2. hm \in [Instances -> Manifests] /\ hv \in [Instances -> Nat]
  BY DEF IInv, TypeInv, TypeOK, LocalTypeOK
<1>3. CASE hm' = [hm EXCEPT ![i] = f.m] /\ hv' = [hv EXCEPT ![i] = f.ver]
  BY <1>1, <1>2, <1>3 DEF Past, Paired
<1>4. CASE UNCHANGED <<hm, hv>>
  BY <1>1, <1>4 DEF Past, Paired
<1>5. CASE f.m.rev = hm[i].rev /\ hv' = [hv EXCEPT ![i] = f.ver] /\ UNCHANGED hm
  <2>1. Paired(hm[i], f.ver)
    BY <1>1, <1>5 DEF Past, Paired
  <2> QED
    BY <1>1, <1>2, <1>5, <2>1 DEF Past, Paired
<1> QED
  BY <1>3, <1>4, <1>5 DEF Apply, Install

\* A sync adopts the manifest it fetched with its version.
LEMMA SyncQuiet ==
  ASSUME IInv, TypeInv', NEW i \in Instances, SyncStep(i)
  PROVE  IInv'
<1>1. CASE OpenRepo(i)
  <2>1. BucketSame /\ UNCHANGED pubVars /\ UNCHANGED resp /\ UNCHANGED <<hm, hv>>
    BY <1>1 DEF OpenRepo, BucketSame, bucketVars, clientVars
  <2>2. AckedCommitted'
    BY <2>1 DEF IInv, AckedCommitted, BucketSame
  <2>3. sync'[i] = Fetched("open")
    BY <1>1 DEF IInv, TypeInv, TypeOK, OpenRepo, LocalTypeOK
  <2>4. LocFrame(i)
    BY <1>1 DEF IInv, TypeInv, TypeOK, OpenRepo, LocFrame, LocalTypeOK
  <2>5. LocalOK(i)'
    BY <2>1, <2>3, FetchedOK DEF IInv, ViewsInv, LocalOK, Past, Paired, BucketSame
  <2>6. SyncOwner(i)'
    BY <2>3, SMTT(30), Z3T(30) DEF SyncOwner, Fetched
  <2> QED
    BY <2>1, <2>2, <2>4, <2>5, <2>6, SamePublisher, QuietStep
<1>2. CASE SyncDone(i)
  <2>1. BucketSame /\ UNCHANGED <<resp, valid, view, slot, burned, done>>
    BY <1>2 DEF SyncDone, BucketSame, bucketVars
  <2>2. AckedCommitted'
    BY <2>1 DEF IInv, AckedCommitted, BucketSame
  <2>3. LocFrame(i) /\ LocalOK(i)' /\ SyncOwner(i)'
    <3>1. /\ Past(hm[i])' /\ Paired(hm[i], hv[i])'
          /\ \A j \in Instances \ {i} : hm'[j] = hm[j] /\ hv'[j] = hv[j]
      BY <1>2, <2>1, ApplyOK DEF SyncDone, BucketSame
    <3>2. sync'[i] = NoSync /\ \A j \in Instances \ {i} : sync'[j] = sync[j]
      BY <1>2 DEF IInv, TypeInv, TypeOK, SyncDone, LocalTypeOK
    <3>3. Past(sync[i].m)' /\ Paired(sync[i].m, sync[i].ver)'
      BY <2>1, <3>2, FetchedOK DEF BucketSame, Past, Paired
    <3>4. LocFrame(i) /\ LocalOK(i)'
      BY <3>1, <3>2, <3>3 DEF LocFrame, LocalOK
    <3>5. SyncOwner(i)'
      BY <3>2, SMTT(30), Z3T(30) DEF SyncOwner, NoSync
    <3> QED
      BY <3>4, <3>5
  <2>4. pc'[i] = "verify" \/ pc'[i] = pc[i]
    BY <1>2 DEF IInv, TypeInv, TypeOK, SyncDone, PublisherTypeOK
  <2>5. PubFrame(i)
    BY <1>2 DEF IInv, TypeInv, TypeOK, SyncDone, PubFrame, PublisherTypeOK
  <2>6. AttemptOK(i)'
    BY <2>1, <2>4 DEF IInv, ViewsInv, AttemptOK, Past, Paired, BucketSame
  <2>7. sync[i].by = "publisher" => burned[i] = {}
    BY DEF IInv, ViewsInv, SyncOwner, ClaimsInv, ClaimOK
  <2>8. ClaimOK(i)'
    <3>1. \/ sync[i].by = "publisher" /\ pc'[i] = "verify"
          \/ pc'[i] = pc[i]
      BY <1>2 DEF IInv, TypeInv, TypeOK, SyncDone, PublisherTypeOK
    <3>2. CASE sync[i].by = "publisher" /\ pc'[i] = "verify"
      BY <2>1, <2>7, <3>2 DEF ClaimOK, Claiming, Committed
    <3>3. CASE pc'[i] = pc[i]
      BY <2>1, <3>3 DEF IInv, ClaimsInv, ClaimOK, Listed, Holds, BucketSame
    <3> QED
      BY <3>1, <3>2, <3>3
  <2>9. SlotKept(i)
    BY <2>1, <2>4 DEF IInv, VersionsInv, SlotKept, Holding
  <2> QED
    BY <2>1, <2>2, <2>3, <2>5, <2>6, <2>8, <2>9, QuietStep
<1>3. CASE SyncFailed(i)
  <2>1. BucketSame /\ UNCHANGED <<hm, hv>>
    BY <1>3 DEF SyncFailed, BucketSame, bucketVars
  <2>2. sync'[i] = NoSync /\ \A j \in Instances \ {i} : sync'[j] = sync[j]
    BY <1>3 DEF IInv, TypeInv, TypeOK, SyncFailed, LocalTypeOK
  <2>3. LocFrame(i)
    BY <2>1, <2>2 DEF LocFrame
  <2>4. LocalOK(i)' /\ SyncOwner(i)'
    <3>1. LocalOK(i)'
      BY <2>1, <2>2, FetchedOK DEF IInv, ViewsInv, LocalOK, Past, Paired, BucketSame
    <3>2. SyncOwner(i)'
      BY <2>2, SMTT(30), Z3T(30) DEF SyncOwner, NoSync
    <3> QED
      BY <3>1, <3>2
  <2>5. CASE FinishErrors(i)
    BY <2>1, <2>3, <2>4, <2>5, FinishQuiet
  <2>6. CASE UNCHANGED <<pubVars, resp>>
    <3>1. AckedCommitted'
      BY <2>1, <2>6 DEF IInv, AckedCommitted, BucketSame
    <3> QED
      BY <2>1, <2>3, <2>4, <2>6, <3>1, SamePublisher, QuietStep
  <2> QED
    BY <1>3, <2>5, <2>6 DEF SyncFailed
<1> QED
  BY <1>1, <1>2, <1>3 DEF SyncStep

\* A lost race starts the next attempt or answers.
LEMMA ContendedQuiet ==
  ASSUME IInv, TypeInv', NEW i \in Instances, pc[i] # "sync", BucketSame, UNCHANGED localVars,
         Contended(i)
  PROVE  IInv'
<1>1. CASE FinishErrors(i)
  BY <1>1, FinishPublisherQuiet
<1>2. CASE /\ pc' = [pc EXCEPT ![i] = "sync"]
           /\ slot' = [slot EXCEPT ![i] = NoSlot]
           /\ burned' = [burned EXCEPT ![i] = {}]
           /\ UNCHANGED <<batch, valid, view, done, clientVars>>
  <2>1. PubFrame(i)
    BY <1>2 DEF IInv, TypeInv, TypeOK, PubFrame, PublisherTypeOK
  <2>2. pc'[i] = "sync" /\ slot'[i] = NoSlot /\ burned'[i] = {}
    BY <1>2 DEF IInv, TypeInv, TypeOK, PublisherTypeOK
  <2>3. AttemptOK(i)'
    BY <1>2, <2>2 DEF IInv, ViewsInv, AttemptOK, Past, Paired, BucketSame
  <2>4. ClaimOK(i)'
    BY <2>2 DEF ClaimOK, Claiming, Committed
  <2>5. slot[i].ver \in Nat /\ slot[i].ver < nver /\ nver \in Nat
    BY DEF IInv, TypeInv, TypeOK, VersionsInv, PublisherTypeOK, BucketTypeOK, Slots
  <2>6. SlotKept(i)
    BY <2>2, <2>5, SMTT(30), Z3T(30) DEF SlotKept, NoSlot, Holding
  <2>7. AckedCommitted'
    BY <1>2 DEF IInv, AckedCommitted, BucketSame, clientVars
  <2> QED
    BY <2>1, <2>3, <2>4, <2>6, <2>7, PublisherQuiet
<1> QED
  BY <1>1, <1>2 DEF Contended

\* Steps of process_batch before the claim.
LEMMA TakeBatchQuiet ==
  ASSUME IInv, TypeInv', NEW i \in Instances, TakeBatch(i)
  PROVE  IInv'
<1>1. /\ BucketSame /\ UNCHANGED localVars /\ UNCHANGED <<valid, view, slot, burned, done, resp>>
      /\ pc[i] = "idle"
  BY DEF TakeBatch, BucketSame, bucketVars
<1>2. PICK q \in {"verify", "sync"} : pc' = [pc EXCEPT ![i] = q]
  BY DEF TakeBatch
<1>3. PubFrame(i) /\ pc'[i] = q
  BY <1>1, <1>2 DEF IInv, TypeInv, TypeOK, PubFrame, PublisherTypeOK
<1>4. AttemptOK(i)'
  BY <1>1, <1>3 DEF IInv, ViewsInv, AttemptOK, Past, Paired, BucketSame
<1>5. ClaimOK(i)'
  BY <1>1, <1>3 DEF IInv, ClaimsInv, ClaimOK, Claiming, Committed
<1>6. SlotKept(i)
  BY <1>1, <1>3 DEF IInv, VersionsInv, SlotKept, Holding
<1>7. AckedCommitted'
  BY <1>1 DEF IInv, AckedCommitted, BucketSame
<1> QED
  BY <1>1, <1>3, <1>4, <1>5, <1>6, <1>7, PublisherQuiet

\* The sync of a publisher.
LEMMA PublisherSyncQuiet ==
  ASSUME IInv, TypeInv', NEW i \in Instances, PublisherSync(i)
  PROVE  IInv'
<1>1. /\ BucketSame /\ UNCHANGED <<hm, hv, valid, view, slot, burned, done, resp>>
      /\ pc[i] = "sync"
  BY DEF PublisherSync, BucketSame, bucketVars, clientVars
<1>2. \/ pc' = [pc EXCEPT ![i] = "verify"] /\ sync' = [sync EXCEPT ![i] = NoSync]
      \/ pc' = [pc EXCEPT ![i] = "sync"] /\ sync' = [sync EXCEPT ![i] = Fetched("publisher")]
  BY DEF PublisherSync
<1>3. \/ pc'[i] = "verify" /\ sync'[i] = NoSync
      \/ pc'[i] = "sync" /\ sync'[i] = Fetched("publisher")
  BY <1>2 DEF IInv, TypeInv, TypeOK, PublisherTypeOK, LocalTypeOK
<1>4. PubFrame(i) /\ LocFrame(i)
  <2>1. PubFrame(i)
    BY <1>1, <1>2 DEF IInv, TypeInv, TypeOK, PubFrame, PublisherTypeOK
  <2>2. LocFrame(i)
    BY <1>1, <1>2 DEF IInv, TypeInv, TypeOK, LocFrame, LocalTypeOK
  <2> QED
    BY <2>1, <2>2
<1>5. LocalOK(i)'
  BY <1>1, <1>3, FetchedOK DEF IInv, ViewsInv, LocalOK, Past, Paired, BucketSame
<1>6. SyncOwner(i)'
  <2>1. NoSync.by # "publisher"
    BY DEF NoSync
  <2> QED
    BY <1>3, <2>1 DEF SyncOwner
<1>7. AttemptOK(i)'
  BY <1>1, <1>3 DEF IInv, ViewsInv, AttemptOK, Past, Paired, BucketSame
<1>8. ClaimOK(i)'
  BY <1>1, <1>3 DEF IInv, ClaimsInv, ClaimOK, Claiming, Committed
<1>9. SlotKept(i)
  BY <1>1, <1>3 DEF IInv, VersionsInv, SlotKept, Holding
<1>10. AckedCommitted'
  BY <1>1 DEF IInv, AckedCommitted, BucketSame
<1> QED
  BY <1>1, <1>4, <1>5, <1>6, <1>7, <1>8, <1>9, <1>10, QuietStep

\* Verification takes manifest and version together.
LEMMA VerifyBatchQuiet ==
  ASSUME IInv, TypeInv', NEW i \in Instances, VerifyBatch(i)
  PROVE  IInv'
<1>1. BucketSame /\ UNCHANGED localVars /\ pc[i] = "verify"
  BY DEF VerifyBatch, BucketSame, bucketVars
<1>2. CASE ResetPublisher(i) /\ AnswerAll(Elements(batch[i]), "rejected")
  <2>1. PubFrame(i) /\ AttemptOK(i)' /\ ClaimOK(i)' /\ SlotKept(i)
    BY <1>1, <1>2, ResetOK DEF BucketSame
  <2>2. AckedCommitted'
    BY <1>1, <1>2, AnswerAllAcked DEF IInv, TypeInv, TypeOK, BucketSame
  <2> QED
    BY <1>1, <2>1, <2>2, PublisherQuiet
<1>3. CASE \E v \in Batches :
             /\ valid' = [valid EXCEPT ![i] = v]
             /\ view' = [view EXCEPT ![i] = [m |-> hm[i], ver |-> hv[i]]]
             /\ slot' = [slot EXCEPT ![i] = [seq |-> hm[i].head + 1, ver |-> 0]]
             /\ pc' = [pc EXCEPT ![i] = "claim"]
             /\ UNCHANGED <<burned, done, clientVars>>
  <2>1. PubFrame(i)
    BY <1>3 DEF IInv, TypeInv, TypeOK, PubFrame, PublisherTypeOK
  <2>2. /\ view'[i] = [m |-> hm[i], ver |-> hv[i]]
        /\ slot'[i] = [seq |-> hm[i].head + 1, ver |-> 0] /\ pc'[i] = "claim"
        /\ burned'[i] = {} /\ done'[i] = done[i]
    BY <1>1, <1>3 DEF IInv, TypeInv, TypeOK, PublisherTypeOK, ClaimsInv, ClaimOK
  <2>3. AttemptOK(i)'
    <3>1. Past(hm[i]) /\ Paired(hm[i], hv[i]) /\ Past(done[i].m) /\ Paired(done[i].m, done[i].ver)
      BY DEF IInv, ViewsInv, LocalOK, AttemptOK
    <3>2. view'[i].m = hm[i] /\ view'[i].ver = hv[i]
      BY <2>2, SMTT(30), Z3T(30)
    <3> QED
      BY <1>1, <2>2, <3>1, <3>2 DEF AttemptOK, Past, Paired, BucketSame
  <2>4. hm[i].head \in Nat
    BY DEF IInv, TypeInv, TypeOK, LocalTypeOK, Manifests
  <2>5. ClaimOK(i)'
    BY <2>2, <2>4, SMTT(30), Z3T(30) DEF ClaimOK, Claiming, Committed
  <2>6. slot'[i].ver = 0 /\ 0 < nver
    <3>1. slot'[i].ver = 0
      BY <2>2, SMTT(30), Z3T(30)
    <3> QED
      BY <3>1, VersionsStarted DEF IInv, TypeInv, TypeOK
  <2>7. SlotKept(i)
    BY <2>2, <2>6 DEF SlotKept, Holding
  <2>8. AckedCommitted'
    BY <1>1, <1>3 DEF IInv, AckedCommitted, BucketSame, clientVars
  <2> QED
    BY <1>1, <2>1, <2>3, <2>5, <2>7, <2>8, PublisherQuiet
<1> QED
  BY <1>2, <1>3 DEF VerifyBatch

\* Steps of claim_log_slot that create nothing.
LEMMA ProbeQuiet ==
  ASSUME IInv, TypeInv', NEW i \in Instances,
         ProbeManifest(i) \/ ProbeHead(i) \/ ProbeFailed(i)
  PROVE  IInv'
<1>1. /\ BucketSame /\ UNCHANGED localVars /\ pc[i] \in {"probe", "probehead"}
  BY DEF IInv, ProbeManifest, ProbeHead, ProbeFailed, BucketSame, bucketVars, ViewsInv,
     AttemptOK
<1>2. CASE FinishErrors(i)
  BY <1>1, <1>2, FinishPublisherQuiet
<1>3. CASE Contended(i)
  BY <1>1, <1>3, ContendedQuiet
<1>4. CASE /\ \E q \in Claiming : pc' = [pc EXCEPT ![i] = q]
           /\ UNCHANGED <<valid, view, slot, burned, done, clientVars>>
  <2>1. PubFrame(i)
    BY <1>4 DEF IInv, TypeInv, TypeOK, PubFrame, PublisherTypeOK
  <2>2. pc'[i] \in Claiming
    BY <1>4 DEF IInv, TypeInv, TypeOK, PublisherTypeOK
  <2>3. AttemptOK(i)'
    BY <1>1, <1>4, <2>2 DEF IInv, ViewsInv, AttemptOK, Past, Paired, BucketSame, Claiming
  <2>4. ClaimOK(i)'
    BY <1>1, <1>4, <2>2 DEF IInv, ClaimsInv, ClaimOK, Claiming, Committed
  <2>5. SlotKept(i)
    BY <1>4, <2>2 DEF IInv, VersionsInv, SlotKept, Holding, Claiming
  <2>6. AckedCommitted'
    BY <1>1, <1>4 DEF IInv, AckedCommitted, BucketSame, clientVars
  <2> QED
    BY <1>1, <2>1, <2>3, <2>4, <2>5, <2>6, PublisherQuiet
<1>5. ASSUME NEW o \in ObjectAt(slot[i].seq),
             burned' = [burned EXCEPT ![i] = @ \cup {[seq |-> o.seq, ver |-> o.ver]}],
             slot' = [slot EXCEPT ![i] = [seq |-> o.seq + 1, ver |-> 0]],
             pc' = [pc EXCEPT ![i] = "claim"],
             UNCHANGED <<valid, view, done, clientVars>>
      PROVE  IInv'
  <2>1. PubFrame(i)
    BY <1>5 DEF IInv, TypeInv, TypeOK, PubFrame, PublisherTypeOK
  <2>2. /\ pc'[i] = "claim" /\ slot'[i] = [seq |-> o.seq + 1, ver |-> 0]
        /\ burned'[i] = burned[i] \cup {[seq |-> o.seq, ver |-> o.ver]}
    BY <1>5 DEF IInv, TypeInv, TypeOK, PublisherTypeOK
  <2>3. AttemptOK(i)'
    BY <1>1, <1>5, <2>2 DEF IInv, ViewsInv, AttemptOK, Past, Paired, BucketSame
  <2>4. ClaimOK(i)'
    <3>1. o.seq = slot[i].seq /\ o.seq \in Nat /\ view[i].m.head \in Nat
      BY DEF IInv, TypeInv, TypeOK, ObjectAt, BucketTypeOK, LogObjects, PublisherTypeOK,
         Manifests
    <3>2. /\ slot[i].seq > view[i].m.head
          /\ \A b \in burned[i] : view[i].m.head < b.seq /\ b.seq < slot[i].seq
      BY <1>1 DEF IInv, ClaimsInv, ClaimOK, Claiming
    <3>3. \A b \in burned[i] : b.seq \in Nat
      <4>1. burned[i] \in SUBSET Slots
        BY DEF IInv, TypeInv, TypeOK, PublisherTypeOK
      <4> QED
        BY <4>1 DEF Slots
    <3>4. ASSUME NEW b \in burned'[i] PROVE view[i].m.head < b.seq /\ b.seq < o.seq + 1
      <4>1. CASE b \in burned[i]
        BY <3>1, <3>2, <3>3, <4>1, Above
      <4>2. CASE b.seq = o.seq
        BY <3>1, <3>2, <4>2, Later, Ordered
      <4> QED
        BY <2>2, <4>1, <4>2, SMTT(30), Z3T(30)
    <3>5. slot'[i].seq = o.seq + 1 /\ view'[i] = view[i]
      BY <1>5, <2>2, SMTT(30), Z3T(30)
    <3> QED
      <4>1. slot'[i].seq > view'[i].m.head
        BY <3>1, <3>2, <3>5, SMTT(30), Z3T(30)
      <4>2. \A b \in burned'[i] : view'[i].m.head < b.seq /\ b.seq < slot'[i].seq
        BY <3>4, <3>5
      <4> QED
        BY <2>2, <4>1, <4>2 DEF ClaimOK, Committed
  <2>5. slot'[i].ver = 0 /\ 0 < nver
    <3>1. slot'[i].ver = 0
      BY <2>2, SMTT(30), Z3T(30)
    <3> QED
      BY <3>1, VersionsStarted DEF IInv, TypeInv, TypeOK
  <2>6. SlotKept(i)
    BY <2>2, <2>5 DEF SlotKept, Holding
  <2>7. AckedCommitted'
    BY <1>1, <1>5 DEF IInv, AckedCommitted, BucketSame, clientVars
  <2> QED
    BY <1>1, <2>1, <2>3, <2>4, <2>6, <2>7, PublisherQuiet
<1>6. CASE ProbeManifest(i)
  BY <1>3, <1>4, <1>6 DEF ProbeManifest, Claiming
<1>7. CASE ProbeHead(i)
  BY <1>2, <1>4, <1>5, <1>7 DEF ProbeHead, Claiming
<1>8. CASE ProbeFailed(i)
  BY <1>2, <1>8 DEF ProbeFailed
<1> QED
  BY <1>6, <1>7, <1>8

\* The bucket refuses the manifest write: the segment is still the instance's own.
LEMMA CommitRefusedQuiet ==
  ASSUME IInv, TypeInv', NEW i \in Instances, CommitRefused(i)
  PROVE  IInv'
<1>1. /\ BucketSame /\ UNCHANGED localVars /\ pc[i] = "cas"
      /\ pc' = [pc EXCEPT ![i] = "drop"]
      /\ UNCHANGED <<valid, view, slot, burned, done, resp>>
  BY DEF CommitRefused, BucketSame, bucketVars, clientVars
<1>2. PubFrame(i) /\ pc'[i] = "drop"
  BY <1>1 DEF IInv, TypeInv, TypeOK, PubFrame, PublisherTypeOK
<1>3. AttemptOK(i)'
  BY <1>1, <1>2 DEF IInv, ViewsInv, AttemptOK, Past, Paired, BucketSame
<1>4. ClaimOK(i)'
  BY <1>2 DEF ClaimOK, Claiming, Committed
<1>5. SlotKept(i)
  BY <1>1, <1>2 DEF IInv, VersionsInv, SlotKept, Holding
<1>6. AckedCommitted'
  BY <1>1 DEF IInv, AckedCommitted, BucketSame
<1> QED
  BY <1>1, <1>2, <1>3, <1>4, <1>5, <1>6, PublisherQuiet

\* Steps after the commit.
LEMMA MarkPendingQuiet ==
  ASSUME IInv, TypeInv', NEW i \in Instances, MarkPending(i)
  PROVE  IInv'
<1>1. /\ BucketSame /\ UNCHANGED localVars /\ pc[i] = "mark" /\ done[i].ver # 0
      /\ UNCHANGED <<valid, view, slot, burned, done, resp>>
  BY DEF IInv, MarkPending, BucketSame, clientVars, ViewsInv, AttemptOK
<1>2. pc' = [pc EXCEPT ![i] = "local"]
  BY <1>1 DEF MarkPending
<1>3. PubFrame(i) /\ pc'[i] = "local"
  BY <1>1, <1>2 DEF IInv, TypeInv, TypeOK, PubFrame, PublisherTypeOK
<1>4. AttemptOK(i)'
  BY <1>1, <1>3 DEF IInv, ViewsInv, AttemptOK, Past, Paired, BucketSame
<1>5. ClaimOK(i)'
  BY <1>1, <1>3 DEF IInv, ClaimsInv, ClaimOK, Claiming, Committed, Listed, BucketSame
<1>6. SlotKept(i)
  BY <1>1, <1>3 DEF IInv, VersionsInv, SlotKept, Holding
<1>7. AckedCommitted'
  BY <1>1 DEF IInv, AckedCommitted, BucketSame
<1> QED
  BY <1>1, <1>3, <1>4, <1>5, <1>6, <1>7, PublisherQuiet

\* The local install of a commit.
LEMMA CommitLocalQuiet ==
  ASSUME IInv, TypeInv', NEW i \in Instances, CommitLocal(i)
  PROVE  IInv'
<1>1. /\ BucketSame /\ pc[i] = "local" /\ pc' = [pc EXCEPT ![i] = "sweep"]
      /\ UNCHANGED <<sync, valid, view, slot, burned, done, resp>>
  BY DEF CommitLocal, BucketSame, bucketVars, clientVars
<1>2. PubFrame(i) /\ pc'[i] = "sweep"
  BY <1>1 DEF IInv, TypeInv, TypeOK, PubFrame, PublisherTypeOK
<1>3. \/ hm' = [hm EXCEPT ![i] = done[i].m] /\ hv' = [hv EXCEPT ![i] = done[i].ver]
      \/ hm' = hm /\ hv' = [hv EXCEPT ![i] = 0]
  BY DEF CommitLocal, InstallCommit, ForgetVersion
<1>4. \/ hm'[i] = done[i].m /\ hv'[i] = done[i].ver
      \/ hm'[i] = hm[i] /\ hv'[i] = 0
  BY <1>3 DEF IInv, TypeInv, TypeOK, LocalTypeOK
<1>5. LocFrame(i)
  BY <1>1, <1>3 DEF IInv, TypeInv, TypeOK, LocFrame, LocalTypeOK
<1>6. LocalOK(i)'
  <2>1. /\ Past(done[i].m) /\ Paired(done[i].m, done[i].ver) /\ Past(hm[i])
        /\ Past(sync[i].m) /\ Paired(sync[i].m, sync[i].ver)
    BY DEF IInv, ViewsInv, LocalOK, AttemptOK
  <2>2. Paired(hm[i], 0)
    <3>1. mver \in Nat /\ mver > 0
      BY DEF IInv, TypeInv, TypeOK, ViewsInv, BucketTypeOK
    <3> QED
      BY <3>1, SMTT(30), Z3T(30) DEF Paired
  <2> QED
    BY <1>1, <1>4, <2>1, <2>2 DEF LocalOK, Past, Paired, BucketSame
<1>7. SyncOwner(i)'
  BY <1>1 DEF IInv, ViewsInv, SyncOwner
<1>8. AttemptOK(i)'
  BY <1>1, <1>2 DEF IInv, ViewsInv, AttemptOK, Past, Paired, BucketSame
<1>9. ClaimOK(i)'
  BY <1>1, <1>2 DEF IInv, ClaimsInv, ClaimOK, Claiming, Committed, Listed, BucketSame
<1>10. SlotKept(i)
  BY <1>1, <1>2 DEF IInv, VersionsInv, SlotKept, Holding
<1>11. AckedCommitted'
  BY <1>1 DEF IInv, AckedCommitted, BucketSame
<1> QED
  BY <1>1, <1>2, <1>5, <1>6, <1>7, <1>8, <1>9, <1>10, <1>11, QuietStep

\* The answer names the seqs the batch was committed at.
LEMMA RespondQuiet ==
  ASSUME IInv, TypeInv', NEW i \in Instances, Respond(i)
  PROVE  IInv'
<1>1. BucketSame /\ UNCHANGED localVars /\ pc[i] = "sweep" /\ resp' = Answers(i)
  BY DEF Respond, BucketSame, bucketVars
<1>2. PubFrame(i) /\ AttemptOK(i)' /\ ClaimOK(i)' /\ SlotKept(i)
  BY <1>1, ResetOK DEF Respond, BucketSame
<1>3. EntriesAt(slot[i].seq, valid[i]) \subseteq hist /\ DOMAIN valid[i] = 1..Len(valid[i])
  BY <1>1, BatchFacts DEF IInv, TypeInv, TypeOK, ClaimsInv, ClaimOK, Committed,
     PublisherTypeOK
<1>4. ASSUME NEW r \in Requests, resp'[r].kind = "ok"
      PROVE  [seq |-> resp'[r].seq, req |-> r] \in hist
  <2>1. CASE \E k \in DOMAIN valid[i] : valid[i][k] = r
    <3> DEFINE K == CHOOSE k \in DOMAIN valid[i] : valid[i][k] = r
    <3>1. K \in 1..Len(valid[i]) /\ valid[i][K] = r
      BY <1>3, <2>1
    <3>2. resp'[r].seq = slot[i].seq + K - 1
      BY <1>1, <2>1 DEF Answers
    <3> HIDE DEF K
    <3> QED
      BY <1>3, <3>1, <3>2 DEF EntriesAt
  <2>2. CASE ~\E k \in DOMAIN valid[i] : valid[i][k] = r
    BY <1>1, <1>4, <2>2 DEF IInv, Answers, AckedCommitted
  <2> QED
    BY <2>1, <2>2
<1>5. AckedCommitted'
  BY <1>1, <1>4 DEF IInv, AckedCommitted, BucketSame
<1> QED
  BY <1>1, <1>2, <1>5, PublisherQuiet

\* The retry after a refused CAS.
LEMMA RetryAfterDropQuiet ==
  ASSUME IInv, TypeInv', NEW i \in Instances, RetryAfterDrop(i)
  PROVE  IInv'
<1>1. BucketSame /\ UNCHANGED localVars /\ pc[i] = "dropped" /\ Contended(i)
  BY DEF RetryAfterDrop, BucketSame, bucketVars
<1> QED
  BY <1>1, ContendedQuiet

-----------------------------------------------------------------------------
(* The invariant *)

\* The invariant holds of a new repository.
LEMMA DurableInit == NoAmbiguity /\ Init => IInv
<1> SUFFICES ASSUME NoAmbiguity, Init PROVE IInv
  BY SMTT(30), Z3T(30)
<1>1. TypeInv
  BY TypeInit
<1>2. ViewsInv
  <2>1. NewManifest.rev \in Nat
    BY DEF NewManifest
  <2>2. Past(NewManifest) /\ Paired(NewManifest, 0) /\ Paired(NewManifest, 1)
    <3>1. manifest = NewManifest /\ mver = 1
      BY DEF Init
    <3> QED
      BY <2>1, <3>1, SMTT(30), Z3T(30) DEF Past, Paired
  <2>3. ASSUME NEW i \in Instances
        PROVE  /\ hm[i] = NewManifest /\ hv[i] = 1 /\ sync[i] = NoSync /\ pc[i] = "idle"
               /\ view[i] = NoView /\ done[i] = NoView
    BY DEF Init
  <2>4. ASSUME NEW i \in Instances PROVE LocalOK(i) /\ AttemptOK(i) /\ SyncOwner(i)
    BY <2>2, <2>3, SMTT(30), Z3T(30) DEF LocalOK, AttemptOK, SyncOwner, NoSync, NoView
  <2> QED
    BY <2>2, <2>4, SMTT(30), Z3T(30) DEF Init, ViewsInv
<1>3. VersionsInv
  <2>1. nver = 1 /\ log = {} /\ late = {} /\ dels = {}
    BY DEF Init
  <2>2. ASSUME NEW i \in Instances PROVE slot[i].ver = 0 /\ pc[i] \notin Holding
    BY DEF Init, NoSlot, Holding
  <2>3. 0 < 1
    BY SMTT(30), Z3T(30)
  <2> QED
    BY <2>1, <2>2, <2>3 DEF VersionsInv
<1>4. ClaimsInv
  BY DEF Init, ClaimsInv, ClaimOK, Claiming, Committed
<1>5. DeletesInv /\ SegmentsInv
  BY DEF Init, DeletesInv, SegmentsInv, ListedEntries, NewManifest
<1>6. AckedCommitted
  BY DEF Init, AckedCommitted, NoAnswer
<1> QED
  BY <1>1, <1>2, <1>3, <1>4, <1>5, <1>6 DEF IInv

\* Every step of a publisher.
LEMMA PublisherDurable ==
  ASSUME IInv, TypeInv', NEW i \in Instances, PublisherStep(i)
  PROVE  IInv'
<1>1. CASE TakeBatch(i) \/ PublisherSync(i) \/ VerifyBatch(i)
  BY <1>1, TakeBatchQuiet, PublisherSyncQuiet, VerifyBatchQuiet
<1>2. CASE ClaimLogSlot(i) \/ ClaimFailed(i)
  BY <1>2, ClaimLogSlotStep, ClaimFailedStep
<1>3. CASE ProbeManifest(i) \/ ProbeHead(i) \/ ProbeFailed(i)
  BY <1>3, ProbeQuiet
<1>4. CASE CommitManifest(i) \/ CommitRefused(i)
  BY <1>4, CommitManifestStep, CommitRefusedQuiet
<1>5. CASE CommitLost(i) \/ CasLanded(i) \/ RecoverManifestVersion(i)
  BY <1>5, NothingLost
<1>6. CASE MarkPending(i) \/ CommitLocal(i) \/ Respond(i)
  BY <1>6, MarkPendingQuiet, CommitLocalQuiet, RespondQuiet
<1>7. CASE SweepBurned(i) \/ DropOwnSlot(i) \/ RetryAfterDrop(i) \/ AbandonDelete(i)
  BY <1>7, SweepBurnedStep, DropOwnSlotStep, RetryAfterDropQuiet, AbandonDeleteStep
<1> QED
  BY <1>1, <1>2, <1>3, <1>4, <1>5, <1>6, <1>7 DEF PublisherStep

\* Every step preserves the invariant.
LEMMA DurableStep == IInv /\ TypeInv' /\ [Next]_vars => IInv'
<1> SUFFICES ASSUME IInv, TypeInv', [Next]_vars PROVE IInv'
  BY SMTT(30), Z3T(30)
<1>1. ASSUME NEW i \in Instances, ClientStep(i) \/ SyncStep(i) \/ PublisherStep(i) \/ Crash(i)
      PROVE  IInv'
  BY <1>1, ClientQuiet, SyncQuiet, PublisherDurable, CrashStep
<1>2. CASE LandDelete \/ LandManifest
  BY <1>2, LandDeleteStep, LandManifestStep
<1>3. CASE UNCHANGED vars
  <2>1. /\ UNCHANGED <<manifest, mver, log, late, dels, nver, hist, hm, hv, sync, pc, valid, view>>
        /\ UNCHANGED <<slot, burned, done, resp>>
    BY <1>3 DEF vars, bucketVars, localVars, pubVars, clientVars
  <2>2. ViewsInv' /\ SegmentsInv' /\ AckedCommitted'
    BY <2>1 DEF IInv, ViewsInv, LocalOK, AttemptOK, SyncOwner, Past, Paired, SegmentsInv,
       ListedEntries, AckedCommitted
  <2>3. ClaimsInv'
    BY <2>1 DEF IInv, ClaimsInv, ClaimOK, LateOK, Holds, Appends, Listed
  <2>4. VersionsInv'
    BY <2>1 DEF IInv, VersionsInv, Listed
  <2>5. DeletesInv'
    BY <2>1 DEF IInv, DeletesInv, Listed
  <2> QED
    BY <2>2, <2>3, <2>4, <2>5 DEF IInv, NoAmbiguity
<1> QED
  BY <1>1, <1>2, <1>3 DEF Next

-----------------------------------------------------------------------------
(* What the manifest lists *)

\* The current manifest and the initial one are both prefixes of the current one.
LEMMA PrefixFacts ==
  ASSUME IInv, ListingInv
  PROVE  Prefix(manifest) /\ Prefix(NewManifest)
<1>1. manifest.head \in Nat /\ manifest \in Manifests
  BY BucketFacts DEF IInv, TypeInv, TypeOK
<1>2. Prefix(manifest)
  <2>1. manifest.head <= manifest.head
    BY <1>1, SMTT(30), Z3T(30)
  <2>2. \A g \in manifest.segs : g.first <= manifest.head
    BY DEF IInv, SegmentsInv
  <2> QED
    BY <2>1, <2>2 DEF Prefix
<1>3. Prefix(NewManifest)
  <2>1. NewManifest.head = 0 /\ NewManifest.segs = {}
    BY DEF NewManifest
  <2>2. \A g \in manifest.segs : g.first > 0 /\ g.first \in Nat
    BY <1>1 DEF ListingInv, Manifests, Segments
  <2>3. \A g \in manifest.segs : ~(g.first <= 0)
    BY <2>2, SMTT(30), Z3T(30)
  <2>4. 0 <= manifest.head
    BY <1>1, SMTT(30), Z3T(30)
  <2> QED
    BY <2>1, <2>3, <2>4 DEF Prefix
<1> QED
  BY <1>2, <1>3

\* The manifest stays, and no object takes the place of a listed one.
LEMMA QuietListing ==
  ASSUME IInv, ListingInv, UNCHANGED <<manifest, snaps>>,
         \A o \in log' : o \in log \/ ~Listed(o.seq),
         \A i \in Instances : sync'[i].m \in {sync[i].m, manifest, NewManifest}
  PROVE  ListingInv'
<1>1. \A i \in Instances : Prefix(sync[i].m)'
  BY PrefixFacts DEF ListingInv, Prefix
<1>2. \A o \in log', g \in manifest.segs : o.seq = g.first => g.last = o.seq + Len(o.reqs) - 1
  BY DEF ListingInv, Listed
<1> QED
  BY <1>1, <1>2 DEF ListingInv

\* A commit lists the segment it wrote.
LEMMA AppendListing ==
  ASSUME IInv, ListingInv, NEW m \in Manifests, NEW s \in Slots, NEW reqs \in Batches,
         Appends(m, s), Holds(s, reqs), m.head = s.seq + Len(reqs) - 1,
         manifest' = m, UNCHANGED <<snaps, log, sync>>
  PROVE  ListingInv'
<1>1. manifest.head \in Nat /\ manifest \in Manifests /\ s.seq \in Nat /\ m.head \in Nat
  BY BucketFacts DEF IInv, TypeInv, TypeOK, Slots, Manifests
<1>2. PICK n : n = [first |-> s.seq, last |-> m.head]
  OBVIOUS
<1>3. /\ m.segs = manifest.segs \cup {n} /\ n.first = s.seq /\ n.last = m.head
      /\ s.seq > manifest.head /\ m.head >= s.seq
  BY <1>2 DEF Appends
<1>4. s.seq > 0 /\ manifest.head <= m.head
  BY <1>1, <1>3, SMTT(30), Z3T(30)
<1>5. \A g \in manifest'.segs : g.first > 0
  BY <1>3, <1>4 DEF ListingInv
<1>6. ASSUME NEW o \in log, NEW g \in m.segs, o.seq = g.first PROVE g.last = o.seq + Len(o.reqs) - 1
  <2>1. CASE g \in manifest.segs
    BY <1>6, <2>1 DEF ListingInv
  <2>2. CASE g = n
    <3>1. PICK p \in log : p = [seq |-> s.seq, ver |-> s.ver, reqs |-> reqs]
      BY DEF Holds
    <3>2. p.seq = s.seq /\ p.reqs = reqs
      BY <3>1
    <3>3. o = p
      BY <1>3, <1>6, <2>2, <3>2 DEF IInv, VersionsInv
    <3> QED
      BY <1>3, <2>2, <3>2, <3>3
  <2> QED
    BY <1>3, <1>6, <2>1, <2>2
<1>7. ASSUME NEW i \in Instances PROVE Prefix(sync[i].m)'
  <2>1. /\ sync[i].m.head <= manifest.head
        /\ sync[i].m.segs = {g \in manifest.segs : g.first <= sync[i].m.head}
    BY DEF ListingInv, Prefix
  <2>2. sync[i].m.head \in Nat
    BY DEF IInv, TypeInv, TypeOK, LocalTypeOK, Manifests
  <2>3. sync[i].m.head <= m.head /\ ~(s.seq <= sync[i].m.head)
    BY <1>1, <1>3, <1>4, <2>1, <2>2, SMTT(30), Z3T(30)
  <2>4. sync[i].m.segs = {g \in m.segs : g.first <= sync[i].m.head}
    BY <1>3, <2>1, <2>3
  <2> QED
    BY <2>3, <2>4 DEF Prefix
<1> QED
  BY <1>5, <1>6, <1>7 DEF ListingInv

\* Who writes what: the bucket and the syncs under way.
LEMMA ListingFrame ==
  ASSUME NEW i \in Instances,
         ClientStep(i) \/ SyncStep(i) \/ PublisherStep(i) \/ Crash(i),
         ~CommitManifest(i), ~ClaimLogSlot(i), ~ClaimFailed(i)
  PROVE  UNCHANGED <<manifest, snaps, log>>
<1>1. CASE ClientStep(i)
  BY <1>1 DEF ClientStep, PublishPush, PublishPushSynced, StartRead, FinishRead, bucketVars
<1>2. CASE SyncStep(i)
  BY <1>2 DEF SyncStep, OpenRepo, SyncDone, SyncFailed, bucketVars
<1>3. CASE TakeBatch(i) \/ PublisherSync(i) \/ VerifyBatch(i)
  BY <1>3 DEF TakeBatch, PublisherSync, VerifyBatch, bucketVars
<1>4. CASE ProbeManifest(i) \/ ProbeHead(i) \/ ProbeFailed(i) \/ CommitRefused(i)
  BY <1>4 DEF ProbeManifest, ProbeHead, ProbeFailed, CommitRefused, bucketVars
<1>5. CASE CommitLost(i) \/ CasLanded(i) \/ MarkPending(i) \/ RecoverManifestVersion(i)
  BY <1>5 DEF CommitLost, CasLanded, MarkPending, RecoverManifestVersion, bucketVars
<1>6. CASE CommitLocal(i) \/ SweepBurned(i) \/ Respond(i) \/ DropOwnSlot(i)
  BY <1>6 DEF CommitLocal, SweepBurned, Respond, DropOwnSlot, bucketVars
<1>7. CASE RetryAfterDrop(i) \/ AbandonDelete(i) \/ Crash(i)
  BY <1>7 DEF RetryAfterDrop, AbandonDelete, Crash, bucketVars
<1> QED
  BY <1>1, <1>2, <1>3, <1>4, <1>5, <1>6, <1>7 DEF PublisherStep

\* A sync reads the current manifest or starts from an empty one.
LEMMA SyncFrame ==
  ASSUME TypeInv, NEW i \in Instances,
         ClientStep(i) \/ SyncStep(i) \/ PublisherStep(i) \/ Crash(i)
  PROVE  \A j \in Instances : sync'[j].m \in {sync[j].m, manifest, NewManifest}
<1>1. CASE UNCHANGED sync
  BY <1>1
<1>2. ASSUME NEW x, sync' = [sync EXCEPT ![i] = x], x.m \in {manifest, NewManifest}
      PROVE  \A j \in Instances : sync'[j].m \in {sync[j].m, manifest, NewManifest}
  BY <1>2 DEF TypeInv, TypeOK, LocalTypeOK
<1>3. NoSync.m = NewManifest /\ \A who : Fetched(who).m = manifest
  BY DEF NoSync, Fetched
<1>4. CASE ClientStep(i)
  <2>1. CASE StartRead(i)
    <3>1. PICK x : /\ x = IF hv[i] = mver THEN NoSync ELSE Fetched("reader")
                   /\ sync' = [sync EXCEPT ![i] = x]
      BY <2>1 DEF StartRead
    <3> QED
      BY <1>2, <1>3, <3>1
  <2> QED
    BY <1>1, <1>4, <2>1 DEF ClientStep, PublishPush, PublishPushSynced, FinishRead, localVars
<1>5. CASE SyncStep(i)
  <2>1. CASE OpenRepo(i)
    BY <1>2, <1>3, <2>1 DEF OpenRepo
  <2>2. CASE SyncDone(i) \/ SyncFailed(i)
    BY <1>2, <1>3, <2>2 DEF SyncDone, SyncFailed
  <2> QED
    BY <1>5, <2>1, <2>2 DEF SyncStep
<1>6. CASE Crash(i)
  BY <1>2, <1>3, <1>6 DEF Crash
<1>7. CASE PublisherSync(i)
  <2>1. PICK x : /\ x = IF hv[i] = mver THEN NoSync ELSE Fetched("publisher")
                 /\ sync' = [sync EXCEPT ![i] = x]
    BY <1>7 DEF PublisherSync
  <2> QED
    BY <1>2, <1>3, <2>1
<1>8. CASE TakeBatch(i) \/ VerifyBatch(i) \/ ClaimLogSlot(i) \/ ClaimFailed(i)
  BY <1>1, <1>8 DEF TakeBatch, VerifyBatch, ClaimLogSlot, ClaimFailed, localVars
<1>9. CASE ProbeManifest(i) \/ ProbeHead(i) \/ ProbeFailed(i) \/ CommitRefused(i) \/ CommitManifest(i)
  BY <1>1, <1>9 DEF ProbeManifest, ProbeHead, ProbeFailed, CommitRefused, CommitManifest,
     localVars
<1>10. CASE CommitLost(i) \/ CasLanded(i) \/ MarkPending(i) \/ RecoverManifestVersion(i)
  BY <1>1, <1>10 DEF CommitLost, CasLanded, MarkPending, RecoverManifestVersion, localVars
<1>11. CASE CommitLocal(i) \/ SweepBurned(i) \/ Respond(i) \/ DropOwnSlot(i)
  BY <1>1, <1>11 DEF CommitLocal, SweepBurned, Respond, DropOwnSlot, localVars
<1>12. CASE RetryAfterDrop(i) \/ AbandonDelete(i)
  BY <1>1, <1>12 DEF RetryAfterDrop, AbandonDelete, localVars
<1> QED
  BY <1>4, <1>5, <1>6, <1>7, <1>8, <1>9, <1>10, <1>11, <1>12 DEF PublisherStep

\* A segment that was just created is not listed.
LEMMA CreatedUnlisted ==
  ASSUME IInv, NEW i \in Instances, ClaimLogSlot(i) \/ ClaimFailed(i)
  PROVE  \A o \in log' : o \in log \/ ~Listed(o.seq)
<1>1. ASSUME NEW s, ObjectAt(s) = {} PROVE ~Listed(s)
  BY <1>1 DEF IInv, SegmentsInv, Listed, ObjectAt
<1>2. PICK x : x = [seq |-> slot[i].seq, ver |-> nver, reqs |-> valid[i]]
  OBVIOUS
<1>3. x.seq = slot[i].seq
  BY <1>2
<1>4. \/ log' = log
      \/ ObjectAt(slot[i].seq) = {} /\ log' = log \cup {x}
  BY <1>2 DEF ClaimLogSlot, ClaimFailed
<1> QED
  BY <1>1, <1>3, <1>4

\* No segment is listed at the start.
LEMMA ListingInit == NoAmbiguity /\ Init => ListingInv
<1> SUFFICES ASSUME Init PROVE ListingInv
  BY SMTT(30), Z3T(30)
<1>1. /\ snaps = {} /\ log = {} /\ manifest = NewManifest
      /\ \A i \in Instances : sync[i].m = NewManifest
  BY DEF Init, NoSync
<1>2. NewManifest.head = 0 /\ NewManifest.segs = {} /\ 0 <= 0
  <2>1. 0 <= 0
    BY SMTT(30), Z3T(30)
  <2> QED
    BY <2>1 DEF NewManifest
<1> QED
  BY <1>1, <1>2 DEF ListingInv, Prefix

\* Every step keeps the listed segments as long as the batches they hold.
LEMMA ListingNext == IInv /\ OrderInv /\ ListingInv /\ [Next]_vars => ListingInv'
<1> SUFFICES ASSUME IInv, OrderInv, ListingInv, [Next]_vars PROVE ListingInv'
  BY SMTT(30), Z3T(30)
<1>1. TypeInv
  BY DEF IInv
<1>2. ASSUME NEW i \in Instances, ClientStep(i) \/ SyncStep(i) \/ PublisherStep(i) \/ Crash(i)
      PROVE  ListingInv'
  <2>1. \A j \in Instances : sync'[j].m \in {sync[j].m, manifest, NewManifest}
    BY <1>1, <1>2, SyncFrame
  <2>2. CASE CommitManifest(i)
    <3>1. UNCHANGED <<snaps, log, sync>>
      BY <2>2 DEF CommitManifest, localVars
    <3> QED
      BY <2>2, <3>1, CommitFacts, AppendListing
  <2>3. CASE ClaimLogSlot(i) \/ ClaimFailed(i)
    <3>1. UNCHANGED <<manifest, snaps>>
      BY <2>3 DEF ClaimLogSlot, ClaimFailed
    <3> QED
      BY <2>1, <2>3, <3>1, CreatedUnlisted, QuietListing
  <2>4. CASE ~CommitManifest(i) /\ ~ClaimLogSlot(i) /\ ~ClaimFailed(i)
    BY <1>2, <2>1, <2>4, ListingFrame, QuietListing
  <2> QED
    BY <2>2, <2>3, <2>4
<1>3. CASE LandManifest
  <2>1. UNCHANGED <<snaps, log, sync>>
    BY <1>3 DEF LandManifest, localVars
  <2>2. CASE mver' # mver
    BY <1>3, <2>1, <2>2, LandFacts, AppendListing
  <2>3. CASE mver' = mver
    BY <1>3, <2>1, <2>3, LandNothing, QuietListing
  <2> QED
    BY <2>2, <2>3
<1>4. CASE LandDelete
  <2>1. UNCHANGED <<manifest, snaps, sync>> /\ log' \subseteq log
    BY <1>4 DEF LandDelete, localVars
  <2> QED
    BY <2>1, QuietListing
<1>5. CASE UNCHANGED vars
  BY <1>5, QuietListing DEF vars, bucketVars, localVars
<1> QED
  BY <1>2, <1>3, <1>4, <1>5 DEF Next

-----------------------------------------------------------------------------
(* The log only grows *)

\* The invariant implies that the log is complete.
LEMMA InvComplete == IInv => LogComplete
<1> SUFFICES ASSUME IInv PROVE LogComplete
  BY SMTT(30), Z3T(30)
<1>1. \A g \in manifest.segs : ObjectAt(g.first) # {}
  BY DEF IInv, SegmentsInv, ObjectAt
<1>2. ListedEntries = {e \in hist : e.seq > manifest.ckpt}
  BY DEF IInv, SegmentsInv
<1> QED
  BY <1>1, <1>2 DEF LogComplete

\* What a step may do to the manifest: the body of LogOnlyGrows.
Growth ==
  /\ manifest'.head >= manifest.head
  /\ manifest' # manifest => manifest'.rev > manifest.rev
  /\ \A g \in manifest.segs \ manifest'.segs : g.last <= manifest'.ckpt

\* An append moves head and revision forward and keeps the segments.
LEMMA AppendGrows ==
  ASSUME TypeInv, NEW m \in Manifests, NEW s \in Slots, Appends(m, s), manifest' = m
  PROVE  Growth
<1>1. /\ manifest.head \in Nat /\ manifest.rev \in Nat /\ s.seq \in Nat /\ m.head \in Nat
      /\ m.rev \in Nat
  BY BucketFacts DEF Slots, Manifests, TypeInv, TypeOK, BucketTypeOK
<1>2. manifest'.head >= manifest.head /\ manifest'.rev > manifest.rev
  BY <1>1, SMTT(30), Z3T(30) DEF Appends
<1>3. manifest.segs \subseteq manifest'.segs
  BY DEF Appends
<1> QED
  BY <1>2, <1>3 DEF Growth

\* Nothing is taken back when the manifest stays.
LEMMA SameGrows == ASSUME TypeInv, UNCHANGED manifest PROVE Growth
<1>1. manifest.head \in Nat
  BY DEF Manifests, TypeInv, TypeOK, BucketTypeOK
<1> QED
  BY <1>1, SMTT(30), Z3T(30) DEF Growth

\* Only a commit writes the manifest.
LEMMA OthersKeepManifest ==
  ASSUME NEW i \in Instances,
         ClientStep(i) \/ SyncStep(i) \/ PublisherStep(i) \/ Crash(i), ~CommitManifest(i)
  PROVE  UNCHANGED manifest
<1>1. CASE ClientStep(i)
  BY <1>1 DEF ClientStep, PublishPush, PublishPushSynced, StartRead, FinishRead, bucketVars
<1>2. CASE SyncStep(i)
  BY <1>2 DEF SyncStep, OpenRepo, SyncDone, SyncFailed, bucketVars
<1>3. CASE TakeBatch(i) \/ PublisherSync(i) \/ VerifyBatch(i) \/ ClaimLogSlot(i) \/ ClaimFailed(i)
  BY <1>3 DEF TakeBatch, PublisherSync, VerifyBatch, ClaimLogSlot, ClaimFailed, bucketVars
<1>4. CASE ProbeManifest(i) \/ ProbeHead(i) \/ ProbeFailed(i) \/ CommitRefused(i)
  BY <1>4 DEF ProbeManifest, ProbeHead, ProbeFailed, CommitRefused, bucketVars
<1>5. CASE CommitLost(i) \/ CasLanded(i) \/ MarkPending(i) \/ RecoverManifestVersion(i)
  BY <1>5 DEF CommitLost, CasLanded, MarkPending, RecoverManifestVersion, bucketVars
<1>6. CASE CommitLocal(i) \/ SweepBurned(i) \/ Respond(i) \/ DropOwnSlot(i)
  BY <1>6 DEF CommitLocal, SweepBurned, Respond, DropOwnSlot, bucketVars
<1>7. CASE RetryAfterDrop(i) \/ AbandonDelete(i) \/ Crash(i)
  BY <1>7 DEF RetryAfterDrop, AbandonDelete, Crash, bucketVars
<1> QED
  BY <1>1, <1>2, <1>3, <1>4, <1>5, <1>6, <1>7 DEF PublisherStep

\* No step takes the log back.
LEMMA NextGrows == IInv /\ [Next]_vars => [Growth]_vars
<1> SUFFICES ASSUME IInv, Next PROVE Growth
  BY SMTT(30), Z3T(30)
<1>1. TypeInv
  BY DEF IInv
<1>2. ASSUME NEW i \in Instances, CommitManifest(i) PROVE Growth
  <2>1. pc[i] = "cas" /\ view[i].ver = mver /\ manifest' = UpdatedManifest(i)
    BY <1>2 DEF CommitManifest, PutManifest
  <2>2. UpdatedManifest(i) \in Manifests /\ Appends(UpdatedManifest(i), slot[i])
    BY <2>1, UpdatedAppends
  <2>3. slot[i] \in Slots
    BY <1>1 DEF TypeInv, TypeOK, PublisherTypeOK
  <2> QED
    BY <1>1, <2>1, <2>2, <2>3, AppendGrows
<1>3. CASE LandManifest
  <2>1. PICK w \in late : IF w.base = mver THEN manifest' = w.m ELSE UNCHANGED manifest
    BY <1>3 DEF LandManifest, PutManifest
  <2>2. w.slot \in Slots /\ w.m \in Manifests
    BY <1>1 DEF TypeInv, TypeOK, BucketTypeOK
  <2>3. CASE w.base = mver
    <3>1. Appends(w.m, w.slot)
      BY <2>3 DEF IInv, ClaimsInv, LateOK
    <3> QED
      BY <1>1, <2>1, <2>2, <2>3, <3>1, AppendGrows
  <2> QED
    BY <1>1, <2>1, <2>3, SameGrows
<1>4. CASE LandDelete
  BY <1>1, <1>4, SameGrows DEF LandDelete
<1> QED
  BY <1>1, <1>2, <1>3, <1>4, OthersKeepManifest, SameGrows DEF Next
=============================================================================
