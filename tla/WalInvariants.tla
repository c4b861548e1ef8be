--------------------------- MODULE WalInvariants ----------------------------
(***************************************************************************)
(* The invariants behind the theorems about WalPublish.                    *)
(*                                                                         *)
(* Type correctness holds of every instance of the protocol. The durability *)
(* of the log has two hypotheses, both needed: a DELETE is sent once       *)
(* (DeleteRetries = 0), and a manifest write whose sender lives on gets its *)
(* answer (MaxLostCas = 0; a write whose sender crashed may still land late). *)
(***************************************************************************)
EXTENDS WalPublish

\* The steps at which process_batch has something to publish.
Publishing == {"claim", "probe", "probehead", "cas", "landed", "mark", "recover", "local",
               "drop", "dropped", "sweep"}

\* TypeOK alone is not inductive: the last seq of a batch is a natural number
\* because the batch is not empty.
TypeInv == /\ TypeOK
           /\ \A i \in Instances : pc[i] \in Publishing => valid[i] # <<>>

\* The typed part of a publisher's state, with the batch that makes it nonempty.
PublisherInv == /\ PublisherTypeOK
                /\ \A i \in Instances : pc[i] \in Publishing => valid[i] # <<>>

\* Replay is well defined: a bounded, nonempty set of entries has a latest one.  This is
\* a fact about numbers and not about the state; WalProofs proves it once, and the lemmas about
\* steps have it as a hypothesis.
Replayable ==
  \A es \in SUBSET Entries : \A b \in Nat :
    es # {} /\ (\A e \in es : e.seq <= b) => \E e \in es : \A f \in es : f.seq <= e.seq

-----------------------------------------------------------------------------
(* Durability *)

NoAmbiguity == DeleteRetries = 0 /\ MaxLostCas = 0

Listed(s) == \E g \in manifest.segs : g.first = s

\* Where process_batch looks for a slot, owns one that is not committed, and has
\* committed.
Claiming == {"claim", "probe", "probehead"}

Holding == {"cas", "drop"}

Committed == {"mark", "recover", "local", "sweep"}

\* A manifest somebody holds is the current one or has a smaller revision.
Past(m) == /\ m.rev <= manifest.rev
           /\ m.rev = manifest.rev => m = manifest

\* Nobody pairs an old manifest with the current version.
Paired(m, v) == /\ v <= mver
                /\ v = mver => m = manifest

LocalOK(i) ==
  /\ Past(hm[i]) /\ Past(sync[i].m)
  /\ Paired(hm[i], hv[i]) /\ Paired(sync[i].m, sync[i].ver)

AttemptOK(i) ==
  /\ Past(view[i].m) /\ Past(done[i].m)
  /\ Paired(view[i].m, view[i].ver) /\ Paired(done[i].m, done[i].ver)
  /\ pc[i] \notin {"landed", "recover"}
  /\ pc[i] = "mark" => done[i].ver # 0

\* The sync of a publisher is under way only while it waits for it.
SyncOwner(i) == sync[i].by = "publisher" => pc[i] = "sync"

ViewsInv == /\ mver > 0 /\ Past(NewManifest)
            /\ \A i \in Instances : LocalOK(i) /\ AttemptOK(i) /\ SyncOwner(i)

\* Log objects: one per key, versions are never used twice, and what an instance
\* still owns is not listed.
VersionsInv ==
  /\ \A o \in log : o.ver < nver
  /\ \A o, p \in log : o.seq = p.seq => o = p
  /\ \A i \in Instances : slot[i].ver < nver
  /\ \A w \in late : w.slot.ver < nver
  /\ \A d \in dels : d.ver < nver
  /\ \A i, j \in Instances : i # j /\ pc[i] \in Holding /\ pc[j] \in Holding
                               => slot[i].ver # slot[j].ver
  /\ \A i \in Instances, w \in late : pc[i] \in Holding => slot[i].ver # w.slot.ver
  /\ \A i \in Instances, o \in log :
       pc[i] \in Holding /\ o.ver = slot[i].ver => ~Listed(o.seq)

Holds(s, reqs) == [seq |-> s.seq, ver |-> s.ver, reqs |-> reqs] \in log

\* A claim that can still commit has its segment in the bucket, above the head;
\* burned slots lie between the head and the claim, and once the claim is
\* committed they are below the head and not listed.
ClaimOK(i) ==
  /\ pc[i] \in {"idle", "sync", "verify"} => burned[i] = {}
  /\ pc[i] \in Claiming \cup {"cas"} =>
       /\ slot[i].seq > view[i].m.head
       /\ \A b \in burned[i] : view[i].m.head < b.seq /\ b.seq < slot[i].seq
  /\ pc[i] = "cas" /\ view[i].ver = mver => Holds(slot[i], valid[i])
  /\ pc[i] \in Committed =>
       /\ \A b \in burned[i] : b.seq <= manifest.head /\ ~Listed(b.seq)
       /\ EntriesAt(slot[i].seq, valid[i]) \subseteq hist

\* m appends one segment to the current manifest.
Appends(m, s) ==
  /\ s.seq > manifest.head /\ m.head >= s.seq
  /\ m.rev = manifest.rev + 1 /\ m.ckpt = manifest.ckpt
  /\ m.segs = manifest.segs \cup {[first |-> s.seq, last |-> m.head]}

LateOK(w) == /\ w.base <= mver
             /\ w.base = mver => Holds(w.slot, w.reqs) /\ Appends(w.m, w.slot)

ClaimsInv == /\ \A i \in Instances : ClaimOK(i)
             /\ \A w \in late : LateOK(w)

\* A DELETE under way is for a key below the head that is not listed, or still for
\* the very object its sender meant, which nobody can commit any more.
DeletesInv ==
  /\ \A d \in dels :
       /\ d.left = 0
       /\ ~Listed(d.seq)
       /\ \/ d.seq <= manifest.head
          \/ /\ \E o \in log : o.seq = d.seq /\ o.ver = d.ver
             /\ \A i \in Instances : pc[i] \in Holding => slot[i].ver # d.ver
             /\ \A w \in late : w.slot.ver # d.ver
  /\ \A d, e \in dels :
       d.ver = e.ver /\ d.seq > manifest.head /\ e.seq > manifest.head => d = e

SegmentsInv ==
  /\ manifest.ckpt = 0
  /\ \A g \in manifest.segs : g.first <= manifest.head /\ \E o \in log : o.seq = g.first
  /\ ListedEntries = hist
  /\ \A e \in hist : e.seq > 0

IInv == /\ NoAmbiguity /\ TypeInv
        /\ ViewsInv /\ VersionsInv /\ ClaimsInv /\ DeletesInv /\ SegmentsInv
        /\ AckedCommitted

-----------------------------------------------------------------------------
(* One order of commits *)

Queued(i) == {queue[i][k].req : k \in DOMAIN queue[i]}

\* No request is listed twice.
Distinct(s) == \A j, k \in DOMAIN s : s[j] = s[k] => j = k

CommittedReqs == {e.req : e \in hist}

\* A request that has not arrived has no answer.
Unseen(r) == since[r] = -1 => resp[r].kind = "none"

\* What waits at an instance has arrived and is not answered yet.
Unanswered(i) == \A r \in Waiting(i) : resp[r].kind = "none" /\ since[r] # -1

\* A request waits in one place of its instance.
PlaceOK(i) ==
  /\ Queued(i) \cap Elements(batch[i]) = {}
  /\ \A j, k \in DOMAIN queue[i] : queue[i][j].req = queue[i][k].req => j = k
  /\ Distinct(batch[i])

\* What a publisher is about to log is of its batch, each request once.
ValidOK(i) ==
  pc[i] \in Publishing => Elements(valid[i]) \subseteq Elements(batch[i]) /\ Distinct(valid[i])

\* What a crashed publisher left under way was answered with an error.
LateAnswered(w) ==
  /\ Distinct(w.reqs) /\ w.m.head = w.slot.seq + Len(w.reqs) - 1
  /\ \A r \in Elements(w.reqs) : resp[r].kind = "error"

WaitingInv ==
  /\ \A r \in Requests : Unseen(r)
  /\ \A i \in Instances : Unanswered(i) /\ PlaceOK(i) /\ ValidOK(i)
  /\ \A i, j \in Instances : i # j => Waiting(i) \cap Waiting(j) = {}
  /\ \A w \in late : LateAnswered(w)

\* The log holds a request once, and a seq once.
HistOnce ==
  /\ \A e \in hist : e.seq <= manifest.head
  /\ \A e, f \in hist : e.req = f.req \/ e.seq = f.seq => e = f

\* The client of a committed request was told so, or was told nothing for sure, or
\* still waits behind the commit.
Told(e) ==
  /\ since[e.req] # -1
  /\ \/ resp[e.req].kind \in {"ok", "error"}
     \/ \E i \in Instances : pc[i] \in Committed /\ e.req \in Elements(valid[i])

\* A write that can still take effect brings requests that are not in the log.
LateNew(w) == w.base = mver => Elements(w.reqs) \cap CommittedReqs = {}

OnceInv == /\ HistOnce
           /\ \A e \in hist : Told(e)
           /\ \A w \in late : LateNew(w)

\* The manifest m as it was: what m lists is what was listed up to its head.
Prefix(m) ==
  /\ m.head <= manifest.head
  /\ m.segs = {g \in manifest.segs : g.first <= m.head}

\* A segment is listed with the seqs its object holds.
ListingInv ==
  /\ snaps = {}
  /\ \A g \in manifest.segs : g.first > 0
  /\ \A o \in log, g \in manifest.segs : o.seq = g.first => g.last = o.seq + Len(o.reqs) - 1
  /\ \A i \in Instances : Prefix(sync[i].m)

\* rs is what the entries es leave behind at seq s, but for refs that a later entry sets.
Mirrors(rs, es, s) ==
  \A n \in Refs : \/ rs[n] = ApplyEntries(NoRefs, {e \in es : e.seq <= s})[n]
                  \/ \E e \in es : e.seq > s /\ n \in DOMAIN Txn[e.req]

\* commit_local fails only where no sync of the instance has applied the batch before
\* it (the run overtaken_install shows what happens otherwise).
Undisturbed ==
  \A i \in Instances : CommitLocal(i) /\ faults' # faults => applied[i] < slot[i].seq

\* A copy is what its seq says, and a version is held only with the manifest that was
\* applied last.
CopyOK(i) ==
  /\ saved[i] <= applied[i] /\ applied[i] <= manifest.head
  /\ ~open[i] => applied[i] = saved[i] /\ pc[i] = "idle"
  /\ sync[i].by # "none" => applied[i] <= sync[i].m.head
  /\ hv[i] # 0 => applied[i] = hm[i].head
  /\ Mirrors(refs[i], hist, applied[i])

\* A batch was verified on a copy that did not go back since; once it is committed,
\* the log holds nothing else between what it was verified on and its last entry.
BaseOK(i) ==
  /\ pc[i] \in Publishing /\ view[i].ver # 0 => view[i].m.head <= applied[i]
  /\ pc[i] \in Committed =>
       /\ view[i].ver # 0 /\ view[i].m.head < slot[i].seq
       /\ done[i].ver # 0 /\ done[i].m.head = LastSeq(i) /\ LastSeq(i) <= manifest.head
       /\ \A e \in hist : \/ e.seq <= view[i].m.head \/ e.seq > LastSeq(i)
                          \/ e \in EntriesAt(slot[i].seq, valid[i])

CopyInv == \A i \in Instances : CopyOK(i) /\ BaseOK(i)

\* The requests of a batch before the k-th, numbered by their place in it.
Preceding(reqs, k) == {[seq |-> j, req |-> reqs[j]] : j \in {h \in DOMAIN reqs : h < k}}

\* A batch that may be committed to the log as it is: every request finds what it
\* expects, and a receipt a pristine repository.
Fits(reqs) ==
  \A k \in DOMAIN reqs :
    /\ VerifyTxn(reqs[k], ApplyEntries(RefsAt(manifest.head), Preceding(reqs, k)))
    /\ reqs[k] \in Receipts => manifest.head = 0 /\ k = 1

\* The receipt a manifest write records.
Records(m, first, reqs) ==
  m.receipt = IF reqs[1] \in Receipts THEN first ELSE manifest.receipt

\* A batch on its way to the manifest, verified on the current one, fits the log ...
ProposalOK(i) == pc[i] \in Claiming \cup {"cas"} /\ view[i].ver = mver => Fits(valid[i])

\* ... and so does what a write under way would commit.
LateFits(w) == w.base = mver => Fits(w.reqs) /\ Records(w.m, w.slot.seq, w.reqs)

FitsInv == /\ \A i \in Instances : ProposalOK(i)
           /\ \A w \in late : LateFits(w)

OrderInv == WaitingInv /\ OnceInv

-----------------------------------------------------------------------------
(* What a committed batch left out *)

\* Some choice of verify_batch over the log up to the head of m left v of batch b.
Verified(v, b, m) ==
  \E acc \in SUBSET DOMAIN b : Accepts(acc, b, m, RefsAt(m.head)) /\ AcceptedReqs(v, acc, b)

\* What a batch left out when it was verified did not find what it expects in the log,
\* at some seq from there on.  WalOrderProofs proves it of the batches in the log, and the
\* lemmas about answers have it as a hypothesis.
LeftOutLogged ==
  \A i \in Instances : pc[i] \in Committed /\ Verified(valid[i], batch[i], view[i].m) =>
    \A r \in Elements(batch[i]) \ (Elements(valid[i]) \cup Receipts) :
      \E s \in Nat : view[i].m.head <= s /\ s <= manifest.head /\ ~VerifyTxn(r, RefsAt(s))
=============================================================================
