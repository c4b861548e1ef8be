------------------------------ MODULE WalPublish ------------------------------
(***************************************************************************)
(* The publish protocol of one repository: server instances that share     *)
(* nothing but a bucket append ref transactions to the write-ahead log.    *)
(*                                                                         *)
(* In the bucket: manifest.pb, whose compare-and-swap is the commit point, *)
(* and one object log/<first_seq>.pb per committed batch, written with     *)
(* create-if-absent before that commit.  In an instance: a disposable      *)
(* local copy (refs, and the sequence number they were replayed to), the   *)
(* manifest it last saw with the version it saw it under, one publisher    *)
(* task, and requests that first sync the local copy and then read it.     *)
(*                                                                         *)
(* Every bucket call is a step of its own, so any other actor may move     *)
(* between two of them.  A manifest write whose answer is lost stays in    *)
(* `late` and may take effect at any later time; a delete is HEAD, compare *)
(* and a DELETE that stays in `dels` until it takes effect (s3.rs).        *)
(***************************************************************************)
EXTENDS RefTxn, FiniteSets

CONSTANTS Instances,      \* server processes
          Publishers,     \* the instances clients push to
          Readers,        \* the instances clients read from
          Receipts,       \* requests that need a pristine repository
          MaxBatch,       \* wal.max_batch
          MaxRetries,     \* wal.cas_max_retries
          GraceProbes,    \* ORPHAN_GRACE_PROBES
          MaxBurn,        \* MAX_BURN
          DeleteRetries,  \* store.max_retries, as far as DELETE repeats itself
          MaxCrashes,     \* bound: instance crashes
          MaxStoreErrors, \* bound: failed bucket calls with a known outcome
          MaxLostCas      \* bound: manifest writes whose answer is lost

ASSUME ProtocolAssumption ==
  /\ Publishers \subseteq Instances
  /\ Readers \subseteq Instances
  /\ Receipts \subseteq Requests
  /\ MaxBatch \in Nat \ {0}
  /\ MaxRetries \in Nat \ {0}
  /\ GraceProbes \in Nat \ {0}
  /\ MaxBurn \in Nat \ {0}
  /\ DeleteRetries \in Nat
  /\ MaxCrashes \in Nat
  /\ MaxStoreErrors \in Nat
  /\ MaxLostCas \in Nat

VARIABLES
  \* The bucket.
  manifest,  \* content of manifest.pb
  mver,      \* its version (ETag); every write takes a new one
  log,       \* the log/<seq>.pb objects, at most one per seq
  snaps,     \* the checkpoints/<seq>/refs.pb objects
  marker,    \* does pending/<repo> exist?
  late,      \* manifest writes under way whose answer never comes
  dels,      \* DELETEs of log objects under way
  nver,      \* the next version of a log object
  \* The instances.
  open,      \* is there a handle?
  hm,        \* RepoHandle.manifest
  hv,        \* RepoHandle.manifest_version (0: None)
  refs,      \* the refs of the local copy (on disk)
  applied,   \* RepoState.applied_seq
  saved,     \* applied_seq as saved on disk
  sync,      \* the sync under way, with what it fetched; holds sync_mutex
  reader,    \* a request that syncs, then reads the local refs
  \* The publisher tasks.
  queue,     \* requests enqueued and not yet in a batch
  pc,        \* where process_batch is
  batch,     \* the requests of the batch
  valid,     \* the accepted ones, in batch order
  view,      \* manifest and version this attempt started from
  slot,      \* the log slot claimed or being claimed
  burned,    \* orphans burned to get there
  probes,    \* probes of the present orphan
  attempts,  \* failed attempts
  done,      \* manifest and version of the commit
  \* The clients, the history and the faults so far.
  resp,      \* what each client was told
  since,     \* head of the log when the request arrived
  hist,      \* history: the committed entries
  faults     \* faults used up

bucketVars == <<manifest, mver, log, snaps, marker, late, dels, nver>>
localVars  == <<open, hm, hv, refs, applied, saved, sync>>
pubVars    == <<pc, batch, valid, view, slot, burned, probes, attempts, done>>
clientVars == <<queue, reader, resp, since>>
vars == <<bucketVars, localVars, pubVars, clientVars, hist, faults>>

-----------------------------------------------------------------------------
(* Shapes *)

Segments == [first : Nat, last : Nat]
Manifests == [rev : Nat, head : Nat, min : Nat, ckpt : Nat, receipt : Nat,
              segs : SUBSET Segments]
Batches == UNION {[1..n -> Requests] : n \in 0..MaxBatch}
LogObjects == [seq : Nat, ver : Nat, reqs : Batches]
Slots == [seq : Nat, ver : Nat]
Entries == [seq : Nat, req : Requests]

NewManifest == [rev |-> 1, head |-> 0, min |-> 0, ckpt |-> 0, receipt |-> 0, segs |-> {}]
NoView == [m |-> NewManifest, ver |-> 0]
NoSlot == [seq |-> 0, ver |-> 0]
NoSync == [by |-> "none", m |-> NewManifest, ver |-> 0]
NoReader == [pc |-> "idle", acked |-> {}, since |-> 0]
NoAnswer == [kind |-> "none", seq |-> 0]

Steps == {"idle", "sync", "verify", "claim", "probe", "probehead", "cas",
          "landed", "mark", "recover", "local", "drop", "dropped", "sweep"}

Elements(s) == {s[k] : k \in DOMAIN s}

-----------------------------------------------------------------------------
(* The bucket *)

ObjectAt(s) == {o \in log : o.seq = s}

\* A write of the manifest took effect.
PutManifest(m) == manifest' = m /\ mver' = mver + 1

\* Conditional delete: HEAD and compare now, DELETE under way from here on.
\* `held`: the sender waits for the answer, and with_retry may send the DELETE
\* `left` more times.
CasDelete(i, s) ==
  dels' = IF \E o \in ObjectAt(s.seq) : o.ver = s.ver
          THEN dels \cup {[seq |-> s.seq, ver |-> s.ver, by |-> i, held |-> TRUE,
                           left |-> DeleteRetries]}
          ELSE dels

\* A DELETE takes effect on whatever the key holds by then; if its answer is
\* lost, it is sent once more.
LandDelete ==
  \E d \in dels :
    /\ log' = log \ ObjectAt(d.seq)
    /\ \/ dels' = dels \ {d}
       \/ /\ d.held /\ d.left > 0
          /\ dels' = (dels \ {d}) \cup {[d EXCEPT !.left = @ - 1]}
    /\ UNCHANGED <<manifest, mver, snaps, marker, late, nver, localVars, pubVars,
                   clientVars, hist, faults>>

DeleteSettled(i) == \A d \in dels : d.by = i => ~d.held

\* The DELETEs of an instance that no longer waits for their answers.
Unheld(i) == {IF d.by = i THEN [d EXCEPT !.held = FALSE] ELSE d : d \in dels}

-----------------------------------------------------------------------------
(* Answers *)

ResetPublisher(i) ==
  /\ pc' = [pc EXCEPT ![i] = "idle"]
  /\ batch' = [batch EXCEPT ![i] = <<>>]
  /\ valid' = [valid EXCEPT ![i] = <<>>]
  /\ view' = [view EXCEPT ![i] = NoView]
  /\ slot' = [slot EXCEPT ![i] = NoSlot]
  /\ burned' = [burned EXCEPT ![i] = {}]
  /\ probes' = [probes EXCEPT ![i] = 0]
  /\ attempts' = [attempts EXCEPT ![i] = 0]
  /\ done' = [done EXCEPT ![i] = NoView]

AnswerAll(rs, kind) ==
  resp' = [r \in Requests |-> IF r \in rs THEN [kind |-> kind, seq |-> 0] ELSE resp[r]]

\* Mutant of FinishErrors: only the first waiter hears of the error.
FinishErrorsFirstOnly(i) ==
  /\ AnswerAll({batch[i][1]}, "error")
  /\ ResetPublisher(i)
  /\ UNCHANGED <<queue, reader, since>>

\* finish_all_errors, finish_with_error: every waiter gets the batch error.
FinishErrors(i) ==
  /\ AnswerAll(Elements(batch[i]), "error")
  /\ ResetPublisher(i)
  /\ UNCHANGED <<queue, reader, since>>

\* Mutants of Answers: seq off by one; only the first accepted request is told so.
AnswersOffByOne(i) ==
  [r \in Requests |->
     IF \E k \in DOMAIN valid[i] : valid[i][k] = r
     THEN [kind |-> "ok",
           seq |-> slot[i].seq + (CHOOSE k \in DOMAIN valid[i] : valid[i][k] = r)]
     ELSE IF r \in Elements(batch[i]) THEN [kind |-> "rejected", seq |-> 0]
     ELSE resp[r]]
AnswersFirstOnly(i) ==
  [r \in Requests |->
     IF valid[i][1] = r THEN [kind |-> "ok", seq |-> slot[i].seq]
     ELSE IF r \in Elements(batch[i]) THEN [kind |-> "rejected", seq |-> 0]
     ELSE resp[r]]

\* respond: the accepted requests learn their seq, the others the rejection.
Answers(i) ==
  [r \in Requests |->
     IF \E k \in DOMAIN valid[i] : valid[i][k] = r
     THEN [kind |-> "ok",
           seq |-> slot[i].seq + (CHOOSE k \in DOMAIN valid[i] : valid[i][k] = r) - 1]
     ELSE IF r \in Elements(batch[i]) THEN [kind |-> "rejected", seq |-> 0]
     ELSE resp[r]]

\* Mutant of Contended: retries without a limit.
ContendedForever(i) ==
  /\ attempts' = [attempts EXCEPT ![i] = @ + 1]
  /\ pc' = [pc EXCEPT ![i] = "sync"]
  /\ slot' = [slot EXCEPT ![i] = NoSlot]
  /\ burned' = [burned EXCEPT ![i] = {}]
  /\ probes' = [probes EXCEPT ![i] = 0]
  /\ UNCHANGED <<batch, valid, view, done, clientVars>>

\* The attempt lost against another writer: re-sync and retry, up to the limit.
Contended(i) ==
  IF attempts[i] + 1 >= MaxRetries
  THEN FinishErrors(i)
  ELSE /\ attempts' = [attempts EXCEPT ![i] = @ + 1]
       /\ pc' = [pc EXCEPT ![i] = "sync"]
       /\ slot' = [slot EXCEPT ![i] = NoSlot]
       /\ burned' = [burned EXCEPT ![i] = {}]
       /\ probes' = [probes EXCEPT ![i] = 0]
       /\ UNCHANGED <<batch, valid, view, done, clientVars>>

StoreError ==
  /\ faults.store < MaxStoreErrors
  /\ faults' = [faults EXCEPT !.store = @ + 1]

-----------------------------------------------------------------------------
(* Clients *)

HeadSeq == manifest.head

AckedSeqs == {resp[r].seq : r \in {q \in Requests : resp[q].kind = "ok"}}

Fresh(r) == since[r] = -1

\* A direct WAL caller enqueues without having synced.
PublishPush(i, r) ==
  /\ open[i] /\ i \in Publishers /\ Fresh(r)
  /\ queue' = [queue EXCEPT ![i] = Append(@, [req |-> r, synced |-> FALSE])]
  /\ since' = [since EXCEPT ![r] = HeadSeq]
  /\ UNCHANGED <<bucketVars, localVars, pubVars, reader, resp, hist, faults>>

\* receive-pack enqueues after the sync of its own request.
PublishPushSynced(i, r) ==
  /\ open[i] /\ i \in Publishers /\ Fresh(r)
  /\ reader[i].pc = "read"
  /\ queue' = [queue EXCEPT ![i] = Append(@, [req |-> r, synced |-> TRUE])]
  /\ since' = [since EXCEPT ![r] = reader[i].since]
  /\ reader' = [reader EXCEPT ![i] = NoReader]
  /\ UNCHANGED <<bucketVars, localVars, pubVars, resp, hist, faults>>

\* The request has read what it wanted.
FinishRead(i) ==
  /\ reader[i].pc = "read"
  /\ reader' = [reader EXCEPT ![i] = NoReader]
  /\ UNCHANGED <<bucketVars, localVars, pubVars, queue, resp, since, hist, faults>>

-----------------------------------------------------------------------------
(* Syncing the local copy (refs level), under sync_mutex *)

Unlocked(i) == sync[i] = NoSync

Fetched(who) == [by |-> who, m |-> manifest, ver |-> mver]

\* Mutant of StartRead: reads the local copy without asking the bucket.
StartReadUnchecked(i) ==
  /\ open[i] /\ i \in Readers /\ Unlocked(i)
  /\ reader[i].pc = "idle"
  /\ reader' = [reader EXCEPT ![i] = [pc |-> "read", acked |-> AckedSeqs, since |-> HeadSeq]]
  /\ UNCHANGED <<bucketVars, localVars, pubVars, queue, resp, since, hist, faults>>

\* freshness_check: a conditional GET, 304 when the known version is current.
StartRead(i) ==
  /\ open[i] /\ i \in Readers /\ Unlocked(i)
  /\ reader[i].pc = "idle"
  /\ LET unchanged == hv[i] = mver
     IN  /\ reader' = [reader EXCEPT ![i] = [pc |-> IF unchanged THEN "read" ELSE "sync",
                                             acked |-> AckedSeqs, since |-> HeadSeq]]
         /\ sync' = [sync EXCEPT ![i] = IF unchanged THEN NoSync ELSE Fetched("reader")]
  /\ UNCHANGED <<bucketVars, open, hm, hv, refs, applied, saved, pubVars, queue, resp,
                 since, hist, faults>>

PublisherSync(i) ==
  /\ pc[i] = "sync" /\ Unlocked(i)
  /\ LET unchanged == hv[i] = mver
     IN  /\ pc' = [pc EXCEPT ![i] = IF unchanged THEN "verify" ELSE "sync"]
         /\ sync' = [sync EXCEPT ![i] = IF unchanged THEN NoSync ELSE Fetched("publisher")]
  /\ UNCHANGED <<bucketVars, open, hm, hv, refs, applied, saved, batch, valid, view, slot,
                 burned, probes, attempts, done, clientVars, hist, faults>>

\* Registry::open reads the manifest before it makes a handle.
OpenRepo(i) ==
  /\ ~open[i] /\ Unlocked(i)
  /\ sync' = [sync EXCEPT ![i] = Fetched("open")]
  /\ UNCHANGED <<bucketVars, open, hm, hv, refs, applied, saved, pubVars, clientVars,
                 hist, faults>>

\* apply_delta starts from the checkpoint's snapshot when the copy is behind it.
UsesSnapshot(i, m) == applied[i] < m.ckpt /\ \E s \in snaps : s.seq = m.ckpt
\* Mutant of BaseRefs: skips to the checkpoint without loading its snapshot.
BaseRefsKept(i, m) == refs[i]

BaseRefs(i, m) == IF UsesSnapshot(i, m)
                  THEN (CHOOSE s \in snaps : s.seq = m.ckpt).refs
                  ELSE refs[i]
BaseSeq(i, m) == IF UsesSnapshot(i, m) THEN m.ckpt ELSE applied[i]

\* replay_log fetches the listed segments that overlap (from, head].
Needed(m, from) == {g \in m.segs : g.last > from /\ g.first <= m.head}
Readable(m, from) == \A g \in Needed(m, from) : ObjectAt(g.first) # {}
EntriesIn(m, from) ==
  {e \in UNION {EntriesAt(o.seq, o.reqs) :
                  o \in UNION {ObjectAt(g.first) : g \in Needed(m, from)}} :
     e.seq > from /\ e.seq <= m.head}

\* Mutant of Install: adopts the manifest without replaying the log.
InstallWithoutReplay(i, f) ==
  /\ refs' = [refs EXCEPT ![i] = BaseRefs(i, f.m)]
  /\ applied' = [applied EXCEPT ![i] = f.m.head]
  /\ saved' = [saved EXCEPT ![i] = f.m.head]
  /\ hm' = [hm EXCEPT ![i] = f.m]
  /\ hv' = [hv EXCEPT ![i] = f.ver]

\* apply_delta went through: refs first, then seq, state file and manifest.
Install(i, f) ==
  /\ refs' = [refs EXCEPT ![i] = ApplyEntries(BaseRefs(i, f.m), EntriesIn(f.m, BaseSeq(i, f.m)))]
  /\ applied' = [applied EXCEPT ![i] = f.m.head]
  /\ saved' = [saved EXCEPT ![i] = f.m.head]
  /\ hm' = [hm EXCEPT ![i] = f.m]
  /\ hv' = [hv EXCEPT ![i] = f.ver]

\* Does this sync have something to apply?
Behind(i) ==
  LET f == sync[i] IN
  IF f.by = "open" THEN applied[i] < f.m.head
  ELSE f.m.rev > hm[i].rev \/ (hv[i] = 0 /\ f.m.rev = hm[i].rev)

\* sync_locked_inner: an older manifest than the held one is ignored, an equal
\* one only lends its version, a newer one is applied.  open applies when the
\* saved state is behind.
Apply(i) ==
  LET f == sync[i] IN
  \/ /\ Behind(i)
     /\ Readable(f.m, BaseSeq(i, f.m))
     /\ Install(i, f)
  \/ /\ ~Behind(i) /\ f.by # "open" /\ f.m.rev < hm[i].rev
     /\ UNCHANGED <<refs, applied, saved, hm, hv>>
  \/ /\ ~Behind(i) /\ f.by # "open" /\ f.m.rev = hm[i].rev
     /\ hv' = [hv EXCEPT ![i] = f.ver]
     /\ UNCHANGED <<refs, applied, saved, hm>>
  \/ /\ ~Behind(i) /\ f.by = "open"
     /\ hm' = [hm EXCEPT ![i] = f.m]
     /\ hv' = [hv EXCEPT ![i] = f.ver]
     /\ UNCHANGED <<refs, applied, saved>>

\* The sync returns to whoever asked for it.
SyncDone(i) ==
  /\ sync[i].by # "none"
  /\ Apply(i)
  /\ sync' = [sync EXCEPT ![i] = NoSync]
  /\ open' = [open EXCEPT ![i] = TRUE]
  /\ pc' = [pc EXCEPT ![i] = IF sync[i].by = "publisher" THEN "verify" ELSE @]
  /\ reader' = [reader EXCEPT ![i].pc = IF sync[i].by = "reader" THEN "read" ELSE @]
  /\ UNCHANGED <<bucketVars, batch, valid, view, slot, burned, probes, attempts, done,
                 queue, resp, since, hist, faults>>

\* A GET fails, or a listed segment is not there: the snapshot that was loaded
\* stays, the manifest and its version are not adopted, the caller gets the error.
SyncFailed(i) ==
  /\ sync[i].by # "none"
  /\ \/ StoreError /\ UNCHANGED <<refs, applied>>
     \/ LET m == sync[i].m IN
        /\ Behind(i)
        /\ StoreError \/ (~Readable(m, BaseSeq(i, m)) /\ UNCHANGED faults)
        /\ refs' = [refs EXCEPT ![i] = BaseRefs(i, m)]
        /\ applied' = [applied EXCEPT ![i] = IF open[i] THEN BaseSeq(i, m) ELSE saved[i]]
  /\ sync' = [sync EXCEPT ![i] = NoSync]
  /\ IF sync[i].by = "publisher"
     THEN FinishErrors(i)
     ELSE /\ reader' = [reader EXCEPT ![i] = IF sync[i].by = "reader" THEN NoReader ELSE @]
          /\ UNCHANGED <<pubVars, queue, resp, since>>
  /\ UNCHANGED <<bucketVars, open, hm, hv, saved, hist>>

-----------------------------------------------------------------------------
(* The publisher task *)

\* publisher_task takes what is queued, up to max_batch, as far as the batching
\* window lets it.
TakeBatch(i) ==
  /\ open[i] /\ pc[i] = "idle"
  /\ \E n \in 1..Len(queue[i]) :
       /\ n <= MaxBatch
       /\ batch' = [batch EXCEPT ![i] = [k \in 1..n |-> queue[i][k].req]]
       /\ queue' = [queue EXCEPT ![i] = SubSeq(@, n + 1, Len(@))]
       /\ pc' = [pc EXCEPT ![i] = IF \A k \in 1..n : queue[i][k].synced
                                  THEN "verify" ELSE "sync"]
  /\ UNCHANGED <<bucketVars, localVars, valid, view, slot, burned, probes, attempts, done,
                 reader, resp, since, hist, faults>>

IsPristine(m) == m.head = 0 /\ m.segs = {} /\ m.ckpt = 0 /\ m.receipt = 0

\* Mutants of Accepts: a receipt needs no pristine repository; a rejected request
\* still shows to those behind it; a deletion is not checked.
AcceptsAnyReceipt(acc, b, m, local) ==
  \A k \in DOMAIN b :
    k \in acc <=> VerifyTxn(b[k], ApplyEntries(local, {[seq |-> j, req |-> b[j]] :
                                                         j \in {h \in acc : h < k}}))
AcceptsBehindRejected(acc, b, m, local) ==
  \A k \in DOMAIN b :
    LET before == {j \in DOMAIN b : j < k}
        working == ApplyEntries(local, {[seq |-> j, req |-> b[j]] : j \in before})
    IN  k \in acc <=> /\ VerifyTxn(b[k], working)
                      /\ b[k] \in Receipts => IsPristine(m) /\ before = {}
AcceptsAnyDeletion(acc, b, m, local) ==
  \A k \in DOMAIN b :
    LET working == ApplyEntries(local, {[seq |-> j, req |-> b[j]] : j \in {h \in acc : h < k}})
    IN  k \in acc <=> \A n \in DOMAIN Txn[b[k]] : \/ Txn[b[k]][n].new = Null
                                                  \/ VerifyTxn(b[k], working)

\* verify_batch accepts the positions `acc` of batch b: each request is checked
\* on top of the accepted ones before it.
Accepts(acc, b, m, local) ==
  \A k \in DOMAIN b :
    LET before == {j \in acc : j < k}
        working == ApplyEntries(local, {[seq |-> j, req |-> b[j]] : j \in before})
    IN  k \in acc <=> /\ VerifyTxn(b[k], working)
                      /\ b[k] \in Receipts => IsPristine(m) /\ before = {}

\* valid_indices: p lists the accepted positions in batch order.
ValidIndices(p, acc) ==
  /\ \A j, k \in DOMAIN p : j < k => p[j] < p[k]
  /\ \A a \in acc : \E k \in DOMAIN p : p[k] = a

\* v is what build_batch makes entries of: the requests at the accepted positions.
AcceptedReqs(v, acc, b) ==
  \E p \in [1..Len(v) -> acc] :
    ValidIndices(p, acc) /\ \A k \in 1..Len(v) : v[k] = b[p[k]]

\* Manifest, version and refs are read and verified under sync_mutex.
VerifyBatch(i) ==
  /\ pc[i] = "verify" /\ Unlocked(i)
  /\ \E acc \in SUBSET DOMAIN batch[i] :
       /\ Accepts(acc, batch[i], hm[i], refs[i])
       /\ \E v \in Batches :
            /\ AcceptedReqs(v, acc, batch[i])
            /\ \/ /\ v = <<>>
                  /\ AnswerAll(Elements(batch[i]), "rejected")
                  /\ ResetPublisher(i)
                  /\ UNCHANGED <<queue, reader, since>>
               \/ /\ v # <<>>
                  /\ valid' = [valid EXCEPT ![i] = v]
                  /\ view' = [view EXCEPT ![i] = [m |-> hm[i], ver |-> hv[i]]]
                  /\ slot' = [slot EXCEPT ![i] = [seq |-> hm[i].head + 1, ver |-> 0]]
                  /\ pc' = [pc EXCEPT ![i] = "claim"]
                  /\ UNCHANGED <<batch, burned, probes, attempts, done, clientVars>>
  /\ UNCHANGED <<bucketVars, localVars, hist, faults>>

\* Mutant of ClaimLogSlot: the PUT overwrites.
ClaimLogSlotOverwriting(i) ==
  /\ pc[i] = "claim"
  /\ log' = (log \ ObjectAt(slot[i].seq))
              \cup {[seq |-> slot[i].seq, ver |-> nver, reqs |-> valid[i]]}
  /\ slot' = [slot EXCEPT ![i] = [seq |-> slot[i].seq, ver |-> nver]]
  /\ nver' = nver + 1
  /\ pc' = [pc EXCEPT ![i] = "cas"]
  /\ UNCHANGED <<manifest, mver, snaps, marker, late, dels, localVars, batch, valid, view,
                 burned, probes, attempts, done, clientVars, hist, faults>>

\* claim_log_slot: create log/<seq>.pb if it is absent ...
ClaimLogSlot(i) ==
  /\ pc[i] = "claim"
  /\ IF ObjectAt(slot[i].seq) = {}
     THEN /\ log' = log \cup {[seq |-> slot[i].seq, ver |-> nver, reqs |-> valid[i]]}
          /\ slot' = [slot EXCEPT ![i] = [seq |-> slot[i].seq, ver |-> nver]]
          /\ nver' = nver + 1
          /\ pc' = [pc EXCEPT ![i] = "cas"]
     ELSE /\ pc' = [pc EXCEPT ![i] = "probe"]
          /\ UNCHANGED <<log, slot, nver>>
  /\ UNCHANGED <<manifest, mver, snaps, marker, late, dels, localVars, batch, valid, view,
                 burned, probes, attempts, done, clientVars, hist, faults>>

\* ... or fail, or fail after it took effect (also: a pack upload failed).
ClaimFailed(i) ==
  /\ pc[i] = "claim"
  /\ StoreError
  /\ \/ UNCHANGED <<log, nver>>
     \/ /\ ObjectAt(slot[i].seq) = {}
        /\ log' = log \cup {[seq |-> slot[i].seq, ver |-> nver, reqs |-> valid[i]]}
        /\ nver' = nver + 1
  /\ FinishErrors(i)
  /\ UNCHANGED <<manifest, mver, snaps, marker, late, dels, localVars, hist>>

\* The slot is taken.  Committed already?
ProbeManifest(i) ==
  /\ pc[i] = "probe"
  /\ IF HeadSeq >= slot[i].seq
     THEN Contended(i)
     ELSE /\ pc' = [pc EXCEPT ![i] = "probehead"]
          /\ UNCHANGED <<batch, valid, view, slot, burned, probes, attempts, done, clientVars>>
  /\ UNCHANGED <<bucketVars, localVars, hist, faults>>

\* Or gone, or sitting there for GraceProbes probes: then the seq is burned.
ProbeHead(i) ==
  /\ pc[i] = "probehead"
  /\ \/ /\ ObjectAt(slot[i].seq) = {}
        /\ pc' = [pc EXCEPT ![i] = "claim"]
        /\ probes' = [probes EXCEPT ![i] = 0]
        /\ UNCHANGED <<batch, valid, view, slot, burned, attempts, done, clientVars>>
     \/ /\ ObjectAt(slot[i].seq) # {} /\ probes[i] + 1 < GraceProbes
        /\ pc' = [pc EXCEPT ![i] = "probe"]
        /\ probes' = [probes EXCEPT ![i] = @ + 1]
        /\ UNCHANGED <<batch, valid, view, slot, burned, attempts, done, clientVars>>
     \/ /\ probes[i] + 1 >= GraceProbes
        /\ \E o \in ObjectAt(slot[i].seq) :
             IF Cardinality(burned[i]) + 1 >= MaxBurn
             THEN FinishErrors(i)
             ELSE /\ burned' = [burned EXCEPT ![i] = @ \cup {[seq |-> o.seq, ver |-> o.ver]}]
                  /\ slot' = [slot EXCEPT ![i] = [seq |-> o.seq + 1, ver |-> 0]]
                  /\ probes' = [probes EXCEPT ![i] = 0]
                  /\ pc' = [pc EXCEPT ![i] = "claim"]
                  /\ UNCHANGED <<batch, valid, view, attempts, done, clientVars>>
  /\ UNCHANGED <<bucketVars, localVars, hist, faults>>

ProbeFailed(i) ==
  /\ pc[i] \in {"probe", "probehead", "landed"}
  /\ StoreError
  /\ FinishErrors(i)
  /\ UNCHANGED <<bucketVars, localVars, hist>>

LastSeq(i) == slot[i].seq + Len(valid[i]) - 1

ReceiptSeqs(i) == {e.seq : e \in {f \in EntriesAt(slot[i].seq, valid[i]) : f.req \in Receipts}}

\* Mutant of UpdatedManifest: the new segment replaces the list.
UpdatedManifestReplacing(i) ==
  [view[i].m EXCEPT
     !.head = LastSeq(i),
     !.segs = {[first |-> slot[i].seq, last |-> LastSeq(i)]},
     !.rev = @ + 1]

\* (verify_batch accepts at most one request with a receipt.)
UpdatedManifest(i) ==
  [view[i].m EXCEPT
     !.head = LastSeq(i),
     !.segs = @ \cup {[first |-> slot[i].seq, last |-> LastSeq(i)]},
     !.receipt = IF ReceiptSeqs(i) = {} THEN @ ELSE CHOOSE s \in ReceiptSeqs(i) : TRUE,
     !.rev = @ + 1]

ManifestWrite(i) ==
  [base |-> view[i].ver, m |-> UpdatedManifest(i), slot |-> slot[i], reqs |-> valid[i]]

\* Mutant of CommitManifest: the write is unconditional.
CommitManifestAnyway(i) ==
  /\ pc[i] = "cas"
  /\ PutManifest(UpdatedManifest(i))
  /\ hist' = hist \cup EntriesAt(slot[i].seq, valid[i])
  /\ done' = [done EXCEPT ![i] = [m |-> UpdatedManifest(i), ver |-> mver + 1]]
  /\ pc' = [pc EXCEPT ![i] = "mark"]
  /\ UNCHANGED <<log, snaps, marker, late, dels, nver, localVars, batch, valid, view, slot,
                 burned, probes, attempts, clientVars, faults>>

\* commit_manifest: the write takes effect and says so ...
CommitManifest(i) ==
  /\ pc[i] = "cas" /\ view[i].ver = mver
  /\ PutManifest(UpdatedManifest(i))
  /\ hist' = hist \cup EntriesAt(slot[i].seq, valid[i])
  /\ done' = [done EXCEPT ![i] = [m |-> UpdatedManifest(i), ver |-> mver + 1]]
  /\ pc' = [pc EXCEPT ![i] = "mark"]
  /\ UNCHANGED <<log, snaps, marker, late, dels, nver, localVars, batch, valid, view, slot,
                 burned, probes, attempts, clientVars, faults>>

\* ... or the bucket refuses it: the version is not the current one, or another
\* conditional write was under way (409), ...
CommitRefused(i) ==
  /\ pc[i] = "cas"
  /\ \/ view[i].ver # mver /\ UNCHANGED faults
     \/ view[i].ver = mver /\ StoreError
  /\ pc' = [pc EXCEPT ![i] = "drop"]
  /\ UNCHANGED <<bucketVars, localVars, batch, valid, view, slot, burned, probes, attempts,
                 done, clientVars, hist>>

\* ... or its answer is lost: it takes effect now, later, or never.
CommitLost(i) ==
  /\ pc[i] = "cas" /\ faults.cas < MaxLostCas
  /\ faults' = [faults EXCEPT !.cas = @ + 1]
  /\ late' = late \cup {ManifestWrite(i)}
  /\ pc' = [pc EXCEPT ![i] = "landed"]
  /\ UNCHANGED <<manifest, mver, log, snaps, marker, dels, nver, localVars, batch, valid,
                 view, slot, burned, probes, attempts, done, clientVars, hist>>

LandManifest ==
  \E w \in late :
    /\ late' = late \ {w}
    /\ IF w.base = mver
       THEN /\ PutManifest(w.m)
            /\ hist' = hist \cup EntriesAt(w.slot.seq, w.reqs)
       ELSE UNCHANGED <<manifest, mver, hist>>
    /\ UNCHANGED <<log, snaps, marker, dels, nver, localVars, pubVars, clientVars, faults>>

\* Mutant of CasLanded: takes it for granted that the write took effect.
CasLandedAssumed(i) ==
  /\ pc[i] = "landed"
  /\ done' = [done EXCEPT ![i] = [m |-> manifest, ver |-> 0]]
  /\ pc' = [pc EXCEPT ![i] = "mark"]
  /\ UNCHANGED <<bucketVars, localVars, batch, valid, view, slot, burned, probes, attempts,
                 clientVars, hist, faults>>

\* cas_landed: the write errored; does the manifest list our segment?
CasLanded(i) ==
  /\ pc[i] = "landed"
  /\ IF \E g \in manifest.segs : g.first = slot[i].seq
     THEN /\ done' = [done EXCEPT ![i] = [m |-> manifest, ver |-> 0]]
          /\ pc' = [pc EXCEPT ![i] = "mark"]
          /\ UNCHANGED <<batch, valid, view, slot, burned, probes, attempts, clientVars>>
     ELSE FinishErrors(i)
  /\ UNCHANGED <<bucketVars, localVars, hist, faults>>

\* mark_pending: wake the maintainer, best effort.
MarkPending(i) ==
  /\ pc[i] = "mark"
  /\ \/ marker' = TRUE /\ UNCHANGED faults
     \/ StoreError /\ UNCHANGED marker
  /\ pc' = [pc EXCEPT ![i] = IF done[i].ver = 0 THEN "recover" ELSE "local"]
  /\ UNCHANGED <<manifest, mver, log, snaps, late, dels, nver, localVars, batch, valid, view,
                 slot, burned, probes, attempts, done, clientVars, hist>>

\* recover_manifest_version: HEAD the manifest, best effort.
RecoverManifestVersion(i) ==
  /\ pc[i] = "recover"
  /\ \/ done' = [done EXCEPT ![i] = [m |-> done[i].m, ver |-> mver]] /\ UNCHANGED faults
     \/ StoreError /\ UNCHANGED done
  /\ pc' = [pc EXCEPT ![i] = "local"]
  /\ UNCHANGED <<bucketVars, localVars, batch, valid, view, slot, burned, probes, attempts,
                 clientVars, hist>>

\* commit_local, under sync_mutex: apply the batch to the local refs, then adopt
\* manifest, version and seq; saving the state file may fail.
InstallCommit(i) ==
  /\ done[i].ver # 0
  /\ refs' = [refs EXCEPT ![i] = ApplyEntries(@, EntriesAt(slot[i].seq, valid[i]))]
  /\ hm' = [hm EXCEPT ![i] = done[i].m]
  /\ hv' = [hv EXCEPT ![i] = done[i].ver]
  /\ applied' = [applied EXCEPT ![i] = LastSeq(i)]
  /\ \/ saved' = [saved EXCEPT ![i] = LastSeq(i)] /\ UNCHANGED faults
     \/ StoreError /\ UNCHANGED saved

\* Without a version, or when applying stopped half way, the version is
\* forgotten so that the next sync replays from the last applied seq.
ForgetVersion(i) ==
  /\ \/ /\ done[i].ver = 0 /\ UNCHANGED faults
        /\ refs' = [refs EXCEPT ![i] = ApplyEntries(@, EntriesAt(slot[i].seq, valid[i]))]
     \/ /\ StoreError
        /\ \E n \in 0..Len(valid[i]) :
             refs' = [refs EXCEPT ![i] = ApplyEntries(@, EntriesAt(slot[i].seq, SubSeq(valid[i], 1, n)))]
  /\ hv' = [hv EXCEPT ![i] = 0]
  /\ UNCHANGED <<hm, applied, saved>>

CommitLocal(i) ==
  /\ pc[i] = "local" /\ Unlocked(i)
  /\ InstallCommit(i) \/ ForgetVersion(i)
  /\ pc' = [pc EXCEPT ![i] = "sweep"]
  /\ UNCHANGED <<bucketVars, open, sync, batch, valid, view, slot, burned, probes, attempts,
                 done, clientVars, hist>>

\* sweep_burned: delete the burned orphans one by one, best effort ...
SweepBurned(i) ==
  /\ pc[i] = "sweep" /\ DeleteSettled(i)
  /\ \E b \in burned[i] :
       /\ burned' = [burned EXCEPT ![i] = @ \ {b}]
       /\ \/ CasDelete(i, b) /\ UNCHANGED faults
          \/ StoreError /\ UNCHANGED dels
  /\ UNCHANGED <<manifest, mver, log, snaps, marker, late, nver, localVars, pc, batch, valid,
                 view, slot, probes, attempts, done, clientVars, hist>>

\* ... then answer the batch.
Respond(i) ==
  /\ pc[i] = "sweep" /\ burned[i] = {} /\ DeleteSettled(i)
  /\ resp' = Answers(i)
  /\ ResetPublisher(i)
  /\ UNCHANGED <<bucketVars, localVars, queue, reader, since, hist, faults>>

\* drop_own_slot after a refused commit, best effort; then retry.
DropOwnSlot(i) ==
  /\ pc[i] = "drop"
  /\ \/ CasDelete(i, slot[i]) /\ UNCHANGED faults
     \/ StoreError /\ UNCHANGED dels
  /\ pc' = [pc EXCEPT ![i] = "dropped"]
  /\ UNCHANGED <<manifest, mver, log, snaps, marker, late, nver, localVars, batch, valid,
                 view, slot, burned, probes, attempts, done, clientVars, hist>>

RetryAfterDrop(i) ==
  /\ pc[i] = "dropped" /\ DeleteSettled(i)
  /\ Contended(i)
  /\ UNCHANGED <<bucketVars, localVars, hist, faults>>

\* A DELETE times out for good; the request itself is still under way.
AbandonDelete(i) ==
  /\ ~DeleteSettled(i)
  /\ StoreError
  /\ dels' = Unheld(i)
  /\ UNCHANGED <<manifest, mver, log, snaps, marker, late, nver, localVars, pubVars,
                 clientVars, hist>>

-----------------------------------------------------------------------------
(* Crashes *)

Waiting(i) == Elements(batch[i]) \cup {queue[i][k].req : k \in DOMAIN queue[i]}

\* The process dies; its clients see the connection break.  A manifest write it
\* had sent may still take effect.  The local copy is still on disk, or the next
\* process starts without one.
Crash(i) ==
  /\ faults.crash < MaxCrashes
  /\ faults' = [faults EXCEPT !.crash = @ + 1]
  /\ open' = [open EXCEPT ![i] = FALSE]
  /\ hm' = [hm EXCEPT ![i] = NewManifest]
  /\ hv' = [hv EXCEPT ![i] = 0]
  /\ sync' = [sync EXCEPT ![i] = NoSync]
  /\ \/ applied' = [applied EXCEPT ![i] = saved[i]] /\ UNCHANGED <<refs, saved>>
     \/ /\ refs' = [refs EXCEPT ![i] = NoRefs]
        /\ saved' = [saved EXCEPT ![i] = 0]
        /\ applied' = [applied EXCEPT ![i] = 0]
  /\ AnswerAll(Waiting(i), "error")
  /\ ResetPublisher(i)
  /\ queue' = [queue EXCEPT ![i] = <<>>]
  /\ reader' = [reader EXCEPT ![i] = NoReader]
  /\ dels' = Unheld(i)
  /\ \/ UNCHANGED late
     \/ pc[i] = "cas" /\ late' = late \cup {ManifestWrite(i)}
  /\ UNCHANGED <<manifest, mver, log, snaps, marker, nver, since, hist>>

-----------------------------------------------------------------------------

\* A repository that was just created and opened by every instance.
Init ==
  /\ manifest = NewManifest /\ mver = 1
  /\ log = {} /\ snaps = {} /\ marker = FALSE /\ late = {} /\ dels = {} /\ nver = 1
  /\ open = [i \in Instances |-> TRUE]
  /\ hm = [i \in Instances |-> NewManifest]
  /\ hv = [i \in Instances |-> 1]
  /\ refs = [i \in Instances |-> NoRefs]
  /\ applied = [i \in Instances |-> 0]
  /\ saved = [i \in Instances |-> 0]
  /\ sync = [i \in Instances |-> NoSync]
  /\ reader = [i \in Instances |-> NoReader]
  /\ queue = [i \in Instances |-> <<>>]
  /\ pc = [i \in Instances |-> "idle"]
  /\ batch = [i \in Instances |-> <<>>]
  /\ valid = [i \in Instances |-> <<>>]
  /\ view = [i \in Instances |-> NoView]
  /\ slot = [i \in Instances |-> NoSlot]
  /\ burned = [i \in Instances |-> {}]
  /\ probes = [i \in Instances |-> 0]
  /\ attempts = [i \in Instances |-> 0]
  /\ done = [i \in Instances |-> NoView]
  /\ resp = [r \in Requests |-> NoAnswer]
  /\ since = [r \in Requests |-> -1]
  /\ hist = {}
  /\ faults = [crash |-> 0, store |-> 0, cas |-> 0]

ClientStep(i) ==
  \/ \E r \in Requests : PublishPush(i, r) \/ PublishPushSynced(i, r)
  \/ StartRead(i) \/ FinishRead(i)

SyncStep(i) == OpenRepo(i) \/ SyncDone(i) \/ SyncFailed(i)

PublisherStep(i) ==
  \/ TakeBatch(i) \/ PublisherSync(i) \/ VerifyBatch(i)
  \/ ClaimLogSlot(i) \/ ClaimFailed(i) \/ ProbeManifest(i) \/ ProbeHead(i) \/ ProbeFailed(i)
  \/ CommitManifest(i) \/ CommitRefused(i) \/ CommitLost(i) \/ CasLanded(i)
  \/ MarkPending(i) \/ RecoverManifestVersion(i) \/ CommitLocal(i)
  \/ SweepBurned(i) \/ Respond(i)
  \/ DropOwnSlot(i) \/ RetryAfterDrop(i) \/ AbandonDelete(i)

Next ==
  \/ \E i \in Instances : ClientStep(i) \/ SyncStep(i) \/ PublisherStep(i) \/ Crash(i)
  \/ LandDelete
  \/ LandManifest

Spec == Init /\ [][Next]_vars

\* Fairness: a process that is up keeps running its own steps, the bucket
\* answers, and what is under way takes effect.  Clients need not come, and
\* faults need not happen.
Fairness ==
  /\ \A i \in Instances :
       WF_vars(\/ TakeBatch(i) \/ PublisherSync(i) \/ VerifyBatch(i) \/ ClaimLogSlot(i)
               \/ ProbeManifest(i) \/ ProbeHead(i)
               \/ CommitManifest(i) \/ CommitRefused(i) \/ CasLanded(i) \/ MarkPending(i)
               \/ RecoverManifestVersion(i) \/ CommitLocal(i) \/ SweepBurned(i) \/ Respond(i)
               \/ DropOwnSlot(i) \/ RetryAfterDrop(i) \/ SyncDone(i) \/ SyncFailed(i))
  /\ WF_vars(LandDelete)

FairSpec == Spec /\ Fairness

-----------------------------------------------------------------------------
(* Properties *)

BucketTypeOK ==
  /\ manifest \in Manifests /\ mver \in Nat /\ nver \in Nat
  /\ log \subseteq LogObjects
  /\ snaps \subseteq [seq : Nat, refs : RefMaps]
  /\ marker \in BOOLEAN
  /\ late \subseteq [base : Nat, m : Manifests, slot : Slots, reqs : Batches]
  /\ dels \subseteq [seq : Nat, ver : Nat, by : Instances, held : BOOLEAN, left : Nat]
  /\ hist \subseteq Entries
  /\ faults \in [crash : Nat, store : Nat, cas : Nat]

LocalTypeOK ==
  /\ open \in [Instances -> BOOLEAN]
  /\ hm \in [Instances -> Manifests] /\ hv \in [Instances -> Nat]
  /\ refs \in [Instances -> RefMaps]
  /\ applied \in [Instances -> Nat] /\ saved \in [Instances -> Nat]
  /\ sync \in [Instances -> [by : {"none", "reader", "publisher", "open", "checkpoint"},
                         m : Manifests, ver : Nat]]

PublisherTypeOK ==
  /\ pc \in [Instances -> Steps]
  /\ batch \in [Instances -> Batches] /\ valid \in [Instances -> Batches]
  /\ view \in [Instances -> [m : Manifests, ver : Nat]]
  /\ slot \in [Instances -> Slots]
  /\ burned \in [Instances -> SUBSET Slots]
  /\ probes \in [Instances -> 0..GraceProbes]
  /\ attempts \in [Instances -> 0..(MaxRetries - 1)]
  /\ done \in [Instances -> [m : Manifests, ver : Nat]]

ClientTypeOK ==
  /\ reader \in [Instances -> [pc : {"idle", "sync", "read"}, acked : SUBSET Nat, since : Nat]]
  /\ queue \in [Instances -> Seq([req : Requests, synced : BOOLEAN])]
  /\ resp \in [Requests -> [kind : {"none", "ok", "rejected", "error"}, seq : Nat]]
  /\ since \in [Requests -> Nat \cup {-1}]

\* Every variable has its type; attempts and probes stay within the limits that
\* process_batch and claim_log_slot set them.
TypeOK == BucketTypeOK /\ LocalTypeOK /\ PublisherTypeOK /\ ClientTypeOK

\* What a replay of the listed log segments reads.
ListedEntries ==
  UNION {EntriesAt(o.seq, o.reqs) :
           o \in {p \in log : \E g \in manifest.segs : g.first = p.seq}}

\* The log a cold instance replays is the committed history: every segment the
\* manifest lists is in the bucket and they hold the entries committed since the
\* checkpoint, no more and no less.  (claim_log_slot, drop_own_slot, sweep_burned:
\* no cleanup deletes or replaces a segment somebody committed.)
LogComplete ==
  /\ \A g \in manifest.segs : ObjectAt(g.first) # {}
  /\ ListedEntries = {e \in hist : e.seq > manifest.ckpt}

\* Whoever was told "ok, seq n" has its transaction at seq n of that log
\* (respond; also when the commit was recognised only by cas_landed).
AckedCommitted ==
  \A r \in Requests :
    resp[r].kind = "ok" => [seq |-> resp[r].seq, req |-> r] \in hist

\* A push enters the log at most once, and never after its client was told it was
\* rejected, whatever was retried or took effect late (process_batch).
CommittedOnce ==
  /\ \A e, f \in hist : e.req = f.req \/ e.seq = f.seq => e = f
  /\ \A e \in hist : resp[e.req].kind # "rejected"

RefsAt(s) == ApplyEntries(NoRefs, {e \in hist : e.seq <= s})

\* Linearizable pushes: each committed transaction found, in the log before it, the
\* values it expects (verify_batch under the manifest CAS: no lost update).
NoLostUpdate == \A e \in hist : VerifyTxn(e.req, RefsAt(e.seq - 1))

\* A push that needs a pristine repository is the very first entry of the log
\* (is_pristine, re-checked on every attempt and inside the batch).
ReceiptFirst ==
  \A e \in hist : e.req \in Receipts =>
    /\ \A f \in hist : e.seq <= f.seq
    /\ manifest.receipt = e.seq

\* A push is rejected only if at some moment after it arrived the committed refs
\* disagreed with what it expects (or the repository was not pristine).
RejectionJustified ==
  \A r \in Requests : resp[r].kind = "rejected" =>
    \E s \in since[r]..HeadSeq :
      \/ ~VerifyTxn(r, RefsAt(s))
      \/ r \in Receipts /\ \E e \in hist : e.seq <= s

\* A request that synced reads refs at least as new as every push acknowledged
\* before it started, on any instance (sync_refs: read-after-write).
ReadsSeeAcked ==
  \A i \in Instances : reader[i].pc = "read" =>
    \E s \in 0..HeadSeq : /\ \A t \in reader[i].acked : t <= s
                          /\ refs[i] = RefsAt(s)

\* A handle whose version is the current one (its next freshness check is a 304)
\* holds the current refs.
CurrentVersionCurrentRefs ==
  \A i \in Instances :
    open[i] /\ Unlocked(i) /\ hv[i] = mver => refs[i] = RefsAt(HeadSeq)

\* Whoever arrives is answered: the retry loop, the probes and the burning end, and
\* no request stays in a queue.
EveryPushAnswered ==
  \A r \in Requests : since[r] # -1 ~> resp[r].kind # "none"

\* A manifest write never takes the log back (updated_manifest): head and revision
\* only grow, and a listed segment leaves the list only below the checkpoint.
LogOnlyGrows ==
  [][/\ manifest'.head >= manifest.head
     /\ manifest' # manifest => manifest'.rev > manifest.rev
     /\ \A g \in manifest.segs \ manifest'.segs : g.last <= manifest'.ckpt]_vars
=============================================================================
