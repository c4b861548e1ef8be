# A TLA+ model of gitcask

gitcask serves git repositories from stateless processes. The bucket is the only
thing that persists: each repository is a write-ahead log of ref transactions
there, and every process keeps a disposable local copy. This directory models the
protocols by which processes that share nothing but the bucket append to that log,
follow it, fold it, compact it and clean up after it. TLC checks the models on small
instances, and TLAPS proves the central results for any number of processes,
requests and faults.

## Results in short

* The publish protocol keeps its log complete and its answers true under crashes,
  late writes, failed calls and races, and pushes are linearizable: it implements a
  log of atomic ref transactions. TLC checks this on small instances. TLAPS proves it
  in general, under the hypotheses `NoAmbiguity` and, for what rests on local copies,
  `Undisturbed`, both explained below.
* Leases exclude each other while clocks agree to within the code's tolerance, except
  that a DELETE which lands late or twice can remove the lease of a successor: the
  properties say exactly which DELETE, and whose guard is no longer exclusive then.
  Checked and proved; without such DELETEs the lease is exclusive, which is proved.
* The events bridge delivers in order and its cursor passes nothing undelivered that the
  log still holds: checked and proved. It does not count every gap, as its documentation
  says it does; the one case in which it fails to is identified by a theorem.
* Garbage collection deletes nothing that the manifest or the retention needs, but for
  packs and checkpoints that come back while they are about to be deleted; no compaction
  loses content, and maintenance is invisible to those who follow the log: checked and
  proved, and so is that it leaves nothing due behind. That it converges is checked.
* Four schedules break a promise the repository's own text makes, and each has a run
  that shows the trace; these and others without a run are under "Disagreements". What
  else the passing runs leave out is under "Limits of the passing runs".

## The system and its parts

| Part | State | Operations | What is hard | What makes it correct |
|---|---|---|---|---|
| Publisher (`gitcask-wal/publish.rs`) | queue, batch, claimed slot, attempts | enqueue, batch, verify, claim, CAS, install, clean up, answer | other writers between any two bucket calls; a CAS with an unknown outcome | the log is complete; "ok" means committed; at most once; linearizable |
| Sync (`sync.rs`, `handle.rs`) | manifest, version, refs, applied seq | freshness check, replay, adopt | a stale fetch arriving after a local commit | a read sees every push acknowledged before it |
| Checkpoint (`checkpoint.rs`) | snapshot, manifest it started from | snapshot, CAS, install | no lock between its reads; two of them at once | a cold start gives the committed refs |
| State file, registry (`state.rs`, `registry.rs`) | applied seq on disk; open handles | save, load; open, create, evict | crash between refs and state file | replay is idempotent |
| Bucket (`gitcask-store`) | objects with versions | conditional PUT, GET, HEAD, DELETE, LIST | S3 has no conditional DELETE, and equal content has an equal version; retries | create-if-absent and CAS are atomic |
| Leases (`coord.rs`) | holder, expiry, version | acquire, heartbeat, release | clocks that differ; expiry; lost answers; a DELETE that lands late | one valid guard; a valid lease goes only by a late DELETE |
| Compaction (`publish.rs`, `ops.rs`) | pack list | fold, supersede | it folds from an older manifest than it commits to | no pushed content leaves the pack list |
| Garbage collection (`gc.rs`) | plan, `gc.pb` | load, plan, re-check, delete, record | writers between any two of these, and between HEAD and DELETE | nothing listed or retained is deleted |
| Maintainer (`maintain.rs`) | pending marker, pass | list, plan, run units, delete the marker | a push that marks during a pass; two maintainers | a marked push is planned for; the queue empties |
| Events bridge (`bridge.rs`, `events.rs`) | cursor | catch up, publish, advance | failure between publish and cursor; a checkpoint overtaking the cursor; two bridges | at least once, in order, nothing readable skipped |
| Request paths (`smart.rs`, `web/api`) | none of their own | sync, read, enqueue | client gone half way | as for the log |

The remaining parts (formats, configuration, authentication, telemetry, command
line) keep no state that several actors share. `PROJECT.json` lists every part,
and every hazard at its line.

How they interact: a request syncs its instance's copy and reads it, or enqueues a
transaction with the instance's publisher. The publisher writes `log/<seq>.pb` with
create-if-absent, then replaces `manifest.pb` by compare-and-swap. That swap is the
commit. Then it puts the empty object `pending/<owner>/<repo>`. A maintainer that
lists the marker runs checkpoints and compactions, which are further manifest swaps,
audits, and garbage collection, most of them under a lease. The bridge follows the
log with a cursor and is woken by bucket notifications and by a sweep.

## Modules

* `RefTxn`: transactions, `VerifyTxn` (`verify_txn`), entries of a segment, and
  `ApplyEntries`, replay in sequence order. Names and object ids are opaque.
* `RefLog`: the abstract specification of the log. One total order; a batch enters in
  one atomic step, valid on top of what precedes it; answers agree with the log.
* `WalPublish`: the publish protocol. Extends `RefTxn`.
* `WalRefinement`: the mapping of `WalPublish` to `RefLog`.
* `WalCheckpoint`: extends `WalPublish` with `write_checkpoint_inner`.
* `RepoFeed`: a repository as its followers see it: a window of entries that pushes
  and compactions extend and checkpoints fold, and a marker.
* `EventsBridge`: extends `RepoFeed` with the bridge, so it is checked against every
  repository `RepoFeed` allows.
* `Maintainer`: pushes, markers and maintenance. Implements `RepoFeed`, which is what
  lets the bridge be checked without it.
* `GarbageCollection`: packs, log objects and checkpoints in the bucket, the writers
  that list them and the collector that deletes them.
* `Lease`: the lease object and its guards.
* `MC...`: transactions, model values and symmetry for TLC.
* `WalInvariants` and `WalAnswerInvariants`: the invariants behind the theorems about
  `WalPublish`. `WalFacts`: lemmas about batches, manifests and replay. On these build
  `WalDurabilityProofs`, `WalOrderProofs`, `WalCopyProofs` and `WalAnswerProofs`, and
  `WalProofs` has the theorems.
* `MaintenanceProofs` (leases and maintenance) and `BackgroundProofs` (garbage
  collection and events): the other proofs.

### State and steps of WalPublish

Bucket: `manifest` and `mver` (its ETag), `log` (the segments), `snaps`, `marker`,
`late` (manifest writes with no answer), `dels` (DELETEs under way). Instance: `hm`
and `hv` (the handle's manifest and version), `refs`, `applied`, `saved`, and `sync`,
which is also `sync_mutex`. Publisher: `pc` and the local variables of
`process_batch`. `resp`, `since`, `hist` and `faults` are the clients' view, the
history and the faults used up.

Each bucket call of the code is one step, so others may act between any two.

| Code | Steps |
|---|---|
| `enqueue_publish_at`, `publish_push_synced` | `PublishPush`, `PublishPushSynced` |
| `publisher_task` | `TakeBatch` |
| `sync_impl`, `sync_locked_inner`, `apply_delta` | `PublisherSync`, `StartRead`, `OpenRepo`, then `SyncDone` or `SyncFailed` |
| `verify_batch` | `VerifyBatch` |
| `claim_log_slot` | `ClaimLogSlot`, `ProbeManifest`, `ProbeHead`, `ClaimFailed`, `ProbeFailed` |
| `commit_manifest`, `cas_landed` | `CommitManifest`, `CommitRefused`, `CommitLost`, `LandManifest`, `CasLanded` |
| `mark_pending`, `commit_local` | `MarkPending`, `RecoverManifestVersion`, `CommitLocal` |
| `sweep_burned`, `respond` | `SweepBurned`, `Respond` |
| `drop_own_slot` and the retry | `DropOwnSlot`, `RetryAfterDrop` |
| `S3Store::delete` | `CasDelete`, `LandDelete`, `AbandonDelete` |

A CAS is atomic and answers at once, is refused (412, or 409 when another conditional
write is under way), or loses its answer and takes effect now, later or never. A
DELETE is HEAD, compare and a DELETE that hits whatever the key holds when it lands.
A crash keeps or loses the local copy and breaks the clients' connections.

Abstractions: packs, timestamps and metadata are left out, so a pack upload is only
a way for the claim to fail and `created_at` ordering is not checked;
`freshness_ttl` is 0, the default; the batching window is a free choice of batch
length; ref application is one step under the mutex; a repository starts created and
open everywhere. `MaxRetries`, `GraceProbes`, `MaxBurn`, `MaxBatch` and
`DeleteRetries` are the code's limits, taken small for TLC. `MaxCrashes`,
`MaxStoreErrors`, `MaxLostCas` and `MaxCheckpoints` bound the faults of a run.

### State and steps of the other modules

`Lease`. The object is `lease` (version, holder, expiry); `guard` is `try_acquire` and
the `LeaseGuard` of each instance; each instance has a clock of its own. `dels` are the
DELETEs that may still land. `robbed` and the field `gone` of a DELETE are history: the
holders whose lease was deleted under their guard, and whether the lease a DELETE is for
has been deleted.

| Code | Steps |
|---|---|
| `try_acquire` | `ReadClock`, `ReadLease`, `TryAcquire` |
| `heartbeat`, `spawn_heartbeat` | `Heartbeat` |
| `release`, `Drop` | `Release` (up to the HEAD), `Crash` |
| `S3Store::delete` after the HEAD, its retries | `LandDelete` |

`EventsBridge`. `cursor` is `events/cursor.json`, `br` the local variables of
`catch_up`, `notified` a bucket notification on its way, `cached` the working set the
sweep goes over. `delivered`, `counted`, `cold` and `overtaken` are history: events the
webhook has received, entries counted as a gap, entries below the start of a bridge that
had no cursor, and entries folded between the manifest a catch-up looked at and the one
`read_log` reads.

| Code | Steps |
|---|---|
| `object_finalized`, `sweep` | `Notify`, `Sweep` |
| `catch_up` | `ReadCursor`, `ReadLog` (`read_log_impl`), `Deliver` (`publish`), `WriteCursor`; `Fail` at any point |
| `evict_idle` | `Evict` |
| writers of the repository | `ManifestWritten`, `MarkerMoves`, the steps of `RepoFeed` |

`Maintainer`. `manifest` has the head, the checkpoint and the packs with tier and
size; `marker` says whether the pending marker is there, and `stray` are DELETEs of it
that nobody waits for any more; `mt` is `run_marker` of each maintainer; `audited` and
`gc` are `fsck.pb` and `gc.pb`. Markers are empty, so on S3 they all have one version, and
a HEAD cannot tell them apart. `lost`, `crossed` and `settled` are history: pushes whose
marker never reached the bucket, pushes whose marker was put after an idle plan and before
the DELETE that follows it could no longer land, and the newest head for which a marker
was deleted.

| Code | Steps |
|---|---|
| a push, `mark_pending` | `Push`, `MarkPending`, `LoseMark` |
| `list_pending` | `ListPending` |
| `next_unit`, the loop of `run_marker` | `NextUnit`, with `Due` for the plan and `AfterPlan` for what follows it |
| `run_unit` and the op it runs | `StartUnit`, `LeaseCompaction`, `FinishUnit` (`Checkpoint`, `Compact`, `Fsck`, `Gc`) |
| `delete_marker` | `HeadMarker`, `DeleteMarker`, `LandStray` |
| drain, a failed plan or unit, a lost answer | `Abandon` |

`Rollup` is git's geometric rule, modelled from how `compact_repo` uses it. Every
maintainer has the compact role, and checkpoints and compaction are enabled: where
`next_unit` skips a unit for want of these (`maintain.rs:205`, `216`), the marker goes
although the unit is due, and a host that has them finds it only after the next push.

`GarbageCollection`. `wal`, `log`, `ckpts` and `snaps` are the packs, segments,
checkpoints and ref snapshots in the bucket; `push`, `folds` and `point` what writers
have uploaded and not yet listed; `cl` is `collect_under_lease`; `adrift` are DELETEs
that may land whatever becomes of their collector. A pack is named by what it holds, as
its checksum is. `reused`, `rewritten` and `pushed` are history: packs that came back
after a compaction superseded them, checkpoints written again while a DELETE of them is
under way (`UnderWay`), and content that was pushed.

| Code | Steps |
|---|---|
| `put_immutable_create` and the commit | `UploadPush`, `CommitPush`; `UploadFold`, `CommitFold` |
| `write_checkpoint_inner` | `WriteCheckpoint`, `CommitCheckpoint` |
| `collect_under_lease` | `Load`, `Plan`, `Recheck`, `DeletePack`, `DeleteLog`, `HeadCheckpoint`, `RefuseCheckpoint`, `DeleteCheckpoint`, `DeleteSnapshot`, `Finish`, `AbandonCollect` |
| retries of a DELETE | `LoseAnswers`, `LandAdrift` |

Of the objects a collector deletes only `checkpoint.pb` ever gets another content under
its key, so only there are HEAD and DELETE two steps: for the others the HEAD always finds
the planned version or nothing.

In `Maintainer` and `GarbageCollection` a commit is one step, its slot claim, CAS and
retries included: that they amount to one atomic append is what `WalPublish` is about.

## Runs

| Run | Instance | Checks |
|---|---|---|
| `publish_faults` | 2 publishers, 3 pushes one of which needs a pristine repository, batches of 2, 1 crash, 1 failed call | `TypeOK`, `LogComplete`, `AckedCommitted`, `CommittedOnce`, `ReceiptFirst`, `RejectionJustified`, `CurrentVersionCurrentRefs`, `LogOnlyGrows`, and `ImplementsRefLog` |
| `publish_reads` | 1 publisher, 2 readers, a deletion and a symbolic update, repeated DELETE, 1 crash, 1 lost CAS answer | `ReadsSeeAcked`, `NoLostUpdate`, `AckedCommitted` |
| `publish_live` | 2 publishers, 3 pushes, batches of 2, 1 failed call, fair | `EveryPushAnswered` |
| `checkpoint` | 2 publishers, 1 separate checkpointer, 2 checkpoints, 1 crash, 1 failed call | `CheckpointTypeOK`, `ColdStartCurrent`, `CurrentVersionCurrentRefs`, `FoldingOnlyGrows` |
| `lease` | 3 holders, clocks 1 apart with tolerance 1, TTL 2, instants 0 to 4, 3 writes, any number of late or repeated DELETEs | `LeaseTypeOK`, `OneHolder`, `NotRippedAway` |
| `events` | 2 bridges, 2 entries, 1 failed catch-up, fair | `EventsTypeOK`, `WindowDelivered`, `DeliveredInOrder`, `EventuallyPublished` |
| `maintain` | 2 maintainers, 2 pushes of sizes 1 or 2, 1 lost marker, abandoned pass or lost answer, fair | `MaintainerTypeOK`, `PushesPlanned`, `TriggersServed`, `ImplementsFeed`, `Converges` |
| `collect` | 1 collector, 3 contents, 2 compactions at a time, 4 manifest writes, 1 writer or collector that gives up, or lost answers | `CollectTypeOK`, `ListedPresent`, `RetainedRecoverable`, `ContentListed` |

The bounds are the smallest in which every step of the model happens. For the log:
two writers for a contended slot, a crash that leaves an orphan, `MaxBurn = 2` to burn
it, `GraceProbes = 2` to probe twice, two attempts so that a retry and its limit both
occur, three pushes so that one can conflict with or build on another. For leases:
time for a lease to expire and be taken over past the tolerance, a DELETE to land on the
lease of a successor, and a third holder to acquire what it removed. For
events: one entry to fold under a bridge and one to deliver after it. For maintenance:
two pushes reach the trigger of a compaction by bytes (sizes 1 and 2) and, with the
entry it adds, that of a checkpoint. For collection: two pushes to fold and a third that
a compaction working on an older manifest has not seen, two compactions at once, a
checkpoint that can be written twice, and one instant for the retention to pass.

Deadlock is not checked where everything may be done and at rest: when every push is
answered, every marker served, or time and writes are used up. `events` checks it.

Fairness:

* `publish_live`: weak fairness of each instance's publisher and sync steps together,
  and of DELETEs landing. A tokio task that can run is polled again, and a bucket call
  returns or fails. Clients and faults are not fair, and crashes are excluded there
  because a crash answers its clients itself.
* `events`: weak fairness of a running catch-up and of the delivery of a notification.
  `http_notify` answers 503 until a catch-up succeeds, and the bucket's notification
  service sends again. The sweep is not assumed.
* `maintain`: weak fairness of a running pass, of listing again (`run_loop` does so
  every interval), and of `mark_pending` once it is reached. Failed passes are bounded
  by `MaxFaults`, passes that give way to a lease or a changed manifest are not.

### Limits of the passing runs

Outside these limits the code behaves differently; where there is a run that shows
it, "Disagreements" names it.

* `publish_reads` has one publisher (`overtaken_install`), `publish_faults` no lost
  CAS answer (`lost_answer`) and no repeated DELETE: the DELETE of `drop_own_slot` sits
  inside `with_retry`, and one that took effect and is sent again removes the segment
  another writer committed under that key (`s3.rs:549`), although `publish.rs:293-294`
  says "only the version we wrote; never anything a later writer put there".
* In `checkpoint` the checkpointer does not publish (`torn_checkpoint`), and there is
  one at a time. The checkpoint lease is meant to see to that, but nothing renews it:
  `spawn_heartbeat` has no caller. A checkpoint that is retried after a newer one
  landed puts the older snapshot over a list of segments trimmed for the newer
  (`checkpoint.rs:203-208`), and a cold start then misses entries.
* In `Maintainer` a unit ends before its lease expires, for the same reason.
* `PushesPlanned` exempts `crossed` pushes: those that mark while a pass that has found
  nothing due is about to delete the marker, or a DELETE of it may still land. The
  conditional delete is meant for just these; that it does not help them on S3 is
  `lost_marker`.
* `OneHolder` exempts `robbed` holders. `S3Store::delete` is a HEAD, a comparison and a
  DELETE without condition inside `with_retry` (`s3.rs:531-566`). A release that is
  delayed between the two until its lease has run out, or a DELETE that is sent again
  after it took effect, removes the lease somebody else has acquired meanwhile; a third
  instance then creates the object anew, and two guards are valid. The comment there
  names the race and calls it "Acceptable for gitcask's lease-guarded semantics", which
  is no answer where the object is the lease. `NotRippedAway` says that only such a DELETE
  takes a valid lease away, and `ExclusiveIfPrompt` that without one nobody is robbed.
* `TriggersServed` speaks of the head for which the marker was deleted. `compact_repo`
  looks at the manifest before it takes its lease, so a second maintainer may commit a
  compaction after the marker is gone; the collection this makes due waits for the next
  push if that maintainer dies.
* `Converges` has an exception: `fold_due` counts fresh packs, git decides by size. A
  fresh pack at least `factor` times as large as another stays unfolded, the
  compaction is planned again at once, and `run_marker` does not leave its loop.
* `WindowDelivered` speaks of entries that are still in the log. Of those that were folded
  `DeliveredInOrder` allows three kinds to be missing: counted as a gap, below the start of
  a bridge without a cursor (`cold`), and `overtaken`. The last are folded between the
  manifest a catch-up looked at and the one `read_log` reads, and are passed by the cursor
  without a gap being reported; see "Disagreements".
* `ListedPresent` and `RetainedRecoverable` exempt `reused` packs: content that comes
  back after a compaction superseded it. Create-if-absent and the HEAD of
  `put_immutable_create` find the old object, and a collector that has planned its
  deletion deletes it afterwards; a conditional delete does not help, the content and so
  the ETag are the same. Writers are assumed to list what they uploaded within the
  retention (`InTime`; the default is 7 days).
* They exempt likewise a `rewritten` checkpoint. A checkpoint whose writer died before its
  manifest swap is garbage to a collector; when the retention has passed and the next
  writer is at the same seq it writes both objects again, each with a plain PUT
  (`checkpoint.rs:176-187`). The ref snapshot holds the same refs, so on S3 it has the same
  ETag and is deleted under the checkpoint that is about to be listed. `checkpoint.pb` holds
  the time, so it has a new version, and a HEAD that comes after the PUT makes the collector
  give up; but one overwritten between HEAD and DELETE, or before a repeated DELETE, is
  deleted as well. `checkpoint.rs:169-170` says of that writer that it "leaves garbage,
  never a hazard"; a cold start that meets the missing snapshot skips it (`sync.rs:329`).
* A collection that fails after it deleted a COMPACT entry and before the packs it
  superseded leaves these for good: no later plan finds them superseded. This leaks
  space and breaks none of the properties.
* `collect` runs one collector. The model allows several, as the lease may expire; two
  are beyond TLC's reach at these bounds, and are covered by the theorems.

## Disagreements

| Run | Promise | What happens |
|---|---|---|
| `lost_answer` | `publish.rs:1` "linearizable CAS with batching" | another instance commits on top of a CAS whose answer was lost; `cas_landed` re-reads that newer manifest, and `commit_local` installs it with its version over refs that have only its own transactions; the next push is verified against these and overwrites the other's |
| `overtaken_install` | `README.md:41` "immediately visible on all of them" | a sync overtakes `commit_local`, which puts its own older manifest and refs back |
| `torn_checkpoint` | `publish.rs:848-849` "must not pair an older manifest with a newer CAS version" | the checkpoint reads the two without `sync_mutex` and takes a commit back |
| `lost_marker` | `gitcask-server/tests/maintain.rs:793` "the newer push marker must remain" | on S3 the version is the MD5 of the content and markers are empty: the HEAD after the last plan accepts a marker put again since, and the DELETE removes it |

Each is a schedule of a few steps; how likely it is, the model does not say. The test
that `lost_marker` quotes runs this very race on `MemoryStore`, whose versions are
unique, and passes there.

Three have no run of their own. `docs/EVENTS.md:20-23` says of entries that were folded
before the bridge read them that they are "counted (`events_bridge_gap_total`) and warned,
never silently repaired". `catch_up` looks for a gap in the manifest it has read
(`bridge.rs:100-142`), and `read_log` fetches a fresh one and returns what that still lists
(`log_reader.rs:20-24`). Entries that a checkpoint folds in between are neither delivered
nor counted, and the cursor passes them: a push, a notification, the manifest read, the
fold, a log without the entry, the cursor at the head. `GapsCounted` in `EventsBridge`
states the promise. It is not an invariant; `GapsCountedIfSettled` proves that this is the
only schedule that breaks it.

The other two are smaller. `handle.rs:610-611` says an empty `old_oid` skips the
check; `verify_txn` takes it to mean the ref must not exist. `wal.proto:41-42` calls
the segments contiguous; a burned seq leaves a hole.

## Proofs

### The log

The theorems about `WalPublish` are in `WalProofs`; the other modules prove, step by
step, that the invariants they rest on are preserved. `WalFacts` has what they share.

`TypeCorrect == Spec => []TypeOK` (`WalCopyProofs`). The strengthening says that a
publisher past verification has a non-empty list of accepted requests. That replay gives a
ref map needs `Replayable`: entries with bounded seqs have a latest one. It is a hypothesis
of the lemmas, and `Replays` proves it (`WalProofs`, by well-foundedness).
`CheckpointTypes == CheckpointSpec => []CheckpointTypeOK` says the same with any number of
checkpoint writers beside the publishers: what they fold and propose are ref maps and
manifests, and none retries more often than `cas_max_retries` says.

The lemmas of `WalDurabilityProofs` give, all under
`NoAmbiguity == DeleteRetries = 0 /\ MaxLostCas = 0`:

* `Durable`: `LogComplete` always holds.
* `Acknowledged`: `AckedCommitted` always holds.
* `OnlyGrows`: `LogOnlyGrows`.

The hypothesis says that a DELETE is sent once and that a publisher which lives on
learns the outcome of its CAS. S3 does not guarantee it: `max_retries` is positive by
default and a request may time out. What happens without the first half is described
under "Limits of the passing runs", without the second it is the run `lost_answer`
(through `NoLostUpdate`). Crashes are not restricted, nor is a crashed publisher's
write that lands at any later time, nor are failed calls with a known outcome.

`LogComplete` is not inductive. `IInv` (in `WalInvariants`) adds what the argument
needs:

* `ViewsInv`: every manifest held anywhere is the current one or has a smaller
  revision, and nobody pairs an old manifest with the current version. So a CAS that
  succeeds appends to the current manifest.
* `VersionsInv`: one object per key, versions are never reused, and no two owners
  hold the same slot.
* `ClaimsInv`: a claim that can still commit has its segment in the bucket above the
  head; burned slots end up below the head and unlisted.
* `DeletesInv`: a DELETE under way is for an unlisted key below the head, or still
  for the object its sender meant, which nobody can commit any more. This is what a
  repeated DELETE breaks.
* `SegmentsInv`: the listed segments are in the bucket and hold the history.

The proof takes the claims, the DELETEs, the two ways a manifest write takes effect
(`AppendStep`), and the steps that leave the bucket alone (instances of `QuietStep`).

### The order of pushes

`Once == NoAmbiguity /\ Spec => []CommittedOnce` (`WalOrderProofs`). The invariant
`OrderInv` follows a push through the queues, batches and writes under way:

* It waits at one instance and at one place of its queue or batch, and has no answer
  there; a push in no queue yet is nowhere (`WaitingInv`).
* A push in the log waits with the publisher that committed it, or was told "ok" or
  "error" (`Told`). So a batch that is not committed, whose pushes all wait without an
  answer, brings nothing that is in the log.
* A crash answers a batch with an error and may leave its write under way. Such a write
  brings nothing that is in the log as long as its version is the current one
  (`LateNew`). Several writers may hope for the same version; the first commit moves it,
  and the others are void.

### Local copies

`Current == NoAmbiguity /\ Spec /\ [][Undisturbed]_vars => []CurrentVersionCurrentRefs`
(`WalCopyProofs`). `Undisturbed` says of a step that `commit_local` fails, if
it does, only where no sync of the same instance has applied the batch before it. Where a
sync has, the copy goes back behind the version it holds: the run `overtaken_install`
shows it. A store without errors meets the hypothesis: `Faultless == NoAmbiguity /\
MaxStoreErrors = 0 /\ Spec => [][Undisturbed]_vars`. `CopyInv` is the invariant:

* `Mirrors`: each ref of a copy at seq `s` has the value that the entries up to `s` give
  it, or a later entry sets it. The second case is what a failing install or a sync that
  stopped half-way leaves behind; the next sync applies that entry again, with the same
  result. A copy at the head has no later entry, so it is exactly the log.
* A version is held only with the manifest that was applied last, and a sync under way
  has read a manifest at or above the copy.
* `BaseOK`: a batch is verified on a copy that does not go back while it is under way,
  and once it is committed the log holds nothing but the batch between what it was
  verified on and its last seq. So installing it alone is as good as a sync.

`ListingInv` adds that a segment is listed with the seqs its object holds, so that a sync
that reads the listed segments above its seq reads the entries above its seq.

### Linearizability

`WalProofs`, under `NoAmbiguity /\ Spec /\ [][Undisturbed]_vars`:

* `Linear`: `NoLostUpdate` always holds.
* `Receipt`: `ReceiptFirst` always holds.
* `Implements`: `ImplementsRefLog`. Every `CommitManifest` and every `LandManifest` that
  takes effect is a `Commit` of `RefLog`, every step that answers is an `Answer`, and
  every other step leaves log and answers alone.

The invariant `FitsInv` says of every batch that was verified on the current version, and
of every write under way to it, that it `Fits`: each of its requests finds the values it
expects in the log followed by the requests before it, and a receipt finds an empty log.
`verify_batch` establishes it from `Current`; a commit voids it for everybody else,
because the version moves. Committing shifts the places of a batch behind the log: that
replay depends on the order of entries only, and not on their numbers, is the lemma
`Renumber`. That replay is defined by the latest entry that sets a ref, and not by
recursion, is what makes these facts provable without induction.

### What clients are answered

`WalProofs`, from the lemmas of `WalAnswerProofs`, under `NoAmbiguity /\ Spec /\
[][Undisturbed]_vars /\ [][Unovertaken]_vars`:

* `ReadsCurrent`: `ReadsSeeAcked` always holds.
* `RejectsJustly`: `RejectionJustified` always holds.

`Unovertaken` says of a step that `commit_local` installs no batch that a sync of the
instance has gone beyond. With two publishers it may: the other one commits in between, a
reader syncs to that, and the install takes the copy back. `overtaken_install` shows that
`ReadsSeeAcked` is then false, so the hypothesis cannot be dropped. A single
instance meets it (`SolePublisher`), and `SoleAnswers` puts the pieces together: on one
instance over a store without errors both properties hold, with crashes and late writes
of the crashed process at will. The invariant there is that between a commit and its
`commit_local` the head stays at the batch and no write under way has the current
version (`Unrivalled`).

Both properties compare a copy with the log at an earlier moment, and the invariants
carry that moment along:

* `ReadInv`: a copy is the log up to some seq, and exactly up to `applied` where the
  instance holds a version or has a batch under way (`HandleOK`; `Mirrors` above is
  weaker, and allows an install that went back). A reader's sync has read a manifest that
  is at or above everything acknowledged when the reader came, and so is the copy it then
  reads (`ReaderOK`).
* `RejectInv`: a request is verified on a copy no older than its arrival, because it
  synced before it was enqueued or the publisher syncs first (`ArrivedOK`), and while the
  log is empty whoever looks at the manifest finds it pristine (`Untouched`).
* `LeftOutLogged`: a request that was left out of a batch that is committed was
  contradicted by the refs the batch was verified on, followed by the requests accepted
  before it. Those are entries of the log by then, so some seq of the log contradicts it
  (`RejectedLogged` in `WalOrderProofs`, by `Renumber` again).

### Leases

`MaintenanceProofs`, for any holders, TTL and tolerance, from `LeaseAssumption`: no two
clocks differ by more than the tolerance (`coord.rs:20-23`).

* `LeaseTypes == LeaseSpec => []LeaseTypeOK`.
* `LeaseExclusive == LeaseSpec => []OneHolder`, which leaves `robbed` holders aside.
* `LeaseKept`: `LeaseSpec` implies `NotRippedAway`. No step replaces a valid lease, and
  what removes one is a DELETE for an earlier lease that was deleted or had run out.
* `ExclusiveIfPrompt == LeaseSpec /\ [][Prompt]_leaseVars => []SoleHolder`: as long as a
  lease is deleted only while a DELETE that is not late is under way, at most one guard is
  valid, without exception.

`LeaseInv` adds to the types that a guard's version and expiry are those its holder wrote,
that a valid guard is the object's unless its holder was robbed (`ValidOwned`), that a
robbed holder cannot write the object any more (`RobbedOK`), and that a DELETE which is not
late is for the lease that is there (`DeleteOK`). The lemma at the centre is that whoever
may overwrite a version has seen its guard expire past the tolerance.

### Events

`BackgroundProofs`, for any number of bridges, entries and failed catch-ups:

* `EventsTypes == EventsSpec => []EventsTypeOK`.
* `NothingDropped == EventsSpec => []WindowDelivered`.
* `InOrder == EventsSpec => []DeliveredInOrder`.
* `GapsCountedIfSettled == EventsSpec /\ [][Settled]_eventVars => []GapsCounted`: where
  `read_log` never finds an entry folded that the catch-up counted on, everything the
  cursor has passed was delivered or counted, but for what lies below a cold start.

The invariant is that whatever the cursor has passed is `Known`: delivered, counted, below
a cold start, or folded under a catch-up (`PassedKnown`). All but the first kind is folded,
which gives `WindowDelivered`; without the last kind it is `GapsCounted`. `CatchUpOK` adds
what a running catch-up knows: everything up to `from` is known, its batch holds whatever
is not known between `from` and `head`, and when it writes the cursor everything up to
`head` is known. Known entries stay so, which is why a stale cursor write of another
bridge, even one that moves the cursor back, loses nothing.

### Garbage collection

`BackgroundProofs`: `CollectSafe == Spec => []ListedPresent`,
`CollectRecoverable == Spec => []RetainedRecoverable`, `CollectTypes == Spec =>
[]CollectTypeOK` and `NothingLost == Spec => []ContentListed`, for any number of collectors,
contents and compactions at a time, from `CollectionAssumption` (the retention is
positive) and, in the model, `InTime`. `CollectInv` rests on two ideas:

* A pack is claimed at the time a writer uploaded or a retained entry or checkpoint
  named it (`Claimed`). A claimed pack is in the bucket and `Safe`: listed, or
  superseded, if at all, only since then. Planning reads the retention from the same
  clock, so no plan takes a pack that is claimed (`ClaimsInv`).
* A plan is made from a manifest that was loaded before the LIST. While the version has
  not moved, nothing in the plan is listed; once the recheck has passed the plan is
  `Firm`: what it holds can be listed again only by way of `reused` or `rewritten`,
  because whatever a writer has under way is claimed. DELETEs that are adrift are parts of
  a firm plan and keep what makes it safe (`AdriftInv`), however late they land.

`CollectTypes` needs one fact more, in `ShapeInv`: a checkpoint that is written and not
committed is not behind the committed one, so that trimming leaves exactly the segments
above it. `ContentListed` follows from `CommitFold` alone: what it removes from the list is
within the pack it adds.

### Maintenance

`MaintenanceProofs`, for any number of maintainers, pushes and abandoned passes:

* `MaintainerImplementsFeed == Spec => ImplementsFeed`: every step of `Maintainer` is a
  step of `RepoFeed` or leaves what followers see alone. The invariant says that the
  maintainer at a checkpoint is the only one at it (its lease) and that the seq it chose
  is between the folded one and the head, so a checkpoint never moves back.
* `MarkersKept == Spec => []PushesPlanned`, with S3's versions and DELETEs. The invariant
  `IdleOK` says that what an idle plan has seen covers every push that counts on the marker
  (`Waiting`) until its DELETE lands, and `StrayOK` says the same of a DELETE nobody waits
  for. A push that marks in that time is `crossed` and does not count on it.
* `NothingDue == Spec => []TriggersServed`. What an idle plan has seen stays `Covered`:
  either there is a newer entry, or nothing that entries make due is left. Until there is
  one the packs stay as they are, a checkpoint only moves forward (its lease), and
  whoever writes `gc.pb` writes the newest compaction.

### Only model-checked

Liveness (`EveryPushAnswered`, `EventuallyPublished`, `Converges`): the prover has no
fairness or `ENABLED`. What the theorems say where `NoAmbiguity` or `Undisturbed` does
not hold: the runs that allow such faults check what is left, and the violation runs show
what is not. Checkpoints (`ColdStartCurrent`, `FoldingOnlyGrows`): these are about
`WalCheckpoint`, which puts another writer of the manifest beside the publisher. Every
invariant above but the types speaks of a manifest that lists all segments, and would
have to be stated, and preserved, for one whose older segments are folded into a
snapshot; and `ColdStartCurrent` is false where a checkpointing instance also publishes
(`torn_checkpoint`). `MaintainerTypeOK`: that the size of a folded pack is a number needs
an induction over the packs it sums up; the proofs about `Maintainer` leave packs open,
but for their seqs.

## Not modelled

* Pack sync (`sync_packs_phase`, `reconcile_packs`): downloads into a directory that is
  rebuilt from the bucket when in doubt. It would need a model of the local object
  store; `WalPublish` stops at refs.
* `annotate_pack_impl` and `add_pack_impl`: manifest writers with the same unguarded
  pair of reads as the checkpoint, which is modelled.
* Deletion and re-creation of repositories: every module follows one life of one
  repository.
* Background tasks (`tasks.rs`): the single-flight decision is made under one lock; the
  rest is a replayed log stream.
* Imports, web writes, LFS, migration: each ends in a publish request, which is modelled,
  or in content-addressed uploads.
* Formats, parsing, git's own object handling, configuration, authentication, caches of
  immutable derivations, telemetry and the command line: data or request-local.
* The documentation site and the vendored API browser take no part in the protocols.
