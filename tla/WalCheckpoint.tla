---------------------------- MODULE WalCheckpoint ----------------------------
(***************************************************************************)
(* Checkpoints on top of the publish protocol.  Any instance may, at any   *)
(* time, write its local refs as checkpoints/<seq>/refs.pb and then, in    *)
(* one manifest write, point the manifest at them and drop the segments    *)
(* they cover.  Replay starts from that snapshot (Install in WalPublish).  *)
(*                                                                         *)
(* write_checkpoint_inner holds no lock after its first sync: it reads the *)
(* handle's manifest, refs and version one after the other, and installs   *)
(* its own manifest the same way, while syncs and the publisher task of    *)
(* the instance go on.  Each of those accesses is a step here.             *)
(***************************************************************************)
EXTENDS WalPublish

CONSTANTS Checkpointers,   \* the instances that write checkpoints
          MaxCheckpoints   \* bound: checkpoints begun

ASSUME CheckpointAssumption == Checkpointers \subseteq Instances /\ MaxCheckpoints \in Nat

VARIABLES ck,      \* write_checkpoint_inner of each instance
          begun    \* checkpoints begun so far

ckVars == <<ck, begun>>
checkpointVars == <<vars, ckVars>>

CheckpointSteps == {"idle", "sync", "seq", "refs", "put", "load", "version", "write",
                    "resync", "install", "adopt"}

NoCheckpoint == [pc |-> "idle", seq |-> 0, snap |-> NoRefs, m |-> NewManifest, ver |-> 0,
                 tries |-> 0]

Goto(i, step) == ck' = [ck EXCEPT ![i].pc = step]
Stop(i) == ck' = [ck EXCEPT ![i] = NoCheckpoint]

StartCheckpoint(i) ==
  /\ i \in Checkpointers /\ open[i] /\ ck[i].pc = "idle"
  /\ begun < MaxCheckpoints
  /\ begun' = begun + 1
  /\ Goto(i, "sync")
  /\ UNCHANGED vars

\* The refs sync at the start and after each refused write.
AfterSync(i) == IF ck[i].pc = "sync" THEN "seq" ELSE "load"

CheckpointSync(i) ==
  /\ ck[i].pc \in {"sync", "resync"} /\ Unlocked(i)
  /\ IF hv[i] = mver
     THEN Goto(i, AfterSync(i)) /\ UNCHANGED sync
     ELSE sync' = [sync EXCEPT ![i] = Fetched("checkpoint")] /\ UNCHANGED ck
  /\ UNCHANGED <<bucketVars, open, hm, hv, refs, applied, saved, pubVars, clientVars, hist,
                 faults, begun>>

CheckpointSyncDone(i) ==
  /\ sync[i].by = "checkpoint" /\ SyncDone(i)
  /\ Goto(i, AfterSync(i))
  /\ UNCHANGED begun

CheckpointSyncFailed(i) ==
  /\ sync[i].by = "checkpoint" /\ SyncFailed(i)
  /\ Stop(i)
  /\ UNCHANGED begun

\* The manifest gives the seq; nothing to do at the checkpoint (or at zero).
ChooseSeq(i) ==
  /\ ck[i].pc = "seq"
  /\ IF hm[i].ckpt = hm[i].head
     THEN Stop(i)
     ELSE ck' = [ck EXCEPT ![i].seq = hm[i].head, ![i].pc = "refs"]
  /\ UNCHANGED <<vars, begun>>

\* The snapshot is whatever the local refs are by now.
ReadRefs(i) ==
  /\ ck[i].pc = "refs"
  /\ ck' = [ck EXCEPT ![i].snap = refs[i], ![i].pc = "put"]
  /\ UNCHANGED <<vars, begun>>

\* A plain PUT: it replaces an earlier snapshot of the same seq.
StoredSnapshot(i) ==
  {s \in snaps : s.seq # ck[i].seq} \cup {[seq |-> ck[i].seq, refs |-> ck[i].snap]}

PutSnapshot(i) ==
  /\ ck[i].pc = "put"
  /\ \/ snaps' = StoredSnapshot(i) /\ Goto(i, "load") /\ UNCHANGED faults
     \/ StoreError /\ snaps' \in {snaps, StoredSnapshot(i)} /\ Stop(i)
  /\ UNCHANGED <<manifest, mver, log, marker, late, dels, nver, localVars, pubVars,
                 clientVars, hist, begun>>

LoadManifest(i) ==
  /\ ck[i].pc = "load"
  /\ ck' = [ck EXCEPT ![i].m = hm[i], ![i].pc = "version"]
  /\ UNCHANGED <<vars, begun>>

\* Mutant of LoadVersion: the version comes from the bucket, not from the handle.
LoadVersionFromBucket(i) ==
  /\ ck[i].pc = "version"
  /\ IF ck[i].m.ckpt # 0 /\ ck[i].m.ckpt >= ck[i].m.head
     THEN Stop(i)
     ELSE ck' = [ck EXCEPT ![i].ver = mver, ![i].pc = "write"]
  /\ UNCHANGED <<vars, begun>>

\* Someone else's checkpoint at the head ends it.
LoadVersion(i) ==
  /\ ck[i].pc = "version"
  /\ IF ck[i].m.ckpt # 0 /\ ck[i].m.ckpt >= ck[i].m.head
     THEN Stop(i)
     ELSE ck' = [ck EXCEPT ![i].ver = hv[i], ![i].pc = "write"]
  /\ UNCHANGED <<vars, begun>>

\* Mutant of CheckpointManifest: drops the whole list of segments.
CheckpointManifestDropping(i) ==
  [ck[i].m EXCEPT !.ckpt = ck[i].seq, !.min = ck[i].seq + 1, !.segs = {}, !.rev = @ + 1]

CheckpointManifest(i) ==
  [ck[i].m EXCEPT !.ckpt = ck[i].seq,
                  !.min = ck[i].seq + 1,
                  !.segs = {g \in @ : g.last > ck[i].seq},
                  !.rev = @ + 1]

WriteCheckpoint(i) ==
  /\ ck[i].pc = "write" /\ ck[i].ver = mver
  /\ PutManifest(CheckpointManifest(i))
  /\ ck' = [ck EXCEPT ![i].m = CheckpointManifest(i), ![i].ver = mver + 1, ![i].pc = "install"]
  /\ UNCHANGED <<log, snaps, marker, late, dels, nver, localVars, pubVars, clientVars, hist,
                 faults, begun>>

\* Mutant of CheckpointRefused: retries without a limit.
CheckpointRefusedForever(i) ==
  /\ ck[i].pc = "write"
  /\ \/ ck[i].ver # mver /\ UNCHANGED faults
     \/ ck[i].ver = mver /\ StoreError
  /\ ck' = [ck EXCEPT ![i].tries = @ + 1, ![i].pc = "resync"]
  /\ UNCHANGED <<bucketVars, localVars, pubVars, clientVars, hist, begun>>

\* 412: sync and try again with the same snapshot.
CheckpointRefused(i) ==
  /\ ck[i].pc = "write"
  /\ \/ ck[i].ver # mver /\ UNCHANGED faults
     \/ ck[i].ver = mver /\ StoreError
  /\ IF ck[i].tries + 1 >= MaxRetries
     THEN Stop(i)
     ELSE ck' = [ck EXCEPT ![i].tries = @ + 1, ![i].pc = "resync"]
  /\ UNCHANGED <<bucketVars, localVars, pubVars, clientVars, hist, begun>>

\* Any other error ends it; the write may still take effect.
CheckpointLost(i) ==
  /\ ck[i].pc = "write"
  /\ StoreError
  /\ late' = late \cup {[base |-> ck[i].ver, m |-> CheckpointManifest(i), slot |-> NoSlot,
                         reqs |-> <<>>]}
  /\ Stop(i)
  /\ UNCHANGED <<manifest, mver, log, snaps, marker, dels, nver, localVars, pubVars,
                 clientVars, hist, begun>>

\* The handle gets the new manifest, then its version and seq.
InstallCheckpoint(i) ==
  /\ ck[i].pc = "install"
  /\ hm' = [hm EXCEPT ![i] = ck[i].m]
  /\ Goto(i, "adopt")
  /\ UNCHANGED <<bucketVars, open, hv, refs, applied, saved, sync, pubVars, clientVars, hist,
                 faults, begun>>

AdoptVersion(i) ==
  /\ ck[i].pc = "adopt"
  /\ hv' = [hv EXCEPT ![i] = ck[i].ver]
  /\ applied' = [applied EXCEPT ![i] = ck[i].m.head]
  /\ \/ saved' = [saved EXCEPT ![i] = ck[i].m.head] /\ UNCHANGED faults
     \/ StoreError /\ UNCHANGED saved
  /\ Stop(i)
  /\ UNCHANGED <<bucketVars, open, hm, refs, sync, pubVars, clientVars, hist, begun>>

-----------------------------------------------------------------------------

CheckpointStep(i) ==
  \/ StartCheckpoint(i) \/ CheckpointSync(i) \/ CheckpointSyncDone(i) \/ CheckpointSyncFailed(i)
  \/ ChooseSeq(i) \/ ReadRefs(i) \/ PutSnapshot(i) \/ LoadManifest(i) \/ LoadVersion(i)
  \/ WriteCheckpoint(i) \/ CheckpointRefused(i) \/ CheckpointLost(i)
  \/ InstallCheckpoint(i) \/ AdoptVersion(i)

\* A step of the publish protocol alone.
PublishStep(i) ==
  /\ \/ ClientStep(i) \/ PublisherStep(i)
     \/ sync[i].by # "checkpoint" /\ SyncStep(i)
  /\ UNCHANGED ckVars

CrashAll(i) == Crash(i) /\ Stop(i) /\ UNCHANGED begun

CheckpointInit == Init /\ ck = [i \in Instances |-> NoCheckpoint] /\ begun = 0

CheckpointNext ==
  \/ \E i \in Instances : CheckpointStep(i) \/ PublishStep(i) \/ CrashAll(i)
  \/ (LandDelete \/ LandManifest) /\ UNCHANGED ckVars

CheckpointSpec == CheckpointInit /\ [][CheckpointNext]_checkpointVars

-----------------------------------------------------------------------------
(* Properties *)

\* Every variable has its type, and the retries of write_checkpoint_inner stay
\* within wal.cas_max_retries.
CheckpointTypeOK ==
  /\ TypeOK
  /\ ck \in [Instances -> [pc : CheckpointSteps, seq : Nat, snap : RefMaps, m : Manifests,
                           ver : Nat, tries : 0..(MaxRetries - 1)]]
  /\ begun \in 0..MaxCheckpoints

\* An instance that starts with nothing finds the snapshot the manifest names and
\* every segment after it, and replaying them gives the committed refs
\* (materialize_from_scratch; write_checkpoint_inner never drops what it has not
\* folded).
ColdStartCurrent ==
  LET at == {s \in snaps : s.seq = manifest.ckpt}
      base == IF manifest.ckpt = 0 THEN {NoRefs} ELSE {s.refs : s \in at}
  IN  /\ Readable(manifest, manifest.ckpt)
      /\ \E b \in base : ApplyEntries(b, EntriesIn(manifest, manifest.ckpt)) = RefsAt(HeadSeq)

\* No manifest write takes the log or the checkpoint back, and a segment leaves the
\* list only when the checkpoint of the same write covers it.
FoldingOnlyGrows ==
  [][/\ manifest'.head >= manifest.head
     /\ manifest'.ckpt >= manifest.ckpt
     /\ \A g \in manifest.segs \ manifest'.segs : g.last <= manifest'.ckpt]_checkpointVars
=============================================================================
