------------------------- MODULE GarbageCollection --------------------------
(***************************************************************************)
(* Garbage collection of one repository's objects (gc.rs), against the     *)
(* pushes, compactions and checkpoints that go on meanwhile.               *)
(*                                                                         *)
(* A writer uploads its immutable objects first and lists them in the      *)
(* manifest later; an upload that finds the object there already leaves    *)
(* it.  A collector reads manifest and gc.pb, plans from a LIST, compares  *)
(* the manifest's version, deletes object by object and writes gc.pb.  The *)
(* gc lease expires while its holder works, so collectors may overlap.     *)
(*                                                                         *)
(* S3 has no conditional delete: the version is compared at a HEAD, and    *)
(* the DELETE that follows removes whatever has the key when it lands.  It *)
(* is sent again when its answer is lost, and may land when its collector  *)
(* is gone.  Only checkpoint.pb ever gets another content under its key,   *)
(* so only there is the HEAD a step of its own.                            *)
(*                                                                         *)
(* A pack is named by its content, like its checksum: the set of pushed    *)
(* contents it holds.  Log slots are claimed and committed in one step     *)
(* here.  No writer takes as long as the retention from its objects to the *)
(* manifest (InTime).  Shared caches, recomputed on demand, are left out.  *)
(***************************************************************************)
EXTENDS Integers, FiniteSets, FiniteSetsExt

CONSTANTS Collectors,
          Contents,     \* what pushes bring
          Retention,    \* gc.retention
          MaxTime,      \* bound: the last instant
          MaxWrites,    \* bound: manifest writes
          MaxFolds,     \* bound: compactions at a time
          MaxFaults     \* bound: writers and collectors that give up, answers lost

ASSUME CollectionAssumption ==
  Retention \in Nat \ {0} /\ {MaxTime, MaxWrites, MaxFolds, MaxFaults} \subseteq Nat

VARIABLES now,
          manifest,   \* [ver, head, packs, segs, ckpt]
          wal,        \* the packs in the bucket
          log,        \* the log objects in the bucket
          ckpts,      \* the checkpoints in the bucket
          snaps,      \* the seqs of the ref snapshots in the bucket
          gcpb,       \* gc.pb: [compact, ckpt]
          push,       \* the push whose pack is uploaded and that is not committed
          folds,      \* what compactions have folded and not committed
          point,      \* the checkpoint that is written and not committed
          cl,         \* collect of each collector
          adrift,     \* plans whose DELETEs may land whatever becomes of their collectors
          reused,     \* history: packs that came back after they were superseded
          rewritten,  \* history: checkpoints written again with a DELETE of them under way
          pushed,     \* history: the contents of committed pushes
          faults      \* writers and collectors that gave up, and answers lost, so far

storeVars == <<wal, log, ckpts, snaps, gcpb>>
historyVars == <<reused, rewritten, pushed>>
writerVars == <<push, folds, point, historyVars>>
collectVars == <<now, manifest, storeVars, writerVars, cl, adrift, faults>>

\* What delete_plan has to delete, checkpoint.pb apart: ckpts are to be looked at with
\* a HEAD, sent are the seqs whose DELETE is on its way.
NoPlan == [packs |-> {}, logs |-> {}, ckpts |-> {}, sent |-> {}, snaps |-> {}]
Resting == [pc |-> "rest", seen |-> [ver |-> 0, head |-> 0, packs |-> {}, segs |-> {},
                                     ckpt |-> 0],
            plan |-> NoPlan]

Init ==
  /\ now = 0
  /\ manifest = [ver |-> 1, head |-> 0, packs |-> {}, segs |-> {}, ckpt |-> 0]
  /\ wal = {} /\ log = {} /\ ckpts = {} /\ snaps = {} /\ gcpb = [compact |-> 0, ckpt |-> 0]
  /\ push = {} /\ folds = {} /\ point = {}
  /\ reused = {} /\ rewritten = {} /\ pushed = {}
  /\ cl = [c \in Collectors |-> Resting] /\ adrift = {}
  /\ faults = 0

\* No upload waits for its commit as long as the retention.
InTime == \A w \in push \cup folds \cup point : now + 1 - w.at < Retention

Tick ==
  /\ now < MaxTime /\ InTime
  /\ now' = now + 1
  /\ UNCHANGED <<manifest, storeVars, writerVars, cl, adrift, faults>>

-----------------------------------------------------------------------------
(* Writers *)

GiveUp == faults < MaxFaults /\ faults' = faults + 1

Retained(at) == now - at < Retention

Listed == {p.id : p \in manifest.packs}

\* The plans some DELETE of which may still land.
UnderWay == {cl[c].plan : c \in Collectors} \cup adrift

\* A pack that some compaction superseded, or some collector is about to delete.
Doomed(id) == \/ \E e \in log : id \in e.sup
              \/ \E p \in UnderWay : id \in p.packs

\* put_immutable_create: create if absent; a pack that is there is checked with a
\* HEAD and left as it is.
Upload(id) ==
  /\ wal' = wal \cup {id}
  /\ reused' = IF Doomed(id) /\ id \notin Listed THEN reused \cup {id} ELSE reused

\* An entry is created and the manifest that lists it committed (claim_log_slot,
\* updated_manifest and publish_compact_impl).
Append(kind, id, tier, sup) ==
  LET seq == manifest.head + 1
      pack == [id |-> id, seq |-> seq, tier |-> tier]
  IN  /\ manifest.ver <= MaxWrites
      /\ log' = log \cup {[seq |-> seq, kind |-> kind, pack |-> id, sup |-> sup, at |-> now]}
      /\ manifest' = [manifest EXCEPT
           !.ver = @ + 1, !.head = seq, !.segs = @ \cup {seq},
           !.packs = {p \in @ : kind = "compact" => p.id \notin sup \cup {id}} \cup {pack}]

UploadPush(c) ==
  /\ push = {}
  /\ push' = {[id |-> {c}, at |-> now]}
  /\ Upload({c})
  /\ UNCHANGED <<now, manifest, log, ckpts, snaps, gcpb, folds, point, rewritten, pushed,
                 cl, adrift, faults>>

CommitPush ==
  /\ \E p \in push : Append("push", p.id, 0, {}) /\ pushed' = pushed \cup p.id
  /\ push' = {}
  /\ UNCHANGED <<now, wal, ckpts, snaps, gcpb, folds, point, reused, rewritten, cl, adrift, faults>>

\* compact_repo folds packs of the manifest it synchronized to.  A second one starts
\* when the lease of the first has expired.
UploadFold ==
  /\ Cardinality(folds) < MaxFolds
  /\ \E old \in SUBSET Listed :
       /\ Cardinality(old) >= 2
       /\ folds' = folds \cup {[old |-> old, at |-> now]}
       /\ Upload(UNION old)
  /\ UNCHANGED <<now, manifest, log, ckpts, snaps, gcpb, push, point, rewritten, pushed,
                 cl, adrift, faults>>

\* Mutant of CommitFold: supersedes what is listed by now.
CommitFoldListed ==
  /\ \E f \in folds : /\ Append("compact", UNION f.old, 1, Listed)
                      /\ folds' = folds \ {f}
  /\ UNCHANGED <<now, wal, ckpts, snaps, gcpb, push, point, historyVars, cl, adrift, faults>>

CommitFold ==
  /\ \E f \in folds : /\ Append("compact", UNION f.old, 1, f.old)
                      /\ folds' = folds \ {f}
  /\ UNCHANGED <<now, wal, ckpts, snaps, gcpb, push, point, historyVars, cl, adrift, faults>>

\* Both objects of a checkpoint at the current head; a later writer at the same
\* seq overwrites them.
WriteCheckpoint ==
  /\ point = {}
  /\ manifest.head > manifest.ckpt
  /\ LET cp == [seq |-> manifest.head, packs |-> Listed, at |-> now]
     IN  /\ ckpts' = {k \in ckpts : k.seq # cp.seq} \cup {cp}
         /\ snaps' = snaps \cup {cp.seq}
         /\ point' = {cp}
         /\ rewritten' = IF \E p \in UnderWay : cp.seq \in p.sent \cup p.snaps
                         THEN rewritten \cup {cp.seq} ELSE rewritten
  /\ UNCHANGED <<now, manifest, wal, log, gcpb, push, folds, reused, pushed, cl, adrift, faults>>

\* Mutant of CommitCheckpoint: the folded segments stay listed.
CommitCheckpointUntrimmed ==
  /\ manifest.ver <= MaxWrites
  /\ \E cp \in point : manifest' = [manifest EXCEPT !.ver = @ + 1, !.ckpt = cp.seq]
  /\ point' = {}
  /\ UNCHANGED <<now, storeVars, push, folds, historyVars, cl, adrift, faults>>

CommitCheckpoint ==
  /\ manifest.ver <= MaxWrites
  /\ \E cp \in point :
       manifest' = [manifest EXCEPT !.ver = @ + 1, !.ckpt = cp.seq,
                                    !.segs = {s \in @ : s > cp.seq}]
  /\ point' = {}
  /\ UNCHANGED <<now, storeVars, push, folds, historyVars, cl, adrift, faults>>

\* A writer dies: what it uploaded stays, unlisted.
AbandonWrite ==
  /\ GiveUp
  /\ push' \in SUBSET push /\ folds' \in SUBSET folds /\ point' \in SUBSET point
  /\ UNCHANGED <<now, manifest, storeVars, historyVars, cl, adrift>>

-----------------------------------------------------------------------------
(* Collectors *)

CompactSeq(m) == Max({0} \cup {p.seq : p \in {q \in m.packs : q.tier > 0}})

\* collect_under_lease: manifest and gc.pb, and whether there is anything new.
Load(c) ==
  /\ cl[c].pc = "rest"
  /\ CompactSeq(manifest) > gcpb.compact \/ manifest.ckpt > gcpb.ckpt
  /\ cl' = [cl EXCEPT ![c] = [Resting EXCEPT !.pc = "plan", !.seen = manifest]]
  /\ UNCHANGED <<now, manifest, storeVars, writerVars, adrift, faults>>

\* What the manifest, a retained entry or a kept checkpoint refers to.
KeptCheckpoints(m) == {k \in ckpts : k.seq = m.ckpt \/ Retained(k.at)}
Referenced(m) ==
  LET young == {e \in log : Retained(e.at)}
  IN  {p.id : p \in m.packs}
        \cup {e.pack : e \in young} \cup (UNION {e.sup : e \in young})
        \cup (UNION {k.packs : k \in KeptCheckpoints(m)})

\* A pack goes only if a compaction entry that is still there superseded it, and
\* the last one to do so is not retained.
Superseded(id) ==
  LET by == {e \in log : e.kind = "compact" /\ id \in e.sup}
  IN  by # {} /\ \A e \in by : ~Retained(e.at)

\* Mutant of PlanFor: deletes every superseded pack the manifest does not list.
PlanForUnretained(m) ==
  [packs |-> {id \in wal : /\ \E e \in log : id \in e.sup
                           /\ id \notin {p.id : p \in m.packs}},
   logs |-> {e \in log : e.seq \notin m.segs /\ ~Retained(e.at)},
   ckpts |-> ckpts \ KeptCheckpoints(m), sent |-> {},
   snaps |-> {k.seq : k \in ckpts \ KeptCheckpoints(m)}]

PlanFor(m) ==
  [packs |-> {id \in wal : Superseded(id) /\ id \notin Referenced(m)},
   logs |-> {e \in log : e.seq \notin m.segs /\ ~Retained(e.at)},
   ckpts |-> ckpts \ KeptCheckpoints(m), sent |-> {},
   snaps |-> {k.seq : k \in ckpts \ KeptCheckpoints(m)}]

Plan(c) ==
  /\ cl[c].pc = "plan"
  /\ cl' = [cl EXCEPT ![c].pc = "check", ![c].plan = PlanFor(cl[c].seen)]
  /\ UNCHANGED <<now, manifest, storeVars, writerVars, adrift, faults>>

\* Mutant of Recheck: does not look at the manifest again.
RecheckSkipped(c) ==
  /\ cl[c].pc = "check"
  /\ cl' = [cl EXCEPT ![c].pc = "delete"]
  /\ UNCHANGED <<now, manifest, storeVars, writerVars, adrift, faults>>

\* A manifest that changed since is a failed unit.
Recheck(c) ==
  /\ cl[c].pc = "check"
  /\ cl' = [cl EXCEPT ![c] = IF manifest.ver = @.seen.ver
                             THEN [@ EXCEPT !.pc = "delete"] ELSE Resting]
  /\ UNCHANGED <<now, manifest, storeVars, writerVars, adrift, faults>>

\* delete_plan deletes in any order.  Equal content has an equal version, so a pack
\* matches its planned version again after a later upload.
DeletePack(c) ==
  /\ cl[c].pc = "delete"
  /\ \E id \in cl[c].plan.packs :
       /\ wal' = wal \ {id}
       /\ cl' = [cl EXCEPT ![c].plan.packs = @ \ {id}]
  /\ UNCHANGED <<now, manifest, log, ckpts, snaps, gcpb, writerVars, adrift, faults>>

DeleteLog(c) ==
  /\ cl[c].pc = "delete"
  /\ \E e \in cl[c].plan.logs :
       /\ log' = log \ {e}
       /\ cl' = [cl EXCEPT ![c].plan.logs = @ \ {e}]
  /\ UNCHANGED <<now, manifest, wal, ckpts, snaps, gcpb, writerVars, adrift, faults>>

\* The HEAD finds the planned version, and the DELETE is sent; or it finds nothing.
HeadCheckpoint(c) ==
  /\ cl[c].pc = "delete"
  /\ \E k \in cl[c].plan.ckpts :
       /\ \A l \in ckpts : l.seq = k.seq => l = k
       /\ cl' = [cl EXCEPT ![c].plan.ckpts = @ \ {k},
                           ![c].plan.sent = IF k \in ckpts THEN @ \cup {k.seq} ELSE @]
  /\ UNCHANGED <<now, manifest, storeVars, writerVars, adrift, faults>>

\* The DELETEs of a collector that is gone may land later.
Drift(c) ==
  adrift' = IF cl[c].pc = "delete"
            THEN adrift \cup {[cl[c].plan EXCEPT !.ckpts = {}]}
            ELSE adrift

\* The HEAD finds that the checkpoint has been written again, with another time: another
\* version, and the unit fails.
RefuseCheckpoint(c) ==
  /\ cl[c].pc = "delete"
  /\ \E k \in cl[c].plan.ckpts, l \in ckpts : l.seq = k.seq /\ l # k
  /\ cl' = [cl EXCEPT ![c] = Resting]
  /\ Drift(c)
  /\ UNCHANGED <<now, manifest, storeVars, writerVars, faults>>

\* The DELETE lands, whatever the checkpoint is by now.
DeleteCheckpoint(c) ==
  /\ cl[c].pc = "delete"
  /\ \E s \in cl[c].plan.sent :
       /\ ckpts' = {k \in ckpts : k.seq # s}
       /\ cl' = [cl EXCEPT ![c].plan.sent = @ \ {s}]
  /\ UNCHANGED <<now, manifest, wal, log, snaps, gcpb, writerVars, adrift, faults>>

\* The ref snapshot beside it holds the same refs when it is written again, and so
\* has the same version.
DeleteSnapshot(c) ==
  /\ cl[c].pc = "delete"
  /\ \E s \in cl[c].plan.snaps :
       /\ snaps' = snaps \ {s}
       /\ cl' = [cl EXCEPT ![c].plan.snaps = @ \ {s}]
  /\ UNCHANGED <<now, manifest, wal, log, ckpts, gcpb, writerVars, adrift, faults>>

\* gc.pb gets the cursors of the manifest the plan was made from.
Finish(c) ==
  /\ cl[c].pc = "delete" /\ cl[c].plan = NoPlan
  /\ gcpb' = [compact |-> CompactSeq(cl[c].seen), ckpt |-> cl[c].seen.ckpt]
  /\ cl' = [cl EXCEPT ![c] = Resting]
  /\ UNCHANGED <<now, manifest, wal, log, ckpts, snaps, writerVars, adrift, faults>>

\* Answers to DELETEs are lost: with_retry sends them again, and more than one of each
\* may land.
LoseAnswers(c) ==
  /\ cl[c].pc = "delete" /\ GiveUp
  /\ Drift(c)
  /\ UNCHANGED <<now, manifest, storeVars, writerVars, cl>>

\* A LIST, GET or DELETE fails, or the process dies: gc.pb is not written.
AbandonCollect(c) ==
  /\ cl[c].pc # "rest" /\ GiveUp
  /\ cl' = [cl EXCEPT ![c] = Resting]
  /\ Drift(c)
  /\ UNCHANGED <<now, manifest, storeVars, writerVars>>

\* A DELETE that nobody waits for any more lands.
LandAdrift ==
  /\ \E p \in adrift :
       \/ \E id \in p.packs : wal' = wal \ {id} /\ UNCHANGED <<log, ckpts, snaps>>
       \/ \E e \in p.logs : log' = log \ {e} /\ UNCHANGED <<wal, ckpts, snaps>>
       \/ \E s \in p.sent : ckpts' = {k \in ckpts : k.seq # s} /\ UNCHANGED <<wal, log, snaps>>
       \/ \E s \in p.snaps : snaps' = snaps \ {s} /\ UNCHANGED <<wal, log, ckpts>>
  /\ UNCHANGED <<now, manifest, gcpb, writerVars, cl, adrift, faults>>

Delete(c) == \/ DeletePack(c) \/ DeleteLog(c) \/ DeleteSnapshot(c)
             \/ HeadCheckpoint(c) \/ RefuseCheckpoint(c) \/ DeleteCheckpoint(c)

Collect(c) == \/ Load(c) \/ Plan(c) \/ Recheck(c) \/ Delete(c) \/ Finish(c)
              \/ LoseAnswers(c) \/ AbandonCollect(c)

Write == \/ \E c \in Contents : UploadPush(c)
         \/ CommitPush \/ UploadFold \/ CommitFold
         \/ WriteCheckpoint \/ CommitCheckpoint \/ AbandonWrite

Next == Tick \/ Write \/ (\E c \in Collectors : Collect(c)) \/ LandAdrift

Spec == Init /\ [][Next]_collectVars

-----------------------------------------------------------------------------
(* Properties *)

\* The variables have their types, and versions and seqs are not from the future.
CollectTypeOK ==
  /\ now \in 0..MaxTime
  /\ manifest.head \in 0..MaxWrites /\ manifest.ckpt \in 0..manifest.head
  /\ manifest.segs = manifest.ckpt + 1 .. manifest.head
  /\ wal \subseteq SUBSET Contents /\ Listed \subseteq SUBSET Contents
  /\ \A e \in log : e.seq \in 1..manifest.head /\ e.at \in 0..now
  /\ \A k \in ckpts : k.seq \in 1..manifest.head /\ k.at \in 0..now
  /\ snaps \subseteq 1..manifest.head

\* What the manifest refers to is in the bucket: its packs, its log segments and
\* its checkpoint with its snapshot and the packs it names, whatever is deleted
\* meanwhile (the recheck and the reference set of gc.rs).  Except a pack that comes
\* back after a compaction superseded it, and a checkpoint that is written again while
\* a DELETE of its first version is under way: it takes what came back.
ListedPresent ==
  /\ Listed \subseteq wal \cup reused
  /\ \A s \in manifest.segs : \E e \in log : e.seq = s
  /\ \A k \in ckpts : k.seq = manifest.ckpt => k.packs \subseteq wal \cup reused
  /\ manifest.ckpt \notin {0} \cup rewritten =>
       manifest.ckpt \in snaps /\ \E k \in ckpts : k.seq = manifest.ckpt

\* Whatever happened within the retention can be restored: the packs of a retained
\* entry, those it superseded, and those of a retained checkpoint with its snapshot
\* are there.
RetainedRecoverable ==
  /\ \A e \in log : Retained(e.at) => {e.pack} \cup e.sup \subseteq wal \cup reused
  /\ \A k \in ckpts : Retained(k.at) => /\ k.packs \subseteq wal \cup reused
                                        /\ k.seq \in snaps \cup rewritten

\* No pushed content is lost: a compaction, also one that works on a manifest that
\* others have compacted since, supersedes only what its own pack holds.
ContentListed == pushed \subseteq UNION Listed
=============================================================================
