----------------------------- MODULE Maintainer -----------------------------
(***************************************************************************)
(* The maintenance loop of gitcask-server for one repository.              *)
(*                                                                         *)
(* A push commits in manifest.pb and then, best effort, puts the empty     *)
(* object pending/<owner>/<repo>.  Maintainers LIST the markers; for each  *)
(* they plan and run one unit after the other (checkpoint, compaction,     *)
(* audit, garbage collection) until a plan on a fresh manifest finds       *)
(* nothing due, and delete the marker under the version they listed.  A    *)
(* unit synchronizes again when it starts and commits later, while pushes  *)
(* and other maintainers go on.                                            *)
(*                                                                         *)
(* On S3 the version of an object is the ETag of its content, so every     *)
(* marker has the same, and the delete is a HEAD and then a DELETE, which  *)
(* removes whatever is there when it lands, is sent again when its answer  *)
(* is lost and may land when its maintainer is gone.                       *)
(*                                                                         *)
(* The triggers of a checkpoint by age or by bytes of log, and of an audit *)
(* by age, depend on what is not modelled: a plan may find either of them  *)
(* passed or not.  A unit ends before its lease expires, and the lease of  *)
(* a maintainer that died is free at once.  Maintainers have the compact   *)
(* role, and compaction and checkpoints are enabled.  rev-index units,     *)
(* which only add a side file to a pack, are left out.                     *)
(***************************************************************************)
EXTENDS Integers, FiniteSets, FiniteSetsExt

CONSTANTS Maintainers,
          Sizes,           \* the sizes of pushed packs
          SnapshotEvery,   \* wal.snapshot_every_entries
          TriggerPacks,    \* compaction.trigger_packs
          TriggerBytes,    \* compaction.trigger_bytes
          Factor,          \* compaction.factor
          MaxPushes,       \* bound: pushes
          MaxFaults        \* bound: passes abandoned half way, PUTs and answers lost

ASSUME MaintainerAssumption ==
  /\ Sizes \subseteq Nat \ {0}
  /\ SnapshotEvery \in Nat /\ TriggerPacks \in Nat /\ TriggerBytes \in Nat
  /\ Factor \in Nat
  /\ {MaxPushes, MaxFaults} \subseteq Nat

VARIABLES manifest,   \* [head, ckpt, packs]: head_seq, the checkpoint's seq, the packs;
                      \* a pack is named by what it holds, the seqs of pushes
          pushes,     \* history: the seqs of the PUSH entries
          audited,    \* audited_seq of fsck.pb, 0 without one
          gc,         \* gc.pb: [compact, ckpt]
          marker,     \* pending/<owner>/<repo> is there
          marking,    \* pushes between their manifest CAS and mark_pending
          stray,      \* DELETEs of the marker that nobody waits for, each by the head it is for
          lost,       \* history: pushes whose marker never reached the store
          crossed,    \* history: pushes whose marker was put while one was to be deleted
          settled,    \* history: the newest head for which a marker was deleted
          mt,         \* run_marker of each maintainer
          faults      \* passes abandoned, PUTs and answers lost so far

repoVars == <<manifest, pushes, audited, gc>>
markVars == <<marker, marking, stray, lost, crossed, settled>>
maintainerVars == <<repoVars, markVars, mt, faults>>

Units == {"checkpoint", "compact", "fsck", "gc", "idle"}
Steps == {"rest", "plan", "start", "lease", "work", "delete", "sent"}

NewManifest == [head |-> 0, ckpt |-> 0, packs |-> {}]

Resting == [pc |-> "rest", unit |-> "idle", ckptOnly |-> FALSE, ran |-> FALSE,
            seen |-> NewManifest]

Init ==
  /\ manifest = NewManifest
  /\ pushes = {}
  /\ audited = 0
  /\ gc = [compact |-> 0, ckpt |-> 0]
  /\ marker = FALSE /\ marking = {} /\ stray = {}
  /\ lost = {} /\ crossed = {} /\ settled = 0
  /\ mt = [m \in Maintainers |-> Resting]
  /\ faults = 0

-----------------------------------------------------------------------------
(***************************************************************************)
(* What a manifest makes due.                                              *)
(***************************************************************************)
Size(ps) == MapThenSumSet(LAMBDA p : p.size, ps)

\* The seq of the newest compacted pack.
CompactSeq(mf) == Max({0} \cup {p.seq : p \in {q \in mf.packs : q.tier > 0}})

\* checkpoint_due by entries, and the state in which the other triggers are asked.
EntriesDue(mf) == SnapshotEvery > 0 /\ mf.head - mf.ckpt >= SnapshotEvery
Unfolded(mf) == mf.ckpt < mf.head

FoldDue(mf) ==
  LET tier0 == {p \in mf.packs : p.tier = 0}
  IN  /\ Cardinality(tier0) >= 2
      /\ \/ Cardinality(tier0) >= TriggerPacks
         \/ Size(tier0) >= TriggerBytes

GcDue(mf) == CompactSeq(mf) > gc.compact \/ mf.ckpt > gc.ckpt

\* next_unit, given whether the other triggers of checkpoints and audits passed.
Due(mf, oldCheckpoint, oldAudit) ==
  IF EntriesDue(mf) \/ (Unfolded(mf) /\ oldCheckpoint) THEN "checkpoint"
  ELSE IF FoldDue(mf) THEN "compact"
  ELSE IF \/ CompactSeq(mf) > audited
          \/ audited > 0 /\ mf.head > audited /\ oldAudit THEN "fsck"
  ELSE IF GcDue(mf) THEN "gc"
  ELSE "idle"

\* git repack --geometric keeps the longest run of largest packs in which each
\* is at least Factor times the next and Factor times the rest, and folds the
\* rest into one pack.
Smaller(p, q) == p.size < q.size \/ (p.size = q.size /\ p.seq < q.seq)
Kept(ps, k) ==
  /\ \A p \in k, q \in ps : Smaller(p, q) => q \in k
  /\ \A p \in k : /\ p.size >= Factor * Size(ps \ k)
                  /\ \A q \in k : Smaller(q, p) => p.size >= Factor * q.size
Rollup(ps) ==
  LET keeps == {k \in SUBSET ps : Kept(ps, k)}
  IN  ps \ (CHOOSE k \in keeps : \A j \in keeps : Cardinality(j) <= Cardinality(k))

-----------------------------------------------------------------------------
(***************************************************************************)
(* Pushes.                                                                 *)
(***************************************************************************)
Push ==
  /\ Cardinality(pushes) < MaxPushes
  /\ \E size \in Sizes :
       manifest' = [manifest EXCEPT
         !.head = @ + 1,
         !.packs = @ \cup {[id |-> {manifest.head + 1}, seq |-> manifest.head + 1,
                            tier |-> 0, size |-> size]}]
  /\ pushes' = pushes \cup {manifest'.head}
  /\ marking' = marking \cup {manifest'.head}
  /\ UNCHANGED <<audited, gc, marker, stray, lost, crossed, settled, mt, faults>>

\* A maintainer has found nothing due, and its DELETE of the marker may still land.
Closing == stray # {} \/ \E m \in Maintainers : mt[m].pc \in {"delete", "sent"}

MarkPending(s) ==
  /\ s \in marking
  /\ marking' = marking \ {s}
  /\ marker' = TRUE
  /\ crossed' = IF Closing THEN crossed \cup {s} ELSE crossed
  /\ UNCHANGED <<repoVars, stray, lost, settled, mt, faults>>

Fault == faults < MaxFaults /\ faults' = faults + 1

\* The PUT fails, or the instance dies before it: the push stays committed.
LoseMark(s) ==
  /\ s \in marking
  /\ Fault
  /\ marking' = marking \ {s}
  /\ lost' = lost \cup {s}
  /\ UNCHANGED <<repoVars, marker, stray, crossed, settled, mt>>

-----------------------------------------------------------------------------
(***************************************************************************)
(* One pass of a maintainer over the marker.                               *)
(***************************************************************************)
ListPending(m) ==
  /\ mt[m].pc = "rest"
  /\ marker
  /\ mt' = [mt EXCEPT ![m] = [Resting EXCEPT !.pc = "plan"]]
  /\ UNCHANGED <<repoVars, markVars, faults>>

\* Mutant of NextUnit: a pass that only wrote a checkpoint deletes the marker as well.
NextUnitHasty(m) ==
  /\ mt[m].pc = "plan"
  /\ \E oldCheckpoint, oldAudit \in BOOLEAN :
       LET unit == Due(manifest, oldCheckpoint, oldAudit)
           step == IF unit = "idle" \/ (mt[m].ckptOnly /\ unit \in {"fsck", "gc"})
                   THEN "delete" ELSE "start"
       IN  mt' = [mt EXCEPT ![m] =
             [@ EXCEPT !.pc = step, !.unit = unit,
                       !.seen = IF step = "delete" THEN manifest ELSE @]]
  /\ UNCHANGED <<repoVars, markVars, faults>>

\* The loop of run_marker up to run_unit, for a plan that found unit due.  An idle
\* plan leads to the deletion of the marker, unless the only unit so far was a
\* checkpoint; nor does an audit or a collection follow a checkpoint in the same pass.
AfterPlan(pass, unit) ==
  CASE unit = "idle" /\ ~pass.ckptOnly ->
         [Resting EXCEPT !.pc = "delete", !.seen = manifest]
    [] pass.ckptOnly /\ unit \in {"fsck", "gc", "idle"} -> Resting
    [] OTHER -> [pass EXCEPT !.pc = "start", !.unit = unit]

NextUnit(m) ==
  /\ mt[m].pc = "plan"
  /\ \E oldCheckpoint, oldAudit \in BOOLEAN :
       mt' = [mt EXCEPT ![m] = AfterPlan(@, Due(manifest, oldCheckpoint, oldAudit))]
  /\ UNCHANGED <<repoVars, markVars, faults>>

\* Mutant of Done: the marker is deleted without another plan.
DoneUnplanned(m) == mt' = [mt EXCEPT ![m].pc = "delete", ![m].unit = "idle"]

\* run_unit returned true.
Done(m) ==
  mt' = [mt EXCEPT ![m] =
           [Resting EXCEPT !.pc = "plan", !.ran = TRUE,
                           !.ckptOnly = mt[m].unit = "checkpoint" /\ ~mt[m].ran]]

Failed(m) == mt' = [mt EXCEPT ![m] = Resting]

\* Mutant of LeaseHeld: no unit takes a lease.
LeaseHeldNever(m) == FALSE

\* Another maintainer holds the lease of the unit.  Audits take none.
LeaseHeld(m) ==
  /\ mt[m].unit # "fsck"
  /\ \E o \in Maintainers \ {m} : mt[o].pc = "work" /\ mt[o].unit = mt[m].unit

\* The unit's own sync finds that nothing is left to do.
Nothing(unit) ==
  CASE unit = "checkpoint" -> manifest.ckpt = manifest.head
    [] unit = "compact" -> ~FoldDue(manifest)
    [] unit = "gc" -> ~GcDue(manifest)
    [] OTHER -> FALSE

\* A compaction synchronizes before it takes its lease, the others after.
StartUnit(m) ==
  LET unit == mt[m].unit
      step == IF unit = "compact" THEN "lease" ELSE "work"
      held == unit # "compact" /\ LeaseHeld(m)
  IN  /\ mt[m].pc = "start"
      /\ \/ held /\ Failed(m)
         \/ ~held /\ Nothing(unit) /\ Done(m)
         \/ /\ ~held /\ ~Nothing(unit)
            /\ mt' = [mt EXCEPT ![m].pc = step, ![m].seen = manifest]
      /\ UNCHANGED <<repoVars, markVars, faults>>

LeaseCompaction(m) ==
  /\ mt[m].pc = "lease"
  /\ \/ LeaseHeld(m) /\ Failed(m)
     \/ ~LeaseHeld(m) /\ mt' = [mt EXCEPT ![m].pc = "work"]
  /\ UNCHANGED <<repoVars, markVars, faults>>

\* The second round of write_checkpoint_inner, unless the checkpoint is at the head.
Checkpoint(m) ==
  /\ mt[m].unit = "checkpoint"
  /\ manifest' = [manifest EXCEPT !.ckpt = IF @ >= manifest.head THEN @ ELSE mt[m].seen.head]
  /\ Done(m)
  /\ UNCHANGED <<audited, gc>>

\* publish_compact of the folded pack, which replaces what it folded and a pack of
\* the same name; a rollup of nothing publishes nothing.
Compact(m) ==
  /\ mt[m].unit = "compact"
  /\ LET old == Rollup(mt[m].seen.packs)
         sup == {p.id : p \in old}
         new == [id |-> UNION sup, seq |-> manifest.head + 1, tier |-> 1, size |-> Size(old)]
     IN  manifest' = IF old = {} THEN manifest
                     ELSE [manifest EXCEPT
                             !.head = @ + 1,
                             !.packs = {p \in @ : p.id \notin sup \cup {new.id}} \cup {new}]
  /\ Done(m)
  /\ UNCHANGED <<audited, gc>>

\* fsck.pb is written whatever git found; a corrupt object fails the unit after that.
Fsck(m) ==
  /\ mt[m].unit = "fsck"
  /\ audited' = mt[m].seen.head
  /\ Done(m) \/ Failed(m)
  /\ UNCHANGED <<manifest, gc>>

\* Mutants of Gc: gc.pb gets the head for the checkpoint, or is not written.
GcAtHead(m) ==
  /\ mt[m].unit = "gc"
  /\ gc' = [compact |-> CompactSeq(manifest), ckpt |-> manifest.head]
  /\ Done(m)
  /\ UNCHANGED <<manifest, audited>>
GcUnrecorded(m) ==
  /\ mt[m].unit = "gc"
  /\ Done(m)
  /\ UNCHANGED <<manifest, audited, gc>>

\* Collection gives up when the manifest changed since it was read.
Gc(m) ==
  /\ mt[m].unit = "gc"
  /\ IF manifest = mt[m].seen
     THEN /\ gc' = [compact |-> CompactSeq(manifest), ckpt |-> manifest.ckpt]
          /\ Done(m)
     ELSE Failed(m) /\ UNCHANGED gc
  /\ UNCHANGED <<manifest, audited>>

FinishUnit(m) ==
  /\ mt[m].pc = "work"
  /\ Checkpoint(m) \/ Compact(m) \/ Fsck(m) \/ Gc(m)
  /\ UNCHANGED <<pushes, markVars, faults>>

\* delete_marker: a marker that is there has the version that was listed, whoever put
\* it; one that is gone is NotFound.
HeadMarker(m) ==
  /\ mt[m].pc = "delete"
  /\ mt' = [mt EXCEPT ![m] = IF marker THEN [@ EXCEPT !.pc = "sent"] ELSE Resting]
  /\ UNCHANGED <<repoVars, markVars, faults>>

\* A DELETE lands, for a plan on head.
Land(head) ==
  /\ marker' = FALSE
  /\ settled' = Max({settled, head})

DeleteMarker(m) ==
  /\ mt[m].pc = "sent"
  /\ Land(mt[m].seen.head)
  /\ mt' = [mt EXCEPT ![m] = Resting]
  /\ UNCHANGED <<repoVars, marking, stray, lost, crossed, faults>>

LandStray ==
  /\ \E head \in stray : Land(head)
  /\ UNCHANGED <<repoVars, marking, stray, lost, crossed, mt, faults>>

\* A plan or a unit fails, the process drains or is killed: the marker stays.  Or the
\* answer to a DELETE is lost: with_retry sends it again, and both may land.
Abandon(m) ==
  /\ mt[m].pc # "rest" /\ Fault
  /\ Failed(m)
  /\ stray' = IF mt[m].pc = "sent" THEN stray \cup {mt[m].seen.head} ELSE stray
  /\ UNCHANGED <<repoVars, marker, marking, lost, crossed, settled>>

PassStep(m) == \/ NextUnit(m) \/ StartUnit(m) \/ LeaseCompaction(m) \/ FinishUnit(m)
               \/ HeadMarker(m) \/ DeleteMarker(m)

Next ==
  \/ Push
  \/ \E s \in marking : MarkPending(s) \/ LoseMark(s)
  \/ \E m \in Maintainers : ListPending(m) \/ PassStep(m) \/ Abandon(m)
  \/ LandStray

Spec == Init /\ [][Next]_maintainerVars

\* A maintainer that runs goes on with its pass and LISTs again; a push that
\* reached mark_pending sends or loses its marker.
Fairness ==
  /\ WF_maintainerVars(\E s \in marking : MarkPending(s))
  /\ \A m \in Maintainers : /\ WF_maintainerVars(PassStep(m))
                            /\ WF_maintainerVars(ListPending(m))

FairSpec == Spec /\ Fairness

-----------------------------------------------------------------------------
(***************************************************************************)
(* Properties.                                                             *)
(***************************************************************************)
Packs == [id : SUBSET Nat, seq : Nat, tier : {0, 1}, size : Nat]
Manifests == [head : Nat, ckpt : Nat, packs : SUBSET Packs]

\* The variables have their types, and no seq, marker or audit is from the future.
MaintainerTypeOK ==
  /\ manifest \in Manifests
  /\ pushes \subseteq 1..manifest.head /\ marking \cup lost \cup crossed \subseteq pushes
  /\ audited \in 0..manifest.head
  /\ gc \in [compact : 0..manifest.head, ckpt : 0..manifest.ckpt]
  /\ marker \in BOOLEAN /\ stray \cup {settled} \subseteq 0..manifest.head
  /\ mt \in [Maintainers -> [pc : Steps, unit : Units, ckptOnly : BOOLEAN, ran : BOOLEAN,
                             seen : Manifests]]
  /\ \A m \in Maintainers : mt[m].seen.head <= manifest.head
  /\ faults \in Nat

\* A marker is deleted only for a plan that saw every push marked before: once
\* the marker is gone, a push that was marked is not newer than the last state
\* found idle (run_marker and delete_marker against mark_pending).  Except a push that
\* was marked between an idle plan and the DELETE it leads to.
PushesPlanned == ~marker => \A s \in pushes \ (marking \cup lost \cup crossed) : s <= settled

\* A marker put since the LIST stays, whenever it was put ("the newer marker remains").
NewerMarkerRemains == ~marker => \A s \in pushes \ (marking \cup lost) : s <= settled

\* Once the marker is gone, and until somebody commits an entry again, nothing that
\* entries make due is left: the log is folded to within its trigger, fresh packs are
\* compacted and the collector has seen every compaction (run_marker's "complete").
TriggersServed ==
  ~marker /\ manifest.head = settled
  => /\ ~EntriesDue(manifest)
     /\ ~FoldDue(manifest)
     /\ CompactSeq(manifest) <= gc.compact

\* To those who follow the log, maintenance is invisible but for entries that move
\* no ref and checkpoints that fold more and more: the checkpoint never moves back
\* and nothing but a push adds a push.
Feed == INSTANCE RepoFeed WITH head <- manifest.head, ckpt <- manifest.ckpt,
                               marked <- marker
ImplementsFeed == Feed!FeedSpec

\* The queue of pending markers empties again after the pushes (OPERATIONS.md on
\* gitcask_pending_markers), unless git finds nothing to repack where fold_due sees a
\* compaction: then each plan asks for it again.
Converges ==
  marker ~> \/ ~marker
            \/ FoldDue(manifest) /\ Rollup(manifest.packs) = {}
=============================================================================
