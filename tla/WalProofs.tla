----------------------------- MODULE WalProofs ------------------------------
(***************************************************************************)
(* The theorems about WalPublish: types, durability, the order of pushes,  *)
(* local copies, that pushes are linearizable (each is committed once, on  *)
(* top of the values it expects) and what clients are answered.            *)
(***************************************************************************)
EXTENDS WalDurabilityProofs, WalOrderProofs, WalCopyProofs, WalAnswerProofs,
        WellFoundedInduction

\* A step that names no prover is for Zenon.
USE ZenonT(40)

-----------------------------------------------------------------------------
(* Types and durability *)

\* Entries can be replayed: a bounded, nonempty set of them has a latest one, because
\* there is no infinite descent in the natural numbers.
LEMMA Replays == Replayable
<1> SUFFICES ASSUME NEW es \in SUBSET Entries, NEW b \in Nat, es # {}, \A e \in es : e.seq <= b
             PROVE  \E e \in es : \A f \in es : f.seq <= e.seq
  BY DEF Replayable
<1> DEFINE T == {b - e.seq : e \in es}
<1>1. T \in SUBSET Nat /\ T # {}
  <2>1. \A e \in es : e.seq \in Nat /\ e.seq <= b
    BY DEF Entries
  <2> QED
    BY <2>1, Distances
<1>2. IsWellFoundedOn(OpToRel(<, Nat), Nat)
  BY NatLessThanWellFounded
<1>3. PICK x \in T : \A y \in T : ~(<<y, x>> \in OpToRel(<, Nat))
  BY <1>1, <1>2, WFMin
<1>4. \A y \in T : ~(y < x)
  BY <1>1, <1>3 DEF OpToRel
<1>5. PICK e \in es : x = b - e.seq
  OBVIOUS
<1>6. ASSUME NEW f \in es PROVE f.seq <= e.seq
  <2>1. ~(b - f.seq < b - e.seq)
    BY <1>4, <1>5
  <2>2. f.seq \in Nat /\ e.seq \in Nat
    BY DEF Entries
  <2> QED
    BY <2>1, <2>2, Distances
<1> QED
  BY <1>6
\* The invariant of the log is inductive.
LEMMA DurableNext == IInv /\ [Next]_vars => IInv'
<1> SUFFICES ASSUME IInv, [Next]_vars PROVE IInv'
  OBVIOUS
<1>1. TypeInv'
  BY Replays, TypeNext DEF IInv
<1> QED
  BY <1>1, DurableStep

\* Every variable keeps its type in every behaviour of the protocol, whatever
\* crashes, is lost or lands late; the retry and probe counters keep the limits of
\* process_batch and claim_log_slot.
THEOREM TypeCorrect == Spec => []TypeOK
<1>1. TypeInv => TypeOK
  BY DEF TypeInv
<1> QED
  BY <1>1, Replays, TypeInit, TypeNext, PTL DEF Spec

\* So it does with checkpoints written beside pushes by any number of instances, and
\* write_checkpoint_inner retries no more often than cas_max_retries says.
THEOREM CheckpointTypes == CheckpointSpec => []CheckpointTypeOK
<1>1. CheckpointInv => CheckpointTypeOK
  BY DEF CheckpointInv, TypeInv, WritersOK, Writers, CheckpointTypeOK
<1> QED
  BY <1>1, Replays, CheckpointTypeInit, CheckpointTypeNext, PTL DEF CheckpointSpec

\* Every committed segment stays in the bucket and the listed segments hold exactly
\* the committed entries: claim_log_slot, drop_own_slot and sweep_burned never cost
\* a committed push, for any number of instances, pushes, crashes and late writes.
THEOREM Durable == NoAmbiguity /\ Spec => []LogComplete
  BY DurableInit, DurableNext, InvComplete, PTL DEF Spec

\* Whoever was told "ok, seq n" has its transaction at seq n of the log (respond).
THEOREM Acknowledged == NoAmbiguity /\ Spec => []AckedCommitted
<1>1. IInv => AckedCommitted
  BY DEF IInv
<1> QED
  BY <1>1, DurableInit, DurableNext, PTL DEF Spec

\* No manifest write takes the log back: not a retried commit, and not one that
\* takes effect after its instance has crashed (updated_manifest, commit_manifest).
THEOREM OnlyGrows == NoAmbiguity /\ Spec => LogOnlyGrows
<1>1. [Growth]_vars => [/\ manifest'.head >= manifest.head
                        /\ manifest' # manifest => manifest'.rev > manifest.rev
                        /\ \A g \in manifest.segs \ manifest'.segs : g.last <= manifest'.ckpt]_vars
  BY DEF Growth
<1> QED
  BY <1>1, DurableInit, DurableNext, NextGrows, PTL DEF Spec, LogOnlyGrows

\* A push is committed once, at one seq, and who is told "rejected" is not in the log
\* (build_batch, process_batch): not for a retried attempt, a publisher that gave up
\* or a write that took effect after its instance had crashed.
THEOREM Once == NoAmbiguity /\ Spec => []CommittedOnce
  BY DurableInit, DurableNext, OrderInit, OrderNext, OrderOnce, PTL DEF Spec

-----------------------------------------------------------------------------
(* Copies are current *)

\* A store without errors meets the hypothesis of the theorems below.
THEOREM Faultless == NoAmbiguity /\ MaxStoreErrors = 0 /\ Spec => [][Undisturbed]_vars
<1> SUFFICES ASSUME MaxStoreErrors = 0
             PROVE  NoAmbiguity /\ Spec => [][Undisturbed]_vars
  OBVIOUS
<1>1. IInv /\ [Next]_vars => [Undisturbed]_vars
  BY FaultlessInstall
<1> QED
  BY <1>1, DurableInit, DurableNext, PTL DEF Spec

\* An instance that holds the current manifest version and is in nobody's hands has
\* the current refs: the version that sync compares never vouches for refs that a
\* sync, a commit or a failure left behind (apply, commit_local), as long as
\* commit_local does not fail after a sync has overtaken it.
THEOREM Current == NoAmbiguity /\ Spec /\ [][Undisturbed]_vars => []CurrentVersionCurrentRefs
<1>1. IInv /\ OrderInv /\ CopyInv => CurrentVersionCurrentRefs
  BY CopyCurrent DEF CurrentVersionCurrentRefs, HeadSeq
<1> QED
  BY <1>1, DurableInit, DurableNext, OrderInit, OrderNext, ListingInit, ListingNext, CopyInit,
     CopyNext, Replays, PTL DEF Spec

-----------------------------------------------------------------------------
(* Pushes are linearizable *)

\* The invariants of the protocol hold throughout, where commit_local is not disturbed.
LEMMA Invariants ==
  NoAmbiguity /\ Spec /\ [][Undisturbed]_vars => [](IInv /\ OrderInv /\ FitsInv)
  BY DurableInit, DurableNext, OrderInit, OrderNext, ListingInit, ListingNext, CopyInit,
     CopyNext, FitsInit, FitsNext, Replays, PTL DEF Spec

\* Every committed push found the values it expects in the log before it: no update
\* is lost, whichever instance verified it and however late its commit took effect
\* (verify_batch, commit_manifest).
THEOREM Linear == NoAmbiguity /\ Spec /\ [][Undisturbed]_vars => []NoLostUpdate
<1>1. Init => NoLostUpdate
  BY DEF Init, NoLostUpdate
<1>2. IInv /\ OrderInv /\ FitsInv /\ NoLostUpdate /\ [Next]_vars => NoLostUpdate'
  BY UpdatesNext, Replays
<1> QED
  BY <1>1, <1>2, Invariants, PTL DEF Spec

\* A push that needs a pristine repository is the first entry of the log, and the
\* manifest records it (is_pristine, updated_manifest).
THEOREM Receipt == NoAmbiguity /\ Spec /\ [][Undisturbed]_vars => []ReceiptFirst
<1>1. Init => ReceiptFirst
  BY DEF Init, ReceiptFirst
<1>2. IInv /\ OrderInv /\ FitsInv /\ ReceiptFirst /\ [Next]_vars => ReceiptFirst'
  BY ReceiptNext
<1> QED
  BY <1>1, <1>2, Invariants, PTL DEF Spec

\* Every step of the protocol is a step of the log of transactions.
LEMMA RefinementNext ==
  ASSUME IInv, OrderInv, FitsInv, [Next]_vars, IInv', CommittedOnce', NoLostUpdate'
  PROVE  Abstract!Next
<1>1. CASE UNCHANGED <<manifest, hist>>
  BY <1>1, OtherAnswers DEF Abstract!Next
<1>2. ASSUME NEW first \in Nat, NEW reqs \in Batches, Appended(first, reqs)
      PROVE  Abstract!Next
  BY <1>2, AppendCommits DEF Abstract!Next
<1> QED
  BY <1>1, <1>2, LogStep

\* The protocol implements the log of ref transactions: claims, probes, retries,
\* cleanup, crashes and late writes show a client nothing but atomic commits and
\* single answers.
THEOREM Implements == NoAmbiguity /\ Spec /\ [][Undisturbed]_vars => ImplementsRefLog
<1>1. IInv /\ OrderInv /\ FitsInv /\ [Next]_vars /\ IInv' /\ CommittedOnce' /\ NoLostUpdate'
        => [Abstract!Next]_Abstract!vars
  BY RefinementNext
<1> QED
  BY <1>1, RefinementInit, Invariants, Once, Linear, PTL DEF Spec, ImplementsRefLog,
     Abstract!Spec

-----------------------------------------------------------------------------
(* What clients are answered *)

\* The invariants of copies and reads hold throughout, where commit_local is neither
\* disturbed nor overtaken.
LEMMA Copies ==
  NoAmbiguity /\ Spec /\ [][Undisturbed]_vars /\ [][Unovertaken]_vars
    => [](IInv /\ OrderInv /\ ListingInv /\ CopyInv /\ ReadInv)
  BY DurableInit, DurableNext, OrderInit, OrderNext, ListingInit, ListingNext, CopyInit,
     CopyNext, ReadInit, ReadNext, Replays, PTL DEF Spec

\* A read is served from a copy that has every push acknowledged before the read began,
\* at whichever instance that was (sync, apply, serve), as long as commit_local installs
\* no batch that a sync has gone beyond and does not fail after one has applied it.
THEOREM ReadsCurrent == NoAmbiguity /\ Spec /\ [][Undisturbed]_vars /\ [][Unovertaken]_vars
                   => []ReadsSeeAcked
  BY Copies, ReadsCovered, PTL

\* A push is rejected only where the log, at some seq since the push arrived, disagreed
\* with what it expects, or had an entry and the push needs a pristine repository
\* (verify_batch, respond): never because a copy was behind.
THEOREM RejectsJustly == NoAmbiguity /\ Spec /\ [][Undisturbed]_vars /\ [][Unovertaken]_vars
                    => []RejectionJustified
<1>1. /\ IInv /\ OrderInv /\ ListingInv /\ CopyInv /\ ReadInv /\ RejectInv
      /\ [Unovertaken]_vars /\ [Next]_vars
      => RejectInv'
  BY RejectNext, RejectedLogged, Replays
<1>2. RejectInv => RejectionJustified
  BY DEF RejectInv
<1> QED
  BY <1>1, <1>2, Copies, RejectInit, PTL DEF Spec

\* With one instance commit_local is never overtaken: nobody else commits, and a write
\* its crashed predecessor left under way finds another version (commit_manifest).
THEOREM SolePublisher ==
  NoAmbiguity /\ (\A i, j \in Instances : i = j) /\ Spec /\ [][Undisturbed]_vars
    => [][Unovertaken]_vars
<1> SUFFICES ASSUME \A i, j \in Instances : i = j
             PROVE  NoAmbiguity /\ Spec /\ [][Undisturbed]_vars => [][Unovertaken]_vars
  OBVIOUS
<1>1. IInv /\ OrderInv /\ Unrivalled /\ [Next]_vars => Unrivalled'
  BY SoleNext
<1>2. IInv /\ CopyInv /\ Unrivalled => [Unovertaken]_vars
  BY SoleInstalls DEF IInv
<1> QED
  BY <1>1, <1>2, SoleInit, DurableInit, DurableNext, OrderInit, OrderNext, ListingInit,
     ListingNext, CopyInit, CopyNext, Replays, PTL DEF Spec

\* So a server of one instance, whose store does not fail, serves no stale read and
\* rejects no push without a reason, whatever crashes and whatever lands late.
THEOREM SoleAnswers ==
  NoAmbiguity /\ MaxStoreErrors = 0 /\ (\A i, j \in Instances : i = j) /\ Spec
    => [](ReadsSeeAcked /\ RejectionJustified)
  BY Faultless, SolePublisher, ReadsCurrent, RejectsJustly, PTL
=============================================================================
