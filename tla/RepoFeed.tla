------------------------------ MODULE RepoFeed ------------------------------
(***************************************************************************)
(* A repository as a follower of its log sees it: the manifest's window    *)
(* (checkpoint, head] of entries, some of which are pushes, and the        *)
(* pending marker.  Pushes and compactions extend the window, checkpoints  *)
(* fold its beginning, and the marker comes and goes.                      *)
(*                                                                         *)
(* Maintainer implements this specification; EventsBridge is composed with *)
(* it.                                                                     *)
(***************************************************************************)
EXTENDS Integers

VARIABLES head,     \* head_seq
          ckpt,     \* min_seq - 1: the entries up to here are folded
          pushes,   \* the seqs of the entries that move refs
          marked    \* pending/<owner>/<repo> exists

feedVars == <<head, ckpt, pushes, marked>>

FeedInit == head = 0 /\ ckpt = 0 /\ pushes = {} /\ marked = FALSE

\* A push or another ref transaction commits.
CommitTxn ==
  /\ head' = head + 1
  /\ pushes' = pushes \cup {head + 1}
  /\ UNCHANGED <<ckpt, marked>>

\* A compaction commits its entry, which moves no ref.
CommitCompact ==
  /\ head' = head + 1
  /\ UNCHANGED <<ckpt, pushes, marked>>

\* A checkpoint commits: what it folds leaves the window for good.
Fold ==
  /\ \E s \in ckpt + 1 .. head : ckpt' = s
  /\ UNCHANGED <<head, pushes, marked>>

SetMark ==
  /\ pushes # {}
  /\ marked' = TRUE
  /\ UNCHANGED <<head, ckpt, pushes>>

ClearMark ==
  /\ marked' = FALSE
  /\ UNCHANGED <<head, ckpt, pushes>>

FeedNext == CommitTxn \/ CommitCompact \/ Fold \/ SetMark \/ ClearMark

FeedSpec == FeedInit /\ [][FeedNext]_feedVars
=============================================================================
