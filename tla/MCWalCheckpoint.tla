--------------------------- MODULE MCWalCheckpoint ---------------------------
(* Small instances of WalCheckpoint. *)
EXTENDS WalCheckpoint, TLC

CONSTANTS A, B, C, r1, r2, r3, a, b, c, main, dev

Set(old, new) == [old |-> old, new |-> new, sym |-> FALSE]

\* Two pushes to main, one on top of the other, and one to dev.
ChainedTxns == [r \in {r1, r2, r3} |->
  CASE r = r1 -> [n \in {main} |-> Set(Null, a)]
    [] r = r2 -> [n \in {main} |-> Set(a, b)]
    [] r = r3 -> [n \in {dev} |-> Set(Null, c)]]

\* The two to main alone.
TwoTxns == [r \in {r1, r2} |-> ChainedTxns[r]]

\* The publishers are interchangeable.
PublisherSymmetry == Permutations(Publishers)
=============================================================================
