----------------------------- MODULE MCWalPublish -----------------------------
(* Small instances of WalPublish. *)
EXTENDS WalRefinement, TLC

CONSTANTS A, B, C, r1, r2, r3, a, b, c, main, dev

Set(old, new) == [old |-> old, new |-> new, sym |-> FALSE]
SymSet(new) == [old |-> Null, new |-> new, sym |-> TRUE]

\* Two pushes race to create main; the third builds on the first, which names
\* two refs and so is all or nothing.
RacingTxns == [r \in {r1, r2, r3} |->
  CASE r = r1 -> [n \in {main, dev} |-> Set(Null, a)]
    [] r = r2 -> [n \in {main} |-> Set(Null, b)]
    [] r = r3 -> [n \in {dev} |-> Set(a, c)]]

\* A push creates dev and another builds on it; the initialization that creates
\* main conflicts with neither, except that it needs a pristine repository.
InitializingTxns == [r \in {r1, r2, r3} |->
  CASE r = r1 -> [n \in {dev} |-> Set(Null, a)]
    [] r = r2 -> [n \in {main} |-> Set(Null, b)]
    [] r = r3 -> [n \in {dev} |-> Set(a, c)]]

\* One push creates dev; two pushes race to create main.
DisjointTxns == [r \in {r1, r2, r3} |->
  CASE r = r1 -> [n \in {dev} |-> Set(Null, a)]
    [] r = r2 -> [n \in {main} |-> Set(Null, b)]
    [] r = r3 -> [n \in {main} |-> Set(Null, c)]]

\* A push creates main, another deletes it, and a symbolic update of dev is
\* never refused.
DeletingTxns == [r \in {r1, r2, r3} |->
  CASE r = r1 -> [n \in {main} |-> Set(Null, a)]
    [] r = r2 -> [n \in {main} |-> Set(a, Null)]
    [] r = r3 -> [n \in {dev} |-> SymSet(b)]]

\* The instances of these runs are interchangeable.
InstanceSymmetry == Permutations(Instances)
=============================================================================
