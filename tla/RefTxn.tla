------------------------------- MODULE RefTxn -------------------------------
(***************************************************************************)
(* Ref transactions, as the write-ahead log carries them: what a push      *)
(* wants to change, when it may, and what a sequence of them leaves        *)
(* behind.  Object ids and ref names are opaque; a transaction maps each   *)
(* ref it names to the value it expects (`old_oid`), the value it sets     *)
(* (`new_oid`, Null for a deletion) and whether it is a symbolic update.   *)
(***************************************************************************)
EXTENDS Integers, Sequences

CONSTANTS Requests,   \* the pushes clients send, each at most once
          Refs,       \* ref names
          Oids,       \* object ids
          Null,       \* the empty or all-zero id: "no such ref"
          Txn         \* Txn[r]: the ref transaction request r carries

Values == Oids \cup {Null}

Updates == [old : Values, new : Values, sym : BOOLEAN]

ASSUME TxnAssumption ==
  /\ Null \notin Oids
  /\ DOMAIN Txn = Requests
  /\ \A r \in Requests : /\ DOMAIN Txn[r] \subseteq Refs
                         /\ \A n \in DOMAIN Txn[r] : Txn[r][n] \in Updates

RefMaps == [Refs -> Values]

NoRefs == [n \in Refs |-> Null]

\* verify_txn: every update is symbolic or finds the value it expects; a null
\* expectation means the ref must not exist.
VerifyTxn(r, refs) ==
  \A n \in DOMAIN Txn[r] : Txn[r][n].sym \/ refs[n] = Txn[r][n].old

\* Log entries: the k-th request of a segment gets sequence number first+k-1.
EntriesAt(first, reqs) ==
  {[seq |-> first + k - 1, req |-> reqs[k]] : k \in 1..Len(reqs)}

Latest(es) == CHOOSE e \in es : \A f \in es : f.seq <= e.seq

\* Replaying entries in sequence order over a ref map.  Every entry is applied
\* unconditionally, so each ref ends with what the last entry naming it sets.
ApplyEntries(refs, es) ==
  [n \in Refs |->
     LET naming == {e \in es : n \in DOMAIN Txn[e.req]}
     IN  IF naming = {} THEN refs[n] ELSE Txn[Latest(naming).req][n].new]
=============================================================================
