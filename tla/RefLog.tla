------------------------------- MODULE RefLog -------------------------------
(***************************************************************************)
(* What gitcask promises a client that pushes: the repository is one       *)
(* totally ordered log of ref transactions.  A transaction enters the log  *)
(* at most once, only on top of a state in which every value it expects    *)
(* is the current one; "ok" is answered only for a transaction in the log, *)
(* "rejected" only for one that is not and never will be, "error" says     *)
(* nothing about the log; and a client is answered once.                   *)
(***************************************************************************)
EXTENDS RefTxn

VARIABLES entries,  \* the log: a set of [seq, req], at most one per seq
          answer    \* answer[r]: "none", "ok", "rejected" or "error"

vars == <<entries, answer>>

Init == /\ entries = {}
        /\ answer = [r \in Requests |-> "none"]

StateBefore(es, s) == ApplyEntries(NoRefs, {e \in es : e.seq < s})

\* A batch of transactions enters the log in one atomic step, behind all that
\* is already there and each valid on top of its predecessors.
Commit ==
  /\ entries \subseteq entries'
  /\ LET new == entries' \ entries
     IN  /\ new # {}
         /\ \A e \in entries, f \in new : e.seq < f.seq /\ e.req # f.req
         /\ \A e, f \in new : e # f => e.seq # f.seq /\ e.req # f.req
         /\ \A f \in new : /\ f.req \in Requests
                           /\ VerifyTxn(f.req, StateBefore(entries', f.seq))
                           /\ answer[f.req] \notin {"ok", "rejected"}
  /\ UNCHANGED answer

Committed(r) == \E e \in entries : e.req = r

\* One publisher answers its whole batch in one step.
Answer ==
  /\ answer' \in [Requests -> {"none", "ok", "rejected", "error"}]
  /\ \A r \in Requests :
       answer'[r] # answer[r] => /\ answer[r] = "none"
                                 /\ answer'[r] = "ok" => Committed(r)
                                 /\ answer'[r] = "rejected" => ~Committed(r)
  /\ UNCHANGED entries

Next == Commit \/ Answer

Spec == Init /\ [][Next]_vars
=============================================================================
