------------------------ MODULE WalAnswerInvariants -------------------------
(***************************************************************************)
(* The invariants behind the theorems about what clients of WalPublish are *)
(* answered: a copy is the log up to some seq, a reader gets one that has  *)
(* what was acknowledged before it came, and a request is verified on one  *)
(* that is no older than its arrival.                                      *)
(***************************************************************************)
EXTENDS WalInvariants

\* commit_local installs no batch that a sync of the instance has gone beyond (the run
\* overtaken_install shows what happens otherwise).
Unovertaken == \A i \in Instances : CommitLocal(i) => applied[i] <= LastSeq(i)

Exact(i) == refs[i] = RefsAt(applied[i])

\* The copy is the log up to some seq between the applied one and n: commit_local may
\* have stopped half way.
RefsUpTo(i, n) == \E s \in Nat : applied[i] <= s /\ s <= n /\ refs[i] = RefsAt(s)

\* The steps of process_batch before commit_local has touched the copy.
Working == Publishing \ {"sweep"}

HandleOK(i) ==
  /\ open[i] => applied[i] = hm[i].head
  /\ RefsUpTo(i, manifest.head)
  /\ sync[i].by # "none" =>
       /\ hm[i] = sync[i].m \/ hm[i].rev < sync[i].m.rev
       /\ RefsUpTo(i, sync[i].m.head)
  /\ hv[i] # 0 => Exact(i)
  /\ pc[i] \in Working /\ view[i].ver # 0 => Exact(i)

\* What had been acknowledged, and committed, when the request arrived is up to n.
AckedBy(i, n) == reader[i].since <= n /\ \A t \in reader[i].acked : t <= n

ReaderOK(i) ==
  /\ ~open[i] => reader[i].pc = "idle"
  /\ sync[i].by = "reader" <=> reader[i].pc = "sync"
  /\ reader[i].pc = "read" => AckedBy(i, applied[i])
  /\ reader[i].pc = "sync" => AckedBy(i, sync[i].m.head)

ReadInv == \A i \in Instances : HandleOK(i) /\ ReaderOK(i)

ArrivedBy(rs, n) == \A r \in rs : since[r] <= n

\* A request is verified on a copy no older than its arrival: it synced before it was
\* enqueued, or the publisher syncs before it verifies.
QueueArrived(i) ==
  \A k \in DOMAIN queue[i] : queue[i][k].synced => since[queue[i][k].req] <= applied[i]
FetchArrived(i) == sync[i].by = "publisher" => ArrivedBy(Elements(batch[i]), sync[i].m.head)
VerifyArrived(i) == pc[i] = "verify" => ArrivedBy(Elements(batch[i]), applied[i])
AttemptArrived(i) ==
  pc[i] \in Publishing /\ view[i].ver # 0 =>
    /\ ArrivedBy(Elements(batch[i]), view[i].m.head)
    /\ Verified(valid[i], batch[i], view[i].m)

ArrivedOK(i) == QueueArrived(i) /\ FetchArrived(i) /\ VerifyArrived(i) /\ AttemptArrived(i)

\* While nothing is in the log, whoever looks at the manifest finds it pristine.
Untouched ==
  hist = {} =>
    /\ mver = 1 /\ IsPristine(manifest)
    /\ \A i \in Instances : IsPristine(hm[i]) /\ IsPristine(sync[i].m)

RejectInv ==
  /\ \A r \in Requests : since[r] <= manifest.head
  /\ \A i \in Instances : ArrivedOK(i)
  /\ Untouched
  /\ RejectionJustified
=============================================================================
