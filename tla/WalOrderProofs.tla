--------------------------- MODULE WalOrderProofs ---------------------------
(***************************************************************************)
(* The pushes of one repository form one order: each has at most one place *)
(* in it and is committed on top of the values it expects, what a          *)
(* committed batch left out was contradicted by the log, and a commit is   *)
(* one of the abstract log.                                                *)
(***************************************************************************)
EXTENDS WalFacts, WalRefinement

\* A step that names no prover is for Zenon.  Where SMT is named, Z3 is a second attempt.
USE ZenonT(40)

-----------------------------------------------------------------------------
(* Requests and their answers *)

\* A queue whose first requests have become a batch (run_batcher).
LEMMA SplitFacts ==
  ASSUME NEW T, NEW q \in Seq(T), NEW n \in 1..Len(q)
  PROVE  /\ DOMAIN SubSeq(q, n + 1, Len(q)) = 1..(Len(q) - n)
         /\ \A k \in 1..(Len(q) - n) : SubSeq(q, n + 1, Len(q))[k] = q[n + k] /\ n + k \in DOMAIN q
         /\ \A k \in 1..n : k \in DOMAIN q
         /\ \A h \in 1..n, k \in 1..(Len(q) - n) : h # n + k
         /\ \A h, k \in 1..(Len(q) - n) : n + h = n + k => h = k
<1>1. PICK l \in Nat : l = Len(q) /\ DOMAIN q = 1..l
  BY LenFacts
<1>2. n \in 1..l
  BY <1>1
<1>3. n \in Nat /\ n <= l
  BY <1>2, SMTT(30), Z3T(30)
<1>4. /\ \A k \in 1..(l - n) : n + k \in 1..l
      /\ \A k \in 1..n : k \in 1..l
      /\ \A h \in 1..n, k \in 1..(l - n) : h # n + k
      /\ \A h, k \in 1..(l - n) : n + h = n + k => h = k
  BY <1>3, SMTT(30), Z3T(30)
<1>5. /\ DOMAIN SubSeq(q, n + 1, l) = 1..(l - n)
      /\ \A k \in 1..(l - n) : SubSeq(q, n + 1, l)[k] = q[n + k]
  BY <1>3, RestFacts
<1> QED
  BY <1>1, <1>4, <1>5

\* A committed request that still waits is in the batch of the publisher that
\* committed it.
LEMMA WaitingCommitted ==
  ASSUME OrderInv, NEW i \in Instances, NEW e \in hist, e.req \in Waiting(i)
  PROVE  pc[i] \in Committed /\ e.req \in Elements(valid[i])
<1>1. resp[e.req].kind = "none"
  BY OrderFacts DEF Unanswered
<1>2. PICK j \in Instances : pc[j] \in Committed /\ e.req \in Elements(valid[j])
  BY <1>1, OrderFacts DEF Told
<1>3. pc[j] \in Publishing
  BY <1>2 DEF Committed, Publishing
<1>4. e.req \in Waiting(j)
  BY <1>2, <1>3, OrderFacts DEF ValidOK, Waiting
<1>5. i = j
  BY <1>4, OrderFacts
<1> QED
  BY <1>2, <1>5

\* No two entries of a batch share a seq, nor a request if the batch lists none twice.
LEMMA EntriesDistinct ==
  ASSUME NEW first \in Nat, NEW reqs \in Batches, Distinct(reqs),
         NEW e \in EntriesAt(first, reqs), NEW f \in EntriesAt(first, reqs),
         e.req = f.req \/ e.seq = f.seq
  PROVE  e = f
<1>1. PICK j \in DOMAIN reqs : /\ e = [seq |-> first + j - 1, req |-> reqs[j]]
                               /\ e.seq = first + j - 1 /\ e.req = reqs[j]
  BY EntryPlaces
<1>2. PICK k \in DOMAIN reqs : /\ f = [seq |-> first + k - 1, req |-> reqs[k]]
                               /\ f.seq = first + k - 1 /\ f.req = reqs[k]
  BY EntryPlaces
<1>3. DOMAIN reqs = 1..Len(reqs) /\ Len(reqs) \in Nat
  BY BatchFacts
<1>4. first + j - 1 = first + k - 1 => j = k
  BY <1>3, SMTT(30), Z3T(30)
<1>5. j = k
  BY <1>1, <1>2, <1>4 DEF Distinct
<1> QED
  BY <1>1, <1>2, <1>5

\* What a publisher in the middle of an attempt proposes is not in the log.
LEMMA ProposedNew ==
  ASSUME OrderInv, NEW i \in Instances, pc[i] \in Publishing, pc[i] \notin Committed
  PROVE  /\ Elements(valid[i]) \cap CommittedReqs = {} /\ Distinct(valid[i])
         /\ Elements(valid[i]) \subseteq Waiting(i)
<1>1. Elements(valid[i]) \subseteq Elements(batch[i]) /\ Distinct(valid[i])
  BY OrderFacts DEF ValidOK
<1>2. Elements(valid[i]) \subseteq Waiting(i)
  BY <1>1 DEF Waiting
<1>3. \A e \in hist : e.req \notin Elements(valid[i])
  BY <1>2, WaitingCommitted
<1> QED
  BY <1>1, <1>2, <1>3 DEF CommittedReqs

\* The publishers of the other instances, and what waits there, stay.
OthersWait(i) ==
  \A j \in Instances \ {i} :
    pc'[j] = pc[j] /\ valid'[j] = valid[j] /\ batch'[j] = batch[j] /\ queue'[j] = queue[j]

\* The order invariant from its parts, after a step.
LEMMA OrderFrom ==
  ASSUME \A r \in Requests : Unseen(r)',
         \A i \in Instances : Unanswered(i)' /\ PlaceOK(i)' /\ ValidOK(i)',
         \A i, j \in Instances : i # j => Waiting(i)' \cap Waiting(j)' = {},
         \A w \in late' : LateAnswered(w)' /\ LateNew(w)',
         HistOnce', \A e \in hist' : Told(e)'
  PROVE  OrderInv'
  BY DEF OrderInv, WaitingInv, OnceInv

\* What the other instances have stays as it was.
LEMMA OthersPlaces ==
  ASSUME NEW i \in Instances, OthersWait(i), NEW j \in Instances, j # i
  PROVE  /\ Waiting(j)' = Waiting(j) /\ Queued(j)' = Queued(j)
         /\ PlaceOK(j) => PlaceOK(j)'
         /\ ValidOK(j) => ValidOK(j)'
<1>1. pc'[j] = pc[j] /\ valid'[j] = valid[j] /\ batch'[j] = batch[j] /\ queue'[j] = queue[j]
  BY DEF OthersWait
<1>2. Waiting(j)' = Waiting(j)
  BY <1>1 DEF Waiting, Elements
<1>3. Queued(j)' = Queued(j)
  BY <1>1 DEF Queued
<1>4. PlaceOK(j) => PlaceOK(j)'
  BY <1>1, <1>3 DEF PlaceOK
<1>5. ValidOK(j) => ValidOK(j)'
  BY <1>1 DEF ValidOK
<1> QED
  BY <1>2, <1>3, <1>4, <1>5

\* A publisher moves on with the same batch.
LEMMA QuietOrder ==
  ASSUME OrderInv, NEW i \in Instances, OthersWait(i),
         UNCHANGED <<manifest, mver, late, hist, queue, batch, since, resp>>,
         ValidOK(i)', pc[i] \in Committed => pc'[i] \in Committed /\ valid'[i] = valid[i]
  PROVE  OrderInv'
<1>1. ASSUME NEW j \in Instances
      PROVE  Waiting(j)' = Waiting(j) /\ Unanswered(j)' /\ PlaceOK(j)' /\ ValidOK(j)'
  <2>1. Waiting(j)' = Waiting(j) /\ Queued(j)' = Queued(j)
    BY DEF Waiting, Queued
  <2>2. Unanswered(j)'
    BY <2>1, OrderFacts DEF Unanswered
  <2>3. PlaceOK(j)'
    BY <2>1, OrderFacts DEF PlaceOK
  <2>4. ValidOK(j)'
    BY OthersPlaces, OrderFacts
  <2> QED
    BY <2>1, <2>2, <2>3, <2>4
<1>2. \A r \in Requests : Unseen(r)'
  BY OrderFacts DEF Unseen
<1>3. \A j, k \in Instances : j # k => Waiting(j)' \cap Waiting(k)' = {}
  BY <1>1, OrderFacts
<1>4. \A w \in late' : LateAnswered(w)' /\ LateNew(w)'
  BY OrderFacts DEF LateAnswered, LateNew, CommittedReqs
<1>5. HistOnce'
  BY OrderFacts DEF HistOnce
<1>6. ASSUME NEW e \in hist' PROVE Told(e)'
  <2>1. Told(e)
    BY OrderFacts
  <2>2. ASSUME NEW j \in Instances, pc[j] \in Committed, e.req \in Elements(valid[j])
        PROVE  pc'[j] \in Committed /\ e.req \in Elements(valid'[j])
    BY <2>2 DEF OthersWait
  <2> QED
    BY <2>1, <2>2 DEF Told
<1> QED
  BY <1>1, <1>2, <1>3, <1>4, <1>5, <1>6, OrderFrom

\* A publisher answers the requests S and drops them: those of its batch, or, when
\* it crashes, all that wait.  A crash may leave its write under way.
LEMMA AnswerOrder ==
  ASSUME OrderInv, TypeInv, NEW i \in Instances, OthersWait(i), NEW S,
         UNCHANGED <<manifest, mver, hist, since>>,
         Elements(batch[i]) \subseteq S, S \subseteq Waiting(i),
         \A r \in Requests \ S : resp'[r] = resp[r],
         \A e \in hist : e.req \in S => resp'[e.req].kind \in {"ok", "error"},
         pc'[i] = "idle", batch'[i] = <<>>,
         \/ queue'[i] = queue[i] /\ S = Elements(batch[i])
         \/ queue'[i] = <<>>,
         \A w \in late' : \/ w \in late
                          \/ /\ Distinct(w.reqs) /\ Elements(w.reqs) \cap CommittedReqs = {}
                             /\ w.m.head = w.slot.seq + Len(w.reqs) - 1
                             /\ \A r \in Elements(w.reqs) : resp'[r].kind = "error"
  PROVE  OrderInv'
<1>1. Elements(batch[i])' = {} /\ Distinct(batch'[i])
  BY SMTT(30), Z3T(30) DEF Elements, Distinct
<1>2. Waiting(i) = Elements(batch[i]) \cup Queued(i)
  BY DEF Waiting, Queued
<1>3. Waiting(i)' = Queued(i)'
  BY <1>1 DEF Waiting, Queued
<1>4. \/ Queued(i)' = Queued(i) /\ S = Elements(batch[i]) /\ queue'[i] = queue[i]
      \/ Queued(i)' = {} /\ DOMAIN queue'[i] = {}
  <2>1. CASE queue'[i] = queue[i] /\ S = Elements(batch[i])
    BY <2>1 DEF Queued
  <2>2. CASE queue'[i] = <<>>
    BY <2>2, SMTT(30), Z3T(30) DEF Queued
  <2> QED
    BY <2>1, <2>2
<1>5. \A r \in Requests : resp[r].kind = "none" \/ resp'[r] = resp[r]
  BY OrderFacts DEF Unanswered
<1>6. ASSUME NEW j \in Instances, NEW r \in Waiting(j)'
      PROVE  r \in Waiting(j) /\ resp'[r] = resp[r]
  <2>1. CASE j # i
    <3>1. r \in Waiting(j) /\ r \in Requests
      BY <1>6, <2>1, OthersPlaces, RequestTypes
    <3>2. r \notin S
      BY <2>1, <3>1, OrderFacts
    <3> QED
      BY <3>1, <3>2
  <2>2. CASE j = i
    <3>1. r \in Queued(i) /\ S = Elements(batch[i])
      BY <1>3, <1>4, <1>6, <2>2
    <3>2. r \in Waiting(i) /\ r \in Requests
      BY <1>2, <3>1, RequestTypes
    <3>3. r \notin S
      BY <3>1, OrderFacts DEF PlaceOK
    <3> QED
      BY <2>2, <3>2, <3>3
  <2> QED
    BY <2>1, <2>2
<1>7. \A r \in Requests : Unseen(r)'
  <2>1. ASSUME NEW r \in Requests, since[r] = -1 PROVE resp'[r].kind = "none"
    <3>1. r \notin S /\ resp[r].kind = "none"
      BY <2>1, OrderFacts DEF Unanswered, Unseen
    <3> QED
      BY <3>1
  <2> QED
    BY <2>1 DEF Unseen
<1>8. ASSUME NEW j \in Instances PROVE Unanswered(j)' /\ PlaceOK(j)' /\ ValidOK(j)'
  <2>1. Unanswered(j)'
    <3>1. ASSUME NEW r \in Waiting(j)' PROVE resp'[r].kind = "none" /\ since'[r] # -1
      <4>1. r \in Waiting(j) /\ resp'[r] = resp[r]
        BY <1>6, <3>1
      <4> QED
        BY <4>1, OrderFacts DEF Unanswered
    <3> QED
      BY <3>1 DEF Unanswered
  <2>2. CASE j # i
    BY <2>1, <2>2, OthersPlaces, OrderFacts
  <2>3. CASE j = i
    <3>1. ValidOK(i)'
      BY DEF ValidOK, Publishing
    <3>2. PlaceOK(i)'
      BY <1>1, <1>4, OrderFacts DEF PlaceOK
    <3> QED
      BY <2>1, <2>3, <3>1, <3>2
  <2> QED
    BY <2>2, <2>3
<1>9. \A j, k \in Instances : j # k => Waiting(j)' \cap Waiting(k)' = {}
  BY <1>6, OrderFacts
<1>10. ASSUME NEW w \in late' PROVE LateAnswered(w)' /\ LateNew(w)'
  <2>1. CASE w \in late
    <3>1. \A r \in Elements(w.reqs) : r \in Requests /\ resp[r].kind = "error"
      BY <2>1, OrderFacts, RequestTypes DEF LateAnswered
    <3>2. \A r \in Elements(w.reqs) : resp'[r].kind = "error"
      BY <1>5, <3>1
    <3> QED
      BY <2>1, <3>2, OrderFacts DEF LateAnswered, LateNew, CommittedReqs
  <2>2. CASE /\ Distinct(w.reqs) /\ Elements(w.reqs) \cap CommittedReqs = {}
             /\ w.m.head = w.slot.seq + Len(w.reqs) - 1
             /\ \A r \in Elements(w.reqs) : resp'[r].kind = "error"
    BY <2>2 DEF LateAnswered, LateNew, CommittedReqs
  <2> QED
    BY <1>10, <2>1, <2>2
<1>11. HistOnce'
  BY OrderFacts DEF HistOnce
<1>12. ASSUME NEW e \in hist' PROVE Told(e)'
  <2>1. Told(e) /\ e \in hist /\ e.req \in Requests
    BY OrderFacts, RequestTypes
  <2>2. CASE e.req \in S
    BY <2>1, <2>2 DEF Told
  <2>3. CASE e.req \notin S
    <3>1. resp'[e.req] = resp[e.req]
      BY <2>1, <2>3
    <3>2. ASSUME NEW j \in Instances, pc[j] \in Committed, e.req \in Elements(valid[j])
          PROVE  pc'[j] \in Committed /\ e.req \in Elements(valid'[j])
      <4>1. j # i
        BY <2>3, <3>2, OrderFacts DEF ValidOK, Committed, Publishing
      <4> QED
        BY <3>2, <4>1 DEF OthersWait
    <3> QED
      BY <2>1, <3>1, <3>2 DEF Told
  <2> QED
    BY <2>2, <2>3
<1> QED
  BY <1>7, <1>8, <1>9, <1>10, <1>11, <1>12, OrderFrom

\* A new request joins a queue.
LEMMA PushOrder ==
  ASSUME OrderInv, TypeInv, NEW i \in Instances, NEW r \in Requests, Fresh(r),
         NEW x \in [req : Requests, synced : BOOLEAN], x.req = r,
         queue' = [queue EXCEPT ![i] = Append(@, x)],
         NEW v \in Nat, since' = [since EXCEPT ![r] = v],
         UNCHANGED <<manifest, mver, late, hist, resp, pc, batch, valid>>
  PROVE  OrderInv'
<1> USE DEF TypeInv, TypeOK
<1>1. /\ since'[r] # -1 /\ \A t \in Requests : t # r => since'[t] = since[t]
      /\ since[r] = -1 /\ resp[r].kind = "none"
  <2>1. \A n \in Nat : n # -1
    BY SMTT(30), Z3T(30)
  <2> QED
    BY <2>1, OrderFacts DEF ClientTypeOK, Fresh, Unseen
<1>2. OthersWait(i)
  BY DEF OthersWait, ClientTypeOK
<1>3. \A j \in Instances : r \notin Waiting(j)
  BY <1>1, OrderFacts DEF Unanswered
<1>4. PICK n : n = Len(queue[i]) + 1
  BY SMTT(30), Z3T(30)
<1>5. /\ DOMAIN queue'[i] = DOMAIN queue[i] \cup {n} /\ n \notin DOMAIN queue[i]
      /\ queue'[i][n] = x
      /\ \A k \in DOMAIN queue[i] : queue'[i][k] = queue[i][k]
  <2>1. queue'[i] = Append(queue[i], x) /\ queue[i] \in Seq([req : Requests, synced : BOOLEAN])
    BY DEF ClientTypeOK
  <2> QED
    BY <1>4, <2>1, AppendFacts, SMTT(30), Z3T(30)
<1>6. Queued(i)' = Queued(i) \cup {r}
  BY <1>5, SMTT(30), Z3T(30) DEF Queued
<1>7. /\ Waiting(i)' = Waiting(i) \cup {r}
      /\ Queued(i) \subseteq Waiting(i) /\ Elements(batch[i]) \subseteq Waiting(i)
  BY <1>6 DEF Waiting, Queued
<1>8. ASSUME NEW j \in Instances, NEW t \in Waiting(j)'
      PROVE  \/ t \in Waiting(j) /\ t # r /\ t \in Requests
             \/ j = i /\ t = r
  <2>1. \A h \in Instances : Waiting(h) \subseteq Requests
    BY RequestTypes
  <2>2. CASE j = i
    BY <1>3, <1>7, <1>8, <2>1, <2>2
  <2>3. CASE j # i
    BY <1>2, <1>3, <1>8, <2>1, <2>3, OthersPlaces
  <2> QED
    BY <2>2, <2>3
<1>9. \A t \in Requests : Unseen(t)'
  BY <1>1, OrderFacts DEF Unseen
<1>10. ASSUME NEW j \in Instances PROVE Unanswered(j)' /\ PlaceOK(j)' /\ ValidOK(j)'
  <2>1. Unanswered(j)'
    BY <1>1, <1>8, OrderFacts DEF Unanswered
  <2>2. CASE j # i
    BY <1>2, <2>1, <2>2, OthersPlaces, OrderFacts
  <2>3. CASE j = i
    <3>1. Queued(i)' \cap Elements(batch[i])' = {}
      <4>1. Queued(i) \cap Elements(batch[i]) = {} /\ r \notin Elements(batch[i])
        BY <1>3, <1>7, OrderFacts DEF PlaceOK
      <4>2. Elements(batch[i])' = Elements(batch[i])
        BY DEF Elements
      <4> QED
        BY <1>6, <4>1, <4>2
    <3>2. \A k \in DOMAIN queue[i] : queue[i][k].req # r
      BY <1>3, <1>7 DEF Queued
    <3>3. \A h, k \in DOMAIN queue'[i] : queue'[i][h].req = queue'[i][k].req => h = k
      BY <1>5, <3>2, OrderFacts, SMTT(30), Z3T(30) DEF PlaceOK
    <3>4. PlaceOK(i)'
      BY <3>1, <3>3, OrderFacts DEF PlaceOK
    <3>5. ValidOK(i)'
      BY OrderFacts DEF ValidOK
    <3> QED
      BY <2>1, <2>3, <3>4, <3>5
  <2> QED
    BY <2>2, <2>3
<1>11. \A j, k \in Instances : j # k => Waiting(j)' \cap Waiting(k)' = {}
  BY <1>8, OrderFacts
<1>12. \A w \in late' : LateAnswered(w)' /\ LateNew(w)'
  BY OrderFacts DEF LateAnswered, LateNew, CommittedReqs
<1>13. HistOnce'
  BY OrderFacts DEF HistOnce
<1>14. ASSUME NEW e \in hist' PROVE Told(e)'
  <2>1. e \in hist /\ e.req \in Requests /\ Told(e)
    BY OrderFacts, RequestTypes
  <2>2. e.req # r
    BY <1>1, <2>1 DEF Told
  <2> QED
    BY <1>1, <2>1, <2>2 DEF Told
<1> QED
  BY <1>9, <1>10, <1>11, <1>12, <1>13, <1>14, OrderFrom

\* Requests move from the queue to the batch.
LEMMA TakeOrder ==
  ASSUME OrderInv, TypeInv, NEW i \in Instances, TakeBatch(i)
  PROVE  OrderInv'
<1> USE DEF TypeInv, TypeOK
<1>1. PICK n \in 1..Len(queue[i]) :
        /\ batch' = [batch EXCEPT ![i] = [k \in 1..n |-> queue[i][k].req]]
        /\ queue' = [queue EXCEPT ![i] = SubSeq(@, n + 1, Len(@))]
        /\ pc' = [pc EXCEPT ![i] = IF \A k \in 1..n : queue[i][k].synced
                                   THEN "verify" ELSE "sync"]
  BY DEF TakeBatch
<1>2. /\ UNCHANGED <<manifest, mver, late, hist, resp, since, valid>> /\ pc[i] = "idle"
  BY DEF TakeBatch, bucketVars
<1>3. OthersWait(i)
  BY <1>1, <1>2 DEF OthersWait, ClientTypeOK, PublisherTypeOK
<1>4. pc'[i] \notin Publishing
  BY <1>1 DEF PublisherTypeOK, Publishing
<1>5. PICK q : q = queue[i]
  BY SMTT(30), Z3T(30)
<1>6. q \in Seq([req : Requests, synced : BOOLEAN]) /\ n \in 1..Len(q)
  BY <1>5 DEF ClientTypeOK
<1>7. PICK D : D = 1..(Len(q) - n)
  BY SMTT(30), Z3T(30)
<1>8. /\ DOMAIN queue'[i] = D
      /\ \A k \in D : queue'[i][k] = q[n + k] /\ n + k \in DOMAIN q
      /\ \A k \in 1..n : k \in DOMAIN q
      /\ \A h \in 1..n, k \in D : h # n + k
      /\ \A h, k \in D : n + h = n + k => h = k
  <2>1. queue'[i] = SubSeq(q, n + 1, Len(q))
    BY <1>1, <1>5 DEF ClientTypeOK
  <2> QED
    BY <1>6, <1>7, <2>1, SplitFacts, SMTT(30), Z3T(30)
<1>9. batch'[i] = [k \in 1..n |-> q[k].req]
  BY <1>1, <1>5 DEF PublisherTypeOK
<1>10. DOMAIN batch'[i] = 1..n /\ \A k \in 1..n : batch'[i][k] = q[k].req
  BY <1>9
<1>11. \A h, k \in DOMAIN q : q[h].req = q[k].req => h = k
  BY <1>5, OrderFacts DEF PlaceOK
<1>12. PlaceOK(i)'
  <2>1. Distinct(batch'[i])
    BY <1>8, <1>10, <1>11 DEF Distinct
  <2>2. \A h, k \in DOMAIN queue'[i] : queue'[i][h].req = queue'[i][k].req => h = k
    BY <1>8, <1>11, SMTT(30), Z3T(30)
  <2>3. \A h \in DOMAIN queue'[i], k \in DOMAIN batch'[i] : queue'[i][h].req # batch'[i][k]
    BY <1>8, <1>10, <1>11, SMTT(30), Z3T(30)
  <2>4. Queued(i)' \cap Elements(batch[i])' = {}
    BY <2>3 DEF Queued, Elements
  <2> QED
    BY <2>1, <2>2, <2>4 DEF PlaceOK
<1>13. Waiting(i)' \subseteq Waiting(i)
  <2>1. \A k \in DOMAIN q : q[k].req \in Waiting(i)
    BY <1>5 DEF Waiting
  <2>2. \A r \in Waiting(i)' : \E k \in DOMAIN q : r = q[k].req
    BY <1>8, <1>10, SMTT(30), Z3T(30) DEF Waiting, Elements
  <2> QED
    BY <2>1, <2>2
<1>14. \A j \in Instances : Waiting(j)' \subseteq Waiting(j)
  BY <1>3, <1>13, OthersPlaces
<1>15. \A r \in Requests : Unseen(r)'
  BY <1>2, OrderFacts DEF Unseen
<1>16. ASSUME NEW j \in Instances PROVE Unanswered(j)' /\ PlaceOK(j)' /\ ValidOK(j)'
  <2>1. Unanswered(j)'
    BY <1>2, <1>14, OrderFacts DEF Unanswered
  <2>2. ValidOK(i)'
    BY <1>4 DEF ValidOK
  <2> QED
    BY <1>3, <1>12, <2>1, <2>2, OthersPlaces, OrderFacts
<1>17. \A j, k \in Instances : j # k => Waiting(j)' \cap Waiting(k)' = {}
  BY <1>14, OrderFacts
<1>18. \A w \in late' : LateAnswered(w)' /\ LateNew(w)'
  BY <1>2, OrderFacts DEF LateAnswered, LateNew, CommittedReqs
<1>19. HistOnce'
  BY <1>2, OrderFacts DEF HistOnce
<1>20. ASSUME NEW e \in hist' PROVE Told(e)'
  <2>1. Told(e)
    BY <1>2, OrderFacts
  <2>2. \A j \in Instances : pc[j] \in Committed => pc'[j] \in Committed
    BY <1>2, <1>3 DEF OthersWait, Committed
  <2> QED
    BY <1>2, <2>1, <2>2 DEF Told
<1> QED
  BY <1>15, <1>16, <1>17, <1>18, <1>19, <1>20, OrderFrom

\* A batch is committed on top of the log: by its publisher, or late.
LEMMA AppendOrder ==
  ASSUME OrderInv, TypeInv, NEW first \in Nat, NEW reqs \in Batches,
         first > manifest.head, manifest'.head = first + Len(reqs) - 1,
         mver' = mver + 1, \A w \in late : w.base <= mver, late' \subseteq late,
         hist' = hist \cup EntriesAt(first, reqs),
         Distinct(reqs), Elements(reqs) \cap CommittedReqs = {},
         UNCHANGED <<queue, batch, valid, since, resp>>,
         \A i \in Instances : /\ pc'[i] \in Publishing => pc[i] \in Publishing
                              /\ pc[i] \in Committed => pc'[i] \in Committed,
         \A r \in Elements(reqs) :
           /\ since[r] # -1
           /\ \/ resp[r].kind = "error"
              \/ \E i \in Instances : pc'[i] \in Committed /\ r \in Elements(valid[i])
  PROVE  OrderInv'
<1>1. \A r \in Requests : Unseen(r)'
  BY OrderFacts DEF Unseen
<1>2. ASSUME NEW i \in Instances
      PROVE  Waiting(i)' = Waiting(i) /\ Unanswered(i)' /\ PlaceOK(i)' /\ ValidOK(i)'
  <2>1. Waiting(i)' = Waiting(i) /\ Queued(i)' = Queued(i)
    BY DEF Waiting, Queued
  <2>2. Unanswered(i)'
    BY <2>1, OrderFacts DEF Unanswered
  <2>3. PlaceOK(i)'
    BY <2>1, OrderFacts DEF PlaceOK
  <2>4. ValidOK(i)'
    BY OrderFacts DEF ValidOK
  <2> QED
    BY <2>1, <2>2, <2>3, <2>4
<1>3. \A i, j \in Instances : i # j => Waiting(i)' \cap Waiting(j)' = {}
  BY <1>2, OrderFacts
<1>4. manifest.head \in Nat /\ mver \in Nat /\ Len(reqs) \in Nat
  BY BatchFacts DEF TypeInv, TypeOK, BucketTypeOK, Manifests
<1>5. ASSUME NEW w \in late' PROVE LateAnswered(w)' /\ LateNew(w)'
  <2>1. w \in late /\ w.base \in Nat
    BY <1>5 DEF TypeInv, TypeOK, BucketTypeOK
  <2>2. w.base # mver'
    BY <1>4, <2>1, SMTT(30), Z3T(30)
  <2> QED
    BY <2>1, <2>2, OrderFacts DEF LateAnswered, LateNew
<1>6. ASSUME NEW e \in hist PROVE e.seq < first /\ e.seq <= manifest'.head
  <2>1. e.seq <= manifest.head /\ e.seq \in Nat
    BY OrderFacts, RequestTypes DEF HistOnce
  <2> QED
    BY <1>4, <2>1, SMTT(30), Z3T(30)
<1>7. ASSUME NEW e \in EntriesAt(first, reqs)
      PROVE  first <= e.seq /\ e.seq <= manifest'.head /\ e.req \in Elements(reqs) /\ e.seq \in Nat
  <2>1. PICK k \in DOMAIN reqs : /\ e.req = reqs[k] /\ e.seq = first + k - 1
                                 /\ first <= e.seq /\ e.seq <= first + Len(reqs) - 1
    BY EntryPlaces
  <2>2. DOMAIN reqs = 1..Len(reqs)
    BY BatchFacts
  <2>3. first + k - 1 \in Nat
    BY <1>4, <2>2, SMTT(30), Z3T(30)
  <2> QED
    BY <2>1, <2>3 DEF Elements
<1>8. ASSUME NEW e \in hist, NEW f \in EntriesAt(first, reqs) PROVE e.req # f.req /\ e.seq # f.seq
  <2>1. e.req # f.req
    BY <1>7 DEF CommittedReqs
  <2>2. e.seq \in Nat
    BY RequestTypes
  <2> QED
    BY <1>6, <1>7, <2>1, <2>2, SMTT(30), Z3T(30)
<1>9. HistOnce'
  <2>1. \A e \in hist' : e.seq <= manifest'.head
    BY <1>6, <1>7
  <2>2. ASSUME NEW e \in hist', NEW f \in hist', e.req = f.req \/ e.seq = f.seq PROVE e = f
    <3>1. CASE e \in hist /\ f \in hist
      BY <2>2, <3>1, OrderFacts DEF HistOnce
    <3>2. CASE e \in EntriesAt(first, reqs) /\ f \in EntriesAt(first, reqs)
      BY <2>2, <3>2, EntriesDistinct
    <3> QED
      BY <1>8, <2>2, <3>1, <3>2
  <2> QED
    BY <2>1, <2>2 DEF HistOnce
<1>10. ASSUME NEW e \in hist' PROVE Told(e)'
  <2>1. CASE e \in hist
    BY <2>1, OrderFacts DEF Told
  <2>2. CASE e \in EntriesAt(first, reqs)
    BY <1>7, <2>2 DEF Told
  <2> QED
    BY <1>10, <2>1, <2>2
<1> QED
  BY <1>1, <1>2, <1>3, <1>5, <1>9, <1>10, OrderFrom

\* A publisher moves on with the same batch and the same accepted requests.
LEMMA MoveOrder ==
  ASSUME OrderInv, NEW i \in Instances,
         UNCHANGED <<manifest, mver, late, hist, queue, batch, valid, since, resp>>,
         \A j \in Instances \ {i} : pc'[j] = pc[j],
         pc'[i] \in Publishing => pc[i] \in Publishing,
         pc[i] \in Committed => pc'[i] \in Committed
  PROVE  OrderInv'
<1>1. OthersWait(i)
  BY DEF OthersWait
<1>2. ValidOK(i)'
  BY OrderFacts DEF ValidOK
<1> QED
  BY <1>1, <1>2, QuietOrder

\* All waiters of the batch get an error.
LEMMA FinishOrder ==
  ASSUME OrderInv, TypeInv, NEW i \in Instances, FinishErrors(i),
         UNCHANGED <<manifest, mver, late, hist>>
  PROVE  OrderInv'
<1>1. OthersWait(i) /\ pc'[i] = "idle" /\ batch'[i] = <<>>
  BY ResetPlaces DEF FinishErrors, OthersWait
<1>2. PICK S : S = Elements(batch[i])
  BY SMTT(30), Z3T(30)
<1>3. /\ \A r \in Requests \ S : resp'[r] = resp[r]
      /\ \A r \in Requests : r \in S => resp'[r].kind = "error"
  BY <1>2 DEF FinishErrors, AnswerAll
<1>4. S \subseteq Waiting(i) /\ queue' = queue /\ since' = since
  BY <1>2 DEF Waiting, FinishErrors
<1>5. \A e \in hist : e.req \in S => resp'[e.req].kind \in {"ok", "error"}
  BY <1>3, RequestTypes
<1> QED
  BY <1>1, <1>2, <1>3, <1>4, <1>5, AnswerOrder

\* A contended attempt, not yet committed, starts over or gives up: no push moves.
LEMMA ContendedOrder ==
  ASSUME OrderInv, TypeInv, NEW i \in Instances, Contended(i), pc[i] \notin Committed,
         UNCHANGED <<manifest, mver, late, hist>>
  PROVE  OrderInv'
<1>1. CASE FinishErrors(i)
  BY <1>1, FinishOrder
<1>2. CASE pc' = [pc EXCEPT ![i] = "sync"] /\ UNCHANGED <<batch, valid, queue, since, resp>>
  <2>1. pc'[i] = "sync" /\ \A j \in Instances \ {i} : pc'[j] = pc[j]
    BY <1>2 DEF TypeInv, TypeOK, PublisherTypeOK
  <2> QED
    BY <1>2, <2>1, MoveOrder DEF Publishing
<1> QED
  BY <1>1, <1>2 DEF Contended, clientVars

\* A new push joins one queue; reads touch no push.
LEMMA ClientOrder ==
  ASSUME OrderInv, TypeInv, NEW i \in Instances, ClientStep(i)
  PROVE  OrderInv'
<1> USE DEF TypeInv, TypeOK
<1>1. ASSUME NEW r \in Requests, PublishPush(i, r) PROVE OrderInv'
  <2>1. UNCHANGED <<manifest, mver, late, hist, resp, pc, batch, valid>> /\ Fresh(r)
    BY <1>1 DEF PublishPush, bucketVars, pubVars
  <2>2. PICK x : x = [req |-> r, synced |-> FALSE]
    OBVIOUS
  <2>3. x \in [req : Requests, synced : BOOLEAN] /\ x.req = r
    BY <2>2
  <2>4. queue' = [queue EXCEPT ![i] = Append(@, x)] /\ since' = [since EXCEPT ![r] = manifest.head]
    BY <1>1, <2>2 DEF PublishPush, HeadSeq
  <2>5. manifest.head \in Nat
    BY DEF BucketTypeOK, Manifests
  <2> QED
    BY <2>1, <2>3, <2>4, <2>5, PushOrder
<1>2. ASSUME NEW r \in Requests, PublishPushSynced(i, r) PROVE OrderInv'
  <2>1. UNCHANGED <<manifest, mver, late, hist, resp, pc, batch, valid>> /\ Fresh(r)
    BY <1>2 DEF PublishPushSynced, bucketVars, pubVars
  <2>2. PICK x : x = [req |-> r, synced |-> TRUE]
    OBVIOUS
  <2>3. x \in [req : Requests, synced : BOOLEAN] /\ x.req = r
    BY <2>2
  <2>4. queue' = [queue EXCEPT ![i] = Append(@, x)] /\ since' = [since EXCEPT ![r] = reader[i].since]
    BY <1>2, <2>2 DEF PublishPushSynced
  <2>5. reader[i].since \in Nat
    BY DEF ClientTypeOK
  <2> QED
    BY <2>1, <2>3, <2>4, <2>5, PushOrder
<1>3. CASE StartRead(i) \/ FinishRead(i)
  <2>1. UNCHANGED <<manifest, mver, late, hist, queue, batch, valid, since, resp, pc>>
    BY <1>3 DEF StartRead, FinishRead, bucketVars, pubVars
  <2> QED
    BY <2>1, MoveOrder
<1> QED
  BY <1>1, <1>2, <1>3 DEF ClientStep

\* A sync touches no push, unless it fails under a publisher, who then gives up.
LEMMA SyncOrder ==
  ASSUME OrderInv, TypeInv, ViewsInv, NEW i \in Instances, SyncStep(i)
  PROVE  OrderInv'
<1>1. UNCHANGED <<manifest, mver, late, hist>>
  BY DEF SyncStep, OpenRepo, SyncDone, SyncFailed, bucketVars
<1>2. CASE OpenRepo(i)
  BY <1>1, <1>2, MoveOrder DEF OpenRepo, pubVars, clientVars
<1>3. CASE SyncDone(i)
  <2>1. UNCHANGED <<queue, batch, valid, since, resp>>
    BY <1>3 DEF SyncDone
  <2>2. \A j \in Instances \ {i} : pc'[j] = pc[j]
    BY <1>3 DEF SyncDone, TypeInv, TypeOK, PublisherTypeOK
  <2>3. \/ sync[i].by = "publisher" /\ pc'[i] = "verify"
        \/ pc'[i] = pc[i]
    BY <1>3 DEF SyncDone, TypeInv, TypeOK, PublisherTypeOK
  <2>4. sync[i].by = "publisher" => pc[i] = "sync"
    BY DEF ViewsInv, SyncOwner
  <2>5. /\ pc'[i] \in Publishing => pc[i] \in Publishing
        /\ pc[i] \in Committed => pc'[i] \in Committed
    BY <2>3, <2>4 DEF Publishing, Committed
  <2> QED
    BY <1>1, <2>1, <2>2, <2>5, MoveOrder
<1>4. CASE SyncFailed(i)
  <2>1. CASE FinishErrors(i)
    BY <1>1, <2>1, FinishOrder
  <2>2. CASE UNCHANGED <<pubVars, queue, resp, since>>
    BY <1>1, <2>2, MoveOrder DEF pubVars
  <2> QED
    BY <1>4, <2>1, <2>2 DEF SyncFailed
<1> QED
  BY <1>2, <1>3, <1>4 DEF SyncStep

\* What is accepted is of the batch, each request once.
LEMMA AcceptedFacts ==
  ASSUME NEW b \in Batches, NEW acc \in SUBSET DOMAIN b, NEW v \in Batches,
         AcceptedReqs(v, acc, b)
  PROVE  Elements(v) \subseteq Elements(b) /\ (Distinct(b) => Distinct(v))
<1>1. DOMAIN v = 1..Len(v) /\ Len(v) \in Nat /\ DOMAIN b \subseteq Nat
  <2>1. DOMAIN b = 1..Len(b) /\ Len(b) \in Nat
    BY BatchFacts
  <2>2. 1..Len(b) \subseteq Nat
    BY <2>1, SMTT(30), Z3T(30)
  <2> QED
    BY <2>1, <2>2, BatchFacts
<1>2. PICK p \in [1..Len(v) -> acc] :
        ValidIndices(p, acc) /\ \A k \in 1..Len(v) : v[k] = b[p[k]]
  BY DEF AcceptedReqs
<1>3. Elements(v) \subseteq Elements(b)
  <2>1. \A k \in 1..Len(v) : p[k] \in DOMAIN b /\ v[k] = b[p[k]]
    BY <1>2
  <2>2. \A k \in DOMAIN v : v[k] \in Elements(b)
    BY <1>1, <2>1 DEF Elements
  <2> QED
    BY <2>2 DEF Elements
<1>4. ASSUME Distinct(b), NEW j \in DOMAIN v, NEW k \in DOMAIN v, v[j] = v[k] PROVE j = k
  <2>1. p[j] \in DOMAIN b /\ p[k] \in DOMAIN b /\ v[j] = b[p[j]] /\ v[k] = b[p[k]]
    BY <1>1, <1>2, <1>4
  <2>2. p[j] = p[k]
    BY <1>4, <2>1 DEF Distinct
  <2>3. ~(p[j] < p[k]) /\ ~(p[k] < p[j])
    BY <1>1, <2>1, <2>2, SMTT(30), Z3T(30)
  <2>4. ~(j < k) /\ ~(k < j)
    BY <1>1, <1>2, <2>3 DEF ValidIndices
  <2> QED
    BY <1>1, <2>4, SMTT(30), Z3T(30)
<1> QED
  BY <1>3, <1>4 DEF Distinct

\* build_batch keeps each accepted push once and in its place, and answers the others.
LEMMA VerifyOrder ==
  ASSUME OrderInv, TypeInv, NEW i \in Instances, VerifyBatch(i)
  PROVE  OrderInv'
<1> USE DEF TypeInv, TypeOK
<1>1. UNCHANGED <<manifest, mver, late, hist>> /\ pc[i] = "verify"
  BY DEF VerifyBatch, bucketVars
<1>2. CASE /\ AnswerAll(Elements(batch[i]), "rejected") /\ ResetPublisher(i)
           /\ UNCHANGED <<queue, since>>
  <2>1. OthersWait(i) /\ pc'[i] = "idle" /\ batch'[i] = <<>>
    BY <1>2, ResetPlaces DEF OthersWait
  <2>2. PICK S : S = Elements(batch[i])
    BY SMTT(30), Z3T(30)
  <2>3. \A r \in Requests \ S : resp'[r] = resp[r]
    BY <1>2, <2>2 DEF AnswerAll
  <2>4. S \subseteq Waiting(i)
    BY <2>2 DEF Waiting
  <2>5. \A e \in hist : e.req \notin S
    BY <1>1, <2>4, WaitingCommitted DEF Committed
  <2> QED
    BY <1>1, <1>2, <2>1, <2>2, <2>3, <2>4, <2>5, AnswerOrder
<1>3. ASSUME NEW acc \in SUBSET DOMAIN batch[i], NEW v \in Batches,
             AcceptedReqs(v, acc, batch[i]), valid' = [valid EXCEPT ![i] = v],
             pc' = [pc EXCEPT ![i] = "claim"], UNCHANGED <<batch, queue, since, resp>>
      PROVE  OrderInv'
  <2>1. OthersWait(i) /\ valid'[i] = v
    BY <1>3 DEF OthersWait, PublisherTypeOK
  <2>2. batch[i] \in Batches /\ Distinct(batch[i])
    BY OrderFacts DEF PublisherTypeOK, PlaceOK
  <2>3. ValidOK(i)'
    BY <1>3, <2>1, <2>2, AcceptedFacts DEF ValidOK
  <2>4. pc[i] \notin Committed
    BY <1>1 DEF Committed
  <2> QED
    BY <1>1, <1>3, <2>1, <2>3, <2>4, QuietOrder
<1> QED
  BY <1>2, <1>3 DEF VerifyBatch, clientVars

\* A commit enters pushes that were not in the log, each at one seq.
LEMMA CommitOrder ==
  ASSUME OrderInv, IInv, NEW i \in Instances, CommitManifest(i)
  PROVE  OrderInv'
<1>1. /\ pc[i] = "cas" /\ view[i].ver = mver
      /\ manifest' = UpdatedManifest(i) /\ mver' = mver + 1 /\ late' = late
      /\ hist' = hist \cup EntriesAt(slot[i].seq, valid[i])
      /\ UNCHANGED <<queue, batch, valid, since, resp>>
  BY DEF CommitManifest, PutManifest, clientVars
<1>2. TypeInv /\ \A w \in late : w.base <= mver
  BY DEF IInv, ClaimsInv, LateOK
<1>3. slot[i].seq \in Nat /\ valid[i] \in Batches
  BY <1>2 DEF TypeInv, TypeOK, PublisherTypeOK, Slots
<1>4. manifest'.head = slot[i].seq + Len(valid[i]) - 1 /\ slot[i].seq > manifest.head
  <2>1. slot[i].seq > manifest.head
    BY <1>1, UpdatedAppends DEF Appends
  <2>2. view[i].m \in Manifests
    BY <1>2 DEF TypeInv, TypeOK, PublisherTypeOK
  <2>3. UpdatedManifest(i).head = LastSeq(i)
    BY <2>2, SMTT(30), Z3T(30) DEF UpdatedManifest, Manifests
  <2> QED
    BY <1>1, <2>1, <2>3 DEF LastSeq
<1>5. pc'[i] = "mark" /\ \A j \in Instances \ {i} : pc'[j] = pc[j]
  BY <1>2 DEF CommitManifest, TypeInv, TypeOK, PublisherTypeOK
<1>6. \A j \in Instances : /\ pc'[j] \in Publishing => pc[j] \in Publishing
                           /\ pc[j] \in Committed => pc'[j] \in Committed
  BY <1>1, <1>5 DEF Publishing, Committed
<1>7. /\ Elements(valid[i]) \cap CommittedReqs = {} /\ Distinct(valid[i])
      /\ Elements(valid[i]) \subseteq Waiting(i)
  BY <1>1, ProposedNew DEF Publishing, Committed
<1>8. \A r \in Elements(valid[i]) :
        since[r] # -1 /\ \E j \in Instances : pc'[j] \in Committed /\ r \in Elements(valid[j])
  BY <1>5, <1>7, OrderFacts DEF Unanswered, Committed
<1> QED
  BY <1>1, <1>2, <1>3, <1>4, <1>6, <1>7, <1>8, AppendOrder

\* So does a write that takes effect late.
LEMMA LandOrder ==
  ASSUME OrderInv, IInv, LandManifest
  PROVE  OrderInv'
<1>1. UNCHANGED <<queue, batch, valid, since, resp, pc>>
  BY DEF LandManifest, pubVars, clientVars
<1>2. PICK w \in late :
        /\ late' = late \ {w}
        /\ IF w.base = mver
           THEN /\ manifest' = w.m /\ mver' = mver + 1
                /\ hist' = hist \cup EntriesAt(w.slot.seq, w.reqs)
           ELSE UNCHANGED <<manifest, mver, hist>>
  BY DEF LandManifest, PutManifest
<1>3. TypeInv /\ \A x \in late : x.base <= mver
  BY DEF IInv, ClaimsInv, LateOK
<1>4. CASE w.base = mver
  <2>1. w.slot.seq \in Nat /\ w.reqs \in Batches
    BY <1>3 DEF TypeInv, TypeOK, BucketTypeOK, Slots
  <2>2. w.slot.seq > manifest.head
    BY <1>4 DEF IInv, ClaimsInv, LateOK, Appends
  <2>3. /\ Distinct(w.reqs) /\ Elements(w.reqs) \cap CommittedReqs = {}
        /\ w.m.head = w.slot.seq + Len(w.reqs) - 1
        /\ \A r \in Elements(w.reqs) : resp[r].kind = "error"
    BY <1>4, OrderFacts DEF LateAnswered, LateNew
  <2>4. \A r \in Elements(w.reqs) : since[r] # -1
    BY <1>3, <2>3, OrderFacts, RequestTypes DEF Unseen
  <2>5. \A j \in Instances : /\ pc'[j] \in Publishing => pc[j] \in Publishing
                             /\ pc[j] \in Committed => pc'[j] \in Committed
    BY <1>1
  <2>6. late' \subseteq late
    BY <1>2
  <2> QED
    BY <1>1, <1>2, <1>3, <1>4, <2>1, <2>2, <2>3, <2>4, <2>5, <2>6, AppendOrder
<1>5. CASE w.base # mver
  <2>1. UNCHANGED <<manifest, mver, hist>>
    BY <1>2, <1>5
  <2>2. \A r \in Requests : Unseen(r)'
    BY <1>1, OrderFacts DEF Unseen
  <2>3. \A j \in Instances : Waiting(j)' = Waiting(j) /\ Queued(j)' = Queued(j)
    BY <1>1 DEF Waiting, Queued
  <2>4. \A j \in Instances : Unanswered(j)' /\ PlaceOK(j)' /\ ValidOK(j)'
    BY <1>1, <2>3, OrderFacts DEF Unanswered, PlaceOK, ValidOK
  <2>5. \A j, k \in Instances : j # k => Waiting(j)' \cap Waiting(k)' = {}
    BY <2>3, OrderFacts
  <2>6. \A x \in late' : LateAnswered(x)' /\ LateNew(x)'
    BY <1>1, <1>2, <2>1, OrderFacts DEF LateAnswered, LateNew, CommittedReqs
  <2>7. HistOnce' /\ \A e \in hist' : Told(e)'
    BY <1>1, <2>1, OrderFacts DEF HistOnce, Told
  <2> QED
    BY <2>2, <2>4, <2>5, <2>6, <2>7, OrderFrom
<1> QED
  BY <1>4, <1>5

\* Who is answered has left the batch.
LEMMA RespondOrder ==
  ASSUME OrderInv, TypeInv, NEW i \in Instances, Respond(i)
  PROVE  OrderInv'
<1>1. /\ UNCHANGED <<manifest, mver, late, hist, queue, since>>
      /\ resp' = Answers(i) /\ ResetPublisher(i)
  BY DEF Respond, bucketVars
<1>2. OthersWait(i) /\ pc'[i] = "idle" /\ batch'[i] = <<>>
  BY <1>1, ResetPlaces DEF OthersWait
<1>3. PICK S : S = Elements(batch[i])
  BY SMTT(30), Z3T(30)
<1>4. Elements(valid[i]) \subseteq S
  BY <1>3, OrderFacts DEF Respond, ValidOK, Publishing
<1>5. ASSUME NEW r \in Requests \ S PROVE resp'[r] = resp[r]
  <2>1. ~\E k \in DOMAIN valid[i] : valid[i][k] = r
    BY <1>4, <1>5 DEF Elements
  <2> QED
    BY <1>1, <1>3, <1>5, <2>1 DEF Answers
<1>6. S \subseteq Waiting(i)
  BY <1>3 DEF Waiting
<1>7. ASSUME NEW e \in hist, e.req \in S PROVE resp'[e.req].kind \in {"ok", "error"}
  <2>1. e.req \in Elements(valid[i]) /\ e.req \in Requests
    BY <1>6, <1>7, WaitingCommitted, RequestTypes
  <2>2. \E k \in DOMAIN valid[i] : valid[i][k] = e.req
    BY <2>1 DEF Elements
  <2>3. resp'[e.req].kind = "ok"
    BY <1>1, <2>1, <2>2 DEF Answers
  <2> QED
    BY <2>3
<1> QED
  BY <1>1, <1>2, <1>3, <1>5, <1>6, <1>7, AnswerOrder

\* A crash answers whoever waited; what it left under way is still new to the log.
LEMMA CrashOrder ==
  ASSUME OrderInv, TypeInv, NEW i \in Instances, Crash(i)
  PROVE  OrderInv'
<1>1. /\ UNCHANGED <<manifest, mver, hist, since>> /\ ResetPublisher(i)
      /\ AnswerAll(Waiting(i), "error") /\ queue' = [queue EXCEPT ![i] = <<>>]
      /\ \/ late' = late
         \/ pc[i] = "cas" /\ late' = late \cup {ManifestWrite(i)}
  BY DEF Crash
<1>2. OthersWait(i) /\ pc'[i] = "idle" /\ batch'[i] = <<>> /\ queue'[i] = <<>>
  BY <1>1, ResetPlaces DEF OthersWait, TypeInv, TypeOK, ClientTypeOK
<1>3. PICK S : S = Waiting(i)
  BY SMTT(30), Z3T(30)
<1>4. /\ \A r \in Requests \ S : resp'[r] = resp[r]
      /\ \A r \in Requests : r \in S => resp'[r].kind = "error"
  BY <1>1, <1>3 DEF AnswerAll
<1>5. Elements(batch[i]) \subseteq S /\ S \subseteq Waiting(i) /\ S \subseteq Requests
  BY <1>3, RequestTypes DEF Waiting
<1>6. \A e \in hist : e.req \in S => resp'[e.req].kind \in {"ok", "error"}
  BY <1>4, RequestTypes
<1>7. ASSUME NEW w \in late', w \notin late
      PROVE  /\ Distinct(w.reqs) /\ Elements(w.reqs) \cap CommittedReqs = {}
             /\ w.m.head = w.slot.seq + Len(w.reqs) - 1
             /\ \A r \in Elements(w.reqs) : resp'[r].kind = "error"
  <2>1. pc[i] = "cas" /\ w = ManifestWrite(i)
    BY <1>1, <1>7
  <2>2. w.reqs = valid[i] /\ w.slot = slot[i] /\ w.m = UpdatedManifest(i)
    BY <2>1 DEF ManifestWrite
  <2>3. view[i].m \in Manifests
    BY DEF TypeInv, TypeOK, PublisherTypeOK
  <2>4. UpdatedManifest(i).head = LastSeq(i)
    BY <2>3, SMTT(30), Z3T(30) DEF UpdatedManifest, Manifests
  <2>5. /\ Elements(valid[i]) \cap CommittedReqs = {} /\ Distinct(valid[i])
        /\ Elements(valid[i]) \subseteq Waiting(i)
    BY <2>1, ProposedNew DEF Publishing, Committed
  <2>6. \A r \in Elements(valid[i]) : resp'[r].kind = "error"
    BY <1>3, <1>4, <1>5, <2>5
  <2> QED
    BY <2>2, <2>4, <2>5, <2>6 DEF LastSeq
<1> QED
  BY <1>1, <1>2, <1>4, <1>5, <1>6, <1>7, AnswerOrder

\* The steps of a publisher that leave its batch and what it accepted alone.
LEMMA StayOrder ==
  ASSUME OrderInv, TypeInv, NEW i \in Instances,
         UNCHANGED <<manifest, mver, late, hist, queue, batch, valid, since, resp>>,
         NEW p, NEW q, pc[i] = p, pc' = [pc EXCEPT ![i] = q],
         q \in Publishing => p \in Publishing, p \in Committed => q \in Committed
  PROVE  OrderInv'
<1>1. pc'[i] = q /\ \A j \in Instances \ {i} : pc'[j] = pc[j]
  BY DEF TypeInv, TypeOK, PublisherTypeOK
<1> QED
  BY <1>1, MoveOrder

\* Probing and retrying move no push.
LEMMA ProbeOrder ==
  ASSUME OrderInv, TypeInv, NEW i \in Instances,
         \/ ProbeManifest(i) \/ ProbeHead(i) \/ ProbeFailed(i) \/ ClaimFailed(i)
         \/ RetryAfterDrop(i)
  PROVE  OrderInv'
<1>1. UNCHANGED <<manifest, mver, late, hist>>
  BY DEF ProbeManifest, ProbeHead, ProbeFailed, ClaimFailed, RetryAfterDrop, bucketVars
<1>2. CASE FinishErrors(i)
  BY <1>1, <1>2, FinishOrder
<1>3. CASE Contended(i) /\ pc[i] \in {"probe", "dropped"}
  BY <1>1, <1>3, ContendedOrder DEF Committed
<1>4. ASSUME NEW q \in {"probehead", "claim", "probe"}, pc[i] \in {"probe", "probehead"},
             pc' = [pc EXCEPT ![i] = q], UNCHANGED <<queue, batch, valid, since, resp>>
      PROVE  OrderInv'
  BY <1>1, <1>4, StayOrder DEF Publishing, Committed
<1>5. CASE ProbeManifest(i)
  BY <1>3, <1>4, <1>5 DEF ProbeManifest, clientVars
<1>6. CASE ProbeHead(i)
  BY <1>2, <1>4, <1>6 DEF ProbeHead, clientVars
<1> QED
  BY <1>2, <1>3, <1>5, <1>6 DEF ProbeFailed, ClaimFailed, RetryAfterDrop

\* Neither do the other steps of an attempt before and after the commit.
LEMMA AttemptOrder ==
  ASSUME OrderInv, TypeInv, NEW i \in Instances,
         \/ PublisherSync(i) \/ ClaimLogSlot(i) \/ CommitRefused(i) \/ MarkPending(i)
         \/ CommitLocal(i) \/ SweepBurned(i) \/ DropOwnSlot(i) \/ AbandonDelete(i)
  PROVE  OrderInv'
<1>1. UNCHANGED <<manifest, mver, late, hist, queue, batch, valid, since, resp>>
  BY DEF PublisherSync, ClaimLogSlot, CommitRefused, MarkPending, CommitLocal, SweepBurned,
     DropOwnSlot, AbandonDelete, bucketVars, pubVars, clientVars
<1>2. CASE PublisherSync(i)
  <2>1. PICK q \in {"verify", "sync"} : pc' = [pc EXCEPT ![i] = q]
    BY <1>2 DEF PublisherSync
  <2>2. pc[i] = "sync"
    BY <1>2 DEF PublisherSync
  <2> QED
    BY <1>1, <2>1, <2>2, StayOrder DEF Publishing, Committed
<1>3. CASE ClaimLogSlot(i)
  <2>1. PICK q \in {"cas", "probe"} : pc' = [pc EXCEPT ![i] = q]
    BY <1>3 DEF ClaimLogSlot
  <2>2. pc[i] = "claim"
    BY <1>3 DEF ClaimLogSlot
  <2> QED
    BY <1>1, <2>1, <2>2, StayOrder DEF Publishing, Committed
<1>4. CASE CommitRefused(i) \/ DropOwnSlot(i)
  <2>1. PICK q \in {"drop", "dropped"} : pc' = [pc EXCEPT ![i] = q]
    BY <1>4 DEF CommitRefused, DropOwnSlot
  <2>2. pc[i] \in {"cas", "drop"}
    BY <1>4 DEF CommitRefused, DropOwnSlot
  <2> QED
    BY <1>1, <2>1, <2>2, StayOrder DEF Publishing, Committed
<1>5. CASE MarkPending(i)
  <2>1. PICK q \in {"recover", "local"} : pc' = [pc EXCEPT ![i] = q]
    BY <1>5 DEF MarkPending
  <2>2. pc[i] = "mark"
    BY <1>5 DEF MarkPending
  <2> QED
    BY <1>1, <2>1, <2>2, StayOrder DEF Publishing, Committed
<1>6. CASE CommitLocal(i)
  <2>1. pc[i] = "local" /\ pc' = [pc EXCEPT ![i] = "sweep"]
    BY <1>6 DEF CommitLocal
  <2> QED
    BY <1>1, <2>1, StayOrder DEF Publishing, Committed
<1>7. CASE SweepBurned(i) \/ AbandonDelete(i)
  <2>1. UNCHANGED pc
    BY <1>7 DEF SweepBurned, AbandonDelete, pubVars
  <2> QED
    BY <1>1, <2>1, MoveOrder
<1> QED
  BY <1>2, <1>3, <1>4, <1>5, <1>6, <1>7

\* The steps of a publisher keep the order of commits.
LEMMA PublisherOrder ==
  ASSUME OrderInv, IInv, NEW i \in Instances, PublisherStep(i)
  PROVE  OrderInv'
<1>1. TypeInv /\ pc[i] \notin {"landed", "recover"} /\ MaxLostCas = 0
  BY DEF IInv, ViewsInv, AttemptOK, NoAmbiguity
<1>2. ~CommitLost(i)
  <2>1. faults.cas \in Nat
    BY <1>1 DEF TypeInv, TypeOK, BucketTypeOK
  <2>2. ~(faults.cas < MaxLostCas)
    BY <1>1, <2>1, SMTT(30), Z3T(30)
  <2> QED
    BY <2>2 DEF CommitLost
<1>3. ~CasLanded(i) /\ ~RecoverManifestVersion(i)
  BY <1>1 DEF CasLanded, RecoverManifestVersion
<1> QED
  BY <1>1, <1>2, <1>3, TakeOrder, VerifyOrder, ProbeOrder, AttemptOrder, CommitOrder,
     RespondOrder DEF PublisherStep

\* Nothing waits, and nothing is in the log.
LEMMA OrderInit == Init => OrderInv
<1> SUFFICES ASSUME Init PROVE OrderInv
  BY SMTT(30), Z3T(30)
<1>1. hist = {} /\ late = {}
  BY DEF Init
<1>2. ASSUME NEW i \in Instances
      PROVE  queue[i] = <<>> /\ batch[i] = <<>> /\ pc[i] = "idle"
  BY DEF Init
<1>3. ASSUME NEW i \in Instances PROVE Elements(batch[i]) = {} /\ Queued(i) = {} /\ Waiting(i) = {}
  <2>1. DOMAIN batch[i] = {} /\ DOMAIN queue[i] = {}
    BY <1>2, SMTT(30), Z3T(30)
  <2> QED
    BY <2>1 DEF Elements, Queued, Waiting
<1>4. ASSUME NEW i \in Instances PROVE Unanswered(i) /\ PlaceOK(i) /\ ValidOK(i)
  <2>1. DOMAIN batch[i] = {} /\ DOMAIN queue[i] = {}
    BY <1>2, SMTT(30), Z3T(30)
  <2>2. Unanswered(i) /\ PlaceOK(i)
    BY <1>3, <2>1 DEF Unanswered, PlaceOK, Distinct
  <2>3. ValidOK(i)
    BY <1>2 DEF ValidOK, Publishing
  <2> QED
    BY <2>2, <2>3
<1>5. \A r \in Requests : Unseen(r)
  BY DEF Init, Unseen, NoAnswer
<1> QED
  BY <1>1, <1>3, <1>4, <1>5 DEF OrderInv, WaitingInv, OnceInv, HistOnce

\* So does every step, for any number of instances, pushes and faults.
LEMMA OrderNext == IInv /\ OrderInv /\ [Next]_vars => OrderInv'
<1> SUFFICES ASSUME IInv, OrderInv, [Next]_vars PROVE OrderInv'
  BY SMTT(30), Z3T(30)
<1>1. TypeInv /\ ViewsInv
  BY DEF IInv
<1>2. ASSUME NEW i \in Instances, ClientStep(i) \/ SyncStep(i) \/ PublisherStep(i) \/ Crash(i)
      PROVE  OrderInv'
  BY <1>1, <1>2, ClientOrder, SyncOrder, PublisherOrder, CrashOrder
<1>3. CASE LandManifest
  BY <1>3, LandOrder
<1>4. ASSUME UNCHANGED <<manifest, mver, late, hist, queue, batch, valid, since, resp, pc>>
      PROVE  OrderInv'
  <2>1. \A r \in Requests : Unseen(r)'
    BY <1>4, OrderFacts DEF Unseen
  <2>2. \A j \in Instances : Waiting(j)' = Waiting(j) /\ Queued(j)' = Queued(j)
    BY <1>4 DEF Waiting, Queued
  <2>3. \A j \in Instances : Unanswered(j)' /\ PlaceOK(j)' /\ ValidOK(j)'
    BY <1>4, <2>2, OrderFacts DEF Unanswered, PlaceOK, ValidOK
  <2>4. \A j, k \in Instances : j # k => Waiting(j)' \cap Waiting(k)' = {}
    BY <2>2, OrderFacts
  <2>5. \A w \in late' : LateAnswered(w)' /\ LateNew(w)'
    BY <1>4, OrderFacts DEF LateAnswered, LateNew, CommittedReqs
  <2>6. HistOnce' /\ \A e \in hist' : Told(e)'
    BY <1>4, OrderFacts DEF HistOnce, Told
  <2> QED
    BY <2>1, <2>3, <2>4, <2>5, <2>6, OrderFrom
<1>5. CASE LandDelete \/ UNCHANGED vars
  BY <1>4, <1>5 DEF LandDelete, vars, bucketVars, pubVars, clientVars
<1> QED
  BY <1>2, <1>3, <1>5 DEF Next

\* The order invariant says that a push is committed once.
LEMMA OrderOnce == OrderInv => CommittedOnce
<1> SUFFICES ASSUME OrderInv PROVE CommittedOnce
  BY SMTT(30), Z3T(30)
<1>1. \A e, f \in hist : e.req = f.req \/ e.seq = f.seq => e = f
  BY OrderFacts DEF HistOnce
<1>2. ASSUME NEW e \in hist PROVE resp[e.req].kind # "rejected"
  <2>1. ASSUME NEW i \in Instances, pc[i] \in Committed, e.req \in Elements(valid[i])
        PROVE  resp[e.req].kind = "none"
    BY <2>1, OrderFacts DEF ValidOK, Unanswered, Waiting, Committed, Publishing
  <2> QED
    BY <2>1, OrderFacts DEF Told
<1> QED
  BY <1>1, <1>2 DEF CommittedOnce

-----------------------------------------------------------------------------
(* Replaying a renumbered batch *)

\* Replaying earlier entries, then later ones, is replaying them all.
LEMMA ApplyBoth ==
  ASSUME Replayable,
         NEW rs, NEW A \in SUBSET Entries, NEW C \in SUBSET Entries, NEW B \in Nat,
         \A e \in C : e.seq <= B, \A e, f \in C : e.seq = f.seq => e = f,
         \A e \in A, f \in C : e.seq < f.seq,
         NEW n \in Refs
  PROVE  ApplyEntries(ApplyEntries(rs, A), C)[n] = ApplyEntries(rs, A \cup C)[n]
<1>1. CASE \E e \in C : Names(e, n)
  <2>1. PICK e \in C : LastNaming(e, n, C)
    BY <1>1, LastExists
  <2>2. LastNaming(e, n, A \cup C)
    BY <2>1 DEF LastNaming
  <2>3. A \cup C \in SUBSET Entries
    BY SMTT(30), Z3T(30)
  <2>4. ApplyEntries(ApplyEntries(rs, A), C)[n] = Txn[e.req][n].new
    BY <2>1, ApplyLast, SMTT(30), Z3T(30)
  <2>5. ApplyEntries(rs, A \cup C)[n] = Txn[e.req][n].new
    BY <2>2, <2>3, ApplyLast, SMTT(30), Z3T(30)
  <2> QED
    BY <2>4, <2>5
<1>2. CASE \A e \in C : ~Names(e, n)
  <2>1. ApplyEntries(ApplyEntries(rs, A), C)[n] = ApplyEntries(rs, A)[n]
    BY <1>2, ApplyNone
  <2>2. {e \in A : n \in DOMAIN Txn[e.req]} = {e \in A \cup C : n \in DOMAIN Txn[e.req]}
    BY <1>2 DEF Names
  <2>3. ApplyEntries(rs, A)[n] = ApplyEntries(rs, A \cup C)[n]
    BY <2>2 DEF ApplyEntries
  <2> QED
    BY <2>1, <2>3
<1> QED
  BY <1>1, <1>2

\* The entries of the requests at the places D of a batch, numbered by p.
Numbered(p, reqs, D) == {[seq |-> p[h], req |-> reqs[h]] : h \in D}

\* The entries that a numbering makes of some requests, one by one.
LEMMA NumberedFacts ==
  ASSUME NEW D \in SUBSET Nat, NEW p \in [D -> Nat], NEW reqs, \A h \in D : reqs[h] \in Requests
  PROVE  /\ Numbered(p, reqs, D) \in SUBSET Entries
         /\ \A e \in Numbered(p, reqs, D) : \E h \in D : e.seq = p[h] /\ e.req = reqs[h]
         /\ \A h \in D : [seq |-> p[h], req |-> reqs[h]] \in Numbered(p, reqs, D)
<1>1. \A h \in D : [seq |-> p[h], req |-> reqs[h]] \in Entries
  BY DEF Entries
<1>2. ASSUME NEW e \in Numbered(p, reqs, D)
      PROVE  \E h \in D : e.seq = p[h] /\ e.req = reqs[h]
  <2>1. PICK h \in D : e = [seq |-> p[h], req |-> reqs[h]]
    BY DEF Numbered
  <2>2. e.seq = p[h] /\ e.req = reqs[h]
    BY <2>1, SMTT(30), Z3T(30)
  <2> QED
    BY <2>2
<1> QED
  BY <1>1, <1>2 DEF Numbered

\* Numbered by their places.
Placed(reqs, D) == {[seq |-> h, req |-> reqs[h]] : h \in D}

\* p numbers the requests at the places D, none above B, in their order.
Numbering(p, reqs, D, B) ==
  /\ D \in SUBSET Nat /\ B \in Nat /\ \A h \in D : h <= B /\ reqs[h] \in Requests
  /\ p \in [D -> Nat] /\ \A g, h \in D : g < h => p[g] < p[h]

\* Only the order of the numbers matters to a replay.
LEMMA Renumber ==
  ASSUME Replayable,
         NEW rs, NEW D, NEW B, NEW p, NEW reqs, Numbering(p, reqs, D, B), NEW n \in Refs
  PROVE  ApplyEntries(rs, Numbered(p, reqs, D))[n] = ApplyEntries(rs, Placed(reqs, D))[n]
<1>1o. /\ D \in SUBSET Nat /\ B \in Nat /\ p \in [D -> Nat]
       /\ \A h \in D : h <= B /\ reqs[h] \in Requests
       /\ \A g, h \in D : g < h => p[g] < p[h]
  BY DEF Numbering
<1>1a. PICK q : q = [h \in D |-> h]
  OBVIOUS
<1>1b. q \in [D -> Nat] /\ \A h \in D : q[h] = h
  BY <1>1a, <1>1o, SMTT(30), Z3T(30)
<1>1c. Placed(reqs, D) = Numbered(q, reqs, D)
  BY <1>1b DEF Placed, Numbered
<1> DEFINE P == Numbered(p, reqs, D)
           Q == Numbered(q, reqs, D)
<1>1. /\ P \in SUBSET Entries
      /\ \A e \in P : \E h \in D : e.seq = p[h] /\ e.req = reqs[h]
      /\ \A h \in D : [seq |-> p[h], req |-> reqs[h]] \in P
  BY <1>1o, NumberedFacts
<1>2. /\ Q \in SUBSET Entries
      /\ \A e \in Q : \E h \in D : e.seq = q[h] /\ e.req = reqs[h]
      /\ \A h \in D : [seq |-> q[h], req |-> reqs[h]] \in Q
  BY <1>1b, <1>1o, NumberedFacts
<1>3. \A e \in Q : e.seq \in D /\ e = [seq |-> e.seq, req |-> reqs[e.seq]]
  BY <1>1b, <1>2 DEF Numbered
<1>3a. \A e \in P : \E h \in D : e = [seq |-> p[h], req |-> reqs[h]]
  BY DEF Numbered
<1> HIDE DEF P, Q
<1>4. CASE \E e \in Q : Names(e, n)
  <2>1. \A e, f \in Q : e.seq = f.seq => e = f
    BY <1>3
  <2>2. PICK e \in Q : LastNaming(e, n, Q)
    BY <1>1o, <1>2, <1>3, <1>4, <2>1, LastExists
  <2>3. PICK k \in D : e.seq = k /\ e.req = reqs[k]
    BY <1>1b, <1>2
  <2>4. PICK x : x = [seq |-> p[k], req |-> reqs[k]]
    OBVIOUS
  <2>5. x \in P /\ x.seq = p[k] /\ x.req = reqs[k] /\ Names(x, n)
    BY <1>1, <2>2, <2>3, <2>4 DEF LastNaming, Names
  <2>6. ASSUME NEW f \in P, Names(f, n), f # x PROVE f.seq < x.seq
    <3>1. PICK h \in D : f = [seq |-> p[h], req |-> reqs[h]]
      BY <1>3a
    <3>2. h # k
      BY <2>4, <2>6, <3>1
    <3>3. PICK g : g = [seq |-> q[h], req |-> reqs[h]]
      OBVIOUS
    <3>4. g \in Q /\ g.seq = h /\ Names(g, n)
      BY <1>1b, <1>2, <2>6, <3>1, <3>3 DEF Names
    <3>5. g # e
      BY <2>3, <3>2, <3>4
    <3>6. h < k
      BY <2>2, <2>3, <3>4, <3>5 DEF LastNaming
    <3>7. p[h] < p[k] /\ f.seq = p[h]
      BY <1>1o, <3>1, <3>6
    <3> QED
      BY <2>5, <3>7
  <2>7. LastNaming(x, n, P)
    BY <2>5, <2>6 DEF LastNaming
  <2>8. /\ ApplyEntries(rs, P)[n] = Txn[x.req][n].new
        /\ ApplyEntries(rs, Q)[n] = Txn[e.req][n].new
    BY <1>1, <1>2, <2>2, <2>7, ApplyLast, SMTT(30), Z3T(30)
  <2> QED
    BY <1>1c, <2>3, <2>5, <2>8 DEF P, Q
<1>5. CASE \A e \in Q : ~Names(e, n)
  <2>1. \A e \in P : ~Names(e, n)
    <3> SUFFICES ASSUME NEW e \in P, Names(e, n) PROVE FALSE
      OBVIOUS
    <3>1. PICK h \in D : e = [seq |-> p[h], req |-> reqs[h]]
      BY <1>3a
    <3>2. PICK g : g = [seq |-> q[h], req |-> reqs[h]]
      OBVIOUS
    <3> QED
      BY <1>2, <1>5, <3>1, <3>2 DEF Names
  <2>2. ApplyEntries(rs, P)[n] = rs[n] /\ ApplyEntries(rs, Q)[n] = rs[n]
    BY <1>5, <2>1, ApplyNone
  <2> QED
    BY <1>1c, <2>2 DEF P, Q
<1> QED
  BY <1>4, <1>5

-----------------------------------------------------------------------------
(* A batch that fits the log *)

\* The number of a place at or after a number is a number.
LEMMA PlaceNumber ==
  ASSUME NEW a \in Nat, NEW k \in Nat, a <= a + k - 1
  PROVE  a + k - 1 \in Nat
  BY SMTT(30), Z3T(30)

\* What follows the head is after whatever the head bounds.
LEMMA Beyond ==
  ASSUME NEW a \in Nat, NEW h \in Nat, NEW b \in Nat, NEW c \in Nat, a <= h, b > h, b <= c
  PROVE  a < c
  BY SMTT(30), Z3T(30)

\* To be before a number is to be at most its predecessor.
LEMMA Before ==
  ASSUME NEW a \in Nat, NEW b \in Nat
  PROVE  a < b <=> a <= b - 1
  BY SMTT(30), Z3T(30)

\* A batch whose last place is not before its first has a request.
LEMMA Spans ==
  ASSUME NEW a \in Nat, NEW n \in Nat, a + n - 1 >= a
  PROVE  n >= 1
  BY SMTT(30), Z3T(30)

\* A sequence with an element is not empty.
LEMMA SpansSome ==
  ASSUME NEW s, Len(s) >= 1
  PROVE  s # <<>>
  BY SMTT(30), Z3T(30)

\* The requests before the k-th, under the numbers p gives them, replay as under the
\* numbers of their places.
LEMMA PrecedingReplay ==
  ASSUME Replayable,
         NEW reqs \in Batches, NEW k \in DOMAIN reqs, NEW D, D = {h \in DOMAIN reqs : h < k},
         NEW p \in [D -> Nat], \A g, h \in D : g < h => p[g] < p[h], NEW rs, NEW n \in Refs
  PROVE  ApplyEntries(rs, Numbered(p, reqs, D))[n] = ApplyEntries(rs, Preceding(reqs, k))[n]
<1>1. \A h \in DOMAIN reqs : h \in Nat /\ reqs[h] \in Requests
  BY BatchFacts, SMTT(30), Z3T(30)
<1>2. Placed(reqs, D) = Preceding(reqs, k)
  BY DEF Placed, Preceding
<1>3. Numbering(p, reqs, D, k)
  <2>1. D \in SUBSET Nat /\ k \in Nat /\ \A h \in D : reqs[h] \in Requests
    BY <1>1
  <2>2. \A h \in D : h <= k
    BY <2>1, SMTT(30), Z3T(30)
  <2> QED
    BY <2>1, <2>2 DEF Numbering
<1>4. ApplyEntries(rs, Numbered(p, reqs, D))[n] = ApplyEntries(rs, Placed(reqs, D))[n]
  BY <1>3, Renumber, SMTT(30), Z3T(30)
<1> QED
  BY <1>2, <1>4

\* What verify_batch accepted of a batch before its k-th place, and where v has it.
Taken(acc, b, k) == {[seq |-> j, req |-> b[j]] : j \in {h \in acc : h < k}}
PlacesBefore(p, v, k) == {h \in DOMAIN v : p[h] < k}

\* The places p lists the requests v of batch b.
Lists(p, v, acc, b) ==
  p \in [1..Len(v) -> acc] /\ ValidIndices(p, acc) /\ \A h \in 1..Len(v) : v[h] = b[p[h]]

\* X is the requests of v at the places D, numbered by q in their order.
Renames(q, v, D, X) ==
  q \in [D -> Nat] /\ (\A g, h \in D : g < h => q[g] < q[h]) /\ X = Numbered(q, v, D)

\* What was accepted before the k-th place is what v has there.
LEMMA AcceptedBefore ==
  ASSUME NEW b \in Batches, NEW acc \in SUBSET DOMAIN b, NEW v \in Batches,
         NEW p, Lists(p, v, acc, b), NEW k
  PROVE  \E q : Renames(q, v, PlacesBefore(p, v, k), Taken(acc, b, k))
<1>0. PICK D : D = PlacesBefore(p, v, k)
  OBVIOUS
<1>1. DOMAIN v = 1..Len(v) /\ \A h \in DOMAIN b : h \in Nat
  BY BatchFacts, SMTT(30), Z3T(30)
<1>2. \A h \in DOMAIN v : p[h] \in Nat /\ p[h] \in acc /\ v[h] = b[p[h]] /\ (h \in D <=> p[h] < k)
  BY <1>0, <1>1 DEF PlacesBefore, Lists
<1>2a. D \in SUBSET DOMAIN v
  BY <1>0 DEF PlacesBefore
<1>3. PICK q : q = [h \in D |-> p[h]]
  OBVIOUS
<1>4. q \in [D -> Nat] /\ \A h \in D : q[h] = p[h]
  BY <1>2, <1>2a, <1>3
<1>5. \A g, h \in D : g < h => q[g] < q[h]
  BY <1>1, <1>2a, <1>4 DEF ValidIndices, Lists
<1>6. ASSUME NEW e \in Taken(acc, b, k) PROVE e \in Numbered(q, v, D)
  <2>1. PICK j \in acc : j < k /\ e = [seq |-> j, req |-> b[j]]
    BY <1>6 DEF Taken
  <2>2. PICK h \in DOMAIN v : p[h] = j
    BY <1>1 DEF ValidIndices, Lists
  <2>3. h \in D /\ e = [seq |-> q[h], req |-> v[h]]
    BY <1>2, <1>4, <2>1, <2>2
  <2> QED
    BY <2>3 DEF Numbered
<1>7. ASSUME NEW e \in Numbered(q, v, D) PROVE e \in Taken(acc, b, k)
  <2>1. PICK h \in D : e = [seq |-> q[h], req |-> v[h]]
    BY <1>7 DEF Numbered
  <2>2. e = [seq |-> p[h], req |-> b[p[h]]] /\ p[h] \in acc /\ p[h] < k
    BY <1>2, <1>2a, <1>4, <2>1
  <2> QED
    BY <2>2 DEF Taken
<1>8. Taken(acc, b, k) = Numbered(q, v, D)
  BY <1>6, <1>7
<1> QED
  BY <1>0, <1>4, <1>5, <1>8 DEF Renames

\* What verify_batch accepts on top of the current refs fits the log.
LEMMA AcceptedFits ==
  ASSUME Replayable,
         NEW b \in Batches, NEW acc \in SUBSET DOMAIN b, NEW v \in Batches,
         AcceptedReqs(v, acc, b), Accepts(acc, b, manifest, RefsAt(manifest.head))
  PROVE  Fits(v)
<1>1. PICK p : Lists(p, v, acc, b)
  BY DEF AcceptedReqs, Lists
<1>2. /\ DOMAIN v = 1..Len(v) /\ Len(v) \in Nat
      /\ \A h \in DOMAIN v : h \in Nat /\ v[h] \in Requests
      /\ \A h \in DOMAIN b : h \in Nat /\ b[h] \in Requests
  BY BatchFacts, SMTT(30), Z3T(30)
<1>3. \A h \in DOMAIN v : p[h] \in acc /\ p[h] \in Nat /\ v[h] = b[p[h]]
  BY <1>1, <1>2 DEF Lists
<1>4. \A g, h \in DOMAIN v : g < h => p[g] < p[h]
  BY <1>1, <1>2 DEF ValidIndices, Lists
<1> SUFFICES ASSUME NEW k \in DOMAIN v
             PROVE  /\ VerifyTxn(v[k], ApplyEntries(RefsAt(manifest.head), Preceding(v, k)))
                    /\ v[k] \in Receipts => manifest.head = 0 /\ k = 1
  BY DEF Fits
<1>5. PICK before : before = {j \in acc : j < p[k]}
  OBVIOUS
<1>6. PICK rs : rs = RefsAt(manifest.head)
  OBVIOUS
<1>8. /\ VerifyTxn(v[k], ApplyEntries(rs, Taken(acc, b, p[k])))
      /\ v[k] \in Receipts => IsPristine(manifest) /\ before = {}
  <2>1. p[k] \in acc /\ p[k] \in DOMAIN b /\ v[k] = b[p[k]]
    BY <1>3
  <2> QED
    BY <1>5, <1>6, <2>1 DEF Accepts, Taken
<1>9. PICK D : D = PlacesBefore(p, v, p[k])
  OBVIOUS
<1>10. D = {h \in DOMAIN v : h < k}
  <2>1. ASSUME NEW h \in DOMAIN v, p[h] < p[k] PROVE h < k
    <3>1. PICK x \in Nat, y \in Nat : x = p[h] /\ y = p[k]
      BY <1>3
    <3>2. x < y /\ h \in Nat /\ k \in Nat /\ (k < h => y < x) /\ (h = k => x = y)
      BY <1>2, <1>4, <2>1, <3>1
    <3> QED
      BY <3>2, SMTT(30), Z3T(30)
  <2> QED
    BY <1>4, <1>9, <2>1 DEF PlacesBefore
<1>11. PICK q : Renames(q, v, D, Taken(acc, b, p[k]))
  BY <1>1, <1>9, AcceptedBefore
<1>12. \A h \in D : p[h] \in before
  BY <1>3, <1>5, <1>9 DEF PlacesBefore
<1>16. \A n \in Refs : ApplyEntries(rs, Taken(acc, b, p[k]))[n] = ApplyEntries(rs, Preceding(v, k))[n]
  <2> SUFFICES ASSUME NEW n \in Refs
               PROVE  ApplyEntries(rs, Taken(acc, b, p[k]))[n] = ApplyEntries(rs, Preceding(v, k))[n]
    BY SMTT(30), Z3T(30)
  <2>1. ApplyEntries(rs, Numbered(q, v, D))[n] = ApplyEntries(rs, Preceding(v, k))[n]
    <3>1. q \in [D -> Nat] /\ \A g, h \in D : g < h => q[g] < q[h]
      BY <1>11 DEF Renames
    <3> QED
      BY <1>10, <3>1, PrecedingReplay, SMTT(30), Z3T(30)
  <2> QED
    BY <1>11, <2>1 DEF Renames
<1>17. VerifyTxn(v[k], ApplyEntries(rs, Preceding(v, k)))
  BY <1>2, <1>8, <1>16, VerifySame
<1>18. ASSUME v[k] \in Receipts PROVE manifest.head = 0 /\ k = 1
  <2>1. manifest.head = 0 /\ before = {}
    BY <1>8, <1>18 DEF IsPristine
  <2>2. D = {}
    BY <1>12, <2>1
  <2>3. 1 \in DOMAIN v /\ k \in Nat /\ k >= 1
    BY <1>2, SMTT(30), Z3T(30)
  <2>4. ~(1 < k)
    BY <1>10, <2>2, <2>3
  <2> QED
    BY <2>1, <2>3, <2>4, SMTT(30), Z3T(30)
<1> QED
  BY <1>6, <1>17, <1>18

-----------------------------------------------------------------------------
(* Commits on top of what a batch was verified on *)

\* The entries of hist and of a batch behind it, up to the k-th request of the batch.
LEMMA ReplayUpTo ==
  ASSUME Replayable,
         hist \in SUBSET Entries, NEW first \in Nat, NEW reqs \in Batches,
         \A e \in hist : e.seq < first, manifest.head \in Nat, \A e \in hist : e.seq <= manifest.head,
         hist' = hist \cup EntriesAt(first, reqs), NEW k \in DOMAIN reqs, NEW n \in Refs
  PROVE  RefsAt(first + k - 2)'[n] = ApplyEntries(RefsAt(manifest.head), Preceding(reqs, k))[n]
<1>1. /\ DOMAIN reqs = 1..Len(reqs) /\ Len(reqs) \in Nat
      /\ \A h \in DOMAIN reqs : h \in Nat /\ reqs[h] \in Requests
  BY BatchFacts, SMTT(30), Z3T(30)
<1>2. PICK D : D = {h \in DOMAIN reqs : h < k}
  OBVIOUS
<1>3. PICK p : p = [h \in D |-> first + h - 1]
  OBVIOUS
<1>4. p \in [D -> Nat] /\ \A h \in D : p[h] = first + h - 1
  BY <1>1, <1>2, <1>3, SMTT(30), Z3T(30)
<1>5. \A g, h \in D : g < h => p[g] < p[h]
  BY <1>1, <1>2, <1>4, SMTT(30), Z3T(30)
<1>6. PICK C : C = Numbered(p, reqs, D)
  BY SMTT(30), Z3T(30)
<1>7. /\ C \in SUBSET Entries
      /\ \A e \in C : \E h \in D : e.seq = p[h] /\ e.req = reqs[h]
  <2>1. D \in SUBSET Nat /\ \A h \in D : reqs[h] \in Requests
    BY <1>1, <1>2
  <2> QED
    BY <1>4, <1>6, <2>1, NumberedFacts, SMTT(30), Z3T(30)
<1>8. PICK t : t = first + k - 2
  BY SMTT(30), Z3T(30)
<1>9. {e \in hist' : e.seq <= t} = hist \cup C
  <2>1. ASSUME NEW e \in hist', e.seq <= t PROVE e \in hist \cup C
    <3>1. CASE e \in hist
      BY <3>1, SMTT(30), Z3T(30)
    <3>2. CASE e \in EntriesAt(first, reqs)
      <4>1. PICK h \in DOMAIN reqs : /\ e = [seq |-> first + h - 1, req |-> reqs[h]]
                                     /\ e.seq = first + h - 1
        BY <3>2, EntryPlaces
      <4>2. h < k
        BY <1>1, <1>8, <2>1, <4>1, SMTT(30), Z3T(30)
      <4>3. h \in D /\ e = [seq |-> p[h], req |-> reqs[h]]
        BY <1>2, <1>4, <4>1, <4>2
      <4> QED
        BY <1>6, <4>3 DEF Numbered
    <3> QED
      BY <2>1, <3>1, <3>2
  <2>2. ASSUME NEW e \in hist PROVE e \in hist' /\ e.seq <= t
    <3>1. e.seq \in Nat /\ e.seq < first /\ k \in 1..Len(reqs)
      BY <1>1 DEF Entries
    <3> QED
      BY <1>1, <1>8, <3>1, SMTT(30), Z3T(30)
  <2>3. ASSUME NEW e \in C PROVE e \in hist' /\ e.seq <= t
    <3>1. PICK h \in D : e = [seq |-> p[h], req |-> reqs[h]]
      BY <1>6, <2>3 DEF Numbered
    <3>2. h \in 1..Len(reqs) /\ h < k /\ p[h] = first + h - 1 /\ k \in Nat
      BY <1>1, <1>2, <1>4
    <3>3. e \in EntriesAt(first, reqs)
      BY <3>1, <3>2 DEF EntriesAt
    <3>4. e.seq = first + h - 1
      BY <3>1, <3>2
    <3>5. e.seq <= t
      BY <1>8, <3>2, <3>4, SMTT(30), Z3T(30)
    <3> QED
      BY <3>3, <3>5
  <2> QED
    BY <2>1, <2>2, <2>3
<1>10. RefsAt(t)' = ApplyEntries(NoRefs, hist \cup C)
  BY <1>9 DEF RefsAt
<1>11. RefsAt(manifest.head) = ApplyEntries(NoRefs, hist)
  <2>1. {e \in hist : e.seq <= manifest.head} = hist
    OBVIOUS
  <2> QED
    BY <2>1 DEF RefsAt
<1>12. /\ \A e, f \in C : e.seq = f.seq => e = f
       /\ \A e \in hist, f \in C : e.seq < f.seq
       /\ \A e \in C : e.seq <= first + k
  <2>1. \A e \in C : \E h \in D : e = [seq |-> first + h - 1, req |-> reqs[h]] /\ e.seq = first + h - 1
    <3> SUFFICES ASSUME NEW e \in C
                 PROVE  \E h \in D : e = [seq |-> first + h - 1, req |-> reqs[h]] /\ e.seq = first + h - 1
      BY SMTT(30), Z3T(30)
    <3>1. PICK h \in D : e = [seq |-> p[h], req |-> reqs[h]]
      BY <1>6 DEF Numbered
    <3>2. e = [seq |-> first + h - 1, req |-> reqs[h]]
      BY <1>4, <3>1
    <3> QED
      BY <3>2
  <2>2. \A h \in D : h \in Nat /\ h >= 1 /\ h < k /\ k \in Nat
    BY <1>1, <1>2, SMTT(30), Z3T(30)
  <2>3. ASSUME NEW e \in C, NEW f \in C, e.seq = f.seq PROVE e = f
    <3>1. PICK g \in D : e = [seq |-> first + g - 1, req |-> reqs[g]] /\ e.seq = first + g - 1
      BY <2>1
    <3>2. PICK h \in D : f = [seq |-> first + h - 1, req |-> reqs[h]] /\ f.seq = first + h - 1
      BY <2>1
    <3>3. g = h
      BY <2>2, <2>3, <3>1, <3>2, SMTT(30), Z3T(30)
    <3> QED
      BY <3>1, <3>2, <3>3
  <2>4. \A f \in C : f.seq \in Nat /\ first <= f.seq /\ f.seq <= first + k
    <3> SUFFICES ASSUME NEW f \in C PROVE f.seq \in Nat /\ first <= f.seq /\ f.seq <= first + k
      BY SMTT(30), Z3T(30)
    <3>1. PICK h \in D : f.seq = first + h - 1
      BY <2>1
    <3> QED
      BY <2>2, <3>1, SMTT(30), Z3T(30)
  <2>5. \A e \in hist : e.seq \in Nat
    BY DEF Entries
  <2>6. \A e \in hist, f \in C : e.seq < f.seq
    BY <2>4, <2>5, SMTT(30), Z3T(30)
  <2> QED
    BY <2>3, <2>4, <2>6
<1>13. first + k \in Nat
  BY <1>1, SMTT(30), Z3T(30)
<1>14. ApplyEntries(ApplyEntries(NoRefs, hist), C)[n] = ApplyEntries(NoRefs, hist \cup C)[n]
  BY <1>7, <1>12, <1>13, ApplyBoth, SMTT(30), Z3T(30)
<1>15. ApplyEntries(RefsAt(manifest.head), C)[n]
         = ApplyEntries(RefsAt(manifest.head), Preceding(reqs, k))[n]
  BY <1>2, <1>4, <1>5, <1>6, PrecedingReplay, SMTT(30), Z3T(30)
<1> QED
  BY <1>8, <1>10, <1>11, <1>14, <1>15

\* Appending a batch that fits loses no update.
LEMMA AppendUpdates ==
  ASSUME Replayable,
         hist \in SUBSET Entries, NEW first \in Nat, NEW reqs \in Batches,
         manifest.head \in Nat, first > manifest.head, HistOnce, Fits(reqs), NoLostUpdate,
         hist' = hist \cup EntriesAt(first, reqs)
  PROVE  NoLostUpdate'
<1>1. \A e \in hist : e.seq \in Nat /\ e.req \in Requests /\ e.seq <= manifest.head
  BY DEF Entries, HistOnce
<1>2. \A e \in hist : e.seq < first
  BY <1>1, SMTT(30), Z3T(30)
<1> SUFFICES ASSUME NEW e \in hist' PROVE VerifyTxn(e.req, RefsAt(e.seq - 1)')
  BY DEF NoLostUpdate
<1>3. CASE e \in hist
  <2>1. PICK t : t = e.seq - 1
    OBVIOUS 
  <2>2. \A f \in EntriesAt(first, reqs) : ~(f.seq <= t)
    <3> SUFFICES ASSUME NEW f \in EntriesAt(first, reqs), f.seq <= t PROVE FALSE
      BY SMTT(30), Z3T(30)
    <3>1. PICK k \in DOMAIN reqs : f.seq = first + k - 1 /\ first <= f.seq
      BY EntryPlaces
    <3>2. k \in Nat
      BY BatchFacts, SMTT(30), Z3T(30)
    <3> QED
      BY <1>1, <1>2, <1>3, <2>1, <3>1, <3>2, SMTT(30), Z3T(30)
  <2>3. {f \in hist' : f.seq <= t} = {f \in hist : f.seq <= t}
    BY <2>2
  <2>4. RefsAt(t)' = RefsAt(t)
    BY <2>3 DEF RefsAt
  <2> QED
    BY <1>3, <2>1, <2>4 DEF NoLostUpdate
<1>4. CASE e \in EntriesAt(first, reqs)
  <2>1. PICK k \in DOMAIN reqs : e.seq = first + k - 1 /\ e.req = reqs[k]
    BY <1>4, EntryPlaces
  <2>2. k \in Nat /\ reqs[k] \in Requests
    BY BatchFacts, SMTT(30), Z3T(30)
  <2>3. e.seq - 1 = first + k - 2
    BY <2>1, <2>2, SMTT(30), Z3T(30)
  <2>4. VerifyTxn(reqs[k], ApplyEntries(RefsAt(manifest.head), Preceding(reqs, k)))
    BY DEF Fits
  <2>5. \A n \in Refs : RefsAt(first + k - 2)'[n]
                          = ApplyEntries(RefsAt(manifest.head), Preceding(reqs, k))[n]
    BY <1>1, <1>2, ReplayUpTo
  <2>6. VerifyTxn(reqs[k], RefsAt(first + k - 2)')
    BY <2>2, <2>4, <2>5, VerifySame, SMTT(30), Z3T(30)
  <2> QED
    BY <2>1, <2>3, <2>6
<1> QED
  BY <1>3, <1>4

\* A pristine repository has no entries.
LEMMA HeadZero ==
  ASSUME IInv, OrderInv, manifest.head = 0
  PROVE  hist = {}
<1>1. \A e \in hist : e.seq > 0 /\ e.seq <= 0 /\ e.seq \in Nat
  BY OrderFacts, RequestTypes DEF IInv, SegmentsInv, HistOnce
<1> QED
  BY <1>1, SMTT(30), Z3T(30)

\* Appending a batch that fits, with its receipt recorded, keeps the receipt first.
LEMMA AppendReceipt ==
  ASSUME IInv, OrderInv, NEW first \in Nat, NEW reqs \in Batches, reqs # <<>>,
         first > manifest.head, Fits(reqs), ReceiptFirst,
         NEW m, Records(m, first, reqs), manifest' = m,
         hist' = hist \cup EntriesAt(first, reqs)
  PROVE  ReceiptFirst'
<1>1. /\ \A e \in hist : e.seq \in Nat /\ e.seq <= manifest.head
      /\ manifest.head \in Nat
  BY OrderFacts, RequestTypes DEF HistOnce, IInv, TypeInv, TypeOK, BucketTypeOK, Manifests
<1>2. ASSUME NEW e \in EntriesAt(first, reqs)
      PROVE  e.seq \in Nat /\ first <= e.seq
             /\ (e.req \in Receipts => e.seq = first /\ reqs[1] \in Receipts)
  <2>1. PICK k \in DOMAIN reqs : e.seq = first + k - 1 /\ e.req = reqs[k] /\ first <= e.seq
    BY <1>2, EntryPlaces
  <2>2. k \in Nat
    BY BatchFacts, SMTT(30), Z3T(30)
  <2>3. reqs[k] \in Receipts => k = 1
    BY DEF Fits
  <2>4. k = 1 => e.seq = first
    BY <2>1, SMTT(30), Z3T(30)
  <2>5. e.seq \in Nat
    BY <2>1, <2>2, SMTT(30), Z3T(30)
  <2> QED
    BY <2>1, <2>3, <2>4, <2>5
<1>3. 1 \in DOMAIN reqs
  BY BatchFacts, SMTT(30), Z3T(30)
<1>4. reqs[1] \in Receipts => hist = {}
  BY <1>3, HeadZero DEF Fits
<1> SUFFICES ASSUME NEW e \in hist', e.req \in Receipts
             PROVE  /\ \A f \in hist' : e.seq <= f.seq
                    /\ m.receipt = e.seq
  BY DEF ReceiptFirst
<1>5. CASE e \in hist
  <2>1. (\A f \in hist : e.seq <= f.seq) /\ manifest.receipt = e.seq
    BY <1>5 DEF ReceiptFirst
  <2>2. m.receipt = manifest.receipt
    BY <1>4, <1>5 DEF Records
  <2>3. \A f \in EntriesAt(first, reqs) : e.seq <= f.seq
    BY <1>1, <1>2, <1>5, SMTT(30), Z3T(30)
  <2> QED
    BY <2>1, <2>2, <2>3
<1>6. CASE e \in EntriesAt(first, reqs)
  <2>1. e.seq = first /\ reqs[1] \in Receipts
    BY <1>2, <1>6
  <2>2. hist = {} /\ m.receipt = first
    BY <1>4, <2>1 DEF Records
  <2> QED
    BY <1>2, <2>1, <2>2
<1> QED
  BY <1>5, <1>6

\* updated_manifest records the receipt of a batch that fits.
LEMMA UpdatedRecords ==
  ASSUME IInv, NEW i \in Instances, pc[i] \in Publishing, view[i].ver = mver, Fits(valid[i])
  PROVE  Records(UpdatedManifest(i), slot[i].seq, valid[i])
<1>1. view[i].m = manifest
  BY DEF IInv, ViewsInv, AttemptOK, Paired
<1>2. valid[i] \in Batches /\ slot[i].seq \in Nat /\ valid[i] # <<>> /\ view[i].m \in Manifests
  BY CopyTypes DEF IInv, TypeInv, TypeOK, PublisherTypeOK
<1>3. 1 \in DOMAIN valid[i]
  BY <1>2, BatchFacts, SMTT(30), Z3T(30)
<1>4. UpdatedManifest(i).receipt
        = IF ReceiptSeqs(i) = {} THEN manifest.receipt ELSE CHOOSE s \in ReceiptSeqs(i) : TRUE
  <2>1. PICK m : m = view[i].m
    OBVIOUS 
  <2>2. m = [rev |-> m.rev, head |-> m.head, min |-> m.min, ckpt |-> m.ckpt,
             receipt |-> m.receipt, segs |-> m.segs]
    BY <1>2, <2>1 DEF Manifests
  <2>3. "receipt" \in DOMAIN m /\ "rev" \in DOMAIN m
    BY <2>2, SMTT(30), Z3T(30)
  <2> QED
    BY <1>1, <2>1, <2>3, SMTT(30), Z3T(30) DEF UpdatedManifest
<1>5. ASSUME NEW e \in EntriesAt(slot[i].seq, valid[i]), e.req \in Receipts
      PROVE  e.seq = slot[i].seq /\ valid[i][1] \in Receipts
  <2>1. PICK k \in DOMAIN valid[i] : e.seq = slot[i].seq + k - 1 /\ e.req = valid[i][k]
    BY <1>2, <1>5, EntryPlaces
  <2>2. k = 1
    BY <1>5, <2>1 DEF Fits
  <2>3. e.seq = slot[i].seq
    BY <1>2, <2>1, <2>2, SMTT(30), Z3T(30)
  <2> QED
    BY <1>5, <2>1, <2>2, <2>3
<1>6. CASE valid[i][1] \in Receipts
  <2>1. PICK e : e = [seq |-> slot[i].seq + 1 - 1, req |-> valid[i][1]]
    OBVIOUS
  <2>2. e \in EntriesAt(slot[i].seq, valid[i])
    <3>1. 1 \in 1..Len(valid[i])
      BY <1>2, <1>3, BatchFacts
    <3> QED
      BY <2>1, <3>1 DEF EntriesAt
  <2>3. e.req \in Receipts
    BY <1>6, <2>1
  <2>4. ReceiptSeqs(i) # {} /\ \A s \in ReceiptSeqs(i) : s = slot[i].seq
    BY <1>5, <2>2, <2>3 DEF ReceiptSeqs
  <2>5. (CHOOSE s \in ReceiptSeqs(i) : TRUE) = slot[i].seq
    <3>1. (CHOOSE s \in ReceiptSeqs(i) : TRUE) \in ReceiptSeqs(i)
      BY <2>4
    <3> QED
      BY <2>4, <3>1
  <2> QED
    BY <1>4, <1>6, <2>4, <2>5 DEF Records
<1>7. CASE valid[i][1] \notin Receipts
  <2>1. ReceiptSeqs(i) = {}
    BY <1>5, <1>7 DEF ReceiptSeqs
  <2> QED
    BY <1>4, <1>7, <2>1 DEF Records
<1> QED
  BY <1>6, <1>7

-----------------------------------------------------------------------------
(* The batches that may still be committed *)

\* Nothing is proposed that was not proposed before.
Proposed(j) ==
  pc'[j] \in Claiming \cup {"cas"} =>
    pc[j] \in Claiming \cup {"cas"} /\ view'[j] = view[j] /\ valid'[j] = valid[j]

\* While the log and the manifest stay, what fits keeps fitting.
LEMMA FitsSame ==
  ASSUME NEW reqs, Fits(reqs), UNCHANGED <<manifest, hist>>
  PROVE  Fits(reqs)'
<1>1. RefsAt(manifest.head)' = RefsAt(manifest.head)
  BY DEF RefsAt
<1> QED
  BY <1>1 DEF Fits

\* What is proposed and was not just verified still fits a log that did not move.
LEMMA QuietFits ==
  ASSUME FitsInv, UNCHANGED <<manifest, mver, hist>>,
         \A j \in Instances : Proposed(j) \/ (view'[j].ver = mver => Fits(valid'[j])),
         \A w \in late' : w \in late \/ LateFits(w)
  PROVE  FitsInv'
<1>1. ASSUME NEW j \in Instances PROVE ProposalOK(j)'
  <2> SUFFICES ASSUME pc'[j] \in Claiming \cup {"cas"}, view'[j].ver = mver PROVE Fits(valid[j])'
    BY DEF ProposalOK
  <2>1. Fits(valid'[j])
    BY DEF FitsInv, ProposalOK, Proposed
  <2>2. RefsAt(manifest.head)' = RefsAt(manifest.head)
    BY DEF RefsAt
  <2> QED
    BY <2>1, <2>2 DEF Fits
<1>2. ASSUME NEW w \in late' PROVE LateFits(w)'
  <2> SUFFICES ASSUME w.base = mver PROVE Fits(w.reqs)' /\ Records(w.m, w.slot.seq, w.reqs)'
    BY DEF LateFits
  <2>1. Fits(w.reqs) /\ Records(w.m, w.slot.seq, w.reqs)
    BY <1>2 DEF FitsInv, LateFits
  <2>2. Fits(w.reqs)'
    BY <2>1, FitsSame, SMTT(30), Z3T(30)
  <2> QED
    BY <2>1, <2>2 DEF Records
<1> QED
  BY <1>1, <1>2 DEF FitsInv

\* A manifest write makes every other attempt stale.
LEMMA AppendFits ==
  ASSUME IInv, mver' = mver + 1, late' \subseteq late, UNCHANGED view
  PROVE  FitsInv'
<1>1. mver \in Nat /\ \A w \in late : w.base \in Nat /\ w.base <= mver
  BY DEF IInv, TypeInv, TypeOK, BucketTypeOK, ClaimsInv, LateOK
<1>2. \A i \in Instances : view[i].ver \in Nat /\ view[i].ver <= mver
  BY DEF IInv, TypeInv, TypeOK, PublisherTypeOK, ViewsInv, AttemptOK, Paired
<1>3. \A i \in Instances : view'[i].ver # mver'
  BY <1>1, <1>2, SMTT(30), Z3T(30)
<1>4. \A w \in late' : w.base # mver'
  BY <1>1, SMTT(30), Z3T(30)
<1> QED
  BY <1>3, <1>4 DEF FitsInv, ProposalOK, LateFits

\* An attempt that is kept proposes what it proposed.
LEMMA KeptProposed ==
  ASSUME NEW j, AttemptKept(j)
  PROVE  Proposed(j)
  BY DEF Proposed, AttemptKept, Claiming, Publishing

\* A batch is verified on the local copy: when its version is the current one, on
\* the current refs.
LEMMA VerifyFits ==
  ASSUME Replayable,
         IInv, OrderInv, CopyInv, FitsInv, NEW i \in Instances, VerifyBatch(i)
  PROVE  FitsInv'
<1>1. UNCHANGED <<manifest, mver, hist, late>>
  BY DEF VerifyBatch, bucketVars
<1>2. TypeInv /\ batch[i] \in Batches
  BY DEF IInv, TypeInv, TypeOK, PublisherTypeOK
<1>3. CASE ResetPublisher(i)
  BY <1>1, <1>2, <1>3, ResetKept, KeptProposed, QuietFits
<1>4. ASSUME NEW acc \in SUBSET DOMAIN batch[i], NEW v \in Batches,
             Accepts(acc, batch[i], hm[i], refs[i]), AcceptedReqs(v, acc, batch[i]),
             valid' = [valid EXCEPT ![i] = v],
             view' = [view EXCEPT ![i] = [m |-> hm[i], ver |-> hv[i]]],
             pc' = [pc EXCEPT ![i] = "claim"]
      PROVE  FitsInv'
  <2>1. /\ valid'[i] = v /\ view'[i] = [m |-> hm[i], ver |-> hv[i]]
        /\ \A j \in Instances \ {i} : pc'[j] = pc[j] /\ view'[j] = view[j] /\ valid'[j] = valid[j]
    BY <1>4 DEF IInv, TypeInv, TypeOK, PublisherTypeOK
  <2>2. view'[i].ver = hv[i]
    BY <2>1, SMTT(30), Z3T(30)
  <2>3. ASSUME hv[i] = mver PROVE Fits(v)
    <3>1. refs[i] = RefsAt(manifest.head) /\ hm[i] = manifest
      BY <2>3, CopyCurrent
    <3>2. Accepts(acc, batch[i], manifest, RefsAt(manifest.head))
      BY <1>4, <3>1
    <3> QED
      BY <1>2, <1>4, <3>2, AcceptedFits
  <2>4. \A j \in Instances : Proposed(j) \/ (view'[j].ver = mver => Fits(valid'[j]))
    BY <2>1, <2>2, <2>3 DEF Proposed
  <2> QED
    BY <1>1, <2>4, QuietFits
<1> QED
  BY <1>3, <1>4 DEF VerifyBatch

\* What a crash leaves under way was on its way before.
LEMMA CrashFits ==
  ASSUME IInv, FitsInv, NEW i \in Instances, Crash(i)
  PROVE  FitsInv'
<1>1. /\ UNCHANGED <<manifest, mver, hist>> /\ ResetPublisher(i) /\ TypeInv
      /\ late' = late \/ (pc[i] = "cas" /\ late' = late \cup {ManifestWrite(i)})
  BY DEF Crash, IInv
<1>2. \A j \in Instances : Proposed(j)
  BY <1>1, ResetKept, KeptProposed
<1>3. ASSUME NEW w \in late', w \notin late PROVE LateFits(w)
  <2>1. pc[i] = "cas" /\ w = ManifestWrite(i)
    BY <1>1, <1>3
  <2>2. w.base = view[i].ver /\ w.m = UpdatedManifest(i) /\ w.slot = slot[i] /\ w.reqs = valid[i]
    BY <2>1 DEF ManifestWrite
  <2>3. view[i].ver = mver => Fits(valid[i])
    BY <2>1 DEF FitsInv, ProposalOK
  <2>4. pc[i] \in Publishing
    BY <2>1 DEF Publishing
  <2>5. view[i].ver = mver => Records(UpdatedManifest(i), slot[i].seq, valid[i])
    BY <2>3, <2>4, UpdatedRecords
  <2> QED
    BY <2>2, <2>3, <2>5 DEF LateFits
<1> QED
  BY <1>1, <1>2, <1>3, QuietFits

\* Nothing is proposed at the start.
LEMMA FitsInit == Init => FitsInv
<1> SUFFICES ASSUME Init PROVE FitsInv
  BY SMTT(30), Z3T(30)
<1>1. late = {} /\ \A i \in Instances : pc[i] = "idle"
  BY DEF Init
<1> QED
  BY <1>1 DEF FitsInv, ProposalOK, Claiming

\* Every step keeps this: what a manifest write would commit fits the log.
LEMMA FitsNext == Replayable /\ IInv /\ OrderInv /\ CopyInv /\ FitsInv /\ [Next]_vars => FitsInv'
<1> SUFFICES ASSUME Replayable, IInv, OrderInv, CopyInv, FitsInv, [Next]_vars PROVE FitsInv'
  BY SMTT(30), Z3T(30)
<1>1. ASSUME NEW i \in Instances, ClientStep(i) \/ SyncStep(i) \/ PublisherStep(i) PROVE FitsInv'
  <2>1. CASE CommitManifest(i)
    BY <2>1, AppendFits DEF CommitManifest, PutManifest
  <2>2. CASE VerifyBatch(i)
    BY <2>2, VerifyFits
  <2>3. CASE ~CommitManifest(i) /\ ~VerifyBatch(i)
    <3>1. UNCHANGED <<manifest, mver, hist, late>>
      BY <1>1, <2>3, LogFrame, NoneLost
    <3>2. \A j \in Instances : Proposed(j)
      BY <1>1, <2>3, StepsKeep, KeptProposed
    <3> QED
      BY <3>1, <3>2, QuietFits
  <2> QED
    BY <2>1, <2>2, <2>3
<1>3. ASSUME NEW i \in Instances, Crash(i) PROVE FitsInv'
  BY <1>3, CrashFits
<1>4. CASE LandManifest
  <2>1. late' \subseteq late /\ UNCHANGED <<pc, view, valid>>
    BY <1>4 DEF LandManifest, pubVars
  <2>2. CASE mver' = mver
    <3>1. UNCHANGED <<manifest, hist>>
      BY <1>4, <2>2, LandNothing
    <3> QED
      BY <2>1, <2>2, <3>1, QuietFits DEF Proposed
  <2>3. CASE mver' # mver
    <3>1. mver' = mver + 1
      BY <1>4, <2>3, LandFacts
    <3> QED
      BY <2>1, <3>1, AppendFits
  <2> QED
    BY <2>2, <2>3
<1>5. CASE LandDelete \/ UNCHANGED vars
  <2>1. UNCHANGED <<manifest, mver, hist, late, pc, view, valid>>
    BY <1>5 DEF LandDelete, vars, bucketVars, pubVars
  <2> QED
    BY <2>1, QuietFits DEF Proposed
<1> QED
  BY <1>1, <1>3, <1>4, <1>5 DEF Next

-----------------------------------------------------------------------------
(* What a committed batch left out *)

\* Some places of a batch have a last one.
LEMMA LastPlace ==
  ASSUME Replayable, NEW reqs \in Batches, NEW D \in SUBSET DOMAIN reqs, D # {}
  PROVE  \E d \in D : \A h \in D : h <= d
<1>1. /\ Len(reqs) \in Nat /\ DOMAIN reqs = 1..Len(reqs)
      /\ \A h \in DOMAIN reqs : h \in Nat /\ h <= Len(reqs) /\ reqs[h] \in Requests
  BY BatchFacts, SMTT(30), Z3T(30)
<1>2. PICK es : es = Placed(reqs, D)
  OBVIOUS
<1>3. /\ es \in SUBSET Entries /\ es # {}
      /\ \A e \in es : e.seq \in D
      /\ \A h \in D : \E e \in es : e.seq = h
  <2>1. \A h \in D : [seq |-> h, req |-> reqs[h]] \in Entries
    BY <1>1 DEF Entries
  <2>2. /\ \A h \in D : [seq |-> h, req |-> reqs[h]] \in es
        /\ \A e \in es : \E h \in D : e = [seq |-> h, req |-> reqs[h]]
    BY <1>2 DEF Placed
  <2>3. \A h \in D : \E e \in es : e.seq = h
    <3> SUFFICES ASSUME NEW h \in D PROVE \E e \in es : e.seq = h
      OBVIOUS
    <3>1. PICK e \in es : e = [seq |-> h, req |-> reqs[h]]
      BY <2>2
    <3> QED
      BY <3>1
  <2>4. \A e \in es : e \in Entries /\ e.seq \in D
    <3> SUFFICES ASSUME NEW e \in es PROVE e \in Entries /\ e.seq \in D
      OBVIOUS
    <3>1. PICK h \in D : e = [seq |-> h, req |-> reqs[h]]
      BY <2>2
    <3> QED
      BY <2>1, <3>1
  <2>5. es # {}
    BY <2>3
  <2> QED
    BY <2>3, <2>4, <2>5
<1>4. \A e \in es : e.seq <= Len(reqs)
  BY <1>1, <1>3
<1>5. PICK e \in es : \A f \in es : f.seq <= e.seq
  BY <1>1, <1>3, <1>4 DEF Replayable
<1> QED
  BY <1>3, <1>5

\* No place before one of D is missing in it.
Initial(D, reqs) == D \in SUBSET DOMAIN reqs /\ \A h \in D, g \in DOMAIN reqs : g < h => g \in D

\* Numbered from a, the places D of a batch are those up to s, which is not below v.
UpTo(s, v, a, D, reqs) ==
  /\ s \in Nat /\ v <= s /\ s <= a + Len(reqs) - 1
  /\ \A h \in DOMAIN reqs : h \in D <=> a + h - 1 <= s

\* The entries of the first places of a batch are those up to some seq.
LEMMA InitialUpTo ==
  ASSUME Replayable, NEW reqs \in Batches, NEW D, Initial(D, reqs), reqs # <<>>,
         NEW v \in Nat, NEW a \in Nat, v < a
  PROVE  \E s : UpTo(s, v, a, D, reqs)
<1>1. /\ Len(reqs) \in Nat /\ DOMAIN reqs = 1..Len(reqs)
      /\ \A h \in DOMAIN reqs : h \in Nat /\ 1 <= h /\ h <= Len(reqs)
  BY BatchFacts, SMTT(30), Z3T(30)
<1>2. Len(reqs) > 0
  BY NonEmptyBatch
<1>3. PICK n \in Nat : n = Len(reqs) /\ n > 0
  BY <1>1, <1>2
<1>4. CASE D = {}
  <2>1. v <= v /\ v <= a + n - 1
    BY <1>3, SMTT(30), Z3T(30)
  <2>2. \A h \in Nat : 1 <= h => ~(a + h - 1 <= v)
    BY SMTT(30), Z3T(30)
  <2> QED
    BY <1>1, <1>3, <1>4, <2>1, <2>2 DEF UpTo
<1>5. CASE D # {}
  <2>1. PICK d \in D : \A h \in D : h <= d
    BY <1>5, LastPlace DEF Initial
  <2>2. d \in DOMAIN reqs /\ d \in Nat /\ 1 <= d /\ d <= n
    BY <1>1, <1>3, <2>1 DEF Initial
  <2>3. PICK s : s = a + d - 1
    OBVIOUS
  <2>4. s \in Nat /\ v <= s /\ s <= a + n - 1
    BY <2>2, <2>3, SMTT(30), Z3T(30)
  <2>5. \A h \in Nat : a + h - 1 <= s <=> h < d \/ h = d
    BY <2>2, <2>3, SMTT(30), Z3T(30)
  <2>6. \A h \in Nat : h <= d => h < d \/ h = d
    BY <2>2, SMTT(30), Z3T(30)
  <2>7. \A h \in DOMAIN reqs : h \in D <=> h < d \/ h = d
    BY <1>1, <2>1, <2>2, <2>6 DEF Initial
  <2> QED
    BY <1>1, <1>3, <2>4, <2>5, <2>7 DEF UpTo
<1> QED
  BY <1>4, <1>5

\* What a committed batch was verified on, and some first requests of it, are the log up
\* to a seq.
LEMMA TakenLogged ==
  ASSUME Replayable, IInv, OrderInv, CopyInv, NEW i \in Instances, pc[i] \in Committed,
         NEW D, Initial(D, valid[i])
  PROVE  \E s \in Nat, p \in [D -> Nat] :
           /\ view[i].m.head <= s /\ s <= manifest.head
           /\ \A g, h \in D : g < h => p[g] < p[h]
           /\ Bridges(Numbered(p, valid[i], D), view[i].m.head, s)
<1>1. PICK a \in Nat, v \in Nat, n \in Nat :
        /\ a = slot[i].seq /\ v = view[i].m.head /\ n = Len(valid[i])
        /\ v < a /\ a + n - 1 <= manifest.head
        /\ \A e \in hist : e.seq <= v \/ e.seq > a + n - 1 \/ e \in EntriesAt(a, valid[i])
  <2>1. Len(valid[i]) \in Nat
    BY CopyTypes, BatchFacts DEF IInv
  <2> QED
    BY <2>1, CopyTypes DEF IInv, CopyInv, BaseOK, LastSeq
<1>2. PICK reqs \in Batches : reqs = valid[i] /\ reqs # <<>>
  BY CopyTypes DEF IInv, TypeInv, Committed, Publishing
<1>3. /\ DOMAIN reqs = 1..n /\ \A h \in DOMAIN reqs : h \in Nat /\ 1 <= h /\ reqs[h] \in Requests
  BY <1>1, <1>2, BatchFacts, SMTT(30), Z3T(30)
<1>4. D \in SUBSET DOMAIN reqs /\ Initial(D, reqs)
  BY <1>2 DEF Initial
<1>5. PICK s \in Nat : /\ v <= s /\ s <= a + n - 1
                       /\ \A h \in DOMAIN reqs : h \in D <=> a + h - 1 <= s
  <2>1. v < a
    BY <1>1
  <2>2. PICK s : UpTo(s, v, a, D, reqs)
    BY <1>2, <1>4, <2>1, InitialUpTo
  <2> QED
    BY <1>1, <1>2, <2>2 DEF UpTo
<1>6. s <= manifest.head
  <2>1. PICK m \in Nat : m = manifest.head /\ a + n - 1 <= m
    BY <1>1, CopyTypes DEF IInv
  <2>2. s <= m
    BY <1>5, <2>1, SMTT(30), Z3T(30)
  <2> QED
    BY <2>1, <2>2
<1>7. PICK p : p = [h \in D |-> a + h - 1]
  OBVIOUS
<1>8. /\ p \in [D -> Nat] /\ \A h \in D : p[h] = a + h - 1
      /\ \A g, h \in D : g < h => p[g] < p[h]
  BY <1>3, <1>4, <1>7, SMTT(30), Z3T(30)
<1>9. PICK C : C = Numbered(p, reqs, D)
  OBVIOUS
<1>10. \A e \in hist : e.seq \in Nat
  BY LogFacts
<1>11. ASSUME NEW e \in C PROVE e \in hist /\ v < e.seq /\ e.seq <= s
  <2>1. PICK h \in D : e = [seq |-> a + h - 1, req |-> reqs[h]]
    BY <1>8, <1>9, <1>11 DEF Numbered
  <2>2. e.seq = a + h - 1 /\ h \in DOMAIN reqs /\ e.seq <= s
    BY <1>4, <1>5, <2>1
  <2>3. e \in hist
    <3>1. e \in EntriesAt(a, valid[i])
      <4>1. h \in 1..Len(valid[i])
        BY <1>1, <1>3, <2>2
      <4> QED
        BY <1>2, <2>1, <4>1 DEF EntriesAt
    <3> QED
      BY <1>1, <3>1 DEF IInv, ClaimsInv, ClaimOK
  <2>4. v < a + h - 1
    <3>1. v < a /\ h \in Nat /\ 1 <= h
      BY <1>1, <1>3, <2>2
    <3> QED
      BY <3>1, SMTT(30), Z3T(30)
  <2> QED
    BY <2>2, <2>3, <2>4
<1>12. ASSUME NEW e \in hist, v < e.seq, e.seq <= s PROVE e \in C
  <2>1. PICK x \in Nat : x = e.seq /\ v < x /\ x <= s
    BY <1>10, <1>12
  <2>2. ~(x <= v) /\ ~(x > a + n - 1)
    BY <1>5, <2>1, SMTT(30), Z3T(30)
  <2>3. e \in EntriesAt(a, reqs)
    BY <1>1, <1>2, <2>1, <2>2
  <2>4. PICK h \in DOMAIN reqs : e = [seq |-> a + h - 1, req |-> reqs[h]] /\ e.seq = a + h - 1
    BY <2>3, EntryPlaces
  <2>5. h \in D
    BY <1>5, <1>12, <2>4
  <2>6. e = [seq |-> p[h], req |-> reqs[h]]
    BY <1>8, <2>4, <2>5
  <2> QED
    BY <1>9, <2>5, <2>6 DEF Numbered
<1>13. C \in SUBSET hist /\ \A e \in hist : e \in C <=> v < e.seq /\ e.seq <= s
  BY <1>11, <1>12
<1>14. Bridges(C, v, s)
  <2>1. hist \in SUBSET Entries /\ \A e, f \in hist : e.seq = f.seq => e = f
    BY LogFacts
  <2>2. v <= v
    BY SMTT(30), Z3T(30)
  <2> QED
    BY <1>5, <1>13, <2>1, <2>2, RefsReplayed
<1> QED
  BY <1>1, <1>2, <1>5, <1>6, <1>8, <1>9, <1>14

\* What a committed batch left out did not find what it expects in the log, at some seq
\* after the one the batch was verified on.
LEMMA RejectedLogged == Replayable /\ IInv /\ OrderInv /\ CopyInv => LeftOutLogged
<1> SUFFICES ASSUME Replayable, IInv, OrderInv, CopyInv, NEW i \in Instances, pc[i] \in Committed,
                    Verified(valid[i], batch[i], view[i].m),
                    NEW r \in Elements(batch[i]), r \notin Elements(valid[i]), r \notin Receipts
             PROVE  \E s \in Nat : /\ view[i].m.head <= s /\ s <= manifest.head
                                   /\ ~VerifyTxn(r, RefsAt(s))
  BY DEF LeftOutLogged
<1>1. PICK b \in Batches, v \in Batches : b = batch[i] /\ v = valid[i]
  BY DEF IInv, TypeInv, TypeOK, PublisherTypeOK
<1>2. PICK rs : rs = RefsAt(view[i].m.head)
  OBVIOUS
<1>3. PICK acc \in SUBSET DOMAIN b : Accepts(acc, b, view[i].m, rs) /\ AcceptedReqs(v, acc, b)
  BY <1>1, <1>2 DEF Verified
<1>4. PICK p : Lists(p, v, acc, b)
  BY <1>3 DEF AcceptedReqs, Lists
<1>5. PICK k \in DOMAIN b : r = b[k]
  BY <1>1 DEF Elements
<1>6. /\ DOMAIN v = 1..Len(v) /\ Len(v) \in Nat
      /\ \A h \in DOMAIN v : h \in Nat /\ v[h] \in Requests
      /\ \A h \in DOMAIN b : h \in Nat /\ b[h] \in Requests
  BY BatchFacts, SMTT(30), Z3T(30)
<1>7. \A h \in DOMAIN v : p[h] \in acc /\ p[h] \in Nat /\ v[h] = b[p[h]]
  BY <1>4, <1>6 DEF Lists
<1>8. k \notin acc
  <2> SUFFICES ASSUME k \in acc PROVE FALSE
    OBVIOUS
  <2>1. PICK h \in DOMAIN v : p[h] = k
    BY <1>4, <1>6 DEF Lists, ValidIndices
  <2> QED
    BY <1>1, <1>5, <1>7, <2>1 DEF Elements
<1>9. ~VerifyTxn(r, ApplyEntries(rs, Taken(acc, b, k)))
  BY <1>3, <1>5, <1>8 DEF Accepts, Taken
<1>10. PICK D : D = PlacesBefore(p, v, k)
  OBVIOUS
<1>11. Initial(D, v)
  <2>1. ASSUME NEW h \in D, NEW g \in DOMAIN v, g < h PROVE g \in D
    <3>1. h \in DOMAIN v /\ p[h] < k
      BY <1>10 DEF PlacesBefore
    <3>2. p[g] < p[h]
      BY <1>4, <1>6, <2>1, <3>1 DEF Lists, ValidIndices
    <3>3. PICK x \in Nat, y \in Nat : x = p[g] /\ y = p[h] /\ x < y /\ y < k
      BY <1>7, <3>1, <3>2
    <3>4. k \in Nat
      BY <1>6
    <3>5. x < k
      BY <3>3, <3>4, SMTT(30), Z3T(30)
    <3> QED
      BY <1>10, <3>3, <3>5 DEF PlacesBefore
  <2> QED
    BY <1>10, <2>1 DEF Initial, PlacesBefore
<1>12. PICK q : Renames(q, v, D, Taken(acc, b, k))
  BY <1>4, <1>10, AcceptedBefore
<1>13. PICK s \in Nat, o \in [D -> Nat] :
         /\ view[i].m.head <= s /\ s <= manifest.head
         /\ \A g, h \in D : g < h => o[g] < o[h]
         /\ Bridges(Numbered(o, v, D), view[i].m.head, s)
  BY <1>1, <1>11, TakenLogged
<1>14. Numbering(q, v, D, Len(v)) /\ Numbering(o, v, D, Len(v))
  <2>1. D \in SUBSET Nat /\ \A h \in D : v[h] \in Requests
    BY <1>6, <1>11 DEF Initial
  <2>2. \A h \in 1..Len(v) : h <= Len(v)
    BY <1>6, SMTT(30), Z3T(30)
  <2>3. \A h \in D : h <= Len(v)
    BY <1>6, <1>11, <2>2 DEF Initial
  <2> QED
    BY <1>6, <1>12, <1>13, <2>1, <2>3 DEF Numbering, Renames
<1>15. ASSUME NEW n \in Refs PROVE ApplyEntries(rs, Taken(acc, b, k))[n] = RefsAt(s)[n]
  <2>1. ApplyEntries(rs, Numbered(q, v, D))[n] = ApplyEntries(rs, Placed(v, D))[n]
    BY <1>14, Renumber, SMTT(30), Z3T(30)
  <2>2. ApplyEntries(rs, Numbered(o, v, D))[n] = ApplyEntries(rs, Placed(v, D))[n]
    BY <1>14, Renumber, SMTT(30), Z3T(30)
  <2>3. ApplyEntries(rs, Numbered(o, v, D)) = RefsAt(s)
    BY <1>2, <1>13 DEF Bridges
  <2> QED
    BY <1>12, <2>1, <2>2, <2>3 DEF Renames
<1>16. ~VerifyTxn(r, RefsAt(s))
  BY <1>5, <1>6, <1>9, <1>15, VerifySame
<1> QED
  BY <1>13, <1>16

-----------------------------------------------------------------------------
(* What a step does to the log *)

\* A batch enters the log: it fits, its requests are new and nobody was told of them.
Appended(first, reqs) ==
  /\ first > manifest.head /\ reqs # <<>> /\ Distinct(reqs)
  /\ Fits(reqs) /\ Records(manifest', first, reqs)
  /\ Elements(reqs) \cap CommittedReqs = {}
  /\ \A r \in Elements(reqs) : resp[r].kind \notin {"ok", "rejected"}
  /\ hist' = hist \cup EntriesAt(first, reqs)
  /\ UNCHANGED resp

\* A commit appends a batch that fits ...
LEMMA CommitAppends ==
  ASSUME IInv, OrderInv, FitsInv, NEW i \in Instances, CommitManifest(i)
  PROVE  \E first \in Nat, reqs \in Batches : Appended(first, reqs)
<1>1. PICK m \in Manifests, s \in Slots, reqs \in Batches :
        /\ m = UpdatedManifest(i) /\ s = slot[i] /\ reqs = valid[i] /\ reqs # <<>>
        /\ Appends(m, s) /\ manifest' = m /\ hist' = hist \cup EntriesAt(s.seq, reqs)
  BY CommitFacts, SMTT(30), Z3T(30)
<1>2. pc[i] = "cas" /\ view[i].ver = mver /\ UNCHANGED resp
  BY DEF CommitManifest, clientVars
<1>3. /\ pc[i] \in Publishing /\ pc[i] \notin Committed
  BY <1>2 DEF Publishing, Committed
<1>4. Fits(valid[i]) /\ Records(UpdatedManifest(i), slot[i].seq, valid[i])
  BY <1>2, <1>3, UpdatedRecords DEF FitsInv, ProposalOK
<1>5. /\ Elements(valid[i]) \cap CommittedReqs = {} /\ Distinct(valid[i])
      /\ Elements(valid[i]) \subseteq Waiting(i)
  BY <1>3, ProposedNew
<1>6. \A r \in Elements(valid[i]) : resp[r].kind \notin {"ok", "rejected"}
  BY <1>5, OrderFacts DEF Unanswered
<1>7. s.seq \in Nat /\ s.seq > manifest.head
  BY <1>1 DEF Slots, Appends
<1>8. Appended(s.seq, reqs)
  BY <1>1, <1>2, <1>4, <1>5, <1>6, <1>7 DEF Appended
<1> QED
  BY <1>7, <1>8

\* ... and so does a write that takes effect late.
LEMMA LandAppends ==
  ASSUME IInv, OrderInv, FitsInv, LandManifest, mver' # mver
  PROVE  \E first \in Nat, reqs \in Batches : Appended(first, reqs)
<1>1. PICK w \in late :
        /\ w.base = mver /\ w.slot \in Slots /\ w.reqs \in Batches
        /\ Appends(w.m, w.slot) /\ w.m.head = w.slot.seq + Len(w.reqs) - 1
        /\ manifest' = w.m /\ hist' = hist \cup EntriesAt(w.slot.seq, w.reqs)
  BY LandFacts
<1>2. Fits(w.reqs) /\ Records(w.m, w.slot.seq, w.reqs)
  BY <1>1 DEF FitsInv, LateFits
<1>3. /\ Distinct(w.reqs) /\ Elements(w.reqs) \cap CommittedReqs = {}
      /\ \A r \in Elements(w.reqs) : resp[r].kind \notin {"ok", "rejected"}
  BY <1>1, OrderFacts DEF LateAnswered, LateNew
<1>4. w.slot.seq \in Nat /\ w.slot.seq > manifest.head /\ w.m.head >= w.slot.seq
  BY <1>1 DEF Slots, Appends
<1>5. w.reqs # <<>>
  <2>1. Len(w.reqs) >= 1
    <3>1. Len(w.reqs) \in Nat
      BY <1>1, BatchFacts
    <3> QED
      BY <1>1, <1>4, <3>1, Spans
  <2> QED
    BY <2>1, SpansSome
<1>6. UNCHANGED resp
  BY DEF LandManifest, clientVars
<1>7. Appended(w.slot.seq, w.reqs)
  BY <1>1, <1>2, <1>3, <1>4, <1>5, <1>6 DEF Appended
<1> QED
  BY <1>1, <1>4, <1>7

\* A step leaves manifest and log alone, or appends one batch.
LEMMA LogStep ==
  ASSUME IInv, OrderInv, FitsInv, [Next]_vars
  PROVE  \/ UNCHANGED <<manifest, hist>>
         \/ \E first \in Nat, reqs \in Batches : Appended(first, reqs)
<1>1. ASSUME NEW i \in Instances, ClientStep(i) \/ SyncStep(i) \/ PublisherStep(i),
             ~CommitManifest(i)
      PROVE  UNCHANGED <<manifest, hist>>
  BY <1>1, LogFrame, NoneLost
<1>2. ASSUME NEW i \in Instances, Crash(i) PROVE UNCHANGED <<manifest, hist>>
  BY <1>2 DEF Crash
<1>3. CASE LandDelete \/ UNCHANGED vars
  BY <1>3 DEF LandDelete, vars, bucketVars
<1> QED
  BY <1>1, <1>2, <1>3, CommitAppends, LandAppends, LandNothing DEF Next

-----------------------------------------------------------------------------
(* Every transaction found what it expects *)

\* Facts of an appended batch.
LEMMA AppendedFacts ==
  ASSUME IInv, OrderInv
  PROVE  hist \in SUBSET Entries /\ manifest.head \in Nat /\ HistOnce
  BY OrderFacts DEF IInv, TypeInv, TypeOK, BucketTypeOK, Manifests

\* Every step commits only updates that find what they expect.
LEMMA UpdatesNext ==
  ASSUME Replayable,
         IInv, OrderInv, FitsInv, NoLostUpdate, [Next]_vars
  PROVE  NoLostUpdate'
<1>1. CASE UNCHANGED <<manifest, hist>>
  BY <1>1 DEF NoLostUpdate, RefsAt
<1>2. ASSUME NEW first \in Nat, NEW reqs \in Batches, Appended(first, reqs)
      PROVE  NoLostUpdate'
  BY <1>2, AppendedFacts, AppendUpdates DEF Appended
<1> QED
  BY <1>1, <1>2, LogStep

\* Every step commits a receipt only as the first entry.
LEMMA ReceiptNext ==
  ASSUME IInv, OrderInv, FitsInv, ReceiptFirst, [Next]_vars
  PROVE  ReceiptFirst'
<1>1. CASE UNCHANGED <<manifest, hist>>
  BY <1>1 DEF ReceiptFirst
<1>2. ASSUME NEW first \in Nat, NEW reqs \in Batches, Appended(first, reqs)
      PROVE  ReceiptFirst'
  BY <1>2, AppendReceipt DEF Appended
<1> QED
  BY <1>1, <1>2, LogStep

-----------------------------------------------------------------------------
(* The log of ref transactions *)

\* The abstract log replays and checks transactions in the same way.
LEMMA SameReplay ==
  ASSUME NEW r, NEW es, NEW s
  PROVE  Abstract!VerifyTxn(r, Abstract!StateBefore(es, s))
           <=> VerifyTxn(r, ApplyEntries(NoRefs, {e \in es : e.seq < s}))
<1>1. \A fs : Abstract!Latest(fs) = Latest(fs)
  BY DEF Abstract!Latest, Latest
<1>2. Abstract!NoRefs = NoRefs
  BY DEF Abstract!NoRefs, NoRefs
<1>3. Abstract!StateBefore(es, s) = ApplyEntries(NoRefs, {e \in es : e.seq < s})
  BY <1>1, <1>2 DEF Abstract!StateBefore, Abstract!ApplyEntries, ApplyEntries
<1> QED
  BY <1>3 DEF Abstract!VerifyTxn, VerifyTxn

\* A step that appends a batch is a Commit of the abstract log.
LEMMA AppendCommits ==
  ASSUME IInv, OrderInv, NoLostUpdate', NEW first \in Nat, NEW reqs \in Batches,
         Appended(first, reqs)
  PROVE  Abstract!Commit
<1>1. PICK E : E = EntriesAt(first, reqs)
  BY SMTT(30), Z3T(30)
<1>2. hist' = hist \cup E /\ UNCHANGED resp
  BY <1>1 DEF Appended
<1>3. \A e \in hist : e.seq \in Nat /\ e.req \in Requests /\ e.seq <= manifest.head
  BY OrderFacts, RequestTypes DEF HistOnce, IInv
<1>4. manifest.head \in Nat /\ first > manifest.head
  BY AppendedFacts DEF Appended
<1>5. ASSUME NEW f \in E
      PROVE  /\ f.seq \in Nat /\ first <= f.seq /\ f.req \in Requests /\ f.req \in Elements(reqs)
  <2>1. PICK k \in DOMAIN reqs : f.seq = first + k - 1 /\ f.req = reqs[k] /\ first <= f.seq
    BY <1>1, <1>5, EntryPlaces
  <2>2. k \in Nat /\ reqs[k] \in Requests
    BY BatchFacts, SMTT(30), Z3T(30)
  <2>3. f.seq \in Nat
    BY <2>1, <2>2, PlaceNumber
  <2> QED
    BY <2>1, <2>2, <2>3 DEF Elements
<1>6. \A e \in hist, f \in E : e.seq < f.seq /\ e.req # f.req
  <2>1. \A e \in hist, f \in E : e.seq < f.seq
    BY <1>3, <1>4, <1>5, Beyond
  <2>2. \A e \in hist, f \in E : e.req # f.req
    BY <1>5 DEF Appended, CommittedReqs
  <2> QED
    BY <2>1, <2>2
<1>7. \A e, f \in E : e # f => e.seq # f.seq /\ e.req # f.req
  BY <1>1, EntriesDistinct DEF Appended
<1>8. hist' \ hist = E
  BY <1>2, <1>6
<1>9. E # {}
  <2>1. 1 \in 1..Len(reqs)
    BY BatchFacts, SMTT(30), Z3T(30) DEF Appended
  <2> QED
    BY <1>1, <2>1 DEF EntriesAt
<1>10. ASSUME NEW f \in E PROVE VerifyTxn(f.req, ApplyEntries(NoRefs, {e \in hist' : e.seq < f.seq}))
  <2>1. \A e \in hist' : e.seq \in Nat
    BY <1>2, <1>3, <1>5
  <2>2. f.seq \in Nat
    BY <1>5, <1>10
  <2>3. \A e \in hist' : e.seq < f.seq <=> e.seq <= f.seq - 1
    BY <2>1, <2>2, Before
  <2>4. {e \in hist' : e.seq < f.seq} = {e \in hist' : e.seq <= f.seq - 1}
    BY <2>3
  <2>5. VerifyTxn(f.req, RefsAt(f.seq - 1)')
    BY <1>2, <1>10 DEF NoLostUpdate
  <2> QED
    BY <2>4, <2>5 DEF RefsAt
<1>11. \A f \in E : [r \in Requests |-> resp[r].kind][f.req] \notin {"ok", "rejected"}
  <2> SUFFICES ASSUME NEW f \in E PROVE [r \in Requests |-> resp[r].kind][f.req] \notin {"ok", "rejected"}
    BY SMTT(30), Z3T(30)
  <2>1. f.req \in Requests /\ resp[f.req].kind \notin {"ok", "rejected"}
    BY <1>5 DEF Appended
  <2> QED
    BY <2>1
<1>12. \A f \in E : /\ f.req \in Requests
                    /\ Abstract!VerifyTxn(f.req, Abstract!StateBefore(hist', f.seq))
                    /\ [r \in Requests |-> resp[r].kind][f.req] \notin {"ok", "rejected"}
  BY <1>5, <1>10, <1>11, SameReplay
<1>13. [r \in Requests |-> resp'[r].kind] = [r \in Requests |-> resp[r].kind]
  BY <1>2
<1>14. hist \subseteq hist'
  BY <1>2
<1> QED
  BY <1>6, <1>7, <1>8, <1>9, <1>12, <1>13, <1>14 DEF Abstract!Commit

\* The initial states of the protocol are initial states of the log of transactions.
LEMMA RefinementInit == Init => Abstract!Init
<1> SUFFICES ASSUME Init PROVE Abstract!Init
  BY SMTT(30), Z3T(30)
<1>1. \A r \in Requests : resp[r].kind = "none"
  BY DEF Init, NoAnswer
<1> QED
  BY <1>1 DEF Init, Abstract!Init
=============================================================================
