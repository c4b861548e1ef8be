-------------------------- MODULE BackgroundProofs --------------------------
(***************************************************************************)
(* The two that follow the log beside its writers.  Garbage collection is  *)
(* safe for any number of collectors, contents and writes and for any      *)
(* retention: what the manifest refers to and what the retention covers    *)
(* stays in the bucket, but for what comes back under a plan, and no       *)
(* pushed content is lost.  The events bridge skips nothing that it can    *)
(* still read, however many run and whatever fails, and the webhook sees   *)
(* the log in order; where no checkpoint overtakes a catch-up every gap is *)
(* counted.                                                                *)
(***************************************************************************)
EXTENDS GarbageCollection, EventsBridge, TLAPS

\* A step that names no prover is for Zenon.  Where SMT is named, Z3 is a second attempt.
USE ZenonT(40)

-----------------------------------------------------------------------------
(* The events bridge *)

\* What the cursor has passed was delivered, counted, below the start of a bridge without
\* a cursor, or folded under a catch-up.
PassedKnown == \A s \in pushes : cursor.ver # 0 /\ s <= cursor.seq => s \in Known

\* Every push up to n is accounted for.
Published(n) == \A s \in pushes : s <= n => s \in Known

\* What catch_up relies on at each step: the manifest it read is not from the
\* future, everything up to from is accounted for, and the batch it is to deliver has
\* all the rest up to its head.
CatchUpOK(b) ==
  /\ br[b].head <= head /\ br[b].ckpt <= ckpt
  /\ br[b].pc \in {"read", "deliver"} => br[b].from <= head /\ Published(br[b].from)
  /\ br[b].pc = "deliver" =>
       /\ br[b].batch \subseteq pushes
       /\ \A s \in br[b].batch : s <= br[b].head
       /\ \A s \in pushes : br[b].from < s /\ s <= br[b].head
                              => s \in br[b].batch \/ s \in Known
  /\ br[b].pc = "write" => Published(br[b].head)

EventsInv == /\ EventsTypeOK /\ PassedKnown /\ DeliveredInOrder
             /\ \A b \in Bridges : CatchUpOK(b)

\* A bridge without a catch-up.
LEMMA IdleType == Idle \in CatchUps
  BY SMTT(30), Z3T(30) DEF Idle, CatchUps

\* The invariant holds of a new repository.
LEMMA EventsInitial == EventsInit => EventsInv
<1> SUFFICES ASSUME EventsInit PROVE EventsInv
  BY SMTT(30), Z3T(30)
<1>1. /\ head = 0 /\ ckpt = 0 /\ pushes = {} /\ marked = FALSE /\ notified = FALSE
      /\ cursor = [seq |-> 0, ver |-> 0] /\ cached = {} /\ br = [b \in Bridges |-> Idle]
      /\ delivered = {} /\ counted = {} /\ cold = {} /\ overtaken = {} /\ failures = 0
  BY SMTT(30), Z3T(30) DEF EventsInit, FeedInit
<1>2. EventsTypeOK
  <2>1. br \in [Bridges -> CatchUps]
    BY <1>1, IdleType
  <2>2. /\ head \in Nat /\ ckpt \in 0..head /\ pushes \subseteq 1..head
        /\ cursor \in [seq : 0..head, ver : Nat] /\ counted \cup cold \cup overtaken \subseteq 0..ckpt
        /\ failures \in Nat
    BY <1>1, SMTT(30), Z3T(30)
  <2> QED
    BY <1>1, <2>1, <2>2 DEF EventsTypeOK
<1>3. ASSUME NEW b \in Bridges PROVE CatchUpOK(b)
  BY <1>1, SMTT(30), Z3T(30) DEF CatchUpOK, Idle
<1> QED
  BY <1>1, <1>2, <1>3 DEF EventsInv, PassedKnown, DeliveredInOrder

\* The facts about one bridge and the window, in the form the steps use them.
LEMMA EventsFacts ==
  ASSUME EventsInv, NEW b \in Bridges
  PROVE  /\ head \in Nat /\ ckpt \in Nat /\ ckpt <= head /\ marked \in BOOLEAN
         /\ pushes \in SUBSET Nat /\ \A s \in pushes : s <= head /\ s > 0
         /\ cursor.seq \in Nat /\ cursor.ver \in Nat /\ cursor.seq <= head
         /\ br[b] \in CatchUps /\ br[b].head \in Nat /\ br[b].ckpt \in Nat /\ br[b].from \in Nat
         /\ delivered \subseteq pushes /\ counted \cup cold \cup overtaken \subseteq 0..ckpt
         /\ CatchUpOK(b)
<1>1. /\ head \in Nat /\ ckpt \in 0..head /\ pushes \subseteq 1..head /\ marked \in BOOLEAN
      /\ cursor \in [seq : 0..head, ver : Nat] /\ br[b] \in CatchUps
      /\ delivered \subseteq pushes /\ counted \cup cold \cup overtaken \subseteq 0..ckpt /\ CatchUpOK(b)
  BY DEF EventsInv, EventsTypeOK
<1>2. br[b].head \in Nat /\ br[b].ckpt \in Nat /\ br[b].from \in Nat
  BY <1>1, SMTT(30), Z3T(30) DEF CatchUps
<1> QED
  BY <1>1, <1>2, SMTT(30), Z3T(30)

-----------------------------------------------------------------------------
(* The repository moves, the bridges do not *)

\* The window grows or shrinks: what was accounted for stays so, and a new entry is
\* above everything anybody read.
LEMMA WindowMoves ==
  ASSUME EventsTypeOK, ManifestWritten \/ MarkerMoves
  PROVE  /\ head' \in Nat /\ head <= head' /\ ckpt <= ckpt' /\ ckpt' \in 0..head'
         /\ pushes \subseteq pushes' /\ pushes' \subseteq 1..head' /\ marked' \in BOOLEAN
         /\ \A s \in pushes' : s \in pushes \/ s > head
<1>1. head \in Nat /\ ckpt \in 0..head /\ pushes \subseteq 1..head /\ marked \in BOOLEAN
  BY SMTT(30), Z3T(30) DEF EventsTypeOK
<1>2. CASE CommitTxn
  BY <1>1, <1>2, SMTT(30), Z3T(30) DEF CommitTxn
<1>3. CASE CommitCompact
  BY <1>1, <1>3, SMTT(30), Z3T(30) DEF CommitCompact
<1>4. CASE Fold
  BY <1>1, <1>4, SMTT(30), Z3T(30) DEF Fold
<1>5. CASE SetMark \/ ClearMark
  <2>1. head' = head /\ ckpt' = ckpt /\ pushes' = pushes /\ marked' \in BOOLEAN
    BY <1>5 DEF SetMark, ClearMark
  <2>2. head <= head /\ ckpt <= ckpt
    BY <1>1, SMTT(30), Z3T(30)
  <2> QED
    BY <1>1, <2>1, <2>2
<1>6. CommitTxn \/ CommitCompact \/ Fold \/ SetMark \/ ClearMark
  BY DEF ManifestWritten, MarkerMoves
<1> QED
  BY <1>2, <1>3, <1>4, <1>5, <1>6, SMTT(30), Z3T(30)

\* Writers of the repository account for nothing and take nothing back.
LEMMA FeedStep ==
  ASSUME EventsInv, ManifestWritten \/ MarkerMoves
  PROVE  EventsInv'
<1>1. /\ head \in Nat /\ ckpt \in 0..head /\ pushes \subseteq 1..head /\ delivered \subseteq pushes
      /\ cursor \in [seq : 0..head, ver : Nat] /\ counted \cup cold \cup overtaken \subseteq 0..ckpt
  BY SMTT(30), Z3T(30) DEF EventsInv, EventsTypeOK
<1>2. /\ head' \in Nat /\ head <= head' /\ ckpt <= ckpt' /\ ckpt' \in 0..head'
      /\ pushes \subseteq pushes' /\ pushes' \subseteq 1..head' /\ marked' \in BOOLEAN
      /\ \A s \in pushes' : s \in pushes \/ s > head
  BY WindowMoves, SMTT(30), Z3T(30) DEF EventsInv
<1>3. /\ cursor' = cursor /\ cached' = cached /\ br' = br /\ delivered' = delivered
      /\ counted' = counted /\ UNCHANGED <<cold, overtaken>> /\ failures' = failures
      /\ notified' \in {notified, TRUE} /\ Known' = Known
  BY DEF ManifestWritten, MarkerMoves, bridgeVars, Known, Accounted
<1>4. EventsTypeOK'
  <2>1. cursor' \in [seq : 0..head', ver : Nat] /\ counted' \cup cold' \cup overtaken' \subseteq 0..ckpt'
    BY <1>1, <1>2, <1>3, SMTT(30), Z3T(30)
  <2>2. notified' \in BOOLEAN /\ delivered' \subseteq pushes'
    BY <1>1, <1>2, <1>3 DEF EventsInv, EventsTypeOK
  <2> QED
    BY <1>2, <1>3, <2>1, <2>2 DEF EventsInv, EventsTypeOK
<1>5. ASSUME NEW n \in Nat, n <= head, NEW s \in pushes', s <= n PROVE s \in pushes
  BY <1>1, <1>2, <1>5, SMTT(30), Z3T(30)
<1>6. ASSUME NEW b \in Bridges PROVE CatchUpOK(b)'
  <2>1. CatchUpOK(b) /\ br[b].head \in Nat /\ br[b].from \in Nat /\ br[b].ckpt \in Nat
    BY EventsFacts
  <2>2. br[b].head <= head' /\ br[b].ckpt <= ckpt' /\ (br[b].from <= head => br[b].from <= head')
    BY <1>1, <1>2, <2>1, SMTT(30), Z3T(30) DEF CatchUpOK
  <2> QED
    BY <1>2, <1>3, <1>5, <2>1, <2>2 DEF CatchUpOK, Published
<1>7. PassedKnown'
  <2>1. cursor.seq \in Nat /\ cursor.seq <= head
    BY <1>1, SMTT(30), Z3T(30)
  <2> QED
    BY <1>3, <1>5, <2>1 DEF EventsInv, PassedKnown
<1>8. DeliveredInOrder'
  <2>1. ASSUME NEW s \in delivered, NEW t \in pushes', t < s PROVE t \in pushes
    BY <1>1, <1>2, <2>1, SMTT(30), Z3T(30)
  <2> QED
    BY <1>3, <2>1 DEF EventsInv, DeliveredInOrder
<1> QED
  BY <1>4, <1>6, <1>7, <1>8 DEF EventsInv

-----------------------------------------------------------------------------
(* A bridge moves, the repository does not *)

\* The parts of the invariant that speak of the other bridges and of earlier
\* deliveries survive when more is accounted for.
LEMMA BridgeStep ==
  ASSUME EventsInv, NEW b \in Bridges, UNCHANGED feedVars, EventsTypeOK',
         Known \subseteq Known', \A c \in Bridges : c # b => br'[c] = br[c],
         CatchUpOK(b)', PassedKnown', DeliveredInOrder'
  PROVE  EventsInv'
<1>1. head' = head /\ ckpt' = ckpt /\ pushes' = pushes
  BY DEF feedVars
<1>2. ASSUME NEW c \in Bridges, c # b PROVE CatchUpOK(c)'
  BY <1>1, <1>2 DEF EventsInv, CatchUpOK, Published
<1> QED
  BY <1>2 DEF EventsInv

\* Events and cursor stay.
LEMMA SameEvents ==
  ASSUME EventsInv, UNCHANGED <<feedVars, cursor, delivered>>, Known \subseteq Known'
  PROVE  PassedKnown' /\ DeliveredInOrder'
<1>1. pushes' = pushes /\ cursor' = cursor /\ delivered' = delivered
  BY DEF feedVars
<1> QED
  BY <1>1 DEF EventsInv, PassedKnown, DeliveredInOrder

\* The type of a step that gives bridge b the record r.
LEMMA BridgeType ==
  ASSUME EventsTypeOK, NEW b \in Bridges, NEW r \in CatchUps, br' = [br EXCEPT ![b] = r],
         UNCHANGED feedVars, cursor' \in [seq : 0..head, ver : Nat], notified' \in BOOLEAN,
         cached' \subseteq Bridges, delivered' \subseteq pushes,
         counted' \cup cold' \cup overtaken' \subseteq 0..ckpt, failures' \in Nat
  PROVE  EventsTypeOK' /\ br'[b] = r /\ \A c \in Bridges : c # b => br'[c] = br[c]
<1>1. /\ br' \in [Bridges -> CatchUps] /\ br'[b] = r
      /\ \A c \in Bridges : c # b => br'[c] = br[c]
  BY DEF EventsTypeOK
<1>2. head' = head /\ ckpt' = ckpt /\ pushes' = pushes /\ marked' = marked
  BY DEF feedVars
<1> QED
  BY <1>1, <1>2 DEF EventsTypeOK

\* An idle bridge relies on nothing.
LEMMA IdleOK ==
  ASSUME EventsTypeOK', NEW b \in Bridges, br'[b] = Idle
  PROVE  CatchUpOK(b)'
<1>1. head' \in Nat /\ ckpt' \in 0..head'
  BY SMTT(30), Z3T(30) DEF EventsTypeOK
<1> QED
  BY <1>1, SMTT(30), Z3T(30) DEF CatchUpOK, Idle

\* A catch-up starts.
LEMMA StartStep ==
  ASSUME EventsInv, NEW b \in Bridges, NEW note \in BOOLEAN, StartCatchUp(b, note),
         notified' \in BOOLEAN
  PROVE  EventsInv'
<1> DEFINE r == [Idle EXCEPT !.pc = "cursor", !.note = note, !.head = head, !.ckpt = ckpt]
<1>1. /\ br' = [br EXCEPT ![b] = r] /\ UNCHANGED <<feedVars, cursor, delivered>>
      /\ counted' = counted /\ UNCHANGED <<cold, overtaken>> /\ failures' = failures
      /\ cached' = cached \cup {b} /\ Known' = Known
  BY DEF StartCatchUp, Known, Accounted
<1>2. head \in Nat /\ ckpt \in Nat /\ head' = head /\ ckpt' = ckpt
  BY <1>1, EventsFacts, SMTT(30), Z3T(30) DEF feedVars
<1>3. /\ r \in CatchUps /\ r.pc = "cursor" /\ r.head = head /\ r.ckpt = ckpt
      /\ head <= head /\ ckpt <= ckpt
  <2>1. r \in CatchUps
    BY <1>2, IdleType DEF CatchUps
  <2>2. r.pc = "cursor" /\ r.head = head /\ r.ckpt = ckpt
    BY IdleType DEF CatchUps
  <2>3. head <= head /\ ckpt <= ckpt
    BY <1>2, SMTT(30), Z3T(30)
  <2> QED
    BY <2>1, <2>2, <2>3
<1> HIDE DEF r
<1>4. EventsTypeOK' /\ br'[b] = r /\ \A c \in Bridges : c # b => br'[c] = br[c]
  <2>1. /\ EventsTypeOK /\ cursor' \in [seq : 0..head, ver : Nat] /\ cached' \subseteq Bridges
        /\ delivered' \subseteq pushes /\ counted' \cup cold' \cup overtaken' \subseteq 0..ckpt
        /\ failures' \in Nat
    BY <1>1 DEF EventsInv, EventsTypeOK
  <2> QED
    BY <1>1, <1>3, <2>1, BridgeType
<1>5. CatchUpOK(b)'
  BY <1>2, <1>3, <1>4 DEF CatchUpOK
<1>6. PassedKnown' /\ DeliveredInOrder'
  BY <1>1, SameEvents
<1> QED
  BY <1>1, <1>4, <1>5, <1>6, BridgeStep

\* Without a cursor what lies below the checkpoint is never seen; a gap is counted;
\* otherwise the cursor vouches for everything up to it.
LEMMA FromPublished ==
  ASSUME EventsInv, NEW b \in Bridges, ReadCursor(b)
  PROVE  LET from == IF cursor.ver = 0 \/ cursor.seq < br[b].ckpt THEN br[b].ckpt ELSE cursor.seq
         IN  /\ from \in Nat /\ from <= head /\ \A s \in pushes : s <= from => s \in Known'
             /\ counted' \cup cold' \cup overtaken' \subseteq 0..ckpt /\ Known \subseteq Known'
<1> DEFINE from == IF cursor.ver = 0 \/ cursor.seq < br[b].ckpt THEN br[b].ckpt ELSE cursor.seq
<1>1. /\ head \in Nat /\ ckpt \in Nat /\ ckpt <= head /\ cursor.seq \in Nat /\ cursor.seq <= head
      /\ br[b].ckpt \in Nat /\ br[b].ckpt <= ckpt /\ pushes \in SUBSET Nat
      /\ \A s \in pushes : s <= head /\ s > 0
      /\ counted \cup cold \cup overtaken \subseteq 0..ckpt
  BY EventsFacts DEF CatchUpOK
<1>2. /\ pushes' = pushes /\ delivered' = delivered
      /\ counted' = IF cursor.ver = 0 THEN counted ELSE counted \cup (cursor.seq + 1 .. from)
      /\ cold' = IF cursor.ver = 0 THEN cold \cup (1..from) ELSE cold
      /\ overtaken' = overtaken
  BY DEF ReadCursor, feedVars
<1>3. from \in Nat /\ from <= head
  BY <1>1, SMTT(30), Z3T(30)
<1>4. Known \subseteq Known'
  BY <1>2 DEF Known, Accounted
<1>5. counted' \cup cold' \cup overtaken' \subseteq 0..ckpt
  BY <1>1, <1>2, SMTT(30), Z3T(30)
<1>6. ASSUME NEW s \in pushes, s <= from PROVE s \in Known'
  <2>1. CASE cursor.ver = 0
    <3>1. s \in 1..from
      BY <1>1, <1>3, <1>6, SMTT(30), Z3T(30)
    <3> QED
      BY <1>2, <2>1, <3>1 DEF Known, Accounted
  <2>2. CASE cursor.ver # 0 /\ s <= cursor.seq
    BY <1>4, <2>2 DEF EventsInv, PassedKnown
  <2>3. CASE cursor.ver # 0 /\ ~(s <= cursor.seq)
    <3>1. s \in cursor.seq + 1 .. from
      BY <1>1, <1>3, <1>6, <2>3, SMTT(30), Z3T(30)
    <3> QED
      BY <1>2, <2>3, <3>1 DEF Known, Accounted
  <2> QED
    BY <2>1, <2>2, <2>3
<1> QED
  BY <1>3, <1>4, <1>5, <1>6

\* Everything up to the cursor it reads is accounted for.
LEMMA ReadCursorStep ==
  ASSUME EventsInv, NEW b \in Bridges, ReadCursor(b)
  PROVE  EventsInv'
<1> DEFINE from == IF cursor.ver = 0 \/ cursor.seq < br[b].ckpt THEN br[b].ckpt ELSE cursor.seq
           step == IF br[b].head > from THEN "read" ELSE "write"
           r == [br[b] EXCEPT !.pc = step, !.from = from, !.ver = cursor.ver]
<1>1. /\ UNCHANGED <<feedVars, cursor, delivered>> /\ failures' = failures /\ cached' = cached
      /\ notified' = notified
      /\ \/ Return(b)
         \/ br' = [br EXCEPT ![b].pc = step, ![b].from = from, ![b].ver = cursor.ver]
  BY DEF ReadCursor
<1>2. /\ from \in Nat /\ from <= head /\ \A s \in pushes : s <= from => s \in Known'
      /\ counted' \cup cold' \cup overtaken' \subseteq 0..ckpt /\ Known \subseteq Known'
  BY FromPublished
<1>3. /\ br[b] \in CatchUps /\ br[b].head \in Nat /\ br[b].head <= head /\ br[b].ckpt <= ckpt
      /\ cursor.ver \in Nat /\ pushes \in SUBSET Nat
  BY EventsFacts DEF CatchUpOK
<1>4. /\ step \in {"read", "write"}
      /\ step = "write" => \A s \in pushes : s <= br[b].head => s \in Known'
  <2>1. step \in {"read", "write"}
    OBVIOUS
  <2>2. ASSUME step = "write", NEW s \in pushes, s <= br[b].head PROVE s <= from
    BY <1>2, <1>3, <2>2, SMTT(30), Z3T(30)
  <2> QED
    BY <1>2, <2>1, <2>2
<1> HIDE DEF from, step
<1>5. /\ EventsTypeOK /\ cursor' \in [seq : 0..head, ver : Nat] /\ cached' \subseteq Bridges
      /\ delivered' \subseteq pushes /\ failures' \in Nat /\ notified' \in BOOLEAN
  BY <1>1 DEF EventsInv, EventsTypeOK
<1>6. PassedKnown' /\ DeliveredInOrder'
  BY <1>1, <1>2, SameEvents
<1>7. CASE Return(b)
  <2>1. EventsTypeOK' /\ br'[b] = Idle /\ \A c \in Bridges : c # b => br'[c] = br[c]
    BY <1>1, <1>2, <1>5, <1>7, IdleType, BridgeType DEF Return
  <2> QED
    BY <1>1, <1>2, <1>6, <2>1, IdleOK, BridgeStep
<1>8. CASE br' = [br EXCEPT ![b].pc = step, ![b].from = from, ![b].ver = cursor.ver]
  <2>1. br' = [br EXCEPT ![b] = r]
    BY <1>3, <1>5, <1>8 DEF EventsTypeOK, CatchUps
  <2>2. r \in CatchUps
    BY <1>2, <1>3, <1>4 DEF CatchUps
  <2>3. r.head = br[b].head /\ r.ckpt = br[b].ckpt /\ r.from = from /\ r.pc = step
    BY <1>3 DEF CatchUps
  <2> HIDE DEF r
  <2>4. EventsTypeOK' /\ br'[b] = r /\ \A c \in Bridges : c # b => br'[c] = br[c]
    BY <1>1, <1>2, <1>5, <2>1, <2>2, BridgeType
  <2>5. head' = head /\ ckpt' = ckpt /\ pushes' = pushes
    BY <1>1 DEF feedVars
  <2>6. CatchUpOK(b)'
    BY <1>2, <1>3, <1>4, <2>3, <2>4, <2>5 DEF CatchUpOK, Published
  <2> QED
    BY <1>1, <1>2, <1>6, <2>4, <2>6, BridgeStep
<1> QED
  BY <1>1, <1>7, <1>8

\* What the log no longer lists is recorded as overtaken, so the batch has the rest.
LEMMA ReadLogStep ==
  ASSUME EventsInv, NEW b \in Bridges, ReadLog(b)
  PROVE  EventsInv'
<1> DEFINE step == IF Readable(b) = {} THEN "write" ELSE "deliver"
           r == [br[b] EXCEPT !.batch = Readable(b), !.pc = step]
<1>1. /\ UNCHANGED <<feedVars, cursor, delivered>> /\ failures' = failures /\ cached' = cached
      /\ notified' = notified /\ UNCHANGED <<counted, cold>> /\ overtaken' = overtaken \cup Folded(b)
      /\ br' = [br EXCEPT ![b].batch = Readable(b), ![b].pc = step] /\ br[b].pc = "read"
  BY DEF ReadLog
<1>2. /\ head \in Nat /\ ckpt \in Nat /\ pushes \in SUBSET Nat
      /\ br[b] \in CatchUps /\ br[b].head \in Nat /\ br[b].from \in Nat
      /\ counted \cup cold \cup overtaken \subseteq 0..ckpt /\ CatchUpOK(b)
  BY EventsFacts
<1>3. /\ Readable(b) \subseteq pushes /\ \A s \in Readable(b) : s <= br[b].head
      /\ \A s \in pushes : br[b].from < s /\ s <= br[b].head => s \in Readable(b) \/ s \in Folded(b)
      /\ Folded(b) \subseteq 0..ckpt
  <2>1. ASSUME NEW s \in pushes PROVE s > ckpt \/ s <= ckpt
    BY <1>2, SMTT(30), Z3T(30)
  <2>2. ASSUME NEW s \in pushes, s <= ckpt PROVE s \in 0..ckpt
    BY <1>2, <2>2, SMTT(30), Z3T(30)
  <2> QED
    BY <2>1, <2>2 DEF Readable, Folded
<1>4. Known \subseteq Known' /\ Folded(b) \subseteq Known'
  BY <1>1 DEF Known, Accounted
<1>5. counted' \cup cold' \cup overtaken' \subseteq 0..ckpt
  BY <1>1, <1>2, <1>3
<1>6. /\ br[b].head <= head /\ br[b].ckpt <= ckpt /\ br[b].from <= head
      /\ \A s \in pushes : s <= br[b].from => s \in Known'
  BY <1>1, <1>2, <1>4 DEF CatchUpOK, Published
<1>7. step = "write" => \A s \in pushes : s <= br[b].head => s \in Known'
  <2>1. ASSUME step = "write" PROVE Readable(b) = {}
    BY <2>1
  <2>2. ASSUME NEW s \in pushes PROVE s <= br[b].from \/ br[b].from < s
    BY <1>2, SMTT(30), Z3T(30)
  <2> QED
    BY <1>3, <1>4, <1>6, <2>1, <2>2
<1>8. /\ br' = [br EXCEPT ![b] = r] /\ r \in CatchUps /\ step \in {"write", "deliver"}
      /\ r.head = br[b].head /\ r.ckpt = br[b].ckpt /\ r.from = br[b].from /\ r.pc = step
      /\ r.batch = Readable(b)
  <2>1. step \in {"write", "deliver"} /\ Readable(b) \in SUBSET Nat
    BY <1>2, <1>3
  <2> HIDE DEF step
  <2>2. br \in [Bridges -> CatchUps]
    BY DEF EventsInv, EventsTypeOK
  <2>3. br' = [br EXCEPT ![b] = r]
    BY <1>1, <2>2 DEF CatchUps
  <2>4. r \in CatchUps
    BY <1>2, <2>1 DEF CatchUps
  <2>5. /\ r.head = br[b].head /\ r.ckpt = br[b].ckpt /\ r.from = br[b].from /\ r.pc = step
        /\ r.batch = Readable(b)
    BY <1>2 DEF CatchUps
  <2> QED
    BY <2>1, <2>3, <2>4, <2>5
<1> HIDE DEF r, step
<1>9. EventsTypeOK' /\ br'[b] = r /\ \A c \in Bridges : c # b => br'[c] = br[c]
  <2>1. /\ EventsTypeOK /\ cursor' \in [seq : 0..head, ver : Nat] /\ cached' \subseteq Bridges
        /\ delivered' \subseteq pushes /\ failures' \in Nat /\ notified' \in BOOLEAN
    BY <1>1 DEF EventsInv, EventsTypeOK
  <2> QED
    BY <1>1, <1>5, <1>8, <2>1, BridgeType
<1>10. CatchUpOK(b)'
  <2>1. head' = head /\ ckpt' = ckpt /\ pushes' = pushes
    BY <1>1 DEF feedVars
  <2> QED
    BY <1>3, <1>4, <1>6, <1>7, <1>8, <1>9, <2>1 DEF CatchUpOK, Published
<1>11. PassedKnown' /\ DeliveredInOrder'
  BY <1>1, <1>4, SameEvents
<1> QED
  BY <1>1, <1>4, <1>9, <1>10, <1>11, BridgeStep

\* The webhook receives the batch: it has everything between from and the head that
\* is not accounted for otherwise, and everything up to from was before.
LEMMA BatchDelivered ==
  ASSUME EventsInv, NEW b \in Bridges, br[b].pc = "deliver", UNCHANGED <<feedVars, cursor>>,
         delivered' = delivered \cup br[b].batch, UNCHANGED <<counted, cold, overtaken>>
  PROVE  /\ DeliveredInOrder' /\ PassedKnown' /\ delivered' \subseteq pushes
         /\ Known \subseteq Known'
         /\ \A s \in pushes : s <= br[b].head => s \in Known'
<1>1. /\ pushes' = pushes /\ pushes \in SUBSET Nat /\ delivered \subseteq pushes
      /\ br[b].head \in Nat /\ br[b].from \in Nat /\ CatchUpOK(b) /\ cursor' = cursor
  BY EventsFacts DEF feedVars
<1>2. Known \subseteq Known' /\ br[b].batch \subseteq Known'
  BY DEF Known, Accounted
<1>3. br[b].batch \subseteq pushes /\ \A s \in br[b].batch : s <= br[b].head
  BY <1>1 DEF CatchUpOK
<1>4. ASSUME NEW s \in pushes, s <= br[b].head PROVE s \in Known'
  <2>1. s <= br[b].from \/ br[b].from < s
    BY <1>1, SMTT(30), Z3T(30)
  <2> QED
    BY <1>1, <1>2, <1>4, <2>1 DEF CatchUpOK, Published
<1>5. ASSUME NEW s \in delivered', NEW t \in pushes, t < s PROVE t \in Known'
  <2>1. CASE s \in delivered
    BY <1>2, <1>5, <2>1 DEF EventsInv, DeliveredInOrder
  <2>2. CASE s \in br[b].batch
    <3>1. s \in Nat /\ t \in Nat /\ t < s /\ s <= br[b].head
      BY <1>1, <1>3, <1>5, <2>2
    <3>2. t <= br[b].head
      BY <1>1, <3>1, SMTT(30), Z3T(30)
    <3> QED
      BY <1>4, <3>2
  <2> QED
    BY <2>1, <2>2
<1>6. PassedKnown'
  BY <1>1, <1>2 DEF EventsInv, PassedKnown
<1> QED
  BY <1>1, <1>2, <1>3, <1>4, <1>5, <1>6 DEF DeliveredInOrder

\* The webhook accepts the batch, in order.
LEMMA DeliverStep ==
  ASSUME EventsInv, NEW b \in Bridges, Deliver(b)
  PROVE  EventsInv'
<1> DEFINE r == [br[b] EXCEPT !.pc = "write"]
<1>1. /\ br[b].pc = "deliver" /\ UNCHANGED <<feedVars, cursor, counted, cold, overtaken>>
      /\ delivered' = delivered \cup br[b].batch
      /\ cached' = cached /\ notified' = notified /\ failures' = failures
      /\ br' = [br EXCEPT ![b].pc = "write"]
  BY DEF Deliver
<1>2. /\ DeliveredInOrder' /\ PassedKnown' /\ delivered' \subseteq pushes
      /\ Known \subseteq Known'
      /\ \A s \in pushes : s <= br[b].head => s \in Known'
  BY <1>1, BatchDelivered
<1>3. /\ EventsTypeOK /\ cursor' \in [seq : 0..head, ver : Nat] /\ cached' \subseteq Bridges
      /\ failures' \in Nat /\ notified' \in BOOLEAN /\ counted' \cup cold' \cup overtaken' \subseteq 0..ckpt
      /\ br \in [Bridges -> CatchUps] /\ br[b] \in CatchUps
  BY <1>1 DEF EventsInv, EventsTypeOK
<1>4. br' = [br EXCEPT ![b] = r] /\ r \in CatchUps
  BY <1>1, <1>3 DEF CatchUps
<1>5. r.head = br[b].head /\ r.ckpt = br[b].ckpt /\ r.pc = "write"
  BY <1>3 DEF CatchUps
<1> HIDE DEF r
<1>6. EventsTypeOK' /\ br'[b] = r /\ \A c \in Bridges : c # b => br'[c] = br[c]
  BY <1>1, <1>2, <1>3, <1>4, BridgeType
<1>7. CatchUpOK(b)'
  <2>1. head' = head /\ ckpt' = ckpt /\ pushes' = pushes
    BY <1>1 DEF feedVars
  <2>2. br[b].head <= head /\ br[b].ckpt <= ckpt
    BY DEF EventsInv, CatchUpOK
  <2> QED
    BY <1>2, <1>5, <1>6, <2>1, <2>2 DEF CatchUpOK, Published
<1> QED
  BY <1>1, <1>2, <1>6, <1>7, BridgeStep

\* The cursor moves to a head up to which everything is accounted for.
LEMMA CursorPut ==
  ASSUME EventsInv, NEW b \in Bridges, br[b].pc = "write", PutCursor(b),
         UNCHANGED <<feedVars, delivered, counted, cold, overtaken>>
  PROVE  PassedKnown' /\ DeliveredInOrder' /\ cursor' \in [seq : 0..head, ver : Nat]
<1>1. /\ pushes' = pushes /\ delivered' = delivered /\ Known' = Known
      /\ cursor \in [seq : 0..head, ver : Nat] /\ head \in Nat /\ br[b].head \in Nat
      /\ br[b].head <= head /\ Published(br[b].head)
  <2>1. pushes' = pushes /\ delivered' = delivered /\ Known' = Known
    BY DEF feedVars, Known, Accounted
  <2>2. cursor \in [seq : 0..head, ver : Nat]
    BY DEF EventsInv, EventsTypeOK
  <2> QED
    BY <2>1, <2>2, EventsFacts DEF CatchUpOK
<1>2. CASE cursor' = cursor
  BY <1>1, <1>2 DEF EventsInv, PassedKnown, DeliveredInOrder
<1>3. CASE cursor' = [seq |-> br[b].head, ver |-> cursor.ver + 1]
  <2>1. cursor' \in [seq : 0..head, ver : Nat] /\ cursor'.seq = br[b].head
    BY <1>1, <1>3, SMTT(30), Z3T(30)
  <2> QED
    BY <1>1, <2>1 DEF EventsInv, PassedKnown, DeliveredInOrder, Published
<1> QED
  BY <1>2, <1>3 DEF PutCursor

\* A catch-up ends, whether it succeeded or not.
LEMMA ReturnStep ==
  ASSUME EventsInv, NEW b \in Bridges, Return(b), UNCHANGED <<feedVars, counted, cold, overtaken>>,
         PassedKnown', DeliveredInOrder', Known \subseteq Known',
         cursor' \in [seq : 0..head, ver : Nat], notified' \in BOOLEAN,
         cached' \subseteq Bridges, delivered' \subseteq pushes, failures' \in Nat
  PROVE  EventsInv'
<1>1. EventsTypeOK /\ counted' \cup cold' \cup overtaken' \subseteq 0..ckpt
  BY DEF EventsInv, EventsTypeOK
<1>2. EventsTypeOK' /\ br'[b] = Idle /\ \A c \in Bridges : c # b => br'[c] = br[c]
  BY <1>1, IdleType, BridgeType DEF Return
<1> QED
  BY <1>2, IdleOK, BridgeStep

\* A cursor write, also one that moves the cursor back, passes only what is accounted
\* for.
LEMMA WriteCursorStep ==
  ASSUME EventsInv, NEW b \in Bridges, WriteCursor(b)
  PROVE  EventsInv'
<1>1. /\ br[b].pc = "write" /\ UNCHANGED <<feedVars, delivered, counted, cold, overtaken>> /\ PutCursor(b)
      /\ Return(b) /\ cached' = cached /\ notified' = notified /\ failures' = failures
      /\ Known' = Known
  BY DEF WriteCursor, Known, Accounted
<1>2. PassedKnown' /\ DeliveredInOrder' /\ cursor' \in [seq : 0..head, ver : Nat]
  BY <1>1, CursorPut
<1>3. /\ notified' \in BOOLEAN /\ cached' \subseteq Bridges /\ delivered' \subseteq pushes
      /\ failures' \in Nat
  BY <1>1 DEF EventsInv, EventsTypeOK
<1> QED
  BY <1>1, <1>2, <1>3, ReturnStep

\* A failure loses no more than the catch-up: its POST or its PUT took effect or not.
LEMMA FailStep ==
  ASSUME EventsInv, NEW b \in Bridges, Fail(b)
  PROVE  EventsInv'
<1>1. /\ UNCHANGED <<feedVars, counted, cold, overtaken>> /\ Return(b) /\ failures' = failures + 1
      /\ notified' = (notified \/ br[b].note) /\ cached' \in {cached, cached \ {b}}
  BY DEF Fail
<1>2. /\ PassedKnown' /\ DeliveredInOrder' /\ Known \subseteq Known'
      /\ delivered' \subseteq pushes /\ cursor' \in [seq : 0..head, ver : Nat]
  <2>1. CASE UNCHANGED <<delivered, cursor>>
    <3>1. Known' = Known
      BY <1>1, <2>1 DEF Known, Accounted
    <3>2. delivered' \subseteq pushes /\ cursor' \in [seq : 0..head, ver : Nat]
      BY <2>1 DEF EventsInv, EventsTypeOK
    <3> QED
      BY <1>1, <2>1, <3>1, <3>2, SameEvents
  <2>2. CASE br[b].pc = "deliver" /\ delivered' = delivered \cup br[b].batch /\ UNCHANGED cursor
    <3>1. cursor' \in [seq : 0..head, ver : Nat]
      BY <2>2 DEF EventsInv, EventsTypeOK
    <3> QED
      BY <1>1, <2>2, <3>1, BatchDelivered
  <2>3. CASE br[b].pc = "write" /\ PutCursor(b) /\ UNCHANGED delivered
    <3>1. Known' = Known /\ delivered' \subseteq pushes
      BY <1>1, <2>3 DEF Known, Accounted, EventsInv, EventsTypeOK
    <3> QED
      BY <1>1, <2>3, <3>1, CursorPut
  <2> QED
    BY <2>1, <2>2, <2>3 DEF Fail
<1>3. notified' \in BOOLEAN /\ cached' \subseteq Bridges
  BY <1>1 DEF EventsInv, EventsTypeOK
<1>4. failures' \in Nat
  <2>1. failures \in Nat
    BY DEF EventsInv, EventsTypeOK
  <2> QED
    BY <1>1, <2>1, SMTT(30), Z3T(30)
<1> QED
  BY <1>1, <1>2, <1>3, <1>4, ReturnStep

-----------------------------------------------------------------------------

\* Every step preserves the invariant.
LEMMA EventsInductive == EventsInv /\ [EventsNext]_eventVars => EventsInv'
<1> SUFFICES ASSUME EventsInv, [EventsNext]_eventVars PROVE EventsInv'
  BY SMTT(30), Z3T(30)
<1>1. CASE ManifestWritten \/ MarkerMoves
  BY <1>1, FeedStep
<1>2. ASSUME NEW b \in Bridges, Notify(b) \/ Sweep(b) PROVE EventsInv'
  <2>1. notified \in BOOLEAN
    BY DEF EventsInv, EventsTypeOK
  <2>2. CASE Notify(b)
    BY <2>2, StartStep DEF Notify
  <2>3. CASE Sweep(b)
    BY <2>1, <2>3, StartStep DEF Sweep
  <2> QED
    BY <1>2, <2>2, <2>3
<1>3. ASSUME NEW b \in Bridges, CatchUp(b) PROVE EventsInv'
  BY <1>3, ReadCursorStep, ReadLogStep, DeliverStep, WriteCursorStep DEF CatchUp
<1>4. ASSUME NEW b \in Bridges, Fail(b) PROVE EventsInv'
  BY <1>4, FailStep
<1>5. ASSUME UNCHANGED <<feedVars, cursor, notified, br, delivered, counted, cold, overtaken, failures>>,
             cached' \subseteq cached
      PROVE  EventsInv'
  <2>1. /\ head' = head /\ ckpt' = ckpt /\ pushes' = pushes /\ marked' = marked
        /\ Known' = Known
    BY <1>5 DEF feedVars, Known, Accounted
  <2> QED
    BY <1>5, <2>1 DEF EventsInv, EventsTypeOK, PassedKnown, DeliveredInOrder, CatchUpOK,
       Published
<1>6. ASSUME NEW b \in Bridges, Evict(b) PROVE EventsInv'
  BY <1>5, <1>6 DEF Evict
<1>7. CASE UNCHANGED eventVars
  BY <1>5, <1>7 DEF eventVars, bridgeVars
<1> QED
  BY <1>1, <1>2, <1>3, <1>4, <1>6, <1>7 DEF EventsNext

\* The variables keep their types: the cursor never passes the head, only pushes are
\* delivered and only folded entries are counted as gaps.
THEOREM EventsTypes == EventsSpec => []EventsTypeOK
<1>1. EventsInv => EventsTypeOK
  BY SMTT(30), Z3T(30) DEF EventsInv
<1> QED
  BY <1>1, EventsInitial, EventsInductive, PTL DEF EventsSpec

\* What the cursor has passed and the log still lists was delivered (catch_up of
\* bridge.rs), for any number of bridges, entries and failures.
THEOREM NothingDropped == EventsSpec => []WindowDelivered
<1>1. EventsInv => WindowDelivered
  <2> SUFFICES ASSUME EventsInv, NEW s \in pushes, cursor.ver # 0, ckpt < s, s <= cursor.seq
               PROVE  s \in delivered
    BY DEF WindowDelivered
  <2>1. s \in Known
    BY DEF EventsInv, PassedKnown
  <2>2. s \notin 0..ckpt
    BY SMTT(30), Z3T(30) DEF EventsInv, EventsTypeOK
  <2>3. counted \cup cold \cup overtaken \subseteq 0..ckpt
    BY DEF EventsInv, EventsTypeOK
  <2> QED
    BY <2>1, <2>2, <2>3 DEF Known, Accounted
<1> QED
  BY <1>1, EventsInitial, EventsInductive, PTL DEF EventsSpec

\* Where no checkpoint is committed between catch_up's look at the manifest and read_log's,
\* what the cursor has passed was delivered or counted as a gap, but for what lies below
\* the first start: a failure, a second bridge and a checkpoint at any other time leave no
\* gap uncounted.
THEOREM GapsCountedIfSettled == EventsSpec /\ [][Settled]_eventVars => []GapsCounted
<1> DEFINE Never == overtaken = {}
<1>1. EventsInit => Never
  BY DEF EventsInit
<1>2. Never /\ [EventsNext]_eventVars /\ [Settled]_eventVars => Never'
  <2> SUFFICES ASSUME Never, [EventsNext]_eventVars, [Settled]_eventVars PROVE Never'
    OBVIOUS
  <2>1. CASE UNCHANGED overtaken
    BY <2>1
  <2>2. ASSUME NEW b \in Bridges, ReadLog(b) PROVE Never'
    <3>1. CASE Settled
      BY <2>2, <3>1 DEF Settled, ReadLog
    <3>2. CASE UNCHANGED eventVars
      BY <2>1, <3>2 DEF eventVars, bridgeVars
    <3> QED
      BY <3>1, <3>2
  <2>3. ManifestWritten \/ MarkerMoves => UNCHANGED overtaken
    BY DEF ManifestWritten, MarkerMoves, bridgeVars
  <2>4. \A b \in Bridges : Notify(b) \/ Sweep(b) \/ Fail(b) \/ Evict(b) => UNCHANGED overtaken
    BY DEF Notify, Sweep, StartCatchUp, Fail, Evict
  <2>5. \A b \in Bridges : ReadCursor(b) \/ Deliver(b) \/ WriteCursor(b) => UNCHANGED overtaken
    BY DEF ReadCursor, Deliver, WriteCursor
  <2>6. UNCHANGED eventVars => UNCHANGED overtaken
    BY DEF eventVars, bridgeVars
  <2> HIDE DEF Never
  <2> QED
    BY <2>1, <2>2, <2>3, <2>4, <2>5, <2>6 DEF EventsNext, CatchUp
<1>3. EventsInv /\ Never => GapsCounted
  BY DEF EventsInv, PassedKnown, GapsCounted, Known
<1> HIDE DEF Never
<1> QED
  BY <1>1, <1>2, <1>3, EventsInitial, EventsInductive, PTL DEF EventsSpec

\* The webhook sees the log in order, but for what was folded before the bridge could read
\* it (publish of bridge.rs), for any number of bridges, entries and failures.
THEOREM InOrder == EventsSpec => []DeliveredInOrder
<1>1. EventsInv => DeliveredInOrder
  BY SMTT(30), Z3T(30) DEF EventsInv
<1> QED
  BY <1>1, EventsInitial, EventsInductive, PTL DEF EventsSpec

-----------------------------------------------------------------------------
(* Garbage collection *)

Ids == SUBSET Contents
PackRefs == [id : Ids, seq : Nat, tier : Nat]
Manifests == [ver : Nat, head : Nat, packs : SUBSET PackRefs, segs : SUBSET Nat, ckpt : Nat]
Entries == [seq : Nat, kind : {"push", "compact"}, pack : Ids, sup : SUBSET Ids, at : Nat]
Checkpoints == [seq : Nat, packs : SUBSET Ids, at : Nat]
Plans == [packs : SUBSET Ids, logs : SUBSET Entries, ckpts : SUBSET Checkpoints,
          sent : SUBSET Nat, snaps : SUBSET Nat]
Passes == [pc : {"rest", "plan", "check", "delete"}, seen : Manifests, plan : Plans]

TypeInv ==
  /\ now \in Nat
  /\ manifest \in Manifests
  /\ wal \in SUBSET Ids /\ log \in SUBSET Entries /\ ckpts \in SUBSET Checkpoints
  /\ push \in SUBSET [id : Ids, at : Nat]
  /\ folds \in SUBSET [old : SUBSET Ids, at : Nat]
  /\ point \in SUBSET Checkpoints
  /\ snaps \in SUBSET Nat
  /\ reused \in SUBSET Ids
  /\ cl \in [Collectors -> Passes] /\ adrift \in SUBSET Plans

\* Entries and checkpoints are not from the future, and a written checkpoint is the
\* only one at its seq, if it is still there.
OrderInv ==
  /\ \A e \in log : e.seq <= manifest.head /\ e.at <= now /\ (e.sup # {} => e.kind = "compact")
  /\ \A k \in ckpts : k.seq # 0 /\ k.at <= now
  /\ \A k, l \in ckpts : k.seq = l.seq => k = l
  /\ \A cp \in point : /\ cp \in ckpts \/ cp.seq \in rewritten
                       /\ \A k \in ckpts : k.seq = cp.seq => k = cp
  /\ \A w \in push \cup folds \cup point : w.at <= now /\ Retained(w.at)

\* u has been claimed at t, and the claim is still good: by an upload that is not
\* listed yet or by something the retention covers.
Claimed(u, t) ==
  \/ \E p \in push : u = p.id /\ t = p.at
  \/ \E f \in folds : u \in f.old \cup {UNION f.old} /\ t = f.at
  \/ \E e \in log : Retained(e.at) /\ u \in {e.pack} \cup e.sup /\ t = e.at
  \/ \E k \in ckpts : Retained(k.at) /\ u \in k.packs /\ t = k.at

\* No plan may take what was claimed at t: it is listed, or never was superseded, or
\* was so since then.
Safe(u, t) ==
  \/ u \in reused
  \/ /\ u \in wal
     /\ \/ u \in Listed
        \/ \A e \in log : u \notin e.sup
        \/ \E e \in log : u \in e.sup /\ t <= e.at

ClaimsInv == \A u \in Ids, t \in Nat : Claimed(u, t) => Safe(u, t)

\* What the manifest refers to.
Rooted(u) ==
  \/ u \in Listed
  \/ \E k \in ckpts : k.seq = manifest.ckpt /\ u \in k.packs

\* A checkpoint no plan may take.
KeptCheckpoint(k) == k.seq = manifest.ckpt \/ Retained(k.at)

RootsInv ==
  /\ \A u \in Ids : Rooted(u) => u \in wal \cup reused
  /\ \A s \in manifest.segs : \E e \in log : e.seq = s
  /\ manifest.ckpt \notin {0} \cup rewritten => \E k \in ckpts : k.seq = manifest.ckpt
  /\ \A k \in ckpts : KeptCheckpoint(k) => k.seq \in snaps \cup rewritten

Needed(u) == Rooted(u) \/ \E t \in Nat : Claimed(u, t)

\* What a plan holds is old.
OldPlan(p) ==
  /\ \A e \in p.logs : e.seq <= manifest.head /\ ~Retained(e.at)
  /\ \A k \in p.ckpts : ~Retained(k.at)

\* Nobody needs what a plan holds, except what came back.
FreePlan(p) ==
  /\ \A u \in p.packs : Needed(u) => u \in reused
  /\ \A e \in p.logs : e.seq \notin manifest.segs
  /\ \A k \in p.ckpts \cap ckpts : k.seq # manifest.ckpt
  /\ \A k \in ckpts : k.seq \in p.sent \cup p.snaps /\ KeptCheckpoint(k) => k.seq \in rewritten

\* The plan of q is being executed, or will be if the manifest stays as it is.
Firm(q) == q.pc = "delete" \/ (q.pc = "check" /\ q.seen.ver = manifest.ver)

\* What q has planned to delete is old, and once the plan is firm nobody needs it.
PassInv(q) ==
  /\ OldPlan(q.plan)
  /\ Firm(q) => FreePlan(q.plan)
  /\ q.pc # "rest" => /\ q.seen.ver <= manifest.ver
                      /\ q.seen.ver = manifest.ver => q.seen = manifest

\* DELETEs that are adrift are those of a firm plan.
AdriftInv == \A p \in adrift : OldPlan(p) /\ FreePlan(p)

CollectInv ==
  /\ TypeInv /\ OrderInv /\ ClaimsInv /\ RootsInv /\ AdriftInv
  /\ \A c \in Collectors : PassInv(cl[c])

-----------------------------------------------------------------------------
(* Facts about the invariant *)

\* Arithmetic.
LEMMA Successor ==
  ASSUME NEW a \in Nat, NEW b \in Nat, a <= b
  PROVE  b + 1 \in Nat /\ a <= b + 1 /\ a # b + 1
BY SMTT(30), Z3T(30)

\* Arithmetic.
LEMMA AtSuccessor == ASSUME NEW b \in Nat, NEW c, c = b + 1 PROVE b + 1 <= c
BY SMTT(30), Z3T(30)

\* Arithmetic.
LEMMA Smaller ==
  ASSUME NEW a \in Nat, NEW b \in Nat, a < b
  PROVE  a <= b /\ a # b /\ b # 0
BY SMTT(30), Z3T(30)

\* What happened later than something retained is retained.
LEMMA RetainedSince ==
  ASSUME NEW t \in Nat, NEW s \in Nat, now \in Nat, t <= s, Retained(t)
  PROVE  Retained(s)
<1>1. Retention \in Nat
  BY CollectionAssumption
<1> QED
  BY <1>1, SMTT(30), Z3T(30) DEF Retained

\* An upload that is in time is retained one instant later.
LEMMA RetainedStill ==
  ASSUME NEW t \in Nat, now \in Nat, now' = now + 1, t <= now, now + 1 - t < Retention
  PROVE  t <= now' /\ Retained(t)'
<1>1. t <= now + 1
  BY Successor
<1>2. t <= now'
  BY <1>1
<1>3. Retention \in Nat /\ now + 1 \in Nat
  BY CollectionAssumption, Successor
<1>4. \A n \in Nat : n = now + 1 => n - t < Retention
  BY <1>3, SMTT(30), Z3T(30)
<1>5. now' - t < Retention
  BY <1>3, <1>4
<1> QED
  BY <1>2, <1>5 DEF Retained

\* The seq of an entry that is appended is above all others.
LEMMA HeadMoves ==
  ASSUME manifest.head \in Nat, manifest'.head = manifest.head + 1
  PROVE  /\ manifest.head + 1 <= manifest'.head
         /\ \A s \in Nat : s <= manifest.head => s <= manifest'.head /\ s # manifest.head + 1
BY Successor, AtSuccessor

\* A claim is not from the future, and its retention lasts.
LEMMA ClaimTime ==
  ASSUME TypeInv, OrderInv, NEW u, NEW t, Claimed(u, t)
  PROVE  u \in Ids /\ t \in Nat /\ t <= now /\ Retained(t)
<1>1. CASE \E p \in push : u = p.id /\ t = p.at
  BY <1>1, SMTT(30), Z3T(30) DEF TypeInv, OrderInv
<1>2. CASE \E f \in folds : u \in f.old \cup {UNION f.old} /\ t = f.at
  <2>1. PICK f \in folds : u \in f.old \cup {UNION f.old} /\ t = f.at
    BY <1>2, SMTT(30), Z3T(30)
  <2>2. f.old \in SUBSET Ids /\ f.at \in Nat /\ f.at <= now /\ Retained(f.at)
    BY SMTT(30), Z3T(30) DEF TypeInv, OrderInv
  <2>3. UNION f.old \in Ids
    BY <2>2, SMTT(30), Z3T(30) DEF Ids
  <2> QED
    BY <2>1, <2>2, <2>3
<1>3. CASE \E e \in log : Retained(e.at) /\ u \in {e.pack} \cup e.sup /\ t = e.at
  BY <1>3, SMTT(30), Z3T(30) DEF TypeInv, OrderInv, Entries
<1>4. CASE \E k \in ckpts : Retained(k.at) /\ u \in k.packs /\ t = k.at
  BY <1>4, SMTT(30), Z3T(30) DEF TypeInv, OrderInv, Checkpoints
<1> QED
  BY <1>1, <1>2, <1>3, <1>4, Claimed(u, t), SMTT(30), Z3T(30) DEF Claimed

\* What is needed is there, or came back.
LEMMA NeededPresent ==
  ASSUME CollectInv, NEW u, Needed(u)
  PROVE  u \in Ids /\ u \in wal \cup reused
<1>1. CASE Rooted(u)
  <2>1. u \in Ids
    BY <1>1, SMTT(30), Z3T(30) DEF Rooted, Listed, CollectInv, TypeInv, Manifests, PackRefs, Checkpoints
  <2> QED
    BY <1>1, <2>1, SMTT(30), Z3T(30) DEF CollectInv, RootsInv
<1>2. ASSUME NEW t \in Nat, Claimed(u, t)
      PROVE  u \in Ids /\ u \in wal \cup reused
  <2>1. u \in Ids
    BY <1>2, ClaimTime, SMTT(30), Z3T(30) DEF CollectInv
  <2>2. Safe(u, t)
    BY <1>2, <2>1, SMTT(30), Z3T(30) DEF CollectInv, ClaimsInv
  <2> QED
    BY <2>1, <2>2, SMTT(30), Z3T(30) DEF Safe
<1> QED
  BY <1>1, <1>2, Needed(u), SMTT(30), Z3T(30) DEF Needed

\* What the plan is made from keeps what is needed.
LEMMA KeptReferenced ==
  /\ \A u \in Listed : u \in Referenced(manifest)
  /\ \A e \in log : Retained(e.at) => {e.pack} \cup e.sup \subseteq Referenced(manifest)
  /\ \A k \in ckpts : KeptCheckpoint(k) => k.packs \subseteq Referenced(manifest)
<1>1. \A u \in Listed : u \in Referenced(manifest)
  BY SMTT(30), Z3T(30) DEF Referenced, Listed
<1>2. ASSUME NEW e \in log, Retained(e.at)
      PROVE  {e.pack} \cup e.sup \subseteq Referenced(manifest)
  BY <1>2, SMTT(30), Z3T(30) DEF Referenced
<1>3. ASSUME NEW k \in ckpts, KeptCheckpoint(k)
      PROVE  k.packs \subseteq Referenced(manifest)
  BY <1>3, SMTT(30), Z3T(30) DEF Referenced, KeptCheckpoints, KeptCheckpoint
<1> QED
  BY <1>1, <1>2, <1>3, SMTT(30), Z3T(30)

\* The properties follow from the invariant.
LEMMA InvSafe == CollectInv => ListedPresent /\ RetainedRecoverable
<1> SUFFICES ASSUME CollectInv PROVE ListedPresent /\ RetainedRecoverable
  BY SMTT(30), Z3T(30)
<1>1. \A u : Needed(u) => u \in wal \cup reused
  BY NeededPresent, SMTT(30), Z3T(30)
<1>2. Listed \subseteq wal \cup reused
  BY <1>1, SMTT(30), Z3T(30) DEF Needed, Rooted
<1>3. \A k \in ckpts : KeptCheckpoint(k) => k.packs \subseteq wal \cup reused
  <2> SUFFICES ASSUME NEW k \in ckpts, KeptCheckpoint(k), NEW u \in k.packs
               PROVE  u \in wal \cup reused
    BY SMTT(30), Z3T(30)
  <2>1. k.at \in Nat
    BY SMTT(30), Z3T(30) DEF CollectInv, TypeInv, Checkpoints
  <2>2. Rooted(u) \/ Claimed(u, k.at)
    BY SMTT(30), Z3T(30) DEF KeptCheckpoint, Rooted, Claimed
  <2> QED
    BY <1>1, <2>1, <2>2, SMTT(30), Z3T(30) DEF Needed
<1>4. ASSUME NEW e \in log, Retained(e.at), NEW u \in {e.pack} \cup e.sup
      PROVE  u \in wal \cup reused
  <2>1. e.at \in Nat
    BY SMTT(30), Z3T(30) DEF CollectInv, TypeInv, Entries
  <2>2. Claimed(u, e.at)
    BY <1>4, SMTT(30), Z3T(30) DEF Claimed
  <2> QED
    BY <1>1, <2>1, <2>2, SMTT(30), Z3T(30) DEF Needed
<1>5. ListedPresent
  BY <1>2, <1>3, SMTT(30), Z3T(30) DEF ListedPresent, CollectInv, RootsInv, KeptCheckpoint
<1>6. RetainedRecoverable
  BY <1>3, <1>4, SMTT(30), Z3T(30) DEF RetainedRecoverable, CollectInv, RootsInv, KeptCheckpoint
<1> QED
  BY <1>5, <1>6, SMTT(30), Z3T(30)

-----------------------------------------------------------------------------
(* Steps of a collector *)

bucketVars == <<now, manifest, wal, log, ckpts, snaps, push, folds, point, reused, rewritten>>

\* Where the bucket and the writers stay as they are, everything does but the passes.
LEMMA SameBucket ==
  ASSUME CollectInv, UNCHANGED bucketVars, cl' \in [Collectors -> Passes],
         adrift' \in SUBSET Plans
  PROVE  /\ TypeInv' /\ OrderInv' /\ ClaimsInv' /\ RootsInv'
         /\ \A u : Needed(u)' <=> Needed(u)
         /\ \A k : KeptCheckpoint(k)' <=> KeptCheckpoint(k)
<1> USE DEF bucketVars
<1>1. TypeInv'
  BY SMTT(30), Z3T(30) DEF CollectInv, TypeInv
<1>2. OrderInv'
  BY SMTT(30), Z3T(30) DEF CollectInv, OrderInv, Retained
<1>3. \A u, t : Claimed(u, t)' <=> Claimed(u, t)
  BY SMTT(30), Z3T(30) DEF Claimed, Retained
<1>4. \A u, t : Safe(u, t)' <=> Safe(u, t)
  BY SMTT(30), Z3T(30) DEF Safe, Listed
<1>5. \A u : Rooted(u)' <=> Rooted(u)
  BY SMTT(30), Z3T(30) DEF Rooted, Listed
<1>6. \A k : KeptCheckpoint(k)' <=> KeptCheckpoint(k)
  BY SMTT(30), Z3T(30) DEF KeptCheckpoint, Retained
<1>7. ClaimsInv'
  BY <1>3, <1>4, SMTT(30), Z3T(30) DEF CollectInv, ClaimsInv
<1>8. RootsInv'
  BY <1>5, <1>6, SMTT(30), Z3T(30) DEF CollectInv, RootsInv
<1>9. \A u : Needed(u)' <=> Needed(u)
  BY <1>3, <1>5, SMTT(30), Z3T(30) DEF Needed
<1> QED
  BY <1>1, <1>2, <1>6, <1>7, <1>8, <1>9, SMTT(30), Z3T(30)

\* A step that only changes collectors and what they leave behind.
LEMMA PassesStep ==
  ASSUME CollectInv, UNCHANGED bucketVars,
         cl' \in [Collectors -> Passes], \A d \in Collectors : PassInv(cl'[d]),
         adrift' \in SUBSET Plans, \A p \in adrift' : OldPlan(p) /\ FreePlan(p)
  PROVE  CollectInv'
<1>1. /\ \A u : Needed(u)' <=> Needed(u)
      /\ \A k : KeptCheckpoint(k)' <=> KeptCheckpoint(k)
  BY SameBucket, SMTT(30), Z3T(30)
<1>2. \A p : /\ OldPlan(p)' <=> OldPlan(p)
             /\ FreePlan(p)' <=> FreePlan(p)
  BY <1>1, SMTT(30), Z3T(30) DEF OldPlan, FreePlan, Retained, bucketVars
<1>3. AdriftInv'
  BY <1>2 DEF AdriftInv
<1>4. ASSUME NEW d \in Collectors
      PROVE  PassInv(cl[d])'
  <2>1. PassInv(cl'[d])
    OBVIOUS
  <2> QED
    BY <2>1, <1>2, SMTT(30), Z3T(30) DEF PassInv, Firm, bucketVars
<1> QED
  BY <1>3, <1>4, SameBucket DEF CollectInv

\* A step that only changes one collector.
LEMMA PassStep ==
  ASSUME CollectInv, NEW c \in Collectors, UNCHANGED <<bucketVars, adrift>>,
         cl' \in [Collectors -> Passes], \A d \in Collectors \ {c} : cl'[d] = cl[d],
         PassInv(cl'[c])
  PROVE  CollectInv'
<1>1. \A d \in Collectors : PassInv(cl'[d])
  BY SMTT(30), Z3T(30) DEF CollectInv
<1>2. adrift' \in SUBSET Plans /\ \A p \in adrift' : OldPlan(p) /\ FreePlan(p)
  BY DEF CollectInv, TypeInv, AdriftInv
<1> QED
  BY <1>1, <1>2, PassesStep

\* A stuttering step.
LEMMA SameStep ==
  ASSUME CollectInv, UNCHANGED <<bucketVars, cl, adrift>>
  PROVE  CollectInv'
<1>1. cl' = cl /\ cl' \in [Collectors -> Passes] /\ adrift' \in SUBSET Plans
  BY DEF CollectInv, TypeInv
<1>2. \A d \in Collectors : PassInv(cl'[d])
  BY <1>1 DEF CollectInv
<1>3. \A p \in adrift' : OldPlan(p) /\ FreePlan(p)
  BY DEF CollectInv, AdriftInv
<1> QED
  BY <1>1, <1>2, <1>3, PassesStep

\* What a collector leaves behind is a part of a firm plan.
LEMMA DriftOK ==
  ASSUME CollectInv, NEW c \in Collectors, Drift(c)
  PROVE  adrift' \in SUBSET Plans /\ \A p \in adrift' : OldPlan(p) /\ FreePlan(p)
<1>1. adrift \in SUBSET Plans /\ \A p \in adrift : OldPlan(p) /\ FreePlan(p)
  BY DEF CollectInv, TypeInv, AdriftInv
<1>2. CASE cl[c].pc = "delete"
  <2>1. PICK q : q = [cl[c].plan EXCEPT !.ckpts = {}]
    OBVIOUS
  <2>2. cl[c] \in Passes /\ PassInv(cl[c]) /\ Firm(cl[c])
    BY <1>2 DEF CollectInv, TypeInv, Firm
  <2>3. cl[c].plan \in Plans /\ OldPlan(cl[c].plan) /\ FreePlan(cl[c].plan)
    BY <2>2 DEF PassInv, Passes
  <2>4. /\ q \in Plans /\ q.ckpts = {} /\ q.packs = cl[c].plan.packs
        /\ q.logs = cl[c].plan.logs /\ q.sent = cl[c].plan.sent /\ q.snaps = cl[c].plan.snaps
    BY <2>1, <2>3 DEF Plans
  <2>5. OldPlan(q) /\ FreePlan(q)
    BY <2>3, <2>4 DEF OldPlan, FreePlan
  <2>6. adrift' = adrift \cup {q}
    BY <1>2, <2>1 DEF Drift
  <2> QED
    BY <1>1, <2>4, <2>5, <2>6
<1>3. CASE cl[c].pc # "delete"
  BY <1>1, <1>3 DEF Drift
<1> QED
  BY <1>2, <1>3

\* A collector at rest holds no plan.
LEMMA RestingOK == Resting \in Passes /\ PassInv(Resting)
<1>1. Resting \in Passes
  BY DEF Resting, NoPlan, Passes, Plans, Manifests
<1>2. PassInv(Resting)
  BY DEF PassInv, Firm, OldPlan, Resting, NoPlan
<1> QED
  BY <1>1, <1>2

\* A collector that ends its pass, whatever the reason.
LEMMA RestStep ==
  ASSUME CollectInv, NEW c \in Collectors, UNCHANGED bucketVars,
         cl' = [cl EXCEPT ![c] = Resting], Drift(c) \/ UNCHANGED adrift
  PROVE  CollectInv'
<1>1. /\ cl' \in [Collectors -> Passes] /\ cl'[c] = Resting
      /\ \A d \in Collectors \ {c} : cl'[d] = cl[d]
  BY RestingOK, SMTT(30), Z3T(30) DEF CollectInv, TypeInv
<1>2. \A d \in Collectors : PassInv(cl'[d])
  BY <1>1, RestingOK DEF CollectInv
<1>3. adrift' \in SUBSET Plans /\ \A p \in adrift' : OldPlan(p) /\ FreePlan(p)
  BY DriftOK DEF CollectInv, TypeInv, AdriftInv
<1> QED
  BY <1>1, <1>2, <1>3, PassesStep

\* A collector that loads the manifest has seen its current version.
LEMMA LoadStep ==
  ASSUME CollectInv, NEW c \in Collectors, Load(c)
  PROVE  CollectInv'
<1> DEFINE q == [Resting EXCEPT !.pc = "plan", !.seen = manifest]
<1>1. q.pc = "plan" /\ q.seen = manifest /\ q.plan = NoPlan
  BY SMTT(30), Z3T(30) DEF Resting
<1>2. q \in Passes
  BY RestingOK DEF CollectInv, TypeInv, Passes
<1>3. PassInv(q)
  BY <1>1, SMTT(30), Z3T(30) DEF PassInv, Firm, OldPlan, NoPlan, CollectInv, TypeInv, Manifests
<1>4. /\ cl' \in [Collectors -> Passes] /\ cl'[c] = q
      /\ \A d \in Collectors \ {c} : cl'[d] = cl[d]
  BY <1>2, SMTT(30), Z3T(30) DEF CollectInv, TypeInv, Load
<1>5. UNCHANGED <<bucketVars, adrift>>
  BY SMTT(30), Z3T(30) DEF Load, bucketVars, storeVars, writerVars, historyVars
<1> QED
  BY <1>3, <1>4, <1>5, PassStep, SMTT(30), Z3T(30)

\* Where the manifest is the one that was read, nothing needed is planned.
LEMMA PlanStep ==
  ASSUME CollectInv, NEW c \in Collectors, Plan(c)
  PROVE  CollectInv'
<1> DEFINE m == cl[c].seen
           q == [cl[c] EXCEPT !.pc = "check", !.plan = PlanFor(m)]
<1>1. cl[c] \in Passes /\ cl[c].pc = "plan" /\ PassInv(cl[c])
  BY DEF CollectInv, TypeInv, Plan
<1>2. PlanFor(m) \in Plans
  BY SMTT(30), Z3T(30) DEF PlanFor, Plans, CollectInv, TypeInv, Checkpoints
<1>3. q \in Passes /\ q.pc = "check" /\ q.seen = m /\ q.plan = PlanFor(m)
  BY <1>1, <1>2 DEF Passes
<1>4. /\ cl' \in [Collectors -> Passes] /\ cl'[c] = q
      /\ \A d \in Collectors \ {c} : cl'[d] = cl[d]
  BY <1>3 DEF CollectInv, TypeInv, Plan
<1>5. OldPlan(PlanFor(m))
  BY DEF OldPlan, PlanFor, KeptCheckpoints, CollectInv, OrderInv
<1>6. m.ver <= manifest.ver /\ (m.ver = manifest.ver => m = manifest)
  BY <1>1 DEF PassInv
<1>7. ASSUME m = manifest
      PROVE  FreePlan(PlanFor(m))
  <2>1. ASSUME NEW u \in PlanFor(m).packs, Needed(u)
        PROVE  u \in reused
    <3>1. u \in wal /\ Superseded(u) /\ u \notin Referenced(manifest)
      BY <1>7, <2>1, SMTT(30), Z3T(30) DEF PlanFor
    <3>2. ~Rooted(u)
      BY <3>1, KeptReferenced, SMTT(30), Z3T(30) DEF Rooted, KeptCheckpoint
    <3>3. PICK t \in Nat : Claimed(u, t)
      BY <2>1, <3>2 DEF Needed
    <3>4. u \in Ids /\ t <= now /\ Retained(t)
      BY <3>3, ClaimTime, SMTT(30), Z3T(30) DEF CollectInv
    <3>5. Safe(u, t)
      BY <3>3, <3>4, SMTT(30), Z3T(30) DEF CollectInv, ClaimsInv
    <3>6. \E e \in log : u \in e.sup
      BY <3>1 DEF Superseded
    <3>7. \A e \in log : u \in e.sup => ~Retained(e.at)
      BY <3>1, SMTT(30), Z3T(30) DEF Superseded, CollectInv, OrderInv
    <3>8. \A e \in log : u \in e.sup => ~(t <= e.at)
      BY <3>4, <3>7, CollectionAssumption, SMTT(30), Z3T(30) DEF Retained, CollectInv, TypeInv, Entries
    <3>9. u \notin Listed
      BY <3>2 DEF Rooted
    <3> QED
      BY <3>5, <3>6, <3>8, <3>9 DEF Safe
  <2>2. \A e \in PlanFor(m).logs : e.seq \notin manifest.segs
    BY <1>7 DEF PlanFor
  <2>3. \A k \in PlanFor(m).ckpts \cap ckpts : k.seq # manifest.ckpt
    BY <1>7, SMTT(30), Z3T(30) DEF PlanFor, KeptCheckpoints
  <2>4. ASSUME NEW k \in ckpts, k.seq \in PlanFor(m).snaps, KeptCheckpoint(k)
        PROVE  FALSE
    <3>1. PICK l \in ckpts \ KeptCheckpoints(m) : l.seq = k.seq
      BY <2>4 DEF PlanFor
    <3>2. l = k
      BY <3>1, SMTT(30), Z3T(30) DEF CollectInv, OrderInv
    <3> QED
      BY <3>1, <3>2, <2>4, <1>7 DEF KeptCheckpoints, KeptCheckpoint
  <2>5. PlanFor(m).sent = {}
    BY DEF PlanFor
  <2> QED
    BY <2>1, <2>2, <2>3, <2>4, <2>5 DEF FreePlan
<1>8. PassInv(q)
  BY <1>3, <1>5, <1>6, <1>7, SMTT(30), Z3T(30) DEF PassInv, Firm
<1>9. UNCHANGED <<bucketVars, adrift>>
  BY SMTT(30), Z3T(30) DEF Plan, bucketVars, storeVars, writerVars, historyVars
<1> QED
  BY <1>4, <1>8, <1>9, PassStep, SMTT(30), Z3T(30)

\* The recheck makes a plan firm only while the version is the one it was made from.
LEMMA RecheckStep ==
  ASSUME CollectInv, NEW c \in Collectors, Recheck(c)
  PROVE  CollectInv'
<1>1. cl[c] \in Passes /\ cl[c].pc = "check" /\ PassInv(cl[c])
  BY SMTT(30), Z3T(30) DEF CollectInv, TypeInv, Recheck
<1>2. UNCHANGED <<bucketVars, adrift>>
  BY SMTT(30), Z3T(30) DEF Recheck, bucketVars, storeVars, writerVars, historyVars
<1>3. CASE manifest.ver = cl[c].seen.ver
  <2> DEFINE q == [cl[c] EXCEPT !.pc = "delete"]
  <2>1. /\ q \in Passes /\ q.pc = "delete" /\ q.seen = cl[c].seen /\ q.plan = cl[c].plan
    BY <1>1, SMTT(30), Z3T(30) DEF Passes
  <2>2. PassInv(q)
    BY <1>1, <1>3, <2>1, SMTT(30), Z3T(30) DEF PassInv, Firm
  <2>3. /\ cl' \in [Collectors -> Passes] /\ cl'[c] = q
        /\ \A d \in Collectors \ {c} : cl'[d] = cl[d]
    BY <1>3, <2>1, SMTT(30), Z3T(30) DEF CollectInv, TypeInv, Recheck
  <2> QED
    BY <1>2, <2>2, <2>3, PassStep, SMTT(30), Z3T(30)
<1>4. CASE manifest.ver # cl[c].seen.ver
  <2>1. cl' = [cl EXCEPT ![c] = Resting]
    BY <1>4 DEF Recheck
  <2> QED
    BY <1>2, <2>1, RestStep
<1> QED
  BY <1>3, <1>4, SMTT(30), Z3T(30)

\* A checkpoint whose DELETE is sent is neither current nor retained.
LEMMA HeadCheckpointStep ==
  ASSUME CollectInv, NEW c \in Collectors, HeadCheckpoint(c)
  PROVE  CollectInv'
<1>1. PICK k \in cl[c].plan.ckpts :
        /\ \A l \in ckpts : l.seq = k.seq => l = k
        /\ cl' = [cl EXCEPT ![c].plan.ckpts = @ \ {k},
                            ![c].plan.sent = IF k \in ckpts THEN @ \cup {k.seq} ELSE @]
  BY DEF HeadCheckpoint
<1>2. cl[c] \in Passes /\ cl[c].pc = "delete" /\ PassInv(cl[c]) /\ Firm(cl[c])
  BY DEF CollectInv, TypeInv, HeadCheckpoint, Firm
<1>3. cl[c].plan \in Plans /\ OldPlan(cl[c].plan) /\ FreePlan(cl[c].plan)
  BY <1>2 DEF PassInv, Passes
<1> DEFINE todo == cl[c].plan.ckpts \ {k}
           sent == IF k \in ckpts THEN cl[c].plan.sent \cup {k.seq} ELSE cl[c].plan.sent
           q == [cl[c].plan EXCEPT !.ckpts = todo, !.sent = sent]
           r == [cl[c] EXCEPT !.plan = q]
<1>4. k.seq \in Nat
  BY <1>3 DEF Plans, Checkpoints
<1>5. todo \in SUBSET Checkpoints /\ sent \in SUBSET Nat
  BY <1>3, <1>4 DEF Plans
<1>6. \A s \in sent : s \in cl[c].plan.sent \/ (s = k.seq /\ k \in ckpts)
  OBVIOUS
<1>7. todo \subseteq cl[c].plan.ckpts
  OBVIOUS
<1> HIDE DEF todo, sent
<1>8. /\ q \in Plans /\ q.packs = cl[c].plan.packs /\ q.logs = cl[c].plan.logs
      /\ q.ckpts = todo /\ q.sent = sent /\ q.snaps = cl[c].plan.snaps
  BY <1>3, <1>5 DEF Plans
<1>9. cl' = [cl EXCEPT ![c] = r]
  BY <1>1 DEF todo, sent, CollectInv, TypeInv
<1> HIDE DEF q
<1>10. r \in Passes /\ r.pc = cl[c].pc /\ r.seen = cl[c].seen /\ r.plan = q
  BY <1>2, <1>8 DEF Passes
<1> HIDE DEF r
<1>11. OldPlan(q)
  BY <1>3, <1>7, <1>8 DEF OldPlan
<1>12. FreePlan(q)
  <2>1. ASSUME NEW l \in ckpts, l.seq = k.seq, k \in ckpts
        PROVE  ~KeptCheckpoint(l)
    <3>1. l = k
      BY <1>1, <2>1
    <3> QED
      BY <1>3, <2>1, <3>1 DEF OldPlan, FreePlan, KeptCheckpoint
  <2>2. \A l \in ckpts : l.seq \in sent /\ KeptCheckpoint(l) => l.seq \in rewritten
    BY <1>3, <1>6, <2>1 DEF FreePlan
  <2> QED
    BY <1>3, <1>7, <1>8, <2>2 DEF FreePlan
<1>13. PassInv(r)
  BY <1>2, <1>10, <1>11, <1>12 DEF PassInv
<1>14. /\ cl' \in [Collectors -> Passes] /\ cl'[c] = r
       /\ \A d \in Collectors \ {c} : cl'[d] = cl[d]
  BY <1>9, <1>10 DEF CollectInv, TypeInv
<1>15. UNCHANGED <<bucketVars, adrift>>
  BY SMTT(30), Z3T(30) DEF HeadCheckpoint, bucketVars, storeVars, writerVars, historyVars
<1> QED
  BY <1>13, <1>14, <1>15, PassStep

-----------------------------------------------------------------------------
(* Steps that take away: deletions, and writers that give up *)

\* p holds nothing that q does not.
PartOf(p, q) ==
  /\ p.packs \subseteq q.packs /\ p.logs \subseteq q.logs /\ p.ckpts \subseteq q.ckpts
  /\ p.sent \subseteq q.sent /\ p.snaps \subseteq q.snaps

\* A step that only removes objects, writers or planned deletions preserves the
\* invariant when nothing it removes is needed.
LEMMA LessStep ==
  ASSUME CollectInv, UNCHANGED <<now, manifest, reused, rewritten, adrift>>,
         push' \in SUBSET push, folds' \in SUBSET folds, point' \in SUBSET point,
         wal' \in SUBSET wal, log' \in SUBSET log, ckpts' \in SUBSET ckpts,
         snaps' \in SUBSET snaps, cl' \in [Collectors -> Passes],
         \A d \in Collectors :
           /\ cl'[d].pc = cl[d].pc /\ cl'[d].seen = cl[d].seen
           /\ PartOf(cl'[d].plan, cl[d].plan),
         \A u \in wal \ wal' : Needed(u) => u \in reused,
         \A e \in log \ log' : ~Retained(e.at) /\ e.seq \notin manifest.segs,
         \A k \in ckpts \ ckpts' : KeptCheckpoint(k) => k.seq \in rewritten,
         \A s \in snaps \ snaps', k \in ckpts :
           k.seq = s /\ KeptCheckpoint(k) => s \in rewritten
  PROVE  CollectInv'
<1>1. TypeInv'
  BY DEF CollectInv, TypeInv
<1>2. OrderInv'
  <2>1. \A cp \in point' : /\ cp \in ckpts' \/ cp.seq \in rewritten
                           /\ \A k \in ckpts' : k.seq = cp.seq => k = cp
    BY DEF CollectInv, OrderInv, KeptCheckpoint
  <2>2. \A w \in push' \cup folds' \cup point' : w.at <= now /\ Retained(w.at)
    BY DEF CollectInv, OrderInv
  <2> QED
    BY <2>1, <2>2 DEF CollectInv, OrderInv, Retained
<1>3. \A u, t : Claimed(u, t)' => Claimed(u, t)
  BY DEF Claimed, Retained
<1>4. \A u : Rooted(u)' => Rooted(u)
  BY DEF Rooted, Listed
<1>5. \A u : Needed(u)' => Needed(u)
  BY <1>3, <1>4 DEF Needed
<1>6. \A k : KeptCheckpoint(k)' <=> KeptCheckpoint(k)
  BY SMTT(30), Z3T(30) DEF KeptCheckpoint, Retained
<1>7. ASSUME NEW u \in Ids, NEW t \in Nat, Claimed(u, t)'
      PROVE  Safe(u, t)'
  <2>1. Claimed(u, t) /\ Needed(u) /\ Safe(u, t)
    BY <1>3, <1>7 DEF CollectInv, ClaimsInv, Needed
  <2>2. t <= now /\ Retained(t)
    BY <2>1, ClaimTime DEF CollectInv
  <2>3. u \in reused \/ u \in wal'
    BY <2>1, NeededPresent
  <2>4. ASSUME NEW e \in log, t <= e.at
        PROVE  e \in log'
    <3>1. Retained(e.at)
      <4>1. e.at \in Nat /\ now \in Nat
        BY DEF CollectInv, TypeInv, Entries
      <4> QED
        BY <2>2, <2>4, <4>1, RetainedSince
    <3> QED
      BY <3>1, SMTT(30), Z3T(30)
  <2>5. Listed' = Listed
    BY SMTT(30), Z3T(30) DEF Listed
  <2> QED
    BY <2>1, <2>3, <2>4, <2>5 DEF Safe
<1>8. RootsInv'
  <2>1. ASSUME NEW u \in Ids, Rooted(u)'
        PROVE  u \in wal' \cup reused
    BY <1>4, <2>1, NeededPresent DEF Needed
  <2>2. \A s \in manifest.segs : \E e \in log' : e.seq = s
    BY DEF CollectInv, RootsInv
  <2>3. manifest.ckpt \notin {0} \cup rewritten => \E k \in ckpts' : k.seq = manifest.ckpt
    BY SMTT(30), Z3T(30) DEF CollectInv, RootsInv, KeptCheckpoint
  <2>4. \A k \in ckpts' : KeptCheckpoint(k) => k.seq \in snaps' \cup rewritten
    BY DEF CollectInv, RootsInv
  <2> QED
    BY <2>1, <2>2, <2>3, <2>4, <1>6 DEF RootsInv
<1>9. \A p, q : PartOf(p, q) => /\ OldPlan(q) => OldPlan(p)'
                                /\ FreePlan(q) => FreePlan(p)'
  <2> SUFFICES ASSUME NEW p, NEW q, PartOf(p, q)
               PROVE  /\ OldPlan(q) => OldPlan(p)'
                      /\ FreePlan(q) => FreePlan(p)'
    OBVIOUS
  <2>1. OldPlan(q) => OldPlan(p)'
    BY DEF OldPlan, PartOf, Retained
  <2>2. FreePlan(q) => FreePlan(p)'
    BY <1>5, <1>6 DEF FreePlan, PartOf
  <2> QED
    BY <2>1, <2>2
<1>10. \A p : PartOf(p, p)
  BY DEF PartOf
<1>11. AdriftInv'
  BY <1>9, <1>10 DEF CollectInv, AdriftInv
<1>12. ASSUME NEW d \in Collectors
       PROVE  PassInv(cl[d])'
  <2>1. PassInv(cl[d]) /\ (Firm(cl[d])' <=> Firm(cl[d]))
    BY DEF CollectInv, Firm
  <2> QED
    BY <2>1, <1>9 DEF PassInv
<1> QED
  BY <1>1, <1>2, <1>7, <1>8, <1>11, <1>12, SMTT(30), Z3T(30) DEF CollectInv, ClaimsInv

\* A writer that dies leaves its uploads behind and takes its claims with it.
LEMMA AbandonWriteStep == CollectInv /\ AbandonWrite => CollectInv'
BY LessStep DEF AbandonWrite, storeVars, historyVars, CollectInv, TypeInv, PartOf

\* A firm plan holds no pack that is needed, so one of them may go.
LEMMA DeletePackStep ==
  ASSUME CollectInv, NEW c \in Collectors, DeletePack(c)
  PROVE  CollectInv'
<1>1. PICK id \in cl[c].plan.packs :
        wal' = wal \ {id} /\ cl' = [cl EXCEPT ![c].plan.packs = @ \ {id}]
  BY DEF DeletePack
<1>2. OldPlan(cl[c].plan) /\ FreePlan(cl[c].plan)
  <2>1. PassInv(cl[c])
    BY SMTT(30), Z3T(30) DEF CollectInv
  <2>2. Firm(cl[c])
    BY SMTT(30), Z3T(30) DEF Firm, DeletePack
  <2> QED
    BY <2>1, <2>2, SMTT(30), Z3T(30) DEF PassInv
<1>3. cl \in [Collectors -> Passes]
  BY SMTT(30), Z3T(30) DEF CollectInv, TypeInv
<1>4. cl' \in [Collectors -> Passes]
  BY <1>1, <1>3 DEF Passes, Plans
<1>5. \A d \in Collectors :
        /\ cl'[d].pc = cl[d].pc /\ cl'[d].seen = cl[d].seen
        /\ PartOf(cl'[d].plan, cl[d].plan)
  BY <1>1, <1>3, SMTT(30), Z3T(30) DEF PartOf, Passes, Plans
<1>6. \A u \in wal \ wal' : Needed(u) => u \in reused
  BY <1>1, <1>2, SMTT(30), Z3T(30) DEF OldPlan, FreePlan
<1>7. /\ wal' \in SUBSET wal
      /\ UNCHANGED <<now, manifest, log, ckpts, snaps, push, folds, point, reused,
                     rewritten, adrift>>
  BY <1>1, SMTT(30), Z3T(30) DEF DeletePack, writerVars, historyVars
<1> QED
  BY <1>4, <1>5, <1>6, <1>7, LessStep

\* A planned segment is neither listed nor retained.
LEMMA DeleteLogStep ==
  ASSUME CollectInv, NEW c \in Collectors, DeleteLog(c)
  PROVE  CollectInv'
<1>1. PICK e \in cl[c].plan.logs :
        log' = log \ {e} /\ cl' = [cl EXCEPT ![c].plan.logs = @ \ {e}]
  BY DEF DeleteLog
<1>2. OldPlan(cl[c].plan) /\ FreePlan(cl[c].plan)
  <2>1. PassInv(cl[c])
    BY SMTT(30), Z3T(30) DEF CollectInv
  <2>2. Firm(cl[c])
    BY SMTT(30), Z3T(30) DEF Firm, DeleteLog
  <2> QED
    BY <2>1, <2>2, SMTT(30), Z3T(30) DEF PassInv
<1>3. cl \in [Collectors -> Passes]
  BY SMTT(30), Z3T(30) DEF CollectInv, TypeInv
<1>4. cl' \in [Collectors -> Passes]
  BY <1>1, <1>3 DEF Passes, Plans
<1>5. \A d \in Collectors :
        /\ cl'[d].pc = cl[d].pc /\ cl'[d].seen = cl[d].seen
        /\ PartOf(cl'[d].plan, cl[d].plan)
  BY <1>1, <1>3, SMTT(30), Z3T(30) DEF PartOf, Passes, Plans
<1>6. \A f \in log \ log' : ~Retained(f.at) /\ f.seq \notin manifest.segs
  BY <1>1, <1>2, SMTT(30), Z3T(30) DEF OldPlan, FreePlan
<1>7. /\ log' \in SUBSET log
      /\ UNCHANGED <<now, manifest, wal, ckpts, snaps, push, folds, point, reused,
                     rewritten, adrift>>
  BY <1>1, SMTT(30), Z3T(30) DEF DeleteLog, writerVars, historyVars
<1> QED
  BY <1>4, <1>5, <1>6, <1>7, LessStep

\* Where a DELETE is on its way, the checkpoint is neither current nor retained, or it was
\* written again.
LEMMA DeleteCheckpointStep ==
  ASSUME CollectInv, NEW c \in Collectors, DeleteCheckpoint(c)
  PROVE  CollectInv'
<1>1. PICK s \in cl[c].plan.sent :
        /\ ckpts' = {k \in ckpts : k.seq # s}
        /\ cl' = [cl EXCEPT ![c].plan.sent = @ \ {s}]
  BY DEF DeleteCheckpoint
<1>2. OldPlan(cl[c].plan) /\ FreePlan(cl[c].plan)
  <2>1. PassInv(cl[c])
    BY SMTT(30), Z3T(30) DEF CollectInv
  <2>2. Firm(cl[c])
    BY SMTT(30), Z3T(30) DEF Firm, DeleteCheckpoint
  <2> QED
    BY <2>1, <2>2, SMTT(30), Z3T(30) DEF PassInv
<1>3. cl \in [Collectors -> Passes]
  BY SMTT(30), Z3T(30) DEF CollectInv, TypeInv
<1>4. cl' \in [Collectors -> Passes]
  BY <1>1, <1>3 DEF Passes, Plans
<1>5. \A d \in Collectors :
        /\ cl'[d].pc = cl[d].pc /\ cl'[d].seen = cl[d].seen
        /\ PartOf(cl'[d].plan, cl[d].plan)
  BY <1>1, <1>3, SMTT(30), Z3T(30) DEF PartOf, Passes, Plans
<1>6. \A l \in ckpts \ ckpts' : KeptCheckpoint(l) => l.seq \in rewritten
  BY <1>1, <1>2, SMTT(30), Z3T(30) DEF FreePlan
<1>7. /\ ckpts' \in SUBSET ckpts
      /\ UNCHANGED <<now, manifest, wal, log, snaps, push, folds, point, reused,
                     rewritten, adrift>>
  BY <1>1, SMTT(30), Z3T(30) DEF DeleteCheckpoint, writerVars, historyVars
<1> QED
  BY <1>4, <1>5, <1>6, <1>7, LessStep

\* A planned snapshot belongs to no checkpoint that is kept, or to a rewritten one.
LEMMA DeleteSnapshotStep ==
  ASSUME CollectInv, NEW c \in Collectors, DeleteSnapshot(c)
  PROVE  CollectInv'
<1>1. PICK s \in cl[c].plan.snaps :
        snaps' = snaps \ {s} /\ cl' = [cl EXCEPT ![c].plan.snaps = @ \ {s}]
  BY DEF DeleteSnapshot
<1>2. OldPlan(cl[c].plan) /\ FreePlan(cl[c].plan)
  <2>1. PassInv(cl[c])
    BY SMTT(30), Z3T(30) DEF CollectInv
  <2>2. Firm(cl[c])
    BY SMTT(30), Z3T(30) DEF Firm, DeleteSnapshot
  <2> QED
    BY <2>1, <2>2, SMTT(30), Z3T(30) DEF PassInv
<1>3. cl \in [Collectors -> Passes]
  BY SMTT(30), Z3T(30) DEF CollectInv, TypeInv
<1>4. cl' \in [Collectors -> Passes]
  BY <1>1, <1>3 DEF Passes, Plans
<1>5. \A d \in Collectors :
        /\ cl'[d].pc = cl[d].pc /\ cl'[d].seen = cl[d].seen
        /\ PartOf(cl'[d].plan, cl[d].plan)
  BY <1>1, <1>3, SMTT(30), Z3T(30) DEF PartOf, Passes, Plans
<1>6. \A r \in snaps \ snaps', k \in ckpts :
        k.seq = r /\ KeptCheckpoint(k) => r \in rewritten
  BY <1>1, <1>2, SMTT(30), Z3T(30) DEF OldPlan, FreePlan
<1>7. /\ snaps' \in SUBSET snaps
      /\ UNCHANGED <<now, manifest, wal, log, ckpts, push, folds, point, reused,
                     rewritten, adrift>>
  BY <1>1, SMTT(30), Z3T(30) DEF DeleteSnapshot, writerVars, historyVars
<1> QED
  BY <1>4, <1>5, <1>6, <1>7, LessStep

\* A DELETE that nobody waits for takes no more than one that somebody does.
LEMMA LandAdriftStep == CollectInv /\ LandAdrift => CollectInv'
<1> SUFFICES ASSUME CollectInv, LandAdrift PROVE CollectInv'
  OBVIOUS
<1>1. PICK p \in adrift :
        \/ \E id \in p.packs : wal' = wal \ {id} /\ UNCHANGED <<log, ckpts, snaps>>
        \/ \E e \in p.logs : log' = log \ {e} /\ UNCHANGED <<wal, ckpts, snaps>>
        \/ \E s \in p.sent : ckpts' = {k \in ckpts : k.seq # s} /\ UNCHANGED <<wal, log, snaps>>
        \/ \E s \in p.snaps : snaps' = snaps \ {s} /\ UNCHANGED <<wal, log, ckpts>>
  BY DEF LandAdrift
<1>2. OldPlan(p) /\ FreePlan(p)
  BY DEF CollectInv, AdriftInv
<1>3. /\ UNCHANGED <<now, manifest, push, folds, point, reused, rewritten, cl, adrift>>
      /\ cl' \in [Collectors -> Passes]
  BY DEF LandAdrift, writerVars, historyVars, CollectInv, TypeInv
<1>4. \A d \in Collectors : /\ cl'[d].pc = cl[d].pc /\ cl'[d].seen = cl[d].seen
                            /\ PartOf(cl'[d].plan, cl[d].plan)
  BY <1>3 DEF PartOf
<1>5. /\ wal' \in SUBSET wal /\ log' \in SUBSET log /\ ckpts' \in SUBSET ckpts
      /\ snaps' \in SUBSET snaps
  BY <1>1, SMTT(30), Z3T(30)
<1>6. \A u \in wal \ wal' : Needed(u) => u \in reused
  BY <1>1, <1>2 DEF FreePlan
<1>7. \A e \in log \ log' : ~Retained(e.at) /\ e.seq \notin manifest.segs
  BY <1>1, <1>2 DEF OldPlan, FreePlan
<1>8. \A k \in ckpts \ ckpts' : KeptCheckpoint(k) => k.seq \in rewritten
  BY <1>1, <1>2 DEF FreePlan
<1>9. \A s \in snaps \ snaps', k \in ckpts :
        k.seq = s /\ KeptCheckpoint(k) => s \in rewritten
  BY <1>1, <1>2 DEF FreePlan
<1> QED
  BY <1>3, <1>4, <1>5, <1>6, <1>7, <1>8, <1>9, LessStep

-----------------------------------------------------------------------------
(* Steps that claim: uploads and checkpoints *)

\* A step that uploads preserves the invariant when what it claims is listed, reused,
\* or in the bucket and in nobody's plan.
LEMMA ClaimStep ==
  ASSUME CollectInv, TypeInv', OrderInv', NEW new,
         UNCHANGED <<now, manifest, log, cl, adrift>>,
         wal \in SUBSET wal', reused \in SUBSET reused',
         snaps \in SUBSET snaps', rewritten \in SUBSET rewritten',
         \A u, t : Claimed(u, t)' => Claimed(u, t) \/ (u \in new /\ t = now),
         \A u \in new : \/ u \in reused' \/ u \in Listed
                        \/ u \in wal' /\ ~Doomed(u),
         \A k \in ckpts : k.seq = manifest.ckpt => k \in ckpts',
         \A k \in ckpts' \ ckpts :
           /\ k.seq # manifest.ckpt /\ k.seq \in snaps'
           /\ \A p \in UnderWay : k.seq \in p.sent \cup p.snaps => k.seq \in rewritten'
  PROVE  CollectInv'
<1>1. Listed' = Listed
  BY SMTT(30), Z3T(30) DEF Listed
<1>2. \A u : Rooted(u)' => Rooted(u)
  BY <1>1, SMTT(30), Z3T(30) DEF Rooted
<1>3. \A k : KeptCheckpoint(k)' <=> KeptCheckpoint(k)
  BY SMTT(30), Z3T(30) DEF KeptCheckpoint, Retained
<1>4. \A u \in Listed : u \in wal \cup reused
  BY NeededPresent, SMTT(30), Z3T(30) DEF Needed, Rooted
<1>5. ASSUME NEW u \in Ids, NEW t \in Nat, Claimed(u, t)'
      PROVE  Safe(u, t)'
  <2>1. CASE Claimed(u, t)
    <3>1. Safe(u, t)
      BY <2>1 DEF CollectInv, ClaimsInv
    <3> QED
      BY <3>1, <1>1 DEF Safe
  <2>2. CASE u \in new
    BY <2>2, <1>1, <1>4, SMTT(30), Z3T(30) DEF Safe, Doomed
  <2> QED
    BY <1>5, <2>1, <2>2
<1>6. RootsInv'
  <2>1. ASSUME NEW u \in Ids, Rooted(u)'
        PROVE  u \in wal' \cup reused'
    BY <1>2, <2>1 DEF CollectInv, RootsInv
  <2>2. \A s \in manifest.segs : \E e \in log : e.seq = s
    BY SMTT(30), Z3T(30) DEF CollectInv, RootsInv
  <2>3. manifest.ckpt \notin {0} \cup rewritten' => \E k \in ckpts' : k.seq = manifest.ckpt
    BY DEF CollectInv, RootsInv
  <2>4. \A k \in ckpts' : KeptCheckpoint(k) => k.seq \in snaps' \cup rewritten'
    BY DEF CollectInv, RootsInv
  <2> QED
    BY <2>1, <2>2, <2>3, <2>4, <1>3 DEF RootsInv
<1>7. ASSUME NEW p \in UnderWay, FreePlan(p)
      PROVE  FreePlan(p)'
  <2>1. ASSUME NEW u \in p.packs, Needed(u)'
        PROVE  u \in reused'
    <3>1. CASE Needed(u)
      BY <1>7, <3>1, SMTT(30), Z3T(30) DEF FreePlan
    <3>2. CASE u \in new
      <4>1. CASE u \in Listed
        BY <1>7, <4>1 DEF FreePlan, Needed, Rooted
      <4>2. Doomed(u)
        BY <2>1 DEF Doomed
      <4> QED
        BY <3>2, <4>1, <4>2
    <3> QED
      BY <2>1, <3>1, <3>2, <1>2 DEF Needed
  <2>2. /\ \A e \in p.logs : e.seq \notin manifest.segs
        /\ \A k \in p.ckpts \cap ckpts' : k.seq # manifest.ckpt
        /\ \A k \in ckpts' : k.seq \in p.sent \cup p.snaps /\ KeptCheckpoint(k)
                               => k.seq \in rewritten'
    BY <1>7, SMTT(30), Z3T(30) DEF FreePlan
  <2> QED
    BY <2>1, <2>2, <1>3 DEF FreePlan
<1>8. \A p : OldPlan(p) => OldPlan(p)'
  BY DEF OldPlan, Retained
<1>9. AdriftInv'
  BY <1>7, <1>8 DEF CollectInv, AdriftInv, UnderWay
<1>10. ASSUME NEW c \in Collectors
       PROVE  PassInv(cl[c])'
  <2>1. PassInv(cl[c]) /\ (Firm(cl[c])' <=> Firm(cl[c]))
    BY SMTT(30), Z3T(30) DEF CollectInv, Firm
  <2>2. cl[c].plan \in UnderWay
    BY DEF UnderWay
  <2> QED
    BY <2>1, <2>2, <1>7, <1>8 DEF PassInv
<1> QED
  BY <1>5, <1>6, <1>9, <1>10 DEF CollectInv, ClaimsInv

\* An upload leaves its pack in the bucket, marked if it may be planned already.
LEMMA UploadFacts ==
  ASSUME CollectInv, NEW id \in Ids, Upload(id)
  PROVE  /\ wal' \in SUBSET Ids /\ reused' \in SUBSET Ids
         /\ wal \in SUBSET wal' /\ reused \in SUBSET reused'
         /\ id \in reused' \/ id \in Listed \/ (id \in wal' /\ ~Doomed(id))
<1>1. wal \in SUBSET Ids /\ reused \in SUBSET Ids
  BY SMTT(30), Z3T(30) DEF CollectInv, TypeInv
<1>2. CASE Doomed(id) /\ id \notin Listed
  BY <1>1, <1>2, SMTT(30), Z3T(30) DEF Upload
<1>3. CASE ~(Doomed(id) /\ id \notin Listed)
  BY <1>1, <1>3, SMTT(30), Z3T(30) DEF Upload
<1> QED
  BY <1>2, <1>3, SMTT(30), Z3T(30)

\* What happens now is within the retention.
LEMMA RetainedNow == now \in Nat => now <= now /\ Retained(now)
BY CollectionAssumption, SMTT(30), Z3T(30) DEF Retained

\* put_immutable_create of a push.
LEMMA UploadPushStep ==
  ASSUME CollectInv, NEW x \in Contents, UploadPush(x)
  PROVE  CollectInv'
<1> DEFINE p == [id |-> {x}, at |-> now]
<1>1. {x} \in Ids /\ push' = {p} /\ Upload({x}) /\ now \in Nat
  BY SMTT(30), Z3T(30) DEF Ids, UploadPush, CollectInv, TypeInv
<1>2. TypeInv'
  BY <1>1, UploadFacts, SMTT(30), Z3T(30) DEF UploadPush, CollectInv, TypeInv
<1>3. OrderInv'
  <2>1. \A w \in push' : w.at <= now /\ Retained(w.at)
    <3>1. p.at = now
      OBVIOUS
    <3> HIDE DEF p
    <3> QED
      BY <1>1, <3>1, RetainedNow
  <2>2. UNCHANGED <<now, manifest, log, ckpts, folds, point, rewritten>>
    BY DEF UploadPush
  <2> QED
    BY <2>1, <2>2 DEF CollectInv, OrderInv, Retained
<1> PICK new : new = {{x}}
  OBVIOUS
<1>4. \A u, t : Claimed(u, t)' => Claimed(u, t) \/ (u \in new /\ t = now)
  <2>1. \A q \in push' : q.id \in new /\ q.at = now
    BY <1>1, SMTT(30), Z3T(30)
  <2>2. UNCHANGED <<now, log, folds, ckpts>>
    BY DEF UploadPush
  <2> QED
    BY <2>1, <2>2 DEF Claimed, Retained
<1>5. \A u \in new : u \in reused' \/ u \in Listed \/ (u \in wal' /\ ~Doomed(u))
  BY <1>1, UploadFacts
<1>6. wal \in SUBSET wal' /\ reused \in SUBSET reused'
  BY <1>1, UploadFacts
<1>7. UNCHANGED <<now, manifest, log, cl, adrift, ckpts, snaps, rewritten>>
  BY SMTT(30), Z3T(30) DEF UploadPush
<1> QED
  BY <1>2, <1>3, <1>4, <1>5, <1>6, <1>7, ClaimStep

\* put_immutable_create of a compaction, which also claims what it folds.
LEMMA UploadFoldStep == CollectInv /\ UploadFold => CollectInv'
<1> SUFFICES ASSUME CollectInv, UploadFold PROVE CollectInv'
  BY SMTT(30), Z3T(30)
<1>1. PICK old \in SUBSET Listed :
        /\ folds' = folds \cup {[old |-> old, at |-> now]}
        /\ Upload(UNION old)
  BY DEF UploadFold
<1>2. Listed \in SUBSET Ids
  BY SMTT(30), Z3T(30) DEF Listed, CollectInv, TypeInv, Manifests, PackRefs
<1>3. UNION old \in Ids /\ now \in Nat
  BY <1>2 DEF Ids, CollectInv, TypeInv
<1>4. TypeInv'
  BY <1>1, <1>2, <1>3, UploadFacts, SMTT(30), Z3T(30) DEF UploadFold, CollectInv, TypeInv
<1>5. OrderInv'
  <2>1. \A w \in folds' : w.at <= now /\ Retained(w.at)
    <3>1. PICK f : f = [old |-> old, at |-> now]
      OBVIOUS
    <3>2. f.at = now /\ folds' = folds \cup {f}
      BY <1>1, <3>1
    <3>3. \A w \in folds : w.at <= now /\ Retained(w.at)
      BY DEF CollectInv, OrderInv
    <3> QED
      BY <1>3, <3>2, <3>3, RetainedNow
  <2>2. UNCHANGED <<now, manifest, log, ckpts, push, point, rewritten>>
    BY DEF UploadFold
  <2> QED
    BY <2>1, <2>2 DEF CollectInv, OrderInv, Retained
<1>6. \A u, t : Claimed(u, t)' => Claimed(u, t) \/ (u \in old \cup {UNION old} /\ t = now)
  <2>1. PICK f : f = [old |-> old, at |-> now]
    OBVIOUS
  <2>2. f.old = old /\ f.at = now /\ \A g \in folds' : g \in folds \/ g = f
    BY <1>1, <2>1
  <2>3. UNCHANGED <<now, push, log, ckpts>>
    BY DEF UploadFold
  <2> QED
    BY <2>2, <2>3 DEF Claimed, Retained
<1>7. \A u \in old \cup {UNION old} :
        u \in reused' \/ u \in Listed \/ (u \in wal' /\ ~Doomed(u))
  BY <1>1, <1>3, UploadFacts
<1>8. wal \in SUBSET wal' /\ reused \in SUBSET reused'
  BY <1>1, <1>3, UploadFacts, SMTT(30), Z3T(30)
<1>9. UNCHANGED <<now, manifest, log, cl, adrift, ckpts, snaps, rewritten>>
  BY DEF UploadFold
<1> QED
  BY <1>4, <1>5, <1>6, <1>7, <1>8, <1>9, ClaimStep

\* The two objects of a checkpoint, which claims what is listed.
LEMMA WriteCheckpointStep == CollectInv /\ WriteCheckpoint => CollectInv'
<1> SUFFICES ASSUME CollectInv, WriteCheckpoint PROVE CollectInv'
  BY SMTT(30), Z3T(30)
<1>1. PICK new : new = Listed
  BY SMTT(30), Z3T(30)
<1>2. PICK cp : cp = [seq |-> manifest.head, packs |-> new, at |-> now]
  OBVIOUS
<1>3. /\ new \in SUBSET Ids /\ now \in Nat
      /\ manifest.head \in Nat /\ manifest.ckpt \in Nat
  BY <1>1 DEF Listed, CollectInv, TypeInv, Manifests, PackRefs
<1>4. /\ cp \in Checkpoints /\ cp.seq # 0 /\ cp.seq # manifest.ckpt
      /\ cp.seq \in Nat /\ cp.at = now /\ cp.packs = new
  <2>1. manifest.ckpt < manifest.head
    BY <1>3, SMTT(30), Z3T(30) DEF WriteCheckpoint
  <2>2. manifest.head # 0 /\ manifest.head # manifest.ckpt
    BY <1>3, <2>1, Smaller
  <2>3. cp.seq = manifest.head /\ cp.at = now /\ cp.packs = new /\ cp \in Checkpoints
    BY <1>2, <1>3 DEF Checkpoints
  <2> QED
    BY <1>3, <2>2, <2>3
<1>5. /\ ckpts' = {k \in ckpts : k.seq # cp.seq} \cup {cp}
      /\ snaps' = snaps \cup {cp.seq} /\ point' = {cp}
      /\ \A p \in UnderWay : cp.seq \in p.sent \cup p.snaps => cp.seq \in rewritten'
      /\ rewritten \in SUBSET rewritten'
      /\ UNCHANGED <<now, manifest, wal, log, push, folds, reused, cl, adrift>>
  BY <1>1, <1>2, SMTT(30), Z3T(30) DEF WriteCheckpoint
<1>6. TypeInv'
  BY <1>4, <1>5 DEF CollectInv, TypeInv
<1>7. OrderInv'
  <2>1. \A k \in ckpts' : k.seq # 0 /\ k.at <= now
    BY <1>3, <1>4, <1>5, RetainedNow DEF CollectInv, OrderInv
  <2>2. \A k, l \in ckpts' : k.seq = l.seq => k = l
    BY <1>5 DEF CollectInv, OrderInv
  <2>3. \A w \in push \cup folds \cup {cp} : w.at <= now /\ Retained(w.at)
    BY <1>3, <1>4, RetainedNow DEF CollectInv, OrderInv
  <2> QED
    BY <1>5, <2>1, <2>2, <2>3 DEF CollectInv, OrderInv, Retained
<1>8. \A u, t : Claimed(u, t)' => Claimed(u, t) \/ (u \in new /\ t = now)
  BY <1>4, <1>5 DEF Claimed, Retained
<1>9. ckpts' \ ckpts \subseteq {cp} /\ \A k \in ckpts : k.seq = manifest.ckpt => k \in ckpts'
  BY <1>4, <1>5
<1> QED
  BY <1>1, <1>4, <1>5, <1>6, <1>7, <1>8, <1>9, ClaimStep

-----------------------------------------------------------------------------
(* Steps that write the manifest *)

\* A manifest that moves on leaves no plan firm that is not being executed.
LEMMA NewVersion ==
  ASSUME CollectInv, NEW c \in Collectors, manifest'.ver = manifest.ver + 1,
         manifest' \in Manifests, cl' = cl
  PROVE  /\ Firm(cl[c])' => cl[c].pc = "delete" /\ Firm(cl[c])
         /\ cl[c].pc # "rest" => cl[c].seen.ver < manifest'.ver
<1>1. cl[c] \in Passes /\ PassInv(cl[c]) /\ manifest.ver \in Nat
  BY SMTT(30), Z3T(30) DEF CollectInv, TypeInv, Manifests
<1>2. cl[c].seen.ver \in Nat
  BY <1>1 DEF Passes, Manifests
<1>3. cl[c].pc # "rest" => cl[c].seen.ver <= manifest.ver
  BY <1>1 DEF PassInv
<1>4. cl[c].pc # "rest" => cl[c].seen.ver < manifest'.ver
  BY <1>1, <1>2, <1>3, SMTT(30), Z3T(30)
<1>5. cl[c].pc = "check" => cl[c].seen.ver # manifest'.ver
  <2>1. PICK v \in Nat : v = cl[c].seen.ver
    BY <1>2
  <2>2. v < manifest'.ver => v # manifest'.ver
    BY SMTT(30), Z3T(30)
  <2> QED
    BY <1>4, <2>1, <2>2
<1> QED
  BY <1>4, <1>5 DEF Firm

\* An entry lists its pack in place of what it supersedes.
LEMMA AppendListed ==
  ASSUME manifest \in Manifests, NEW kind, NEW id, NEW tier, NEW sup,
         Append(kind, id, tier, sup)
  PROVE  /\ id \in Listed' /\ \A u \in Listed' : u \in Listed \/ u = id
         /\ \A u \in Listed : u \in Listed' \/ (kind = "compact" /\ u \in sup)
<1> DEFINE new == [id |-> id, seq |-> manifest.head + 1, tier |-> tier]
<1>1. manifest'.packs = {p \in manifest.packs : kind = "compact" => p.id \notin sup \cup {id}}
                          \cup {new}
  BY SMTT(30), Z3T(30) DEF Append, Manifests
<1>2. new.id = id
  OBVIOUS
<1> HIDE DEF new
<1>3. id \in Listed'
  BY <1>1, <1>2 DEF Listed
<1>4. \A u \in Listed' : u \in Listed \/ u = id
  BY <1>1, <1>2 DEF Listed
<1>5. \A u \in Listed : u \in Listed' \/ (kind = "compact" /\ u \in sup)
  BY <1>1, <1>3 DEF Listed
<1> QED
  BY <1>3, <1>4, <1>5, SMTT(30), Z3T(30)

\* A commit that lists a pack somebody has claimed preserves the invariant: plans made
\* from the former version are no longer firm, and claims go over to the entry.
LEMMA AppendStep ==
  ASSUME CollectInv, NEW kind \in {"push", "compact"}, NEW id \in Ids, NEW tier \in Nat,
         NEW sup \in SUBSET Ids, sup # {} => kind = "compact", Append(kind, id, tier, sup),
         UNCHANGED <<now, wal, ckpts, snaps, point, reused, rewritten, cl, adrift>>,
         push' \in SUBSET push, folds' \in SUBSET folds,
         \A v \in {id} \cup sup : Needed(v)
  PROVE  CollectInv'
<1> DEFINE e == [seq |-> manifest.head + 1, kind |-> kind, pack |-> id, sup |-> sup,
                 at |-> now]
           new == [id |-> id, seq |-> manifest.head + 1, tier |-> tier]
<1>1. manifest \in Manifests /\ now \in Nat
  BY SMTT(30), Z3T(30) DEF CollectInv, TypeInv
<1>2. /\ log' = log \cup {e} /\ e \in Entries
      /\ e.seq = manifest.head + 1 /\ e.pack = id /\ e.sup = sup /\ e.at = now
      /\ e.kind = kind
  BY <1>1, SMTT(30), Z3T(30) DEF Append, Entries, Manifests
<1>3. /\ manifest'.ver = manifest.ver + 1 /\ manifest'.head = manifest.head + 1
      /\ manifest'.segs = manifest.segs \cup {manifest.head + 1}
      /\ manifest'.ckpt = manifest.ckpt
      /\ manifest'.packs = {p \in manifest.packs : kind = "compact" => p.id \notin sup \cup {id}}
                             \cup {new}
  BY <1>1, SMTT(30), Z3T(30) DEF Append, Manifests
<1>4. manifest' \in Manifests
  <2> DEFINE packs == {p \in manifest.packs : kind = "compact" => p.id \notin sup \cup {id}}
                        \cup {new}
             segs == manifest.segs \cup {manifest.head + 1}
  <2>1. /\ packs \in SUBSET PackRefs /\ segs \in SUBSET Nat
        /\ manifest.ver + 1 \in Nat /\ manifest.head + 1 \in Nat
    BY <1>1, SMTT(30), Z3T(30) DEF Manifests, PackRefs
  <2>2. manifest' = [manifest EXCEPT !.ver = manifest.ver + 1, !.head = manifest.head + 1,
                                     !.segs = segs, !.packs = packs]
    BY DEF Append
  <2> HIDE DEF packs, segs
  <2> QED
    BY <1>1, <2>1, <2>2 DEF Manifests
<1> HIDE DEF e, new
<1>5. /\ id \in Listed' /\ \A u \in Listed' : u \in Listed \/ u = id
      /\ \A u \in Listed : u \in Listed' \/ u \in sup
  BY <1>1, AppendListed, SMTT(30), Z3T(30)
<1>6. TypeInv'
  BY <1>2, <1>4 DEF CollectInv, TypeInv
<1>7. OrderInv'
  <2>1. \A f \in log' : /\ f.seq <= manifest'.head /\ f.at <= now
                        /\ f.sup # {} => f.kind = "compact"
    <3>1. manifest'.head = manifest.head + 1 /\ manifest.head \in Nat
      BY <1>1, <1>3 DEF Manifests
    <3>2. ASSUME NEW f \in log
          PROVE  f.seq <= manifest'.head
      <4>1. f.seq \in Nat /\ f.seq <= manifest.head
        BY DEF CollectInv, TypeInv, OrderInv, Entries
      <4> QED
        BY <3>1, <4>1, HeadMoves
    <3>3. e.seq <= manifest'.head
      BY <1>2, <3>1, HeadMoves
    <3>4. e.at <= now /\ (e.sup # {} => e.kind = "compact")
      BY <1>1, <1>2, RetainedNow
    <3> QED
      BY <1>2, <3>2, <3>3, <3>4 DEF CollectInv, OrderInv
  <2>2. \A w \in push' \cup folds' \cup point : w.at <= now /\ Retained(w.at)
    BY DEF CollectInv, OrderInv
  <2> QED
    BY <2>1, <2>2 DEF CollectInv, OrderInv, Retained
<1>8. \A u, t : Claimed(u, t)' => Claimed(u, t) \/ (u \in {id} \cup sup /\ t = now)
  BY <1>2, SMTT(30), Z3T(30) DEF Claimed, Retained
<1>9. \A u : Needed(u)' => Needed(u)
  <2>1. \A u : Rooted(u)' => Rooted(u) \/ u = id
    BY <1>3, <1>5 DEF Rooted
  <2> QED
    BY <2>1, <1>8 DEF Needed
<1>10. \A k : KeptCheckpoint(k)' <=> KeptCheckpoint(k)
  BY <1>3 DEF KeptCheckpoint, Retained
<1>11. ASSUME NEW u \in Ids, NEW t \in Nat, Claimed(u, t)'
       PROVE  Safe(u, t)'
  <2>1. u \in wal \cup reused
    BY <1>9, <1>11, NeededPresent, SMTT(30), Z3T(30) DEF Needed
  <2>2. t <= now
    <3>1. CASE Claimed(u, t)
      BY <3>1, ClaimTime DEF CollectInv
    <3>2. CASE t = now
      BY <1>1, <3>2, RetainedNow
    <3>3. Claimed(u, t) \/ t = now
      BY <1>8, <1>11 DEF Claimed, Retained
    <3> QED
      BY <3>1, <3>2, <3>3
  <2>3. CASE u \in sup
    BY <1>2, <2>1, <2>2, <2>3 DEF Safe
  <2>4. CASE u = id
    BY <1>5, <2>1, <2>4 DEF Safe
  <2>5. CASE Claimed(u, t) /\ u \notin sup
    <3>1. Safe(u, t)
      BY <2>5, SMTT(30), Z3T(30) DEF CollectInv, ClaimsInv
    <3> QED
      BY <3>1, <1>2, <1>5, <2>5 DEF Safe
  <2> QED
    BY <1>8, <1>11, <2>3, <2>4, <2>5
<1>12. RootsInv'
  <2>1. \A u \in Ids : Rooted(u)' => u \in wal \cup reused
    BY <1>9, NeededPresent, SMTT(30), Z3T(30) DEF Needed
  <2>2. \A s \in manifest'.segs : \E f \in log' : f.seq = s
    BY <1>2, <1>3 DEF CollectInv, RootsInv
  <2> QED
    BY <2>1, <2>2, <1>3, <1>10 DEF CollectInv, RootsInv
<1>13. ASSUME NEW p \in Plans, OldPlan(p)
       PROVE  OldPlan(p)' /\ (FreePlan(p) => FreePlan(p)')
  <2>1. ASSUME NEW f \in p.logs
        PROVE  /\ f.seq <= manifest'.head
               /\ f.seq \notin manifest.segs => f.seq \notin manifest'.segs
    <3>1. f.seq \in Nat
      BY DEF Plans, Entries
    <3>2. f.seq <= manifest.head /\ manifest.head \in Nat
      BY <1>1, <1>13 DEF OldPlan, Manifests
    <3>3. /\ manifest'.head = manifest.head + 1
          /\ manifest'.segs = manifest.segs \cup {manifest.head + 1}
      BY <1>3
    <3> QED
      BY <3>1, <3>2, <3>3, HeadMoves
  <2>2. OldPlan(p)'
    BY <1>13, <2>1 DEF OldPlan, Retained
  <2>3. FreePlan(p) => FreePlan(p)'
    BY <2>1, <1>3, <1>9, <1>10 DEF FreePlan
  <2> QED
    BY <2>2, <2>3
<1>14. AdriftInv'
  BY <1>13 DEF CollectInv, TypeInv, AdriftInv
<1>15. ASSUME NEW c \in Collectors
       PROVE  PassInv(cl[c])'
  <2>1. PassInv(cl[c]) /\ cl[c] \in Passes
    BY DEF CollectInv, TypeInv
  <2>2. /\ Firm(cl[c])' => Firm(cl[c])
        /\ cl[c].pc # "rest" => cl[c].seen.ver < manifest'.ver
    BY <1>3, <1>4, NewVersion
  <2>3. cl[c].pc # "rest" => /\ cl[c].seen.ver <= manifest'.ver
                             /\ cl[c].seen.ver # manifest'.ver
    <3>1. cl[c].seen.ver \in Nat /\ manifest'.ver \in Nat
      BY <2>1, <1>4 DEF Passes, Manifests
    <3> QED
      BY <2>2, <3>1, Smaller
  <2>4. cl[c].plan \in Plans
    BY <2>1 DEF Passes
  <2> QED
    BY <2>1, <2>2, <2>3, <2>4, <1>13 DEF PassInv
<1> QED
  BY <1>6, <1>7, <1>11, <1>12, <1>14, <1>15 DEF CollectInv, ClaimsInv

\* The commit of a push.
LEMMA CommitPushStep == CollectInv /\ CommitPush => CollectInv'
<1> SUFFICES ASSUME CollectInv, CommitPush PROVE CollectInv'
  BY SMTT(30), Z3T(30)
<1>1. PICK p \in push : Append("push", p.id, 0, {})
  BY DEF CommitPush
<1>2. p.id \in Ids /\ p.at \in Nat
  BY DEF CollectInv, TypeInv
<1>3. \A v \in {p.id} \cup {} : Needed(v)
  BY <1>2 DEF Needed, Claimed
<1>4. /\ UNCHANGED <<now, wal, ckpts, snaps, point, reused, rewritten, cl, adrift>>
      /\ push' \in SUBSET push /\ folds' \in SUBSET folds
  BY SMTT(30), Z3T(30) DEF CommitPush
<1>5. 0 \in Nat /\ {} \in SUBSET Ids
  BY SMTT(30), Z3T(30)
<1> QED
  BY <1>1, <1>2, <1>3, <1>4, <1>5, AppendStep

\* The commit of a compaction.
LEMMA CommitFoldStep == CollectInv /\ CommitFold => CollectInv'
<1> SUFFICES ASSUME CollectInv, CommitFold PROVE CollectInv'
  BY SMTT(30), Z3T(30)
<1>1. PICK f \in folds : Append("compact", UNION f.old, 1, f.old) /\ folds' = folds \ {f}
  BY DEF CommitFold
<1>2. f.old \in SUBSET Ids /\ f.at \in Nat
  BY DEF CollectInv, TypeInv
<1>3. UNION f.old \in Ids
  BY <1>2 DEF Ids
<1>4. \A v \in {UNION f.old} \cup f.old : Needed(v)
  BY <1>2 DEF Needed, Claimed
<1>5. /\ UNCHANGED <<now, wal, ckpts, snaps, point, reused, rewritten, cl, adrift>>
      /\ push' \in SUBSET push /\ folds' \in SUBSET folds
  BY <1>1, SMTT(30), Z3T(30) DEF CommitFold, historyVars
<1>6. 1 \in Nat
  OBVIOUS
<1> QED
  BY <1>1, <1>2, <1>3, <1>4, <1>5, <1>6, AppendStep

\* The commit of a checkpoint, whose packs its writer has claimed.
LEMMA CommitCheckpointStep == CollectInv /\ CommitCheckpoint => CollectInv'
<1> SUFFICES ASSUME CollectInv, CommitCheckpoint PROVE CollectInv'
  BY SMTT(30), Z3T(30)
<1>1. PICK cp \in point :
        manifest' = [manifest EXCEPT !.ver = @ + 1, !.ckpt = cp.seq,
                                     !.segs = {s \in @ : s > cp.seq}]
  BY DEF CommitCheckpoint
<1>2. /\ UNCHANGED <<now, wal, log, ckpts, snaps, push, folds, reused, rewritten, cl, adrift>>
      /\ point' = {}
  BY SMTT(30), Z3T(30) DEF CommitCheckpoint, storeVars, historyVars
<1>3. manifest \in Manifests /\ now \in Nat
  BY DEF CollectInv, TypeInv
<1>4. /\ cp \in ckpts \/ cp.seq \in rewritten
      /\ Retained(cp.at) /\ cp.at \in Nat /\ cp.seq \in Nat
  BY SMTT(30), Z3T(30) DEF CollectInv, TypeInv, OrderInv, Checkpoints
<1>5. /\ manifest'.ver = manifest.ver + 1 /\ manifest'.head = manifest.head
      /\ manifest'.packs = manifest.packs /\ manifest'.ckpt = cp.seq
      /\ manifest'.segs \subseteq manifest.segs
  BY <1>1, <1>3, SMTT(30), Z3T(30) DEF Manifests
<1>6. manifest' \in Manifests
  <2> DEFINE segs == {s \in manifest.segs : s > cp.seq}
  <2>1. segs \in SUBSET Nat /\ manifest.ver + 1 \in Nat
    BY <1>3, SMTT(30), Z3T(30) DEF Manifests
  <2>2. manifest' = [manifest EXCEPT !.ver = manifest.ver + 1, !.ckpt = cp.seq, !.segs = segs]
    BY <1>1, SMTT(30), Z3T(30)
  <2> HIDE DEF segs
  <2> QED
    BY <1>3, <1>4, <2>1, <2>2 DEF Manifests
<1>7. TypeInv' /\ OrderInv'
  <2>1. TypeInv'
    BY <1>2, <1>6 DEF CollectInv, TypeInv
  <2>2. OrderInv'
    BY <1>2, <1>5, SMTT(30), Z3T(30) DEF CollectInv, OrderInv, Retained
  <2> QED
    BY <2>1, <2>2, SMTT(30), Z3T(30)
<1>8. \A k \in ckpts : k.seq = cp.seq => k = cp
  BY DEF CollectInv, OrderInv
<1>9. /\ Listed' = Listed
      /\ \A u, t : Claimed(u, t)' <=> Claimed(u, t)
      /\ \A u, t : Safe(u, t)' <=> Safe(u, t)
  BY <1>2, <1>5, SMTT(30), Z3T(30) DEF Listed, Claimed, Safe, Retained
<1>10. \A u : Rooted(u)' => u \in Listed \/ Claimed(u, cp.at)
  BY <1>2, <1>4, <1>5, <1>8, <1>9 DEF Rooted, Claimed
<1>11. \A u : Needed(u)' => Needed(u)
  BY <1>4, <1>9, <1>10 DEF Needed, Rooted
<1>12. \A k \in ckpts : KeptCheckpoint(k)' => KeptCheckpoint(k)
  BY <1>2, <1>4, <1>5, <1>8 DEF KeptCheckpoint, Retained
<1>13. ClaimsInv'
  BY <1>9, SMTT(30), Z3T(30) DEF CollectInv, ClaimsInv
<1>14. RootsInv'
  <2>1. \A u \in Ids : Rooted(u)' => u \in wal \cup reused
    BY <1>11, NeededPresent, SMTT(30), Z3T(30) DEF Needed
  <2> QED
    BY <2>1, <1>2, <1>4, <1>5, <1>12 DEF CollectInv, RootsInv
<1>15. ASSUME NEW p, OldPlan(p)
       PROVE  OldPlan(p)' /\ (FreePlan(p) => FreePlan(p)')
  <2>1. \A k \in p.ckpts \cap ckpts : k.seq # cp.seq
    BY <1>4, <1>8, <1>15 DEF OldPlan
  <2>2. OldPlan(p)'
    BY <1>2, <1>5, <1>15 DEF OldPlan, Retained
  <2>3. FreePlan(p) => FreePlan(p)'
    BY <2>1, <1>2, <1>5, <1>11, <1>12 DEF FreePlan
  <2> QED
    BY <2>2, <2>3
<1>16. AdriftInv'
  BY <1>2, <1>15 DEF CollectInv, AdriftInv
<1>17. ASSUME NEW c \in Collectors
       PROVE  PassInv(cl[c])'
  <2>1. PassInv(cl[c])
    BY DEF CollectInv
  <2>2. /\ Firm(cl[c])' => Firm(cl[c])
        /\ cl[c].pc # "rest" => cl[c].seen.ver < manifest'.ver
    BY <1>2, <1>5, <1>6, NewVersion, SMTT(30), Z3T(30)
  <2>3. cl[c].pc # "rest" => /\ cl[c].seen.ver <= manifest'.ver
                             /\ cl[c].seen.ver # manifest'.ver
    <3>1. cl[c].seen.ver \in Nat /\ manifest'.ver \in Nat
      BY <1>6 DEF CollectInv, TypeInv, Passes, Manifests
    <3> QED
      BY <2>2, <3>1, Smaller
  <2> QED
    BY <2>1, <2>2, <2>3, <1>2, <1>15 DEF PassInv
<1> QED
  BY <1>7, <1>13, <1>14, <1>16, <1>17, SMTT(30), Z3T(30) DEF CollectInv

-----------------------------------------------------------------------------
(* Time, and the theorems *)

\* Time makes fewer things retained; uploads are waited for.
LEMMA TickStep == CollectInv /\ Tick => CollectInv'
<1> SUFFICES ASSUME CollectInv, Tick PROVE CollectInv'
  BY SMTT(30), Z3T(30)
<1>1. /\ now \in Nat /\ now' = now + 1 /\ InTime
      /\ UNCHANGED <<manifest, wal, log, ckpts, snaps, push, folds, point, reused,
                     rewritten, cl, adrift>>
  BY DEF Tick, CollectInv, TypeInv, storeVars, writerVars, historyVars
<1>2. \A t \in Nat : Retained(t)' => Retained(t)
  BY <1>1, CollectionAssumption, SMTT(30), Z3T(30) DEF Retained
<1>3. TypeInv'
  <2>1. now' \in Nat
    BY <1>1, SMTT(30), Z3T(30)
  <2> QED
    BY <1>1, <2>1 DEF CollectInv, TypeInv
<1>4. OrderInv'
  <2>1. \A w \in push \cup folds \cup point : w.at \in Nat
    BY DEF CollectInv, TypeInv, OrderInv, Checkpoints
  <2>2. \A w \in push \cup folds \cup point : w.at <= now' /\ Retained(w.at)'
    <3>1. \A w \in push \cup folds \cup point : w.at <= now /\ now + 1 - w.at < Retention
      BY <1>1 DEF InTime, CollectInv, OrderInv
    <3> QED
      BY <1>1, <2>1, <3>1, RetainedStill
  <2>3. /\ \A e \in log : e.seq <= manifest.head /\ e.at <= now'
        /\ \A k \in ckpts : k.at <= now'
    BY <1>1, Successor DEF CollectInv, TypeInv, OrderInv, Entries, Checkpoints
  <2> QED
    BY <1>1, <2>2, <2>3 DEF CollectInv, OrderInv
<1>5. \A u, t : Claimed(u, t)' => Claimed(u, t)
  <2>1. /\ \A e \in log : Retained(e.at)' => Retained(e.at)
        /\ \A k \in ckpts : Retained(k.at)' => Retained(k.at)
    BY <1>2 DEF CollectInv, TypeInv, Entries, Checkpoints
  <2> QED
    BY <1>1, <2>1, SMTT(30), Z3T(30) DEF Claimed
<1>6. /\ Listed' = Listed
      /\ \A u : Rooted(u)' <=> Rooted(u)
      /\ \A u, t : Safe(u, t)' <=> Safe(u, t)
  BY <1>1, SMTT(30), Z3T(30) DEF Listed, Rooted, Safe
<1>7. \A u : Needed(u)' => Needed(u)
  BY <1>5, <1>6 DEF Needed
<1>8. \A k \in ckpts : KeptCheckpoint(k)' => KeptCheckpoint(k)
  BY <1>1, <1>2, SMTT(30), Z3T(30) DEF KeptCheckpoint, CollectInv, TypeInv, Checkpoints
<1>9. ClaimsInv'
  BY <1>5, <1>6, SMTT(30), Z3T(30) DEF CollectInv, ClaimsInv
<1>10. RootsInv'
  BY <1>1, <1>6, <1>8 DEF CollectInv, RootsInv
<1>11. ASSUME NEW p \in Plans
       PROVE  (OldPlan(p) => OldPlan(p)') /\ (FreePlan(p) => FreePlan(p)')
  <2>1. OldPlan(p) => OldPlan(p)'
    BY <1>1, <1>2 DEF OldPlan, Plans, Entries, Checkpoints
  <2>2. FreePlan(p) => FreePlan(p)'
    BY <1>1, <1>7, <1>8 DEF FreePlan
  <2> QED
    BY <2>1, <2>2
<1>12. AdriftInv'
  BY <1>1, <1>11 DEF CollectInv, TypeInv, AdriftInv
<1>13. ASSUME NEW c \in Collectors
       PROVE  PassInv(cl[c])'
  <2>1. PassInv(cl[c]) /\ (Firm(cl[c])' <=> Firm(cl[c])) /\ cl[c] \in Passes
    BY <1>1 DEF CollectInv, TypeInv, Firm
  <2>2. cl[c].plan \in Plans
    BY <2>1 DEF Passes
  <2> QED
    BY <1>1, <2>1, <2>2, <1>11 DEF PassInv
<1> QED
  BY <1>3, <1>4, <1>9, <1>10, <1>12, <1>13 DEF CollectInv

\* Every step of a collector.
LEMMA CollectorStep ==
  ASSUME CollectInv, NEW c \in Collectors, Collect(c)
  PROVE  CollectInv'
<1>1. CASE Finish(c) \/ RefuseCheckpoint(c) \/ AbandonCollect(c)
  BY <1>1, RestStep DEF Finish, RefuseCheckpoint, AbandonCollect, bucketVars, storeVars,
     writerVars, historyVars
<1>2. CASE LoseAnswers(c)
  <2>1. UNCHANGED <<bucketVars, cl>>
    BY <1>2 DEF LoseAnswers, bucketVars, storeVars, writerVars, historyVars
  <2>2. adrift' \in SUBSET Plans /\ \A p \in adrift' : OldPlan(p) /\ FreePlan(p)
    BY <1>2, DriftOK DEF LoseAnswers
  <2>3. cl' \in [Collectors -> Passes] /\ \A d \in Collectors : PassInv(cl'[d])
    BY <2>1 DEF CollectInv, TypeInv
  <2> QED
    BY <2>1, <2>2, <2>3, PassesStep
<1> QED
  BY <1>1, <1>2, LoadStep, PlanStep, RecheckStep, DeletePackStep, DeleteLogStep,
     HeadCheckpointStep, DeleteCheckpointStep, DeleteSnapshotStep DEF Collect, Delete

\* The invariant holds of a new repository.
LEMMA CollectInit == Init => CollectInv
<1> SUFFICES ASSUME Init PROVE CollectInv
  OBVIOUS
<1>1. TypeInv
  BY RestingOK DEF Init, TypeInv, Manifests
<1>2. OrderInv
  BY DEF Init, OrderInv
<1>3. ClaimsInv
  BY DEF Init, ClaimsInv, Claimed
<1>4. RootsInv
  BY DEF Init, RootsInv, Rooted, Listed
<1>5. \A c \in Collectors : PassInv(cl[c])
  BY RestingOK, SMTT(30), Z3T(30) DEF Init
<1>6. AdriftInv
  BY DEF Init, AdriftInv
<1> QED
  BY <1>1, <1>2, <1>3, <1>4, <1>5, <1>6, SMTT(30), Z3T(30) DEF CollectInv

\* Every step preserves the invariant.
LEMMA CollectNext == CollectInv /\ [Next]_collectVars => CollectInv'
<1>1. CollectInv /\ Write => CollectInv'
  BY UploadPushStep, CommitPushStep, UploadFoldStep, CommitFoldStep, WriteCheckpointStep,
     CommitCheckpointStep, AbandonWriteStep, SMTT(30), Z3T(30) DEF Write
<1>2. CollectInv /\ UNCHANGED collectVars => CollectInv'
  <2> SUFFICES ASSUME CollectInv, UNCHANGED collectVars PROVE CollectInv'
    BY SMTT(30), Z3T(30)
  <2>1. UNCHANGED <<bucketVars, cl, adrift>>
    BY SMTT(30), Z3T(30) DEF collectVars, bucketVars, storeVars, writerVars, historyVars
  <2> QED
    BY <2>1, SameStep, SMTT(30), Z3T(30)
<1> QED
  BY <1>1, <1>2, TickStep, CollectorStep, LandAdriftStep, SMTT(30), Z3T(30) DEF Next

\* What the manifest refers to stays in the bucket, for any number of collectors that
\* plan, recheck and delete (gc.rs) against pushes, compactions and checkpoints.
THEOREM CollectSafe == Spec => []ListedPresent
<1>1. CollectInv /\ [Next]_collectVars => CollectInv'
  BY CollectNext, SMTT(30), Z3T(30)
<1> QED
  BY <1>1, CollectInit, InvSafe, PTL DEF Spec

\* Whatever the retention covers can be restored: no collector takes a pack of a retained
\* entry or one it superseded, nor a retained checkpoint's packs or snapshot (gc.rs).
THEOREM CollectRecoverable == Spec => []RetainedRecoverable
<1>1. CollectInv /\ [Next]_collectVars => CollectInv'
  BY CollectNext, SMTT(30), Z3T(30)
<1> QED
  BY <1>1, CollectInit, InvSafe, PTL DEF Spec

\* The manifest lists the seqs above its checkpoint, and nothing in the bucket is above
\* its head; a checkpoint that is written and not committed is not behind the one that is.
ShapeInv ==
  /\ now <= MaxTime
  /\ manifest.head < manifest.ver /\ manifest.ver <= MaxWrites + 1
  /\ manifest.ckpt <= manifest.head
  /\ manifest.segs = manifest.ckpt + 1 .. manifest.head
  /\ \A e \in log : e.seq \in 1..manifest.head
  /\ \A k \in ckpts : k.seq \in 1..manifest.head
  /\ snaps \subseteq 1..manifest.head
  /\ \A cp \in point : manifest.ckpt <= cp.seq /\ cp.seq \in 1..manifest.head

\* Deletions and writers that give up keep the shape.
LEMMA ShapeLess ==
  ASSUME ShapeInv, UNCHANGED <<now, manifest>>, log' \in SUBSET log, ckpts' \in SUBSET ckpts,
         snaps' \in SUBSET snaps, point' \in SUBSET point
  PROVE  ShapeInv'
  BY DEF ShapeInv

\* An entry is appended at the head.
LEMMA ShapeAppend ==
  ASSUME CollectInv, ShapeInv, NEW kind, NEW id, NEW tier, NEW sup, Append(kind, id, tier, sup),
         UNCHANGED <<now, ckpts, snaps, point>>
  PROVE  ShapeInv'
<1>1. /\ manifest.head \in Nat /\ manifest.ver \in Nat /\ manifest.ckpt \in Nat /\ MaxWrites \in Nat
  BY CollectionAssumption, SMTT(30), Z3T(30) DEF CollectInv, TypeInv, Manifests
<1>2. /\ manifest.ver <= MaxWrites /\ manifest'.ver = manifest.ver + 1
      /\ manifest'.head = manifest.head + 1 /\ manifest'.ckpt = manifest.ckpt
      /\ manifest'.segs = manifest.segs \cup {manifest.head + 1}
  BY DEF Append, CollectInv, TypeInv, Manifests
<1>2a. PICK h \in Nat, v \in Nat, k \in Nat, w \in Nat :
         h = manifest.head /\ v = manifest.ver /\ k = manifest.ckpt /\ w = MaxWrites
  BY <1>1
<1>2b. h < v /\ v <= w /\ k <= h /\ manifest.segs = k + 1 .. h
  BY <1>2, <1>2a DEF ShapeInv
<1>3. /\ manifest'.head < manifest'.ver /\ manifest'.ver <= MaxWrites + 1
      /\ manifest'.ckpt <= manifest'.head
  <2>1. h + 1 < v + 1 /\ v + 1 <= w + 1 /\ k <= h + 1
    BY <1>2b, SMTT(30), Z3T(30)
  <2> QED
    BY <1>2, <1>2a, <2>1
<1>4. manifest'.segs = manifest'.ckpt + 1 .. manifest'.head
  <2>1. (k + 1 .. h) \cup {h + 1} = k + 1 .. h + 1
    BY <1>2b, SMTT(30), Z3T(30)
  <2> QED
    BY <1>2, <1>2a, <1>2b, <2>1
<1>5. 1..manifest.head \subseteq 1..manifest'.head /\ manifest.head + 1 \in 1..manifest'.head
  BY <1>1, <1>2, SMTT(30), Z3T(30)
<1>6. \A e \in log' : e \in log \/ e.seq = manifest.head + 1
  BY SMTT(30), Z3T(30) DEF Append
<1>7. \A e \in log' : e.seq \in 1..manifest'.head
  BY <1>5, <1>6 DEF ShapeInv
<1>8. /\ \A d \in ckpts' : d.seq \in 1..manifest'.head
      /\ snaps' \subseteq 1..manifest'.head
      /\ \A cp \in point' : manifest'.ckpt <= cp.seq /\ cp.seq \in 1..manifest'.head
      /\ now' <= MaxTime
  BY <1>2, <1>5 DEF ShapeInv
<1> QED
  BY <1>3, <1>4, <1>7, <1>8 DEF ShapeInv

\* A checkpoint is written at the head, above the one that is committed.
LEMMA ShapeWrite == CollectInv /\ ShapeInv /\ WriteCheckpoint => ShapeInv'
<1> SUFFICES ASSUME CollectInv, ShapeInv, WriteCheckpoint PROVE ShapeInv'
  BY SMTT(30), Z3T(30)
<1>1. manifest.head \in Nat /\ manifest.ckpt \in Nat /\ manifest.head > manifest.ckpt
  BY DEF CollectInv, TypeInv, Manifests, WriteCheckpoint
<1>2. manifest.head \in 1..manifest.head /\ manifest.ckpt <= manifest.head
  <2>1. PICK h \in Nat, k \in Nat : h = manifest.head /\ k = manifest.ckpt
    BY <1>1
  <2>2. h > k
    BY <1>1, <2>1
  <2>3. h \in 1..h /\ k <= h
    BY <2>2, SMTT(30), Z3T(30)
  <2> QED
    BY <2>1, <2>3
<1>3. /\ UNCHANGED <<now, manifest, log>> /\ snaps' = snaps \cup {manifest.head}
      /\ \A k \in ckpts' : k \in ckpts \/ k.seq = manifest.head
      /\ \A cp \in point' : cp.seq = manifest.head
  <2>1. PICK cp : cp = [seq |-> manifest.head, packs |-> Listed, at |-> now]
    OBVIOUS
  <2>2. cp.seq = manifest.head
    BY <2>1
  <2>3. /\ UNCHANGED <<now, manifest, log>> /\ snaps' = snaps \cup {cp.seq} /\ point' = {cp}
        /\ ckpts' = {k \in ckpts : k.seq # cp.seq} \cup {cp}
    BY <2>1 DEF WriteCheckpoint
  <2> QED
    BY <2>2, <2>3
<1> QED
  BY <1>2, <1>3 DEF ShapeInv

\* A commit of a checkpoint moves the list to what is above it.
LEMMA ShapeCommit == CollectInv /\ ShapeInv /\ CommitCheckpoint => ShapeInv'
<1> SUFFICES ASSUME CollectInv, ShapeInv, CommitCheckpoint PROVE ShapeInv'
  BY SMTT(30), Z3T(30)
<1>1. PICK cp \in point :
        manifest' = [manifest EXCEPT !.ver = @ + 1, !.ckpt = cp.seq,
                                     !.segs = {s \in @ : s > cp.seq}]
  BY DEF CommitCheckpoint
<1>2. /\ manifest.head \in Nat /\ manifest.ver \in Nat /\ manifest.ckpt \in Nat /\ MaxWrites \in Nat
      /\ manifest.ver <= MaxWrites
  BY CollectionAssumption, SMTT(30), Z3T(30) DEF CollectInv, TypeInv, Manifests, CommitCheckpoint
<1>3. cp.seq \in 1..manifest.head /\ manifest.ckpt <= cp.seq
  BY DEF ShapeInv
<1>4. /\ manifest'.ver = manifest.ver + 1 /\ manifest'.head = manifest.head /\ manifest'.ckpt = cp.seq
      /\ manifest'.segs = {s \in manifest.segs : s > cp.seq}
  BY <1>1 DEF CollectInv, TypeInv, Manifests
<1>4c. PICK c : c = cp.seq
  OBVIOUS
<1>4a. PICK h \in Nat, v \in Nat, k \in Nat, w \in Nat :
         h = manifest.head /\ v = manifest.ver /\ k = manifest.ckpt /\ w = MaxWrites
  BY <1>2
<1>4b. h < v /\ v <= w /\ k <= c /\ c \in 1..h /\ manifest.segs = k + 1 .. h
  BY <1>2, <1>3, <1>4a, <1>4c DEF ShapeInv
<1>5. /\ manifest'.head < manifest'.ver /\ manifest'.ver <= MaxWrites + 1
      /\ manifest'.ckpt <= manifest'.head
  <2>1. h < v + 1 /\ v + 1 <= w + 1 /\ c <= h
    BY <1>4b, SMTT(30), Z3T(30)
  <2> QED
    BY <1>4, <1>4a, <1>4c, <2>1
<1>6. manifest'.segs = manifest'.ckpt + 1 .. manifest'.head
  <2>1. {s \in k + 1 .. h : s > c} = c + 1 .. h
    BY <1>4b, SMTT(30), Z3T(30)
  <2> QED
    BY <1>4, <1>4a, <1>4b, <1>4c, <2>1
<1>7. UNCHANGED <<now, log, ckpts, snaps>> /\ point' = {}
  BY DEF CommitCheckpoint, storeVars
<1> QED
  BY <1>4, <1>5, <1>6, <1>7 DEF ShapeInv

\* Every step keeps the shape.
LEMMA ShapeNext == CollectInv /\ ShapeInv /\ [Next]_collectVars => ShapeInv'
<1> SUFFICES ASSUME CollectInv, ShapeInv, [Next]_collectVars PROVE ShapeInv'
  BY SMTT(30), Z3T(30)
<1>1. CASE Tick
  <2>1. now \in Nat /\ MaxTime \in Nat /\ now < MaxTime /\ now' = now + 1
    BY <1>1, CollectionAssumption, SMTT(30), Z3T(30) DEF Tick, CollectInv, TypeInv
  <2>2. now' <= MaxTime
    BY <2>1, SMTT(30), Z3T(30)
  <2>3. UNCHANGED <<manifest, log, ckpts, snaps, point>>
    BY <1>1 DEF Tick, storeVars, writerVars
  <2> QED
    BY <2>2, <2>3 DEF ShapeInv
<1>2. CASE CommitPush \/ CommitFold
  BY <1>2, ShapeAppend DEF CommitPush, CommitFold
<1>3. CASE WriteCheckpoint \/ CommitCheckpoint
  BY <1>3, ShapeWrite, ShapeCommit
<1>4. CASE UNCHANGED collectVars \/ UploadFold \/ \E c \in Contents : UploadPush(c)
  BY <1>4, ShapeLess DEF collectVars, storeVars, writerVars, UploadFold, UploadPush
<1>5. CASE AbandonWrite
  BY <1>5, ShapeLess DEF AbandonWrite, storeVars
<1>6. ASSUME NEW c \in Collectors, Delete(c) PROVE ShapeInv'
  BY <1>6, ShapeLess DEF Delete, DeletePack, DeleteLog, HeadCheckpoint, DeleteCheckpoint,
     RefuseCheckpoint, DeleteSnapshot, storeVars, writerVars
<1>7. ASSUME NEW c \in Collectors,
             \/ Load(c) \/ Plan(c) \/ Recheck(c) \/ Finish(c)
             \/ LoseAnswers(c) \/ AbandonCollect(c)
      PROVE  ShapeInv'
  BY <1>7, ShapeLess DEF Load, Plan, Recheck, Finish, LoseAnswers, AbandonCollect, storeVars,
     writerVars
<1>8. CASE LandAdrift
  BY <1>8, ShapeLess DEF LandAdrift, writerVars
<1> QED
  BY <1>1, <1>2, <1>3, <1>4, <1>5, <1>6, <1>7, <1>8 DEF Next, Write, Collect

\* The variables keep their types and the manifest its shape: the listed segments are
\* those above the checkpoint, and nothing in the bucket is above the head (gc.rs reads
\* what is not listed as garbage).
THEOREM CollectTypes == Spec => []CollectTypeOK
<1>1. Init => ShapeInv
  BY CollectionAssumption, SMTT(30), Z3T(30) DEF Init, ShapeInv
<1>2. CollectInv /\ [Next]_collectVars => CollectInv'
  BY CollectNext, SMTT(30), Z3T(30)
<1>3. CollectInv /\ ShapeInv => CollectTypeOK
  <2> SUFFICES ASSUME CollectInv, ShapeInv PROVE CollectTypeOK
    OBVIOUS
  <2>1. /\ now \in Nat /\ manifest.head \in Nat /\ manifest.ver \in Nat /\ manifest.ckpt \in Nat
        /\ MaxTime \in Nat /\ MaxWrites \in Nat
    BY CollectionAssumption DEF CollectInv, TypeInv, Manifests
  <2>2. now \in 0..MaxTime /\ manifest.head \in 0..MaxWrites /\ manifest.ckpt \in 0..manifest.head
    BY <2>1, SMTT(30), Z3T(30) DEF ShapeInv
  <2>3. wal \subseteq SUBSET Contents /\ Listed \subseteq SUBSET Contents
    <3>1. wal \subseteq Ids /\ \A p \in manifest.packs : p.id \in Ids
      BY DEF CollectInv, TypeInv, Manifests, PackRefs
    <3>2. \A u \in Listed : u \in Ids
      BY <3>1 DEF Listed
    <3>3. wal \subseteq Ids /\ Listed \subseteq Ids
      BY <3>1, <3>2
    <3> QED
      BY <3>3 DEF Ids
  <2>4. /\ \A e \in log : e.at \in 0..now
        /\ \A k \in ckpts : k.at \in 0..now
    BY <2>1, SMTT(30), Z3T(30) DEF CollectInv, TypeInv, OrderInv, Entries, Checkpoints
  <2> QED
    BY <2>2, <2>3, <2>4 DEF ShapeInv, CollectTypeOK
<1> QED
  BY <1>1, <1>2, <1>3, ShapeNext, CollectInit, PTL DEF Spec

\* What is pushed stays listed.
LEMMA ContentStep ==
  ASSUME CollectInv, ContentListed, [Next]_collectVars
  PROVE  ContentListed'
<1>1. manifest \in Manifests
  BY SMTT(30), Z3T(30) DEF CollectInv, TypeInv
<1>2. CASE CommitPush
  <2>1. PICK p \in push : Append("push", p.id, 0, {}) /\ pushed' = pushed \cup p.id
    BY <1>2 DEF CommitPush
  <2>2. p.id \in Listed' /\ \A u \in Listed : u \in Listed'
    BY <1>1, <2>1, AppendListed, SMTT(30), Z3T(30)
  <2> QED
    BY <2>1, <2>2 DEF ContentListed
<1>3. CASE CommitFold
  <2>1. PICK f \in folds : Append("compact", UNION f.old, 1, f.old)
    BY <1>3 DEF CommitFold
  <2>2. UNION f.old \in Listed' /\ \A u \in Listed : u \in Listed' \/ u \in f.old
    BY <1>1, <2>1, AppendListed
  <2>3. pushed' = pushed
    BY <1>3 DEF CommitFold, historyVars
  <2> QED
    BY <2>2, <2>3, SMTT(30), Z3T(30) DEF ContentListed
<1>4. CASE CommitCheckpoint
  <2>1. manifest'.packs = manifest.packs /\ pushed' = pushed
    BY <1>1, <1>4 DEF CommitCheckpoint, historyVars, Manifests
  <2> QED
    BY <2>1, SMTT(30), Z3T(30) DEF ContentListed, Listed
<1>5. ASSUME UNCHANGED <<manifest, pushed>>
      PROVE  ContentListed'
  BY <1>5 DEF ContentListed, Listed
<1>6. CASE Tick \/ UNCHANGED collectVars
  BY <1>5, <1>6, SMTT(30), Z3T(30) DEF Tick, collectVars, writerVars, historyVars
<1>7. CASE Write
  BY <1>2, <1>3, <1>4, <1>5, <1>7 DEF Write, UploadPush, UploadFold,
     WriteCheckpoint, AbandonWrite, historyVars
<1>8. ASSUME NEW c \in Collectors, Collect(c)
      PROVE  ContentListed'
  BY <1>5, <1>8 DEF Collect, Load, Plan, Recheck, Delete, DeletePack, DeleteLog,
     HeadCheckpoint, DeleteCheckpoint, RefuseCheckpoint, DeleteSnapshot, Finish, LoseAnswers,
     AbandonCollect, writerVars, historyVars
<1>9. CASE LandAdrift
  BY <1>5, <1>9 DEF LandAdrift, writerVars, historyVars
<1> QED
  BY <1>6, <1>7, <1>8, <1>9, SMTT(30), Z3T(30) DEF Next

\* No pushed content is lost, however many compactions overlap (publish_compact_impl).
THEOREM NothingLost == Spec => []ContentListed
<1>1. Init => ContentListed
  BY SMTT(30), Z3T(30) DEF Init, ContentListed
<1>2. CollectInv /\ ContentListed /\ [Next]_collectVars => ContentListed'
  BY ContentStep, SMTT(30), Z3T(30)
<1>3. CollectInv /\ [Next]_collectVars => CollectInv'
  BY CollectNext, SMTT(30), Z3T(30)
<1> QED
  BY <1>1, <1>2, <1>3, CollectInit, PTL DEF Spec
=============================================================================
