---------------------------- MODULE EventsBridge ----------------------------
(***************************************************************************)
(* The events bridge of one repository: it follows the log from a durable  *)
(* cursor and posts the ref events of new entries to a webhook.            *)
(*                                                                         *)
(* catch_up reads the manifest, then the cursor, then the log (under a     *)
(* manifest it reads again), delivers the batch in one POST and writes the *)
(* cursor under the version it read.  Between any two of these the         *)
(* repository moves on and another bridge may run; any of them may fail,   *)
(* a POST or the cursor's PUT after it took effect.  A catch-up starts     *)
(* from a bucket notification, which is sent again until it succeeds, or   *)
(* from the sweep over pending markers and cached repositories.            *)
(*                                                                         *)
(* The manifest a bridge reads is current (freshness_ttl = 0, the          *)
(* default).  An event stands for all ref updates of an entry.             *)
(***************************************************************************)
EXTENDS RepoFeed

CONSTANTS Bridges,     \* instances with the events role
          MaxHead,     \* bound: entries
          MaxFailures    \* bound: failed catch-ups

ASSUME BridgeAssumption == MaxHead \in Nat /\ MaxFailures \in Nat

VARIABLES cursor,      \* events/cursor.json: [seq, ver], ver = 0 when it is absent
          notified,    \* a notification of a manifest PUT is to be delivered
          cached,      \* the bridges whose registry holds the repository
          br,          \* catch_up of each bridge
          delivered,   \* history: the events the webhook has received
          counted,     \* history: the seqs counted as a gap
          cold,        \* history: the seqs below a start without a cursor
          overtaken,   \* history: the seqs folded between a catch-up's look at the
                       \* manifest and its read of the log
          failures       \* failed catch-ups so far

bridgeVars == <<cursor, notified, cached, br, delivered, counted, cold, overtaken>>
eventVars == <<feedVars, bridgeVars, failures>>

Idle == [pc |-> "idle", note |-> FALSE, head |-> 0, ckpt |-> 0, from |-> 0, ver |-> 0,
         batch |-> {}]

EventsInit ==
  /\ FeedInit
  /\ cursor = [seq |-> 0, ver |-> 0]
  /\ notified = FALSE
  /\ cached = {}
  /\ br = [b \in Bridges |-> Idle]
  /\ delivered = {} /\ counted = {} /\ cold = {} /\ overtaken = {}
  /\ failures = 0

-----------------------------------------------------------------------------
(* The repository.  Every manifest PUT is notified. *)

ManifestWritten ==
  /\ CommitTxn \/ CommitCompact \/ Fold
  /\ head' <= MaxHead
  /\ notified' = TRUE
  /\ UNCHANGED <<cursor, cached, br, delivered, counted, cold, overtaken, failures>>

MarkerMoves ==
  /\ SetMark \/ ClearMark
  /\ UNCHANGED <<bridgeVars, failures>>

-----------------------------------------------------------------------------
(* catch_up *)

\* The lock, open and sync_refs; the manifest is copied and the guard dropped.
StartCatchUp(b, note) ==
  /\ br[b].pc = "idle"
  /\ br' = [br EXCEPT ![b] = [Idle EXCEPT !.pc = "cursor", !.note = note,
                                          !.head = head, !.ckpt = ckpt]]
  /\ cached' = cached \cup {b}
  /\ UNCHANGED <<feedVars, cursor, delivered, counted, cold, overtaken, failures>>

\* object_finalized.
Notify(b) ==
  /\ notified
  /\ notified' = FALSE
  /\ StartCatchUp(b, TRUE)

Sweep(b) ==
  /\ marked \/ b \in cached
  /\ StartCatchUp(b, FALSE)
  /\ UNCHANGED notified

Return(b) == br' = [br EXCEPT ![b] = Idle]

\* Without a cursor the bridge starts at the checkpoint; a cursor below the
\* checkpoint is a gap, and is counted.  Equal cursor and head need no write.
ReadCursor(b) ==
  LET c == br[b]
      absent == cursor.ver = 0
      from == IF absent \/ cursor.seq < c.ckpt THEN c.ckpt ELSE cursor.seq
      step == IF c.head > from THEN "read" ELSE "write"
  IN  /\ c.pc = "cursor"
      /\ counted' = IF absent THEN counted ELSE counted \cup (cursor.seq + 1 .. from)
      /\ cold' = IF absent THEN cold \cup (1..from) ELSE cold
      /\ IF ~absent /\ cursor.seq = c.head
         THEN Return(b)
         ELSE br' = [br EXCEPT ![b].pc = step, ![b].from = from, ![b].ver = cursor.ver]
      /\ UNCHANGED <<feedVars, cursor, notified, cached, delivered, overtaken, failures>>

\* Mutant of Readable: starts one entry too late.
ReadableLate(b) == {s \in pushes : br[b].from + 1 < s /\ s <= br[b].head /\ s > ckpt}

\* read_log(from + 1, head) finds what the manifest of this moment still lists.
Readable(b) == {s \in pushes : br[b].from < s /\ s <= br[b].head /\ s > ckpt}

Folded(b) == {s \in pushes : br[b].from < s /\ s <= br[b].head /\ s <= ckpt}

\* An empty batch is not posted.
ReadLog(b) ==
  /\ br[b].pc = "read"
  /\ overtaken' = overtaken \cup Folded(b)
  /\ br' = [br EXCEPT ![b].batch = Readable(b),
                      ![b].pc = IF Readable(b) = {} THEN "write" ELSE "deliver"]
  /\ UNCHANGED <<feedVars, cursor, notified, cached, delivered, counted, cold, failures>>

Deliver(b) ==
  /\ br[b].pc = "deliver"
  /\ delivered' = delivered \cup br[b].batch
  /\ br' = [br EXCEPT ![b].pc = "write"]
  /\ UNCHANGED <<feedVars, cursor, notified, cached, counted, cold, overtaken, failures>>

\* Mutants of PutCursor: the cursor is the next seq, or the head of this moment.
PutCursorNext(b) ==
  cursor' = IF cursor.ver = br[b].ver
            THEN [seq |-> br[b].head + 1, ver |-> cursor.ver + 1] ELSE cursor
PutCursorHead(b) ==
  cursor' = IF cursor.ver = br[b].ver
            THEN [seq |-> head, ver |-> cursor.ver + 1] ELSE cursor

\* A cursor that another bridge wrote since stands.
PutCursor(b) ==
  cursor' = IF cursor.ver = br[b].ver
            THEN [seq |-> br[b].head, ver |-> cursor.ver + 1] ELSE cursor

WriteCursor(b) ==
  /\ br[b].pc = "write"
  /\ PutCursor(b)
  /\ Return(b)
  /\ UNCHANGED <<feedVars, notified, cached, delivered, counted, cold, overtaken, failures>>

\* Mutant of Fail: the notification counts as delivered.
FailForgetting(b) ==
  /\ br[b].pc # "idle"
  /\ failures < MaxFailures
  /\ failures' = failures + 1
  /\ Return(b)
  /\ UNCHANGED <<feedVars, cursor, notified, cached, delivered, counted, cold, overtaken>>

\* catch_up returns an error or its process dies, possibly after the POST or the
\* PUT it was waiting for took effect.  The notification is sent again.
Fail(b) ==
  /\ br[b].pc # "idle"
  /\ failures < MaxFailures
  /\ failures' = failures + 1
  /\ \/ UNCHANGED <<delivered, cursor>>
     \/ br[b].pc = "deliver" /\ delivered' = delivered \cup br[b].batch /\ UNCHANGED cursor
     \/ br[b].pc = "write" /\ PutCursor(b) /\ UNCHANGED delivered
  /\ notified' = (notified \/ br[b].note)
  /\ cached' \in {cached, cached \ {b}}
  /\ Return(b)
  /\ UNCHANGED <<feedVars, counted, cold, overtaken>>

\* The registry evicts the repository.  An eviction under a catch-up, which keeps
\* its handle, shows only when that one has ended.
Evict(b) ==
  /\ b \in cached /\ br[b].pc = "idle"
  /\ cached' = cached \ {b}
  /\ UNCHANGED <<feedVars, cursor, notified, br, delivered, counted, cold, overtaken, failures>>

CatchUp(b) == ReadCursor(b) \/ ReadLog(b) \/ Deliver(b) \/ WriteCursor(b)

EventsNext ==
  \/ ManifestWritten \/ MarkerMoves
  \/ \E b \in Bridges : Notify(b) \/ Sweep(b) \/ CatchUp(b) \/ Fail(b) \/ Evict(b)

EventsSpec == EventsInit /\ [][EventsNext]_eventVars

\* A notification is delivered in the end, and a catch-up that runs goes on.
Fairness ==
  /\ WF_eventVars(\E b \in Bridges : Notify(b))
  /\ \A b \in Bridges : WF_eventVars(CatchUp(b))

FairSpec == EventsSpec /\ Fairness

-----------------------------------------------------------------------------
(* Properties *)

CatchUps == [pc : {"idle", "cursor", "read", "deliver", "write"}, note : BOOLEAN,
             head : Nat, ckpt : Nat, from : Nat, ver : Nat, batch : SUBSET Nat]

\* The variables have their types, and only folded entries are given up.
EventsTypeOK ==
  /\ head \in Nat /\ ckpt \in 0..head /\ pushes \subseteq 1..head /\ marked \in BOOLEAN
  /\ cursor \in [seq : 0..head, ver : Nat]
  /\ notified \in BOOLEAN /\ cached \subseteq Bridges
  /\ br \in [Bridges -> CatchUps]
  /\ delivered \subseteq pushes
  /\ counted \cup cold \cup overtaken \subseteq 0..ckpt
  /\ failures \in Nat

\* What the cursor has passed and the log still lists was delivered: neither a failed
\* POST, a lost cursor write, a second bridge nor a checkpoint under a catch-up makes
\* the bridge skip an entry that it could still read (catch_up moves the cursor after
\* publish, and only to the head of the manifest it looked at).
WindowDelivered ==
  \A s \in pushes : cursor.ver # 0 /\ ckpt < s /\ s <= cursor.seq => s \in delivered

\* Delivered, counted as a gap, or below the start of a bridge that had no cursor.
Accounted == delivered \cup counted \cup cold

\* What the cursor has passed was delivered or counted as a gap ("counted and warned,
\* never silently repaired", EVENTS.md), but for what lies below the start of a bridge
\* without a cursor.  It holds where no checkpoint is committed between catch_up's look
\* at the manifest and read_log's (Settled).
GapsCounted ==
  \A s \in pushes : cursor.ver # 0 /\ s <= cursor.seq => s \in Accounted

Settled == \A b \in Bridges : ReadLog(b) => Folded(b) = {}

Known == Accounted \cup overtaken

\* The webhook learns of an entry only when every earlier one was delivered, with it at
\* the latest, or was folded before the bridge could read it: counted as a gap, below
\* its start, or under a running catch-up (EVENTS.md: "Order: by seq per repo").
DeliveredInOrder ==
  \A s \in delivered, t \in pushes : t < s => t \in Known

\* Every push is delivered in the end, or folded (notify retries until catch_up
\* succeeds).
EventuallyPublished ==
  \A s \in 1..MaxHead : s \in pushes ~> s \in delivered \/ s <= ckpt
=============================================================================
