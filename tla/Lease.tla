------------------------------- MODULE Lease --------------------------------
(***************************************************************************)
(* A lease in the bucket (coord.rs): one object under leases/, created     *)
(* when it is absent, taken over once it is expired, extended by           *)
(* heartbeats, deleted by its holder.                                      *)
(*                                                                         *)
(* Every instance has its own clock, Offset[p] away from true time.        *)
(* try_acquire reads its clock first, then the object, and writes later;   *)
(* a write may take effect although its answer is an error.                *)
(*                                                                         *)
(* S3 has no conditional delete: release asks for the version with a HEAD  *)
(* and then sends a DELETE that removes whatever is there when it lands.   *)
(* An answer that is lost makes it send the DELETE again.  So the lease of *)
(* a successor may be removed, a race that s3.rs names; robbed and gone    *)
(* are history, and say to whom and by which DELETE that has happened.     *)
(***************************************************************************)
EXTENDS Integers

CONSTANTS Holders,     \* instances that want the lease
          Nobody,      \* the holder of an absent lease
          Offset,      \* how far each clock is off
          Ttl,         \* compaction.lease_ttl
          Tolerance,   \* LEASE_SKEW_TOLERANCE
          MaxTime,     \* bound: the last instant
          MaxWrites    \* bound: writes of the object

ASSUME LeaseAssumption ==
  /\ Nobody \notin Holders
  /\ Offset \in [Holders -> Int]
  /\ \A p, q \in Holders : Offset[p] - Offset[q] <= Tolerance
  /\ Ttl \in Nat /\ Tolerance \in Nat /\ MaxTime \in Nat /\ MaxWrites \in Nat

VARIABLES now,      \* true time
          lease,    \* the object: [ver, holder, expires], ver = 0 when it is absent
          nver,     \* the next version the store gives out
          guard,    \* try_acquire and LeaseGuard of each instance
          dels,     \* DELETEs that may still land: sender, version the HEAD found,
                    \* expiry of that lease, whether a DELETE has removed it by now
          robbed    \* holders whose guard outlived a DELETE of their lease

leaseVars == <<now, lease, nver, guard, dels, robbed>>

Absent == [ver |-> 0, holder |-> Nobody, expires |-> 0]

\* pc "clock" and "read" are inside try_acquire, before the GET and before the PUT;
\* with "held" a LeaseGuard exists.
NoGuard == [pc |-> "none", at |-> 0, ver |-> 0, expires |-> 0]

Clock(p) == now + Offset[p]

LeaseInit ==
  /\ now = 0
  /\ lease = Absent
  /\ nver = 1
  /\ guard = [p \in Holders |-> NoGuard]
  /\ dels = {}
  /\ robbed = {}

Tick ==
  /\ now < MaxTime
  /\ now' = now + 1
  /\ UNCHANGED <<lease, nver, guard, dels, robbed>>

\* The clock is read before the object.
ReadClock(p) ==
  /\ guard[p].pc = "none"
  /\ guard' = [guard EXCEPT ![p] = [NoGuard EXCEPT !.pc = "clock", !.at = Clock(p)]]
  /\ UNCHANGED <<now, lease, nver, dels, robbed>>

\* Mutant of ReadLease: steals as soon as the lease is expired by its own clock.
ReadLeaseIntolerant(p) ==
  /\ guard[p].pc = "clock"
  /\ guard' = [guard EXCEPT ![p] =
       IF lease.ver = 0 \/ guard[p].at >= lease.expires
       THEN [@ EXCEPT !.pc = "read", !.ver = lease.ver]
       ELSE NoGuard]
  /\ UNCHANGED <<now, lease, nver, dels, robbed>>

\* A lease that is not expired for long enough is left to its holder.
ReadLease(p) ==
  /\ guard[p].pc = "clock"
  /\ guard' = [guard EXCEPT ![p] =
       IF lease.ver = 0 \/ guard[p].at >= lease.expires + Tolerance
       THEN [@ EXCEPT !.pc = "read", !.ver = lease.ver]
       ELSE NoGuard]
  /\ UNCHANGED <<now, lease, nver, dels, robbed>>

\* Mutant of Write: the object keeps a version that was given out before.
WriteSameVersion(p, at) ==
  /\ nver <= MaxWrites
  /\ lease.ver = guard[p].ver
  /\ lease' = [ver |-> nver, holder |-> p, expires |-> at + Ttl]
  /\ nver' = nver

\* The conditional PUT takes effect: Create, or Update of the version p saw.
Write(p, at) ==
  /\ nver <= MaxWrites
  /\ lease.ver = guard[p].ver
  /\ lease' = [ver |-> nver, holder |-> p, expires |-> at + Ttl]
  /\ nver' = nver + 1

Held(p, at) ==
  guard' = [guard EXCEPT ![p] = [pc |-> "held", at |-> at, ver |-> nver, expires |-> at + Ttl]]

Forget(p) ==
  /\ guard' = [guard EXCEPT ![p] = NoGuard]
  /\ robbed' = robbed \ {p}

\* The PUT of try_acquire: it succeeds, is refused, or fails, then with or
\* without effect.
TryAcquire(p) ==
  /\ guard[p].pc = "read"
  /\ \/ Write(p, guard[p].at) /\ Held(p, guard[p].at) /\ UNCHANGED robbed
     \/ Write(p, guard[p].at) /\ Forget(p)
     \/ Forget(p) /\ UNCHANGED <<lease, nver>>
  /\ UNCHANGED <<now, dels>>

\* An error keeps the guard as it was, and the next heartbeat or release has the
\* old version; a refusal means the lease is lost.
Heartbeat(p) ==
  /\ guard[p].pc = "held"
  /\ Clock(p) > guard[p].at
  /\ \/ Write(p, Clock(p)) /\ Held(p, Clock(p)) /\ UNCHANGED robbed
     \/ Write(p, Clock(p)) /\ UNCHANGED <<guard, robbed>>
     \/ lease.ver # guard[p].ver /\ Forget(p) /\ UNCHANGED <<lease, nver>>
  /\ UNCHANGED <<now, dels>>

\* The DELETE that p sends once the HEAD has answered.
DeleteBy(p) ==
  [from |-> p, ver |-> lease.ver, expires |-> guard[p].expires, gone |-> FALSE]

\* Mutant of Release: whatever the HEAD finds is deleted.
ReleaseAnyVersion(p) ==
  /\ guard[p].pc = "held"
  /\ dels' = IF lease.ver # 0 THEN dels \cup {DeleteBy(p)} ELSE dels
  /\ Forget(p)
  /\ UNCHANGED <<now, lease, nver>>

\* release, or the best-effort one of Drop, up to the HEAD: a DELETE follows only
\* when the object has the version p wrote.
Release(p) ==
  /\ guard[p].pc = "held"
  /\ dels' = IF lease.ver = guard[p].ver THEN dels \cup {DeleteBy(p)} ELSE dels
  /\ Forget(p)
  /\ UNCHANGED <<now, lease, nver>>

\* A DELETE lands, whatever the object is by now.  Its answer may be lost, and it
\* is sent again: it may land any number of times, and after p has died.
LandDelete(d) ==
  /\ lease' = Absent
  /\ robbed' = robbed \cup {p \in Holders : guard[p].pc = "held" /\ lease.holder = p}
  /\ dels' = {[e EXCEPT !.gone = @ \/ lease.ver = e.ver] : e \in dels}
  /\ UNCHANGED <<now, nver, guard>>

\* The process dies, or the release fails: the object stays.
Crash(p) ==
  /\ guard[p].pc # "none"
  /\ Forget(p)
  /\ UNCHANGED <<now, lease, nver, dels>>

Step(p) == ReadClock(p) \/ ReadLease(p) \/ TryAcquire(p)

LeaseNext == \/ Tick
             \/ \E p \in Holders : Step(p) \/ Heartbeat(p) \/ Release(p) \/ Crash(p)
             \/ \E d \in dels : LandDelete(d)

LeaseSpec == LeaseInit /\ [][LeaseNext]_leaseVars

-----------------------------------------------------------------------------
(* Properties *)

Deletes == [from : Holders, ver : Nat, expires : Int, gone : BOOLEAN]

Guards == [pc : {"none", "clock", "read", "held"}, at : Int, ver : Nat, expires : Int]

\* The variables have their types, and no version is given out twice.
LeaseTypeOK ==
  /\ now \in Nat /\ nver \in Nat \ {0}
  /\ lease \in [ver : Nat, holder : Holders \cup {Nobody}, expires : Int]
  /\ guard \in [Holders -> Guards]
  /\ dels \subseteq Deletes /\ robbed \subseteq Holders
  /\ lease.ver < nver

\* p holds a lease that is valid by its own clock.
Valid(p) == guard[p].pc = "held" /\ Clock(p) < guard[p].expires

\* While a holder's lease is valid by the holder's own clock, nobody else has a
\* valid one, whatever writes failed or took effect late, as long as no two
\* clocks differ by more than LEASE_SKEW_TOLERANCE (try_acquire steals only past
\* it).  Only a DELETE that landed on the lease of another can break this, and
\* only for the holder whose lease it removed.
OneHolder ==
  \A p, q \in Holders \ robbed : Valid(p) /\ Valid(q) => p = q

\* d lands late: its lease has been deleted before, or ran out by its sender's clock.
Late(d) == d.gone \/ Clock(d.from) >= d.expires

\* A lease changes hands only when it is absent or expired by its holder's clock
\* (try_acquire, release).  A valid one is taken away in one way only, the race of
\* S3's delete: by a DELETE whose HEAD found an earlier lease, and that lands
\* after that lease was deleted or had run out.  No DELETE under way is for it.
NotRippedAway ==
  [][\A p \in Holders : Valid(p) /\ lease.holder = p /\ lease' # lease
       => \/ lease'.holder = p
          \/ /\ lease' = Absent /\ dels # {}
             /\ \A d \in dels : Late(d) /\ d.ver < lease.ver]_leaseVars
=============================================================================
