------------------------- MODULE MaintenanceProofs --------------------------
(***************************************************************************)
(* Maintenance and the lease it works under, for any number of maintainers *)
(* and pushes.  To those who follow the log maintenance is invisible, no   *)
(* marker is deleted that stands for a push no plan has seen unless it was *)
(* put when its deletion was decided, and nothing that entries make due is *)
(* left when the marker is gone.  Of the instances whose lease was not     *)
(* deleted under them by a late DELETE at most one holds a lease that is   *)
(* valid by its own clock, for any TTL and clocks at most                  *)
(* LEASE_SKEW_TOLERANCE apart; where no DELETE is late, of all instances.  *)
(***************************************************************************)
EXTENDS Lease, Maintainer, FiniteSetTheorems, WellFoundedInduction, TLAPS

\* A step that names no prover is for Zenon.  Where SMT is named, Z3 is a second attempt.
USE ZenonT(40)

-----------------------------------------------------------------------------
(* Leases *)

\* What an instance goes by: the clock it read is past, an expired lease it saw
\* is still the object unless the version moved on, and its own version is its own.
GuardOK(p) ==
  /\ guard[p].ver < nver
  /\ guard[p].pc # "none" => guard[p].at <= Clock(p)
  /\ guard[p].pc = "read" /\ lease.ver # 0 /\ guard[p].ver = lease.ver
       => guard[p].at >= lease.expires + Tolerance
  /\ guard[p].pc = "held"
       => /\ guard[p].ver # 0
          /\ guard[p].expires = guard[p].at + Ttl
          /\ guard[p].ver = lease.ver => lease.holder = p /\ lease.expires = guard[p].expires

\* A valid lease is the object's unless it was deleted under its holder: OneHolder
\* is not inductive without it.
ValidOwned(p) ==
  Valid(p) /\ p \notin robbed
    => lease.ver # 0 /\ lease.holder = p /\ guard[p].expires <= lease.expires

\* A holder that was robbed cannot write the object any more.
RobbedOK(p) ==
  p \in robbed => guard[p].pc = "held" /\ lease.holder # p /\ guard[p].ver # lease.ver

\* A DELETE is for a lease that its sender has let go, and unless it is late that
\* lease is still the object: nobody could take it over so far.
DeleteOK(d) ==
  /\ 0 < d.ver /\ d.ver < nver
  /\ lease.ver # 0 => d.ver <= lease.ver
  /\ lease.ver = d.ver => /\ lease.holder = d.from /\ lease.expires = d.expires
                          /\ guard[d.from].pc # "held"
  /\ ~Late(d) => lease.ver = d.ver

LeaseInv == /\ LeaseTypeOK
            /\ \A p \in Holders : GuardOK(p) /\ ValidOwned(p) /\ RobbedOK(p)
            /\ \A d \in dels : DeleteOK(d)

\* The invariant holds without a lease object.
LEMMA LeaseInitial == LeaseInit => LeaseInv
<1> SUFFICES ASSUME LeaseInit PROVE LeaseInv
  BY SMTT(30), Z3T(30)
<1>1. LeaseTypeOK
  BY SMTT(30), Z3T(30) DEF LeaseInit, LeaseTypeOK, Absent, NoGuard, Guards
<1>2. ASSUME NEW p \in Holders PROVE GuardOK(p) /\ ValidOwned(p) /\ RobbedOK(p)
  BY SMTT(30), Z3T(30) DEF LeaseInit, NoGuard, GuardOK, ValidOwned, RobbedOK, Valid
<1> QED
  BY <1>1, <1>2, SMTT(30), Z3T(30) DEF LeaseInv, LeaseInit

\* An instance that may write has seen every other guard expire: the one it
\* overwrites expired LEASE_SKEW_TOLERANCE ago by the writer's clock.
LEMMA WriterAlone ==
  ASSUME LeaseInv, NEW p \in Holders, lease.ver = guard[p].ver,
         guard[p].pc \in {"read", "held"}, NEW q \in Holders \ robbed, q # p
  PROVE  ~Valid(q)
<1> SUFFICES ASSUME Valid(q) PROVE FALSE
  BY SMTT(30), Z3T(30)
<1>1. lease.ver # 0 /\ lease.holder = q /\ guard[q].expires <= lease.expires
  BY SMTT(30), Z3T(30) DEF LeaseInv, ValidOwned
<1>2. guard[p].pc = "read"
  BY <1>1, SMTT(30), Z3T(30) DEF LeaseInv, GuardOK
<1>3. guard[p].at >= lease.expires + Tolerance /\ guard[p].at <= Clock(p)
  BY <1>1, <1>2, SMTT(30), Z3T(30) DEF LeaseInv, GuardOK
<1>4. /\ Offset[p] - Offset[q] <= Tolerance
      /\ Offset[p] \in Int /\ Offset[q] \in Int /\ Tolerance \in Nat
  BY LeaseAssumption, SMTT(30), Z3T(30)
<1>5. /\ now \in Nat /\ lease.expires \in Int
      /\ guard[p].at \in Int /\ guard[q].expires \in Int
  BY SMTT(30), Z3T(30) DEF LeaseInv, LeaseTypeOK, Guards
<1> QED
  BY <1>1, <1>3, <1>4, <1>5, SMTT(30), Z3T(30) DEF Valid, Clock

\* A write by p that leaves a guard for p, or none.
LEMMA WriteKeeps ==
  ASSUME LeaseInv, NEW p \in Holders, NEW at \in Int, Write(p, at), at <= Clock(p),
         guard[p].pc \in {"read", "held"}, now' = now, dels' = dels,
         \/ Held(p, at) /\ robbed' = robbed
         \/ Forget(p)
         \/ guard' = guard /\ robbed' = robbed /\ guard[p].pc = "held" /\ guard[p].at <= at
  PROVE  LeaseInv'
<1>1. /\ lease.ver = guard[p].ver /\ nver \in Nat \ {0} /\ nver' = nver + 1
      /\ lease' = [ver |-> nver, holder |-> p, expires |-> at + Ttl]
      /\ lease.ver < nver /\ Ttl \in Nat /\ lease.ver \in Nat
  BY LeaseAssumption, SMTT(30), Z3T(30) DEF Write, LeaseInv, LeaseTypeOK
<1>2. guard \in [Holders -> Guards] /\ guard' \in [Holders -> Guards]
  BY <1>1, SMTT(30), Z3T(30) DEF LeaseInv, LeaseTypeOK, Held, Forget, NoGuard, Guards
<1>3. /\ robbed' \subseteq robbed /\ robbed \subseteq Holders /\ dels \subseteq Deletes
      /\ p \notin robbed /\ \A q \in Holders : q # p => (q \in robbed <=> q \in robbed')
  <2>1. RobbedOK(p) /\ robbed \subseteq Holders /\ dels \subseteq Deletes
    BY SMTT(30), Z3T(30) DEF LeaseInv, LeaseTypeOK
  <2> QED
    BY <1>1, <2>1 DEF RobbedOK, Forget
<1>4. LeaseTypeOK'
  BY <1>1, <1>2, <1>3, SMTT(30), Z3T(30) DEF LeaseInv, LeaseTypeOK
<1>5. ASSUME NEW q \in Holders, q # p PROVE GuardOK(q)' /\ ValidOwned(q)' /\ RobbedOK(q)'
  <2>1. guard'[q] = guard[q] /\ guard[q].ver \in Nat
    BY <1>2, <1>5, SMTT(30), Z3T(30) DEF Held, Forget, Guards
  <2>2. q \notin robbed' => ~Valid(q)'
    BY <1>1, <1>3, <1>5, <2>1, WriterAlone, SMTT(30), Z3T(30) DEF Valid, Clock
  <2>3. GuardOK(q) /\ RobbedOK(q)
    BY SMTT(30), Z3T(30) DEF LeaseInv
  <2>4. GuardOK(q)' /\ ValidOwned(q)'
    BY <1>1, <2>1, <2>2, <2>3, SMTT(30), Z3T(30) DEF GuardOK, ValidOwned, Clock
  <2>5. RobbedOK(q)'
    BY <1>1, <1>3, <1>5, <2>1, <2>3, SMTT(30), Z3T(30) DEF GuardOK, RobbedOK
  <2> QED
    BY <2>4, <2>5
<1>6. GuardOK(p)' /\ ValidOwned(p)' /\ RobbedOK(p)'
  <2>1. RobbedOK(p)'
    BY <1>3 DEF RobbedOK
  <2>2. CASE Held(p, at)
    <3>1. guard'[p] = [pc |-> "held", at |-> at, ver |-> nver, expires |-> at + Ttl]
      BY <1>2, <2>2, SMTT(30), Z3T(30) DEF Held
    <3> QED
      BY <1>1, <2>1, <3>1, SMTT(30), Z3T(30) DEF GuardOK, ValidOwned, Valid, Clock
  <2>3. CASE Forget(p)
    <3>1. guard'[p] = NoGuard
      BY <1>2, <2>3, SMTT(30), Z3T(30) DEF Forget
    <3> QED
      BY <1>1, <2>1, <3>1, SMTT(30), Z3T(30) DEF GuardOK, ValidOwned, Valid, NoGuard
  <2>4. CASE guard' = guard /\ guard[p].pc = "held" /\ guard[p].at <= at
    <3>1. GuardOK(p) /\ guard[p] \in Guards
      BY <1>2, SMTT(30), Z3T(30) DEF LeaseInv
    <3> QED
      BY <1>1, <2>1, <2>4, <3>1, SMTT(30), Z3T(30) DEF GuardOK, ValidOwned, Clock, Guards
  <2> QED
    BY <2>2, <2>3, <2>4, SMTT(30), Z3T(30)
<1>7. ASSUME NEW d \in dels PROVE DeleteOK(d)'
  <2>1. DeleteOK(d) /\ d \in Deletes /\ GuardOK(p)
    BY <1>3, <1>7, SMTT(30), Z3T(30) DEF LeaseInv
  <2>2. ASSUME ~Late(d) PROVE FALSE
    <3>1. /\ lease.ver = d.ver /\ lease.holder = d.from /\ lease.expires = d.expires
          /\ guard[d.from].pc # "held" /\ lease.ver # 0
      BY <2>1, <2>2, SMTT(30), Z3T(30) DEF DeleteOK, Deletes
    <3>2. guard[p].pc = "read"
      BY <1>1, <2>1, <3>1, SMTT(30), Z3T(30) DEF GuardOK
    <3>3. guard[p].at >= d.expires + Tolerance /\ guard[p].at <= Clock(p)
      BY <1>1, <2>1, <3>1, <3>2, SMTT(30), Z3T(30) DEF GuardOK
    <3>4. /\ Offset[p] - Offset[d.from] <= Tolerance /\ Tolerance \in Nat
          /\ Offset[p] \in Int /\ Offset[d.from] \in Int
      BY <2>1, LeaseAssumption, SMTT(30), Z3T(30) DEF Deletes
    <3>5. now \in Nat /\ guard[p].at \in Int /\ d.expires \in Int
      BY <1>2, <2>1, SMTT(30), Z3T(30) DEF LeaseInv, LeaseTypeOK, Guards, Deletes
    <3> QED
      BY <2>2, <3>3, <3>4, <3>5, SMTT(30), Z3T(30) DEF Late, Clock
  <2>3. Late(d)'
    BY <2>2 DEF Late, Clock
  <2> QED
    BY <1>1, <2>1, <2>3, SMTT(30), Z3T(30) DEF DeleteOK, Deletes
<1> QED
  BY <1>1, <1>4, <1>5, <1>6, <1>7, SMTT(30), Z3T(30) DEF LeaseInv

\* An instance gives up its guard, perhaps after the HEAD of a release has found
\* its lease; the object stays.
LEMMA ForgetKeeps ==
  ASSUME LeaseInv, NEW p \in Holders, Forget(p), now' = now, nver' = nver, lease' = lease,
         \/ dels' = dels
         \/ /\ dels' = dels \cup {DeleteBy(p)}
            /\ guard[p].pc = "held" /\ lease.ver = guard[p].ver
  PROVE  LeaseInv'
<1>1. /\ guard \in [Holders -> Guards] /\ guard' \in [Holders -> Guards] /\ nver \in Nat \ {0}
      /\ lease.ver \in Nat /\ lease.ver < nver /\ robbed \subseteq Holders
  BY SMTT(30), Z3T(30) DEF LeaseInv, LeaseTypeOK, Forget, NoGuard, Guards
<1>2. dels' \subseteq Deletes
  <2>1. DeleteBy(p) \in Deletes /\ dels \subseteq Deletes
    BY <1>1, SMTT(30), Z3T(30) DEF LeaseInv, LeaseTypeOK, Deletes, DeleteBy, Guards
  <2> QED
    BY <2>1
<1>3. guard'[p] = NoGuard /\ robbed' = robbed \ {p}
  BY <1>1, SMTT(30), Z3T(30) DEF Forget
<1>4. LeaseTypeOK'
  BY <1>1, <1>2, <1>3, SMTT(30), Z3T(30) DEF LeaseInv, LeaseTypeOK
<1>5. GuardOK(p)' /\ ValidOwned(p)' /\ RobbedOK(p)'
  BY <1>1, <1>3, SMTT(30), Z3T(30) DEF GuardOK, ValidOwned, RobbedOK, Valid, NoGuard
<1>6. ASSUME NEW q \in Holders, q # p PROVE GuardOK(q)' /\ ValidOwned(q)' /\ RobbedOK(q)'
  <2>1. /\ guard'[q] = guard[q] /\ GuardOK(q) /\ ValidOwned(q) /\ RobbedOK(q)
        /\ q \in robbed' <=> q \in robbed
    BY <1>1, <1>3, <1>6 DEF Forget, LeaseInv
  <2> QED
    BY <2>1 DEF GuardOK, ValidOwned, RobbedOK, Valid, Clock
<1>7. ASSUME NEW d \in dels' PROVE DeleteOK(d)'
  <2>1. CASE d \in dels
    <3>1. DeleteOK(d) /\ d.from \in Holders
      BY <1>2, <1>7, <2>1, SMTT(30), Z3T(30) DEF LeaseInv, Deletes
    <3>2. guard[d.from].pc # "held" => guard'[d.from].pc # "held"
      BY <1>1, <3>1, SMTT(30), Z3T(30) DEF Forget, NoGuard
    <3> QED
      BY <3>1, <3>2 DEF DeleteOK, Late, Clock
  <2>2. CASE /\ d = DeleteBy(p)
             /\ guard[p].pc = "held" /\ lease.ver = guard[p].ver
    <3>1. GuardOK(p)
      BY SMTT(30), Z3T(30) DEF LeaseInv
    <3>2. /\ d.from = p /\ d.ver = lease.ver /\ d.expires = guard[p].expires
          /\ lease.holder = p /\ lease.expires = guard[p].expires /\ lease.ver # 0
      BY <2>2, <3>1, SMTT(30), Z3T(30) DEF DeleteBy, GuardOK
    <3> QED
      BY <1>1, <1>3, <3>2, SMTT(30), Z3T(30) DEF DeleteOK, NoGuard
  <2> QED
    BY <1>7, <2>1, <2>2, SMTT(30), Z3T(30)
<1> QED
  BY <1>4, <1>5, <1>6, <1>7, SMTT(30), Z3T(30) DEF LeaseInv

\* A DELETE lands: whoever held what it removed is robbed, and every DELETE sent
\* for that lease is late from here on.
LEMMA LandKeeps ==
  ASSUME LeaseInv, NEW c \in dels, LandDelete(c)
  PROVE  LeaseInv'
<1>1. /\ lease' = Absent /\ now' = now /\ nver' = nver /\ guard' = guard
      /\ robbed' = robbed \cup {p \in Holders : guard[p].pc = "held" /\ lease.holder = p}
      /\ dels' = {[e EXCEPT !.gone = @ \/ lease.ver = e.ver] : e \in dels}
  BY DEF LandDelete
<1>2. LeaseTypeOK'
  <2>1. ASSUME NEW e \in dels PROVE [e EXCEPT !.gone = @ \/ lease.ver = e.ver] \in Deletes
    <3>1. e \in Deletes
      BY <2>1 DEF LeaseInv, LeaseTypeOK
    <3> QED
      BY <3>1 DEF Deletes
  <2>2. dels' \subseteq Deletes
    BY <1>1, <2>1
  <2>3. nver \in Nat \ {0} /\ guard \in [Holders -> Guards] /\ now \in Nat
    BY DEF LeaseInv, LeaseTypeOK
  <2> QED
    BY <1>1, <2>2, <2>3, SMTT(30), Z3T(30) DEF LeaseInv, LeaseTypeOK, Absent
<1>3. ASSUME NEW p \in Holders PROVE GuardOK(p)' /\ ValidOwned(p)' /\ RobbedOK(p)'
  <2>1. GuardOK(p) /\ ValidOwned(p) /\ RobbedOK(p) /\ Nobody \notin Holders
    BY LeaseAssumption DEF LeaseInv
  <2>2. lease'.ver = 0 /\ lease'.holder = Nobody
    BY <1>1 DEF Absent
  <2>3. GuardOK(p)'
    BY <1>1, <2>1, <2>2, SMTT(30), Z3T(30) DEF GuardOK, Clock
  <2>4. Valid(p)' => p \in robbed'
    BY <1>1, <2>1 DEF Valid, ValidOwned, Clock
  <2>5. RobbedOK(p)'
    BY <1>1, <2>1, <2>2, SMTT(30), Z3T(30) DEF RobbedOK, GuardOK
  <2> QED
    BY <2>3, <2>4, <2>5 DEF ValidOwned
<1>4. ASSUME NEW d \in dels' PROVE DeleteOK(d)'
  <2>1. PICK e \in dels : d = [e EXCEPT !.gone = @ \/ lease.ver = e.ver]
    BY <1>1, <1>4
  <2>2. e \in Deletes /\ DeleteOK(e)
    BY <2>1 DEF LeaseInv, LeaseTypeOK
  <2>3. /\ d.from = e.from /\ d.ver = e.ver /\ d.expires = e.expires
        /\ d.gone <=> e.gone \/ lease.ver = e.ver
    BY <2>1, <2>2 DEF Deletes
  <2>4. Late(d)'
    BY <1>1, <2>2, <2>3 DEF DeleteOK, Late, Clock
  <2>5. lease'.ver = 0
    BY <1>1 DEF Absent
  <2> QED
    BY <1>1, <2>2, <2>3, <2>4, <2>5, SMTT(30), Z3T(30) DEF DeleteOK, Deletes
<1> QED
  BY <1>2, <1>3, <1>4 DEF LeaseInv

\* Reading the clock or the object changes the reader's guard only.
LEMMA ReadKeeps ==
  ASSUME LeaseInv, NEW p \in Holders, ReadClock(p) \/ ReadLease(p)
  PROVE  LeaseInv'
<1>1. /\ guard \in [Holders -> Guards] /\ nver \in Nat \ {0} /\ lease.ver < nver
      /\ lease.ver \in Nat /\ lease.expires \in Int /\ now \in Nat /\ Offset[p] \in Int
      /\ Tolerance \in Nat
  BY LeaseAssumption, SMTT(30), Z3T(30) DEF LeaseInv, LeaseTypeOK
<1>2. /\ lease' = lease /\ nver' = nver /\ now' = now /\ dels' = dels /\ robbed' = robbed
      /\ guard[p].pc # "held"
  BY SMTT(30), Z3T(30) DEF ReadClock, ReadLease
<1>3. /\ guard' \in [Holders -> Guards] /\ guard'[p].pc # "held"
      /\ \A q \in Holders : q # p => guard'[q] = guard[q]
  <2>1. NoGuard \in Guards /\ Clock(p) \in Int /\ guard[p] \in Guards
    BY <1>1, SMTT(30), Z3T(30) DEF NoGuard, Guards, Clock
  <2>2. PICK g \in Guards : guard' = [guard EXCEPT ![p] = g] /\ g.pc # "held"
    <3>1. CASE ReadClock(p)
      <4>1. /\ [NoGuard EXCEPT !.pc = "clock", !.at = Clock(p)] \in Guards
            /\ [NoGuard EXCEPT !.pc = "clock", !.at = Clock(p)].pc = "clock"
        BY <2>1 DEF Guards
      <4> QED
        BY <3>1, <4>1 DEF ReadClock
    <3>2. CASE ReadLease(p)
      <4>1. /\ [guard[p] EXCEPT !.pc = "read", !.ver = lease.ver] \in Guards
            /\ [guard[p] EXCEPT !.pc = "read", !.ver = lease.ver].pc = "read"
            /\ NoGuard.pc = "none"
        BY <1>1, <2>1 DEF Guards, NoGuard
      <4> QED
        BY <2>1, <3>2, <4>1 DEF ReadLease
    <3> QED
      BY <3>1, <3>2
  <2> QED
    BY <1>1, <2>2
<1>4. GuardOK(p)' /\ ValidOwned(p)' /\ RobbedOK(p)'
  <2>1. GuardOK(p) /\ RobbedOK(p)
    BY SMTT(30), Z3T(30) DEF LeaseInv
  <2>2. ASSUME ReadClock(p) PROVE GuardOK(p)' /\ ValidOwned(p)'
    BY <1>1, <1>2, <2>2, SMTT(30), Z3T(30) DEF ReadClock, GuardOK, ValidOwned, Valid, Clock, NoGuard
  <2>3. ASSUME ReadLease(p) PROVE GuardOK(p)' /\ ValidOwned(p)'
    <3>1. \/ guard'[p] = NoGuard
          \/ /\ guard'[p].pc = "read" /\ guard'[p].ver = lease.ver
             /\ guard'[p].at = guard[p].at
             /\ lease.ver = 0 \/ guard[p].at >= lease.expires + Tolerance
      BY <1>1, <2>3, SMTT(30), Z3T(30) DEF ReadLease, Guards
    <3>2. guard[p].at <= Clock(p)
      BY <2>1, <2>3 DEF ReadLease, GuardOK
    <3> QED
      BY <1>1, <1>2, <3>1, <3>2, SMTT(30), Z3T(30) DEF GuardOK, ValidOwned, Valid, Clock, NoGuard
  <2>4. RobbedOK(p)'
    BY <1>2, <2>1 DEF RobbedOK
  <2> QED
    BY <2>2, <2>3, <2>4, SMTT(30), Z3T(30)
<1>5. ASSUME NEW q \in Holders, q # p PROVE GuardOK(q)' /\ ValidOwned(q)' /\ RobbedOK(q)'
  BY <1>2, <1>3, <1>5, SMTT(30), Z3T(30) DEF LeaseInv, GuardOK, ValidOwned, RobbedOK, Valid, Clock
<1>6. ASSUME NEW d \in dels PROVE DeleteOK(d)'
  <2>1. DeleteOK(d) /\ d.from \in Holders
    BY <1>6 DEF LeaseInv, LeaseTypeOK, Deletes
  <2>2. guard[d.from].pc # "held" => guard'[d.from].pc # "held"
    BY <1>3, <2>1
  <2> QED
    BY <1>2, <2>1, <2>2 DEF DeleteOK, Late, Clock
<1> QED
  BY <1>2, <1>3, <1>4, <1>5, <1>6, SMTT(30), Z3T(30) DEF LeaseInv, LeaseTypeOK

\* Every step preserves the invariant.
LEMMA LeaseInductive == LeaseInv /\ [LeaseNext]_leaseVars => LeaseInv'
<1> SUFFICES ASSUME LeaseInv, [LeaseNext]_leaseVars PROVE LeaseInv'
  BY SMTT(30), Z3T(30)
<1>1. CASE Tick
  <2>1. /\ now \in Nat /\ now' = now + 1
        /\ lease' = lease /\ nver' = nver /\ guard' = guard
        /\ dels' = dels /\ robbed' = robbed
    BY <1>1, SMTT(30), Z3T(30) DEF Tick, LeaseInv, LeaseTypeOK
  <2>2. ASSUME NEW p \in Holders PROVE GuardOK(p)' /\ ValidOwned(p)' /\ RobbedOK(p)'
    <3>1. /\ guard[p].at \in Int /\ guard[p].expires \in Int
          /\ Offset[p] \in Int /\ GuardOK(p) /\ ValidOwned(p) /\ RobbedOK(p)
      BY LeaseAssumption, SMTT(30), Z3T(30) DEF LeaseInv, LeaseTypeOK, Guards
    <3> QED
      BY <2>1, <3>1, SMTT(30), Z3T(30) DEF GuardOK, ValidOwned, RobbedOK, Valid, Clock
  <2>3. ASSUME NEW d \in dels PROVE DeleteOK(d)'
    <3>1. DeleteOK(d) /\ d.expires \in Int /\ Offset[d.from] \in Int
      BY <2>3, LeaseAssumption, SMTT(30), Z3T(30) DEF LeaseInv, LeaseTypeOK, Deletes
    <3>2. ~Late(d)' => ~Late(d)
      BY <2>1, <3>1, SMTT(30), Z3T(30) DEF Late, Clock
    <3> QED
      BY <2>1, <3>1, <3>2 DEF DeleteOK
  <2> QED
    BY <2>1, <2>2, <2>3, SMTT(30), Z3T(30) DEF LeaseInv, LeaseTypeOK
<1>2. ASSUME NEW p \in Holders, Step(p) PROVE LeaseInv'
  <2>1. CASE ReadClock(p) \/ ReadLease(p)
    BY <2>1, ReadKeeps, SMTT(30), Z3T(30)
  <2>2. CASE TryAcquire(p)
    <3>1. /\ guard[p].pc = "read" /\ guard[p].at \in Int /\ guard[p].at <= Clock(p)
          /\ now' = now /\ dels' = dels
      BY <2>2, SMTT(30), Z3T(30) DEF TryAcquire, LeaseInv, LeaseTypeOK, Guards, GuardOK
    <3> QED
      BY <2>2, <3>1, WriteKeeps, ForgetKeeps, SMTT(30), Z3T(30) DEF TryAcquire
  <2> QED
    BY <1>2, <2>1, <2>2, SMTT(30), Z3T(30) DEF Step
<1>3. ASSUME NEW p \in Holders, Heartbeat(p) PROVE LeaseInv'
  <2>1. /\ guard[p].pc = "held" /\ now' = now /\ dels' = dels
        /\ guard[p].at \in Int /\ Clock(p) \in Int /\ guard[p].at <= Clock(p)
    BY <1>3, LeaseAssumption, SMTT(30), Z3T(30) DEF Heartbeat, LeaseInv, LeaseTypeOK, Guards, GuardOK, Clock
  <2>2. Clock(p) <= Clock(p)
    BY <2>1, SMTT(30), Z3T(30)
  <2> QED
    BY <1>3, <2>1, <2>2, WriteKeeps, ForgetKeeps DEF Heartbeat
<1>4. ASSUME NEW p \in Holders, Release(p) \/ Crash(p) PROVE LeaseInv'
  BY <1>4, ForgetKeeps, SMTT(30), Z3T(30) DEF Release, Crash
<1>5. ASSUME NEW d \in dels, LandDelete(d) PROVE LeaseInv'
  BY <1>5, LandKeeps
<1>6. CASE UNCHANGED leaseVars
  BY <1>6 DEF leaseVars, LeaseInv, LeaseTypeOK, GuardOK, ValidOwned, RobbedOK, DeleteOK, Late, Valid, Clock
<1> QED
  BY <1>1, <1>2, <1>3, <1>4, <1>5, <1>6, SMTT(30), Z3T(30) DEF LeaseNext

\* The lease object and every guard keep their types, and no version is used twice:
\* the next one is above the one in the bucket.
THEOREM LeaseTypes == LeaseSpec => []LeaseTypeOK
<1>1. LeaseInv => LeaseTypeOK
  BY SMTT(30), Z3T(30) DEF LeaseInv
<1> QED
  BY <1>1, LeaseInitial, LeaseInductive, PTL DEF LeaseSpec

\* At most one instance holds a lease that is valid by its own clock, those left
\* aside whose lease a DELETE of another removed (try_acquire, heartbeat and
\* release of coord.rs over the delete of s3.rs).
THEOREM LeaseExclusive == LeaseSpec => []OneHolder
<1>1. LeaseInv => OneHolder
  BY SMTT(30), Z3T(30) DEF LeaseInv, LeaseTypeOK, ValidOwned, OneHolder
<1> QED
  BY <1>1, LeaseInitial, LeaseInductive, PTL DEF LeaseSpec

\* While a lease is valid and in the bucket, every DELETE under way is for an
\* earlier lease and late.
LEMMA OnlyLateDeletes ==
  ASSUME LeaseInv, NEW p \in Holders, guard[p].pc = "held", lease.holder = p, NEW d \in dels
  PROVE  Late(d) /\ (lease.ver # 0 => d.ver < lease.ver)
<1>1. DeleteOK(d) /\ d \in Deletes /\ lease.ver \in Nat
  BY SMTT(30), Z3T(30) DEF LeaseInv, LeaseTypeOK
<1>2. lease.ver # d.ver
  BY <1>1 DEF DeleteOK
<1> QED
  BY <1>1, <1>2, SMTT(30), Z3T(30) DEF DeleteOK, Deletes

\* A lease that its holder's clock still calls valid is not overwritten by another
\* instance, and it is deleted by a late DELETE of an earlier lease only.
THEOREM LeaseKept == LeaseSpec => NotRippedAway
<1> DEFINE StillHeld == \A p \in Holders : Valid(p) /\ lease.holder = p /\ lease' # lease
                     => \/ lease'.holder = p
                        \/ /\ lease' = Absent /\ dels # {}
                           /\ \A d \in dels : Late(d) /\ d.ver < lease.ver
<1>1. LeaseInv /\ [LeaseNext]_leaseVars => [StillHeld]_leaseVars
  <2> SUFFICES ASSUME LeaseInv, LeaseNext, NEW q \in Holders, Valid(q), lease.holder = q,
                      lease' # lease
               PROVE  \/ lease'.holder = q
                      \/ /\ lease' = Absent /\ dels # {}
                         /\ \A d \in dels : Late(d) /\ d.ver < lease.ver
    BY DEF leaseVars
  <2>1. q \notin robbed /\ guard[q].pc = "held" /\ lease.ver # 0
    BY DEF LeaseInv, RobbedOK, ValidOwned, Valid
  <2>2. CASE \E d \in dels : LandDelete(d)
    BY <2>1, <2>2, OnlyLateDeletes DEF LandDelete
  <2>3. CASE \E p \in Holders : Step(p) \/ Heartbeat(p) \/ Release(p) \/ Crash(p)
    <3>1. PICK p \in Holders : Step(p) \/ Heartbeat(p) \/ Release(p) \/ Crash(p)
      BY <2>3
    <3>2. /\ guard[p].pc \in {"read", "held"} /\ lease.ver = guard[p].ver
          /\ lease'.holder = p
      BY <3>1, SMTT(30), Z3T(30) DEF Step, ReadClock, ReadLease, TryAcquire, Heartbeat, Release, Crash, Write
    <3>3. p = q
      BY <2>1, <3>2, WriterAlone
    <3> QED
      BY <3>2, <3>3
  <2> QED
    BY <2>2, <2>3 DEF LeaseNext, Tick
<1> QED
  BY <1>1, LeaseInitial, LeaseInductive, PTL DEF LeaseSpec, NotRippedAway

\* A lease is deleted only while a DELETE that is not late is under way.
Prompt == lease # Absent /\ lease' = Absent => \E d \in dels : ~Late(d)

\* OneHolder without exception.
SoleHolder == \A p, q \in Holders : Valid(p) /\ Valid(q) => p = q

\* Where the DELETEs that take effect are neither repeated nor slower than the
\* lease, nobody is robbed and the lease is exclusive without exception: what
\* s3.rs calls acceptable under leases rests on this.
THEOREM ExclusiveIfPrompt == LeaseSpec /\ [][Prompt]_leaseVars => []SoleHolder
<1> DEFINE Unrobbed == robbed = {}
<1>1. LeaseInit => Unrobbed
  BY DEF LeaseInit
<1>2. LeaseInv /\ Unrobbed /\ [LeaseNext]_leaseVars /\ [Prompt]_leaseVars => Unrobbed'
  <2> SUFFICES ASSUME LeaseInv, robbed = {}, LeaseNext, Prompt PROVE robbed' = {}
    BY DEF leaseVars
  <2>1. CASE \E d \in dels : LandDelete(d)
    <3>1. ASSUME NEW p \in Holders, guard[p].pc = "held", lease.holder = p PROVE FALSE
      <4>1. lease.holder # Nobody
        BY <3>1, LeaseAssumption
      <4>2. lease # Absent /\ lease' = Absent
        <5>1. Absent.holder = Nobody
          BY DEF Absent
        <5> QED
          BY <2>1, <4>1, <5>1 DEF LandDelete
      <4> QED
        BY <3>1, <4>2, OnlyLateDeletes DEF Prompt
    <3> QED
      BY <2>1, <3>1 DEF LandDelete
  <2>2. CASE \E p \in Holders : Step(p) \/ Heartbeat(p) \/ Release(p) \/ Crash(p)
    BY <2>2 DEF Step, ReadClock, ReadLease, TryAcquire, Heartbeat, Release, Crash, Forget
  <2> QED
    BY <2>1, <2>2 DEF LeaseNext, Tick
<1>3. LeaseInv /\ Unrobbed => SoleHolder
  BY DEF LeaseInv, ValidOwned, SoleHolder
<1> HIDE DEF Unrobbed
<1> QED
  BY <1>1, <1>2, <1>3, LeaseInitial, LeaseInductive, PTL DEF LeaseSpec

-----------------------------------------------------------------------------
(* Maintenance *)

-----------------------------------------------------------------------------
(* The invariant: markers, checkpoints under the lease, and the plans that *)
(* found nothing due.  Packs are left open.                                *)

Shaped(mf) == mf \in [head : Nat, ckpt : Nat, packs : {mf.packs}]

PassShaped(q) ==
  /\ q \in [pc : Steps, unit : Units, ckptOnly : BOOLEAN, ran : BOOLEAN, seen : {q.seen}]
  /\ Shaped(q.seen)
  /\ q.pc = "lease" => q.unit = "compact"

Folding(q) == q.pc = "work" /\ q.unit = "checkpoint"

\* A checkpoint that is being written is the only one, so none is committed meanwhile.
FoldOK(m) ==
  Folding(mt[m]) => /\ manifest.ckpt <= mt[m].seen.head /\ mt[m].seen.head <= manifest.head
                    /\ \A o \in Maintainers \ {m} : ~Folding(mt[o])

RepoInv ==
  /\ Shaped(manifest) /\ manifest.ckpt <= manifest.head
  /\ pushes \in SUBSET (1..manifest.head) /\ marking \in SUBSET pushes
  /\ settled \in Nat /\ stray \in SUBSET Nat

MaintainerInv ==
  /\ RepoInv
  /\ mt = [m \in Maintainers |-> mt[m]]
  /\ \A m \in Maintainers : PassShaped(mt[m]) /\ FoldOK(m)

\* Found nothing due, and about to delete the marker.
Idle(q) == q.pc \in {"delete", "sent"}

\* Pushes that count on the marker.
Waiting == pushes \ (marking \cup lost \cup crossed)

\* What an idle plan has seen covers the pushes that count on the marker its DELETE is
\* going to remove, whether or not anybody waits for the DELETE.
IdleOK(m) == Idle(mt[m]) => \A s \in Waiting : s <= mt[m].seen.head
StrayOK == \A h \in stray : \A s \in Waiting : s <= h

PlannedInv ==
  /\ PushesPlanned
  /\ \A m \in Maintainers : IdleOK(m)
  /\ StrayOK

-----------------------------------------------------------------------------
(* Steps *)

\* A maintainer at rest.
LEMMA RestingShaped == RepoInv => PassShaped(Resting) /\ Resting.pc = "rest"
  BY SMTT(30), Z3T(30) DEF RepoInv, PassShaped, Resting, Shaped, NewManifest, Steps, Units

\* A step of m that leaves repository and markers alone, or moves them in a way the
\* other maintainers do not mind.
LEMMA OneMoves ==
  ASSUME MaintainerInv, RepoInv', NEW m \in Maintainers, NEW q,
         mt' = [mt EXCEPT ![m] = q], PassShaped(q),
         manifest'.head >= manifest.head,
         manifest'.ckpt = manifest.ckpt \/ Folding(mt[m]),
         Folding(q) => /\ manifest.ckpt <= q.seen.head /\ q.seen.head <= manifest.head
                       /\ manifest'.ckpt = manifest.ckpt
                       /\ \A o \in Maintainers \ {m} : ~Folding(mt[o])
  PROVE  MaintainerInv'
<1>1. mt'[m] = q /\ \A o \in Maintainers \ {m} : mt'[o] = mt[o]
  BY SMTT(30), Z3T(30) DEF MaintainerInv
<1>2. mt' = [o \in Maintainers |-> mt'[o]]
  BY SMTT(30), Z3T(30) DEF MaintainerInv
<1>3. /\ manifest.head \in Nat /\ manifest.ckpt \in Nat
      /\ manifest'.head \in Nat /\ manifest'.ckpt \in Nat
  BY SMTT(30), Z3T(30) DEF MaintainerInv, RepoInv, Shaped
<1>4. ASSUME NEW o \in Maintainers
      PROVE  PassShaped(mt[o])'
  <2>1. PassShaped(mt'[o])
    BY <1>1, SMTT(30), Z3T(30) DEF MaintainerInv
  <2> QED
    BY <2>1, SMTT(30), Z3T(30) DEF PassShaped, Shaped
<1>5. ASSUME NEW o \in Maintainers
      PROVE  FoldOK(o)'
  <2>1. CASE o = m
    <3> SUFFICES ASSUME Folding(q)
                 PROVE  /\ manifest'.ckpt <= q.seen.head /\ q.seen.head <= manifest'.head
                        /\ \A p \in Maintainers \ {m} : ~Folding(mt'[p])
      BY <1>1, <2>1, SMTT(30), Z3T(30) DEF FoldOK, Folding
    <3>1. q.seen.head \in Nat
      BY DEF PassShaped, Shaped
    <3> QED
      BY <1>1, <1>3, <3>1, SMTT(30), Z3T(30)
  <2>2. CASE o # m
    <3> SUFFICES ASSUME Folding(mt[o])
                 PROVE  /\ manifest'.ckpt <= mt[o].seen.head
                        /\ mt[o].seen.head <= manifest'.head
                        /\ \A p \in Maintainers \ {o} : ~Folding(mt'[p])
      BY <1>1, <2>2, SMTT(30), Z3T(30) DEF FoldOK, Folding
    <3>1. FoldOK(o) /\ mt[o].seen.head \in Nat
      BY DEF MaintainerInv, PassShaped, Shaped
    <3>2. ~Folding(mt[m]) /\ ~Folding(q)
      BY <2>2, <3>1 DEF FoldOK
    <3> QED
      BY <1>1, <1>3, <2>2, <3>1, <3>2, SMTT(30), Z3T(30) DEF FoldOK
  <2> QED
    BY <2>1, <2>2, SMTT(30), Z3T(30)
<1> QED
  BY <1>2, <1>4, <1>5, SMTT(30), Z3T(30) DEF MaintainerInv

\* The same for the pushes that count on the marker: who goes on to delete it has a plan
\* of the current manifest or had one, and so has a DELETE nobody waits for any more.
LEMMA OnePlans ==
  ASSUME MaintainerInv, PlannedInv, NEW m \in Maintainers, NEW q,
         mt' = [mt EXCEPT ![m] = q],
         UNCHANGED <<pushes, marker, marking, lost, crossed, settled>>,
         Idle(q) => \/ q.seen.head = manifest.head
                    \/ Idle(mt[m]) /\ q.seen = mt[m].seen,
         stray' = stray \/ (Idle(mt[m]) /\ stray' = stray \cup {mt[m].seen.head})
  PROVE  PlannedInv'
<1>1. mt'[m] = q /\ \A o \in Maintainers \ {m} : mt'[o] = mt[o]
  BY SMTT(30), Z3T(30) DEF MaintainerInv
<1>2. Waiting' = Waiting /\ PushesPlanned'
  BY DEF Waiting, PlannedInv, PushesPlanned
<1>3. \A s \in Waiting : s <= manifest.head
  BY SMTT(30), Z3T(30) DEF Waiting, MaintainerInv, RepoInv, Shaped
<1>4. ASSUME NEW o \in Maintainers
      PROVE  IdleOK(o)'
  <2>1. CASE o = m
    <3> SUFFICES ASSUME Idle(q) PROVE \A s \in Waiting : s <= q.seen.head
      BY <1>1, <1>2, <2>1 DEF IdleOK, Idle
    <3> QED
      BY <1>3 DEF PlannedInv, IdleOK
  <2>2. CASE o # m
    BY <1>1, <1>2, <2>2 DEF IdleOK, Idle, PlannedInv
  <2> QED
    BY <2>1, <2>2
<1>5. StrayOK'
  <2>1. ASSUME NEW h \in stray', NEW s \in Waiting PROVE s <= h
    <3>1. h \in stray \/ (Idle(mt[m]) /\ h = mt[m].seen.head)
      BY <2>1
    <3> QED
      BY <3>1 DEF PlannedInv, IdleOK, StrayOK
  <2> QED
    BY <1>2, <2>1 DEF StrayOK
<1> QED
  BY <1>2, <1>4, <1>5 DEF PlannedInv

\* A step of a pass that leaves the repository and the markers alone.
Quiet == UNCHANGED <<repoVars, markVars>>

\* A maintainer moves and leaves the repository and the markers alone.
LEMMA QuietMoves ==
  ASSUME MaintainerInv, NEW m \in Maintainers, NEW q, Quiet,
         mt' = [mt EXCEPT ![m] = q], PassShaped(q),
         Idle(q) => \/ q.seen.head = manifest.head
                    \/ Idle(mt[m]) /\ q.seen = mt[m].seen,
         Folding(q) => /\ q.seen = manifest
                       /\ \A o \in Maintainers \ {m} : ~Folding(mt[o])
  PROVE  /\ MaintainerInv' /\ (PlannedInv => PlannedInv')
         /\ UNCHANGED <<manifest, pushes, marker>>
<1>1. UNCHANGED <<manifest, pushes, marker, marking, stray, lost, crossed, settled>>
  BY SMTT(30), Z3T(30) DEF Quiet, repoVars, markVars
<1>2. RepoInv'
  BY SMTT(30), Z3T(30) DEF MaintainerInv, RepoInv, Shaped, Quiet, repoVars, markVars
<1>3. manifest.head \in Nat /\ manifest.ckpt \in Nat /\ manifest.ckpt <= manifest.head
  BY SMTT(30), Z3T(30) DEF MaintainerInv, RepoInv, Shaped
<1>4. MaintainerInv'
  <2>1. manifest'.head >= manifest.head /\ manifest'.ckpt = manifest.ckpt
    BY <1>1, <1>3, SMTT(30), Z3T(30)
  <2>2. Folding(q) => /\ manifest.ckpt <= q.seen.head /\ q.seen.head <= manifest.head
                      /\ manifest'.ckpt = manifest.ckpt
                      /\ \A o \in Maintainers \ {m} : ~Folding(mt[o])
    BY <1>1, <1>3, SMTT(30), Z3T(30)
  <2> QED
    BY <1>2, <2>1, <2>2, OneMoves
<1>5. PlannedInv => PlannedInv'
  BY <1>1, OnePlans
<1> QED
  BY <1>1, <1>4, <1>5, SMTT(30), Z3T(30)

\* After run_unit returned false the maintainer is at rest.
LEMMA FailedMoves ==
  ASSUME MaintainerInv, NEW m \in Maintainers, Failed(m)
  PROVE  \E q : /\ mt' = [mt EXCEPT ![m] = q] /\ PassShaped(q)
                /\ ~Idle(q) /\ ~Folding(q)
<1>1. PICK q : q = Resting
  BY SMTT(30), Z3T(30)
<1>2. PassShaped(q) /\ q.pc = "rest"
  BY <1>1, RestingShaped, SMTT(30), Z3T(30) DEF MaintainerInv
<1> QED
  BY <1>1, <1>2 DEF Failed, Folding, Idle

\* After run_unit returned true it plans again.
LEMMA DoneMoves ==
  ASSUME MaintainerInv, NEW m \in Maintainers, mt[m].pc # "rest", Done(m)
  PROVE  \E q : /\ mt' = [mt EXCEPT ![m] = q] /\ PassShaped(q)
                /\ ~Idle(q) /\ ~Folding(q)
<1>1. PICK b : b = (mt[m].unit = "checkpoint" /\ ~mt[m].ran)
  BY SMTT(30), Z3T(30)
<1>2. PICK r : r = Resting
  BY SMTT(30), Z3T(30)
<1>3. PICK q : q = [r EXCEPT !.pc = "plan", !.ran = TRUE, !.ckptOnly = b]
  BY SMTT(30), Z3T(30)
<1>4. PassShaped(r) /\ PassShaped(mt[m]) /\ b \in BOOLEAN
  BY <1>1, <1>2, RestingShaped, SMTT(30), Z3T(30) DEF MaintainerInv
<1>5. q.pc = "plan" /\ q.seen = r.seen
  BY <1>3, <1>4, SMTT(30), Z3T(30) DEF PassShaped
<1>6. q \in [pc : Steps, unit : Units, ckptOnly : BOOLEAN, ran : BOOLEAN, seen : {q.seen}]
  BY <1>3, <1>4, <1>5 DEF PassShaped, Steps
<1>7. PassShaped(q)
  BY <1>4, <1>5, <1>6, SMTT(30), Z3T(30) DEF PassShaped
<1>8. mt' = [mt EXCEPT ![m] = q]
  BY <1>1, <1>2, <1>3 DEF Done
<1> QED
  BY <1>5, <1>7, <1>8 DEF Folding, Idle

\* A pass goes on to delete the marker only from a plan of the current manifest.
LEMMA NextUnitMoves ==
  ASSUME MaintainerInv, NEW m \in Maintainers, NextUnit(m)
  PROVE  \E q : /\ mt' = [mt EXCEPT ![m] = q] /\ PassShaped(q)
                /\ Idle(q) => q.seen.head = manifest.head
                /\ ~Folding(q)
<1>1. PICK oldCheckpoint, oldAudit \in BOOLEAN :
        mt' = [mt EXCEPT ![m] = AfterPlan(mt[m], Due(manifest, oldCheckpoint, oldAudit))]
  BY DEF NextUnit
<1>2. PICK unit : unit = Due(manifest, oldCheckpoint, oldAudit)
  BY SMTT(30), Z3T(30)
<1>3. PICK q : q = AfterPlan(mt[m], unit)
  BY SMTT(30), Z3T(30)
<1>4. unit \in Units /\ mt' = [mt EXCEPT ![m] = q]
  BY <1>1, <1>2, <1>3 DEF Due, Units
<1>5. PassShaped(mt[m]) /\ mt[m].pc # "rest" /\ Shaped(manifest)
  BY SMTT(30), Z3T(30) DEF MaintainerInv, RepoInv, NextUnit
<1>6. CASE unit = "idle" /\ ~mt[m].ckptOnly
  <2>0. PICK r : r = Resting
    BY SMTT(30), Z3T(30)
  <2>1. q = [r EXCEPT !.pc = "delete", !.seen = manifest] /\ PassShaped(r)
    BY <1>3, <1>6, <2>0, RestingShaped DEF AfterPlan, MaintainerInv
  <2>2. /\ q.pc = "delete" /\ q.seen = manifest
        /\ q \in [pc : Steps, unit : Units, ckptOnly : BOOLEAN, ran : BOOLEAN, seen : {q.seen}]
    BY <2>1 DEF PassShaped, Steps
  <2>3. PassShaped(q) /\ ~Folding(q)
    BY <1>5, <2>2, SMTT(30), Z3T(30) DEF PassShaped, Folding
  <2> QED
    BY <1>4, <2>2, <2>3 DEF Idle
<1>7. CASE mt[m].ckptOnly /\ unit \in {"fsck", "gc", "idle"}
  <2>1. q = Resting
    BY <1>3, <1>7, SMTT(30), Z3T(30) DEF AfterPlan
  <2>2. PassShaped(q) /\ q.pc = "rest"
    BY <2>1, RestingShaped, SMTT(30), Z3T(30) DEF MaintainerInv
  <2> QED
    BY <1>4, <2>2 DEF Folding, Idle
<1>8. CASE /\ ~(unit = "idle" /\ ~mt[m].ckptOnly)
           /\ ~(mt[m].ckptOnly /\ unit \in {"fsck", "gc", "idle"})
  <2>1. q = [mt[m] EXCEPT !.pc = "start", !.unit = unit]
    BY <1>3, <1>8, SMTT(30), Z3T(30) DEF AfterPlan
  <2>2. /\ q.pc = "start" /\ q.seen = mt[m].seen
        /\ q \in [pc : Steps, unit : Units, ckptOnly : BOOLEAN, ran : BOOLEAN, seen : {q.seen}]
    BY <1>4, <1>5, <2>1 DEF PassShaped, Steps
  <2>3. PassShaped(q) /\ ~Folding(q)
    BY <1>5, <2>2, SMTT(30), Z3T(30) DEF PassShaped, Folding
  <2> QED
    BY <1>4, <2>2, <2>3 DEF Idle
<1> QED
  BY <1>6, <1>7, <1>8, SMTT(30), Z3T(30)

\* Planning.
LEMMA NextUnitStep ==
  ASSUME MaintainerInv, NEW m \in Maintainers, NextUnit(m)
  PROVE  /\ MaintainerInv' /\ (PlannedInv => PlannedInv')
         /\ UNCHANGED <<manifest, pushes, marker>>
<1>1. Quiet
  BY SMTT(30), Z3T(30) DEF NextUnit, Quiet
<1> QED
  BY <1>1, NextUnitMoves, QuietMoves, SMTT(30), Z3T(30)

\* Listing the markers.
LEMMA ListPendingStep ==
  ASSUME MaintainerInv, NEW m \in Maintainers, ListPending(m)
  PROVE  /\ MaintainerInv' /\ (PlannedInv => PlannedInv')
         /\ UNCHANGED <<manifest, pushes, marker>>
<1>1. PICK r : r = Resting
  BY SMTT(30), Z3T(30)
<1>2. PICK q : q = [r EXCEPT !.pc = "plan"]
  OBVIOUS
<1>3. PassShaped(r)
  BY <1>1, RestingShaped, SMTT(30), Z3T(30) DEF MaintainerInv
<1>4. /\ q.pc = "plan" /\ q.seen = r.seen
      /\ q \in [pc : Steps, unit : Units, ckptOnly : BOOLEAN, ran : BOOLEAN, seen : {q.seen}]
  BY <1>2, <1>3 DEF PassShaped, Steps
<1>5. PassShaped(q) /\ ~Folding(q)
  BY <1>3, <1>4, SMTT(30), Z3T(30) DEF PassShaped, Folding
<1>6. Quiet /\ mt' = [mt EXCEPT ![m] = q]
  BY <1>1, <1>2, SMTT(30), Z3T(30) DEF ListPending, Quiet
<1>7. ~Idle(q)
  BY <1>4 DEF Idle
<1> QED
  BY <1>5, <1>6, <1>7, QuietMoves

\* A checkpoint starts only when nobody else holds its lease.
LEMMA StartUnitStep ==
  ASSUME MaintainerInv, NEW m \in Maintainers, StartUnit(m)
  PROVE  /\ MaintainerInv' /\ (PlannedInv => PlannedInv')
         /\ UNCHANGED <<manifest, pushes, marker>>
<1>1. Quiet /\ mt[m].pc = "start" /\ PassShaped(mt[m]) /\ Shaped(manifest)
  BY DEF StartUnit, Quiet, MaintainerInv, RepoInv
<1>2. CASE Failed(m)
  BY <1>1, <1>2, FailedMoves, QuietMoves
<1>3. CASE Done(m)
  BY <1>1, <1>3, DoneMoves, QuietMoves
<1>4. ASSUME NEW step, step = (IF mt[m].unit = "compact" THEN "lease" ELSE "work"),
             ~(mt[m].unit # "compact" /\ LeaseHeld(m)),
             mt' = [mt EXCEPT ![m].pc = step, ![m].seen = manifest]
      PROVE  /\ MaintainerInv' /\ (PlannedInv => PlannedInv')
             /\ UNCHANGED <<manifest, pushes, marker>>
  <2>1. PICK q : q = [mt[m] EXCEPT !.pc = step, !.seen = manifest]
    BY SMTT(30), Z3T(30)
  <2>2. mt' = [mt EXCEPT ![m] = q]
    BY <1>4, <2>1 DEF MaintainerInv
  <2>3. /\ q.pc = step /\ q.seen = manifest /\ q.unit = mt[m].unit
        /\ q \in [pc : Steps, unit : Units, ckptOnly : BOOLEAN, ran : BOOLEAN, seen : {q.seen}]
    BY <1>1, <1>4, <2>1 DEF PassShaped, Steps
  <2>4. PassShaped(q)
    BY <1>1, <1>4, <2>3 DEF PassShaped
  <2>5. Folding(q) => \A o \in Maintainers \ {m} : ~Folding(mt[o])
    BY <1>4, <2>3 DEF Folding, LeaseHeld
  <2>6. ~Idle(q)
    BY <1>4, <2>3, SMTT(30), Z3T(30) DEF Idle
  <2> QED
    BY <1>1, <2>2, <2>3, <2>4, <2>5, <2>6, QuietMoves
<1> QED
  BY <1>2, <1>3, <1>4 DEF StartUnit

\* The lease of a compaction.
LEMMA LeaseCompactionStep ==
  ASSUME MaintainerInv, NEW m \in Maintainers, LeaseCompaction(m)
  PROVE  /\ MaintainerInv' /\ (PlannedInv => PlannedInv')
         /\ UNCHANGED <<manifest, pushes, marker>>
<1>1. Quiet /\ mt[m].pc = "lease" /\ PassShaped(mt[m])
  BY DEF LeaseCompaction, Quiet, MaintainerInv
<1>2. CASE Failed(m)
  BY <1>1, <1>2, FailedMoves, QuietMoves
<1>3. CASE mt' = [mt EXCEPT ![m].pc = "work"]
  <2>1. PICK q : q = [mt[m] EXCEPT !.pc = "work"]
    OBVIOUS
  <2>2. mt' = [mt EXCEPT ![m] = q]
    BY <1>3, <2>1, SMTT(30), Z3T(30) DEF MaintainerInv
  <2>3. /\ q.pc = "work" /\ q.seen = mt[m].seen /\ q.unit = mt[m].unit
        /\ q \in [pc : Steps, unit : Units, ckptOnly : BOOLEAN, ran : BOOLEAN, seen : {q.seen}]
    BY <1>1, <2>1 DEF PassShaped, Steps
  <2>4. PassShaped(q) /\ ~Folding(q) /\ ~Idle(q)
    BY <1>1, <2>3 DEF PassShaped, Folding, Idle
  <2> QED
    BY <1>1, <2>2, <2>3, <2>4, QuietMoves
<1> QED
  BY <1>2, <1>3, SMTT(30), Z3T(30) DEF LeaseCompaction

\* The HEAD before the DELETE of a marker.
LEMMA HeadMarkerStep ==
  ASSUME MaintainerInv, NEW m \in Maintainers, HeadMarker(m)
  PROVE  /\ MaintainerInv' /\ (PlannedInv => PlannedInv')
         /\ UNCHANGED <<manifest, pushes, marker>>
<1>1. Quiet /\ mt[m].pc = "delete" /\ PassShaped(mt[m])
  BY DEF HeadMarker, Quiet, MaintainerInv
<1>2. CASE ~marker
  <2>1. Failed(m)
    BY <1>2 DEF HeadMarker, Failed
  <2> QED
    BY <1>1, <2>1, FailedMoves, QuietMoves
<1>3. CASE marker
  <2>1. PICK q : q = [mt[m] EXCEPT !.pc = "sent"]
    OBVIOUS
  <2>2. mt' = [mt EXCEPT ![m] = q]
    BY <1>3, <2>1 DEF HeadMarker
  <2>3. /\ q.pc = "sent" /\ q.seen = mt[m].seen
        /\ q \in [pc : Steps, unit : Units, ckptOnly : BOOLEAN, ran : BOOLEAN, seen : {q.seen}]
    BY <1>1, <2>1 DEF PassShaped, Steps
  <2>4. PassShaped(q) /\ ~Folding(q)
    BY <1>1, <2>3 DEF PassShaped, Folding
  <2>5. Idle(mt[m])
    BY <1>1 DEF Idle
  <2> QED
    BY <1>1, <2>2, <2>3, <2>4, <2>5, QuietMoves
<1> QED
  BY <1>2, <1>3

\* A pass that is drained, fails or is left by its DELETE.
LEMMA AbandonStep ==
  ASSUME MaintainerInv, NEW m \in Maintainers, Abandon(m)
  PROVE  /\ MaintainerInv' /\ (PlannedInv => PlannedInv')
         /\ UNCHANGED <<manifest, pushes, marker>>
<1>1. /\ Failed(m) /\ UNCHANGED <<manifest, pushes, marker, marking, lost, crossed, settled>>
      /\ stray' = stray \/ (Idle(mt[m]) /\ stray' = stray \cup {mt[m].seen.head})
  BY DEF Abandon, Idle, repoVars
<1>2. PICK q : mt' = [mt EXCEPT ![m] = q] /\ PassShaped(q) /\ ~Idle(q) /\ ~Folding(q)
  BY <1>1, FailedMoves
<1>3. mt[m].seen.head \in Nat /\ RepoInv
  BY DEF MaintainerInv, PassShaped, Shaped
<1>4. RepoInv'
  BY <1>1, <1>3, SMTT(30), Z3T(30) DEF RepoInv, Shaped
<1>5. manifest'.head >= manifest.head
  BY <1>1, <1>3, SMTT(30), Z3T(30) DEF RepoInv, Shaped
<1>6. MaintainerInv'
  BY <1>1, <1>2, <1>4, <1>5, OneMoves
<1>7. PlannedInv => PlannedInv'
  BY <1>1, <1>2, OnePlans
<1> QED
  BY <1>1, <1>6, <1>7

\* An entry extends the log and replaces the packs.
LEMMA Appended ==
  ASSUME NEW mf, Shaped(mf), NEW ps,
         NEW new, new = [mf EXCEPT !.head = mf.head + 1, !.packs = ps]
  PROVE  Shaped(new) /\ new.head = mf.head + 1 /\ new.ckpt = mf.ckpt
<1>1. PICK qs : mf \in [head : Nat, ckpt : Nat, packs : {qs}]
  BY SMTT(30), Z3T(30) DEF Shaped
<1>2. new.head = mf.head + 1 /\ new.ckpt = mf.ckpt /\ new.packs = ps
  BY <1>1, SMTT(30), Z3T(30)
<1>3. PICK h : h = mf.head + 1
  BY SMTT(30), Z3T(30)
<1>4. h \in Nat
  BY <1>1, <1>3, SMTT(30), Z3T(30)
<1>5. new = [mf EXCEPT !.head = h, !.packs = ps]
  BY <1>3, SMTT(30), Z3T(30)
<1>6. new \in [head : Nat, ckpt : Nat, packs : {ps}]
  BY <1>1, <1>4, <1>5
<1> QED
  BY <1>2, <1>6, SMTT(30), Z3T(30) DEF Shaped

\* A unit ends: it wrote a checkpoint, an entry, or nothing a follower sees.
FeedStep == [Feed!FeedNext]_(Feed!feedVars)

\* What leaves manifest, pushes and marker alone is invisible to followers.
LEMMA SameFeed == UNCHANGED <<manifest, pushes, marker>> => FeedStep
  BY SMTT(30), Z3T(30) DEF FeedStep, Feed!feedVars

\* The end of a unit that may have moved the head or, under its lease, the checkpoint.
LEMMA EndMoves ==
  ASSUME MaintainerInv, NEW m \in Maintainers, Done(m) \/ Failed(m), mt[m].pc # "rest",
         RepoInv', UNCHANGED <<pushes, markVars>>, manifest'.head >= manifest.head,
         manifest'.ckpt = manifest.ckpt \/ Folding(mt[m])
  PROVE  MaintainerInv' /\ (PlannedInv => PlannedInv')
<1>1. PICK q : /\ mt' = [mt EXCEPT ![m] = q] /\ PassShaped(q)
               /\ ~Idle(q) /\ ~Folding(q)
  BY DoneMoves, FailedMoves
<1>2. UNCHANGED <<pushes, marker, marking, stray, lost, crossed, settled>>
  BY SMTT(30), Z3T(30) DEF markVars
<1>3. MaintainerInv'
  BY <1>1, OneMoves
<1>4. PlannedInv => PlannedInv'
  BY <1>1, <1>2, OnePlans
<1> QED
  BY <1>3, <1>4

\* The effect of a unit: a checkpoint moves forward to the head its writer saw, a
\* compaction appends an entry, audits and collections are invisible.
LEMMA FinishUnitStep ==
  ASSUME MaintainerInv, NEW m \in Maintainers, FinishUnit(m)
  PROVE  MaintainerInv' /\ (PlannedInv => PlannedInv') /\ FeedStep
<1>1. /\ mt[m].pc = "work" /\ UNCHANGED <<pushes, markVars>> /\ UNCHANGED marker
      /\ mt[m].pc # "rest"
  BY SMTT(30), Z3T(30) DEF FinishUnit, markVars
<1>2. /\ Shaped(manifest) /\ manifest.head \in Nat /\ manifest.ckpt \in Nat
      /\ manifest.ckpt <= manifest.head
  BY SMTT(30), Z3T(30) DEF MaintainerInv, RepoInv, Shaped
<1>3. CASE Checkpoint(m)
  <2>1. PICK s : s = IF manifest.ckpt >= manifest.head THEN manifest.ckpt ELSE mt[m].seen.head
    BY SMTT(30), Z3T(30)
  <2>2. manifest' = [manifest EXCEPT !.ckpt = s] /\ Done(m) /\ Folding(mt[m])
    BY <1>1, <1>3, <2>1, SMTT(30), Z3T(30) DEF Checkpoint, Folding
  <2>3. s \in Nat /\ manifest.ckpt <= s /\ s <= manifest.head
    BY <1>2, <2>1, <2>2, SMTT(30), Z3T(30) DEF MaintainerInv, FoldOK, PassShaped, Shaped
  <2>4. /\ Shaped(manifest') /\ manifest'.head = manifest.head /\ manifest'.ckpt = s
    BY <1>2, <2>2, <2>3 DEF Shaped
  <2>5. RepoInv'
    BY <1>1, <2>3, <2>4, SMTT(30), Z3T(30) DEF MaintainerInv, RepoInv, Shaped, markVars
  <2>6. FeedStep
    <3>1. CASE s = manifest.ckpt
      BY <1>1, <2>4, <3>1, SMTT(30), Z3T(30) DEF FeedStep, Feed!feedVars
    <3>2. CASE s # manifest.ckpt
      <4>1. s \in manifest.ckpt + 1 .. manifest.head
        BY <1>2, <2>3, <3>2, SMTT(30), Z3T(30)
      <4>2. Feed!Fold
        BY <1>1, <2>4, <4>1 DEF Feed!Fold
      <4> QED
        BY <4>2, SMTT(30), Z3T(30) DEF FeedStep, Feed!FeedNext
    <3> QED
      BY <3>1, <3>2, SMTT(30), Z3T(30)
  <2> QED
    BY <1>1, <1>2, <2>2, <2>4, <2>5, <2>6, EndMoves, SMTT(30), Z3T(30)
<1>4. CASE Compact(m)
  <2>1. PICK old : old = Rollup(mt[m].seen.packs)
    OBVIOUS 
  <2>2. CASE old = {}
    <3>1. UNCHANGED manifest /\ Done(m)
      BY <1>4, <2>1, <2>2 DEF Compact
    <3>2. RepoInv'
      BY <1>1, <3>1 DEF MaintainerInv, RepoInv, Shaped, markVars
    <3> QED
      BY <1>1, <1>2, <3>1, <3>2, EndMoves, SameFeed, SMTT(30), Z3T(30)
  <2>3. CASE old # {}
    <3> DEFINE sup == {p.id : p \in Rollup(mt[m].seen.packs)}
               new == [id |-> UNION sup, seq |-> manifest.head + 1, tier |-> 1,
                       size |-> Size(Rollup(mt[m].seen.packs))]
    <3>0. PICK ps : ps = {p \in manifest.packs : p.id \notin sup \cup {new.id}} \cup {new}
      OBVIOUS
    <3>1. manifest' = [manifest EXCEPT !.head = manifest.head + 1, !.packs = ps]
      BY <1>4, <2>1, <2>3, <3>0 DEF Compact
    <3>2. /\ Shaped(manifest') /\ manifest'.head = manifest.head + 1
          /\ manifest'.ckpt = manifest.ckpt
      BY <1>2, <3>1, Appended
    <3>3. RepoInv'
      BY <1>1, <1>2, <3>2, SMTT(30), Z3T(30) DEF MaintainerInv, RepoInv, Shaped, markVars
    <3>4. Feed!CommitCompact
      BY <1>1, <3>2, SMTT(30), Z3T(30) DEF Feed!CommitCompact
    <3>5. FeedStep
      BY <3>4, SMTT(30), Z3T(30) DEF FeedStep, Feed!FeedNext
    <3>6. Done(m)
      BY <1>4 DEF Compact
    <3> QED
      BY <1>1, <1>2, <3>2, <3>3, <3>5, <3>6, EndMoves, SMTT(30), Z3T(30)
  <2> QED
    BY <2>2, <2>3, SMTT(30), Z3T(30)
<1>5. CASE Fsck(m) \/ Gc(m)
  <2>1. UNCHANGED manifest /\ (Done(m) \/ Failed(m))
    BY <1>5, SMTT(30), Z3T(30) DEF Fsck, Gc
  <2>2. RepoInv'
    BY <1>1, <2>1, SMTT(30), Z3T(30) DEF MaintainerInv, RepoInv, Shaped, markVars
  <2> QED
    BY <1>1, <1>2, <2>1, <2>2, EndMoves, SameFeed, SMTT(30), Z3T(30)
<1> QED
  BY <1>3, <1>4, <1>5 DEF FinishUnit

\* The larger of two numbers.
LEMMA MaxOfTwo ==
  ASSUME NEW a \in Nat, NEW b \in Nat
  PROVE  Max({a, b}) \in Nat /\ Max({a, b}) >= a /\ Max({a, b}) >= b
<1>1. \E x \in {a, b} : \A y \in {a, b} : x >= y
  BY SMTT(30), Z3T(30)
<1>2. Max({a, b}) \in {a, b} /\ \A y \in {a, b} : Max({a, b}) >= y
  BY <1>1, SMTT(30), Z3T(30) DEF Max
<1> QED
  BY <1>2, SMTT(30), Z3T(30)

\* A DELETE of the marker lands, for a head that covers the pushes that count on it.
LEMMA LandOK ==
  ASSUME MaintainerInv, NEW h \in Nat, Land(h),
         UNCHANGED <<manifest, pushes, marking, stray, lost, crossed>>
  PROVE  /\ RepoInv' /\ manifest'.head >= manifest.head /\ FeedStep
         /\ Waiting' = Waiting
         /\ (\A s \in Waiting : s <= h) => PushesPlanned'
<1>1. RepoInv /\ marker' = FALSE /\ settled' = Max({settled, h})
  BY DEF MaintainerInv, Land
<1>2. settled' \in Nat /\ settled' >= h
  BY <1>1, MaxOfTwo DEF RepoInv
<1>3. RepoInv' /\ manifest'.head >= manifest.head
  BY <1>1, <1>2, SMTT(30), Z3T(30) DEF RepoInv, Shaped
<1>4. FeedStep
  BY <1>1 DEF FeedStep, Feed!FeedNext, Feed!ClearMark
<1>5. Waiting' = Waiting /\ Waiting \in SUBSET Nat
  <2>1. Waiting' = Waiting
    BY DEF Waiting
  <2>2. Waiting \in SUBSET Nat
    BY <1>1, SMTT(30), Z3T(30) DEF Waiting, RepoInv, Shaped
  <2> QED
    BY <2>1, <2>2
<1>6. ASSUME \A s \in Waiting : s <= h PROVE PushesPlanned'
  <2>1. ASSUME NEW s \in Waiting PROVE s <= settled'
    <3>1. s \in Nat /\ s <= h
      BY <1>5, <1>6
    <3> QED
      BY <1>2, <3>1, SMTT(30), Z3T(30)
  <2>2. \A s \in Waiting' : s <= settled'
    BY <1>5, <2>1
  <2> QED
    BY <2>2 DEF PushesPlanned, Waiting
<1> QED
  BY <1>3, <1>4, <1>5, <1>6

\* A maintainer's DELETE, for which its plan has seen the pushes.
LEMMA DeleteMarkerStep ==
  ASSUME MaintainerInv, NEW m \in Maintainers, DeleteMarker(m)
  PROVE  MaintainerInv' /\ (PlannedInv => PlannedInv') /\ FeedStep
<1>1. /\ UNCHANGED <<manifest, pushes, marking, stray, lost, crossed>> /\ Failed(m)
      /\ Idle(mt[m]) /\ Land(mt[m].seen.head)
  BY DEF DeleteMarker, repoVars, Failed, Idle
<1>2. mt[m].seen.head \in Nat
  BY DEF MaintainerInv, PassShaped, Shaped
<1>3. PICK q : mt' = [mt EXCEPT ![m] = q] /\ PassShaped(q) /\ ~Idle(q) /\ ~Folding(q)
  BY <1>1, FailedMoves
<1>4. /\ RepoInv' /\ manifest'.head >= manifest.head /\ FeedStep
      /\ Waiting' = Waiting
      /\ (\A s \in Waiting : s <= mt[m].seen.head) => PushesPlanned'
  BY <1>1, <1>2, LandOK
<1>5. MaintainerInv'
  BY <1>1, <1>3, <1>4, OneMoves
<1>6. ASSUME PlannedInv PROVE PlannedInv'
  <2>1. PushesPlanned'
    BY <1>1, <1>4, <1>6 DEF PlannedInv, IdleOK
  <2>2. mt'[m] = q /\ \A o \in Maintainers \ {m} : mt'[o] = mt[o]
    BY <1>3, SMTT(30), Z3T(30) DEF MaintainerInv
  <2>3. ASSUME NEW o \in Maintainers PROVE IdleOK(o)'
    BY <1>3, <1>4, <1>6, <2>2 DEF IdleOK, Idle, PlannedInv
  <2>4. StrayOK'
    BY <1>1, <1>4, <1>6 DEF StrayOK, PlannedInv
  <2> QED
    BY <2>1, <2>3, <2>4 DEF PlannedInv
<1> QED
  BY <1>4, <1>5, <1>6

\* A step of a push: the maintainers stand still.
LEMMA OthersStand ==
  ASSUME MaintainerInv, RepoInv', mt' = mt, manifest'.head >= manifest.head,
         manifest'.ckpt = manifest.ckpt
  PROVE  MaintainerInv'
<1>1. /\ manifest.head \in Nat /\ manifest'.head \in Nat
  BY DEF MaintainerInv, RepoInv, Shaped
<1>2. ASSUME NEW m \in Maintainers
      PROVE  PassShaped(mt[m])'
  <2>1. PassShaped(mt[m])
    BY SMTT(30), Z3T(30) DEF MaintainerInv
  <2> QED
    BY <2>1, SMTT(30), Z3T(30) DEF PassShaped, Shaped
<1>3. ASSUME NEW m \in Maintainers
      PROVE  FoldOK(m)'
  <2>1. FoldOK(m) /\ mt[m].seen.head \in Nat
    BY DEF MaintainerInv, PassShaped, Shaped
  <2>2. mt[m].seen.head <= manifest.head => mt[m].seen.head <= manifest'.head
    BY <1>1, <2>1, SMTT(30), Z3T(30)
  <2> QED
    BY <2>1, <2>2, SMTT(30), Z3T(30) DEF FoldOK, Folding
<1> QED
  BY <1>2, <1>3 DEF MaintainerInv

\* A push appends an entry that waits for its marker.
LEMMA PushStep ==
  ASSUME MaintainerInv, Push
  PROVE  MaintainerInv' /\ (PlannedInv => PlannedInv') /\ FeedStep
<1>1. /\ pushes' = pushes \cup {manifest'.head} /\ marking' = marking \cup {manifest'.head}
      /\ UNCHANGED <<marker, stray, lost, crossed, settled, mt>>
  BY SMTT(30), Z3T(30) DEF Push
<1>2. PICK size \in Sizes :
        manifest' = [manifest EXCEPT
          !.head = @ + 1,
          !.packs = @ \cup {[id |-> {manifest.head + 1}, seq |-> manifest.head + 1,
                             tier |-> 0, size |-> size]}]
  BY DEF Push
<1>3. PICK ps : ps = manifest.packs \cup
                       {[id |-> {manifest.head + 1}, seq |-> manifest.head + 1,
                         tier |-> 0, size |-> size]}
  OBVIOUS
<1>4. manifest' = [manifest EXCEPT !.head = manifest.head + 1, !.packs = ps]
  BY <1>2, <1>3
<1>5. /\ Shaped(manifest) /\ manifest.head \in Nat /\ manifest.ckpt \in Nat
      /\ manifest.ckpt <= manifest.head
  BY SMTT(30), Z3T(30) DEF MaintainerInv, RepoInv, Shaped
<1>6. /\ Shaped(manifest') /\ manifest'.head = manifest.head + 1
      /\ manifest'.ckpt = manifest.ckpt
  BY <1>4, <1>5, Appended
<1>7. RepoInv'
  BY <1>1, <1>5, <1>6, SMTT(30), Z3T(30) DEF MaintainerInv, RepoInv, Shaped
<1>8. MaintainerInv'
  <2>1. manifest'.head >= manifest.head
    BY <1>1, <1>5, <1>6, SMTT(30), Z3T(30) DEF MaintainerInv, RepoInv
  <2> QED
    BY <1>1, <1>6, <1>7, <2>1, OthersStand
<1>9. FeedStep
  <2>1. Feed!CommitTxn
    BY <1>1, <1>6 DEF Feed!CommitTxn
  <2> QED
    BY <2>1 DEF FeedStep, Feed!FeedNext
<1>10. ASSUME PlannedInv PROVE PlannedInv'
  <2>1. \A s \in Waiting' : s \in Waiting
    BY <1>1, SMTT(30), Z3T(30) DEF Waiting
  <2> QED
    BY <1>1, <1>10, <2>1 DEF PlannedInv, PushesPlanned, IdleOK, Idle, StrayOK, Waiting
<1> QED
  BY <1>8, <1>9, <1>10, SMTT(30), Z3T(30)

\* A DELETE that nobody waits for.
LEMMA LandStrayStep ==
  ASSUME MaintainerInv, LandStray
  PROVE  MaintainerInv' /\ (PlannedInv => PlannedInv') /\ FeedStep
<1>1. PICK h \in stray : Land(h)
  BY DEF LandStray
<1>2. UNCHANGED <<manifest, pushes, marking, stray, lost, crossed, mt>> /\ h \in Nat
  BY DEF LandStray, repoVars, MaintainerInv, RepoInv
<1>3. /\ RepoInv' /\ manifest'.head >= manifest.head /\ FeedStep
      /\ Waiting' = Waiting
      /\ (\A s \in Waiting : s <= h) => PushesPlanned'
  BY <1>1, <1>2, LandOK
<1>4. MaintainerInv'
  BY <1>2, <1>3, OthersStand
<1>5. ASSUME PlannedInv PROVE PlannedInv'
  <2>1. PushesPlanned'
    BY <1>1, <1>3, <1>5 DEF PlannedInv, StrayOK
  <2> QED
    BY <1>2, <1>3, <1>5, <2>1 DEF IdleOK, Idle, StrayOK, PlannedInv
<1> QED
  BY <1>3, <1>4, <1>5

\* A marker that is put while none is to be deleted is seen by the next plan.
LEMMA MarkPendingStep ==
  ASSUME MaintainerInv, NEW s \in marking, MarkPending(s)
  PROVE  MaintainerInv' /\ (PlannedInv => PlannedInv') /\ FeedStep
<1>1. /\ marking' = marking \ {s} /\ marker' = TRUE
      /\ crossed' = IF Closing THEN crossed \cup {s} ELSE crossed
      /\ UNCHANGED <<manifest, pushes, stray, lost, settled, mt>>
  BY DEF MarkPending, repoVars
<1>2. RepoInv'
  BY <1>1, SMTT(30), Z3T(30) DEF MaintainerInv, RepoInv, Shaped
<1>3. MaintainerInv'
  <2>1. manifest'.head >= manifest.head /\ manifest'.ckpt = manifest.ckpt
    BY <1>1, SMTT(30), Z3T(30) DEF MaintainerInv, RepoInv, Shaped
  <2> QED
    BY <1>1, <1>2, <2>1, OthersStand
<1>4. FeedStep
  <2>1. pushes # {}
    BY SMTT(30), Z3T(30) DEF MaintainerInv, RepoInv
  <2>2. Feed!SetMark
    BY <1>1, <2>1 DEF Feed!SetMark
  <2> QED
    BY <2>2, SMTT(30), Z3T(30) DEF FeedStep, Feed!FeedNext
<1>5. ASSUME PlannedInv PROVE PlannedInv'
  <2>1. PushesPlanned'
    BY <1>1 DEF PushesPlanned
  <2>2. CASE Closing
    <3>1. \A p \in Waiting' : p \in Waiting
      BY <1>1, <2>2 DEF Waiting
    <3> QED
      BY <1>1, <1>5, <2>1, <3>1 DEF IdleOK, Idle, StrayOK, PlannedInv
  <2>3. CASE ~Closing
    <3>1. stray = {} /\ \A m \in Maintainers : ~Idle(mt[m])
      BY <2>3 DEF Closing, Idle
    <3> QED
      BY <1>1, <2>1, <3>1 DEF IdleOK, Idle, StrayOK, PlannedInv
  <2> QED
    BY <2>2, <2>3
<1> QED
  BY <1>3, <1>4, <1>5

\* A marker that could not be put.
LEMMA LoseMarkStep ==
  ASSUME MaintainerInv, NEW s \in marking, LoseMark(s)
  PROVE  MaintainerInv' /\ (PlannedInv => PlannedInv') /\ FeedStep
<1>1. /\ marking' = marking \ {s} /\ lost' = lost \cup {s}
      /\ UNCHANGED <<manifest, pushes, marker, stray, crossed, settled, mt>>
  BY DEF LoseMark, repoVars
<1>2. RepoInv'
  BY <1>1, SMTT(30), Z3T(30) DEF MaintainerInv, RepoInv, Shaped
<1>3. MaintainerInv'
  <2>1. manifest'.head >= manifest.head /\ manifest'.ckpt = manifest.ckpt
    BY <1>1, SMTT(30), Z3T(30) DEF MaintainerInv, RepoInv, Shaped
  <2> QED
    BY <1>1, <1>2, <2>1, OthersStand
<1>4. ASSUME PlannedInv PROVE PlannedInv'
  <2>1. Waiting' = Waiting
    BY <1>1, SMTT(30), Z3T(30) DEF Waiting
  <2> QED
    BY <1>1, <1>4, <2>1 DEF PlannedInv, PushesPlanned, IdleOK, Idle, StrayOK, Waiting
<1> QED
  BY <1>1, <1>3, <1>4, SameFeed

-----------------------------------------------------------------------------
(* The theorems *)

\* The invariants hold of a new repository.
LEMMA MaintainerInit ==
  Init => MaintainerInv /\ Feed!FeedInit /\ PlannedInv
<1> SUFFICES ASSUME Init
             PROVE  MaintainerInv /\ Feed!FeedInit /\ PlannedInv
  OBVIOUS 
<1>1. RepoInv
  BY SMTT(30), Z3T(30) DEF Init, RepoInv, NewManifest, Shaped
<1>2. MaintainerInv
  BY <1>1, RestingShaped DEF Init, MaintainerInv, FoldOK, Folding
<1>3. Feed!FeedInit
  BY DEF Init, NewManifest, Feed!FeedInit
<1>4. PlannedInv
  BY RestingShaped, <1>1 DEF Init, PlannedInv, PushesPlanned, IdleOK, Idle, StrayOK
<1> QED
  BY <1>2, <1>3, <1>4, SMTT(30), Z3T(30)

\* Every step preserves the invariants and is a step of RepoFeed.
LEMMA MaintainerNext ==
  MaintainerInv /\ [Next]_maintainerVars
    => MaintainerInv' /\ (PlannedInv => PlannedInv') /\ FeedStep
<1> SUFFICES ASSUME MaintainerInv, [Next]_maintainerVars
             PROVE  MaintainerInv' /\ (PlannedInv => PlannedInv') /\ FeedStep
  OBVIOUS 
<1>1. ASSUME NEW m \in Maintainers, PassStep(m) \/ ListPending(m) \/ Abandon(m)
      PROVE  MaintainerInv' /\ (PlannedInv => PlannedInv') /\ FeedStep
  BY <1>1, ListPendingStep, NextUnitStep, StartUnitStep, LeaseCompactionStep, FinishUnitStep,
     HeadMarkerStep, DeleteMarkerStep, AbandonStep, SameFeed DEF PassStep
<1>2. CASE UNCHANGED maintainerVars
  <2>1. UNCHANGED <<manifest, pushes, marker, marking, stray, lost, crossed, settled, mt>>
    BY <1>2 DEF maintainerVars, repoVars, markVars
  <2>2. MaintainerInv'
    BY <2>1 DEF MaintainerInv, RepoInv, Shaped, PassShaped, FoldOK, Folding
  <2>3. PlannedInv => PlannedInv'
    BY <2>1 DEF PlannedInv, PushesPlanned, IdleOK, Idle, StrayOK, Waiting
  <2> QED
    BY <2>1, <2>2, <2>3, SameFeed
<1> QED
  BY <1>1, <1>2, PushStep, MarkPendingStep, LoseMarkStep, LandStrayStep DEF Next

\* A follower of the log sees pushes, entries that move no ref, and a window that only
\* moves forward: Maintainer implements RepoFeed.
THEOREM MaintainerImplementsFeed == Spec => ImplementsFeed
<1>1. MaintainerInv /\ [Next]_maintainerVars
        => MaintainerInv' /\ [Feed!FeedNext]_(Feed!feedVars)
  BY MaintainerNext, SMTT(30), Z3T(30) DEF FeedStep
<1> QED
  BY <1>1, MaintainerInit, PTL DEF Spec, ImplementsFeed, Feed!FeedSpec

\* No marker is deleted that stands for a push no plan has seen, but for pushes marked
\* between an idle plan and the DELETE it leads to (run_marker and delete_marker, the
\* HEAD and the DELETE of the S3 store), for any number of maintainers and pushes, and
\* however many passes are abandoned and DELETEs repeated or late.
THEOREM MarkersKept == Spec => []PushesPlanned
<1>1. MaintainerInv /\ PlannedInv /\ [Next]_maintainerVars => MaintainerInv' /\ PlannedInv'
  BY MaintainerNext, SMTT(30), Z3T(30)
<1>2. PlannedInv => PushesPlanned
  BY SMTT(30), Z3T(30) DEF PlannedInv
<1> QED
  BY <1>1, <1>2, MaintainerInit, PTL DEF Spec

-----------------------------------------------------------------------------
(* Once the marker is gone nothing is left that entries make due *)

\* What entries make due has been done.
Served == ~EntriesDue(manifest) /\ ~FoldDue(manifest) /\ CompactSeq(manifest) <= gc.compact

\* Nothing is due that entries up to h make due: either there are newer ones, or all of
\* it is done.
Covered(h) == h <= manifest.head /\ (h = manifest.head => Served)

\* What a pass has seen is in the log, and what an idle plan has seen is covered.
SeenOK(q) == q.seen.head <= manifest.head /\ (Idle(q) => Covered(q.seen.head))

ServedInv ==
  /\ \A p \in manifest.packs : p.seq \in 1..manifest.head
  /\ gc.compact \in Nat
  /\ Covered(settled)
  /\ \A m \in Maintainers : SeenOK(mt[m])
  /\ \A h \in stray : Covered(h)

\* A bounded, nonempty set of numbers has a largest.
LEMMA MaxExists ==
  ASSUME NEW S \in SUBSET Nat, NEW B \in Nat, S # {}, \A x \in S : x <= B
  PROVE  Max(S) \in S /\ \A x \in S : Max(S) >= x
<1> DEFINE T == {B - x : x \in S}
<1>0. \A x \in S : B - x \in Nat
  BY SMTT(30), Z3T(30)
<1>1. T \in SUBSET Nat /\ T # {}
  BY <1>0
<1>2. IsWellFoundedOn(OpToRel(<, Nat), Nat)
  BY NatLessThanWellFounded
<1>3. PICK t \in T : \A y \in T : ~(<<y, t>> \in OpToRel(<, Nat))
  BY <1>1, <1>2, WFMin
<1>4. \A y \in T : ~(y < t)
  BY <1>1, <1>3 DEF OpToRel
<1>5. PICK x \in S : t = B - x
  BY SMTT(30), Z3T(30)
<1>6. ASSUME NEW y \in S PROVE x >= y
  <2>1. ~(B - y < B - x)
    BY <1>4, <1>5
  <2> QED
    BY <2>1, SMTT(30), Z3T(30)
<1> QED
  BY <1>6 DEF Max

\* The seq of the newest compacted pack is a seq.
LEMMA CompactSeqNat == MaintainerInv /\ ServedInv => CompactSeq(manifest) \in Nat
<1> SUFFICES ASSUME MaintainerInv, ServedInv PROVE CompactSeq(manifest) \in Nat
  BY SMTT(30), Z3T(30)
<1> DEFINE S == {0} \cup {p.seq : p \in {q \in manifest.packs : q.tier > 0}}
<1>1. manifest.head \in Nat
  BY DEF MaintainerInv, RepoInv, Shaped
<1>2. \A p \in manifest.packs : p.seq \in Nat /\ p.seq <= manifest.head
  BY <1>1, SMTT(30), Z3T(30) DEF ServedInv
<1>3. 0 <= manifest.head /\ 0 \in Nat
  BY <1>1, SMTT(30), Z3T(30)
<1>4. S \in SUBSET Nat /\ S # {} /\ \A x \in S : x <= manifest.head
  BY <1>2, <1>3
<1>5. Max(S) \in S
  BY <1>1, <1>4, MaxExists
<1> QED
  BY <1>4, <1>5 DEF CompactSeq

\* What a step does to the repository: packs come and go only with a new entry, a
\* checkpoint only moves forward, and gc.pb is up to date when it is written.
RepoMoves ==
  \/ /\ manifest'.head = manifest.head /\ manifest'.packs = manifest.packs
     /\ manifest'.ckpt >= manifest.ckpt
     /\ gc' = gc \/ gc'.compact = CompactSeq(manifest)
  \/ /\ manifest'.head = manifest.head + 1 /\ gc' = gc
     /\ \A p \in manifest'.packs : p \in manifest.packs \/ p.seq = manifest.head + 1

\* What is done stays done until there is a new entry.
LEMMA CoveredStays ==
  ASSUME MaintainerInv, MaintainerInv', ServedInv, RepoMoves
  PROVE  /\ \A p \in manifest'.packs : p.seq \in 1..manifest'.head
         /\ gc'.compact \in Nat
         /\ \A h \in Nat : /\ h <= manifest.head => h <= manifest'.head
                           /\ Covered(h) => Covered(h)'
<1>1. /\ manifest.head \in Nat /\ manifest'.head \in Nat /\ manifest.ckpt \in Nat
      /\ manifest'.ckpt \in Nat
  BY SMTT(30), Z3T(30) DEF MaintainerInv, RepoInv, Shaped
<1>2. CompactSeq(manifest) \in Nat /\ gc.compact \in Nat
  BY CompactSeqNat DEF ServedInv
<1>3. CASE manifest'.head = manifest.head + 1
  <2>1. /\ gc' = gc
        /\ \A p \in manifest'.packs : p \in manifest.packs \/ p.seq = manifest.head + 1
    BY <1>1, <1>3, SMTT(30), Z3T(30) DEF RepoMoves
  <2>2. \A p \in manifest'.packs : p.seq \in 1..manifest'.head
    BY <1>1, <1>3, <2>1, SMTT(30), Z3T(30) DEF ServedInv
  <2>3. \A h \in Nat : h <= manifest.head => h <= manifest'.head /\ h # manifest'.head
    BY <1>1, <1>3, SMTT(30), Z3T(30)
  <2> QED
    BY <1>2, <2>1, <2>2, <2>3 DEF Covered
<1>4. CASE manifest'.head # manifest.head + 1
  <2>1. /\ manifest'.head = manifest.head /\ manifest'.packs = manifest.packs
        /\ manifest'.ckpt >= manifest.ckpt
        /\ gc' = gc \/ gc'.compact = CompactSeq(manifest)
    BY <1>4 DEF RepoMoves
  <2>2. CompactSeq(manifest') = CompactSeq(manifest) /\ (FoldDue(manifest') <=> FoldDue(manifest))
    BY <2>1 DEF CompactSeq, FoldDue
  <2>3. gc'.compact \in Nat
        /\ (CompactSeq(manifest) <= gc.compact => CompactSeq(manifest') <= gc'.compact)
    BY <1>2, <2>1, <2>2, SMTT(30), Z3T(30)
  <2>4. EntriesDue(manifest') => EntriesDue(manifest)
    BY <1>1, <2>1, MaintainerAssumption, SMTT(30), Z3T(30) DEF EntriesDue
  <2>5. Served => Served'
    BY <2>2, <2>3, <2>4 DEF Served
  <2>6. \A p \in manifest'.packs : p.seq \in 1..manifest'.head
    BY <2>1 DEF ServedInv
  <2> QED
    BY <2>1, <2>3, <2>5, <2>6 DEF Covered
<1> QED
  BY <1>3, <1>4

\* One maintainer moves; what it has seen is in the log, and covered if it found nothing
\* due.
LEMMA ServedMoves ==
  ASSUME MaintainerInv, MaintainerInv', ServedInv, RepoMoves, settled' = settled,
         \A h \in stray' : h \in stray \/ Covered(h),
         NEW m \in Maintainers, NEW q, mt' = [mt EXCEPT ![m] = q], q.seen.head \in Nat, SeenOK(q)
  PROVE  ServedInv'
<1>1. mt'[m] = q /\ \A o \in Maintainers \ {m} : mt'[o] = mt[o]
  BY DEF MaintainerInv
<1>2. settled \in Nat /\ \A o \in Maintainers : mt[o].seen.head \in Nat
  BY SMTT(30), Z3T(30) DEF MaintainerInv, RepoInv, PassShaped, Shaped
<1>0. \A h \in stray' : h \in Nat
  BY DEF MaintainerInv, RepoInv
<1>3. \A h \in Nat : /\ h <= manifest.head => h <= manifest'.head
                     /\ Covered(h) => Covered(h)'
  BY CoveredStays
<1>4. Covered(settled)'
  BY <1>2, <1>3 DEF ServedInv, Covered
<1>5. ASSUME NEW o \in Maintainers PROVE SeenOK(mt[o])'
  <2>1. PICK h : h = mt'[o].seen.head
    BY SMTT(30), Z3T(30)
  <2>2. h \in Nat /\ h <= manifest.head /\ (Idle(mt'[o]) => Covered(h))
    BY <1>1, <1>2, <2>1 DEF ServedInv, SeenOK
  <2>3. h <= manifest'.head /\ (Idle(mt'[o]) => Covered(h)')
    BY <1>3, <2>2
  <2> QED
    BY <2>1, <2>3 DEF SeenOK, Covered, Idle
<1>6. \A h \in stray' : Covered(h)'
  BY <1>0, <1>3 DEF ServedInv
<1> QED
  BY <1>4, <1>5, <1>6, CoveredStays DEF ServedInv

\* A maintainer at rest, or one that starts a plan, has seen nothing yet.
LEMMA NothingSeen ==
  ASSUME MaintainerInv, NEW q, q.seen = NewManifest, ~Idle(q)
  PROVE  q.seen.head \in Nat /\ SeenOK(q)
<1>1. q.seen.head = 0 /\ manifest.head \in Nat
  BY SMTT(30), Z3T(30) DEF NewManifest, MaintainerInv, RepoInv, Shaped
<1> QED
  BY <1>1, SMTT(30), Z3T(30) DEF SeenOK

\* Who is at work or ends a unit has seen what is in the log.
LEMMA EndServed ==
  ASSUME MaintainerInv, MaintainerInv', ServedInv, RepoMoves, settled' = settled,
         \A h \in stray' : h \in stray \/ Covered(h),
         NEW m \in Maintainers, Done(m) \/ Failed(m)
  PROVE  ServedInv'
<1>1. CASE Failed(m)
  <2>1. PICK q : q = Resting
    OBVIOUS 
  <2>2. q.seen = NewManifest /\ ~Idle(q) /\ mt' = [mt EXCEPT ![m] = q]
    BY <1>1, <2>1, SMTT(30), Z3T(30) DEF Failed, Resting, Idle
  <2> QED
    BY <2>2, NothingSeen, ServedMoves
<1>2. CASE Done(m)
  <2>1. PICK q : q = [Resting EXCEPT !.pc = "plan", !.ran = TRUE,
                                     !.ckptOnly = mt[m].unit = "checkpoint" /\ ~mt[m].ran]
    BY SMTT(30), Z3T(30)
  <2>2. q.seen = NewManifest /\ ~Idle(q)
    BY <2>1, SMTT(30), Z3T(30) DEF Resting, Idle
  <2>3. mt' = [mt EXCEPT ![m] = q]
    BY <1>2, <2>1 DEF Done
  <2> QED
    BY <2>2, <2>3, NothingSeen, ServedMoves
<1> QED
  BY <1>1, <1>2, SMTT(30), Z3T(30)

\* A step that leaves the repository and the markers alone.
LEMMA QuietRepo == MaintainerInv /\ Quiet => RepoMoves /\ UNCHANGED <<settled, stray>>
<1> SUFFICES ASSUME MaintainerInv, Quiet PROVE RepoMoves /\ UNCHANGED <<settled, stray>>
  BY SMTT(30), Z3T(30)
<1>1. UNCHANGED <<manifest, gc, settled, stray>>
  BY DEF Quiet, repoVars, markVars
<1>2. manifest.ckpt \in Nat
  BY SMTT(30), Z3T(30) DEF MaintainerInv, RepoInv, Shaped
<1>3. manifest'.ckpt >= manifest.ckpt
  BY <1>1, <1>2, SMTT(30), Z3T(30)
<1> QED
  BY <1>1, <1>3 DEF RepoMoves

\* A plan that finds nothing due finds everything served.
LEMMA IdleServed ==
  ASSUME MaintainerInv, ServedInv, NEW a \in BOOLEAN, NEW b \in BOOLEAN,
         Due(manifest, a, b) = "idle"
  PROVE  Served
<1>1. CompactSeq(manifest) \in Nat /\ gc.compact \in Nat
  BY CompactSeqNat DEF ServedInv
<1>2. ~EntriesDue(manifest) /\ ~FoldDue(manifest) /\ ~GcDue(manifest)
  BY DEF Due
<1>3. ~(CompactSeq(manifest) > gc.compact)
  BY <1>2 DEF GcDue
<1>4. CompactSeq(manifest) <= gc.compact
  BY <1>1, <1>3, SMTT(30), Z3T(30)
<1> QED
  BY <1>2, <1>4 DEF Served

\* Planning.
LEMMA NextUnitServed ==
  ASSUME MaintainerInv, MaintainerInv', ServedInv, NEW m \in Maintainers, NextUnit(m)
  PROVE  ServedInv'
<1>1. PICK oldCheckpoint, oldAudit \in BOOLEAN :
        mt' = [mt EXCEPT ![m] = AfterPlan(mt[m], Due(manifest, oldCheckpoint, oldAudit))]
  BY DEF NextUnit
<1>2. PICK unit : unit = Due(manifest, oldCheckpoint, oldAudit)
  BY SMTT(30), Z3T(30)
<1>3. PICK q : q = AfterPlan(mt[m], unit)
  BY SMTT(30), Z3T(30)
<1>4. mt' = [mt EXCEPT ![m] = q] /\ RepoMoves /\ UNCHANGED <<settled, stray>>
  BY <1>1, <1>2, <1>3, QuietRepo DEF NextUnit, Quiet
<1>5. PassShaped(mt[m]) /\ mt[m].seen.head \in Nat /\ manifest.head \in Nat /\ SeenOK(mt[m])
  BY DEF MaintainerInv, RepoInv, PassShaped, Shaped, ServedInv
<1>6. q.seen.head \in Nat /\ SeenOK(q)
  <2>1. CASE unit = "idle" /\ ~mt[m].ckptOnly
    <3>1. q.seen = manifest
      BY <1>3, <2>1 DEF AfterPlan, Resting
    <3>2. Served
      BY <1>2, <2>1, IdleServed
    <3>3. manifest.head <= manifest.head
      BY <1>5, SMTT(30), Z3T(30)
    <3> QED
      BY <1>5, <3>1, <3>2, <3>3 DEF SeenOK, Covered
  <2>2. CASE mt[m].ckptOnly /\ unit \in {"fsck", "gc", "idle"}
    <3>1. q.seen = NewManifest /\ ~Idle(q)
      BY <1>3, <2>2 DEF AfterPlan, Resting, Idle
    <3> QED
      BY <3>1, NothingSeen, SMTT(30), Z3T(30)
  <2>3. CASE /\ ~(unit = "idle" /\ ~mt[m].ckptOnly)
             /\ ~(mt[m].ckptOnly /\ unit \in {"fsck", "gc", "idle"})
    <3>1. q.pc = "start" /\ q.seen = mt[m].seen
      BY <1>3, <1>5, <2>3, SMTT(30), Z3T(30) DEF AfterPlan, PassShaped
    <3> QED
      BY <1>5, <3>1, SMTT(30), Z3T(30) DEF SeenOK, Idle
  <2> QED
    BY <2>1, <2>2, <2>3
<1> QED
  BY <1>4, <1>6, ServedMoves

\* LIST, the start of a unit, the lease of a compaction, the HEAD of a marker.
LEMMA StartServed ==
  ASSUME MaintainerInv, MaintainerInv', ServedInv, NEW m \in Maintainers,
         ListPending(m) \/ StartUnit(m) \/ LeaseCompaction(m) \/ HeadMarker(m)
  PROVE  ServedInv'
<1>1. RepoMoves /\ UNCHANGED <<settled, stray>>
  BY QuietRepo DEF ListPending, StartUnit, LeaseCompaction, HeadMarker, Quiet
<1>2. PassShaped(mt[m]) /\ mt[m].seen.head \in Nat /\ manifest.head \in Nat /\ SeenOK(mt[m])
  BY SMTT(30), Z3T(30) DEF MaintainerInv, RepoInv, PassShaped, Shaped, ServedInv
<1>3. CASE Done(m) \/ Failed(m)
  BY <1>1, <1>3, EndServed, SMTT(30), Z3T(30)
<1>4. CASE mt' = [mt EXCEPT ![m] = [Resting EXCEPT !.pc = "plan"]]
  <2>1. PICK q : q = [Resting EXCEPT !.pc = "plan"]
    OBVIOUS
  <2>2. q.seen = NewManifest /\ ~Idle(q)
    BY <2>1, SMTT(30), Z3T(30) DEF Resting, Idle
  <2> QED
    BY <1>1, <1>4, <2>1, <2>2, NothingSeen, ServedMoves
<1>5. ASSUME NEW step \in {"lease", "work"}, mt' = [mt EXCEPT ![m].pc = step, ![m].seen = manifest]
      PROVE  ServedInv'
  <2>1. PICK q : q = [mt[m] EXCEPT !.pc = step, !.seen = manifest]
    BY SMTT(30), Z3T(30)
  <2>2. mt' = [mt EXCEPT ![m] = q]
    BY <1>5, <2>1 DEF MaintainerInv
  <2>3. ~Idle(q) /\ q.seen = manifest
    BY <1>2, <1>5, <2>1 DEF PassShaped, Idle
  <2>4. q.seen.head \in Nat /\ SeenOK(q)
    BY <1>2, <2>3, SMTT(30), Z3T(30) DEF SeenOK
  <2> QED
    BY <1>1, <2>2, <2>4, ServedMoves
<1>6. ASSUME NEW step \in {"work", "sent"}, mt' = [mt EXCEPT ![m].pc = step],
             step = "sent" => Idle(mt[m])
      PROVE  ServedInv'
  <2>1. PICK q : q = [mt[m] EXCEPT !.pc = step]
    OBVIOUS
  <2>2. mt' = [mt EXCEPT ![m] = q]
    BY <1>6, <2>1 DEF MaintainerInv
  <2>3. q.pc = step /\ q.seen = mt[m].seen
    BY <1>2, <2>1 DEF PassShaped
  <2>4. Idle(q) => Idle(mt[m])
    BY <1>6, <2>3 DEF Idle
  <2>5. q.seen.head \in Nat /\ SeenOK(q)
    BY <1>2, <2>3, <2>4 DEF SeenOK
  <2> QED
    BY <1>1, <2>2, <2>5, ServedMoves
<1>7. CASE HeadMarker(m)
  <2>1. CASE ~marker
    BY <1>3, <1>7, <2>1 DEF HeadMarker, Failed
  <2>2. CASE marker
    <3>1. mt' = [mt EXCEPT ![m].pc = "sent"] /\ Idle(mt[m])
      BY <1>7, <2>2 DEF HeadMarker, Idle, MaintainerInv
    <3> QED
      BY <1>6, <3>1
  <2> QED
    BY <2>1, <2>2
<1> QED
  BY <1>3, <1>4, <1>5, <1>6, <1>7 DEF ListPending, StartUnit, LeaseCompaction

\* A pass is abandoned, and its DELETE with it.
LEMMA AbandonServed ==
  ASSUME MaintainerInv, MaintainerInv', ServedInv, NEW m \in Maintainers, Abandon(m)
  PROVE  ServedInv'
<1>1. Failed(m) /\ UNCHANGED <<manifest, gc, settled>>
  BY DEF Abandon, repoVars
<1>2. manifest'.ckpt >= manifest.ckpt
  BY <1>1, SMTT(30), Z3T(30) DEF MaintainerInv, RepoInv, Shaped
<1>3. RepoMoves
  BY <1>1, <1>2 DEF RepoMoves
<1>4. ASSUME NEW h \in stray' PROVE h \in stray \/ Covered(h)
  <2>1. h \in stray \/ (Idle(mt[m]) /\ h = mt[m].seen.head)
    BY <1>4 DEF Abandon, Idle
  <2> QED
    BY <2>1 DEF ServedInv, SeenOK
<1> QED
  BY <1>1, <1>3, <1>4, EndServed

\* A unit ends.
LEMMA FinishServed ==
  ASSUME MaintainerInv, MaintainerInv', ServedInv, NEW m \in Maintainers, FinishUnit(m)
  PROVE  ServedInv'
<1>1. /\ UNCHANGED <<settled, stray>> /\ mt[m].pc = "work" /\ Shaped(manifest)
      /\ manifest.head \in Nat /\ manifest.ckpt \in Nat
  BY SMTT(30), Z3T(30) DEF FinishUnit, markVars, MaintainerInv, RepoInv, Shaped
<1>2. CASE Checkpoint(m)
  <2>1. PICK s : s = IF manifest.ckpt >= manifest.head THEN manifest.ckpt ELSE mt[m].seen.head
    BY SMTT(30), Z3T(30)
  <2>2. manifest' = [manifest EXCEPT !.ckpt = s] /\ Done(m) /\ Folding(mt[m]) /\ gc' = gc
    BY <1>1, <1>2, <2>1 DEF Checkpoint, Folding
  <2>3. s >= manifest.ckpt
    BY <1>1, <2>1, <2>2, SMTT(30), Z3T(30) DEF MaintainerInv, FoldOK, PassShaped, Shaped
  <2>4. /\ manifest'.head = manifest.head /\ manifest'.packs = manifest.packs
        /\ manifest'.ckpt = s
    BY <1>1, <2>2, SMTT(30), Z3T(30) DEF Shaped
  <2> QED
    BY <1>1, <2>2, <2>3, <2>4, EndServed DEF RepoMoves
<1>3. CASE Compact(m)
  <2>1. Done(m) /\ gc' = gc
    BY <1>3 DEF Compact
  <2>2. CASE UNCHANGED manifest
    <3>1. manifest'.ckpt >= manifest.ckpt
      BY <1>1, <2>2, SMTT(30), Z3T(30)
    <3> QED
      BY <1>1, <2>1, <2>2, <3>1, EndServed DEF RepoMoves
  <2>3. CASE manifest' # manifest
    <3> DEFINE sup == {p.id : p \in Rollup(mt[m].seen.packs)}
               new == [id |-> UNION sup, seq |-> manifest.head + 1, tier |-> 1,
                       size |-> Size(Rollup(mt[m].seen.packs))]
    <3>0. PICK ps : ps = {p \in manifest.packs : p.id \notin sup \cup {new.id}} \cup {new}
      OBVIOUS
    <3>1. manifest' = [manifest EXCEPT !.head = manifest.head + 1, !.packs = ps]
      BY <1>3, <2>3, <3>0 DEF Compact
    <3>2. manifest'.head = manifest.head + 1 /\ manifest'.packs = ps
      BY <1>1, <3>1 DEF Shaped
    <3>3. new.seq = manifest.head + 1
      BY SMTT(30), Z3T(30)
    <3>4. \A p \in ps : p \in manifest.packs \/ p.seq = manifest.head + 1
      BY <3>0, <3>3
    <3> QED
      BY <1>1, <2>1, <3>2, <3>4, EndServed DEF RepoMoves
  <2> QED
    BY <2>2, <2>3, SMTT(30), Z3T(30)
<1>4. CASE Fsck(m) \/ Gc(m)
  <2>1. gc' = gc \/ gc'.compact = CompactSeq(manifest)
    BY <1>4, SMTT(30), Z3T(30) DEF Fsck, Gc
  <2>2. UNCHANGED manifest /\ (Done(m) \/ Failed(m))
    BY <1>4 DEF Fsck, Gc
  <2>3. manifest'.ckpt >= manifest.ckpt
    BY <1>1, <2>2, SMTT(30), Z3T(30)
  <2> QED
    BY <1>1, <2>1, <2>2, <2>3, EndServed DEF RepoMoves
<1> QED
  BY <1>2, <1>3, <1>4 DEF FinishUnit

\* A marker is deleted for a plan that found nothing due.
LEMMA DeleteServed ==
  ASSUME MaintainerInv, ServedInv,
         NEW h \in Nat, Land(h), Covered(h), UNCHANGED <<manifest, gc, stray>>,
         \A m \in Maintainers : mt'[m] = mt[m] \/ mt'[m] = Resting
  PROVE  ServedInv'
<1>1. settled \in Nat
  BY DEF MaintainerInv, RepoInv
<1>2. settled' \in {settled, h}
  <2>1. \E x \in {settled, h} : \A y \in {settled, h} : x >= y
    BY <1>1, SMTT(30), Z3T(30)
  <2>2. Max({settled, h}) \in {settled, h}
    BY <2>1 DEF Max
  <2> QED
    BY <2>2 DEF Land
<1>3. Covered(settled')
  BY <1>2 DEF ServedInv
<1>4. Covered(settled)' /\ \A g \in stray' : Covered(g)'
  BY <1>3 DEF ServedInv, Covered, Served, EntriesDue, FoldDue, CompactSeq
<1>5. Resting.seen = NewManifest /\ ~Idle(Resting)
  BY SMTT(30), Z3T(30) DEF Resting, Idle
<1>6. SeenOK(Resting)
  BY <1>5, NothingSeen
<1>7. ASSUME NEW o \in Maintainers PROVE SeenOK(mt[o])'
  <2>1. SeenOK(mt'[o])
    BY <1>6 DEF ServedInv
  <2> QED
    BY <2>1 DEF SeenOK, Idle, Covered, Served, EntriesDue, FoldDue, CompactSeq
<1> QED
  BY <1>4, <1>7 DEF ServedInv

\* By its maintainer, or when nobody waits for it.
LEMMA LandServed ==
  ASSUME MaintainerInv, ServedInv, LandStray \/ \E m \in Maintainers : DeleteMarker(m)
  PROVE  ServedInv'
<1>1. CASE LandStray
  <2>1. PICK h \in stray : Land(h)
    BY <1>1 DEF LandStray
  <2>2. h \in Nat /\ Covered(h)
    BY DEF MaintainerInv, RepoInv, ServedInv
  <2>3. UNCHANGED <<manifest, gc, stray, mt>>
    BY <1>1 DEF LandStray, repoVars
  <2> QED
    BY <2>1, <2>2, <2>3, DeleteServed
<1>2. ASSUME NEW m \in Maintainers, DeleteMarker(m) PROVE ServedInv'
  <2>1. /\ UNCHANGED <<manifest, gc, stray>> /\ mt' = [mt EXCEPT ![m] = Resting]
        /\ Idle(mt[m]) /\ Land(mt[m].seen.head)
    BY <1>2 DEF DeleteMarker, repoVars, Idle
  <2>2. mt[m].seen.head \in Nat /\ Covered(mt[m].seen.head)
    BY <2>1 DEF MaintainerInv, PassShaped, Shaped, ServedInv, SeenOK
  <2>3. \A o \in Maintainers : mt'[o] = mt[o] \/ mt'[o] = Resting
    BY <2>1 DEF MaintainerInv
  <2> QED
    BY <2>1, <2>2, <2>3, DeleteServed
<1> QED
  BY <1>1, <1>2

\* Pushes and marks move no maintainer.
LEMMA StandServed ==
  ASSUME MaintainerInv, MaintainerInv', ServedInv, RepoMoves, UNCHANGED <<settled, stray, mt>>
  PROVE  ServedInv'
<1>1. settled \in Nat /\ stray' \in SUBSET Nat /\ \A o \in Maintainers : mt[o].seen.head \in Nat
  BY SMTT(30), Z3T(30) DEF MaintainerInv, RepoInv, PassShaped, Shaped
<1>2. \A h \in Nat : /\ h <= manifest.head => h <= manifest'.head
                     /\ Covered(h) => Covered(h)'
  BY CoveredStays
<1>3. Covered(settled)'
  BY <1>1, <1>2 DEF ServedInv, Covered
<1>4. ASSUME NEW o \in Maintainers PROVE SeenOK(mt[o])'
  <2>1. PICK h : h = mt[o].seen.head
    BY SMTT(30), Z3T(30)
  <2>2. h \in Nat /\ h <= manifest.head /\ (Idle(mt[o]) => Covered(h))
    BY <1>1, <2>1 DEF ServedInv, SeenOK
  <2>3. h <= manifest'.head /\ (Idle(mt[o]) => Covered(h)')
    BY <1>2, <2>2
  <2> QED
    BY <2>1, <2>3 DEF SeenOK, Covered, Idle
<1>5. \A h \in stray' : Covered(h)'
  BY <1>1, <1>2 DEF ServedInv
<1> QED
  BY <1>3, <1>4, <1>5, CoveredStays DEF ServedInv

\* A push is a new entry.
LEMMA PushServed ==
  ASSUME MaintainerInv, MaintainerInv', ServedInv, Push
  PROVE  ServedInv'
<1>1. UNCHANGED <<gc, settled, stray, mt>>
  BY DEF Push
<1>2. PICK size \in Sizes :
        manifest' = [manifest EXCEPT
          !.head = @ + 1,
          !.packs = @ \cup {[id |-> {manifest.head + 1}, seq |-> manifest.head + 1,
                             tier |-> 0, size |-> size]}]
  BY DEF Push
<1>3. PICK new : new = [id |-> {manifest.head + 1}, seq |-> manifest.head + 1,
                        tier |-> 0, size |-> size]
  OBVIOUS
<1>4. new.seq = manifest.head + 1
  BY <1>3, SMTT(30), Z3T(30)
<1>5. manifest'.head = manifest.head + 1 /\ manifest'.packs = manifest.packs \cup {new}
  BY <1>2, <1>3, SMTT(30), Z3T(30) DEF MaintainerInv, RepoInv, Shaped
<1> QED
  BY <1>1, <1>4, <1>5, StandServed DEF RepoMoves

\* Every step.
LEMMA ServedNext ==
  ASSUME MaintainerInv, MaintainerInv', ServedInv, [Next]_maintainerVars
  PROVE  ServedInv'
<1>1. CASE \/ UNCHANGED maintainerVars
           \/ \E s \in marking : MarkPending(s) \/ LoseMark(s)
  <2>1. UNCHANGED <<manifest, gc, settled, stray, mt>>
    BY <1>1 DEF maintainerVars, repoVars, markVars, MarkPending, LoseMark
  <2>2. manifest'.ckpt >= manifest.ckpt
    BY <2>1, SMTT(30), Z3T(30) DEF MaintainerInv, RepoInv, Shaped
  <2> QED
    BY <2>1, <2>2, StandServed DEF RepoMoves
<1>2. ASSUME NEW m \in Maintainers, ListPending(m) \/ PassStep(m) \/ Abandon(m) PROVE ServedInv'
  BY <1>2, NextUnitServed, StartServed, AbandonServed, FinishServed, LandServed DEF PassStep
<1> QED
  BY <1>1, <1>2, PushServed, LandServed DEF Next

\* Once the marker is gone, and until somebody commits an entry again, nothing that
\* entries make due is left (run_marker and next_unit), for any number of maintainers,
\* pushes, sizes and triggers, and whatever units overlap or are abandoned.
THEOREM NothingDue == Spec => []TriggersServed
<1>1. Init => ServedInv
  <2> SUFFICES ASSUME Init PROVE ServedInv
    BY SMTT(30), Z3T(30)
  <2>1. /\ manifest.head = 0 /\ manifest.ckpt = 0 /\ manifest.packs = {} /\ gc.compact = 0
        /\ settled = 0 /\ stray = {}
    BY SMTT(30), Z3T(30) DEF Init, NewManifest
  <2>2. ~EntriesDue(manifest)
    BY <2>1, MaintainerAssumption, SMTT(30), Z3T(30) DEF EntriesDue
  <2>3. {p \in manifest.packs : p.tier = 0} = {}
    BY <2>1
  <2>4. ~(Cardinality({}) >= 2)
    BY FS_EmptySet, SMTT(30), Z3T(30)
  <2>5. ~FoldDue(manifest)
    BY <2>3, <2>4 DEF FoldDue
  <2>6. CompactSeq(manifest) = 0
    <3>1. {0} \cup {p.seq : p \in {q \in manifest.packs : q.tier > 0}} = {0}
      BY <2>1
    <3>2. Max({0}) = 0
      BY MaxOfTwo, SMTT(30), Z3T(30) DEF Max
    <3> QED
      BY <3>1, <3>2 DEF CompactSeq
  <2>7. Covered(settled)
    BY <2>1, <2>2, <2>5, <2>6, SMTT(30), Z3T(30) DEF Covered, Served
  <2>8. ASSUME NEW m \in Maintainers PROVE SeenOK(mt[m])
    BY <2>1, SMTT(30), Z3T(30) DEF Init, Resting, NewManifest, SeenOK, Idle
  <2> QED
    BY <2>1, <2>7, <2>8, SMTT(30), Z3T(30) DEF ServedInv
<1>2. ServedInv => TriggersServed
  <2>1. ServedInv /\ manifest.head = settled => Served
    BY DEF ServedInv, Covered
  <2> QED
    BY <2>1 DEF Served, TriggersServed
<1>3. MaintainerInv /\ MaintainerInv' /\ ServedInv /\ [Next]_maintainerVars => ServedInv'
  BY ServedNext
<1>4. MaintainerInv /\ [Next]_maintainerVars => MaintainerInv'
  BY MaintainerNext, SMTT(30), Z3T(30)
<1> QED
  BY <1>1, <1>2, <1>3, <1>4, MaintainerInit, PTL DEF Spec
=============================================================================
