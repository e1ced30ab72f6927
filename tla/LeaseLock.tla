------------------------------ MODULE LeaseLock ------------------------------
(***************************************************************************)
(* LeaseExperimentLock (pkg/safety/lease.go): the experiment lock of one   *)
(* operator as a Kubernetes Lease object.  Acquire, Renew and Release are  *)
(* sequences of API calls, and every call is a step of its own, so the     *)
(* calls of several runs interleave.                                       *)
(*                                                                         *)
(* The API server keeps `log', the versions the Lease object has had; a    *)
(* resourceVersion is a position in it.  Get returns a version, an Update  *)
(* or a Delete carrying a resourceVersion succeeds only if that version is *)
(* still the last one.  A run of the CLI reads the API server; a run of    *)
(* the controller reads the informer cache of mgr.GetClient(), which may   *)
(* return any version not older than the last one it returned.             *)
(*                                                                         *)
(* A call that was applied but whose answer was lost leaves the state that *)
(* the call followed by Crash leaves.  Clocks are synchronised; `stamp' is *)
(* the time a run read before it sent a write, which may be in the past    *)
(* when the write is applied.                                              *)
(***************************************************************************)
EXTENDS Integers, Sequences

CONSTANTS Runs,        \* executions of experiments against the operator
          Names,       \* experiment names
          NameOf,      \* the experimentName a run passes
          Free,        \* no holder
          Want,        \* the leaseDuration a run asks for
          MinDuration, \* DefaultLeaseDurationSeconds
          Cached,      \* the runs that read through the informer cache
          MaxTime,     \* bound of the clock
          MaxVersions  \* bound of the Lease's version history

ASSUME LeaseAssumption ==
    /\ NameOf \in [Runs -> Names]
    /\ Free \notin Names
    /\ Want \in [Runs -> Nat]
    /\ MinDuration \in Nat
    /\ Cached \subseteq Runs
    /\ MaxTime \in Nat
    /\ MaxVersions \in Nat

VARIABLES log,      \* versions of the Lease, the last one current
          now,      \* the clock
          pc,       \* the API call each run is about to make
          snap,     \* the version its last Get returned
          stamp,    \* the time it read for its next write
          believes, \* Acquire (or Renew) told the run that it holds the lock
          tenure    \* until when its last confirmed write keeps the lease alive

vars == <<log, now, pc, snap, stamp, believes, tenure>>

-----------------------------------------------------------------------------
NoTime == -1
NoLease == [holder |-> Free, dur |-> 0, acquired |-> 0, renewed |-> NoTime]
Lease == [holder : Names \cup {Free}, dur : Nat, acquired : Nat,
          renewed : Nat \cup {NoTime}]

Cur == log[Len(log)]

Duration(r) == IF Want[r] > MinDuration THEN Want[r] ELSE MinDuration

\* Definitions named after a slip (IgnoresRenewal, Early, Unchecked,
\* Unconditional) are faulty variants of the one that follows: each makes a
\* property below fail.
LastActiveIgnoresRenewal(l) == l.acquired

\* The last active time: RenewTime when present, otherwise AcquireTime.
LastActive(l) == IF l.renewed # NoTime THEN l.renewed ELSE l.acquired
Expiry(l) == LastActive(l) + l.dur
IsExpiredEarly(l) == now >= Expiry(l)
IsExpired(l) == now > Expiry(l)

\* What a Get of run r may return.
Readable(r) == IF r \in Cached THEN snap[r]..Len(log) ELSE {Len(log)}

\* A write of run r, guarded by the resourceVersion it read.
Unchanged(r) == snap[r] = Len(log)
Put(l) == log' = Append(log, l)
CanPut == Len(log) < MaxVersions

Goto(r, step) == pc' = [pc EXCEPT ![r] = step]

TypeOK ==
    /\ log \in Seq(Lease)
    /\ Len(log) > 0
    /\ now \in Nat
    /\ pc \in [Runs -> {"ready", "create", "get", "reclaim", "renew", "delete"}]
    /\ snap \in [Runs -> Nat \ {0}]
    /\ \A r \in Runs : snap[r] <= Len(log)
    /\ stamp \in [Runs -> Nat]
    /\ believes \in [Runs -> BOOLEAN]
    /\ tenure \in [Runs -> Nat \cup {NoTime}]

Init ==
    /\ log = <<NoLease>>
    /\ now = 0
    /\ pc = [r \in Runs |-> "ready"]
    /\ snap = [r \in Runs |-> 1]
    /\ stamp = [r \in Runs |-> 0]
    /\ believes = [r \in Runs |-> FALSE]
    /\ tenure = [r \in Runs |-> NoTime]

-----------------------------------------------------------------------------
(* Acquire *)

\* Acquire reads the clock and builds the Lease it will try to create.
AcquireStart(r) ==
    /\ pc[r] = "ready"
    /\ ~believes[r]
    /\ stamp' = [stamp EXCEPT ![r] = now]
    /\ Goto(r, "create")
    /\ UNCHANGED <<log, now, snap, believes, tenure>>

\* Create succeeds when there is no Lease.
Create(r) ==
    /\ pc[r] = "create"
    /\ Cur = NoLease
    /\ CanPut
    /\ Put([holder |-> NameOf[r], dur |-> Duration(r),
            acquired |-> stamp[r], renewed |-> NoTime])
    /\ believes' = [believes EXCEPT ![r] = TRUE]
    /\ tenure' = [tenure EXCEPT ![r] = stamp[r] + Duration(r)]
    /\ Goto(r, "ready")
    /\ UNCHANGED <<now, snap, stamp>>

\* AlreadyExists: look at the Lease that is there.
CreateExists(r) ==
    /\ pc[r] = "create"
    /\ Cur # NoLease
    /\ Goto(r, "get")
    /\ UNCHANGED <<log, now, snap, stamp, believes, tenure>>

\* Self-re-acquire: the Lease names this experiment; its times are not
\* touched.  What a cached read says of the expiry confirms nothing.
AcquireOwn(r) ==
    /\ pc[r] = "get"
    /\ \E i \in Readable(r) :
         /\ log[i].holder = NameOf[r]
         /\ snap' = [snap EXCEPT ![r] = i]
         /\ tenure' = [tenure EXCEPT ![r] =
                         IF r \in Cached THEN NoTime ELSE Expiry(log[i])]
    /\ believes' = [believes EXCEPT ![r] = TRUE]
    /\ Goto(r, "ready")
    /\ UNCHANGED <<log, now, stamp>>

\* The Lease of another experiment has expired: reclaim it in place.
AcquireExpired(r) ==
    /\ pc[r] = "get"
    /\ \E i \in Readable(r) :
         /\ log[i].holder \notin {Free, NameOf[r]}
         /\ IsExpired(log[i])
         /\ snap' = [snap EXCEPT ![r] = i]
    /\ stamp' = [stamp EXCEPT ![r] = now]
    /\ Goto(r, "reclaim")
    /\ UNCHANGED <<log, now, believes, tenure>>

\* ErrLockContention, or the Lease vanished between Create and Get.
AcquireRefused(r) ==
    /\ pc[r] = "get"
    /\ \E i \in Readable(r) :
         /\ \/ log[i] = NoLease
            \/ log[i].holder # NameOf[r] /\ ~IsExpired(log[i])
         /\ snap' = [snap EXCEPT ![r] = i]
    /\ Goto(r, "ready")
    /\ UNCHANGED <<log, now, stamp, believes, tenure>>

\* The reclaiming Update; a conflict fails the Acquire.
Reclaim(r) ==
    /\ pc[r] = "reclaim"
    /\ Goto(r, "ready")
    /\ UNCHANGED <<now, snap, stamp>>
    /\ \/ /\ Unchanged(r)
          /\ CanPut
          /\ Put([holder |-> NameOf[r], dur |-> Duration(r),
                  acquired |-> stamp[r], renewed |-> NoTime])
          /\ believes' = [believes EXCEPT ![r] = TRUE]
          /\ tenure' = [tenure EXCEPT ![r] = stamp[r] + Duration(r)]
       \/ /\ ~Unchanged(r)
          /\ UNCHANGED <<log, believes, tenure>>

-----------------------------------------------------------------------------
(* Renew.  A CLI run renews and releases only what its Acquire obtained; a *)
(* controller also does after a restart, when all it knows of the lock is  *)
(* the experiment's persisted phase.                                       *)

MayHold(r) == believes[r] \/ r \in Cached

RenewGetUnchecked(r) ==
    /\ pc[r] = "ready"
    /\ MayHold(r)
    /\ \E i \in Readable(r) : snap' = [snap EXCEPT ![r] = i]
    /\ stamp' = [stamp EXCEPT ![r] = now]
    /\ Goto(r, "renew")
    /\ UNCHANGED <<log, now, believes, tenure>>

RenewGet(r) ==
    /\ pc[r] = "ready"
    /\ MayHold(r)
    /\ \E i \in Readable(r) :
         /\ log[i].holder = NameOf[r]
         /\ snap' = [snap EXCEPT ![r] = i]
    /\ stamp' = [stamp EXCEPT ![r] = now]
    /\ Goto(r, "renew")
    /\ UNCHANGED <<log, now, believes, tenure>>

\* ErrLockNotFound or ErrHolderMismatch: the run gives the lock up.
RenewLost(r) ==
    /\ pc[r] = "ready"
    /\ believes[r]
    /\ \E i \in Readable(r) :
         /\ log[i].holder # NameOf[r]
         /\ snap' = [snap EXCEPT ![r] = i]
    /\ believes' = [believes EXCEPT ![r] = FALSE]
    /\ UNCHANGED <<log, now, pc, stamp, tenure>>

\* The Update that carries the new RenewTime; a conflict leaves the run with
\* what it knew.
RenewPut(r) ==
    /\ pc[r] = "renew"
    /\ Goto(r, "ready")
    /\ UNCHANGED <<now, snap, stamp>>
    /\ \/ /\ Unchanged(r)
          /\ CanPut
          /\ Put([log[snap[r]] EXCEPT !.renewed = stamp[r]])
          /\ believes' = [believes EXCEPT ![r] = TRUE]
          /\ tenure' = [tenure EXCEPT ![r] = stamp[r] + log[snap[r]].dur]
       \/ /\ ~Unchanged(r)
          /\ UNCHANGED <<log, believes, tenure>>

-----------------------------------------------------------------------------
(* Release: the run no longer relies on the lock from here on.  A Release  *)
(* that finds no Lease, or another's, changes nothing (RenewLost is the    *)
(* same step: the run learns that it does not hold the lock).              *)

ReleaseGet(r) ==
    /\ pc[r] = "ready"
    /\ MayHold(r)
    /\ \E i \in Readable(r) :
         /\ log[i].holder = NameOf[r]
         /\ snap' = [snap EXCEPT ![r] = i]
    /\ believes' = [believes EXCEPT ![r] = FALSE]
    /\ Goto(r, "delete")
    /\ UNCHANGED <<log, now, stamp, tenure>>

ReleaseDeleteUnconditional(r) ==
    /\ pc[r] = "delete"
    /\ Goto(r, "ready")
    /\ UNCHANGED <<now, snap, stamp, believes, tenure>>
    /\ CanPut
    /\ Put(NoLease)

\* Delete with the resourceVersion as a precondition.
ReleaseDelete(r) ==
    /\ pc[r] = "delete"
    /\ Goto(r, "ready")
    /\ UNCHANGED <<now, snap, stamp, believes, tenure>>
    /\ \/ Unchanged(r) /\ CanPut /\ Put(NoLease)
       \/ ~Unchanged(r) /\ UNCHANGED log

-----------------------------------------------------------------------------
(* Environment *)

\* The process of r dies, or a call of it fails, at any point.
Crash(r) ==
    /\ pc[r] # "ready" \/ believes[r]
    /\ Goto(r, "ready")
    /\ believes' = [believes EXCEPT ![r] = FALSE]
    /\ UNCHANGED <<log, now, snap, stamp, tenure>>

Tick ==
    /\ now < MaxTime
    /\ now' = now + 1
    /\ UNCHANGED <<log, pc, snap, stamp, believes, tenure>>

Step(r) ==
    \/ AcquireStart(r) \/ Create(r) \/ CreateExists(r)
    \/ AcquireOwn(r) \/ AcquireExpired(r) \/ AcquireRefused(r) \/ Reclaim(r)
    \/ RenewGet(r) \/ RenewLost(r) \/ RenewPut(r)
    \/ ReleaseGet(r) \/ ReleaseDelete(r)
    \/ Crash(r)

Next == Tick \/ \E r \in Runs : Step(r)

Spec == Init /\ [][Next]_vars

-----------------------------------------------------------------------------
(* Properties *)

\* A run may rely on the lock: it was told that it holds it, and the lease
\* time its own last write bought has not run out.
Entitled(r) == believes[r] /\ now <= tenure[r]

LiveOwner == IF Cur = NoLease \/ IsExpired(Cur) THEN Free ELSE Cur.holder

Lock == INSTANCE ExperimentLock
            WITH owner <- LiveOwner, inside <- {r \in Runs : Entitled(r)}

\* The inductive invariant behind the lock.  A run that is entitled is the
\* holder of the current version, which outlives its entitlement; a reclaim
\* under way targets a version that has expired (and stays expired, since a
\* renewal would be a new version); a renewal or deletion under way targets a
\* version that names the run's own experiment.
EntitledHold == \A r \in Runs : Entitled(r) => /\ Cur.holder = NameOf[r]
                                              /\ tenure[r] <= Expiry(Cur)
CallsGuarded ==
    \A r \in Runs :
        /\ pc[r] = "reclaim" => IsExpired(log[snap[r]])
        /\ pc[r] \in {"renew", "delete"} => log[snap[r]].holder = NameOf[r]
        /\ pc[r] = "delete" => ~believes[r]
LeaseInv == TypeOK /\ EntitledHold /\ CallsGuarded

\* No two runs use one experiment name.
DistinctNames == \A r, s \in Runs : NameOf[r] = NameOf[s] => r = s

\* Two runs are never entitled to the operator at the same time, however the
\* calls of Acquire, Renew and Release interleave with expiry and crashes
\* (lease.go: "Only one experiment per operator can run across all
\* instances").
OneRunPerOperator == \A r, s \in Runs : Entitled(r) /\ Entitled(s) => r = s

\* A Release never removes a Lease that another experiment has taken over
\* between the Release's Get and its Delete.
NoForeignDelete ==
    [][Cur # NoLease /\ Cur' = NoLease
         => \E r \in Runs : pc[r] = "delete" /\ NameOf[r] = Cur.holder]_vars

\* The Lease implements the lock its callers were promised.
ImplementsLock == Lock!LockSpec
=============================================================================
