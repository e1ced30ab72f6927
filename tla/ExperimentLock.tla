--------------------------- MODULE ExperimentLock ---------------------------
(***************************************************************************)
(* What safety.ExperimentLock promises its callers (pkg/safety/mutex.go,   *)
(* interface ExperimentLock): at any moment one operator is owned by at    *)
(* most one experiment name, ownership passes from one name to another     *)
(* only through a free state, and a run that is entitled to rely on the    *)
(* lock is a run of the owning name.  LeaseLock is shown to implement this *)
(* module.  One operator; the locks of different operators share no state. *)
(***************************************************************************)
CONSTANTS Runs,    \* executions that call the lock
          Names,   \* experiment names, the lock's notion of identity
          NameOf,  \* the name each run passes as experimentName
          Free     \* no owner

VARIABLES owner,   \* the name that owns the operator, or Free
          inside   \* the runs entitled to rely on the lock

lockVars == <<owner, inside>>

LockInit == owner = Free /\ inside = {}

\* Acquire or Renew: the operator is free or already owned by r's own name.
Grant(r) == /\ owner \in {Free, NameOf[r]}
            /\ owner' = NameOf[r]
            /\ inside' \in {inside, inside \cup {r}}

\* A run stops relying on the lock (it released, lost or forgot it).
Leave(r) == /\ inside' = inside \ {r}
            /\ owner' = owner

\* The operator becomes free: Release, or the passing of time.  Nobody is
\* inside a free lock.
Vacate == owner' = Free /\ inside' = {}

LockNext == (\E r \in Runs : Grant(r) \/ Leave(r)) \/ Vacate

LockSpec == LockInit /\ [][LockNext]_lockVars
=============================================================================
