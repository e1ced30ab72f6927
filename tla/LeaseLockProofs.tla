--------------------------- MODULE LeaseLockProofs ---------------------------
(***************************************************************************)
(* Proofs about LeaseLock, for any set of runs, any durations, any mix of  *)
(* cached and direct readers and no bound on time or versions other than   *)
(* the guards' own.                                                        *)
(***************************************************************************)
EXTENDS LeaseLock, TLAPS

\* What a write leaves behind: one more version, the old ones untouched.
LEMMA PutLemma ==
    ASSUME NEW l \in Lease, log \in Seq(Lease), Len(log) > 0, Put(l)
    PROVE  /\ log' \in Seq(Lease)
           /\ Len(log') = Len(log) + 1
           /\ Cur' = l
           /\ \A i \in 1..Len(log) : log'[i] = log[i]
    BY DEF Put, Cur

\* The durations a run asks for are naturals.
LEMMA DurationType == \A r \in Runs : Duration(r) \in Nat
    BY LeaseAssumption DEF Duration

LEMMA NoLeaseType == NoLease \in Lease
    BY DEF NoLease, Lease, NoTime

\* Every version has an integer expiry.
LEMMA ExpiryType == \A l \in Lease : Expiry(l) \in Int
    BY DEF Expiry, LastActive, Lease, NoTime

\* The Lease a run writes when it creates or reclaims.
LEMMA FreshLease ==
    ASSUME TypeOK, NEW r \in Runs
    PROVE  LET l == [holder |-> NameOf[r], dur |-> Duration(r),
                     acquired |-> stamp[r], renewed |-> NoTime]
           IN  l \in Lease /\ Expiry(l) = stamp[r] + Duration(r)
    BY DurationType, LeaseAssumption DEF TypeOK, Lease, Expiry, LastActive, NoTime

\* The Lease a run writes when it renews the version it read.
LEMMA RenewedLease ==
    ASSUME TypeOK, NEW r \in Runs
    PROVE  LET l == [log[snap[r]] EXCEPT !.renewed = stamp[r]]
           IN  /\ l \in Lease
               /\ l.holder = log[snap[r]].holder
               /\ Expiry(l) = stamp[r] + log[snap[r]].dur
               /\ stamp[r] + log[snap[r]].dur \in Nat
    <1>1. log[snap[r]] \in Lease
        BY DEF TypeOK
    <1>2. stamp[r] \in Nat
        BY DEF TypeOK
    <1> QED
        BY <1>1, <1>2 DEF Lease, Expiry, LastActive, NoTime

-----------------------------------------------------------------------------
(* Type correctness *)

LEMMA TypeInit == Init => TypeOK
    BY NoLeaseType DEF Init, TypeOK, NoTime

\* The steps that write no version.
LEMMA TypeReads ==
    ASSUME TypeOK, NEW r \in Runs,
           \/ AcquireStart(r) \/ CreateExists(r) \/ AcquireOwn(r)
           \/ AcquireExpired(r) \/ AcquireRefused(r)
           \/ RenewGet(r) \/ RenewLost(r) \/ ReleaseGet(r) \/ Crash(r)
    PROVE  TypeOK'
    <1>1. CASE AcquireStart(r)
        BY <1>1 DEF TypeOK, AcquireStart, Goto
    <1>2. CASE CreateExists(r)
        BY <1>2 DEF TypeOK, CreateExists, Goto
    <1>a. \A i \in Readable(r) : i \in Nat \ {0} /\ i <= Len(log)
        BY DEF TypeOK, Readable
    <1>3. CASE AcquireOwn(r)
        <2>1. PICK i \in Readable(r) :
                 /\ log[i].holder = NameOf[r]
                 /\ snap' = [snap EXCEPT ![r] = i]
                 /\ tenure' = [tenure EXCEPT ![r] =
                         IF r \in Cached THEN NoTime ELSE Expiry(log[i])]
            BY <1>3 DEF AcquireOwn
        <2>2. log[i] \in Lease
            BY <1>a DEF TypeOK
        <2>3. Expiry(log[i]) \in Nat \cup {NoTime}
            BY <2>2 DEF Expiry, LastActive, Lease, NoTime
        <2> QED
            BY <1>3, <1>a, <2>1, <2>3 DEF TypeOK, AcquireOwn, Goto
    <1>4. CASE AcquireExpired(r)
        BY <1>4, <1>a DEF TypeOK, AcquireExpired, Goto
    <1>5. CASE AcquireRefused(r)
        BY <1>5, <1>a DEF TypeOK, AcquireRefused, Goto
    <1>6. CASE RenewGet(r)
        BY <1>6, <1>a DEF TypeOK, RenewGet, Goto
    <1>7. CASE RenewLost(r)
        BY <1>7, <1>a DEF TypeOK, RenewLost
    <1>8. CASE ReleaseGet(r)
        BY <1>8, <1>a DEF TypeOK, ReleaseGet, Goto
    <1>9. CASE Crash(r)
        BY <1>9 DEF TypeOK, Crash, Goto
    <1> QED
        BY <1>1, <1>2, <1>3, <1>4, <1>5, <1>6, <1>7, <1>8, <1>9

\* A run's successful write of l, which buys it the lock until t.
LEMMA TypeGranted ==
    ASSUME TypeOK, NEW r \in Runs, NEW l \in Lease, NEW t \in Nat,
           Put(l), Goto(r, "ready"), UNCHANGED <<now, snap, stamp>>,
           believes' = [believes EXCEPT ![r] = TRUE],
           tenure' = [tenure EXCEPT ![r] = t]
    PROVE  TypeOK'
    <1>1. /\ log' \in Seq(Lease)
          /\ Len(log') = Len(log) + 1
        BY PutLemma DEF TypeOK
    <1>2. Len(log') > 0 /\ \A s \in Runs : snap'[s] <= Len(log')
        BY <1>1 DEF TypeOK
    <1>3. /\ now' \in Nat
          /\ snap' \in [Runs -> Nat \ {0}]
          /\ stamp' \in [Runs -> Nat]
        BY DEF TypeOK
    <1>4. /\ pc' \in [Runs -> {"ready", "create", "get", "reclaim", "renew", "delete"}]
          /\ believes' \in [Runs -> BOOLEAN]
        BY DEF TypeOK, Goto
    <1>5. tenure' \in [Runs -> Nat \cup {NoTime}]
        BY DEF TypeOK
    <1> QED
        BY <1>1, <1>2, <1>3, <1>4, <1>5 DEF TypeOK

\* The steps that write a version.
LEMMA TypeWrites ==
    ASSUME TypeOK, NEW r \in Runs,
           Create(r) \/ Reclaim(r) \/ RenewPut(r) \/ ReleaseDelete(r)
    PROVE  TypeOK'
    <1> DEFINE f == [holder |-> NameOf[r], dur |-> Duration(r),
                     acquired |-> stamp[r], renewed |-> NoTime]
               l == [log[snap[r]] EXCEPT !.renewed = stamp[r]]
    <1>a. f \in Lease /\ stamp[r] + Duration(r) \in Nat
        BY FreshLease, DurationType DEF TypeOK
    <1>b. l \in Lease /\ stamp[r] + log[snap[r]].dur \in Nat
        BY RenewedLease
    <1>1. CASE Create(r)
        <2>1. Put(f) /\ tenure' = [tenure EXCEPT ![r] = stamp[r] + Duration(r)]
            BY <1>1 DEF Create
        <2> HIDE DEF f
        <2> QED
            BY <1>1, <1>a, <2>1, TypeGranted DEF Create
    <1>2. CASE Reclaim(r) /\ Unchanged(r)
        <2>1. Put(f) /\ tenure' = [tenure EXCEPT ![r] = stamp[r] + Duration(r)]
            BY <1>2 DEF Reclaim
        <2> HIDE DEF f
        <2> QED
            BY <1>2, <1>a, <2>1, TypeGranted DEF Reclaim
    <1>3. CASE Reclaim(r) /\ ~Unchanged(r)
        BY <1>3 DEF TypeOK, Reclaim, Goto
    <1>4. CASE RenewPut(r) /\ Unchanged(r)
        <2>1. Put(l) /\ tenure' = [tenure EXCEPT ![r] = stamp[r] + log[snap[r]].dur]
            BY <1>4 DEF RenewPut
        <2> HIDE DEF l
        <2> QED
            BY <1>4, <1>b, <2>1, TypeGranted DEF RenewPut
    <1>5. CASE RenewPut(r) /\ ~Unchanged(r)
        BY <1>5 DEF TypeOK, RenewPut, Goto
    <1>6. CASE ReleaseDelete(r)
        BY <1>6, PutLemma, NoLeaseType DEF TypeOK, ReleaseDelete, Goto
    <1> QED
        BY <1>1, <1>2, <1>3, <1>4, <1>5, <1>6

\* A step writes at most one version and takes no time.
LEMMA OneWrite ==
    ASSUME TypeOK, NEW r \in Runs, Step(r)
    PROVE  now' = now /\ (log' = log \/ \E l \in Lease : Put(l))
    <1>1. now' = now
        BY DEF Step, AcquireStart, Create, CreateExists, AcquireOwn,
               AcquireExpired, AcquireRefused, Reclaim, RenewGet, RenewLost,
               RenewPut, ReleaseGet, ReleaseDelete, Crash
    <1>2. log' = log \/ Create(r) \/ Reclaim(r) \/ RenewPut(r) \/ ReleaseDelete(r)
        BY DEF Step, AcquireStart, CreateExists, AcquireOwn, AcquireExpired,
               AcquireRefused, RenewGet, RenewLost, ReleaseGet, Crash
    <1>3. CASE Create(r) \/ Reclaim(r)
        BY <1>3, FreshLease DEF Create, Reclaim
    <1>4. CASE RenewPut(r)
        BY <1>4, RenewedLease DEF RenewPut
    <1>5. CASE ReleaseDelete(r)
        BY <1>5, NoLeaseType DEF ReleaseDelete
    <1> QED
        BY <1>1, <1>2, <1>3, <1>4, <1>5

LEMMA TypeNext == TypeOK /\ [Next]_vars => TypeOK'
    <1> SUFFICES ASSUME TypeOK, [Next]_vars PROVE TypeOK'
        OBVIOUS
    <1>1. CASE Tick
        BY <1>1 DEF TypeOK, Tick
    <1>2. ASSUME NEW r \in Runs, Step(r) PROVE TypeOK'
        BY <1>2, TypeReads, TypeWrites DEF Step
    <1>3. CASE UNCHANGED vars
        BY <1>3 DEF TypeOK, vars
    <1> QED
        BY <1>1, <1>2, <1>3 DEF Next

\* Every reachable state of the lease lock is well typed.
THEOREM TypeCorrect == Spec => []TypeOK
    BY TypeInit, TypeNext, PTL DEF Spec

-----------------------------------------------------------------------------
(* What a call under way knows of the version it is guarded by *)

CallGuarded(r) ==
    /\ pc[r] = "reclaim" => IsExpired(log[snap[r]])
    /\ pc[r] \in {"renew", "delete"} => log[snap[r]].holder = NameOf[r]
    /\ pc[r] = "delete" => ~believes[r]

\* A step that leaves a run's call alone, does not rewrite history and does
\* not turn the clock back keeps what the call knows.
LEMMA GuardStable ==
    ASSUME TypeOK, TypeOK', NEW r \in Runs, CallGuarded(r),
           pc'[r] = pc[r], snap'[r] = snap[r], now <= now',
           believes'[r] => believes[r],
           \A i \in 1..Len(log) : log'[i] = log[i]
    PROVE  CallGuarded(r)'
    <1>1. log'[snap'[r]] = log[snap[r]] /\ log[snap[r]] \in Lease
        BY DEF TypeOK
    <1>2. IsExpired(log[snap[r]]) => IsExpired(log[snap[r]])'
        BY <1>1, ExpiryType DEF IsExpired, TypeOK, Expiry, LastActive
    <1> QED
        BY <1>1, <1>2 DEF CallGuarded

LEMMA GuardNext == TypeOK /\ CallsGuarded /\ [Next]_vars => CallsGuarded'
    <1> SUFFICES ASSUME TypeOK, CallsGuarded, [Next]_vars PROVE CallsGuarded'
        OBVIOUS
    <1>t. TypeOK'
        BY TypeNext
    <1>g. \A r \in Runs : CallGuarded(r)
        BY DEF CallsGuarded, CallGuarded
    <1> SUFFICES \A r \in Runs : CallGuarded(r)'
        BY DEF CallsGuarded, CallGuarded, IsExpired, Expiry, LastActive
    <1> TAKE s \in Runs
    <1>1. CASE Tick
        BY <1>1, <1>t, <1>g, GuardStable DEF Tick, TypeOK
    <1>2. CASE UNCHANGED vars
        BY <1>2, <1>t, <1>g, GuardStable DEF vars, TypeOK
    <1>3. ASSUME NEW r \in Runs, Step(r) PROVE CallGuarded(s)'
        <2>1. now' = now /\ \A i \in 1..Len(log) : log'[i] = log[i]
            BY <1>3, OneWrite, PutLemma DEF TypeOK
        <2>2. CASE s # r
            <3>1. /\ pc'[s] = pc[s]
                  /\ snap'[s] = snap[s]
                  /\ believes'[s] => believes[s]
                BY <1>3, <2>2 DEF Step, AcquireStart, Create, CreateExists,
                     AcquireOwn, AcquireExpired, AcquireRefused, Reclaim, RenewGet,
                     RenewLost, RenewPut, ReleaseGet, ReleaseDelete, Crash, Goto, TypeOK
            <3>2. now <= now' /\ CallGuarded(s)
                BY <1>g, <2>1 DEF TypeOK
            <3> QED
                BY <1>t, <2>1, <3>1, <3>2, GuardStable
        <2>3. CASE s = r /\ AcquireExpired(r)
            <3>1. PICK i \in Readable(r) : /\ IsExpired(log[i])
                                           /\ snap' = [snap EXCEPT ![r] = i]
                BY <2>3 DEF AcquireExpired
            <3>2. /\ pc'[r] = "reclaim"
                  /\ snap'[r] = i
                  /\ log' = log
                BY <2>3, <3>1 DEF AcquireExpired, Goto, TypeOK
            <3> QED
                BY <2>1, <2>3, <3>1, <3>2 DEF CallGuarded, IsExpired, Expiry, LastActive
        <2>4. CASE s = r /\ (RenewGet(r) \/ ReleaseGet(r))
            <3>1. PICK i \in Readable(r) : /\ log[i].holder = NameOf[r]
                                           /\ snap' = [snap EXCEPT ![r] = i]
                BY <2>4 DEF RenewGet, ReleaseGet
            <3>2. /\ pc'[r] \in {"renew", "delete"}
                  /\ pc'[r] = "delete" => ~believes'[r]
                  /\ snap'[r] = i
                  /\ log' = log
                BY <2>4, <3>1 DEF RenewGet, ReleaseGet, Goto, TypeOK
            <3> QED
                BY <2>4, <3>1, <3>2 DEF CallGuarded
        <2>5. CASE s = r /\ ~AcquireExpired(r) /\ ~RenewGet(r) /\ ~ReleaseGet(r)
            <3>1. pc'[r] \in {"ready", "create", "get"}
                BY <1>3, <2>5 DEF Step, AcquireStart, Create, CreateExists,
                     AcquireOwn, AcquireRefused, Reclaim, RenewLost, RenewPut,
                     ReleaseDelete, Crash, Goto, TypeOK
            <3> QED
                BY <2>5, <3>1 DEF CallGuarded
        <2> QED
            BY <2>2, <2>3, <2>4, <2>5
    <1> QED
        BY <1>1, <1>2, <1>3 DEF Next

\* Every guarded write under way targets a version it is right about.
THEOREM CallsAreGuarded == Spec => [](TypeOK /\ CallsGuarded)
    <1>1. Init => TypeOK /\ CallsGuarded
        BY TypeInit DEF Init, CallsGuarded
    <1>2. TypeOK /\ CallsGuarded /\ [Next]_vars => (TypeOK /\ CallsGuarded)'
        BY TypeNext, GuardNext
    <1> QED
        BY <1>1, <1>2, PTL DEF Spec

\* A Release never removes the Lease of another experiment: its Delete is
\* conditional on the version whose holder it checked.
THEOREM ReleaseRemovesOwn == Spec => NoForeignDelete
    <1> DEFINE Removal == Cur # NoLease /\ Cur' = NoLease
                 => \E r \in Runs : pc[r] = "delete" /\ NameOf[r] = Cur.holder
    <1>1. TypeOK /\ CallsGuarded /\ [Next]_vars => [Removal]_vars
        <2> SUFFICES ASSUME TypeOK, CallsGuarded, Next, Cur # NoLease, Cur' = NoLease
                     PROVE  \E r \in Runs : pc[r] = "delete" /\ NameOf[r] = Cur.holder
            OBVIOUS
        <2>1. log' # log
            BY DEF Cur
        <2>2. PICK r \in Runs : Step(r)
            BY <2>1 DEF Next, Tick
        <2>3. Create(r) \/ Reclaim(r) \/ RenewPut(r) \/ ReleaseDelete(r)
            BY <2>1, <2>2 DEF Step, AcquireStart, CreateExists, AcquireOwn,
                 AcquireExpired, AcquireRefused, RenewGet, RenewLost, ReleaseGet, Crash
        <2>4. ASSUME NEW l \in Lease, Put(l) PROVE l.holder = Free
            BY <2>4, PutLemma DEF TypeOK, NoLease
        <2>5. NameOf[r] # Free
            BY LeaseAssumption
        <2>6. ~Create(r) /\ ~Reclaim(r)
            BY <2>1, <2>4, <2>5, FreshLease DEF Create, Reclaim
        <2>7. ~RenewPut(r)
            BY <2>1, <2>4, <2>5, RenewedLease DEF RenewPut, CallsGuarded
        <2>8. ReleaseDelete(r) /\ Unchanged(r)
            BY <2>1, <2>3, <2>6, <2>7 DEF ReleaseDelete
        <2> QED
            BY <2>8 DEF ReleaseDelete, Unchanged, CallsGuarded, Cur
    <1> QED
        BY <1>1, CallsAreGuarded, PTL DEF Spec, NoForeignDelete

-----------------------------------------------------------------------------
(* Mutual exclusion: an entitled run is the holder of the current version,  *)
(* and that version outlives the entitlement.  From here on the names of    *)
(* the runs are distinct.                                                   *)

\* A write of l by r, which gives r the lock until the expiry of l, when no
\* other run is entitled.
LEMMA EntitledGranted ==
    ASSUME TypeOK, TypeOK', NEW r \in Runs, NEW l \in Lease, Put(l), now' = now,
           l.holder = NameOf[r],
           believes' = [believes EXCEPT ![r] = TRUE],
           tenure' = [tenure EXCEPT ![r] = Expiry(l)],
           \A s \in Runs : Entitled(s) => s = r
    PROVE  EntitledHold'
    <1>1. Cur' = l
        BY PutLemma DEF TypeOK
    <1>2. Expiry(Cur') = Expiry(l) /\ Expiry(l) \in Int
        BY <1>1, ExpiryType
    <1>3. ASSUME NEW s \in Runs, Entitled(s)' PROVE s = r
        <2>1. CASE s # r
            BY <1>3, <2>1 DEF Entitled, TypeOK
        <2> QED
            BY <2>1
    <1>4. tenure'[r] = Expiry(l)
        BY DEF TypeOK
    <1>5. Expiry(Cur)' = Expiry(Cur')
        BY DEF Expiry, LastActive
    <1> QED
        BY <1>1, <1>2, <1>3, <1>4, <1>5 DEF EntitledHold

LEMMA EntitledNext ==
    DistinctNames /\ LeaseInv /\ [Next]_vars => EntitledHold'
    <1> SUFFICES ASSUME DistinctNames, LeaseInv, [Next]_vars PROVE EntitledHold'
        OBVIOUS
    <1>t. TypeOK /\ CallsGuarded /\ EntitledHold
        BY DEF LeaseInv
    <1>u. TypeOK'
        BY <1>t, TypeNext
    <1>e. ASSUME log' = log PROVE Cur' = Cur /\ Expiry(Cur)' = Expiry(Cur)
        BY <1>e DEF Cur, Expiry, LastActive
    <1>n. now \in Nat /\ \A s \in Runs : tenure[s] \in Int
        BY <1>t DEF TypeOK, NoTime
    <1>1. CASE Tick
        <2>1. \A s \in Runs : Entitled(s)' => Entitled(s)
            BY <1>1, <1>n DEF Tick, Entitled
        <2> QED
            BY <1>1, <1>t, <1>e, <2>1 DEF Tick, EntitledHold
    <1>2. CASE UNCHANGED vars
        BY <1>2, <1>t, <1>e DEF vars, EntitledHold, Entitled
    <1>3. ASSUME NEW r \in Runs, Step(r) PROVE EntitledHold'
        <2>1. CASE AcquireStart(r) \/ CreateExists(r) \/ AcquireExpired(r)
                   \/ AcquireRefused(r) \/ RenewGet(r)
            BY <2>1, <1>t, <1>e DEF EntitledHold, Entitled, AcquireStart, CreateExists,
                 AcquireExpired, AcquireRefused, RenewGet
        <2>2. CASE RenewLost(r) \/ ReleaseGet(r) \/ Crash(r)
            <3>1. \A s \in Runs : believes'[s] => believes[s]
                BY <2>2, <1>t DEF TypeOK, RenewLost, ReleaseGet, Crash
            <3>2. log' = log /\ now' = now /\ tenure' = tenure
                BY <2>2 DEF RenewLost, ReleaseGet, Crash
            <3> QED
                BY <1>t, <1>e, <3>1, <3>2 DEF EntitledHold, Entitled
        <2>3. CASE AcquireOwn(r)
            <3>1. PICK i \in Readable(r) :
                    /\ log[i].holder = NameOf[r]
                    /\ tenure' = [tenure EXCEPT ![r] =
                                    IF r \in Cached THEN NoTime ELSE Expiry(log[i])]
                BY <2>3 DEF AcquireOwn
            <3>2. log' = log /\ now' = now
                BY <2>3 DEF AcquireOwn
            <3>3. CASE r \in Cached
                <4>1. ~Entitled(r)'
                    BY <1>t, <3>1, <3>2, <3>3 DEF Entitled, TypeOK, NoTime
                <4>2. \A s \in Runs : s # r => (Entitled(s)' <=> Entitled(s)) /\ tenure'[s] = tenure[s]
                    BY <2>3, <1>t, <3>1, <3>2 DEF AcquireOwn, Entitled, TypeOK
                <4> QED
                    BY <1>t, <1>e, <3>2, <4>1, <4>2 DEF EntitledHold
            <3>4. CASE r \notin Cached
                <4>1. i = Len(log)
                    BY <3>4 DEF Readable
                <4>2. log[i] \in Lease /\ Expiry(log[i]) \in Int
                    BY <1>t, <4>1, ExpiryType DEF TypeOK
                <4>3. Cur.holder = NameOf[r] /\ tenure'[r] = Expiry(Cur)
                    BY <1>t, <3>1, <3>4, <4>1 DEF TypeOK, Cur
                <4>4. \A s \in Runs : s # r => (Entitled(s)' <=> Entitled(s)) /\ tenure'[s] = tenure[s]
                    BY <2>3, <1>t, <3>1, <3>2 DEF AcquireOwn, Entitled, TypeOK
                <4> QED
                    BY <1>t, <1>e, <3>2, <4>1, <4>2, <4>3, <4>4 DEF EntitledHold, Cur
            <3> QED
                BY <3>3, <3>4
        <2> DEFINE f == [holder |-> NameOf[r], dur |-> Duration(r),
                         acquired |-> stamp[r], renewed |-> NoTime]
                   l == [log[snap[r]] EXCEPT !.renewed = stamp[r]]
        <2>f. f \in Lease /\ f.holder = NameOf[r] /\ Expiry(f) = stamp[r] + Duration(r)
            BY <1>t, FreshLease
        <2>l. l \in Lease /\ l.holder = log[snap[r]].holder
                /\ Expiry(l) = stamp[r] + log[snap[r]].dur
            BY <1>t, RenewedLease
        <2>4. CASE Create(r)
            <3>1. \A s \in Runs : ~Entitled(s)
                BY <1>t, <2>4, LeaseAssumption DEF Create, EntitledHold, NoLease
            <3>2. Put(f) /\ tenure' = [tenure EXCEPT ![r] = Expiry(f)]
                BY <2>4, <2>f DEF Create
            <3> HIDE DEF f
            <3> QED
                BY <1>t, <1>u, <2>4, <2>f, <3>1, <3>2, EntitledGranted DEF Create
        <2>5. CASE Reclaim(r) /\ Unchanged(r)
            <3>1. IsExpired(Cur)
                BY <1>t, <2>5 DEF Reclaim, Unchanged, CallsGuarded, Cur
            <3>2. Cur \in Lease /\ Expiry(Cur) \in Int
                BY <1>t, ExpiryType DEF TypeOK, Cur
            <3>3. \A s \in Runs : ~Entitled(s)
                BY <1>t, <1>n, <3>1, <3>2 DEF EntitledHold, Entitled, IsExpired
            <3>4. Put(f) /\ tenure' = [tenure EXCEPT ![r] = Expiry(f)]
                BY <2>5, <2>f DEF Reclaim
            <3> HIDE DEF f
            <3> QED
                BY <1>t, <1>u, <2>5, <2>f, <3>3, <3>4, EntitledGranted DEF Reclaim
        <2>6. CASE RenewPut(r) /\ Unchanged(r)
            <3>1. Cur.holder = NameOf[r] /\ log[snap[r]].holder = NameOf[r]
                BY <1>t, <2>6 DEF RenewPut, Unchanged, CallsGuarded, Cur
            <3>2. \A s \in Runs : Entitled(s) => s = r
                BY <1>t, <3>1 DEF EntitledHold, DistinctNames
            <3>3. Put(l) /\ tenure' = [tenure EXCEPT ![r] = Expiry(l)]
                BY <2>6, <2>l DEF RenewPut
            <3> HIDE DEF l
            <3> QED
                BY <1>t, <1>u, <2>6, <2>l, <3>1, <3>2, <3>3, EntitledGranted DEF RenewPut
        <2>7. CASE ReleaseDelete(r) /\ Unchanged(r)
            <3>1. Cur.holder = NameOf[r] /\ ~believes[r]
                BY <1>t, <2>7 DEF ReleaseDelete, Unchanged, CallsGuarded, Cur
            <3>2. \A s \in Runs : ~Entitled(s)
                BY <1>t, <3>1 DEF EntitledHold, DistinctNames, Entitled
            <3> QED
                BY <2>7, <3>2 DEF ReleaseDelete, EntitledHold, Entitled
        <2>8. CASE (Reclaim(r) \/ RenewPut(r) \/ ReleaseDelete(r)) /\ ~Unchanged(r)
            BY <2>8, <1>t, <1>e DEF Reclaim, RenewPut, ReleaseDelete, EntitledHold, Entitled
        <2> QED
            BY <1>3, <2>1, <2>2, <2>3, <2>4, <2>5, <2>6, <2>7, <2>8 DEF Step
    <1> QED
        BY <1>1, <1>2, <1>3 DEF Next

\* The inductive invariant of the lease lock.
THEOREM LeaseInvariant == DistinctNames => (Spec => []LeaseInv)
    <1> SUFFICES ASSUME DistinctNames PROVE Spec => []LeaseInv
        OBVIOUS
    <1>1. Init => LeaseInv
        BY TypeInit DEF Init, LeaseInv, CallsGuarded, EntitledHold, Entitled
    <1>2. LeaseInv /\ [Next]_vars => LeaseInv'
        BY TypeNext, GuardNext, EntitledNext DEF LeaseInv
    <1> QED
        BY <1>1, <1>2, PTL DEF Spec

\* Mutual exclusion: runs of distinct experiment names are never entitled to
\* one operator at the same time, however the API calls of Acquire, Renew and
\* Release interleave with expiry, crashes and stale cached reads.
THEOREM MutualExclusion == DistinctNames => (Spec => []OneRunPerOperator)
    <1> SUFFICES ASSUME DistinctNames PROVE Spec => []OneRunPerOperator
        OBVIOUS
    <1>1. LeaseInv => OneRunPerOperator
        BY DEF LeaseInv, EntitledHold, OneRunPerOperator, DistinctNames
    <1> QED
        BY <1>1, LeaseInvariant, PTL

-----------------------------------------------------------------------------
(* The lease implements the abstract lock *)

\* Ownership of the live lease passes through Free.
LEMMA OwnerStep ==
    ASSUME LeaseInv, [Next]_vars
    PROVE  \/ LiveOwner' \in {Free, LiveOwner}
           \/ LiveOwner = Free /\ \E r \in Runs : LiveOwner' = NameOf[r]
    <1>t. TypeOK /\ CallsGuarded
        BY DEF LeaseInv
    <1>c. Cur \in Lease /\ Expiry(Cur) \in Int
        BY <1>t, ExpiryType DEF TypeOK, Cur
    <1>1. ASSUME log' = log, now <= now' PROVE LiveOwner' \in {Free, LiveOwner}
        <2>1. Cur' = Cur /\ Expiry(Cur)' = Expiry(Cur)
            BY <1>1 DEF Cur, Expiry, LastActive
        <2>2. now \in Int /\ now' \in Int
            BY <1>t, TypeNext DEF TypeOK
        <2>3. IsExpired(Cur) => IsExpired(Cur)'
            BY <1>1, <1>c, <2>1, <2>2 DEF IsExpired
        <2>4. NoLease' = NoLease
            BY DEF NoLease, NoTime
        <2> QED
            BY <2>1, <2>3, <2>4 DEF LiveOwner
    <1>2. CASE Tick \/ UNCHANGED vars
        BY <1>1, <1>2, <1>t DEF Tick, vars, TypeOK
    <1>3. ASSUME NEW r \in Runs, Step(r), log' # log
          PROVE  \/ LiveOwner' \in {Free, LiveOwner}
                 \/ LiveOwner = Free /\ LiveOwner' = NameOf[r]
        <2>1. Create(r) \/ Reclaim(r) \/ RenewPut(r) \/ ReleaseDelete(r)
            BY <1>3 DEF Step, AcquireStart, CreateExists, AcquireOwn,
                 AcquireExpired, AcquireRefused, RenewGet, RenewLost, ReleaseGet, Crash
        <2> DEFINE f == [holder |-> NameOf[r], dur |-> Duration(r),
                         acquired |-> stamp[r], renewed |-> NoTime]
                   l == [log[snap[r]] EXCEPT !.renewed = stamp[r]]
        <2>f. f \in Lease /\ f.holder = NameOf[r]
            BY <1>t, FreshLease
        <2>l. l \in Lease /\ l.holder = log[snap[r]].holder
            BY <1>t, RenewedLease
        <2>p. ASSUME NEW x \in Lease, Put(x) PROVE LiveOwner' \in {Free, x.holder}
            BY <2>p, <1>t, PutLemma DEF TypeOK, LiveOwner
        <2>2. CASE Create(r)
            <3>1. Put(f) /\ LiveOwner = Free
                BY <2>2 DEF Create, LiveOwner
            <3> HIDE DEF f
            <3> QED
                BY <2>f, <2>p, <3>1
        <2>3. CASE Reclaim(r)
            <3>1. Put(f) /\ Unchanged(r) /\ pc[r] = "reclaim"
                BY <1>3, <2>3 DEF Reclaim
            <3>2. LiveOwner = Free
                BY <1>t, <3>1 DEF Unchanged, CallsGuarded, Cur, LiveOwner
            <3> HIDE DEF f
            <3> QED
                BY <2>f, <2>p, <3>1, <3>2
        <2>4. CASE RenewPut(r)
            <3>1. Put(l) /\ Unchanged(r) /\ pc[r] = "renew"
                BY <1>3, <2>4 DEF RenewPut
            <3>2. Cur.holder = NameOf[r] /\ log[snap[r]].holder = NameOf[r]
                BY <1>t, <3>1 DEF Unchanged, CallsGuarded, Cur
            <3>3. LiveOwner \in {Free, NameOf[r]}
                BY <3>2 DEF LiveOwner
            <3> HIDE DEF l
            <3> QED
                BY <2>l, <2>p, <3>1, <3>2, <3>3
        <2>5. CASE ReleaseDelete(r)
            <3>1. Put(NoLease)
                BY <1>3, <2>5 DEF ReleaseDelete
            <3>2. NoLease.holder = Free
                BY DEF NoLease
            <3> QED
                BY <2>p, <3>1, <3>2, NoLeaseType
        <2> QED
            BY <2>1, <2>2, <2>3, <2>4, <2>5
    <1>4. ASSUME NEW r \in Runs, Step(r), log' = log
          PROVE  LiveOwner' \in {Free, LiveOwner}
        BY <1>1, <1>4, <1>t, OneWrite DEF TypeOK
    <1> QED
        BY <1>2, <1>3, <1>4 DEF Next

\* Whoever is entitled is the live owner.
EntitledOwner == \A r \in Runs : Entitled(r) => LiveOwner = NameOf[r] /\ LiveOwner # Free

LEMMA EntitledOwn == LeaseInv => EntitledOwner
    <1> SUFFICES ASSUME LeaseInv, NEW r \in Runs, Entitled(r)
                 PROVE  LiveOwner = NameOf[r] /\ LiveOwner # Free
        BY DEF EntitledOwner
    <1>1. Cur \in Lease /\ Expiry(Cur) \in Int
        BY ExpiryType DEF LeaseInv, TypeOK, Cur
    <1>2. now \in Nat /\ tenure[r] \in Int
        BY DEF LeaseInv, TypeOK, NoTime
    <1>3. Cur.holder = NameOf[r] /\ tenure[r] <= Expiry(Cur)
        BY DEF LeaseInv, EntitledHold
    <1>4. ~IsExpired(Cur)
        BY <1>1, <1>2, <1>3 DEF IsExpired, Entitled
    <1> QED
        BY <1>3, <1>4, LeaseAssumption DEF LiveOwner, NoLease

\* The Lease, its expiry and the calls around it implement the lock that the
\* callers of safety.ExperimentLock were promised.
THEOREM Refinement == DistinctNames => (Spec => ImplementsLock)
    <1> SUFFICES ASSUME DistinctNames PROVE Spec => ImplementsLock
        OBVIOUS
    <1> DEFINE in == {r \in Runs : Entitled(r)}
    <1>1. Init => Lock!LockInit
        BY DEF Init, Lock!LockInit, LiveOwner, Cur, Entitled
    <1>p. LeaseInv' => EntitledOwner'
        BY EntitledOwn, PTL
    <1>2. LeaseInv /\ LeaseInv' /\ [Next]_vars => [Lock!LockNext]_<<LiveOwner, in>>
        <2> SUFFICES ASSUME LeaseInv, LeaseInv', [Next]_vars,
                            ~UNCHANGED <<LiveOwner, in>>
                     PROVE  Lock!LockNext
            OBVIOUS
        <2>1. \A r \in in : NameOf[r] = LiveOwner /\ LiveOwner # Free
            BY EntitledOwn DEF EntitledOwner
        <2>2. \A r \in in' : NameOf[r] = LiveOwner' /\ LiveOwner' # Free
            BY <1>p DEF EntitledOwner
        <2>3. in \subseteq Runs /\ in' \subseteq Runs
            OBVIOUS
        <2> HIDE DEF in
        <2>4. CASE LiveOwner' = Free
            <3>1. in' = {}
                BY <2>2, <2>4
            <3> QED
                BY <2>4, <3>1 DEF Lock!LockNext, Lock!Vacate, in
        <2>5. CASE LiveOwner' # Free /\ LiveOwner' = LiveOwner
            <3>1. \A r \in in \cup in' : \A s \in in \cup in' : r = s
                BY <2>1, <2>2, <2>3, <2>5 DEF DistinctNames
            <3>2. in' # in
                BY <2>5
            <3>3. PICK r \in in \cup in' : TRUE
                BY <3>2
            <3>4. \/ in' = in \cup {r}
                  \/ in' = in \ {r}
                BY <3>1, <3>2, <3>3
            <3>5. r \in Runs /\ NameOf[r] = LiveOwner
                BY <2>1, <2>2, <2>3, <2>5
            <3> QED
                BY <2>5, <3>4, <3>5 DEF Lock!LockNext, Lock!Grant, Lock!Leave, in
        <2>6. CASE LiveOwner' # Free /\ LiveOwner' # LiveOwner
            <3>1. PICK r \in Runs : LiveOwner' = NameOf[r]
                BY <2>6, OwnerStep
            <3>2. LiveOwner = Free
                BY <2>6, OwnerStep
            <3>3. in = {}
                BY <2>1, <3>2
            <3>4. in' = in \/ in' = in \cup {r}
                BY <2>2, <2>3, <3>1, <3>3 DEF DistinctNames
            <3> QED
                BY <3>1, <3>2, <3>4 DEF Lock!LockNext, Lock!Grant, in
        <2> QED
            BY <2>4, <2>5, <2>6
    <1> QED
        BY <1>1, <1>2, LeaseInvariant, PTL
            DEF Spec, ImplementsLock, Lock!LockSpec, Lock!lockVars
=============================================================================
