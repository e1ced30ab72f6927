-------------------------------- MODULE Clean --------------------------------
(***************************************************************************)
(* `operator-chaos clean' (internal/cli/clean.go) beside the injectors: a  *)
(* sweep of eleven steps over everything that carries the managed-by label *)
(* or a rollback annotation; with --watch one sweep after the other.  Each *)
(* step lists, then deletes or updates what it found; an error is printed  *)
(* and the sweep goes on.                                                  *)
(***************************************************************************)
EXTENDS Injectors, FiniteSetsExt

\* What a type attacks.  The others take any object, except those whose
\* rollback data a sweep reads as that of another type.
Restorable == {"ValidatingWebhookConfiguration", "ClusterRoleBinding", "RoleBinding"}
Listed == Restorable \cup {"NetworkPolicy", "Lease", "ClusterRole", "ConfigMap"}
ResourcesOf(kind) ==
    CASE kind \in {"ClusterRoleBinding", "RoleBinding"} -> {kind}
      [] kind = "ValidatingWebhook" -> {"ValidatingWebhookConfiguration"}
      [] kind \in {"ConfigMapDrift", "ClientFault"} -> {"ConfigMap"}
      [] kind = "NetworkPartition" -> {"NetworkPolicy"}
      [] kind = "LeaderElection" -> {"Lease"}
      [] kind \in {"FinalizerBlock", "FieldMutation", "PathMutation", "OwnerRefOrphan",
                   "LabelOverwrite", "LabelDelete", "ResourceDeletion"} -> STRING \ Restorable
      [] OTHER -> STRING \ Listed

ASSUME ResourcesAssumption == \A c \in Cases : c.res \in ResourcesOf(c.kind)

VARIABLE sweep  \* the step, what was listed, and whether nothing interfered

Rest == [step |-> 0, at |-> "idle", seen |-> Gone, stale |-> FALSE, calm |-> FALSE]
cleanVars == <<vars, sweep>>

Quiet == UNCHANGED <<case, parts, closure, legit, edits, injections>>

\* What another writer has changed meets a conflict in an operation under way.
Touched(o) == call' = IF o = obj \/ call = Idle THEN call
                      ELSE [call EXCEPT !.stale = TRUE]

\* The steps that list the kind of object the case is about, or its backup;
\* the others of the eleven find nothing, whatever has happened.
Finds(n) ==
    CASE n = 1 -> case.res = "NetworkPolicy"
      [] n = 2 -> case.res = "Lease"
      [] n = 3 -> case.res = "ClusterRole"
      [] n = 4 -> case.res = "RoleBinding"
      [] n = 5 -> case.res = "NetworkPolicy"
      [] n = 6 -> case.res = "ValidatingWebhookConfiguration"
      [] n = 7 -> case.res \in {"ClusterRoleBinding", "RoleBinding"}
      [] n = 8 -> Is({"FinalizerBlock"}) /\ case.res \in {"Deployment", "ConfigMap"}
      [] n = 9 -> Is({"ConfigMapDrift", "SecretDrift"})
      [] n = 10 -> Is({"FieldMutation", "PathMutation", "OwnerRefOrphan"})
                   /\ case.res = "Deployment"
      [] n = 11 -> case.res = "ConfigMap" \/ Is({"LeaderElection", "NamespaceDeletion"})

Advance(calm) ==
    LET left == {n \in sweep.step + 1..11 : Finds(n)}
    IN  sweep' = [Rest EXCEPT !.calm = calm,
                              !.step = IF left = {} THEN 0 ELSE Min(left),
                              !.at = IF left = {} THEN "idle" ELSE "list"]

StartSweep ==
    /\ sweep.step = 0 /\ \E n \in 1..11 : Finds(n)
    /\ Advance(call = Idle /\ gaps = {})
    /\ UNCHANGED vars

\* A List; without a match the step is over.
List(n, match) ==
    /\ sweep.step = n /\ sweep.at = "list"
    /\ \/ /\ IF match THEN sweep' = [sweep EXCEPT !.at = "write", !.seen = obj,
                                                  !.stale = FALSE]
             ELSE Advance(sweep.calm)
          /\ UNCHANGED budget
       \/ match /\ Spend /\ Advance(FALSE)
    /\ UNCHANGED <<case, obj, side, parts, call, closure, history>>

\* A write of the target that ends the step, or fails and ends it too.  The
\* original is lost when its annotation goes and the fault stays, or when the
\* object itself goes.
Strips(o) == IF Is(InPlace) /\ obj.here /\ obj.mark \notin {NoMark, Created}
                /\ (~o.here \/ o.mark = NoMark) /\ ~(o.here /\ Genuine(o.val))
                /\ (o.here \/ ~obj.term)
             THEN {"stripped"} ELSE {}

\* Neither side locks the other out: what an operation under way has read may
\* be gone when it writes.
Overlaps == IF call # Idle \/ (sweep.at = "drop" /\ obj.mark = Ref)
            THEN {"overlap"} ELSE {}

Put(n, accepted, o) ==
    /\ sweep.step = n /\ sweep.at = "write"
    /\ \/ accepted /\ obj' = o /\ Advance(sweep.calm) /\ UNCHANGED budget
       \/ ~accepted /\ obj' = obj /\ Advance(FALSE) /\ UNCHANGED budget
       \/ accepted /\ Spend /\ Advance(FALSE) /\ obj' \in {obj, o}
    /\ gaps' = IF obj' = obj THEN gaps ELSE gaps \cup Strips(o) \cup Overlaps
    /\ Touched(obj') /\ UNCHANGED <<side, taken>> /\ Quiet

Fresh == obj.here /\ ~sweep.stale
seen == sweep.seen

\* deleteMatchingResources: whatever carries the label is deleted.
DeleteMatchingResources(n) ==
    \/ List(n, obj.here /\ Ours(obj))
    \/ Put(n, obj.here, IF obj.val.t = "map" /\ Is({"FinalizerBlock"})
                        THEN [obj EXCEPT !.term = TRUE] ELSE Gone)

CleanNetworkPolicies == DeleteMatchingResources(1)
CleanLeases          == DeleteMatchingResources(2)
CleanClusterRoles    == DeleteMatchingResources(3)
CleanRoleBindings    == DeleteMatchingResources(4)

\* Policies whose TTL annotation has expired, labelled or not.
CleanTTLExpired ==
    \/ \E expired \in BOOLEAN :
          List(5, expired /\ obj.here /\ obj.val = case.fault)
    \/ Put(5, obj.here, Gone)

Marked == obj.here /\ obj.mark # NoMark /\ UnwrapRollbackData(obj.mark)

CleanWebhookConfigurations ==
    \/ List(6, Marked)
    \/ Put(6, Fresh, RemoveChaosMetadata(With(seen, seen.mark)))

CleanRBACBindingsForgetsSubjects ==
    \/ List(7, Marked)
    \/ Put(7, Fresh, RemoveChaosMetadata(seen))

CleanRBACBindings ==
    \/ List(7, Marked)
    \/ Put(7, Fresh, RemoveChaosMetadata(With(seen, seen.mark)))

\* Deployments, ConfigMaps, Secrets, Services, StatefulSets, DaemonSets, Jobs.
CleanOrphanedFinalizers ==
    List(8, Marked)
CleanFinalizerFromResource == Put(8, Fresh, WithoutFinalizer(seen))

\* A ConfigMap is restored from its annotation.  A Secret is restored from its
\* rollback Secret, which is then deleted; without it the Secret is left alone.
\* The annotation of a Secret does not say whether the key was there, so an
\* absent key comes back empty.
CleanConfigDrift ==
    \/ List(9, Marked /\ (Is({"SecretDrift"}) => side.here))
    \/ Is({"ConfigMapDrift"}) /\ Put(9, Fresh, RemoveChaosMetadata(With(seen, seen.mark)))
    \/ /\ Is({"SecretDrift"}) /\ sweep.step = 9 /\ sweep.at = "write"
       /\ LET o == RemoveChaosMetadata(
                      With(seen, IF side.val = Absent THEN Scalar("c") ELSE side.val))
          IN  \/ /\ Fresh /\ obj' = o /\ UNCHANGED budget
                 /\ sweep' = [sweep EXCEPT !.at = "drop"]
              \/ ~Fresh /\ obj' = obj /\ Advance(FALSE) /\ UNCHANGED budget
              \/ Fresh /\ Spend /\ Advance(FALSE) /\ obj' \in {obj, o}
       /\ gaps' = IF obj' = obj THEN gaps ELSE gaps \cup Strips(obj') \cup Overlaps
       /\ Touched(obj') /\ UNCHANGED <<side, taken>> /\ Quiet
    \/ /\ sweep.step = 9 /\ sweep.at = "drop"
       /\ \/ side' = NoBackup /\ Advance(sweep.calm) /\ UNCHANGED budget
          \/ Spend /\ side' \in {side, NoBackup} /\ Advance(FALSE)
       /\ gaps' = IF side' = side THEN gaps ELSE gaps \cup Overlaps
       /\ UNCHANGED <<obj, call, taken>> /\ Quiet

\* Custom resources are not listed.  OwnerRefOrphan's data has the keys that
\* tell a CRD mutation.
CleanCRDMutations ==
    List(10, Marked)
\* Only data with a `field' is restored, by a merge patch.
CleanCRDMutationFromResource ==
    Put(10, obj.here,
        RemoveChaosMetadata(
            IF Is({"FieldMutation"}) THEN With(obj, MergeValue(obj.val, seen.mark))
            ELSE obj))

\* Every labelled ConfigMap goes: targets and backups too.
SideIsConfigMap == Is({"LeaderElection", "NamespaceDeletion"}) /\ side.here /\ side.managed
CleanResultConfigMaps ==
    \/ ~SideIsConfigMap /\ DeleteMatchingResources(11)
    \/ /\ SideIsConfigMap /\ sweep.step = 11 /\ sweep.at = "list"
       /\ \/ side' = NoBackup /\ Advance(sweep.calm) /\ UNCHANGED budget
          \/ Spend /\ side' \in {side, NoBackup} /\ Advance(FALSE)
       /\ gaps' = IF side' = side THEN gaps
                  ELSE gaps \cup Overlaps \cup (IF taken THEN {"stripped"} ELSE {})
       /\ UNCHANGED <<obj, call, taken>> /\ Quiet

RunClean ==
    \/ CleanNetworkPolicies \/ CleanLeases \/ CleanClusterRoles \/ CleanRoleBindings
    \/ CleanTTLExpired \/ CleanWebhookConfigurations \/ CleanRBACBindings
    \/ CleanOrphanedFinalizers \/ CleanFinalizerFromResource \/ CleanConfigDrift
    \/ CleanCRDMutations \/ CleanCRDMutationFromResource \/ CleanResultConfigMaps

\* Everything else goes on beside the sweep.
Beside == /\ Next
          /\ sweep' = IF sweep.step = 0 THEN sweep
                      ELSE [sweep EXCEPT !.calm = FALSE,
                                         !.stale = @ \/ (sweep.at = "write" /\ obj' # obj)]

CleanInit == Init /\ sweep = Rest
CleanNext == StartSweep \/ RunClean \/ Beside
CleanSpec == CleanInit /\ [][CleanNext]_cleanVars

-----------------------------------------------------------------------------
\* What the emergency stop takes care of: not a Secret whose key was absent, nor
\* a map under a map, which a merge patch does not replace.
CleanCovers ==
    \/ Is({"ClusterRoleBinding", "ValidatingWebhook", "ConfigMapDrift", "NetworkPartition"})
    \/ Is({"SecretDrift"}) /\ ~(side.here /\ side.val = Absent)
    \/ Is({"FinalizerBlock"}) /\ case.res = "Deployment"
    \/ Is({"FieldMutation"}) /\ case.res = "Deployment"
         /\ ~(obj.val.t = "map" /\ obj.mark.t = "map")
    \/ Is({"ClientFault"}) /\ ~case.here

\* A sweep that nothing interferes with restores these targets, whatever state
\* a crash or an injection or revert cut short has left them in.  (A Secret
\* whose revert was cut short after the rollback Secret went has its value back
\* but keeps the annotation: the sweep skips it.)
CleanRestores ==
    [][sweep.step # 0 /\ sweep'.step = 0 /\ sweep'.calm /\ CleanCovers
         /\ obj.mark # Corrupt
         => IF Is({"SecretDrift"}) THEN (obj.here => Genuine(obj.val))'
            ELSE Restored']_cleanVars
=============================================================================
