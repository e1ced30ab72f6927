------------------------------ MODULE Injectors ------------------------------
(***************************************************************************)
(* The injectors of pkg/injection with the rollback metadata of            *)
(* pkg/safety/rollback.go: Inject, Revert and the clean-up closure of each *)
(* type, one step per API call.                                            *)
(*                                                                         *)
(* One target and one injection type at a time: `case' picks it.  Between  *)
(* any two calls the process may die, a call may fail or be applied with   *)
(* its answer lost, and the operator under test or a user may edit, delete *)
(* or re-create the target.  An object is reduced to the field that the    *)
(* type attacks, its rollback annotation, the managed-by label, and        *)
(* whether it is being deleted.                                            *)
(*                                                                         *)
(* Definitions named after a slip are faulty variants of the one that      *)
(* follows.                                                                *)
(***************************************************************************)
EXTENDS Integers, FiniteSets

CONSTANTS Cases,         \* the injection types with their targets
          MaxFailures,   \* bound of failing calls and crashes
          MaxEdits,      \* bound of changes made by others
          MaxInjections  \* bound of calls of Inject

-----------------------------------------------------------------------------
(* Values of a field: absent, an atom, or a map or list given by its keys. *)
Absent    == [t |-> "absent", s |-> {}]
Scalar(x) == [t |-> "scalar", s |-> {x}]
Map(S)    == [t |-> "map", s |-> S]

\* What a JSON merge patch leaves of a field: maps are merged, all else is
\* replaced.
MergeValue(old, new) ==
    IF old.t = "map" /\ new.t = "map" THEN Map(old.s \cup new.s) ELSE new

\* What the rollback annotation may hold besides a value: nothing, a marker
\* of a created object, a reference to the rollback Secret, data whose
\* checksum does not match.
NoMark  == [t |-> "none", s |-> {}]
Created == [t |-> "created", s |-> {}]
Ref     == [t |-> "ref", s |-> {}]
Corrupt == [t |-> "corrupt", s |-> {}]

Gone == [here |-> FALSE, val |-> Absent, mark |-> NoMark, label |-> "none",
         selected |-> FALSE, term |-> FALSE]
NoBackup == [here |-> FALSE, val |-> Absent, managed |-> FALSE]
Backup(v) == [here |-> TRUE, val |-> v, managed |-> TRUE]
Idle == [op |-> "none", at |-> "idle", part |-> "none", got |-> Gone,
         copy |-> Absent, stale |-> FALSE, failed |-> FALSE]
NoClosure == [set |-> FALSE, was |-> Gone]

InPlace == {"ClusterRoleBinding", "RoleBinding", "ConfigMapDrift", "SecretDrift",
            "ValidatingWebhook", "MutatingWebhook", "FinalizerBlock",
            "ClientFault", "FieldMutation", "PathMutation", "OwnerRefOrphan",
            "LabelOverwrite", "LabelDelete", "ScaleZero", "CrashLoop",
            "ImageCorrupt"}
Deleting == {"SecretDeletion", "LeaderElection", "ResourceDeletion",
             "NamespaceDeletion"}
Creating == {"NetworkPartition", "PDBBlock", "QuotaExhaustion"}
Kinds == InPlace \cup Deleting \cup Creating \cup {"WebhookLatency"}
Parts == {"secret", "deploy", "service", "hook"}

-----------------------------------------------------------------------------
\* The targets: what a field may hold, and which targets a type has.  What the
\* types create has no finalizers; whoever else owns a backup is asked for
\* where one is made for a target that is deleted.
Atoms == {"c", "fault"} \cup UNION {c.orig.s \cup c.edit.s \cup c.fault.s : c \in Cases}
Values == {Absent} \cup [t : {"scalar", "map"}, s : SUBSET Atoms]
Targets == [kind : Kinds, res : STRING, here : BOOLEAN, orig : Values, edit : Values,
            fault : Values, slow : BOOLEAN, selector : BOOLEAN, foreign : BOOLEAN,
            label : {"none", "owner"}]

ASSUME CasesAssumption ==
    /\ Cases \subseteq Targets
    /\ \A c \in Cases :
          /\ c.slow \/ c.foreign => c.kind \in Deleting
          /\ c.kind = "LabelDelete" => c.fault = Absent
          /\ c.kind \in {"OwnerRefOrphan", "FinalizerBlock"} => c.orig.t = "map" /\ c.edit.t = "map"
          /\ c.kind = "FinalizerBlock" => "fault" \notin c.orig.s \cup c.edit.s

VARIABLES case,    \* the injection type, the target's original and new values
          obj,     \* the target
          side,    \* the rollback Secret or the backup
          parts,   \* what WebhookLatency has created
          call,    \* the operation under way
          closure, \* what the clean-up closure has captured
          legit,   \* the values that others than the injectors gave the field
          taken,   \* an injector's delete has removed the target
          gaps,    \* what has happened that rollback data cannot undo
          budget, edits, injections

vars == <<case, obj, side, parts, call, closure, legit, taken, gaps, budget,
          edits, injections>>
history == <<legit, taken, gaps, edits, injections>>

Is(kinds) == case.kind \in kinds
Undo == {"revert", "cleanup"}
got == call.got

Genuine(v) == \/ v \in legit
              \/ /\ v.t = "map" /\ v.s # {}
                 /\ v.s \subseteq UNION {w.s : w \in legit}

-----------------------------------------------------------------------------
(* API calls.  A step of an operation names the operations it belongs to,  *)
(* where in them it stands, and where they go on; "ok" and "error" end one. *)

Spend == budget > 0 /\ budget' = budget - 1
Goto(step) == call' = [call EXCEPT !.at = step]
Stands(ops, at) == call.op \in ops /\ call.at = at

Get(ops, next) ==
    /\ Stands(ops, "get")
    /\ \/ /\ call' = [call EXCEPT !.at = next, !.got = obj, !.stale = FALSE]
          /\ UNCHANGED budget
       \/ Spend /\ Goto("error")
    /\ UNCHANGED <<case, obj, side, parts, closure, history>>

\* A Get whose result only says whether the object is there.
Look(ops, at, next) ==
    /\ Stands(ops, at)
    /\ \/ Goto(next) /\ UNCHANGED budget
       \/ Spend /\ Goto("error")
    /\ UNCHANGED <<case, obj, side, parts, closure, history>>

\* An injection that takes a faulty value for the original.
Doubles == IF call.op = "inject" /\ Is(InPlace) /\ got.here /\ ~Genuine(got.val)
           THEN {"doubled"} ELSE {}

\* The closure of CRDMutation removes a map without looking for the annotation:
\* from then on the closure alone holds the original.  So does the patch of a
\* Revert whose target was deleted and re-created since it looked.
Nulls(new) == IF call.op \in Undo /\ new.val = Absent /\ new.mark = NoMark
                 /\ Absent \notin legit /\ Is(InPlace)
              THEN {"nulled"} ELSE {}

\* A write of the target: unless `accepted' the API server refuses it; else it
\* goes through, or fails, with or without having been applied.
Write(ops, at, accepted, new, next, refused) ==
    /\ Stands(ops, at)
    /\ \/ /\ accepted /\ obj' = new /\ gaps' = gaps \cup Doubles \cup Nulls(new)
          /\ Goto(next) /\ UNCHANGED budget
       \/ /\ ~accepted /\ Goto(refused) /\ UNCHANGED <<obj, gaps, budget>>
       \/ /\ accepted /\ Spend /\ Goto("error")
          /\ \/ UNCHANGED <<obj, gaps>>
             \/ obj' = new /\ gaps' = gaps \cup Doubles \cup Nulls(new)
    /\ taken' = (taken /\ (~obj'.here \/ obj'.term))
    /\ UNCHANGED <<case, side, parts, closure, legit, edits, injections>>

\* An Update carries the resourceVersion that was read, a Patch does not.
Update(ops, at, new, next) ==
    Write(ops, at, obj.here /\ ~call.stale, new, next, "error")
Patch(ops, at, new, next) == Write(ops, at, obj.here, new, next, "error")
Create(ops, at, new, next, exists) == Write(ops, at, ~obj.here, new, next, exists)

\* The object disappears at once, or stays until its finalizers are gone.
Deleted(o) == IF case.slow /\ o.here THEN [o EXCEPT !.term = TRUE] ELSE Gone

\* A Delete by name; NotFound goes on at `missing', any other error at `err'.
DeleteTarget(ops, at, next, missing, err) ==
    /\ Stands(ops, at)
    /\ \/ /\ Goto(IF obj.here THEN next ELSE missing) /\ UNCHANGED budget
          /\ obj' = Deleted(obj)
       \/ Spend /\ Goto(err) /\ obj' \in {obj, Deleted(obj)}
    /\ taken' = (taken \/ (Is(Deleting) /\ obj' # obj))
    /\ UNCHANGED <<case, side, parts, closure, legit, gaps, edits, injections>>

\* A write of the rollback Secret or the backup: nobody else writes it.
WriteSide(ops, at, new, next, err) ==
    /\ Stands(ops, at)
    /\ \/ side' = new /\ Goto(next) /\ UNCHANGED budget
       \/ Spend /\ side' \in {side, new} /\ Goto(err)
    /\ gaps' = IF side' = side THEN gaps ELSE gaps \cup Doubles
    /\ UNCHANGED <<case, obj, parts, closure, legit, taken, edits, injections>>

ReadSide(ops, at, next) ==
    /\ Stands(ops, at)
    /\ \/ call' = [call EXCEPT !.at = next, !.copy = side.val] /\ UNCHANGED budget
       \/ Spend /\ Goto("error")
    /\ UNCHANGED <<case, obj, side, parts, closure, history>>

-----------------------------------------------------------------------------
(* pkg/safety/rollback.go *)

ApplyChaosMetadata(o, saved) == [o EXCEPT !.mark = saved, !.label = "chaos"]

\* It deletes the managed-by label whoever had set it first.
RemoveChaosMetadata(o) == [o EXCEPT !.mark = NoMark, !.label = "none"]

\* The checksum is the first thing a revert looks at.
UnwrapRollbackData(m) == m # Corrupt

\* The Get of most reverts: nothing to do without the object or its mark.
GetMarked(ops) ==
    Get(ops, CASE ~obj.here \/ obj.mark = NoMark -> "ok"
               [] obj.here /\ obj.mark # NoMark ->
                    IF UnwrapRollbackData(obj.mark) THEN "write" ELSE "error")

GetExisting(ops) == Get(ops, IF obj.here THEN "write" ELSE "error")

With(o, v) == [o EXCEPT !.val = v]

-----------------------------------------------------------------------------
(* Types that change the target in place *)

RBACRevokeInject ==
    /\ Is({"ClusterRoleBinding", "RoleBinding"})
    /\ \/ GetExisting({"inject"})
       \/ Update({"inject"}, "write",
                 ApplyChaosMetadata(With(got, Map({})), got.val), "ok")

RBACRevokeRevert ==
    /\ Is({"ClusterRoleBinding", "RoleBinding"})
    /\ \/ GetMarked(Undo)
       \/ Update(Undo, "write", RemoveChaosMetadata(With(got, got.mark)), "ok")

ConfigMapInject ==
    /\ Is({"ConfigMapDrift"})
    /\ \/ GetExisting({"inject"})
       \/ Update({"inject"}, "write",
                 ApplyChaosMetadata(With(got, case.fault), got.val), "ok")

ConfigMapRevert ==
    /\ Is({"ConfigMapDrift"})
    /\ \/ GetMarked(Undo)
       \/ Update(Undo, "write", RemoveChaosMetadata(With(got, got.mark)), "ok")

\* The original goes to a Secret of its own before the target changes.  An
\* existing rollback Secret is overwritten.
SecretInject ==
    /\ Is({"SecretDrift"})
    /\ \/ Get({"inject"}, IF obj.here THEN "save" ELSE "error")
       \/ WriteSide({"inject"}, "save", Backup(got.val), "write", "error")
       \/ Update({"inject"}, "write",
                 ApplyChaosMetadata(With(got, case.fault), Ref), "ok")

\* The annotation stays until the rollback Secret is deleted: a revert that
\* was cut short is taken up again.
SecretRevertDropsFirst ==
    /\ Is({"SecretDrift"})
    /\ \/ GetMarked(Undo)
       \/ ReadSide(Undo, "write", IF side.here THEN "drop" ELSE "unmark")
       \/ WriteSide(Undo, "drop", NoBackup, "restore", "error")
       \/ Update(Undo, "restore", With(got, call.copy), "unmark")
       \/ Update(Undo, "unmark", RemoveChaosMetadata(obj), "ok")

SecretRevert ==
    /\ Is({"SecretDrift"})
    /\ \/ GetMarked(Undo)
       \/ ReadSide(Undo, "write", IF side.here THEN "restore" ELSE "unmark")
       \/ Update(Undo, "restore", With(got, call.copy), "drop")
       \/ WriteSide(Undo, "drop", NoBackup, "unmark", "error")
       \/ Update(Undo, "unmark", RemoveChaosMetadata(obj), "ok")

\* A target named by a label selector is looked up first.
Resolved == obj.here /\ (case.selector => obj.selected)

WebhookDisruptInjectTwice ==
    /\ Is({"ValidatingWebhook", "MutatingWebhook"})
    /\ \/ Get({"inject"}, IF Resolved THEN "write" ELSE "error")
       \/ Update({"inject"}, "write",
                 ApplyChaosMetadata(With(got, case.fault), got.val), "ok")

WebhookDisruptInject ==
    /\ Is({"ValidatingWebhook", "MutatingWebhook"})
    /\ \/ Get({"inject"}, IF Resolved /\ obj.mark = NoMark THEN "write" ELSE "error")
       \/ Update({"inject"}, "write",
                 ApplyChaosMetadata(With(got, case.fault), got.val), "ok")

\* Revert resolves the selector again, the closure keeps the name.  No match
\* counts as reverted.
WebhookDisruptRevert ==
    /\ Is({"ValidatingWebhook", "MutatingWebhook"})
    /\ \/ Resolved /\ GetMarked({"revert"})
       \/ ~Resolved /\ Get({"revert"}, "ok")
       \/ GetMarked({"cleanup"})

RestorePolicies ==
    /\ Is({"ValidatingWebhook", "MutatingWebhook"})
    /\ Update(Undo, "write", RemoveChaosMetadata(With(got, got.mark)), "ok")

\* The last finalizer of an object that is being deleted lets it go.
WithoutFinalizer(o) ==
    LET left == RemoveChaosMetadata(With(o, Map(o.val.s \ {"fault"})))
    IN  IF left.term /\ left.val.s = {} THEN Gone ELSE left

\* The API server refuses new finalizers on an object that is being deleted.
FinalizerBlockInject ==
    /\ Is({"FinalizerBlock"})
    /\ \/ Get({"inject"}, IF obj.here /\ "fault" \notin obj.val.s /\ ~obj.term
                          THEN "write" ELSE "error")
       \/ Update({"inject"}, "write",
                 ApplyChaosMetadata(With(got, Map(got.val.s \cup {"fault"})),
                                    Scalar("fault")), "ok")

FinalizerBlockCleanup ==
    /\ Is({"FinalizerBlock"})
    /\ \/ Get({"cleanup"}, CASE ~obj.here -> "error"
                             [] obj.here /\ "fault" \notin obj.val.s
                                /\ obj.mark = NoMark /\ obj.label = "none" -> "ok"
                             [] OTHER -> "write")
       \/ Update({"cleanup"}, "write", WithoutFinalizer(got), "ok")

FinalizerBlockRevert ==
    /\ Is({"FinalizerBlock"})
    /\ \/ GetMarked({"revert"})
       \/ Update({"revert"}, "write", WithoutFinalizer(got), "ok")

ClientFaultInject ==
    /\ Is({"ClientFault"})
    /\ \/ Get({"inject"}, IF obj.here THEN "write" ELSE "create")
       \/ Update({"inject"}, "write",
                 ApplyChaosMetadata(With(got, Map(got.val.s \cup {"fault"})),
                                    got.val), "ok")
       \/ Create({"inject"}, "create",
                 ApplyChaosMetadata([Gone EXCEPT !.here = TRUE,
                                                 !.val = Map({"fault"})], Created),
                 "ok", "error")

ClientFaultCleanup ==
    /\ Is({"ClientFault"})
    /\ \/ closure.was.here /\ Get({"cleanup"}, IF obj.here THEN "write" ELSE "ok")
       \/ ~closure.was.here /\ DeleteTarget({"cleanup"}, "get", "ok", "ok", "error")
       \/ Update({"cleanup"}, "write",
                 RemoveChaosMetadata(With(got, closure.was.val)), "ok")

ClientFaultRevert ==
    /\ Is({"ClientFault"})
    /\ \/ GetMarked({"revert"})
       \/ got.mark = Created
          /\ DeleteTarget({"revert"}, "write", "ok", "ok", "error")
       \/ got.mark # Created
          /\ Update({"revert"}, "write", RemoveChaosMetadata(With(got, got.mark)), "ok")

CRDMutationInject ==
    /\ Is({"FieldMutation", "PathMutation"})
    /\ \/ GetExisting({"inject"})
       \/ Patch({"inject"}, "write",
                ApplyChaosMetadata(With(obj, MergeValue(obj.val, case.fault)), got.val),
                "ok")

\* A merge patch cannot take keys away: a map is first removed, with the
\* annotation kept, and then put back.
RestoreField(ops, saved) ==
    \/ saved.t \notin {"absent", "map"}
       /\ Patch(ops, "write", RemoveChaosMetadata(With(obj, saved)), "ok")
    \/ saved.t = "map" /\ Patch(ops, "write", With(obj, Absent), "refetch")
    \/ saved.t = "absent" /\ Patch(ops, "write", With(obj, Absent), "unmark")
    \/ Look(ops, "refetch", IF obj.here THEN "restore" ELSE "error")
    \/ Patch(ops, "restore", RemoveChaosMetadata(With(obj, MergeValue(obj.val, saved))),
             "ok")
    \/ Patch(ops, "unmark", RemoveChaosMetadata(obj), "ok")

CRDMutationCleanup ==
    /\ Is({"FieldMutation", "PathMutation"})
    /\ \/ GetExisting({"cleanup"})
       \/ RestoreField({"cleanup"}, closure.was.val)

CRDMutationRevertMergesMaps ==
    /\ Is({"FieldMutation", "PathMutation"})
    /\ \/ GetMarked({"revert"})
       \/ Patch({"revert"}, "write",
                RemoveChaosMetadata(With(obj, MergeValue(obj.val, got.mark))), "ok")

CRDMutationRevert ==
    /\ Is({"FieldMutation", "PathMutation"})
    /\ \/ GetMarked({"revert"})
       \/ RestoreField({"revert"}, got.mark)

OwnerRefOrphanInject ==
    /\ Is({"OwnerRefOrphan"})
    /\ \/ Get({"inject"}, IF obj.here /\ obj.val.s # {} THEN "write" ELSE "error")
       \/ Patch({"inject"}, "write",
                ApplyChaosMetadata(With(obj, Map({})), got.val), "ok")

\* References that were set again meanwhile stay.
RestoreOwners(ops, saved) ==
    Patch(ops, "write",
          RemoveChaosMetadata(IF got.val.s = {} THEN With(obj, saved) ELSE obj), "ok")

OwnerRefOrphanCleanup ==
    /\ Is({"OwnerRefOrphan"})
    /\ \/ GetExisting({"cleanup"})
       \/ RestoreOwners({"cleanup"}, closure.was.val)

OwnerRefOrphanRevert ==
    /\ Is({"OwnerRefOrphan"})
    /\ \/ GetMarked({"revert"})
       \/ RestoreOwners({"revert"}, got.mark)

LabelStompingInject ==
    /\ Is({"LabelOverwrite", "LabelDelete"})
    /\ \/ Get({"inject"}, IF obj.here /\ (Is({"LabelDelete"}) => obj.val # Absent)
                          THEN "write" ELSE "error")
       \/ Patch({"inject"}, "write",
                ApplyChaosMetadata(With(obj, case.fault), got.val), "ok")

LabelStompingCleanup ==
    /\ Is({"LabelOverwrite", "LabelDelete"})
    /\ \/ GetExisting({"cleanup"})
       \/ Patch({"cleanup"}, "write",
                RemoveChaosMetadata(With(obj, closure.was.val)), "ok")

LabelStompingRevert ==
    /\ Is({"LabelOverwrite", "LabelDelete"})
    /\ \/ GetMarked({"revert"})
       \/ Patch({"revert"}, "write", RemoveChaosMetadata(With(obj, got.mark)), "ok")

\* client.MergeFrom sends only what differs from the object that was read.
\* These three set an annotation of their own and no label.
PatchDiff(ops, v, mark) ==
    Patch(ops, "write",
          [obj EXCEPT !.val = IF got.val = v THEN @ ELSE v, !.mark = mark], "ok")

ScaleZeroInject ==
    /\ Is({"ScaleZero"})
    /\ GetExisting({"inject"}) \/ PatchDiff({"inject"}, case.fault, got.val)
ScaleZeroRestore ==
    /\ Is({"ScaleZero"})
    /\ GetMarked(Undo) \/ PatchDiff(Undo, got.mark, NoMark)

CrashLoopInject ==
    /\ Is({"CrashLoop"})
    /\ GetExisting({"inject"}) \/ PatchDiff({"inject"}, case.fault, got.val)
CrashLoopRestore ==
    /\ Is({"CrashLoop"})
    /\ GetMarked(Undo) \/ PatchDiff(Undo, got.mark, NoMark)

ImageCorruptInject ==
    /\ Is({"ImageCorrupt"})
    /\ GetExisting({"inject"}) \/ PatchDiff({"inject"}, case.fault, got.val)
ImageCorruptRestore ==
    /\ Is({"ImageCorrupt"})
    /\ GetMarked(Undo) \/ PatchDiff(Undo, got.mark, NoMark)

-----------------------------------------------------------------------------
(* Types that delete the target after a copy went to a backup *)

\* A backup of that name that is not the framework's own is refused.
SaveBackupAnyone ==
    \/ Get({"inject"}, IF obj.here THEN "probe" ELSE "error")
    \/ ReadSide({"inject"}, "probe", "save")
    \/ WriteSide({"inject"}, "save", Backup(got.val), "delete", "error")

SaveBackup ==
    \/ Get({"inject"}, IF obj.here THEN "probe" ELSE "error")
    \/ ReadSide({"inject"}, "probe",
                IF side.here /\ ~side.managed THEN "error" ELSE "save")
    \/ WriteSide({"inject"}, "save", Backup(got.val), "delete", "error")

\* When the delete reports an error the backup is deleted again, whatever that
\* call says; the target may be gone all the same.
DeleteSaved ==
    \/ DeleteTarget({"inject"}, "delete", "ok", "undo", "undo")
    \/ /\ Stands({"inject"}, "undo") /\ Goto("error")
       /\ \/ side' = NoBackup /\ UNCHANGED budget
          \/ Spend /\ side' \in {side, NoBackup}
       /\ gaps' = IF taken /\ ~side'.here THEN gaps \cup {"lostDelete"} ELSE gaps
       /\ UNCHANGED <<case, obj, parts, closure, legit, taken, edits, injections>>

\* The end of a restore: the backup goes, whoever owns it.  A target that is
\* still being deleted counts as re-created.
DropBackup(missing) ==
    /\ Stands(Undo, "drop")
    /\ \/ /\ side' = NoBackup /\ UNCHANGED budget
          /\ Goto(IF side.here THEN "ok" ELSE missing)
       \/ Spend /\ side' \in {side, NoBackup} /\ Goto("error")
    /\ gaps' = gaps \cup (IF side' = side THEN {}
                          ELSE IF ~side.managed THEN {"foreignBackup"}
                          ELSE IF ~taken THEN {}
                          ELSE {IF call.failed THEN "unseen" ELSE "terminating"})
    /\ UNCHANGED <<case, obj, parts, closure, legit, taken, edits, injections>>

GetBackup(next) == ReadSide(Undo, "get", IF side.here THEN next ELSE "ok")

FromBackup == [Gone EXCEPT !.here = TRUE, !.val = call.copy]

SecretDeletionInject == Is({"SecretDeletion"}) /\ (SaveBackup \/ DeleteSaved)
\* Create decides whether the Secret is there.
RestoreSecret ==
    /\ Is({"SecretDeletion"})
    /\ \/ GetBackup(IF side.val # Absent THEN "create" ELSE "error")
       \/ Create(Undo, "create", FromBackup, "drop", "drop")
       \/ DropBackup("ok")

LeaderElectionInject == Is({"LeaderElection"}) /\ (SaveBackup \/ DeleteSaved)
\* A Lease that is there is left alone: its holder has moved on.
RestoreLease ==
    /\ Is({"LeaderElection"})
    /\ \/ GetBackup("look")
       \/ Look(Undo, "look", CASE obj.here -> "drop"
                               [] ~obj.here /\ call.copy # Absent -> "create"
                               [] OTHER -> "error")
       \/ Create(Undo, "create", FromBackup, "drop", "drop")
       \/ DropBackup("ok")

ResourceDeletionInject == Is({"ResourceDeletion"}) /\ (SaveBackup \/ DeleteSaved)
RestoreResource ==
    /\ Is({"ResourceDeletion"})
    /\ \/ GetBackup("look")
       \/ Look(Undo, "look", CASE obj.here -> "drop"
                               [] ~obj.here /\ call.copy # Absent -> "create"
                               [] OTHER -> "error")
       \/ Create(Undo, "create", FromBackup, "drop", "drop")
       \/ DropBackup("ok")

NamespaceDeletionInject == Is({"NamespaceDeletion"}) /\ (SaveBackup \/ DeleteSaved)

\* A look-up that fails counts as not found.
RestoreNamespace ==
    /\ Is({"NamespaceDeletion"})
    /\ \/ GetBackup("look")
       \/ /\ Stands(Undo, "look")
          /\ \/ UNCHANGED budget
                /\ Goto(CASE ~obj.here -> "create" [] obj.term -> "error"
                          [] OTHER -> "drop")
             \/ Spend /\ call' = [call EXCEPT !.at = "create", !.failed = TRUE]
          /\ UNCHANGED <<case, obj, side, parts, closure, history>>
       \/ Create(Undo, "create", FromBackup, "drop", "drop")
       \/ DropBackup("error")

-----------------------------------------------------------------------------
(* Types that create an object *)

Artefact == [Gone EXCEPT !.here = TRUE, !.label = "chaos", !.val = case.fault]
Ours(o) == o.label = "chaos"

NetworkPartitionInject ==
    /\ Is({"NetworkPartition"})
    /\ Create({"inject"}, "get", Artefact, "ok", "ok")
\* The closure deletes by name, Revert looks first.
NetworkPartitionRevert ==
    /\ Is({"NetworkPartition"})
    /\ \/ DeleteTarget({"cleanup"}, "get", "ok", "ok", "error")
       \/ Get({"revert"}, IF obj.here THEN "write" ELSE "ok")
       \/ DeleteTarget({"revert"}, "write", "ok", "ok", "error")

PDBBlockInject ==
    /\ Is({"PDBBlock"})
    /\ \/ Get({"inject"}, CASE ~obj.here -> "create" [] Ours(obj) -> "write"
                             [] OTHER -> "error")
       \/ Update({"inject"}, "write", Artefact, "ok")
       \/ Create({"inject"}, "create", Artefact, "ok", "error")

DeletePDB ==
    /\ Is({"PDBBlock"})
    /\ \/ Get(Undo, CASE ~obj.here -> "ok" [] Ours(obj) -> "write" [] OTHER -> "error")
       \/ DeleteTarget(Undo, "write", "ok", "ok", "error")

QuotaExhaustionInject ==
    /\ Is({"QuotaExhaustion"})
    /\ \/ Get({"inject"}, IF obj.here THEN "error" ELSE "create")
       \/ Create({"inject"}, "create", Artefact, "ok", "error")

QuotaExhaustionCleanup ==
    /\ Is({"QuotaExhaustion"})
    /\ DeleteTarget({"cleanup"}, "get", "ok", "ok", "error")

QuotaExhaustionRevert ==
    /\ Is({"QuotaExhaustion"})
    /\ \/ Get({"revert"}, CASE ~obj.here -> "ok" [] Ours(obj) -> "write"
                             [] OTHER -> "error")
       \/ DeleteTarget({"revert"}, "write", "ok", "error", "error")

\* WebhookLatency creates a TLS Secret, a Deployment, a Service and a webhook,
\* in this order, and deletes them in the opposite one.
Order == <<"secret", "deploy", "service", "hook">>
Place(p) == CHOOSE i \in 1..4 : Order[i] = p
Moved(next, p) == call' = [call EXCEPT !.at = next, !.part = p]

CreateParts ==
    /\ Stands({"inject"}, "create")
    /\ \/ /\ call.part \notin parts /\ parts' = parts \cup {call.part} /\ UNCHANGED budget
          /\ IF call.part = "hook" THEN Moved("ok", "none")
             ELSE Moved("create", Order[Place(call.part) + 1])
       \/ /\ call.part \in parts /\ UNCHANGED <<parts, budget>> /\ Moved("drop", "hook")
       \/ /\ Spend /\ Moved("drop", "hook") /\ parts' \in {parts, parts \cup {call.part}}
    /\ UNCHANGED <<case, obj, side, closure, history>>

\* A failed look-up does not stop Inject; any failed Create undoes them all.
WebhookLatencyInject ==
    /\ Is({"WebhookLatency"})
    /\ \/ /\ Stands({"inject"}, "get")
          /\ IF "deploy" \in parts
             THEN \/ Goto("error") /\ UNCHANGED budget
                  \/ Spend /\ Moved("create", "secret")
             ELSE Moved("create", "secret") /\ UNCHANGED budget
          /\ UNCHANGED <<case, obj, side, parts, closure, history>>
       \/ CreateParts

WebhookLatencyRevert ==
    /\ Is({"WebhookLatency"})
    /\ Stands(Undo, "get") /\ Moved("drop", "hook")
    /\ UNCHANGED <<case, obj, side, parts, closure, budget, history>>

\* Every delete is tried, the errors are collected.
Swept(failed) ==
    call' = [call EXCEPT
        !.failed = failed,
        !.at = CASE call.part # "secret" -> "drop"
                 [] call.part = "secret" /\ (call.op = "inject" \/ failed) -> "error"
                 [] OTHER -> "ok",
        !.part = IF @ = "secret" THEN "none" ELSE Order[Place(@) - 1]]

CleanupResources ==
    /\ Is({"WebhookLatency"}) /\ Stands(Undo \cup {"inject"}, "drop")
    /\ \/ parts' = parts \ {call.part} /\ Swept(call.failed) /\ UNCHANGED budget
       \/ Spend /\ parts' \in {parts, parts \ {call.part}} /\ Swept(TRUE)
    /\ UNCHANGED <<case, obj, side, closure, history>>

-----------------------------------------------------------------------------
(* The callers, and everybody else *)

\* The CLI calls the closure, the controller Revert; either may do so again.
Start(op) ==
    /\ call = Idle
    /\ op = "inject" => injections < MaxInjections
    /\ op = "cleanup" => closure.set
    /\ call' = [Idle EXCEPT !.op = op, !.at = "get"]
    /\ injections' = IF op = "inject" THEN injections + 1 ELSE injections
    /\ UNCHANGED <<case, obj, side, parts, closure, legit, taken, gaps, budget, edits>>

\* Inject returns a closure only when it succeeds.
Finish ==
    /\ call.at \in {"ok", "error"}
    /\ call' = Idle
    /\ closure' = CASE Stands({"inject"}, "ok") -> [set |-> TRUE, was |-> got]
                    [] Stands({"cleanup"}, "ok") -> NoClosure
                    [] OTHER -> closure
    /\ UNCHANGED <<case, obj, side, parts, budget, history>>

\* The process dies, and its closures with it.
Crash ==
    /\ Spend /\ (call # Idle \/ closure.set)
    /\ call' = Idle /\ closure' = NoClosure
    /\ UNCHANGED <<case, obj, side, parts, history>>

Disturb == /\ edits < MaxEdits /\ edits' = edits + 1
           /\ call' = IF call = Idle THEN call ELSE [call EXCEPT !.stale = TRUE]
           /\ UNCHANGED <<case, side, parts, closure, budget, injections, gaps>>

\* The operator or a user sets the field; a controller keeps foreign finalizers.
Edit ==
    /\ obj.here /\ ~Is(Creating) /\ Disturb
    /\ \E v \in {case.orig, case.edit} :
        /\ obj' = With(obj, IF Is({"FinalizerBlock"})
                            THEN Map(v.s \cup (obj.val.s \cap {"fault"})) ELSE v)
        /\ legit' = legit \cup {v}
    /\ UNCHANGED taken

Remove ==
    /\ obj.here /\ ~obj.term /\ Disturb
    /\ obj' = IF Is({"FinalizerBlock"}) /\ obj.val.s # {}
              THEN [obj EXCEPT !.term = TRUE] ELSE Deleted(obj)
    /\ UNCHANGED <<legit, taken>>

Recreate ==
    /\ ~obj.here /\ ~Is({"WebhookLatency"}) /\ Disturb
    /\ obj' = [Gone EXCEPT !.here = TRUE, !.val = case.edit, !.selected = TRUE,
                           !.label = IF Is(Creating) THEN "owner" ELSE "none"]
    /\ legit' = legit \cup {case.edit} /\ taken' = FALSE

\* Somebody edits the annotation.  ImageCorrupt's carries no checksum and no
\* syntax: what it says is restored.
Tamper ==
    /\ obj.mark # NoMark /\ ~Is({"ImageCorrupt"}) /\ Disturb
    /\ obj' = [obj EXCEPT !.mark = Corrupt]
    /\ UNCHANGED <<legit, taken>>

\* The label that a webhook was selected by is changed.
Relabel ==
    /\ case.selector /\ obj.selected /\ edits < MaxEdits
    /\ obj' = [obj EXCEPT !.selected = FALSE]
    /\ edits' = edits + 1 /\ gaps' = gaps \cup {"relabelled"}
    /\ call' = IF call = Idle THEN call ELSE [call EXCEPT !.stale = TRUE]
    /\ UNCHANGED <<case, side, parts, closure, budget, injections, legit, taken>>

\* The deletion completes.
Vanish ==
    /\ case.slow /\ obj.term /\ obj' = Gone
    /\ call' = IF call = Idle THEN call ELSE [call EXCEPT !.stale = TRUE]
    /\ UNCHANGED <<case, side, parts, closure, budget, history>>

Init ==
    /\ case \in Cases
    /\ obj = IF case.here THEN [Gone EXCEPT !.here = TRUE, !.val = case.orig,
                                    !.label = case.label, !.selected = TRUE]
             ELSE Gone
    /\ side = [NoBackup EXCEPT !.here = case.foreign]
    /\ parts = {} /\ call = Idle /\ closure = NoClosure
    /\ legit = {case.orig} /\ taken = FALSE /\ gaps = {}
    /\ budget = MaxFailures /\ edits = 0 /\ injections = 0

Inject ==
    \/ RBACRevokeInject \/ ConfigMapInject \/ SecretInject \/ WebhookDisruptInject
    \/ FinalizerBlockInject \/ ClientFaultInject \/ CRDMutationInject
    \/ OwnerRefOrphanInject \/ LabelStompingInject \/ ScaleZeroInject
    \/ CrashLoopInject \/ ImageCorruptInject
    \/ SecretDeletionInject \/ LeaderElectionInject \/ ResourceDeletionInject
    \/ NamespaceDeletionInject
    \/ NetworkPartitionInject \/ PDBBlockInject \/ QuotaExhaustionInject
    \/ WebhookLatencyInject

\* The clean-up closures that are not their Revert.
Cleanup ==
    \/ FinalizerBlockCleanup \/ ClientFaultCleanup \/ CRDMutationCleanup
    \/ OwnerRefOrphanCleanup \/ LabelStompingCleanup \/ QuotaExhaustionCleanup

Revert ==
    \/ RBACRevokeRevert \/ ConfigMapRevert \/ SecretRevert
    \/ WebhookDisruptRevert \/ RestorePolicies \/ FinalizerBlockRevert
    \/ ClientFaultRevert \/ CRDMutationRevert \/ OwnerRefOrphanRevert
    \/ LabelStompingRevert \/ ScaleZeroRestore \/ CrashLoopRestore
    \/ ImageCorruptRestore
    \/ RestoreSecret \/ RestoreLease \/ RestoreResource \/ RestoreNamespace
    \/ NetworkPartitionRevert \/ DeletePDB \/ QuotaExhaustionRevert
    \/ WebhookLatencyRevert \/ CleanupResources

Environment == Edit \/ Remove \/ Recreate \/ Tamper \/ Relabel \/ Vanish

Operation == Inject \/ Cleanup \/ Revert

Next == \/ \E op \in {"inject"} \cup Undo : Start(op)
        \/ Operation \/ Finish \/ Crash \/ Environment

Spec == Init /\ [][Next]_vars

-----------------------------------------------------------------------------
Objects == [here : BOOLEAN, val : Values,
            mark : Values \cup {NoMark, Created, Ref, Corrupt},
            label : {"none", "owner", "chaos"}, selected : BOOLEAN, term : BOOLEAN]

Calls == [op : {"none", "inject"} \cup Undo,
          at : {"idle", "get", "probe", "save", "write", "create", "delete", "undo", "look",
                "refetch", "restore", "drop", "unmark", "ok", "error"},
          part : Parts \cup {"none"}, got : Objects, copy : Values,
          stale : BOOLEAN, failed : BOOLEAN]

TypeOK ==
    /\ case \in Cases
    /\ obj \in Objects
    /\ side \in [here : BOOLEAN, val : Values, managed : BOOLEAN]
    /\ parts \subseteq Parts
    /\ call \in Calls
    /\ closure \in [set : BOOLEAN, was : Objects]
    /\ taken \in BOOLEAN
    /\ gaps \subseteq {"doubled", "lostDelete", "terminating", "unseen",
                      "foreignBackup", "relabelled", "nulled", "stripped",
                      "overlap"}

\* The original of a target that an injection has changed or taken away can
\* always be had from its annotation, the rollback Secret, the backup or the
\* closure: no order of failures, crashes and edits loses it, except those
\* recorded in `gaps' and an annotation that somebody else destroyed.
Recoverable ==
    gaps = {} =>
        /\ Is(InPlace) /\ obj.here /\ ~Genuine(obj.val) =>
             \/ obj.mark = Corrupt
             \/ IF Is({"SecretDrift"}) THEN side.here /\ Genuine(side.val) /\ obj.mark = Ref
                ELSE IF Is({"FinalizerBlock"}) THEN obj.mark = Scalar("fault")
                ELSE obj.mark = Created \/ Genuine(obj.mark)
        /\ taken /\ ~obj.here => side.here /\ Genuine(side.val)

\* What a revert that reports success leaves behind.
Restored ==
    /\ Is(InPlace) /\ obj.here =>
         /\ obj.mark = NoMark /\ obj.label # "chaos"
         /\ IF Is({"FinalizerBlock"}) THEN "fault" \notin obj.val.s
            ELSE Genuine(obj.val)
    /\ Is(Deleting) => ~taken /\ ~side.here
    /\ Is(Creating) => ~(obj.here /\ Ours(obj))
    /\ parts = {}

\* A Revert or closure that returns without an error has restored the target:
\* no fault, no annotation, no backup, none of the created objects is left,
\* also when it resumes one that was cut short.  And an injection of
\* WebhookLatency that fails half-way, and whose deletes succeed, leaves none
\* of its four objects.
RevertRestores ==
    [][/\ call'.at = "ok" /\ call.at # "ok" /\ call.op \in Undo /\ gaps' = {} => Restored'
       /\ Is({"WebhookLatency"}) /\ call.op = "inject" /\ call.at \in {"create", "drop"}
            /\ call'.at = "error" /\ ~call'.failed
            => parts' = {}]_vars

\* Besides the types: no state is excused that the code excludes.  The guarded
\* types never take their own fault for the original, they refuse an injected
\* target, each by a different test; and a namespace is never taken for restored
\* while it is still being deleted, unless the look-up fails.
Guarded == {"ValidatingWebhook", "MutatingWebhook", "FinalizerBlock",
            "OwnerRefOrphan", "LabelDelete"}
OnlyExcused ==
    /\ TypeOK
    /\ Is(Guarded) => "doubled" \notin gaps
    /\ Is({"NamespaceDeletion"}) => "terminating" \notin gaps

\* An object of the same name that belongs to somebody else is neither
\* overwritten nor deleted, unless it has appeared since the operation looked.
\* (The closure of QuotaExhaustion and the restores of Lease, resource and
\* namespace backups do not look.)
ForeignKept ==
    [][/\ Is({"PDBBlock", "QuotaExhaustion"}) /\ obj.here /\ ~Ours(obj) /\ obj' # obj
         => edits' # edits \/ call.stale \/ (Is({"QuotaExhaustion"}) /\ call.op = "cleanup")
       /\ side.here /\ ~side.managed /\ side' # side
         => call.op \in Undo /\ ~Is({"SecretDeletion"})]_vars
=============================================================================
