----------------------------- MODULE Validation -----------------------------
(***************************************************************************)
(* What decides whether an experiment may run: ValidateExperiment of the   *)
(* orchestrator with the blast radius of pkg/safety and the parameter      *)
(* checks of pkg/injection/validate.go, followed by what Inject makes of   *)
(* the parameters.                                                         *)
(*                                                                         *)
(* A name is the class of names it stands for, told apart by the patterns  *)
(* and deny-lists of the code, with its length.  Parameters that are not   *)
(* given are those of NoParams.                                            *)
(***************************************************************************)
EXTENDS Integers, Sequences

CONSTANTS Types,            \* the injection types that are submitted
          Params(_),        \* a type's parameters
          Surroundings(_),  \* the experiments that they are put into
          ClusterKinds,     \* the kinds that the API server keeps outside namespaces
          MaxPods           \* bound of the pods that match a selector

VARIABLES exp, stage, touched

validationVars == <<exp, stage, touched>>

MaxNameLength == 253
MaxClientFaultDelay == 300
MaxTimeout == 3600
MaxInjectionTTL == 3600

Name(text, len) == [text |-> text, len |-> len]
NoName == Name("", 0)
NoDuration == [given |-> FALSE, parses |-> TRUE, secs |-> 0]
NoParams ==
    [name |-> NoName, namespace |-> NoName, container |-> NoName,
     api |-> "", kind |-> "", selector |-> "", path |-> <<>>, field |-> "",
     value |-> "absent", key |-> "absent", keyLen |-> 0, action |-> "absent",
     finalizer |-> "", labelKey |-> "", labelValue |-> "", limit |-> "",
     delay |-> NoDuration, maxDelay |-> NoDuration, rate |-> 0, operation |-> ""]

\* The parameters and experiments there are.
K8sNames == [text : STRING, len : Nat]
Delays == [given : BOOLEAN, parses : BOOLEAN, secs : Int]
Parameters ==
    [name : K8sNames, namespace : K8sNames, container : K8sNames,
     api : STRING, kind : STRING, selector : STRING, path : Seq(STRING), field : STRING,
     value : STRING, key : STRING, keyLen : Nat, action : STRING,
     finalizer : STRING, labelKey : STRING, labelValue : STRING, limit : STRING,
     delay : Delays, maxDelay : Delays, rate : Int, operation : STRING]
Submissions ==
    [injection : [type : STRING, danger : STRING, count : Int], params : Parameters,
     consent : BOOLEAN, ns : STRING, allowed : SUBSET STRING, max : Int,
     forbidden : BOOLEAN, check : STRING, checkNs : STRING, operator : K8sNames,
     component : K8sNames, timeout : Int, ttl : Int]

ASSUME ValidationAssumption ==
    /\ Types \subseteq STRING
    /\ \A t \in Types : Params(t) \subseteq Parameters
    /\ \A t \in Types : Surroundings(t) \subseteq Submissions
    /\ ClusterKinds \subseteq STRING
    /\ MaxPods \in Nat

High(s) == s.danger = "high"

-----------------------------------------------------------------------------
(* Names.  "upper" has capitals, "colon" is system:..., "chaos" has one of *)
(* the reserved prefixes, "controller" is the controller's own namespace;  *)
(* the other classes are entries of the deny-lists.                        *)

ValidateK8sName(n) ==
    n.text \notin {"", "bad", "upper", "colon"} /\ n.len <= MaxNameLength
ValidateK8sResourceName(n) ==
    n.text \notin {"", "bad", "colon"} /\ n.len <= MaxNameLength
RejectChaosManagedResource(n) == n.text # "chaos"
Target(n) == ValidateK8sName(n) /\ RejectChaosManagedResource(n)

SystemConfig(n) == n.text \in {"systemConfig", "systemPrefix"}
SystemSecret(n) == n.text \in {"systemSecret", "systemPrefix"}
ForbiddenNamespace(n) == n.text \in {"kube-system", "openshift", "chaos"}

\* An optional parameter that names a namespace.
ValidateNamespaceParamUnprefixed(n) ==
    n.text # "" => ValidateK8sName(n) /\ n.text # "kube-system"
ValidateNamespaceParam(n) ==
    n.text # "" => ValidateK8sName(n) /\ ~ForbiddenNamespace(n)

\* Selectors: "kv" is key=value, "exists" a bare key, "blank" only spaces,
\* "commas" only commas, which labels.Parse refuses.
LabelsParse(sel) == sel \in {"kv", "exists", "blank"}
Requirements(sel) == IF sel \in {"kv", "exists"} THEN 1 ELSE 0
ValidateLabelSelector(sel) == sel # "" /\ LabelsParse(sel) /\ Requirements(sel) > 0

-----------------------------------------------------------------------------
(* One operator per validate...Params.  s is the injection, q its parameters. *)

EffectiveCount(count) == IF count <= 0 THEN 1 ELSE count

ValidatePodKillParams(s, q, max) ==
    EffectiveCount(s.count) <= max /\ ValidateLabelSelector(q.selector)

ValidateNetworkPartitionParams(s, q) == ValidateLabelSelector(q.selector)

\* "slash" stands for a segment that is no field name: every key with the
\* domain prefix of the framework contains one.
DangerousPaths == {<<"kind">>, <<"metadata", "name">>, <<"metadata", "uid">>}
ValidateJSONPath(path) ==
    /\ path # <<>> /\ \A i \in DOMAIN path : path[i] \notin {"", "slash"}
    /\ path \notin DangerousPaths
RejectChaosMetadataPath(path) ==
    path \notin {<<"metadata">>, <<"metadata", "annotations">>}

SensitiveSpecFields == {"replicas", "template"}
IsCoreKubernetesType(api) == api \in {"v1", "apps/v1", "apiextensions.k8s.io/v1"}
OwnExperiment(q) == q.kind = "ChaosExperiment" /\ q.api = "chaos.operatorchaos.io/v1"

ValidateCRDMutationParams(s, q) ==
    /\ q.api # "" /\ q.kind # "" /\ ~OwnExperiment(q) /\ Target(q.name)
    /\ (q.field # "") # (q.path # <<>>)
    /\ \/ q.field \notin {"", "slash"}
       \/ ValidateJSONPath(q.path) /\ RejectChaosMetadataPath(q.path)
    /\ q.value \notin {"absent", "huge"}
    /\ q.value \in {"object", "null"} => High(s)
    /\ (IF q.path # <<>> THEN q.path[Len(q.path)] ELSE q.field) \in SensitiveSpecFields
         => High(s)
    /\ IsCoreKubernetesType(q.api) => High(s)

\* The name of the rollback Secret is built from the untruncated key.
RollbackName(q) == 16 + q.name.len + q.keyLen
ValidateConfigDriftParams(s, q) ==
    /\ Target(q.name)
    /\ IF q.kind = "Secret" THEN High(s) /\ ~SystemSecret(q.name)
       ELSE ~SystemConfig(q.name)
    /\ q.key # "absent" /\ q.value \notin {"absent", "huge"}
    /\ q.kind \in {"", "ConfigMap", "Secret"}
    /\ q.kind = "Secret" => q.key # "slash" /\ RollbackName(q) <= MaxNameLength

CheckResolvedWebhookDenyList(n) == n.text \notin {"systemWebhook", "colon", "openshift"}
ValidateWebhookDisruptParams(s, q) ==
    /\ (q.name # NoName) # (q.selector # "")
    /\ q.name # NoName => /\ CheckResolvedWebhookDenyList(q.name)
                          /\ ValidateK8sResourceName(q.name)
    /\ q.selector # "" => LabelsParse(q.selector) /\ Requirements(q.selector) > 0
    /\ q.action = "setFailurePolicy"
    /\ q.kind \in {"", "validating", "mutating"}

ValidateRBACRevokeParams(s, q) ==
    /\ q.kind \in {"ClusterRoleBinding", "RoleBinding"}
    /\ q.kind = "ClusterRoleBinding" => q.name.text # "systemBinding"
    /\ q.name.text # "colon"
    /\ ValidateK8sResourceName(q.name) /\ RejectChaosManagedResource(q.name)

\* The check looks at a parameter called finalizerName, Inject at finalizer.
CoreKinds == {"Secret", "ConfigMap", "PersistentVolume", "Service", "ServiceAccount"}
ValidateFinalizerBlockParams(s, q) ==
    /\ q.kind \notin {"", "Namespace", "Node"}
    /\ ~(q.kind = "ChaosExperiment" /\ q.api \in {"", "chaos.operatorchaos.io/v1"})
    /\ Target(q.name)
    /\ (q.api \in {"", "v1"} /\ q.kind \in CoreKinds) => High(s)

BoundedDelay(d) == d.given => d.parses /\ d.secs <= MaxClientFaultDelay
ValidateClientFaultParams(s, q) ==
    /\ q.value \notin {"absent", "", "unparsable", "empty"}
    /\ q.operation = "get" /\ q.rate >= 0 /\ q.rate <= 10
    /\ BoundedDelay(q.delay) /\ BoundedDelay(q.maxDelay)
    /\ q.name # NoName => ValidateK8sName(q.name) /\ q.name.text = "chaos"

ValidateOwnerRefOrphanParams(s, q) ==
    /\ q.api # "" /\ q.kind \notin {"", "Namespace", "Node"} /\ ~OwnExperiment(q)
    /\ Target(q.name)

ValidateQuotaExhaustionParams(s, q) == Target(q.name) /\ q.limit # ""

ValidateWebhookLatencyParams(s, q) ==
    /\ High(s) /\ q.kind # "" /\ q.api # ""
    /\ q.delay.given => q.delay.parses /\ q.delay.secs \in 1..29

ValidateLabelKey(k) == k \notin {"", "bad"}
ValidateLabelValue(v) == v # "bad"
ValidateLabelStompingParams(s, q) ==
    /\ q.api # "" /\ q.kind # "" /\ Target(q.name)
    /\ ValidateLabelKey(q.labelKey) /\ q.labelKey \notin {"managed-by", "chaos"}
    /\ q.action \in {"overwrite", "delete"}
    /\ q.action = "overwrite" => ValidateLabelValue(q.labelValue)
    /\ q.labelKey = "system" => High(s)

ValidateNamespaceDeletionParams(s, q) ==
    /\ High(s) /\ ValidateK8sName(q.namespace)
    /\ ~ForbiddenNamespace(q.namespace) /\ q.namespace.text # "controller"

ValidateSecretDeletionParams(s, q) ==
    /\ High(s) /\ Target(q.name) /\ ~SystemSecret(q.name)
    /\ ValidateNamespaceParam(q.namespace)
    /\ 20 + q.name.len <= MaxNameLength

ValidateScaleZeroParams(s, q) == High(s) /\ Target(q.name)
ValidateImageCorruptParams(s, q) == High(s) /\ Target(q.name)
ValidateLeaseElectionParams(s, q) ==
    High(s) /\ Target(q.name) /\ 19 + q.name.len <= MaxNameLength
ValidateCrashLoopParams(s, q) ==
    /\ High(s) /\ Target(q.name)
    /\ q.container # NoName => ValidateK8sName(q.container)

KindLen(kind) == CASE kind = "Secret" -> 6 [] kind = "Service" -> 7
                   [] kind = "ServiceAccount" -> 14 [] OTHER -> 10
\* This list of cluster-scoped kinds is shorter than the orchestrator's.
NotDeletable == {"Namespace", "Node", "ClusterRole", "PersistentVolume"}
ValidateResourceDeletionParams(s, q) ==
    /\ High(s) /\ q.api # "" /\ q.kind # "" /\ Target(q.name)
    /\ q.kind \notin NotDeletable
    /\ q.kind = "Secret" => ~SystemSecret(q.name)
    /\ q.kind = "Service" => q.name.text # "systemService"
    /\ q.kind = "ServiceAccount" => q.name.text # "systemAccount"
    /\ ValidateNamespaceParam(q.namespace)
    /\ 23 + KindLen(q.kind) + q.name.len <= MaxNameLength

ValidatePDBBlockParams(s, q) ==
    /\ High(s) /\ q.selector \in {"kv", "commas", "blank"}
    /\ q.name # NoName => ValidateK8sName(q.name)

ValidateInjectionParams(s, q, max) ==
    CASE s.type = "PodKill" -> ValidatePodKillParams(s, q, max)
      [] s.type = "NetworkPartition" -> ValidateNetworkPartitionParams(s, q)
      [] s.type = "CRDMutation" -> ValidateCRDMutationParams(s, q)
      [] s.type = "ConfigDrift" -> ValidateConfigDriftParams(s, q)
      [] s.type = "WebhookDisrupt" -> ValidateWebhookDisruptParams(s, q)
      [] s.type = "RBACRevoke" -> ValidateRBACRevokeParams(s, q)
      [] s.type = "FinalizerBlock" -> ValidateFinalizerBlockParams(s, q)
      [] s.type = "ClientFault" -> ValidateClientFaultParams(s, q)
      [] s.type = "OwnerRefOrphan" -> ValidateOwnerRefOrphanParams(s, q)
      [] s.type = "QuotaExhaustion" -> ValidateQuotaExhaustionParams(s, q)
      [] s.type = "WebhookLatency" -> ValidateWebhookLatencyParams(s, q)
      [] s.type = "NamespaceDeletion" -> ValidateNamespaceDeletionParams(s, q)
      [] s.type = "LabelStomping" -> ValidateLabelStompingParams(s, q)
      [] s.type = "SecretDeletion" -> ValidateSecretDeletionParams(s, q)
      [] s.type = "DeploymentScaleZero" -> ValidateScaleZeroParams(s, q)
      [] s.type = "LeaderElectionDisrupt" -> ValidateLeaseElectionParams(s, q)
      [] s.type = "CrashLoopInject" -> ValidateCrashLoopParams(s, q)
      [] s.type = "ImageCorrupt" -> ValidateImageCorruptParams(s, q)
      [] s.type = "ResourceDeletion" -> ValidateResourceDeletionParams(s, q)
      [] s.type = "PDBBlock" -> ValidatePDBBlockParams(s, q)
      [] OTHER -> FALSE

-----------------------------------------------------------------------------
(* The orchestrator's checks around them *)

IsClusterScopedInjectionNoKinds(s, q) ==
    \/ s.type = "WebhookDisrupt"
    \/ s.type = "RBACRevoke" /\ q.kind = "ClusterRoleBinding"
    \/ s.type \in {"CRDMutation", "FinalizerBlock"} /\ q.api = "apiextensions.k8s.io/v1"

ClusterScopedKinds ==
    {"Namespace", "Node", "ClusterRole", "PersistentVolume", "StorageClass"}
IsClusterScopedInjection(s, q) ==
    \/ s.type = "WebhookDisrupt"
    \/ s.type = "RBACRevoke" /\ q.kind = "ClusterRoleBinding"
    \/ /\ s.type \in {"CRDMutation", "FinalizerBlock"}
       /\ q.api = "apiextensions.k8s.io/v1" \/ q.kind \in ClusterScopedKinds

\* openshift-* is open to those who say so, the others to nobody.
CheckForbiddenNamespace(ns, consent) ==
    ns # "kube-system" /\ (ns = "openshift" => consent)

\* A single allowed namespace comes first, then that of a check.
ResolveNamespace(e) ==
    IF \E n \in e.allowed : e.allowed = {n} THEN CHOOSE n \in e.allowed : TRUE
    ELSE IF e.checkNs # "" THEN e.checkNs ELSE e.ns

ValidateBlastRadius(e) ==
    /\ e.max > 0 /\ EffectiveCount(e.injection.count) <= e.max
    /\ ResolveNamespace(e) \in e.allowed /\ ~e.forbidden

CheckDangerLevel(s, consent) == High(s) => consent

\* A check of the steady state names what its type needs.
ValidCheck(c) ==
    CASE c = "none" -> TRUE [] c = "resourceExists" -> TRUE
      [] c = "fieldEquals" -> TRUE [] OTHER -> FALSE

ValidateExperiment(e) ==
    /\ ValidateK8sName(e.operator) /\ ValidateK8sName(e.component)
    /\ \A ns \in {ResolveNamespace(e)} \cup e.allowed \cup ({e.checkNs} \ {""}) :
          CheckForbiddenNamespace(ns, e.consent)
    /\ ValidCheck(e.check)
    /\ e.timeout <= MaxTimeout /\ e.ttl <= MaxInjectionTTL
    /\ IF IsClusterScopedInjection(e.injection, e.params)
       THEN High(e.injection) /\ e.allowed = {}
       ELSE e.allowed # {} /\ ValidateBlastRadius(e)
    /\ CheckDangerLevel(e.injection, e.consent)
    /\ ValidateInjectionParams(e.injection, e.params, e.max)

-----------------------------------------------------------------------------
(* What Inject makes of an accepted experiment *)

Untouched == [ns |-> "none", pods |-> 0, made |-> 0, error |-> FALSE, hit |-> NoName]

\* Whether the object has a namespace is for the API server to say; for one
\* that has none it ignores the namespace it is asked for.
ClusterScoped(q) == q.kind \in ClusterKinds \/ q.api = "apiextensions.k8s.io/v1"

\* The types whose parameters name any kind; a parameter may also name another
\* namespace than the experiment's.
TakesAnyKind == {"CRDMutation", "FinalizerBlock", "LabelStomping", "OwnerRefOrphan",
                 "ResourceDeletion"}
TakesNamespace == {"SecretDeletion", "ResourceDeletion"}
TargetNamespace(e) ==
    LET t == e.injection.type
        q == e.params
    IN  IF \/ t \in {"NamespaceDeletion", "WebhookLatency"}
           \/ t = "RBACRevoke" /\ q.kind = "ClusterRoleBinding"
           \/ t \in TakesAnyKind /\ ClusterScoped(q)
        THEN "cluster"
        ELSE IF t \in TakesNamespace /\ q.namespace # NoName THEN q.namespace.text
        ELSE ResolveNamespace(e)

\* The length of the name of what an injection stores its rollback data in.
Stored(e) ==
    CASE e.injection.type = "SecretDeletion" -> 20 + e.params.name.len
      [] e.injection.type = "LeaderElectionDisrupt" -> 19 + e.params.name.len
      [] e.injection.type = "ResourceDeletion" ->
            23 + KindLen(e.params.kind) + e.params.name.len
      [] e.injection.type = "ConfigDrift" /\ e.params.kind = "Secret" ->
            16 + e.params.name.len + (IF e.params.keyLen > 30 THEN 30 ELSE e.params.keyLen)
      [] OTHER -> 0

\* PodKill deletes pods one by one and stops at the first error.
PodKillInject(e) ==
    \E pods \in 0..MaxPods :
        LET count == EffectiveCount(e.injection.count)
            kill == IF count > pods THEN pods ELSE count
        IN  \E n \in 0..kill :
                touched' = [Untouched EXCEPT !.ns = ResolveNamespace(e), !.pods = n,
                                             !.error = (pods = 0 \/ n < kill)]

\* A webhook that was named by a label is looked up and checked.
WebhookDisruptResolve(e) ==
    \E n \in IF e.params.selector = "" THEN {e.params.name}
             ELSE {Name("plain", 5), Name("systemWebhook", 5)} :
        touched' = [Untouched EXCEPT
            !.ns = IF CheckResolvedWebhookDenyList(n) THEN "cluster" ELSE "none",
            !.hit = IF CheckResolvedWebhookDenyList(n) THEN n ELSE NoName,
            !.error = ~CheckResolvedWebhookDenyList(n)]

\* The parsing that Inject repeats or does alone.
ParseLabelSelector(sel) == sel = "kv"
ParseTypedParameters(e) ==
    CASE e.injection.type = "PDBBlock" -> ParseLabelSelector(e.params.selector)
      [] e.injection.type = "QuotaExhaustion" -> e.params.limit = "quantity"
      [] OTHER -> TRUE

OtherInject(e) ==
    touched' = IF ParseTypedParameters(e)
               THEN [Untouched EXCEPT !.ns = TargetNamespace(e), !.made = Stored(e),
                                      !.hit = IF e.injection.type = "NamespaceDeletion"
                                              THEN e.params.namespace ELSE e.params.name]
               ELSE [Untouched EXCEPT !.error = TRUE]

Validate ==
    /\ stage = "submitted"
    /\ stage' = IF ValidateExperiment(exp) THEN "accepted" ELSE "rejected"
    /\ UNCHANGED <<exp, touched>>

Inject ==
    /\ stage = "accepted" /\ stage' = "injected"
    /\ CASE exp.injection.type = "PodKill" -> PodKillInject(exp)
         [] exp.injection.type = "WebhookDisrupt" -> WebhookDisruptResolve(exp)
         [] OTHER -> OtherInject(exp)
    /\ UNCHANGED exp

ValidationInit ==
    /\ \E t \in Types : \E q \in Params(t), e \in Surroundings(t) :
          exp = [e EXCEPT !.injection.type = t, !.params = q]
    /\ stage = "submitted" /\ touched = Untouched
ValidationNext == Validate \/ Inject
ValidationSpec == ValidationInit /\ [][ValidationNext]_validationVars

-----------------------------------------------------------------------------
\* The cluster-scoped kinds that the orchestrator has to recognise, named here
\* once more so that what is claimed does not depend on its list.
KnownKinds == {"Namespace", "Node", "ClusterRole", "PersistentVolume", "StorageClass"}

\* Cluster-scoped objects that the orchestrator takes for namespaced ones: any of
\* LabelStomping and OwnerRefOrphan, and those of FinalizerBlock and CRDMutation
\* whose kind is none of these, for its list is finite
\* (experiments/opendatahub-operator/finalizer-block.yaml: DataScienceCluster).
TakenForNamespaced(e) ==
    /\ ClusterScoped(e.params)
    /\ \/ e.injection.type \in {"LabelStomping", "OwnerRefOrphan"}
       \/ /\ e.injection.type \in {"CRDMutation", "FinalizerBlock"}
          /\ e.params.kind \notin KnownKinds /\ e.params.api # "apiextensions.k8s.io/v1"

\* What an accepted experiment touches lies in one of its allowed namespaces, or
\* it is declared as of high danger and its author has set allowDangerous; the
\* only exception are the objects above.
\* This holds wherever a parameter, a check, a selector or the scope of a kind
\* leads.  The pods it kills are within the blast radius whatever their number.
WithinBlastRadius ==
    stage = "injected" =>
        /\ \/ touched.ns \in exp.allowed \cup {"none"}
           \/ High(exp.injection) /\ exp.consent
           \/ TakenForNamespaced(exp)
        /\ touched.pods > 0 => touched.pods <= exp.max

\* The names that the deny-lists keep from each type.
Protected(t, q) ==
    CASE t \in {"SecretDeletion"} -> {"systemSecret", "systemPrefix", "chaos"}
      [] t = "ConfigDrift" -> {"systemPrefix", "chaos",
                               IF q.kind = "Secret" THEN "systemSecret" ELSE "systemConfig"}
      [] t = "WebhookDisrupt" -> {"systemWebhook", "colon", "openshift"}
      [] t = "RBACRevoke" -> {"colon", "chaos"} \cup
            (IF q.kind = "ClusterRoleBinding" THEN {"systemBinding"} ELSE {})
      [] t = "NamespaceDeletion" -> {"kube-system", "openshift", "chaos", "controller"}
      [] t = "ResourceDeletion" -> {"chaos"} \cup
            (CASE q.kind = "Secret" -> {"systemSecret", "systemPrefix"}
               [] q.kind = "Service" -> {"systemService"}
               [] q.kind = "ServiceAccount" -> {"systemAccount"} [] OTHER -> {})
      [] t \in {"ClientFault", "PDBBlock", "PodKill", "NetworkPartition", "WebhookLatency"} -> {}
      [] OTHER -> {"chaos"}

\* The kinds that they keep from each type, the program's own among them.
DeniedKind(t, q) ==
    CASE t \in {"FinalizerBlock", "OwnerRefOrphan"} ->
            q.kind \in {"Namespace", "Node"} \/ OwnExperiment(q)
      [] t = "CRDMutation" -> OwnExperiment(q)
      [] t = "ResourceDeletion" ->
            q.kind \in {"Namespace", "Node", "ClusterRole", "PersistentVolume"}
      [] OTHER -> FALSE

\* And the namespaces: nobody works in kube-system, and in openshift-* only with
\* consent; a namespace given as a parameter is none of these, consent or not,
\* nor one of the program's own with the prefix chaos-.
DeniedNamespace(e, ns) ==
    \/ ns = "kube-system"
    \/ ns = "openshift" /\ ~e.consent
    \/ /\ e.injection.type \in TakesNamespace /\ e.params.namespace # NoName
       /\ ns \in {"openshift", "chaos"}

\* An accepted experiment never hits what the deny-lists protect, whether it is
\* named, found by a label, of a denied kind, or in a namespace that is denied;
\* nor what its own revert needs: the name of its rollback Secret or ConfigMap is
\* within the limit of the API server, and no CRDMutation replaces the annotation
\* that holds the original, nor anything above it.
ProtectedUntouched ==
    stage = "injected" =>
        /\ touched.hit.text \notin Protected(exp.injection.type, exp.params)
        /\ touched.ns # "none" => ~DeniedKind(exp.injection.type, exp.params)
        /\ ~DeniedNamespace(exp, touched.ns)
        /\ touched.made <= MaxNameLength
        /\ exp.injection.type = "CRDMutation" =>
              exp.params.path \notin {<<"metadata">>, <<"metadata", "annotations">>,
                                      <<"metadata", "annotations", "slash">>}
=============================================================================
