--------------------------- MODULE DecisionsProofs --------------------------
(***************************************************************************)
(* Proofs about the decisions of a run: what a validated experiment may    *)
(* touch, the order in which a playbook's steps are run, and when a        *)
(* verdict says Resilient, whatever the order of the findings.             *)
(***************************************************************************)
EXTENDS Validation, SequencerCheck, Verdict, SequencerProofs, FiniteSetTheorems

-----------------------------------------------------------------------------
(* VALIDATION: for every type, every parameter and every experiment around   *)
(* it.                                                                       *)

-----------------------------------------------------------------------------
(* The parameter checks, type by type *)

\* The name an injection hits is not one that the deny-lists protect from it.
LEMMA HitAllowed ==
    ASSUME NEW s, NEW q \in Parameters, NEW max \in Int, ValidateInjectionParams(s, q, max)
    PROVE  IF s.type = "NamespaceDeletion" THEN q.namespace.text \notin Protected(s.type, q)
           ELSE s.type # "WebhookDisrupt" => q.name.text \notin Protected(s.type, q)
    <1> DEFINE t == s.type
    <1>1. CASE t \in {"ClientFault", "PDBBlock", "PodKill", "NetworkPartition", "WebhookLatency"}
        BY <1>1 DEF Protected
    <1>2. CASE t = "CRDMutation"
        BY <1>2 DEF Protected, ValidateInjectionParams, ValidateCRDMutationParams, Target,
           RejectChaosManagedResource
    <1>3. CASE t = "ConfigDrift"
        BY <1>3 DEF Protected, ValidateInjectionParams, ValidateConfigDriftParams, Target,
           RejectChaosManagedResource, SystemSecret, SystemConfig
    <1>4. CASE t = "RBACRevoke"
        <2>1. ValidateRBACRevokeParams(s, q)
            BY <1>4 DEF ValidateInjectionParams
        <2> QED
            BY <1>4, <2>1 DEF Protected, ValidateRBACRevokeParams, RejectChaosManagedResource
    <1>5. CASE t = "FinalizerBlock"
        BY <1>5 DEF Protected, ValidateInjectionParams, ValidateFinalizerBlockParams, Target,
           RejectChaosManagedResource
    <1>6. CASE t = "OwnerRefOrphan"
        BY <1>6 DEF Protected, ValidateInjectionParams, ValidateOwnerRefOrphanParams, Target,
           RejectChaosManagedResource
    <1>7. CASE t = "QuotaExhaustion"
        BY <1>7 DEF Protected, ValidateInjectionParams, ValidateQuotaExhaustionParams, Target,
           RejectChaosManagedResource
    <1>8. CASE t = "LabelStomping"
        BY <1>8 DEF Protected, ValidateInjectionParams, ValidateLabelStompingParams, Target,
           RejectChaosManagedResource
    <1>9. CASE t = "NamespaceDeletion"
        BY <1>9 DEF Protected, ValidateInjectionParams, ValidateNamespaceDeletionParams,
           ForbiddenNamespace
    <1>10. CASE t = "SecretDeletion"
        BY <1>10 DEF Protected, ValidateInjectionParams, ValidateSecretDeletionParams, Target,
           RejectChaosManagedResource, SystemSecret
    <1>11. CASE t = "DeploymentScaleZero"
        BY <1>11 DEF Protected, ValidateInjectionParams, ValidateScaleZeroParams, Target,
           RejectChaosManagedResource
    <1>12. CASE t = "LeaderElectionDisrupt"
        BY <1>12 DEF Protected, ValidateInjectionParams, ValidateLeaseElectionParams, Target,
           RejectChaosManagedResource
    <1>13. CASE t = "CrashLoopInject"
        BY <1>13 DEF Protected, ValidateInjectionParams, ValidateCrashLoopParams, Target,
           RejectChaosManagedResource
    <1>14. CASE t = "ImageCorrupt"
        BY <1>14 DEF Protected, ValidateInjectionParams, ValidateImageCorruptParams, Target,
           RejectChaosManagedResource
    <1>15. CASE t = "ResourceDeletion"
        BY <1>15 DEF Protected, ValidateInjectionParams, ValidateResourceDeletionParams, Target,
           RejectChaosManagedResource, SystemSecret
    <1>16. CASE t = "WebhookDisrupt"
        BY <1>16
    <1>17. t \in {"ClientFault", "PDBBlock", "PodKill", "NetworkPartition", "WebhookLatency",
                  "CRDMutation", "ConfigDrift", "RBACRevoke", "FinalizerBlock", "OwnerRefOrphan",
                  "QuotaExhaustion", "LabelStomping", "NamespaceDeletion", "SecretDeletion",
                  "DeploymentScaleZero", "LeaderElectionDisrupt", "CrashLoopInject",
                  "ImageCorrupt", "ResourceDeletion", "WebhookDisrupt"}
        BY DEF ValidateInjectionParams
    <1> QED
        BY <1>1, <1>2, <1>3, <1>4, <1>5, <1>6, <1>7, <1>8, <1>9, <1>10, <1>11, <1>12, <1>13,
           <1>14, <1>15, <1>16, <1>17

\* Whatever stores the rollback data of an injection has a name that fits.
LEMMA StoredFits ==
    ASSUME NEW e \in Submissions, ValidateInjectionParams(e.injection, e.params, e.max)
    PROVE  Stored(e) <= MaxNameLength
    <1> DEFINE t == e.injection.type
               len == e.params.name.len
    <1>1. e.params \in Parameters
        BY DEF Submissions
    <1>2. e.params.name \in K8sNames /\ e.params.keyLen \in Nat
        BY <1>1 DEF Parameters
    <1>3. len \in Nat
        BY <1>2 DEF K8sNames
    <1>4. KindLen(e.params.kind) \in Nat
        BY DEF KindLen
    <1>5. CASE t = "SecretDeletion"
        BY <1>3, <1>5 DEF Stored, ValidateInjectionParams, ValidateSecretDeletionParams
    <1>6. CASE t = "LeaderElectionDisrupt"
        BY <1>3, <1>6 DEF Stored, ValidateInjectionParams, ValidateLeaseElectionParams
    <1>7. CASE t = "ResourceDeletion"
        BY <1>3, <1>4, <1>7 DEF Stored, ValidateInjectionParams, ValidateResourceDeletionParams
    <1>8. CASE t = "ConfigDrift" /\ e.params.kind = "Secret"
        <2>1. RollbackName(e.params) <= MaxNameLength
            BY <1>8 DEF ValidateInjectionParams, ValidateConfigDriftParams
        <2> QED
            BY <1>2, <1>3, <1>8, <2>1 DEF Stored, RollbackName, MaxNameLength
    <1>9. CASE /\ t \notin {"SecretDeletion", "LeaderElectionDisrupt", "ResourceDeletion"}
               /\ ~(t = "ConfigDrift" /\ e.params.kind = "Secret")
        BY <1>9 DEF Stored, MaxNameLength
    <1> QED
        BY <1>5, <1>6, <1>7, <1>8, <1>9

\* Nor is its kind one that they keep from the type.
LEMMA KindAllowed ==
    ASSUME NEW s, NEW q \in Parameters, NEW max \in Int, ValidateInjectionParams(s, q, max)
    PROVE  ~DeniedKind(s.type, q)
    <1>1. CASE s.type = "FinalizerBlock"
        BY <1>1 DEF DeniedKind, OwnExperiment, ValidateInjectionParams, ValidateFinalizerBlockParams
    <1>2. CASE s.type = "OwnerRefOrphan"
        BY <1>2 DEF DeniedKind, ValidateInjectionParams, ValidateOwnerRefOrphanParams
    <1>3. CASE s.type = "CRDMutation"
        BY <1>3 DEF DeniedKind, ValidateInjectionParams, ValidateCRDMutationParams
    <1>4. CASE s.type = "ResourceDeletion"
        BY <1>4 DEF DeniedKind, ValidateInjectionParams, ValidateResourceDeletionParams, NotDeletable
    <1>5. CASE s.type \notin {"FinalizerBlock", "OwnerRefOrphan", "CRDMutation", "ResourceDeletion"}
        BY <1>5 DEF DeniedKind
    <1> QED
        BY <1>1, <1>2, <1>3, <1>4, <1>5

\* An injection that may leave its namespace is declared dangerous, unless the
\* orchestrator takes its object for a namespaced one.
LEMMA OutsideIsDangerous ==
    ASSUME NEW e \in Submissions, ValidateExperiment(e)
    PROVE  \/ TargetNamespace(e) = ResolveNamespace(e)
           \/ High(e.injection)
           \/ TakenForNamespaced(e)
    <1> DEFINE t == e.injection.type
    <1>1. ValidateInjectionParams(e.injection, e.params, e.max)
        BY DEF ValidateExperiment
    <1>2. CASE IsClusterScopedInjection(e.injection, e.params)
        BY <1>2 DEF ValidateExperiment
    <1>3. CASE t = "NamespaceDeletion"
        BY <1>1, <1>3 DEF ValidateInjectionParams, ValidateNamespaceDeletionParams
    <1>4. CASE t = "WebhookLatency"
        BY <1>1, <1>4 DEF ValidateInjectionParams, ValidateWebhookLatencyParams
    <1>5. CASE t = "SecretDeletion"
        BY <1>1, <1>5 DEF ValidateInjectionParams, ValidateSecretDeletionParams
    <1>6. CASE t = "ResourceDeletion"
        BY <1>1, <1>6 DEF ValidateInjectionParams, ValidateResourceDeletionParams
    <1>7. CASE t \in {"CRDMutation", "FinalizerBlock"} /\ ClusterScoped(e.params)
        \* The known kinds and the group of definitions are on the list.
        <2>1. CASE e.params.kind \in KnownKinds \/ e.params.api = "apiextensions.k8s.io/v1"
            <3>1. IsClusterScopedInjection(e.injection, e.params)
                BY <1>7, <2>1 DEF IsClusterScopedInjection, ClusterScopedKinds, KnownKinds
            <3> QED
                BY <1>2, <3>1
        <2>2. CASE ~(e.params.kind \in KnownKinds \/ e.params.api = "apiextensions.k8s.io/v1")
            BY <1>7, <2>2 DEF TakenForNamespaced
        <2> QED
            BY <2>1, <2>2
    <1>8. CASE t \in {"LabelStomping", "OwnerRefOrphan"} /\ ClusterScoped(e.params)
        BY <1>8 DEF TakenForNamespaced
    <1>9. CASE t = "RBACRevoke" /\ e.params.kind = "ClusterRoleBinding"
        BY <1>2, <1>9 DEF IsClusterScopedInjection
    <1>10. CASE /\ t \notin {"NamespaceDeletion", "WebhookLatency", "SecretDeletion",
                             "ResourceDeletion"}
                /\ ~(t = "RBACRevoke" /\ e.params.kind = "ClusterRoleBinding")
                /\ ~(t \in {"CRDMutation", "FinalizerBlock", "LabelStomping", "OwnerRefOrphan"}
                       /\ ClusterScoped(e.params))
        BY <1>10 DEF TargetNamespace, TakesAnyKind, TakesNamespace
    <1> QED
        BY <1>2, <1>3, <1>4, <1>5, <1>6, <1>7, <1>8, <1>9, <1>10

\* An injection that stays in the experiment's namespace stays in an allowed
\* one, or it is declared dangerous and its author has consented.
LEMMA OwnNamespaceAllowed ==
    ASSUME NEW e \in Submissions, ValidateExperiment(e)
    PROVE  /\ ResolveNamespace(e) \in e.allowed \/ (High(e.injection) /\ e.consent)
           /\ ResolveNamespace(e) # "kube-system"
           /\ ResolveNamespace(e) = "openshift" => e.consent
           /\ High(e.injection) => e.consent
    <1>1. CheckForbiddenNamespace(ResolveNamespace(e), e.consent)
        BY DEF ValidateExperiment
    <1>2. High(e.injection) => e.consent
        BY DEF ValidateExperiment, CheckDangerLevel
    <1>3. ResolveNamespace(e) \in e.allowed \/ High(e.injection)
        BY DEF ValidateExperiment, ValidateBlastRadius
    <1> QED
        BY <1>1, <1>2, <1>3 DEF CheckForbiddenNamespace

\* Nor does a parameter lead to a namespace that is denied.
LEMMA NamespaceAllowed ==
    ASSUME NEW e \in Submissions, ValidateExperiment(e)
    PROVE  ~DeniedNamespace(e, TargetNamespace(e))
    <1>1. ValidateInjectionParams(e.injection, e.params, e.max)
        BY DEF ValidateExperiment
    <1>2. CASE e.injection.type \in TakesNamespace /\ e.params.namespace # NoName
        <2>1. ValidateNamespaceParam(e.params.namespace)
            BY <1>1, <1>2 DEF ValidateInjectionParams, ValidateSecretDeletionParams,
               ValidateResourceDeletionParams, TakesNamespace
        <2>2. e.params.namespace.text \notin {"kube-system", "openshift", "chaos"}
            BY <2>1 DEF ValidateNamespaceParam, ForbiddenNamespace
        <2>3. TargetNamespace(e) \in {"cluster", e.params.namespace.text}
            BY <1>2 DEF TargetNamespace
        <2> QED
            BY <2>2, <2>3 DEF DeniedNamespace
    <1>3. CASE ~(e.injection.type \in TakesNamespace /\ e.params.namespace # NoName)
        <2>1. TargetNamespace(e) \in {"cluster", ResolveNamespace(e)}
            BY <1>3 DEF TargetNamespace
        <2> QED
            BY <1>3, <2>1, OwnNamespaceAllowed DEF DeniedNamespace
    <1> QED
        BY <1>2, <1>3

\* A CRDMutation leaves the annotation with its rollback data alone.
LEMMA PathAllowed ==
    ASSUME NEW s, NEW q \in Parameters, NEW max \in Int, ValidateInjectionParams(s, q, max),
           s.type = "CRDMutation"
    PROVE  q.path \notin {<<"metadata">>, <<"metadata", "annotations">>,
                         <<"metadata", "annotations", "slash">>}
    <1>1. ValidateCRDMutationParams(s, q)
        BY DEF ValidateInjectionParams
    <1>2. (q.field # "") # (q.path # <<>>)
        BY <1>1 DEF ValidateCRDMutationParams
    <1>3. CASE q.field # ""
        <2>1. q.path = <<>>
            BY <1>2, <1>3
        <2> QED
            BY <2>1
    <1>4. CASE q.field = ""
        <2>1. ValidateJSONPath(q.path) /\ RejectChaosMetadataPath(q.path)
            BY <1>1, <1>4 DEF ValidateCRDMutationParams
        <2>2. q.path = <<"metadata", "annotations", "slash">> => q.path[3] = "slash" /\ 3 \in DOMAIN q.path
            OBVIOUS
        <2> QED
            BY <2>1, <2>2 DEF ValidateJSONPath, RejectChaosMetadataPath
    <1> QED
        BY <1>3, <1>4

-----------------------------------------------------------------------------
(* The invariant *)

\* An accepted experiment passed every check, and what it does to the cluster
\* when it is injected is within its bounds.
ValidationInv ==
    /\ exp \in Submissions
    /\ stage \in {"submitted", "accepted", "rejected", "injected"}
    /\ stage = "accepted" => ValidateExperiment(exp)
    /\ WithinBlastRadius
    /\ ProtectedUntouched

LEMMA ValidationInitInv == ValidationInit => ValidationInv
    <1> SUFFICES ASSUME ValidationInit PROVE ValidationInv
        OBVIOUS
    <1>0. PICK t \in Types : \E q \in Params(t), e \in Surroundings(t) :
             exp = [e EXCEPT !.injection.type = t, !.params = q]
        BY DEF ValidationInit
    <1>1. PICK q \in Params(t), e \in Surroundings(t) :
             exp = [e EXCEPT !.injection.type = t, !.params = q]
        BY <1>0
    <1>2. t \in STRING /\ q \in Parameters /\ e \in Submissions
        BY ValidationAssumption
    <1> DEFINE inj == [e.injection EXCEPT !.type = t]
               e1 == [e EXCEPT !.injection = inj]
    <1>3. e.injection \in [type : STRING, danger : STRING, count : Int]
        BY <1>2 DEF Submissions
    <1>4. inj \in [type : STRING, danger : STRING, count : Int]
        BY <1>2, <1>3
    <1>5. exp = [e1 EXCEPT !.params = q]
        BY <1>1, Zenon
    <1> HIDE DEF inj
    <1>6. e1 \in Submissions
        BY <1>2, <1>4 DEF Submissions
    <1> HIDE DEF e1
    <1>7. exp \in Submissions
        BY <1>2, <1>5, <1>6 DEF Submissions
    <1> QED
        BY <1>7 DEF ValidationInit, ValidationInv, WithinBlastRadius, ProtectedUntouched

\* A step that kills and creates nothing is within every bound.
LEMMA NothingCounted ==
    ASSUME touched'.pods = 0, touched'.made = 0
    PROVE  /\ touched'.pods > 0 => touched'.pods <= exp.max
           /\ touched'.made <= MaxNameLength
    BY DEF MaxNameLength

LEMMA InjectKeeps ==
    ASSUME ValidationInv, Inject
    PROVE  ValidationInv'
    <1>1. stage = "accepted" /\ stage' = "injected" /\ exp' = exp
        BY DEF Inject
    <1>2. exp \in Submissions /\ ValidateExperiment(exp)
        BY <1>1 DEF ValidationInv
    <1>3. /\ exp.injection \in [type : STRING, danger : STRING, count : Int]
          /\ exp.params \in Parameters /\ exp.max \in Int
        BY <1>2 DEF Submissions
    <1>4. ValidateInjectionParams(exp.injection, exp.params, exp.max)
        BY <1>2 DEF ValidateExperiment
    <1>5. ~DeniedKind(exp.injection.type, exp.params)
        BY <1>3, <1>4, KindAllowed
    <1> DEFINE p == exp.injection.type
    \* What is left to show of the cluster afterwards.
    <1>6. ASSUME \/ touched'.ns \in exp.allowed \cup {"none"}
                 \/ High(exp.injection) /\ exp.consent
                 \/ TakenForNamespaced(exp),
                 ~DeniedNamespace(exp, touched'.ns),
                 touched'.pods > 0 => touched'.pods <= exp.max,
                 touched'.made <= MaxNameLength,
                 touched'.hit.text \notin Protected(p, exp.params)
          PROVE  ValidationInv'
        <2>1. p = "CRDMutation" =>
                 exp.params.path \notin {<<"metadata">>, <<"metadata", "annotations">>,
                                        <<"metadata", "annotations", "slash">>}
            BY <1>3, <1>4, PathAllowed
        <2>2. WithinBlastRadius'
            BY <1>1, <1>6 DEF WithinBlastRadius
        <2>3. ProtectedUntouched'
            BY <1>1, <1>5, <1>6, <2>1 DEF ProtectedUntouched
        <2> QED
            BY <1>1, <1>2, <2>2, <2>3 DEF ValidationInv
    <1>7. CASE p = "PodKill"
        <2>1. PICK pods \in 0..MaxPods :
                LET count == EffectiveCount(exp.injection.count)
                    kill == IF count > pods THEN pods ELSE count
                IN  \E n \in 0..kill :
                      touched' = [Untouched EXCEPT !.ns = ResolveNamespace(exp), !.pods = n,
                                                   !.error = (pods = 0 \/ n < kill)]
            BY <1>1, <1>7 DEF Inject, PodKillInject
        <2> DEFINE count == EffectiveCount(exp.injection.count)
                   kill == IF count > pods THEN pods ELSE count
        <2>2. PICK n \in 0..kill :
                touched' = [Untouched EXCEPT !.ns = ResolveNamespace(exp), !.pods = n,
                                             !.error = (pods = 0 \/ n < kill)]
            BY <2>1
        <2>3. count <= exp.max
            BY <1>4, <1>7 DEF ValidateInjectionParams, ValidatePodKillParams
        <2>4. count \in Nat
            BY <1>3 DEF EffectiveCount
        <2>5. n <= exp.max
            BY <1>3, <2>3, <2>4, ValidationAssumption
        <2>6. touched'.ns = ResolveNamespace(exp) /\ touched'.pods = n
            BY <2>2 DEF Untouched
        <2>11. touched'.made = 0
            BY <2>2 DEF Untouched
        <2>7. touched'.ns \in exp.allowed \/ (High(exp.injection) /\ exp.consent)
            BY <1>2, <2>6, OwnNamespaceAllowed
        <2>12. ~DeniedNamespace(exp, touched'.ns)
            BY <1>2, <1>7, <2>6, OwnNamespaceAllowed DEF DeniedNamespace, TakesNamespace
        <2>8. touched'.pods > 0 => touched'.pods <= exp.max
            BY <2>5, <2>6
        <2>9. touched'.made <= MaxNameLength
            BY <2>11 DEF MaxNameLength
        <2>10. touched'.hit.text \notin Protected(p, exp.params)
            BY <1>7 DEF Protected
        <2> QED
            BY <1>6, <2>7, <2>8, <2>9, <2>10, <2>12
    <1>8. CASE p = "WebhookDisrupt"
        <2>1. WebhookDisruptResolve(exp)
            BY <1>1, <1>8 DEF Inject
        <2> DEFINE found == IF exp.params.selector = "" THEN {exp.params.name}
                            ELSE {Name("plain", 5), Name("systemWebhook", 5)}
        <2>2. PICK n \in found :
                touched' = [Untouched EXCEPT
                    !.ns = IF CheckResolvedWebhookDenyList(n) THEN "cluster" ELSE "none",
                    !.hit = IF CheckResolvedWebhookDenyList(n) THEN n ELSE NoName,
                    !.error = ~CheckResolvedWebhookDenyList(n)]
            BY <2>1 DEF WebhookDisruptResolve
        <2>3. High(exp.injection) /\ exp.consent
            BY <1>2, <1>8, OwnNamespaceAllowed DEF ValidateExperiment, IsClusterScopedInjection
        <2>4. /\ touched'.ns \in {"cluster", "none"} /\ touched'.pods = 0 /\ touched'.made = 0
              /\ touched'.hit = NoName \/ (touched'.hit = n /\ CheckResolvedWebhookDenyList(n))
            BY <2>2 DEF Untouched
        <2>5. Protected(p, exp.params) = {"systemWebhook", "colon", "openshift"}
            BY <1>8 DEF Protected
        <2>8. ~DeniedNamespace(exp, touched'.ns)
            BY <2>4 DEF DeniedNamespace
        <2>6. CASE touched'.hit = NoName
            <3>1. NoName.text = ""
                BY DEF NoName, Name
            <3>2. touched'.hit.text \notin {"systemWebhook", "colon", "openshift"}
                BY <2>6, <3>1
            <3> QED
                BY <1>6, <2>3, <2>4, <2>5, <2>8, <3>2, NothingCounted
        <2>7. CASE touched'.hit = n /\ CheckResolvedWebhookDenyList(n)
            <3>1. touched'.hit.text \notin {"systemWebhook", "colon", "openshift"}
                BY <2>7 DEF CheckResolvedWebhookDenyList
            <3> QED
                BY <1>6, <2>3, <2>4, <2>5, <2>8, <3>1, NothingCounted
        <2> QED
            BY <2>4, <2>6, <2>7
    <1>9. CASE p \notin {"PodKill", "WebhookDisrupt"}
        <2>1. OtherInject(exp)
            BY <1>1, <1>9 DEF Inject
        <2>2. CASE ~ParseTypedParameters(exp)
            <3>1. /\ touched'.ns = "none" /\ touched'.pods = 0 /\ touched'.made = 0
                  /\ touched'.hit.text = ""
                BY <2>1, <2>2 DEF OtherInject, Untouched, NoName, Name
            <3>2. "" \notin Protected(p, exp.params)
                BY DEF Protected
            <3>3. ~DeniedNamespace(exp, touched'.ns)
                BY <3>1 DEF DeniedNamespace
            <3> QED
                BY <1>6, <3>1, <3>2, <3>3, NothingCounted
        <2>3. CASE ParseTypedParameters(exp)
            <3>1. /\ touched'.ns = TargetNamespace(exp) /\ touched'.pods = 0
                  /\ touched'.made = Stored(exp)
                  /\ touched'.hit = IF p = "NamespaceDeletion" THEN exp.params.namespace
                                    ELSE exp.params.name
                BY <2>1, <2>3 DEF OtherInject, Untouched
            <3>2. \/ touched'.ns \in exp.allowed
                  \/ High(exp.injection) /\ exp.consent
                  \/ TakenForNamespaced(exp)
                BY <1>2, <3>1, OutsideIsDangerous, OwnNamespaceAllowed
            <3>3. touched'.hit.text \notin Protected(p, exp.params)
                BY <1>3, <1>4, <1>9, <3>1, HitAllowed
            <3>4. ~DeniedNamespace(exp, touched'.ns)
                BY <1>2, <3>1, NamespaceAllowed
            <3>5. touched'.made <= MaxNameLength
                BY <1>2, <1>4, <3>1, StoredFits
            <3>6. touched'.pods > 0 => touched'.pods <= exp.max
                BY <3>1
            <3> QED
                BY <1>6, <3>2, <3>3, <3>4, <3>5, <3>6
        <2> QED
            BY <2>2, <2>3
    <1> QED
        BY <1>7, <1>8, <1>9

LEMMA ValidationNextInv ==
    ASSUME ValidationInv, [ValidationNext]_validationVars
    PROVE  ValidationInv'
    <1>1. CASE Validate
        BY <1>1 DEF Validate, ValidationInv, WithinBlastRadius, ProtectedUntouched
    <1>2. CASE Inject
        BY <1>2, InjectKeeps
    <1>3. CASE UNCHANGED validationVars
        BY <1>3 DEF validationVars, ValidationInv, WithinBlastRadius, ProtectedUntouched
    <1> QED
        BY <1>1, <1>2, <1>3 DEF ValidationNext

-----------------------------------------------------------------------------
(* Theorems *)

\* The invariant holds of every submission.
THEOREM ValidationInvariant == ValidationSpec => []ValidationInv
    BY ValidationInitInv, ValidationNextInv, PTL DEF ValidationSpec

\* Whatever its type and parameters and whichever kinds have no namespace, an
\* accepted experiment stays in its allowed namespaces, or is declared as of high
\* danger with its author's consent, or aims LabelStomping, OwnerRefOrphan,
\* FinalizerBlock or CRDMutation at a cluster-scoped object that the
\* orchestrator takes for a namespaced one (lifecycle.go:159); and it never kills
\* more pods than it may.
THEOREM StaysWithin == ValidationSpec => []WithinBlastRadius
    <1>1. ValidationInv => WithinBlastRadius
        BY DEF ValidationInv
    <1> QED
        BY <1>1, ValidationInvariant, PTL

\* No name, kind or namespace on the deny-lists of its type is hit by an accepted
\* experiment, and nothing the revert needs.
THEOREM DenyListsHold == ValidationSpec => []ProtectedUntouched
    <1>1. ValidationInv => ProtectedUntouched
        BY DEF ValidationInv
    <1> QED
        BY <1>1, ValidationInvariant, PTL

-----------------------------------------------------------------------------
(* SEQUENCER: for playbooks of any length, any dependencies and any models.  *)

\* What SequenceSound says of a sorted playbook.
SoundResult(in, result) ==
    LET n == Len(in.steps)
        edges == EdgesOf(in)
        cyclic == \E i \in 1..n : <<i, i>> \in Closure(edges, n)
        at(i) == Position(result.order, i)
    IN  /\ Len(result.order) = n /\ ToSet(result.order) = 1..n
        /\ cyclic <=> result.warnings > 0
        /\ Cardinality({e \in edges : at(e[2]) <= at(e[1])}) <= result.warnings
        /\ ~cyclic => \A i, j \in 1..n :
              i < j /\ at(j) < at(i) => \E d \in j..n : <<d, i>> \in Closure(edges, n)
        /\ \A k \in 2..Len(result.gated) : GateBetween(in.steps, result.gated[k - 1], result.gated[k])

LEMMA SoundIs == SequenceSound <=> (sorted # NotSorted => SoundResult(input, sorted))
    BY Zenon DEF SequenceSound, SoundResult, GateBetween

ResultOf(in) ==
    LET out == Sequence(in.steps, BuildDependencyGraph(in.components, in.declared), in.opts)
    IN  [order |-> out.order, warnings |-> out.warnings,
         gated |-> InjectHealthGates(in.steps, out.order)]

LEMMA ResultSound ==
    ASSUME NEW in \in Inputs
    PROVE  SoundResult(in, ResultOf(in))
    <1> DEFINE n == Len(in.steps)
               graph == BuildDependencyGraph(in.components, in.declared)
               E == Edges(in.steps, graph, in.opts)
               out == Sequence(in.steps, graph, in.opts)
               gated == InjectHealthGates(in.steps, out.order)
               r == ResultOf(in)
    <1>1. n \in Nat /\ DOMAIN in.steps = 1..n
        <2> DEFINE steps == in.steps
                   T == Range(in.steps)
        <2>1. steps \in Seq(T)
            BY SequencerAssumption, Zenon
        <2> HIDE DEF steps, T
        <2>2. Len(steps) \in Nat /\ DOMAIN steps = 1..Len(steps)
            BY <2>1
        <2> QED
            BY <2>2, Zenon DEF steps
    <1>2. Ordered(n, E, out)
        BY <1>1, SequenceOrder, Zenon
    <1>3. EdgesOf(in) = E
        BY Zenon DEF EdgesOf
    <1>4. /\ r.order = out.order /\ r.warnings = out.warnings /\ r.gated = gated
        <2>1. r = [order |-> out.order, warnings |-> out.warnings, gated |-> gated]
            BY Zenon DEF ResultOf
        <2> HIDE DEF r, out, gated
        <2> QED
            BY <2>1
    <1>5. out.order \in Seq(1..n)
        BY <1>2, Zenon DEF Ordered
    <1>6. \A k \in 2..Len(gated) : GateBetween(in.steps, gated[k - 1], gated[k])
        BY <1>1, <1>5, GatesChecked, Zenon
    <1> HIDE DEF n, E, out, gated, r
    <1>7. /\ Len(out.order) = n /\ ToSet(out.order) = 1..n
          /\ Cyclic(n, E) <=> out.warnings > 0
          /\ Cardinality({e \in E : Position(out.order, e[2]) <= Position(out.order, e[1])}) <= out.warnings
          /\ ~Cyclic(n, E) => \A i, j \in 1..n :
                i < j /\ Position(out.order, j) < Position(out.order, i)
                    => \E d \in j..n : <<d, i>> \in Closure(E, n)
        BY <1>2, Zenon DEF Ordered
    <1> QED
        BY <1>3, <1>4, <1>6, <1>7, Zenon DEF SoundResult, Cyclic, n, r

LEMMA SoundStep ==
    ASSUME input \in Inputs, [SequencerNext]_sequencerVars
    PROVE  input' = input /\ (sorted' = sorted \/ sorted' = ResultOf(input))
    <1>1. CASE SequencerNext
        BY <1>1, Zenon DEF SequencerNext, ResultOf
    <1>2. CASE UNCHANGED sequencerVars
        BY <1>2 DEF sequencerVars
    <1> QED
        BY <1>1, <1>2

\* The sequencer is right for every playbook: it loses and repeats no step,
\* warns exactly when the dependencies have a cycle, gives up one dependency per
\* warning, lets a step overtake only one that waits for a later step, and puts
\* a gate between neighbours of different components.
THEOREM SequencerIsSound == SequencerInit /\ [][SequencerNext]_sequencerVars => []SequenceSound
    <1> DEFINE Inv == input \in Inputs /\ (sorted # NotSorted => SoundResult(input, sorted))
    <1>1. SequencerInit => Inv
        BY DEF SequencerInit
    <1>2. Inv /\ [SequencerNext]_sequencerVars => Inv'
        <2> SUFFICES ASSUME Inv, [SequencerNext]_sequencerVars PROVE Inv'
            OBVIOUS
        <2>1. input' = input /\ (sorted' = sorted \/ sorted' = ResultOf(input))
            BY SoundStep
        <2>2. SoundResult(input, ResultOf(input))
            BY ResultSound
        <2>3. SoundResult(input, sorted)' <=> SoundResult(input', sorted')
            BY Zenon DEF SoundResult, EdgesOf
        <2> QED
            BY <2>1, <2>2, <2>3, Zenon DEF NotSorted
    <1>3. Inv => SequenceSound
        BY SoundIs, Zenon
    <1> HIDE DEF Inv
    <1> QED
        BY <1>1, <1>2, <1>3, PTL

-----------------------------------------------------------------------------
(* VERDICT: for any resources and checks, any timeouts and any number of     *)
(* changes and errors.                                                       *)

AnObject == [here : BOOLEAN, owned : BOOLEAN, spec : BOOLEAN, ready : BOOLEAN, text : BOOLEAN]
AReconcileResult == [all : BOOLEAN, cycles : Nat, time : Nat, given : BOOLEAN]
AFinding == [source : {"reconciliation", "steady_state", "collateral"},
             passed : BOOLEAN, checks : BOOLEAN, result : AReconcileResult]
Polling == {"poll", "look", "wait"}

VerdictTypes ==
    /\ objects \in [Watched -> AnObject]
    /\ phase \in Polling \cup {"phase2", "evaluate", "done"}
    /\ now \in Nat /\ hypothesis \in Nat /\ cycles \in Nat
    /\ cycle \in BOOLEAN /\ todo \in Seq(Range1(Managed))
    /\ steady \in [todo : Seq(Range1(Checks)), passed : Nat, done : BOOLEAN]
    /\ collateral \in Seq(Range1(Dependents))
    /\ board \in Seq(AFinding)

\* Whatever passes a look now is on record.
Recorded == \A x \in Watched : WellIn(objects, x) => x \in everWell

\* What the three observers owe still has to be looked at, or was in order, or
\* has left a mark that Resilient does not survive.
Looked ==
    phase = "look" /\ cycle => Range1(Managed) \subseteq Range1(todo) \cup everWell
SteadyLooked ==
    /\ steady.passed + Len(steady.todo) <= Len(Checks)
    /\ steady.passed + Len(steady.todo) = Len(Checks)
          => Range1(Checks) \subseteq Range1(steady.todo) \cup everWell
CollateralLooked ==
    \A d \in Range1(Dependents) : CheckType[d] # "none" =>
        \/ d \in Range1(collateral) \cup everWell
        \/ \E i \in DOMAIN board : board[i].source = "collateral" /\ ~board[i].passed

\* What a finding stands for, and how many there are.
Reconciled(f) ==
    f.result.given => f.source = "reconciliation" /\ (f.result.all => Range1(Managed) \subseteq everWell)
Steady(f) == f.source = "steady_state" => steady.done /\ (f.passed => Range1(Checks) \subseteq everWell)
BoardSound ==
    /\ phase \in Polling => board = <<>> /\ ~steady.done
    /\ \A i \in DOMAIN board : Reconciled(board[i]) /\ Steady(board[i])
    /\ \A i, j \in DOMAIN board :
          board[i].source = board[j].source /\ board[i].source # "collateral" => i = j

Ended ==
    /\ phase \in {"evaluate", "done"} => collateral = <<>>
    /\ verdict # "none" => phase = "done"

VerdictInv ==
    /\ VerdictTypes /\ Recorded /\ Looked /\ SteadyLooked /\ CollateralLooked /\ BoardSound
    /\ Ended /\ VerdictSound

-----------------------------------------------------------------------------
LEMMA HeadAndTail ==
  ASSUME NEW S, NEW s \in Seq(S), s # <<>>
  PROVE  /\ Head(s) \in S /\ Tail(s) \in Seq(S) /\ Len(Tail(s)) = Len(s) - 1
         /\ Range1(s) = {Head(s)} \cup Range1(Tail(s))
<1>1. /\ Len(s) \in Nat \ {0} /\ Head(s) = s[1] /\ Head(s) \in S /\ Tail(s) \in Seq(S) /\ Len(Tail(s)) = Len(s) - 1
      /\ \A i \in 1..Len(s) - 1 : Tail(s)[i] = s[i + 1]
  OBVIOUS
<1>2. \A i \in 1..Len(s) : i = 1 \/ (i - 1 \in 1..Len(s) - 1 /\ s[i] = Tail(s)[i - 1])
  <2> TAKE i \in 1..Len(s)
  <2> SUFFICES ASSUME i # 1 PROVE i - 1 \in 1..Len(s) - 1 /\ s[i] = Tail(s)[i - 1]
    BY Zenon
  <2>1. i - 1 \in 1..Len(s) - 1 /\ (i - 1) + 1 = i
    BY <1>1
  <2>2. Tail(s)[i - 1] = s[(i - 1) + 1]
    BY <1>1, <2>1
  <2> QED
    BY <2>1, <2>2
<1>3. DOMAIN s = 1..Len(s) /\ DOMAIN Tail(s) = 1..Len(s) - 1
  BY <1>1
<1>4. Range1(s) \subseteq {Head(s)} \cup Range1(Tail(s))
  <2> SUFFICES ASSUME NEW i \in DOMAIN s PROVE s[i] \in {Head(s)} \cup Range1(Tail(s))
    BY DEF Range1
  <2>1. CASE i = 1
    BY <1>1, <2>1
  <2>2. CASE i - 1 \in DOMAIN Tail(s) /\ s[i] = Tail(s)[i - 1]
    BY <2>2 DEF Range1
  <2> QED
    BY <1>2, <1>3, <2>1, <2>2
<1>5. {Head(s)} \cup Range1(Tail(s)) \subseteq Range1(s)
  BY <1>1, <1>3 DEF Range1
<1> QED
  BY <1>1, <1>4, <1>5

LEMMA Appended ==
  ASSUME NEW S, NEW s \in Seq(S), NEW e \in S
  PROVE  /\ Append(s, e) \in Seq(S) /\ DOMAIN Append(s, e) = 1..Len(s) + 1 /\ DOMAIN s = 1..Len(s)
         /\ Append(s, e)[Len(s) + 1] = e
         /\ \A i \in DOMAIN s : Append(s, e)[i] = s[i]
  OBVIOUS

\* The greatest of a set that has at most one element.
LEMMA WorstOfOne ==
  ASSUME NEW S \in SUBSET Nat, \A m, n \in S : m = n
  PROVE  \A n \in S : n <= Worst(S) /\ Worst(S) \in Nat
<1> SUFFICES ASSUME NEW n \in S PROVE n <= Worst(S) /\ Worst(S) \in Nat
  OBVIOUS
<1>1. n \in S \cup {0} /\ \A m \in S \cup {0} : m <= n
  OBVIOUS
<1> DEFINE w == Worst(S)
<1>2. w \in S \cup {0} /\ \A m \in S \cup {0} : m <= w
  BY <1>1 DEF Worst
<1> HIDE DEF w
<1>3. w \in Nat /\ n <= w
  BY <1>2
<1> QED
  BY <1>3, Zenon DEF w

\* What an object may look like.
LEMMA SickObjects == \A x : \A o \in Sick(x) \cup {Healthy} : o \in AnObject
<1> SUFFICES ASSUME NEW x, NEW o \in Sick(x) \cup {Healthy} PROVE o \in AnObject
  OBVIOUS
<1>1. Healthy \in AnObject
  BY DEF Healthy, AnObject
<1>2. ASSUME NEW d \in {"here", "owned", "spec", "ready", "text"}
      PROVE  [Healthy EXCEPT ![d] = FALSE] \in AnObject
  <2>1. CASE d = "here"
    BY <2>1 DEF Healthy, AnObject
  <2>2. CASE d = "owned"
    BY <2>2 DEF Healthy, AnObject
  <2>3. CASE d = "spec"
    BY <2>3 DEF Healthy, AnObject
  <2>4. CASE d = "ready"
    BY <2>4 DEF Healthy, AnObject
  <2>5. CASE d = "text"
    BY <2>5 DEF Healthy, AnObject
  <2> QED
    BY <2>1, <2>2, <2>3, <2>4, <2>5
<1>3. Defects(x) \subseteq {"here", "owned", "spec", "ready", "text"}
  BY DEF Defects
<1> QED
  BY <1>1, <1>2, <1>3 DEF Sick

LEMMA VerdictBegins == VerdictInit => VerdictInv
<1> SUFFICES ASSUME VerdictInit PROVE VerdictInv
  OBVIOUS
<1> USE VerdictAssumption
<1>1. VerdictTypes
  <2>1. board \in Seq(AFinding) /\ todo \in Seq(Range1(Managed))
    BY DEF VerdictInit
  <2>2. collateral \in Seq(Range1(Dependents)) /\ Checks \in Seq(Range1(Checks))
    BY DEF VerdictInit
  <2>3. steady \in [todo : Seq(Range1(Checks)), passed : Nat, done : BOOLEAN]
    BY <2>2 DEF VerdictInit
  <2>4. phase \in {"poll", "phase2"} /\ hypothesis \in {0, Default}
    BY DEF VerdictInit
  <2>5. now = 0 /\ cycles = 0 /\ cycle = FALSE
    BY Zenon DEF VerdictInit
  <2>6. hypothesis \in Nat
    BY <2>4
  <2>7. objects \in [Watched -> AnObject]
    BY SickObjects DEF VerdictInit
  <2> QED
    BY <2>1, <2>2, <2>3, <2>4, <2>5, <2>6, <2>7 DEF VerdictTypes, Polling
<1>2. Recorded
  BY DEF VerdictInit, Recorded
<1>3. Len(Checks) \in Nat /\ steady.passed = 0 /\ steady.todo = Checks /\ ~steady.done
  BY DEF VerdictInit
<1>4. DOMAIN board = {} /\ board = <<>> /\ verdict = "none" /\ phase \in {"poll", "phase2"} /\ collateral = Dependents
  BY DEF VerdictInit
<1> QED
  BY <1>1, <1>2, <1>3, <1>4 DEF VerdictInv, Looked, SteadyLooked, CollateralLooked, BoardSound, Ended,
        VerdictSound

\* No look is taken and nothing is written.
LEMMA VerdictQuiet ==
  ASSUME VerdictInv,
         UNCHANGED <<objects, everWell, hypothesis, phase, todo, cycle, cycles, steady, collateral,
                     board, verdict>>,
         now' \in Nat
  PROVE  VerdictInv'
BY DEF VerdictInv, VerdictTypes, Recorded, Looked, SteadyLooked, CollateralLooked, BoardSound,
       Reconciled, Steady, Ended, VerdictSound

\* The cluster changes: more has been in order, and whatever is, is recorded.
LEMMA VerdictChange == VerdictInv /\ Change => VerdictInv'
<1> SUFFICES ASSUME VerdictInv, Change PROVE VerdictInv'
  OBVIOUS
<1>1. everWell \subseteq everWell' /\ UNCHANGED <<hypothesis, now, observed>>
  BY DEF Change
<1>2. Recorded'
  BY DEF Change, Recorded
<1>3. UNCHANGED <<phase, todo, cycle, cycles, steady, collateral, board, verdict>>
  BY <1>1 DEF observed
<1>4. objects' \in [Watched -> AnObject]
  BY SickObjects DEF Change, VerdictInv, VerdictTypes
<1> QED
  BY <1>1, <1>2, <1>3, <1>4 DEF VerdictInv, VerdictTypes, Looked, SteadyLooked, CollateralLooked, BoardSound,
       Reconciled, Steady, Ended, VerdictSound

\* The checker ends with a finding: the first on the board.
LEMMA ReconciliationEnds ==
  ASSUME VerdictInv, phase \in Polling, phase' = "phase2", board' = <<board'[1]>>,
         board'[1] \in AFinding, board'[1].source = "reconciliation",
         board'[1].result.given /\ board'[1].result.all => Range1(Managed) \subseteq everWell,
         cycles' \in Nat, cycle' \in BOOLEAN, todo' \in Seq(Range1(Managed)),
         UNCHANGED <<objects, everWell, hypothesis, now, steady, collateral, verdict>>
  PROVE  VerdictInv'
<1>1. board = <<>> /\ ~steady.done /\ verdict = "none"
  BY DEF VerdictInv, BoardSound, Ended, Polling
<1>2. DOMAIN board' = {1} /\ board' \in Seq(AFinding)
  <2> DEFINE f == board'[1]
  <2>1. f \in AFinding /\ board' = <<f>>
    OBVIOUS
  <2> HIDE DEF f
  <2> QED
    BY <2>1
<1>3. VerdictTypes'
  BY <1>2 DEF VerdictInv, VerdictTypes
<1>4. CollateralLooked'
  BY <1>1 DEF VerdictInv, CollateralLooked
<1>5. BoardSound'
  BY <1>1, <1>2 DEF BoardSound, Polling, Reconciled, Steady
<1>6. Ended' /\ VerdictSound'
  BY <1>1 DEF Ended, VerdictSound
<1> QED
  BY <1>3, <1>4, <1>5, <1>6 DEF VerdictInv, Recorded, Looked, SteadyLooked

\* The findings of the checker.
LEMMA ContributorEnds ==
  ASSUME VerdictInv, phase \in Polling, NEW all \in BOOLEAN, ReconciliationContributor(all),
         all => Range1(Managed) \subseteq everWell,
         UNCHANGED <<objects, everWell, hypothesis, now, cycle, cycles, todo, steady, collateral, verdict>>
  PROVE  VerdictInv'
<1>1. board = <<>> /\ cycles \in Nat /\ now \in Nat /\ cycle \in BOOLEAN /\ todo \in Seq(Range1(Managed))
  BY DEF VerdictInv, BoardSound, VerdictTypes
<1> DEFINE plain == Finding("reconciliation", all)
           f == [plain EXCEPT !.result = Result(all)]
<1>2. /\ plain = [source |-> "reconciliation", passed |-> all, checks |-> FALSE, result |-> NoResult]
      /\ Result(all) \in AReconcileResult /\ Result(all).all = all
  BY <1>1 DEF Finding, Result, AReconcileResult
<1> HIDE DEF plain
<1>3. f \in AFinding /\ f.source = "reconciliation" /\ f.result.all = all
  BY <1>2 DEF AFinding
<1>4. board' = <<f>> /\ phase' = "phase2"
  BY <1>1 DEF ReconciliationContributor, AddFinding, plain
<1> HIDE DEF f
<1>5. board'[1] = f
  BY <1>4
<1> QED
  BY <1>1, <1>3, <1>4, <1>5, ReconciliationEnds

LEMMA ErrorEnds ==
  ASSUME VerdictInv, phase \in Polling, ReconciliationError,
         UNCHANGED <<objects, everWell, hypothesis, now, cycle, cycles, todo, steady, collateral, verdict>>
  PROVE  VerdictInv'
<1>1. board = <<>> /\ cycles \in Nat /\ cycle \in BOOLEAN /\ todo \in Seq(Range1(Managed))
  BY DEF VerdictInv, BoardSound, VerdictTypes
<1> DEFINE f == Finding("reconciliation", FALSE)
<1>2. f \in AFinding /\ f.source = "reconciliation" /\ ~f.result.given
  BY DEF Finding, NoResult, AFinding, AReconcileResult
<1>3. board' = <<f>> /\ phase' = "phase2"
  BY <1>1 DEF ReconciliationError, AddFinding
<1> HIDE DEF f
<1>4. board'[1] = f
  BY <1>3
<1> QED
  BY <1>1, <1>2, <1>3, <1>4, ReconciliationEnds

LEMMA StartCycleStep == VerdictInv /\ StartCycle => VerdictInv'
<1> SUFFICES ASSUME VerdictInv, StartCycle PROVE VerdictInv'
  OBVIOUS
<1>1. phase = "poll" /\ verdict = "none" /\ cycles \in Nat /\ board = <<>> /\ ~steady.done
  BY DEF StartCycle, VerdictInv, VerdictTypes, BoardSound, Ended, Polling
<1>2. UNCHANGED <<objects, everWell, hypothesis, now, steady, collateral, verdict>>
  BY DEF StartCycle
<1>3. CASE now < ResolvedRecoveryTimeout
  <2>1. cycles' = cycles + 1 /\ cycle' = TRUE /\ todo' = Managed /\ phase' = "look" /\ board' = board
    BY <1>3 DEF StartCycle
  <2>2. Managed \in Seq(Range1(Managed))
    BY VerdictAssumption
  <2>3. VerdictTypes'
    BY <1>1, <1>2, <2>1, <2>2 DEF VerdictInv, VerdictTypes, Polling
  <2> QED
    BY <1>1, <1>2, <2>1, <2>3 DEF VerdictInv, Recorded, Looked, SteadyLooked, CollateralLooked,
          BoardSound, Reconciled, Steady, Ended, VerdictSound, Polling
<1>4. CASE ~(now < ResolvedRecoveryTimeout)
  <2>1. ReconciliationContributor(FALSE) /\ UNCHANGED <<cycles, cycle, todo>>
    BY <1>4 DEF StartCycle
  <2> QED
    BY <1>1, <1>2, <2>1, ContributorEnds DEF Polling
<1> QED
  BY <1>3, <1>4

LEMMA LookStep == VerdictInv /\ CheckReconciliationOnce => VerdictInv'
<1> SUFFICES ASSUME VerdictInv, CheckReconciliationOnce PROVE VerdictInv'
  OBVIOUS
<1>1. phase = "look" /\ verdict = "none" /\ todo # <<>> /\ todo \in Seq(Range1(Managed))
  BY DEF CheckReconciliationOnce, VerdictInv, VerdictTypes, Ended
<1>2. UNCHANGED <<objects, everWell, hypothesis, now, cycles, steady, collateral, verdict>>
  BY DEF CheckReconciliationOnce
<1>3. CASE /\ cycle' = (cycle /\ CheckManagedResource(objects[Head(todo)]))
           /\ todo' = Tail(todo) /\ UNCHANGED <<phase, board, errors>>
  <2>1. /\ Head(todo) \in Range1(Managed) /\ Tail(todo) \in Seq(Range1(Managed))
        /\ Range1(todo) = {Head(todo)} \cup Range1(Tail(todo))
    BY <1>1, HeadAndTail
  <2>2. cycle' => cycle /\ CheckManagedResource(objects[Head(todo)])
    BY <1>3
  <2>3. cycle' => Head(todo) \in everWell
    BY <2>1, <2>2 DEF VerdictInv, Recorded, WellIn, Watched
  <2>4. Looked'
    BY <1>1, <1>2, <1>3, <2>1, <2>2, <2>3 DEF VerdictInv, Looked
  <2>5. cycle' \in BOOLEAN
    BY <1>3
  <2> QED
    BY <1>1, <1>2, <1>3, <2>1, <2>4, <2>5 DEF VerdictInv, VerdictTypes, Recorded, SteadyLooked,
          CollateralLooked, BoardSound, Reconciled, Steady, Ended, VerdictSound
<1>4. CASE ReconciliationError /\ UNCHANGED <<todo, cycle>>
  BY <1>1, <1>2, <1>4, ErrorEnds DEF Polling
<1> QED
  BY <1>3, <1>4 DEF CheckReconciliationOnce

LEMMA EndCycleStep == VerdictInv /\ EndCycle => VerdictInv'
<1> SUFFICES ASSUME VerdictInv, EndCycle PROVE VerdictInv'
  OBVIOUS
<1>1. phase = "look" /\ verdict = "none" /\ todo = <<>>
  BY DEF EndCycle, VerdictInv, Ended
<1>2. UNCHANGED <<objects, everWell, hypothesis, now, cycle, cycles, todo, steady, collateral, verdict>>
  BY DEF EndCycle
<1>3. CASE cycle
  <2>1. Range1(todo) = {}
    BY <1>1 DEF Range1
  <2>2. Range1(Managed) \subseteq everWell
    BY <1>1, <1>3, <2>1 DEF VerdictInv, Looked
  <2>3. ReconciliationContributor(TRUE)
    BY <1>3 DEF EndCycle
  <2> QED
    BY <1>1, <1>2, <2>2, <2>3, ContributorEnds DEF Polling
<1>4. CASE ~cycle
  BY <1>1, <1>2, <1>4 DEF EndCycle, VerdictInv, VerdictTypes, Recorded, Looked, SteadyLooked,
        CollateralLooked, BoardSound, Reconciled, Steady, Ended, VerdictSound, Polling
<1> QED
  BY <1>3, <1>4

LEMMA NextCycleStep == VerdictInv /\ NextCycle => VerdictInv'
<1> SUFFICES ASSUME VerdictInv, NextCycle PROVE VerdictInv'
  OBVIOUS
<1>1. phase = "wait"
  BY DEF NextCycle
<1>2. UNCHANGED <<objects, everWell, hypothesis, now, todo, cycle, cycles, steady, collateral, verdict>>
  BY DEF NextCycle
<1>3. CASE phase' = "poll" /\ UNCHANGED board
  BY <1>1, <1>2, <1>3 DEF VerdictInv, VerdictTypes, Recorded, Looked, SteadyLooked,
        CollateralLooked, BoardSound, Reconciled, Steady, Ended, VerdictSound, Polling
<1>4. CASE ReconciliationError
  BY <1>1, <1>2, <1>4, ErrorEnds DEF Polling
<1> QED
  BY <1>3, <1>4 DEF NextCycle

LEMMA SteadyLookStep == VerdictInv /\ CheckSteadyState => VerdictInv'
<1> SUFFICES ASSUME VerdictInv, CheckSteadyState PROVE VerdictInv'
  OBVIOUS
<1> DEFINE s == steady.todo
<1>1. /\ phase = "phase2" /\ verdict = "none" /\ s # <<>> /\ s \in Seq(Range1(Checks))
      /\ steady \in [todo : Seq(Range1(Checks)), passed : Nat, done : BOOLEAN]
  BY DEF CheckSteadyState, VerdictInv, VerdictTypes, Ended
<1>2. UNCHANGED <<objects, everWell, hypothesis, now, phase, todo, cycle, cycles, collateral, board, verdict>>
  BY DEF CheckSteadyState
<1>3. /\ Head(s) \in Range1(Checks) /\ Tail(s) \in Seq(Range1(Checks)) /\ Len(Tail(s)) = Len(s) - 1
      /\ Range1(s) = {Head(s)} \cup Range1(Tail(s)) /\ Len(s) \in Nat /\ Len(Checks) \in Nat
  BY <1>1, HeadAndTail, VerdictAssumption
<1>4. Passes(Head(s)) => Head(s) \in everWell
  <2>1. Head(s) \in Watched /\ Head(s) \notin Range1(Managed)
    BY <1>3, VerdictAssumption DEF Watched
  <2> QED
    BY <2>1 DEF VerdictInv, Recorded, WellIn, Passes
<1>5. /\ steady'.todo = Tail(s) /\ steady'.done = steady.done
      /\ steady' \in [todo : Seq(Range1(Checks)), passed : Nat, done : BOOLEAN]
      /\ \/ steady'.passed = steady.passed
         \/ steady'.passed = steady.passed + 1 /\ Passes(Head(s))
  <2>1. CASE steady' = [steady EXCEPT !.todo = Tail(@)]
    BY <1>1, <1>3, <2>1
  <2>2. CASE steady' = [steady EXCEPT !.todo = Tail(@),
                                      !.passed = @ + (IF Passes(Head(steady.todo)) THEN 1 ELSE 0)]
    <3> DEFINE rest == Tail(s)
               one == [steady EXCEPT !.todo = rest]
               n == IF Passes(Head(s)) THEN 1 ELSE 0
    <3> HIDE DEF rest
    <3>1. one = [todo |-> rest, passed |-> steady.passed, done |-> steady.done]
      BY <1>1
    <3> USE DEF rest
    <3>2. steady' = [one EXCEPT !.passed = steady.passed + n]
      BY <2>2, Zenon
    <3>3. (n = 1 /\ Passes(Head(s))) \/ n = 0
      OBVIOUS
    <3> HIDE DEF one, n
    <3>4. steady' = [todo |-> Tail(s), passed |-> steady.passed + n, done |-> steady.done]
      BY <3>1, <3>2
    <3> QED
      BY <1>1, <1>3, <3>3, <3>4
  <2> QED
    BY <2>1, <2>2 DEF CheckSteadyState
<1> HIDE DEF s
<1>6. SteadyLooked'
  <2>1. /\ steady.passed + Len(s) <= Len(Checks)
        /\ steady.passed + Len(s) = Len(Checks) => Range1(Checks) \subseteq Range1(s) \cup everWell
    BY DEF VerdictInv, SteadyLooked, s
  <2>2. steady.passed \in Nat
    BY <1>1
  <2> QED
    BY <1>2, <1>3, <1>4, <1>5, <2>1, <2>2 DEF SteadyLooked
<1>7. VerdictTypes'
  BY <1>2, <1>5 DEF VerdictInv, VerdictTypes
<1>8. BoardSound'
  BY <1>1, <1>2, <1>5 DEF VerdictInv, BoardSound, Reconciled, Steady, Polling
<1> QED
  BY <1>1, <1>2, <1>6, <1>7, <1>8 DEF VerdictInv, Recorded, Looked, CollateralLooked, Ended, VerdictSound

\* A finding is added to the board while the two contributors are at work.
LEMMA FindingAdded ==
  ASSUME VerdictInv, phase = "phase2", NEW n \in Nat, n = Len(board) + 1,
         board' = Append(board, board'[n]), board'[n] \in AFinding, ~board'[n].result.given
  PROVE  /\ board' \in Seq(AFinding) /\ DOMAIN board' = DOMAIN board \cup {n} /\ n \notin DOMAIN board
         /\ \A i \in DOMAIN board : board'[i] = board[i]
<1> DEFINE f == board'[n]
<1>1. f \in AFinding /\ board' = Append(board, f) /\ board \in Seq(AFinding)
  BY DEF VerdictInv, VerdictTypes
<1> HIDE DEF f
<1> QED
  BY <1>1, Appended

LEMMA SteadyFound == VerdictInv /\ SteadyStateContributor => VerdictInv'
<1> SUFFICES ASSUME VerdictInv, SteadyStateContributor PROVE VerdictInv'
  OBVIOUS
<1>1. /\ phase = "phase2" /\ verdict = "none" /\ steady.todo = <<>> /\ ~steady.done
      /\ steady \in [todo : Seq(Range1(Checks)), passed : Nat, done : BOOLEAN]
      /\ board \in Seq(AFinding)
  BY DEF SteadyStateContributor, VerdictInv, VerdictTypes, Ended
<1>2. /\ UNCHANGED <<objects, everWell, hypothesis, now, phase, todo, cycle, cycles, collateral, verdict>>
      /\ steady' = [steady EXCEPT !.done = TRUE]
  BY DEF SteadyStateContributor
<1>3. /\ steady'.done /\ steady'.todo = steady.todo /\ steady'.passed = steady.passed
      /\ steady' \in [todo : Seq(Range1(Checks)), passed : Nat, done : BOOLEAN]
  BY <1>1, <1>2
<1> DEFINE passed == steady.passed = Len(Checks)
<1>0. passed \in BOOLEAN
  OBVIOUS
<1>7. passed => Range1(Checks) \subseteq everWell
  BY <1>1, VerdictAssumption DEF VerdictInv, SteadyLooked, Range1
<1> HIDE DEF passed
<1> DEFINE f == [Finding("steady_state", passed) EXCEPT !.checks = TRUE]
           n == Len(board) + 1
<1>4. \A p \in BOOLEAN :
         /\ [Finding("steady_state", p) EXCEPT !.checks = TRUE] \in AFinding
         /\ [Finding("steady_state", p) EXCEPT !.checks = TRUE].source = "steady_state"
         /\ ~[Finding("steady_state", p) EXCEPT !.checks = TRUE].result.given
         /\ [Finding("steady_state", p) EXCEPT !.checks = TRUE].passed = p
  <2> TAKE p \in BOOLEAN
  <2> DEFINE plain == Finding("steady_state", p)
  <2>1. /\ plain = [source |-> "steady_state", passed |-> p, checks |-> FALSE, result |-> NoResult]
        /\ NoResult \in AReconcileResult /\ ~NoResult.given
    BY DEF Finding, NoResult, AReconcileResult
  <2> HIDE DEF plain
  <2>2. /\ [plain EXCEPT !.checks = TRUE] \in AFinding
        /\ [plain EXCEPT !.checks = TRUE].source = "steady_state"
        /\ ~[plain EXCEPT !.checks = TRUE].result.given
        /\ [plain EXCEPT !.checks = TRUE].passed = p
    BY <2>1 DEF AFinding
  <2> QED
    BY <2>2, Zenon DEF plain
<1>5. f \in AFinding /\ f.source = "steady_state" /\ ~f.result.given /\ f.passed = passed
  BY <1>0, <1>4, Zenon
<1>6. board' = Append(board, f)
  BY DEF SteadyStateContributor, AddFinding, passed
<1> HIDE DEF f
<1>8. board'[n] = f /\ n \in Nat
  BY <1>1, <1>5, <1>6, Appended
<1>9. /\ board' \in Seq(AFinding) /\ DOMAIN board' = DOMAIN board \cup {n} /\ n \notin DOMAIN board
      /\ \A i \in DOMAIN board : board'[i] = board[i]
  BY <1>1, <1>5, <1>6, <1>8, FindingAdded
<1> HIDE DEF n
<1>10. VerdictTypes'
  BY <1>2, <1>3, <1>9 DEF VerdictInv, VerdictTypes
<1>11. CollateralLooked'
  BY <1>2, <1>9 DEF VerdictInv, CollateralLooked
<1>12. BoardSound'
  <2>1. \A i \in DOMAIN board : Reconciled(board[i]) /\ board[i].source # "steady_state"
    BY <1>1 DEF VerdictInv, BoardSound, Steady
  <2>2. \A i \in DOMAIN board' : Reconciled(board[i])' /\ Steady(board[i])'
    BY <1>2, <1>3, <1>5, <1>7, <1>8, <1>9, <2>1 DEF Reconciled, Steady
  <2> QED
    BY <1>1, <1>2, <1>5, <1>8, <1>9, <2>1, <2>2 DEF VerdictInv, BoardSound, Polling
<1> QED
  BY <1>1, <1>2, <1>3, <1>10, <1>11, <1>12 DEF VerdictInv, Recorded, Looked, SteadyLooked, Ended, VerdictSound

LEMMA CollateralStep == VerdictInv /\ CollateralContributor => VerdictInv'
<1> SUFFICES ASSUME VerdictInv, CollateralContributor PROVE VerdictInv'
  OBVIOUS
<1> DEFINE d == Head(collateral)
<1>1. /\ phase = "phase2" /\ verdict = "none" /\ collateral # <<>> /\ collateral' = Tail(collateral)
      /\ collateral \in Seq(Range1(Dependents)) /\ board \in Seq(AFinding)
  BY DEF CollateralContributor, VerdictInv, VerdictTypes, Ended
<1>2. UNCHANGED <<objects, everWell, hypothesis, now, phase, todo, cycle, cycles, steady, verdict>>
  BY DEF CollateralContributor
<1>3. /\ d \in Range1(Dependents) /\ collateral' \in Seq(Range1(Dependents))
      /\ Range1(collateral) = {d} \cup Range1(collateral')
  BY <1>1, HeadAndTail
<1>4. Passes(d) => d \in everWell
  <2>1. d \in Watched /\ d \notin Range1(Managed)
    BY <1>3, VerdictAssumption DEF Watched
  <2> QED
    BY <2>1 DEF VerdictInv, Recorded, WellIn, Passes
<1>5. \/ CheckType[d] = "none" /\ board' = board
      \/ \E p \in BOOLEAN : (p => d \in everWell) /\ AddFinding(Finding("collateral", p))
  <2>1. Passes(d) \in BOOLEAN
    <3>1. objects[d] \in AnObject
      BY <1>3 DEF VerdictInv, VerdictTypes, Watched
    <3> QED
      BY <3>1 DEF AnObject, Passes, CheckSteady, CheckCondition, CheckResourceExists, CheckFieldEquals
  <2>2. CASE CheckType[d] = "none"
    BY <2>2 DEF CollateralContributor
  <2>3. CASE AddFinding(Finding("collateral", Passes(d)))
    <3>1. CASE Passes(d) = TRUE
      BY <1>4, <2>3, <3>1, Zenon
    <3>2. CASE Passes(d) = FALSE
      BY <2>3, <3>2, Zenon
    <3> QED
      BY <2>1, <3>1, <3>2, Zenon
  <2>4. CASE AddFinding(Finding("collateral", FALSE))
    BY <2>4, Zenon
  <2> QED
    BY <2>2, <2>3, <2>4, Zenon DEF CollateralContributor
<1> HIDE DEF d
<1>6. CASE CheckType[d] = "none" /\ board' = board
  BY <1>1, <1>2, <1>3, <1>6 DEF VerdictInv, VerdictTypes, Recorded, Looked, SteadyLooked,
        CollateralLooked, BoardSound, Reconciled, Steady, Ended, VerdictSound
<1>7. ASSUME NEW p \in BOOLEAN, p => d \in everWell, AddFinding(Finding("collateral", p))
      PROVE  VerdictInv'
  <2> DEFINE f == Finding("collateral", p)
             n == Len(board) + 1
  <2>1. f \in AFinding /\ f.source = "collateral" /\ ~f.result.given /\ f.passed = p
    BY DEF Finding, NoResult, AFinding, AReconcileResult
  <2>2. board' = Append(board, f)
    BY <1>7 DEF AddFinding
  <2> HIDE DEF f
  <2>3. board'[n] = f /\ n \in Nat
    BY <1>1, <2>1, <2>2, Appended
  <2>4. /\ board' \in Seq(AFinding) /\ DOMAIN board' = DOMAIN board \cup {n} /\ n \notin DOMAIN board
        /\ \A i \in DOMAIN board : board'[i] = board[i]
    BY <1>1, <2>1, <2>2, <2>3, FindingAdded
  <2> HIDE DEF n
  <2>5. VerdictTypes'
    BY <1>2, <1>3, <2>4 DEF VerdictInv, VerdictTypes
  <2>6. CollateralLooked'
    <3> SUFFICES ASSUME NEW x \in Range1(Dependents), CheckType[x] # "none"
                 PROVE  \/ x \in Range1(collateral') \cup everWell'
                        \/ \E i \in DOMAIN board' : board'[i].source = "collateral" /\ ~board'[i].passed
      BY DEF CollateralLooked, Range1
    <3>1. CASE x \in Range1(collateral) \cup everWell
      BY <1>2, <1>3, <1>7, <2>1, <2>3, <2>4, <3>1
    <3>2. CASE \E i \in DOMAIN board : board[i].source = "collateral" /\ ~board[i].passed
      BY <2>4, <3>2
    <3> QED
      BY <3>1, <3>2 DEF VerdictInv, CollateralLooked
  <2>7. BoardSound'
    BY <1>1, <1>2, <2>1, <2>3, <2>4 DEF VerdictInv, BoardSound, Reconciled, Steady, Polling
  <2> QED
    BY <1>1, <1>2, <2>5, <2>6, <2>7 DEF VerdictInv, Recorded, Looked, SteadyLooked, Ended, VerdictSound
<1> QED
  BY <1>5, <1>6, <1>7

LEMMA BothDone == VerdictInv /\ RunContributors => VerdictInv'
BY DEF VerdictInv, RunContributors, VerdictTypes, Recorded, Looked, SteadyLooked, CollateralLooked,
       BoardSound, Reconciled, Steady, Ended, VerdictSound, Polling

\* What Resilient requires of the board.
LEMMA EvaluateStep == VerdictInv /\ EvaluateExperiment => VerdictInv'
<1> SUFFICES ASSUME VerdictInv, EvaluateExperiment PROVE VerdictInv'
  OBVIOUS
<1>1. /\ phase = "evaluate" /\ phase' = "done" /\ verdict' = EvaluateFromFindings(board)
      /\ UNCHANGED <<objects, everWell, hypothesis, now, todo, cycle, cycles, steady, collateral, board>>
      /\ board \in Seq(AFinding) /\ hypothesis \in Nat /\ MaxCycles \in Nat
  BY VerdictAssumption DEF EvaluateExperiment, VerdictInv, VerdictTypes
<1> DEFINE given == {j \in FindingsBySource(board, "reconciliation") : board[j].result.given}
           results == {board[i].result : i \in given}
           post == FindingsBySource(board, "steady_state")
           C == {r.cycles : r \in results}
           T == {r.time : r \in results}
           found == ComputeVerdict(board[First(post)].passed, \A r \in results : r.all, Worst(C), Worst(T))
<1>2. verdict' = IF post = {} THEN "Inconclusive"
                 ELSE IF found = "Resilient" /\ \E i \in FindingsBySource(board, "collateral") : ~board[i].passed
                      THEN "Degraded" ELSE found
  BY <1>1, Zenon DEF EvaluateFromFindings
<1> HIDE DEF found
<1>3. verdict' = "Resilient" =>
        /\ post # {} /\ found = "Resilient"
        /\ \A i \in FindingsBySource(board, "collateral") : board[i].passed
  BY <1>2
<1>4. found = "Resilient" =>
        /\ board[First(post)].passed /\ \A r \in results : r.all
        /\ hypothesis > 0 => ~(Worst(T) > hypothesis)
        /\ MaxCycles > 0 => ~(Worst(C) > MaxCycles)
  BY Zenon DEF found, ComputeVerdict
<1>5. post # {} => First(post) \in post
  <2> SUFFICES ASSUME NEW i \in post PROVE First(post) \in post
    OBVIOUS
  <2>1. \A j \in post : i = j
    BY DEF VerdictInv, BoardSound, FindingsBySource
  <2>2. i \in post /\ \A j \in post : i <= j
    BY <1>1, <2>1 DEF FindingsBySource
  <2> QED
    BY <2>2 DEF First
<1>6. \A r \in results :
         /\ r.cycles \in Nat /\ Worst(C) \in Nat /\ r.cycles <= Worst(C)
         /\ r.time \in Nat /\ Worst(T) \in Nat /\ r.time <= Worst(T)
  <2>1. \A q, r \in results : q = r
    BY DEF VerdictInv, BoardSound, FindingsBySource
  <2>2. results \subseteq AReconcileResult
    <3> SUFFICES ASSUME NEW i \in DOMAIN board PROVE board[i].result \in AReconcileResult
      BY DEF FindingsBySource
    <3>1. board[i] \in AFinding
      BY <1>1
    <3> QED
      BY <3>1 DEF AFinding
  <2> HIDE DEF results
  <2>3. \A r \in results : r.cycles \in Nat /\ r.time \in Nat
    BY <2>2 DEF AReconcileResult
  <2>4. C \in SUBSET Nat /\ \A m, n \in C : m = n
    BY <2>1, <2>3
  <2>5. T \in SUBSET Nat /\ \A m, n \in T : m = n
    BY <2>1, <2>3
  <2>6. \A r \in results : r.cycles \in C /\ r.time \in T
    OBVIOUS
  <2> HIDE DEF C, T
  <2>7. (\A n \in C : n <= Worst(C) /\ Worst(C) \in Nat) /\ \A n \in T : n <= Worst(T) /\ Worst(T) \in Nat
    BY <2>4, <2>5, WorstOfOne
  <2> QED
    BY <2>3, <2>6, <2>7
<1>7. VerdictSound'
  <2> SUFFICES ASSUME verdict' = "Resilient" PROVE VerdictSound'
    BY DEF VerdictSound
  <2>1. Range1(Checks) \subseteq everWell
    BY <1>3, <1>4, <1>5 DEF VerdictInv, BoardSound, Steady, FindingsBySource
  <2>2. \A d \in Range1(Dependents) : CheckType[d] # "none" => d \in everWell
    <3>1. Range1(collateral) = {}
      BY <1>1 DEF VerdictInv, Ended, Range1
    <3> QED
      BY <1>3, <3>1 DEF VerdictInv, CollateralLooked, FindingsBySource
  <2>3. ASSUME NEW i \in DOMAIN board, board[i].result.given
        PROVE  /\ Range1(Managed) \subseteq everWell
               /\ MaxCycles > 0 => board[i].result.cycles <= MaxCycles
               /\ hypothesis > 0 => board[i].result.time <= hypothesis
    <3>1. board[i].result \in results /\ (board[i].result.all => Range1(Managed) \subseteq everWell)
      BY <2>3 DEF VerdictInv, BoardSound, Reconciled, FindingsBySource
    <3> HIDE DEF results, C, T
    <3> QED
      BY <1>1, <1>3, <1>4, <1>6, <3>1
  <2> QED
    BY <1>1, <2>1, <2>2, <2>3 DEF VerdictSound
<1> QED
  BY <1>1, <1>7 DEF VerdictInv, VerdictTypes, Recorded, Looked, SteadyLooked, CollateralLooked, BoardSound,
       Reconciled, Steady, Ended, Polling

LEMMA VerdictPreserved == VerdictInv /\ [VerdictNext]_verdictVars => VerdictInv'
<1> SUFFICES ASSUME VerdictInv, [VerdictNext]_verdictVars PROVE VerdictInv'
  OBVIOUS
<1>1. CASE VerdictStep
  BY <1>1, StartCycleStep, LookStep, EndCycleStep, NextCycleStep, SteadyLookStep, SteadyFound,
     CollateralStep, BothDone, EvaluateStep DEF VerdictStep
<1>2. CASE Change
  BY <1>2, VerdictChange
<1>3. CASE Tick
  <2>1. now' \in Nat
    BY <1>3 DEF Tick, VerdictInv, VerdictTypes
  <2> QED
    BY <1>3, <2>1, VerdictQuiet DEF Tick, observed
<1>4. CASE UNCHANGED verdictVars
  <2>1. now' \in Nat
    BY <1>4 DEF verdictVars, VerdictInv, VerdictTypes
  <2> QED
    BY <1>4, <2>1, VerdictQuiet DEF verdictVars
<1> QED
  BY <1>1, <1>2, <1>3, <1>4 DEF VerdictNext

\* A verdict of Resilient is deserved: everything the observers had to look at
\* was in order at some moment, and the bounds on cycles and time are kept
\* (EvaluateFromFindings of pkg/evaluator over the board of the observers).
THEOREM VerdictSoundTheorem == VerdictSpec => []VerdictSound
<1>1. VerdictInv => VerdictSound
  BY DEF VerdictInv
<1> QED
  BY <1>1, VerdictBegins, VerdictPreserved, PTL DEF VerdictSpec

-----------------------------------------------------------------------------
(* The order of the findings *)

\* The dependents, up to the n-th, that report.
Reporting(n) == {i \in 1..n : CheckType[Dependents[i]] # "none"}
Heard == Len(Dependents) - Len(collateral)

\* What the evaluator takes from a board, and what it makes of that.
Given(b) == {b[i].result : i \in {j \in FindingsBySource(b, "reconciliation") : b[j].result.given}}
Post(b) == FindingsBySource(b, "steady_state")
Outcome(h, post, passed, all, n, time, damage) ==
    LET found == CASE ~passed -> "Failed"
                   [] passed /\ (~all \/ (h > 0 /\ time > h) \/ (MaxCycles > 0 /\ n > MaxCycles))
                        -> "Degraded"
                   [] OTHER -> "Resilient"
    IN  IF post = {} THEN "Inconclusive"
        ELSE IF found = "Resilient" /\ damage THEN "Degraded" ELSE found
OutcomeOf(b, h) ==
    Outcome(h, Post(b), b[First(Post(b))].passed, \A r \in Given(b) : r.all,
            Worst({r.cycles : r \in Given(b)}), Worst({r.time : r \in Given(b)}),
            \E i \in FindingsBySource(b, "collateral") : ~b[i].passed)

LEMMA Evaluates ==
  /\ \A b : EvaluateFromFindings(b) = OutcomeOf(b, hypothesis)
  /\ \A b : EvaluateFromFindings(b)' = OutcomeOf(b, hypothesis')
BY DEF EvaluateFromFindings, ComputeVerdict, OutcomeOf, Outcome, Given, Post

\* What is on the board, and who put it there.
OrderInv ==
    /\ steady.done => FindingsBySource(board, "steady_state") # {}
    /\ phase \in {"evaluate", "done"} => steady.done
    /\ Heard \in Nat
    /\ \A i \in 1..Len(collateral) : collateral[i] = Dependents[Heard + i]
    /\ Cardinality(FindingsBySource(board, "collateral")) = Cardinality(Reporting(Heard))
    /\ phase = "done" => verdict = OutcomeOf(board, hypothesis)

LEMMA FindingsFinite ==
  ASSUME NEW b \in Seq(AFinding), NEW source
  PROVE  IsFiniteSet(FindingsBySource(b, source))
<1>1. IsFiniteSet(1..Len(b))
  BY FS_Interval
<1>2. FindingsBySource(b, source) \subseteq 1..Len(b)
  BY DEF FindingsBySource
<1> QED
  BY <1>1, <1>2, FS_Subset

LEMMA ReportingFinite == ASSUME NEW n \in Nat PROVE IsFiniteSet(Reporting(n))
<1>1. IsFiniteSet(1..n)
  BY FS_Interval
<1>2. Reporting(n) \subseteq 1..n
  BY DEF Reporting
<1> QED
  BY <1>1, <1>2, FS_Subset

LEMMA FindingsAppended ==
  ASSUME NEW b \in Seq(AFinding), NEW f \in AFinding, NEW source
  PROVE  /\ f.source = source => FindingsBySource(Append(b, f), source)
                                   = FindingsBySource(b, source) \cup {Len(b) + 1}
         /\ f.source # source => FindingsBySource(Append(b, f), source) = FindingsBySource(b, source)
         /\ Len(b) + 1 \notin FindingsBySource(b, source)
<1> DEFINE c == Append(b, f)
<1>1. /\ DOMAIN c = 1..Len(b) + 1 /\ DOMAIN b = 1..Len(b) /\ Len(b) \in Nat
      /\ c[Len(b) + 1] = f /\ \A i \in DOMAIN b : c[i] = b[i]
  BY Appended
<1> HIDE DEF c
<1>2. DOMAIN c = DOMAIN b \cup {Len(b) + 1} /\ Len(b) + 1 \notin DOMAIN b
  BY <1>1
<1>3. FindingsBySource(c, source) = {i \in DOMAIN c : c[i].source = source}
  BY DEF FindingsBySource
<1>4. FindingsBySource(b, source) = {i \in DOMAIN b : b[i].source = source}
  BY DEF FindingsBySource
<1>5. /\ f.source = source => FindingsBySource(c, source) = FindingsBySource(b, source) \cup {Len(b) + 1}
      /\ f.source # source => FindingsBySource(c, source) = FindingsBySource(b, source)
  BY <1>1, <1>2, <1>3, <1>4
<1> QED
  BY <1>2, <1>4, <1>5 DEF c

LEMMA OrderBegins == VerdictInit => OrderInv
<1> SUFFICES ASSUME VerdictInit PROVE OrderInv
  OBVIOUS
<1>1. /\ board = <<>> /\ collateral = Dependents /\ ~steady.done /\ phase \in {"poll", "phase2"}
  BY DEF VerdictInit
<1>2. Dependents \in Seq(Range1(Dependents))
  BY VerdictAssumption
<1>3. Len(Dependents) \in Nat
  BY <1>2
<1>4. Heard = 0
  BY <1>1, <1>3 DEF Heard
<1>5. FindingsBySource(board, "collateral") = {} /\ Reporting(0) = {}
  BY <1>1 DEF FindingsBySource, Reporting
<1>6. \A i \in 1..Len(collateral) : collateral[i] = Dependents[Heard + i]
  BY <1>1, <1>3, <1>4
<1> QED
  BY <1>1, <1>4, <1>5, <1>6 DEF OrderInv

\* Nothing is reported, and nobody comes to the end.
LEMMA OrderQuiet ==
  ASSUME OrderInv, board' = board, collateral' = collateral, steady'.done = steady.done,
         phase' \notin {"evaluate", "done"} \/ phase' = phase,
         hypothesis' = hypothesis, verdict' = verdict
  PROVE  OrderInv'
<1>1. Heard' = Heard
  BY DEF Heard
<1> QED
  BY <1>1 DEF OrderInv

\* The reconciliation checker reports.
LEMMA OrderReconciled ==
  ASSUME VerdictInv, OrderInv, NEW f \in AFinding, f.source = "reconciliation",
         board' = Append(board, f), collateral' = collateral, steady' = steady,
         phase' = "phase2"
  PROVE  OrderInv'
<1>1. Heard' = Heard /\ board \in Seq(AFinding)
  BY DEF Heard, VerdictInv, VerdictTypes
<1>2. /\ FindingsBySource(board', "steady_state") = FindingsBySource(board, "steady_state")
      /\ FindingsBySource(board', "collateral") = FindingsBySource(board, "collateral")
  BY <1>1, FindingsAppended
<1> QED
  BY <1>1, <1>2 DEF OrderInv

LEMMA StepsFound ==
  ASSUME VerdictInv, OrderInv, SteadyStateContributor
  PROVE  OrderInv'
<1> DEFINE passed == steady.passed = Len(Checks)
           plain == Finding("steady_state", passed)
           f == [plain EXCEPT !.checks = TRUE]
<1>1. /\ board' = Append(board, f) /\ collateral' = collateral /\ phase' = phase
      /\ phase = "phase2" /\ board \in Seq(AFinding)
      /\ steady'.done
  BY DEF SteadyStateContributor, AddFinding, VerdictInv, VerdictTypes
<1>0. passed \in BOOLEAN
  OBVIOUS
<1> HIDE DEF passed
<1>3. plain \in AFinding /\ plain.source = "steady_state"
  BY <1>0 DEF Finding, NoResult, AFinding, AReconcileResult
<1> HIDE DEF plain
<1>4. f \in AFinding /\ f.source = "steady_state"
  BY <1>3 DEF AFinding
<1> HIDE DEF f
<1>5. /\ FindingsBySource(board', "steady_state") # {}
      /\ FindingsBySource(board', "collateral") = FindingsBySource(board, "collateral")
  BY <1>1, <1>4, FindingsAppended
<1>6. Heard' = Heard
  BY <1>1 DEF Heard
<1> QED
  BY <1>1, <1>5, <1>6 DEF OrderInv

\* One more dependent has been heard.
LEMMA OneMore ==
  ASSUME VerdictInv, OrderInv, CollateralContributor
  PROVE  /\ Heard' = Heard + 1 /\ Heard' \in Nat
         /\ \A i \in 1..Len(collateral') : collateral'[i] = Dependents[Heard' + i]
         /\ Head(collateral) = Dependents[Heard + 1]
         /\ Reporting(Heard + 1) = IF CheckType[Head(collateral)] = "none" THEN Reporting(Heard)
                                   ELSE Reporting(Heard) \cup {Heard + 1}
         /\ Heard + 1 \notin Reporting(Heard)
<1>1. collateral \in Seq(Range1(Dependents)) /\ collateral # <<>> /\ collateral' = Tail(collateral)
  BY DEF CollateralContributor, VerdictInv, VerdictTypes
<1>2. /\ Len(collateral) \in Nat \ {0} /\ Head(collateral) = collateral[1]
      /\ Len(collateral') = Len(collateral) - 1
      /\ \A i \in 1..Len(collateral') : collateral'[i] = collateral[i + 1]
  BY <1>1
<1>3. Len(Dependents) \in Nat
  BY VerdictAssumption
<1>4. Heard \in Nat /\ \A i \in 1..Len(collateral) : collateral[i] = Dependents[Heard + i]
  BY DEF OrderInv
<1>5. Heard' = Heard + 1
  BY <1>2, <1>3 DEF Heard
<1>6. Head(collateral) = Dependents[Heard + 1]
  BY <1>2, <1>4
<1>7. \A i \in 1..Len(collateral') : collateral'[i] = Dependents[Heard' + i]
  <2> TAKE i \in 1..Len(collateral')
  <2>1. i + 1 \in 1..Len(collateral) /\ Heard + (i + 1) = Heard' + i
    BY <1>2, <1>4, <1>5
  <2>2. collateral[i + 1] = Dependents[Heard + (i + 1)]
    BY <1>4, <2>1
  <2> QED
    BY <1>2, <2>1, <2>2
<1>8. 1..(Heard + 1) = (1..Heard) \cup {Heard + 1} /\ Heard + 1 \notin 1..Heard
  BY <1>4
<1> QED
  BY <1>4, <1>5, <1>6, <1>7, <1>8 DEF Reporting

LEMMA DependentHeard ==
  ASSUME VerdictInv, OrderInv, CollateralContributor
  PROVE  OrderInv'
<1>1. /\ Heard' = Heard + 1 /\ Heard' \in Nat /\ Heard \in Nat
      /\ \A i \in 1..Len(collateral') : collateral'[i] = Dependents[Heard' + i]
      /\ Reporting(Heard + 1) = IF CheckType[Head(collateral)] = "none" THEN Reporting(Heard)
                                ELSE Reporting(Heard) \cup {Heard + 1}
      /\ Heard + 1 \notin Reporting(Heard)
  BY OneMore DEF OrderInv
<1>2. /\ phase = "phase2" /\ phase' = phase /\ steady' = steady /\ board \in Seq(AFinding)
  BY DEF CollateralContributor, VerdictInv, VerdictTypes
<1>3. CASE CheckType[Head(collateral)] = "none"
  <2>1. board' = board
    BY <1>3 DEF CollateralContributor
  <2> QED
    BY <1>1, <1>2, <1>3, <2>1 DEF OrderInv
<1>4. CASE CheckType[Head(collateral)] # "none"
  <2>1. \/ AddFinding(Finding("collateral", Passes(Head(collateral))))
        \/ AddFinding(Finding("collateral", FALSE))
    BY <1>4 DEF CollateralContributor
  <2>2. Passes(Head(collateral)) \in BOOLEAN
    <3>1. Head(collateral) \in Range1(Dependents)
      BY HeadAndTail DEF CollateralContributor, VerdictInv, VerdictTypes
    <3>2. objects[Head(collateral)] \in AnObject
      BY <3>1 DEF VerdictInv, VerdictTypes, Watched
    <3> QED
      BY <3>2 DEF AnObject, Passes, CheckSteady, CheckCondition, CheckResourceExists, CheckFieldEquals
  <2>3. \A p \in BOOLEAN : Finding("collateral", p) \in AFinding /\ Finding("collateral", p).source = "collateral"
    BY DEF Finding, NoResult, AFinding, AReconcileResult
  <2>4. \E f \in AFinding : f.source = "collateral" /\ board' = Append(board, f)
    BY <2>1, <2>2, <2>3, Zenon DEF AddFinding
  <2>5. PICK f \in AFinding : f.source = "collateral" /\ board' = Append(board, f)
    BY <2>4
  <2> DEFINE C == FindingsBySource(board, "collateral")
  <2>6. /\ FindingsBySource(board', "steady_state") = FindingsBySource(board, "steady_state")
        /\ FindingsBySource(board', "collateral") = C \cup {Len(board) + 1}
        /\ Len(board) + 1 \notin C
    BY <1>2, <2>5, FindingsAppended
  <2>7. IsFiniteSet(C) /\ IsFiniteSet(Reporting(Heard))
    BY <1>1, <1>2, FindingsFinite, ReportingFinite
  <2>8. Cardinality(C) = Cardinality(Reporting(Heard))
    BY DEF OrderInv
  <2> HIDE DEF C
  <2>9. Cardinality(C \cup {Len(board) + 1}) = Cardinality(C) + 1
    BY <2>6, <2>7, FS_AddElement
  <2>10. Cardinality(Reporting(Heard) \cup {Heard + 1}) = Cardinality(Reporting(Heard)) + 1
    BY <1>1, <2>7, FS_AddElement
  <2>11. Cardinality(FindingsBySource(board', "collateral")) = Cardinality(Reporting(Heard'))
    BY <1>1, <1>4, <2>6, <2>8, <2>9, <2>10
  <2> QED
    BY <1>1, <1>2, <2>6, <2>11 DEF OrderInv
<1> QED
  BY <1>3, <1>4

LEMMA OrderEvaluated ==
  ASSUME OrderInv, EvaluateExperiment
  PROVE  OrderInv'
<1>1. /\ phase = "evaluate" /\ verdict' = OutcomeOf(board, hypothesis)
      /\ UNCHANGED <<hypothesis, steady, collateral, board>>
  BY Evaluates DEF EvaluateExperiment
<1>2. Heard' = Heard
  BY <1>1 DEF Heard
<1> QED
  BY <1>1, <1>2 DEF OrderInv

\* The findings of the reconciliation checker.
LEMMA OrderPolled ==
  ASSUME VerdictInv, OrderInv, StartCycle \/ CheckReconciliationOnce \/ EndCycle \/ NextCycle
  PROVE  OrderInv'
<1>1. /\ collateral' = collateral /\ steady' = steady /\ hypothesis' = hypothesis /\ verdict' = verdict
  BY DEF StartCycle, CheckReconciliationOnce, EndCycle, NextCycle
<1>2. \/ board' = board /\ phase' \notin {"evaluate", "done"}
      \/ ReconciliationContributor(TRUE) \/ ReconciliationContributor(FALSE) \/ ReconciliationError
  BY DEF StartCycle, CheckReconciliationOnce, EndCycle, NextCycle
<1>3. CASE board' = board /\ phase' \notin {"evaluate", "done"}
  BY <1>1, <1>3, OrderQuiet
<1>4. ASSUME NEW all \in BOOLEAN, ReconciliationContributor(all) PROVE OrderInv'
  <2> DEFINE plain == Finding("reconciliation", all)
             f == [plain EXCEPT !.result = Result(all)]
  <2>1. /\ plain = [source |-> "reconciliation", passed |-> all, checks |-> FALSE, result |-> NoResult]
        /\ Result(all) \in AReconcileResult
    BY DEF Finding, Result, AReconcileResult, VerdictInv, VerdictTypes
  <2>2. board' = Append(board, f) /\ phase' = "phase2"
    BY <1>4 DEF ReconciliationContributor, AddFinding
  <2> HIDE DEF plain
  <2>3. f \in AFinding /\ f.source = "reconciliation"
    BY <2>1 DEF AFinding
  <2> HIDE DEF f
  <2> QED
    BY <1>1, <2>2, <2>3, OrderReconciled
<1>5. CASE ReconciliationError
  <2> DEFINE f == Finding("reconciliation", FALSE)
  <2>1. f \in AFinding /\ f.source = "reconciliation"
    BY DEF Finding, NoResult, AFinding, AReconcileResult
  <2>2. board' = Append(board, f) /\ phase' = "phase2"
    BY <1>5 DEF ReconciliationError, AddFinding
  <2> HIDE DEF f
  <2> QED
    BY <1>1, <2>1, <2>2, OrderReconciled
<1> QED
  BY <1>2, <1>3, <1>4, <1>5

LEMMA OrderPreserved == VerdictInv /\ OrderInv /\ [VerdictNext]_verdictVars => OrderInv'
<1> SUFFICES ASSUME VerdictInv, OrderInv, [VerdictNext]_verdictVars PROVE OrderInv'
  OBVIOUS
<1>1. CASE CheckSteadyState
  <2>1. /\ UNCHANGED <<board, collateral, phase, hypothesis, verdict>>
        /\ steady \in [todo : Seq(Range1(Checks)), passed : Nat, done : BOOLEAN]
        /\ \/ steady' = [steady EXCEPT !.todo = Tail(@)]
           \/ steady' = [steady EXCEPT !.todo = Tail(@),
                                       !.passed = @ + (IF Passes(Head(steady.todo)) THEN 1 ELSE 0)]
    BY <1>1 DEF CheckSteadyState, VerdictInv, VerdictTypes
  <2>2. steady'.done = steady.done
    BY <2>1
  <2> QED
    BY <2>1, <2>2, OrderQuiet
<1>2. CASE RunContributors
  <2>1. /\ UNCHANGED <<board, collateral, steady>> /\ steady.done /\ phase' = "evaluate"
    BY <1>2 DEF RunContributors
  <2>2. Heard' = Heard
    BY <2>1 DEF Heard
  <2> QED
    BY <2>1, <2>2 DEF OrderInv
<1>3. CASE Change \/ Tick \/ UNCHANGED verdictVars
  <2>1. UNCHANGED <<board, collateral, phase, hypothesis, verdict, steady>>
    BY <1>3 DEF Change, Tick, verdictVars, observed
  <2> QED
    BY <2>1, OrderQuiet
<1> QED
  BY <1>1, <1>2, <1>3, OrderPolled, StepsFound, DependentHeard, OrderEvaluated
  DEF VerdictNext, VerdictStep

-----------------------------------------------------------------------------
(* The evaluator does not look at the order *)

LEMMA FirstOfOne == ASSUME NEW n \in Nat PROVE First({n}) = n
<1>1. n \in {n} /\ \A k \in {n} : n <= k
  OBVIOUS
<1>2. First({n}) \in {n}
  BY <1>1 DEF First
<1> QED
  BY <1>2

LEMMA TheOne ==
  ASSUME NEW b \in Seq(AFinding), NEW p, Post(b) = {p}
  PROVE  /\ p \in DOMAIN b /\ p \in Nat /\ b[p].source = "steady_state"
         /\ \A l \in DOMAIN b : b[l].source = "steady_state" => l = p
<1>1. DOMAIN b = 1..Len(b) /\ Len(b) \in Nat
  OBVIOUS
<1>2. \A l : l \in {p} <=> l \in DOMAIN b /\ b[l].source = "steady_state"
  BY DEF Post, FindingsBySource
<1> QED
  BY <1>1, <1>2

\* Two boards with the same findings, one of them the steady state's.
LEMMA SameOutcome ==
  ASSUME NEW b \in Seq(AFinding), NEW c \in Seq(AFinding),
         \A k \in DOMAIN c : \E l \in DOMAIN b : c[k] = b[l],
         \A k \in DOMAIN b : \E l \in DOMAIN c : b[k] = c[l],
         NEW p, Post(b) = {p}, NEW q, Post(c) = {q}, NEW h
  PROVE  OutcomeOf(c, h) = OutcomeOf(b, h)
<1>1. Given(c) = Given(b)
  BY DEF Given, FindingsBySource
<1>2. (\E i \in FindingsBySource(c, "collateral") : ~c[i].passed)
        <=> (\E i \in FindingsBySource(b, "collateral") : ~b[i].passed)
  BY DEF FindingsBySource
<1>3. c[First(Post(c))] = b[First(Post(b))]
  <2>1. /\ p \in DOMAIN b /\ b[p].source = "steady_state"
        /\ \A l \in DOMAIN b : b[l].source = "steady_state" => l = p
        /\ q \in DOMAIN c /\ c[q].source = "steady_state" /\ p \in Nat /\ q \in Nat
    BY TheOne
  <2>2. PICK l \in DOMAIN b : c[q] = b[l]
    BY <2>1
  <2>3. c[q] = b[p]
    BY <2>1, <2>2
  <2>4. First(Post(c)) = q /\ First(Post(b)) = p
    BY <2>1, FirstOfOne
  <2> QED
    BY <2>3, <2>4
<1>4. c[First(Post(c))].passed = b[First(Post(b))].passed
  BY <1>3
<1>5. Post(b) # {} /\ Post(c) # {}
  OBVIOUS
<1> DEFINE x == b[First(Post(b))].passed
           y == c[First(Post(c))].passed
           n == Worst({r.cycles : r \in Given(b)})
           t == Worst({r.time : r \in Given(b)})
<1>6. Worst({r.cycles : r \in Given(c)}) = n /\ Worst({r.time : r \in Given(c)}) = t
      /\ ((\A r \in Given(c) : r.all) <=> (\A r \in Given(b) : r.all)) /\ x = y
  BY <1>1, <1>4, Zenon
<1> HIDE DEF x, y, n, t
<1>7. OutcomeOf(b, h) = Outcome(h, Post(b), x, \A r \in Given(b) : r.all, n, t,
                                \E i \in FindingsBySource(b, "collateral") : ~b[i].passed)
  BY Zenon DEF OutcomeOf, x, n, t
<1>8. OutcomeOf(c, h) = Outcome(h, Post(c), y, \A r \in Given(c) : r.all, n, t,
                                \E i \in FindingsBySource(c, "collateral") : ~c[i].passed)
  BY <1>1, Zenon DEF OutcomeOf, y, n, t
<1> QED
  BY <1>2, <1>5, <1>6, <1>7, <1>8 DEF Outcome

\* Two findings may change places.
LEMMA Swapped ==
  ASSUME NEW b \in Seq(AFinding), NEW p, Post(b) = {p}, NEW h,
         NEW i \in DOMAIN b, NEW j \in DOMAIN b
  PROVE  OutcomeOf([b EXCEPT ![i] = b[j], ![j] = b[i]], h) = OutcomeOf(b, h)
<1> DEFINE c == [b EXCEPT ![i] = b[j], ![j] = b[i]]
           place == [k \in DOMAIN b |-> IF k = j THEN i ELSE IF k = i THEN j ELSE k]
<1>1. /\ \A k \in DOMAIN b : b[k] \in AFinding
      /\ DOMAIN b = 1..Len(b) /\ Len(b) \in Nat
  OBVIOUS
<1>2. /\ c \in [1..Len(b) -> AFinding] /\ DOMAIN c = DOMAIN b
      /\ \A k \in DOMAIN b : c[k] = b[place[k]] /\ place[k] \in DOMAIN b /\ place[place[k]] = k
  BY <1>1
<1>3. c \in Seq(AFinding)
  BY <1>1, <1>2
<1> HIDE DEF c, place
<1>4. \A k \in DOMAIN b : b[k] = c[place[k]]
  BY <1>2
<1>5. Post(c) = {place[p]}
  <2>1. p \in DOMAIN b /\ b[p].source = "steady_state"
        /\ \A l \in DOMAIN b : b[l].source = "steady_state" => l = p
    BY TheOne
  <2>2. place[p] \in DOMAIN c /\ c[place[p]].source = "steady_state"
    BY <1>2, <1>4, <2>1
  <2>3. \A k \in DOMAIN c : c[k].source = "steady_state" => k = place[p]
    BY <1>2, <2>1
  <2> QED
    BY <2>2, <2>3 DEF Post, FindingsBySource
<1>6. \A k \in DOMAIN c : \E l \in DOMAIN b : c[k] = b[l]
  BY <1>2
<1>7. \A k \in DOMAIN b : \E l \in DOMAIN c : b[k] = c[l]
  BY <1>2, <1>4
<1>8. OutcomeOf(c, h) = OutcomeOf(b, h)
  BY <1>3, <1>5, <1>6, <1>7, SameOutcome
<1> QED
  BY <1>8 DEF c

\* The verdict does not depend on the order in which the contributors of
\* RunContributors wrote their findings, and none of them is missing when
\* EvaluateFromFindings is called.
THEOREM OrderDoesNotMatter == VerdictSpec => []OrderIrrelevant
<1>1. VerdictInv /\ OrderInv => OrderIrrelevant
  <2> SUFFICES ASSUME VerdictInv, OrderInv, phase = "done"
               PROVE  /\ Cardinality(FindingsBySource(board, "steady_state")) = 1
                      /\ Cardinality(FindingsBySource(board, "collateral"))
                           = Cardinality({i \in DOMAIN Dependents : CheckType[Dependents[i]] # "none"})
                      /\ \A i, j \in DOMAIN board :
                            EvaluateFromFindings([board EXCEPT ![i] = board[j], ![j] = board[i]]) = verdict
    BY DEF OrderIrrelevant
  <2>1. PICK p \in Post(board) : Post(board) = {p}
    <3>1. Post(board) # {}
      BY DEF OrderInv, Post
    <3>2. \A p, q \in Post(board) : p = q
      BY DEF VerdictInv, BoardSound, Post, FindingsBySource
    <3> QED
      BY <3>1, <3>2
  <2>2. Cardinality(FindingsBySource(board, "steady_state")) = 1
    BY <2>1, FS_Singleton DEF Post
  <2>3. Reporting(Heard) = {i \in DOMAIN Dependents : CheckType[Dependents[i]] # "none"}
    <3>1. collateral = <<>> /\ Len(Dependents) \in Nat /\ DOMAIN Dependents = 1..Len(Dependents)
      BY VerdictAssumption DEF VerdictInv, Ended
    <3>2. Heard = Len(Dependents)
      BY <3>1 DEF Heard
    <3> QED
      BY <3>1, <3>2 DEF Reporting
  <2>4. ASSUME NEW i \in DOMAIN board, NEW j \in DOMAIN board
        PROVE  EvaluateFromFindings([board EXCEPT ![i] = board[j], ![j] = board[i]]) = verdict
    <3>1. board \in Seq(AFinding) /\ verdict = OutcomeOf(board, hypothesis)
      BY DEF VerdictInv, VerdictTypes, OrderInv
    <3>2. OutcomeOf([board EXCEPT ![i] = board[j], ![j] = board[i]], hypothesis) = OutcomeOf(board, hypothesis)
      BY <2>1, <3>1, Swapped
    <3> QED
      BY <3>1, <3>2, Evaluates
  <2> QED
    BY <2>2, <2>3, <2>4 DEF OrderInv
<1> QED
  BY <1>1, VerdictBegins, VerdictPreserved, OrderBegins, OrderPreserved, PTL DEF VerdictSpec
=============================================================================
