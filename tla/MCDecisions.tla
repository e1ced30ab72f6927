---------------------------- MODULE MCDecisions ----------------------------
EXTENDS Validation, SequencerCheck, Verdict

(* Experiments to validate.                                                 *)
Lengths == {5, 223, 224, 225, 230, 231, 233, 234, 235, 253, 254}
Plain == Name("plain", 5)
Listed == {NoName} \cup {Name(t, 5) : t \in {"plain", "bad", "upper", "colon", "chaos",
              "systemConfig", "systemSecret", "systemPrefix", "systemService",
              "systemAccount", "systemBinding", "systemWebhook", "openshift"}}
Long == {Name("plain", n) : n \in Lengths}
Namespaces == {NoName} \cup {Name(t, 5) : t \in {"team", "other", "kube-system", "openshift", "chaos", "controller"}}
Kinds == {"", "Secret", "ConfigMap", "Service", "ServiceAccount", "Deployment", "Namespace",
          "Node", "ClusterRole", "PersistentVolume", "StorageClass", "DataScienceCluster",
          "ChaosExperiment"}
KindsOutsideNamespaces == {"Namespace", "Node", "ClusterRole", "PersistentVolume", "StorageClass",
                           "DataScienceCluster"}
Apis == {"", "v1", "apps/v1", "apiextensions.k8s.io/v1", "chaos.operatorchaos.io/v1", "custom/v1"}
Durations == {NoDuration, [NoDuration EXCEPT !.given = TRUE, !.parses = FALSE]}
             \cup {[given |-> TRUE, parses |-> TRUE, secs |-> n] : n \in {-1, 0, 1, 29, 30, 300, 301}}
Selectors == {"", "kv", "exists", "blank", "commas"}
Paths == {<<>>, <<"spec">>, <<"spec", "replicas">>, <<"spec", "">>, <<"kind">>, <<"metadata">>,
          <<"metadata", "name">>, <<"metadata", "labels">>, <<"metadata", "annotations">>,
          <<"metadata", "annotations", "slash">>, <<"metadata", "annotations", "x">>}

ParamsOf(t) ==
    CASE t \in {"PodKill", "NetworkPartition"} -> {[NoParams EXCEPT !.selector = x] : x \in Selectors}
      [] t = "PDBBlock" -> {[NoParams EXCEPT !.selector = x, !.name = n] :
                               x \in Selectors, n \in {NoName, Plain, Name("bad", 5)}}
      [] t = "CRDMutation" ->
            {[NoParams EXCEPT !.api = a, !.kind = k, !.name = Plain, !.path = x, !.field = f, !.value = v] :
                a \in {"v1", "custom/v1", "apiextensions.k8s.io/v1"}, k \in {"Deployment", "ClusterRole"},
                x \in Paths, f \in {"", "x", "slash"}, v \in {"absent", "scalar", "object", "null", "huge"}}
            \cup {[NoParams EXCEPT !.api = a, !.kind = k, !.name = n, !.field = "template", !.value = "scalar"] :
                a \in Apis, k \in Kinds, n \in Listed}
      [] t = "ConfigDrift" ->
            {[NoParams EXCEPT !.kind = k, !.name = n, !.key = x, !.keyLen = 10, !.value = v] :
                k \in {"", "ConfigMap", "Secret", "Pod"}, n \in Listed \cup Long,
                x \in {"absent", "key", "slash"}, v \in {"absent", "scalar", "huge"}}
      [] t = "WebhookDisrupt" ->
            {[NoParams EXCEPT !.name = n, !.selector = x, !.action = a, !.kind = k] :
                n \in Listed, x \in Selectors, a \in {"absent", "setFailurePolicy"},
                k \in {"", "validating", "mutating", "other"}}
      [] t = "RBACRevoke" -> {[NoParams EXCEPT !.name = n, !.kind = k] :
                n \in Listed, k \in {"", "ClusterRoleBinding", "RoleBinding"}}
      [] t \in {"FinalizerBlock", "OwnerRefOrphan"} ->
            {[NoParams EXCEPT !.name = n, !.kind = k, !.api = a] : n \in Listed, k \in Kinds, a \in Apis}
      [] t = "ClientFault" ->
            {[NoParams EXCEPT !.value = v, !.operation = o, !.rate = r, !.delay = d, !.name = n] :
                v \in {"absent", "empty", "faults"}, o \in {"get", "fly"}, r \in {-1, 0, 10, 11},
                d \in Durations, n \in {NoName, Plain, Name("chaos", 5)}}
      [] t = "QuotaExhaustion" -> {[NoParams EXCEPT !.name = n, !.limit = l] :
                n \in Listed, l \in {"", "quantity", "text"}}
      [] t = "WebhookLatency" -> {[NoParams EXCEPT !.kind = k, !.api = a, !.delay = d] :
                k \in {"", "deployments"}, a \in {"", "apps"}, d \in Durations}
      [] t = "LabelStomping" ->
            {[NoParams EXCEPT !.api = a, !.kind = k, !.name = n, !.labelKey = l, !.action = x, !.labelValue = v] :
                a \in {"", "v1"}, k \in {"", "ConfigMap", "ClusterRole", "DataScienceCluster"}, n \in {NoName, Plain, Name("chaos", 5)},
                l \in {"", "bad", "managed-by", "chaos", "system", "app"},
                x \in {"absent", "overwrite", "delete"}, v \in {"", "bad"}}
      [] t = "ResourceDeletion" ->
            {[NoParams EXCEPT !.api = "v1", !.kind = k, !.name = n, !.namespace = ns] :
                k \in Kinds, n \in Listed \cup Long, ns \in Namespaces}
      [] t = "CrashLoopInject" -> {[NoParams EXCEPT !.name = n, !.container = c] :
                n \in Listed, c \in {NoName, Plain, Name("bad", 5)}}
      [] t = "NamespaceDeletion" -> {[NoParams EXCEPT !.namespace = ns] : ns \in Namespaces}
      [] OTHER -> {[NoParams EXCEPT !.name = n, !.namespace = ns] : n \in Listed \cup Long, ns \in Namespaces}

AllTypes == {"PodKill", "NetworkPartition", "PDBBlock", "CRDMutation", "ConfigDrift", "WebhookDisrupt",
          "RBACRevoke", "FinalizerBlock", "OwnerRefOrphan", "ClientFault", "QuotaExhaustion",
          "WebhookLatency", "LabelStomping", "ResourceDeletion", "CrashLoopInject", "NamespaceDeletion",
          "SecretDeletion", "DeploymentScaleZero", "LeaderElectionDisrupt", "ImageCorrupt", "Unknown"}

Usual == [injection |-> [type |-> "", danger |-> "low", count |-> 0], params |-> NoParams,
          consent |-> FALSE, ns |-> "team", allowed |-> {"team"}, max |-> 1, forbidden |-> FALSE,
          check |-> "none", checkNs |-> "", operator |-> Plain, component |-> Plain,
          timeout |-> 60, ttl |-> 60]
\* At most one thing is wrong with what no injector looks at.
Flawed == {Usual, [Usual EXCEPT !.forbidden = TRUE], [Usual EXCEPT !.operator = NoName],
           [Usual EXCEPT !.component = NoName], [Usual EXCEPT !.timeout = 3601],
           [Usual EXCEPT !.ttl = 3601]}
SteadyChecks == {<<"none", "">>, <<"fieldEquals", "">>, <<"incomplete", "">>,
           <<"fieldEquals", "team">>, <<"fieldEquals", "other">>, <<"fieldEquals", "kube-system">>}

\* Every parameter with every stance on danger; everything around them with PodKill.
Around(t) ==
    {[Usual EXCEPT !.injection.danger = d, !.consent = c, !.allowed = S] :
        d \in {"low", "high"}, c \in BOOLEAN, S \in {{}, {"team"}}}
    \cup IF t # "PodKill" THEN {} ELSE
        {[u EXCEPT !.consent = c, !.allowed = S, !.injection.count = n, !.max = m, !.ns = ns,
                   !.check = k[1], !.checkNs = k[2]] :
            u \in Flawed, c \in BOOLEAN, n \in -1..2, m \in 0..2,
            S \in {{}, {"team"}, {"team", "other"}, {"team", "kube-system"}, {"openshift"}},
            ns \in {"team", "kube-system", "openshift"}, k \in SteadyChecks}

-----------------------------------------------------------------------------
(* Playbooks: all dependencies between four steps (none on itself), all of  *)
(* three steps, and dependencies inferred from two operators' components.   *)

Steps(deps, components) == [i \in DOMAIN deps |-> [deps |-> deps[i], component |-> components[i]]]
Playbook(steps) == [NoInput EXCEPT !.steps = steps]
Explicit ==
    {Playbook(Steps(d, <<"a", "b", "b", "">>)) : d \in {f \in [1..4 -> SUBSET (1..4)] : \A i \in 1..4 : i \notin f[i]}}
    \cup {Playbook(Steps(d, <<"a", "", "b">>)) : d \in [1..3 -> SUBSET (1..3)]}
Components == {<<"o", "a">>, <<"o", "b">>, <<"p", "c">>}
Inferred ==
    {[steps |-> Steps(d, c), components |-> Components, declared |-> g, opts |-> [infer |-> TRUE, operators |-> o]] :
        d \in [1..3 -> {{}, {1}}], c \in [1..3 -> {"", "a", "b", "c"}],
        g \in [Components -> {{}, {"a"}, {"b", "o"}}], o \in {{"o"}, {"o", "p"}}}
AllInputs == Explicit \cup Inferred

-----------------------------------------------------------------------------
(* Post-checks to judge.                                                    *)

TwoManaged == <<"deployment", "service">>
TwoChecks == <<"condition", "field">>
TwoDependents == <<"dashboard", "unchecked">>
CheckTypes == [c \in {"condition", "field", "dashboard", "unchecked"} |->
                 CASE c = "condition" -> "conditionTrue" [] c = "field" -> "fieldEquals"
                   [] c = "unchecked" -> "none" [] OTHER -> "resourceExists"]

-----------------------------------------------------------------------------
(* One of the three: an experiment is submitted, a playbook is sequenced or *)
(* an experiment is judged.                                                 *)

NotSubmitted == exp = Usual /\ stage = "none" /\ touched = Untouched
NotSequenced == input = NoInput /\ sorted = NotSorted
NotJudged ==
    /\ objects = [x \in Watched |-> Healthy] /\ everWell = Watched /\ hypothesis = 0
    /\ now = 0 /\ tick = FALSE /\ cycle = FALSE /\ cycles = 0 /\ todo = <<>> /\ phase = "off"
    /\ steady = [todo |-> <<>>, passed |-> 0, done |-> FALSE] /\ collateral = <<>>
    /\ board = <<>> /\ verdict = "off" /\ changes = 0 /\ errors = 0

DecisionsInit ==
    \/ ValidationInit /\ NotSequenced /\ NotJudged
    \/ NotSubmitted /\ SequencerInit /\ NotJudged
    \/ NotSubmitted /\ NotSequenced /\ VerdictInit
DecisionsNext ==
    \/ ValidationNext /\ UNCHANGED <<sequencerVars, verdictVars>>
    \/ SequencerNext /\ UNCHANGED <<validationVars, verdictVars>>
    \/ VerdictNext /\ UNCHANGED <<validationVars, sequencerVars>>
DecisionsSpec ==
    /\ DecisionsInit /\ [][DecisionsNext]_<<validationVars, sequencerVars, verdictVars>>
    /\ VerdictFairness
=============================================================================
