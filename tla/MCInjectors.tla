---------------------------- MODULE MCInjectors ----------------------------
(* The injection types with the targets that tell their branches apart. *)
EXTENDS Clean

ResourceOf(kind) ==
    CASE kind \in {"ClusterRoleBinding", "RoleBinding"} -> kind
      [] kind \in {"ConfigMapDrift", "ClientFault", "LabelOverwrite"} -> "ConfigMap"
      [] kind = "ValidatingWebhook" -> "ValidatingWebhookConfiguration"
      [] kind = "NetworkPartition" -> "NetworkPolicy"
      [] kind \in {"LabelDelete", "LeaderElection"} -> "Lease"
      [] OTHER -> "Deployment"

Case(kind, orig, edit, fault) ==
    [kind |-> kind, here |-> TRUE, orig |-> orig, edit |-> edit, fault |-> fault,
     res |-> ResourceOf(kind), slow |-> FALSE, selector |-> FALSE, foreign |-> FALSE, label |-> "none"]

a == Scalar("a")
b == Scalar("b")
fault == Scalar("fault")

Plain == {Case(k, a, b, fault) : k \in InPlace \ {"FinalizerBlock", "ClientFault",
              "OwnerRefOrphan", "ClusterRoleBinding", "RoleBinding", "LabelDelete"}}
Lists == {Case(k, Map({"a"}), Map({"b"}), Map({})) :
            k \in {"ClusterRoleBinding", "RoleBinding", "OwnerRefOrphan"}}
Others ==
    {Case("FinalizerBlock", Map(S), Map({"b"}), Absent) : S \in {{}, {"a"}}}
    \cup {Case("ClientFault", Map({"a"}), Map({"b"}), Absent),
          [Case("ClientFault", Absent, Map({"b"}), Absent) EXCEPT !.here = FALSE],
          Case("LabelDelete", a, b, Absent), Case("LabelOverwrite", Absent, b, fault),
          Case("ConfigMapDrift", Absent, b, fault), Case("SecretDrift", Absent, b, fault),
          Case("FieldMutation", Absent, b, fault), Case("PathMutation", Absent, b, fault),
          Case("FieldMutation", Map({"a"}), Map({"b"}), Map({"fault"})),
          Case("FieldMutation", a, Map({"b"}), Map({"fault"})), Case("SecretDrift", a, Absent, fault),
          Case("PathMutation", Map({"a"}), Map({"b"}), fault),
          [Case("ValidatingWebhook", a, b, fault) EXCEPT !.selector = TRUE],
          [Case("MutatingWebhook", a, b, fault) EXCEPT !.selector = TRUE],
          [Case("ConfigMapDrift", a, b, fault) EXCEPT !.label = "owner"],
          [Case("FieldMutation", a, b, fault) EXCEPT !.res = "Custom"],
          [Case("FinalizerBlock", Map({}), Map({"b"}), Absent) EXCEPT !.res = "ConfigMap"],
          [Case("LabelDelete", a, b, Absent) EXCEPT !.res = "ClusterRole"]}
WholeObjects ==
    {[Case(k, a, b, fault) EXCEPT !.slow = s, !.foreign = f] :
        k \in Deleting, s \in BOOLEAN, f \in BOOLEAN}
    \cup {[Case(k, Absent, b, fault) EXCEPT !.here = h, !.label = "owner"] :
        k \in Creating \ {"NetworkPartition"}, h \in BOOLEAN}
    \cup {[Case(k, Absent, b, fault) EXCEPT !.here = FALSE] :
        k \in {"NetworkPartition", "WebhookLatency"}}

AllCases == Plain \cup Lists \cup Others \cup WholeObjects
=============================================================================
