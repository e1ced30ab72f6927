------------------------------ MODULE Sequencer ------------------------------
(***************************************************************************)
(* The order of the steps of a playbook: pkg/upgrade/sequencer.go over the *)
(* dependency graph of pkg/model/graph.go.  Steps are numbered by their    *)
(* original position; an edge <<a, b>> says that a comes before b.         *)
(***************************************************************************)
EXTENDS Integers, Sequences, FiniteSets, FiniteSetsExt, SequencesExt

\* The components of all knowledge models as <<operator, component>>; declared
\* dependencies name a component of the same operator or else an operator.
\* Edges of the graph point from a dependency to its dependents.
BuildDependencyGraph(components, declared) ==
    {e \in components \X components :
        \E dep \in declared[e[2]] :
            IF <<e[2][1], dep>> \in components THEN e[1] = <<e[2][1], dep>> ELSE e[1][1] = dep}

DirectDependents(graph, ref) == {e[2] : e \in {g \in graph : g[1] = ref}}

ComponentDependsOn(graph, operators, a, b) ==
    \E op \in operators : \E r \in DirectDependents(graph, <<op, a>>) : r[2] = b

\* A step has a set `deps' of steps and a component, "" for none.  Dependencies
\* are inferred only between steps that declare none.
Edges(steps, graph, opts) ==
    LET n == DOMAIN steps
        explicit == {e \in n \X n : e[1] \in steps[e[2]].deps}
        infers(i) == steps[i].component # "" /\ steps[i].deps = {}
        after(a, b) == /\ a # b /\ infers(a) /\ infers(b)
                       /\ steps[a].component # steps[b].component
                       /\ ComponentDependsOn(graph, opts.operators, steps[a].component,
                                             steps[b].component)
        inferred == {e \in n \X n : after(e[1], e[2])}
    IN  explicit \cup (IF opts.infer THEN inferred ELSE {})

\* One pass of Kahn's algorithm: the first step, by position, of those whose
\* predecessors are all placed.
RunKahnAnyPredecessor(n, edges) ==
    LET pass[placed \in SUBSET (1..n)] ==
            LET before(i) == {e[1] : e \in {f \in edges : f[2] = i}}
                free == {i \in 1..n \ placed : before(i) = {} \/ before(i) \cap placed # {}}
            IN  IF free = {} THEN <<>> ELSE <<Min(free)>> \o pass[placed \cup {Min(free)}]
    IN  pass[{}]

RunKahn(n, edges) ==
    LET pass[placed \in SUBSET (1..n)] ==
            LET free == {i \in 1..n \ placed :
                            \A e \in edges : e[2] = i => e[1] \in placed}
            IN  IF free = {} THEN <<>> ELSE <<Min(free)>> \o pass[placed \cup {Min(free)}]
    IN  pass[{}]

\* While steps are left over, one edge to the last of them, from the first of
\* them that has one, is dropped and a warning given.
KahnSort(n, edges) ==
    LET sort[E \in SUBSET edges] ==
            LET order == RunKahn(n, E)
                left == 1..n \ ToSet(order)
                from == Min({f \in left : <<f, Max(left)>> \in E})
                rest == sort[E \ {<<from, Max(left)>>}]
            IN  IF left = {} THEN [order |-> order, warnings |-> 0]
                ELSE [rest EXCEPT !.warnings = @ + 1]
    IN  sort[edges]

\* A health gate between neighbours of different components, as the component
\* it checks; the steps as their numbers.
InjectHealthGates(steps, order) ==
    LET gated(k) == /\ k > 1
                    /\ "" \notin {steps[order[k-1]].component, steps[order[k]].component}
                    /\ steps[order[k-1]].component # steps[order[k]].component
    IN  FlattenSeq([k \in DOMAIN order |->
            IF gated(k) THEN <<[gate |-> steps[order[k-1]].component], [step |-> order[k]]>>
            ELSE <<[step |-> order[k]]>>])

Sequence(steps, graph, opts) == KahnSort(Len(steps), Edges(steps, graph, opts))

-----------------------------------------------------------------------------
(* What an order is measured by *)

\* Everything that has to come after something else, directly or not.
Closure(edges, n) ==
    LET via[k \in 0..n] ==
            IF k = 0 THEN edges
            ELSE via[k-1] \cup {p \in (1..n) \X (1..n) :
                                  <<p[1], k>> \in via[k-1] /\ <<k, p[2]>> \in via[k-1]}
    IN  via[n]
Position(order, i) == CHOOSE k \in DOMAIN order : order[k] = i
=============================================================================
