----------------------------- MODULE MCPlaybook -----------------------------
EXTENDS Playbook
S(name, type, deps, path, auto) ==
    [name |-> name, type |-> type, deps |-> deps, path |-> path, dir |-> "", auto |-> auto]
P(kind, rollback, paths, steps) == [kind |-> kind, rollback |-> rollback, paths |-> paths, steps |-> steps]
Two == [o \in {"A", "B"} |-> <<1>>]
TwoHops(r) == GenerateUpgradePlaybook("A", <<1, 2>>, r)
\* Written in another order than the dependencies ask for.
Reordered == P("upgrade", FALSE, [o \in {"A"} |-> <<1>>],
    <<S(1, "validate", {4}, NoOperator, FALSE), S(2, "kubectl", {}, NoOperator, FALSE),
      S(3, "manual", {2}, NoOperator, TRUE), S(4, "olm", {3}, "A", FALSE)>>)
TwoOperators == P("upgrade", TRUE, Two,
    <<S(1, "olm", {}, "A", FALSE), S(2, "olm", {1}, "B", FALSE)>>)
UnknownPath == P("upgrade", TRUE, Two, <<S(1, "kubectl", {}, NoOperator, FALSE), S(2, "olm", {}, "C", FALSE)>>)
Invalid == {P("upgrade", TRUE, Two, <<S(1, "olm", {}, NoOperator, FALSE)>>),
            P("upgrade", TRUE, <<>>, <<S(1, "olm", {}, NoOperator, FALSE)>>),
            P("chaos", FALSE, <<>>, <<S(1, "chaos", {}, NoOperator, FALSE), S(1, "manual", {}, NoOperator, FALSE)>>),
            P("chaos", FALSE, <<>>, <<S(1, "chaos", {7}, NoOperator, FALSE)>>)}
SomePlaybooks == {TwoHops(TRUE), TwoHops(FALSE), Reordered, TwoOperators, UnknownPath,
                  GenerateChaosPlaybook(2)} \cup Invalid
\* Two hops and nothing behind them that would notice a missing one.
HopsOnly == {P("upgrade", FALSE, [o \in {"A"} |-> <<1, 2>>], <<S(1, "olm", {}, "A", FALSE)>>)}
RunsOf(p) == IF Cardinality(DOMAIN p.paths) > 1 THEN 1 ELSE 3
=============================================================================
