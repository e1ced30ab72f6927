--------------------------- MODULE SequencerCheck ---------------------------
(***************************************************************************)
(* Sequencing a playbook as one step from an input to its order, to be     *)
(* checked over bounded inputs.                                            *)
(***************************************************************************)
EXTENDS Sequencer

CONSTANT Inputs         \* records of steps, components, declared and opts

ASSUME SequencerAssumption == \A in \in Inputs : in.steps \in Seq(Range(in.steps))

VARIABLES input, sorted

sequencerVars == <<input, sorted>>

NoInput == [steps |-> <<>>, components |-> {}, declared |-> <<>>, opts |-> [infer |-> FALSE, operators |-> {}]]
NotSorted == [order |-> <<>>, warnings |-> 0, gated |-> <<>>]
EdgesOf(in) == Edges(in.steps, BuildDependencyGraph(in.components, in.declared), in.opts)

SequencerInit == input \in Inputs /\ sorted = NotSorted
SequencerNext ==
    /\ input # NoInput /\ sorted = NotSorted /\ UNCHANGED input
    /\ LET out == Sequence(input.steps, BuildDependencyGraph(input.components, input.declared), input.opts)
       IN  sorted' = [order |-> out.order, warnings |-> out.warnings,
                      gated |-> InjectHealthGates(input.steps, out.order)]

-----------------------------------------------------------------------------
\* Sequencing loses and repeats no step, warns exactly when the dependencies
\* have a cycle, and gives up at most one dependency per warning.  Of the orders
\* that respect the dependencies it picks the one closest to the original: a
\* step overtakes one that waits for a later step.  Neighbours of different
\* components have a health gate between them.
SequenceSound ==
    sorted # NotSorted =>
        LET n == Len(input.steps)
            edges == EdgesOf(input)
            cyclic == \E i \in 1..n : <<i, i>> \in Closure(edges, n)
            at(i) == Position(sorted.order, i)
        IN  /\ Len(sorted.order) = n /\ ToSet(sorted.order) = 1..n
            /\ cyclic <=> sorted.warnings > 0
            /\ Cardinality({e \in edges : at(e[2]) <= at(e[1])}) <= sorted.warnings
            /\ ~cyclic => \A i, j \in 1..n :
                  i < j /\ at(j) < at(i) => \E d \in j..n : <<d, i>> \in Closure(edges, n)
            /\ \A k \in 2..Len(sorted.gated) :
                  LET two == {sorted.gated[k-1], sorted.gated[k]}
                      components == {input.steps[x.step].component : x \in two}
                  IN  (\A x \in two : "step" \in DOMAIN x) =>
                          "" \in components \/ Cardinality(components) = 1
=============================================================================
