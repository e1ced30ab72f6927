------------------------------ MODULE Playbook ------------------------------
(***************************************************************************)
(* A playbook that is run, interrupted and resumed: internal/cli/playbook  *)
(* and internal/cli/upgrade, with pkg/olm and pkg/upgrade below them and   *)
(* OLM itself around them.                                                 *)
(*                                                                         *)
(* One process at a time runs the playbook pb; it may die at every step.   *)
(* What survives it is the state file (file), the snapshot directory       *)
(* (snaps) and the cluster (olm).  Channel c of an operator offers the     *)
(* version c, version 0 is the one before the upgrade.                     *)
(***************************************************************************)
EXTENDS Sequencer, Functions

CONSTANTS Playbooks,    \* the playbooks that are tried
          Operators,
          Channels,     \* 1..c, in the order of OLM's upgrade graph
          NoOperator,
          MaxRuns(_),   \* bound of the runs of a playbook
          MaxFaults     \* bound of the file and API calls that fail

ASSUME ChannelsAssumption ==
    Channels \subseteq Nat \ {0} /\ IsFiniteSet(Channels) /\ NoOperator \notin Operators

\* A hop is known by its channel, as in CompletedHops: no path comes back to one.
ASSUME PlaybooksAssumption ==
    \A p \in Playbooks :
        /\ {"kind", "rollback", "paths", "steps"} \subseteq DOMAIN p
        /\ p.steps \in Seq(Range(p.steps)) /\ DOMAIN p.paths \subseteq Operators
        /\ \A o \in DOMAIN p.paths : p.paths[o] \in Seq(Channels) /\ IsInjective(p.paths[o])

VARIABLES pb, file, run, olm, snaps, hist

vars == <<pb, file, run, olm, snaps, hist>>

-----------------------------------------------------------------------------
(* Playbooks: steps [name, type, deps, path, dir, auto], paths from         *)
(* operators to sequences of channels, kind, rollback.                      *)

Names(p) == [i \in DOMAIN p.steps |-> p.steps[i].name]
IsOLM(s) == s.type = "olm"

ValidateUpgrade(p) ==
    /\ (\E i \in DOMAIN p.steps : IsOLM(p.steps[i])) =>
           DOMAIN p.paths # {} /\ \A o \in DOMAIN p.paths : p.paths[o] # <<>>
    /\ Cardinality(DOMAIN p.paths) > 1 =>
           \A i \in DOMAIN p.steps : IsOLM(p.steps[i]) => p.steps[i].path # NoOperator

ValidateSteps(p) ==
    /\ IsInjective(Names(p))
    /\ \A i \in DOMAIN p.steps : p.steps[i].deps \subseteq Range(Names(p))

ValidatePlaybook(p) ==
    /\ p.steps # <<>>
    /\ p.kind = "upgrade" => ValidateUpgrade(p)
    /\ ValidateSteps(p)

HasShellCommands(p) == \E i \in DOMAIN p.steps : p.steps[i].type = "kubectl"

\* The playbook in the order of execution.  The commands give the sequencer
\* neither a graph nor components.
ApplySequencer(p) ==
    LET before(i) == {j \in DOMAIN p.steps : p.steps[j].name \in p.steps[i].deps}
        order == Sequence([i \in DOMAIN p.steps |-> [deps |-> before(i), component |-> ""]],
                          {}, [infer |-> FALSE, operators |-> {}]).order
    IN  [p EXCEPT !.steps = [k \in DOMAIN order |-> p.steps[order[k]]]]

\* Every run loads the playbook anew and gets the same.
LoadPlaybook(p) ==
    IF ValidatePlaybook(p) /\ \E i \in DOMAIN p.steps : p.steps[i].deps # {}
    THEN ApplySequencer(p) ELSE p

StepAt(i) == pb.steps[i]
NSteps == Len(pb.steps)

ResolvePathRef(s) ==
    IF s.path # NoOperator THEN s.path
    ELSE IF Cardinality(DOMAIN pb.paths) = 1 THEN CHOOSE o \in DOMAIN pb.paths : TRUE
    ELSE NoOperator

\* The knowledge a step is checked against.
ResolveKnowledgeDirBySource(i) == IF StepAt(i).dir # "" THEN StepAt(i).dir ELSE "source"

ResolveKnowledgeDir(i) ==
    LET hops == {j \in 1..NSteps : IsOLM(StepAt(j))}
    IN  IF StepAt(i).dir # "" THEN StepAt(i).dir
        ELSE IF hops # {} /\ i < Min(hops) THEN "source" ELSE "target"

\* What generate writes: source check, upgrade, target check.
GenerateUpgradePlaybook(operator, channels, rollback) ==
    [kind |-> "upgrade", rollback |-> rollback, paths |-> [o \in {operator} |-> channels],
     steps |-> <<[name |-> 1, type |-> "validate", deps |-> {}, path |-> NoOperator, dir |-> "source", auto |-> FALSE],
                 [name |-> 2, type |-> "olm", deps |-> {}, path |-> NoOperator, dir |-> "", auto |-> FALSE],
                 [name |-> 3, type |-> "validate", deps |-> {2}, path |-> NoOperator, dir |-> "target", auto |-> FALSE]>>]

\* A preflight check, the components that have experiments left after the
\* filter, in any order and chained to each other, and the cleanup.
GenerateChaosPlaybook(components) ==
    [kind |-> "chaos", rollback |-> FALSE, paths |-> <<>>,
     steps |-> [i \in 1..components + 2 |->
        [name |-> i, deps |-> IF i = 1 THEN {} ELSE {i - 1}, path |-> NoOperator, dir |-> "", auto |-> FALSE,
         type |-> IF i = 1 THEN "validate" ELSE IF i = components + 2 THEN "kubectl" ELSE "chaos"]]]

-----------------------------------------------------------------------------
(* OLM: a Subscription with its InstallPlan and the CSVs, per operator.     *)

NewSubscription == [channel |-> 0, current |-> 0, installed |-> 0, plan |-> 0, manual |-> FALSE,
                    phase |-> "Complete",
                    csv |-> [v \in Channels \cup {0} |-> IF v = 0 THEN "Succeeded" ELSE "absent"], crds |-> 0]

Olm(o, new) == olm' = [olm EXCEPT ![o] = new] /\ UNCHANGED <<pb, file, run, snaps, hist>>

\* A new channel is looked at when the last upgrade is over.
OLMResolve(o) ==
    /\ olm[o].channel > olm[o].current /\ olm[o].current = olm[o].installed
    /\ Olm(o, [olm[o] EXCEPT !.current = olm[o].channel])
OLMPlan(o) ==
    /\ olm[o].plan # olm[o].current
    /\ \E manual \in BOOLEAN :
          Olm(o, [olm[o] EXCEPT !.plan = olm[o].current, !.manual = manual,
                                !.phase = IF manual THEN "RequiresApproval" ELSE "Installing"])
OLMApprove(o) ==
    /\ olm[o].phase = "RequiresApproval"
    /\ Olm(o, [olm[o] EXCEPT !.phase = "Installing"])
OLMPlanEnds(o) ==
    /\ olm[o].phase = "Installing"
    /\ \/ Olm(o, [olm[o] EXCEPT !.phase = "Failed"])
       \/ Olm(o, [olm[o] EXCEPT !.phase = "Complete", !.csv[olm[o].plan] = "Installing",
                                !.crds = olm[o].plan])
OLMCSVEnds(o) ==
    /\ olm[o].csv[olm[o].current] = "Installing"
    /\ \E phase \in {"Succeeded", "Failed"} :
          Olm(o, [olm[o] EXCEPT !.csv[olm[o].current] = phase])
\* The Subscription's installedCSV follows.
OLMInstalled(o) ==
    /\ olm[o].csv[olm[o].current] = "Succeeded" /\ olm[o].installed # olm[o].current
    /\ Olm(o, [olm[o] EXCEPT !.installed = olm[o].current])

Upgraded == {o \in DOMAIN pb.paths : pb.paths[o] # <<>>}

\* The validator of a knowledge directory finds the resources of its version.
Matches(o, dir) ==
    IF dir = "target" THEN olm[o].csv[Last(pb.paths[o])] = "Succeeded"
    ELSE \A v \in Channels : olm[o].csv[v] # "Succeeded"

-----------------------------------------------------------------------------
(* The process.  `entries' are the keys of CompletedSteps, `hops' their     *)
(* CompletedHops; every save writes the whole state or, failing, nothing.   *)

NotBegun == [channel |-> 0, crds |-> 0]
EmptyState == [entries |-> {}, hops |-> {}, failed |-> 0]
Idle == [at |-> "idle", i |-> 0, st |-> EmptyState, skip |-> FALSE, hop |-> 1, snapped |-> FALSE,
         initial |-> 0, settled |-> FALSE, seen |-> FALSE, last |-> ""]

Step == StepAt(run.i)
Op == ResolvePathRef(Step)
Hops == pb.paths[Op]

\* hist with a call that fails, if one does.
Faulty(fault) == [hist EXCEPT !.faults = IF fault THEN @ + 1 ELSE @]
Faults == IF hist.faults < MaxFaults THEN BOOLEAN ELSE {FALSE}

SaveState(st, fault) == file' = IF fault THEN file ELSE [there |-> TRUE, st |-> st]

\* The loop of Run from step i on: recorded steps are skipped.
Continue(i, st, skip) ==
    LET todo == {j \in i..NSteps : StepAt(j).name \notin st.entries}
        s == StepAt(Min(todo))
        at == CASE s.type = "olm" -> IF ResolvePathRef(s) \in DOMAIN pb.paths THEN "hop" ELSE "fail"
                [] s.type = "manual" /\ ~skip -> "manual"
                [] OTHER -> "step"
    IN  IF todo = {} THEN [Idle EXCEPT !.at = "finish", !.st = st]
        ELSE [Idle EXCEPT !.at = at, !.i = Min(todo), !.st = st, !.skip = skip]

\* Where a run with these flags starts, 0 if it is refused.
ResolveResumeIndexAnywhere(resume, force, st) ==
    LET at == {i \in 1..NSteps : StepAt(i).name = resume}
    IN  IF resume = 0 THEN IF st.failed = 0 THEN 1 ELSE 0
        ELSE IF at = {} \/ (~file.there /\ ~force) THEN 0 ELSE Min(at)

ResolveResumeIndex(resume, force, st) ==
    LET at == {i \in 1..NSteps : StepAt(i).name = resume}
    IN  IF resume = 0 THEN IF st.failed = 0 THEN 1 ELSE 0
        ELSE IF at = {} \/ (~force /\ (~file.there \/ st.failed \notin {0, resume})) THEN 0
        ELSE Min(at)

LoadOrCreateState == IF file.there THEN file.st ELSE EmptyState

Start ==
    /\ run.at = "idle" /\ hist.runs < MaxRuns(pb) /\ hist.report # "complete"
    /\ \E resume \in Range(Names(pb)) \cup {0}, force, dry, shell, skip \in BOOLEAN :
          LET st == LoadOrCreateState
              refused == ~ValidatePlaybook(pb) \/ (HasShellCommands(pb) /\ ~shell)
              from == ResolveResumeIndex(resume, force, st)
          IN  IF refused \/ dry \/ from = 0
              THEN UNCHANGED <<hist, run>>
              ELSE /\ hist' = [hist EXCEPT !.runs = @ + 1, !.report = "running",
                                  !.jumped = @ \/ (resume # 0 /\ (force \/ st.failed = 0))]
                   /\ run' = Continue(from, st, skip)
    /\ UNCHANGED <<pb, file, olm, snaps>>

StepDone(fault) ==
    LET st == [run.st EXCEPT !.entries = @ \cup {Step.name}, !.failed = 0]
    IN  /\ SaveState(st, fault)
        /\ run' = Continue(run.i + 1, st, run.skip)
        /\ hist' = [Faulty(fault) EXCEPT !.ok = @ \cup {run.i}]

\* Commands with a verification, experiments, a check of the versions, a manual
\* step in CI: any of them may fail, except for a skipped one.
Execute ==
    /\ run.at = "step"
    /\ \E fault \in Faults :
          \/ /\ Step.type = "validate" =>
                   \A o \in Upgraded : Matches(o, ResolveKnowledgeDir(run.i))
             /\ StepDone(fault)
          \/ /\ Step.type = "manual" => Step.auto
             /\ run' = [run EXCEPT !.at = "fail"]
             /\ UNCHANGED <<file, hist>>
    /\ UNCHANGED <<pb, olm, snaps>>

Confirm ==
    /\ run.at = "manual" /\ \E fault \in Faults : StepDone(fault)
    /\ UNCHANGED <<pb, olm, snaps>>

Fail ==
    /\ run.at = "fail"
    /\ \E fault \in Faults :
          /\ SaveState([run.st EXCEPT !.failed = Step.name], fault)
          /\ hist' = [Faulty(fault) EXCEPT !.report = "failed", !.began = NotBegun]
    /\ run' = Idle /\ UNCHANGED <<pb, olm, snaps>>

Finish ==
    /\ run.at = "finish" /\ run' = Idle
    /\ file' = [there |-> FALSE, st |-> EmptyState]
    /\ hist' = [hist EXCEPT !.report = "complete"]
    /\ UNCHANGED <<pb, olm, snaps>>

Crash ==
    /\ run.at # "idle" /\ run' = Idle
    /\ hist' = [hist EXCEPT !.report = "crashed", !.began = NotBegun]
    /\ UNCHANGED <<pb, file, olm, snaps>>

-----------------------------------------------------------------------------
(* An OLM step: the hops that are not recorded, one after the other.        *)

NoSnapshot == [channel |-> 0, crds |-> <<>>]

\* The directory of a hop is found by the hop's index alone, whatever its
\* operator.  The channel before the first hop is not known.
AddCRDs(crds) == [o \in DOMAIN crds \cup {Op} |-> IF o = Op THEN olm[Op].crds ELSE crds[o]]

SnapshotBeforeHopAhead(k, how) ==
    snaps' = [snaps EXCEPT ![k] =
        [channel |-> IF how = "nothing" \/ k = 1 THEN @.channel ELSE Hops[k],
         crds |-> IF how = "whole" THEN AddCRDs(@.crds) ELSE @.crds]]

SnapshotBeforeHop(k, how) ==
    snaps' = [snaps EXCEPT ![k] =
        [channel |-> IF how = "nothing" \/ k = 1 THEN @.channel ELSE Hops[k - 1],
         crds |-> IF how = "whole" THEN AddCRDs(@.crds) ELSE @.crds]]

BeginHop ==
    LET left == {k \in run.hop..Len(Hops) : <<Step.name, Hops[k]>> \notin run.st.hops}
        k == Min(left)
    IN  /\ run.at = "hop" /\ left # {}
        /\ \E how \in {"whole", "channel", "nothing"} :
              /\ how # "whole" => pb.rollback /\ hist.faults < MaxFaults
              /\ IF pb.rollback THEN SnapshotBeforeHop(k, how) ELSE UNCHANGED snaps
              /\ run' = [run EXCEPT !.at = "patch", !.hop = k, !.snapped = (how = "whole")]
              /\ hist' = [Faulty(how # "whole") EXCEPT !.began = [channel |-> olm[Op].channel,
                                                                 crds |-> olm[Op].crds]]
        /\ UNCHANGED <<pb, file, olm>>

EndHops ==
    /\ run.at = "hop"
    /\ \A k \in run.hop..Len(Hops) : <<Step.name, Hops[k]>> \in run.st.hops
    /\ \E fault \in Faults : StepDone(fault)
    /\ UNCHANGED <<pb, olm, snaps>>

PatchChannel ==
    /\ run.at = "patch"
    /\ \E fault \in Faults :
          /\ olm' = IF fault THEN olm ELSE [olm EXCEPT ![Op].channel = Hops[run.hop]]
          /\ run' = [run EXCEPT !.at = IF fault THEN "fail" ELSE "open"]
          /\ hist' = Faulty(fault)
    /\ UNCHANGED <<pb, file, snaps>>

WatchUpgrade ==
    /\ run.at = "open"
    /\ \E fault \in Faults :
          /\ run' = IF fault THEN [run EXCEPT !.at = "fail"]
                    ELSE [run EXCEPT !.at = "watch", !.initial = olm[Op].installed, !.seen = FALSE, !.last = "",
                            !.settled = \/ olm[Op].current = olm[Op].installed
                                        \/ olm[Op].current = Hops[run.hop]]
          /\ hist' = Faulty(fault)
    /\ UNCHANGED <<pb, file, olm, snaps>>

\* One poll: what it makes of the Subscription, the InstallPlan and the CSV.
WatchLoop(o, w, lost) ==
    LET report(seen, last) == [w EXCEPT !.seen = seen, !.last = last,
                                 !.at = IF last \in {"Succeeded", "Failed"} THEN "judge" ELSE @]
        csv == o.csv[o.current]
    IN  IF o.current = w.initial \/ (~w.seen /\ o.plan = 0) THEN report(w.seen, "Pending")
        ELSE IF ~w.seen /\ (lost \/ o.phase \in {"RequiresApproval", "Installing"}
                                 \/ (o.manual /\ o.phase = "Failed"))
        THEN report(FALSE, "InstallPlanCreated")
        ELSE IF ~w.seen /\ o.phase = "Failed" THEN report(FALSE, "Failed")
        ELSE report(TRUE, IF lost \/ csv \in {"absent", "Installing"} THEN "Installing" ELSE csv)

Poll ==
    /\ run.at = "watch"
    /\ \E lost \in Faults :
          run' = WatchLoop(olm[Op], run, lost) /\ hist' = Faulty(lost)
    /\ UNCHANGED <<pb, file, olm, snaps>>

\* maxWait is over, or the timeout of the whole command.
WatchDeadlineNever == run.at = "watch" /\ run.last = "Succeeded" /\ UNCHANGED vars

WatchDeadline ==
    /\ run.at = "watch" /\ run' = [run EXCEPT !.at = "judge"]
    /\ UNCHANGED <<pb, file, olm, snaps, hist>>

HopSucceededUnlessFailed == run.last # "Failed"

HopSucceeded == run.last = "Succeeded"

CompleteHop ==
    /\ run.at = "judge" /\ HopSucceeded
    /\ LET st == [run.st EXCEPT !.entries = @ \cup {Step.name},
                                !.hops = @ \cup {<<Step.name, Hops[run.hop]>>}]
       IN  \E fault \in Faults :
              /\ SaveState(st, fault)
              /\ run' = [Idle EXCEPT !.at = "hop", !.i = run.i, !.skip = run.skip, !.hop = run.hop + 1, !.st = st]
              /\ hist' = [Faulty(fault) EXCEPT
                             !.sure = IF run.settled THEN @ \cup {<<Op, Hops[run.hop]>>} ELSE @,
                             !.began = NotBegun]
    /\ UNCHANGED <<pb, olm, snaps>>

\* What RollbackHop leaves of the cluster: `upto' tells where it stops.
RollbackHop(k, upto) ==
    LET snap == snaps[k]
        restored(S) == [o \in Operators |-> [olm[o] EXCEPT
                           !.channel = IF o = Op /\ snap.channel # 0 /\ upto # "channel"
                                       THEN snap.channel ELSE @,
                           !.crds = IF o \in S THEN snap.crds[o] ELSE @]]
    IN  \E S \in SUBSET DOMAIN snap.crds :
           /\ (upto = "whole") <=> (S = DOMAIN snap.crds)
           /\ upto = "channel" => S = {} /\ snap.channel # 0
           /\ olm' = restored(S)

FailHop ==
    /\ run.at = "judge" /\ ~HopSucceeded
    /\ \/ /\ ~pb.rollback
          /\ run' = [run EXCEPT !.at = "fail"] /\ UNCHANGED <<file, olm, hist>>
       \/ /\ pb.rollback
          /\ \E upto \in {"whole", "crds", "channel"}, fault \in Faults :
                /\ upto # "whole" => hist.faults < MaxFaults /\ ~fault
                /\ RollbackHop(run.hop, upto)
                /\ LET st == [run.st EXCEPT !.entries = @ \cup {Step.name}]
                   IN  SaveState(st, fault) /\ run' = [run EXCEPT !.at = "fail", !.st = st,
                                                                 !.last = IF upto = "whole" THEN "rolled back" ELSE @]
                /\ hist' = Faulty(fault \/ upto # "whole")
    /\ UNCHANGED <<pb, snaps>>

-----------------------------------------------------------------------------
Init ==
    /\ \E p \in Playbooks : pb = LoadPlaybook(p)
    /\ file = [there |-> FALSE, st |-> EmptyState]
    /\ run = Idle
    /\ olm = [o \in Operators |-> NewSubscription]
    /\ snaps = [k \in 1..Cardinality(Channels) |-> NoSnapshot]
    /\ hist = [runs |-> 0, faults |-> 0, report |-> "", ok |-> {}, jumped |-> FALSE,
               began |-> NotBegun, sure |-> {}]

Process == \/ Execute \/ Fail \/ Finish \/ BeginHop \/ EndHops \/ PatchChannel
           \/ WatchUpgrade \/ CompleteHop \/ FailHop
Environment == \E o \in Operators : \/ OLMResolve(o) \/ OLMPlan(o) \/ OLMApprove(o)
                                    \/ OLMPlanEnds(o) \/ OLMCSVEnds(o) \/ OLMInstalled(o)
Next == Start \/ Confirm \/ Crash \/ Process \/ Poll \/ WatchDeadline \/ Environment

Fairness == WF_vars(Process) /\ WF_vars(WatchDeadline)
Spec == Init /\ [][Next]_vars /\ Fairness

-----------------------------------------------------------------------------
Complete == hist.report = "complete"

\* A hop is recorded only when OLM has installed what its channel offers,
\* however polls, OLM's steps, time-outs, crashes and retries interleave; the
\* exception is a watch that starts while the Subscription still lags behind
\* the hop before.
HopsInstalled == \A h \in hist.sure : olm[h[1]].csv[h[2]] = "Succeeded"

\* Whatever was interrupted and resumed, lost or saved in between: a playbook
\* is reported complete only when each of its steps but the OLM ones has been
\* executed, unless the user has forced the resume or resumed where no failure
\* was on record.
StepsDone ==
    Complete /\ ~hist.jumped =>
        \A i \in DOMAIN pb.steps : ~IsOLM(pb.steps[i]) => i \in hist.ok

\* A playbook that ends with a check of the target version, which is the
\* default at the end, is complete only on a cluster that has the target
\* version, resumed and forced in any way.
ChecksTarget == StepAt(NSteps).type = "validate" /\ StepAt(NSteps).dir \in {"", "target"}

ValidatedUpgrade ==
    Complete /\ ChecksTarget =>
        \A o \in Upgraded : olm[o].csv[Last(pb.paths[o])] = "Succeeded"

\* A rollback that succeeds, with a snapshot that was taken, brings back the
\* channel and the CRDs of the moment its hop began; the channel before the
\* first hop is not known.
RollbackRestores ==
    [][FailHop /\ run.snapped /\ run'.last = "rolled back" =>
          /\ olm'[Op].crds = hist.began.crds
          /\ run.hop > 1 => olm'[Op].channel = hist.began.channel]_vars

\* Every run comes to an end or waits for its user, whatever OLM does.
RunReturns == []<>(run.at \in {"idle", "manual"})

\* A playbook is reported complete only when OLM has installed what every hop
\* of its OLM steps offers.
HopsCompleted ==
    Complete /\ ~hist.jumped =>
        \A i \in 1..NSteps : IsOLM(StepAt(i)) =>
            \A v \in Range(pb.paths[ResolvePathRef(StepAt(i))]) :
                olm[ResolvePathRef(StepAt(i))].csv[v] = "Succeeded"
=============================================================================
