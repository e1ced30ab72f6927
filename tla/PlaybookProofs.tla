--------------------------- MODULE PlaybookProofs ---------------------------
(***************************************************************************)
(* Proofs about Playbook, for all playbooks, operators and channels and    *)
(* any number of runs and of failing calls.                                *)
(***************************************************************************)
EXTENDS Playbook, SequencerProofs, FiniteSetTheorems, TLAPS

-----------------------------------------------------------------------------
(* The inductive invariant.  Versions are what a CSV may have, 0 included. *)

Versions == Channels \cup {0}
Subscriptions ==
    [channel : Versions, current : Versions, installed : Versions, plan : Versions,
     manual : BOOLEAN, phase : {"RequiresApproval", "Installing", "Complete", "Failed"},
     csv : [Versions -> {"absent", "Installing", "Succeeded", "Failed"}], crds : Versions]

\* OLM takes an operator up one version after the other.
Upgrading(s) ==
    /\ s.plan <= s.current
    /\ \A v \in Versions : v > s.current => s.csv[v] = "absent"
    /\ s.plan # s.current => s.csv[s.current] = "absent"
    /\ s.phase \in {"RequiresApproval", "Installing"} => s.csv[s.plan] = "absent"
    /\ s.installed = s.current => s.csv[s.current] = "Succeeded"

OlmInv == olm \in [Operators -> Subscriptions] /\ \A o \in Operators : Upgrading(olm[o])

Loaded(p) ==
    /\ p.steps \in Seq(Range(p.steps))
    /\ DOMAIN p.paths \subseteq Operators
    /\ \A o \in DOMAIN p.paths : p.paths[o] \in Seq(Channels) /\ IsInjective(p.paths[o])

StepNames == Range(Names(pb))
States == [entries : SUBSET StepNames, hops : SUBSET (StepNames \X Channels),
           failed : StepNames \cup {0}]
InHop == {"patch", "open", "watch", "judge"}
InStep == {"step", "manual", "hop", "fail"} \cup InHop

Reports == {"", "Pending", "InstallPlanCreated", "Installing", "Succeeded", "Failed",
            "rolled back"}
Files == [there : BOOLEAN, st : States]
Runs == [at : InStep \cup {"idle", "finish"}, i : Nat, st : States, skip : BOOLEAN,
         hop : Nat \ {0}, snapped : BOOLEAN, initial : Versions, settled : BOOLEAN,
         seen : BOOLEAN, last : Reports]
Outcomes == {"", "running", "failed", "crashed", "complete"}
Histories == [runs : Nat, faults : Nat, ok : SUBSET (1..NSteps), jumped : BOOLEAN,
              report : Outcomes,
              began : [channel : Versions, crds : Versions],
              sure : SUBSET (Operators \X Channels)]

TypeInv == Loaded(pb) /\ file \in Files /\ run \in Runs /\ hist \in Histories

\* Where the process stands.
PlaceInv ==
    /\ run.at # "idle" => ValidatePlaybook(pb)
    /\ run.at \in InStep => run.i \in 1..NSteps
    /\ run.at = "manual" => Step.type = "manual"
    /\ run.at \in InHop \cup {"hop"} => IsOLM(Step) /\ Op \in DOMAIN pb.paths
    /\ run.at \in InHop => run.hop \in 1..Len(Hops)

\* The steps on record, in the file or in the process, have been executed,
\* and those before the one that is being executed or has failed are on record.
Done(st) == \A i \in 1..NSteps : StepAt(i).name \in st.entries /\ ~IsOLM(StepAt(i)) => i \in hist.ok
Checked(st) ==
    ChecksTarget /\ StepAt(NSteps).name \in st.entries =>
        \A o \in Upgraded : olm[o].csv[Last(pb.paths[o])] = "Succeeded"
Before(i, st) == \A j \in 1..i - 1 : StepAt(j).name \in st.entries
FailedNext(st) ==
    st.failed # 0 => \A i \in 1..NSteps : StepAt(i).name = st.failed => Before(i, st)

\* A hop is on record with its step.
Recorded(st) == \A h \in st.hops : h[1] \in st.entries

Sound(st) ==
    Done(st) /\ Checked(st) /\ Recorded(st) /\ (~hist.jumped => FailedNext(st))

ProgressInv ==
    /\ Sound(file.st) /\ Sound(run.st)
    /\ run.at = "finish" => StepAt(NSteps).name \in run.st.entries
    /\ ~hist.jumped => /\ run.at \in InStep => Before(run.i, run.st)
                       /\ run.at = "finish" => Before(NSteps + 1, run.st)
    /\ StepsDone /\ ValidatedUpgrade

\* What the watch knows of a hop that began after the last one had settled.
Offers == Hops[run.hop]
WatchInv ==
    /\ run.at \in {"open", "watch", "judge"} => olm[Op].channel = Offers
    /\ run.at = "watch" => run.last # "Succeeded"
    /\ run.at = "watch" /\ run.settled =>
          \/ olm[Op].current = run.initial /\ olm[Op].installed = run.initial
          \/ olm[Op].current = Offers
          \/ olm[Op].csv[Offers] = "Succeeded"
    /\ run.at = "judge" /\ run.settled /\ run.last = "Succeeded" =>
          olm[Op].csv[Offers] = "Succeeded"
    /\ HopsInstalled

\* The hops of a step are made in their order, and each one's snapshot is of
\* the moment it began.
SnapshotInv ==
    /\ DOMAIN snaps = 1..Cardinality(Channels)
    /\ \A k \in DOMAIN snaps :
          /\ snaps[k] = [channel |-> snaps[k].channel, crds |-> snaps[k].crds]
          /\ snaps[k].channel \in Versions
          /\ DOMAIN snaps[k].crds \subseteq Operators
          /\ \A o \in DOMAIN snaps[k].crds : snaps[k].crds[o] \in Versions
    /\ run.at \in InHop \cup {"hop"} =>
          \A k \in 1..Len(Hops) : <<Step.name, Hops[k]>> \in run.st.hops <=> k < run.hop
    /\ run.at = "hop" /\ run.hop > 1 =>
          run.hop - 1 \in 1..Len(Hops) /\ olm[Op].channel = Hops[run.hop - 1]
    /\ run.at \in {"watch", "judge"} => run.last # "rolled back"
    /\ run.at \in InHop /\ run.snapped /\ pb.rollback =>
          /\ Op \in DOMAIN snaps[run.hop].crds
          /\ snaps[run.hop].crds[Op] = hist.began.crds
          /\ run.hop > 1 => /\ snaps[run.hop].channel = Hops[run.hop - 1]
                            /\ hist.began.channel = Hops[run.hop - 1]

PlaybookInv == OlmInv /\ TypeInv /\ PlaceInv /\ ProgressInv /\ WatchInv /\ SnapshotInv

-----------------------------------------------------------------------------
(* OLM *)

LEMMA VersionsNat == Versions \subseteq Nat /\ Channels \subseteq Versions /\ 0 \in Versions
    BY ChannelsAssumption DEF Versions

\* What a step of OLM may do to an operator: a new version is looked at when
\* the last one is installed, and what has succeeded stays so.
Moves(s, t) ==
    /\ t.channel = s.channel
    /\ \A v \in Versions : s.csv[v] = "Succeeded" => t.csv[v] = "Succeeded"
    /\ \/ t.current = s.current /\ t.installed \in {s.installed, s.current}
       \/ t.current = s.channel /\ t.installed = s.installed /\ s.current = s.installed

OLMStep(o) == \/ OLMResolve(o) \/ OLMPlan(o) \/ OLMApprove(o)
              \/ OLMPlanEnds(o) \/ OLMCSVEnds(o) \/ OLMInstalled(o)

LEMMA OLMStepMoves ==
    ASSUME OlmInv, NEW o \in Operators, OLMStep(o)
    PROVE  /\ olm' \in [Operators -> Subscriptions]
           /\ \A a \in Operators \ {o} : olm'[a] = olm[a]
           /\ Upgrading(olm'[o]) /\ Moves(olm[o], olm'[o])
           /\ UNCHANGED <<pb, file, run, snaps, hist>>
    <1> DEFINE s == olm[o]
    <1>1. s \in Subscriptions /\ Upgrading(s) /\ olm \in [Operators -> Subscriptions]
        BY DEF OlmInv
    <1>2. ASSUME NEW t, Olm(o, t), t \in Subscriptions, Upgrading(t), Moves(s, t)
          PROVE  /\ olm' \in [Operators -> Subscriptions]
                 /\ \A a \in Operators \ {o} : olm'[a] = olm[a]
                 /\ Upgrading(olm'[o]) /\ Moves(olm[o], olm'[o])
                 /\ UNCHANGED <<pb, file, run, snaps, hist>>
        <2>1. olm' = [olm EXCEPT ![o] = t] /\ UNCHANGED <<pb, file, run, snaps, hist>>
            BY <1>2 DEF Olm
        <2>2. olm'[o] = t /\ \A a \in Operators \ {o} : olm'[a] = olm[a]
            BY <1>1, <2>1
        <2>3. olm' \in [Operators -> Subscriptions]
            BY <1>1, <1>2, <2>1
        <2> QED
            BY <1>2, <2>1, <2>2, <2>3, Zenon
    <1>3. CASE OLMResolve(o)
        <2> DEFINE t == [s EXCEPT !.current = s.channel]
        <2>1. t \in Subscriptions
            BY <1>1 DEF Subscriptions
        <2>2. s.channel > s.current /\ s.current = s.installed /\ Olm(o, t)
            BY <1>3 DEF OLMResolve
        <2>3. Upgrading(t) /\ Moves(s, t)
            BY <1>1, <2>2, VersionsNat DEF Upgrading, Moves, Subscriptions
        <2> QED
            BY <1>2, <2>1, <2>2, <2>3
    <1>4. CASE OLMPlan(o)
        <2>1. PICK manual \in BOOLEAN :
                Olm(o, [s EXCEPT !.plan = s.current, !.manual = manual,
                                 !.phase = IF manual THEN "RequiresApproval" ELSE "Installing"])
            BY <1>4 DEF OLMPlan
        <2> DEFINE t == [s EXCEPT !.plan = s.current, !.manual = manual,
                                  !.phase = IF manual THEN "RequiresApproval" ELSE "Installing"]
        <2>2. t \in Subscriptions
            BY <1>1 DEF Subscriptions
        <2>3. s.plan # s.current
            BY <1>4 DEF OLMPlan
        <2>4. Upgrading(t) /\ Moves(s, t)
            BY <1>1, <2>3, VersionsNat DEF Upgrading, Moves, Subscriptions
        <2> QED
            BY <1>2, <2>1, <2>2, <2>4
    <1>5. CASE OLMApprove(o)
        <2> DEFINE t == [s EXCEPT !.phase = "Installing"]
        <2>1. t \in Subscriptions
            BY <1>1 DEF Subscriptions
        <2>2. s.phase = "RequiresApproval" /\ Olm(o, t)
            BY <1>5 DEF OLMApprove
        <2>3. Upgrading(t) /\ Moves(s, t)
            BY <1>1, <2>2, VersionsNat DEF Upgrading, Moves, Subscriptions
        <2> QED
            BY <1>2, <2>1, <2>2, <2>3
    <1>6. CASE OLMPlanEnds(o)
        <2>1. s.phase = "Installing"
            BY <1>6 DEF OLMPlanEnds
        <2>2. CASE Olm(o, [s EXCEPT !.phase = "Failed"])
            <3> DEFINE t == [s EXCEPT !.phase = "Failed"]
            <3>1. t \in Subscriptions
                BY <1>1 DEF Subscriptions
            <3>2. Upgrading(t) /\ Moves(s, t)
                BY <1>1, VersionsNat DEF Upgrading, Moves, Subscriptions
            <3> QED
                BY <1>2, <2>2, <3>1, <3>2
        <2>3. CASE Olm(o, [s EXCEPT !.phase = "Complete", !.csv[s.plan] = "Installing",
                                    !.crds = s.plan])
            <3> DEFINE c == [s.csv EXCEPT ![s.plan] = "Installing"]
                       t == [s EXCEPT !.phase = "Complete", !.csv = c, !.crds = s.plan]
            <3>1. Olm(o, t)
                BY <2>3
            <3>2. s.plan \in Versions /\ s.csv[s.plan] = "absent"
                BY <1>1, <2>1 DEF Upgrading, Subscriptions
            <3>3. /\ c \in [Versions -> {"absent", "Installing", "Succeeded", "Failed"}]
                  /\ c[s.plan] = "Installing" /\ \A v \in Versions \ {s.plan} : c[v] = s.csv[v]
                BY <1>1, <3>2 DEF Subscriptions
            <3> HIDE DEF c
            <3>4. t \in Subscriptions
                BY <1>1, <3>2, <3>3 DEF Subscriptions
            <3>5. s.current \in Versions /\ s.plan <= s.current
                BY <1>1 DEF Subscriptions, Upgrading
            <3>6. Upgrading(t) /\ Moves(s, t)
                BY <1>1, <3>2, <3>3, <3>5, VersionsNat DEF Upgrading, Moves, Subscriptions
            <3> QED
                BY <1>2, <3>1, <3>4, <3>6
        <2> QED
            BY <1>6, <2>2, <2>3 DEF OLMPlanEnds
    <1>7. CASE OLMCSVEnds(o)
        <2>1. s.csv[s.current] = "Installing"
            BY <1>7 DEF OLMCSVEnds
        <2>2. PICK phase \in {"Succeeded", "Failed"} : Olm(o, [s EXCEPT !.csv[s.current] = phase])
            BY <1>7 DEF OLMCSVEnds
        <2> DEFINE c == [s.csv EXCEPT ![s.current] = phase]
                   t == [s EXCEPT !.csv = c]
        <2>3. Olm(o, t)
            BY <2>2
        <2>4. s.current \in Versions
            BY <1>1 DEF Subscriptions
        <2>5. /\ c \in [Versions -> {"absent", "Installing", "Succeeded", "Failed"}]
              /\ c[s.current] = phase /\ \A v \in Versions \ {s.current} : c[v] = s.csv[v]
            BY <1>1, <2>4 DEF Subscriptions
        <2> HIDE DEF c
        <2>6. t \in Subscriptions
            BY <1>1, <2>5 DEF Subscriptions
        <2>7. Upgrading(t) /\ Moves(s, t)
            BY <1>1, <2>1, <2>4, <2>5, VersionsNat DEF Upgrading, Moves, Subscriptions
        <2> QED
            BY <1>2, <2>3, <2>6, <2>7
    <1>8. CASE OLMInstalled(o)
        <2> DEFINE t == [s EXCEPT !.installed = s.current]
        <2>1. t \in Subscriptions
            BY <1>1 DEF Subscriptions
        <2>2. s.csv[s.current] = "Succeeded" /\ Olm(o, t)
            BY <1>8 DEF OLMInstalled
        <2>3. Upgrading(t) /\ Moves(s, t)
            BY <1>1, <2>2, VersionsNat DEF Upgrading, Moves, Subscriptions
        <2> QED
            BY <1>2, <2>1, <2>2, <2>3
    <1> QED
        BY <1>3, <1>4, <1>5, <1>6, <1>7, <1>8 DEF OLMStep

-----------------------------------------------------------------------------
(* What the other steps keep *)

\* The last channel of a path is one.
LEMMA LastChannel ==
    ASSUME TypeInv, NEW o \in Upgraded
    PROVE  o \in Operators /\ Last(pb.paths[o]) \in Channels
    <1>1. o \in Operators /\ pb.paths[o] \in Seq(Channels) /\ pb.paths[o] # <<>>
        BY DEF Upgraded, TypeInv, Loaded
    <1> DEFINE s == pb.paths[o]
    <1> HIDE DEF s
    <1>2. s \in Seq(Channels) /\ s # <<>> => s[Len(s)] \in Channels
        OBVIOUS
    <1> QED
        BY <1>1, <1>2 DEF Last, s

\* Nothing that has succeeded is taken back.
Kept == \A o \in Operators, v \in Versions :
            olm[o].csv[v] = "Succeeded" => olm'[o].csv[v] = "Succeeded"

LEMMA SoundKept ==
    ASSUME TypeInv, Kept, pb' = pb, hist.ok \subseteq hist'.ok, hist.jumped => hist'.jumped,
           NEW st, Sound(st)
    PROVE  Sound(st)'
    <1>1. Done(st)'
        BY DEF Sound, Done, NSteps, StepAt
    <1>2. Checked(st)'
        <2>1. \A o \in Upgraded : o \in Operators /\ Last(pb.paths[o]) \in Versions
            BY LastChannel, VersionsNat
        <2> QED
            BY <2>1 DEF Sound, Checked, ChecksTarget, Kept, NSteps, StepAt, Upgraded
    <1>3. Recorded(st)' /\ (~hist'.jumped => FailedNext(st)')
        BY DEF Sound, Recorded, FailedNext, Before, NSteps, StepAt
    <1> QED
        BY <1>1, <1>2, <1>3 DEF Sound

\* Nor is what was reported.
LEMMA ReportKept ==
    ASSUME PlaybookInv, Kept, pb' = pb, hist.ok \subseteq hist'.ok, hist.jumped => hist'.jumped,
           hist'.report = "complete" => hist.report = "complete"
    PROVE  StepsDone' /\ ValidatedUpgrade'
    <1>1. StepsDone /\ ValidatedUpgrade /\ TypeInv
        BY DEF PlaybookInv, ProgressInv
    <1>2. \A o \in Upgraded : o \in Operators /\ Last(pb.paths[o]) \in Versions
        BY <1>1, LastChannel, VersionsNat
    <1>3. StepsDone'
        BY <1>1 DEF StepsDone, Complete, StepAt
    <1>4. ValidatedUpgrade'
        BY <1>1, <1>2 DEF ValidatedUpgrade, Complete, ChecksTarget, Kept, NSteps, StepAt, Upgraded
    <1> QED
        BY <1>3, <1>4

LEMMA InstalledKept ==
    ASSUME PlaybookInv, Kept, hist'.sure = hist.sure
    PROVE  HopsInstalled'
    <1>1. HopsInstalled /\ hist.sure \subseteq Operators \X Channels
        BY DEF PlaybookInv, TypeInv, WatchInv, Histories
    <1>2. ASSUME NEW h \in hist.sure PROVE olm'[h[1]].csv[h[2]] = "Succeeded"
        <2>1. h[1] \in Operators /\ h[2] \in Versions
            BY <1>1, VersionsNat
        <2> QED
            BY <1>1, <2>1 DEF HopsInstalled, Kept
    <1> QED
        BY <1>2 DEF HopsInstalled

\* The operator and the path of an OLM step.
LEMMA OLMStepPath ==
    ASSUME TypeInv, PlaceInv, run.at \in InHop \cup {"hop"}
    PROVE  /\ Op \in DOMAIN pb.paths /\ Op \in Operators
           /\ Hops \in Seq(Channels) /\ IsInjective(Hops) /\ IsOLM(Step)
           /\ run.at \in InHop => Offers \in Channels
    <1>1. Op \in DOMAIN pb.paths /\ IsOLM(Step)
        BY DEF PlaceInv
    <1>2. Op \in Operators /\ Hops \in Seq(Channels) /\ IsInjective(Hops)
        BY <1>1 DEF TypeInv, Loaded, Hops
    <1>3. ASSUME run.at \in InHop PROVE Offers \in Channels
        <2>1. run.hop \in 1..Len(Hops)
            BY <1>3 DEF PlaceInv
        <2>2. \A s \in Seq(Channels) : \A k \in 1..Len(s) : s[k] \in Channels
            OBVIOUS
        <2> QED
            BY <1>2, <2>1, <2>2 DEF Offers
    <1> QED
        BY <1>1, <1>2, <1>3

LEMMA StatesSame ==
    ASSUME pb' = pb
    PROVE  /\ States' = States /\ StepNames' = StepNames /\ NSteps' = NSteps
           /\ Files' = Files /\ Runs' = Runs /\ Histories' = Histories
           /\ Upgraded' = Upgraded /\ ChecksTarget' = ChecksTarget
    BY DEF States, StepNames, Names, NSteps, Upgraded, ChecksTarget, StepAt, Files, Runs, Histories

LEMMA PlaceSame ==
    ASSUME pb' = pb, run' = run
    PROVE  /\ PlaceInv' = PlaceInv
           /\ Op' = Op /\ Hops' = Hops /\ Offers' = Offers /\ Step' = Step
    BY DEF PlaceInv, Op, Hops, Offers, Step, StepAt, ResolvePathRef, NSteps

LEMMA UnchangedInv ==
    ASSUME PlaybookInv, UNCHANGED vars
    PROVE  PlaybookInv'
    <1>1. UNCHANGED <<pb, file, run, olm, snaps, hist>>
        BY DEF vars
    <1>2. TypeInv' /\ PlaceInv'
        BY <1>1, PlaceSame, StatesSame DEF PlaybookInv, TypeInv
    <1>3. OlmInv' /\ SnapshotInv' /\ WatchInv'
        BY <1>1, PlaceSame DEF PlaybookInv, OlmInv, SnapshotInv, WatchInv, HopsInstalled
    <1>4. ProgressInv'
        <2>1. Sound(file.st)' /\ Sound(run.st)'
            BY <1>1 DEF PlaybookInv, ProgressInv, Sound, Done, Checked, ChecksTarget, Recorded,
               FailedNext, Before, NSteps, StepAt, Upgraded
        <2> QED
            BY <1>1, <2>1 DEF PlaybookInv, ProgressInv, StepsDone, ValidatedUpgrade, Complete,
               ChecksTarget, Before, NSteps, StepAt, Upgraded
    <1> QED
        BY <1>2, <1>3, <1>4 DEF PlaybookInv

LEMMA OLMStepInv ==
    ASSUME PlaybookInv, NEW o \in Operators, OLMStep(o)
    PROVE  PlaybookInv'
    <1>1. /\ OlmInv /\ TypeInv /\ PlaceInv /\ ProgressInv /\ WatchInv /\ SnapshotInv
        BY DEF PlaybookInv
    <1>2. /\ olm' \in [Operators -> Subscriptions]
          /\ \A a \in Operators \ {o} : olm'[a] = olm[a]
          /\ Upgrading(olm'[o]) /\ Moves(olm[o], olm'[o])
          /\ UNCHANGED <<pb, file, run, snaps, hist>>
        BY <1>1, OLMStepMoves
    <1>3. Kept /\ \A a \in Operators : olm'[a].channel = olm[a].channel
        BY <1>2 DEF Kept, Moves
    <1>4. OlmInv'
        BY <1>1, <1>2 DEF OlmInv
    <1>5. TypeInv' /\ PlaceInv'
        BY <1>1, <1>2, PlaceSame, StatesSame DEF TypeInv
    <1>6. ProgressInv'
        <2>1. Sound(file.st)' /\ Sound(run.st)'
            <3>1. file'.st = file.st /\ run'.st = run.st
                BY <1>2
            <3>2. \A st : Sound(st) => Sound(st)'
                BY <1>1, <1>2, <1>3, SoundKept
            <3> QED
                BY <1>1, <3>1, <3>2 DEF ProgressInv
        <2> QED
            BY <1>1, <1>2, <1>3, <2>1, ReportKept DEF ProgressInv, NSteps, StepAt, Before
    <1>7. WatchInv'
        <2>1. HopsInstalled'
            BY <1>2, <1>3, InstalledKept
        <2>2. Op' = Op /\ Hops' = Hops /\ Offers' = Offers
            BY <1>2, PlaceSame
        <2>3. CASE run.at \in {"open", "watch", "judge"}
            <3>1. Op \in Operators /\ Offers \in Versions
                BY <1>1, <2>3, OLMStepPath, VersionsNat DEF InHop
            <3>2. CASE Op # o
                BY <1>1, <1>2, <2>1, <2>2, <3>1, <3>2 DEF WatchInv
            <3>3. CASE Op = o
                <4>1. olm[o].installed = olm[o].current => olm[o].csv[olm[o].current] = "Succeeded"
                    BY <1>1 DEF OlmInv, Upgrading
                <4> QED
                    BY <1>1, <1>2, <2>1, <2>2, <3>1, <3>3, <4>1 DEF WatchInv, Moves
            <3> QED
                BY <3>2, <3>3
        <2>4. CASE run.at \notin {"open", "watch", "judge"}
            BY <1>2, <2>1, <2>4 DEF WatchInv
        <2> QED
            BY <2>3, <2>4
    <1>8. SnapshotInv'
        <2>1. Op' = Op /\ Hops' = Hops /\ Step' = Step
            BY <1>2, PlaceSame
        <2>2. run.at \in InHop \cup {"hop"} => Op \in Operators
            BY <1>1 DEF TypeInv, PlaceInv, Loaded
        <2> QED
            BY <1>1, <1>2, <1>3, <2>1, <2>2 DEF SnapshotInv
    <1> QED
        BY <1>4, <1>5, <1>6, <1>7, <1>8 DEF PlaybookInv

-----------------------------------------------------------------------------
(* The loop over the steps *)

LEMMA StepsOf ==
    ASSUME TypeInv
    PROVE  /\ NSteps \in Nat /\ DOMAIN pb.steps = 1..NSteps
           /\ ValidatePlaybook(pb) => NSteps > 0 /\ IsInjective(Names(pb))
           /\ \A i \in 1..NSteps : StepAt(i).name \in StepNames
    <1>1. pb.steps \in Seq(Range(pb.steps))
        BY DEF TypeInv, Loaded
    <1> DEFINE s == pb.steps
               R == Range(pb.steps)
    <1> HIDE DEF s, R
    <1>2. s \in Seq(R) => /\ Len(s) \in Nat /\ DOMAIN s = 1..Len(s)
                          /\ s # <<>> => Len(s) > 0
        OBVIOUS
    <1>3. NSteps \in Nat /\ DOMAIN pb.steps = 1..NSteps /\ (pb.steps # <<>> => NSteps > 0)
        BY <1>1, <1>2 DEF NSteps, s, R
    <1>4. ValidatePlaybook(pb) => pb.steps # <<>> /\ IsInjective(Names(pb))
        BY DEF ValidatePlaybook, ValidateSteps
    <1>5. \A i \in 1..NSteps : StepAt(i).name \in StepNames
        BY <1>3 DEF StepAt, StepNames, Names, Range
    <1> QED
        BY <1>3, <1>4, <1>5

\* In a valid playbook a name stands for one step.
LEMMA OneName ==
    ASSUME TypeInv, ValidatePlaybook(pb), NEW i \in 1..NSteps, NEW j \in 1..NSteps,
           StepAt(i).name = StepAt(j).name
    PROVE  i = j
    BY StepsOf DEF IsInjective, Names, StepAt

\* Where Run gets to from step i on.
Arrives(r, i, st) ==
    /\ r \in Runs /\ r.st = st /\ r.hop = 1
    /\ \/ r.at = "finish" /\ \A j \in i..NSteps : StepAt(j).name \in st.entries
       \/ /\ r.at \in {"step", "manual", "hop", "fail"} /\ r.i \in i..NSteps
          /\ StepAt(r.i).name \notin st.entries
          /\ \A j \in i..r.i - 1 : StepAt(j).name \in st.entries
          /\ r.at = "manual" => StepAt(r.i).type = "manual"
          /\ r.at = "hop" => IsOLM(StepAt(r.i)) /\ ResolvePathRef(StepAt(r.i)) \in DOMAIN pb.paths

LEMMA IdleFields ==
    /\ Idle = [at |-> "idle", i |-> 0, st |-> EmptyState, skip |-> FALSE, hop |-> 1,
               snapped |-> FALSE, initial |-> 0, settled |-> FALSE, seen |-> FALSE, last |-> ""]
    /\ EmptyState \in States /\ Idle \in Runs
    <1>1. EmptyState \in States
        BY DEF EmptyState, States
    <1> HIDE DEF EmptyState
    <1>2. "idle" \in InStep \cup {"idle", "finish"} /\ 0 \in Versions /\ 1 \in Nat \ {0}
        BY VersionsNat
    <1>3. Idle \in Runs
        BY <1>1, <1>2 DEF Idle, Runs, Reports
    <1> QED
        BY <1>1, <1>3 DEF Idle

LEMMA ContinueArrives ==
    ASSUME TypeInv, NEW st \in States, NEW i \in 1..NSteps + 1, NEW skip \in BOOLEAN
    PROVE  Arrives(Continue(i, st, skip), i, st)
    <1> DEFINE todo == {j \in i..NSteps : StepAt(j).name \notin st.entries}
               m == Min(todo)
               s == StepAt(m)
               at == CASE s.type = "olm" -> IF ResolvePathRef(s) \in DOMAIN pb.paths THEN "hop" ELSE "fail"
                       [] s.type = "manual" /\ ~skip -> "manual"
                       [] OTHER -> "step"
    <1>1. NSteps \in Nat
        BY StepsOf
    <1>2. CASE todo = {}
        <2> DEFINE r == [Idle EXCEPT !.at = "finish", !.st = st]
        <2>1. Continue(i, st, skip) = r
            BY <1>2, Zenon DEF Continue
        <2>2. r \in Runs /\ r.st = st /\ r.hop = 1 /\ r.at = "finish"
            BY IdleFields DEF Runs
        <2> QED
            BY <1>2, <2>1, <2>2, Zenon DEF Arrives
    <1>3. CASE todo # {}
        <2> DEFINE r == [Idle EXCEPT !.at = at, !.i = m, !.st = st, !.skip = skip]
        <2>1. Continue(i, st, skip) = r
            BY <1>3, Zenon DEF Continue
        <2>2. todo \in SUBSET Nat
            BY <1>1
        <2>3. m \in todo /\ \A j \in todo : m <= j
            BY <1>3, <2>2, MinOf
        <2>4. m \in i..NSteps /\ m \in Nat /\ s.name \notin st.entries
            BY <1>1, <2>3
        <2>5. \A j \in i..m - 1 : StepAt(j).name \in st.entries
            BY <1>1, <2>3, <2>4
        <2>6. /\ at \in {"step", "manual", "hop", "fail"}
              /\ at = "manual" => s.type = "manual"
              /\ at = "hop" => IsOLM(s) /\ ResolvePathRef(s) \in DOMAIN pb.paths
            BY DEF IsOLM
        <2> HIDE DEF at, m
        <2>7. /\ r \in Runs /\ r.st = st /\ r.hop = 1 /\ r.at = at /\ r.i = m
            BY <2>4, <2>6, IdleFields DEF Runs, InStep
        <2> HIDE DEF r
        <2> QED
            BY <2>1, <2>4, <2>5, <2>6, <2>7 DEF Arrives
    <1> QED
        BY <1>2, <1>3

\* What holds wherever the loop gets to.
LEMMA ArriveInv ==
    ASSUME PlaybookInv, UNCHANGED <<pb, olm, snaps>>, ValidatePlaybook(pb),
           file' \in Files, hist' \in Histories, Sound(file.st)',
           hist.ok \subseteq hist'.ok, hist.jumped => hist'.jumped, hist'.sure = hist.sure,
           hist'.report = "complete" => hist.report = "complete"
    PROVE  \A st \in States, i \in 1..NSteps + 1 :
              /\ Sound(st)' /\ (~hist'.jumped => Before(i, st))
              /\ i = NSteps + 1 => StepAt(NSteps).name \in st.entries
              /\ Arrives(run', i, st)
              => PlaybookInv'
    <1> SUFFICES ASSUME NEW st \in States, NEW i \in 1..NSteps + 1,
                        Sound(st)', ~hist'.jumped => Before(i, st),
                        i = NSteps + 1 => StepAt(NSteps).name \in st.entries,
                        Arrives(run', i, st)
                 PROVE  PlaybookInv'
        OBVIOUS
    <1>1. /\ OlmInv /\ TypeInv /\ PlaceInv /\ ProgressInv /\ WatchInv /\ SnapshotInv
        BY DEF PlaybookInv
    <1>2. NSteps \in Nat /\ NSteps > 0
        BY <1>1, StepsOf
    <1>3. Kept
        BY DEF Kept
    <1>4. /\ Step' = StepAt(run'.i) /\ Op' = ResolvePathRef(StepAt(run'.i)) /\ NSteps' = NSteps
          /\ \A j : StepAt(j)' = StepAt(j)
        BY DEF Step, StepAt, Op, ResolvePathRef, NSteps
    <1>5. run' \in Runs /\ run'.st = st /\ run'.hop = 1
        BY DEF Arrives
    <1>6. OlmInv'
        BY <1>1 DEF OlmInv
    <1>7. TypeInv'
        BY <1>1, <1>5, StatesSame DEF TypeInv
    <1>8. Sound(run.st)' /\ HopsInstalled' /\ StepsDone' /\ ValidatedUpgrade'
        BY <1>3, <1>5, ReportKept, InstalledKept
    <1>9. Recorded(st)
        BY DEF Sound, Recorded
    <1>10. CASE run'.at = "finish" /\ \A j \in i..NSteps : StepAt(j).name \in st.entries
        <2>1. StepAt(NSteps).name \in st.entries
            BY <1>2, <1>10
        <2>2. ~hist'.jumped => Before(NSteps + 1, st)
            BY <1>2, <1>10 DEF Before
        <2>3. PlaceInv'
            BY <1>10 DEF PlaceInv, InStep, InHop
        <2>4. ProgressInv'
            BY <1>4, <1>5, <1>8, <1>10, <2>1, <2>2 DEF ProgressInv, InStep, InHop, Before
        <2>5. WatchInv'
            BY <1>8, <1>10 DEF WatchInv
        <2>6. SnapshotInv'
            BY <1>1, <1>10 DEF SnapshotInv, InHop
        <2> QED
            BY <1>6, <1>7, <2>3, <2>4, <2>5, <2>6 DEF PlaybookInv
    <1>11. CASE /\ run'.at \in {"step", "manual", "hop", "fail"} /\ run'.i \in i..NSteps
                /\ StepAt(run'.i).name \notin st.entries
                /\ \A j \in i..run'.i - 1 : StepAt(j).name \in st.entries
                /\ run'.at = "manual" => StepAt(run'.i).type = "manual"
                /\ run'.at = "hop" => /\ IsOLM(StepAt(run'.i))
                                      /\ ResolvePathRef(StepAt(run'.i)) \in DOMAIN pb.paths
        <2>1. ~hist'.jumped => Before(run'.i, st)
            BY <1>2, <1>11 DEF Before
        <2>2. run'.i \in 1..NSteps
            BY <1>2, <1>11
        <2>3. PlaceInv'
            BY <1>4, <1>11, <2>2 DEF PlaceInv, InStep, InHop
        <2>4. ProgressInv'
            BY <1>4, <1>5, <1>8, <1>11, <2>1 DEF ProgressInv, Before
        <2>5. WatchInv'
            BY <1>8, <1>11 DEF WatchInv
        <2>6. SnapshotInv'
            <3>1. ASSUME NEW c PROVE <<StepAt(run'.i).name, c>> \notin st.hops
                BY <1>9, <1>11 DEF Recorded
            <3>2. \A k \in 1..Len(Hops') : ~(k < run'.hop)
                BY <1>5
            <3>3. \A k \in 1..Len(Hops') :
                     <<Step'.name, Hops'[k]>> \in run'.st.hops <=> k < run'.hop
                BY <1>4, <1>5, <3>1, <3>2
            <3>4. ~(run'.hop > 1)
                BY <1>5
            <3> QED
                BY <1>1, <1>11, <3>3, <3>4 DEF SnapshotInv, InHop
        <2> QED
            BY <1>6, <1>7, <2>3, <2>4, <2>5, <2>6 DEF PlaybookInv
    <1> QED
        BY <1>10, <1>11 DEF Arrives

\* The record that is loaded or created.
LEMMA LoadedState ==
    ASSUME PlaybookInv
    PROVE  /\ LoadOrCreateState \in States /\ Sound(LoadOrCreateState)
           /\ LoadOrCreateState.failed # 0 => LoadOrCreateState = file.st
    <1>1. Sound(EmptyState) /\ EmptyState.failed = 0
        BY DEF EmptyState, Sound, Done, Checked, Recorded, FailedNext
    <1> QED
        BY <1>1, IdleFields DEF LoadOrCreateState, PlaybookInv, TypeInv, ProgressInv, Files

LEMMA StartInv ==
    ASSUME PlaybookInv, Start
    PROVE  PlaybookInv'
    <1> DEFINE st == LoadOrCreateState
    <1>0. TypeInv /\ PlaceInv /\ WatchInv /\ SnapshotInv
        BY DEF PlaybookInv
    <1>1. PICK resume \in Range(Names(pb)) \cup {0}, force \in BOOLEAN, dry \in BOOLEAN,
               shell \in BOOLEAN, skip \in BOOLEAN :
            LET refused == ~ValidatePlaybook(pb) \/ (HasShellCommands(pb) /\ ~shell)
                from == ResolveResumeIndex(resume, force, st)
            IN  IF refused \/ dry \/ from = 0
                THEN UNCHANGED <<hist, run>>
                ELSE /\ hist' = [hist EXCEPT !.runs = @ + 1, !.report = "running",
                                    !.jumped = @ \/ (resume # 0 /\ (force \/ st.failed = 0))]
                     /\ run' = Continue(from, st, skip)
        BY Zenon DEF Start
    <1>2. UNCHANGED <<pb, file, olm, snaps>>
        BY DEF Start
    <1> DEFINE from == ResolveResumeIndex(resume, force, st)
               jumps == resume # 0 /\ (force \/ st.failed = 0)
    <1>3. CASE UNCHANGED <<hist, run>>
        <2>1. UNCHANGED vars
            BY <1>2, <1>3 DEF vars
        <2> QED
            BY <2>1, UnchangedInv
    <1>4. CASE /\ ValidatePlaybook(pb) /\ from # 0
               /\ hist' = [hist EXCEPT !.runs = @ + 1, !.report = "running",
                                       !.jumped = @ \/ jumps]
               /\ run' = Continue(from, st, skip)
        <2>1. NSteps \in Nat /\ NSteps > 0
            BY <1>0, <1>4, StepsOf
        <2>2. hist \in Histories
            BY <1>0 DEF TypeInv
        <2>14. hist.runs + 1 \in Nat
            BY <2>2 DEF Histories
        <2>3. PICK j \in BOOLEAN, n \in Nat :
                /\ hist' = [hist EXCEPT !.runs = n, !.report = "running", !.jumped = j]
                /\ j <=> hist.jumped \/ jumps
            BY <1>4, <2>14
        <2>17. "running" \in Outcomes
            BY DEF Outcomes
        <2>4. /\ hist' \in Histories
              /\ hist'.ok = hist.ok /\ hist'.sure = hist.sure /\ hist'.report = "running"
              /\ hist'.jumped = j
            BY <2>2, <2>3, <2>17 DEF Histories
        <2>12. ~hist'.jumped => ~hist.jumped /\ ~jumps
            BY <2>3, <2>4
        <2>13. hist.jumped => hist'.jumped
            BY <2>3, <2>4
        <2>5. st \in States /\ Sound(st) /\ (st.failed # 0 => st = file.st)
            BY LoadedState
        <2>6. Kept
            BY <1>2 DEF Kept
        <2>7. \A s : Sound(s) => Sound(s)'
            BY <1>0, <1>2, <2>4, <2>6, <2>13, SoundKept
        <2>8. Sound(file.st)' /\ file' \in Files'
            <3>1. Sound(file.st) /\ file'.st = file.st
                BY <1>2 DEF PlaybookInv, ProgressInv
            <3> QED
                BY <1>0, <1>2, <2>7, <3>1, StatesSame DEF TypeInv
        <2>9. from \in 1..NSteps /\ (~hist'.jumped => Before(from, st))
            <3> DEFINE at == {i \in 1..NSteps : StepAt(i).name = resume}
            <3>1. CASE resume = 0
                <4>1. from = 1
                    BY <1>4, <3>1 DEF ResolveResumeIndex
                <4> QED
                    BY <2>1, <4>1 DEF Before
            <3>2. CASE resume # 0
                <4>1. at # {} /\ from = Min(at)
                    BY <1>4, <3>2 DEF ResolveResumeIndex
                <4>2. force \/ st.failed \in {0, resume}
                    BY <1>4, <3>2 DEF ResolveResumeIndex
                <4>3. at \in SUBSET Nat
                    BY <2>1
                <4>4. from \in at
                    BY <4>1, <4>3, MinOf
                <4>5. ASSUME ~hist'.jumped PROVE Before(from, st)
                    <5>1. st.failed = resume /\ ~hist.jumped
                        BY <2>12, <3>2, <4>2, <4>5
                    <5> QED
                        BY <2>5, <3>2, <4>4, <5>1 DEF Sound, FailedNext
                <4> QED
                    BY <4>4, <4>5
            <3> QED
                BY <3>1, <3>2
        <2>10. Arrives(run', from, st)
            BY <1>0, <1>4, <2>1, <2>5, <2>9, ContinueArrives
        <2>11. PICK s \in States, i \in 1..NSteps + 1 : s = st /\ i = from
            BY <2>1, <2>5, <2>9
        <2>15. /\ Sound(s)' /\ (~hist'.jumped => Before(i, s)) /\ Arrives(run', i, s)
               /\ i = NSteps + 1 => StepAt(NSteps).name \in s.entries
            BY <2>1, <2>5, <2>7, <2>9, <2>10, <2>11
        <2>16. file' \in Files /\ hist' \in Histories
            BY <1>2, <2>4, <2>8, StatesSame
        <2> HIDE DEF from, st
        <2> QED
            BY <1>2, <1>4, <2>4, <2>8, <2>13, <2>15, <2>16, ArriveInv
    <1> QED
        BY <1>1, <1>3, <1>4

LEMMA FaultyHistory ==
    ASSUME TypeInv, NEW fault \in BOOLEAN
    PROVE  /\ Faulty(fault) \in Histories
           /\ Faulty(fault).ok = hist.ok /\ Faulty(fault).sure = hist.sure
           /\ Faulty(fault).jumped = hist.jumped /\ Faulty(fault).report = hist.report
           /\ Faulty(fault).began = hist.began
    <1>1. hist \in Histories
        BY DEF TypeInv
    <1>2. hist.faults \in Nat /\ hist.faults + 1 \in Nat
        BY <1>1 DEF Histories
    <1>3. PICK n \in Nat : Faulty(fault) = [hist EXCEPT !.faults = n]
        BY <1>2 DEF Faulty
    <1> QED
        BY <1>1, <1>3 DEF Histories

\* The file holds what it held or what is saved.
LEMMA SavedFile ==
    ASSUME TypeInv, NEW fault \in BOOLEAN, Sound(file.st), \A s : Sound(s) => Sound(s)'
    PROVE  \A st \in States : SaveState(st, fault) /\ Sound(st)' =>
              file' \in Files /\ Sound(file.st)'
    <1> SUFFICES ASSUME NEW st \in States, SaveState(st, fault), Sound(st)'
                 PROVE  file' \in Files /\ Sound(file.st)'
        OBVIOUS
    <1>1. CASE file' = file
        BY <1>1 DEF TypeInv
    <1>2. CASE file' = [there |-> TRUE, st |-> st]
        BY <1>2 DEF Files
    <1> QED
        BY <1>1, <1>2 DEF SaveState

\* A step that fails.  What is left of it in the process does not matter.
LEMMA FailsInv ==
    ASSUME PlaybookInv, run.at \in InStep, UNCHANGED <<pb, snaps, file, olm>>,
           run' \in Runs, run'.at = "fail", run'.i = run.i, run'.st = run.st,
           hist' \in Histories, hist'.ok = hist.ok, hist'.sure = hist.sure,
           hist'.jumped = hist.jumped, hist'.report = hist.report
    PROVE  PlaybookInv'
    <1>1. /\ OlmInv /\ TypeInv /\ PlaceInv /\ ProgressInv /\ WatchInv /\ SnapshotInv
        BY DEF PlaybookInv
    <1>2. Kept
        BY DEF Kept
    <1>3. OlmInv' /\ TypeInv'
        BY <1>1, StatesSame DEF OlmInv, TypeInv
    <1>4. PlaceInv'
        BY <1>1, StatesSame DEF PlaceInv, InStep, InHop
    <1>5. HopsInstalled' /\ StepsDone' /\ ValidatedUpgrade'
        BY <1>2, ReportKept, InstalledKept
    <1>6. \A s : Sound(s) => Sound(s)'
        BY <1>1, <1>2, SoundKept
    <1>7. ProgressInv'
        BY <1>1, <1>5, <1>6 DEF ProgressInv, InStep, InHop, Before, StepAt
    <1>8. WatchInv' /\ SnapshotInv'
        BY <1>1, <1>5 DEF WatchInv, SnapshotInv, InHop
    <1> QED
        BY <1>3, <1>4, <1>7, <1>8 DEF PlaybookInv

\* A step that is done is recorded.
LEMMA StepDoneInv ==
    ASSUME PlaybookInv, run.at \in {"step", "manual", "hop"}, NEW fault \in BOOLEAN,
           StepDone(fault), UNCHANGED <<pb, olm, snaps>>,
           run.i = NSteps /\ ChecksTarget =>
               \A o \in Upgraded : olm[o].csv[Last(pb.paths[o])] = "Succeeded"
    PROVE  PlaybookInv'
    <1>1. /\ TypeInv /\ PlaceInv /\ ProgressInv /\ ValidatePlaybook(pb)
          /\ Sound(file.st) /\ Sound(run.st)
        BY DEF PlaybookInv, PlaceInv, ProgressInv
    <1>2. /\ run.i \in 1..NSteps /\ NSteps \in Nat /\ Step.name \in StepNames
          /\ Step = StepAt(run.i) /\ run.st \in States /\ run.skip \in BOOLEAN
        BY <1>1, StepsOf DEF PlaceInv, InStep, Step, TypeInv, Runs
    <1>3. ~hist.jumped => Before(run.i, run.st)
        BY <1>1 DEF ProgressInv, InStep
    <1> DEFINE F == Faulty(fault)
    <1>4. hist' = [F EXCEPT !.ok = F.ok \cup {run.i}]
        BY DEF StepDone
    <1>5. /\ F \in Histories /\ F.ok = hist.ok /\ F.sure = hist.sure
          /\ F.jumped = hist.jumped /\ F.report = hist.report
        BY <1>1, FaultyHistory
    <1> HIDE DEF F
    <1>6. F.ok \cup {run.i} \in SUBSET (1..NSteps)
        BY <1>2, <1>5 DEF Histories
    <1>7. /\ hist' \in Histories /\ hist'.ok = hist.ok \cup {run.i} /\ hist'.sure = hist.sure
          /\ hist'.jumped = hist.jumped /\ hist'.report = hist.report
        BY <1>4, <1>5, <1>6 DEF Histories
    <1>8. Kept
        BY DEF Kept
    <1>9. \A s : Sound(s) => Sound(s)'
        BY <1>1, <1>7, <1>8, SoundKept
    <1>10. PICK st \in States :
             /\ st = [run.st EXCEPT !.entries = run.st.entries \cup {Step.name}, !.failed = 0]
             /\ SaveState(st, fault) /\ run' = Continue(run.i + 1, st, run.skip)
        <2> DEFINE s == [run.st EXCEPT !.entries = run.st.entries \cup {Step.name}, !.failed = 0]
        <2>1. s \in States
            BY <1>2 DEF States
        <2>2. SaveState(s, fault) /\ run' = Continue(run.i + 1, s, run.skip)
            BY DEF StepDone
        <2> HIDE DEF s
        <2>3. \E t \in States : t = s
            BY <2>1
        <2> QED
            BY <2>1, <2>2 DEF s
    <1>11. /\ st.entries = run.st.entries \cup {Step.name} /\ st.failed = 0
           /\ st.hops = run.st.hops
        BY <1>2, <1>10 DEF States
    <1>12. \A j \in 1..NSteps : StepAt(j).name = Step.name => j = run.i
        BY <1>1, <1>2, OneName
    <1>13. Sound(st)'
        <2>1. Sound(run.st)
            BY <1>1
        <2>2. Done(st)'
            BY <1>7, <1>11, <1>12, <2>1 DEF Sound, Done, NSteps, StepAt
        <2>3. Checked(st)
            <3>1. NSteps > 0 /\ NSteps \in 1..NSteps
                BY <1>1, <1>2
            <3>2. StepAt(NSteps).name \in st.entries =>
                     StepAt(NSteps).name \in run.st.entries \/ run.i = NSteps
                BY <1>11, <1>12, <3>1
            <3> QED
                BY <2>1, <3>2 DEF Sound, Checked
        <2>4. Checked(st)'
            BY <2>3 DEF Checked, ChecksTarget, Upgraded, NSteps, StepAt
        <2>5. Recorded(st)' /\ FailedNext(st)'
            BY <1>11, <2>1 DEF Sound, Recorded, FailedNext
        <2> QED
            BY <2>2, <2>4, <2>5 DEF Sound
    <1>14. file' \in Files /\ Sound(file.st)'
        BY <1>1, <1>9, <1>10, <1>13, SavedFile
    <1>15. ~hist'.jumped => Before(run.i + 1, st)
        BY <1>2, <1>3, <1>7, <1>11 DEF Before
    <1>16. run.i + 1 \in 1..NSteps + 1
        BY <1>2
    <1>17. run.i + 1 = NSteps + 1 => StepAt(NSteps).name \in st.entries
        BY <1>2, <1>11
    <1>18. Arrives(run', run.i + 1, st)
        BY <1>1, <1>2, <1>10, <1>16, ContinueArrives
    <1>19. hist.ok \subseteq hist'.ok
        BY <1>7
    <1> QED
        BY <1>1, <1>7, <1>13, <1>14, <1>15, <1>16, <1>17, <1>18, <1>19, ArriveInv

LEMMA ExecuteInv ==
    ASSUME PlaybookInv, Execute
    PROVE  PlaybookInv'
    <1>1. run.at = "step" /\ UNCHANGED <<pb, olm, snaps>>
        BY DEF Execute
    <1>2. TypeInv /\ NSteps \in Nat
        BY StepsOf DEF PlaybookInv
    <1>3. PICK fault \in Faults :
             \/ /\ Step.type = "validate" =>
                      \A o \in Upgraded : Matches(o, ResolveKnowledgeDir(run.i))
                /\ StepDone(fault)
             \/ run' = [run EXCEPT !.at = "fail"] /\ UNCHANGED <<file, hist>>
        BY DEF Execute
    <1>4. fault \in BOOLEAN
        BY DEF Faults
    <1>5. CASE /\ Step.type = "validate" =>
                     \A o \in Upgraded : Matches(o, ResolveKnowledgeDir(run.i))
               /\ StepDone(fault)
        <2>1. ASSUME run.i = NSteps, ChecksTarget
              PROVE  \A o \in Upgraded : olm[o].csv[Last(pb.paths[o])] = "Succeeded"
            <3> DEFINE hops == {j \in 1..NSteps : IsOLM(StepAt(j))}
            <3>1. Step = StepAt(run.i) /\ Step.type = "validate" /\ Step.dir \in {"", "target"}
                BY <2>1 DEF ChecksTarget, Step
            <3>2. hops # {} => Min(hops) \in 1..NSteps
                <4>1. hops \in SUBSET Nat
                    OBVIOUS
                <4> QED
                    BY <4>1, MinOf
            <3>3. ~(hops # {} /\ run.i < Min(hops))
                BY <1>2, <2>1, <3>2
            <3>4. ResolveKnowledgeDir(run.i) = "target"
                BY <3>1, <3>3 DEF ResolveKnowledgeDir
            <3> QED
                BY <1>5, <3>1, <3>4 DEF Matches
        <2> QED
            BY <1>1, <1>4, <1>5, <2>1, StepDoneInv
    <1>6. CASE run' = [run EXCEPT !.at = "fail"] /\ UNCHANGED <<file, hist>>
        <2>1. run' \in Runs /\ run'.at = "fail" /\ run'.i = run.i /\ run'.st = run.st
            BY <1>2, <1>6 DEF TypeInv, Runs, InStep
        <2> QED
            BY <1>1, <1>2, <1>6, <2>1, FailsInv DEF TypeInv, InStep
    <1> QED
        BY <1>3, <1>5, <1>6

LEMMA ConfirmInv ==
    ASSUME PlaybookInv, Confirm
    PROVE  PlaybookInv'
    <1>1. run.at = "manual" /\ UNCHANGED <<pb, olm, snaps>>
        BY DEF Confirm
    <1>2. PICK fault \in BOOLEAN : StepDone(fault)
        BY DEF Confirm, Faults
    <1>3. run.i = NSteps => ~ChecksTarget
        BY <1>1 DEF PlaybookInv, PlaceInv, ChecksTarget, Step
    <1> QED
        BY <1>1, <1>2, <1>3, StepDoneInv

LEMMA EndHopsInv ==
    ASSUME PlaybookInv, EndHops
    PROVE  PlaybookInv'
    <1>1. run.at = "hop" /\ UNCHANGED <<pb, olm, snaps>>
        BY DEF EndHops
    <1>2. PICK fault \in BOOLEAN : StepDone(fault)
        BY DEF EndHops, Faults
    <1>3. run.i = NSteps => ~ChecksTarget
        BY <1>1 DEF PlaybookInv, PlaceInv, ChecksTarget, Step, IsOLM
    <1> QED
        BY <1>1, <1>2, <1>3, StepDoneInv

\* A process that is gone.
LEMMA IdleInv ==
    ASSUME PlaybookInv, UNCHANGED <<pb, snaps, olm>>, run' = Idle,
           file' \in Files, Sound(file.st)', StepsDone', ValidatedUpgrade',
           hist' \in Histories, hist'.ok = hist.ok, hist'.sure = hist.sure,
           hist'.jumped = hist.jumped
    PROVE  PlaybookInv'
    <1>1. /\ OlmInv /\ TypeInv /\ PlaceInv /\ ProgressInv /\ WatchInv /\ SnapshotInv
        BY DEF PlaybookInv
    <1>2. run'.at = "idle" /\ run'.st = EmptyState /\ run' \in Runs
        BY IdleFields
    <1>3. OlmInv' /\ TypeInv'
        BY <1>1, <1>2, StatesSame DEF OlmInv, TypeInv
    <1>4. Sound(run.st)'
        BY <1>2 DEF EmptyState, Sound, Done, Checked, Recorded, FailedNext
    <1>5. HopsInstalled'
        <2>1. Kept
            BY DEF Kept
        <2> QED
            BY <2>1, InstalledKept
    <1>6. PlaceInv' /\ ProgressInv' /\ WatchInv' /\ SnapshotInv'
        BY <1>1, <1>2, <1>4, <1>5 DEF PlaceInv, ProgressInv, WatchInv, SnapshotInv, InStep, InHop
    <1> QED
        BY <1>3, <1>6 DEF PlaybookInv

LEMMA FailInv ==
    ASSUME PlaybookInv, Fail
    PROVE  PlaybookInv'
    <1>1. /\ TypeInv /\ PlaceInv /\ ProgressInv /\ ValidatePlaybook(pb)
          /\ Sound(file.st) /\ Sound(run.st)
        BY DEF PlaybookInv, PlaceInv, ProgressInv, Fail
    <1>2. run.at = "fail" /\ run' = Idle /\ UNCHANGED <<pb, olm, snaps>>
        BY DEF Fail
    <1>3. PICK fault \in BOOLEAN :
             /\ SaveState([run.st EXCEPT !.failed = Step.name], fault)
             /\ hist' = [Faulty(fault) EXCEPT !.report = "failed", !.began = NotBegun]
        BY DEF Fail, Faults
    <1>4. /\ run.i \in 1..NSteps /\ NSteps \in Nat /\ Step.name \in StepNames
          /\ Step = StepAt(run.i) /\ run.st \in States
        BY <1>1, <1>2, StepsOf DEF PlaceInv, InStep, Step, TypeInv, Runs
    <1> DEFINE F == Faulty(fault)
    <1>5. /\ F \in Histories /\ F.ok = hist.ok /\ F.sure = hist.sure /\ F.jumped = hist.jumped
        BY <1>1, FaultyHistory
    <1>6. hist' = [F EXCEPT !.report = "failed", !.began = NotBegun]
        BY <1>3
    <1>7. NotBegun \in [channel : Versions, crds : Versions] /\ "failed" \in Outcomes
        BY VersionsNat DEF NotBegun, Outcomes
    <1> HIDE DEF F
    <1>8. /\ hist' \in Histories /\ hist'.ok = hist.ok /\ hist'.sure = hist.sure
          /\ hist'.jumped = hist.jumped /\ hist'.report = "failed"
        BY <1>5, <1>6, <1>7 DEF Histories
    <1>9. Kept
        BY <1>2 DEF Kept
    <1>10. \A s : Sound(s) => Sound(s)'
        BY <1>1, <1>2, <1>8, <1>9, SoundKept
    <1>11. PICK st \in States :
             st = [run.st EXCEPT !.failed = Step.name] /\ SaveState(st, fault)
        BY <1>3, <1>4 DEF States
    <1>12. st.entries = run.st.entries /\ st.failed = Step.name /\ st.hops = run.st.hops
        BY <1>4, <1>11 DEF States
    <1>13. Sound(st)
        <2>1. \A j \in 1..NSteps : StepAt(j).name = Step.name => j = run.i
            BY <1>1, <1>4, OneName
        <2>2. ~hist.jumped => Before(run.i, st)
            BY <1>1, <1>2, <1>12 DEF ProgressInv, Before, InStep
        <2>3. ~hist.jumped => FailedNext(st)
            BY <1>12, <2>1, <2>2 DEF FailedNext
        <2> QED
            BY <1>1, <1>12, <2>3 DEF Sound, Done, Checked, Recorded
    <1>14. file' \in Files /\ Sound(file.st)'
        BY <1>1, <1>10, <1>11, <1>13, SavedFile
    <1>15. StepsDone' /\ ValidatedUpgrade'
        BY <1>8 DEF StepsDone, ValidatedUpgrade, Complete
    <1> QED
        BY <1>2, <1>8, <1>14, <1>15, IdleInv

LEMMA FinishInv ==
    ASSUME PlaybookInv, Finish
    PROVE  PlaybookInv'
    <1>1. TypeInv /\ PlaceInv /\ ProgressInv /\ ValidatePlaybook(pb) /\ Sound(run.st)
        BY DEF PlaybookInv, PlaceInv, ProgressInv, Finish
    <1>2. /\ run.at = "finish" /\ run' = Idle /\ UNCHANGED <<pb, olm, snaps>>
          /\ file' = [there |-> FALSE, st |-> EmptyState]
          /\ hist' = [hist EXCEPT !.report = "complete"]
        BY DEF Finish
    <1>3. /\ hist' \in Histories /\ hist'.ok = hist.ok /\ hist'.sure = hist.sure
          /\ hist'.jumped = hist.jumped
        <2>1. hist \in Histories /\ "complete" \in Outcomes
            BY <1>1 DEF TypeInv, Outcomes
        <2> QED
            BY <1>2, <2>1 DEF Histories
    <1>4. file' \in Files /\ file'.st = EmptyState
        BY <1>2, IdleFields DEF Files
    <1>5. Sound(file.st)'
        BY <1>4 DEF EmptyState, Sound, Done, Checked, Recorded, FailedNext
    <1>6. NSteps \in Nat /\ NSteps > 0 /\ DOMAIN pb.steps = 1..NSteps
        BY <1>1, StepsOf
    <1>7. StepsDone'
        <2>1. ~hist.jumped => \A i \in 1..NSteps : StepAt(i).name \in run.st.entries
            BY <1>1, <1>2, <1>6 DEF ProgressInv, Before
        <2> QED
            BY <1>1, <1>2, <1>3, <1>6, <2>1 DEF StepsDone, Sound, Done, StepAt
    <1>8. ValidatedUpgrade'
        BY <1>1, <1>2 DEF ValidatedUpgrade, ProgressInv, Sound, Checked, ChecksTarget, Upgraded,
           NSteps, StepAt
    <1> QED
        BY <1>2, <1>3, <1>4, <1>5, <1>7, <1>8, IdleInv

LEMMA CrashInv ==
    ASSUME PlaybookInv, Crash
    PROVE  PlaybookInv'
    <1>1. TypeInv /\ Sound(file.st)
        BY DEF PlaybookInv, ProgressInv
    <1>2. /\ run' = Idle /\ UNCHANGED <<pb, olm, snaps, file>>
          /\ hist' = [hist EXCEPT !.report = "crashed", !.began = NotBegun]
        BY DEF Crash
    <1>3. NotBegun \in [channel : Versions, crds : Versions] /\ "crashed" \in Outcomes
        BY VersionsNat DEF NotBegun, Outcomes
    <1>4. /\ hist' \in Histories /\ hist'.ok = hist.ok /\ hist'.sure = hist.sure
          /\ hist'.jumped = hist.jumped /\ hist'.report = "crashed"
        BY <1>1, <1>2, <1>3 DEF TypeInv, Histories
    <1>5. Kept
        BY <1>2 DEF Kept
    <1>6. Sound(file.st)' /\ file' \in Files
        <2>1. \A s : Sound(s) => Sound(s)'
            BY <1>1, <1>2, <1>4, <1>5, SoundKept
        <2> QED
            BY <1>1, <1>2, <2>1 DEF TypeInv
    <1>7. StepsDone' /\ ValidatedUpgrade'
        BY <1>4 DEF StepsDone, ValidatedUpgrade, Complete
    <1> QED
        BY <1>2, <1>4, <1>6, <1>7, IdleInv

-----------------------------------------------------------------------------
(* The hops *)

\* A path that comes back to no channel is not longer than they are many, so
\* each of its hops has a snapshot directory.
LEMMA PathBound ==
    ASSUME NEW s \in Seq(Channels), IsInjective(s)
    PROVE  1..Len(s) \subseteq 1..Cardinality(Channels)
    <1> DEFINE n == Len(s)
    <1>1. n \in Nat /\ s \in [1..n -> Channels]
        OBVIOUS
    <1>2. IsFiniteSet(1..n) /\ Cardinality(1..n) = n
        BY <1>1, FS_Interval
    <1>3. IsFiniteSet(Channels) /\ Cardinality(Channels) \in Nat
        BY ChannelsAssumption, FS_CardinalityType
    <1>4. ASSUME Cardinality(Channels) < n PROVE FALSE
        <2>1. \E x, y \in 1..n : x # y /\ s[x] = s[y]
            BY <1>1, <1>2, <1>3, <1>4, FS_PigeonHole, Zenon
        <2> QED
            BY <1>1, <2>1 DEF IsInjective
    <1> QED
        BY <1>1, <1>3, <1>4

LEMMA HopSame ==
    ASSUME pb' = pb, run'.i = run.i
    PROVE  Step' = Step /\ Op' = Op /\ Hops' = Hops
    BY DEF Step, StepAt, Op, Hops, ResolvePathRef

\* A step of the hop that saves nothing.
LEMMA HopStepInv ==
    ASSUME PlaybookInv, run.at \in InHop \cup {"hop"}, UNCHANGED <<pb, file>>, Kept,
           run' \in Runs, run'.at \in InHop \cup {"fail"}, run'.i = run.i, run'.st = run.st,
           run'.at \in InHop => run'.hop \in 1..Len(Hops),
           hist' \in Histories, hist'.ok = hist.ok, hist'.sure = hist.sure,
           hist'.jumped = hist.jumped, hist'.report = hist.report
    PROVE  /\ TypeInv' /\ PlaceInv' /\ ProgressInv' /\ HopsInstalled'
           /\ Step' = Step /\ Op' = Op /\ Hops' = Hops
    <1>1. /\ TypeInv /\ PlaceInv /\ ProgressInv
        BY DEF PlaybookInv
    <1>2. TypeInv'
        BY <1>1, StatesSame DEF TypeInv
    <1>3. Step' = Step /\ Op' = Op /\ Hops' = Hops
        BY HopSame
    <1>4. PlaceInv'
        BY <1>1, <1>3, StatesSame DEF PlaceInv, InStep, InHop
    <1>5. HopsInstalled' /\ StepsDone' /\ ValidatedUpgrade'
        BY ReportKept, InstalledKept
    <1>6. \A s : Sound(s) => Sound(s)'
        BY <1>1, SoundKept
    <1>7. ProgressInv'
        BY <1>1, <1>5, <1>6 DEF ProgressInv, InStep, InHop, Before, StepAt
    <1> QED
        BY <1>2, <1>3, <1>4, <1>5, <1>7

\* The hops on record are the first ones of the path.
LEMMA NextHop ==
    ASSUME PlaybookInv, run.at = "hop",
           {k \in run.hop..Len(Hops) : <<Step.name, Hops[k]>> \notin run.st.hops} # {}
    PROVE  /\ run.hop \in 1..Len(Hops)
           /\ Min({k \in run.hop..Len(Hops) : <<Step.name, Hops[k]>> \notin run.st.hops}) = run.hop
    <1> DEFINE left == {k \in run.hop..Len(Hops) : <<Step.name, Hops[k]>> \notin run.st.hops}
    <1>1. Len(Hops) \in Nat /\ run.hop \in Nat \ {0}
        <2>1. Hops \in Seq(Channels) /\ run \in Runs
            BY OLMStepPath DEF PlaybookInv, TypeInv
        <2> QED
            BY <2>1 DEF Runs
    <1>2. PICK k \in left : TRUE
        OBVIOUS
    <1>3. run.hop \in 1..Len(Hops)
        BY <1>1, <1>2
    <1>4. run.hop \in left
        <2>1. \A j \in 1..Len(Hops) : <<Step.name, Hops[j]>> \in run.st.hops <=> j < run.hop
            BY DEF PlaybookInv, SnapshotInv
        <2> QED
            BY <1>1, <1>3, <2>1
    <1>5. Min(left) \in left /\ Min(left) <= run.hop
        <2>1. left \in SUBSET Nat
            BY <1>1
        <2> QED
            BY <1>4, <2>1, MinOf
    <1> QED
        BY <1>1, <1>3, <1>5

LEMMA BeginHopInv ==
    ASSUME PlaybookInv, BeginHop
    PROVE  PlaybookInv'
    <1> DEFINE left == {j \in run.hop..Len(Hops) : <<Step.name, Hops[j]>> \notin run.st.hops}
    <1>1. /\ OlmInv /\ TypeInv /\ PlaceInv /\ SnapshotInv
        BY DEF PlaybookInv
    <1>2. run.at = "hop" /\ left # {} /\ UNCHANGED <<pb, file, olm>>
        BY DEF BeginHop
    <1> DEFINE k == run.hop
    <1>3. k \in 1..Len(Hops) /\ Min(left) = k
        BY <1>2, NextHop
    <1>4. PICK how \in {"whole", "channel", "nothing"} :
             /\ IF pb.rollback THEN SnapshotBeforeHop(Min(left), how) ELSE UNCHANGED snaps
             /\ run' = [run EXCEPT !.at = "patch", !.hop = Min(left), !.snapped = (how = "whole")]
             /\ hist' = [Faulty(how # "whole") EXCEPT !.began = [channel |-> olm[Op].channel,
                                                                crds |-> olm[Op].crds]]
        BY DEF BeginHop
    <1> HIDE DEF left
    <1>5. /\ Op \in Operators /\ Hops \in Seq(Channels) /\ IsInjective(Hops)
        BY <1>1, <1>2, OLMStepPath
    <1>6. olm[Op] \in Subscriptions
        BY <1>1, <1>5 DEF OlmInv
    <1>7. /\ run' \in Runs /\ run'.at = "patch" /\ run'.i = run.i /\ run'.st = run.st
          /\ run'.hop = k /\ run'.snapped = (how = "whole")
        <2>1. PICK b \in BOOLEAN : b = (how = "whole")
            OBVIOUS
        <2>2. run' = [run EXCEPT !.at = "patch", !.hop = k, !.snapped = b]
            BY <1>3, <1>4, <2>1
        <2> QED
            BY <1>1, <1>3, <2>1, <2>2 DEF TypeInv, Runs, InStep, InHop
    <1>8. /\ hist' \in Histories /\ hist'.ok = hist.ok /\ hist'.sure = hist.sure
          /\ hist'.jumped = hist.jumped /\ hist'.report = hist.report
          /\ hist'.began = [channel |-> olm[Op].channel, crds |-> olm[Op].crds]
        <2> DEFINE F == Faulty(how # "whole")
        <2>1. /\ F \in Histories /\ F.ok = hist.ok /\ F.sure = hist.sure
              /\ F.jumped = hist.jumped /\ F.report = hist.report
            BY <1>1, FaultyHistory
        <2>2. [channel |-> olm[Op].channel, crds |-> olm[Op].crds]
                 \in [channel : Versions, crds : Versions]
            BY <1>6 DEF Subscriptions
        <2>3. hist' = [F EXCEPT !.began = [channel |-> olm[Op].channel, crds |-> olm[Op].crds]]
            BY <1>4
        <2> HIDE DEF F
        <2> QED
            BY <2>1, <2>2, <2>3 DEF Histories
    <1>9. /\ TypeInv' /\ PlaceInv' /\ ProgressInv' /\ HopsInstalled'
          /\ Step' = Step /\ Op' = Op /\ Hops' = Hops
        <2>1. Kept
            BY <1>2 DEF Kept
        <2>2. run'.at \in InHop /\ run'.hop \in 1..Len(Hops)
            BY <1>3, <1>7 DEF InHop
        <2> QED
            BY <1>2, <1>7, <1>8, <2>1, <2>2, HopStepInv
    <1>10. OlmInv'
        BY <1>1, <1>2 DEF OlmInv
    <1>11. WatchInv'
        BY <1>7, <1>9 DEF WatchInv
    <1>12. k \in DOMAIN snaps
        BY <1>1, <1>3, <1>5, PathBound DEF SnapshotInv
    <1>13. k > 1 => k - 1 \in 1..Len(Hops) /\ olm[Op].channel = Hops[k - 1]
        BY <1>1, <1>2 DEF SnapshotInv
    <1>14. ASSUME pb.rollback
           PROVE  \E c \in Versions : \E d :
                     /\ snaps' = [snaps EXCEPT ![k] = [channel |-> c, crds |-> d]]
                     /\ DOMAIN d \subseteq Operators /\ \A o \in DOMAIN d : d[o] \in Versions
                     /\ how = "whole" => /\ Op \in DOMAIN d /\ d[Op] = olm[Op].crds
                                         /\ k > 1 => c = Hops[k - 1]
        <2> DEFINE c == IF how = "nothing" \/ k = 1 THEN snaps[k].channel ELSE Hops[k - 1]
                   e == snaps[k].crds
                   d == IF how = "whole" THEN AddCRDs(e) ELSE e
        <2>1. snaps' = [snaps EXCEPT ![k] = [channel |-> c, crds |-> d]]
            BY <1>3, <1>4, <1>14, Zenon DEF SnapshotBeforeHop
        <2>2. /\ snaps[k].channel \in Versions
              /\ DOMAIN e \subseteq Operators /\ \A o \in DOMAIN e : e[o] \in Versions
            BY <1>1, <1>12 DEF SnapshotInv
        <2>3. k > 1 => Hops[k - 1] \in Versions
            <3>1. olm[Op].channel \in Versions
                BY <1>6 DEF Subscriptions
            <3> QED
                BY <1>13, <3>1
        <2>4. c \in Versions /\ (how = "whole" /\ k > 1 => c = Hops[k - 1])
            BY <1>3, <2>2, <2>3
        <2> HIDE DEF c, e
        <2>5. /\ DOMAIN AddCRDs(e) \subseteq Operators
              /\ \A o \in DOMAIN AddCRDs(e) : AddCRDs(e)[o] \in Versions
              /\ Op \in DOMAIN AddCRDs(e) /\ AddCRDs(e)[Op] = olm[Op].crds
            BY <1>5, <1>6, <2>2 DEF AddCRDs, Subscriptions
        <2>6. /\ DOMAIN d \subseteq Operators /\ \A o \in DOMAIN d : d[o] \in Versions
              /\ how = "whole" => Op \in DOMAIN d /\ d[Op] = olm[Op].crds
            BY <2>2, <2>5
        <2> HIDE DEF d
        <2> QED
            BY <2>1, <2>4, <2>6
    <1>15. SnapshotInv'
        <2>1. \A j \in 1..Len(Hops) : <<Step.name, Hops[j]>> \in run.st.hops <=> j < k
            BY <1>1, <1>2 DEF SnapshotInv
        <2>2. CASE pb.rollback
            <3>0. PICK c \in Versions : \E d :
                     /\ snaps' = [snaps EXCEPT ![k] = [channel |-> c, crds |-> d]]
                     /\ DOMAIN d \subseteq Operators /\ \A o \in DOMAIN d : d[o] \in Versions
                     /\ how = "whole" => /\ Op \in DOMAIN d /\ d[Op] = olm[Op].crds
                                         /\ k > 1 => c = Hops[k - 1]
                BY <1>14, <2>2, Zenon
            <3>1. PICK d :
                     /\ snaps' = [snaps EXCEPT ![k] = [channel |-> c, crds |-> d]]
                     /\ DOMAIN d \subseteq Operators /\ \A o \in DOMAIN d : d[o] \in Versions
                     /\ how = "whole" => /\ Op \in DOMAIN d /\ d[Op] = olm[Op].crds
                                         /\ k > 1 => c = Hops[k - 1]
                BY <3>0, Zenon
            <3>2. DOMAIN snaps' = DOMAIN snaps /\ \A j \in DOMAIN snaps \ {k} : snaps'[j] = snaps[j]
                BY <3>1
            <3>3. /\ snaps'[k] = [channel |-> c, crds |-> d]
                  /\ snaps'[k].channel = c /\ snaps'[k].crds = d
                BY <1>12, <3>1
            <3>4. \A j \in DOMAIN snaps' :
                     /\ snaps'[j] = [channel |-> snaps'[j].channel, crds |-> snaps'[j].crds]
                     /\ snaps'[j].channel \in Versions
                     /\ DOMAIN snaps'[j].crds \subseteq Operators
                     /\ \A o \in DOMAIN snaps'[j].crds : snaps'[j].crds[o] \in Versions
                <4>1. ASSUME NEW j \in DOMAIN snaps', j = k
                      PROVE  /\ snaps'[j] = [channel |-> snaps'[j].channel, crds |-> snaps'[j].crds]
                             /\ snaps'[j].channel \in Versions
                             /\ DOMAIN snaps'[j].crds \subseteq Operators
                             /\ \A o \in DOMAIN snaps'[j].crds : snaps'[j].crds[o] \in Versions
                    BY <3>1, <3>3, <4>1, Zenon
                <4>2. ASSUME NEW j \in DOMAIN snaps', j # k
                      PROVE  /\ snaps'[j] = [channel |-> snaps'[j].channel, crds |-> snaps'[j].crds]
                             /\ snaps'[j].channel \in Versions
                             /\ DOMAIN snaps'[j].crds \subseteq Operators
                             /\ \A o \in DOMAIN snaps'[j].crds : snaps'[j].crds[o] \in Versions
                    <5>1. j \in DOMAIN snaps /\ snaps'[j] = snaps[j]
                        BY <3>2, <4>2
                    <5> QED
                        BY <1>1, <5>1, Zenon DEF SnapshotInv
                <4> QED
                    BY <4>1, <4>2
            <3>5. how = "whole" =>
                     /\ Op \in DOMAIN snaps'[k].crds /\ snaps'[k].crds[Op] = hist'.began.crds
                     /\ k > 1 => /\ snaps'[k].channel = Hops[k - 1]
                                 /\ hist'.began.channel = Hops[k - 1]
                <4>1. hist'.began.crds = olm[Op].crds /\ hist'.began.channel = olm[Op].channel
                    BY <1>8
                <4> QED
                    BY <1>13, <3>1, <3>3, <4>1
            <3>6. run'.at # "hop" /\ run'.at \notin {"watch", "judge"}
                BY <1>7
            <3>7. DOMAIN snaps' = 1..Cardinality(Channels)
                BY <1>1, <3>2 DEF SnapshotInv
            <3> QED
                BY <1>2, <1>7, <1>9, <2>1, <3>4, <3>5, <3>6, <3>7 DEF SnapshotInv
        <2>3. CASE ~pb.rollback
            <3>1. snaps' = snaps /\ pb' = pb
                BY <1>2, <1>4, <2>3
            <3> QED
                BY <1>1, <1>7, <1>9, <2>1, <2>3, <3>1 DEF SnapshotInv
        <2> QED
            BY <2>2, <2>3
    <1> QED
        BY <1>9, <1>10, <1>11, <1>15 DEF PlaybookInv

\* A step of the hop that leaves its snapshot alone.
LEMMA HopSnapshotInv ==
    ASSUME PlaybookInv, run.at \in InHop, UNCHANGED <<pb, snaps>>,
           run'.at \in InHop \cup {"fail"}, run'.i = run.i, run'.st = run.st,
           run'.hop = run.hop, run'.snapped = run.snapped, hist'.began = hist.began,
           run'.at \in {"watch", "judge"} => run'.last # "rolled back"
    PROVE  SnapshotInv'
    <1>1. Step' = Step /\ Op' = Op /\ Hops' = Hops
        <2>1. pb' = pb /\ run'.i = run.i
            OBVIOUS
        <2> QED
            BY <2>1, HopSame
    <1>2. SnapshotInv
        BY DEF PlaybookInv
    <1>3. /\ DOMAIN snaps' = 1..Cardinality(Channels)
          /\ \A k \in DOMAIN snaps' :
                /\ snaps'[k] = [channel |-> snaps'[k].channel, crds |-> snaps'[k].crds]
                /\ snaps'[k].channel \in Versions
                /\ DOMAIN snaps'[k].crds \subseteq Operators
                /\ \A o \in DOMAIN snaps'[k].crds : snaps'[k].crds[o] \in Versions
        <2>1. snaps' = snaps
            OBVIOUS
        <2> QED
            BY <1>2, <2>1, Zenon DEF SnapshotInv
    <1>4. \A k \in 1..Len(Hops) : <<Step.name, Hops[k]>> \in run.st.hops <=> k < run.hop
        BY <1>2 DEF SnapshotInv
    <1>5. run.snapped /\ pb.rollback =>
             /\ Op \in DOMAIN snaps[run.hop].crds
             /\ snaps[run.hop].crds[Op] = hist.began.crds
             /\ run.hop > 1 => /\ snaps[run.hop].channel = Hops[run.hop - 1]
                               /\ hist.began.channel = Hops[run.hop - 1]
        BY <1>2 DEF SnapshotInv
    <1>6. run'.at # "hop"
        BY DEF InHop
    <1>7. \A k \in 1..Len(Hops') : <<Step'.name, Hops'[k]>> \in run'.st.hops <=> k < run'.hop
        BY <1>1, <1>4
    <1>8. run'.snapped /\ pb'.rollback =>
             /\ Op' \in DOMAIN snaps'[run'.hop].crds
             /\ snaps'[run'.hop].crds[Op'] = hist'.began.crds
             /\ run'.hop > 1 => /\ snaps'[run'.hop].channel = Hops'[run'.hop - 1]
                                /\ hist'.began.channel = Hops'[run'.hop - 1]
        BY <1>1, <1>5
    <1> QED
        BY <1>3, <1>6, <1>7, <1>8, Zenon DEF SnapshotInv

\* The channel and the CRDs are all that the process ever changes.
LEMMA OlmWritten ==
    ASSUME OlmInv, olm' \in [Operators -> Subscriptions],
           \A o \in Operators : /\ olm'[o].current = olm[o].current
                                /\ olm'[o].installed = olm[o].installed
                                /\ olm'[o].plan = olm[o].plan
                                /\ olm'[o].phase = olm[o].phase /\ olm'[o].csv = olm[o].csv
    PROVE  OlmInv' /\ Kept
    <1>1. ASSUME NEW o \in Operators PROVE Upgrading(olm'[o])
        <2>1. Upgrading(olm[o])
            BY DEF OlmInv
        <2> QED
            BY <2>1, Zenon DEF Upgrading
    <1> QED
        BY <1>1 DEF OlmInv, Kept

LEMMA PatchChannelInv ==
    ASSUME PlaybookInv, PatchChannel
    PROVE  PlaybookInv'
    <1>1. /\ OlmInv /\ TypeInv /\ PlaceInv
        BY DEF PlaybookInv
    <1>2. run.at = "patch" /\ UNCHANGED <<pb, file, snaps>>
        BY DEF PatchChannel
    <1>3. PICK fault \in BOOLEAN :
             /\ olm' = IF fault THEN olm ELSE [olm EXCEPT ![Op].channel = Hops[run.hop]]
             /\ run' = [run EXCEPT !.at = IF fault THEN "fail" ELSE "open"]
             /\ hist' = Faulty(fault)
        BY DEF PatchChannel, Faults
    <1>4. Op \in Operators /\ Offers \in Versions /\ run.hop \in 1..Len(Hops)
        BY <1>1, <1>2, OLMStepPath, VersionsNat DEF InHop, PlaceInv
    <1>5. /\ olm' \in [Operators -> Subscriptions]
          /\ \A o \in Operators : /\ olm'[o].current = olm[o].current
                                  /\ olm'[o].installed = olm[o].installed
                                  /\ olm'[o].plan = olm[o].plan
                                  /\ olm'[o].phase = olm[o].phase /\ olm'[o].csv = olm[o].csv
          /\ ~fault => olm'[Op].channel = Offers
        <2>1. CASE fault
            BY <1>1, <1>3, <2>1 DEF OlmInv
        <2>2. CASE ~fault
            <3> DEFINE s == olm[Op]
                       t == [s EXCEPT !.channel = Offers]
            <3>1. olm' = [olm EXCEPT ![Op] = t] /\ olm \in [Operators -> Subscriptions]
                BY <1>1, <1>3, <2>2 DEF OlmInv, Offers
            <3>2. s \in Subscriptions
                BY <1>4, <3>1
            <3>3. /\ t \in Subscriptions /\ t.channel = Offers /\ t.current = s.current
                  /\ t.installed = s.installed /\ t.plan = s.plan /\ t.phase = s.phase
                  /\ t.csv = s.csv
                BY <1>4, <3>2 DEF Subscriptions
            <3> HIDE DEF t
            <3> QED
                BY <1>4, <3>1, <3>3
        <2> QED
            BY <2>1, <2>2
    <1>6. OlmInv' /\ Kept
        BY <1>1, <1>5, OlmWritten
    <1>7. /\ run' \in Runs /\ run'.at = (IF fault THEN "fail" ELSE "open") /\ run'.i = run.i
          /\ run'.st = run.st /\ run'.hop = run.hop /\ run'.snapped = run.snapped
        <2>1. PICK at \in {"fail", "open"} : at = IF fault THEN "fail" ELSE "open"
            OBVIOUS
        <2>2. run' = [run EXCEPT !.at = at]
            BY <1>3, <2>1
        <2> QED
            BY <1>1, <2>1, <2>2 DEF TypeInv, Runs, InStep, InHop
    <1>8. /\ hist' \in Histories /\ hist'.ok = hist.ok /\ hist'.sure = hist.sure
          /\ hist'.jumped = hist.jumped /\ hist'.report = hist.report /\ hist'.began = hist.began
        BY <1>1, <1>3, FaultyHistory
    <1>9. /\ TypeInv' /\ PlaceInv' /\ ProgressInv' /\ HopsInstalled'
          /\ Op' = Op /\ Hops' = Hops
        <2>1. run'.at \in InHop \cup {"fail"} /\ run.at \in InHop \cup {"hop"}
            BY <1>2, <1>7 DEF InHop
        <2> QED
            BY <1>2, <1>4, <1>6, <1>7, <1>8, <2>1, HopStepInv
    <1>10. WatchInv'
        BY <1>5, <1>7, <1>9 DEF WatchInv, Offers
    <1>11. SnapshotInv'
        <2>1. run'.at \in InHop \cup {"fail"} /\ run.at \in InHop
            BY <1>2, <1>7 DEF InHop
        <2>2. run'.at \notin {"watch", "judge"}
            BY <1>7
        <2> QED
            BY <1>2, <1>7, <1>8, <2>1, <2>2, HopSnapshotInv
    <1> QED
        BY <1>6, <1>9, <1>10, <1>11 DEF PlaybookInv

LEMMA WatchUpgradeInv ==
    ASSUME PlaybookInv, WatchUpgrade
    PROVE  PlaybookInv'
    <1>1. /\ OlmInv /\ TypeInv /\ PlaceInv /\ WatchInv
        BY DEF PlaybookInv
    <1>2. run.at = "open" /\ UNCHANGED <<pb, file, olm, snaps>>
        BY DEF WatchUpgrade
    <1>3. PICK fault \in BOOLEAN :
             /\ run' = IF fault THEN [run EXCEPT !.at = "fail"]
                       ELSE [run EXCEPT !.at = "watch", !.initial = olm[Op].installed,
                                !.seen = FALSE, !.last = "",
                                !.settled = \/ olm[Op].current = olm[Op].installed
                                            \/ olm[Op].current = Hops[run.hop]]
             /\ hist' = Faulty(fault)
        BY DEF WatchUpgrade, Faults
    <1>4. Op \in Operators /\ run.hop \in 1..Len(Hops) /\ olm[Op] \in Subscriptions
        BY <1>1, <1>2, OLMStepPath DEF InHop, PlaceInv, OlmInv
    <1>5. /\ hist' \in Histories /\ hist'.ok = hist.ok /\ hist'.sure = hist.sure
          /\ hist'.jumped = hist.jumped /\ hist'.report = hist.report /\ hist'.began = hist.began
        BY <1>1, <1>3, FaultyHistory
    <1>6. CASE fault
        <2>1. run' = [run EXCEPT !.at = "fail"]
            BY <1>3, <1>6
        <2>2. run' \in Runs /\ run'.at = "fail" /\ run'.i = run.i /\ run'.st = run.st
            BY <1>1, <2>1 DEF TypeInv, Runs, InStep
        <2> QED
            BY <1>2, <1>5, <2>2, FailsInv DEF InStep, InHop
    <1>7. CASE ~fault
        <2>1. PICK b \in BOOLEAN : b = (\/ olm[Op].current = olm[Op].installed
                                       \/ olm[Op].current = Hops[run.hop])
            OBVIOUS
        <2>2. PICK v \in Versions : v = olm[Op].installed
            BY <1>4 DEF Subscriptions
        <2>3. PICK last \in Reports : last = ""
            <3>1. "" \in Reports
                BY Zenon DEF Reports
            <3> QED
                BY <3>1, Zenon
        <2>4. run' = [run EXCEPT !.at = "watch", !.initial = v, !.seen = FALSE,
                                 !.last = last, !.settled = b]
            BY <1>3, <1>7, <2>1, <2>2, <2>3
        <2>5. /\ run' \in Runs /\ run'.at = "watch" /\ run'.i = run.i /\ run'.st = run.st
              /\ run'.hop = run.hop /\ run'.snapped = run.snapped
              /\ run'.initial = v /\ run'.settled = b /\ run'.last = last
            BY <1>1, <2>1, <2>2, <2>3, <2>4 DEF TypeInv, Runs, InStep, InHop
        <2>6. run'.at \in InHop \cup {"fail"} /\ run.at \in InHop
            BY <1>2, <2>5 DEF InHop
        <2>7. Kept
            BY <1>2 DEF Kept
        <2>8. /\ TypeInv' /\ PlaceInv' /\ ProgressInv' /\ HopsInstalled'
              /\ Op' = Op /\ Hops' = Hops
            BY <1>2, <1>4, <1>5, <2>5, <2>6, <2>7, HopStepInv
        <2>9. last # "Succeeded" /\ last # "rolled back"
            BY <2>3
        <2>10. WatchInv'
            <3>1. olm[Op].channel = Offers /\ Offers' = Offers
                BY <1>1, <1>2, <2>5, <2>8 DEF WatchInv, Offers
            <3>2. b => \/ olm[Op].current = v /\ olm[Op].installed = v
                       \/ olm[Op].current = Offers
                BY <2>1, <2>2 DEF Offers
            <3>3. olm' = olm /\ olm'[Op'] = olm[Op] /\ run'.last # "Succeeded"
                BY <1>2, <2>5, <2>8, <2>9
            <3>4. run'.at # "judge"
                BY <2>5
            <3> QED
                BY <2>5, <2>8, <3>1, <3>2, <3>3, <3>4 DEF WatchInv
        <2>11. SnapshotInv'
            BY <1>2, <1>5, <2>5, <2>6, <2>9, HopSnapshotInv
        <2>12. OlmInv'
            BY <1>1, <1>2 DEF OlmInv
        <2> QED
            BY <2>8, <2>10, <2>11, <2>12 DEF PlaybookInv
    <1> QED
        BY <1>6, <1>7

\* What a poll may conclude.
LEMMA PollConcludes ==
    ASSUME run \in Runs, run.at = "watch", NEW o \in Subscriptions, NEW lost \in BOOLEAN
    PROVE  \E seen \in BOOLEAN, last \in Reports :
              /\ WatchLoop(o, run, lost) =
                    [run EXCEPT !.seen = seen, !.last = last,
                                !.at = IF last \in {"Succeeded", "Failed"} THEN "judge" ELSE "watch"]
              /\ last # "rolled back"
              /\ last = "Succeeded" => o.current # run.initial /\ o.csv[o.current] = "Succeeded"
    <1> DEFINE csv == o.csv[o.current]
               report(seen, last) ==
                   [run EXCEPT !.seen = seen, !.last = last,
                               !.at = IF last \in {"Succeeded", "Failed"} THEN "judge" ELSE run.at]
    <1>1. csv \in {"absent", "Installing", "Succeeded", "Failed"} /\ run.seen \in BOOLEAN
        BY DEF Subscriptions, Runs
    <1>2. \A last : (last \in {"Succeeded", "Failed"}) => last \in Reports
        BY Zenon DEF Reports
    <1>3. "Pending" \in Reports /\ "InstallPlanCreated" \in Reports /\ "Installing" \in Reports
        BY Zenon DEF Reports
    <1>4. CASE o.current = run.initial \/ (~run.seen /\ o.plan = 0)
        <2>1. WatchLoop(o, run, lost) = report(run.seen, "Pending")
            BY <1>4, Zenon DEF WatchLoop
        <2> QED
            BY <1>1, <1>3, <2>1
    <1>5. CASE /\ ~(o.current = run.initial \/ (~run.seen /\ o.plan = 0))
               /\ ~run.seen /\ (lost \/ o.phase \in {"RequiresApproval", "Installing"}
                                     \/ (o.manual /\ o.phase = "Failed"))
        <2>1. WatchLoop(o, run, lost) = report(FALSE, "InstallPlanCreated")
            BY <1>5, Zenon DEF WatchLoop
        <2> QED
            BY <1>3, <2>1
    <1>6. CASE /\ ~(o.current = run.initial \/ (~run.seen /\ o.plan = 0))
               /\ ~(~run.seen /\ (lost \/ o.phase \in {"RequiresApproval", "Installing"}
                                       \/ (o.manual /\ o.phase = "Failed")))
               /\ ~run.seen /\ o.phase = "Failed"
        <2>1. WatchLoop(o, run, lost) = report(FALSE, "Failed")
            BY <1>6, Zenon DEF WatchLoop
        <2> QED
            BY <1>2, <2>1
    <1>7. CASE /\ ~(o.current = run.initial \/ (~run.seen /\ o.plan = 0))
               /\ ~(~run.seen /\ (lost \/ o.phase \in {"RequiresApproval", "Installing"}
                                       \/ (o.manual /\ o.phase = "Failed")))
               /\ ~(~run.seen /\ o.phase = "Failed")
        <2> DEFINE last == IF lost \/ csv \in {"absent", "Installing"} THEN "Installing" ELSE csv
        <2>1. WatchLoop(o, run, lost) = report(TRUE, last)
            BY <1>7, Zenon DEF WatchLoop
        <2>2. last \in Reports /\ last # "rolled back" /\ (last = "Succeeded" => csv = "Succeeded")
            BY <1>1, <1>2, <1>3
        <2>3. o.current # run.initial
            BY <1>7
        <2> HIDE DEF last
        <2> QED
            BY <2>1, <2>2, <2>3
    <1> QED
        BY <1>4, <1>5, <1>6, <1>7

LEMMA PollInv ==
    ASSUME PlaybookInv, Poll
    PROVE  PlaybookInv'
    <1>1. /\ OlmInv /\ TypeInv /\ PlaceInv /\ WatchInv /\ run \in Runs
        BY DEF PlaybookInv, TypeInv
    <1>2. run.at = "watch" /\ UNCHANGED <<pb, file, olm, snaps>>
        BY DEF Poll
    <1>3. PICK lost \in BOOLEAN : run' = WatchLoop(olm[Op], run, lost) /\ hist' = Faulty(lost)
        BY DEF Poll, Faults
    <1>4. Op \in Operators /\ run.hop \in 1..Len(Hops) /\ olm[Op] \in Subscriptions
        BY <1>1, <1>2, OLMStepPath DEF InHop, PlaceInv, OlmInv
    <1>5. /\ hist' \in Histories /\ hist'.ok = hist.ok /\ hist'.sure = hist.sure
          /\ hist'.jumped = hist.jumped /\ hist'.report = hist.report /\ hist'.began = hist.began
        BY <1>1, <1>3, FaultyHistory
    <1>6. PICK seen \in BOOLEAN, last \in Reports :
             /\ run' = [run EXCEPT !.seen = seen, !.last = last,
                          !.at = IF last \in {"Succeeded", "Failed"} THEN "judge" ELSE "watch"]
             /\ last # "rolled back"
             /\ last = "Succeeded" => /\ olm[Op].current # run.initial
                                      /\ olm[Op].csv[olm[Op].current] = "Succeeded"
        BY <1>1, <1>2, <1>3, <1>4, PollConcludes
    <1> DEFINE at == IF last \in {"Succeeded", "Failed"} THEN "judge" ELSE "watch"
    <1>7. at \in {"judge", "watch"} /\ (at = "watch" => last # "Succeeded")
        OBVIOUS
    <1> HIDE DEF at
    <1>8. /\ run' \in Runs /\ run'.at = at /\ run'.i = run.i /\ run'.st = run.st
          /\ run'.hop = run.hop /\ run'.snapped = run.snapped
          /\ run'.initial = run.initial /\ run'.settled = run.settled /\ run'.last = last
        <2>1. run' = [run EXCEPT !.seen = seen, !.last = last, !.at = at]
            BY <1>6 DEF at
        <2> QED
            BY <1>1, <1>7, <2>1 DEF Runs, InStep, InHop
    <1>9. run'.at \in InHop \cup {"fail"} /\ run.at \in InHop
        BY <1>2, <1>7, <1>8 DEF InHop
    <1>10. /\ TypeInv' /\ PlaceInv' /\ ProgressInv' /\ HopsInstalled'
           /\ Op' = Op /\ Hops' = Hops
        <2>1. Kept
            BY <1>2 DEF Kept
        <2> QED
            BY <1>2, <1>4, <1>5, <1>8, <1>9, <2>1, HopStepInv
    <1>11. WatchInv'
        <2>1. olm[Op].channel = Offers /\ Offers' = Offers
            BY <1>1, <1>2, <1>8, <1>10 DEF WatchInv, Offers
        <2>2. run.settled => \/ olm[Op].current = run.initial
                             \/ olm[Op].current = Offers
                             \/ olm[Op].csv[Offers] = "Succeeded"
            BY <1>1, <1>2 DEF WatchInv
        <2>3. run.settled =>
                 \/ olm[Op].current = run.initial /\ olm[Op].installed = run.initial
                 \/ olm[Op].current = Offers
                 \/ olm[Op].csv[Offers] = "Succeeded"
            BY <1>1, <1>2 DEF WatchInv
        <2>4. olm' = olm /\ olm'[Op'] = olm[Op]
            BY <1>2, <1>10
        <2>5. run'.settled /\ run'.last = "Succeeded" => olm[Op].csv[Offers] = "Succeeded"
            BY <1>6, <1>8, <2>2
        <2> QED
            BY <1>7, <1>8, <1>10, <2>1, <2>3, <2>4, <2>5 DEF WatchInv
    <1>12. SnapshotInv'
        BY <1>2, <1>5, <1>6, <1>8, <1>9, HopSnapshotInv
    <1>13. OlmInv'
        BY <1>1, <1>2 DEF OlmInv
    <1> QED
        BY <1>10, <1>11, <1>12, <1>13 DEF PlaybookInv

LEMMA WatchDeadlineInv ==
    ASSUME PlaybookInv, WatchDeadline
    PROVE  PlaybookInv'
    <1>1. /\ OlmInv /\ TypeInv /\ PlaceInv /\ WatchInv /\ SnapshotInv
          /\ run \in Runs /\ hist \in Histories
        BY DEF PlaybookInv, TypeInv
    <1>2. /\ run.at = "watch" /\ UNCHANGED <<pb, file, olm, snaps, hist>>
          /\ run' = [run EXCEPT !.at = "judge"]
        BY DEF WatchDeadline
    <1>3. /\ run' \in Runs /\ run'.at = "judge" /\ run'.i = run.i /\ run'.st = run.st
          /\ run'.hop = run.hop /\ run'.snapped = run.snapped
          /\ run'.settled = run.settled /\ run'.last = run.last
        BY <1>1, <1>2 DEF Runs, InStep, InHop
    <1>4. run'.at \in InHop \cup {"fail"} /\ run.at \in InHop /\ run.hop \in 1..Len(Hops)
        BY <1>1, <1>2, <1>3 DEF PlaceInv, InHop
    <1>5. /\ hist' \in Histories /\ hist'.ok = hist.ok /\ hist'.sure = hist.sure
          /\ hist'.jumped = hist.jumped /\ hist'.report = hist.report /\ hist'.began = hist.began
        BY <1>1, <1>2
    <1>6. /\ TypeInv' /\ PlaceInv' /\ ProgressInv' /\ HopsInstalled'
          /\ Op' = Op /\ Hops' = Hops
        <2>1. Kept
            BY <1>2 DEF Kept
        <2> QED
            BY <1>2, <1>3, <1>4, <1>5, <2>1, HopStepInv
    <1>7. WatchInv'
        <2>1. olm'[Op'].channel = Offers' /\ run'.last # "Succeeded"
            BY <1>1, <1>2, <1>3, <1>6 DEF WatchInv, Offers
        <2> QED
            BY <1>3, <1>6, <2>1 DEF WatchInv
    <1>8. SnapshotInv'
        <2>1. run'.last # "rolled back"
            BY <1>1, <1>2, <1>3 DEF SnapshotInv
        <2> QED
            BY <1>2, <1>3, <1>4, <1>5, <2>1, HopSnapshotInv
    <1>9. OlmInv'
        BY <1>1, <1>2 DEF OlmInv
    <1> QED
        BY <1>6, <1>7, <1>8, <1>9 DEF PlaybookInv

\* An OLM step has its entry from its first hop on.
LEMMA HopEntry ==
    ASSUME TypeInv, PlaceInv, Sound(run.st), run.at \in InHop
    PROVE  \A st :
              /\ st.entries = run.st.entries \cup {Step.name} /\ st.failed = run.st.failed
              /\ \A h \in st.hops : h \in run.st.hops \/ h[1] = Step.name
              => Sound(st)
    <1> SUFFICES ASSUME NEW st, st.entries = run.st.entries \cup {Step.name},
                        st.failed = run.st.failed,
                        \A h \in st.hops : h \in run.st.hops \/ h[1] = Step.name
                 PROVE  Sound(st)
        OBVIOUS
    <1>1. /\ ValidatePlaybook(pb) /\ run.i \in 1..NSteps /\ Step = StepAt(run.i) /\ IsOLM(Step)
        BY DEF PlaceInv, InHop, InStep, Step
    <1>2. \A j \in 1..NSteps : StepAt(j).name = Step.name => j = run.i
        BY <1>1, OneName
    <1>3. Done(st)
        BY <1>1, <1>2 DEF Sound, Done
    <1>4. Checked(st)
        <2>1. NSteps \in 1..NSteps
            BY <1>1, StepsOf
        <2>2. ChecksTarget => StepAt(NSteps).name # Step.name
            BY <1>1, <1>2, <2>1 DEF ChecksTarget, IsOLM
        <2> QED
            BY <2>2 DEF Sound, Checked
    <1>5. Recorded(st)
        BY DEF Sound, Recorded
    <1>6. ~hist.jumped => FailedNext(st)
        BY DEF Sound, FailedNext, Before
    <1> QED
        BY <1>3, <1>4, <1>5, <1>6 DEF Sound

\* A step of the hop that saves its entry.
LEMMA HopSavedInv ==
    ASSUME PlaybookInv, run.at \in InHop, pb' = pb, Kept, NEW fault \in BOOLEAN,
           NEW st \in States, SaveState(st, fault),
           st.entries = run.st.entries \cup {Step.name}, st.failed = run.st.failed,
           \A h \in st.hops : h \in run.st.hops \/ h[1] = Step.name,
           run' \in Runs, run'.at \in {"hop", "fail"}, run'.i = run.i, run'.st = st,
           hist' \in Histories, hist'.ok = hist.ok,
           hist'.jumped = hist.jumped, hist'.report = hist.report
    PROVE  /\ TypeInv' /\ PlaceInv' /\ ProgressInv'
           /\ Step' = Step /\ Op' = Op /\ Hops' = Hops
    <1>1. /\ TypeInv /\ PlaceInv /\ ProgressInv /\ Sound(run.st) /\ Sound(file.st)
        BY DEF PlaybookInv, ProgressInv
    <1>2. \A s : Sound(s) => Sound(s)'
        BY <1>1, SoundKept
    <1>3. Sound(st)'
        BY <1>1, <1>2, HopEntry
    <1>4. file' \in Files /\ Sound(file.st)'
        BY <1>1, <1>2, <1>3, SavedFile
    <1>5. TypeInv'
        BY <1>1, <1>4, StatesSame DEF TypeInv
    <1>6. Step' = Step /\ Op' = Op /\ Hops' = Hops
        BY HopSame
    <1>7. PlaceInv'
        BY <1>1, <1>6, StatesSame DEF PlaceInv, InStep, InHop
    <1>8. StepsDone' /\ ValidatedUpgrade'
        BY ReportKept
    <1>9. ProgressInv'
        BY <1>1, <1>3, <1>4, <1>8 DEF ProgressInv, InStep, InHop, Before, StepAt
    <1> QED
        BY <1>5, <1>6, <1>7, <1>9

LEMMA CompleteHopInv ==
    ASSUME PlaybookInv, CompleteHop
    PROVE  PlaybookInv'
    <1>1. /\ OlmInv /\ TypeInv /\ PlaceInv /\ WatchInv /\ SnapshotInv /\ run \in Runs
        BY DEF PlaybookInv, TypeInv
    <1>2. run.at = "judge" /\ run.last = "Succeeded" /\ UNCHANGED <<pb, olm, snaps>>
        BY DEF CompleteHop, HopSucceeded
    <1> DEFINE new == [run.st EXCEPT !.entries = run.st.entries \cup {Step.name},
                                     !.hops = run.st.hops \cup {<<Step.name, Offers>>}]
    <1>3. PICK fault \in BOOLEAN :
             /\ SaveState(new, fault)
             /\ run' = [Idle EXCEPT !.at = "hop", !.i = run.i, !.skip = run.skip,
                                    !.hop = run.hop + 1, !.st = new]
             /\ hist' = [Faulty(fault) EXCEPT
                            !.sure = IF run.settled THEN @ \cup {<<Op, Hops[run.hop]>>} ELSE @,
                            !.began = NotBegun]
        BY DEF CompleteHop, Faults, Offers
    <1>4. /\ Op \in Operators /\ run.hop \in 1..Len(Hops) /\ Offers \in Channels
          /\ Hops \in Seq(Channels) /\ IsInjective(Hops)
        BY <1>1, <1>2, OLMStepPath DEF InHop, PlaceInv
    <1>5. /\ run.i \in Nat /\ run.st \in States /\ run.skip \in BOOLEAN /\ run.hop + 1 \in Nat \ {0}
          /\ Step.name \in StepNames
        BY <1>1, <1>2, StepsOf DEF Runs, PlaceInv, InStep, InHop, Step
    <1>6. PICK st \in States : st = new
        <2> DEFINE e == run.st.entries \cup {Step.name}
                   h == run.st.hops \cup {<<Step.name, Offers>>}
        <2>1. e \in SUBSET StepNames /\ h \in SUBSET (StepNames \X Channels)
            BY <1>4, <1>5 DEF States
        <2>2. new = [run.st EXCEPT !.entries = e, !.hops = h]
            OBVIOUS
        <2> HIDE DEF e, h, new
        <2>3. new \in States
            BY <1>5, <2>1, <2>2 DEF States
        <2> QED
            BY <2>3
    <1>7. /\ st.entries = run.st.entries \cup {Step.name} /\ st.failed = run.st.failed
          /\ st.hops = run.st.hops \cup {<<Step.name, Offers>>}
        BY <1>5, <1>6 DEF States
    <1> HIDE DEF new
    <1>8. /\ run' \in Runs /\ run'.at = "hop" /\ run'.i = run.i /\ run'.st = st
          /\ run'.hop = run.hop + 1
        <2>1. run' = [Idle EXCEPT !.at = "hop", !.i = run.i, !.skip = run.skip,
                                  !.hop = run.hop + 1, !.st = st]
            BY <1>3, <1>6
        <2> QED
            BY <1>5, <2>1, IdleFields DEF Runs, InStep
    <1> DEFINE F == Faulty(fault)
               sure == IF run.settled THEN F.sure \cup {<<Op, Offers>>} ELSE F.sure
    <1>9. /\ F \in Histories /\ F.ok = hist.ok /\ F.sure = hist.sure
          /\ F.jumped = hist.jumped /\ F.report = hist.report
        BY <1>1, FaultyHistory
    <1>10. hist' = [F EXCEPT !.sure = sure, !.began = NotBegun]
        BY <1>3 DEF Offers
    <1> HIDE DEF F
    <1>11. sure \in SUBSET (Operators \X Channels)
        BY <1>4, <1>9 DEF Histories
    <1>12. \A h \in sure : h \in hist.sure \/ (run.settled /\ h = <<Op, Offers>>)
        BY <1>9
    <1>13. NotBegun \in [channel : Versions, crds : Versions]
        BY VersionsNat DEF NotBegun
    <1> HIDE DEF sure
    <1>14. /\ hist' \in Histories /\ hist'.ok = hist.ok /\ hist'.sure = sure
           /\ hist'.jumped = hist.jumped /\ hist'.report = hist.report
        BY <1>9, <1>10, <1>11, <1>13 DEF Histories
    <1>15. /\ TypeInv' /\ PlaceInv' /\ ProgressInv'
           /\ Step' = Step /\ Op' = Op /\ Hops' = Hops
        <2>1. Kept /\ run.at \in InHop
            BY <1>2 DEF Kept, InHop
        <2>2. SaveState(st, fault)
            BY <1>3, <1>6
        <2>3. \A h \in st.hops : h \in run.st.hops \/ h[1] = Step.name
            BY <1>7
        <2> QED
            BY <1>2, <1>7, <1>8, <1>14, <2>1, <2>2, <2>3, HopSavedInv
    <1>16. WatchInv'
        <2>1. run.settled => olm[Op].csv[Offers] = "Succeeded"
            BY <1>1, <1>2 DEF WatchInv
        <2>2. \A h \in hist.sure : olm[h[1]].csv[h[2]] = "Succeeded"
            BY <1>1 DEF WatchInv, HopsInstalled
        <2>3. HopsInstalled'
            BY <1>2, <1>12, <1>14, <2>1, <2>2 DEF HopsInstalled
        <2> QED
            BY <1>8, <2>3 DEF WatchInv
    <1>17. SnapshotInv'
        <2>1. \A k \in 1..Len(Hops) : <<Step.name, Hops[k]>> \in st.hops <=> k < run.hop + 1
            <3>1. \A k \in 1..Len(Hops) : <<Step.name, Hops[k]>> \in run.st.hops <=> k < run.hop
                BY <1>1, <1>2 DEF SnapshotInv, InHop
            <3>2. \A k \in 1..Len(Hops) : Hops[k] = Offers => k = run.hop
                BY <1>4 DEF IsInjective, Offers
            <3>3. \A k \in 1..Len(Hops) :
                     <<Step.name, Hops[k]>> \in st.hops <=>
                        <<Step.name, Hops[k]>> \in run.st.hops \/ Hops[k] = Offers
                BY <1>7
            <3>4. Len(Hops) \in Nat /\ run.hop \in Nat
                BY <1>4
            <3> QED
                BY <3>1, <3>2, <3>3, <3>4, <1>4 DEF Offers
        <2>2. run'.hop - 1 = run.hop /\ olm[Op].channel = Hops[run.hop]
            BY <1>1, <1>2, <1>4, <1>8 DEF WatchInv, Offers
        <2>3. run'.at \notin InHop
            BY <1>8 DEF InHop
        <2>4. \A k \in 1..Len(Hops') : <<Step'.name, Hops'[k]>> \in run'.st.hops <=> k < run'.hop
            BY <1>8, <1>15, <2>1
        <2>5. run'.hop - 1 \in 1..Len(Hops') /\ olm'[Op'].channel = Hops'[run'.hop - 1]
            BY <1>2, <1>4, <1>15, <2>2
        <2> QED
            BY <1>1, <1>2, <2>3, <2>4, <2>5 DEF SnapshotInv, InHop
    <1>18. OlmInv'
        BY <1>1, <1>2 DEF OlmInv
    <1> QED
        BY <1>15, <1>16, <1>17, <1>18 DEF PlaybookInv

\* What a rollback writes, wherever it stops.
LEMMA RollbackWrites ==
    ASSUME PlaybookInv, run.at = "judge", NEW upto, RollbackHop(run.hop, upto)
    PROVE  /\ OlmInv' /\ Kept
           /\ upto = "whole" => \A o \in DOMAIN snaps[run.hop].crds :
                                   olm'[o].crds = snaps[run.hop].crds[o]
           /\ upto = "whole" /\ snaps[run.hop].channel # 0 =>
                 olm'[Op].channel = snaps[run.hop].channel
    <1> DEFINE snap == snaps[run.hop]
    <1>1. /\ OlmInv /\ TypeInv /\ PlaceInv /\ SnapshotInv
        BY DEF PlaybookInv
    <1>2. /\ Op \in Operators /\ run.hop \in DOMAIN snaps
        <2>1. Op \in Operators /\ Hops \in Seq(Channels) /\ IsInjective(Hops) /\ run.hop \in 1..Len(Hops)
            BY <1>1, OLMStepPath DEF InHop, PlaceInv
        <2> QED
            BY <1>1, <2>1, PathBound DEF SnapshotInv
    <1>3. /\ snap.channel \in Versions /\ DOMAIN snap.crds \subseteq Operators
          /\ \A o \in DOMAIN snap.crds : snap.crds[o] \in Versions
        BY <1>1, <1>2 DEF SnapshotInv
    <1>4. PICK S \in SUBSET DOMAIN snap.crds :
             /\ (upto = "whole") <=> (S = DOMAIN snap.crds)
             /\ olm' = [o \in Operators |-> [olm[o] EXCEPT
                           !.channel = IF o = Op /\ snap.channel # 0 /\ upto # "channel"
                                       THEN snap.channel ELSE @,
                           !.crds = IF o \in S THEN snap.crds[o] ELSE @]]
        BY DEF RollbackHop
    <1> DEFINE c(o) == IF o = Op /\ snap.channel # 0 /\ upto # "channel"
                       THEN snap.channel ELSE olm[o].channel
               d(o) == IF o \in S THEN snap.crds[o] ELSE olm[o].crds
    <1>5. olm' = [o \in Operators |-> [olm[o] EXCEPT !.channel = c(o), !.crds = d(o)]]
        BY <1>4
    <1>6. \A o \in Operators : olm[o] \in Subscriptions /\ c(o) \in Versions /\ d(o) \in Versions
        <2>1. \A o \in Operators : /\ olm[o] \in Subscriptions /\ olm[o].channel \in Versions
                                   /\ olm[o].crds \in Versions
            BY <1>1 DEF OlmInv, Subscriptions
        <2> QED
            BY <1>3, <2>1
    <1>7. /\ upto = "whole" => \A o \in DOMAIN snap.crds : d(o) = snap.crds[o]
          /\ upto = "whole" /\ snap.channel # 0 => c(Op) = snap.channel
        BY <1>4
    <1> HIDE DEF c, d
    <1>8. ASSUME NEW o \in Operators
          PROVE  /\ olm'[o] \in Subscriptions /\ olm'[o].channel = c(o) /\ olm'[o].crds = d(o)
                 /\ olm'[o].current = olm[o].current /\ olm'[o].installed = olm[o].installed
                 /\ olm'[o].plan = olm[o].plan /\ olm'[o].phase = olm[o].phase
                 /\ olm'[o].csv = olm[o].csv
        <2>1. olm'[o] = [olm[o] EXCEPT !.channel = c(o), !.crds = d(o)]
            BY <1>5
        <2> QED
            BY <1>6, <2>1 DEF Subscriptions
    <1>9. olm' \in [Operators -> Subscriptions]
        BY <1>5, <1>8
    <1>10. OlmInv' /\ Kept
        BY <1>1, <1>8, <1>9, OlmWritten
    <1> QED
        BY <1>2, <1>3, <1>7, <1>8, <1>10

LEMMA FailHopInv ==
    ASSUME PlaybookInv, FailHop
    PROVE  PlaybookInv'
    <1>1. /\ TypeInv /\ PlaceInv /\ SnapshotInv /\ run \in Runs /\ hist \in Histories
        BY DEF PlaybookInv, TypeInv
    <1>2. run.at = "judge" /\ UNCHANGED <<pb, snaps>>
        BY DEF FailHop
    <1>3. CASE run' = [run EXCEPT !.at = "fail"] /\ UNCHANGED <<file, olm, hist>>
        <2>1. run' \in Runs /\ run'.at = "fail" /\ run'.i = run.i /\ run'.st = run.st
            BY <1>1, <1>3 DEF Runs, InStep
        <2>2. run.at \in InStep
            BY <1>2 DEF InStep, InHop
        <2> QED
            BY <1>1, <1>2, <1>3, <2>1, <2>2, FailsInv
    <1> DEFINE new == [run.st EXCEPT !.entries = run.st.entries \cup {Step.name}]
    <1>4. ASSUME NEW upto \in {"whole", "crds", "channel"}, NEW fault \in Faults,
                 RollbackHop(run.hop, upto), SaveState(new, fault),
                 run' = [run EXCEPT !.at = "fail", !.st = new,
                                    !.last = IF upto = "whole" THEN "rolled back" ELSE @],
                 hist' = Faulty(fault \/ upto # "whole")
          PROVE  PlaybookInv'
        <2>1. fault \in BOOLEAN
            BY DEF Faults
        <2>2. OlmInv' /\ Kept
            BY <1>2, <1>4, RollbackWrites
        <2>3. run.st \in States /\ Step.name \in StepNames /\ run.last \in Reports
            BY <1>1, <1>2, StepsOf DEF Runs, PlaceInv, InStep, InHop, Step
        <2>4. PICK st \in States : st = new
            <3> DEFINE e == run.st.entries \cup {Step.name}
            <3>1. e \in SUBSET StepNames
                BY <2>3 DEF States
            <3>2. new = [run.st EXCEPT !.entries = e]
                OBVIOUS
            <3> HIDE DEF e, new
            <3>3. new \in States
                BY <2>3, <3>1, <3>2 DEF States
            <3> QED
                BY <3>3
        <2>5. /\ st.entries = run.st.entries \cup {Step.name} /\ st.failed = run.st.failed
              /\ st.hops = run.st.hops
            BY <2>3, <2>4 DEF States
        <2> HIDE DEF new
        <2>6. PICK last \in Reports : last = IF upto = "whole" THEN "rolled back" ELSE run.last
            <3>1. "rolled back" \in Reports
                BY Zenon DEF Reports
            <3> QED
                BY <2>3, <3>1, Zenon
        <2>7. run' \in Runs /\ run'.at = "fail" /\ run'.i = run.i /\ run'.st = st
            <3>1. run' = [run EXCEPT !.at = "fail", !.st = st, !.last = last]
                BY <1>4, <2>4, <2>6
            <3> QED
                BY <1>1, <2>4, <2>6, <3>1 DEF Runs, InStep
        <2>8. /\ hist' \in Histories /\ hist'.ok = hist.ok /\ hist'.sure = hist.sure
              /\ hist'.jumped = hist.jumped /\ hist'.report = hist.report
            <3>1. PICK b \in BOOLEAN : b = (fault \/ upto # "whole")
                BY <2>1
            <3>2. hist' = Faulty(b)
                BY <1>4, <3>1
            <3> QED
                BY <1>1, <3>2, FaultyHistory
        <2>9. /\ TypeInv' /\ PlaceInv' /\ ProgressInv' /\ Step' = Step /\ Op' = Op /\ Hops' = Hops
            <3>1. SaveState(st, fault)
                BY <1>4, <2>4
            <3>2. \A h \in st.hops : h \in run.st.hops \/ h[1] = Step.name
                BY <2>5
            <3>3. run.at \in InHop
                BY <1>2 DEF InHop
            <3> QED
                BY <1>2, <2>1, <2>2, <2>5, <2>7, <2>8, <3>1, <3>2, <3>3, HopSavedInv
        <2>10. WatchInv'
            <3>1. HopsInstalled'
                BY <2>2, <2>8, InstalledKept
            <3> QED
                BY <2>7, <3>1 DEF WatchInv
        <2>11. SnapshotInv'
            BY <1>1, <1>2, <2>7 DEF SnapshotInv, InHop
        <2> QED
            BY <2>2, <2>9, <2>10, <2>11 DEF PlaybookInv
    <1>5. ASSUME ~(run' = [run EXCEPT !.at = "fail"] /\ UNCHANGED <<file, olm, hist>>)
          PROVE  \E upto \in {"whole", "crds", "channel"}, fault \in Faults :
                    /\ RollbackHop(run.hop, upto) /\ SaveState(new, fault)
                    /\ run' = [run EXCEPT !.at = "fail", !.st = new,
                                    !.last = IF upto = "whole" THEN "rolled back" ELSE @]
                    /\ hist' = Faulty(fault \/ upto # "whole")
        BY <1>5, Zenon DEF FailHop
    <1> QED
        BY <1>3, <1>4, <1>5

LEMMA EnvironmentInv ==
    ASSUME PlaybookInv, Environment
    PROVE  PlaybookInv'
    <1>1. PICK o \in Operators : OLMStep(o)
        BY DEF Environment, OLMStep
    <1> QED
        BY <1>1, OLMStepInv

LEMMA NextInv ==
    ASSUME PlaybookInv, [Next]_vars
    PROVE  PlaybookInv'
    <1>1. CASE Start
        BY <1>1, StartInv
    <1>2. CASE Confirm
        BY <1>2, ConfirmInv
    <1>3. CASE Crash
        BY <1>3, CrashInv
    <1>4. CASE Process
        BY <1>4, ExecuteInv, FailInv, FinishInv, BeginHopInv, EndHopsInv, PatchChannelInv,
           WatchUpgradeInv, CompleteHopInv, FailHopInv DEF Process
    <1>5. CASE Poll
        BY <1>5, PollInv
    <1>6. CASE WatchDeadline
        BY <1>6, WatchDeadlineInv
    <1>7. CASE Environment
        BY <1>7, EnvironmentInv
    <1>8. CASE UNCHANGED vars
        BY <1>8, UnchangedInv
    <1> QED
        BY <1>1, <1>2, <1>3, <1>4, <1>5, <1>6, <1>7, <1>8 DEF Next

\* The channel that a snapshot holds after the first hop is a channel.
LEMMA HopBefore ==
    ASSUME NEW s \in Seq(Channels), NEW k \in 1..Len(s), k > 1
    PROVE  s[k - 1] # 0
    <1>1. k - 1 \in 1..Len(s) /\ s[k - 1] \in Channels
        OBVIOUS
    <1> QED
        BY <1>1, ChannelsAssumption

LEMMA RollbackStep ==
    ASSUME PlaybookInv, FailHop, run.snapped, run'.last = "rolled back"
    PROVE  /\ olm'[Op].crds = hist.began.crds
           /\ run.hop > 1 => olm'[Op].channel = hist.began.channel
    <1>1. /\ TypeInv /\ PlaceInv /\ SnapshotInv /\ run \in Runs
        BY DEF PlaybookInv, TypeInv
    <1>2. run.at = "judge"
        BY DEF FailHop
    <1>3. run.last # "rolled back"
        BY <1>1, <1>2 DEF SnapshotInv
    <1>4. pb.rollback /\ \E upto \in {"whole", "crds", "channel"} :
              /\ RollbackHop(run.hop, upto)
              /\ run'.last = IF upto = "whole" THEN "rolled back" ELSE run.last
        <2>1. ASSUME run' = [run EXCEPT !.at = "fail"] PROVE FALSE
            BY <1>1, <1>3, <2>1 DEF Runs
        <2>2. \A upto, st : run' = [run EXCEPT !.at = "fail", !.st = st,
                                       !.last = IF upto = "whole" THEN "rolled back" ELSE @]
                 => run'.last = IF upto = "whole" THEN "rolled back" ELSE run.last
            BY <1>1 DEF Runs
        <2> QED
            BY <2>1, <2>2, Zenon DEF FailHop
    <1>5. RollbackHop(run.hop, "whole")
        BY <1>3, <1>4
    <1>6. /\ Op \in DOMAIN snaps[run.hop].crds /\ snaps[run.hop].crds[Op] = hist.began.crds
          /\ run.hop > 1 => /\ snaps[run.hop].channel = Hops[run.hop - 1]
                            /\ hist.began.channel = Hops[run.hop - 1]
        BY <1>1, <1>2, <1>4 DEF SnapshotInv, InHop
    <1>7. run.hop > 1 => Hops[run.hop - 1] # 0
        BY <1>1, <1>2, OLMStepPath, HopBefore DEF InHop, PlaceInv
    <1> QED
        BY <1>2, <1>5, <1>6, <1>7, RollbackWrites

-----------------------------------------------------------------------------
(* The beginning *)

LEMMA InRange ==
    ASSUME NEW n \in Nat, NEW f, f = [k \in 1..n |-> f[k]]
    PROVE  f \in Seq(Range(f))
    <1> DEFINE R == Range(f)
    <1>1. \A k \in 1..n : f[k] \in R
        BY DEF Range
    <1> HIDE DEF R
    <1> QED
        BY <1>1 DEF R

LEMMA LoadedPlaybook ==
    ASSUME NEW p \in Playbooks
    PROVE  Loaded(LoadPlaybook(p))
    <1> DEFINE n == Len(p.steps)
               before(i) == {j \in DOMAIN p.steps : p.steps[j].name \in p.steps[i].deps}
               bare == [i \in DOMAIN p.steps |-> [deps |-> before(i), component |-> ""]]
               opts == [infer |-> FALSE, operators |-> {}]
               order == Sequence(bare, {}, opts).order
               sorted == [k \in DOMAIN order |-> p.steps[order[k]]]
    <1>1. /\ {"kind", "rollback", "paths", "steps"} \subseteq DOMAIN p
          /\ p.steps \in Seq(Range(p.steps)) /\ DOMAIN p.paths \subseteq Operators
          /\ \A o \in DOMAIN p.paths : p.paths[o] \in Seq(Channels) /\ IsInjective(p.paths[o])
        BY PlaybooksAssumption, Zenon
    <1>2. Loaded(p)
        BY <1>1, Zenon DEF Loaded
    <1>3. n \in Nat /\ DOMAIN p.steps = 1..n
        <2> DEFINE s == p.steps
                   R == Range(p.steps)
        <2>1. s \in Seq(R)
            BY <1>1, Zenon
        <2> HIDE DEF s, R
        <2>2. Len(s) \in Nat /\ DOMAIN s = 1..Len(s)
            BY <2>1
        <2> QED
            BY <2>2, Zenon DEF s
    <1>4. order \in Seq(1..n)
        <2> DEFINE e(i) == [deps |-> before(i), component |-> ""]
                   b == [i \in 1..n |-> e(i)]
        <2>1. bare = b
            BY <1>3, Zenon
        <2> HIDE DEF e
        <2>2. Len(b) = n /\ DOMAIN b = 1..n
            BY <1>3
        <2>3. Len(bare) = n /\ DOMAIN bare = 1..n
            BY <2>1, <2>2, Zenon
        <2> HIDE DEF b, bare, opts, n
        <2>4. Ordered(n, Edges(bare, {}, opts), Sequence(bare, {}, opts))
            BY <1>3, <2>3, SequenceOrder, Zenon
        <2> QED
            BY <2>4, Zenon DEF Ordered
    <1>5. ApplySequencer(p) = [p EXCEPT !.steps = sorted]
        BY Zenon DEF ApplySequencer
    <1> HIDE DEF order
    <1>6. sorted \in Seq(Range(sorted))
        <2>1. Len(order) \in Nat /\ DOMAIN order = 1..Len(order)
            BY <1>4
        <2> DEFINE l == Len(order)
                   g(k) == p.steps[order[k]]
                   f == [k \in 1..l |-> g(k)]
        <2>2. sorted = f
            BY <2>1, Zenon
        <2> HIDE DEF g, l
        <2>3. f = [k \in 1..l |-> f[k]]
            OBVIOUS
        <2>4. l \in Nat
            BY <2>1 DEF l
        <2> HIDE DEF f
        <2>5. f \in Seq(Range(f))
            BY <2>3, <2>4, InRange, Zenon
        <2> QED
            BY <2>2, <2>5, Zenon
    <1>7. Loaded(ApplySequencer(p))
        <2> DEFINE q == [p EXCEPT !.steps = sorted]
        <2> HIDE DEF sorted
        <2>1. q.steps = sorted
            BY <1>1, Zenon
        <2>2. q.paths = p.paths
            <3>1. "paths" # "steps" /\ "paths" \in DOMAIN p
                BY <1>1
            <3> QED
                BY <3>1, Zenon
        <2> HIDE DEF q
        <2>3. Loaded(q)
            BY <1>1, <1>6, <2>1, <2>2, Zenon DEF Loaded
        <2> QED
            BY <1>5, <2>3, Zenon DEF q
    <1> QED
        BY <1>2, <1>7, Zenon DEF LoadPlaybook

LEMMA NewSubscriptions == NewSubscription \in Subscriptions /\ Upgrading(NewSubscription)
    <1> DEFINE csv == [v \in Versions |-> IF v = 0 THEN "Succeeded" ELSE "absent"]
               s == [channel |-> 0, current |-> 0, installed |-> 0, plan |-> 0, manual |-> FALSE,
                     phase |-> "Complete", csv |-> csv, crds |-> 0]
    <1>1. NewSubscription = s
        BY Zenon DEF NewSubscription, Versions
    <1>2. csv \in [Versions -> {"absent", "Installing", "Succeeded", "Failed"}]
        OBVIOUS
    <1>3. csv[0] = "Succeeded" /\ \A v \in Versions : v > 0 => csv[v] = "absent"
        BY VersionsNat
    <1> HIDE DEF csv
    <1>4. s \in Subscriptions
        BY <1>2, VersionsNat DEF Subscriptions
    <1>5. Upgrading(s)
        BY <1>3 DEF Upgrading
    <1> QED
        BY <1>1, <1>4, <1>5

LEMMA InitInv == Init => PlaybookInv
    <1> SUFFICES ASSUME Init PROVE PlaybookInv
        OBVIOUS
    <1>1. /\ file = [there |-> FALSE, st |-> EmptyState] /\ run = Idle
          /\ olm = [o \in Operators |-> NewSubscription]
          /\ snaps = [k \in 1..Cardinality(Channels) |-> NoSnapshot]
          /\ hist = [runs |-> 0, faults |-> 0, report |-> "", ok |-> {}, jumped |-> FALSE,
                     began |-> NotBegun, sure |-> {}]
        BY Zenon DEF Init
    <1>2. Loaded(pb)
        BY LoadedPlaybook, Zenon DEF Init
    <1>3. OlmInv
        BY <1>1, NewSubscriptions DEF OlmInv
    <1>4. /\ run.at = "idle" /\ run.st = EmptyState /\ run \in Runs
          /\ EmptyState \in States
        BY <1>1, IdleFields
    <1>5. file \in Files /\ file.st = EmptyState
        BY <1>1, <1>4 DEF Files
    <1>6. hist.report = "" /\ hist.ok = {} /\ hist.sure = {} /\ hist.jumped = FALSE
        BY <1>1, Zenon
    <1>7. hist \in Histories
        <2>1. NotBegun \in [channel : Versions, crds : Versions]
            BY VersionsNat DEF NotBegun
        <2>2. "" \in Outcomes
            BY Zenon DEF Outcomes
        <2> DEFINE none == ""
        <2> HIDE DEF none
        <2>3. [runs |-> 0, faults |-> 0, report |-> none, ok |-> {}, jumped |-> FALSE,
               began |-> NotBegun, sure |-> {}] \in Histories
            <3> HIDE DEF NotBegun, Outcomes
            <3>1. none \in Outcomes
                BY <2>2 DEF none
            <3> QED
                BY <2>1, <3>1 DEF Histories
        <2> QED
            BY <1>1, <2>3, Zenon DEF none
    <1>8. Sound(EmptyState)
        BY DEF EmptyState, Sound, Done, Checked, Recorded, FailedNext
    <1>9. ~Complete
        BY <1>6, Zenon DEF Complete
    <1>10. HopsInstalled
        BY <1>6 DEF HopsInstalled
    <1>11. TypeInv
        BY <1>2, <1>4, <1>5, <1>7 DEF TypeInv
    <1>12. PlaceInv /\ ProgressInv /\ WatchInv
        BY <1>4, <1>5, <1>8, <1>9, <1>10
           DEF PlaceInv, ProgressInv, WatchInv, InStep, InHop, StepsDone, ValidatedUpgrade
    <1>13. SnapshotInv
        <2>1. \A k \in DOMAIN snaps :
                 /\ snaps[k] = [channel |-> 0, crds |-> <<>>]
                 /\ snaps[k].channel = 0 /\ snaps[k].crds = <<>>
            BY <1>1 DEF NoSnapshot
        <2>2. DOMAIN snaps = 1..Cardinality(Channels)
            BY <1>1
        <2>3. DOMAIN <<>> = {}
            OBVIOUS
        <2> QED
            BY <1>4, <2>1, <2>2, <2>3, VersionsNat DEF SnapshotInv, InHop
    <1> QED
        BY <1>3, <1>11, <1>12, <1>13 DEF PlaybookInv

-----------------------------------------------------------------------------
(* The theorems *)

\* The inductive invariant: what OLM, the state file, the snapshots and the
\* process of the playbook have to do with each other, for any playbooks,
\* any number of runs and any failing calls.
THEOREM PlaybookInvariant == Spec => []PlaybookInv
    <1>1. PlaybookInv /\ [Next]_vars => PlaybookInv'
        BY NextInv
    <1> QED
        BY <1>1, InitInv, PTL DEF Spec

\* A hop is recorded only when OLM has installed what its channel offers.
THEOREM HopsAreInstalled == Spec => []HopsInstalled
    <1>1. PlaybookInv => HopsInstalled
        BY DEF PlaybookInv, WatchInv
    <1> QED
        BY <1>1, PlaybookInvariant, PTL

\* A playbook that is reported complete, with no step jumped over by the user,
\* has executed each of its steps.
THEOREM StepsAreDone == Spec => []StepsDone
    <1>1. PlaybookInv => StepsDone
        BY DEF PlaybookInv, ProgressInv
    <1> QED
        BY <1>1, PlaybookInvariant, PTL

\* A playbook that ends with a check of the target is complete only on a
\* cluster that has the target version.
THEOREM UpgradeIsValidated == Spec => []ValidatedUpgrade
    <1>1. PlaybookInv => ValidatedUpgrade
        BY DEF PlaybookInv, ProgressInv
    <1> QED
        BY <1>1, PlaybookInvariant, PTL

\* A rollback that succeeds brings back the channel and the CRDs of the moment
\* its hop began.
THEOREM RollbackIsExact == Spec => RollbackRestores
    <1> DEFINE Exact == FailHop /\ run.snapped /\ run'.last = "rolled back" =>
                           /\ olm'[Op].crds = hist.began.crds
                           /\ run.hop > 1 => olm'[Op].channel = hist.began.channel
    <1>1. PlaybookInv /\ [Next]_vars => [Exact]_vars
        BY RollbackStep
    <1>2. RollbackRestores <=> [][Exact]_vars
        BY PTL DEF RollbackRestores
    <1> HIDE DEF Exact
    <1>3. Spec => [][Exact]_vars
        BY <1>1, PlaybookInvariant, PTL DEF Spec
    <1> QED
        BY <1>2, <1>3, PTL
=============================================================================
