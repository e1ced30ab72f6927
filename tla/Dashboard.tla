----------------------------- MODULE Dashboard -----------------------------
(***************************************************************************)
(* The dashboard's process: the periodic sync of ChaosExperiments into its *)
(* store (dashboard/internal/watcher, convert and store) and the broker    *)
(* that passes them on to live viewers (dashboard/internal/api/sse.go),    *)
(* with the shutdown of cmd/dashboard/main.go.                             *)
(*                                                                         *)
(* The broker's loop, the sync loop, Stop and one handler per viewer are   *)
(* goroutines.  register and unregister are rendezvous: the step of the    *)
(* broker that receives is the step of the handler that sends.  Of the     *)
(* messages in a channel only their number matters here.                   *)
(***************************************************************************)
EXTENDS Integers, Sequences, FiniteSets, FiniteSetsExt, SequencesExt

CONSTANTS Experiments,  \* names of ChaosExperiments
          Viewers,      \* handlers of the live endpoint
          QueueSize,    \* capacity of the broadcast channel
          BufferSize,   \* capacity of a viewer's channel
          MaxTime,      \* bound of the clock, in seconds of the timestamps
          MaxChanges    \* bound of the changes of ChaosExperiments

ASSUME SizesAssumption ==
    /\ QueueSize \in Nat \ {0} /\ BufferSize \in Nat \ {0} /\ MaxTime \in Nat /\ MaxChanges \in Nat
    /\ IsFiniteSet(Experiments)

VARIABLES now, changes, crs, rows, sync, broker, viewer, stopping

vars == <<now, changes, crs, rows, sync, broker, viewer, stopping>>

-----------------------------------------------------------------------------
(* The cluster: experiments are created, started, judged, deleted and       *)
(* created again.  StartTime is never before the creation.  Once the        *)
(* dashboard stops nothing reads them any more.                             *)

Phases == <<"Pending", "Observing", "Complete">>  \* the others are like these
RunningPhases == {"Pending", "Observing"}
NoCR == [created |-> -1, started |-> -1, phase |-> "Pending"]

Change(n, cr) ==
    /\ stopping = "no" /\ changes < MaxChanges /\ changes' = changes + 1
    /\ crs' = [crs EXCEPT ![n] = cr] /\ UNCHANGED <<now, rows, sync, broker, viewer, stopping>>
Create(n) == crs[n] = NoCR /\ Change(n, [NoCR EXCEPT !.created = now])
Proceed(n) ==
    /\ crs[n] # NoCR
    /\ \E k \in 2..Len(Phases) :
          /\ crs[n].phase = Phases[k-1]
          /\ Change(n, [crs[n] EXCEPT !.phase = Phases[k],
                          !.started = IF Phases[k] = "Observing" THEN now ELSE @])
Delete(n) == crs[n] # NoCR /\ Change(n, NoCR)
Tick ==
    /\ stopping = "no" /\ now < MaxTime /\ now' = now + 1
    /\ UNCHANGED <<changes, crs, rows, sync, broker, viewer, stopping>>

-----------------------------------------------------------------------------
(* The store: rows by id, which is the name and the start time.             *)

\* The row of a ChaosExperiment: until it has a StartTime, its creation counts.
FromCR(n, cr) ==
    [name |-> n, start |-> IF cr.started >= 0 THEN cr.started ELSE cr.created, phase |-> cr.phase]
SameId(a, b) == a.name = b.name /\ a.start = b.start

UpsertKeepsFirst(exp) == IF \E r \in rows : SameId(r, exp) THEN rows ELSE rows \cup {exp}

Upsert(exp) == {r \in rows : ~SameId(r, exp)} \cup {exp}

\* The last row of a name.
Get(n) ==
    LET own == {r \in rows : r.name = n}
    IN  CHOOSE r \in own : \A q \in own : q.start <= r.start

ListRunning == {r \in rows : r.phase \in RunningPhases}

-----------------------------------------------------------------------------
(* SyncOnce, one experiment after the other.                                *)

Nothing == [at |-> "idle", listed |-> <<>>, i |-> 1, whole |-> TRUE]

SyncOnce ==
    /\ sync.at = "idle" /\ stopping = "no"
    /\ \E order \in SetToSeqs({n \in Experiments : crs[n] # NoCR}) :
          sync' = IF order = <<>> THEN Nothing ELSE
                  [Nothing EXCEPT !.at = "upsert",
                                  !.listed = [k \in DOMAIN order |-> FromCR(order[k], crs[order[k]])]]
    /\ UNCHANGED <<now, changes, crs, rows, broker, viewer, stopping>>

Item == sync.listed[sync.i]
NextItem == IF sync.i = Len(sync.listed) THEN Nothing ELSE [sync EXCEPT !.at = "upsert", !.i = @ + 1]

\* An error of the store is logged; the next experiment follows.
HandleCREvent ==
    /\ sync.at = "upsert"
    /\ \/ rows' = Upsert(Item) /\ sync' = [sync EXCEPT !.at = "broadcast"]
       \/ UNCHANGED rows /\ sync' = (IF NextItem = Nothing THEN Nothing ELSE [NextItem EXCEPT !.whole = FALSE])
    /\ UNCHANGED <<now, changes, crs, broker, viewer, stopping>>

\* Broadcast selects between the queue, when it has room, and the stop channel.
BroadcastBlocking ==
    /\ sync.at = "broadcast" /\ sync' = NextItem
    /\ broker.queue < QueueSize
    /\ broker' = [broker EXCEPT !.queue = @ + 1]
    /\ UNCHANGED <<now, changes, crs, rows, viewer, stopping>>

Broadcast ==
    /\ sync.at = "broadcast" /\ sync' = NextItem
    /\ \/ /\ broker.queue < QueueSize
          /\ broker' = [broker EXCEPT !.queue = @ + 1]
       \/ stopping # "no" /\ UNCHANGED broker
    /\ UNCHANGED <<now, changes, crs, rows, viewer, stopping>>

-----------------------------------------------------------------------------
(* The broker's loop.  A second close of a channel, or a send to a closed   *)
(* one, ends the process with a panic.                                      *)

Close(c) == [viewer[c] EXCEPT !.closed = TRUE]

Register(c) ==
    /\ broker.running /\ viewer[c].at = "register"
    /\ broker' = [broker EXCEPT !.clients = @ \cup {c}]
    /\ viewer' = [viewer EXCEPT ![c].at = "serve"]
    /\ UNCHANGED <<now, changes, crs, rows, sync, stopping>>

UnregisterKeepsClient(c) ==
    /\ broker.running /\ viewer[c].at = "leave"
    /\ broker' = [broker EXCEPT !.panic = @ \/ viewer[c].closed]
    /\ viewer' = [viewer EXCEPT ![c] = [Close(c) EXCEPT !.at = "gone", !.buffer = 0]]
    /\ UNCHANGED <<now, changes, crs, rows, sync, stopping>>

Unregister(c) ==
    /\ broker.running /\ viewer[c].at = "leave"
    /\ broker' = [broker EXCEPT !.clients = @ \ {c}, !.panic = @ \/ viewer[c].closed]
    /\ viewer' = [viewer EXCEPT ![c] = [Close(c) EXCEPT !.at = "gone", !.buffer = 0]]
    /\ UNCHANGED <<now, changes, crs, rows, sync, stopping>>

\* Whoever has no room left misses the message.
PassOn ==
    /\ broker.running /\ broker.queue > 0
    /\ broker' = [broker EXCEPT !.queue = @ - 1,
                    !.panic = @ \/ \E c \in broker.clients : viewer[c].closed]
    /\ viewer' = [c \in Viewers |->
                    IF c \in broker.clients /\ viewer[c].buffer < BufferSize
                    THEN [viewer[c] EXCEPT !.buffer = @ + 1] ELSE viewer[c]]
    /\ UNCHANGED <<now, changes, crs, rows, sync, stopping>>

StoppedWithoutClosing ==
    /\ broker.running /\ stopping # "no"
    /\ broker' = [broker EXCEPT !.running = FALSE]
    /\ UNCHANGED <<now, changes, crs, rows, sync, viewer, stopping>>

Stopped ==
    /\ broker.running /\ stopping # "no"
    /\ broker' = [broker EXCEPT !.running = FALSE,
                    !.panic = @ \/ \E c \in broker.clients : viewer[c].closed]
    /\ viewer' = [c \in Viewers |-> IF c \in broker.clients THEN Close(c) ELSE viewer[c]]
    /\ UNCHANGED <<now, changes, crs, rows, sync, stopping>>

\* Stop closes the stop channel, then empties the queue beside everybody else.
Stop ==
    /\ stopping = "no" /\ stopping' = "draining"
    /\ UNCHANGED <<now, changes, crs, rows, sync, broker, viewer>>
Drain ==
    /\ stopping = "draining"
    /\ \/ broker.queue > 0 /\ broker' = [broker EXCEPT !.queue = @ - 1] /\ UNCHANGED stopping
       \/ broker.queue = 0 /\ stopping' = "done" /\ UNCHANGED broker
    /\ UNCHANGED <<now, changes, crs, rows, sync, viewer>>

-----------------------------------------------------------------------------
(* A viewer's handler.                                                      *)

Handler(c, new) == viewer' = [viewer EXCEPT ![c] = new] /\ UNCHANGED <<now, changes, crs, rows, sync, broker, stopping>>

\* The server accepts requests until Stop has returned.
Connect(c) ==
    /\ viewer[c].at = "off" /\ stopping # "done"
    /\ Handler(c, [viewer[c] EXCEPT !.at = "register"])
Receive(c) ==
    /\ viewer[c].at = "serve"
    /\ \/ viewer[c].buffer > 0 /\ Handler(c, [viewer[c] EXCEPT !.buffer = @ - 1])
       \/ viewer[c].buffer = 0 /\ viewer[c].closed /\ Handler(c, [viewer[c] EXCEPT !.at = "leave"])
Disconnect(c) == viewer[c].at = "serve" /\ Handler(c, [viewer[c] EXCEPT !.at = "leave"])
LeaveStopped(c) ==
    /\ viewer[c].at = "leave" /\ stopping # "no"
    /\ Handler(c, [viewer[c] EXCEPT !.at = "gone", !.buffer = 0])

-----------------------------------------------------------------------------
Init ==
    /\ now = 0 /\ changes = 0 /\ crs = [n \in Experiments |-> NoCR] /\ rows = {}
    /\ sync = Nothing /\ stopping = "no"
    /\ broker = [running |-> TRUE, clients |-> {}, queue |-> 0, panic |-> FALSE]
    /\ viewer = [c \in Viewers |-> [at |-> "off", buffer |-> 0, closed |-> FALSE]]

Syncing == SyncOnce \/ HandleCREvent \/ Broadcast
Serving(c) == Receive(c) \/ LeaveStopped(c)
Brokering == PassOn \/ \E c \in Viewers : Register(c) \/ Unregister(c)

Next == \/ Tick \/ \E n \in Experiments : Create(n) \/ Proceed(n) \/ Delete(n)
        \/ Syncing \/ Brokering \/ Stopped \/ Stop \/ Drain
        \/ \E c \in Viewers : Connect(c) \/ Serving(c) \/ Disconnect(c)

\* The goroutines run; a select does not for ever pass over a case that is ready.
Fairness == /\ WF_vars(HandleCREvent) /\ WF_vars(Broadcast) /\ WF_vars(Brokering) /\ WF_vars(Stopped)
            /\ WF_vars(Drain) /\ \A c \in Viewers : WF_vars(Serving(c))
Spec == Init /\ [][Next]_vars /\ Fairness

-----------------------------------------------------------------------------
\* The broker never closes a viewer's channel twice and never sends to a closed
\* one, whoever leaves or arrives while it stops.
NoPanic == ~broker.panic

\* When a sync has stored all it listed without an error, Get answers for every
\* experiment with the phase it was listed with, although rows of its earlier
\* incarnations, and of itself from before it was started, stay behind; and what
\* ran then is in ListRunning.
GetShowsCurrent ==
    sync.at = "broadcast" /\ sync.whole /\ sync.i = Len(sync.listed) =>
        \A k \in DOMAIN sync.listed :
            LET exp == sync.listed[k]
            IN  /\ Get(exp.name).phase = exp.phase
                /\ exp.phase \in RunningPhases => Get(exp.name) \in ListRunning

\* The sync never stays blocked on the broker, not even on one that has stopped.
SyncReturns == []<>(sync.at = "idle")

\* Once the broker is stopped, every viewer it has taken on is let go, and Stop
\* returns.
ViewersLetGo ==
    (stopping # "no") ~> /\ stopping = "done"
                         /\ \A c \in Viewers : viewer[c].at \in {"off", "register", "gone"}
=============================================================================
