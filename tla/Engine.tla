------------------------------- MODULE Engine -------------------------------
(***************************************************************************)
(* The running program: the store and the HTTP handlers that write it      *)
(* (Store), the engine's Run loop with its debounce timer, the reconcile   *)
(* cycle it drives (Reconciler), and the process itself, which can die at  *)
(* any step and comes back through Adopt.  The lab outlives the process;   *)
(* the document, the status and every pending wake-up do not.              *)
(***************************************************************************)
EXTENDS Store, Reconciler

CONSTANTS
    MaxRequests,  \* bound: explicit POST /api/reconcile
    MaxCrashes    \* bound: deaths of the process

ASSUME EngineBoundsAssumption == MaxRequests \in Nat /\ MaxCrashes \in Nat

VARIABLES
    alive,     \* is the process running?
    trigger,   \* Engine.trigger: is its slot full?
    armed,     \* Run: is the debounce timer armed?
    adopted,   \* history: did the last Adopt leave the store as it should?
    untouched, \* history: since the last start, has no client changed the
               \* document and nothing from outside the lab?
    requests,  \* POST /api/reconcile so far
    crashes    \* deaths so far

loopVars    == <<trigger, armed>>
historyVars == <<adopted, untouched>>
processVars == <<alive, crashes>>
engineVars  == <<storeVars, reconcilerVars, loopVars, historyVars,
                 processVars, requests>>

EngineInit ==
    /\ StoreInit
    /\ lab \in {d.topology : d \in Documents}
    /\ doc = NewStore
    /\ at = "idle"
    /\ todo = {}
    /\ failed = newFailures
    /\ faulted = newFailures
    /\ status = newStatus(0)
    /\ disturbances = 1   \* nothing has read the lab yet
    /\ alive = FALSE
    /\ trigger = FALSE
    /\ armed = FALSE
    /\ adopted = FALSE
    /\ untouched = TRUE
    /\ requests = 0
    /\ crashes = 0

-----------------------------------------------------------------------------
\* Requests.

Clients ==
    /\ alive
    /\ ClientStep
    /\ untouched' = (untouched /\ store' = store)
    /\ UNCHANGED <<reconcilerVars, loopVars, adopted, processVars, requests>>

\* POST /api/reconcile: Engine.Trigger.
Trigger ==
    /\ alive
    /\ requests < MaxRequests
    /\ requests' = requests + 1
    /\ trigger' = TRUE
    /\ UNCHANGED <<storeVars, reconcilerVars, armed, historyVars, processVars>>

-----------------------------------------------------------------------------
\* Engine.Run: one goroutine, so the channels are looked at between cycles.

\* Broken: the wake-up is taken and the timer not armed.
RunTakesChangeUnarmed ==
    /\ alive /\ at = "idle"
    /\ TakesChange
    /\ armed' = armed
    /\ UNCHANGED <<reconcilerVars, trigger, historyVars, processVars, requests>>

RunTakesChange ==
    /\ alive /\ at = "idle"
    /\ TakesChange
    /\ armed' = TRUE
    /\ UNCHANGED <<reconcilerVars, trigger, historyVars, processVars, requests>>

\* Broken: the request is taken and the timer not armed.
RunTakesTriggerUnarmed ==
    /\ alive /\ at = "idle"
    /\ trigger
    /\ trigger' = FALSE
    /\ UNCHANGED <<storeVars, reconcilerVars, armed, historyVars, processVars,
                   requests>>

RunTakesTrigger ==
    /\ alive /\ at = "idle"
    /\ trigger
    /\ trigger' = FALSE
    /\ armed' = TRUE
    /\ UNCHANGED <<storeVars, reconcilerVars, historyVars, processVars, requests>>

\* The timer fires and ReconcileNow takes its snapshot.
TimerFires ==
    /\ alive
    /\ armed
    /\ armed' = FALSE
    /\ BeginCycle(store)
    /\ UNCHANGED <<storeVars, trigger, historyVars, processVars, requests>>

RunReconciles ==
    /\ alive
    /\ CycleStep
    /\ UNCHANGED <<storeVars, loopVars, historyVars, processVars, requests>>

-----------------------------------------------------------------------------
\* The machine and the process.

LabDisturbed ==
    /\ Disturbance
    /\ untouched' = FALSE
    /\ UNCHANGED <<storeVars, loopVars, adopted, processVars, requests>>

\* The process dies; an operation under way has reached the lab or has not.
Crash ==
    /\ alive
    /\ crashes < MaxCrashes
    /\ alive' = FALSE
    /\ crashes' = crashes + 1
    /\ store' = NewStore
    /\ changes' = FALSE
    /\ handler' = [c \in Client |-> NoRequest]
    /\ doc' = NewStore
    /\ at' = "idle"
    /\ todo' = {}
    /\ failed' = newFailures
    /\ faulted' = newFailures
    /\ status' = newStatus(0)
    /\ disturbances' = 1
    /\ trigger' = FALSE
    /\ armed' = FALSE
    /\ UNCHANGED <<lab, seen, historyVars, requests>>

Starts ==
    /\ ~ alive
    /\ alive' = TRUE
    /\ untouched' = TRUE
    /\ UNCHANGED <<reconcilerVars, loopVars, handler, seen, crashes, requests>>

\* Broken: links are not adopted.
AdoptsNodesOnly ==
    /\ Starts
    /\ lab # EmptyTopo
    /\ Valid(lab)
    /\ store' = [topology |-> [lab EXCEPT !.links = EmptyTopo.links], version |-> 1]
    /\ changes' = TRUE
    /\ adopted' = TRUE

\* Engine.Adopt before Run.  The engine has subscribed by then, so an adopted
\* document is a change to it.
AdoptSucceeds ==
    /\ Starts
    /\ lab # EmptyTopo
    /\ Valid(lab)
    /\ store' = [topology |-> lab, version |-> 1]
    /\ changes' = TRUE
    /\ adopted' = TRUE

AdoptFindsNothing ==
    /\ Starts
    /\ lab = EmptyTopo
    /\ adopted' = TRUE
    /\ UNCHANGED <<store, changes>>

\* ReadActual errs, or Replace finds the lab invalid.  run logs it and goes on.
AdoptFails ==
    /\ Starts
    /\ lab # EmptyTopo
    /\ adopted' = FALSE
    /\ UNCHANGED <<store, changes>>

EngineNext ==
    \/ Clients
    \/ Trigger
    \/ RunTakesChange
    \/ RunTakesTrigger
    \/ TimerFires
    \/ RunReconciles
    \/ LabDisturbed
    \/ Crash
    \/ AdoptSucceeds
    \/ AdoptFindsNothing
    \/ AdoptFails

EngineSpec == EngineInit /\ [][EngineNext]_engineVars

(***************************************************************************)
(* Fairness: the goroutines of the program get to run.  Every handler      *)
(* finishes, select serves each ready channel in the end, the timer fires  *)
(* (requests are finitely many, so it is re-armed finitely often), and     *)
(* driver calls return, with or without an error.  Nobody has to send      *)
(* requests, and nothing restarts a dead process.                          *)
(***************************************************************************)
HandlerRuns(c) == alive /\ Answer(c) /\ Clients

EngineFairness ==
    /\ \A c \in Client : WF_engineVars(HandlerRuns(c))
    /\ WF_engineVars(RunTakesChange)
    /\ WF_engineVars(RunTakesTrigger)
    /\ WF_engineVars(TimerFires)
    /\ WF_engineVars(RunReconciles)

FairEngineSpec == EngineSpec /\ EngineFairness

-----------------------------------------------------------------------------

EngineTypeOK ==
    /\ StoreTypeOK
    /\ TypeOK
    /\ alive \in BOOLEAN
    /\ trigger \in BOOLEAN
    /\ armed \in BOOLEAN
    /\ adopted \in BOOLEAN
    /\ untouched \in BOOLEAN
    /\ requests \in Nat
    /\ crashes \in Nat

\* A document the engine has not taken up yet is on its way to it: a handler
\* is about to announce it, the announcement waits in the channel, or the timer
\* runs.  The slot of depth one and the snapshot taken before the cycle never
\* let the last edit slip through.
NoLostWakeup ==
    alive /\ store.version # doc.version =>
        changes \/ armed \/ \E c \in Client : handler[c].pc = "replaced"

\* What is reported is never ahead of what was taken up, nor that of the store.
VersionsAreOrdered ==
    /\ status.version <= doc.version
    /\ doc.version <= store.version
    /\ doc.version = store.version => doc = store

\* While the process lives, no status is older than the one before it.
StatusNeverGoesBack ==
    [][alive /\ alive' => status.version <= status'.version]_engineVars

\* With no cycle running and none on its way, the last cycle was for the
\* document in the store; and if it met no failure and nobody touched the lab
\* since, the lab is that document.
Quiet == /\ alive /\ at = "idle" /\ ~ changes /\ ~ armed
         /\ \A c \in Client : handler[c].pc # "replaced"

QuietMeansDone ==
    Quiet /\ store.version # 0 =>
        /\ status.version = store.version
        /\ ~ status.error /\ ~ disturbed /\ failed = newFailures =>
              Diff(store.topology, lab) = {}

\* "A restart of the app is not a restart of the lab": when Adopt has taken the
\* lab over, the engine applies nothing to it until a client edits the document
\* or the lab changes from outside.
AdoptedLabIsLeftAlone == adopted /\ untouched => at # "apply"

\* The same whether Adopt succeeded or not.
RestartIsNotARestartOfTheLab == untouched => at # "apply"

\* Every edit is answered: a status of that version or a later one is published
\* unless the process dies first.
Answered(v) == at = "idle" /\ status.version >= v

EveryEditIsAnswered ==
    \A v \in 1 .. MaxVersion + Cardinality(Client) :
        (alive /\ store.version = v) ~> (~ alive \/ Answered(v))

\* Every POST /api/reconcile leads to a cycle that starts after it.
EveryRequestStartsACycle == trigger ~> (~ alive \/ at = "read")

=============================================================================
