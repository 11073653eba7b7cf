----------------------------- MODULE Reconciler -----------------------------
(***************************************************************************)
(* One reconcile cycle of reconcile.Engine at a time: ReconcileNow takes a *)
(* snapshot of the desired document, reads the lab, diffs, applies the     *)
(* operations one by one without rollback, reads the lab again and         *)
(* publishes a status.                                                     *)
(*                                                                         *)
(* Each operation is a step of its own, since a container or a veth pair   *)
(* can change behind the engine's back between any two driver calls.  An   *)
(* operation fails either because the driver refuses it in the state it    *)
(* finds (OpRejected) or through a fault of podman, the kernel or the      *)
(* context (OpFaults), which may have taken effect already.                *)
(***************************************************************************)
EXTENDS Diff, LabDriver, FiniteSets

CONSTANTS
    Documents,  \* the desired documents ReconcileNow may find in the store
    StrayNode,  \* what a node that appears behind the engine's back can be
    MaxFaults,  \* bound: entities hit by a fault in one cycle
    MaxDisturbances \* bound: outside changes between two first reads

ASSUME DocumentsAssumption ==
    /\ Documents \subseteq Document
    /\ \A d \in Documents : Valid(d.topology)

ASSUME StrayNodeAssumption == StrayNode \subseteq Node

ASSUME BoundsAssumption == MaxFaults \in Nat /\ MaxDisturbances \in Nat

VARIABLES
    doc,      \* ReconcileNow's copy of the store's document
    lab,      \* what runs on the machine: what ReadActual would return
    at,       \* where ReconcileNow is: idle, read (before ReadActual), apply
    todo,     \* the operations of this cycle not applied yet
    failed,   \* the failures map of this cycle
    status,   \* Engine.status
    faulted,  \* history: the entities a fault hit in this cycle
    disturbances \* history: how often anything but the cycle's operations has
                 \* changed lab since a cycle first read it

cycleVars == <<doc, at, todo, failed, faulted>>
reconcilerVars == <<cycleVars, lab, status, disturbances>>

disturbed == disturbances > 0

-----------------------------------------------------------------------------
\* Statuses.

Entity == [state : {"applying", "up", "error"}, drift : BOOLEAN]

Status == [version : Nat,
           nodes   : [NodeId -> Entity \cup {None}],
           links   : [LinkId -> Entity \cup {None}],
           error   : BOOLEAN]

newStatus(version) == [version |-> version,
                       nodes   |-> [n \in NodeId |-> None],
                       links   |-> [l \in LinkId |-> None],
                       error   |-> FALSE]

Applying == [state |-> "applying", drift |-> FALSE]
Up       == [state |-> "up",       drift |-> FALSE]
Drifted  == [state |-> "up",       drift |-> TRUE]
Failed   == [state |-> "error",    drift |-> FALSE]
Orphan   == [state |-> "error",    drift |-> TRUE]

Failures    == [nodes : SUBSET NodeId, links : SUBSET LinkId]
newFailures == [nodes |-> {}, links |-> {}]

IsNodeOp(o) == o.kind \in NodeOpKind

\* The map entry apply records an operation's failure under.
Blame(f, o) == IF IsNodeOp(o) THEN [f EXCEPT !.nodes = @ \cup {o.id}]
                              ELSE [f EXCEPT !.links = @ \cup {o.id}]

NodeTargets(ops) == {o.id : o \in {p \in ops : IsNodeOp(p)}}
LinkTargets(ops) == {o.id : o \in {p \in ops : ~ IsNodeOp(p)}}

\* Entities no operation touches keep what the last cycle said of them.
applyingStatus(st, version, ops) ==
    [version |-> version,
     nodes |-> [n \in NodeId |-> IF n \in NodeTargets(ops) THEN Applying
                                                           ELSE st.nodes[n]],
     links |-> [l \in LinkId |-> IF l \in LinkTargets(ops) THEN Applying
                                                           ELSE st.links[l]],
     error |-> FALSE]

\* One entity's line of buildStatus: an entity that failed, is missing, has
\* operations outstanding, or runs although nobody wants it.
Outcome(wanted, there, hasFailed, outstanding) ==
    CASE wanted /\ hasFailed                      -> Failed
      [] wanted /\ ~ hasFailed /\ ~ there         -> Failed
      [] wanted /\ ~ hasFailed /\ there /\ outstanding   -> Drifted
      [] wanted /\ ~ hasFailed /\ there /\ ~ outstanding -> Up
      [] ~ wanted /\ there                        -> Orphan
      [] ~ wanted /\ ~ there                      -> None

\* Broken: recorded failures are not looked at.
buildStatusForgetsFailures(d, actual, f) ==
    [version |-> d.version,
     nodes |-> [n \in NodeId |-> Outcome(n \in NodesOf(d.topology), actual.nodes[n] # None,
                                         FALSE, n \in NodeTargets(Diff(d.topology, actual)))],
     links |-> [l \in LinkId |-> Outcome(l \in LinksOf(d.topology), actual.links[l] # None,
                                         FALSE, l \in LinkTargets(Diff(d.topology, actual)))],
     error |-> FALSE]

buildStatus(d, actual, f) ==
    [version |-> d.version,
     nodes |-> [n \in NodeId |-> Outcome(n \in NodesOf(d.topology), actual.nodes[n] # None,
                                         n \in f.nodes,
                                         n \in NodeTargets(Diff(d.topology, actual)))],
     links |-> [l \in LinkId |-> Outcome(l \in LinksOf(d.topology), actual.links[l] # None,
                                         l \in f.links,
                                         l \in LinkTargets(Diff(d.topology, actual)))],
     error |-> FALSE]

-----------------------------------------------------------------------------
\* Engine.applyOp: what an operation asks of the driver.

Rejects(d, o) ==
    CASE o.kind = "UpdateNodeConfig" -> ~ CanUpdateNodeConfig(lab, o.id)
      [] o.kind = "CreateLink"       -> ~ CanCreateLink(lab, o.id, d.links[o.id])
      [] OTHER                       -> FALSE

Effect(d, o) ==
    CASE o.kind = "DestroyLink"      -> DestroyLink(lab, o.id)
      [] o.kind = "DestroyNode"      -> DestroyNode(lab, o.id)
      [] o.kind = "CreateNode"       -> CreateNode(lab, o.id, d.nodes[o.id])
      [] o.kind = "CreateLink"       -> CreateLink(lab, o.id, d.links[o.id])
      [] o.kind = "UpdateNodeConfig" -> UpdateNodeConfig(lab, o.id, d.nodes[o.id])

\* The operation at the head of the rest of the list.
IsNext(o) == /\ o \in todo
             /\ \A p \in todo \ {o} : Precedes(doc.topology, o, p)

-----------------------------------------------------------------------------
\* The cycle.

ReconcilerInit ==
    /\ doc \in Documents
    /\ lab \in {d.topology : d \in Documents}
    /\ at = "idle"
    /\ todo = {}
    /\ failed = newFailures
    /\ faulted = newFailures
    /\ status = newStatus(0)
    /\ disturbances = 1   \* nothing has read the lab yet

\* ReconcileNow takes its snapshot of the store.
BeginCycle(d) ==
    /\ at = "idle"
    /\ doc' = d
    /\ at' = "read"
    /\ UNCHANGED <<lab, todo, failed, faulted, status, disturbances>>

\* Broken: an error ends the cycle with operations left over.
CycleFailsMidway ==
    /\ at \in {"read", "apply"}
    /\ status' = [status EXCEPT !.version = doc.version, !.error = TRUE]
    /\ at' = "idle"
    /\ UNCHANGED <<doc, lab, todo, failed, faulted, disturbances>>

\* fail: a ReadActual that errs, before the operations or after them, ends the
\* cycle.  Entities keep the state they had.
CycleFails ==
    /\ \/ at = "read"
       \/ at = "apply" /\ todo = {}
    /\ status' = [status EXCEPT !.version = doc.version, !.error = TRUE]
    /\ at' = "idle"
    /\ UNCHANGED <<doc, lab, todo, failed, faulted, disturbances>>

\* Nothing to do: report what was read.
FindsConverged ==
    /\ at = "read"
    /\ Diff(doc.topology, lab) = {}
    /\ failed' = newFailures
    /\ faulted' = newFailures
    /\ status' = buildStatus(doc, lab, newFailures)
    /\ disturbances' = 0
    /\ at' = "idle"
    /\ UNCHANGED <<doc, lab, todo>>

StartsApply ==
    /\ at = "read"
    /\ Diff(doc.topology, lab) # {}
    /\ todo' = Diff(doc.topology, lab)
    /\ failed' = newFailures
    /\ faulted' = newFailures
    /\ status' = applyingStatus(status, doc.version, Diff(doc.topology, lab))
    /\ disturbances' = 0
    /\ at' = "apply"
    /\ UNCHANGED <<doc, lab>>

OpSucceeds(o) ==
    /\ at = "apply"
    /\ IsNext(o)
    /\ ~ Rejects(doc.topology, o)
    /\ lab' = Effect(doc.topology, o)
    /\ todo' = todo \ {o}
    /\ UNCHANGED <<doc, at, failed, faulted, status, disturbances>>

\* Broken: an error is dropped.
OpRejectedUnrecorded(o) ==
    /\ at = "apply"
    /\ IsNext(o)
    /\ Rejects(doc.topology, o)
    /\ todo' = todo \ {o}
    /\ UNCHANGED <<doc, at, lab, failed, faulted, status, disturbances>>

\* No rollback: the failure is recorded and the next operation is tried.
OpRejected(o) ==
    /\ at = "apply"
    /\ IsNext(o)
    /\ Rejects(doc.topology, o)
    /\ failed' = Blame(failed, o)
    /\ todo' = todo \ {o}
    /\ UNCHANGED <<doc, at, lab, faulted, status, disturbances>>

OpFaults(o) ==
    /\ at = "apply"
    /\ IsNext(o)
    /\ ~ Rejects(doc.topology, o)
    /\ Cardinality(faulted.nodes) + Cardinality(faulted.links) < MaxFaults
    /\ lab' \in {lab, Effect(doc.topology, o)}
    /\ failed' = Blame(failed, o)
    /\ faulted' = Blame(faulted, o)
    /\ todo' = todo \ {o}
    /\ UNCHANGED <<doc, at, status, disturbances>>

\* The second ReadActual and the status built from it.
Verify ==
    /\ at = "apply"
    /\ todo = {}
    /\ status' = buildStatus(doc, lab, failed)
    /\ at' = "idle"
    /\ UNCHANGED <<doc, lab, todo, failed, faulted, disturbances>>

CycleStep ==
    \/ CycleFails
    \/ FindsConverged
    \/ StartsApply
    \/ \E o \in todo : OpSucceeds(o)
    \/ \E o \in todo : OpRejected(o)
    \/ \E o \in todo : OpFaults(o)
    \/ Verify

-----------------------------------------------------------------------------
\* What happens to the lab behind the engine's back.

Disturb == /\ disturbances < MaxDisturbances
           /\ disturbances' = disturbances + 1

\* A container dies, and the veth ends in its namespace with it.
NodeDies(n) ==
    /\ lab.nodes[n] # None
    /\ lab' = DestroyNode(lab, n)
    /\ Disturb
    /\ UNCHANGED <<cycleVars, status>>

\* A container of this owner appears, or takes the place of one.
NodeAppears(n, node) ==
    /\ lab' = WithNode(lab, n, node)
    /\ Disturb
    /\ UNCHANGED <<cycleVars, status>>

\* Somebody deletes a veth pair by hand.
LinkVanishes(l) ==
    /\ lab.links[l] # None
    /\ lab' = DestroyLink(lab, l)
    /\ Disturb
    /\ UNCHANGED <<cycleVars, status>>

Disturbance ==
    \/ \E n \in NodeId : NodeDies(n)
    \/ \E n \in NodeId, node \in StrayNode : NodeAppears(n, node)
    \/ \E l \in LinkId : LinkVanishes(l)

ReconcilerNext ==
    \/ \E d \in Documents : BeginCycle(d)
    \/ CycleStep
    \/ Disturbance

ReconcilerSpec == ReconcilerInit /\ [][ReconcilerNext]_reconcilerVars

-----------------------------------------------------------------------------
(* What the cycle promises.  An undisturbed cycle is one in which the lab  *)
(* changes through the cycle's own operations only (~ disturbed).          *)

desired == doc.topology

NodeIsRight(n) == lab.nodes[n] = desired.nodes[n]

LinkIsRight(l) == /\ lab.links[l] # None
                  /\ desired.links[l] # None
                  /\ endpointsEqual(desired.links[l], lab.links[l])
LinkIsAsWanted(l) == \/ LinkIsRight(l)
                     \/ lab.links[l] = None /\ desired.links[l] = None

\* The variables range over what the Go types can hold, and no operations are
\* left over outside apply.
TypeOK ==
    /\ doc \in Document
    /\ lab \in Topo
    /\ at \in {"idle", "read", "apply"}
    /\ todo \subseteq OpSet
    /\ at # "apply" => todo = {}
    /\ failed \in Failures
    /\ faulted \in Failures
    /\ status \in Status
    /\ disturbances \in Nat

\* "One bad node does not stop the rest of the topology from converging": when
\* apply is through, every node and every link no failure was recorded against
\* is what the document asks for, whatever else failed and however far.
FailuresStayIsolated ==
    at = "apply" /\ todo = {} /\ ~ disturbed =>
        /\ \A n \in NodeId \ failed.nodes : NodeIsRight(n)
        /\ \A l \in LinkId \ failed.links : LinkIsAsWanted(l)

\* The order of phases never makes an operation fail: a node fails only if a
\* fault hit it, a link only if a fault hit it or one of its end nodes.
FailuresAreExplained ==
    at = "apply" /\ ~ disturbed =>
        /\ failed.nodes \subseteq faulted.nodes
        /\ \A l \in failed.links \ faulted.links :
              \E ep \in EndsOf(desired.links[l]) : ep.node \in faulted.nodes

\* Without faults one cycle is enough: a second Diff would find nothing.
CleanCycleConverges ==
    at = "apply" /\ todo = {} /\ ~ disturbed /\ faulted = newFailures =>
        Diff(desired, lab) = {}

\* What a status st that reports the failures f should say of the lab: a desired
\* node or link is red because an operation on it failed, or up because it is
\* there and right (a link may be marked as drifted next to a node that failed);
\* whatever should be gone is absent, or an orphan whose removal failed.
Tells(f, st) ==
    /\ \A n \in NodesOf(desired) :
          \/ n \in f.nodes /\ st.nodes[n] = Failed
          \/ NodeIsRight(n) /\ st.nodes[n] = Up
    /\ \A n \in NodeId \ NodesOf(desired) :
          \/ lab.nodes[n] = None /\ st.nodes[n] = None
          \/ n \in f.nodes /\ st.nodes[n] = Orphan
    /\ \A l \in LinksOf(desired) :
          \/ l \in f.links /\ st.links[l] = Failed
          \/ LinkIsRight(l) /\ st.links[l] = Up
          \/ /\ LinkIsRight(l) /\ st.links[l] = Drifted
             /\ \E ep \in EndsOf(desired.links[l]) : ep.node \in f.nodes
    /\ \A l \in LinkId \ LinksOf(desired) :
          \/ lab.links[l] = None /\ st.links[l] = None
          \/ l \in f.links /\ st.links[l] = Orphan

\* The status of an undisturbed cycle tells its outcome, and leaves no entity
\* applying.
StatusTellsTheOutcome ==
    at = "idle" /\ ~ disturbed /\ ~ status.error =>
        /\ status.version = doc.version
        /\ Tells(failed, status)

\* Does node n run as the type and image the document asks for?
InPlace(n) == /\ desired.nodes[n] # None
              /\ lab.nodes[n] # None
              /\ ~ coldChange(desired.nodes[n], lab.nodes[n])

\* Nothing that can stay is taken down on the way: an undisturbed cycle never
\* removes a node that differs in hot fields only, nor a wire that is right
\* and runs between two such nodes.
NoNeedlessOutage ==
    [][at = "apply" /\ ~ disturbed /\ ~ disturbed' =>
          /\ \A n \in NodeId : InPlace(n) => lab'.nodes[n] # None
          /\ \A l \in LinkId :
                LinkIsRight(l) /\ (\A ep \in EndsOf(desired.links[l]) : InPlace(ep.node))
                    => lab'.links[l] # None]_reconcilerVars

\* "Links are torn down first so that node teardown never races a live veth":
\* an undisturbed cycle removes a node only when the veth pairs that still end
\* in it are ones DestroyLink failed on.
VethsGoFirst ==
    [][at = "apply" /\ ~ disturbed /\ ~ disturbed' =>
          \A n \in NodeId : lab.nodes[n] # None /\ lab'.nodes[n] = None =>
              \A l \in LinkId : Touches(lab.links[l], n) => l \in failed.links]_reconcilerVars

\* "Config is applied last so it lands on interfaces that already exist": when
\* UpdateNodeConfig is called for a node, every link the document attaches to
\* it is wired up, or has failed.
ConfigComesLast ==
    [][at = "apply" /\ ~ disturbed /\ ~ disturbed' =>
          \A n \in NodeId :
              NodeOp("UpdateNodeConfig", n) \in todo \ todo' =>
                  \A l \in LinkId :
                      Touches(desired.links[l], n) => LinkIsRight(l) \/ l \in failed.links]_reconcilerVars

-----------------------------------------------------------------------------
(* Why: what holds between any two operations of an undisturbed cycle.     *)

Pending(kind, id) == [kind |-> kind, id |-> id] \in todo

\* A node is destroyed only to be created again or because nobody wants it; a
\* node that is wanted and not about to be created is there; and a node no
\* failure was recorded against is right once its operations are through.
NodeOnTrack(n) ==
    /\ Pending("DestroyNode", n) /\ desired.nodes[n] # None =>
          /\ Pending("CreateNode", n)
          /\ lab.nodes[n] # None => coldChange(desired.nodes[n], lab.nodes[n])
    /\ Pending("CreateNode", n) \/ Pending("UpdateNodeConfig", n) =>
          desired.nodes[n] # None
    /\ n \notin failed.nodes =>
          /\ Pending("CreateNode", n) /\ ~ Pending("DestroyNode", n) =>
                lab.nodes[n] = None
          /\ desired.nodes[n] # None /\ ~ Pending("CreateNode", n) =>
                /\ lab.nodes[n] # None
                /\ ~ Pending("UpdateNodeConfig", n) => NodeIsRight(n)
          /\ desired.nodes[n] = None /\ ~ Pending("DestroyNode", n) =>
                lab.nodes[n] = None

\* The same for a link, which also must not lose an end to a DestroyNode that
\* is still to come without being created again after it.
LinkOnTrack(l) ==
    /\ Pending("DestroyLink", l) /\ desired.links[l] # None =>
          /\ Pending("CreateLink", l)
          /\ LinkIsRight(l) => \E ep \in EndsOf(desired.links[l]) :
                                  Pending("DestroyNode", ep.node)
    /\ Pending("CreateLink", l) => desired.links[l] # None
    /\ l \notin failed.links =>
          /\ Pending("CreateLink", l) /\ ~ Pending("DestroyLink", l) =>
                lab.links[l] = None
          /\ desired.links[l] # None /\ ~ Pending("CreateLink", l) =>
                /\ LinkIsRight(l)
                /\ \A ep \in EndsOf(desired.links[l]) :
                      ~ Pending("DestroyNode", ep.node)
          /\ desired.links[l] = None /\ ~ Pending("DestroyLink", l) =>
                lab.links[l] = None

OnTrack == /\ \A n \in NodeId : NodeOnTrack(n)
           /\ \A l \in LinkId : LinkOnTrack(l)

\* The inductive strengthening of FailuresStayIsolated and FailuresAreExplained:
\* every node and link is on track, whatever operations are still to come.
CycleOnTrack == at = "apply" /\ ~ disturbed => OnTrack

=============================================================================
