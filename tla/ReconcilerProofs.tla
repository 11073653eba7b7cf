-------------------------- MODULE ReconcilerProofs --------------------------
(***************************************************************************)
(* Proofs about Reconciler, for every set of nodes, interfaces, links and  *)
(* documents, and any number of faults and disturbances.                   *)
(***************************************************************************)
EXTENDS Reconciler, TLAPS

-----------------------------------------------------------------------------
(* Types.                                                                  *)

\* Every operation Diff lists is one the driver has a method for.
LEMMA DiffType ==
    ASSUME NEW d \in Topo, NEW a \in Topo
    PROVE  Diff(d, a) \subseteq OpSet
BY DEF Diff, OpSet, NodeOp, LinkOp, NodeOpKind, LinkOpKind, Missing, Unwanted, Recreated,
       Updated, MissingLinks, UnwantedLinks, Rebuilt, NodesOf, LinksOf

LEMMA WithNodeType ==
    ASSUME NEW t \in Topo, NEW n \in NodeId, NEW node \in Node \cup {None}
    PROVE  WithNode(t, n, node) \in Topo
BY DEF WithNode, Topo

LEMMA WithLinkType ==
    ASSUME NEW t \in Topo, NEW l \in LinkId, NEW link \in Link \cup {None}
    PROVE  WithLink(t, l, link) \in Topo
BY DEF WithLink, Topo

\* What a driver method leaves behind is a lab again.
LEMMA DriverType ==
    ASSUME NEW t \in Topo
    PROVE  /\ \A n \in NodeId : DestroyNode(t, n) \in Topo
           /\ \A n \in NodeId, node \in Node \cup {None} :
                 /\ CreateNode(t, n, node) \in Topo
                 /\ UpdateNodeConfig(t, n, node) \in Topo
           /\ \A l \in LinkId : DestroyLink(t, l) \in Topo
           /\ \A l \in LinkId, link \in Link \cup {None} : CreateLink(t, l, link) \in Topo
<1>1. \A n \in NodeId : DestroyNode(t, n) \in Topo
  BY DEF DestroyNode, Topo
<1>2. \A n \in NodeId, node \in Node \cup {None} : /\ CreateNode(t, n, node) \in Topo
                                       /\ UpdateNodeConfig(t, n, node) \in Topo
  BY WithNodeType DEF CreateNode, UpdateNodeConfig
<1>3. \A l \in LinkId : DestroyLink(t, l) \in Topo
  BY WithLinkType DEF DestroyLink
<1>4. \A l \in LinkId, link \in Link \cup {None} : CreateLink(t, l, link) \in Topo
  BY WithLinkType DEF CreateLink
<1> QED  BY <1>1, <1>2, <1>3, <1>4

LEMMA buildStatusType ==
    ASSUME NEW d \in Document, NEW a \in Topo, NEW f \in Failures
    PROVE  buildStatus(d, a, f) \in Status
<1>1. \A n \in NodeId : buildStatus(d, a, f).nodes[n] \in Entity \cup {None}
  BY DEF buildStatus, Outcome, Entity, Failed, Drifted, Up, Orphan
<1>2. \A l \in LinkId : buildStatus(d, a, f).links[l] \in Entity \cup {None}
  BY DEF buildStatus, Outcome, Entity, Failed, Drifted, Up, Orphan
<1> QED  BY <1>1, <1>2 DEF buildStatus, Status, Document

LEMMA applyingStatusType ==
    ASSUME NEW st \in Status, NEW v \in Nat, NEW ops \in SUBSET OpSet
    PROVE  applyingStatus(st, v, ops) \in Status
BY DEF applyingStatus, Status, Applying, Entity

LEMMA BlameType ==
    ASSUME NEW f \in Failures, NEW o \in OpSet
    PROVE  Blame(f, o) \in Failures
BY DEF Blame, Failures, OpSet, IsNodeOp, NodeOpKind, LinkOpKind

LEMMA newStatusType == ASSUME NEW v \in Nat PROVE newStatus(v) \in Status
BY DEF newStatus, Status

LEMMA newFailuresType == newFailures \in Failures
BY DEF newFailures, Failures

LEMMA EffectType ==
    ASSUME TypeOK, NEW o \in todo
    PROVE  Effect(desired, o) \in Topo
<1>1. /\ desired \in Topo
      /\ lab \in Topo
      /\ o \in OpSet
  BY DEF TypeOK, Document, desired
<1>2. CASE o.kind \in NodeOpKind
  <2>1. o.id \in NodeId /\ desired.nodes[o.id] \in Node \cup {None}
    BY <1>1, <1>2 DEF OpSet, NodeOpKind, LinkOpKind, Topo
  <2> QED  BY <1>1, <1>2, <2>1, DriverType DEF Effect, NodeOpKind
<1>3. CASE o.kind \in LinkOpKind
  <2>1. o.id \in LinkId /\ desired.links[o.id] \in Link \cup {None}
    BY <1>1, <1>3 DEF OpSet, NodeOpKind, LinkOpKind, Topo
  <2> QED  BY <1>1, <1>3, <2>1, DriverType DEF Effect, LinkOpKind
<1> QED  BY <1>1, <1>2, <1>3 DEF OpSet

\* Every step of a cycle, whoever runs it, respects the types.
LEMMA CycleStepType ==
    ASSUME TypeOK, CycleStep
    PROVE  TypeOK'
<1> USE DEF TypeOK
<1>a. /\ desired \in Topo
      /\ doc.version \in Nat
      /\ Diff(desired, lab) \subseteq OpSet
  BY DiffType DEF Document, desired
<1>1. CASE CycleFails
  BY <1>1, <1>a DEF CycleFails, Status
<1>2. CASE FindsConverged
  BY <1>2, buildStatusType, newFailuresType DEF FindsConverged
<1>3. CASE StartsApply
  BY <1>3, <1>a, applyingStatusType, newFailuresType DEF StartsApply, desired
<1>4. ASSUME NEW o \in todo, OpSucceeds(o)
      PROVE  TypeOK'
  BY <1>4, EffectType DEF OpSucceeds, desired
<1>5. ASSUME NEW o \in todo, OpRejected(o)
      PROVE  TypeOK'
  BY <1>5, BlameType DEF OpRejected
<1>6. ASSUME NEW o \in todo, OpFaults(o)
      PROVE  TypeOK'
  BY <1>6, BlameType, EffectType DEF OpFaults, desired
<1>7. CASE Verify
  BY <1>7, buildStatusType DEF Verify
<1> QED  BY <1>1, <1>2, <1>3, <1>4, <1>5, <1>6, <1>7 DEF CycleStep

LEMMA DisturbanceType ==
    ASSUME TypeOK, Disturbance
    PROVE  TypeOK'
<1> USE DEF TypeOK, Disturb, cycleVars
<1>1. ASSUME NEW n \in NodeId, NodeDies(n)
      PROVE  TypeOK'
  BY <1>1, DriverType DEF NodeDies
<1>2. ASSUME NEW n \in NodeId, NEW node \in StrayNode, NodeAppears(n, node)
      PROVE  TypeOK'
  BY <1>2, WithNodeType, StrayNodeAssumption DEF NodeAppears
<1>3. ASSUME NEW l \in LinkId, LinkVanishes(l)
      PROVE  TypeOK'
  BY <1>3, DriverType DEF LinkVanishes
<1> QED  BY <1>1, <1>2, <1>3 DEF Disturbance

LEMMA BeginCycleType ==
    ASSUME TypeOK, NEW d \in Document, BeginCycle(d)
    PROVE  TypeOK'
BY DEF TypeOK, BeginCycle

LEMMA TypeInit == ReconcilerInit => TypeOK
BY DocumentsAssumption, newFailuresType, newStatusType
   DEF ReconcilerInit, TypeOK, Document

LEMMA TypeStep == TypeOK /\ [ReconcilerNext]_reconcilerVars => TypeOK'
<1> SUFFICES ASSUME TypeOK, [ReconcilerNext]_reconcilerVars
             PROVE  TypeOK'
  OBVIOUS
<1>1. ASSUME NEW d \in Documents, BeginCycle(d)
      PROVE  TypeOK'
  BY <1>1, BeginCycleType, DocumentsAssumption
<1>2. CASE UNCHANGED reconcilerVars
  BY <1>2 DEF TypeOK, reconcilerVars, cycleVars
<1> QED  BY <1>1, <1>2, CycleStepType, DisturbanceType DEF ReconcilerNext

\* The cycle and the lab only ever hold what their types allow.
THEOREM TypeCorrect == ReconcilerSpec => []TypeOK
BY TypeInit, TypeStep, PTL DEF ReconcilerSpec

-----------------------------------------------------------------------------
(* Every node and link stays on track.                                     *)

\* The list Diff computes puts everything on track.
LEMMA StartOnTrack ==
    ASSUME TypeOK, Valid(desired), StartsApply
    PROVE  OnTrack'
<1> DEFINE d == desired
           ops == Diff(desired, lab)
<1>1. /\ todo' = ops /\ lab' = lab /\ desired' = d
      /\ failed' = newFailures
      /\ d \in Topo /\ lab \in Topo
  BY DEF StartsApply, desired, TypeOK, Document
<1>2. \A n \in NodeId :
         /\ Pending("DestroyNode", n)' <=> n \in Recreated(d, lab) \cup Unwanted(d, lab)
         /\ Pending("CreateNode", n)' <=> n \in Missing(d, lab) \cup Recreated(d, lab)
         /\ Pending("UpdateNodeConfig", n)' <=> n \in Updated(d, lab)
  BY <1>1 DEF Pending, Diff, NodeOp, LinkOp
<1>3. \A l \in LinkId :
         /\ Pending("DestroyLink", l)' <=> l \in Rebuilt(d, lab) \cup UnwantedLinks(d, lab)
         /\ Pending("CreateLink", l)' <=> l \in MissingLinks(d, lab) \cup Rebuilt(d, lab)
  BY <1>1 DEF Pending, Diff, NodeOp, LinkOp
<1>4. ASSUME NEW n \in NodeId
      PROVE  NodeOnTrack(n)'
  <2>1. n \in NodesOf(d) /\ n \in NodesOf(lab) /\ n \notin Recreated(d, lab)
        /\ n \notin Updated(d, lab) => d.nodes[n] = lab.nodes[n]
    <3> SUFFICES ASSUME n \in NodesOf(d), n \in NodesOf(lab),
                        n \notin Recreated(d, lab), n \notin Updated(d, lab)
                 PROVE  d.nodes[n] = lab.nodes[n]
      OBVIOUS
    <3>1. d.nodes[n] \in Node /\ lab.nodes[n] \in Node
      BY <1>1 DEF NodesOf, Topo
    <3>2. /\ d.nodes[n].type = lab.nodes[n].type
          /\ d.nodes[n].image = lab.nodes[n].image
          /\ d.nodes[n].config = lab.nodes[n].config
          /\ d.nodes[n].ifaces = lab.nodes[n].ifaces
      BY DEF Recreated, Updated, coldChange, hotChange
    <3> QED  BY <3>1, <3>2 DEF Node
  <2> QED
    BY <1>1, <1>2, <2>1 DEF NodeOnTrack, NodesOf, Recreated, Unwanted, Missing, Updated,
                            NodeIsRight, desired
<1>5. ASSUME NEW l \in LinkId
      PROVE  LinkOnTrack(l)'
  <2>1. l \in LinksOf(d) => \A ep \in EndsOf(d.links[l]) :
                              ep.node \in NodeId /\ ep.node \in NodesOf(d)
    BY <1>1 DEF Valid, EndpointExists, LinksOf, NodesOf, Topo, EndsOf, Link, Endpoint
  <2>2. l \in LinksOf(d) /\ ~ Pending("CreateLink", l)' =>
          /\ LinkIsRight(l)'
          /\ \A ep \in EndsOf(d.links[l]) : ~ Pending("DestroyNode", ep.node)'
    BY <1>1, <1>2, <1>3, <2>1
       DEF MissingLinks, Rebuilt, LinksOf, LinkIsRight, desired, Unwanted, Recreated
  <2>3. l \in LinksOf(d) /\ Pending("DestroyLink", l)' =>
          /\ Pending("CreateLink", l)'
          /\ LinkIsRight(l)' => \E ep \in EndsOf(d.links[l]) :
                                   Pending("DestroyNode", ep.node)'
    BY <1>1, <1>2, <1>3, <2>1
       DEF UnwantedLinks, Rebuilt, LinksOf, LinkIsRight, desired
  <2> QED
    BY <1>1, <1>3, <2>2, <2>3
       DEF LinkOnTrack, LinksOf, MissingLinks, UnwantedLinks, Rebuilt, desired
<1> QED  BY <1>4, <1>5 DEF OnTrack

\* One operation is over: it reached the lab or it was blamed, or both.
OpDone(o) ==
    /\ IsNext(o)
    /\ todo' = todo \ {o}
    /\ doc' = doc
    /\ \/ lab' = Effect(desired, o) /\ failed' = failed /\ ~ Rejects(desired, o)
       \/ lab' = Effect(desired, o) /\ failed' = Blame(failed, o)
       \/ lab' = lab /\ failed' = Blame(failed, o)

\* The head of the list belongs to the earliest phase that is left.
LEMMA NextPhase ==
    ASSUME TypeOK, NEW o, IsNext(o)
    PROVE  /\ o \in OpSet
           /\ \A l \in LinkId : Pending("DestroyLink", l) => o.kind = "DestroyLink"
           /\ \A n \in NodeId : Pending("DestroyNode", n) =>
                                  o.kind \in {"DestroyLink", "DestroyNode"}
           /\ \A n \in NodeId : Pending("CreateNode", n) =>
                                  o.kind \notin {"CreateLink", "UpdateNodeConfig"}
           /\ \A l \in LinkId : Pending("CreateLink", l) => o.kind # "UpdateNodeConfig"
<1>1. o \in OpSet
  BY DEF TypeOK, IsNext
<1>2. o.kind \in OpKind
  BY <1>1 DEF OpSet, OpKind
<1>3. \A p \in todo : p.kind = o.kind \/ phase(o.kind) < phase(p.kind)
  <2> SUFFICES ASSUME NEW p \in todo, p # o
               PROVE  p.kind = o.kind \/ phase(o.kind) < phase(p.kind)
    OBVIOUS
  <2>1. Precedes(doc.topology, o, p) /\ p \in OpSet
    BY DEF IsNext, TypeOK
  <2> QED  BY <2>1 DEF Precedes
<1>4. ASSUME NEW kind \in OpKind, NEW id, Pending(kind, id)
      PROVE  kind = o.kind \/ phase(o.kind) < phase(kind)
  BY <1>3, <1>4 DEF Pending
<1> QED
  BY <1>1, <1>2, <1>4 DEF phase, OpKind, NodeOpKind, LinkOpKind

LEMMA DestroyLinkOnTrack ==
    ASSUME TypeOK, OnTrack, NEW o, OpDone(o), o.kind = "DestroyLink"
    PROVE  OnTrack'
<1>1. /\ o \in todo /\ o = [kind |-> "DestroyLink", id |-> o.id] /\ o.id \in LinkId
      /\ lab \in Topo /\ desired' = desired
      /\ failed \in Failures
  BY NextPhase DEF OpDone, IsNext, TypeOK, OpSet, NodeOpKind, LinkOpKind, desired
<1>2. /\ lab'.nodes = lab.nodes
      /\ \A l \in LinkId : l # o.id => lab'.links[l] = lab.links[l]
      /\ failed'.nodes = failed.nodes
      /\ \A l \in LinkId : l # o.id => (l \in failed'.links <=> l \in failed.links)
      /\ o.id \notin failed'.links => lab'.links[o.id] = None
  BY <1>1 DEF OpDone, Effect, DestroyLink, WithLink, Blame, IsNodeOp, NodeOpKind, Topo, Failures
<1>3. /\ \A n : \A kind \in NodeOpKind : Pending(kind, n)' <=> Pending(kind, n)
      /\ \A l \in LinkId : Pending("CreateLink", l)' <=> Pending("CreateLink", l)
      /\ \A l \in LinkId : Pending("DestroyLink", l)' <=>
                               Pending("DestroyLink", l) /\ l # o.id
  BY <1>1 DEF Pending, OpDone, NodeOpKind
<1>4. ASSUME NEW n \in NodeId
      PROVE  NodeOnTrack(n)'
  BY <1>1, <1>2, <1>3 DEF OnTrack, NodeOnTrack, NodeIsRight, NodeOpKind
<1>5. ASSUME NEW l \in LinkId
      PROVE  LinkOnTrack(l)'
  <2>1. LinkOnTrack(l)
    BY DEF OnTrack
  <2>2. \A n : Pending("DestroyNode", n)' <=> Pending("DestroyNode", n)
    BY <1>3 DEF NodeOpKind
  <2>3. CASE l # o.id
    <3>1. LinkIsRight(l)' <=> LinkIsRight(l)
      BY <1>1, <1>2, <2>3 DEF LinkIsRight
    <3> QED  BY <1>1, <1>2, <1>3, <2>1, <2>2, <2>3, <3>1 DEF LinkOnTrack
  <2>4. CASE l = o.id
    <3>1. Pending("DestroyLink", l)
      BY <1>1, <2>4 DEF Pending
    <3> QED  BY <1>1, <1>2, <1>3, <2>1, <2>4, <3>1 DEF LinkOnTrack
  <2> QED  BY <2>3, <2>4
<1> QED  BY <1>4, <1>5 DEF OnTrack

\* A node operation as a record, and the types around it.
LEMMA NodeOpFacts ==
    ASSUME TypeOK, NEW o, OpDone(o), o.kind \in NodeOpKind
    PROVE  /\ o \in todo /\ o = [kind |-> o.kind, id |-> o.id] /\ o.id \in NodeId
           /\ lab \in Topo /\ desired' = desired /\ failed \in Failures
           /\ failed'.links = failed.links
           /\ \A n \in NodeId : n # o.id => (n \in failed'.nodes <=> n \in failed.nodes)
           /\ o.id \notin failed'.nodes =>
                 o.id \notin failed.nodes /\ lab' = Effect(desired, o)
           /\ lab' = lab \/ lab' = Effect(desired, o)
           /\ \A n : \A kind \in NodeOpKind :
                 Pending(kind, n)' <=> Pending(kind, n) /\ ~ (kind = o.kind /\ n = o.id)
           /\ \A l : \A kind \in LinkOpKind : Pending(kind, l)' <=> Pending(kind, l)
<1>1. /\ o \in todo /\ o = [kind |-> o.kind, id |-> o.id] /\ o.id \in NodeId
      /\ lab \in Topo /\ desired' = desired /\ failed \in Failures
  BY DEF OpDone, IsNext, TypeOK, OpSet, NodeOpKind, LinkOpKind, desired
<1>2. /\ failed'.links = failed.links
      /\ \A n \in NodeId : n # o.id => (n \in failed'.nodes <=> n \in failed.nodes)
      /\ o.id \notin failed'.nodes =>
            o.id \notin failed.nodes /\ lab' = Effect(desired, o)
      /\ lab' = lab \/ lab' = Effect(desired, o)
  BY <1>1 DEF OpDone, Blame, IsNodeOp, Failures
<1>3. /\ \A n : \A kind \in NodeOpKind :
            Pending(kind, n)' <=> Pending(kind, n) /\ ~ (kind = o.kind /\ n = o.id)
      /\ \A l : \A kind \in LinkOpKind : Pending(kind, l)' <=> Pending(kind, l)
  BY <1>1 DEF Pending, OpDone, NodeOpKind, LinkOpKind
<1> QED  BY <1>1, <1>2, <1>3

LEMMA DestroyNodeOnTrack ==
    ASSUME TypeOK, OnTrack, NEW o, OpDone(o), o.kind = "DestroyNode"
    PROVE  OnTrack'
<1>0. o.kind \in NodeOpKind /\ IsNext(o)
  BY DEF NodeOpKind, OpDone
<1>1. /\ \A n \in NodeId : n # o.id => lab'.nodes[n] = lab.nodes[n]
      /\ o.id \notin failed'.nodes => lab'.nodes[o.id] = None
      /\ \A l \in LinkId : lab.links[l] = None => lab'.links[l] = None
      /\ \A l \in LinkId : ~ Touches(lab.links[l], o.id) => lab'.links[l] = lab.links[l]
  BY <1>0, NodeOpFacts DEF Effect, DestroyNode, Topo
<1>2. ASSUME NEW n \in NodeId
      PROVE  NodeOnTrack(n)'
  <2>1. NodeOnTrack(n)
    BY DEF OnTrack
  <2>2. CASE n # o.id
    BY <1>0, <1>1, <2>1, <2>2, NodeOpFacts DEF NodeOnTrack, NodeIsRight, NodeOpKind
  <2>3. CASE n = o.id
    <3>1. Pending("DestroyNode", n)
      BY <1>0, <2>3, NodeOpFacts DEF Pending
    <3> QED
      BY <1>0, <1>1, <2>1, <2>3, <3>1, NodeOpFacts DEF NodeOnTrack, NodeIsRight, NodeOpKind
  <2> QED  BY <2>2, <2>3
<1>3. ASSUME NEW l \in LinkId
      PROVE  LinkOnTrack(l)'
  <2>1. LinkOnTrack(l) /\ ~ Pending("DestroyLink", l)
    BY <1>0, NextPhase DEF OnTrack
  <2>2. /\ \A kind \in LinkOpKind : Pending(kind, l)' <=> Pending(kind, l)
        /\ failed'.links = failed.links
        /\ desired' = desired
        /\ \A n : Pending("DestroyNode", n)' => Pending("DestroyNode", n)
        /\ Pending("DestroyNode", o.id)
    BY <1>0, NodeOpFacts DEF NodeOpKind, Pending
  <2>3. ASSUME LinkIsRight(l),
               \A ep \in EndsOf(desired.links[l]) : ~ Pending("DestroyNode", ep.node)
        PROVE  LinkIsRight(l)'
    <3>1. EndsOf(lab.links[l]) = EndsOf(desired.links[l])
      BY <2>3 DEF LinkIsRight, endpointsEqual, EndsOf
    <3>2. ~ Touches(lab.links[l], o.id)
      BY <2>2, <2>3, <3>1 DEF Touches
    <3> QED  BY <1>1, <2>2, <2>3, <3>2 DEF LinkIsRight
  <2> QED  BY <1>1, <2>1, <2>2, <2>3 DEF LinkOnTrack, LinkOpKind
<1> QED  BY <1>2, <1>3 DEF OnTrack

LEMMA CreateNodeOnTrack ==
    ASSUME TypeOK, OnTrack, NEW o, OpDone(o), o.kind = "CreateNode"
    PROVE  OnTrack'
<1>0. o.kind \in NodeOpKind /\ IsNext(o)
  BY DEF NodeOpKind, OpDone
<1>1. /\ \A n \in NodeId : n # o.id => lab'.nodes[n] = lab.nodes[n]
      /\ o.id \notin failed'.nodes /\ lab.nodes[o.id] = None =>
            lab'.nodes[o.id] = desired.nodes[o.id]
      /\ lab'.links = lab.links
  BY <1>0, NodeOpFacts DEF Effect, CreateNode, WithNode, Topo
<1>2. ASSUME NEW n \in NodeId
      PROVE  NodeOnTrack(n)'
  <2>1. NodeOnTrack(n) /\ ~ Pending("DestroyNode", n)
    BY <1>0, NextPhase DEF OnTrack
  <2>2. CASE n # o.id
    BY <1>0, <1>1, <2>1, <2>2, NodeOpFacts DEF NodeOnTrack, NodeIsRight, NodeOpKind
  <2>3. CASE n = o.id
    <3>1. Pending("CreateNode", n)
      BY <1>0, <2>3, NodeOpFacts DEF Pending
    <3> QED
      BY <1>0, <1>1, <2>1, <2>3, <3>1, NodeOpFacts DEF NodeOnTrack, NodeIsRight, NodeOpKind
  <2> QED  BY <2>2, <2>3
<1>3. ASSUME NEW l \in LinkId
      PROVE  LinkOnTrack(l)'
  BY <1>0, <1>1, NodeOpFacts DEF OnTrack, LinkOnTrack, LinkIsRight, NodeOpKind, LinkOpKind
<1> QED  BY <1>2, <1>3 DEF OnTrack

LEMMA UpdateNodeConfigOnTrack ==
    ASSUME TypeOK, OnTrack, NEW o, OpDone(o), o.kind = "UpdateNodeConfig"
    PROVE  OnTrack'
<1>0. o.kind \in NodeOpKind /\ IsNext(o)
  BY DEF NodeOpKind, OpDone
<1>1. /\ \A n \in NodeId : n # o.id => lab'.nodes[n] = lab.nodes[n]
      /\ o.id \notin failed'.nodes => lab'.nodes[o.id] = desired.nodes[o.id]
      /\ lab'.links = lab.links
  BY <1>0, NodeOpFacts DEF Effect, UpdateNodeConfig, WithNode, Topo
<1>2. ASSUME NEW n \in NodeId
      PROVE  NodeOnTrack(n)'
  <2>1. /\ NodeOnTrack(n)
        /\ ~ Pending("DestroyNode", n)
        /\ ~ Pending("CreateNode", n)
    BY <1>0, NextPhase DEF OnTrack
  <2>2. CASE n # o.id
    BY <1>0, <1>1, <2>1, <2>2, NodeOpFacts DEF NodeOnTrack, NodeIsRight, NodeOpKind
  <2>3. CASE n = o.id
    <3>1. Pending("UpdateNodeConfig", n)
      BY <1>0, <2>3, NodeOpFacts DEF Pending
    <3> QED
      BY <1>0, <1>1, <2>1, <2>3, <3>1, NodeOpFacts DEF NodeOnTrack, NodeIsRight, NodeOpKind
  <2> QED  BY <2>2, <2>3
<1>3. ASSUME NEW l \in LinkId
      PROVE  LinkOnTrack(l)'
  BY <1>0, <1>1, NodeOpFacts DEF OnTrack, LinkOnTrack, LinkIsRight, NodeOpKind, LinkOpKind
<1> QED  BY <1>2, <1>3 DEF OnTrack

LEMMA CreateLinkOnTrack ==
    ASSUME TypeOK, OnTrack, NEW o, OpDone(o), o.kind = "CreateLink"
    PROVE  OnTrack'
<1>1. /\ o \in todo /\ o = [kind |-> "CreateLink", id |-> o.id] /\ o.id \in LinkId
      /\ lab \in Topo /\ desired' = desired /\ failed \in Failures /\ IsNext(o)
  BY NextPhase DEF OpDone, IsNext, TypeOK, OpSet, NodeOpKind, LinkOpKind, desired
<1>2. /\ lab'.nodes = lab.nodes
      /\ \A l \in LinkId : l # o.id => lab'.links[l] = lab.links[l]
      /\ failed'.nodes = failed.nodes
      /\ \A l \in LinkId : l # o.id => (l \in failed'.links <=> l \in failed.links)
      /\ o.id \notin failed'.links =>
            /\ o.id \notin failed.links
            /\ lab.links[o.id] = None => lab'.links[o.id] = desired.links[o.id]
  BY <1>1 DEF OpDone, Effect, CreateLink, WithLink, Blame, IsNodeOp, NodeOpKind, Topo, Failures
<1>3. /\ \A n : \A kind \in NodeOpKind : Pending(kind, n)' <=> Pending(kind, n)
      /\ \A l \in LinkId : Pending("DestroyLink", l)' <=> Pending("DestroyLink", l)
      /\ \A l \in LinkId : Pending("CreateLink", l)' <=>
                               Pending("CreateLink", l) /\ l # o.id
  BY <1>1 DEF Pending, OpDone, NodeOpKind
<1>4. ASSUME NEW n \in NodeId
      PROVE  NodeOnTrack(n)'
  BY <1>1, <1>2, <1>3 DEF OnTrack, NodeOnTrack, NodeIsRight, NodeOpKind
<1>5. \A n : Pending("DestroyNode", n)' <=> Pending("DestroyNode", n)
  BY <1>3 DEF NodeOpKind
<1>6. ASSUME NEW l \in LinkId
      PROVE  LinkOnTrack(l)'
  <2>1. LinkOnTrack(l) /\ ~ Pending("DestroyLink", l)
    BY <1>1, NextPhase DEF OnTrack
  <2>2. CASE l # o.id
    <3>1. LinkIsRight(l)' <=> LinkIsRight(l)
      BY <1>1, <1>2, <2>2 DEF LinkIsRight
    <3> QED  BY <1>1, <1>2, <1>3, <1>5, <2>1, <2>2, <3>1 DEF LinkOnTrack
  <2>3. CASE l = o.id
    <3>1. Pending("CreateLink", l) /\ desired.links[l] # None
      BY <1>1, <2>1, <2>3 DEF Pending, LinkOnTrack
    <3>2. l \notin failed'.links => LinkIsRight(l)'
      BY <1>1, <1>2, <2>1, <2>3, <3>1 DEF LinkOnTrack, LinkIsRight, endpointsEqual
    <3>3. \A n \in NodeId : ~ Pending("DestroyNode", n)
      BY <1>1, NextPhase
    <3>4. \A ep \in EndsOf(desired.links[l]) : ~ Pending("DestroyNode", ep.node)
      <4>1. desired.links[l] \in Link
        BY <3>1 DEF TypeOK, Document, Topo, desired
      <4> QED  BY <3>3, <4>1 DEF EndsOf, Link, Endpoint
    <3> QED  BY <1>1, <1>3, <1>5, <2>1, <2>3, <3>1, <3>2, <3>4 DEF LinkOnTrack
  <2> QED  BY <2>2, <2>3
<1> QED  BY <1>4, <1>6 DEF OnTrack

\* Whatever comes of an operation, everything stays on track.
LEMMA OpOnTrack ==
    ASSUME TypeOK, OnTrack, NEW o, OpDone(o)
    PROVE  OnTrack'
<1>1. o.kind \in {"DestroyLink", "DestroyNode", "CreateNode", "CreateLink",
                  "UpdateNodeConfig"}
  BY DEF OpDone, IsNext, TypeOK, OpSet, NodeOpKind, LinkOpKind
<1> QED
  BY <1>1, DestroyLinkOnTrack, DestroyNodeOnTrack, CreateNodeOnTrack, CreateLinkOnTrack,
     UpdateNodeConfigOnTrack

\* The three ways an operation ends are ways of OpDone.
LEMMA EndsAreDone ==
    ASSUME NEW o, OpSucceeds(o) \/ OpRejected(o) \/ OpFaults(o)
    PROVE  OpDone(o) /\ at = "apply" /\ at' = "apply"
           /\ disturbances' = disturbances /\ status' = status
BY DEF OpSucceeds, OpRejected, OpFaults, OpDone, desired

\* The document of a cycle can be built, and the cycle is on track.
CycleInv == Valid(desired) /\ CycleOnTrack

LEMMA CycleStepOnTrack ==
    ASSUME TypeOK, CycleInv, CycleStep
    PROVE  CycleInv'
<1>0. doc' = doc
  BY DEF CycleStep, CycleFails, FindsConverged, StartsApply, OpSucceeds, OpRejected,
         OpFaults, Verify
<1>1. Valid(desired)'
  BY <1>0 DEF CycleInv, desired
<1>2. CASE StartsApply
  BY <1>1, <1>2, StartOnTrack DEF CycleInv, CycleOnTrack
<1>3. ASSUME NEW o \in todo, OpSucceeds(o) \/ OpRejected(o) \/ OpFaults(o)
      PROVE  CycleOnTrack'
  BY <1>3, EndsAreDone, OpOnTrack DEF CycleInv, CycleOnTrack, disturbed
<1>4. CASE CycleFails \/ FindsConverged \/ Verify
  BY <1>1, <1>4 DEF CycleFails, FindsConverged, Verify, CycleInv, CycleOnTrack
<1> QED  BY <1>1, <1>2, <1>3, <1>4 DEF CycleStep, CycleInv

LEMMA DisturbanceOnTrack ==
    ASSUME TypeOK, CycleInv, Disturbance
    PROVE  CycleInv'
<1>1. doc' = doc /\ disturbances' = disturbances + 1
  BY DEF Disturbance, NodeDies, NodeAppears, LinkVanishes, Disturb, cycleVars
<1>2. disturbed'
  BY <1>1 DEF TypeOK, disturbed
<1> QED  BY <1>1, <1>2 DEF CycleInv, CycleOnTrack, desired

LEMMA CycleInit == ReconcilerInit => CycleInv
BY DocumentsAssumption DEF ReconcilerInit, CycleInv, CycleOnTrack, desired

LEMMA CycleStepInv == TypeOK /\ CycleInv /\ [ReconcilerNext]_reconcilerVars => CycleInv'
<1> SUFFICES ASSUME TypeOK, CycleInv, [ReconcilerNext]_reconcilerVars
             PROVE  CycleInv'
  OBVIOUS
<1>1. ASSUME NEW d \in Documents, BeginCycle(d)
      PROVE  CycleInv'
  BY <1>1, DocumentsAssumption DEF BeginCycle, CycleInv, CycleOnTrack, desired
<1>2. CASE UNCHANGED reconcilerVars
  BY <1>2 DEF reconcilerVars, cycleVars, CycleInv, CycleOnTrack, OnTrack, NodeOnTrack,
              LinkOnTrack, NodeIsRight, LinkIsRight, Pending, desired, disturbed
<1> QED  BY <1>1, <1>2, CycleStepOnTrack, DisturbanceOnTrack DEF ReconcilerNext

\* Every node and link of an undisturbed cycle is on track at every step.
THEOREM CycleStaysOnTrack == ReconcilerSpec => []CycleOnTrack
<1>1. ReconcilerInit => TypeOK /\ CycleInv
  BY TypeInit, CycleInit
<1>2. TypeOK /\ CycleInv /\ [ReconcilerNext]_reconcilerVars => (TypeOK /\ CycleInv)'
  BY TypeStep, CycleStepInv
<1>3. CycleInv => CycleOnTrack
  BY DEF CycleInv
<1> QED  BY <1>1, <1>2, <1>3, PTL DEF ReconcilerSpec

-----------------------------------------------------------------------------
(* What follows for the cycle.                                             *)

LEMMA Isolation == TypeOK /\ CycleOnTrack => FailuresStayIsolated
<1> SUFFICES ASSUME TypeOK, OnTrack, todo = {}
             PROVE  /\ \A n \in NodeId \ failed.nodes : NodeIsRight(n)
                    /\ \A l \in LinkId \ failed.links : LinkIsAsWanted(l)
  BY DEF CycleOnTrack, FailuresStayIsolated
<1>1. \A kind, id : ~ Pending(kind, id)
  BY DEF Pending
<1> QED  BY <1>1 DEF OnTrack, NodeOnTrack, LinkOnTrack, NodeIsRight, LinkIsAsWanted

\* One failure, however early, spoils nothing but the entity it is recorded
\* against: engine.go's "keep going" after an error is safe.
THEOREM FailuresStayIsolatedAlways == ReconcilerSpec => []FailuresStayIsolated
BY TypeCorrect, CycleStaysOnTrack, Isolation, PTL

\* A driver refuses an operation only in the wake of a fault.
LEMMA RejectionsAreExplained ==
    ASSUME TypeOK, CycleInv, FailuresAreExplained, ~ disturbed,
           NEW o \in todo, OpRejected(o)
    PROVE  FailuresAreExplained'
<1>1. /\ IsNext(o) /\ at = "apply" /\ OnTrack /\ o \in OpSet
      /\ failed' = Blame(failed, o) /\ faulted' = faulted /\ desired' = desired
      /\ Rejects(desired, o)
      /\ failed \in Failures /\ faulted \in Failures
      /\ failed.nodes \subseteq faulted.nodes
  BY DEF OpRejected, CycleInv, CycleOnTrack, TypeOK, desired, FailuresAreExplained
<1>2. CASE o.kind = "UpdateNodeConfig"
  <2>1. o = [kind |-> "UpdateNodeConfig", id |-> o.id] /\ o.id \in NodeId
    BY <1>1, <1>2 DEF OpSet, NodeOpKind, LinkOpKind
  <2>2. /\ Pending("UpdateNodeConfig", o.id)
        /\ ~ Pending("CreateNode", o.id)
        /\ NodeOnTrack(o.id)
    BY <1>1, <1>2, <2>1, NextPhase DEF Pending, OnTrack
  <2>3. lab.nodes[o.id] = None
    BY <1>1, <1>2 DEF Rejects, CanUpdateNodeConfig
  <2>4. o.id \in failed.nodes
    BY <2>2, <2>3 DEF NodeOnTrack
  <2>5. failed' = failed
    BY <1>1, <1>2, <2>4 DEF Blame, IsNodeOp, NodeOpKind, Failures
  <2> QED  BY <1>1, <2>5 DEF FailuresAreExplained, OpRejected, disturbed, desired
<1>3. CASE o.kind = "CreateLink"
  <2>1. o = [kind |-> "CreateLink", id |-> o.id] /\ o.id \in LinkId
    BY <1>1, <1>3 DEF OpSet, NodeOpKind, LinkOpKind
  <2>2. desired.links[o.id] # None
    BY <1>1, <2>1 DEF OnTrack, LinkOnTrack, Pending
  <2>3. PICK ep \in EndsOf(desired.links[o.id]) : lab.nodes[ep.node] = None
    BY <1>1, <1>3 DEF Rejects, CanCreateLink
  <2>4. ep.node \in NodeId /\ desired.nodes[ep.node] # None
    <3>1. desired.links[o.id] \in Link
      BY <2>1, <2>2 DEF TypeOK, Document, Topo, desired
    <3> QED  BY <2>1, <2>2, <2>3, <3>1
                DEF CycleInv, Valid, EndpointExists, LinksOf, EndsOf, Link, Endpoint
  <2>5. ~ Pending("CreateNode", ep.node) /\ NodeOnTrack(ep.node)
    BY <1>1, <1>3, <2>4, NextPhase DEF OnTrack
  <2>6. ep.node \in faulted.nodes
    BY <1>1, <2>3, <2>4, <2>5 DEF NodeOnTrack
  <2>7. /\ failed'.nodes = failed.nodes
        /\ failed'.links = failed.links \cup {o.id}
    BY <1>1, <1>3 DEF Blame, IsNodeOp, NodeOpKind, Failures
  <2> QED
    BY <1>1, <2>3, <2>6, <2>7 DEF FailuresAreExplained, OpRejected, disturbed, desired
<1> QED  BY <1>1, <1>2, <1>3 DEF Rejects, OpSet, NodeOpKind, LinkOpKind

LEMMA CycleStepExplained ==
    ASSUME TypeOK, CycleInv, FailuresAreExplained, CycleStep
    PROVE  FailuresAreExplained'
<1>1. CASE StartsApply
  BY <1>1 DEF StartsApply, FailuresAreExplained, newFailures
<1>2. ASSUME NEW o \in todo, OpSucceeds(o)
      PROVE  FailuresAreExplained'
  BY <1>2 DEF OpSucceeds, FailuresAreExplained, disturbed, desired
<1>3. ASSUME NEW o \in todo, OpRejected(o)
      PROVE  FailuresAreExplained'
  <2>1. CASE ~ disturbed
    BY <1>3, <2>1, RejectionsAreExplained
  <2>2. CASE disturbed
    BY <1>3, <2>2 DEF OpRejected, FailuresAreExplained, disturbed
  <2> QED  BY <2>1, <2>2
<1>4. ASSUME NEW o \in todo, OpFaults(o)
      PROVE  FailuresAreExplained'
  BY <1>4 DEF OpFaults, FailuresAreExplained, disturbed, desired, Blame, TypeOK, Failures
<1>5. CASE CycleFails \/ FindsConverged \/ Verify
  BY <1>5 DEF CycleFails, FindsConverged, Verify, FailuresAreExplained
<1> QED  BY <1>1, <1>2, <1>3, <1>4, <1>5 DEF CycleStep

LEMMA DisturbanceExplained ==
    ASSUME TypeOK, Disturbance
    PROVE  FailuresAreExplained'
<1>1. disturbances' = disturbances + 1
  BY DEF Disturbance, NodeDies, NodeAppears, LinkVanishes, Disturb
<1> QED  BY <1>1 DEF TypeOK, FailuresAreExplained, disturbed

\* The fixed order of phases never makes an operation fail by itself.
THEOREM FailuresAreExplainedAlways == ReconcilerSpec => []FailuresAreExplained
<1>1. ReconcilerInit => TypeOK /\ CycleInv /\ FailuresAreExplained
  BY TypeInit, CycleInit DEF ReconcilerInit, FailuresAreExplained
<1>2. TypeOK /\ CycleInv /\ FailuresAreExplained /\ [ReconcilerNext]_reconcilerVars
        => (TypeOK /\ CycleInv /\ FailuresAreExplained)'
  <2> SUFFICES ASSUME TypeOK, CycleInv, FailuresAreExplained,
                      [ReconcilerNext]_reconcilerVars
               PROVE  FailuresAreExplained'
    BY TypeStep, CycleStepInv
  <2>1. ASSUME NEW d \in Documents, BeginCycle(d)
        PROVE  FailuresAreExplained'
    BY <2>1 DEF BeginCycle, FailuresAreExplained
  <2>2. CASE UNCHANGED reconcilerVars
    BY <2>2 DEF reconcilerVars, cycleVars, FailuresAreExplained, disturbed, desired
  <2> QED  BY <2>1, <2>2, CycleStepExplained, DisturbanceExplained DEF ReconcilerNext
<1> QED  BY <1>1, <1>2, PTL DEF ReconcilerSpec

LEMMA RightMeansNoDiff ==
    ASSUME NEW d \in Topo, NEW a \in Topo,
           \A n \in NodeId : a.nodes[n] = d.nodes[n],
           \A l \in LinkId : \/ /\ d.links[l] # None /\ a.links[l] # None
                                /\ endpointsEqual(d.links[l], a.links[l])
                             \/ d.links[l] = None /\ a.links[l] = None
    PROVE  Diff(d, a) = {}
<1>1. NodesOf(a) = NodesOf(d) /\ LinksOf(a) = LinksOf(d)
  BY DEF NodesOf, LinksOf
<1>2. Recreated(d, a) = {}
  BY DEF Recreated, coldChange, NodesOf
<1>3. Missing(d, a) = {} /\ Unwanted(d, a) = {} /\ Updated(d, a) = {}
  BY <1>1, <1>2 DEF Missing, Unwanted, Updated, hotChange, NodesOf
<1>4. MissingLinks(d, a) = {} /\ UnwantedLinks(d, a) = {} /\ Rebuilt(d, a) = {}
  BY <1>1, <1>2 DEF MissingLinks, UnwantedLinks, Rebuilt, LinksOf
<1> QED  BY <1>2, <1>3, <1>4 DEF Diff

LEMMA CleanConvergence ==
    TypeOK /\ FailuresStayIsolated /\ FailuresAreExplained => CleanCycleConverges
<1> SUFFICES ASSUME TypeOK, FailuresStayIsolated, FailuresAreExplained,
                    at = "apply", todo = {}, ~ disturbed, faulted = newFailures
             PROVE  Diff(desired, lab) = {}
  BY DEF CleanCycleConverges
<1>1. failed.nodes = {} /\ failed.links = {}
  BY DEF FailuresAreExplained, newFailures, TypeOK, Failures
<1>2. \A n \in NodeId : lab.nodes[n] = desired.nodes[n]
  BY <1>1 DEF FailuresStayIsolated, NodeIsRight
<1>3. \A l \in LinkId : LinkIsAsWanted(l)
  BY <1>1 DEF FailuresStayIsolated
<1>4. desired \in Topo /\ lab \in Topo
  BY DEF TypeOK, Document, desired
<1> QED  BY <1>2, <1>3, <1>4, RightMeansNoDiff DEF LinkIsAsWanted, LinkIsRight

\* Without faults one cycle leaves nothing for a second one to do.
THEOREM CleanCycleConvergesAlways == ReconcilerSpec => []CleanCycleConverges
BY TypeCorrect, FailuresStayIsolatedAlways, FailuresAreExplainedAlways,
   CleanConvergence, PTL

-----------------------------------------------------------------------------
(* What the steps of a cycle never do.                                     *)

\* In an undisturbed cycle only the end of an operation changes the lab.
LEMMA OnlyOpsChangeTheLab ==
    ASSUME TypeOK, at = "apply", ~ disturbed, ~ disturbed',
           [ReconcilerNext]_reconcilerVars
    PROVE  \/ lab' = lab /\ todo' = todo
           \/ \E o \in todo : OpSucceeds(o) \/ OpRejected(o) \/ OpFaults(o)
<1>1. ~ Disturbance
  BY DEF Disturbance, NodeDies, NodeAppears, LinkVanishes, Disturb, disturbed, TypeOK
<1>2. CASE \E d \in Documents : BeginCycle(d)
  BY <1>2 DEF BeginCycle
<1>3. CASE CycleStep
  BY <1>3 DEF CycleStep, CycleFails, FindsConverged, StartsApply, Verify
<1>4. CASE UNCHANGED reconcilerVars
  BY <1>4 DEF reconcilerVars, cycleVars
<1> QED  BY <1>1, <1>2, <1>3, <1>4 DEF ReconcilerNext

\* An operation that takes a node away is its DestroyNode.
LEMMA NodeLoss ==
    ASSUME TypeOK, OnTrack, NEW o, OpDone(o), NEW n \in NodeId,
           lab.nodes[n] # None, lab'.nodes[n] = None
    PROVE  o = [kind |-> "DestroyNode", id |-> n] /\ Pending("DestroyNode", n)
<1>1. /\ o \in OpSet /\ o \in todo /\ lab' = Effect(desired, o) /\ lab \in Topo
  BY DEF OpDone, IsNext, TypeOK
<1>2. CASE o.kind \in LinkOpKind
  BY <1>1, <1>2 DEF Effect, DestroyLink, CreateLink, WithLink, LinkOpKind
<1>3. CASE o.kind \in {"CreateNode", "UpdateNodeConfig"}
  <2>1. o = [kind |-> o.kind, id |-> o.id] /\ o.id \in NodeId
    BY <1>1, <1>3 DEF OpSet, NodeOpKind, LinkOpKind
  <2>2. desired.nodes[o.id] # None
    BY <1>1, <1>3, <2>1 DEF OnTrack, NodeOnTrack, Pending
  <2> QED
    BY <1>1, <1>3, <2>1, <2>2 DEF Effect, CreateNode, UpdateNodeConfig, WithNode, Topo
<1>4. CASE o.kind = "DestroyNode"
  <2>1. o = [kind |-> "DestroyNode", id |-> o.id]
    BY <1>1, <1>4 DEF OpSet, NodeOpKind, LinkOpKind
  <2>2. o.id = n
    BY <1>1, <1>4 DEF Effect, DestroyNode, Topo
  <2> QED  BY <1>1, <2>1, <2>2 DEF Pending
<1> QED  BY <1>1, <1>2, <1>3, <1>4 DEF OpSet, NodeOpKind

\* An operation that takes a link away is its DestroyLink, or the DestroyNode of
\* a node it ends in.
LEMMA LinkLoss ==
    ASSUME TypeOK, OnTrack, NEW o, OpDone(o), NEW l \in LinkId,
           lab.links[l] # None, lab'.links[l] = None
    PROVE  \/ Pending("DestroyLink", l)
           \/ Pending("DestroyNode", o.id) /\ Touches(lab.links[l], o.id)
<1>1. /\ o \in OpSet /\ o \in todo /\ lab' = Effect(desired, o) /\ lab \in Topo
  BY DEF OpDone, IsNext, TypeOK
<1>2. CASE o.kind \in {"CreateNode", "UpdateNodeConfig"}
  BY <1>1, <1>2 DEF Effect, CreateNode, UpdateNodeConfig, WithNode
<1>3. CASE o.kind = "CreateLink"
  <2>1. o = [kind |-> o.kind, id |-> o.id] /\ o.id \in LinkId
    BY <1>1, <1>3 DEF OpSet, NodeOpKind, LinkOpKind
  <2>2. desired.links[o.id] # None
    BY <1>1, <1>3, <2>1 DEF OnTrack, LinkOnTrack, Pending
  <2> QED  BY <1>1, <1>3, <2>1, <2>2 DEF Effect, CreateLink, WithLink, Topo
<1>4. CASE o.kind = "DestroyLink"
  <2>1. o = [kind |-> "DestroyLink", id |-> o.id]
    BY <1>1, <1>4 DEF OpSet, NodeOpKind, LinkOpKind
  <2>2. o.id = l
    BY <1>1, <1>4 DEF Effect, DestroyLink, WithLink, Topo
  <2> QED  BY <1>1, <2>1, <2>2 DEF Pending
<1>5. CASE o.kind = "DestroyNode"
  <2>1. o = [kind |-> "DestroyNode", id |-> o.id]
    BY <1>1, <1>5 DEF OpSet, NodeOpKind, LinkOpKind
  <2>2. Touches(lab.links[l], o.id)
    BY <1>1, <1>5 DEF Effect, DestroyNode, Topo
  <2> QED  BY <1>1, <2>1, <2>2 DEF Pending
<1> QED  BY <1>1, <1>2, <1>3, <1>4, <1>5 DEF OpSet, NodeOpKind, LinkOpKind

LEMMA NoNodeOutage ==
    ASSUME TypeOK, OnTrack, NEW o, OpDone(o), NEW n \in NodeId, InPlace(n)
    PROVE  lab'.nodes[n] # None
BY NodeLoss DEF OnTrack, NodeOnTrack, InPlace

LEMMA NoLinkOutage ==
    ASSUME TypeOK, OnTrack, NEW o, OpDone(o), NEW l \in LinkId, LinkIsRight(l),
           \A ep \in EndsOf(desired.links[l]) : InPlace(ep.node)
    PROVE  lab'.links[l] # None
<1> SUFFICES ASSUME lab'.links[l] = None
             PROVE  FALSE
  OBVIOUS
<1>1. desired.links[l] \in Link /\ lab.links[l] # None
  BY DEF LinkIsRight, TypeOK, Document, Topo, desired
<1>2. \A ep \in EndsOf(desired.links[l]) : ~ Pending("DestroyNode", ep.node)
  BY <1>1 DEF EndsOf, Link, Endpoint, OnTrack, NodeOnTrack, InPlace
<1>3. CASE Pending("DestroyLink", l)
  BY <1>2, <1>3 DEF OnTrack, LinkOnTrack, LinkIsRight
<1>4. CASE Pending("DestroyNode", o.id) /\ Touches(lab.links[l], o.id)
  <2>1. EndsOf(lab.links[l]) = EndsOf(desired.links[l])
    BY DEF LinkIsRight, endpointsEqual, EndsOf
  <2> QED  BY <1>2, <1>4, <2>1 DEF Touches
<1> QED  BY <1>1, <1>3, <1>4, LinkLoss

\* Updates in place are in place: what can stay up stays up through the cycle.
THEOREM NoNeedlessOutageAlways == ReconcilerSpec => NoNeedlessOutage
<1>1. TypeOK /\ CycleOnTrack /\ [ReconcilerNext]_reconcilerVars =>
        [at = "apply" /\ ~ disturbed /\ ~ disturbed' =>
            /\ \A n \in NodeId : InPlace(n) => lab'.nodes[n] # None
            /\ \A l \in LinkId :
                  LinkIsRight(l) /\ (\A ep \in EndsOf(desired.links[l]) : InPlace(ep.node))
                      => lab'.links[l] # None]_reconcilerVars
  <2> SUFFICES ASSUME TypeOK, CycleOnTrack, [ReconcilerNext]_reconcilerVars,
                      at = "apply", ~ disturbed, ~ disturbed'
               PROVE  /\ \A n \in NodeId : InPlace(n) => lab'.nodes[n] # None
                      /\ \A l \in LinkId :
                            /\ LinkIsRight(l)
                            /\ \A ep \in EndsOf(desired.links[l]) : InPlace(ep.node)
                            => lab'.links[l] # None
    OBVIOUS
  <2>1. CASE lab' = lab
    BY <2>1 DEF InPlace, LinkIsRight
  <2>2. ASSUME NEW o \in todo, OpSucceeds(o) \/ OpRejected(o) \/ OpFaults(o)
        PROVE  OnTrack /\ OpDone(o)
    BY <2>2, EndsAreDone DEF CycleOnTrack
  <2> QED  BY <2>1, <2>2, OnlyOpsChangeTheLab, NoNodeOutage, NoLinkOutage
<1> QED  BY <1>1, TypeCorrect, CycleStaysOnTrack, PTL DEF ReconcilerSpec, NoNeedlessOutage

\* When a node goes, no veth pair ends in it but those DestroyLink failed on.
LEMMA VethsAreGone ==
    ASSUME TypeOK, OnTrack, NEW o, OpDone(o), NEW n \in NodeId,
           lab.nodes[n] # None, lab'.nodes[n] = None,
           NEW l \in LinkId, Touches(lab.links[l], n)
    PROVE  l \in failed.links
<1>1. o.kind = "DestroyNode" /\ Pending("DestroyNode", n) /\ IsNext(o)
  BY NodeLoss DEF OpDone
<1>2. ~ Pending("DestroyLink", l)
  BY <1>1, NextPhase
<1>3. LinkIsRight(l) => EndsOf(lab.links[l]) = EndsOf(desired.links[l])
  BY DEF LinkIsRight, endpointsEqual, EndsOf
<1> QED  BY <1>1, <1>2, <1>3 DEF OnTrack, LinkOnTrack, Touches

\* "Node teardown never races a live veth", however many nodes and links.
THEOREM VethsGoFirstAlways == ReconcilerSpec => VethsGoFirst
<1>1. TypeOK /\ CycleOnTrack /\ [ReconcilerNext]_reconcilerVars =>
        [at = "apply" /\ ~ disturbed /\ ~ disturbed' =>
            \A n \in NodeId : lab.nodes[n] # None /\ lab'.nodes[n] = None =>
                \A l \in LinkId :
                    Touches(lab.links[l], n) => l \in failed.links]_reconcilerVars
  <2> SUFFICES ASSUME TypeOK, CycleOnTrack, [ReconcilerNext]_reconcilerVars,
                      at = "apply", ~ disturbed, ~ disturbed',
                      NEW n \in NodeId, lab.nodes[n] # None, lab'.nodes[n] = None,
                      NEW l \in LinkId, Touches(lab.links[l], n)
               PROVE  l \in failed.links
    OBVIOUS
  <2>1. PICK o \in todo : OpSucceeds(o) \/ OpRejected(o) \/ OpFaults(o)
    BY OnlyOpsChangeTheLab
  <2>2. OnTrack /\ OpDone(o)
    BY <2>1, EndsAreDone DEF CycleOnTrack
  <2> QED  BY <2>2, VethsAreGone
<1> QED  BY <1>1, TypeCorrect, CycleStaysOnTrack, PTL DEF ReconcilerSpec, VethsGoFirst

\* "Config is applied last so it lands on interfaces that already exist".
THEOREM ConfigComesLastAlways == ReconcilerSpec => ConfigComesLast
<1>1. TypeOK /\ CycleOnTrack /\ [ReconcilerNext]_reconcilerVars =>
        [at = "apply" /\ ~ disturbed /\ ~ disturbed' =>
            \A n \in NodeId :
                NodeOp("UpdateNodeConfig", n) \in todo \ todo' =>
                    \A l \in LinkId : Touches(desired.links[l], n)
                        => LinkIsRight(l) \/ l \in failed.links]_reconcilerVars
  <2> SUFFICES ASSUME TypeOK, CycleOnTrack, [ReconcilerNext]_reconcilerVars,
                      at = "apply", ~ disturbed, ~ disturbed',
                      NEW n \in NodeId, NodeOp("UpdateNodeConfig", n) \in todo \ todo',
                      NEW l \in LinkId, Touches(desired.links[l], n),
                      l \notin failed.links
               PROVE  LinkIsRight(l)
    OBVIOUS
  <2>1. PICK o \in todo : OpSucceeds(o) \/ OpRejected(o) \/ OpFaults(o)
    BY OnlyOpsChangeTheLab
  <2>2. OnTrack /\ OpDone(o)
    BY <2>1, EndsAreDone DEF CycleOnTrack
  <2>3. o.kind = "UpdateNodeConfig" /\ IsNext(o)
    BY <2>2 DEF OpDone, NodeOp
  <2>4. ~ Pending("CreateLink", l) /\ desired.links[l] # None
    BY <2>3, NextPhase DEF Touches
  <2> QED  BY <2>2, <2>4 DEF OnTrack, LinkOnTrack
<1> QED  BY <1>1, TypeCorrect, CycleStaysOnTrack, PTL DEF ReconcilerSpec, ConfigComesLast

-----------------------------------------------------------------------------
(* What the status says.                                                   *)

LEMMA RightNodeHasNoOp ==
    ASSUME NEW d \in Topo, NEW a \in Topo, NEW n \in NodeId,
           d.nodes[n] # None, a.nodes[n] = d.nodes[n]
    PROVE  n \notin NodeTargets(Diff(d, a))
BY DEF NodeTargets, Diff, NodeOp, LinkOp, IsNodeOp, NodeOpKind, Recreated, Unwanted, Missing,
       Updated, NodesOf, coldChange, hotChange

\* An operation on a link that is right is there because of an end of it.
LEMMA RightLinkOp ==
    ASSUME NEW d \in Topo, NEW a \in Topo, NEW l \in LinkId,
           d.links[l] # None, a.links[l] # None, endpointsEqual(d.links[l], a.links[l]),
           l \in LinkTargets(Diff(d, a))
    PROVE  \E ep \in EndsOf(d.links[l]) :
              /\ d.nodes[ep.node] # a.nodes[ep.node]
              /\ ep.node \in NodeId
<1>1. l \in Rebuilt(d, a)
  BY DEF LinkTargets, Diff, NodeOp, LinkOp, IsNodeOp, NodeOpKind, UnwantedLinks,
         MissingLinks, LinksOf
<1> QED  BY <1>1 DEF Rebuilt, Recreated, coldChange, NodesOf

\* The status of a cycle that got through, from where it left the lab.
LEMMA StatusIsRight ==
    ASSUME NEW f \in Failures, doc \in Document, lab \in Topo,
           \A n \in NodeId \ f.nodes : NodeIsRight(n),
           \A l \in LinkId \ f.links : LinkIsAsWanted(l)
    PROVE  Tells(f, buildStatus(doc, lab, f))
<1> DEFINE st == buildStatus(doc, lab, f)
<1>1. desired \in Topo
  BY DEF Document, desired
<1>2. /\ \A n \in NodeId :
            st.nodes[n] = Outcome(n \in NodesOf(desired), lab.nodes[n] # None, n \in f.nodes,
                                  n \in NodeTargets(Diff(desired, lab)))
      /\ \A l \in LinkId :
            st.links[l] = Outcome(l \in LinksOf(desired), lab.links[l] # None, l \in f.links,
                                  l \in LinkTargets(Diff(desired, lab)))
  BY DEF buildStatus, desired
<1>3. ASSUME NEW n \in NodeId
      PROVE  /\ n \in NodesOf(desired) =>
                   \/ n \in f.nodes /\ st.nodes[n] = Failed
                   \/ NodeIsRight(n) /\ st.nodes[n] = Up
             /\ n \notin NodesOf(desired) =>
                   \/ lab.nodes[n] = None /\ st.nodes[n] = None
                   \/ n \in f.nodes /\ st.nodes[n] = Orphan
  <2>1. NodeIsRight(n) /\ n \in NodesOf(desired) =>
          n \notin NodeTargets(Diff(desired, lab))
    BY <1>1, RightNodeHasNoOp DEF NodesOf, NodeIsRight
  <2> QED  BY <1>2, <2>1 DEF Outcome, NodesOf, NodeIsRight
<1>4. ASSUME NEW l \in LinkId
      PROVE  /\ l \in LinksOf(desired) =>
                   \/ l \in f.links /\ st.links[l] = Failed
                   \/ LinkIsRight(l) /\ st.links[l] = Up
                   \/ /\ LinkIsRight(l) /\ st.links[l] = Drifted
                      /\ \E ep \in EndsOf(desired.links[l]) : ep.node \in f.nodes
             /\ l \notin LinksOf(desired) =>
                   \/ lab.links[l] = None /\ st.links[l] = None
                   \/ l \in f.links /\ st.links[l] = Orphan
  <2>1. LinkIsRight(l) /\ l \in LinkTargets(Diff(desired, lab)) =>
          \E ep \in EndsOf(desired.links[l]) : ep.node \in f.nodes
    BY <1>1, RightLinkOp DEF LinkIsRight, NodeIsRight
  <2> QED  BY <1>2, <2>1 DEF Outcome, LinksOf, LinkIsAsWanted, LinkIsRight
<1>5. NodesOf(desired) \subseteq NodeId /\ LinksOf(desired) \subseteq LinkId
  BY DEF NodesOf, LinksOf
<1> QED  BY <1>3, <1>4, <1>5 DEF Tells

LEMMA NoDiffMeansRight ==
    ASSUME TypeOK, Diff(desired, lab) = {}
    PROVE  /\ \A n \in NodeId : NodeIsRight(n)
           /\ \A l \in LinkId : LinkIsAsWanted(l)
<1>0. desired \in Topo /\ lab \in Topo
  BY DEF TypeOK, Document, desired
<1>1. /\ Missing(desired, lab) = {} /\ Unwanted(desired, lab) = {}
      /\ Recreated(desired, lab) = {} /\ Updated(desired, lab) = {}
      /\ MissingLinks(desired, lab) = {} /\ UnwantedLinks(desired, lab) = {}
      /\ Rebuilt(desired, lab) = {}
  BY DEF Diff
<1>2. NodesOf(desired) = NodesOf(lab) /\ LinksOf(desired) = LinksOf(lab)
  BY <1>1 DEF Missing, Unwanted, MissingLinks, UnwantedLinks, NodesOf, LinksOf
<1>3. ASSUME NEW n \in NodeId
      PROVE  NodeIsRight(n)
  <2>1. CASE n \notin NodesOf(desired)
    BY <1>2, <2>1 DEF NodeIsRight, NodesOf
  <2>2. CASE n \in NodesOf(desired)
    <3>1. desired.nodes[n] \in Node /\ lab.nodes[n] \in Node
      BY <1>0, <1>2, <2>2 DEF NodesOf, Topo
    <3>2. /\ desired.nodes[n].type = lab.nodes[n].type
          /\ desired.nodes[n].image = lab.nodes[n].image
          /\ desired.nodes[n].config = lab.nodes[n].config
          /\ desired.nodes[n].ifaces = lab.nodes[n].ifaces
      BY <1>1, <1>2, <2>2 DEF Recreated, Updated, coldChange, hotChange
    <3> QED  BY <3>1, <3>2 DEF Node, NodeIsRight
  <2> QED  BY <2>1, <2>2
<1>4. ASSUME NEW l \in LinkId
      PROVE  LinkIsAsWanted(l)
  BY <1>1, <1>2 DEF Rebuilt, LinksOf, LinkIsAsWanted, LinkIsRight
<1> QED  BY <1>3, <1>4

LEMMA CycleStepTells ==
    ASSUME TypeOK, CycleInv, StatusTellsTheOutcome, CycleStep
    PROVE  StatusTellsTheOutcome'
<1>1. doc \in Document /\ lab \in Topo /\ failed \in Failures
  BY DEF TypeOK
<1>2. CASE CycleFails
  BY <1>2 DEF CycleFails, StatusTellsTheOutcome, TypeOK, Status
<1>3. CASE FindsConverged
  <2>1. /\ status' = buildStatus(doc, lab, newFailures)
        /\ failed' = newFailures /\ lab' = lab /\ doc' = doc
        /\ Diff(desired, lab) = {}
    BY <1>3 DEF FindsConverged, desired
  <2>2. /\ \A n \in NodeId \ newFailures.nodes : NodeIsRight(n)
        /\ \A l \in LinkId \ newFailures.links : LinkIsAsWanted(l)
    BY <2>1, NoDiffMeansRight
  <2>3. newFailures \in Failures
    BY newFailuresType
  <2>4. Tells(newFailures, status')
    BY <1>1, <2>1, <2>2, <2>3, StatusIsRight
  <2>5. status'.version = doc.version
    BY <2>1 DEF buildStatus
  <2> QED
    BY <2>1, <2>4, <2>5
       DEF Tells, StatusTellsTheOutcome, NodeIsRight, LinkIsRight, desired
<1>4. CASE Verify
  <2>1. /\ status' = buildStatus(doc, lab, failed)
        /\ failed' = failed /\ lab' = lab /\ doc' = doc /\ todo = {} /\ at = "apply"
        /\ disturbances' = disturbances
    BY <1>4 DEF Verify
  <2>2. ~ disturbed => /\ \A n \in NodeId \ failed.nodes : NodeIsRight(n)
                       /\ \A l \in LinkId \ failed.links : LinkIsAsWanted(l)
    BY <2>1, Isolation DEF CycleInv, FailuresStayIsolated
  <2>3. ~ disturbed => Tells(failed, status')
    BY <1>1, <2>1, <2>2, StatusIsRight
  <2>4. status'.version = doc.version
    BY <2>1 DEF buildStatus
  <2> QED
    BY <2>1, <2>3, <2>4
       DEF Tells, StatusTellsTheOutcome, NodeIsRight, LinkIsRight, desired, disturbed
<1>5. CASE at' = "apply"
  BY <1>5 DEF StatusTellsTheOutcome
<1> QED
  BY <1>2, <1>3, <1>4, <1>5 DEF CycleStep, StartsApply, OpSucceeds, OpRejected, OpFaults

LEMMA DisturbanceTells ==
    ASSUME TypeOK, Disturbance
    PROVE  StatusTellsTheOutcome'
<1>1. disturbances' = disturbances + 1
  BY DEF Disturbance, NodeDies, NodeAppears, LinkVanishes, Disturb
<1> QED  BY <1>1 DEF TypeOK, StatusTellsTheOutcome, disturbed

\* The canvas never shows green what is not right, nor red what did not fail.
THEOREM StatusTellsTheOutcomeAlways == ReconcilerSpec => []StatusTellsTheOutcome
<1>1. ReconcilerInit => TypeOK /\ CycleInv /\ StatusTellsTheOutcome
  BY TypeInit, CycleInit DEF ReconcilerInit, StatusTellsTheOutcome, disturbed
<1>2. TypeOK /\ CycleInv /\ StatusTellsTheOutcome /\ [ReconcilerNext]_reconcilerVars
        => (TypeOK /\ CycleInv /\ StatusTellsTheOutcome)'
  <2> SUFFICES ASSUME TypeOK, CycleInv, StatusTellsTheOutcome,
                      [ReconcilerNext]_reconcilerVars
               PROVE  StatusTellsTheOutcome'
    BY TypeStep, CycleStepInv
  <2>1. ASSUME NEW d \in Documents, BeginCycle(d)
        PROVE  StatusTellsTheOutcome'
    BY <2>1 DEF BeginCycle, StatusTellsTheOutcome
  <2>2. CASE UNCHANGED reconcilerVars
    BY <2>2 DEF reconcilerVars, cycleVars, StatusTellsTheOutcome, Tells, NodeIsRight,
                LinkIsRight, disturbed, desired
  <2> QED  BY <2>1, <2>2, CycleStepTells, DisturbanceTells DEF ReconcilerNext
<1> QED  BY <1>1, <1>2, PTL DEF ReconcilerSpec

=============================================================================
