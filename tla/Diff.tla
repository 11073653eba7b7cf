-------------------------------- MODULE Diff --------------------------------
(***************************************************************************)
(* reconcile.Diff: the difference between a desired and an actual topology *)
(* as a set of typed operations, and the fixed order they are applied in.  *)
(*                                                                         *)
(* The code returns a list.  No operation occurs in it twice (at most one  *)
(* of each kind per node or link), so the list is the pair of the set Diff *)
(* and the strict total order Precedes.                                    *)
(***************************************************************************)
EXTENDS Topology

NodeOpKind == {"DestroyNode", "CreateNode", "UpdateNodeConfig"}
LinkOpKind == {"DestroyLink", "CreateLink"}
OpKind     == NodeOpKind \cup LinkOpKind

NodeOp(kind, n) == [kind |-> kind, id |-> n]
LinkOp(kind, l) == [kind |-> kind, id |-> l]

OpSet == [kind : NodeOpKind, id : NodeId] \cup [kind : LinkOpKind, id : LinkId]

\* Broken: wires are created before the nodes they run between.
phaseWiresBeforeNodes(kind) ==
    CASE kind = "DestroyLink"      -> 0
      [] kind = "DestroyNode"      -> 1
      [] kind = "CreateLink"       -> 2
      [] kind = "CreateNode"       -> 3
      [] kind = "UpdateNodeConfig" -> 4

\* Broken: nodes go down before their wires.
phaseNodesDownFirst(kind) ==
    CASE kind = "DestroyNode"      -> 0
      [] kind = "DestroyLink"      -> 1
      [] kind = "CreateNode"       -> 2
      [] kind = "CreateLink"       -> 3
      [] kind = "UpdateNodeConfig" -> 4

\* Broken: config is applied before the wires exist.
phaseConfigWithNodes(kind) ==
    CASE kind = "DestroyLink"      -> 0
      [] kind = "DestroyNode"      -> 1
      [] kind = "CreateNode"       -> 2
      [] kind = "UpdateNodeConfig" -> 3
      [] kind = "CreateLink"       -> 4

(***************************************************************************)
(* OpKind.phase: destroy links, destroy nodes, create nodes, create links, *)
(* and config updates last.                                                *)
(***************************************************************************)
phase(kind) ==
    CASE kind = "DestroyLink"      -> 0
      [] kind = "DestroyNode"      -> 1
      [] kind = "CreateNode"       -> 2
      [] kind = "CreateLink"       -> 3
      [] kind = "UpdateNodeConfig" -> 4

-----------------------------------------------------------------------------
\* Comparing two nodes and two links.

coldChange(d, a) == d.type # a.type \/ d.image # a.image

hotChange(d, a) == d.config # a.config \/ d.ifaces # a.ifaces

needsConfigApply(d) ==
    d.config # NoConfig \/ \E i \in IfaceId : d.ifaces[i] \notin {None, NoConfig}

\* A-B and B-A are the same wire.
endpointsEqual(a, b) ==
    \/ a[1] = b[1] /\ a[2] = b[2]
    \/ a[1] = b[2] /\ a[2] = b[1]

-----------------------------------------------------------------------------
\* What becomes of each node and link: d is desired, a is actual.

Missing(d, a)   == NodesOf(d) \ NodesOf(a)
Unwanted(d, a)  == NodesOf(a) \ NodesOf(d)
\* Broken: a hot change is treated as a cold one.
RecreatedOnAnyChange(d, a) ==
    {n \in NodesOf(d) \cap NodesOf(a) : d.nodes[n] # a.nodes[n]}
Recreated(d, a) == {n \in NodesOf(d) \cap NodesOf(a) :
                        coldChange(d.nodes[n], a.nodes[n])}
Updated(d, a) ==
    {n \in Missing(d, a) \cup Recreated(d, a) : needsConfigApply(d.nodes[n])}
    \cup {n \in (NodesOf(d) \cap NodesOf(a)) \ Recreated(d, a) :
              hotChange(d.nodes[n], a.nodes[n])}

MissingLinks(d, a)  == LinksOf(d) \ LinksOf(a)
UnwantedLinks(d, a) == LinksOf(a) \ LinksOf(d)

\* Broken: the wires of a recreated node are forgotten.
RebuiltByEndsOnly(d, a) ==
    {l \in LinksOf(d) \cap LinksOf(a) : ~ endpointsEqual(d.links[l], a.links[l])}

\* A veth end dies with its node's namespace, so a recreated node takes even
\* its unchanged links through destroy and create.
Rebuilt(d, a) ==
    {l \in LinksOf(d) \cap LinksOf(a) :
        \/ ~ endpointsEqual(d.links[l], a.links[l])
        \/ \E ep \in EndsOf(d.links[l]) : ep.node \in Recreated(d, a)}

Diff(d, a) ==
    {NodeOp("DestroyNode", n) : n \in Recreated(d, a) \cup Unwanted(d, a)}
    \cup {NodeOp("CreateNode", n) : n \in Missing(d, a) \cup Recreated(d, a)}
    \cup {NodeOp("UpdateNodeConfig", n) : n \in Updated(d, a)}
    \cup {LinkOp("DestroyLink", l) : l \in Rebuilt(d, a) \cup UnwantedLinks(d, a)}
    \cup {LinkOp("CreateLink", l) : l \in MissingLinks(d, a) \cup Rebuilt(d, a)}

(***************************************************************************)
(* The order of the list: by phase (the stable sort), and inside a phase   *)
(* the order of appending, which is the wanted IDs in ascending order and  *)
(* then the unwanted ones in ascending order.                              *)
(***************************************************************************)
Wanted(d, o) == IF o.kind \in NodeOpKind THEN o.id \in NodesOf(d)
                                         ELSE o.id \in LinksOf(d)

Precedes(d, o, p) ==
    \/ phase(o.kind) < phase(p.kind)
    \/ /\ o.kind = p.kind
       /\ \/ Wanted(d, o) /\ ~ Wanted(d, p)
          \/ Wanted(d, o) = Wanted(d, p) /\ o.id < p.id

=============================================================================
