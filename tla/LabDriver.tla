----------------------------- MODULE LabDriver ------------------------------
(***************************************************************************)
(* The contract of driver.Driver as the in-memory implementation in        *)
(* internal/driver/fake meets it: each mutating method as the lab it       *)
(* leaves behind, and the condition under which it returns an error of its *)
(* own accord.  A lab is a topology: the containers that exist with the    *)
(* node each was given, and the veth pairs with the link each realises.    *)
(***************************************************************************)
EXTENDS Topology

WithNode(lab, n, node) ==
    [nodes |-> [lab.nodes EXCEPT ![n] = node], links |-> lab.links]

WithLink(lab, l, link) ==
    [nodes |-> lab.nodes, links |-> [lab.links EXCEPT ![l] = link]]

\* Does this veth pair have an end inside node n's network namespace?
Touches(link, n) == link # None /\ \E ep \in EndsOf(link) : ep.node = n

\* Driver.CreateNode: a node that exists is left as it is.
CreateNode(lab, n, node) ==
    IF lab.nodes[n] = None THEN WithNode(lab, n, node) ELSE lab

\* Driver.DestroyNode: the node goes, and every link with an end inside it.
DestroyNode(lab, n) ==
    [nodes |-> [lab.nodes EXCEPT ![n] = None],
     links |-> [l \in LinkId |-> IF Touches(lab.links[l], n) THEN None
                                                             ELSE lab.links[l]]]

\* Driver.UpdateNodeConfig: an error if the node does not exist.
CanUpdateNodeConfig(lab, n) == lab.nodes[n] # None
UpdateNodeConfig(lab, n, node) == WithNode(lab, n, node)

\* Driver.CreateLink: a link that exists is left as it is, whatever its ends;
\* otherwise it is an error if either end's node does not exist.
CanCreateLink(lab, l, link) ==
    lab.links[l] # None \/ \A ep \in EndsOf(link) : lab.nodes[ep.node] # None
CreateLink(lab, l, link) ==
    IF lab.links[l] = None THEN WithLink(lab, l, link) ELSE lab

\* Driver.DestroyLink.
DestroyLink(lab, l) == WithLink(lab, l, None)

=============================================================================
