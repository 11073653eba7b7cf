------------------------------ MODULE Topology ------------------------------
(***************************************************************************)
(* The desired-state document of internal/topology: nodes, interfaces and  *)
(* links addressed by ID, and the structural rules Validate enforces.      *)
(*                                                                         *)
(* A collection keyed by ID is a total function from the ID set, with None *)
(* where nothing is declared.  That is exactly the quotient the code works *)
(* with: Equal, nodeIndex and linkIndex all ignore declaration order, and  *)
(* Validate rejects duplicate IDs before a document is stored.  (Equal     *)
(* makes one distinction more, see Replaces in Store.)                     *)
(***************************************************************************)
EXTENDS Naturals

CONSTANTS
    NodeId,     \* node IDs; numbers, because Diff walks IDs in sorted order
    IfaceId,    \* interface IDs, unique within a node
    LinkId,     \* link IDs, numbers as well
    NodeType,   \* host, switch, router, edge
    Image,      \* container image references
    Config,     \* canonical JSON of a Config map (Config.Equal compares that)
    NoConfig,   \* the empty Config: nil and {} are Equal
    None        \* "not there": no node, interface or link under this ID

(***************************************************************************)
(* A node carries two cold fields (type, image), and two hot ones: its own *)
(* config and its interfaces, each with a config.  The owner is left out   *)
(* (one owner in v1), and an interface name travels with its config.       *)
(***************************************************************************)
Interfaces == [IfaceId -> Config \cup {None}]
Node       == [type : NodeType, image : Image,
               ifaces : Interfaces, config : Config]

Endpoint == [node : NodeId, iface : IfaceId]
Link     == Endpoint \X Endpoint

Topo     == [nodes : [NodeId -> Node \cup {None}],
             links : [LinkId -> Link \cup {None}]]
Document == [topology : Topo, version : Nat]

EmptyTopo == [nodes |-> [n \in NodeId |-> None],
              links |-> [l \in LinkId |-> None]]

ASSUME IdsAreOrdered == NodeId \subseteq Nat /\ LinkId \subseteq Nat
ASSUME ConfigAssumption == NoConfig \in Config
ASSUME NoneAssumption == None \notin Config /\ None \notin Node /\ None \notin Link

NodesOf(t) == {n \in NodeId : t.nodes[n] # None}
LinksOf(t) == {l \in LinkId : t.links[l] # None}

EndsOf(link) == {link[1], link[2]}

(***************************************************************************)
(* Topology.Validate: every endpoint names an interface its node declares, *)
(* no interface belongs to two links, and a link has two distinct ends.    *)
(* (The rules on the characters of IDs and the length of names are about   *)
(* strings this model does not have.)                                      *)
(***************************************************************************)
EndpointExists(t, ep) ==
    /\ t.nodes[ep.node] # None
    /\ t.nodes[ep.node].ifaces[ep.iface] # None

Valid(t) ==
    \A l \in LinksOf(t) :
        /\ \A ep \in EndsOf(t.links[l]) : EndpointExists(t, ep)
        /\ t.links[l][1] # t.links[l][2]
        /\ \A m \in LinksOf(t) \ {l} :
              EndsOf(t.links[l]) \cap EndsOf(t.links[m]) = {}

=============================================================================
