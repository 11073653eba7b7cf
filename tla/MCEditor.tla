------------------------------ MODULE MCEditor ------------------------------
(***************************************************************************)
(* Two pages with two fetches between them, over at most two nodes and the *)
(* link between them.  The program starts on an empty machine, or takes    *)
(* over a lab of one node, or of two nodes and the link.                   *)
(***************************************************************************)
EXTENDS Editor, TLC

CONSTANTS none, host, img, plain

MCNodeId  == {1, 2}
MCIfaceId == {1}
MCLinkId  == {9}

Box == [type |-> host, image |-> img, ifaces |-> [i \in MCIfaceId |-> plain],
        config |-> plain]

MCCatalog == {Box}

Wire == <<[node |-> 1, iface |-> 1], [node |-> 2, iface |-> 1]>>

Lab(n1, n2, link) == [nodes |-> (1 :> n1 @@ 2 :> n2), links |-> (9 :> link)]

MCRunning == {Lab(Box, none, none), Lab(Box, Box, Wire)}

MCSymmetry == Permutations(Browser) \cup Permutations(Client)

=============================================================================
