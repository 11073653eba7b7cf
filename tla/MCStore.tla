------------------------------ MODULE MCStore -------------------------------
(***************************************************************************)
(* Two clients of the store who fight over one wire: two topologies that   *)
(* can be built and one whose link ends on a node that is not there.       *)
(***************************************************************************)
EXTENDS Store, TLC

CONSTANTS none, host, img, plain

MCNodeId  == {1, 2}
MCIfaceId == {1}
MCLinkId  == {1}

Box  == [type |-> host, image |-> img, ifaces |-> [i \in MCIfaceId |-> plain],
         config |-> plain]
Wire == <<[node |-> 1, iface |-> 1], [node |-> 2, iface |-> 1]>>

Lab(n1, n2, link) == [nodes |-> (1 :> n1 @@ 2 :> n2), links |-> (1 :> link)]

MCSubmissions ==
    {Lab(Box, Box, Wire), Lab(Box, Box, none), Lab(Box, none, Wire)}

=============================================================================
