------------------------------ MODULE MCPodman ------------------------------
(***************************************************************************)
(* PodmanCycle on a host, a switch and a second host.  The documents ask   *)
(* for a wire from the first host to the switch, another address and       *)
(* settings for that host, the wire moved to the second host, another      *)
(* image and an address for that one, the first host alone with the wire   *)
(* between its own two interfaces, and nothing.                            *)
(***************************************************************************)
EXTENDS PodmanCycle, TLC

CONSTANTS none, host, switch, img1, img2, plain, ip1, ip2

MCNodeId  == {1, 2, 3}
MCIfaceId == {1, 2}
MCLinkId  == {1}

Box(type, image, addr) ==
    [type |-> type, image |-> image, ifaces |-> (1 :> addr @@ 2 :> none), config |-> plain]

Ep(n) == [node |-> n, iface |-> 1]

Lab(n1, n2, n3, link) ==
    [nodes |-> (1 :> n1 @@ 2 :> n2 @@ 3 :> n3), links |-> (1 :> link)]

Wired   == Lab(Box(host, img1, ip1), Box(switch, img1, plain), none, <<Ep(1), Ep(2)>>)
Readdr  == Lab([Box(host, img1, ip2) EXCEPT !.config = ip2], Box(switch, img1, plain), none,
               <<Ep(1), Ep(2)>>)
Moved   == Lab(Box(host, img1, ip1), Box(switch, img1, plain), Box(host, img1, plain),
               <<Ep(3), Ep(2)>>)
Rebased == [Moved EXCEPT !.nodes[3] = Box(host, img2, ip2)]
Looped  == Lab([Box(host, img1, ip1) EXCEPT !.ifaces[2] = ip2], none, none,
               <<Ep(1), [node |-> 1, iface |-> 2]>>)
Nothing == Lab(none, none, none, none)

MCDesired == {Wired, Readdr, Rebased, Moved, Looped, Nothing}

=============================================================================
