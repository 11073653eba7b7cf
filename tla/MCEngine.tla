------------------------------ MODULE MCEngine ------------------------------
(***************************************************************************)
(* The program on two nodes and one wire: a lab runs, or none does, when   *)
(* the process starts; clients ask for another image, for the wire gone,   *)
(* for the original, or for a wire to an interface no node declares.       *)
(***************************************************************************)
EXTENDS Engine, TLC

CONSTANTS none, host, img1, img2, plain

MCNodeId  == {1, 2}
MCIfaceId == {1}
MCLinkId  == {1}

Box(image) == [type |-> host, image |-> image,
               ifaces |-> [i \in MCIfaceId |-> plain], config |-> plain]

Ep(n) == [node |-> n, iface |-> 1]
Wire  == <<Ep(1), Ep(2)>>

Lab(n1, n2, link) == [nodes |-> (1 :> n1 @@ 2 :> n2), links |-> (1 :> link)]

Nothing == Lab(none, none, none)
Pair    == Lab(Box(img1), Box(img1), Wire)
Rebased == Lab(Box(img2), Box(img1), Wire)
Alone   == Lab(Box(img1), none, none)
Dangles == Lab(Box(img1), none, Wire)

MCDocuments   == {[topology |-> t, version |-> 1] : t \in {Nothing, Pair}}
MCSubmissions == {Rebased, Alone, Dangles}
MCStrayNode   == {Box(img2)}

=============================================================================
