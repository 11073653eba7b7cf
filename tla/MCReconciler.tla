---------------------------- MODULE MCReconciler ----------------------------
(***************************************************************************)
(* Reconciler on three nodes.  The documents differ by the edits whose     *)
(* operations interact: an image change (cold), a node config change       *)
(* (hot), a wire whose ends are swapped, a wire moved to another node, an  *)
(* interface taken over by another link, and everything deleted.           *)
(***************************************************************************)
EXTENDS Reconciler, TLC

CONSTANTS none, host, img1, img2, plain, tuned

MCNodeId  == {1, 2, 3}
MCIfaceId == {1}
MCLinkId  == {1, 2}

Box(image, config) ==
    [type |-> host, image |-> image, ifaces |-> [i \in MCIfaceId |-> plain],
     config |-> config]

Ep(n) == [node |-> n, iface |-> 1]

Lab(n1, n2, n3, l1, l2) ==
    [nodes |-> (1 :> n1 @@ 2 :> n2 @@ 3 :> n3), links |-> (1 :> l1 @@ 2 :> l2)]

Pair    == Lab(Box(img1, plain), Box(img1, plain), none, <<Ep(1), Ep(2)>>, none)
Tuned   == Lab(Box(img1, tuned), Box(img1, plain), none, <<Ep(2), Ep(1)>>, none)
Rebased == Lab(Box(img2, tuned), Box(img1, plain), none, <<Ep(1), Ep(2)>>, none)
Moved   == Lab(Box(img1, plain), Box(img1, plain), Box(img1, tuned), <<Ep(1), Ep(3)>>, none)
Stolen  == Lab(Box(img1, plain), none, Box(img1, plain), none, <<Ep(3), Ep(1)>>)
Nothing == Lab(none, none, none, none, none)

MCDocuments ==
    {[topology |-> t, version |-> 1] : t \in {Pair, Tuned, Rebased, Moved, Stolen, Nothing}}

=============================================================================
