---------------------------- MODULE LabContract ----------------------------
(***************************************************************************)
(* What driver.Driver promises of every implementation, as a state machine *)
(* over what ReadActual returns: the lab changes one operation at a time,  *)
(* each in one indivisible step that is the operation's whole effect.  The *)
(* reconciler counts on it: an operation that failed has had its effect or *)
(* has not, and has touched nothing else.                                  *)
(***************************************************************************)
EXTENDS LabDriver

VARIABLE lab

NodeCreated   == \E n \in NodeId, node \in Node : lab' = CreateNode(lab, n, node)
NodeDestroyed == \E n \in NodeId : lab' = DestroyNode(lab, n)
NodeUpdated   == \E n \in NodeId, node \in Node :
                    CanUpdateNodeConfig(lab, n) /\ lab' = UpdateNodeConfig(lab, n, node)
LinkCreated   == \E l \in LinkId, link \in Link :
                    CanCreateLink(lab, l, link) /\ lab' = CreateLink(lab, l, link)
LinkDestroyed == \E l \in LinkId : lab' = DestroyLink(lab, l)

\* The machine's own doing: containers stop, and the veth pairs in their
\* namespaces are gone.
NamespacesLost ==
    \E stopped \in SUBSET NodeId :
        lab' = [lab EXCEPT !.links = [l \in LinkId |->
                   IF \E n \in stopped : Touches(@[l], n) THEN None ELSE @[l]]]

ContractNext ==
    \/ LinkDestroyed
    \/ NodeDestroyed
    \/ NamespacesLost
    \/ LinkCreated
    \/ NodeCreated
    \/ NodeUpdated

ContractInit == lab = EmptyTopo
ContractStep == UNCHANGED lab \/ ContractNext
ContractSpec == ContractInit /\ [][ContractNext]_lab

=============================================================================
