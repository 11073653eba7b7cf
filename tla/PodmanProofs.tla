---------------------------- MODULE PodmanProofs ----------------------------
(***************************************************************************)
(* Proofs about Podman and PodmanCycle: the driver call by call, whichever *)
(* call fails and whenever the process, a container or the machine stops.  *)
(***************************************************************************)
EXTENDS PodmanCycle, TLAPS

MachineType ==
    /\ container \in [NodeId -> Container \cup {None}]
    /\ symlink \in [NodeId -> {"none", "stale", "live"}]
    /\ veths \subseteq Pair

CallType ==
    /\ call \in [kind : OpKind, id : NodeId \cup LinkId, arg : Node \cup Link \cup {None},
                 pc : Pc, end : End]
    /\ call.kind \in NodeOpKind => call.id \in NodeId
    /\ call.kind \in LinkOpKind => call.id \in LinkId
    /\ call.kind \in {"DestroyNode", "DestroyLink"} => call.arg = None
    /\ call.kind \in {"CreateNode", "UpdateNodeConfig"} => call.arg \in Node
    /\ call.kind = "CreateLink" => call.arg \in Link

\* A method in the middle of a node has its container, and a live symlink has one.
ContainersAreThere ==
    /\ \A n \in NodeId : symlink[n] = "live" => container[n] # None
    /\ \/ At("CreateNode", "start") \/ At("CreateNode", "symlink")
       \/ At("UpdateNodeConfig", "settings")
       => container[call.id] # None

\* CreateLink has at most one pair of its own on the way out of the root
\* namespace, and none once it configures the ends.
Rooted(p) == \E e \in End : p.stage[e] = "root"

Leftover(l, q) == \A p \in veths : p.id = l /\ Rooted(p) => p = q

Halfway(l, link) == [NewPair(l, link) EXCEPT !.stage[1] = "moved"]

OwnPairOnly ==
    /\ At("CreateLink", "move") /\ call.end = 1 => Leftover(call.id, NewPair(call.id, call.arg))
    /\ At("CreateLink", "move") /\ call.end = 2 => Leftover(call.id, Halfway(call.id, call.arg))
    /\ call.kind = "CreateLink" /\ call.pc \in {"tag", "up", "port"} =>
          \A p \in veths : p.id = call.id => ~ Rooted(p)

PodmanInv ==
    /\ MachineType
    /\ CallType
    /\ faults \in Nat /\ disturbances \in Nat
    /\ ContainersAreThere
    /\ OwnPairOnly
    /\ SightedLinksAreWired
    /\ SymlinksDoNotLeak

-----------------------------------------------------------------------------
(* Calls and what a step leaves of them.                                   *)

LEMMA CallFacts ==
    ASSUME CallType, NEW pc \in Pc, NEW e \in End,
           call' = [call EXCEPT !.pc = pc, !.end = e]
    PROVE  /\ CallType'
           /\ call'.kind = call.kind /\ call'.id = call.id /\ call'.arg = call.arg
           /\ call'.pc = pc /\ call'.end = e
BY DEF CallType

LEMMA GoesFacts ==
    ASSUME CallType, NEW pc \in Pc, Goes(pc)
    PROVE  /\ CallType'
           /\ call'.kind = call.kind /\ call'.id = call.id /\ call'.arg = call.arg
           /\ call'.pc = pc /\ call'.end = call.end
BY DEF CallType, Goes

LEMMA NoCallFacts ==
    ASSUME call' = NoCall
    PROVE  CallType' /\ call'.pc = "ok" /\ call'.kind = "DestroyNode"
<1>1. (CHOOSE n \in NodeId : TRUE) \in NodeId
  BY SomeNodeAssumption
<1> QED  BY <1>1 DEF CallType, NoCall, OpKind, NodeOpKind, LinkOpKind, Pc, End

LEMMA EndIsDoneFacts ==
    ASSUME CallType, EndIsDone
    PROVE  /\ CallType'
           /\ call'.kind = call.kind /\ call'.id = call.id /\ call'.arg = call.arg
           /\ call'.pc \in {"tag", "ok"}
<1>1. CASE call.end = 1
  <2>1. call' = [call EXCEPT !.pc = "tag", !.end = 2]
    BY <1>1 DEF EndIsDone
  <2>2. "tag" \in Pc /\ 2 \in End
    BY DEF Pc, End
  <2> QED  BY <2>1, <2>2, CallFacts
<1>2. CASE call.end # 1
  BY <1>2, GoesFacts DEF EndIsDone, Goes, Pc
<1> QED  BY <1>1, <1>2

\* The type of the calls follows from what the invariant says of them.
LEMMA InvGivesType == PodmanInv => PodmanTypeOK
BY DEF PodmanInv, MachineType, CallType, PodmanTypeOK, OpKind, NodeOpKind, LinkOpKind

\* A step that only removes pairs leaves nothing half built, or tagged too early.
LEMMA FewerPairs ==
    ASSUME PodmanInv, veths' \subseteq veths
    PROVE  SightedLinksAreWired'
BY DEF PodmanInv, SightedLinksAreWired

\* Nor is there more to say of a method that is not in the middle of a link.
LEMMA NoLinkOnTheWay ==
    ASSUME call'.kind # "CreateLink" \/ call'.pc \in {"begin", "add", "ok", "err"}
    PROVE  OwnPairOnly'
BY DEF OwnPairOnly, At

-----------------------------------------------------------------------------
(* CreateNode and DestroyNode.                                             *)

LEMMA CreatesContainerKeepsInv ==
    ASSUME PodmanInv, CreatesContainer
    PROVE  PodmanInv'
<1>1. call.kind = "CreateNode" /\ call.pc = "begin" /\ call.id \in NodeId /\ call.arg \in Node
  BY DEF CreatesContainer, At, PodmanInv, CallType, NodeOpKind
<1>2. /\ CallType' /\ call'.kind = call.kind /\ call'.id = call.id
      /\ call'.pc \in {"ok", "start"}
      /\ call'.pc = "start" => container'[call.id] # None
  <2>1. CASE container[call.id] # None /\ Goes("ok")
    BY <2>1, GoesFacts DEF PodmanInv, Pc
  <2>2. CASE /\ Goes("start")
             /\ container' = [container EXCEPT ![call.id] =
                              [label |-> call.arg, running |-> FALSE, settings |-> {}]]
    <3>1. [label |-> call.arg, running |-> FALSE, settings |-> {}] \in Container
      BY <1>1 DEF Container
    <3>2. container'[call.id] # None
      BY <1>1, <2>2, <3>1, NoneIsNoContainer DEF PodmanInv, MachineType
    <3> QED  BY <2>2, <3>2, GoesFacts DEF PodmanInv, Pc
  <2> QED  BY <2>1, <2>2 DEF CreatesContainer
<1>3. /\ container' \in [NodeId -> Container \cup {None}]
      /\ \A n \in NodeId : container[n] # None => container'[n] # None
  <2>1. [label |-> call.arg, running |-> FALSE, settings |-> {}] \in Container
    BY <1>1 DEF Container
  <2> QED
    BY <1>1, <2>1, NoneIsNoContainer DEF CreatesContainer, PodmanInv, MachineType
<1>4. MachineType' /\ faults' = faults /\ disturbances' = disturbances /\ veths' = veths
      /\ symlink' = symlink
  BY <1>3 DEF CreatesContainer, PodmanInv, MachineType
<1>5. ContainersAreThere'
  BY <1>1, <1>2, <1>3, <1>4 DEF PodmanInv, ContainersAreThere, At, MachineType
<1>6. SymlinksDoNotLeak'
  BY <1>1, <1>3, <1>4 DEF PodmanInv, SymlinksDoNotLeak, At
<1>7. OwnPairOnly' /\ SightedLinksAreWired'
  BY <1>1, <1>2, <1>4, NoLinkOnTheWay, FewerPairs
<1> QED  BY <1>2, <1>4, <1>5, <1>6, <1>7 DEF PodmanInv

LEMMA StartsContainerKeepsInv ==
    ASSUME PodmanInv, StartsContainer
    PROVE  PodmanInv'
<1>1. /\ call.kind = "CreateNode" /\ call.pc = "start" /\ call.id \in NodeId
      /\ container[call.id] \in Container
  BY DEF StartsContainer, At, PodmanInv, CallType, NodeOpKind, ContainersAreThere, MachineType
<1>2. /\ CallType' /\ call'.kind = call.kind /\ call'.id = call.id /\ call'.pc = "symlink"
  BY GoesFacts DEF StartsContainer, PodmanInv, Pc
<1>3. [container[call.id] EXCEPT !.running = TRUE] \in Container
  BY <1>1 DEF Container
<1>4. /\ container' \in [NodeId -> Container \cup {None}]
      /\ \A n \in NodeId : container[n] # None => container'[n] # None
  BY <1>1, <1>3, NoneIsNoContainer DEF StartsContainer, PodmanInv, MachineType
<1>5. MachineType' /\ faults' = faults /\ disturbances' = disturbances /\ veths' = veths
      /\ symlink' = symlink
  BY <1>4 DEF StartsContainer, PodmanInv, MachineType
<1>6. ContainersAreThere'
  BY <1>1, <1>2, <1>4, <1>5, NoneIsNoContainer DEF PodmanInv, ContainersAreThere, At, MachineType
<1>7. SymlinksDoNotLeak'
  BY <1>1, <1>4, <1>5 DEF PodmanInv, SymlinksDoNotLeak, At
<1>8. OwnPairOnly' /\ SightedLinksAreWired'
  BY <1>1, <1>2, <1>5, NoLinkOnTheWay, FewerPairs
<1> QED  BY <1>2, <1>5, <1>6, <1>7, <1>8 DEF PodmanInv

LEMMA LinksNamespaceKeepsInv ==
    ASSUME PodmanInv, LinksNamespace
    PROVE  PodmanInv'
<1>1. /\ call.kind = "CreateNode" /\ call.pc = "symlink" /\ call.id \in NodeId
      /\ container[call.id] # None
  BY DEF LinksNamespace, At, PodmanInv, CallType, NodeOpKind, ContainersAreThere, MachineType
<1>2. /\ CallType' /\ call'.kind = call.kind /\ call'.id = call.id /\ call'.pc \in {"ok", "err"}
  BY GoesFacts DEF LinksNamespace, PodmanInv, Pc
<1>3. /\ MachineType' /\ faults' = faults /\ disturbances' = disturbances
      /\ veths' = veths /\ container' = container
      /\ \A n \in NodeId : symlink'[n] = symlink[n] \/ n = call.id
  BY <1>1 DEF LinksNamespace, PodmanInv, MachineType
<1>4. ContainersAreThere'
  BY <1>1, <1>2, <1>3 DEF PodmanInv, ContainersAreThere, At
<1>5. SymlinksDoNotLeak'
  BY <1>1, <1>3 DEF PodmanInv, SymlinksDoNotLeak, At
<1>6. OwnPairOnly' /\ SightedLinksAreWired'
  BY <1>1, <1>2, <1>3, NoLinkOnTheWay, FewerPairs
<1> QED  BY <1>2, <1>3, <1>4, <1>5, <1>6 DEF PodmanInv

LEMMA RemovesContainerKeepsInv ==
    ASSUME PodmanInv, RemovesContainer
    PROVE  PodmanInv'
<1>1. call.kind = "DestroyNode" /\ call.pc = "begin" /\ call.id \in NodeId
  BY DEF RemovesContainer, At, PodmanInv, CallType, NodeOpKind
<1>2. /\ CallType' /\ call'.kind = call.kind /\ call'.id = call.id /\ call'.pc = "unlink"
  BY GoesFacts DEF RemovesContainer, PodmanInv, Pc
<1>3. /\ MachineType' /\ faults' = faults /\ disturbances' = disturbances
      /\ veths' \subseteq veths
      /\ symlink'[call.id] # "live"
      /\ \A n \in NodeId \ {call.id} : symlink'[n] = symlink[n] /\ container'[n] = container[n]
  BY <1>1 DEF RemovesContainer, PodmanInv, MachineType
<1>4. ContainersAreThere'
  BY <1>1, <1>2, <1>3 DEF PodmanInv, ContainersAreThere, At
<1>5. SymlinksDoNotLeak'
  BY <1>1, <1>2, <1>3 DEF PodmanInv, SymlinksDoNotLeak, At
<1>6. OwnPairOnly' /\ SightedLinksAreWired'
  BY <1>1, <1>2, <1>3, NoLinkOnTheWay, FewerPairs
<1> QED  BY <1>2, <1>3, <1>4, <1>5, <1>6 DEF PodmanInv

LEMMA RemovesSymlinkKeepsInv ==
    ASSUME PodmanInv, RemovesSymlink
    PROVE  PodmanInv'
<1>1. call.kind = "DestroyNode" /\ call.pc = "unlink" /\ call.id \in NodeId
  BY DEF RemovesSymlink, At, PodmanInv, CallType, NodeOpKind
<1>2. /\ CallType' /\ call'.kind = call.kind /\ call'.id = call.id /\ call'.pc = "ok"
  BY GoesFacts DEF RemovesSymlink, PodmanInv, Pc
<1>3. /\ MachineType' /\ faults' = faults /\ disturbances' = disturbances
      /\ veths' = veths /\ container' = container
      /\ symlink'[call.id] = "none"
      /\ \A n \in NodeId \ {call.id} : symlink'[n] = symlink[n]
  BY <1>1 DEF RemovesSymlink, PodmanInv, MachineType
<1>4. ContainersAreThere'
  BY <1>1, <1>2, <1>3 DEF PodmanInv, ContainersAreThere, At
<1>5. SymlinksDoNotLeak'
  BY <1>1, <1>2, <1>3 DEF PodmanInv, SymlinksDoNotLeak, At
<1>6. OwnPairOnly' /\ SightedLinksAreWired'
  BY <1>1, <1>2, <1>3, NoLinkOnTheWay, FewerPairs
<1> QED  BY <1>2, <1>3, <1>4, <1>5, <1>6 DEF PodmanInv

-----------------------------------------------------------------------------
(* CreateLink and DestroyLink.                                             *)

\* What every step of CreateLink leaves alone, and how far it has to be looked at.
LEMMA LinkStep ==
    ASSUME PodmanInv, call.kind \in {"CreateLink", "DestroyLink"},
           CallType', call'.kind = call.kind, call'.id = call.id, veths' \subseteq Pair,
           UNCHANGED <<container, symlink, faults, disturbances>>,
           SightedLinksAreWired', OwnPairOnly'
    PROVE  PodmanInv'
<1>1. MachineType'
  BY DEF PodmanInv, MachineType
<1>2. ContainersAreThere' /\ SymlinksDoNotLeak'
  BY DEF PodmanInv, ContainersAreThere, SymlinksDoNotLeak, At
<1> QED  BY <1>1, <1>2 DEF PodmanInv

LEMMA FindsEndsKeepsInv ==
    ASSUME PodmanInv, FindsEnds
    PROVE  PodmanInv'
<1>1. call.kind = "CreateLink"
  BY DEF FindsEnds, At
<1>2. /\ CallType' /\ call'.kind = call.kind /\ call'.id = call.id
      /\ call'.pc \in {"ok", "err", "add"}
  BY GoesFacts DEF FindsEnds, PodmanInv, Pc
<1>3. veths' \subseteq veths /\ veths' \subseteq Pair
  BY DEF FindsEnds, PodmanInv, MachineType
<1>4. OwnPairOnly' /\ SightedLinksAreWired'
  BY <1>2, <1>3, NoLinkOnTheWay, FewerPairs
<1> QED  BY <1>1, <1>2, <1>3, <1>4, LinkStep DEF FindsEnds

LEMMA NewPairFacts ==
    ASSUME NEW l \in LinkId, NEW link \in Link
    PROVE  /\ NewPair(l, link) \in Pair /\ NewPair(l, link).id = l
           /\ \A e \in End : NewPair(l, link).stage[e] = "root"
           /\ Halfway(l, link) \in Pair /\ Halfway(l, link).id = l
           /\ Halfway(l, link).stage[1] = "moved" /\ Halfway(l, link).stage[2] = "root"
BY DEF NewPair, Halfway, Pair, Stage, End

LEMMA AddsPairKeepsInv ==
    ASSUME PodmanInv, AddsPair
    PROVE  PodmanInv'
<1>1. call.kind = "CreateLink" /\ call.id \in LinkId /\ call.arg \in Link
  BY DEF AddsPair, At, PodmanInv, CallType, LinkOpKind
<1>2. CASE Goes("err") /\ UNCHANGED veths
  <2>1. /\ CallType' /\ call'.kind = call.kind /\ call'.id = call.id /\ call'.pc = "err"
    BY <1>2, GoesFacts DEF PodmanInv, Pc
  <2>2. OwnPairOnly' /\ SightedLinksAreWired'
    BY <2>1, <1>2, NoLinkOnTheWay, FewerPairs
  <2> QED  BY <1>1, <1>2, <2>1, <2>2, LinkStep DEF AddsPair, PodmanInv, MachineType
<1>3. CASE /\ \A e \in End : EndsInRoot(call.id, e) = {}
           /\ veths' = veths \cup {NewPair(call.id, call.arg)}
           /\ call' = [call EXCEPT !.pc = "move", !.end = 1]
  <2>1. "move" \in Pc /\ 1 \in End
    BY DEF Pc, End
  <2>2. /\ CallType' /\ call'.kind = call.kind /\ call'.id = call.id /\ call'.arg = call.arg
        /\ call'.pc = "move" /\ call'.end = 1
    BY <1>3, <2>1, CallFacts DEF PodmanInv
  <2>3. \A p \in veths : p.id = call.id => ~ Rooted(p)
    BY <1>3 DEF EndsInRoot, Rooted
  <2>4. OwnPairOnly'
    BY <1>3, <2>2, <2>3 DEF OwnPairOnly, At, Leftover
  <2>5. SightedLinksAreWired' /\ veths' \subseteq Pair
    BY <1>1, <1>3, NewPairFacts
    DEF SightedLinksAreWired, PodmanInv, MachineType, Tagged
  <2> QED  BY <1>1, <2>2, <2>4, <2>5, LinkStep DEF AddsPair
<1> QED  BY <1>2, <1>3 DEF AddsPair

LEMMA MovesEndKeepsInv ==
    ASSUME PodmanInv, MovesEnd
    PROVE  PodmanInv'
<1>1. /\ call.kind = "CreateLink" /\ call.id \in LinkId /\ call.arg \in Link
      /\ call.pc = "move" /\ call.end \in End
  BY DEF MovesEnd, At, PodmanInv, CallType, LinkOpKind
<1>2. CASE Goes("err") /\ UNCHANGED veths
  <2>1. /\ CallType' /\ call'.kind = call.kind /\ call'.id = call.id /\ call'.pc = "err"
    BY <1>2, GoesFacts DEF PodmanInv, Pc
  <2>2. OwnPairOnly' /\ SightedLinksAreWired'
    BY <2>1, <1>2, NoLinkOnTheWay, FewerPairs
  <2> QED  BY <1>1, <1>2, <2>1, <2>2, LinkStep DEF MovesEnd, PodmanInv, MachineType
<1>3. ASSUME NEW p \in EndsInRoot(call.id, call.end),
             veths' = (veths \ {p}) \cup {[p EXCEPT !.stage[call.end] = "moved"]},
             call' = IF call.end = 1 THEN [call EXCEPT !.end = 2]
                                     ELSE [call EXCEPT !.pc = "tag", !.end = 1]
      PROVE  PodmanInv'
  <2> DEFINE q == [p EXCEPT !.stage[call.end] = "moved"]
  <2>1. p \in veths /\ p \in Pair /\ p.id = call.id /\ p.stage[call.end] = "root"
    BY <1>3 DEF EndsInRoot, PodmanInv, MachineType
  <2>2. /\ q \in Pair /\ q.id = call.id /\ q.stage[call.end] = "moved"
        /\ \A f \in End \ {call.end} : q.stage[f] = p.stage[f]
    BY <1>1, <2>1 DEF Pair, Stage
  <2>3. veths' \subseteq Pair
    BY <1>3, <2>2 DEF PodmanInv, MachineType
  <2>4. CASE call.end = 1
    <3>1. p = NewPair(call.id, call.arg)
      BY <1>1, <2>1, <2>4 DEF PodmanInv, OwnPairOnly, At, Leftover, Rooted, End
    <3>2. q = Halfway(call.id, call.arg)
      BY <2>4, <3>1 DEF Halfway
    <3>3. /\ CallType' /\ call'.kind = call.kind /\ call'.id = call.id /\ call'.arg = call.arg
          /\ call'.pc = "move" /\ call'.end = 2
      BY <1>1, <1>3, <2>4 DEF PodmanInv, CallType, End
    <3>4. Leftover(call.id, Halfway(call.id, call.arg))'
      BY <1>1, <1>3, <2>4, <3>1, <3>2, <3>3
      DEF PodmanInv, OwnPairOnly, At, Leftover, Rooted
    <3>5. OwnPairOnly'
      BY <3>3, <3>4 DEF OwnPairOnly, At
    <3>6. SightedLinksAreWired'
      BY <1>1, <1>3, <3>2, NewPairFacts
      DEF PodmanInv, SightedLinksAreWired, Tagged, End
    <3> QED  BY <1>1, <2>3, <3>3, <3>5, <3>6, LinkStep DEF MovesEnd
  <2>5. CASE call.end = 2
    <3>1. p = Halfway(call.id, call.arg)
      BY <1>1, <2>1, <2>5 DEF PodmanInv, OwnPairOnly, At, Leftover, Rooted, End
    <3>2. \A f \in End : q.stage[f] = "moved"
      BY <1>1, <2>2, <2>5, <3>1, NewPairFacts DEF End
    <3>3. call' = [call EXCEPT !.pc = "tag", !.end = 1]
      BY <1>3, <2>5
    <3>4. "tag" \in Pc /\ 1 \in End
      BY DEF Pc, End
    <3>5. /\ CallType' /\ call'.kind = call.kind /\ call'.id = call.id /\ call'.arg = call.arg
          /\ call'.pc = "tag"
      BY <3>3, <3>4, CallFacts DEF PodmanInv
    <3>6. \A r \in veths' : r.id = call.id => ~ Rooted(r)
      BY <1>1, <1>3, <2>5, <3>1, <3>2 DEF PodmanInv, OwnPairOnly, At, Leftover, Rooted
    <3>7. OwnPairOnly'
      BY <3>5, <3>6 DEF OwnPairOnly, At
    <3>8. SightedLinksAreWired'
      BY <1>3, <3>2 DEF PodmanInv, SightedLinksAreWired
    <3> QED  BY <1>1, <2>3, <3>5, <3>7, <3>8, LinkStep DEF MovesEnd
  <2> QED  BY <1>1, <2>4, <2>5 DEF End
<1> QED  BY <1>2, <1>3 DEF MovesEnd

\* An end of a pair that is out of the root namespace is configured.
LEMMA ReachesFacts ==
    ASSUME PodmanInv, NEW s \in Tagged, Reaches(s), call.kind = "CreateLink",
           call.pc \in {"tag", "up", "port"},
           CallType', call'.kind = call.kind, call'.id = call.id,
           call'.pc \in {"tag", "up", "port", "ok"},
           UNCHANGED <<container, symlink, faults, disturbances>>
    PROVE  PodmanInv'
<1>1. PICK p \in EndsInside(call.id, call.end, call.arg[call.end].node) :
         veths' = (veths \ {p}) \cup {[p EXCEPT !.stage[call.end] = s]}
  BY DEF Reaches
<1>2. p \in veths /\ p \in Pair /\ p.id = call.id /\ ~ Rooted(p) /\ call.end \in End
  BY <1>1 DEF EndsInside, PodmanInv, MachineType, OwnPairOnly, CallType
<1> DEFINE q == [p EXCEPT !.stage[call.end] = s]
<1>3. /\ q \in Pair /\ q.id = call.id /\ q.stage[call.end] = s
      /\ \A f \in End \ {call.end} : q.stage[f] = p.stage[f]
  BY <1>2 DEF Pair, Stage, Tagged
<1>4. \A f \in End : q.stage[f] # "root"
  BY <1>2, <1>3 DEF Rooted, Tagged
<1>5. SightedLinksAreWired' /\ veths' \subseteq Pair
  BY <1>1, <1>3, <1>4 DEF PodmanInv, MachineType, SightedLinksAreWired
<1>6. OwnPairOnly'
  BY <1>1, <1>4 DEF PodmanInv, OwnPairOnly, At, Rooted
<1> QED  BY <1>5, <1>6, LinkStep

LEMMA ConfiguresEndKeepsInv ==
    ASSUME PodmanInv, TagsEnd \/ RaisesEnd \/ JoinsBridge
    PROVE  PodmanInv'
<1>1. CASE TagsEnd
  <2>1. CallType' /\ call'.kind = call.kind /\ call'.id = call.id /\ call'.pc = "up"
    BY <1>1, GoesFacts DEF TagsEnd, PodmanInv, Pc
  <2> QED  BY <1>1, <2>1, ReachesFacts DEF TagsEnd, At, Tagged
<1>2. CASE RaisesEnd
  <2>1. /\ CallType' /\ call'.kind = call.kind /\ call'.id = call.id
        /\ call'.pc \in {"port", "tag", "ok"}
    BY <1>2, GoesFacts, EndIsDoneFacts DEF RaisesEnd, PodmanInv, Pc
  <2> QED  BY <1>2, <2>1, ReachesFacts DEF RaisesEnd, At, Tagged
<1>3. CASE JoinsBridge
  <2>1. /\ CallType' /\ call'.kind = call.kind /\ call'.id = call.id
        /\ call'.pc \in {"tag", "ok"}
    BY <1>3, EndIsDoneFacts DEF JoinsBridge, PodmanInv
  <2> QED  BY <1>3, <2>1, ReachesFacts DEF JoinsBridge, At, Tagged
<1> QED  BY <1>1, <1>2, <1>3

LEMMA DeletesPairKeepsInv ==
    ASSUME PodmanInv, DeletesPair
    PROVE  PodmanInv'
<1>1. call.kind = "DestroyLink"
  BY DEF DeletesPair, At
<1>2. /\ CallType' /\ call'.kind = call.kind /\ call'.id = call.id /\ call'.pc = "ok"
  BY GoesFacts DEF DeletesPair, PodmanInv, Pc
<1>3. veths' \subseteq veths /\ veths' \subseteq Pair
  BY DEF DeletesPair, PodmanInv, MachineType
<1>4. OwnPairOnly' /\ SightedLinksAreWired'
  BY <1>2, <1>3, NoLinkOnTheWay, FewerPairs
<1> QED  BY <1>1, <1>2, <1>3, <1>4, LinkStep DEF DeletesPair

-----------------------------------------------------------------------------
(* UpdateNodeConfig, failures, and the machine's own doing.                *)

LEMMA AddressedFacts ==
    ASSUME NEW p \in Pair, NEW n \in NodeId, NEW node \in Node
    PROVE  /\ Addressed(p, n, node) \in Pair
           /\ Addressed(p, n, node).stage = p.stage
<1>1. IfaceOn(p.link, n) \in IfaceId
  BY DEF IfaceOn, Pair, Link, Endpoint
<1>2. ToSet(node.ifaces[IfaceOn(p.link, n)]) \subseteq Config
  BY <1>1 DEF Node, Interfaces, ToSet
<1> QED  BY <1>2 DEF Addressed, Pair

LEMMA SetsAddressesKeepsInv ==
    ASSUME PodmanInv, SetsAddresses
    PROVE  PodmanInv'
<1>1. /\ call.kind = "UpdateNodeConfig" /\ call.pc = "begin"
      /\ call.id \in NodeId /\ call.arg \in Node
  BY DEF SetsAddresses, At, PodmanInv, CallType, NodeOpKind
<1>2. /\ CallType' /\ call'.kind = call.kind /\ call'.id = call.id
      /\ call'.pc \in {"ok", "err", "settings"}
      /\ call'.pc = "settings" => Opens(call.id)
  BY GoesFacts DEF SetsAddresses, PodmanInv, Pc
<1>3. \A q \in veths' : q \in Pair /\ \E p \in veths : q.stage = p.stage
  BY <1>1, AddressedFacts DEF SetsAddresses, PodmanInv, MachineType
<1>4. MachineType'
  BY <1>3 DEF SetsAddresses, PodmanInv, MachineType
<1>5. ContainersAreThere'
  BY <1>1, <1>2 DEF SetsAddresses, PodmanInv, ContainersAreThere, At, Opens
<1>6. SymlinksDoNotLeak'
  BY <1>1 DEF SetsAddresses, PodmanInv, SymlinksDoNotLeak, At
<1>7. SightedLinksAreWired'
  BY <1>3 DEF PodmanInv, SightedLinksAreWired
<1>8. OwnPairOnly'
  BY <1>1, <1>2, NoLinkOnTheWay
<1> QED  BY <1>2, <1>4, <1>5, <1>6, <1>7, <1>8 DEF SetsAddresses, PodmanInv

LEMMA SetsForwardingAndRoutesKeepsInv ==
    ASSUME PodmanInv, SetsForwardingAndRoutes
    PROVE  PodmanInv'
<1>1. /\ call.kind = "UpdateNodeConfig" /\ call.pc = "settings"
      /\ call.id \in NodeId /\ call.arg \in Node /\ container[call.id] \in Container
  BY DEF SetsForwardingAndRoutes, At, PodmanInv, CallType, NodeOpKind, ContainersAreThere,
         MachineType
<1>2. CallType' /\ call'.kind = call.kind /\ call'.id = call.id /\ call'.pc = "ok"
  BY GoesFacts DEF SetsForwardingAndRoutes, PodmanInv, Pc
<1>3. [container[call.id] EXCEPT !.settings = @ \cup ToSet(call.arg.config)] \in Container
  BY <1>1 DEF Container, ToSet, Node
<1>4. /\ container' \in [NodeId -> Container \cup {None}]
      /\ \A n \in NodeId : container[n] # None => container'[n] # None
  BY <1>1, <1>3, NoneIsNoContainer DEF SetsForwardingAndRoutes, PodmanInv, MachineType
<1>5. MachineType' /\ faults' = faults /\ disturbances' = disturbances /\ veths' = veths
      /\ symlink' = symlink
  BY <1>4 DEF SetsForwardingAndRoutes, PodmanInv, MachineType
<1>6. ContainersAreThere'
  BY <1>1, <1>2, <1>4, <1>5 DEF PodmanInv, ContainersAreThere, At
<1>7. SymlinksDoNotLeak'
  BY <1>1, <1>4, <1>5 DEF PodmanInv, SymlinksDoNotLeak, At
<1>8. OwnPairOnly' /\ SightedLinksAreWired'
  BY <1>1, <1>2, <1>5, NoLinkOnTheWay, FewerPairs
<1> QED  BY <1>2, <1>5, <1>6, <1>7, <1>8 DEF PodmanInv

LEMMA DriverStepKeepsInv ==
    ASSUME PodmanInv, DriverStep
    PROVE  PodmanInv'
BY CreatesContainerKeepsInv, StartsContainerKeepsInv, LinksNamespaceKeepsInv,
   RemovesContainerKeepsInv, RemovesSymlinkKeepsInv, FindsEndsKeepsInv, AddsPairKeepsInv,
   MovesEndKeepsInv, ConfiguresEndKeepsInv, DeletesPairKeepsInv, SetsAddressesKeepsInv,
   SetsForwardingAndRoutesKeepsInv
DEF DriverStep

\* A method that fails at any of its calls leaves what it has done so far.
LEMMA AbandonsKeepsInv ==
    ASSUME PodmanInv, Abandons
    PROVE  PodmanInv'
<1>1. CallType' /\ call'.pc \in {"ok", "err"}
  BY GoesFacts DEF Abandons, PodmanInv, Pc
<1>2. UNCHANGED <<container, symlink, veths, disturbances>> /\ faults' = faults + 1
  BY DEF Abandons, machineVars
<1>3. faults' \in Nat /\ faults' > 0
  BY <1>2 DEF PodmanInv
<1>4. MachineType' /\ ContainersAreThere' /\ SymlinksDoNotLeak'
  BY <1>1, <1>2, <1>3 DEF PodmanInv, MachineType, ContainersAreThere, SymlinksDoNotLeak, At
<1>5. OwnPairOnly' /\ SightedLinksAreWired'
  BY <1>1, <1>2, NoLinkOnTheWay, FewerPairs
<1> QED  BY <1>1, <1>2, <1>3, <1>4, <1>5 DEF PodmanInv

\* A cycle is over, or dies in the middle of a method.
LEMMA NoCallKeepsInv ==
    ASSUME PodmanInv, call' = NoCall, UNCHANGED <<container, symlink, veths, disturbances>>,
           \/ Returned /\ faults' = faults
           \/ faults' = faults + 1
    PROVE  PodmanInv'
<1>1. CallType' /\ call'.pc = "ok" /\ call'.kind = "DestroyNode"
  BY NoCallFacts
<1>2. /\ faults' \in Nat
      /\ faults' = 0 => call.pc \in {"ok", "err"} /\ faults = 0
  BY DEF PodmanInv, Returned
<1>3. MachineType' /\ ContainersAreThere' /\ SymlinksDoNotLeak'
  BY <1>1, <1>2 DEF PodmanInv, MachineType, ContainersAreThere, SymlinksDoNotLeak, At
<1>4. OwnPairOnly' /\ SightedLinksAreWired'
  BY <1>1, NoLinkOnTheWay, FewerPairs
<1> QED  BY <1>1, <1>2, <1>3, <1>4 DEF PodmanInv

LEMMA StoppedFacts ==
    ASSUME NEW c \in Container \cup {None}
    PROVE  Stopped(c) \in Container \cup {None} /\ (Stopped(c) = None <=> c = None)
BY NoneIsNoContainer DEF Stopped, Container

\* While a namespace is held open nothing stops: no link is on its way.
LEMMA ContainerStopsKeepsInv ==
    ASSUME PodmanInv, NEW n \in NodeId, ContainerStops(n)
    PROVE  PodmanInv'
<1>1. /\ call' = call /\ faults' = faults /\ disturbances' \in Nat /\ veths' \subseteq veths
  BY DEF ContainerStops, PodmanInv
<1>2. /\ container' \in [NodeId -> Container \cup {None}]
      /\ \A m \in NodeId : container'[m] = None <=> container[m] = None
  BY StoppedFacts DEF ContainerStops, PodmanInv, MachineType
<1>3. /\ symlink' \in [NodeId -> {"none", "stale", "live"}]
      /\ \A m \in NodeId : /\ symlink'[m] = "live" => symlink[m] = "live"
                           /\ symlink'[m] = "none" <=> symlink[m] = "none"
  BY DEF ContainerStops, PodmanInv, MachineType
<1>4. MachineType' /\ CallType'
  BY <1>1, <1>2, <1>3 DEF PodmanInv, MachineType, CallType
<1>5. ContainersAreThere' /\ SymlinksDoNotLeak'
  BY <1>1, <1>2, <1>3
  DEF PodmanInv, ContainersAreThere, SymlinksDoNotLeak, At, CallType, NodeOpKind
<1>6. call'.kind # "CreateLink" \/ call'.pc \in {"ok", "err"}
  BY <1>1 DEF ContainerStops, HoldsNamespace, Returned
<1>7. OwnPairOnly' /\ SightedLinksAreWired'
  BY <1>1, <1>6, NoLinkOnTheWay, FewerPairs
<1> QED  BY <1>1, <1>4, <1>5, <1>7 DEF PodmanInv

LEMMA RebootsKeepsInv ==
    ASSUME PodmanInv, Reboots
    PROVE  PodmanInv'
<1>1. CallType' /\ call'.pc = "ok" /\ call'.kind = "DestroyNode"
  BY NoCallFacts DEF Reboots
<1>2. MachineType'
  BY StoppedFacts DEF Reboots, PodmanInv, MachineType
<1>3. ContainersAreThere' /\ SymlinksDoNotLeak'
  BY <1>1 DEF Reboots, ContainersAreThere, SymlinksDoNotLeak, At
<1>4. OwnPairOnly' /\ SightedLinksAreWired'
  BY <1>1, NoLinkOnTheWay DEF Reboots, SightedLinksAreWired
<1> QED  BY <1>1, <1>2, <1>3, <1>4 DEF Reboots, PodmanInv

-----------------------------------------------------------------------------
(* The cycle.                                                              *)

CycleInv ==
    /\ PodmanInv
    /\ desired \in Desired \cup {EmptyTopo}
    /\ at \in {"idle", "apply"}
    /\ todo \subseteq OpSet
    /\ \A o \in todo : o.kind \in {"CreateNode", "UpdateNodeConfig", "CreateLink"} =>
                          Wanted(desired, o)
    /\ clean \in BOOLEAN
    /\ built \subseteq NodeId

\* Diff orders what is there to be destroyed, and creates what is wanted.
LEMMA DiffFacts ==
    ASSUME NEW d, NEW a
    PROVE  /\ Diff(d, a) \subseteq OpSet
           /\ \A o \in Diff(d, a) :
                 o.kind \in {"CreateNode", "UpdateNodeConfig", "CreateLink"} => Wanted(d, o)
<1>1. Diff(d, a) \subseteq OpSet
  BY DEF Diff, OpSet, NodeOp, LinkOp, NodeOpKind, LinkOpKind, Missing, Unwanted, Recreated,
         Updated, MissingLinks, UnwantedLinks, Rebuilt, NodesOf, LinksOf
<1>2. ASSUME NEW o \in Diff(d, a),
             o.kind \in {"CreateNode", "UpdateNodeConfig", "CreateLink"}
      PROVE  Wanted(d, o)
  BY <1>2 DEF Diff, Wanted, NodeOp, LinkOp, NodeOpKind, Missing, Recreated, Updated,
              MissingLinks, Rebuilt
<1> QED  BY <1>1, <1>2

LEMMA CallsKeepsInv ==
    ASSUME CycleInv, NEW o \in todo, Calls(o, desired)
    PROVE  PodmanInv'
<1>1. desired \in Topo
  BY DesiredAssumption DEF CycleInv, EmptyTopo, Topo
<1>2. o \in OpSet /\ (o.kind \in {"CreateNode", "UpdateNodeConfig", "CreateLink"}
                         => Wanted(desired, o))
  BY DEF CycleInv
<1>3. /\ o.kind \in NodeOpKind => o.id \in NodeId
      /\ o.kind \in LinkOpKind => o.id \in LinkId
      /\ o.kind \in OpKind
  BY <1>2 DEF OpSet, OpKind, NodeOpKind, LinkOpKind
<1>4. /\ o.kind \in {"CreateNode", "UpdateNodeConfig"} => desired.nodes[o.id] \in Node
      /\ o.kind = "CreateLink" => desired.links[o.id] \in Link
  BY <1>1, <1>2, <1>3 DEF Wanted, NodesOf, LinksOf, NodeOpKind, LinkOpKind, Topo
<1>5. "begin" \in Pc /\ 1 \in End
  BY DEF Pc, End
<1>6. CallType' /\ call'.pc = "begin"
  BY <1>3, <1>4, <1>5 DEF Calls, CallType, OpKind, NodeOpKind, LinkOpKind
<1>7. UNCHANGED <<container, symlink, veths, faults, disturbances>> /\ call.pc \in {"ok", "err"}
  BY DEF Calls, machineVars, Returned
<1>8. MachineType' /\ ContainersAreThere' /\ SymlinksDoNotLeak'
  BY <1>6, <1>7
  DEF CycleInv, PodmanInv, MachineType, ContainersAreThere, SymlinksDoNotLeak, At
<1>9. OwnPairOnly' /\ SightedLinksAreWired'
  BY <1>6, <1>7, NoLinkOnTheWay, FewerPairs DEF CycleInv
<1> QED  BY <1>6, <1>7, <1>8, <1>9 DEF CycleInv, PodmanInv

\* Before the first cycle there is nothing on the machine.
LEMMA InitHasInv == PodmanCycleInit => CycleInv
<1> SUFFICES ASSUME PodmanCycleInit  PROVE CycleInv
  OBVIOUS
<1> USE DEF PodmanCycleInit, PodmanInit
<1>1. MachineType /\ faults \in Nat /\ disturbances \in Nat
  BY DEF MachineType
<1>2. (CHOOSE n \in NodeId : TRUE) \in NodeId
  BY SomeNodeAssumption
<1>3. CallType
  BY <1>2 DEF CallType, NoCall, OpKind, NodeOpKind, LinkOpKind, Pc, End
<1>4. ContainersAreThere /\ OwnPairOnly /\ SightedLinksAreWired /\ SymlinksDoNotLeak
  BY DEF ContainersAreThere, OwnPairOnly, SightedLinksAreWired, SymlinksDoNotLeak, At, NoCall
<1> QED  BY <1>1, <1>3, <1>4 DEF CycleInv, PodmanInv

LEMMA StepKeepsInv ==
    ASSUME CycleInv, PodmanCycleNext
    PROVE  CycleInv'
<1>1. ASSUME NEW d \in Desired, Begins(d)
      PROVE  CycleInv'
  <2>1. PodmanInv'
    BY <1>1 DEF Begins, podmanVars, machineVars, CycleInv, PodmanInv, MachineType, CallType,
                ContainersAreThere, OwnPairOnly, Leftover, SightedLinksAreWired,
                SymlinksDoNotLeak, At
  <2>2. PICK actual \in Readings : todo' = Diff(d, actual)
    BY <1>1 DEF Begins
  <2>3. /\ todo' \subseteq OpSet
        /\ \A o \in todo' : o.kind \in {"CreateNode", "UpdateNodeConfig", "CreateLink"} =>
                               Wanted(d, o)
    BY <2>2, DiffFacts
  <2> QED  BY <1>1, <2>1, <2>3 DEF Begins, CycleInv
<1>2. ASSUME NEW d \in Desired, BeginsHalfBlind(d)
      PROVE  CycleInv'
  <2>1. PodmanInv'
    <3>1. faults \in Nat /\ faults' = faults + 1 /\ faults' \in Nat /\ faults' > 0
      BY <1>2 DEF BeginsHalfBlind, CycleInv, PodmanInv
    <3> QED
      BY <1>2, <3>1 DEF BeginsHalfBlind, machineVars, CycleInv, PodmanInv, MachineType,
                   CallType, ContainersAreThere, OwnPairOnly, Leftover, SightedLinksAreWired,
                   SymlinksDoNotLeak, At
  <2>2. PICK actual : todo' = Diff(d, actual)
    BY <1>2 DEF BeginsHalfBlind
  <2>3. /\ todo' \subseteq OpSet
        /\ \A o \in todo' : o.kind \in {"CreateNode", "UpdateNodeConfig", "CreateLink"} =>
                               Wanted(d, o)
    BY <2>2, DiffFacts
  <2> QED  BY <1>2, <2>1, <2>3 DEF BeginsHalfBlind, CycleInv
<1>3. ASSUME NEW o \in todo, CallsNext(o)
      PROVE  CycleInv'
  <2>1. PodmanInv'
    BY <1>3, CallsKeepsInv DEF CallsNext
  <2>2. o.kind = "CreateNode" => o.id \in NodeId
    BY DEF CycleInv, OpSet, LinkOpKind
  <2> QED  BY <1>3, <2>1, <2>2 DEF CallsNext, CycleInv
<1>4. ASSUME Drives
      PROVE  CycleInv'
  BY <1>4, DriverStepKeepsInv DEF Drives, cycleVars, CycleInv
<1>5. ASSUME CallFails
      PROVE  CycleInv'
  BY <1>5, AbandonsKeepsInv DEF CallFails, CycleInv
<1>6. ASSUME Ends
      PROVE  CycleInv'
  <2>1. PodmanInv'
    BY <1>6, NoCallKeepsInv DEF Ends, Done, machineVars, CycleInv
  <2> QED  BY <1>6, <2>1 DEF Ends, CycleInv
<1>7. ASSUME ProcessDies
      PROVE  CycleInv'
  BY <1>7, NoCallKeepsInv DEF ProcessDies, machineVars, CycleInv
<1>8. ASSUME Stops
      PROVE  CycleInv'
  BY <1>8, ContainerStopsKeepsInv DEF Stops, CycleInv
<1>9. ASSUME MachineReboots
      PROVE  CycleInv'
  BY <1>9, RebootsKeepsInv DEF MachineReboots, CycleInv
<1> QED
  BY <1>1, <1>3, <1>4, <1>5, <1>6, <1>7, <1>8, <1>9, <1>2 DEF PodmanCycleNext

LEMMA CycleInvStep ==
    ASSUME CycleInv, [PodmanCycleNext]_podmanCycleVars
    PROVE  CycleInv'
<1>1. CASE UNCHANGED podmanCycleVars
  BY <1>1 DEF podmanCycleVars, cycleVars, podmanVars, machineVars, CycleInv, PodmanInv,
              MachineType, CallType, ContainersAreThere, OwnPairOnly, Leftover,
              SightedLinksAreWired, SymlinksDoNotLeak, At
<1> QED  BY <1>1, StepKeepsInv

LEMMA CycleInvAlways == PodmanCycleSpec => []CycleInv
BY InitHasInv, CycleInvStep, PTL DEF PodmanCycleSpec

-----------------------------------------------------------------------------

\* The machine, the driver method under way and the cycle keep their types, wherever
\* calls fail and whenever the process or the machine goes down.
THEOREM PodmanCycleTypeCorrect == PodmanCycleSpec => []PodmanCycleTypeOK
<1>1. CycleInv => PodmanCycleTypeOK
  BY InvGivesType DEF CycleInv, PodmanCycleTypeOK
<1> QED  BY <1>1, CycleInvAlways, PTL

\* Wherever CreateLink was interrupted, a link that ReadActual reports is a pair with
\* both ends out of the root namespace.
THEOREM SightedLinksAreWiredAlways == PodmanCycleSpec => []SightedLinksAreWired
<1>1. CycleInv => SightedLinksAreWired
  BY DEF CycleInv, PodmanInv
<1> QED  BY <1>1, CycleInvAlways, PTL

\* Without a call that fails, no symlink outlives the DestroyNode of its container.
THEOREM SymlinksDoNotLeakAlways == PodmanCycleSpec => []SymlinksDoNotLeak
<1>1. CycleInv => SymlinksDoNotLeak
  BY DEF CycleInv, PodmanInv
<1> QED  BY <1>1, CycleInvAlways, PTL

-----------------------------------------------------------------------------
(* The driver implements the contract: as long as what it reports is       *)
(* unambiguous, each of its podman and netlink calls, the ones that fail   *)
(* and the machine's own doing included, is a step of LabContract or       *)
(* changes nothing that ReadActual could see.                              *)


\* Whatever is out of the root namespace is in one that can be reached.
EndsAreReachable ==
    \A p \in veths : \A e \in End : p.stage[e] # "root" => Opens(p.link[e].node)

\* DestroyNode removes the symlink of a container that is gone; CreateLink keeps the
\* namespaces it has opened, and finds no ends in them but those of its own pair.
OwnEndsOnly(e) ==
    \A p \in EndsInside(call.id, e, call.arg[e].node) : p.link = call.arg

MethodOnItsWay ==
    /\ At("DestroyNode", "unlink") => container[call.id] = None
    /\ call.kind = "CreateLink" /\ call.pc \in {"add", "move", "tag", "up", "port"} =>
          \A e \in End : Opens(call.arg[e].node)
    /\ At("CreateLink", "move") /\ call.end = 2 => OwnEndsOnly(1)
    /\ call.kind = "CreateLink" /\ call.pc \in {"tag", "up", "port"} =>
          \A e \in End : OwnEndsOnly(e)

ContractInv == CycleInv /\ EndsAreReachable /\ MethodOnItsWay

-----------------------------------------------------------------------------
(* What there is to see.                                                   *)

NodesSeen == [n \in NodeId |-> IF container[n] = None THEN None ELSE container[n].label]

TaggedLinks(l) ==
    {p.link : p \in {q \in veths : q.id = l /\ \E e \in End : q.stage[e] \in Tagged}}

\* The one link found, or none.
TheLink(found) == IF found = {} THEN None ELSE CHOOSE x \in found : TRUE

LinkSeen(l) == TheLink(TaggedLinks(l))

LinksSeen == [l \in LinkId |-> LinkSeen(l)]

View == [nodes |-> NodesSeen, links |-> LinksSeen]

LEMMA OfNoLinkOrOne == TheLink({}) = None /\ \A x : TheLink({x}) = x
BY DEF TheLink

\* Every tag is found, and so ReadActual has one answer.
LEMMA TagsAreFound ==
    ContractInv => \A l \in LinkId : Sightings(l) = TaggedLinks(l)
<1> SUFFICES ASSUME ContractInv, NEW l \in LinkId
             PROVE  Sightings(l) = TaggedLinks(l)
  OBVIOUS
<1>1. ASSUME NEW p \in veths, NEW e \in End, p.stage[e] \in Tagged
      PROVE  container[p.link[e].node] # None /\ Opens(p.link[e].node)
  <2>1. Opens(p.link[e].node)
    BY <1>1 DEF ContractInv, EndsAreReachable, Tagged
  <2>2. p.link[e].node \in NodeId
    BY <1>1 DEF ContractInv, CycleInv, PodmanInv, MachineType, Pair, Link, Endpoint, End
  <2> QED  BY <2>1, <2>2 DEF ContractInv, CycleInv, PodmanInv, ContainersAreThere, Opens
<1> QED  BY <1>1 DEF Sightings, SightingsBut, TaggedLinks

LEMMA ObservedIsView ==
    ContractInv /\ Unambiguous => Observed = View
<1> SUFFICES ASSUME ContractInv, Unambiguous
             PROVE  Observed = View
  OBVIOUS
<1>1. \A l \in LinkId : SomeLink(l, {}) = {LinkSeen(l)}
  BY TagsAreFound DEF SomeLink, Sightings, LinkSeen, TheLink, Unambiguous
<1>2. {g \in [LinkId -> UNION {SomeLink(l, {}) : l \in LinkId}] :
          \A l \in LinkId : g[l] \in SomeLink(l, {})} = {LinksSeen}
  <2>1. LinksSeen \in [LinkId -> UNION {SomeLink(l, {}) : l \in LinkId}]
    BY <1>1 DEF LinksSeen
  <2>2. \A l \in LinkId : LinksSeen[l] \in SomeLink(l, {})
    BY <1>1 DEF LinksSeen
  <2>3. ASSUME NEW g \in [LinkId -> UNION {SomeLink(l, {}) : l \in LinkId}],
               \A l \in LinkId : g[l] \in SomeLink(l, {})
        PROVE  g = LinksSeen
    BY <1>1, <2>3 DEF LinksSeen
  <2> QED  BY <2>1, <2>2, <2>3
<1>3. Readings = {View}
  BY <1>2 DEF Readings, ReadingsBut, View, NodesSeen
<1> QED  BY <1>3 DEF Observed

LEMMA ObservedIsViewNext ==
    (ContractInv /\ Unambiguous => Observed = View)'
BY ObservedIsView, PTL

-----------------------------------------------------------------------------
(* The invariant.                                                          *)

\* Types that every step starts from.
LEMMA Facts ==
    ASSUME ContractInv
    PROVE  /\ PodmanInv /\ MachineType /\ CallType
           /\ \A p \in veths : \A e \in End : p.link[e].node \in NodeId
           /\ call.kind = "CreateLink" => \A e \in End : call.arg[e].node \in NodeId
BY DEF ContractInv, CycleInv, PodmanInv, MachineType, CallType, Pair, Link, Endpoint, End

\* A method that begins, or has returned, holds nothing.
LEMMA NothingOnTheWay ==
    ASSUME call'.pc \in {"begin", "ok", "err"}
    PROVE  MethodOnItsWay'
BY DEF MethodOnItsWay, At

LEMMA MachineKeepsEnds ==
    ASSUME ContractInv, veths' \subseteq veths, UNCHANGED symlink
    PROVE  EndsAreReachable'
BY DEF ContractInv, EndsAreReachable, Opens

LEMMA NodeMethodsKeepContractInv ==
    ASSUME ContractInv, CycleInv',
           \/ CreatesContainer \/ StartsContainer \/ LinksNamespace
           \/ RemovesContainer \/ RemovesSymlink
    PROVE  ContractInv'
<1> USE Facts
<1>1. CASE CreatesContainer \/ StartsContainer
  <2>1. EndsAreReachable'
    BY <1>1, MachineKeepsEnds DEF CreatesContainer, StartsContainer
  <2>2. MethodOnItsWay'
    BY <1>1, GoesFacts DEF CreatesContainer, StartsContainer, MethodOnItsWay, At, Pc
  <2> QED  BY <2>1, <2>2 DEF ContractInv
<1>2. CASE LinksNamespace
  <2>1. call.id \in NodeId
    BY <1>2 DEF LinksNamespace, At, CallType, NodeOpKind
  <2>2. EndsAreReachable'
    BY <1>2, <2>1 DEF LinksNamespace, ContractInv, EndsAreReachable, Opens, MachineType
  <2>3. MethodOnItsWay'
    BY <1>2, GoesFacts DEF LinksNamespace, MethodOnItsWay, At, Pc
  <2> QED  BY <2>2, <2>3 DEF ContractInv
<1>3. CASE RemovesContainer
  <2>1. call.id \in NodeId /\ call'.id = call.id /\ call'.kind = "DestroyNode"
    BY <1>3, GoesFacts DEF RemovesContainer, At, CallType, NodeOpKind, Pc
  <2>2. EndsAreReachable'
    <3>1. ASSUME NEW p \in veths', NEW e \in End, p.stage[e] # "root"
          PROVE  Opens(p.link[e].node)'
      <4>1. p \in veths /\ p.link[e].node # call.id /\ Opens(p.link[e].node)
        BY <1>3, <3>1 DEF RemovesContainer, Outlives, Inside, ContractInv, EndsAreReachable
      <4> QED  BY <1>3, <4>1 DEF RemovesContainer, Opens, MachineType
    <3> QED  BY <3>1 DEF EndsAreReachable
  <2>3. MethodOnItsWay'
    BY <1>3, <2>1 DEF RemovesContainer, MethodOnItsWay, At, MachineType
  <2> QED  BY <2>2, <2>3 DEF ContractInv
<1>4. CASE RemovesSymlink
  <2>1. call.id \in NodeId /\ symlink[call.id] # "live"
    BY <1>4 DEF RemovesSymlink, At, CallType, NodeOpKind, ContractInv, MethodOnItsWay,
                PodmanInv, ContainersAreThere
  <2>2. EndsAreReachable'
    BY <1>4, <2>1 DEF RemovesSymlink, ContractInv, EndsAreReachable, Opens, MachineType
  <2>3. MethodOnItsWay'
    BY <1>4, GoesFacts DEF RemovesSymlink, MethodOnItsWay, At, Pc
  <2> QED  BY <2>2, <2>3 DEF ContractInv
<1> QED  BY <1>1, <1>2, <1>3, <1>4

LEMMA FindsOrAddsKeepsContractInv ==
    ASSUME ContractInv, CycleInv', FindsEnds \/ AddsPair
    PROVE  ContractInv'
<1> USE Facts
<1>1. CASE FindsEnds
  <2>1. EndsAreReachable'
    BY <1>1, MachineKeepsEnds DEF FindsEnds
  <2>2. /\ call'.kind = "CreateLink" /\ call'.arg = call.arg /\ call'.pc \in {"ok", "err", "add"}
        /\ call'.pc = "add" => \A ep \in EndsOf(call.arg) : Opens(ep.node)
    BY <1>1, GoesFacts DEF FindsEnds, At, Pc
  <2>3. MethodOnItsWay'
    BY <1>1, <2>2 DEF FindsEnds, MethodOnItsWay, At, EndsOf, End, Opens
  <2> QED  BY <2>1, <2>3 DEF ContractInv
<1>2. CASE AddsPair
  <2>1. call.kind = "CreateLink" /\ call.pc = "add" /\ call.id \in LinkId /\ call.arg \in Link
    BY <1>2 DEF AddsPair, At, CallType, LinkOpKind
  <2>2. EndsAreReachable'
    BY <1>2, <2>1, NewPairFacts DEF AddsPair, ContractInv, EndsAreReachable, Opens
  <2>3. /\ call'.kind = "CreateLink" /\ call'.arg = call.arg
        /\ \/ call'.pc = "err"
           \/ call'.pc = "move" /\ call'.end = 1
    <3>1. CASE Goes("err")
      BY <2>1, <3>1, GoesFacts DEF Pc
    <3>2. CASE call' = [call EXCEPT !.pc = "move", !.end = 1]
      BY <2>1, <3>2, CallFacts DEF Pc, End
    <3> QED  BY <1>2, <3>1, <3>2 DEF AddsPair
  <2>4. \A e \in End : Opens(call.arg[e].node)'
    BY <1>2, <2>1, <2>3 DEF AddsPair, ContractInv, MethodOnItsWay, Opens
  <2>5. MethodOnItsWay'
    BY <2>3, <2>4 DEF MethodOnItsWay, At
  <2> QED  BY <2>2, <2>5 DEF ContractInv
<1> QED  BY <1>1, <1>2

LEMMA MovesEndKeepsContractInv ==
    ASSUME ContractInv, CycleInv', MovesEnd
    PROVE  ContractInv'
<1> USE Facts
<1>1. /\ call.kind = "CreateLink" /\ call.pc = "move" /\ call.id \in LinkId
      /\ call.arg \in Link /\ call.end \in End /\ symlink' = symlink
      /\ \A e \in End : Opens(call.arg[e].node)
  BY DEF MovesEnd, At, CallType, LinkOpKind, ContractInv, MethodOnItsWay
<1>2. CASE Goes("err") /\ UNCHANGED veths
  <2>1. call'.pc = "err"
    BY <1>2, GoesFacts DEF Pc
  <2> QED  BY <1>1, <1>2, <2>1, NothingOnTheWay, MachineKeepsEnds DEF ContractInv
<1>3. ASSUME NEW p \in EndsInRoot(call.id, call.end),
             EndsInside(call.id, call.end, call.arg[call.end].node) = {},
             veths' = (veths \ {p}) \cup {[p EXCEPT !.stage[call.end] = "moved"]},
             call' = IF call.end = 1 THEN [call EXCEPT !.end = 2]
                                     ELSE [call EXCEPT !.pc = "tag", !.end = 1]
      PROVE  ContractInv'
  <2> DEFINE q == [p EXCEPT !.stage[call.end] = "moved"]
  <2>1. p \in veths /\ p \in Pair /\ p.id = call.id /\ Rooted(p)
    BY <1>1, <1>3 DEF EndsInRoot, MachineType, Rooted
  <2>2. p.link = call.arg
    BY <1>1, <2>1 DEF PodmanInv, OwnPairOnly, At, Leftover, End, Halfway, NewPair
  <2>3. /\ q.id = call.id /\ q.link = call.arg
        /\ \A f \in End : q.stage[f] = (IF f = call.end THEN "moved" ELSE p.stage[f])
    BY <1>1, <2>1, <2>2 DEF Pair
  <2>4. veths' = (veths \ {p}) \cup {q}
    BY <1>3
  <2> HIDE DEF q
  <2>5. EndsAreReachable'
    BY <1>1, <2>1, <2>2, <2>3, <2>4 DEF ContractInv, EndsAreReachable, Opens
  <2>6. /\ call'.kind = call.kind /\ call'.id = call.id /\ call'.arg = call.arg
        /\ \/ call.end = 1 /\ call'.pc = "move" /\ call'.end = 2
           \/ call.end = 2 /\ call'.pc = "tag"
    BY <1>1, <1>3 DEF CallType, End
  <2>7. \A r \in veths' : r.id = call.id /\ Inside(r, call.end, call.arg[call.end].node) =>
            r.link = call.arg
    BY <1>3, <2>3, <2>4 DEF EndsInside
  <2>8. call.end = 2 =>
          \A r \in veths' : r.id = call.id /\ Inside(r, 1, call.arg[1].node) => r.link = call.arg
    BY <1>1, <2>3, <2>4 DEF ContractInv, MethodOnItsWay, At, OwnEndsOnly, EndsInside
  <2>9. MethodOnItsWay'
    <3>1. CASE call.end = 1
      BY <1>1, <2>6, <2>7, <3>1 DEF MethodOnItsWay, At, OwnEndsOnly, EndsInside, Opens, Inside
    <3>2. CASE call.end = 2
      BY <1>1, <2>6, <2>7, <2>8, <3>2
      DEF MethodOnItsWay, At, OwnEndsOnly, EndsInside, Opens, Inside, End
    <3> QED  BY <1>1, <3>1, <3>2 DEF End
  <2> QED  BY <2>5, <2>9 DEF ContractInv
<1> QED  BY <1>2, <1>3 DEF MovesEnd

LEMMA ReachesKeepsContractInv ==
    ASSUME ContractInv, CycleInv', NEW s \in Tagged, Reaches(s), call.kind = "CreateLink",
           call.pc \in {"tag", "up", "port"},
           call'.kind = call.kind, call'.id = call.id, call'.arg = call.arg,
           call'.pc \in {"tag", "up", "port", "ok"}, UNCHANGED <<container, symlink>>
    PROVE  ContractInv'
<1> USE Facts
<1>1. PICK p \in EndsInside(call.id, call.end, call.arg[call.end].node) :
         veths' = (veths \ {p}) \cup {[p EXCEPT !.stage[call.end] = s]}
  BY DEF Reaches
<1>2. p \in veths /\ p \in Pair /\ p.id = call.id /\ call.end \in End
      /\ p.link[call.end].node = call.arg[call.end].node /\ p.stage[call.end] # "root"
  BY <1>1 DEF EndsInside, Inside, MachineType, CallType
<1> DEFINE q == [p EXCEPT !.stage[call.end] = s]
<1>3. /\ q.id = call.id /\ q.link = p.link
      /\ \A f \in End : q.stage[f] # "root" => p.stage[f] # "root"
  BY <1>2 DEF Pair
<1>4. veths' = (veths \ {p}) \cup {q}
  BY <1>1
<1> HIDE DEF q
<1>5. EndsAreReachable'
  BY <1>2, <1>3, <1>4 DEF ContractInv, EndsAreReachable, Opens
<1>6. \A e \in End : \A r \in veths' :
         r.id = call.id /\ Inside(r, e, call.arg[e].node) => r.link = call.arg
  BY <1>2, <1>3, <1>4 DEF ContractInv, MethodOnItsWay, OwnEndsOnly, EndsInside, Inside
<1>7. MethodOnItsWay'
  BY <1>6 DEF ContractInv, MethodOnItsWay, At, OwnEndsOnly, EndsInside, Inside, Opens
<1> QED  BY <1>5, <1>7 DEF ContractInv

LEMMA ConfiguresEndKeepsContractInv ==
    ASSUME ContractInv, CycleInv', TagsEnd \/ RaisesEnd \/ JoinsBridge
    PROVE  ContractInv'
<1> USE Facts
<1>1. CASE TagsEnd
  <2>1. call'.kind = call.kind /\ call'.id = call.id /\ call'.arg = call.arg /\ call'.pc = "up"
    BY <1>1, GoesFacts DEF TagsEnd, Pc
  <2> QED  BY <1>1, <2>1, ReachesKeepsContractInv DEF TagsEnd, At, Tagged
<1>2. CASE RaisesEnd
  <2>1. /\ call'.kind = call.kind /\ call'.id = call.id /\ call'.arg = call.arg
        /\ call'.pc \in {"port", "tag", "ok"}
    BY <1>2, GoesFacts, EndIsDoneFacts DEF RaisesEnd, Pc
  <2> QED  BY <1>2, <2>1, ReachesKeepsContractInv DEF RaisesEnd, At, Tagged
<1>3. CASE JoinsBridge
  <2>1. /\ call'.kind = call.kind /\ call'.id = call.id /\ call'.arg = call.arg
        /\ call'.pc \in {"tag", "ok"}
    BY <1>3, EndIsDoneFacts DEF JoinsBridge
  <2> QED  BY <1>3, <2>1, ReachesKeepsContractInv DEF JoinsBridge, At, Tagged
<1> QED  BY <1>1, <1>2, <1>3

LEMMA OthersKeepContractInv ==
    ASSUME ContractInv, CycleInv',
           DeletesPair \/ SetsAddresses \/ SetsForwardingAndRoutes \/ Abandons
    PROVE  ContractInv'
<1> USE Facts
<1>1. CASE DeletesPair
  <2>1. call'.pc = "ok"
    BY <1>1, GoesFacts DEF DeletesPair, Pc
  <2>2. veths' \subseteq veths /\ UNCHANGED symlink
    BY <1>1 DEF DeletesPair
  <2> QED  BY <2>1, <2>2, NothingOnTheWay, MachineKeepsEnds DEF ContractInv
<1>2. CASE SetsAddresses
  <2>1. call.kind = "UpdateNodeConfig" /\ call.id \in NodeId /\ call.arg \in Node
    BY <1>2 DEF SetsAddresses, At, CallType, NodeOpKind
  <2>2. call'.kind = "UpdateNodeConfig"
    BY <1>2, <2>1, GoesFacts DEF SetsAddresses, Pc
  <2>3. \A q \in veths' : \E p \in veths : q.stage = p.stage /\ q.link = p.link
    BY <1>2, <2>1 DEF SetsAddresses, MachineType, Addressed, Pair
  <2>4. EndsAreReachable'
    BY <1>2, <2>3 DEF SetsAddresses, ContractInv, EndsAreReachable, Opens
  <2>5. MethodOnItsWay'
    BY <2>2 DEF MethodOnItsWay, At
  <2> QED  BY <2>4, <2>5 DEF ContractInv
<1>3. CASE SetsForwardingAndRoutes
  <2>1. call'.pc = "ok"
    BY <1>3, GoesFacts DEF SetsForwardingAndRoutes, Pc
  <2> QED  BY <1>3, <2>1, NothingOnTheWay, MachineKeepsEnds
           DEF SetsForwardingAndRoutes, ContractInv
<1>4. CASE Abandons
  <2>1. call'.pc \in {"ok", "err"}
    BY <1>4, GoesFacts DEF Abandons, Pc
  <2> QED  BY <1>4, <2>1, NothingOnTheWay, MachineKeepsEnds DEF Abandons, machineVars, ContractInv
<1> QED  BY <1>1, <1>2, <1>3, <1>4

LEMMA MachineKeepsContractInv ==
    ASSUME ContractInv, CycleInv',
           Reboots \/ \E n \in NodeId : ContainerStops(n)
    PROVE  ContractInv'
<1> USE Facts
<1>1. CASE Reboots
  <2>1. call'.pc = "ok"
    BY <1>1, NoCallFacts DEF Reboots
  <2> QED  BY <1>1, <2>1, NothingOnTheWay DEF Reboots, ContractInv, EndsAreReachable
<1>2. ASSUME NEW n \in NodeId, ContainerStops(n)
      PROVE  ContractInv'
  <2>1. EndsAreReachable'
    <3>1. ASSUME NEW p \in veths', NEW e \in End, p.stage[e] # "root"
          PROVE  Opens(p.link[e].node)'
      <4>1. p \in veths /\ p.link[e].node # n /\ Opens(p.link[e].node)
        BY <1>2, <3>1 DEF ContainerStops, Outlives, Inside, ContractInv, EndsAreReachable
      <4> QED  BY <1>2, <4>1 DEF ContainerStops, Opens, MachineType
    <3> QED  BY <3>1 DEF EndsAreReachable
  <2>2. call' = call /\ (call.pc \in {"ok", "err"} \/ call.kind # "CreateLink")
    BY <1>2 DEF ContainerStops, HoldsNamespace, Returned
  <2>3. call.pc = "unlink" /\ call.kind = "DestroyNode" => container'[call.id] = None
    BY <1>2, StoppedFacts
    DEF ContainerStops, Stopped, ContractInv, MethodOnItsWay, At, MachineType, CallType, NodeOpKind
  <2>4. MethodOnItsWay'
    BY <2>2, <2>3 DEF MethodOnItsWay, At
  <2> QED  BY <2>1, <2>4 DEF ContractInv
<1> QED  BY <1>1, <1>2

LEMMA ContractInvStep ==
    ASSUME ContractInv, [PodmanCycleNext]_podmanCycleVars
    PROVE  ContractInv'
<1>1. CycleInv'
  BY CycleInvStep DEF ContractInv
<1>2. CASE UNCHANGED <<machineVars, call>>
  BY <1>1, <1>2 DEF machineVars, ContractInv, EndsAreReachable, MethodOnItsWay, At,
                    OwnEndsOnly, EndsInside, Inside, Opens
<1>3. CASE DriverStep
  BY <1>1, <1>3, NodeMethodsKeepContractInv, FindsOrAddsKeepsContractInv,
     MovesEndKeepsContractInv, ConfiguresEndKeepsContractInv, OthersKeepContractInv
  DEF DriverStep
<1>4. CASE Abandons
  BY <1>1, <1>4, OthersKeepContractInv
<1>5. CASE Reboots \/ \E n \in NodeId : ContainerStops(n)
  BY <1>1, <1>5, MachineKeepsContractInv
<1>6. ASSUME NEW o, Calls(o, desired)
      PROVE  ContractInv'
  <2>1. call'.pc = "begin" /\ UNCHANGED <<container, symlink, veths>>
    BY <1>6 DEF Calls, machineVars
  <2> QED  BY <1>1, <2>1, NothingOnTheWay, MachineKeepsEnds DEF ContractInv
<1>7. CASE call' = NoCall /\ UNCHANGED machineVars
  <2>1. call'.pc = "ok" /\ UNCHANGED <<container, symlink, veths>>
    BY <1>7, NoCallFacts DEF machineVars
  <2> QED  BY <1>1, <2>1, NothingOnTheWay, MachineKeepsEnds DEF ContractInv
<1> QED  BY <1>2, <1>3, <1>4, <1>5, <1>6, <1>7
         DEF PodmanCycleNext, podmanCycleVars, podmanVars, Begins, BeginsHalfBlind, CallsNext,
             Drives, CallFails, Ends, ProcessDies, Stops, MachineReboots

LEMMA ContractInvAlways == PodmanCycleSpec => []ContractInv
<1>1. PodmanCycleInit => ContractInv
  BY InitHasInv DEF PodmanCycleInit, PodmanInit, NoCall, ContractInv, EndsAreReachable,
     MethodOnItsWay, At
<1> QED  BY <1>1, ContractInvStep, PTL DEF PodmanCycleSpec

-----------------------------------------------------------------------------
(* How each call changes the view.                                         *)

HasTag(p) == \E e \in End : p.stage[e] \in Tagged

OneLinkEach == \A l \in LinkId : \A x, y \in TaggedLinks(l) : x = y

\* A step of the contract from one view to the next.
ViewStep ==
    \/ View' = View
    \/ \E l \in LinkId : View' = DestroyLink(View, l)
    \/ \E n \in NodeId : View' = DestroyNode(View, n)
    \/ \E stopped \in SUBSET NodeId :
          View' = [View EXCEPT !.links = [l \in LinkId |->
                      IF \E n \in stopped : Touches(View.links[l], n)
                      THEN None ELSE View.links[l]]]
    \/ \E l \in LinkId, link \in Link :
          CanCreateLink(View, l, link) /\ View' = CreateLink(View, l, link)
    \/ \E n \in NodeId, node \in Node : View' = CreateNode(View, n, node)

LEMMA TaggedLinksFacts ==
    ASSUME MachineType, NEW l \in LinkId
    PROVE  /\ TaggedLinks(l) \subseteq Link
           /\ LinkSeen(l) = None <=> TaggedLinks(l) = {}
           /\ LinkSeen(l) # None => LinkSeen(l) \in TaggedLinks(l)
<1>1. TaggedLinks(l) \subseteq Link
  BY DEF MachineType, TaggedLinks, Pair
<1> QED  BY <1>1, NoneAssumption DEF LinkSeen, TheLink

LEMMA SameNodesSeen ==
    ASSUME \A n \in NodeId :
              /\ container'[n] = None <=> container[n] = None
              /\ container[n] # None => container'[n].label = container[n].label
    PROVE  NodesSeen' = NodesSeen
BY DEF NodesSeen

LEMMA SameLinksSeen ==
    ASSUME \A p \in veths : HasTag(p) =>
              \E q \in veths' : q.id = p.id /\ q.link = p.link /\ HasTag(q),
           \A q \in veths' : HasTag(q) =>
              \E p \in veths : q.id = p.id /\ q.link = p.link /\ HasTag(p)
    PROVE  LinksSeen' = LinksSeen
<1>1. ASSUME NEW l \in LinkId
      PROVE  LinkSeen(l)' = LinkSeen(l)
  <2>1. TaggedLinks(l)' = TaggedLinks(l)
    BY DEF TaggedLinks, HasTag
  <2> QED  BY <2>1 DEF LinkSeen
<1> QED  BY <1>1 DEF LinksSeen

\* With its namespace a node loses the links with an end in it, and those only.
LEMMA NamespaceLost ==
    ASSUME ContractInv, OneLinkEach, NEW n \in NodeId,
           veths' = {p \in veths : Outlives(p, n)}
    PROVE  LinksSeen' = [l \in LinkId |-> IF Touches(LinksSeen[l], n) THEN None ELSE LinksSeen[l]]
<1> USE Facts
<1>1. ASSUME NEW l \in LinkId
      PROVE  LinkSeen(l)' = IF Touches(LinkSeen(l), n) THEN None ELSE LinkSeen(l)
  <2>1. TaggedLinks(l)' \subseteq TaggedLinks(l)
    BY DEF TaggedLinks
  <2>2. CASE TaggedLinks(l) = {}
    BY <2>1, <2>2, OfNoLinkOrOne DEF LinkSeen, Touches
  <2>3. CASE TaggedLinks(l) # {} /\ Touches(LinkSeen(l), n)
    <3>1. ASSUME NEW p \in veths, p.id = l, HasTag(p)
          PROVE  ~ Outlives(p, n)
      <4>1. p.link = LinkSeen(l)
        BY <2>3, <3>1 DEF OneLinkEach, TaggedLinks, HasTag, LinkSeen, TheLink
      <4>2. PICK e \in End : p.link[e].node = n
        BY <2>3, <4>1 DEF Touches, EndsOf, End
      <4>3. p.stage[e] # "root"
        BY <3>1 DEF HasTag, PodmanInv, SightedLinksAreWired
      <4> QED  BY <4>2, <4>3 DEF Outlives, Inside
    <3>2. TaggedLinks(l)' = {}
      BY <3>1 DEF TaggedLinks, HasTag
    <3> QED  BY <2>3, <3>2, OfNoLinkOrOne DEF LinkSeen
  <2>4. CASE TaggedLinks(l) # {} /\ ~ Touches(LinkSeen(l), n)
    <3>1. ASSUME NEW p \in veths, p.id = l, HasTag(p)
          PROVE  Outlives(p, n)
      <4>1. p.link = LinkSeen(l)
        BY <2>4, <3>1 DEF OneLinkEach, TaggedLinks, HasTag, LinkSeen, TheLink
      <4> QED  BY <2>4, <4>1, TaggedLinksFacts DEF Touches, EndsOf, End, Outlives, Inside
    <3>2. TaggedLinks(l)' = TaggedLinks(l)
      BY <3>1 DEF TaggedLinks, HasTag
    <3> QED  BY <2>4, <3>2 DEF LinkSeen
  <2> QED  BY <2>2, <2>3, <2>4
<1> QED  BY <1>1 DEF LinksSeen

LEMMA NodeMethodsImplement ==
    ASSUME ContractInv, ContractInv', OneLinkEach,
           \/ CreatesContainer \/ StartsContainer \/ LinksNamespace
           \/ RemovesContainer \/ RemovesSymlink
    PROVE  ViewStep
<1> USE Facts
<1>1. veths' = veths => LinksSeen' = LinksSeen
  BY SameLinksSeen
<1>2. CASE CreatesContainer
  <2>1. call.id \in NodeId /\ call.arg \in Node /\ veths' = veths
    BY <1>2 DEF CreatesContainer, At, CallType, NodeOpKind
  <2>2. CASE UNCHANGED container
    BY <1>1, <2>1, <2>2, SameNodesSeen DEF ViewStep, View
  <2>3. CASE /\ container[call.id] = None
             /\ container' = [container EXCEPT ![call.id] =
                                [label |-> call.arg, running |-> FALSE, settings |-> {}]]
    <3>1. [label |-> call.arg, running |-> FALSE, settings |-> {}] # None
      <4>1. [label |-> call.arg, running |-> FALSE, settings |-> {}] \in Container
        BY <2>1 DEF Container
      <4> QED  BY <4>1, NoneIsNoContainer
    <3>2. NodesSeen' = [NodesSeen EXCEPT ![call.id] = call.arg] /\ NodesSeen[call.id] = None
      BY <2>1, <2>3, <3>1 DEF NodesSeen, MachineType
    <3>3. View' = CreateNode(View, call.id, call.arg)
      BY <1>1, <2>1, <3>2 DEF View, CreateNode, WithNode
    <3> QED  BY <2>1, <3>3 DEF ViewStep
  <2> QED  BY <1>2, <2>2, <2>3 DEF CreatesContainer
<1>3. CASE StartsContainer
  <2>1. call.id \in NodeId /\ container[call.id] \in Container /\ veths' = veths
    BY <1>3 DEF StartsContainer, At, CallType, NodeOpKind, PodmanInv, ContainersAreThere,
                MachineType
  <2>2. [container[call.id] EXCEPT !.running = TRUE] # None
        /\ [container[call.id] EXCEPT !.running = TRUE].label = container[call.id].label
    BY <2>1, NoneIsNoContainer DEF Container
  <2>3. NodesSeen' = NodesSeen
    BY <1>3, <2>1, <2>2, NoneIsNoContainer, SameNodesSeen DEF StartsContainer, MachineType
  <2> QED  BY <1>1, <2>1, <2>3 DEF ViewStep, View
<1>4. CASE LinksNamespace \/ RemovesSymlink
  <2>1. container' = container /\ veths' = veths
    BY <1>4 DEF LinksNamespace, RemovesSymlink
  <2> QED  BY <1>1, <2>1, SameNodesSeen DEF ViewStep, View
<1>5. CASE RemovesContainer
  <2>1. call.id \in NodeId
    BY <1>5 DEF RemovesContainer, At, CallType, NodeOpKind
  <2>2. NodesSeen' = [NodesSeen EXCEPT ![call.id] = None]
    BY <1>5, <2>1 DEF RemovesContainer, NodesSeen, MachineType
  <2>3. LinksSeen' = [l \in LinkId |-> IF Touches(LinksSeen[l], call.id) THEN None
                                                                          ELSE LinksSeen[l]]
    BY <1>5, <2>1, NamespaceLost DEF RemovesContainer
  <2>4. View' = DestroyNode(View, call.id)
    BY <2>2, <2>3 DEF View, DestroyNode
  <2> QED  BY <2>1, <2>4 DEF ViewStep
<1> QED  BY <1>2, <1>3, <1>4, <1>5

\* An end that is moved was not tagged, nor is it now; a leftover was not either.
LEMMA UntaggedStepsImplement ==
    ASSUME ContractInv, ContractInv', FindsEnds \/ AddsPair \/ MovesEnd
    PROVE  ViewStep
<1> USE Facts
<1>1. \A p \in veths : Rooted(p) => ~ HasTag(p)
  BY DEF PodmanInv, SightedLinksAreWired, Rooted, HasTag
<1>2. \A p \in veths \ veths' : ~ HasTag(p)
  BY <1>1 DEF FindsEnds, AddsPair, MovesEnd, EndsInRoot, Rooted, End, CallType
<1>3. \A q \in veths' \ veths : ~ HasTag(q)
  <2>1. CASE FindsEnds
    BY <2>1 DEF FindsEnds
  <2>2. CASE AddsPair
    <3>1. call.id \in LinkId /\ call.arg \in Link
      BY <2>2 DEF AddsPair, At, CallType, LinkOpKind
    <3> QED  BY <2>2, <3>1, NewPairFacts DEF AddsPair, HasTag, Tagged
  <2>3. CASE MovesEnd
    <3>1. ASSUME NEW q \in veths' \ veths
          PROVE  \E p \in veths : /\ Rooted(p) /\ q = [p EXCEPT !.stage[call.end] = "moved"]
      BY <2>3, <3>1 DEF MovesEnd, EndsInRoot, Rooted, CallType
    <3>2. ASSUME NEW p \in veths, Rooted(p), NEW e \in End
          PROVE  [p EXCEPT !.stage[call.end] = "moved"].stage[e] \notin Tagged
      <4>1. p \in Pair /\ p.stage[e] \notin Tagged
        BY <1>1, <3>2 DEF HasTag, MachineType
      <4> QED  BY <4>1 DEF Pair, Tagged
    <3> QED  BY <3>1, <3>2 DEF HasTag
  <2> QED  BY <2>1, <2>2, <2>3
<1>4. LinksSeen' = LinksSeen
  BY <1>2, <1>3, SameLinksSeen
<1>5. container' = container
  BY DEF FindsEnds, AddsPair, MovesEnd
<1> QED  BY <1>4, <1>5, SameNodesSeen DEF ViewStep, View

\* The end of a link is configured: the contract's CreateLink, or nothing new.
LEMMA ReachesImplements ==
    ASSUME ContractInv, ContractInv', OneLinkEach', NEW s \in Tagged, Reaches(s),
           call.kind = "CreateLink", call.pc \in {"tag", "up", "port"}, container' = container
    PROVE  ViewStep
<1> USE Facts
<1>1. PICK p \in EndsInside(call.id, call.end, call.arg[call.end].node) :
         veths' = (veths \ {p}) \cup {[p EXCEPT !.stage[call.end] = s]}
  BY DEF Reaches
<1>2. call.id \in LinkId /\ call.arg \in Link /\ call.end \in End
  BY DEF CallType, LinkOpKind
<1> PICK c \in LinkId : c = call.id
  BY <1>2
<1>3. p \in veths /\ p \in Pair /\ p.id = call.id /\ p.link = call.arg
  BY <1>1, <1>2 DEF EndsInside, MachineType, ContractInv, MethodOnItsWay, OwnEndsOnly
<1> DEFINE q == [p EXCEPT !.stage[call.end] = s]
<1>4. q.id = c /\ q.link = call.arg /\ HasTag(q)
  BY <1>2, <1>3 DEF Pair, HasTag
<1>5. veths' = (veths \ {p}) \cup {q}
  BY <1>1
<1> HIDE DEF q
<1>6. ASSUME NEW l \in LinkId \ {c}
      PROVE  LinkSeen(l)' = LinkSeen(l)
  <2>1. TaggedLinks(l)' = TaggedLinks(l)
    BY <1>3, <1>4, <1>5 DEF TaggedLinks, HasTag
  <2> QED  BY <2>1 DEF LinkSeen
<1>7. call.arg \in TaggedLinks(c)' /\ TaggedLinks(c) \subseteq TaggedLinks(c)'
  BY <1>3, <1>4, <1>5 DEF TaggedLinks, HasTag
<1>8. TaggedLinks(c)' = {call.arg}
  BY <1>2, <1>7 DEF OneLinkEach
<1>9. LinkSeen(c)' = call.arg
  BY <1>8, OfNoLinkOrOne DEF LinkSeen
<1>10. LinkSeen(c) \in {None, call.arg}
  BY <1>2, <1>7, <1>8, TaggedLinksFacts
<1>11. LinksSeen' = [LinksSeen EXCEPT ![c] = call.arg]
  <2>1. \A l \in LinkId : LinkSeen(l)' = [LinksSeen EXCEPT ![c] = call.arg][l]
    BY <1>6, <1>9 DEF LinksSeen
  <2> QED  BY <2>1 DEF LinksSeen
<1>12. NodesSeen' = NodesSeen
  BY SameNodesSeen
<1>13. \A ep \in EndsOf(call.arg) : NodesSeen[ep.node] # None
  <2>1. ASSUME NEW ep \in EndsOf(call.arg)
        PROVE  container[ep.node] # None /\ ep.node \in NodeId
    BY <1>2 DEF EndsOf, End, Link, Endpoint, ContractInv, MethodOnItsWay, Opens, PodmanInv,
                ContainersAreThere
  <2>2. \A n \in NodeId : container[n] # None => container[n].label # None
    BY NoneAssumption DEF MachineType, Container
  <2> QED  BY <2>1, <2>2 DEF NodesSeen
<1>14. CASE LinkSeen(c) = None
  <2>1. CanCreateLink(View, c, call.arg)
    BY <1>13 DEF CanCreateLink, View
  <2>2. View' = CreateLink(View, c, call.arg)
    BY <1>2, <1>11, <1>12, <1>14 DEF View, CreateLink, WithLink, LinksSeen
  <2> QED  BY <1>2, <2>1, <2>2 DEF ViewStep
<1>15. CASE LinkSeen(c) = call.arg
  <2>1. LinksSeen' = LinksSeen
    BY <1>2, <1>11, <1>15 DEF LinksSeen
  <2> QED  BY <1>12, <2>1 DEF ViewStep, View
<1> QED  BY <1>10, <1>14, <1>15

LEMMA DeletesPairImplements ==
    ASSUME ContractInv, ContractInv', OneLinkEach, DeletesPair
    PROVE  ViewStep
<1> USE Facts
<1>1. call.id \in LinkId /\ container' = container
  BY DEF DeletesPair, At, CallType, LinkOpKind
<1> PICK c \in LinkId : c = call.id
  BY <1>1
<1>2. veths' \subseteq veths /\ \A p \in veths \ veths' : p.id = c
  BY DEF DeletesPair, EndsInside
<1>3. ASSUME NEW l \in LinkId \ {c}
      PROVE  LinkSeen(l)' = LinkSeen(l)
  <2>1. TaggedLinks(l)' = TaggedLinks(l)
    BY <1>2, <1>3 DEF TaggedLinks
  <2> QED  BY <2>1 DEF LinkSeen
<1>4. TaggedLinks(c)' \subseteq TaggedLinks(c)
  BY <1>2 DEF TaggedLinks
<1>5. LinkSeen(c)' \in {None, LinkSeen(c)}
  <2>1. CASE TaggedLinks(c)' = {}
    BY <2>1, OfNoLinkOrOne DEF LinkSeen
  <2>2. CASE TaggedLinks(c)' # {}
    <3>1. TaggedLinks(c)' = TaggedLinks(c)
      BY <1>1, <1>4, <2>2 DEF OneLinkEach
    <3>2. LinkSeen(c)' = LinkSeen(c)
      BY <3>1 DEF LinkSeen
    <3> QED  BY <3>2
  <2> QED  BY <2>1, <2>2
<1>6. NodesSeen' = NodesSeen
  BY <1>1, SameNodesSeen
<1>7. CASE LinkSeen(c)' = LinkSeen(c)
  <2>1. LinksSeen' = LinksSeen
    <3>1. \A l \in LinkId : LinkSeen(l)' = LinkSeen(l)
      BY <1>3, <1>7
    <3> QED  BY <3>1 DEF LinksSeen
  <2> QED  BY <1>6, <2>1 DEF ViewStep, View
<1>8. CASE LinkSeen(c)' = None
  <2>1. LinksSeen' = [LinksSeen EXCEPT ![c] = None]
    <3>1. \A l \in LinkId : LinkSeen(l)' = [LinksSeen EXCEPT ![c] = None][l]
      BY <1>3, <1>8 DEF LinksSeen
    <3> QED  BY <3>1 DEF LinksSeen
  <2>2. View' = DestroyLink(View, c)
    BY <1>6, <2>1 DEF View, DestroyLink, WithLink
  <2> QED  BY <2>2 DEF ViewStep
<1> QED  BY <1>5, <1>7, <1>8

LEMMA ConfigImplements ==
    ASSUME ContractInv, ContractInv', SetsAddresses \/ SetsForwardingAndRoutes
    PROVE  ViewStep
<1> USE Facts
<1>1. call.id \in NodeId /\ call.arg \in Node
  BY DEF SetsAddresses, SetsForwardingAndRoutes, At, CallType, NodeOpKind
<1>2. CASE SetsAddresses
  <2>1. \A p \in veths : /\ Addressed(p, call.id, call.arg).id = p.id
                         /\ Addressed(p, call.id, call.arg).link = p.link
                         /\ Addressed(p, call.id, call.arg).stage = p.stage
    BY <1>1 DEF MachineType, Addressed, Pair
  <2>2. LinksSeen' = LinksSeen
    BY <1>2, <2>1, SameLinksSeen DEF SetsAddresses, HasTag
  <2> QED  BY <1>2, <2>2, SameNodesSeen DEF SetsAddresses, ViewStep, View
<1>3. CASE SetsForwardingAndRoutes
  <2>1. container[call.id] \in Container
    BY <1>1, <1>3 DEF SetsForwardingAndRoutes, PodmanInv, ContainersAreThere, MachineType
  <2> DEFINE set == [container[call.id] EXCEPT !.settings = @ \cup ToSet(call.arg.config)]
  <2>2. set # None /\ set.label = container[call.id].label
    <3>1. set \in Container /\ set.label = container[call.id].label
      BY <1>1, <2>1 DEF Container, ToSet, Node
    <3> QED  BY <3>1, NoneIsNoContainer
  <2>3. container' = [container EXCEPT ![call.id] = set]
    BY <1>3 DEF SetsForwardingAndRoutes
  <2> HIDE DEF set
  <2>4. NodesSeen' = NodesSeen
    BY <1>1, <2>1, <2>2, <2>3, NoneIsNoContainer, SameNodesSeen DEF MachineType
  <2>5. LinksSeen' = LinksSeen
    BY <1>3, SameLinksSeen DEF SetsForwardingAndRoutes
  <2> QED  BY <2>4, <2>5 DEF ViewStep, View
<1> QED  BY <1>2, <1>3

\* What stops keeps its label, and loses its links.
LEMMA MachineImplements ==
    ASSUME ContractInv, ContractInv', OneLinkEach,
           Reboots \/ \E n \in NodeId : ContainerStops(n)
    PROVE  ViewStep
<1> USE Facts
<1>1. ASSUME NEW c \in Container
      PROVE  Stopped(c) # None /\ Stopped(c).label = c.label
  <2>1. Stopped(c) \in Container /\ Stopped(c).label = c.label
    BY NoneIsNoContainer DEF Stopped, Container
  <2> QED  BY <2>1, NoneIsNoContainer
<1>2. CASE Reboots
  <2>1. NodesSeen' = NodesSeen
    BY <1>1, <1>2, NoneIsNoContainer, SameNodesSeen DEF Reboots, MachineType, Stopped
  <2>2. \A l \in LinkId : LinkSeen(l)' = None
    BY <1>2, OfNoLinkOrOne DEF Reboots, LinkSeen, TaggedLinks
  <2>3. \A l \in LinkId : LinkSeen(l) # None => \E n \in NodeId : Touches(LinkSeen(l), n)
    BY TaggedLinksFacts DEF Touches, EndsOf, Link, Endpoint
  <2>4. View' = [View EXCEPT !.links = [l \in LinkId |->
                    IF \E n \in NodeId : Touches(View.links[l], n) THEN None ELSE View.links[l]]]
    <3>1. LinksSeen' = [l \in LinkId |-> None]
      BY <2>2 DEF LinksSeen
    <3>2. [l \in LinkId |-> IF \E n \in NodeId : Touches(LinksSeen[l], n)
                            THEN None ELSE LinksSeen[l]] = [l \in LinkId |-> None]
      BY <2>3 DEF LinksSeen
    <3> QED  BY <2>1, <3>1, <3>2 DEF View
  <2> QED  BY <2>4 DEF ViewStep
<1>3. ASSUME NEW n \in NodeId, ContainerStops(n)
      PROVE  ViewStep
  <2>1. NodesSeen' = NodesSeen
    BY <1>1, <1>3, NoneIsNoContainer, SameNodesSeen DEF ContainerStops, MachineType
  <2>2. LinksSeen' = [l \in LinkId |-> IF Touches(LinksSeen[l], n) THEN None ELSE LinksSeen[l]]
    BY <1>3, NamespaceLost DEF ContainerStops
  <2>3. View' = [View EXCEPT !.links = [l \in LinkId |->
                    IF \E m \in {n} : Touches(View.links[l], m) THEN None ELSE View.links[l]]]
    BY <2>1, <2>2 DEF View
  <2>4. \E stopped \in SUBSET NodeId :
           View' = [View EXCEPT !.links = [l \in LinkId |->
                       IF \E m \in stopped : Touches(View.links[l], m)
                       THEN None ELSE View.links[l]]]
    <3> WITNESS {n} \in SUBSET NodeId
    <3> QED  BY <2>3
  <2> QED  BY <2>4 DEF ViewStep
<1> QED  BY <1>2, <1>3

LEMMA EveryStepIsAViewStep ==
    ASSUME ContractInv, ContractInv', OneLinkEach, OneLinkEach',
           [PodmanCycleNext]_podmanCycleVars
    PROVE  ViewStep
<1>1. CASE UNCHANGED machineVars
  <2>1. container' = container /\ veths' = veths
    BY <1>1 DEF machineVars
  <2> QED  BY <2>1, SameNodesSeen, SameLinksSeen DEF ViewStep, View
<1>2. CASE TagsEnd \/ RaisesEnd \/ JoinsBridge
  BY <1>2, ReachesImplements DEF TagsEnd, RaisesEnd, JoinsBridge, At, Tagged
<1>3. CASE DriverStep
  BY <1>2, <1>3, NodeMethodsImplement, UntaggedStepsImplement, DeletesPairImplements,
     ConfigImplements
  DEF DriverStep
<1>4. CASE Reboots \/ \E n \in NodeId : ContainerStops(n)
  BY <1>4, MachineImplements
<1> QED  BY <1>1, <1>3, <1>4
         DEF PodmanCycleNext, podmanCycleVars, podmanVars, Begins, BeginsHalfBlind, CallsNext,
             Calls, Drives, CallFails, Ends, ProcessDies, Abandons, Stops, MachineReboots

-----------------------------------------------------------------------------

LEMMA UnambiguousViews ==
    ContractInv /\ Unambiguous => OneLinkEach
BY TagsAreFound DEF Unambiguous, OneLinkEach

LEMMA UnambiguousViewsNext ==
    (ContractInv /\ Unambiguous => OneLinkEach)'
BY UnambiguousViews, PTL

\* A step from view to view is a step of the contract on what is observed.
LEMMA ViewStepIsContractStep ==
    ASSUME Observed = View, Observed' = View', ViewStep
    PROVE  Contract!ContractStep
<1>1. CASE View' = View
  BY <1>1 DEF Contract!ContractStep
<1>2. CASE \E l \in LinkId : View' = DestroyLink(View, l)
  BY <1>2 DEF DestroyLink, WithLink, Contract!ContractStep, Contract!ContractNext,
              Contract!LinkDestroyed, Contract!DestroyLink, Contract!WithLink
<1>3. CASE \E n \in NodeId : View' = DestroyNode(View, n)
  BY <1>3 DEF DestroyNode, Touches, Contract!ContractStep, Contract!ContractNext,
              Contract!NodeDestroyed, Contract!DestroyNode, Contract!Touches,
              Contract!EndsOf, EndsOf
<1>4. CASE \E stopped \in SUBSET NodeId :
             View' = [View EXCEPT !.links = [l \in LinkId |->
                        IF \E n \in stopped : Touches(View.links[l], n)
                        THEN None ELSE View.links[l]]]
  <2>1. \A link, n : Contract!Touches(link, n) <=> Touches(link, n)
    BY DEF Touches, EndsOf, Contract!Touches, Contract!EndsOf
  <2>2. Contract!NamespacesLost
    BY <1>4, <2>1 DEF Contract!NamespacesLost
  <2> QED  BY <2>2 DEF Contract!ContractStep, Contract!ContractNext
<1>5. CASE \E l \in LinkId, link \in Link :
             CanCreateLink(View, l, link) /\ View' = CreateLink(View, l, link)
  BY <1>5 DEF CanCreateLink, CreateLink, WithLink, EndsOf, Contract!ContractStep,
              Contract!ContractNext, Contract!LinkCreated, Contract!CanCreateLink,
              Contract!CreateLink, Contract!WithLink, Contract!EndsOf, Contract!Link,
              Contract!Endpoint, Link, Endpoint
<1>6. CASE \E n \in NodeId, node \in Node : View' = CreateNode(View, n, node)
  BY <1>6 DEF CreateNode, WithNode, Contract!ContractStep, Contract!ContractNext,
              Contract!NodeCreated, Contract!CreateNode, Contract!WithNode, Contract!Node,
              Contract!Interfaces, Node, Interfaces
<1> QED  BY <1>1, <1>2, <1>3, <1>4, <1>5, <1>6 DEF ViewStep

\* The podman driver implements the contract that the reconciler relies on: on what
\* ReadActual returns, whichever call fails and whenever the process or the machine
\* goes down, each step is one indivisible operation of it or none.
THEOREM ImplementsContractAlways == PodmanCycleSpec => ImplementsContract
<1>1. PodmanCycleInit => Contract!ContractInit
  <2> SUFFICES ASSUME PodmanCycleInit  PROVE Observed = EmptyTopo
    BY DEF Contract!ContractInit, Contract!EmptyTopo, EmptyTopo
  <2>1. veths = {} /\ \A n \in NodeId : container[n] = None
    BY DEF PodmanCycleInit, PodmanInit
  <2>2. ContractInv
    BY InitHasInv DEF PodmanCycleInit, PodmanInit, NoCall, ContractInv, EndsAreReachable,
       MethodOnItsWay, At
  <2>3. Unambiguous
    BY <2>1 DEF Unambiguous, Sightings, SightingsBut
  <2>4. View = EmptyTopo
    BY <2>1, OfNoLinkOrOne DEF View, NodesSeen, LinksSeen, LinkSeen, TaggedLinks, EmptyTopo
  <2> QED  BY <2>2, <2>3, <2>4, ObservedIsView
<1>2. ContractInv /\ ContractInv' /\ [PodmanCycleNext]_podmanCycleVars =>
         [Unambiguous /\ Unambiguous' => Contract!ContractStep]_podmanCycleVars
  <2> SUFFICES ASSUME ContractInv, ContractInv', [PodmanCycleNext]_podmanCycleVars,
                      Unambiguous, Unambiguous'
               PROVE  Contract!ContractStep
    OBVIOUS
  <2>1. Observed = View /\ OneLinkEach
    BY ObservedIsView, UnambiguousViews
  <2>2. Observed' = View' /\ OneLinkEach'
    BY ObservedIsViewNext, UnambiguousViewsNext
  <2>3. ViewStep
    BY <2>1, <2>2, EveryStepIsAViewStep
  <2> QED  BY <2>1, <2>2, <2>3, ViewStepIsContractStep
<1> QED  BY <1>1, <1>2, ContractInvAlways, PTL DEF PodmanCycleSpec, ImplementsContract

=============================================================================
