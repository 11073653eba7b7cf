------------------------- MODULE PodmanCleanProofs -------------------------
(***************************************************************************)
(* Proofs of what a clean cycle of the podman driver achieves: the lab its *)
(* document asks for, when nothing has failed before it or when it creates *)
(* every node anew, and in any case the addresses of the nodes it creates. *)
(***************************************************************************)
EXTENDS PodmanProofs

\* No call of this cycle has failed, and the machine has done nothing by itself.
Undisturbed == at = "apply" /\ clean

\* Nothing has gone wrong since the first cycle.
Smooth == faults = 0 /\ disturbances = 0

\* Every node of the document is one this cycle creates.
AllNew == \A n \in NodesOf(desired) : n \in built \/ NodeOp("CreateNode", n) \in todo

Good == Undisturbed /\ (Smooth \/ AllNew)

\* The operation is still to have its effect.
Awaits(kind, id) ==
    \/ [kind |-> kind, id |-> id] \in todo
    \/ At(kind, "begin") /\ call.id = id

-----------------------------------------------------------------------------
(* The calls of a clean cycle, and the containers.                         *)

Settled == at = "idle" => Returned /\ todo = {}

\* A method is called in the order of its phase, with what the document has for it.
InOrder ==
    /\ \A o \in todo : phase(call.kind) <= phase(o.kind)
    /\ [kind |-> call.kind, id |-> call.id] \notin todo
    /\ call.kind \in {"CreateNode", "UpdateNodeConfig"} => call.arg = desired.nodes[call.id]
    /\ call.kind = "CreateLink" => call.arg = desired.links[call.id]

\* What is destroyed and created, and what is there otherwise.
ContainersAsPlanned ==
    \A n \in NodeId :
        /\ n \in NodesOf(desired) /\ Awaits("DestroyNode", n) => NodeOp("CreateNode", n) \in todo
        /\ Awaits("CreateNode", n) /\ ~ Awaits("DestroyNode", n) => container[n] = None
        /\ n \in NodesOf(desired) /\ ~ Awaits("CreateNode", n) =>
              container[n] # None /\ ~ coldChange(desired.nodes[n], container[n].label)
        /\ n \notin NodesOf(desired) /\ ~ Awaits("DestroyNode", n) => container[n] = None

NodesInv ==
    /\ Settled
    /\ Undisturbed /\ ~ Returned => InOrder
    /\ Undisturbed => ContainersAsPlanned

-----------------------------------------------------------------------------
(* The veth pairs of a good cycle.                                         *)

Bare(p)     == \A e \in End : p.stage[e] = "root"
Doomed(p)   == \E e \in End : p.stage[e] # "root" /\ Awaits("DestroyNode", p.link[e].node)
Standing(p) == ~ Bare(p) /\ ~ Doomed(p)
Used(p)     == \A e \in End : InUse(p, e)

\* CreateLink is between LinkAdd and its return.
Wiring(l) == /\ call.kind = "CreateLink"
             /\ call.pc \in {"move", "tag", "up", "port"}
             /\ call.id = l

Realises(p, l) == p.id = l /\ endpointsEqual(p.link, desired.links[l]) /\ Used(p)

\* CreateNode has not linked the namespace yet.
Starting(n) == call.kind = "CreateNode" /\ call.pc \in {"start", "symlink"} /\ call.id = n

\* What a container is when nothing is in its way.
NodesRun ==
    /\ \A n \in NodeId : container[n] # None /\ ~ Awaits("DestroyNode", n) /\ ~ Starting(n)
                            => Runs(n)
    /\ At("CreateNode", "symlink") => container[call.id].running

\* How far end f of its pair is when CreateLink is at pc for end e.
Final(f) == IF NodeIsSwitch(call.arg[f].node) THEN "port" ELSE "up"

StageOf(f, pc, e) ==
    CASE pc = "move" -> IF f < e THEN "moved" ELSE "root"
      [] pc # "move" /\ f < e -> Final(f)
      [] pc # "move" /\ f > e -> "moved"
      [] pc = "tag" /\ f = e -> "moved"
      [] pc = "up" /\ f = e -> "tagged"
      [] pc = "port" /\ f = e -> "up"

\* The one pair that CreateLink works on.
OwnPair ==
    /\ At("CreateLink", "add") => \A p \in veths : p.id # call.id
    /\ call.kind = "CreateLink" /\ call.pc \in {"move", "tag", "up", "port"} =>
          \E p \in veths :
              /\ p.id = call.id /\ p.link = call.arg
              /\ \A f \in End : p.stage[f] = StageOf(f, call.pc, call.end)
              /\ \A q \in veths : q.id = call.id => q = p
    /\ At("CreateLink", "port") => NodeIsSwitch(call.arg[call.end].node)

\* A pair that stays is in use and the only one of its link.
PairsStand ==
    \A p \in veths : Standing(p) =>
        /\ Used(p) \/ Wiring(p.id)
        /\ \A q \in veths : q.id = p.id => q = p

PairsAsPlanned ==
    \A l \in LinkId :
        /\ l \in LinksOf(desired) /\ Awaits("DestroyLink", l) => LinkOp("CreateLink", l) \in todo
        /\ Awaits("CreateLink", l) /\ ~ Awaits("DestroyLink", l) =>
              \A p \in veths : p.id = l => ~ Standing(p)
        /\ l \notin LinksOf(desired) /\ ~ Awaits("DestroyLink", l) =>
              \A p \in veths : p.id = l => ~ Standing(p)
        /\ l \in LinksOf(desired) /\ ~ Awaits("CreateLink", l)
              /\ ~ (call.kind = "CreateLink" /\ ~ Returned /\ call.id = l) =>
              \E p \in veths : Realises(p, l) /\ ~ Doomed(p)

GoodInv == Good => NodesRun /\ OwnPair /\ PairsStand /\ PairsAsPlanned

\* As long as nothing goes wrong nothing is left over.
SmoothInv ==
    Smooth =>
        /\ at = "apply" => clean
        /\ \A p \in veths : Bare(p) => Wiring(p.id)
        /\ at = "idle" =>
              /\ \A n \in NodeId : container[n] # None => Runs(n)
              /\ \A p \in veths : Used(p)
              /\ \A p, q \in veths : p.id = q.id => p = q

-----------------------------------------------------------------------------
(* The addresses of the nodes a clean cycle creates.                       *)

UntaggedHasNone ==
    \A p \in veths : \A e \in End : p.stage[e] \notin Tagged => p.addr[e] = {}

\* UpdateNodeConfig is between the addresses and the settings of node n.
Configures(n) == At("UpdateNodeConfig", "settings") /\ call.id = n

\* Before, and after, config is applied to a new node.
Plain(n) == /\ container[n].settings = {}
            /\ \A p \in veths : \A e \in End : Inside(p, e, n) => p.addr[e] = {}

Addresses(n) ==
    \A p \in veths : \A e \in End :
        Inside(p, e, n) /\ p.stage[e] \in Tagged /\ p.link[1].node # p.link[2].node =>
            p.addr[e] = ToSet(desired.nodes[n].ifaces[p.link[e].iface])

Settings(n) ==
    container[n].settings = IF Configures(n) THEN {} ELSE ToSet(desired.nodes[n].config)

Configured(n) == needsConfigApply(desired.nodes[n]) /\ ~ Awaits("UpdateNodeConfig", n)

\* Config is applied to a new node that needs it, and after every link is there.
ConfigPlanned(n) ==
    /\ n \in NodesOf(desired)
    /\ Awaits("UpdateNodeConfig", n) => needsConfigApply(desired.nodes[n])
    /\ Configured(n) => /\ n \in built
                        /\ call.kind = "UpdateNodeConfig"
                        /\ \A o \in todo : o.kind = "UpdateNodeConfig"

AsBuilt(n) ==
    /\ NodeOp("CreateNode", n) \notin todo
    /\ ~ Awaits("DestroyNode", n)
    /\ ~ Awaits("CreateNode", n) /\ ~ Starting(n) => Runs(n)
    /\ Starting(n) /\ call.pc = "symlink" => container[n].running
    /\ Configures(n) => needsConfigApply(desired.nodes[n])
    /\ ~ Awaits("CreateNode", n) => IF Configured(n) THEN Addresses(n) /\ Settings(n)
                                                     ELSE Plain(n)

NewNodes ==
    /\ \A n \in NodeId : NodeOp("CreateNode", n) \in todo \/ n \in built => ConfigPlanned(n)
    /\ At("CreateNode", "begin") => call.id \in built
    /\ \A n \in built : AsBuilt(n)

NewNodesInv == UntaggedHasNone /\ (Undisturbed => NewNodes)

CleanInv == ContractInv /\ NodesInv /\ GoodInv /\ SmoothInv /\ NewNodesInv

-----------------------------------------------------------------------------
(* What steps do to the call, and to what it is still to do.               *)

LEMMA DriverStepFacts ==
    ASSUME CallType, DriverStep
    PROVE  /\ ~ Returned
           /\ CallType'
           /\ call'.kind = call.kind /\ call'.id = call.id /\ call'.arg = call.arg
           /\ call'.pc # "begin"
           /\ faults' = faults /\ disturbances' = disturbances
<1> DEFINE Told == /\ CallType'
                   /\ call'.kind = call.kind /\ call'.id = call.id /\ call'.arg = call.arg
                   /\ call'.pc # "begin"
<1>1. ASSUME NEW pc \in Pc \ {"begin"}, Goes(pc)
      PROVE  Told
  BY <1>1, GoesFacts
<1>2. ASSUME EndIsDone  PROVE Told
  BY <1>2, EndIsDoneFacts
<1>3. ASSUME NEW pc \in {"move", "tag"}, NEW e \in End,
             call' = [call EXCEPT !.pc = pc, !.end = e]
      PROVE  Told
  BY <1>3, CallFacts DEF Pc
<1>4. CASE \/ CreatesContainer \/ StartsContainer \/ LinksNamespace
           \/ RemovesContainer \/ RemovesSymlink
  BY <1>1, <1>4 DEF CreatesContainer, StartsContainer, LinksNamespace, RemovesContainer,
                    RemovesSymlink, At, Returned, Pc
<1>5. CASE FindsEnds \/ TagsEnd \/ RaisesEnd \/ JoinsBridge \/ DeletesPair
  BY <1>1, <1>2, <1>5 DEF FindsEnds, TagsEnd, RaisesEnd, JoinsBridge, DeletesPair, At,
                          Returned, Pc
<1>6. CASE AddsPair
  BY <1>1, <1>3, <1>6 DEF AddsPair, At, Returned, Pc, End
<1>7. CASE MovesEnd
  <2>1. CASE Goes("err")
    BY <1>1, <1>7, <2>1 DEF MovesEnd, At, Returned, Pc
  <2>2. CASE call' = [call EXCEPT !.end = 2]
    BY <1>7, <2>2 DEF MovesEnd, At, Returned, CallType, End
  <2>3. CASE call' = [call EXCEPT !.pc = "tag", !.end = 1]
    BY <1>3, <1>7, <2>3 DEF MovesEnd, At, Returned, End
  <2> QED  BY <1>7, <2>1, <2>2, <2>3 DEF MovesEnd
<1>8. CASE SetsAddresses \/ SetsForwardingAndRoutes
  BY <1>1, <1>8 DEF SetsAddresses, SetsForwardingAndRoutes, At, Returned, Pc
<1> QED  BY <1>4, <1>5, <1>6, <1>7, <1>8 DEF DriverStep

\* Nothing but the list is awaited between two calls, or in the middle of one.
LEMMA AwaitsInTheMiddle ==
    ASSUME call.pc # "begin", NEW kind, NEW id
    PROVE  Awaits(kind, id) <=> [kind |-> kind, id |-> id] \in todo
BY DEF Awaits, At

LEMMA AwaitsInTheMiddleNext ==
    ASSUME call'.pc # "begin", NEW kind, NEW id
    PROVE  Awaits(kind, id)' <=> [kind |-> kind, id |-> id] \in todo'
BY DEF Awaits, At

\* To begin an operation does not change what is awaited.
LEMMA AwaitsAsCalled ==
    ASSUME CycleInv, NEW o \in todo, CallsNext(o), NEW kind, NEW id
    PROVE  /\ Awaits(kind, id)' <=> Awaits(kind, id)
           /\ Awaits(kind, id) <=> [kind |-> kind, id |-> id] \in todo
<1>1. o \in OpSet
  BY DEF CycleInv
<1>2. o = [kind |-> o.kind, id |-> o.id]
  BY <1>1 DEF OpSet
<1>3. /\ Returned /\ todo' = todo \ {o}
      /\ call'.kind = o.kind /\ call'.id = o.id /\ call'.pc = "begin"
  BY DEF CallsNext, Calls
<1>4. [kind |-> kind, id |-> id] = o <=> o.kind = kind /\ o.id = id
  BY <1>2
<1> QED  BY <1>3, <1>4 DEF Awaits, At, Returned

\* A driver step has the effect its method was awaited for.
LEMMA AwaitsAsDone ==
    ASSUME CallType, DriverStep, todo' = todo, NEW kind, NEW id
    PROVE  /\ Awaits(kind, id)' <=> [kind |-> kind, id |-> id] \in todo
           /\ call.kind # kind \/ call.id # id \/ call.pc # "begin" =>
                 (Awaits(kind, id)' <=> Awaits(kind, id))
BY DriverStepFacts DEF Awaits, At

LEMMA PhaseFacts ==
    /\ phase("DestroyLink") = 0 /\ phase("DestroyNode") = 1 /\ phase("CreateNode") = 2
    /\ phase("CreateLink") = 3 /\ phase("UpdateNodeConfig") = 4
    /\ \A kind \in OpKind : phase(kind) \in 0 .. 4
BY DEF phase, OpKind, NodeOpKind, LinkOpKind

\* What is called comes before all that is left.
LEMMA CalledFirst ==
    ASSUME CycleInv, NEW o \in todo, CallsNext(o), NEW p \in todo
    PROVE  o.kind \in OpKind /\ p.kind \in OpKind /\ phase(o.kind) <= phase(p.kind)
<1>1. o.kind \in OpKind /\ p.kind \in OpKind
  BY DEF CycleInv, OpSet, OpKind
<1>2. phase(o.kind) \in 0 .. 4 /\ phase(p.kind) \in 0 .. 4
  BY <1>1, PhaseFacts
<1>3. p = o \/ Precedes(desired, o, p)
  BY DEF CallsNext
<1> QED  BY <1>1, <1>2, <1>3 DEF Precedes

\* What the diff holds, kind by kind.
LEMMA DiffMembers ==
    ASSUME NEW d, NEW a, NEW x
    PROVE  /\ NodeOp("DestroyNode", x) \in Diff(d, a) <=> x \in Recreated(d, a) \cup Unwanted(d, a)
           /\ NodeOp("CreateNode", x) \in Diff(d, a) <=> x \in Missing(d, a) \cup Recreated(d, a)
           /\ NodeOp("UpdateNodeConfig", x) \in Diff(d, a) <=> x \in Updated(d, a)
           /\ LinkOp("DestroyLink", x) \in Diff(d, a)
                 <=> x \in Rebuilt(d, a) \cup UnwantedLinks(d, a)
           /\ LinkOp("CreateLink", x) \in Diff(d, a)
                 <=> x \in MissingLinks(d, a) \cup Rebuilt(d, a)
<1>1. \A k, l, y : NodeOp(k, x) = NodeOp(l, y) <=> k = l /\ x = y
  BY DEF NodeOp
<1>2. \A k, l, y : LinkOp(k, x) = LinkOp(l, y) <=> k = l /\ x = y
  BY DEF LinkOp
<1>3. \A k, l, y : NodeOp(k, x) = LinkOp(l, y) <=> k = l /\ x = y
  BY DEF LinkOp, NodeOp
<1>4. \A k, l, y : LinkOp(k, x) = NodeOp(l, y) <=> k = l /\ x = y
  BY DEF LinkOp, NodeOp
<1> HIDE DEF NodeOp, LinkOp
<1> QED  BY <1>1, <1>2, <1>3, <1>4 DEF Diff

\* A cycle begins with a reading that misses something.
HalfBlind == \E d \in Desired : BeginsHalfBlind(d)

LEMMA SettledStays ==
    ASSUME ContractInv, NodesInv, PodmanCycleNext
    PROVE  Settled'
<1> USE Facts DEF NodesInv, Settled
<1>1. ASSUME Abandons \/ call' = NoCall
      PROVE  Returned'
  BY <1>1, GoesFacts, NoCallFacts DEF Abandons, Returned, Pc
<1>2. ASSUME call' = call  PROVE Returned' = Returned
  BY <1>2 DEF Returned
<1> QED
  BY <1>1, <1>2
  DEF PodmanCycleNext, Begins, BeginsHalfBlind, CallsNext, Drives, CallFails, Ends, Done,
      ProcessDies, Stops, ContainerStops, MachineReboots, Reboots, cycleVars, podmanVars

\* A call that is under way after a step was called by it, or was under way before.
LEMMA InOrderStays ==
    ASSUME ContractInv, NodesInv, PodmanCycleNext
    PROVE  (Undisturbed /\ ~ Returned => InOrder)'
<1> USE Facts DEF NodesInv
<1>1. ASSUME NEW d \in Desired, Begins(d)
      PROVE  Returned'
  BY <1>1 DEF Begins, Settled, podmanVars, Returned
<1>2. ASSUME NEW o \in todo, CallsNext(o)
      PROVE  InOrder'
  <2>1. /\ call'.kind = o.kind /\ call'.id = o.id /\ todo' = todo \ {o} /\ desired' = desired
        /\ o.kind \in {"CreateNode", "UpdateNodeConfig"} => call'.arg = desired.nodes[o.id]
        /\ o.kind = "CreateLink" => call'.arg = desired.links[o.id]
    BY <1>2 DEF CallsNext, Calls
  <2>2. \A p \in todo : phase(o.kind) <= phase(p.kind)
    BY <1>2, CalledFirst DEF ContractInv
  <2>3. [kind |-> o.kind, id |-> o.id] = o
    BY DEF ContractInv, CycleInv, OpSet
  <2> QED  BY <2>1, <2>2, <2>3 DEF InOrder
<1>3. CASE Drives
  BY <1>3, DriverStepFacts DEF Drives, cycleVars, InOrder, Undisturbed
<1>4. CASE HalfBlind \/ CallFails \/ Ends \/ ProcessDies \/ Stops \/ MachineReboots
  BY <1>4 DEF HalfBlind, BeginsHalfBlind, CallFails, Ends, ProcessDies, Stops, MachineReboots,
              Undisturbed
<1> QED  BY <1>1, <1>2, <1>3, <1>4 DEF PodmanCycleNext, HalfBlind

\* ReadActual sees the containers by their labels.
LEMMA ReadingNodes ==
    ASSUME ContractInv, NEW actual \in Readings, NEW n \in NodeId
    PROVE  /\ n \in NodesOf(actual) <=> container[n] # None
           /\ container[n] # None => actual.nodes[n] = container[n].label
BY Facts, NoneAssumption DEF Readings, ReadingsBut, NodesOf, MachineType, Container

LEMMA BeginsPlansNodes ==
    ASSUME ContractInv, NodesInv, NEW d \in Desired, Begins(d)
    PROVE  ContainersAsPlanned'
<1> USE Facts
<1>1. PICK actual \in Readings : todo' = Diff(d, actual)
  BY DEF Begins
<1>2. desired' = d /\ container' = container /\ call' = call /\ Returned
  BY DEF Begins, podmanVars, machineVars, NodesInv, Settled
<1>3. \A k, x : Awaits(k, x)' <=> [kind |-> k, id |-> x] \in todo'
  BY <1>2 DEF Awaits, At, Returned
<1>4. ASSUME NEW n \in NodeId
      PROVE  /\ Awaits("DestroyNode", n)' <=>
                   container[n] # None
                   /\ (n \notin NodesOf(d) \/ coldChange(d.nodes[n], container[n].label))
             /\ Awaits("CreateNode", n)' <=>
                   n \in NodesOf(d)
                   /\ (container[n] = None \/ coldChange(d.nodes[n], container[n].label))
             /\ NodeOp("CreateNode", n) \in todo' <=> Awaits("CreateNode", n)'
  <2>1. /\ Awaits("DestroyNode", n)' <=> n \in Recreated(d, actual) \cup Unwanted(d, actual)
        /\ Awaits("CreateNode", n)' <=> n \in Missing(d, actual) \cup Recreated(d, actual)
        /\ NodeOp("CreateNode", n) \in todo' <=> Awaits("CreateNode", n)'
    BY <1>1, <1>3, DiffMembers DEF NodeOp
  <2>2. /\ n \in NodesOf(actual) <=> container[n] # None
        /\ container[n] # None => actual.nodes[n] = container[n].label
    BY ReadingNodes
  <2>3. /\ n \in Recreated(d, actual) <=>
              /\ n \in NodesOf(d) /\ container[n] # None
              /\ coldChange(d.nodes[n], container[n].label)
        /\ n \in Unwanted(d, actual) <=> n \notin NodesOf(d) /\ container[n] # None
        /\ n \in Missing(d, actual) <=> n \in NodesOf(d) /\ container[n] = None
    BY <2>2 DEF Recreated, Unwanted, Missing
  <2> QED  BY <2>1, <2>3
<1> QED  BY <1>2, <1>4 DEF ContainersAsPlanned

LEMMA CallsKeepsPlannedNodes ==
    ASSUME ContractInv, NodesInv, Undisturbed, NEW o \in todo, CallsNext(o)
    PROVE  ContainersAsPlanned'
<1> USE Facts
<1>1. container' = container /\ desired' = desired /\ todo' = todo \ {o}
  BY DEF CallsNext, Calls, machineVars
<1>2. CycleInv
  BY DEF ContractInv
<1>3. \A k, x : /\ Awaits(k, x)' <=> Awaits(k, x)
                /\ Awaits(k, x) <=> [kind |-> k, id |-> x] \in todo
  BY <1>2, AwaitsAsCalled
<1>4. ASSUME NEW n \in NodeId, n \in NodesOf(desired), Awaits("DestroyNode", n)
      PROVE  NodeOp("CreateNode", n) \in todo'
  <2>1. NodeOp("CreateNode", n) \in todo
    BY <1>4 DEF NodesInv, ContainersAsPlanned
  <2>2. PICK p \in todo : p.kind = "DestroyNode"
    <3>1. [kind |-> "DestroyNode", id |-> n] \in todo
      BY <1>3, <1>4
    <3> QED  BY <3>1
  <2>3. o.kind # "CreateNode"
    BY <1>2, <2>2, CalledFirst, PhaseFacts
  <2> QED  BY <1>1, <2>1, <2>3 DEF NodeOp
<1> QED  BY <1>1, <1>3, <1>4 DEF NodesInv, ContainersAsPlanned

\* A clean cycle's driver step is one of the call in order.
LEMMA InTheMethod ==
    ASSUME ContractInv, NodesInv, Undisturbed, Drives
    PROVE  /\ DriverStep /\ InOrder /\ ContainersAsPlanned
           /\ UNCHANGED cycleVars /\ todo' = todo /\ desired' = desired /\ built' = built
           /\ \A k, x : /\ Awaits(k, x)' <=> [kind |-> k, id |-> x] \in todo
                        /\ call.kind # k \/ call.id # x \/ call.pc # "begin" =>
                              (Awaits(k, x)' <=> Awaits(k, x))
           /\ \A k, x : call.kind = k /\ call.id = x => ~ Awaits(k, x)'
<1> USE Facts
<1>1. DriverStep /\ UNCHANGED cycleVars
  BY DEF Drives
<1>2. todo' = todo /\ desired' = desired /\ built' = built
  BY <1>1 DEF cycleVars
<1>3. InOrder /\ ContainersAsPlanned
  BY <1>1, DriverStepFacts DEF NodesInv
<1>4. \A k, x : /\ Awaits(k, x)' <=> [kind |-> k, id |-> x] \in todo
                /\ call.kind # k \/ call.id # x \/ call.pc # "begin" =>
                      (Awaits(k, x)' <=> Awaits(k, x))
  BY <1>1, <1>2, AwaitsAsDone
<1>5. \A k, x : call.kind = k /\ call.id = x => ~ Awaits(k, x)'
  BY <1>3, <1>4 DEF InOrder
<1> QED  BY <1>1, <1>2, <1>3, <1>4, <1>5

\* When the call under way is of a later phase, nothing of an earlier one is left.
LEMMA PhasesOver ==
    ASSUME CycleInv, InOrder, NEW kind \in OpKind, phase(kind) < phase(call.kind), NEW x
    PROVE  ~ Awaits(kind, x) /\ [kind |-> kind, id |-> x] \notin todo
<1>1. phase(kind) \in 0 .. 4 /\ phase(call.kind) \in 0 .. 4
  BY PhaseFacts DEF CycleInv, PodmanInv, CallType
<1>2. call.kind # kind
  BY <1>1
<1>3. [kind |-> kind, id |-> x] \notin todo
  <2>1. \A o \in todo : phase(call.kind) <= phase(o.kind)
    BY DEF InOrder
  <2> QED  BY <1>1, <2>1
<1> QED  BY <1>2, <1>3 DEF Awaits, At

\* A step that neither adds nor removes a container, nor relabels one.
SameContainers ==
    \A n \in NodeId : /\ container'[n] = None <=> container[n] = None
                      /\ container[n] # None => container'[n].label = container[n].label

LEMMA MostStepsKeepContainers ==
    ASSUME PodmanInv, DriverStep, ~ CreatesContainer, ~ RemovesContainer
    PROVE  SameContainers
<1> USE DEF PodmanInv
<1>1. CASE UNCHANGED container
  BY <1>1 DEF SameContainers
<1>2. CASE StartsContainer \/ SetsForwardingAndRoutes
  <2>1. call.id \in NodeId /\ container[call.id] \in Container
    BY <1>2 DEF StartsContainer, SetsForwardingAndRoutes, At, CallType, NodeOpKind,
                ContainersAreThere, MachineType
  <2>2. /\ [container[call.id] EXCEPT !.running = TRUE].label = container[call.id].label
        /\ [container[call.id] EXCEPT !.running = TRUE] \in Container
    BY <2>1 DEF Container
  <2>3. ASSUME SetsForwardingAndRoutes
        PROVE  /\ [container[call.id] EXCEPT !.settings = @ \cup ToSet(call.arg.config)].label
                     = container[call.id].label
               /\ [container[call.id] EXCEPT !.settings = @ \cup ToSet(call.arg.config)]
                     \in Container
    <3>1. call.arg \in Node
      BY <2>3 DEF SetsForwardingAndRoutes, At, CallType
    <3> QED  BY <2>1, <3>1 DEF Container, ToSet, Node
  <2>4. \E c \in Container : /\ container' = [container EXCEPT ![call.id] = c]
                             /\ c.label = container[call.id].label
    BY <1>2, <2>2, <2>3 DEF StartsContainer, SetsForwardingAndRoutes
  <2> QED  BY <2>1, <2>4, NoneIsNoContainer DEF SameContainers, MachineType
<1> QED
  BY <1>1, <1>2 DEF DriverStep, LinksNamespace, RemovesSymlink, FindsEnds, AddsPair, MovesEnd,
                    TagsEnd, RaisesEnd, JoinsBridge, DeletesPair, SetsAddresses

LEMMA DrivesKeepsPlannedNodes ==
    ASSUME ContractInv, NodesInv, Undisturbed, Drives
    PROVE  ContainersAsPlanned'
<1> USE Facts
<1>0. /\ DriverStep /\ InOrder /\ ContainersAsPlanned /\ CycleInv
      /\ todo' = todo /\ desired' = desired
      /\ \A k, x : /\ Awaits(k, x)' <=> [kind |-> k, id |-> x] \in todo
                   /\ call.kind # k \/ call.id # x \/ call.pc # "begin" =>
                         (Awaits(k, x)' <=> Awaits(k, x))
      /\ \A k, x : call.kind = k /\ call.id = x => ~ Awaits(k, x)'
  BY InTheMethod DEF ContractInv
<1> USE <1>0
<1>1. CASE CreatesContainer
  <2>1. call.kind = "CreateNode" /\ call.pc = "begin" /\ call.id \in NodeId
    BY <1>1 DEF CreatesContainer, At, CallType, NodeOpKind
  <2> PICK c \in NodeId : c = call.id
    BY <2>1
  <2>2. ~ Awaits("DestroyNode", c)
    <3>1. "DestroyNode" \in OpKind /\ phase("DestroyNode") < phase(call.kind)
      BY <2>1, PhaseFacts DEF OpKind, NodeOpKind
    <3> QED  BY <3>1, PhasesOver
  <2>3. Awaits("CreateNode", c) /\ ~ Awaits("CreateNode", c)'
    BY <2>1 DEF Awaits, At
  <2>4. container[c] = None /\ call.arg = desired.nodes[c]
    BY <2>1, <2>2, <2>3 DEF ContainersAsPlanned, InOrder
  <2>5. container' = [container EXCEPT ![c] =
                         [label |-> desired.nodes[c], running |-> FALSE, settings |-> {}]]
    BY <1>1, <2>4 DEF CreatesContainer
  <2>6. desired.nodes[c] \in Node
    BY <2>1, <2>4 DEF CallType
  <2>7. /\ container'[c] # None /\ container'[c].label = desired.nodes[c]
        /\ \A n \in NodeId \ {c} : container'[n] = container[n]
    <3>1. [label |-> desired.nodes[c], running |-> FALSE, settings |-> {}] \in Container
      BY <2>6 DEF Container
    <3> QED  BY <2>5, <3>1, NoneIsNoContainer DEF MachineType
  <2>8. desired.nodes[c] # None /\ ~ coldChange(desired.nodes[c], desired.nodes[c])
    BY <2>6, NoneAssumption DEF coldChange
  <2>9. \A n \in NodeId : Awaits("DestroyNode", n)' <=> Awaits("DestroyNode", n)
    BY <2>1
  <2>10. \A n \in NodeId \ {c} : Awaits("CreateNode", n)' <=> Awaits("CreateNode", n)
    BY <2>1
  <2> QED  BY <2>2, <2>3, <2>7, <2>8, <2>9, <2>10 DEF ContainersAsPlanned, NodesOf
<1>2. CASE RemovesContainer
  <2>1. call.kind = "DestroyNode" /\ call.pc = "begin" /\ call.id \in NodeId
    BY <1>2 DEF RemovesContainer, At, CallType, NodeOpKind
  <2> PICK c \in NodeId : c = call.id
    BY <2>1
  <2>2. /\ container'[c] = None
        /\ \A n \in NodeId \ {c} : container'[n] = container[n]
    BY <1>2 DEF RemovesContainer, MachineType
  <2>3. Awaits("DestroyNode", c) /\ ~ Awaits("DestroyNode", c)'
    BY <2>1 DEF Awaits, At
  <2>4. \A n \in NodeId : Awaits("CreateNode", n)' <=> Awaits("CreateNode", n)
    BY <2>1
  <2>5. \A n \in NodeId \ {c} : Awaits("DestroyNode", n)' <=> Awaits("DestroyNode", n)
    BY <2>1
  <2>6. c \in NodesOf(desired) => Awaits("CreateNode", c)
    BY <2>3 DEF ContainersAsPlanned, Awaits, NodeOp
  <2> QED  BY <2>2, <2>3, <2>4, <2>5, <2>6 DEF ContainersAsPlanned, NodesOf
<1>3. CASE ~ CreatesContainer /\ ~ RemovesContainer
  <2>1. SameContainers
    BY <1>3, MostStepsKeepContainers
  <2>2. call.kind \in {"CreateNode", "DestroyNode"} => call.pc # "begin"
    BY <1>3 DEF DriverStep, StartsContainer, LinksNamespace, RemovesSymlink, FindsEnds, AddsPair,
       MovesEnd, TagsEnd, RaisesEnd, JoinsBridge, DeletesPair, SetsAddresses,
       SetsForwardingAndRoutes, At
  <2>3. \A n \in NodeId : /\ Awaits("CreateNode", n)' <=> Awaits("CreateNode", n)
                          /\ Awaits("DestroyNode", n)' <=> Awaits("DestroyNode", n)
    BY <2>2
  <2> QED  BY <2>1, <2>3 DEF SameContainers, ContainersAsPlanned, NodesOf
<1> QED  BY <1>1, <1>2, <1>3

LEMMA NodesInvStep ==
    ASSUME ContractInv, NodesInv, PodmanCycleNext
    PROVE  NodesInv'
<1>1. (Undisturbed => ContainersAsPlanned)'
  <2>1. ASSUME NEW d \in Desired, Begins(d)
        PROVE  ContainersAsPlanned'
    BY <2>1, BeginsPlansNodes
  <2>2. ASSUME NEW o \in todo, CallsNext(o), Undisturbed'
        PROVE  ContainersAsPlanned'
    BY <2>2, CallsKeepsPlannedNodes DEF CallsNext, Undisturbed
  <2>3. ASSUME Drives, Undisturbed'
        PROVE  ContainersAsPlanned'
    BY <2>3, DrivesKeepsPlannedNodes DEF Drives, cycleVars, Undisturbed
  <2>4. CASE HalfBlind \/ CallFails \/ Ends \/ ProcessDies \/ Stops \/ MachineReboots
    BY <2>4 DEF HalfBlind, BeginsHalfBlind, CallFails, Ends, ProcessDies, Stops, MachineReboots,
                Undisturbed
  <2> QED  BY <2>1, <2>2, <2>3, <2>4 DEF PodmanCycleNext, HalfBlind
<1> QED  BY <1>1, SettledStays, InOrderStays DEF NodesInv

-----------------------------------------------------------------------------
(* A driver step of a good cycle: the node methods.                        *)

GoodBefore ==
    /\ ContractInv /\ NodesInv
    /\ Undisturbed /\ Drives
    /\ NodesRun /\ OwnPair /\ PairsStand /\ PairsAsPlanned

GoodAfter == NodesRun' /\ OwnPair' /\ PairsStand' /\ PairsAsPlanned'

LEMMA GoodBeforeFacts ==
    ASSUME GoodBefore
    PROVE  /\ ContractInv /\ CycleInv /\ PodmanInv /\ MachineType /\ CallType
           /\ NodesRun /\ OwnPair /\ PairsStand /\ PairsAsPlanned
           /\ DriverStep /\ InOrder /\ ContainersAsPlanned /\ ~ Returned
           /\ todo' = todo /\ desired' = desired /\ built' = built
           /\ call'.kind = call.kind /\ call'.id = call.id /\ call'.arg = call.arg
           /\ call'.pc # "begin"
BY InTheMethod, Facts, DriverStepFacts DEF GoodBefore, ContractInv

LEMMA GoodAwaits ==
    ASSUME GoodBefore, NEW k, NEW x
    PROVE  /\ Awaits(k, x)' <=> [kind |-> k, id |-> x] \in todo
           /\ call.kind # k \/ call.id # x \/ call.pc # "begin" =>
                 (Awaits(k, x)' <=> Awaits(k, x))
           /\ call.kind = k /\ call.id = x => ~ Awaits(k, x)'
BY InTheMethod DEF GoodBefore

\* An end in a namespace is in that of a container.
LEMMA EndIsInContainer ==
    ASSUME ContractInv, NEW p \in veths, NEW e \in End, p.stage[e] # "root"
    PROVE  /\ p.link[e].node \in NodeId /\ container[p.link[e].node] # None
           /\ Opens(p.link[e].node)
<1>1. p.link[e].node \in NodeId /\ Opens(p.link[e].node)
  BY Facts DEF ContractInv, EndsAreReachable
<1> QED  BY <1>1, Facts DEF PodmanInv, ContainersAreThere, Opens

LEMMA UsedFacts ==
    ASSUME NEW p, Used(p)
    PROVE  ~ Bare(p) /\ \A e \in End : p.stage[e] \in {"up", "port"}
BY DEF Used, InUse, Bare, End

\* A container keeps its type.
LEMMA SwitchStays ==
    ASSUME SameContainers, NEW n \in NodeId
    PROVE  NodeIsSwitch(n)' <=> NodeIsSwitch(n)
BY DEF SameContainers, NodeIsSwitch

\* So what is in use stays in use, whatever happens to the containers of others.
LEMMA UsedStays ==
    ASSUME ContractInv, NEW p \in veths, Used(p),
           \A e \in End : LET n == p.link[e].node
                          IN  container[n] # None =>
                                /\ container'[n] # None
                                /\ container'[n].label = container[n].label
    PROVE  Used(p)'
<1>1. ASSUME NEW e \in End  PROVE InUse(p, e)'
  <2>1. p.stage[e] # "root" /\ InUse(p, e)
    BY UsedFacts DEF Used
  <2>2. container[p.link[e].node] # None
    BY <2>1, EndIsInContainer
  <2> QED  BY <2>1, <2>2 DEF InUse, NodeIsSwitch
<1> QED  BY <1>1 DEF Used

\* A method on a node leaves the plan for the pairs alone when it leaves alone what stands.
LEMMA NodeStepKeepsPairs ==
    ASSUME GoodBefore, call.kind \in NodeOpKind,
           veths' \subseteq veths,
           \A p \in veths' : /\ Standing(p)' => Standing(p)
                             /\ Used(p) => Used(p)',
           \A p \in veths : Used(p) /\ ~ Doomed(p) => p \in veths' /\ ~ Doomed(p)'
    PROVE  OwnPair' /\ PairsStand' /\ PairsAsPlanned'
<1> USE GoodBeforeFacts
<1>1. call.kind # "CreateLink" /\ call.kind # "DestroyLink"
  BY DEF NodeOpKind
<1>2. OwnPair'
  BY <1>1 DEF OwnPair, At
<1>3. \A l : ~ Wiring(l) /\ ~ Wiring(l)'
  BY <1>1 DEF Wiring
<1>4. \A p \in veths' : Standing(p)' =>
          Used(p)' /\ \A q \in veths' : q.id = p.id => q = p
  BY <1>3 DEF PairsStand
<1>5. PairsStand'
  BY <1>3, <1>4 DEF PairsStand
<1>6. \A l : /\ Awaits("CreateLink", l)' <=> Awaits("CreateLink", l)
             /\ Awaits("DestroyLink", l)' <=> Awaits("DestroyLink", l)
  BY <1>1, GoodAwaits
<1>7. ASSUME NEW l \in LinkId, l \in LinksOf(desired), ~ Awaits("CreateLink", l)
      PROVE  \E p \in veths' : Realises(p, l)' /\ ~ Doomed(p)'
  <2>1. PICK p \in veths : Realises(p, l) /\ ~ Doomed(p)
    BY <1>1, <1>7 DEF PairsAsPlanned
  <2>2. p \in veths' /\ ~ Doomed(p)' /\ Used(p)'
    BY <2>1 DEF Realises
  <2> QED  BY <2>1, <2>2 DEF Realises
<1>8. PairsAsPlanned'
  <2>1. ASSUME NEW l \in LinkId
        PROVE  /\ l \in LinksOf(desired) /\ Awaits("DestroyLink", l) =>
                     LinkOp("CreateLink", l) \in todo
               /\ \/ Awaits("CreateLink", l) /\ ~ Awaits("DestroyLink", l)
                  \/ l \notin LinksOf(desired) /\ ~ Awaits("DestroyLink", l)
                  => \A p \in veths' : p.id = l => ~ Standing(p)'
    BY DEF PairsAsPlanned
  <2> QED  BY <1>1, <1>6, <1>7, <2>1 DEF PairsAsPlanned, LinksOf
<1> QED  BY <1>2, <1>5, <1>8

LEMMA NoneDoomed ==
    ASSUME GoodBefore, call.kind \in {"CreateNode", "CreateLink", "UpdateNodeConfig"}
    PROVE  /\ \A x : ~ Awaits("DestroyNode", x) /\ ~ Awaits("DestroyNode", x)'
           /\ \A x : ~ Awaits("DestroyLink", x) /\ ~ Awaits("DestroyLink", x)'
           /\ \A p : ~ Doomed(p) /\ ~ Doomed(p)'
<1> USE GoodBeforeFacts
<1>1. /\ phase("DestroyNode") < phase(call.kind) /\ "DestroyNode" \in OpKind
      /\ phase("DestroyLink") < phase(call.kind) /\ "DestroyLink" \in OpKind
  BY PhaseFacts DEF OpKind, NodeOpKind, LinkOpKind
<1>2. \A x : ~ Awaits("DestroyNode", x) /\ ~ Awaits("DestroyLink", x)
  BY <1>1, PhasesOver
<1>3. \A x : ~ Awaits("DestroyNode", x)' /\ ~ Awaits("DestroyLink", x)'
  BY <1>2, GoodAwaits
<1> QED  BY <1>2, <1>3 DEF Doomed

LEMMA CreatesContainerGood ==
    ASSUME GoodBefore, CreatesContainer
    PROVE  GoodAfter
<1> USE GoodBeforeFacts
<1>1. call.kind = "CreateNode" /\ call.pc = "begin" /\ call.id \in NodeId
  BY DEF CreatesContainer, At, CallType, NodeOpKind
<1> PICK c \in NodeId : c = call.id
  BY <1>1
<1>2. \A x : ~ Awaits("DestroyNode", x) /\ ~ Awaits("DestroyNode", x)'
  BY <1>1, NoneDoomed
<1>3. \A p : ~ Doomed(p) /\ ~ Doomed(p)'
  BY <1>1, NoneDoomed
<1>4. container[c] = None
  BY <1>1, <1>2 DEF ContainersAsPlanned, Awaits, At
<1>5. /\ call' = [call EXCEPT !.pc = "start"]
      /\ \A n \in NodeId \ {c} : container'[n] = container[n]
      /\ symlink' = symlink /\ veths' = veths
  BY <1>4 DEF CreatesContainer, Goes, MachineType
<1>6. call'.pc = "start"
  BY <1>5 DEF CallType
<1>7. \A n \in NodeId \ {c} : Runs(n)' <=> Runs(n)
  BY <1>5 DEF Runs, Opens
<1>8. \A n \in NodeId \ {c} : ~ Starting(n)
  BY <1>1 DEF Starting
<1>9. NodesRun'
  BY <1>1, <1>2, <1>5, <1>6, <1>7, <1>8 DEF NodesRun, Starting, At
<1>10. ASSUME NEW p \in veths, Used(p)
       PROVE  Used(p)'
  <2>1. \A e \in End : p.link[e].node \in NodeId
    BY Facts
  <2> QED  BY <1>4, <1>5, <1>10, <2>1, UsedStays
<1>11. \A p \in veths : Standing(p)' => Standing(p)
  BY <1>3 DEF Standing, Bare
<1>12. OwnPair' /\ PairsStand' /\ PairsAsPlanned'
  BY <1>1, <1>3, <1>5, <1>10, <1>11, NodeStepKeepsPairs DEF NodeOpKind
<1> QED  BY <1>9, <1>12 DEF GoodAfter

LEMMA StartsContainerGood ==
    ASSUME GoodBefore, StartsContainer
    PROVE  GoodAfter
<1> USE GoodBeforeFacts
<1>1. call.kind = "CreateNode" /\ call.pc = "start" /\ call.id \in NodeId
  BY DEF StartsContainer, At, CallType, NodeOpKind
<1> PICK c \in NodeId : c = call.id
  BY <1>1
<1>2. \A p : ~ Doomed(p) /\ ~ Doomed(p)'
  BY <1>1, NoneDoomed
<1>3. container[c] \in Container
  BY <1>1 DEF PodmanInv, ContainersAreThere, At, MachineType
<1>4. /\ container' = [container EXCEPT ![c].running = TRUE]
      /\ symlink' = symlink /\ veths' = veths /\ call'.pc = "symlink"
  BY GoesFacts DEF StartsContainer, Pc
<1>5. container'[c].running /\ \A n \in NodeId \ {c} : container'[n] = container[n]
  BY <1>3, <1>4 DEF MachineType, Container
<1>6. \A n \in NodeId \ {c} : Runs(n)' <=> Runs(n)
  BY <1>4, <1>5 DEF Runs, Opens
<1>7. \A n \in NodeId : Awaits("DestroyNode", n)' <=> Awaits("DestroyNode", n)
  BY <1>1, GoodAwaits
<1>8. NodesRun'
  BY <1>1, <1>4, <1>5, <1>6, <1>7 DEF NodesRun, Starting, At
<1>9. SameContainers
  BY MostStepsKeepContainers, <1>1 DEF CreatesContainer, RemovesContainer, At
<1>10. ASSUME NEW p \in veths, Used(p)
       PROVE  Used(p)'
  <2>1. \A e \in End : p.link[e].node \in NodeId
    BY Facts
  <2> QED  BY <1>9, <1>10, <2>1, UsedStays DEF SameContainers
<1>11. \A p \in veths : Standing(p)' => Standing(p)
  BY <1>2 DEF Standing, Bare
<1>12. OwnPair' /\ PairsStand' /\ PairsAsPlanned'
  BY <1>1, <1>2, <1>4, <1>10, <1>11, NodeStepKeepsPairs DEF NodeOpKind
<1> QED  BY <1>8, <1>12 DEF GoodAfter

LEMMA LinksNamespaceGood ==
    ASSUME GoodBefore, LinksNamespace
    PROVE  GoodAfter
<1> USE GoodBeforeFacts
<1>1. call.kind = "CreateNode" /\ call.pc = "symlink" /\ call.id \in NodeId
  BY DEF LinksNamespace, At, CallType, NodeOpKind
<1> PICK c \in NodeId : c = call.id
  BY <1>1
<1>2. \A p : ~ Doomed(p) /\ ~ Doomed(p)'
  BY <1>1, NoneDoomed
<1>3. container[c] # None /\ container[c].running
  BY <1>1 DEF PodmanInv, ContainersAreThere, At, NodesRun
<1>4. /\ symlink' = [symlink EXCEPT ![c] = "live"]
      /\ container' = container /\ veths' = veths /\ call'.pc = "ok"
  BY <1>3, GoesFacts DEF LinksNamespace, Pc
<1>5. Runs(c)' /\ \A n \in NodeId \ {c} : Runs(n)' <=> Runs(n)
  BY <1>3, <1>4 DEF Runs, Opens, MachineType
<1>6. \A n \in NodeId : Awaits("DestroyNode", n)' <=> Awaits("DestroyNode", n)
  BY <1>1, GoodAwaits
<1>7. \A n \in NodeId \ {c} : ~ Starting(n)
  BY <1>1 DEF Starting
<1>8. NodesRun'
  BY <1>4, <1>5, <1>6, <1>7 DEF NodesRun, At
<1>9. ASSUME NEW p \in veths, Used(p)
      PROVE  Used(p)'
  BY <1>4, <1>9, UsedStays
<1>10. \A p \in veths : Standing(p)' => Standing(p)
  BY <1>2 DEF Standing, Bare
<1>11. OwnPair' /\ PairsStand' /\ PairsAsPlanned'
  BY <1>1, <1>2, <1>4, <1>9, <1>10, NodeStepKeepsPairs DEF NodeOpKind
<1> QED  BY <1>8, <1>11 DEF GoodAfter

\* The pairs that go with a namespace are the doomed ones.
LEMMA RemovesContainerGood ==
    ASSUME GoodBefore, RemovesContainer
    PROVE  GoodAfter
<1> USE GoodBeforeFacts
<1>1. call.kind = "DestroyNode" /\ call.pc = "begin" /\ call.id \in NodeId
  BY DEF RemovesContainer, At, CallType, NodeOpKind
<1> PICK c \in NodeId : c = call.id
  BY <1>1
<1>2. Awaits("DestroyNode", c) /\ ~ Awaits("DestroyNode", c)'
  BY <1>1, GoodAwaits DEF Awaits, At
<1>3. \A x : x # c => (Awaits("DestroyNode", x)' <=> Awaits("DestroyNode", x))
  BY <1>1, GoodAwaits
<1>4. /\ container'[c] = None
      /\ \A n \in NodeId \ {c} : container'[n] = container[n] /\ symlink'[n] = symlink[n]
      /\ veths' = {p \in veths : Outlives(p, c)}
      /\ call'.kind = "DestroyNode"
  BY <1>1 DEF RemovesContainer, MachineType
<1>5. \A n \in NodeId \ {c} : Runs(n)' <=> Runs(n)
  BY <1>4 DEF Runs, Opens
<1>6. NodesRun'
  BY <1>1, <1>3, <1>4, <1>5 DEF NodesRun, Starting, At
<1>7. \A p \in veths' : \A e \in End : p.stage[e] # "root" => p.link[e].node # c
  BY <1>4 DEF Outlives, Inside
<1>8. \A p \in veths' : Doomed(p)' <=> Doomed(p)
  BY <1>3, <1>7 DEF Doomed
<1>9. ASSUME NEW p \in veths', Used(p)
      PROVE  Used(p)'
  <2>1. \A e \in End : p.link[e].node \in NodeId \ {c}
    BY <1>4, <1>7, <1>9, UsedFacts, Facts
  <2> QED  BY <1>4, <1>9, <2>1, UsedStays
<1>10. \A p \in veths' : Standing(p)' => Standing(p)
  BY <1>8 DEF Standing, Bare
<1>11. ASSUME NEW p \in veths, Used(p), ~ Doomed(p)
       PROVE  p \in veths'
  BY <1>2, <1>4, <1>11 DEF Doomed, Outlives, Inside
<1>12. OwnPair' /\ PairsStand' /\ PairsAsPlanned'
  BY <1>1, <1>4, <1>8, <1>9, <1>10, <1>11, NodeStepKeepsPairs DEF NodeOpKind
<1> QED  BY <1>6, <1>12 DEF GoodAfter

LEMMA RemovesSymlinkGood ==
    ASSUME GoodBefore, RemovesSymlink
    PROVE  GoodAfter
<1> USE GoodBeforeFacts
<1>1. call.kind = "DestroyNode" /\ call.pc = "unlink" /\ call.id \in NodeId
  BY DEF RemovesSymlink, At, CallType, NodeOpKind
<1> PICK c \in NodeId : c = call.id
  BY <1>1
<1>2. container[c] = None
  BY <1>1 DEF ContractInv, MethodOnItsWay, At
<1>3. \A x : Awaits("DestroyNode", x)' <=> Awaits("DestroyNode", x)
  BY <1>1, GoodAwaits
<1>4. /\ \A n \in NodeId \ {c} : symlink'[n] = symlink[n]
      /\ container' = container /\ veths' = veths /\ call'.kind = "DestroyNode"
  BY <1>1 DEF RemovesSymlink, MachineType
<1>5. \A n \in NodeId \ {c} : Runs(n)' <=> Runs(n)
  BY <1>4 DEF Runs, Opens
<1>6. NodesRun'
  BY <1>1, <1>2, <1>3, <1>4, <1>5 DEF NodesRun, Starting, At
<1>7. \A p \in veths : Doomed(p)' <=> Doomed(p)
  BY <1>3 DEF Doomed
<1>8. ASSUME NEW p \in veths, Used(p)
      PROVE  Used(p)'
  BY <1>4, <1>8, UsedStays
<1>9. \A p \in veths : Standing(p)' => Standing(p)
  BY <1>7 DEF Standing, Bare
<1>10. OwnPair' /\ PairsStand' /\ PairsAsPlanned'
  BY <1>1, <1>4, <1>7, <1>8, <1>9, NodeStepKeepsPairs DEF NodeOpKind
<1> QED  BY <1>6, <1>10 DEF GoodAfter

\* What is not of a node that config is applied to goes on as it is.
LEMMA ConfigKeepsNodes ==
    ASSUME GoodBefore, call.kind = "UpdateNodeConfig", symlink' = symlink, SameContainers,
           \A n \in NodeId : container[n] # None => container'[n].running = container[n].running
    PROVE  NodesRun'
<1> USE GoodBeforeFacts
<1>1. \A x : ~ Awaits("DestroyNode", x) /\ ~ Awaits("DestroyNode", x)'
  BY NoneDoomed
<1>2. \A n \in NodeId : Runs(n)' <=> Runs(n)
  BY DEF SameContainers, Runs, Opens
<1> QED  BY <1>1, <1>2 DEF NodesRun, SameContainers, Starting, At

LEMMA SetsForwardingGood ==
    ASSUME GoodBefore, SetsForwardingAndRoutes
    PROVE  GoodAfter
<1> USE GoodBeforeFacts
<1>1. call.kind = "UpdateNodeConfig" /\ call.pc = "settings" /\ call.id \in NodeId
      /\ veths' = veths /\ symlink' = symlink /\ call.arg \in Node
  BY DEF SetsForwardingAndRoutes, At, CallType, NodeOpKind
<1> PICK c \in NodeId : c = call.id
  BY <1>1
<1>2. \A p : ~ Doomed(p) /\ ~ Doomed(p)'
  BY <1>1, NoneDoomed
<1>3. SameContainers
  BY <1>1, MostStepsKeepContainers DEF CreatesContainer, RemovesContainer, At
<1>4. container[c] \in Container
  BY <1>1 DEF PodmanInv, ContainersAreThere, At, MachineType
<1>5. container' = [container EXCEPT ![c].settings = @ \cup ToSet(call.arg.config)]
  BY DEF SetsForwardingAndRoutes
<1>6. \A n \in NodeId : container[n] # None => container'[n].running = container[n].running
  BY <1>4, <1>5 DEF Container, MachineType
<1>7. NodesRun'
  BY <1>1, <1>3, <1>6, ConfigKeepsNodes
<1>8. ASSUME NEW p \in veths, Used(p)
      PROVE  Used(p)'
  <2>1. \A e \in End : p.link[e].node \in NodeId
    BY Facts
  <2> QED  BY <1>3, <1>8, <2>1, UsedStays DEF SameContainers
<1>9. \A p \in veths : Standing(p)' => Standing(p)
  BY <1>2 DEF Standing, Bare
<1>10. OwnPair' /\ PairsStand' /\ PairsAsPlanned'
  BY <1>1, <1>2, <1>8, <1>9, NodeStepKeepsPairs DEF NodeOpKind
<1> QED  BY <1>7, <1>10 DEF GoodAfter

LEMMA SetsAddressesGood ==
    ASSUME GoodBefore, SetsAddresses
    PROVE  GoodAfter
<1> USE GoodBeforeFacts
<1>1. /\ call.kind = "UpdateNodeConfig" /\ call.id \in NodeId /\ call.arg \in Node
      /\ container' = container /\ symlink' = symlink
  BY DEF SetsAddresses, At, CallType, NodeOpKind
<1>2. \A p : ~ Doomed(p) /\ ~ Doomed(p)'
  BY <1>1, NoneDoomed
<1>3. NodesRun'
  BY <1>1, ConfigKeepsNodes DEF SameContainers
<1>4. \A p : Used(p)' <=> Used(p)
  BY <1>1 DEF Used, InUse, NodeIsSwitch
<1>5. \A p : Standing(p)' <=> Standing(p)
  BY <1>2 DEF Standing, Bare
<1>6. CASE veths' = veths
  <2>1. OwnPair' /\ PairsStand' /\ PairsAsPlanned'
    BY <1>1, <1>2, <1>4, <1>5, <1>6, NodeStepKeepsPairs DEF NodeOpKind
  <2> QED  BY <1>3, <2>1 DEF GoodAfter
<1>7. CASE veths' = {Addressed(p, call.id, call.arg) : p \in veths}
  <2> DEFINE f(p) == Addressed(p, call.id, call.arg)
  <2>1. \A p \in veths : f(p).id = p.id /\ f(p).link = p.link /\ f(p).stage = p.stage
    BY DEF MachineType, Addressed, Pair
  <2>2. /\ \A q \in veths' : \E p \in veths : q = f(p)
        /\ \A p \in veths : f(p) \in veths'
    BY <1>7
  <2> HIDE DEF f
  <2>3. ASSUME NEW p, NEW q, q.stage = p.stage, q.link = p.link
        PROVE  (Used(q)' <=> Used(p)) /\ (Standing(q)' <=> Standing(p)) /\ ~ Doomed(q)'
    BY <1>1, <1>2, <2>3 DEF Used, InUse, NodeIsSwitch, Standing, Bare
  <2>4. \A l : ~ Wiring(l) /\ ~ Wiring(l)'
    BY <1>1 DEF Wiring
  <2>5. OwnPair'
    BY <1>1 DEF OwnPair, At
  <2>6. PairsStand'
    <3>1. ASSUME NEW q \in veths', Standing(q)'
          PROVE  Used(q)' /\ \A r \in veths' : r.id = q.id => r = q
      <4>1. PICK p \in veths : q = f(p)
        BY <2>2
      <4>2. q.id = p.id /\ q.stage = p.stage /\ q.link = p.link
        BY <2>1, <4>1
      <4>3. Standing(p)
        BY <2>3, <3>1, <4>2
      <4>4. Used(p) /\ \A s \in veths : s.id = p.id => s = p
        BY <2>4, <4>3 DEF PairsStand
      <4>5. Used(q)'
        BY <2>3, <4>2, <4>4
      <4>6. ASSUME NEW r \in veths', r.id = q.id
            PROVE  r = q
        BY <2>1, <2>2, <4>1, <4>2, <4>4, <4>6
      <4> QED  BY <4>5, <4>6
    <3> QED  BY <3>1 DEF PairsStand
  <2>7. \A x : /\ Awaits("CreateLink", x)' <=> Awaits("CreateLink", x)
               /\ Awaits("DestroyLink", x)' <=> Awaits("DestroyLink", x)
    BY <1>1, GoodAwaits
  <2>8. ASSUME NEW l \in LinkId, \A p \in veths : p.id = l => ~ Standing(p),
               NEW q \in veths', q.id = l
        PROVE  ~ Standing(q)'
    <3>1. PICK p \in veths : q = f(p)
      BY <2>2
    <3> QED  BY <2>1, <2>3, <2>8, <3>1
  <2>9. ASSUME NEW l \in LinkId, NEW p \in veths, Realises(p, l)
        PROVE  \E q \in veths' : Realises(q, l)' /\ ~ Doomed(q)'
    <3>1. PICK q \in veths' : q = f(p)
      BY <2>2
    <3>2. q.id = p.id /\ q.stage = p.stage /\ q.link = p.link
      BY <2>1, <3>1
    <3>3. Used(q)' /\ ~ Doomed(q)'
      BY <2>3, <2>9, <3>2 DEF Realises
    <3> QED  BY <2>9, <3>2, <3>3 DEF Realises
  <2>10. PairsAsPlanned'
    BY <1>1, <2>7, <2>8, <2>9 DEF PairsAsPlanned, LinksOf
  <2> QED  BY <1>3, <2>5, <2>6, <2>10 DEF GoodAfter
<1> QED  BY <1>6, <1>7 DEF SetsAddresses

-----------------------------------------------------------------------------
(* A driver step of a good cycle: the link methods.                        *)

\* A method on a link leaves the nodes alone.
LEMMA LinkStepKeepsNodes ==
    ASSUME GoodBefore, call.kind \in LinkOpKind, container' = container, symlink' = symlink
    PROVE  /\ NodesRun'
           /\ \A p : /\ Used(p)' <=> Used(p)
                     /\ Doomed(p)' <=> Doomed(p)
                     /\ Standing(p)' <=> Standing(p)
<1> USE GoodBeforeFacts
<1>1. \A x : Awaits("DestroyNode", x)' <=> Awaits("DestroyNode", x)
  BY GoodAwaits DEF LinkOpKind
<1>2. NodesRun'
  BY <1>1 DEF NodesRun, Starting, Runs, Opens, At, LinkOpKind
<1>3. \A p : (Used(p)' <=> Used(p)) /\ (Doomed(p)' <=> Doomed(p))
  BY <1>1 DEF Used, InUse, NodeIsSwitch, Doomed
<1> QED  BY <1>2, <1>3 DEF Standing, Bare

\* The pair that stands is in use, so DestroyLink finds it, and there is no other.
LEMMA DeletesPairGood ==
    ASSUME GoodBefore, DeletesPair
    PROVE  GoodAfter
<1> USE GoodBeforeFacts
<1>1. /\ call.kind = "DestroyLink" /\ call.pc = "begin" /\ call.id \in LinkId
      /\ container' = container /\ symlink' = symlink /\ call'.pc = "ok"
  BY GoesFacts DEF DeletesPair, At, CallType, LinkOpKind, Pc
<1> PICK c \in LinkId : c = call.id
  BY <1>1
<1>2. /\ NodesRun'
      /\ \A p : /\ Used(p)' <=> Used(p)
                /\ Doomed(p)' <=> Doomed(p)
                /\ Standing(p)' <=> Standing(p)
  BY <1>1, LinkStepKeepsNodes DEF LinkOpKind
<1>3. veths' \subseteq veths /\ \A p \in veths \ veths' : p.id = c
  BY DEF DeletesPair, EndsInside
<1>4. \A l : ~ Wiring(l) /\ ~ Wiring(l)'
  BY <1>1 DEF Wiring
<1>5. ASSUME NEW p \in veths', p.id = c, Standing(p)
      PROVE  FALSE
  <2>1. p \in veths /\ Used(p) /\ \A q \in veths : q.id = c => q = p
    BY <1>3, <1>4, <1>5 DEF PairsStand
  <2>2. \A e \in End : p.stage[e] # "root"
    BY <2>1, UsedFacts
  <2>3. /\ p.link[1].node \in NodeId /\ container[p.link[1].node] # None
        /\ Opens(p.link[1].node)
    BY <2>1, <2>2, EndIsInContainer DEF End
  <2>4. p \in EndsInside(call.id, 1, p.link[1].node)
    BY <1>5, <2>1, <2>2 DEF EndsInside, Inside, End
  <2>5. \E n \in NodeId :
           \E q \in (IF EndsInside(call.id, 1, n) # {} THEN EndsInside(call.id, 1, n)
                                                       ELSE EndsInside(call.id, 2, n)) :
               veths' = veths \ {q}
    BY <2>3, <2>4 DEF DeletesPair
  <2>6. PICK q \in veths : q.id = c /\ veths' = veths \ {q}
    BY <2>5 DEF EndsInside
  <2> QED  BY <1>5, <2>1, <2>6
<1>6. OwnPair'
  BY <1>1 DEF OwnPair, At
<1>7. PairsStand'
  <2>1. \A p \in veths' : Standing(p)' =>
            Used(p)' /\ \A q \in veths' : q.id = p.id => q = p
    BY <1>2, <1>3, <1>4 DEF PairsStand
  <2> QED  BY <2>1 DEF PairsStand
<1>8. /\ Awaits("DestroyLink", c) /\ ~ Awaits("DestroyLink", c)'
      /\ \A x : Awaits("CreateLink", x)' <=> Awaits("CreateLink", x)
      /\ \A x : x # c => (Awaits("DestroyLink", x)' <=> Awaits("DestroyLink", x))
  BY <1>1, GoodAwaits DEF Awaits, At
<1>9. ASSUME NEW l \in LinkId, ~ Awaits("DestroyLink", l)',
             Awaits("CreateLink", l)' \/ l \notin LinksOf(desired)
      PROVE  \A p \in veths' : p.id = l => ~ Standing(p)'
  <2>1. CASE l = c
    BY <1>2, <1>5, <2>1
  <2>2. CASE l # c
    BY <1>2, <1>3, <1>8, <1>9, <2>2 DEF PairsAsPlanned
  <2> QED  BY <2>1, <2>2
<1>10. ASSUME NEW l \in LinkId, l \in LinksOf(desired), ~ Awaits("CreateLink", l)'
       PROVE  \E p \in veths' : Realises(p, l)' /\ ~ Doomed(p)'
  <2>1. l # c
    BY <1>8, <1>10 DEF PairsAsPlanned, Awaits, LinkOp
  <2>2. PICK p \in veths : Realises(p, l) /\ ~ Doomed(p)
    BY <1>1, <1>8, <1>10 DEF PairsAsPlanned
  <2>3. p \in veths' /\ Realises(p, l)' /\ ~ Doomed(p)'
    BY <1>2, <1>3, <2>1, <2>2 DEF Realises
  <2> QED  BY <2>3
<1>11. \A l \in LinkId : l \in LinksOf(desired) /\ Awaits("DestroyLink", l)' =>
                            LinkOp("CreateLink", l) \in todo
  BY <1>8 DEF PairsAsPlanned
<1>12. PairsAsPlanned'
  BY <1>9, <1>10, <1>11 DEF PairsAsPlanned, LinksOf
<1> QED  BY <1>2, <1>6, <1>7, <1>12 DEF GoodAfter

\* The link that CreateLink is called for, and what its phase has behind it.
LEMMA LinkCalled ==
    ASSUME GoodBefore, call.kind = "CreateLink"
    PROVE  /\ call.id \in LinkId /\ call.arg \in Link /\ call.end \in End
           /\ call.id \in LinksOf(desired) /\ call.arg = desired.links[call.id]
           /\ \A p : ~ Doomed(p) /\ ~ Doomed(p)'
           /\ \A x : ~ Awaits("DestroyLink", x) /\ ~ Awaits("DestroyLink", x)'
           /\ \A l : Wiring(l) => l = call.id
<1> USE GoodBeforeFacts
<1>1. call.id \in LinkId /\ call.arg \in Link /\ call.end \in End
  BY DEF CallType, LinkOpKind
<1>2. call.arg = desired.links[call.id]
  BY DEF InOrder
<1>3. call.id \in LinksOf(desired)
  BY <1>1, <1>2, NoneAssumption DEF LinksOf
<1> QED  BY <1>1, <1>2, <1>3, NoneDoomed DEF Wiring

\* So what is to be shown of a step of CreateLink is about its own pair.
LEMMA CreateLinkStep ==
    ASSUME GoodBefore, call.kind = "CreateLink", container' = container, symlink' = symlink,
           \A p : p.id # call.id => (p \in veths' <=> p \in veths),
           OwnPair',
           \A p \in veths' : p.id = call.id /\ Standing(p)' =>
               /\ Used(p)' \/ Wiring(call.id)'
               /\ \A q \in veths' : q.id = call.id => q = p,
           Returned' => \E p \in veths' : Realises(p, call.id)'
    PROVE  GoodAfter
<1> USE GoodBeforeFacts, LinkCalled
<1> PICK c \in LinkId : c = call.id
  OBVIOUS
<1>1. /\ NodesRun'
      /\ \A p : /\ Used(p)' <=> Used(p)
                /\ Standing(p)' <=> Standing(p)
  BY LinkStepKeepsNodes DEF LinkOpKind
<1>2. PairsStand'
  <2>1. ASSUME NEW p \in veths', Standing(p)', p.id # c
        PROVE  Used(p)' /\ \A q \in veths' : q.id = p.id => q = p
    BY <1>1, <2>1 DEF PairsStand
  <2>2. ASSUME NEW p \in veths', Standing(p)'
        PROVE  /\ Used(p)' \/ Wiring(p.id)'
               /\ \A q \in veths' : q.id = p.id => q = p
    <3>1. CASE p.id = c
      <4>1. Used(p)' \/ Wiring(call.id)'
        BY <2>2, <3>1
      <4>2. Wiring(call.id)' => Wiring(p.id)'
        BY <3>1 DEF Wiring
      <4> QED  BY <2>2, <3>1, <4>1, <4>2
    <3>2. CASE p.id # c
      BY <2>1, <2>2, <3>2
    <3> QED  BY <3>1, <3>2
  <2> QED  BY <2>2 DEF PairsStand
<1>3. /\ ~ Awaits("CreateLink", c)'
      /\ \A x : x # c => (Awaits("CreateLink", x)' <=> Awaits("CreateLink", x))
  BY GoodAwaits
<1>4. ASSUME NEW l \in LinkId, Awaits("CreateLink", l)' \/ l \notin LinksOf(desired)
      PROVE  \A p \in veths' : p.id = l => ~ Standing(p)'
  <2>1. l # c
    BY <1>3, <1>4
  <2> QED  BY <1>1, <1>3, <1>4, <2>1 DEF PairsAsPlanned
<1>5. ASSUME NEW l \in LinkId, l \in LinksOf(desired), ~ Awaits("CreateLink", l)',
             l # c \/ Returned'
      PROVE  \E p \in veths' : Realises(p, l)' /\ ~ Doomed(p)'
  <2>1. CASE l = c
    <3>1. PICK p \in veths' : Realises(p, call.id)'
      BY <1>5, <2>1
    <3>2. Realises(p, l)'
      BY <2>1, <3>1 DEF Realises
    <3> QED  BY <3>2
  <2>2. CASE l # c
    <3>1. PICK p \in veths : Realises(p, l)
      BY <1>3, <1>5, <2>2 DEF PairsAsPlanned
    <3>2. p \in veths' /\ Realises(p, l)'
      BY <1>1, <2>2, <3>1 DEF Realises
    <3> QED  BY <3>2
  <2> QED  BY <2>1, <2>2
<1>6. PairsAsPlanned'
  BY <1>4, <1>5 DEF PairsAsPlanned, LinksOf
<1> QED  BY <1>1, <1>2, <1>6 DEF GoodAfter

\* The nodes of both ends are there and run: CreateLink can open their namespaces.
LEMMA EndsOpen ==
    ASSUME GoodBefore, call.kind = "CreateLink", NEW ep \in EndsOf(call.arg)
    PROVE  Opens(ep.node)
<1> USE GoodBeforeFacts, LinkCalled
<1>1. desired \in Desired
  BY DEF ContractInv, CycleInv, EmptyTopo, LinksOf
<1>2. ep.node \in NodeId
  BY DEF EndsOf, Link, Endpoint
<1>3. ep.node \in NodesOf(desired)
  BY <1>1, <1>2, DesiredAssumption DEF Valid, EndpointExists, NodesOf
<1>4. ~ Awaits("CreateNode", ep.node)
  <2>1. "CreateNode" \in OpKind /\ phase("CreateNode") < phase(call.kind)
    BY PhaseFacts DEF OpKind, NodeOpKind
  <2> QED  BY <2>1, PhasesOver
<1>5. ~ Awaits("DestroyNode", ep.node)
  BY NoneDoomed
<1>6. container[ep.node] # None /\ ~ Starting(ep.node)
  BY <1>2, <1>3, <1>4 DEF ContainersAsPlanned, Starting
<1> QED  BY <1>2, <1>5, <1>6 DEF NodesRun, Runs

\* A leftover in the root namespace is removed, and nothing else has the link's ID.
LEMMA FindsEndsGood ==
    ASSUME GoodBefore, FindsEnds
    PROVE  GoodAfter
<1> USE GoodBeforeFacts
<1>1. /\ call.kind = "CreateLink" /\ call.pc = "begin"
      /\ container' = container /\ symlink' = symlink
  BY DEF FindsEnds, At
<1> USE LinkCalled
<1>2. \A ep \in EndsOf(call.arg) : Opens(ep.node)
  BY <1>1, EndsOpen
<1>3. Awaits("CreateLink", call.id)
  BY <1>1 DEF Awaits, At
<1>4. \A p \in veths : p.id = call.id => Bare(p)
  BY <1>1, <1>3 DEF PairsAsPlanned, Standing
<1>5. \A e \in End : \A n : EndsInside(call.id, e, n) = {}
  BY <1>4 DEF EndsInside, Inside, Bare
<1>6. Goes("add") /\ veths' = veths \ EndsInRoot(call.id, 1)
  BY <1>2, <1>5 DEF FindsEnds, End
<1>7. call'.pc = "add"
  BY <1>6, GoesFacts DEF Pc
<1>8. \A p \in veths' : p \in veths /\ p.id # call.id
  BY <1>4, <1>6 DEF EndsInRoot, Bare, End
<1>9. \A p : p.id # call.id => (p \in veths' <=> p \in veths)
  BY <1>6 DEF EndsInRoot
<1>10. OwnPair'
  BY <1>1, <1>7, <1>8 DEF OwnPair, At
<1>11. ~ Returned'
  BY <1>7 DEF Returned
<1> QED  BY <1>1, <1>8, <1>9, <1>10, <1>11, CreateLinkStep

LEMMA AddsPairGood ==
    ASSUME GoodBefore, AddsPair
    PROVE  GoodAfter
<1> USE GoodBeforeFacts
<1>1. /\ call.kind = "CreateLink" /\ call.pc = "add"
      /\ container' = container /\ symlink' = symlink
  BY DEF AddsPair, At
<1> USE LinkCalled
<1>2. \A p \in veths : p.id # call.id
  BY <1>1 DEF OwnPair, At
<1>3. \A e \in End : EndsInRoot(call.id, e) = {}
  BY <1>2 DEF EndsInRoot
<1> PICK new : new = NewPair(call.id, call.arg)
  OBVIOUS
<1>4. veths' = veths \cup {new} /\ call' = [call EXCEPT !.pc = "move", !.end = 1]
  BY <1>3 DEF AddsPair, End
<1>5. call'.pc = "move" /\ call'.end = 1
  BY <1>4 DEF CallType
<1>6. new.id = call.id /\ new.link = call.arg /\ \A f \in End : new.stage[f] = "root"
  BY DEF NewPair
<1>7. \A f \in End : StageOf(f, "move", 1)' = "root"
  BY DEF StageOf, End
<1>8. \A q \in veths' : q.id = call.id => q = new
  BY <1>2, <1>4
<1>9. OwnPair'
  <2>1. \E p \in veths' : /\ p.id = call.id /\ p.link = call.arg
                          /\ \A f \in End : p.stage[f] = "root"
                          /\ \A q \in veths' : q.id = call.id => q = p
    <3>1. new \in veths'
      BY <1>4
    <3> QED  BY <1>6, <1>8, <3>1
  <2>2. \A f \in End : StageOf(f, call.pc, call.end)' = "root"
    BY <1>5, <1>7
  <2> QED  BY <1>5, <2>1, <2>2 DEF OwnPair, At
<1>10. \A p : p.id # call.id => (p \in veths' <=> p \in veths)
  BY <1>4, <1>6
<1>11. ~ Standing(new)'
  BY <1>6 DEF Standing, Bare
<1>12. \A p \in veths' : p.id = call.id => ~ Standing(p)'
  BY <1>8, <1>11 DEF Standing, Bare
<1>13. ~ Returned'
  BY <1>5 DEF Returned
<1> QED  BY <1>1, <1>9, <1>10, <1>12, <1>13, CreateLinkStep

\* The pair CreateLink works on, of which it moves or configures one end.
LEMMA TheOwnPair ==
    ASSUME GoodBefore, call.kind = "CreateLink", call.pc \in {"move", "tag", "up", "port"}
    PROVE  \E p \in veths :
              /\ p \in Pair /\ p.id = call.id /\ p.link = call.arg
              /\ \A f \in End : p.stage[f] = StageOf(f, call.pc, call.end)
              /\ \A r \in veths : r.id = call.id => r = p
BY GoodBeforeFacts DEF OwnPair, MachineType

\* Its place is taken by the pair q that the step makes of it.
LEMMA OwnPairStep ==
    ASSUME GoodBefore, call.kind = "CreateLink", container' = container, symlink' = symlink,
           NEW p \in veths, p.id = call.id, \A r \in veths : r.id = call.id => r = p,
           NEW q, q.id = call.id, q.link = call.arg, veths' = (veths \ {p}) \cup {q},
           call'.pc \in {"move", "tag", "up", "port", "ok"},
           call'.pc # "ok" => \A f \in End : q.stage[f] = StageOf(f, call.pc, call.end)',
           call'.pc = "port" => NodeIsSwitch(call.arg[call.end].node)',
           call'.pc = "ok" => \A f \in End : q.stage[f] = Final(f)
    PROVE  GoodAfter
<1> USE GoodBeforeFacts, LinkCalled
<1>1. \A r \in veths' : r.id = call.id => r = q
  OBVIOUS
<1>2. \A r : r.id # call.id => (r \in veths' <=> r \in veths)
  OBVIOUS
<1>3. OwnPair'
  <2>1. CASE call'.pc = "ok"
    BY <2>1 DEF OwnPair, At
  <2>2. CASE call'.pc # "ok"
    <3>1. \E r \in veths' : /\ r.id = call'.id /\ r.link = call'.arg
                            /\ \A f \in End : r.stage[f] = StageOf(f, call.pc, call.end)'
                            /\ \A s \in veths' : s.id = call'.id => s = r
      BY <1>1, <2>2
    <3>2. At("CreateLink", "port")' => NodeIsSwitch(call.arg[call.end].node)'
      BY DEF At
    <3>3. ~ At("CreateLink", "add")'
      BY DEF At
    <3> QED  BY <3>1, <3>2, <3>3 DEF OwnPair
  <2> QED  BY <2>1, <2>2
<1>4. call'.pc = "ok" => Realises(q, call.id)'
  <2>1. ASSUME call'.pc = "ok"
        PROVE  Used(q)'
    BY <2>1 DEF Used, InUse, Final, NodeIsSwitch
  <2> QED  BY <2>1 DEF Realises, endpointsEqual
<1>5. call'.pc # "ok" => Wiring(call.id)'
  BY DEF Wiring
<1>6. call'.pc = "ok" => Used(q)'
  BY <1>4 DEF Realises
<1>7. \A r \in veths' : r.id = call.id /\ Standing(r)' =>
          /\ Used(r)' \/ Wiring(call.id)'
          /\ \A s \in veths' : s.id = call.id => s = r
  <2>1. \A r : r = q => (Used(q)' => Used(r)')
    BY DEF Used, InUse
  <2> QED  BY <1>1, <1>5, <1>6, <2>1
<1>8. Returned' => \E r \in veths' : Realises(r, call.id)'
  <2>1. CASE call'.pc = "ok"
    <3>1. Realises(q, call.id)' /\ q \in veths'
      BY <1>4, <2>1
    <3> PICK r : r = q
      OBVIOUS
    <3>2. Realises(r, call.id)' /\ r \in veths'
      BY <3>1 DEF Realises, Used, InUse
    <3> QED  BY <3>2
  <2>2. CASE call'.pc # "ok"
    BY <2>2 DEF Returned
  <2> QED  BY <2>1, <2>2
<1> QED  BY <1>2, <1>3, <1>7, <1>8, CreateLinkStep

LEMMA MovesEndGood ==
    ASSUME GoodBefore, MovesEnd
    PROVE  GoodAfter
<1> USE GoodBeforeFacts
<1>1. /\ call.kind = "CreateLink" /\ call.pc = "move"
      /\ container' = container /\ symlink' = symlink
  BY DEF MovesEnd, At
<1> USE LinkCalled
<1>2. PICK own \in veths :
         /\ own \in Pair /\ own.id = call.id /\ own.link = call.arg
         /\ \A f \in End : own.stage[f] = StageOf(f, call.pc, call.end)
         /\ \A r \in veths : r.id = call.id => r = own
  BY <1>1, TheOwnPair
<1> PICK e \in End : e = call.end
  BY <1>1
<1>3. \A f \in End : own.stage[f] = IF f < e THEN "moved" ELSE "root"
  BY <1>1, <1>2 DEF StageOf
<1>4. own.stage[e] = "root"
  BY <1>3 DEF End
<1>5. EndsInside(call.id, e, call.arg[e].node) = {}
  BY <1>2, <1>4 DEF EndsInside, Inside
<1>6. /\ \E p \in EndsInRoot(call.id, e) :
             veths' = (veths \ {p}) \cup {[p EXCEPT !.stage[e] = "moved"]}
      /\ call' = IF e = 1 THEN [call EXCEPT !.end = 2] ELSE [call EXCEPT !.pc = "tag", !.end = 1]
  BY <1>5 DEF MovesEnd
<1>7. veths' = (veths \ {own}) \cup {[own EXCEPT !.stage[e] = "moved"]}
  BY <1>2, <1>6 DEF EndsInRoot
<1> PICK q : q = [own EXCEPT !.stage[e] = "moved"]
  OBVIOUS
<1>8. /\ q.id = call.id /\ q.link = call.arg
      /\ \A f \in End : q.stage[f] = IF f = e THEN "moved" ELSE own.stage[f]
  BY <1>2 DEF Pair
<1>9. \/ e = 1 /\ call'.pc = "move" /\ call'.end = 2
      \/ e = 2 /\ call'.pc = "tag" /\ call'.end = 1
  BY <1>1, <1>6 DEF CallType, End
<1>10. \A f \in End : q.stage[f] = StageOf(f, call.pc, call.end)'
  <2>1. CASE e = 1
    <3>1. \A f \in End : StageOf(f, call.pc, call.end)' = IF f < 2 THEN "moved" ELSE "root"
      BY <1>9, <2>1 DEF StageOf
    <3> QED  BY <1>3, <1>8, <2>1, <3>1 DEF End
  <2>2. CASE e = 2
    <3>1. \A f \in End : StageOf(f, call.pc, call.end)' = "moved"
      BY <1>9, <2>2 DEF StageOf, End
    <3> QED  BY <1>3, <1>8, <2>2, <3>1 DEF End
  <2> QED  BY <2>1, <2>2 DEF End
<1> QED
  BY <1>1, <1>2, <1>7, <1>8, <1>9, <1>10, OwnPairStep

LEMMA ReachesGood ==
    ASSUME GoodBefore, call.kind = "CreateLink", call.pc \in {"tag", "up", "port"},
           container' = container, symlink' = symlink,
           NEW s, Reaches(s),
           call'.pc \in {"tag", "up", "port", "ok"},
           call'.pc # "ok" =>
              \A f \in End : StageOf(f, call.pc, call.end)' =
                    IF f = call.end THEN s ELSE StageOf(f, call.pc, call.end),
           call'.pc = "port" => NodeIsSwitch(call.arg[call.end].node)',
           call'.pc = "ok" => call.end = 2 /\ s = Final(2)
    PROVE  GoodAfter
<1> USE GoodBeforeFacts, LinkCalled
<1>1. PICK own \in veths :
         /\ own \in Pair /\ own.id = call.id /\ own.link = call.arg
         /\ \A f \in End : own.stage[f] = StageOf(f, call.pc, call.end)
         /\ \A r \in veths : r.id = call.id => r = own
  BY TheOwnPair
<1> PICK e \in End : e = call.end
  OBVIOUS
<1>2. veths' = (veths \ {own}) \cup {[own EXCEPT !.stage[e] = s]}
  BY <1>1 DEF Reaches, EndsInside
<1> PICK q : q = [own EXCEPT !.stage[e] = s]
  OBVIOUS
<1>3. /\ q.id = call.id /\ q.link = call.arg
      /\ \A f \in End : q.stage[f] = IF f = e THEN s ELSE own.stage[f]
  BY <1>1 DEF Pair
<1>4. call'.pc # "ok" => \A f \in End : q.stage[f] = StageOf(f, call.pc, call.end)'
  BY <1>1, <1>3
<1>5. call'.pc = "ok" => \A f \in End : q.stage[f] = Final(f)
  <2>1. ASSUME call'.pc = "ok"
        PROVE  q.stage[1] = Final(1) /\ q.stage[2] = Final(2)
    BY <1>1, <1>3, <2>1 DEF StageOf, End
  <2> QED  BY <2>1 DEF End
<1> QED  BY <1>1, <1>2, <1>3, <1>4, <1>5, OwnPairStep

\* The other end does not care how far this one is.
LEMMA OtherEndStays ==
    ASSUME container' = container, call'.arg = call.arg,
           NEW e \in End, NEW f \in End, f # e, NEW pc \in {"tag", "up", "port"},
           NEW qc \in {"tag", "up", "port"}
    PROVE  StageOf(f, qc, e)' = StageOf(f, pc, e)
BY DEF StageOf, Final, NodeIsSwitch, End

\* When the first end is done the second is to be tagged.
LEMMA EndIsDoneGood ==
    ASSUME CallType, EndIsDone, container' = container, call.pc \in {"up", "port"},
           NEW s, s = Final(call.end)
    PROVE  /\ call'.pc \in {"tag", "ok"}
           /\ call'.pc # "ok" =>
                 \A f \in End : StageOf(f, call.pc, call.end)' =
                       IF f = call.end THEN s ELSE StageOf(f, call.pc, call.end)
           /\ call'.pc = "ok" => call.end = 2 /\ s = Final(2)
<1>1. CASE call.end = 1
  <2>1. call'.pc = "tag" /\ call'.end = 2 /\ call'.arg = call.arg
    BY <1>1 DEF EndIsDone, CallType
  <2>2. \A f \in End : StageOf(f, call.pc, call.end)' = IF f = 1 THEN Final(1) ELSE "moved"
    BY <2>1 DEF StageOf, End, Final, NodeIsSwitch
  <2>3. StageOf(2, call.pc, call.end) = "moved"
    BY <1>1 DEF StageOf
  <2> QED  BY <1>1, <2>1, <2>2, <2>3 DEF End
<1>2. CASE call.end = 2
  BY <1>2 DEF EndIsDone, CallType
<1> QED  BY <1>1, <1>2 DEF CallType, End

LEMMA ConfiguresEndGood ==
    ASSUME GoodBefore, TagsEnd \/ RaisesEnd \/ JoinsBridge
    PROVE  GoodAfter
<1> USE GoodBeforeFacts
<1>1. /\ call.kind = "CreateLink" /\ call.end \in End
      /\ container' = container /\ symlink' = symlink
  BY DEF TagsEnd, RaisesEnd, JoinsBridge, At, CallType
<1>2. CASE TagsEnd
  <2>1. call.pc = "tag" /\ Reaches("tagged") /\ call'.pc = "up" /\ call'.end = call.end
    BY <1>2, GoesFacts DEF TagsEnd, At, Pc
  <2>2. \A f \in End : StageOf(f, call.pc, call.end)' =
            IF f = call.end THEN "tagged" ELSE StageOf(f, call.pc, call.end)
    BY <1>1, <2>1 DEF StageOf, Final, NodeIsSwitch, End
  <2> QED  BY <1>1, <2>1, <2>2, ReachesGood
<1>3. CASE RaisesEnd /\ NodeIsSwitch(call.arg[call.end].node)
  <2>1. call.pc = "up" /\ Reaches("up") /\ call'.pc = "port" /\ call'.end = call.end
    BY <1>3, GoesFacts DEF RaisesEnd, At, Pc
  <2>2. \A f \in End : StageOf(f, call.pc, call.end)' =
            IF f = call.end THEN "up" ELSE StageOf(f, call.pc, call.end)
    BY <1>1, <2>1 DEF StageOf, Final, NodeIsSwitch, End
  <2>3. NodeIsSwitch(call.arg[call.end].node)'
    BY <1>1, <1>3, <2>1 DEF NodeIsSwitch
  <2> QED  BY <1>1, <2>1, <2>2, <2>3, ReachesGood
<1>4. CASE RaisesEnd /\ ~ NodeIsSwitch(call.arg[call.end].node)
  <2>1. call.pc = "up" /\ Reaches("up") /\ EndIsDone
    BY <1>4 DEF RaisesEnd, At
  <2>2. "up" = Final(call.end)
    BY <1>4 DEF Final
  <2> QED  BY <1>1, <2>1, <2>2, EndIsDoneGood, ReachesGood
<1>5. CASE JoinsBridge
  <2>1. call.pc = "port" /\ Reaches("port") /\ EndIsDone
    BY <1>5 DEF JoinsBridge, At
  <2>2. "port" = Final(call.end)
    BY <1>1, <2>1 DEF Final, OwnPair, At
  <2> QED  BY <1>1, <2>1, <2>2, EndIsDoneGood, ReachesGood
<1> QED  BY <1>2, <1>3, <1>4, <1>5

LEMMA DrivesGood ==
    ASSUME GoodBefore
    PROVE  GoodAfter
BY GoodBeforeFacts, CreatesContainerGood, StartsContainerGood, LinksNamespaceGood,
   RemovesContainerGood, RemovesSymlinkGood, FindsEndsGood, AddsPairGood, MovesEndGood,
   ConfiguresEndGood, DeletesPairGood, SetsAddressesGood, SetsForwardingGood
DEF DriverStep

-----------------------------------------------------------------------------
(* Where a good cycle begins, and how it goes on.                          *)

LEMMA CallsGood ==
    ASSUME ContractInv, NodesInv, Undisturbed, NEW o \in todo, CallsNext(o),
           NodesRun, OwnPair, PairsStand, PairsAsPlanned
    PROVE  GoodAfter
<1> USE Facts
<1>1. /\ CycleInv /\ Returned
      /\ container' = container /\ symlink' = symlink /\ veths' = veths
      /\ desired' = desired /\ todo' = todo \ {o} /\ call'.kind = o.kind
      /\ call'.pc = "begin"
  BY DEF CallsNext, Calls, machineVars, ContractInv
<1>2. \A k, x : /\ Awaits(k, x)' <=> Awaits(k, x)
                /\ Awaits(k, x) <=> [kind |-> k, id |-> x] \in todo
  BY <1>1, AwaitsAsCalled
<1>3. \A l : ~ Wiring(l)
  BY <1>1 DEF Wiring, Returned
<1>4. /\ \A n : ~ Starting(n)
      /\ \A n : Runs(n)' <=> Runs(n)
      /\ ~ At("CreateNode", "symlink")'
  BY <1>1 DEF Starting, Returned, Runs, Opens, At
<1>5. NodesRun'
  BY <1>1, <1>2, <1>4 DEF NodesRun
<1>6. OwnPair'
  BY <1>1 DEF OwnPair, At
<1>7. \A p : /\ Used(p)' <=> Used(p)
             /\ Doomed(p)' <=> Doomed(p)
             /\ Standing(p)' <=> Standing(p)
  BY <1>1, <1>2 DEF Used, InUse, NodeIsSwitch, Doomed, Standing, Bare
<1>8. PairsStand'
  <2>1. \A p \in veths' : Standing(p)' =>
            Used(p)' /\ \A q \in veths' : q.id = p.id => q = p
    BY <1>1, <1>3, <1>7 DEF PairsStand
  <2> QED  BY <2>1 DEF PairsStand
<1>9. ASSUME NEW l \in LinkId, l \in LinksOf(desired), Awaits("DestroyLink", l)
      PROVE  LinkOp("CreateLink", l) \in todo'
  <2>1. LinkOp("CreateLink", l) \in todo
    BY <1>9 DEF PairsAsPlanned
  <2>2. PICK p \in todo : p.kind = "DestroyLink"
    <3>1. [kind |-> "DestroyLink", id |-> l] \in todo
      BY <1>2, <1>9
    <3> QED  BY <3>1
  <2>3. o.kind # "CreateLink"
    BY <1>1, <2>2, CalledFirst, PhaseFacts
  <2> QED  BY <1>1, <2>1, <2>3 DEF LinkOp
<1>10. \A l \in LinkId : l \in LinksOf(desired) /\ ~ Awaits("CreateLink", l)
            => \E p \in veths' : Realises(p, l)' /\ ~ Doomed(p)'
  BY <1>1, <1>7 DEF PairsAsPlanned, Realises
<1>11. PairsAsPlanned'
  BY <1>1, <1>2, <1>7, <1>9, <1>10 DEF PairsAsPlanned, LinksOf
<1> QED  BY <1>5, <1>6, <1>8, <1>11 DEF GoodAfter

\* A cycle that is good was good before.
LEMMA GoodGoesOn ==
    ASSUME ContractInv, Good',
           Drives \/ \E o \in todo : CallsNext(o)
    PROVE  Good
<1>1. CASE Drives
  BY <1>1, DriverStepFacts, Facts
  DEF Drives, cycleVars, Good, Undisturbed, Smooth, AllNew, NodesOf
<1>2. ASSUME NEW o \in todo, CallsNext(o)
      PROVE  Good
  <2>1. /\ at = "apply" /\ clean' = clean /\ desired' = desired /\ todo' = todo \ {o}
        /\ faults' = faults /\ disturbances' = disturbances
        /\ built' = IF o.kind = "CreateNode" THEN built \cup {o.id} ELSE built
    BY <1>2 DEF CallsNext, Calls
  <2>2. o = [kind |-> o.kind, id |-> o.id]
    BY DEF ContractInv, CycleInv, OpSet
  <2>3. AllNew' => AllNew
    BY <2>1, <2>2 DEF AllNew, NodesOf, NodeOp
  <2> QED  BY <2>1, <2>3 DEF Good, Undisturbed, Smooth
<1> QED  BY <1>1, <1>2

\* A cycle that begins awaits what the diff with what ReadActual saw tells it to.
LEMMA BeginsAwaits ==
    ASSUME ContractInv, NodesInv, NEW d \in Desired, Begins(d)
    PROVE  /\ Returned' /\ desired' = d /\ built' = {}
           /\ UNCHANGED <<container, symlink, veths, call, faults, disturbances>>
           /\ \E actual \in Readings :
                 /\ todo' = Diff(d, actual)
                 /\ \A k, x : Awaits(k, x)' <=> [kind |-> k, id |-> x] \in todo'
                 /\ \A x : /\ Awaits("DestroyNode", x)' <=>
                                 x \in Recreated(d, actual) \cup Unwanted(d, actual)
                           /\ Awaits("CreateNode", x)' <=>
                                 x \in Missing(d, actual) \cup Recreated(d, actual)
                           /\ Awaits("UpdateNodeConfig", x)' <=> x \in Updated(d, actual)
                           /\ Awaits("DestroyLink", x)' <=>
                                 x \in Rebuilt(d, actual) \cup UnwantedLinks(d, actual)
                           /\ Awaits("CreateLink", x)' <=>
                                 x \in MissingLinks(d, actual) \cup Rebuilt(d, actual)
<1>1. /\ Returned /\ desired' = d /\ built' = {}
      /\ UNCHANGED <<container, symlink, veths, call, faults, disturbances>>
  BY DEF Begins, podmanVars, machineVars, NodesInv, Settled
<1>2. Returned'
  BY <1>1 DEF Returned
<1>3. PICK actual \in Readings : todo' = Diff(d, actual)
  BY DEF Begins
<1>4. \A k, x : Awaits(k, x)' <=> [kind |-> k, id |-> x] \in todo'
  BY <1>1 DEF Awaits, At, Returned
<1>5. ASSUME NEW x
      PROVE  /\ Awaits("DestroyNode", x)' <=>
                   x \in Recreated(d, actual) \cup Unwanted(d, actual)
             /\ Awaits("CreateNode", x)' <=>
                   x \in Missing(d, actual) \cup Recreated(d, actual)
             /\ Awaits("UpdateNodeConfig", x)' <=> x \in Updated(d, actual)
             /\ Awaits("DestroyLink", x)' <=>
                   x \in Rebuilt(d, actual) \cup UnwantedLinks(d, actual)
             /\ Awaits("CreateLink", x)' <=>
                   x \in MissingLinks(d, actual) \cup Rebuilt(d, actual)
  BY <1>3, <1>4, DiffMembers DEF NodeOp, LinkOp
<1> QED  BY <1>1, <1>2, <1>3, <1>4, <1>5

\* A link is read from a pair that has a tag, and then both its ends are in a namespace;
\* a link that is not read has no such pair.
LEMMA ReadingLinks ==
    ASSUME ContractInv, NEW actual \in Readings, NEW l \in LinkId
    PROVE  /\ l \in LinksOf(actual) =>
                 \E p \in veths : /\ p.id = l /\ p.link = actual.links[l]
                                  /\ \A e \in End : p.stage[e] # "root"
           /\ l \notin LinksOf(actual) =>
                 \A p \in veths : p.id = l => \A e \in End : p.stage[e] \notin Tagged
<1> USE Facts
<1>1. actual.links[l] \in SomeLink(l, {})
  BY DEF Readings, ReadingsBut
<1>2. Sightings(l) = TaggedLinks(l)
  BY TagsAreFound
<1>3. \A p \in veths : p.link # None
  BY NoneAssumption DEF MachineType, Pair
<1>4. CASE l \in LinksOf(actual)
  <2>1. actual.links[l] \in TaggedLinks(l)
    BY <1>1, <1>2, <1>4 DEF LinksOf, SomeLink, Sightings
  <2>2. PICK p \in veths : /\ p.id = l /\ p.link = actual.links[l]
                           /\ \E e \in End : p.stage[e] \in Tagged
    BY <2>1 DEF TaggedLinks
  <2>3. \A e \in End : p.stage[e] # "root"
    BY <2>2 DEF PodmanInv, SightedLinksAreWired
  <2> QED  BY <1>4, <2>2, <2>3
<1>5. CASE l \notin LinksOf(actual)
  <2>1. TaggedLinks(l) = {}
    BY <1>1, <1>2, <1>3, <1>5 DEF LinksOf, SomeLink, Sightings, TaggedLinks
  <2> QED  BY <1>5, <2>1 DEF TaggedLinks
<1> QED  BY <1>4, <1>5

\* The ends of a link the document has are in nodes it has.
LEMMA EndsAreWanted ==
    ASSUME NEW d \in Desired, NEW l \in LinkId, l \in LinksOf(d), NEW link \in Link,
           endpointsEqual(d.links[l], link), NEW e \in End
    PROVE  /\ link[e].node \in NodesOf(d)
           /\ \E ep \in EndsOf(d.links[l]) : ep.node = link[e].node
<1>1. link[e] \in Endpoint
  BY DEF Link, End
<1>2. link[e] \in EndsOf(d.links[l])
  BY DEF endpointsEqual, EndsOf, End
<1>3. d.nodes[link[e].node] # None
  BY <1>2, DesiredAssumption DEF Valid, EndpointExists
<1> QED  BY <1>1, <1>2, <1>3 DEF NodesOf, Endpoint

LEMMA EndpointsEqualFacts ==
    ASSUME NEW a, NEW b
    PROVE  endpointsEqual(a, b) <=> endpointsEqual(b, a)
BY DEF endpointsEqual

\* What both kinds of good cycle begin with: pairs that stand are in use and unique,
\* one for each link that is read and none for the others.
LEMMA BeginsGoodPairs ==
    ASSUME ContractInv, NodesInv, NEW d \in Desired, Begins(d),
           \A p \in veths : Standing(p)' => Used(p) /\ \A q \in veths : q.id = p.id => q = p,
           \A p \in veths : ~ Doomed(p)' /\ (\A e \in End : p.stage[e] # "root") => Used(p)
    PROVE  OwnPair' /\ PairsStand' /\ PairsAsPlanned'
<1> USE Facts
<1>1. /\ Returned' /\ desired' = d /\ container' = container /\ veths' = veths
  BY BeginsAwaits
<1>2. PICK actual \in Readings :
         /\ todo' = Diff(d, actual)
         /\ \A k, x : Awaits(k, x)' <=> [kind |-> k, id |-> x] \in todo'
         /\ \A x : /\ Awaits("DestroyNode", x)' <=>
                         x \in Recreated(d, actual) \cup Unwanted(d, actual)
                   /\ Awaits("DestroyLink", x)' <=>
                         x \in Rebuilt(d, actual) \cup UnwantedLinks(d, actual)
                   /\ Awaits("CreateLink", x)' <=>
                         x \in MissingLinks(d, actual) \cup Rebuilt(d, actual)
  BY BeginsAwaits
<1>3. \A p : Used(p)' <=> Used(p)
  BY <1>1 DEF Used, InUse, NodeIsSwitch
<1>4. OwnPair'
  BY <1>1 DEF OwnPair, At, Returned
<1>5. PairsStand'
  <2>1. \A p \in veths' : Standing(p)' =>
            Used(p)' /\ \A q \in veths' : q.id = p.id => q = p
    BY <1>1, <1>3
  <2> QED  BY <2>1 DEF PairsStand
<1>6. ASSUME NEW l \in LinkId, l \in LinksOf(d), Awaits("DestroyLink", l)'
      PROVE  LinkOp("CreateLink", l) \in todo'
  <2>1. l \in Rebuilt(d, actual)
    BY <1>2, <1>6 DEF UnwantedLinks
  <2> QED  BY <1>2, <2>1 DEF LinkOp
<1>7. ASSUME NEW l \in LinkId, l \notin LinksOf(actual), NEW p \in veths, p.id = l
      PROVE  ~ Standing(p)'
  <2>1. \A e \in End : p.stage[e] \notin Tagged
    BY <1>7, ReadingLinks
  <2>2. ~ Used(p)
    BY <2>1, UsedFacts DEF Tagged, End
  <2> QED  BY <2>2
<1>8. ASSUME NEW l \in LinkId, ~ Awaits("DestroyLink", l)',
             Awaits("CreateLink", l)' \/ l \notin LinksOf(d)
      PROVE  l \notin LinksOf(actual)
  BY <1>2, <1>8 DEF MissingLinks, UnwantedLinks
<1>9. ASSUME NEW l \in LinkId, l \in LinksOf(d), ~ Awaits("CreateLink", l)'
      PROVE  \E p \in veths : Realises(p, l)' /\ ~ Doomed(p)'
  <2>1. /\ l \in LinksOf(actual) /\ endpointsEqual(d.links[l], actual.links[l])
        /\ \A ep \in EndsOf(d.links[l]) : ep.node \notin Recreated(d, actual)
    BY <1>2, <1>9 DEF MissingLinks, Rebuilt
  <2>2. PICK p \in veths : /\ p.id = l /\ p.link = actual.links[l]
                           /\ \A e \in End : p.stage[e] # "root"
    BY <2>1, ReadingLinks
  <2>3. p.link \in Link
    BY DEF MachineType, Pair
  <2>4. ASSUME NEW e \in End
        PROVE  ~ Awaits("DestroyNode", p.link[e].node)'
    <3>1. /\ p.link[e].node \in NodesOf(d)
          /\ \E ep \in EndsOf(d.links[l]) : ep.node = p.link[e].node
      BY <1>9, <2>1, <2>2, <2>3, EndsAreWanted
    <3>2. p.link[e].node \notin Recreated(d, actual) \cup Unwanted(d, actual)
      BY <2>1, <3>1 DEF Unwanted
    <3> PICK n : n = p.link[e].node
      OBVIOUS
    <3>3. ~ Awaits("DestroyNode", n)'
      BY <1>2, <3>2
    <3> QED  BY <3>3 DEF Awaits
  <2>5. ~ Doomed(p)'
    BY <2>4 DEF Doomed
  <2>6. Used(p)
    BY <2>2, <2>5
  <2>7. endpointsEqual(p.link, d.links[l])
    BY <2>1, <2>2, EndpointsEqualFacts
  <2>8. Realises(p, l)'
    BY <1>1, <1>3, <2>2, <2>6, <2>7 DEF Realises
  <2> QED  BY <2>5, <2>8
<1>10. PairsAsPlanned'
  BY <1>1, <1>6, <1>7, <1>8, <1>9 DEF PairsAsPlanned, LinksOf
<1> QED  BY <1>4, <1>5, <1>10

LEMMA BeginsSmooth ==
    ASSUME ContractInv, NodesInv, SmoothInv, Smooth, NEW d \in Desired, Begins(d)
    PROVE  GoodAfter
<1>1. /\ \A n \in NodeId : container[n] # None => Runs(n)
      /\ \A p \in veths : Used(p)
      /\ \A p, q \in veths : p.id = q.id => p = q
  BY DEF SmoothInv, Begins
<1>2. Returned' /\ UNCHANGED <<container, symlink, veths, call>>
  BY BeginsAwaits
<1>3. OwnPair' /\ PairsStand' /\ PairsAsPlanned'
  BY <1>1, BeginsGoodPairs
<1>4. NodesRun'
  BY <1>1, <1>2 DEF NodesRun, Runs, Opens, At, Returned
<1> QED  BY <1>3, <1>4 DEF GoodAfter

\* When every node is created anew, every container there was is to be destroyed, and
\* every pair with an end in one is doomed.
LEMMA BeginsAllNew ==
    ASSUME ContractInv, NodesInv, NEW d \in Desired, Begins(d), AllNew'
    PROVE  GoodAfter
<1> USE Facts
<1>1. /\ Returned' /\ desired' = d /\ built' = {}
      /\ UNCHANGED <<container, symlink, veths, call>>
  BY BeginsAwaits
<1>2. PICK actual \in Readings :
         /\ \A k, x : Awaits(k, x)' <=> [kind |-> k, id |-> x] \in todo'
         /\ \A x : /\ Awaits("DestroyNode", x)' <=>
                         x \in Recreated(d, actual) \cup Unwanted(d, actual)
                   /\ Awaits("CreateNode", x)' <=>
                         x \in Missing(d, actual) \cup Recreated(d, actual)
  BY BeginsAwaits
<1>3. ASSUME NEW n \in NodeId, container[n] # None
      PROVE  Awaits("DestroyNode", n)'
  <2>1. n \in NodesOf(actual)
    BY <1>3, ReadingNodes
  <2>2. CASE n \in NodesOf(d)
    <3>1. Awaits("CreateNode", n)'
      BY <1>1, <1>2, <2>2 DEF AllNew, NodeOp, NodesOf
    <3> QED  BY <1>2, <2>1, <3>1 DEF Missing
  <2>3. CASE n \notin NodesOf(d)
    BY <1>2, <2>1, <2>3 DEF Unwanted
  <2> QED  BY <2>2, <2>3
<1>4. ASSUME NEW p \in veths, ~ Bare(p)
      PROVE  Doomed(p)'
  <2>1. PICK e \in End : p.stage[e] # "root"
    BY <1>4 DEF Bare
  <2> PICK n : n = p.link[e].node
    OBVIOUS
  <2>2. Awaits("DestroyNode", n)'
    BY <1>3, <2>1, EndIsInContainer
  <2>3. Awaits("DestroyNode", p.link[e].node)'
    BY <2>2 DEF Awaits
  <2> QED  BY <2>1, <2>3 DEF Doomed
<1>5. \A p \in veths : ~ Standing(p)'
  BY <1>4 DEF Standing, Bare
<1>6. \A p \in veths : (\A e \in End : p.stage[e] # "root") => Doomed(p)'
  BY <1>4 DEF Bare, End
<1>7. OwnPair' /\ PairsStand' /\ PairsAsPlanned'
  BY <1>5, <1>6, BeginsGoodPairs
<1>8. NodesRun'
  BY <1>1, <1>3 DEF NodesRun, At, Returned
<1> QED  BY <1>7, <1>8 DEF GoodAfter

LEMMA GoodInvStep ==
    ASSUME ContractInv, NodesInv, GoodInv, SmoothInv, PodmanCycleNext
    PROVE  GoodInv'
<1>1. ASSUME NEW d \in Desired, Begins(d), Good'
      PROVE  GoodAfter
  <2>1. Smooth' => Smooth
    BY <1>1, BeginsAwaits DEF Smooth
  <2> QED  BY <1>1, <2>1, BeginsSmooth, BeginsAllNew DEF Good
<1>2. ASSUME NEW o \in todo, CallsNext(o), Good'
      PROVE  GoodAfter
  <2>1. Good
    BY <1>2, GoodGoesOn
  <2> QED  BY <1>2, <2>1, CallsGood DEF Good, GoodInv
<1>3. ASSUME Drives, Good'
      PROVE  GoodAfter
  <2>1. Good
    BY <1>3, GoodGoesOn
  <2> QED  BY <1>3, <2>1, DrivesGood DEF Good, GoodInv, GoodBefore
<1>4. CASE HalfBlind \/ CallFails \/ Ends \/ ProcessDies \/ Stops \/ MachineReboots
  BY <1>4 DEF HalfBlind, BeginsHalfBlind, CallFails, Ends, ProcessDies, Stops, MachineReboots,
              Undisturbed, GoodInv, Good
<1> QED  BY <1>1, <1>2, <1>3, <1>4 DEF PodmanCycleNext, HalfBlind, GoodInv, GoodAfter

-----------------------------------------------------------------------------
(* While nothing goes wrong.                                               *)

\* A good cycle leaves no pair behind in the root namespace.
LEMMA DrivesLeavesNothing ==
    ASSUME GoodBefore, GoodAfter, \A p \in veths : Bare(p) => Wiring(p.id),
           NEW q \in veths', Bare(q)
    PROVE  Wiring(q.id)'
<1> USE GoodBeforeFacts
<1>1. ASSUME ~ \E l : Wiring(l), veths' \subseteq veths
      PROVE  FALSE
  BY <1>1 DEF Bare
<1>2. CASE \/ CreatesContainer \/ StartsContainer \/ LinksNamespace
           \/ RemovesContainer \/ RemovesSymlink \/ FindsEnds \/ DeletesPair
           \/ SetsForwardingAndRoutes
  BY <1>1, <1>2
  DEF CreatesContainer, StartsContainer, LinksNamespace, RemovesContainer, RemovesSymlink,
      FindsEnds, DeletesPair, SetsForwardingAndRoutes, At, Wiring
<1>3. CASE SetsAddresses
  <2>1. \E p \in veths : q.stage = p.stage
    <3>1. call.arg \in Node /\ call.id \in NodeId
      BY <1>3 DEF SetsAddresses, At, CallType, NodeOpKind
    <3> QED  BY <1>3, <3>1, AddressedFacts DEF SetsAddresses, MachineType
  <2>2. \E p \in veths : Bare(p)
    BY <2>1 DEF Bare
  <2> QED  BY <1>3, <2>2 DEF SetsAddresses, At, Wiring
<1>4. CASE AddsPair
  <2>1. call.kind = "CreateLink" /\ call.pc = "add"
    BY <1>4 DEF AddsPair, At
  <2>2. q \notin veths
    BY <2>1 DEF Wiring
  <2>3. /\ q = NewPair(call.id, call.arg)
        /\ call' = [call EXCEPT !.pc = "move", !.end = 1]
    BY <1>4, <2>2 DEF AddsPair
  <2>4. call'.pc = "move" /\ q.id = call.id
    BY <2>3 DEF CallType, NewPair
  <2> QED  BY <2>1, <2>4 DEF Wiring
<1>5. CASE MovesEnd \/ TagsEnd \/ RaisesEnd \/ JoinsBridge
  <2>1. call.kind = "CreateLink" /\ call.pc \in {"move", "tag", "up", "port"}
    BY <1>5 DEF MovesEnd, TagsEnd, RaisesEnd, JoinsBridge, At
  <2>2. q.id = call.id
    <3>1. CASE q \in veths
      BY <3>1 DEF Wiring
    <3>2. CASE q \notin veths
      <4>1. \E p \in veths : \E s : p.id = call.id /\ q = [p EXCEPT !.stage[call.end] = s]
        BY <1>5, <3>2
        DEF MovesEnd, TagsEnd, RaisesEnd, JoinsBridge, Reaches, EndsInRoot, EndsInside
      <4> QED  BY <4>1 DEF MachineType, Pair
    <3> QED  BY <3>1, <3>2
  <2>3. call'.pc \in Pc \ {"begin", "start", "symlink", "unlink", "settings", "add"}
    <3>1. CASE MovesEnd
      <4>1. CASE Goes("err")
        BY <4>1, GoesFacts DEF Pc
      <4>2. CASE call' = [call EXCEPT !.end = 2]
        BY <2>1, <4>2 DEF CallType, Pc
      <4>3. CASE call' = [call EXCEPT !.pc = "tag", !.end = 1]
        BY <4>3 DEF CallType, Pc
      <4> QED  BY <3>1, <4>1, <4>2, <4>3 DEF MovesEnd
    <3>2. CASE TagsEnd \/ RaisesEnd \/ JoinsBridge
      BY <3>2, GoesFacts, EndIsDoneFacts DEF TagsEnd, RaisesEnd, JoinsBridge, Pc
    <3> QED  BY <1>5, <3>1, <3>2
  <2>4. CASE Returned'
    <3>1. call.id \in LinkId /\ call.id \in LinksOf(desired)
      BY <2>1, LinkCalled
    <3> PICK c \in LinkId : c = call.id
      BY <3>1
    <3>2. ~ Awaits("CreateLink", c)'
      BY <2>1, GoodAwaits
    <3>3. \E p \in veths' : Realises(p, c)' /\ ~ Doomed(p)'
      BY <2>4, <3>1, <3>2 DEF GoodAfter, PairsAsPlanned, LinksOf
    <3>4. PICK p \in veths' : p.id = c /\ Used(p)' /\ ~ Doomed(p)'
      BY <3>3 DEF Realises
    <3>5. ~ Bare(p)
      BY <3>4 DEF Used, InUse, Bare, End
    <3>6. Standing(p)'
      BY <3>4, <3>5 DEF Standing, Bare
    <3>7. \A r \in veths' : r.id = p.id => r = p
      BY <3>6 DEF GoodAfter, PairsStand
    <3> QED  BY <2>2, <3>4, <3>5, <3>7
  <2>5. CASE ~ Returned'
    BY <2>1, <2>2, <2>3, <2>5 DEF Wiring, Returned, Pc
  <2> QED  BY <2>4, <2>5
<1> QED  BY <1>2, <1>3, <1>4, <1>5 DEF DriverStep

\* At the end nothing is awaited, and so nothing is doomed.
LEMMA WhenDone ==
    ASSUME Done
    PROVE  /\ \A k, x : ~ Awaits(k, x)
           /\ \A p : ~ Doomed(p)
           /\ \A l : ~ Wiring(l)
           /\ \A n : ~ Starting(n)
BY DEF Done, Awaits, At, Returned, Doomed, Wiring, Starting

LEMMA EndsSmooth ==
    ASSUME GoodInv, SmoothInv, Smooth, Done
    PROVE  /\ \A n \in NodeId : container[n] # None => Runs(n)
           /\ \A p \in veths : Used(p)
           /\ \A p, q \in veths : p.id = q.id => p = q
<1>1. NodesRun /\ PairsStand
  BY DEF GoodInv, SmoothInv, Good, Undisturbed, Done
<1>2. \A n \in NodeId : container[n] # None => Runs(n)
  BY <1>1, WhenDone DEF NodesRun
<1>3. \A p \in veths : Standing(p)
  BY WhenDone DEF SmoothInv, Standing
<1>4. \A p \in veths : Used(p) /\ \A q \in veths : q.id = p.id => q = p
  BY <1>1, <1>3, WhenDone DEF PairsStand
<1> QED  BY <1>2, <1>4

LEMMA SmoothInvStep ==
    ASSUME ContractInv, NodesInv, GoodInv, GoodInv', SmoothInv, PodmanCycleNext
    PROVE  SmoothInv'
<1> USE Facts
<1>1. ASSUME NEW d \in Desired, Begins(d), Smooth'
      PROVE  SmoothInv'
  <2>1. UNCHANGED <<veths, faults, disturbances>> /\ at' = "apply" /\ clean' = TRUE /\ at = "idle"
    BY <1>1, BeginsAwaits DEF Begins
  <2>2. \A p \in veths : ~ Bare(p)
    BY <1>1, <2>1, UsedFacts DEF SmoothInv, Smooth
  <2>3. \A p \in veths' : ~ Bare(p)'
    BY <2>1, <2>2 DEF Bare
  <2> QED  BY <2>1, <2>3 DEF SmoothInv
<1>2. ASSUME NEW o \in todo, CallsNext(o), Smooth'
      PROVE  SmoothInv'
  <2>1. /\ veths' = veths /\ faults' = faults /\ disturbances' = disturbances
        /\ at = "apply" /\ at' = at /\ clean' = clean /\ Returned
    BY <1>2 DEF CallsNext, Calls, machineVars
  <2>2. \A p \in veths : ~ Bare(p)
    BY <1>2, <2>1 DEF SmoothInv, Smooth, Wiring, Returned
  <2>3. \A p \in veths' : ~ Bare(p)'
    BY <2>1, <2>2 DEF Bare
  <2> QED  BY <1>2, <2>1, <2>3 DEF SmoothInv, Smooth
<1>3. ASSUME Drives, Smooth'
      PROVE  SmoothInv'
  <2>1. Smooth /\ at = "apply" /\ at' = at /\ clean' = clean /\ clean
    BY <1>3, DriverStepFacts DEF Drives, cycleVars, Smooth, SmoothInv
  <2>2. GoodBefore
    BY <1>3, <2>1 DEF GoodBefore, GoodInv, Good, Undisturbed
  <2>3. GoodAfter
    BY <2>2, DrivesGood
  <2>4. \A q \in veths' : Bare(q) => Wiring(q.id)'
    BY <2>1, <2>2, <2>3, DrivesLeavesNothing DEF SmoothInv
  <2>5. \A q \in veths' : Bare(q)' => Wiring(q.id)'
    BY <2>4 DEF Bare
  <2> QED  BY <2>1, <2>5 DEF SmoothInv
<1>4. ASSUME Ends, Smooth'
      PROVE  SmoothInv'
  <2>1. Smooth /\ Done /\ UNCHANGED <<container, symlink, veths>> /\ at' = "idle"
    BY <1>4 DEF Ends, Smooth, podmanVars, machineVars
  <2>2. /\ \A n \in NodeId : container[n] # None => Runs(n)
        /\ \A p \in veths : Used(p)
        /\ \A p, q \in veths : p.id = q.id => p = q
    BY <2>1, EndsSmooth
  <2>3. /\ \A n \in NodeId : container'[n] # None => Runs(n)'
        /\ \A p \in veths' : Used(p)' /\ ~ Bare(p)'
    BY <2>1, <2>2, UsedFacts DEF Runs, Opens, Used, InUse, NodeIsSwitch, Bare
  <2> QED  BY <2>1, <2>2, <2>3 DEF SmoothInv
<1>5. CASE HalfBlind \/ CallFails \/ ProcessDies \/ Stops \/ MachineReboots
  <2>1. faults' = faults + 1 \/ disturbances' = disturbances + 1
    BY <1>5 DEF HalfBlind, BeginsHalfBlind, CallFails, ProcessDies, Stops, MachineReboots,
                Abandons, ContainerStops, Reboots
  <2>2. faults \in Nat /\ disturbances \in Nat
    BY DEF PodmanInv
  <2>3. faults' # 0 \/ disturbances' # 0
    BY <2>1, <2>2
  <2> QED  BY <2>3 DEF SmoothInv, Smooth
<1>6. ~ Smooth' => SmoothInv'
  BY DEF SmoothInv
<1> QED  BY <1>1, <1>2, <1>3, <1>4, <1>5, <1>6 DEF PodmanCycleNext, HalfBlind

-----------------------------------------------------------------------------
(* The addresses of new nodes.                                             *)

\* Only UpdateNodeConfig sets addresses, and on ends with a tag.
LEMMA UntaggedStays ==
    ASSUME ContractInv, UntaggedHasNone, PodmanCycleNext
    PROVE  UntaggedHasNone'
<1> USE Facts
<1>1. ASSUME veths' \subseteq veths
      PROVE  UntaggedHasNone'
  BY <1>1 DEF UntaggedHasNone
<1>2. CASE AddsPair
  BY <1>2, <1>1 DEF AddsPair, UntaggedHasNone, NewPair
<1>3. CASE MovesEnd
  <2>1. CASE veths' = veths
    BY <1>1, <2>1
  <2>2. ASSUME NEW p \in EndsInRoot(call.id, call.end),
               veths' = (veths \ {p}) \cup {[p EXCEPT !.stage[call.end] = "moved"]}
        PROVE  UntaggedHasNone'
    <3>1. p \in veths /\ p \in Pair /\ p.stage[call.end] = "root"
      BY <2>2 DEF EndsInRoot, MachineType
    <3>2. p.addr[call.end] = {}
      BY <3>1 DEF UntaggedHasNone, Tagged, CallType
    <3>3. /\ [p EXCEPT !.stage[call.end] = "moved"].addr = p.addr
          /\ \A f \in End : [p EXCEPT !.stage[call.end] = "moved"].stage[f]
                                = IF f = call.end THEN "moved" ELSE p.stage[f]
      BY <3>1 DEF Pair
    <3> QED  BY <2>2, <3>1, <3>2, <3>3 DEF UntaggedHasNone
  <2> QED  BY <1>3, <2>1, <2>2 DEF MovesEnd
<1>4. ASSUME NEW s \in Tagged, Reaches(s)
      PROVE  UntaggedHasNone'
  <2>1. PICK p \in EndsInside(call.id, call.end, call.arg[call.end].node) :
           veths' = (veths \ {p}) \cup {[p EXCEPT !.stage[call.end] = s]}
    BY <1>4 DEF Reaches
  <2>2. p \in veths /\ p \in Pair
    BY <2>1 DEF EndsInside, MachineType
  <2>3. /\ [p EXCEPT !.stage[call.end] = s].addr = p.addr
        /\ \A f \in End : [p EXCEPT !.stage[call.end] = s].stage[f]
                              = IF f = call.end THEN s ELSE p.stage[f]
    BY <2>2 DEF Pair
  <2> QED  BY <2>1, <2>2, <2>3 DEF UntaggedHasNone
<1>5. CASE SetsAddresses
  <2>1. ASSUME NEW p \in veths, NEW e \in End,
               Addressed(p, call.id, call.arg).stage[e] \notin Tagged
        PROVE  Addressed(p, call.id, call.arg).addr[e] = {}
    <3>1. p \in Pair /\ Addressed(p, call.id, call.arg).stage = p.stage
      BY DEF MachineType, Addressed, Pair
    <3>2. p.addr[e] = {} /\ p.stage[e] \notin Tagged
      BY <2>1, <3>1 DEF UntaggedHasNone
    <3> QED  BY <3>1, <3>2 DEF Addressed, Pair
  <2> QED  BY <1>1, <1>5, <2>1 DEF SetsAddresses, UntaggedHasNone
<1>6. CASE DriverStep
  BY <1>1, <1>2, <1>3, <1>4, <1>5, <1>6
  DEF DriverStep, CreatesContainer, StartsContainer, LinksNamespace, RemovesContainer,
      RemovesSymlink, FindsEnds, TagsEnd, RaisesEnd, JoinsBridge, DeletesPair,
      SetsForwardingAndRoutes, Tagged
<1>7. ~ DriverStep => veths' \subseteq veths
  BY DEF PodmanCycleNext, Begins, BeginsHalfBlind, CallsNext, Calls, Drives, CallFails, Ends,
         ProcessDies, Stops, MachineReboots, Abandons, ContainerStops, Reboots, podmanVars, machineVars
<1> QED  BY <1>1, <1>6, <1>7

LEMMA BeginsNew ==
    ASSUME ContractInv, NodesInv, NEW d \in Desired, Begins(d)
    PROVE  NewNodes'
<1>1. Returned' /\ desired' = d /\ built' = {}
  BY BeginsAwaits
<1>2. PICK actual \in Readings :
         /\ \A k, x : Awaits(k, x)' <=> [kind |-> k, id |-> x] \in todo'
         /\ \A x : /\ Awaits("CreateNode", x)' <=>
                         x \in Missing(d, actual) \cup Recreated(d, actual)
                   /\ Awaits("UpdateNodeConfig", x)' <=> x \in Updated(d, actual)
  BY BeginsAwaits
<1>3. ASSUME NEW n \in NodeId, NodeOp("CreateNode", n) \in todo'
      PROVE  ConfigPlanned(n)'
  <2>1. n \in Missing(d, actual) \cup Recreated(d, actual)
    BY <1>2, <1>3 DEF NodeOp
  <2>2. n \in NodesOf(d)
    BY <2>1 DEF Missing, Recreated
  <2>3. Awaits("UpdateNodeConfig", n)' <=> needsConfigApply(d.nodes[n])
    BY <1>2, <2>1 DEF Updated, Missing
  <2> QED  BY <1>1, <2>2, <2>3 DEF ConfigPlanned, Configured, NodesOf
<1> QED  BY <1>1, <1>3 DEF NewNodes, At, Returned

LEMMA CallsNew ==
    ASSUME ContractInv, NodesInv, Undisturbed, NewNodes, NEW o \in todo, CallsNext(o)
    PROVE  NewNodes'
<1>1. /\ CycleInv /\ Returned
      /\ container' = container /\ symlink' = symlink /\ veths' = veths
      /\ desired' = desired /\ todo' = todo \ {o}
      /\ call'.kind = o.kind /\ call'.id = o.id /\ call'.pc = "begin"
      /\ built' = IF o.kind = "CreateNode" THEN built \cup {o.id} ELSE built
  BY DEF CallsNext, Calls, machineVars, ContractInv
<1>2. \A k, x : /\ Awaits(k, x)' <=> Awaits(k, x)
                /\ Awaits(k, x) <=> [kind |-> k, id |-> x] \in todo
  BY <1>1, AwaitsAsCalled
<1>3. o = [kind |-> o.kind, id |-> o.id]
  BY <1>1 DEF CycleInv, OpSet
<1>4. \A n : Configured(n)' <=> Configured(n)
  BY <1>1, <1>2 DEF Configured
<1>5. ASSUME NEW n \in NodeId, NodeOp("CreateNode", n) \in todo' \/ n \in built'
      PROVE  ConfigPlanned(n)'
  <2>1. ConfigPlanned(n)
    BY <1>1, <1>3, <1>5 DEF NewNodes, NodeOp
  <2>2. Configured(n) => o.kind = "UpdateNodeConfig"
    BY <2>1 DEF ConfigPlanned
  <2> QED  BY <1>1, <1>2, <1>4, <2>1, <2>2 DEF ConfigPlanned, NodesOf
<1>6. \A n : ~ Starting(n)' /\ ~ Starting(n) /\ ~ Configures(n)' /\ ~ Configures(n)
  BY <1>1 DEF Starting, Configures, At, Returned
<1>7. ASSUME NEW n \in built
      PROVE  AsBuilt(n)'
  <2>1. AsBuilt(n)
    BY DEF NewNodes
  <2>2. /\ Runs(n)' <=> Runs(n)
        /\ Addresses(n)' <=> Addresses(n)
        /\ Settings(n)' <=> Settings(n)
        /\ Plain(n)' <=> Plain(n)
    BY <1>1, <1>6 DEF Runs, Opens, Addresses, Settings, Plain
  <2> QED  BY <1>1, <1>2, <1>4, <1>6, <2>1, <2>2 DEF AsBuilt
<1>8. ASSUME o.kind = "CreateNode", NEW n, n = o.id
      PROVE  AsBuilt(n)'
  <2>1. [kind |-> "DestroyNode", id |-> n] \notin todo
    <3>1. \A p \in todo : p.kind # "DestroyNode"
      BY <1>1, <1>8, CalledFirst, PhaseFacts
    <3> QED  BY <3>1
  <2>2. Awaits("CreateNode", n) /\ NodeOp("CreateNode", n) = o
    BY <1>2, <1>3, <1>8 DEF NodeOp
  <2> QED  BY <1>1, <1>2, <1>6, <2>1, <2>2 DEF AsBuilt
<1>9. (At("CreateNode", "begin") => call.id \in built)'
  BY <1>1 DEF At
<1> QED  BY <1>1, <1>5, <1>7, <1>8, <1>9 DEF NewNodes

-----------------------------------------------------------------------------
(* A driver step of a clean cycle, and the new nodes.                      *)

NewBefore ==
    /\ ContractInv /\ NodesInv
    /\ Undisturbed /\ Drives
    /\ UntaggedHasNone /\ NewNodes

LEMMA NewBeforeFacts ==
    ASSUME NewBefore
    PROVE  /\ ContractInv /\ CycleInv /\ PodmanInv /\ MachineType /\ CallType
           /\ DriverStep /\ InOrder /\ ContainersAsPlanned /\ ~ Returned
           /\ todo' = todo /\ desired' = desired /\ built' = built
           /\ call'.kind = call.kind /\ call'.id = call.id /\ call'.arg = call.arg
           /\ call'.pc # "begin"
           /\ \A n \in built : n \in NodeId /\ AsBuilt(n) /\ ConfigPlanned(n)
BY InTheMethod, Facts, DriverStepFacts DEF NewBefore, ContractInv, CycleInv, NewNodes

LEMMA NewAwaits ==
    ASSUME NewBefore, NEW k, NEW x
    PROVE  /\ Awaits(k, x)' <=> [kind |-> k, id |-> x] \in todo
           /\ call.kind # k \/ call.id # x \/ call.pc # "begin" =>
                 (Awaits(k, x)' <=> Awaits(k, x))
           /\ call.kind = k /\ call.id = x => ~ Awaits(k, x)'
BY InTheMethod DEF NewBefore

\* Config is applied when nothing else is left to do.
LEMMA ConfigIsLast ==
    ASSUME CycleInv, InOrder, call.kind = "UpdateNodeConfig", NEW o \in todo
    PROVE  o.kind = "UpdateNodeConfig"
<1>1. phase(call.kind) <= phase(o.kind) /\ o.kind \in OpKind
  BY DEF InOrder, CycleInv, OpSet, OpKind
<1> QED  BY <1>1, PhaseFacts DEF OpKind, NodeOpKind, LinkOpKind

LEMMA DrivesKeepsConfigPlan ==
    ASSUME NewBefore, NEW n \in NodeId, NodeOp("CreateNode", n) \in todo \/ n \in built
    PROVE  ConfigPlanned(n)'
<1> USE NewBeforeFacts
<1>1. ConfigPlanned(n)
  BY DEF NewBefore, NewNodes
<1>2. Awaits("UpdateNodeConfig", n)' => Awaits("UpdateNodeConfig", n)
  BY NewAwaits DEF Awaits
<1>3. ASSUME Configured(n)', ~ Configured(n)
      PROVE  /\ n \in built
             /\ call.kind = "UpdateNodeConfig"
             /\ \A o \in todo : o.kind = "UpdateNodeConfig"
  <2>1. call.kind = "UpdateNodeConfig"
    BY <1>3, NewAwaits DEF Configured
  <2>2. \A o \in todo : o.kind = "UpdateNodeConfig"
    BY <2>1, ConfigIsLast
  <2>3. NodeOp("CreateNode", n) \notin todo
    BY <2>2 DEF NodeOp
  <2> QED  BY <2>1, <2>2, <2>3
<1> QED  BY <1>1, <1>2, <1>3 DEF ConfigPlanned, NodesOf

\* A method on another node, or on a link, leaves a new node what it is.
LEMMA OthersLeaveAsBuilt ==
    ASSUME NewBefore, NEW n \in built,
           call.kind \in {"CreateNode", "UpdateNodeConfig"} => call.id # n,
           Runs(n) => Runs(n)',
           ~ Awaits("CreateNode", n) =>
               IF Configured(n) THEN Addresses(n)' /\ container'[n].settings = container[n].settings
                                ELSE Plain(n)'
    PROVE  AsBuilt(n)'
<1> USE NewBeforeFacts
<1>1. AsBuilt(n)
  OBVIOUS
<1>2. /\ Awaits("CreateNode", n)' <=> Awaits("CreateNode", n)
      /\ Awaits("UpdateNodeConfig", n)' <=> Awaits("UpdateNodeConfig", n)
      /\ Awaits("DestroyNode", n)' => Awaits("DestroyNode", n)
  BY NewAwaits DEF Awaits
<1>3. ~ Starting(n) /\ ~ Starting(n)' /\ ~ Configures(n) /\ ~ Configures(n)'
  BY DEF Starting, Configures, At
<1>4. Configured(n)' <=> Configured(n)
  BY <1>2 DEF Configured
<1>5. Configured(n) /\ ~ Awaits("CreateNode", n) => Settings(n)'
  BY <1>1, <1>3 DEF AsBuilt, Settings
<1> QED  BY <1>1, <1>2, <1>3, <1>4, <1>5 DEF AsBuilt

\* Outside UpdateNodeConfig no new node has its config yet; outside CreateNode, all of
\* them run.
LEMMA BeforeConfig ==
    ASSUME NewBefore, NEW n \in built
    PROVE  /\ call.kind # "UpdateNodeConfig" => ~ Configured(n) /\ ~ Configured(n)'
           /\ call.kind # "CreateNode" \/ call.id # n =>
                 /\ ~ Awaits("CreateNode", n) /\ ~ Starting(n) /\ Runs(n)
                 /\ ~ Configured(n) => Plain(n)
<1> USE NewBeforeFacts
<1>1. call.kind # "UpdateNodeConfig" => ~ Configured(n) /\ ~ Configured(n)'
  BY NewAwaits DEF ConfigPlanned, Configured
<1>2. ASSUME call.kind # "CreateNode" \/ call.id # n
      PROVE  ~ Awaits("CreateNode", n) /\ ~ Starting(n)
  BY <1>2 DEF AsBuilt, Awaits, At, NodeOp, Starting
<1> QED  BY <1>1, <1>2 DEF AsBuilt

LEMMA CreateNodeNew ==
    ASSUME NewBefore, NEW n \in built,
           CreatesContainer \/ StartsContainer \/ LinksNamespace
    PROVE  AsBuilt(n)'
<1> USE NewBeforeFacts
<1>1. call.kind = "CreateNode" /\ call.id \in NodeId /\ veths' = veths
  BY DEF CreatesContainer, StartsContainer, LinksNamespace, At, CallType, NodeOpKind
<1>2. CASE n # call.id
  <2>1. container'[n] = container[n] /\ symlink'[n] = symlink[n]
    BY <1>1, <1>2 DEF CreatesContainer, StartsContainer, LinksNamespace, MachineType
  <2>2. (Runs(n) => Runs(n)') /\ (Plain(n) => Plain(n)')
    BY <1>1, <2>1 DEF Runs, Opens, Plain
  <2> QED  BY <1>1, <1>2, <2>2, BeforeConfig, OthersLeaveAsBuilt
<1>3. CASE n = call.id
  <2>1. /\ ~ Awaits("CreateNode", n)' /\ ~ Configures(n)'
        /\ ~ Configured(n) /\ ~ Configured(n)'
        /\ Awaits("DestroyNode", n)' => Awaits("DestroyNode", n)
    BY <1>1, <1>3, NewAwaits, BeforeConfig DEF Configures, At, Awaits
  <2>2. Starting(n) <=> call.pc \in {"start", "symlink"}
    BY <1>1, <1>3 DEF Starting
  <2>3. Starting(n)' <=> call'.pc \in {"start", "symlink"}
    BY <1>1, <1>3 DEF Starting
  <2>4. AsBuilt(n)
    OBVIOUS
  <2>5. CASE CreatesContainer
    <3>1. Awaits("CreateNode", n) /\ ~ Awaits("DestroyNode", n)
      BY <1>1, <1>3, <2>4, <2>5 DEF CreatesContainer, Awaits, At, AsBuilt
    <3>2. container[n] = None
      BY <3>1 DEF ContainersAsPlanned
    <3>3. /\ container' = [container EXCEPT ![n] =
                              [label |-> call.arg, running |-> FALSE, settings |-> {}]]
          /\ call'.pc = "start"
      BY <1>3, <2>5, <3>2, GoesFacts DEF CreatesContainer, Pc
    <3>4. container'[n].settings = {}
      BY <3>3 DEF MachineType
    <3>5. Plain(n)'
      BY <1>1, <3>2, <3>4, EndIsInContainer DEF Plain, Inside
    <3> QED  BY <2>1, <2>3, <2>4, <3>3, <3>5 DEF AsBuilt
  <2>6. CASE StartsContainer
    <3>1. call.pc = "start" /\ container[n] \in Container
      BY <1>1, <1>3, <2>6
      DEF StartsContainer, At, PodmanInv, ContainersAreThere, MachineType
    <3>2. container' = [container EXCEPT ![n].running = TRUE] /\ call'.pc = "symlink"
      BY <1>3, <2>6, GoesFacts DEF StartsContainer, Pc
    <3>3. container'[n].running /\ container'[n].settings = container[n].settings
      BY <3>1, <3>2 DEF MachineType, Container
    <3>4. ~ Awaits("CreateNode", n)
      BY <2>1, <3>1, NewAwaits
    <3>5. Plain(n)'
      BY <1>1, <2>1, <2>4, <3>3, <3>4 DEF AsBuilt, Plain
    <3> QED  BY <2>1, <2>3, <2>4, <3>2, <3>3, <3>5 DEF AsBuilt
  <2>7. CASE LinksNamespace
    <3>1. call.pc = "symlink" /\ container[n] # None
      BY <1>1, <1>3, <2>7 DEF LinksNamespace, At, PodmanInv, ContainersAreThere
    <3>2. container[n].running
      BY <2>2, <2>4, <3>1 DEF AsBuilt
    <3>3. /\ container' = container /\ symlink' = [symlink EXCEPT ![n] = "live"]
          /\ call'.pc = "ok"
      BY <1>3, <2>7, <3>2, GoesFacts DEF LinksNamespace, Pc
    <3>4. Runs(n)'
      BY <3>1, <3>2, <3>3 DEF Runs, Opens, MachineType
    <3>5. ~ Awaits("CreateNode", n)
      BY <2>1, <3>1, NewAwaits
    <3>6. Plain(n)'
      BY <1>1, <2>1, <2>4, <3>3, <3>5 DEF AsBuilt, Plain
    <3> QED  BY <2>1, <2>3, <2>4, <3>3, <3>4, <3>6 DEF AsBuilt
  <2> QED  BY <2>5, <2>6, <2>7
<1> QED  BY <1>2, <1>3

LEMMA DestroyNodeNew ==
    ASSUME NewBefore, NEW n \in built, RemovesContainer \/ RemovesSymlink
    PROVE  AsBuilt(n)'
<1> USE NewBeforeFacts
<1>1. call.kind = "DestroyNode" /\ call.id \in NodeId /\ veths' \subseteq veths
  BY DEF RemovesContainer, RemovesSymlink, At, CallType, NodeOpKind
<1>2. ~ Awaits("DestroyNode", n) /\ Runs(n) /\ Plain(n)
  BY <1>1, BeforeConfig DEF AsBuilt
<1>3. n # call.id
  <2>1. CASE RemovesContainer
    BY <1>1, <1>2, <2>1 DEF RemovesContainer, Awaits, At
  <2>2. CASE RemovesSymlink
    BY <1>2, <2>2 DEF RemovesSymlink, ContractInv, MethodOnItsWay, Runs
  <2> QED  BY <2>1, <2>2
<1>4. container'[n] = container[n] /\ symlink'[n] = symlink[n]
  BY <1>1, <1>3 DEF RemovesContainer, RemovesSymlink, MachineType
<1>5. Runs(n)' /\ Plain(n)'
  BY <1>1, <1>2, <1>4 DEF Runs, Opens, Plain
<1> QED  BY <1>1, <1>5, BeforeConfig, OthersLeaveAsBuilt

LEMMA LinkStepNew ==
    ASSUME NewBefore, NEW n \in built, call.kind \in LinkOpKind,
           container' = container, symlink' = symlink,
           \A q \in veths' : \A e \in End :
               \/ q.stage[e] = "root"
               \/ q.addr[e] = {}
               \/ \E p \in veths : /\ p.link = q.link /\ p.addr = q.addr
                                   /\ p.stage[e] # "root"
    PROVE  AsBuilt(n)'
<1> USE NewBeforeFacts
<1>1. call.kind \notin NodeOpKind
  BY DEF NodeOpKind, LinkOpKind
<1>2. Runs(n) /\ Plain(n) /\ ~ Configured(n)
  BY <1>1, BeforeConfig DEF NodeOpKind
<1>3. Runs(n)'
  BY <1>2 DEF Runs, Opens
<1>4. \A q \in veths' : \A e \in End : Inside(q, e, n) => q.addr[e] = {}
  BY <1>2 DEF Plain, Inside
<1>5. Plain(n)'
  BY <1>2, <1>4 DEF Plain, Inside
<1> QED  BY <1>1, <1>2, <1>3, <1>5, OthersLeaveAsBuilt DEF NodeOpKind

\* CreateLink brings no address with it.
LEMMA LinkMethodsNew ==
    ASSUME NewBefore, NEW n \in built,
           \/ FindsEnds \/ AddsPair \/ MovesEnd \/ TagsEnd \/ RaisesEnd \/ JoinsBridge
           \/ DeletesPair
    PROVE  AsBuilt(n)'
<1> USE NewBeforeFacts
<1>1. call.kind \in LinkOpKind /\ container' = container /\ symlink' = symlink
  BY DEF FindsEnds, AddsPair, MovesEnd, TagsEnd, RaisesEnd, JoinsBridge, DeletesPair, At,
         LinkOpKind
<1> DEFINE Brings == \A q \in veths' : \A e \in End :
                        \/ q.stage[e] = "root"
                        \/ q.addr[e] = {}
                        \/ \E p \in veths : /\ p.link = q.link /\ p.addr = q.addr
                                            /\ p.stage[e] # "root"
<1>2. ASSUME veths' \subseteq veths  PROVE Brings
  BY <1>2
<1>3. ASSUME FindsEnds \/ DeletesPair  PROVE Brings
  BY <1>2, <1>3 DEF FindsEnds, DeletesPair
<1>4. ASSUME AddsPair  PROVE Brings
  BY <1>2, <1>4 DEF AddsPair, NewPair
<1>5. ASSUME NEW p \in veths, NEW e \in End, NEW s, p.stage[e] = "root" => p.addr[e] = {},
             veths' = (veths \ {p}) \cup {[p EXCEPT !.stage[e] = s]}
      PROVE  Brings
  <2>1. p \in Pair
    BY DEF MachineType
  <2>2. /\ [p EXCEPT !.stage[e] = s].link = p.link /\ [p EXCEPT !.stage[e] = s].addr = p.addr
        /\ \A f \in End : f # e => [p EXCEPT !.stage[e] = s].stage[f] = p.stage[f]
    BY <2>1 DEF Pair
  <2> QED  BY <1>5, <2>2
<1>6. ASSUME MovesEnd  PROVE Brings
  <2>1. ASSUME NEW p \in EndsInRoot(call.id, call.end),
               veths' = (veths \ {p}) \cup {[p EXCEPT !.stage[call.end] = "moved"]}
        PROVE  Brings
    <3>1. call.end \in End /\ p \in veths /\ p.stage[call.end] = "root"
      BY DEF CallType, EndsInRoot
    <3>2. p.addr[call.end] = {}
      BY <3>1 DEF NewBefore, UntaggedHasNone, Tagged
    <3> QED  BY <1>5, <2>1, <3>1, <3>2
  <2> QED  BY <1>2, <1>6, <2>1 DEF MovesEnd
<1>7. ASSUME NEW s, Reaches(s)  PROVE Brings
  <2>1. PICK p \in EndsInside(call.id, call.end, call.arg[call.end].node) :
           veths' = (veths \ {p}) \cup {[p EXCEPT !.stage[call.end] = s]}
    BY <1>7 DEF Reaches
  <2>2. call.end \in End /\ p \in veths /\ p.stage[call.end] # "root"
    BY DEF CallType, EndsInside, Inside
  <2> QED  BY <1>5, <2>1, <2>2
<1>8. ASSUME TagsEnd \/ RaisesEnd \/ JoinsBridge  PROVE Brings
  BY <1>7, <1>8 DEF TagsEnd, RaisesEnd, JoinsBridge
<1>9. Brings
  BY <1>3, <1>4, <1>6, <1>8
<1> QED  BY <1>1, <1>9, LinkStepNew

\* An end gets what its interface asks for, and the ends in other nodes get nothing.
LEMMA AddressesSet ==
    ASSUME NEW p \in Pair, NEW n \in NodeId, NEW node \in Node, NEW e \in End
    PROVE  LET q == Addressed(p, n, node)
           IN  /\ q.link = p.link /\ q.stage = p.stage
               /\ \A m : m # n /\ Inside(p, e, m) => q.addr[e] = p.addr[e]
               /\ /\ Inside(p, e, n) /\ p.stage[e] \in Tagged
                  /\ p.link[1].node # p.link[2].node
                  /\ p.addr[e] = {}
                  => q.addr[e] = ToSet(node.ifaces[p.link[e].iface])
<1> DEFINE q == Addressed(p, n, node)
<1>1. /\ q.link = p.link /\ q.stage = p.stage
      /\ q.addr[e] = IF Inside(p, e, n) /\ p.stage[e] \in Tagged
                     THEN p.addr[e] \cup ToSet(node.ifaces[IfaceOn(p.link, n)])
                     ELSE p.addr[e]
  BY DEF Addressed, Pair
<1>2. \A m : m # n /\ Inside(p, e, m) => ~ Inside(p, e, n)
  BY DEF Inside
<1>3. Inside(p, e, n) /\ p.link[1].node # p.link[2].node
         => IfaceOn(p.link, n) = p.link[e].iface
  BY DEF Inside, IfaceOn, End
<1> HIDE DEF q
<1> QED  BY <1>1, <1>2, <1>3 DEF q

LEMMA SetsAddressesNew ==
    ASSUME NewBefore, NEW n \in built, SetsAddresses
    PROVE  AsBuilt(n)'
<1> USE NewBeforeFacts
<1>1. /\ call.kind = "UpdateNodeConfig" /\ call.pc = "begin"
      /\ call.id \in NodeId /\ call.arg \in Node
      /\ container' = container /\ symlink' = symlink
  BY DEF SetsAddresses, At, CallType, NodeOpKind
<1>2. Runs(n) /\ Runs(n)' /\ ~ Awaits("CreateNode", n) /\ (~ Configured(n) => Plain(n))
  BY <1>1, BeforeConfig DEF Runs, Opens
<1>3. \A p \in veths : p \in Pair
  BY DEF MachineType
<1> PICK c \in NodeId : c = call.id
  BY <1>1
<1>4. CASE n # c
  <2>1. CASE veths' = veths
    <3>1. /\ Plain(n) => Plain(n)'
          /\ Configured(n) => Addresses(n)'
      BY <1>1, <1>2, <2>1 DEF Plain, Addresses, AsBuilt
    <3> QED  BY <1>1, <1>2, <1>4, <3>1, OthersLeaveAsBuilt
  <2>2. CASE veths' = {Addressed(p, c, call.arg) : p \in veths}
    <3>1. \A q \in veths' : \A e \in End : Inside(q, e, n) =>
              \E p \in veths : /\ q.link = p.link /\ q.stage = p.stage
                               /\ Inside(p, e, n) /\ q.addr[e] = p.addr[e]
      BY <1>1, <1>3, <1>4, <2>2, AddressesSet DEF Inside
    <3>2. Plain(n) => Plain(n)'
      BY <1>1, <3>1 DEF Plain, Inside
    <3>3. Addresses(n) => Addresses(n)'
      BY <3>1 DEF Addresses, Inside
    <3>4. Configured(n) => Addresses(n)
      BY <1>2 DEF AsBuilt
    <3> QED  BY <1>1, <1>2, <1>4, <3>2, <3>3, <3>4, OthersLeaveAsBuilt
  <2> QED  BY <2>1, <2>2 DEF SetsAddresses
<1>5. CASE n = c
  <2>1. Awaits("UpdateNodeConfig", n) /\ ~ Awaits("UpdateNodeConfig", n)'
    BY <1>1, <1>5, NewAwaits DEF Awaits, At
  <2>2. needsConfigApply(desired.nodes[n]) /\ ~ Configured(n) /\ Plain(n)
    BY <1>2, <2>1 DEF ConfigPlanned, Configured
  <2>3. call.arg = desired.nodes[n]
    BY <1>1, <1>5 DEF InOrder
  <2>4. /\ veths' = {Addressed(p, n, call.arg) : p \in veths}
        /\ call'.pc = "settings"
    BY <1>2, <1>5, <2>2, <2>3, GoesFacts DEF SetsAddresses, needsConfigApply, Runs, Pc
  <2>5. Configured(n)' /\ Configures(n)'
    BY <1>1, <1>5, <2>1, <2>2, <2>4 DEF Configured, Configures, At
  <2>6. Settings(n)'
    BY <1>1, <2>2, <2>5 DEF Settings, Plain
  <2>7. ASSUME NEW q \in veths', NEW e \in End, Inside(q, e, n), q.stage[e] \in Tagged,
               q.link[1].node # q.link[2].node
        PROVE  q.addr[e] = ToSet(desired.nodes[n].ifaces[q.link[e].iface])
    <3>1. PICK p \in veths : q = Addressed(p, n, call.arg)
      BY <2>4
    <3>2. q.link = p.link /\ q.stage = p.stage
      BY <1>1, <1>3, <1>5, <3>1, AddressesSet
    <3>3. Inside(p, e, n) /\ p.addr[e] = {}
      BY <2>2, <2>7, <3>2 DEF Inside, Plain
    <3> QED  BY <1>1, <1>3, <1>5, <2>3, <2>7, <3>1, <3>2, <3>3, AddressesSet
  <2>8. Addresses(n)'
    BY <2>7 DEF Addresses, Inside
  <2>9. ~ Starting(n)' /\ ~ Awaits("DestroyNode", n)' /\ NodeOp("CreateNode", n) \notin todo'
    BY <1>1, NewAwaits DEF AsBuilt, Starting, Awaits
  <2> QED  BY <1>2, <2>2, <2>5, <2>6, <2>8, <2>9 DEF AsBuilt
<1> QED  BY <1>4, <1>5

LEMMA SetsForwardingNew ==
    ASSUME NewBefore, NEW n \in built, SetsForwardingAndRoutes
    PROVE  AsBuilt(n)'
<1> USE NewBeforeFacts
<1>1. /\ call.kind = "UpdateNodeConfig" /\ call.pc = "settings"
      /\ call.id \in NodeId /\ call.arg \in Node
      /\ veths' = veths /\ symlink' = symlink /\ call'.pc = "ok"
  BY GoesFacts DEF SetsForwardingAndRoutes, At, CallType, NodeOpKind, Pc
<1>2. Runs(n) /\ ~ Awaits("CreateNode", n) /\ (~ Configured(n) => Plain(n))
  BY <1>1, BeforeConfig
<1>3. container' = [container EXCEPT ![call.id].settings = @ \cup ToSet(call.arg.config)]
  BY DEF SetsForwardingAndRoutes
<1>4. CASE n # call.id
  <2>1. container'[n] = container[n]
    BY <1>1, <1>3, <1>4 DEF MachineType
  <2>2. /\ Runs(n)' /\ (Plain(n) => Plain(n)')
        /\ Configured(n) => Addresses(n)'
    BY <1>1, <1>2, <2>1 DEF Runs, Opens, Plain, Addresses, AsBuilt
  <2> QED  BY <1>2, <1>4, <2>1, <2>2, OthersLeaveAsBuilt
<1>5. CASE n = call.id
  <2>1. container[n] \in Container
    BY <1>2 DEF Runs, MachineType
  <2>2. /\ container'[n].settings = container[n].settings \cup ToSet(call.arg.config)
        /\ container'[n].running = container[n].running
        /\ container'[n] # None
    <3>1. container'[n] = [container[n] EXCEPT
                              !.settings = @ \cup ToSet(call.arg.config)]
      BY <1>3, <1>5 DEF MachineType
    <3>2. container'[n] \in Container
      BY <1>1, <2>1, <3>1 DEF Container, ToSet, Node
    <3> QED  BY <2>1, <3>1, <3>2, NoneIsNoContainer DEF Container
  <2>3. Runs(n)'
    BY <1>1, <1>2, <2>2 DEF Runs, Opens
  <2>4. ~ Awaits("UpdateNodeConfig", n) /\ ~ Awaits("UpdateNodeConfig", n)'
    BY <1>1, <1>5, NewAwaits
  <2>5. Configures(n) /\ ~ Configures(n)'
    BY <1>1, <1>5 DEF Configures, At
  <2>6. needsConfigApply(desired.nodes[n]) /\ Configured(n) /\ Configured(n)'
    BY <2>4, <2>5 DEF AsBuilt, Configured
  <2>7. Addresses(n)' /\ container[n].settings = {}
    BY <1>1, <1>2, <2>5, <2>6 DEF AsBuilt, Addresses, Settings
  <2>8. call.arg = desired.nodes[n]
    BY <1>1, <1>5 DEF InOrder
  <2>9. Settings(n)'
    BY <2>2, <2>5, <2>7, <2>8 DEF Settings
  <2>10. ~ Starting(n)' /\ ~ Awaits("DestroyNode", n)' /\ NodeOp("CreateNode", n) \notin todo'
    BY <1>1, NewAwaits DEF AsBuilt, Starting, Awaits
  <2> QED  BY <2>3, <2>5, <2>6, <2>7, <2>9, <2>10 DEF AsBuilt
<1> QED  BY <1>4, <1>5

LEMMA DrivesNew ==
    ASSUME NewBefore
    PROVE  NewNodes'
<1> USE NewBeforeFacts
<1>1. \A n \in built : AsBuilt(n)'
  BY CreateNodeNew, DestroyNodeNew, LinkMethodsNew, SetsAddressesNew, SetsForwardingNew
  DEF DriverStep
<1>2. \A n \in NodeId : NodeOp("CreateNode", n) \in todo \/ n \in built => ConfigPlanned(n)'
  BY DrivesKeepsConfigPlan
<1> QED  BY <1>1, <1>2 DEF NewNodes, At

LEMMA NewNodesInvStep ==
    ASSUME ContractInv, NodesInv, NewNodesInv, PodmanCycleNext
    PROVE  NewNodesInv'
<1>1. UntaggedHasNone'
  BY UntaggedStays DEF NewNodesInv
<1>2. ASSUME NEW d \in Desired, Begins(d)
      PROVE  NewNodes'
  BY <1>2, BeginsNew
<1>3. ASSUME NEW o \in todo, CallsNext(o), Undisturbed'
      PROVE  NewNodes'
  <2>1. Undisturbed
    BY <1>3 DEF CallsNext, Undisturbed
  <2> QED  BY <1>3, <2>1, CallsNew DEF NewNodesInv
<1>4. ASSUME Drives, Undisturbed'
      PROVE  NewNodes'
  <2>1. Undisturbed
    BY <1>4 DEF Drives, cycleVars, Undisturbed
  <2> QED  BY <1>4, <2>1, DrivesNew DEF NewNodesInv, NewBefore
<1>5. CASE HalfBlind \/ CallFails \/ Ends \/ ProcessDies \/ Stops \/ MachineReboots
  BY <1>1, <1>5
  DEF HalfBlind, BeginsHalfBlind, CallFails, Ends, ProcessDies, Stops, MachineReboots,
      Undisturbed, NewNodesInv
<1> QED  BY <1>1, <1>2, <1>3, <1>4, <1>5 DEF PodmanCycleNext, HalfBlind, NewNodesInv

-----------------------------------------------------------------------------
(* The invariant, and what it says of a clean cycle that is through.       *)

LEMMA InitIsClean == PodmanCycleInit => ContractInv /\ CleanInv
<1> SUFFICES ASSUME PodmanCycleInit  PROVE ContractInv /\ CleanInv
  OBVIOUS
<1>1. ContractInv
  BY InitHasInv DEF PodmanCycleInit, PodmanInit, NoCall, ContractInv, EndsAreReachable,
     MethodOnItsWay, At
<1>2. Returned /\ at = "idle" /\ todo = {} /\ veths = {} /\ \A n \in NodeId : container[n] = None
  BY DEF PodmanCycleInit, PodmanInit, NoCall, Returned
<1>3. NodesInv /\ GoodInv /\ SmoothInv /\ NewNodesInv
  BY <1>2 DEF NodesInv, Settled, Undisturbed, GoodInv, Good, SmoothInv, NewNodesInv,
              UntaggedHasNone
<1> QED  BY <1>1, <1>3 DEF CleanInv

\* What the invariant speaks of is all in the variables.
LEMMA StutterKeepsClean ==
    ASSUME CleanInv, UNCHANGED podmanCycleVars
    PROVE  NodesInv' /\ GoodInv' /\ SmoothInv' /\ NewNodesInv'
<1>1. /\ container' = container /\ symlink' = symlink /\ veths' = veths /\ call' = call
      /\ faults' = faults /\ disturbances' = disturbances
      /\ desired' = desired /\ at' = at /\ todo' = todo /\ clean' = clean /\ built' = built
  BY DEF podmanCycleVars, podmanVars, machineVars, cycleVars
<1>2. /\ \A k, x : Awaits(k, x)' <=> Awaits(k, x)
      /\ Returned' <=> Returned
      /\ \A k, pc : At(k, pc)' <=> At(k, pc)
      /\ \A n : /\ Runs(n)' <=> Runs(n)
                /\ Starting(n)' <=> Starting(n)
                /\ Configures(n)' <=> Configures(n)
      /\ \A l : Wiring(l)' <=> Wiring(l)
  BY <1>1 DEF Awaits, At, Returned, Runs, Opens, Starting, Wiring, Configures
<1>3. \A p : /\ Used(p)' <=> Used(p)
             /\ Doomed(p)' <=> Doomed(p)
             /\ Standing(p)' <=> Standing(p)
  BY <1>1, <1>2 DEF Used, InUse, NodeIsSwitch, Doomed, Standing, Bare
<1>4. \A p, l : Realises(p, l)' <=> Realises(p, l)
  BY <1>1, <1>3 DEF Realises
<1>5. Undisturbed' = Undisturbed /\ Smooth' = Smooth /\ Good' = Good
  BY <1>1 DEF Undisturbed, Smooth, Good, AllNew, NodesOf
<1>6. NodesInv'
  BY <1>1, <1>2, <1>5
  DEF CleanInv, NodesInv, Settled, InOrder, ContainersAsPlanned, NodesOf
<1>7. NodesRun => NodesRun'
  BY <1>1, <1>2 DEF NodesRun
<1>8. OwnPair => OwnPair'
  <2>1. \A n : NodeIsSwitch(n)' = NodeIsSwitch(n)
    BY <1>1 DEF NodeIsSwitch
  <2>2. \A f : Final(f)' = Final(f)
    BY <1>1, <2>1 DEF Final
  <2>3. \A f, pc, e : StageOf(f, pc, e)' = StageOf(f, pc, e)
    BY <2>2 DEF StageOf
  <2> QED  BY <1>1, <2>1, <2>3 DEF OwnPair, At
<1>9. PairsStand => PairsStand'
  BY <1>1, <1>2, <1>3 DEF PairsStand
<1>10. PairsAsPlanned => PairsAsPlanned'
  BY <1>1, <1>2, <1>3, <1>4 DEF PairsAsPlanned, LinksOf
<1>11. GoodInv'
  BY <1>5, <1>7, <1>8, <1>9, <1>10 DEF CleanInv, GoodInv
<1>12. SmoothInv'
  BY <1>1, <1>2, <1>3, <1>5 DEF CleanInv, SmoothInv, Bare
<1>13. UntaggedHasNone'
  BY <1>1 DEF CleanInv, NewNodesInv, UntaggedHasNone
<1>14. \A n : /\ Configured(n)' <=> Configured(n)
              /\ Plain(n)' <=> Plain(n)
              /\ Addresses(n)' <=> Addresses(n)
              /\ Settings(n)' <=> Settings(n)
  BY <1>1, <1>2 DEF Configured, Plain, Addresses, Settings
<1>15. \A n : (ConfigPlanned(n)' <=> ConfigPlanned(n)) /\ (AsBuilt(n)' <=> AsBuilt(n))
  BY <1>1, <1>2, <1>14 DEF ConfigPlanned, AsBuilt, NodesOf
<1>16. NewNodesInv'
  BY <1>1, <1>2, <1>5, <1>13, <1>15 DEF CleanInv, NewNodesInv, NewNodes
<1> QED  BY <1>6, <1>11, <1>12, <1>16

LEMMA CleanInvStep ==
    ASSUME CleanInv, [PodmanCycleNext]_podmanCycleVars
    PROVE  CleanInv'
<1>1. ContractInv'
  BY ContractInvStep DEF CleanInv
<1>2. CASE PodmanCycleNext
  <2>1. NodesInv' /\ GoodInv' /\ NewNodesInv'
    BY <1>2, NodesInvStep, GoodInvStep, NewNodesInvStep DEF CleanInv
  <2>2. SmoothInv'
    BY <1>2, <2>1, SmoothInvStep DEF CleanInv
  <2> QED  BY <1>1, <2>1, <2>2 DEF CleanInv
<1>3. CASE UNCHANGED podmanCycleVars
  BY <1>1, <1>3, StutterKeepsClean DEF CleanInv
<1> QED  BY <1>2, <1>3

LEMMA CleanInvAlways == PodmanCycleSpec => []CleanInv
BY InitIsClean, CleanInvStep, PTL DEF PodmanCycleSpec

\* A good cycle that is through has made the machine what its document asks for.
LEMMA GoodEndIsRight ==
    ASSUME CleanInv, CleanlyDone, Smooth \/ AllNew
    PROVE  MachineIsRight
<1> USE WhenDone
<1>1. Done /\ NodesRun /\ PairsStand /\ PairsAsPlanned /\ ContainersAsPlanned
  BY DEF CleanInv, CleanlyDone, Done, GoodInv, NodesInv, Good, Undisturbed
<1>2. ASSUME NEW n \in NodeId
      PROVE  IF n \in NodesOf(desired) THEN Runs(n) ELSE container[n] = None
  BY <1>1 DEF ContainersAsPlanned, NodesRun
<1>3. call.pc \in {"ok", "err"}
  BY <1>1 DEF Done, Returned
<1>4. ASSUME NEW l \in LinksOf(desired)
      PROVE  \E p \in veths : /\ p.id = l
                              /\ endpointsEqual(p.link, desired.links[l])
                              /\ \A e \in End : InUse(p, e)
  <2>1. l \in LinkId
    BY DEF LinksOf
  <2>2. PICK p \in veths : Realises(p, l)
    BY <1>1, <2>1 DEF PairsAsPlanned, Done
  <2> QED  BY <2>2 DEF Realises, Used
<1>5. ASSUME NEW p \in veths, \E e \in End : p.stage[e] # "root"
      PROVE  /\ p.id \in LinksOf(desired)
             /\ \A q \in veths : p.id = q.id => p = q
  <2>1. Standing(p)
    BY <1>1, <1>5 DEF Standing, Bare
  <2>2. p.id \in LinkId
    BY Facts DEF CleanInv, MachineType, Pair
  <2>3. p.id \in LinksOf(desired)
    BY <1>1, <2>1, <2>2 DEF PairsAsPlanned
  <2>4. \A q \in veths : q.id = p.id => q = p
    BY <1>1, <2>1 DEF PairsStand
  <2> QED  BY <2>3, <2>4
<1> QED  BY <1>2, <1>4, <1>5 DEF MachineIsRight

\* While no call fails and the machine does nothing by itself, every cycle leaves each
\* node of its document running and reachable, each link a pair with both ends in use,
\* and nothing else, whichever document was there before.
THEOREM CleanCycleBuildsTheLabAlways == PodmanCycleSpec => []CleanCycleBuildsTheLab
<1>1. CleanInv => CleanCycleBuildsTheLab
  BY GoodEndIsRight DEF CleanCycleBuildsTheLab, Smooth
<1> QED  BY <1>1, CleanInvAlways, PTL

\* A clean cycle that has called CreateNode for every node of its document has the
\* machine right, whatever failed calls, crashes and reboots have left behind.
THEOREM RebuildRepairsEverythingAlways == PodmanCycleSpec => []RebuildRepairsEverything
<1>1. CleanInv => RebuildRepairsEverything
  BY GoodEndIsRight DEF RebuildRepairsEverything, AllNew
<1> QED  BY <1>1, CleanInvAlways, PTL

\* What ReadActual finds after a cycle in which, as in all before it, nothing went wrong
\* differs from the document in configuration at most.
THEOREM RerunDisruptsNothingAlways == PodmanCycleSpec => []RerunDisruptsNothing
<1> USE WhenDone
<1>1. ASSUME CleanInv, CleanlyDone, Smooth, NEW actual \in Readings,
             NEW o \in Diff(desired, actual)
      PROVE  o.kind = "UpdateNodeConfig"
  <2>1. /\ ContractInv /\ Done /\ call.pc \in {"ok", "err"}
        /\ PairsStand /\ PairsAsPlanned /\ ContainersAsPlanned
    BY <1>1 DEF CleanInv, CleanlyDone, Done, Returned, GoodInv, NodesInv, Good, Undisturbed
  <2>2. ASSUME NEW n \in NodeId
        PROVE  /\ n \in NodesOf(actual) <=> n \in NodesOf(desired)
               /\ n \in NodesOf(actual) => ~ coldChange(desired.nodes[n], actual.nodes[n])
    BY <2>1, ReadingNodes DEF ContainersAsPlanned
  <2>3. Missing(desired, actual) = {} /\ Unwanted(desired, actual) = {}
        /\ Recreated(desired, actual) = {}
    BY <2>2 DEF Missing, Unwanted, Recreated, NodesOf
  <2>4. ASSUME NEW l \in LinksOf(desired)
        PROVE  \E p \in veths : Realises(p, l) /\ Standing(p)
    <3>1. l \in LinkId
      BY DEF LinksOf
    <3>2. PICK p \in veths : Realises(p, l)
      BY <2>1, <3>1 DEF PairsAsPlanned, Done
    <3> QED  BY <2>1, <3>2, UsedFacts DEF Realises, Standing
  <2>5. ASSUME NEW l \in LinkId, l \in LinksOf(actual)
        PROVE  l \in LinksOf(desired) /\ endpointsEqual(desired.links[l], actual.links[l])
    <3>1. PICK p \in veths : /\ p.id = l /\ p.link = actual.links[l]
                             /\ \A e \in End : p.stage[e] # "root"
      BY <2>1, <2>5, ReadingLinks
    <3>2. Standing(p)
      BY <2>1, <3>1 DEF Standing, Bare, End
    <3>3. l \in LinksOf(desired)
      BY <2>1, <3>1, <3>2 DEF PairsAsPlanned
    <3>4. PICK q \in veths : Realises(q, l)
      BY <2>4, <3>3
    <3>5. q = p
      BY <2>1, <3>1, <3>2, <3>4 DEF PairsStand, Realises
    <3> QED  BY <3>1, <3>3, <3>4, <3>5, EndpointsEqualFacts DEF Realises
  <2>6. ASSUME NEW l \in LinksOf(desired)
        PROVE  l \in LinksOf(actual)
    <3>1. l \in LinkId
      BY DEF LinksOf
    <3>2. PICK p \in veths : p.id = l /\ Used(p)
      BY <2>4 DEF Realises
    <3>3. p.stage[1] \in Tagged /\ 1 \in End
      BY <3>2, UsedFacts DEF Tagged, End
    <3> QED  BY <2>1, <3>1, <3>2, <3>3, ReadingLinks
  <2>7. /\ MissingLinks(desired, actual) = {} /\ UnwantedLinks(desired, actual) = {}
        /\ Rebuilt(desired, actual) = {}
    BY <2>3, <2>5, <2>6 DEF MissingLinks, UnwantedLinks, Rebuilt, LinksOf
  <2> QED  BY <2>3, <2>7 DEF Diff, NodeOp
<1>2. CleanInv => RerunDisruptsNothing
  BY <1>1 DEF RerunDisruptsNothing, Smooth
<1> QED  BY <1>2, CleanInvAlways, PTL

\* When a clean cycle is through, whatever happened before it, the nodes it has created
\* have the settings of their document, and the tagged ends in them the addresses, and no
\* others.
THEOREM NewNodesAreAddressedAlways == PodmanCycleSpec => []NewNodesAreAddressed
<1> USE WhenDone
<1>1. ASSUME CleanInv, CleanlyDone, NEW n \in built
      PROVE  /\ container[n].settings = ToSet(desired.nodes[n].config)
             /\ \A p \in veths : \A e \in End :
                   Inside(p, e, n) /\ p.stage[e] \in Tagged
                      /\ p.link[1].node # p.link[2].node
                   => p.addr[e] = ToSet(desired.nodes[n].ifaces[p.link[e].iface])
  <2>1. AsBuilt(n) /\ Done
    BY <1>1 DEF CleanInv, CleanlyDone, Done, NewNodesInv, NewNodes, Undisturbed
  <2>2. ~ Configures(n) /\ ~ Awaits("CreateNode", n)
    BY <2>1 DEF Done, Returned, Configures, At
  <2>3. Configured(n) <=> needsConfigApply(desired.nodes[n])
    BY <2>1 DEF Configured
  <2>4. CASE needsConfigApply(desired.nodes[n])
    BY <2>1, <2>2, <2>3, <2>4 DEF AsBuilt, Addresses, Settings
  <2>5. CASE ~ needsConfigApply(desired.nodes[n])
    <3>1. Plain(n)
      BY <2>1, <2>2, <2>3, <2>5 DEF AsBuilt
    <3>2. ToSet(desired.nodes[n].config) = {}
      BY <2>5 DEF needsConfigApply, ToSet
    <3>3. \A i \in IfaceId : ToSet(desired.nodes[n].ifaces[i]) = {}
      BY <2>5 DEF needsConfigApply, ToSet
    <3>4. \A p \in veths : \A e \in End : p.link[e].iface \in IfaceId
      BY <1>1, Facts DEF CleanInv, MachineType, Pair, Link, Endpoint, End
    <3> QED  BY <3>1, <3>2, <3>3, <3>4 DEF Plain
  <2> QED  BY <2>4, <2>5
<1>2. CleanInv => NewNodesAreAddressed
  BY <1>1 DEF NewNodesAreAddressed
<1> QED  BY <1>2, CleanInvAlways, PTL

-----------------------------------------------------------------------------
(* The contract without a proviso, until something goes wrong.             *)

\* As long as nothing goes wrong no two pairs have one link ID, halfway through a cycle
\* or between two.
OnePairEach == Smooth => \A p, q \in veths : p.id = q.id => p = q

LEMMA OnePairEachStep ==
    ASSUME CleanInv, OnePairEach, PodmanCycleNext
    PROVE  OnePairEach'
<1> USE Facts DEF CleanInv
<1>1. ASSUME veths' \subseteq veths, Smooth' => Smooth
      PROVE  OnePairEach'
  BY <1>1 DEF OnePairEach
<1>2. ASSUME HalfBlind \/ CallFails \/ ProcessDies \/ Stops \/ MachineReboots
      PROVE  ~ Smooth'
  <2>1. faults' = faults + 1 \/ disturbances' = disturbances + 1
    BY <1>2 DEF HalfBlind, BeginsHalfBlind, CallFails, ProcessDies, Stops, MachineReboots,
                Abandons, ContainerStops, Reboots
  <2>2. faults \in Nat /\ disturbances \in Nat
    BY DEF PodmanInv
  <2> QED  BY <2>1, <2>2 DEF Smooth
<1>3. ASSUME Drives, Smooth
      PROVE  OnePairEach'
  <2>1. \A p, q \in veths : p.id = q.id => p = q
    BY <1>3 DEF OnePairEach
  <2>2. ASSUME NEW p \in veths, NEW r, r.id = p.id, veths' = (veths \ {p}) \cup {r}
        PROVE  OnePairEach'
    BY <2>1, <2>2 DEF OnePairEach
  <2>3. \A p \in veths : \A e, s : [p EXCEPT !.stage[e] = s].id = p.id
    BY DEF MachineType, Pair
  <2>4. CASE AddsPair
    <3>1. OwnPair /\ At("CreateLink", "add")
      BY <1>3, <2>4 DEF AddsPair, Drives, SmoothInv, GoodInv, Good, Undisturbed
    <3>2. \A p \in veths : p.id # call.id
      BY <3>1 DEF OwnPair
    <3>3. NewPair(call.id, call.arg).id = call.id
      BY DEF NewPair
    <3> QED  BY <2>1, <2>4, <3>2, <3>3 DEF AddsPair, OnePairEach
  <2>5. CASE MovesEnd
    <3>1. CASE veths' = veths
      BY <1>1, <1>3, <3>1
    <3>2. ASSUME NEW p \in EndsInRoot(call.id, call.end),
                 veths' = (veths \ {p}) \cup {[p EXCEPT !.stage[call.end] = "moved"]}
          PROVE  OnePairEach'
      BY <2>2, <2>3, <3>2 DEF EndsInRoot
    <3> QED  BY <2>5, <3>1, <3>2 DEF MovesEnd
  <2>6. ASSUME NEW s, Reaches(s)
        PROVE  OnePairEach'
    BY <2>2, <2>3, <2>6 DEF Reaches, EndsInside
  <2>7. CASE SetsAddresses
    <3>1. \A p \in veths : Addressed(p, call.id, call.arg).id = p.id
      BY DEF Addressed, MachineType, Pair
    <3> QED  BY <1>1, <1>3, <2>1, <2>7, <3>1 DEF SetsAddresses, OnePairEach
  <2>8. CASE TagsEnd \/ RaisesEnd \/ JoinsBridge
    BY <2>6, <2>8 DEF TagsEnd, RaisesEnd, JoinsBridge
  <2>9. CASE \/ CreatesContainer \/ StartsContainer \/ LinksNamespace \/ RemovesContainer
             \/ RemovesSymlink \/ FindsEnds \/ DeletesPair \/ SetsForwardingAndRoutes
    <3>1. veths' \subseteq veths
      BY <2>9
      DEF CreatesContainer, StartsContainer, LinksNamespace, RemovesContainer, RemovesSymlink,
          FindsEnds, DeletesPair, SetsForwardingAndRoutes
    <3> QED  BY <1>1, <1>3, <3>1
  <2> QED  BY <1>3, <2>4, <2>5, <2>7, <2>8, <2>9 DEF Drives, DriverStep
<1>4. ASSUME Drives, ~ Smooth
      PROVE  ~ Smooth'
  BY <1>4, DriverStepFacts DEF Drives, Smooth
<1>5. ~ Smooth' => OnePairEach'
  BY DEF OnePairEach
<1>6. ASSUME Ends \/ (\E d \in Desired : Begins(d)) \/ \E o \in todo : CallsNext(o)
      PROVE  OnePairEach'
  BY <1>1, <1>6 DEF Ends, Begins, CallsNext, Calls, Smooth, podmanVars, machineVars
<1> QED  BY <1>2, <1>3, <1>4, <1>5, <1>6 DEF PodmanCycleNext, HalfBlind

LEMMA OnePairEachAlways == PodmanCycleSpec => []OnePairEach
<1>1. PodmanCycleInit => OnePairEach
  BY DEF PodmanCycleInit, PodmanInit, OnePairEach
<1>2. ASSUME CleanInv, OnePairEach, [PodmanCycleNext]_podmanCycleVars
      PROVE  OnePairEach'
  <2>1. CASE UNCHANGED podmanCycleVars
    BY <1>2, <2>1 DEF OnePairEach, Smooth, podmanCycleVars, podmanVars, machineVars
  <2> QED  BY <1>2, <2>1, OnePairEachStep
<1> QED  BY <1>1, <1>2, CleanInvAlways, PTL DEF PodmanCycleSpec

LEMMA SmoothIsUnambiguous ==
    OnePairEach /\ Smooth => Unambiguous
BY DEF OnePairEach, Unambiguous, Sightings, SightingsBut

\* Until a call fails, a container stops or the machine reboots, every step of the podman
\* driver is a step of the contract on what ReadActual returns, which is then never in
\* doubt: two pairs with one link ID are what only a failure can leave behind.
THEOREM ContractUntilTrouble ==
    PodmanCycleSpec => /\ [](Smooth => Unambiguous)
                       /\ [][Smooth' => Contract!ContractStep]_podmanCycleVars
<1>1. PodmanCycleSpec => [](Smooth => Unambiguous)
  BY SmoothIsUnambiguous, OnePairEachAlways, PTL
<1>2. ASSUME ContractInv, [PodmanCycleNext]_podmanCycleVars, Smooth'
      PROVE  Smooth
  <2>1. CASE UNCHANGED podmanCycleVars
    BY <1>2, <2>1 DEF Smooth, podmanCycleVars, podmanVars
  <2>2. CASE PodmanCycleNext
    <3>1. faults \in Nat /\ disturbances \in Nat
      BY <1>2 DEF ContractInv, CycleInv, PodmanInv
    <3>2. \/ faults' = faults /\ disturbances' = disturbances
          \/ faults' = faults + 1 \/ disturbances' = disturbances + 1
      BY <1>2, <2>2, DriverStepFacts, Facts
      DEF PodmanCycleNext, Begins, BeginsHalfBlind, CallsNext, Calls, Drives, CallFails, Ends,
          ProcessDies, Stops, MachineReboots, Abandons, ContainerStops, Reboots, podmanVars
    <3>3. \/ faults' = faults /\ disturbances' = disturbances
          \/ faults' # 0 \/ disturbances' # 0
      BY <3>1, <3>2
    <3> QED  BY <1>2, <3>3 DEF Smooth
  <2> QED  BY <1>2, <2>1, <2>2
<1>3. ContractInv /\ [PodmanCycleNext]_podmanCycleVars
         /\ (Smooth => Unambiguous) /\ (Smooth => Unambiguous)'
         /\ [Unambiguous /\ Unambiguous' => Contract!ContractStep]_podmanCycleVars
      => [Smooth' => Contract!ContractStep]_podmanCycleVars
  BY <1>2
<1> QED
  BY <1>1, <1>3, ContractInvAlways, ImplementsContractAlways, PTL
  DEF PodmanCycleSpec, ImplementsContract

=============================================================================
