------------------------------- MODULE Podman -------------------------------
(***************************************************************************)
(* The driver the program ships with, internal/driver/podman: each driver  *)
(* method as the sequence of podman and netlink calls it makes, on a       *)
(* machine whose state is the containers, the symlinks in /var/run/netns   *)
(* and the veth pairs.  The engine calls one method at a time; any of the  *)
(* calls a method makes can fail, and the process can die between two.     *)
(***************************************************************************)
EXTENDS Diff, LabDriver

CONSTANTS
    TypeSwitch,      \* the node type whose veth ends are ports of a bridge
    MaxFaults,       \* bound: calls that fail
    MaxDisturbances  \* bound: containers that stop and reboots

ASSUME PodmanBoundsAssumption == MaxFaults \in Nat /\ MaxDisturbances \in Nat
ASSUME SomeNodeAssumption == NodeId # {}

VARIABLES
    container,    \* the managed container of each node, running or not
    symlink,      \* /var/run/netns/<node>: none, stale (dangling) or live
    veths,        \* the veth pairs on the machine
    call,         \* the driver method under way and how far it is
    faults,       \* calls that failed so far
    disturbances  \* containers stopped by others and reboots so far

machineVars == <<container, symlink, veths>>
podmanVars  == <<machineVars, call, faults, disturbances>>

(***************************************************************************)
(* A container carries its node in a label, and in its namespace the hot   *)
(* node settings applied so far.  A veth pair has two ends, each in the    *)
(* root namespace or, later, in that of the node its link names, with the  *)
(* interface configs (addresses) applied to it; an end that is tagged      *)
(* carries the link as its alias.                                          *)
(***************************************************************************)
End       == 1 .. 2
Container == [label : Node, running : BOOLEAN, settings : SUBSET Config]
Stage     == {"root", "moved", "tagged", "up", "port"}
Tagged    == {"tagged", "up", "port"}
Pair      == [id : LinkId, link : Link, stage : [End -> Stage],
              addr : [End -> SUBSET Config]]

ASSUME NoneIsNoContainer == None \notin Container

NewPair(l, link) == [id |-> l, link |-> link, stage |-> [e \in End |-> "root"],
                     addr |-> [e \in End |-> {}]]

\* Is end e of pair p inside the network namespace of node n?
Inside(p, e, n) == p.stage[e] # "root" /\ p.link[e].node = n

\* The pairs whose end e is called VethName(l, e) in n's namespace, and in the
\* root namespace.
EndsInside(l, e, n) == {p \in veths : p.id = l /\ Inside(p, e, n)}
EndsInRoot(l, e)    == {p \in veths : p.id = l /\ p.stage[e] = "root"}

\* A veth pair dies with the namespace either end is in.
Outlives(p, n) == \A e \in End : ~ Inside(p, e, n)

\* openNodeNetns succeeds.
Opens(n) == symlink[n] = "live"

NodeIsSwitch(n) == container[n] # None /\ container[n].label.type = TypeSwitch

-----------------------------------------------------------------------------
(* ReadActual: the labels of all containers, running or not, and the       *)
(* aliases found in the namespaces that open.  The code collects links in  *)
(* a map by ID; should two pairs carry one ID, either link can come out.   *)
(* A namespace that does not answer is passed over: of the silent ones     *)
(* there are no aliases, and no error.                                     *)

SightingsBut(l, silent) ==
    {p.link : p \in {q \in veths : q.id = l /\ \E e \in End :
                         /\ q.stage[e] \in Tagged
                         /\ container[q.link[e].node] # None
                         /\ Opens(q.link[e].node)
                         /\ q.link[e].node \notin silent}}

SomeLink(l, silent) == IF SightingsBut(l, silent) = {} THEN {None} ELSE SightingsBut(l, silent)

ReadingsBut(silent) ==
    {[nodes |-> [n \in NodeId |-> IF container[n] = None THEN None ELSE container[n].label],
      links |-> f] :
        f \in {g \in [LinkId -> UNION {SomeLink(l, silent) : l \in LinkId}] :
                  \A l \in LinkId : g[l] \in SomeLink(l, silent)}}

Sightings(l) == SightingsBut(l, {})
Readings     == ReadingsBut({})

Observed == CHOOSE r \in Readings : TRUE

-----------------------------------------------------------------------------
\* Calls: the operation, its argument, and what comes next; ok and err are the
\* two ways a method returns.

Pc == {"begin", "start", "symlink", "unlink", "add", "move", "tag", "up", "port",
       "settings", "ok", "err"}
NoCall == [kind |-> "DestroyNode", id |-> CHOOSE n \in NodeId : TRUE, arg |-> None,
           pc |-> "ok", end |-> 1]

Returned == call.pc \in {"ok", "err"}
At(kind, pc) == call.kind = kind /\ call.pc = pc
Goes(pc) == call' = [call EXCEPT !.pc = pc]

PodmanInit ==
    /\ container = [n \in NodeId |-> None]
    /\ symlink = [n \in NodeId |-> "none"]
    /\ veths = {}
    /\ call = NoCall
    /\ faults = 0
    /\ disturbances = 0

\* applyOp calls the driver for operation o of document topology d.
Calls(o, d) ==
    /\ Returned
    /\ call' = [kind |-> o.kind, id |-> o.id, pc |-> "begin", end |-> 1,
                arg |-> CASE o.kind \in {"CreateNode", "UpdateNodeConfig"} -> d.nodes[o.id]
                          [] o.kind = "CreateLink" -> d.links[o.id]
                          [] OTHER -> None]
    /\ UNCHANGED <<machineVars, faults, disturbances>>

\* CreateNode: a container that exists is taken for the node, whatever its
\* state; otherwise create, start, and link its namespace.
CreatesContainer ==
    /\ At("CreateNode", "begin")
    /\ \/ container[call.id] # None /\ Goes("ok") /\ UNCHANGED container
       \/ /\ container[call.id] = None
          /\ container' = [container EXCEPT ![call.id] =
                              [label |-> call.arg, running |-> FALSE, settings |-> {}]]
          /\ Goes("start")
    /\ UNCHANGED <<symlink, veths, faults, disturbances>>

StartsContainer ==
    /\ At("CreateNode", "start")
    /\ container' = [container EXCEPT ![call.id].running = TRUE]
    /\ Goes("symlink")
    /\ UNCHANGED <<symlink, veths, faults, disturbances>>

\* ensureNetnsSymlink, with the PID that Inspect reports.
LinksNamespace ==
    /\ At("CreateNode", "symlink")
    /\ \/ ~ container[call.id].running /\ Goes("err") /\ UNCHANGED symlink
       \/ /\ container[call.id].running
          /\ symlink' = [symlink EXCEPT ![call.id] = "live"]
          /\ Goes("ok")
    /\ UNCHANGED <<container, veths, faults, disturbances>>

\* Broken: the namespace, no longer to be reached, keeps its veth ends.
RemovesContainerKeepsNamespace ==
    /\ At("DestroyNode", "begin")
    /\ container' = [container EXCEPT ![call.id] = None]
    /\ symlink' = [symlink EXCEPT ![call.id] = IF @ = "live" THEN "stale" ELSE @]
    /\ Goes("unlink")
    /\ UNCHANGED <<veths, faults, disturbances>>

\* Broken: the symlink is left behind.
RemovesContainerOnly ==
    /\ At("DestroyNode", "begin")
    /\ container' = [container EXCEPT ![call.id] = None]
    /\ symlink' = [symlink EXCEPT ![call.id] = IF @ = "live" THEN "stale" ELSE @]
    /\ veths' = {p \in veths : Outlives(p, call.id)}
    /\ Goes("ok")
    /\ UNCHANGED <<faults, disturbances>>

\* DestroyNode: remove the container, if any, and with it the namespace; then
\* the symlink.
RemovesContainer ==
    /\ At("DestroyNode", "begin")
    /\ container' = [container EXCEPT ![call.id] = None]
    /\ symlink' = [symlink EXCEPT ![call.id] = IF @ = "live" THEN "stale" ELSE @]
    /\ veths' = {p \in veths : Outlives(p, call.id)}
    /\ Goes("unlink")
    /\ UNCHANGED <<faults, disturbances>>

RemovesSymlink ==
    /\ At("DestroyNode", "unlink")
    /\ symlink' = [symlink EXCEPT ![call.id] = "none"]
    /\ Goes("ok")
    /\ UNCHANGED <<container, veths, faults, disturbances>>

\* Broken: a leftover pair is not removed.
FindsEndsKeepsLeftover ==
    /\ At("CreateLink", "begin")
    /\ \/ (\E ep \in EndsOf(call.arg) : ~ Opens(ep.node)) /\ Goes("err")
       \/ /\ \A ep \in EndsOf(call.arg) : Opens(ep.node)
          /\ IF \A e \in End : EndsInside(call.id, e, call.arg[e].node) # {}
             THEN Goes("ok") ELSE Goes("add")
    /\ UNCHANGED <<container, symlink, veths, faults, disturbances>>

\* CreateLink, before LinkAdd: both namespaces must open; a pair with both ends
\* where they belong is taken for the link; a leftover of end 0 in the root
\* namespace is removed.
FindsEnds ==
    /\ At("CreateLink", "begin")
    /\ \/ (\E ep \in EndsOf(call.arg) : ~ Opens(ep.node)) /\ Goes("err") /\ UNCHANGED veths
       \/ /\ \A ep \in EndsOf(call.arg) : Opens(ep.node)
          /\ \A e \in End : EndsInside(call.id, e, call.arg[e].node) # {}
          /\ Goes("ok") /\ UNCHANGED veths
       \/ /\ \A ep \in EndsOf(call.arg) : Opens(ep.node)
          /\ \E e \in End : EndsInside(call.id, e, call.arg[e].node) = {}
          /\ veths' = veths \ EndsInRoot(call.id, 1)
          /\ Goes("add")
    /\ UNCHANGED <<container, symlink, faults, disturbances>>

\* LinkAdd refuses a name that is taken in the root namespace.
AddsPair ==
    /\ At("CreateLink", "add")
    /\ \/ (\E e \in End : EndsInRoot(call.id, e) # {}) /\ Goes("err") /\ UNCHANGED veths
       \/ /\ \A e \in End : EndsInRoot(call.id, e) = {}
          /\ veths' = veths \cup {NewPair(call.id, call.arg)}
          /\ call' = [call EXCEPT !.pc = "move", !.end = 1]
    /\ UNCHANGED <<container, symlink, faults, disturbances>>

\* Broken: an end is tagged before the other one is moved.
MovesEndAndTags ==
    /\ At("CreateLink", "move")
    /\ \E p \in EndsInRoot(call.id, call.end) :
          veths' = (veths \ {p}) \cup {[p EXCEPT !.stage[call.end] = "moved"]}
    /\ Goes("tag")
    /\ UNCHANGED <<container, symlink, faults, disturbances>>

\* LinkSetNsFd, one end after the other; the kernel refuses a name that is taken.
MovesEnd ==
    /\ At("CreateLink", "move")
    /\ LET e == call.end
           taken == EndsInside(call.id, e, call.arg[e].node) # {}
       IN  \/ taken /\ Goes("err") /\ UNCHANGED veths
           \/ /\ ~ taken
              /\ \E p \in EndsInRoot(call.id, e) :
                    veths' = (veths \ {p}) \cup {[p EXCEPT !.stage[e] = "moved"]}
              /\ call' = IF e = 1 THEN [call EXCEPT !.end = 2]
                                  ELSE [call EXCEPT !.pc = "tag", !.end = 1]
    /\ UNCHANGED <<container, symlink, faults, disturbances>>

\* Then end 0 and after it end 1: set the alias, bring it up, and on a switch
\* make it a port of the bridge.
Reaches(stage) ==
    \E p \in EndsInside(call.id, call.end, call.arg[call.end].node) :
        veths' = (veths \ {p}) \cup {[p EXCEPT !.stage[call.end] = stage]}

\* Broken: the second end is never configured.
EndIsDoneAfterOne == call' = [call EXCEPT !.pc = "ok"]
\* Broken: the loop over the ends does not stop.
EndIsDoneRunsOver == call' = [call EXCEPT !.pc = "tag", !.end = @ + 1]

EndIsDone == call' = IF call.end = 1 THEN [call EXCEPT !.pc = "tag", !.end = 2]
                                     ELSE [call EXCEPT !.pc = "ok"]

TagsEnd ==
    /\ At("CreateLink", "tag")
    /\ Reaches("tagged")
    /\ Goes("up")
    /\ UNCHANGED <<container, symlink, faults, disturbances>>

RaisesEnd ==
    /\ At("CreateLink", "up")
    /\ Reaches("up")
    /\ \/ NodeIsSwitch(call.arg[call.end].node) /\ Goes("port")
       \/ ~ NodeIsSwitch(call.arg[call.end].node) /\ EndIsDone
    /\ UNCHANGED <<container, symlink, faults, disturbances>>

JoinsBridge ==
    /\ At("CreateLink", "port")
    /\ Reaches("port")
    /\ EndIsDone
    /\ UNCHANGED <<container, symlink, faults, disturbances>>

\* Broken: the pair is looked for in the root namespace.
DeletesPairInRoot ==
    /\ At("DestroyLink", "begin")
    /\ veths' = veths \ EndsInRoot(call.id, 1)
    /\ Goes("ok")
    /\ UNCHANGED <<container, symlink, faults, disturbances>>

\* DestroyLink: look for either end in the namespaces that open, in podman's
\* order, and delete the first pair found.
DeletesPair ==
    /\ At("DestroyLink", "begin")
    /\ LET Ends(n) == IF EndsInside(call.id, 1, n) # {} THEN EndsInside(call.id, 1, n)
                                                        ELSE EndsInside(call.id, 2, n)
           holders == {n \in NodeId : container[n] # None /\ Opens(n) /\ Ends(n) # {}}
       IN  \/ holders = {} /\ UNCHANGED veths
           \/ \E n \in holders : \E p \in Ends(n) : veths' = veths \ {p}
    /\ Goes("ok")
    /\ UNCHANGED <<container, symlink, faults, disturbances>>

\* UpdateNodeConfig: an address for each tagged end whose interface has one to
\* set; an address set before stays.  Then the node's own settings.  The label
\* is not written again.
IfaceOn(link, n) == IF link[2].node = n THEN link[2].iface ELSE link[1].iface

ToSet(config) == {config} \ {None, NoConfig}

Addressed(p, n, node) ==
    [p EXCEPT !.addr = [e \in End |->
        IF Inside(p, e, n) /\ p.stage[e] \in Tagged
        THEN p.addr[e] \cup ToSet(node.ifaces[IfaceOn(p.link, n)])
        ELSE p.addr[e]]]

SetsAddresses ==
    /\ At("UpdateNodeConfig", "begin")
    /\ LET nothing == /\ call.arg.config = NoConfig
                      /\ \A i \in IfaceId : call.arg.ifaces[i] = None
       IN  \/ nothing /\ Goes("ok") /\ UNCHANGED veths
           \/ ~ nothing /\ ~ Opens(call.id) /\ Goes("err") /\ UNCHANGED veths
           \/ /\ ~ nothing /\ Opens(call.id)
              /\ veths' = {Addressed(p, call.id, call.arg) : p \in veths}
              /\ Goes("settings")
    /\ UNCHANGED <<container, symlink, faults, disturbances>>

SetsForwardingAndRoutes ==
    /\ At("UpdateNodeConfig", "settings")
    /\ container' = [container EXCEPT ![call.id].settings = @ \cup ToSet(call.arg.config)]
    /\ Goes("ok")
    /\ UNCHANGED <<symlink, veths, faults, disturbances>>

DriverStep ==
    \/ CreatesContainer \/ StartsContainer \/ LinksNamespace
    \/ RemovesContainer \/ RemovesSymlink
    \/ FindsEnds \/ AddsPair \/ MovesEnd \/ TagsEnd \/ RaisesEnd \/ JoinsBridge
    \/ DeletesPair
    \/ SetsAddresses \/ SetsForwardingAndRoutes

\* The next podman or netlink call fails, and the method returns its error.
\* DestroyLink passes over a namespace that does not answer: when the pair was
\* there, it returns no error.
Abandons ==
    /\ ~ Returned
    /\ faults < MaxFaults
    /\ faults' = faults + 1
    /\ \/ Goes("err")
       \/ call.kind = "DestroyLink" /\ Goes("ok")
    /\ UNCHANGED <<machineVars, disturbances>>

-----------------------------------------------------------------------------
(* The machine.  While CreateLink and UpdateNodeConfig hold a namespace    *)
(* open it outlives its container, so a container that stops then is one   *)
(* that stops right after the call.                                        *)

HoldsNamespace == ~ Returned /\ call.kind \in {"CreateLink", "UpdateNodeConfig"}

Stopped(c) == IF c = None THEN None ELSE [c EXCEPT !.running = FALSE, !.settings = {}]

ContainerStops(n) ==
    /\ disturbances < MaxDisturbances
    /\ disturbances' = disturbances + 1
    /\ ~ HoldsNamespace
    /\ container[n] # None
    /\ container[n].running
    /\ container' = [container EXCEPT ![n] = Stopped(@)]
    /\ symlink' = [symlink EXCEPT ![n] = IF @ = "live" THEN "stale" ELSE @]
    /\ veths' = {p \in veths : Outlives(p, n)}
    /\ UNCHANGED <<call, faults>>

\* After a reboot the containers are there, none of them runs, and neither veth
\* pairs nor /var/run are left.
Reboots ==
    /\ disturbances < MaxDisturbances
    /\ disturbances' = disturbances + 1
    /\ container' = [n \in NodeId |-> Stopped(container[n])]
    /\ symlink' = [n \in NodeId |-> "none"]
    /\ veths' = {}
    /\ call' = NoCall
    /\ UNCHANGED faults

-----------------------------------------------------------------------------

PodmanTypeOK ==
    /\ container \in [NodeId -> Container \cup {None}]
    /\ symlink \in [NodeId -> {"none", "stale", "live"}]
    /\ veths \subseteq Pair
    /\ call.pc \in Pc /\ call.end \in End
    /\ \/ call.kind = "DestroyNode" /\ call.id \in NodeId /\ call.arg = None
       \/ call.kind = "DestroyLink" /\ call.id \in LinkId /\ call.arg = None
       \/ call.kind \in {"CreateNode", "UpdateNodeConfig"} /\ call.id \in NodeId
                                                        /\ call.arg \in Node
       \/ call.kind = "CreateLink" /\ call.id \in LinkId /\ call.arg \in Link
    /\ faults \in Nat
    /\ disturbances \in Nat

\* The alias is set only once both ends are where they belong, so a link that
\* ReadActual reports has a wire behind it, wherever CreateLink was interrupted.
SightedLinksAreWired ==
    \A p \in veths : \A e \in End :
        p.stage[e] \in Tagged => \A f \in End : p.stage[f] # "root"

\* "A leftover entry in /var/run/netns outlives the container": a symlink without
\* its container is one DestroyNode is about to remove, or failed to.
SymlinksDoNotLeak ==
    \A n \in NodeId : symlink[n] # "none" /\ container[n] = None =>
        \/ At("DestroyNode", "unlink") /\ call.id = n
        \/ faults > 0

=============================================================================
