---------------------------- MODULE PodmanCycle ----------------------------
(***************************************************************************)
(* The reconcile cycle on the podman driver: ReconcileNow reads the lab,   *)
(* diffs, and makes one driver call after the other, a failed one or not,  *)
(* for one desired topology after the other.                               *)
(***************************************************************************)
EXTENDS Podman

CONSTANT Desired  \* the topologies clients ask for

ASSUME DesiredAssumption == \A d \in Desired : d \in Topo /\ Valid(d)

VARIABLES
    desired, \* the topology of the current or the last cycle
    at,      \* where ReconcileNow is: idle, or apply
    todo,    \* the operations not begun yet
    clean,   \* history: in this cycle no call was made to fail (CallFails,
             \* BeginsHalfBlind), and the machine did nothing of its own accord
    built    \* history: the nodes this cycle has called CreateNode for

cycleVars == <<desired, at, todo, clean, built>>
podmanCycleVars == <<podmanVars, cycleVars>>

PodmanCycleInit ==
    /\ PodmanInit
    /\ desired = EmptyTopo
    /\ at = "idle"
    /\ todo = {}
    /\ clean = FALSE
    /\ built = {}

\* The snapshot, ReadActual and Diff.
Begins(d) ==
    /\ at = "idle"
    /\ desired' = d
    /\ at' = "apply"
    /\ \E actual \in Readings : todo' = Diff(d, actual)
    /\ clean' = TRUE
    /\ built' = {}
    /\ UNCHANGED podmanVars

\* The same when namespaces that do not answer make ReadActual miss something.
BeginsHalfBlind(d) ==
    /\ at = "idle"
    /\ faults < MaxFaults
    /\ faults' = faults + 1
    /\ desired' = d
    /\ at' = "apply"
    /\ \E actual \in UNION {ReadingsBut(silent) : silent \in SUBSET NodeId} \ Readings :
          todo' = Diff(d, actual)
    /\ clean' = FALSE
    /\ built' = {}
    /\ UNCHANGED <<machineVars, call, disturbances>>

\* The next operation; whether the one before it failed does not matter.
CallsNext(o) ==
    /\ at = "apply"
    /\ Calls(o, desired)
    /\ \A p \in todo \ {o} : Precedes(desired, o, p)
    /\ todo' = todo \ {o}
    /\ built' = IF o.kind = "CreateNode" THEN built \cup {o.id} ELSE built
    /\ UNCHANGED <<desired, at, clean>>

Drives == /\ at = "apply"
          /\ DriverStep
          /\ UNCHANGED cycleVars

CallFails == /\ at = "apply"
             /\ Abandons
             /\ clean' = FALSE
             /\ UNCHANGED <<desired, at, todo, built>>

\* The second ReadActual, and the status built from it.  Between two cycles
\* there is no call, and nothing to remember of the last one but its document.
Done == at = "apply" /\ todo = {} /\ Returned

Ends == /\ Done
        /\ at' = "idle"
        /\ call' = NoCall
        /\ clean' = FALSE
        /\ built' = {}
        /\ UNCHANGED <<machineVars, faults, disturbances, desired, todo>>

\* The process dies in the middle of a driver method.
ProcessDies == /\ at = "apply"
               /\ ~ Returned
               /\ faults < MaxFaults
               /\ faults' = faults + 1
               /\ call' = NoCall
               /\ at' = "idle"
               /\ todo' = {}
               /\ clean' = FALSE
               /\ built' = {}
               /\ UNCHANGED <<machineVars, disturbances, desired>>

Stops == /\ \E n \in NodeId : ContainerStops(n)
         /\ clean' = FALSE
         /\ UNCHANGED <<desired, at, todo, built>>

MachineReboots == /\ Reboots
                  /\ at' = "idle"
                  /\ todo' = {}
                  /\ clean' = FALSE
                  /\ built' = {}
                  /\ UNCHANGED desired

PodmanCycleNext ==
    \/ \E d \in Desired : Begins(d) \/ BeginsHalfBlind(d)
    \/ \E o \in todo : CallsNext(o)
    \/ Drives
    \/ CallFails
    \/ Ends
    \/ ProcessDies
    \/ Stops
    \/ MachineReboots

PodmanCycleSpec == PodmanCycleInit /\ [][PodmanCycleNext]_podmanCycleVars

-----------------------------------------------------------------------------

PodmanCycleTypeOK ==
    /\ PodmanTypeOK
    /\ desired \in Desired \cup {EmptyTopo}
    /\ at \in {"idle", "apply"}
    /\ todo \subseteq OpSet
    /\ clean \in BOOLEAN
    /\ built \subseteq NodeId

\* The lab the document asks for, on the machine: every node a running container
\* whose namespace can be reached, every link a pair with both ends in use, and
\* no other container, nor any other veth end inside a node.
Runs(n) == /\ container[n] # None
           /\ container[n].running
           /\ Opens(n)

InUse(p, e) == p.stage[e] = IF NodeIsSwitch(p.link[e].node) THEN "port" ELSE "up"

MachineIsRight ==
    /\ \A n \in NodeId : IF n \in NodesOf(desired) THEN Runs(n) ELSE container[n] = None
    /\ \A l \in LinksOf(desired) : \E p \in veths :
          /\ p.id = l
          /\ endpointsEqual(p.link, desired.links[l])
          /\ \A e \in End : InUse(p, e)
    /\ LET inside == {p \in veths : \E e \in End : p.stage[e] # "root"}
       IN  \A p, q \in inside : p.id \in LinksOf(desired) /\ (p.id = q.id => p = q)

CleanlyDone == Done /\ clean

\* Without failed calls, every cycle brings the machine to what its document
\* asks for, from whatever document was there before.
CleanCycleBuildsTheLab ==
    CleanlyDone /\ faults = 0 /\ disturbances = 0 => MachineIsRight

\* A rebuild repairs everything: whatever earlier failures, crashes and reboots
\* have left behind, a clean cycle that creates all its nodes succeeds.
RebuildRepairsEverything ==
    CleanlyDone /\ built = NodesOf(desired) => MachineIsRight

\* "Fix the red node, re-run, is the whole recovery model": once calls stop
\* failing, the next cycle succeeds.
RerunRepairs == CleanlyDone /\ disturbances = 0 => MachineIsRight

\* "A crash or VM reboot recovers cleanly."
RebootRecovers == CleanlyDone /\ faults = 0 => MachineIsRight

\* "Re-running a converged reconcile must be a no-op": here it creates and
\* destroys nothing.  It may apply config again, since a hot edit is not written
\* to the label that ReadActual reads.
RerunDisruptsNothing ==
    CleanlyDone /\ faults = 0 /\ disturbances = 0 =>
        \A actual \in Readings : \A o \in Diff(desired, actual) : o.kind = "UpdateNodeConfig"

\* Config is "applied last so it lands on interfaces that already exist": when a
\* clean cycle is through, every node it has created has the settings of the
\* document and the tagged ends in it the addresses their interfaces ask for.  It
\* has no others, while on a node that stays what the document no longer asks for
\* stays too.  An end without a tag is one that CreateLink has not come to: it
\* found the name of the other end taken.  A link between two interfaces of one
\* node is excepted: both its ends get what the second interface asks for.
NewNodesAreAddressed ==
    CleanlyDone =>
        \A n \in built :
            /\ container[n].settings = ToSet(desired.nodes[n].config)
            /\ \A p \in veths : \A e \in End :
                  /\ Inside(p, e, n)
                  /\ p.stage[e] \in Tagged
                  /\ p.link[1].node # p.link[2].node
                  => p.addr[e] = ToSet(desired.nodes[n].ifaces[p.link[e].iface])

Contract == INSTANCE LabContract WITH lab <- Observed

\* No link ID is seen with two pairs of ends, as it is after a link was moved and
\* the removal of its old pair failed.
Unambiguous == \A l \in LinkId : \A x, y \in Sightings(l) : x = y

\* The podman driver implements the contract: while what it reports is
\* unambiguous, every step of it, interrupted or not, is a step of the contract.
ImplementsContract ==
    /\ Contract!ContractInit
    /\ [][Unambiguous /\ Unambiguous' => Contract!ContractStep]_podmanCycleVars

=============================================================================
