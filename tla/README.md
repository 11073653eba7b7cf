# Hivenet in TLA+

Hivenet keeps a network lab of containers and veth pairs in the shape of a
document that browsers edit together. This directory models how it does that: the
pages of the browser, the document store and its HTTP handlers, the engine that
reconciles the lab with the document, the podman driver underneath, the fan-out of
statuses to browsers and the traffic poller. TLC checks the models on small
instances; TLAPS proves every safety property of a run that passes for every value of
the constants. Paths below are relative to `src/`.

## 1. The system

### Components, their state and their operations

| Component | Code | State | Operations |
|---|---|---|---|
| topology document | `internal/topology/topology.go` | a value: nodes, interfaces, links, version | `Validate`, `Equal`, `Normalize` |
| topology store | `internal/store/store.go` | `doc`, subscribers' channels of depth one | `Get`, `Replace`, `Subscribe`, `notify` |
| layout store | `internal/store/store.go` | one opaque JSON value | get, set |
| REST handlers | `internal/httpapi/server.go` | one goroutine per request | GET and PUT `/api/topology`, POST `/api/reconcile`, layout, status, health |
| sockets | `internal/httpapi/ws.go` | one goroutine per connection | `handleWS`, `writeMessage`; the terminal socket is a stub |
| diff | `internal/reconcile/diff.go`, `ops.go` | none | `Diff`, phases |
| reconcile cycle | `internal/reconcile/engine.go`, `status.go` | `status`, failures of the cycle | `ReconcileNow`, `apply`, `applyOp`, `buildStatus`, `fail` |
| engine loop | `internal/reconcile/engine.go` | debounce timer, trigger channel | `Run`, `Trigger`, `Adopt` |
| status fan-out | `internal/reconcile/engine.go` | subscriber channels | `setStatus`, `Subscribe`, unsubscribe |
| traffic poller | `internal/reconcile/traffic.go` | `trafficBaseline` | `pollTraffic`, `counterDelta`, `publishTraffic` |
| driver contract, in-memory driver | `internal/driver/driver.go`, `fake/fake.go` | nodes and links | create, destroy, update, read |
| podman driver | `internal/driver/podman/*.go` | the machine: containers, symlinks in `/var/run/netns`, veth pairs | the same, each as a sequence of podman and netlink calls |
| process | `cmd/hivenet/main.go` | none of its own | start with `Adopt`, shutdown |
| browser state | `web/frontend/src/lib/state.svelte.js`, `api.js`, `ws.js` | copies of document and layout, status shown, the layout's save timer | load, add and delete nodes and links, move, `PUT`, `/ws` |
| canvas | `web/frontend/src/lib/Shell.svelte` and components | none of its own | drop, connect, drag and delete call the browser state |

`PROJECT.json` lists them again with what is modelled of each, and those left out.

### How they interact

A page GETs document and layout when it loads, and replaces what it has by them when
both are in. Nobody waits for that (`Shell.svelte:81-83`): until then, and after a GET
that failed, the user edits an empty document of version 0. An edit computes the next
document from the page's copy, PUTs it whole with the copy's version, and replaces the
copy by the answer when that comes; other edits may be under way meanwhile. Version 0
skips the check. Positions are saved apart, 400 ms after the last change of one.
`handleTopology` checks the version, then `Replace` validates, compares and stores
under the lock, and notifies after the lock is released. The engine's `Run` goroutine
selects on the store's channel, on the trigger of POST `/api/reconcile`, on the
debounce timer and on the traffic tick. When the timer fires, `ReconcileNow` takes a
snapshot of the document, reads the lab (`ReadActual`), diffs, publishes an
*applying* status, applies the operations one by one, records failures without
rolling back, reads the lab again and publishes the outcome. `setStatus` copies the
subscriber channels under the lock and sends outside it. A handler of `/ws` takes a
status out of its channel and then writes it to the browser, for up to ten seconds, in
which any number of statuses may be published. Containers and veth pairs
live outside the process: they outlive it, and change behind its back. At start,
`Adopt` turns the lab it finds into the document.

### What is hard here

- PUTs of several clients interleave between version check, replacement and notice.
- The slot of depth one, the debounce timer and the snapshot before the cycle must
  not lose the last edit between them.
- An operation fails, perhaps after taking effect, and the later ones run anyway.
- Destroying a node destroys its veth pairs, so operations depend on one another
  through effects no operation names; one sort by phase has to get it right.
- Containers die and appear between two driver calls.
- The process dies between two driver calls, or inside a driver method between two
  podman calls; the machine reboots.
- A page has several edits under way; their answers come in any order, and after the
  page has become another one; the first edits are made before the page has loaded.
- Browsers come, go and stall while the engine sends to their channels, with a status
  in their hands that is not shown yet.
- Byte counters restart from zero whenever a pair is rebuilt, unannounced.

`PROJECT.json` lists these hazards, each at its line, with the properties aimed at
it or the reason there is none.

### What makes each component correct

- *Store*: only valid documents are stored; a version number names one content.
- *Cycle*: a clean cycle leaves nothing to do; a failure stays with its entity; no
  failure comes from the order of operations; nothing that can stay goes down; the
  status tells the truth.
- *Loop*: no edit is lost; when the program is quiet the last document is done;
  every edit and every request is answered; an adopted lab is left alone.
- *Fan-out*: dropped frames lose nothing; slow browsers do not stall the engine.
- *Pages*: what the canvas sends is valid; an accepted edit changes what the user
  changed and nothing else; answers take nothing back; every node has a place.
- *Podman driver*: on what `ReadActual` returns, each method is one step of the
  contract, interrupted or not; a rebuild repairs whatever was left behind.
- *Poller*: no byte is published twice, and none between two readings of a pair is
  skipped.

## 2. The modules

```
Topology ─┬─ Diff ──────┬─ Reconciler ─┬─ Engine        (whole program)
          ├─ LabDriver ─┤              │
          │             └─ Podman ── PodmanCycle ··> LabContract
          └─ Store ─────┬──────────────┘
                        └─ Editor                       (pages and store)
Fanout, Traffic                                         (on their own)
```

| Module | Models | Notes |
|---|---|---|
| `Topology` | document, `Validate` | collections are functions from IDs to values or `None`, the quotient that `Equal` and the index helpers work with |
| `Diff` | `Diff`, `phase`, change predicates | the operation list is a set and the order `Precedes` |
| `LabDriver` | effect and refusals of each driver method, from the in-memory driver | operators on a lab, shared by all that follow |
| `Reconciler` | `ReconcileNow` and everything it calls | one step per driver call; outside changes between any two |
| `Store` | store and `/api/topology` | a PUT is three steps: check, replace, notify |
| `Engine` | `Run`, `Trigger`, `Adopt`, process death | extends `Store` and `Reconciler`: their actions are its actions, with the rest unchanged |
| `Editor` | the pages, `init`, their fetches, the layout | extends `Store`: a `Client` is a fetch; program restarts, reloads and broken connections are *accidents* |
| `Fanout` | `setStatus`, subscriptions, `handleWS` | each `select` of `setStatus` is a step, and taking a status and writing it are two; a status is the number of its publication |
| `LabContract` | `driver.Driver` as an abstract machine | each operation is one atomic step on what `ReadActual` returns |
| `Podman` | the podman driver call by call | machine state: `container`, `symlink`, `veths`; `call` is the method under way and its next podman or netlink call |
| `PodmanCycle` | the cycle on `Podman` | no statuses, which `Reconciler` covers; failed calls, readings that miss links, process death, reboots |
| `Traffic` | `pollTraffic` and what surrounds it | a cycle is one step here: polls and cycles share a goroutine |
| `*Proofs` | theorems about the module they are named for | `EngineProofs` builds on those of the store and the cycle, `EditorProofs` on those of the store; `PodmanCleanProofs` on `PodmanProofs`, which are both about `PodmanCycle` |
| `MC*` | instances for TLC | documents chosen so that operations interact |

In a module's first half every definition is that of the code, named after it where
possible. Definitions marked `Broken:` are deliberately wrong variants of the
definition below them, not part of any specification: substituting one must make
the property it is paired with in `PROJECT.json` fail, so the runs are known to be
able to find that mistake.

### State and code

- `Store`: `store` is `Store.doc`; `changes` is whether the engine's subscription
  channel is full; `handler[c]` is where client *c*'s PUT is; `seen[c]` is the last
  document it received.
- `Reconciler`: `doc` is the snapshot; `lab` is what `ReadActual` would return;
  `at` is the place in `ReconcileNow`; `todo` the rest of the list; `failed` the map
  `apply` fills; `status` is `Engine.status`. `faulted` and `disturbances` are history.
- `Engine`: `trigger` and `armed` are the channel and the timer of `Run`; `alive` the
  process. `adopted` and `untouched` are history.
- `Editor`: `topologyDoc`, `layout` and `saveTimer` are those of each page's
  `state.svelte.js`; `page[b]` is whether `init` is waiting (*loading*), through
  (*open*) or has thrown (*failed*), and `gets[b]` what its two GETs have been answered
  with; a page nobody has opened yet is one that is loading. `drawn[b]` is what the
  canvas has drawn so far, which is what can be deleted; `layouts` is the layout store.
  `fetch[c]` is a PUT with the document it was computed from and the edit; `by` is the
  page that awaits it. `foreign`, `astray`, `hasty` and `raced` are history.
- `Fanout`: `slot[c]` is the channel of connection *c*; `targets`, `stage` and
  `serving` are where `setStatus` is; `handler[c]` is where `handleWS` is, `hand[c]` the
  status it took last, `view[c]` what its browser shows. `frames` is history.
- `Podman`: a veth end goes `root`, `moved`, `tagged`, `up`, `port`; the alias that
  `ReadActual` looks for is there from `tagged` on.

### Abstractions

- IDs are numbers, since `Diff` walks them sorted; images and configs are model
  values. A config stands for its canonical JSON, which `Config.Equal` compares.
- An interface's name travels with its config. The owner label has one value.
- `nil` and `[]` are the same here except where `Equal` tells them apart (`Replaces`).
- In `Engine` a wait for the debounce is the state `armed`; how long it lasts is not
  modelled. A cycle reads one lab: two `ReadActual`s at different steps.
- In `Editor` a layout is the set of nodes that have a position. New IDs are new: the
  code draws them at random, and which one it is makes no difference, so the model takes
  the least unused. The 400 ms of the timer are the state `saveTimer`, and PUT of a
  layout is one step, so that two of them are not reordered.
- A new link joins interfaces that exist because a connection is dragged between two
  handles of the canvas, which draws one for each interface of the page's document
  (`Shell.svelte:43-56`, `CanvasNode.svelte:20-27`); `isValidConnection` and `addLink`
  themselves check only that they are free. The drag is one step: the document of the
  page does not change between its start and its end. What is deleted, on the other
  hand, is anything the canvas has drawn so far: of several elements deleted at once,
  each waits for the answer to the one before, and may be gone by then.
- A namespace that does not answer is passed over by `DestroyLink`, which then returns no
  error (`netlink.go:221-231`), and by `ReadActual`, which then leaves its links out
  (`netlink.go:296-312`). `Podman` models both: the former with a failing call
  (`Abandons`), the latter at the start of a cycle (`BeginsHalfBlind`), each counted
  among the failures.
- In `Fanout` a channel is closed once and a connection used once.
- A *disturbance* is anything but the cycle's own operations that changes the lab.
  Properties of an *undisturbed* cycle say so: nothing can be promised about a lab
  that somebody else takes apart at the same time, and `StatusTellsTheOutcome` is
  about what the second reading saw.

## 3. What is checked

| Run | Instance | Shows |
|---|---|---|
| `reconcile` | 3 nodes, 2 links, 6 documents; 2 faults per cycle, 1 disturbance; 0.8 M states | failures stay isolated and explained; the cycle converges; no needless outage; veths first, config last; the status tells the outcome; the inductive `CycleOnTrack` |
| `engine_clients` | 2 clients, 3 submissions (one invalid), 1 fault, 1 disturbance; 0.7 M | versions name contents; no lost wake-up; versions ordered and never back; quiet means done |
| `engine_live` | 1 client, 1 request, 1 fault, 1 crash; 62 k; fair | an adopted lab is left alone; every edit is answered, every request starts a cycle |
| `editor` | 2 pages, 2 fetches, 2 nodes, 1 link, 2 edits or drags, 1 accident; 0.6 M | the canvas sends valid documents; an accepted edit applies to what is stored; late answers take nothing back; every node has a place; a page alone keeps its layout |
| `fanout` | 2 browsers, 3 publications; 83 k; engine fair | nothing newer is lost; a view goes back only once, and only while the newest status is on its way; the engine never stalls; the newest status arrives |
| `podman` | 3 nodes, 1 link, 6 documents, 2 failures, readings that miss links or deaths, 2 reboots or stops; 1.2 M | a clean cycle builds the lab; a re-run disrupts nothing; a created node gets its addresses and settings and no others; a reported link has a wire; no leaking symlinks; a rebuild repairs everything; the driver implements `LabContract` on what `ReadActual` returns |
| `traffic` | 1 link, 2 bytes; 39 k | nothing published twice, nothing skipped |
| `store_overwrite` | 2 clients | **violation**, see below |
| `engine_restart` | 1 client, 1 request, 1 crash | **violation** |
| `fanout_panics` | 2 browsers | **violation** |
| `podman_rerun`, `podman_reboot` | as `podman`, one fault or one disturbance | **violations** |

**Why the bounds are enough.** The documents of `MCReconciler` differ by the edits
whose operations interact: cold change, hot change, swapped ends, a moved wire, an
interface taken over by another link, everything deleted; every ordered pair of them
is a cycle. Two faults are needed for one failure to be met by another (a node and
the wire at its other end). Two clients are needed for a race of PUTs; a version
bound of 2 lets both change the document, and one past the bound once both are past
the check. In `Fanout` three publications fill a slot, find it full, and find it full
again, and the handler can hold the first in its hand while the other two come. In
`PodmanCycle` two failures make a failure during the repair of the first;
its documents include a link between two interfaces of one node, which `Validate`
allows, and one whose wire leaves a node and keeps its other end in place, so that a
`DestroyLink` that fails leaves ends in the way of the next `CreateLink`. In `Editor` two edits are
enough for every race of PUTs, every pair of answers out of order, an edit on a page
that another one changes, and an edit or a drag before, between and after the two GETs of
`init`; the accident, a failing GET among them, can come at any point of them, and with
two pages and two fetches the edits are of one page or of two. In `Traffic` links do not interact (proved: each step of a poll is by
link), so one is enough, and with two bytes a new pair falls short of, meets or
passes the old reading. The theorems below hold without any of these bounds.

Pages and fetches are interchangeable, so `editor` uses their symmetry (it checks no
liveness); no other run uses any.

`CHECK_DEADLOCK FALSE` is said for `Engine`, `Editor` and `Fanout`, where a program
that nobody uses has nothing to do, and whose bounded clients, edits and publications
run out.

**Fairness.** Weak fairness of each handler's own step, of the loop's receives, of
the timer and of the cycle: goroutines are scheduled, Go's `select` picks among the
ready cases at random, the timer is re-armed finitely often because clients submit
finitely often, and driver calls run under contexts and return with or without an
error. Clients, faults, disturbances, crashes and restarts are never fair.
`EngineNeverStalls` assumes nothing of the handlers at all. `NewestStatusArrives`
carries its own assumption, `ReadersAreServed`: a handler gets to run, and a write to
a dead browser ends in the timeout of `writeMessage`.

### Divergences between the code and what it says

Those kept as runs (`findings` in `PROJECT.json` quotes both sides):

- `store_overwrite`: `handleTopology` compares the version and replaces the document
  in two critical sections; two PUTs with the current version both go through, and
  the second overwrites silently (`server.go:99-101` promises a 409).
- `fanout_panics`: `setStatus` sends to channels that it copied under the lock, and
  unsubscribe closes them under the lock: a browser that leaves in between makes the
  engine send on a closed channel.
- `engine_restart`: when `Adopt` fails, the program goes on with an empty document,
  and the next requested cycle removes the lab.
- `podman_rerun`: a container whose start or symlink failed counts as a finished node,
  a half configured link end as a finished link; "fix the red node, re-run"
  (`engine_test.go:97-98`) does not repair them.
- `podman_reboot`: stopped containers are listed as nodes that are there, so after a
  reboot nothing is started again.

Those seen in the models and stated as exceptions of properties that hold, or not at all:

- A second `ReadActual` that errs leaves entities *applying* after the cycle
  (`fail`, against `engine.go:302-303`); `StatusTellsTheOutcome` excludes
  statuses with an error.
- After a hot edit, every further cycle of the podman driver calls
  `UpdateNodeConfig` again: the label `ReadActual` decodes is not rewritten (against
  `engine_test.go:82`); `RerunDisruptsNothing` allows for it.
- A node whose neighbour is recreated gets a new veth end, and no `UpdateNodeConfig`
  is scheduled for it, so its address is gone; `NewNodesAreAddressed` is about the
  recreated node only.
- A PUT that spells an empty list `[]` where the store holds `null` advances the
  version of an equal topology (against `store.go:44`).
- A link whose endpoints a client sends the other way round keeps its pair
  (`diff.go:153-154`), but `LinkCounters` then looks for end 0 in the wrong
  namespace: it stays up and is never sampled (against `traffic.go:58`).
- A page that loaded before the first edit holds version 0, which the server takes for
  no version, so its first edit overwrites what it has not seen (against
  `api.js:3-5`). So does a page whose `init` is still waiting, or has failed for good
  (nobody catches it, and the page stays usable on the empty document it started with):
  a node dropped there replaces the whole lab by that node. After a restart versions start again, and a page from before
  may hold a number that now names another document. `EditsApplyToWhatIsStored`
  excludes both, and the race of `store_overwrite`.
- Deleting a node deletes its links on the canvas too, each by a PUT of its own that
  changes nothing any more. The server answers those with the document and version it
  has, so a late answer to one takes the page back; `PagesStayOnCourse` excludes
  them.
- When `init` comes through after an edit, it replaces document and layout by what its
  GETs returned, perhaps before that edit: the new node vanishes from the page although
  it is stored, or its position does although it was saved (against
  `state.svelte.js:1-2`). `PagesStayOnCourse` and `OnePageKeepsItsLayout` except a page
  edited before `init` was through, the latter once it is.
- The initial status can overtake one that waits in the channel, and the browser then
  goes back to the older one, against the order of publication. `ViewGoesBackOnlyOnce`
  says that this happens only with the first frame, and that the newest status follows.
- The layout is one value that the last page to save replaces: with several pages, one
  drops the positions of the other. `OnePageKeepsItsLayout` is about a page alone.
- Both ends of a link between two interfaces of one node, which `Validate` allows, get
  the address of the second interface: `UpdateNodeConfig` takes the last endpoint that
  names the node (`netlink.go:403`, against its comment "per-interface" above);
  `NewNodesAreAddressed` excepts them.
- After a `DestroyLink` that failed, a pair of the link's old ends can keep the name
  that `CreateLink` gives the new one: it moves end 0, finds the name of end 1 taken in
  the other namespace, and returns an error that no fault of this cycle has caused. The
  moved end stays without alias and address; `NewNodesAreAddressed` speaks of tagged
  ends, and `clean` of failures that come from outside (`CallFails`), not of such errors.
- An address, route or setting taken out of the document stays on a node that is not
  recreated; `NewNodesAreAddressed` is about the nodes a cycle creates.
- A cycle started for any reason also corrects whatever has drifted by then, where
  `status.go:26-27` says v1 does not auto-correct.

## 4. What is proved

All theorems hold for any sets of nodes, interfaces, links, documents, clients, pages
and browsers, any bounds and any number of steps. Assumptions: IDs are natural numbers
(for the sorted walk), there is a node ID, `None` is not a value of the sets it
extends, the empty config is a config, the documents handed to `Reconciler`,
`PodmanCycle` and `Editor` (found running) are valid, bounds are natural numbers. TLC
evaluates each of them on every run.

- **`ReconcilerProofs`**. The properties of a cycle are not inductive: halfway,
  nodes are missing and links are down. The strengthening is `CycleOnTrack`: between
  any two operations of an undisturbed cycle each entity is *on track* for exactly
  the operations still in `todo`. A node to be destroyed although wanted is to be
  created too; a node about to be created is absent; a node without a failure and
  without operations is right; a link that is right is not about to lose an end.
  `StartOnTrack` shows that `Diff` begins on track; one lemma per operation shows
  that it keeps every entity so, in phase order (`NextPhase`); `EndsAreDone` turns
  the empty `todo` into `FailuresStayIsolated`. `FailuresAreExplained` comes with it
  as a second inductive part (a link rejected for want of an end has a faulted end
  node), `CleanCycleConverges` and `StatusTellsTheOutcome` follow through lemmas on
  `Diff` of a lab that is right, and the three action properties by looking at what
  the operation that makes the step can remove.
- **`StoreProofs`**. `VersionNamesOneContent` is inductive with the type invariant:
  every number a client holds came from a `store` of this process, and `Replace`
  takes the successor. `StoredIsValid` likewise. That theorem and the type of
  `Reconciler` are proved only: no run repeats them.
- **`EngineProofs`**. `PartsInv` collects the invariants of the parts, with
  `Forgotten` (a dead process remembers nothing), and is shown to survive every
  action of the whole. On it rest `NoLostWakeup` (each action that lets `store` and
  `doc` differ leaves a handler about to announce, a full slot or an armed timer),
  the order of versions, `QuietMeansDone` (wake-ups, versions and the outcome of the
  last cycle together) and `AdoptedLabIsLeftAlone` (with `Intact`: document and lab
  stay equal until somebody edits either, and equal things have an empty `Diff`).
- **`TrafficProofs`**. `TrafficInv` adds to the types what the counters of the
  present pair, the baseline and the bytes since the last reading have to do with
  each other (`BaselinesAreAccountedFor`), by whether the baseline was read off the
  present pair or an earlier one. A poll publishes within those accounts, a rebuild
  starts new ones.
- **`EditorProofs`**. The canvas sends valid documents because every document it can
  come by is valid (`ValidInv`) and every edit keeps it so: `deleteNode` takes the links
  along, a new link joins free interfaces. `SessionInv` says which page awaits a fetch
  and which handler has it. `LayoutInv` says of a page that has always been alone that
  what was saved is what it shows, unless an edit was made there before `init` was
  through: then it shows what the GETs of `init` have brought. `KnownInv`: of the documents held by pages that
  have not lived through a restart, by their fetches and by the store, those with one
  version are one document, and so are the answers to GETs not taken yet. `CourseInv`, of
  pages whose edits `init` has not overtaken (`Watched`): until a PUT overwrites something, at most one
  awaited fetch of a page has changed the store, and it was computed from the very
  document the page still shows; the answers of all others change nothing.
- **`FanoutProofs`**. Nothing in a channel or on a screen is ahead of the newest status
  (`NothingIsAhead`), a channel is registered as long as its handler runs, and a
  subscriber that `setStatus` has nothing left to send to is up to date, counting the
  status in the hand of its handler. Each of its three selects keeps that for the channel
  in hand, and a handler that takes a status or writes it only moves it on towards the
  browser. For `ViewGoesBackOnlyOnce` `FramesInOrder` says that after the first frame of
  a channel each status taken, waiting or to be sent is newer than the one before, and
  that the initial picture is written to a browser that shows nothing yet; so only the
  first frame can be older than what is shown.
- **`PodmanProofs`**. A live symlink has its container (`ContainersAreThere`); while
  `CreateLink` moves the ends, the only pair under its ID that is not out of the root
  namespace is its own, and afterwards there is none (`OwnPairOnly`): leftovers were
  removed, or made `LinkAdd` fail. So an end is tagged only when both have moved.
  The refinement, in the same module: as long as no link ID is found with two
  pairs of ends, what `ReadActual` returns is a function of the labels and tagged
  pairs (`ObservedIsView`), for every end that is out of the root namespace is in one
  that opens (`EndsAreReachable`). One lemma per kind of call shows its step on that
  view: creating a container is `CreateNode`, tagging the first end `CreateLink`,
  deleting the pair `DestroyLink`, removing a container `DestroyNode`, with the
  links whose namespaces it takes along; every other call changes nothing. That
  `CreateLink` tags its own pair and still has both namespaces needs `MethodOnItsWay`.
- **`PodmanCleanProofs`**. What a clean cycle achieves; nothing of it is inductive, since
  halfway through the machine is wrong. `CleanInv` says of every operation that is still
  awaited what the machine lacks, and adds to the invariant above four parts:
  - `NodesInv`, in any clean cycle: calls come in the order of their phases, a container
    that is to be created is absent once it is no longer to be destroyed, and one that
    nothing is awaited for is there with the type and image of the document.
  - `GoodInv`, in a *good* cycle: a clean one before which nothing has gone wrong
    (`Smooth`) or that creates every node anew (`AllNew`). A pair *stands* if it is not
    wholly in the root namespace and has no end in a container still to be destroyed.
    Pairs that stand are in use, and the only ones of their links (`PairsStand`); every
    link without an operation has one, every link to be created has none
    (`PairsAsPlanned`); the pair `CreateLink` works on is, end by end, as far as its place
    in the method says (`OwnPair`, `StageOf`). Leftovers of earlier failures are doomed or
    in the root namespace and so do not stand, and `CreateLink` removes the latter.
  - `SmoothInv`: while nothing has gone wrong, nothing is left over between cycles, which
    is what the first kind of good cycle begins with (`BeginsSmooth`). The second kind
    needs nothing to begin with, because every container there is goes
    (`BeginsAllNew`).
  - `NewNodesInv`, in any clean cycle, good or not: a node this cycle has created is bare
    of addresses and settings (`Plain`) until its `UpdateNodeConfig`, which comes when
    no link is left to create, and has exactly those of the document after it
    (`AsBuilt`, `ConfigPlanned`).

  One lemma per driver step shows that it keeps each part. At the end of the cycle
  nothing is awaited, so nothing is doomed and what stands is what the document asks for
  (`GoodEndIsRight`); that `ReadActual` then returns the document up to configuration
  rests on `ReadingNodes` and `ReadingLinks`.

  `ContractUntilTrouble` follows from the same invariant: while nothing has gone wrong
  no two pairs ever carry one link ID, for `CreateLink` adds its pair when there is none
  (`OwnPair`). So the refinement above holds without its proviso until the first
  failure; two pairs under one ID are what only a failure leaves behind.

**Only model-checked**: liveness (`EveryEditIsAnswered`, `EveryRequestStartsACycle`,
`EngineNeverStalls`, `NewestStatusArrives`), which is beyond the prover. The runs that
expect a violation refute what they check, so there is nothing to prove of them.

## 5. What is not modelled

- Status, health and static handlers, the embedded assets, the driver build tags,
  authentication (accepts everybody) and the terminal (a stub): no state.
- The rules of `Validate` on characters and lengths, `Normalize`, the decoding of
  requests and the parsing of config values: about strings.
- Flags, signals and the draining of HTTP connections: the process dies at any point
  instead.
- The rendering of the canvas, and two PUTs of a layout that overtake each other.
- Several owners on one machine: the program has one.
- Fan-out of traffic samples: `publishTraffic` has the code of `setStatus`, but a
  dropped batch of differences is lost, as `traffic.go:37-40` says.

## 6. Plan

Done: document, diff, cycle, store, the whole program, podman, fan-out, traffic, the
pages of the browser; the proofs of all of them. Left, in the order of what they would
add:

1. `Reconciler` with `Observed` for `lab` as what `PodmanCycle` refines, beyond the
   step-by-step contract.
2. `Topology`: `Normalize`, and that it and `Validate` agree (a normalized valid
   document stays so).
3. An orderly shutdown: the drain of connections and of the engine, and the exit
   without either when the listener fails.
