------------------------------- MODULE Store --------------------------------
(***************************************************************************)
(* The topology document (internal/store) and the handlers of              *)
(* /api/topology (internal/httpapi) that read and replace it.              *)
(*                                                                         *)
(* net/http runs every request on a goroutine of its own, so a PUT is      *)
(* three steps that others interleave with: the version check (store.Get), *)
(* the replacement under the store's lock, and the notification after the  *)
(* lock is released.                                                       *)
(***************************************************************************)
EXTENDS Topology

CONSTANTS
    Client,       \* browsers, each with at most one request under way
    Submissions,  \* the topologies clients may PUT, invalid ones included
    MaxVersion    \* bound: the version at which clients stop submitting

ASSUME SubmissionsAssumption == Submissions \subseteq Topo
ASSUME MaxVersionAssumption == MaxVersion \in Nat

VARIABLES
    store,    \* Store.doc
    changes,  \* the subscription channel the engine holds: is its slot full?
    handler,  \* the request each client has under way
    seen      \* the document each client last received

storeVars == <<store, changes, handler, seen>>

NewStore == [topology |-> EmptyTopo, version |-> 0]

\* idle; checked: past the version check; replaced: before notify.
Handler == [pc : {"idle", "checked", "replaced"}, put : Document]
NoRequest == [pc |-> "idle", put |-> NewStore]

StoreInit ==
    /\ store = NewStore
    /\ changes = FALSE
    /\ handler = [c \in Client |-> NoRequest]
    /\ seen = [c \in Client |-> NewStore]

\* GET /api/topology.
Get(c) ==
    /\ handler[c].pc = "idle"
    /\ seen' = [seen EXCEPT ![c] = store]
    /\ UNCHANGED <<store, changes, handler>>

\* PUT, up to and including the version check; version 0 skips it.  A request
\* answered with 409 changes nothing.
PutChecked(c, t, v) ==
    /\ handler[c].pc = "idle"
    /\ store.version < MaxVersion
    /\ v = 0 \/ v = store.version
    /\ handler' = [handler EXCEPT ![c] =
                      [pc |-> "checked", put |-> [topology |-> t, version |-> v]]]
    /\ UNCHANGED <<store, changes, seen>>

\* Store.Replace turns the topology down: 422.
PutInvalid(c) ==
    /\ handler[c].pc = "checked"
    /\ ~ Valid(handler[c].put.topology)
    /\ handler' = [handler EXCEPT ![c] = NoRequest]
    /\ UNCHANGED <<store, changes, seen>>

\* Store.Replace finds t not Equal to what it has.  Equal compares JSON, in which
\* a nil list is null and an empty one is []; so a topology without nodes, or
\* without links, is unequal to itself if the client spells it the other way.
Replaces(t) == \/ t # store.topology
               \/ NodesOf(t) = {}
               \/ LinksOf(t) = {}

\* Store.Replace of an equal topology: no new version, no notification.
PutUnchanged(c) ==
    /\ handler[c].pc = "checked"
    /\ Valid(handler[c].put.topology)
    /\ handler[c].put.topology = store.topology
    /\ handler' = [handler EXCEPT ![c] = NoRequest]
    /\ seen' = [seen EXCEPT ![c] = store]
    /\ UNCHANGED <<store, changes>>

\* Broken: the new version is computed from the request.
PutTrustsVersion(c) ==
    /\ handler[c].pc = "checked"
    /\ Valid(handler[c].put.topology)
    /\ Replaces(handler[c].put.topology)
    /\ store' = [topology |-> handler[c].put.topology,
                 version  |-> handler[c].put.version + 1]
    /\ handler' = [handler EXCEPT ![c] = [pc |-> "replaced", put |-> store']]
    /\ UNCHANGED <<changes, seen>>

\* Broken: notify is not called.
PutReplacesSilently(c) ==
    /\ handler[c].pc = "checked"
    /\ Valid(handler[c].put.topology)
    /\ Replaces(handler[c].put.topology)
    /\ store' = [topology |-> handler[c].put.topology,
                 version  |-> store.version + 1]
    /\ handler' = [handler EXCEPT ![c] = NoRequest]
    /\ seen' = [seen EXCEPT ![c] = store']
    /\ UNCHANGED changes

\* Store.Replace up to the release of the lock.
PutReplaces(c) ==
    /\ handler[c].pc = "checked"
    /\ Valid(handler[c].put.topology)
    /\ Replaces(handler[c].put.topology)
    /\ store' = [topology |-> handler[c].put.topology,
                 version  |-> store.version + 1]
    /\ handler' = [handler EXCEPT ![c] = [pc |-> "replaced", put |-> store']]
    /\ UNCHANGED <<changes, seen>>

\* Broken: the answer is read from the store once more.
PutAnswersStored(c) ==
    /\ handler[c].pc = "replaced"
    /\ changes' = TRUE
    /\ handler' = [handler EXCEPT ![c] = NoRequest]
    /\ seen' = [seen EXCEPT ![c] = store]
    /\ UNCHANGED store

\* notify fills the engine's slot if it is empty, and the client has its answer.
PutNotifies(c) ==
    /\ handler[c].pc = "replaced"
    /\ changes' = TRUE
    /\ handler' = [handler EXCEPT ![c] = NoRequest]
    /\ seen' = [seen EXCEPT ![c] = handler[c].put]
    /\ UNCHANGED store

Answer(c) == PutInvalid(c) \/ PutUnchanged(c) \/ PutReplaces(c) \/ PutNotifies(c)

ClientStep ==
    \E c \in Client :
        \/ Get(c)
        \/ \E t \in Submissions, v \in {0, seen[c].version} : PutChecked(c, t, v)
        \/ Answer(c)

\* The subscriber empties its slot.
TakesChange ==
    /\ changes
    /\ changes' = FALSE
    /\ UNCHANGED <<store, handler, seen>>

StoreNext == ClientStep \/ TakesChange

StoreSpec == StoreInit /\ [][StoreNext]_storeVars

-----------------------------------------------------------------------------

StoreTypeOK ==
    /\ store \in Document
    /\ changes \in BOOLEAN
    /\ handler \in [Client -> Handler]
    /\ seen \in [Client -> Document]

\* Whatever order requests take effect in, what is stored can be built.
StoredIsValid == Valid(store.topology)

\* A version names one content: whoever holds the current version number, as a
\* document received or as the version check of a request that passed, holds
\* the current topology.  The version check is worth nothing without this.
VersionNamesOneContent ==
    \A c \in Client :
        /\ seen[c].version <= store.version
        /\ seen[c].version = store.version => seen[c].topology = store.topology
        /\ handler[c].pc = "replaced" =>
              /\ handler[c].put.version <= store.version
              /\ handler[c].put.version = store.version =>
                    handler[c].put.topology = store.topology

\* "A mismatch returns 409 rather than silently overwriting a change the client
\* has not seen yet": a PUT with a version replaces that version only.
NoSilentOverwrite ==
    [][\A c \in Client :
          handler[c].pc = "checked" /\ handler'[c].pc # "checked"
          /\ handler[c].put.version # 0 /\ store' # store
              => store.version = handler[c].put.version]_storeVars

=============================================================================
