------------------------------- MODULE Editor -------------------------------
(***************************************************************************)
(* The canvas in the browser (web/frontend/src/lib: state.svelte.js over   *)
(* api.js) on the store: several pages, each with its own copy of the      *)
(* document and of the layout, read once by init.  An edit computes the    *)
(* next document from the copy and PUTs it with the version of the copy;   *)
(* whatever happens before the answer, the answer replaces the copy.       *)
(* Nothing keeps a page from starting an edit while others are under way,  *)
(* nor before init is through: until then its copy is an empty document    *)
(* of version 0, which init replaces, with whatever has become of it.      *)
(*                                                                         *)
(* A Client of Store is a fetch here, and seen the document it is answered *)
(* with.  A layout is the set of nodes that have a position: where they    *)
(* are makes no difference to anything.                                    *)
(***************************************************************************)
EXTENDS Store

CONSTANTS
    Browser,     \* pages
    Catalog,     \* the nodes the palette offers
    Running,     \* the topologies that may be running when the program starts
    MaxEdits,    \* bound: edits the users make, and nodes they drag
    MaxAccidents \* bound: restarts of the program, reloads of a page, and
                 \* GETs and PUTs whose connection breaks

ASSUME EditorAssumption ==
    /\ Catalog \subseteq Node
    /\ \A t \in Running : t \in Topo /\ Valid(t)
    /\ None \notin Browser
    /\ MaxEdits \in Nat /\ MaxAccidents \in Nat

VARIABLES
    page,        \* loading: init is waiting; open; failed: init has thrown.  A page
                 \* not opened yet is loading, and has not been answered
    gets,        \* what the two GETs of init have been answered with so far
    topologyDoc, \* store.topologyDoc of each page
    layout,      \* store.layout
    drawn,       \* the nodes and links the canvas has drawn so far
    saveTimer,   \* is the debounced save of the layout pending?
    layouts,     \* LayoutStore
    fetch,       \* each PUT of a topology that is under way
    foreign,     \* history: the pages that were in use when the program restarted
    astray,      \* history: the pages that have taken an answer to an edit which
                 \* was not made on the document they had by then, or an answer to
                 \* init that is older than that document
    hasty,       \* history: the pages on which an edit was made before init was
                 \* through
    raced,       \* history: has a PUT been accepted while the document stored was
                 \* not the one its page had made the edit on?
    edits,       \* edits and drags so far
    accidents    \* restarts, reloads and broken connections so far

pageVars    == <<page, gets, topologyDoc, layout, drawn, saveTimer>>
historyVars == <<foreign, astray, hasty, raced>>
editorVars  == <<storeVars, pageVars, layouts, fetch, historyVars, edits, accidents>>

-----------------------------------------------------------------------------
\* The next topology of each edit.

addNode(t, n, node) == [t EXCEPT !.nodes[n] = node]

\* Broken: the links of the node stay.
deleteNodeOnly(t, n) == [t EXCEPT !.nodes[n] = None]

deleteNode(t, n) ==
    [nodes |-> [t.nodes EXCEPT ![n] = None],
     links |-> [l \in LinkId |->
                   IF t.links[l] # None /\ n \in {ep.node : ep \in EndsOf(t.links[l])}
                   THEN None ELSE t.links[l]]]

interfaceInUse(t, ep) == \E l \in LinksOf(t) : ep \in EndsOf(t.links[l])

addLink(t, l, link) == [t EXCEPT !.links[l] = link]

deleteLink(t, l) == [t EXCEPT !.links[l] = None]

Edit == [kind : {"addNode"}, id : NodeId, arg : Catalog]
        \cup [kind : {"deleteNode"}, id : NodeId, arg : {None}]
        \cup [kind : {"addLink"}, id : LinkId, arg : Link]
        \cup [kind : {"deleteLink"}, id : LinkId, arg : {None}]

Edited(t, e) == CASE e.kind = "addNode"    -> addNode(t, e.id, e.arg)
                  [] e.kind = "deleteNode" -> deleteNode(t, e.id)
                  [] e.kind = "addLink"    -> addLink(t, e.id, e.arg)
                  [] e.kind = "deleteLink" -> deleteLink(t, e.id)

\* idle; sent: not yet at the server; handled: with a handler; ok, refused:
\* answered.  A fetch whose page has gone, or has seen the connection break, is
\* by nobody.
NoFetch == [pc |-> "idle", by |-> None, edit |-> None, base |-> NewStore,
            foreign |-> FALSE]
Fetch   == [pc : {"sent", "handled", "ok", "refused"}, by : Browser \cup {None},
            edit : Edit, base : Document, foreign : BOOLEAN]

Body(c) == Edited(fetch[c].base.topology, fetch[c].edit)

Adopted(t) == [topology |-> t, version |-> 1]

\* The two GETs of init: those that are in, and with what.
Parts     == {"topology", "layout"}
Answers   == [parts : SUBSET Parts, doc : Document, layout : SUBSET NodeId]
NoAnswers == [parts |-> {}, doc |-> NewStore, layout |-> {}]

EditorInit ==
    /\ store \in {NewStore} \cup {Adopted(t) : t \in Running}
    /\ changes = FALSE
    /\ handler = [c \in Client |-> NoRequest]
    /\ seen = [c \in Client |-> NewStore]
    /\ page = [b \in Browser |-> "loading"]
    /\ gets = [b \in Browser |-> NoAnswers]
    /\ topologyDoc = [b \in Browser |-> NewStore]
    /\ layout = [b \in Browser |-> {}]
    /\ drawn = [b \in Browser |-> {}]
    /\ saveTimer = [b \in Browser |-> FALSE]
    /\ layouts = {}
    /\ fetch = [c \in Client |-> NoFetch]
    /\ foreign = {}
    /\ astray = {}
    /\ hasty = {}
    /\ raced = FALSE
    /\ edits = 0
    /\ accidents = 0

-----------------------------------------------------------------------------
(* A page loads: init asks for both documents at once.  When it has both,  *)
(* they replace what the page has, and assignMissingPositions places the   *)
(* nodes without a position.  Nobody waits for init: the user can edit as  *)
(* soon as the page is there.                                              *)

\* GET /api/topology and GET /api/layout at the server.
Gets(b, part) ==
    /\ page[b] = "loading"
    /\ part \notin gets[b].parts
    /\ gets' = [gets EXCEPT ![b] =
                   [parts  |-> @.parts \cup {part},
                    doc    |-> IF part = "topology" THEN store ELSE @.doc,
                    layout |-> IF part = "layout" THEN layouts ELSE @.layout]]
    /\ UNCHANGED <<storeVars, page, topologyDoc, layout, drawn, saveTimer, layouts, fetch,
                   historyVars, edits, accidents>>

\* Broken: the nodes without a position are left alone.
assignNoPositions(doc, saved) == saved

assignMissingPositions(doc, saved) == saved \cup NodesOf(doc.topology)

\* What the canvas draws of a topology.
Drawn(t) == NodesOf(t) \cup LinksOf(t)

\* Both are in.
Loads(b) ==
    /\ page[b] = "loading"
    /\ gets[b].parts = Parts
    /\ page' = [page EXCEPT ![b] = "open"]
    /\ gets' = [gets EXCEPT ![b] = NoAnswers]
    /\ topologyDoc' = [topologyDoc EXCEPT ![b] = gets[b].doc]
    /\ layout' = [layout EXCEPT ![b] = assignMissingPositions(gets[b].doc, gets[b].layout)]
    /\ drawn' = [drawn EXCEPT ![b] = @ \cup Drawn(gets[b].doc.topology)]
    /\ astray' = IF topologyDoc[b].version <= gets[b].doc.version THEN astray
                 ELSE astray \cup {b}
    /\ UNCHANGED <<storeVars, saveTimer, layouts, fetch, foreign, hasty, raced, edits,
                   accidents>>

\* One of the GETs fails, and Promise.all with it: init throws, and nobody catches
\* it.  The page goes on with what it has.
FailsToLoad(b) ==
    /\ page[b] = "loading"
    /\ accidents < MaxAccidents
    /\ accidents' = accidents + 1
    /\ page' = [page EXCEPT ![b] = "failed"]
    /\ gets' = [gets EXCEPT ![b] = NoAnswers]
    /\ UNCHANGED <<storeVars, topologyDoc, layout, drawn, saveTimer, layouts, fetch,
                   historyVars, edits>>

\* A page is reloaded or closed: nobody waits for its fetches any more, and a
\* layout not saved yet is lost.
Leaves(b) ==
    /\ accidents < MaxAccidents
    /\ accidents' = accidents + 1
    /\ page' = [page EXCEPT ![b] = "loading"]
    /\ gets' = [gets EXCEPT ![b] = NoAnswers]
    /\ topologyDoc' = [topologyDoc EXCEPT ![b] = NewStore]
    /\ layout' = [layout EXCEPT ![b] = {}]
    /\ drawn' = [drawn EXCEPT ![b] = {}]
    /\ saveTimer' = [saveTimer EXCEPT ![b] = FALSE]
    /\ fetch' = [c \in Client |-> [fetch[c] EXCEPT !.by = IF @ = b THEN None ELSE @]]
    /\ foreign' = foreign \ {b}
    /\ astray' = astray \ {b}
    /\ hasty' = hasty \ {b}
    /\ UNCHANGED <<storeVars, layouts, raced, edits>>

-----------------------------------------------------------------------------
(* An edit, up to the fetch of putTopology.  IDs are random.               *)

Puts(b, c, e) ==
    /\ fetch[c] = NoFetch
    /\ edits < MaxEdits
    /\ edits' = edits + 1
    /\ fetch' = [fetch EXCEPT ![c] = [pc |-> "sent", by |-> b, edit |-> e,
                                      base |-> topologyDoc[b], foreign |-> b \in foreign]]
    /\ hasty' = IF page[b] = "loading" THEN hasty \cup {b} ELSE hasty
    /\ UNCHANGED <<storeVars, pageVars, layouts, foreign, astray, raced, accidents>>

Topologies == {store.topology} \cup {topologyDoc[b].topology : b \in Browser}
              \cup {gets[b].doc.topology : b \in Browser}
              \cup {Body(c) : c \in {d \in Client : fetch[d] # NoFetch}}

Used == UNION {Drawn(t) : t \in Topologies} \cup UNION {drawn[b] : b \in Browser}

\* Which of the new IDs it is makes no difference: the least.
AddsNode(b, c) ==
    \E n \in NodeId \ Used, node \in Catalog :
        /\ \A m \in NodeId \ Used : n <= m
        /\ Puts(b, c, [kind |-> "addNode", id |-> n, arg |-> node])

\* Of several that are deleted at once each waits for the answer to the one before:
\* by then it may be gone already.
DeletesNode(b, c) ==
    \E n \in NodeId \cap drawn[b] :
        Puts(b, c, [kind |-> "deleteNode", id |-> n, arg |-> None])

\* isValidConnection of two handles on the canvas, which draws one for each
\* interface of the page's document; that is all that speaks for EndpointExists.
AddsLink(b, c) ==
    \E l \in LinkId \ Used, x, y \in Endpoint :
        /\ x.node # y.node
        /\ \A ep \in {x, y} : /\ EndpointExists(topologyDoc[b].topology, ep)
                              /\ ~ interfaceInUse(topologyDoc[b].topology, ep)
        /\ Puts(b, c, [kind |-> "addLink", id |-> l, arg |-> <<x, y>>])

\* Links come after the nodes they have been selected with.
DeletesLink(b, c) ==
    \E l \in LinkId \cap drawn[b] :
        Puts(b, c, [kind |-> "deleteLink", id |-> l, arg |-> None])

-----------------------------------------------------------------------------
(* The server: handleTopology and the store.                               *)

\* 409.
Conflict(c) ==
    /\ fetch[c].pc = "sent"
    /\ fetch[c].base.version \notin {0, store.version}
    /\ fetch' = [fetch EXCEPT ![c] = [@ EXCEPT !.pc = "refused"]]
    /\ UNCHANGED <<storeVars, pageVars, layouts, historyVars, edits, accidents>>

Checks(c) ==
    /\ fetch[c].pc = "sent"
    /\ PutChecked(c, Body(c), fetch[c].base.version)
    /\ fetch' = [fetch EXCEPT ![c].pc = "handled"]
    /\ UNCHANGED <<pageVars, layouts, historyVars, edits, accidents>>

Replaced(c) == handler[c].pc = "checked" /\ handler'[c].pc = "replaced"
Accepted(c) == handler[c].pc = "checked" /\ Valid(Body(c))

Handles(c) ==
    /\ fetch[c].pc = "handled"
    /\ Answer(c)
    /\ fetch' = IF handler'[c] # NoRequest THEN fetch
                ELSE [fetch EXCEPT ![c].pc = IF Valid(Body(c)) THEN "ok" ELSE "refused"]
    /\ raced' = (raced \/ (Accepted(c) /\ store # fetch[c].base))
    /\ UNCHANGED <<pageVars, layouts, foreign, astray, hasty, edits, accidents>>

\* Is anything on the page that came from the server, or goes to it?
InUse(b) == page[b] # "loading" \/ gets[b] # NoAnswers \/ b \in hasty

\* The program dies and comes back; Adopt finds what a cycle has built, or fails.
\* The requests under way die with it.
Restart ==
    /\ accidents < MaxAccidents
    /\ accidents' = accidents + 1
    /\ \/ store' = NewStore
       \/ store.topology # EmptyTopo /\ store' = Adopted(store.topology)
    /\ changes' = (store' # NewStore)
    /\ handler' = [c \in Client |-> NoRequest]
    /\ layouts' = {}
    /\ fetch' = [c \in Client |->
                    IF fetch[c].pc \in {"sent", "handled"}
                    THEN [fetch[c] EXCEPT !.pc = "refused"] ELSE fetch[c]]
    /\ foreign' = {b \in Browser : InUse(b)}
    /\ UNCHANGED <<seen, pageVars, astray, hasty, raced, edits>>

-----------------------------------------------------------------------------
(* The answer, and the layout that follows it.                             *)

\* Broken: whatever is added gets a place.
NextLayoutOfAny(places, e) == IF e.kind \in {"deleteNode", "deleteLink"}
                              THEN places \ {e.id} ELSE places \cup {e.id}

NextLayout(places, e) == CASE e.kind = "addNode"    -> places \cup {e.id}
                           [] e.kind = "deleteNode" -> places \ {e.id}
                           [] OTHER                 -> places

\* Broken: only what is added is saved.
PersistsAddition(e) == e.kind = "addNode"

\* Is persistLayout called?
Persists(e) == e.kind \in {"addNode", "deleteNode"}

\* Broken: the page goes on with the topology it had.
AnswerVersionOnly(b, c) == [topologyDoc[b] EXCEPT !.version = seen[c].version]

\* The page goes on with the document putTopology has returned.
AnswerDoc(b, c) == seen[c]

\* The document answered is the page's own with the edit made, and no older.
Fits(c) == LET doc == topologyDoc[fetch[c].by]
           IN  /\ seen[c].topology = Edited(doc.topology, fetch[c].edit)
               /\ seen[c].version >= doc.version

\* What is resumed when putTopology returns, or throws.
Receives(c) ==
    LET b == fetch[c].by
        e == fetch[c].edit
    IN  /\ fetch[c].pc \in {"ok", "refused"}
        /\ \/ /\ fetch[c].pc = "ok" /\ b # None
              /\ topologyDoc' = [topologyDoc EXCEPT ![b] = AnswerDoc(b, c)]
              /\ layout' = [layout EXCEPT ![b] = NextLayout(@, e)]
              /\ drawn' = [drawn EXCEPT ![b] = @ \cup Drawn(AnswerDoc(b, c).topology)]
              /\ saveTimer' = [saveTimer EXCEPT ![b] = @ \/ Persists(e)]
              /\ astray' = IF Fits(c) THEN astray ELSE astray \cup {b}
           \/ /\ fetch[c].pc = "refused" \/ b = None
              /\ UNCHANGED <<topologyDoc, layout, drawn, saveTimer, astray>>
        /\ fetch' = [fetch EXCEPT ![c] = NoFetch]
        /\ seen' = [seen EXCEPT ![c] = NewStore]
        /\ UNCHANGED <<store, changes, handler, page, gets, layouts, foreign, hasty, raced,
                       edits, accidents>>

\* The connection breaks: putTopology throws, the request may go on.
Breaks(c) ==
    /\ accidents < MaxAccidents
    /\ accidents' = accidents + 1
    /\ fetch[c].pc \in {"sent", "handled", "ok"}
    /\ fetch[c].by # None
    /\ fetch' = [fetch EXCEPT ![c].by = None]
    /\ UNCHANGED <<storeVars, pageVars, layouts, historyVars, edits>>

\* A node is dragged.
MovesNode(b) ==
    /\ edits < MaxEdits
    /\ edits' = edits + 1
    /\ \E n \in NodesOf(topologyDoc[b].topology) :
          layout' = [layout EXCEPT ![b] = @ \cup {n}]
    /\ saveTimer' = [saveTimer EXCEPT ![b] = TRUE]
    /\ UNCHANGED <<storeVars, page, gets, topologyDoc, drawn, layouts, fetch, historyVars,
                   accidents>>

\* The timer of persistLayout, and PUT /api/layout.
SavesLayout(b) ==
    /\ saveTimer[b]
    /\ saveTimer' = [saveTimer EXCEPT ![b] = FALSE]
    /\ layouts' = layout[b]
    /\ UNCHANGED <<storeVars, page, gets, topologyDoc, layout, drawn, fetch, historyVars,
                   edits, accidents>>

EditorNext ==
    \/ \E b \in Browser :
          \/ \E part \in Parts : Gets(b, part)
          \/ Loads(b)
          \/ FailsToLoad(b)
          \/ Leaves(b)
          \/ MovesNode(b)
          \/ SavesLayout(b)
          \/ \E c \in Client : \/ AddsNode(b, c)
                               \/ DeletesNode(b, c)
                               \/ AddsLink(b, c)
                               \/ DeletesLink(b, c)
    \/ \E c \in Client : Conflict(c) \/ Checks(c) \/ Handles(c) \/ Receives(c) \/ Breaks(c)
    \/ Restart

EditorSpec == EditorInit /\ [][EditorNext]_editorVars

-----------------------------------------------------------------------------

EditorTypeOK ==
    /\ StoreTypeOK
    /\ page \in [Browser -> {"loading", "open", "failed"}]
    /\ gets \in [Browser -> Answers]
    /\ topologyDoc \in [Browser -> Document]
    /\ layout \in [Browser -> SUBSET NodeId]
    /\ drawn \in [Browser -> SUBSET (NodeId \cup LinkId)]
    /\ saveTimer \in [Browser -> BOOLEAN]
    /\ layouts \subseteq NodeId
    /\ fetch \in [Client -> Fetch \cup {NoFetch}]
    /\ foreign \subseteq Browser
    /\ astray \subseteq Browser
    /\ hasty \subseteq Browser
    /\ raced \in BOOLEAN
    /\ edits \in Nat
    /\ accidents \in Nat

\* The canvas never asks for a lab that cannot be built: whatever has happened to
\* its document meanwhile, an edit of it is not turned down with 422.
CanvasSendsValidDocuments ==
    \A c \in Client : fetch[c] # NoFetch => Valid(Body(c))

\* "The server rejects a stale version with 409 rather than silently overwriting a
\* change the client hasn't seen yet": what an accepted PUT makes of the document
\* is the user's edit of it and nothing else.  It takes a version to check (not
\* that of a new store, 0, which the server takes for no version at all), one
\* that is still current when the document is replaced, and a page that has
\* not lived through a restart, since versions start again.
EditsApplyToWhatIsStored ==
    [][\A c \in Client :
          /\ Replaced(c)
          /\ fetch[c].base.version # 0
          /\ fetch[c].base.version = store.version
          /\ ~ fetch[c].foreign
          => store'.topology = Edited(store.topology, fetch[c].edit)]_editorVars

\* Answers come in any order, yet one never brings back on the page what another
\* has changed, except: after a PUT that overwrote something, on a page that has
\* lived through a restart, on a page that was edited while init was waiting, once
\* init has replaced its document, and when the late answer is to an edit that
\* changed nothing (deleting a link that has gone with its node).
Taken(c) == fetch[c].pc = "ok" /\ fetch[c].by # None /\ fetch'[c] = NoFetch

PagesStayOnCourse ==
    [][\A b \in Browser : b \in astray' \ astray =>
          \/ raced
          \/ b \in foreign
          \/ b \in hasty /\ page'[b] = "open"
          \/ \E c \in Client : Taken(c) /\ Body(c) = fetch[c].base.topology]_editorVars

\* The canvas draws no node on top of another for want of a position: a page
\* that is on course has one for every node it shows.
EveryNodeHasAPlace ==
    \A b \in Browser \ astray : NodesOf(topologyDoc[b].topology) \subseteq layout[b]

\* What a user alone has arranged is what a reload will show, once the timer has
\* run out: the layout saved, if any, is the one on the page.  Not so if init has
\* replaced the layout after an edit.
OnePageKeepsItsLayout ==
    \A b \in Browser :
        /\ ~ saveTimer[b]
        /\ ~ (b \in hasty /\ page[b] = "open")
        /\ \A a \in Browser \ {b} : ~ InUse(a)
        /\ accidents = 0
        /\ layouts # {}
        => layouts = layout[b]

=============================================================================
