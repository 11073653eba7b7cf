---------------------------- MODULE EditorProofs ----------------------------
(***************************************************************************)
(* Proofs about Editor, for any number of pages, fetches, edits and        *)
(* accidents.                                                              *)
(***************************************************************************)
EXTENDS Editor, StoreProofs

-----------------------------------------------------------------------------
(* Edits.                                                                  *)

LEMMA EditedType ==
    ASSUME NEW t \in Topo, NEW e \in Edit
    PROVE  Edited(t, e) \in Topo
<1>1. CASE e.kind = "addNode"
  <2>1. e.id \in NodeId /\ e.arg \in Node
    BY <1>1, EditorAssumption DEF Edit
  <2> QED  BY <1>1, <2>1 DEF Edited, addNode, Topo
<1>2. CASE e.kind = "deleteNode"
  BY <1>2 DEF Edit, Edited, deleteNode, Topo
<1>3. CASE e.kind = "addLink"
  <2>1. e.id \in LinkId /\ e.arg \in Link
    BY <1>3 DEF Edit
  <2> QED  BY <1>3, <2>1 DEF Edited, addLink, Topo
<1>4. CASE e.kind = "deleteLink"
  BY <1>4 DEF Edit, Edited, deleteLink, Topo
<1> QED  BY <1>1, <1>2, <1>3, <1>4 DEF Edit

\* What the canvas asks of an edit of t.
Allowed(t, e) ==
    CASE e.kind = "addNode" -> t.nodes[e.id] = None
      [] e.kind = "addLink" -> /\ t.links[e.id] = None
                               /\ e.arg[1].node # e.arg[2].node
                               /\ \A ep \in EndsOf(e.arg) : /\ EndpointExists(t, ep)
                                                           /\ ~ interfaceInUse(t, ep)
      [] OTHER -> TRUE

LEMMA AddNodeValid ==
    ASSUME NEW t \in Topo, Valid(t), NEW n \in NodeId, NEW node \in Node,
           t.nodes[n] = None
    PROVE  Valid(addNode(t, n, node))
<1> DEFINE u == addNode(t, n, node)
<1>1. u.links = t.links /\ LinksOf(u) = LinksOf(t)
  BY DEF addNode, LinksOf
<1>2. \A l \in LinksOf(t) : \A ep \in EndsOf(t.links[l]) : EndpointExists(u, ep)
  <2> SUFFICES ASSUME NEW l \in LinksOf(t), NEW ep \in EndsOf(t.links[l])
               PROVE  EndpointExists(u, ep)
    OBVIOUS
  <2>1. EndpointExists(t, ep)
    BY DEF Valid
  <2>2. ep.node # n
    BY <2>1 DEF EndpointExists
  <2>3. ep.node \in NodeId
    BY DEF LinksOf, Topo, Link, EndsOf, Endpoint
  <2>4. u.nodes[ep.node] = t.nodes[ep.node]
    BY <2>2, <2>3 DEF addNode, Topo
  <2> QED  BY <2>1, <2>4 DEF EndpointExists
<1> QED  BY <1>1, <1>2 DEF Valid

LEMMA DeleteNodeValid ==
    ASSUME NEW t \in Topo, Valid(t), NEW n \in NodeId
    PROVE  Valid(deleteNode(t, n))
<1> DEFINE u == deleteNode(t, n)
<1>1. \A l \in LinksOf(u) : /\ l \in LinksOf(t) /\ u.links[l] = t.links[l]
                            /\ \A ep \in EndsOf(t.links[l]) : ep.node # n
  BY DEF deleteNode, LinksOf, EndsOf
<1>2. \A l \in LinksOf(u) : \A ep \in EndsOf(u.links[l]) : EndpointExists(u, ep)
  <2> SUFFICES ASSUME NEW l \in LinksOf(u), NEW ep \in EndsOf(u.links[l])
               PROVE  EndpointExists(u, ep)
    OBVIOUS
  <2>1. EndpointExists(t, ep) /\ ep.node # n
    BY <1>1 DEF Valid
  <2>2. ep.node \in NodeId
    BY <1>1 DEF LinksOf, Topo, Link, EndsOf, Endpoint
  <2>3. u.nodes[ep.node] = t.nodes[ep.node]
    BY <2>1, <2>2 DEF deleteNode, Topo
  <2> QED  BY <2>1, <2>3 DEF EndpointExists
<1>3. \A l \in LinksOf(u) :
          /\ u.links[l][1] # u.links[l][2]
          /\ \A m \in LinksOf(u) \ {l} :
                EndsOf(u.links[l]) \cap EndsOf(u.links[m]) = {}
  BY <1>1 DEF Valid
<1> QED  BY <1>2, <1>3 DEF Valid

LEMMA AddLinkValid ==
    ASSUME NEW t \in Topo, Valid(t), NEW k \in LinkId, NEW link \in Link,
           t.links[k] = None, link[1].node # link[2].node,
           \A ep \in EndsOf(link) : EndpointExists(t, ep) /\ ~ interfaceInUse(t, ep)
    PROVE  Valid(addLink(t, k, link))
<1> DEFINE u == addLink(t, k, link)
<1>1. u.nodes = t.nodes
  BY DEF addLink
<1>2. \A l \in LinksOf(u) : (l = k /\ u.links[l] = link)
                            \/ (l # k /\ l \in LinksOf(t) /\ u.links[l] = t.links[l])
  BY DEF addLink, LinksOf, Topo
<1>3. \A l \in LinksOf(u) : \A ep \in EndsOf(u.links[l]) : EndpointExists(u, ep)
  BY <1>1, <1>2 DEF Valid, EndpointExists
<1>4. \A l \in LinksOf(u) : u.links[l][1] # u.links[l][2]
  BY <1>2 DEF Valid
<1>5. \A l \in LinksOf(t) : EndsOf(t.links[l]) \cap EndsOf(link) = {}
  BY DEF interfaceInUse
<1>6. \A l, m \in LinksOf(u) :
          l # m => EndsOf(u.links[l]) \cap EndsOf(u.links[m]) = {}
  BY <1>2, <1>5 DEF Valid
<1> QED  BY <1>3, <1>4, <1>6 DEF Valid

LEMMA DeleteLinkValid ==
    ASSUME NEW t \in Topo, Valid(t), NEW k \in LinkId
    PROVE  Valid(deleteLink(t, k))
<1> DEFINE u == deleteLink(t, k)
<1>1. u.nodes = t.nodes
  BY DEF deleteLink
<1>2. \A l \in LinksOf(u) : l \in LinksOf(t) /\ u.links[l] = t.links[l]
  BY DEF deleteLink, LinksOf, Topo
<1> QED  BY <1>1, <1>2 DEF Valid, EndpointExists

LEMMA EditedValid ==
    ASSUME NEW t \in Topo, Valid(t), NEW e \in Edit, Allowed(t, e)
    PROVE  Valid(Edited(t, e))
<1>1. CASE e.kind = "addNode"
  <2>1. e.id \in NodeId /\ e.arg \in Node /\ t.nodes[e.id] = None
    BY <1>1, EditorAssumption DEF Edit, Allowed
  <2>2. Edited(t, e) = addNode(t, e.id, e.arg)
    BY <1>1 DEF Edited
  <2> QED  BY <2>1, <2>2, AddNodeValid
<1>2. CASE e.kind = "deleteNode"
  <2>1. e.id \in NodeId /\ Edited(t, e) = deleteNode(t, e.id)
    BY <1>2 DEF Edit, Edited
  <2> QED  BY <2>1, DeleteNodeValid
<1>3. CASE e.kind = "addLink"
  <2>1. e.id \in LinkId /\ e.arg \in Link
    BY <1>3 DEF Edit
  <2>2. /\ t.links[e.id] = None /\ e.arg[1].node # e.arg[2].node
        /\ \A ep \in EndsOf(e.arg) : EndpointExists(t, ep) /\ ~ interfaceInUse(t, ep)
    BY <1>3 DEF Allowed
  <2>3. Edited(t, e) = addLink(t, e.id, e.arg)
    BY <1>3 DEF Edited
  <2> QED  BY <2>1, <2>2, <2>3, AddLinkValid
<1>4. CASE e.kind = "deleteLink"
  <2>1. e.id \in LinkId /\ Edited(t, e) = deleteLink(t, e.id)
    BY <1>4 DEF Edit, Edited
  <2> QED  BY <2>1, DeleteLinkValid
<1> QED  BY <1>1, <1>2, <1>3, <1>4 DEF Edit

-----------------------------------------------------------------------------
(* Types, and the edits as one action.                                     *)

LEMMA EditsArePuts ==
    ASSUME EditorTypeOK, NEW b \in Browser, NEW c \in Client,
           AddsNode(b, c) \/ DeletesNode(b, c) \/ AddsLink(b, c) \/ DeletesLink(b, c)
    PROVE  \E e \in Edit : Allowed(topologyDoc[b].topology, e) /\ Puts(b, c, e)
<1> DEFINE t == topologyDoc[b].topology
<1>1. t \in Topo /\ Drawn(t) \subseteq Used
  <2>1. t \in Topologies
    BY DEF Topologies
  <2> QED  BY <2>1 DEF Used, EditorTypeOK, Document
<1>2. CASE AddsNode(b, c)
  <2>1. PICK n \in NodeId \ Used, node \in Catalog :
             Puts(b, c, [kind |-> "addNode", id |-> n, arg |-> node])
    BY <1>2 DEF AddsNode
  <2> DEFINE e == [kind |-> "addNode", id |-> n, arg |-> node]
  <2>2. e \in Edit
    BY DEF Edit
  <2>3. t.nodes[n] = None
    BY <1>1 DEF Drawn, NodesOf
  <2>4. Allowed(t, e)
    BY <2>3 DEF Allowed
  <2> QED  BY <2>1, <2>2, <2>4
<1>3. CASE DeletesNode(b, c)
  <2>1. PICK n \in NodeId :
             Puts(b, c, [kind |-> "deleteNode", id |-> n, arg |-> None])
    BY <1>3 DEF DeletesNode
  <2> DEFINE e == [kind |-> "deleteNode", id |-> n, arg |-> None]
  <2>2. e \in Edit
    BY DEF Edit
  <2>3. Allowed(t, e)
    BY DEF Allowed
  <2> QED  BY <2>1, <2>2, <2>3
<1>4. CASE AddsLink(b, c)
  <2>1. PICK l \in LinkId \ Used, x \in Endpoint, y \in Endpoint :
             /\ x.node # y.node
             /\ \A ep \in {x, y} : EndpointExists(t, ep) /\ ~ interfaceInUse(t, ep)
             /\ Puts(b, c, [kind |-> "addLink", id |-> l, arg |-> <<x, y>>])
    BY <1>4 DEF AddsLink
  <2> DEFINE e == [kind |-> "addLink", id |-> l, arg |-> <<x, y>>]
  <2>2. e \in Edit
    BY DEF Edit, Link
  <2>3. t.links[l] = None
    BY <1>1 DEF Drawn, LinksOf
  <2>4. EndsOf(e.arg) = {x, y}
    BY DEF EndsOf
  <2>5. Allowed(t, e)
    BY <2>1, <2>3, <2>4 DEF Allowed
  <2> QED  BY <2>1, <2>2, <2>5
<1>5. CASE DeletesLink(b, c)
  <2>1. PICK l \in LinkId :
             Puts(b, c, [kind |-> "deleteLink", id |-> l, arg |-> None])
    BY <1>5 DEF DeletesLink
  <2> DEFINE e == [kind |-> "deleteLink", id |-> l, arg |-> None]
  <2>2. e \in Edit
    BY DEF Edit
  <2>3. Allowed(t, e)
    BY DEF Allowed
  <2> QED  BY <2>1, <2>2, <2>3
<1> QED  BY <1>2, <1>3, <1>4, <1>5

LEMMA FetchType ==
    ASSUME EditorTypeOK, NEW c \in Client, fetch[c].pc # "idle"
    PROVE  fetch[c] \in Fetch /\ Body(c) \in Topo
<1>1. fetch[c] \in Fetch
  BY DEF EditorTypeOK, NoFetch
<1>2. fetch[c].base.topology \in Topo /\ fetch[c].edit \in Edit
  BY <1>1 DEF Fetch, Document
<1> QED  BY <1>1, <1>2, EditedType DEF Body

LEMMA AnswerType ==
    ASSUME StoreTypeOK, NEW c \in Client, Answer(c)
    PROVE  StoreTypeOK'
<1> USE DEF StoreTypeOK
<1>1. CASE PutInvalid(c) \/ PutUnchanged(c) \/ PutNotifies(c)
  BY <1>1, NewStoreType DEF PutInvalid, PutUnchanged, PutNotifies, Handler
<1>2. CASE PutReplaces(c)
  <2>1. handler[c].put.topology \in Topo /\ store.version + 1 \in Nat
    BY DEF Handler, Document
  <2>2. store' \in Document
    BY <1>2, <2>1 DEF PutReplaces, Document
  <2> QED  BY <1>2, <2>2 DEF PutReplaces, Handler
<1> QED  BY <1>1, <1>2 DEF Answer

LEMMA LayoutType ==
    ASSUME NEW places \in SUBSET NodeId, NEW e \in Edit
    PROVE  NextLayout(places, e) \in SUBSET NodeId
BY DEF NextLayout, Edit

LEMMA InitType == EditorInit => EditorTypeOK
<1> SUFFICES ASSUME EditorInit PROVE EditorTypeOK
  OBVIOUS
<1>1. store \in Document
  BY NewStoreType, EditorAssumption DEF EditorInit, Adopted, Document
<1>2. NoAnswers \in Answers
  BY NewStoreType DEF NoAnswers, Answers, Parts
<1> QED
  BY <1>1, <1>2, NewStoreType DEF EditorInit, EditorTypeOK, StoreTypeOK

\* A page acts.
PageStep(b) == \/ \E part \in Parts : Gets(b, part)
               \/ Loads(b) \/ FailsToLoad(b) \/ Leaves(b) \/ MovesNode(b) \/ SavesLayout(b)

LEMMA PageStepType ==
    ASSUME EditorTypeOK, NEW b \in Browser, PageStep(b)
    PROVE  EditorTypeOK'
<1> USE DEF EditorTypeOK
<1>1. NoAnswers \in Answers
  BY NewStoreType DEF NoAnswers, Answers, Parts
<1>2. ASSUME NEW part \in Parts, Gets(b, part)
      PROVE  EditorTypeOK'
  <2>1. gets[b] \in Answers
    OBVIOUS
  <2> DEFINE new == [parts  |-> gets[b].parts \cup {part},
                     doc    |-> IF part = "topology" THEN store ELSE gets[b].doc,
                     layout |-> IF part = "layout" THEN layouts ELSE gets[b].layout]
  <2>2. new \in Answers
    BY <2>1 DEF Answers, StoreTypeOK
  <2>3. gets' = [gets EXCEPT ![b] = new]
    BY <1>2 DEF Gets
  <2>4. gets' \in [Browser -> Answers]
    BY <2>2, <2>3
  <2> QED  BY <1>2, <2>4 DEF Gets, StoreTypeOK, storeVars, historyVars
<1>3. CASE Loads(b)
  <2>1. gets[b].doc \in Document /\ gets[b].layout \subseteq NodeId
    BY DEF Answers
  <2>2. topologyDoc' \in [Browser -> Document]
    BY <1>3, <2>1 DEF Loads
  <2>3. layout' \in [Browser -> SUBSET NodeId]
    BY <1>3, <2>1 DEF Loads, assignMissingPositions, NodesOf
  <2>4. drawn' \in [Browser -> SUBSET (NodeId \cup LinkId)]
    BY <1>3 DEF Loads, Drawn, NodesOf, LinksOf
  <2>5. gets' \in [Browser -> Answers] /\ page' \in [Browser -> {"loading", "open", "failed"}]
    BY <1>1, <1>3 DEF Loads
  <2>6. astray' \subseteq Browser
    BY <1>3 DEF Loads
  <2> QED  BY <1>3, <2>2, <2>3, <2>4, <2>5, <2>6 DEF Loads, StoreTypeOK, storeVars
<1>4. CASE FailsToLoad(b)
  BY <1>1, <1>4 DEF FailsToLoad, StoreTypeOK, storeVars, historyVars
<1>5. CASE Leaves(b)
  <2>1. \A c \in Client : fetch'[c] \in Fetch \cup {NoFetch}
    <3> SUFFICES ASSUME NEW c \in Client
                 PROVE  fetch'[c] \in Fetch \cup {NoFetch}
      OBVIOUS
    <3>1. fetch'[c] = [fetch[c] EXCEPT !.by = IF @ = b THEN None ELSE @]
      BY <1>5 DEF Leaves
    <3>2. CASE fetch[c] = NoFetch
      <4>1. (IF None = b THEN None ELSE None) = None
        OBVIOUS
      <4>2. fetch'[c] = [NoFetch EXCEPT !.by = None]
        BY <3>1, <3>2, <4>1 DEF NoFetch
      <4> QED  BY <4>2 DEF NoFetch
    <3>3. CASE fetch[c] \in Fetch
      BY <3>1, <3>3 DEF Fetch
    <3> QED  BY <3>2, <3>3
  <2>2. fetch' \in [Client -> Fetch \cup {NoFetch}]
    BY <1>5, <2>1 DEF Leaves
  <2> QED  BY <1>1, <1>5, <2>2, NewStoreType DEF Leaves, StoreTypeOK, storeVars
<1>6. CASE MovesNode(b)
  BY <1>6 DEF MovesNode, NodesOf, StoreTypeOK, storeVars, historyVars
<1>7. CASE SavesLayout(b)
  BY <1>7 DEF SavesLayout, StoreTypeOK, storeVars, historyVars
<1> QED  BY <1>2, <1>3, <1>4, <1>5, <1>6, <1>7 DEF PageStep

LEMMA FetchStepType ==
    ASSUME EditorTypeOK, NEW c \in Client,
           \/ \E b \in Browser, e \in Edit : Puts(b, c, e)
           \/ Conflict(c) \/ Checks(c) \/ Handles(c) \/ Receives(c) \/ Breaks(c)
    PROVE  EditorTypeOK'
<1> USE DEF EditorTypeOK
<1>1. ASSUME NEW b \in Browser, NEW e \in Edit, Puts(b, c, e)
      PROVE  EditorTypeOK'
  <2>1. fetch'[c] \in Fetch
    BY <1>1 DEF Puts, Fetch
  <2> QED
    BY <1>1, <2>1 DEF Puts, storeVars, pageVars, StoreTypeOK
<1>2. CASE Conflict(c)
  <2>1. fetch[c] \in Fetch
    BY <1>2, FetchType DEF Conflict
  <2>2. fetch'[c] \in Fetch
    BY <1>2, <2>1 DEF Conflict, Fetch
  <2> QED
    BY <1>2, <2>2 DEF Conflict, storeVars, pageVars, historyVars, StoreTypeOK
<1>3. CASE Checks(c)
  <2>1. fetch[c] \in Fetch /\ Body(c) \in Topo
    BY <1>3, FetchType DEF Checks
  <2>2. fetch'[c] \in Fetch
    BY <1>3, <2>1 DEF Checks, Fetch
  <2>3. [topology |-> Body(c), version |-> fetch[c].base.version] \in Document
    BY <2>1 DEF Fetch, Document
  <2>4. StoreTypeOK'
    BY <1>3, <2>3 DEF Checks, PutChecked, StoreTypeOK, Handler
  <2> QED  BY <1>3, <2>2, <2>4 DEF Checks, pageVars, historyVars
<1>4. CASE Handles(c)
  <2>1. fetch[c] \in Fetch
    BY <1>4, FetchType DEF Handles
  <2>2. fetch' \in [Client -> Fetch \cup {NoFetch}]
    BY <1>4, <2>1 DEF Handles, Fetch
  <2>3. StoreTypeOK'
    BY <1>4, AnswerType DEF Handles
  <2>4. raced' \in BOOLEAN
    BY <1>4 DEF Handles
  <2> QED  BY <1>4, <2>2, <2>3, <2>4 DEF Handles, pageVars
<1>5. CASE Receives(c)
  <2>1. fetch[c] \in Fetch
    BY <1>5, FetchType DEF Receives
  <2>2. seen[c] \in Document /\ fetch[c].edit \in Edit
    BY <2>1 DEF StoreTypeOK, Fetch
  <2>3. CASE fetch[c].pc = "ok" /\ fetch[c].by # None
    <3>1. fetch[c].by \in Browser
      BY <2>1, <2>3 DEF Fetch
    <3>2. layout' \in [Browser -> SUBSET NodeId]
      BY <1>5, <2>2, <2>3, <3>1, LayoutType DEF Receives
    <3>3. topologyDoc' \in [Browser -> Document]
      BY <1>5, <2>2, <2>3, <3>1 DEF Receives, AnswerDoc
    <3>4. saveTimer' \in [Browser -> BOOLEAN]
      BY <1>5, <2>3, <3>1 DEF Receives, Persists
    <3>5. astray' \subseteq Browser
      BY <1>5, <2>3, <3>1 DEF Receives
    <3>6. drawn' \in [Browser -> SUBSET (NodeId \cup LinkId)]
      BY <1>5, <2>3, <3>1 DEF Receives, Drawn, NodesOf, LinksOf
    <3> QED
      BY <1>5, <3>2, <3>3, <3>4, <3>5, <3>6, NewStoreType DEF Receives, StoreTypeOK
  <2>4. CASE fetch[c].pc = "refused" \/ fetch[c].by = None
    BY <1>5, <2>4, NewStoreType DEF Receives, StoreTypeOK
  <2> QED  BY <1>5, <2>3, <2>4 DEF Receives
<1>6. CASE Breaks(c)
  <2>1. fetch[c] \in Fetch
    BY <1>6, FetchType DEF Breaks
  <2>2. fetch'[c] \in Fetch
    BY <1>6, <2>1 DEF Breaks, Fetch
  <2> QED
    BY <1>6, <2>2 DEF Breaks, storeVars, pageVars, historyVars, StoreTypeOK
<1> QED  BY <1>1, <1>2, <1>3, <1>4, <1>5, <1>6

LEMMA RestartType ==
    ASSUME EditorTypeOK, Restart
    PROVE  EditorTypeOK'
<1> USE DEF EditorTypeOK
<1>1. store' \in Document
  BY NewStoreType DEF Restart, Adopted, StoreTypeOK, Document
<1>2. \A c \in Client : fetch'[c] \in Fetch \cup {NoFetch}
  BY DEF Restart, Fetch, NoFetch
<1>3. fetch' \in [Client -> Fetch \cup {NoFetch}]
  BY <1>2 DEF Restart
<1> QED
  BY <1>1, <1>3, NewStoreType DEF Restart, StoreTypeOK, pageVars

\* A fetch starts, or goes on.
FetchStep(c) == \/ \E b \in Browser, e \in Edit :
                      Allowed(topologyDoc[b].topology, e) /\ Puts(b, c, e)
                \/ Conflict(c) \/ Checks(c) \/ Handles(c) \/ Receives(c) \/ Breaks(c)

LEMMA StepCases ==
    ASSUME EditorTypeOK, EditorNext
    PROVE  \/ \E b \in Browser : PageStep(b)
           \/ \E c \in Client : FetchStep(c)
           \/ Restart
<1>1. ASSUME NEW b \in Browser, NEW c \in Client,
             AddsNode(b, c) \/ DeletesNode(b, c) \/ AddsLink(b, c) \/ DeletesLink(b, c)
      PROVE  FetchStep(c)
  BY <1>1, EditsArePuts DEF FetchStep
<1> QED  BY <1>1 DEF EditorNext, PageStep, FetchStep

\* The variables of Editor keep their types.
THEOREM EditorTypeCorrect == EditorSpec => []EditorTypeOK
<1>1. EditorTypeOK /\ [EditorNext]_editorVars => EditorTypeOK'
  <2> SUFFICES ASSUME EditorTypeOK, [EditorNext]_editorVars
               PROVE  EditorTypeOK'
    OBVIOUS
  <2>1. ASSUME NEW b \in Browser, PageStep(b)
        PROVE  EditorTypeOK'
    BY <2>1, PageStepType
  <2>2. ASSUME NEW c \in Client, FetchStep(c)
        PROVE  EditorTypeOK'
    BY <2>2, FetchStepType DEF FetchStep
  <2>3. CASE UNCHANGED editorVars
    BY <2>3 DEF editorVars, storeVars, pageVars, historyVars, EditorTypeOK, StoreTypeOK
  <2> QED  BY <2>1, <2>2, <2>3, RestartType, StepCases
<1> QED  BY <1>1, InitType, PTL DEF EditorSpec

-----------------------------------------------------------------------------
(* The canvas sends valid documents, because every document it can come by *)
(* is valid.                                                               *)

ValidInv ==
    /\ Valid(store.topology)
    /\ \A b \in Browser : Valid(topologyDoc[b].topology) /\ Valid(gets[b].doc.topology)
    /\ \A c \in Client : /\ Valid(seen[c].topology)
                         /\ handler[c].pc = "replaced" => Valid(handler[c].put.topology)
    /\ CanvasSendsValidDocuments

LEMMA InitValid == EditorInit => ValidInv
BY NewStoreValid, EditorAssumption
DEF EditorInit, ValidInv, Adopted, CanvasSendsValidDocuments, NoRequest, NewStore, NoAnswers

LEMMA PageStepValid ==
    ASSUME EditorTypeOK, ValidInv, NEW b \in Browser, PageStep(b)
    PROVE  ValidInv'
<1> USE DEF ValidInv, CanvasSendsValidDocuments
<1>1. ASSUME NEW part \in Parts, Gets(b, part)
      PROVE  ValidInv'
  <2>1. \A x \in Browser : Valid(gets'[x].doc.topology)
    BY <1>1 DEF Gets, EditorTypeOK
  <2> QED  BY <1>1, <2>1 DEF Gets, storeVars, Body
<1>2. CASE Loads(b) \/ FailsToLoad(b)
  <2>1. \A x \in Browser : /\ topologyDoc'[x] \in {topologyDoc[x], gets[x].doc}
                           /\ gets'[x] \in {gets[x], NoAnswers}
    BY <1>2 DEF Loads, FailsToLoad, EditorTypeOK
  <2>2. \A x \in Browser : Valid(topologyDoc'[x].topology) /\ Valid(gets'[x].doc.topology)
    BY <2>1, NewStoreValid DEF NoAnswers
  <2> QED  BY <1>2, <2>2 DEF Loads, FailsToLoad, storeVars, Body
<1>3. CASE Leaves(b)
  <2>1. \A c \in Client : fetch'[c] # NoFetch =>
            /\ fetch[c] # NoFetch
            /\ fetch'[c].base = fetch[c].base /\ fetch'[c].edit = fetch[c].edit
    <3> SUFFICES ASSUME NEW c \in Client, fetch'[c] # NoFetch
                 PROVE  /\ fetch[c] # NoFetch
                        /\ fetch'[c].base = fetch[c].base
                        /\ fetch'[c].edit = fetch[c].edit
      OBVIOUS
    <3>1. fetch'[c] = [fetch[c] EXCEPT !.by = IF @ = b THEN None ELSE @]
      BY <1>3 DEF Leaves
    <3>2. CASE fetch[c] = NoFetch
      <4>1. (IF None = b THEN None ELSE None) = None
        OBVIOUS
      <4>2. fetch'[c] = [NoFetch EXCEPT !.by = None]
        BY <3>1, <3>2, <4>1 DEF NoFetch
      <4>3. fetch'[c] = NoFetch
        BY <4>2 DEF NoFetch
      <4> QED  BY <4>3
    <3>3. CASE fetch[c] \in Fetch /\ fetch[c] # NoFetch
      BY <3>1, <3>3 DEF Fetch
    <3> QED  BY <3>2, <3>3 DEF EditorTypeOK
  <2>2. \A x \in Browser : Valid(topologyDoc'[x].topology) /\ Valid(gets'[x].doc.topology)
    BY <1>3, NewStoreValid DEF Leaves, EditorTypeOK, NoAnswers
  <2> QED  BY <1>3, <2>1, <2>2 DEF Leaves, storeVars, Body
<1>4. CASE MovesNode(b) \/ SavesLayout(b)
  BY <1>4 DEF MovesNode, SavesLayout, storeVars, historyVars, Body
<1> QED  BY <1>1, <1>2, <1>3, <1>4 DEF PageStep

LEMMA AnswerValid ==
    ASSUME StoreTypeOK, NEW c \in Client, Answer(c), Valid(store.topology),
           Valid(seen[c].topology),
           handler[c].pc = "replaced" => Valid(handler[c].put.topology)
    PROVE  /\ Valid(store'.topology) /\ Valid(seen'[c].topology)
           /\ handler'[c].pc = "replaced" => Valid(handler'[c].put.topology)
           /\ \A d \in Client \ {c} : seen'[d] = seen[d] /\ handler'[d] = handler[d]
<1> USE DEF StoreTypeOK
<1>1. CASE PutInvalid(c) \/ PutUnchanged(c) \/ PutNotifies(c)
  BY <1>1 DEF PutInvalid, PutUnchanged, PutNotifies, NoRequest
<1>2. CASE PutReplaces(c)
  BY <1>2 DEF PutReplaces
<1> QED  BY <1>1, <1>2 DEF Answer

LEMMA FetchStepValid ==
    ASSUME EditorTypeOK, ValidInv, NEW c \in Client, FetchStep(c)
    PROVE  ValidInv'
<1> USE DEF ValidInv, CanvasSendsValidDocuments
<1>1. ASSUME NEW b \in Browser, NEW e \in Edit, Puts(b, c, e),
             Allowed(topologyDoc[b].topology, e)
      PROVE  ValidInv'
  <2>1. Body(c)' = Edited(topologyDoc[b].topology, e)
    BY <1>1 DEF Puts, Body, EditorTypeOK
  <2>2. topologyDoc[b].topology \in Topo
    BY DEF EditorTypeOK, Document
  <2>3. Valid(Body(c)')
    BY <1>1, <2>1, <2>2, EditedValid
  <2>4. \A d \in Client \ {c} : fetch'[d] = fetch[d] /\ Body(d)' = Body(d)
    BY <1>1 DEF Puts, Body, EditorTypeOK
  <2> QED  BY <1>1, <2>3, <2>4 DEF Puts, storeVars, pageVars
<1>2. CASE Conflict(c) \/ Breaks(c)
  <2>1. fetch[c] \in Fetch /\ fetch[c] # NoFetch
    BY <1>2, FetchType DEF Conflict, Breaks, NoFetch
  <2>2. fetch \in [Client -> Fetch \cup {NoFetch}]
    BY DEF EditorTypeOK
  <2>3. /\ fetch'[c].base = fetch[c].base /\ fetch'[c].edit = fetch[c].edit
        /\ \A d \in Client \ {c} : fetch'[d] = fetch[d]
    BY <1>2, <2>1, <2>2 DEF Conflict, Breaks, Fetch
  <2>4. \A d \in Client : Body(d)' = Body(d) /\ (d # c => fetch'[d] = fetch[d])
    BY <2>3 DEF Body
  <2> QED  BY <1>2, <2>1, <2>4 DEF Conflict, Breaks, storeVars, pageVars
<1>3. CASE Checks(c)
  <2>1. fetch[c] \in Fetch /\ fetch[c] # NoFetch
    BY <1>3, FetchType DEF Checks, NoFetch
  <2>2. \A d \in Client : Body(d)' = Body(d) /\ (d # c => fetch'[d] = fetch[d])
    BY <1>3, <2>1 DEF Checks, Body, EditorTypeOK, Fetch
  <2>3. \A d \in Client : handler'[d].pc = "replaced" =>
            handler'[d] = handler[d]
    BY <1>3 DEF Checks, PutChecked, EditorTypeOK, StoreTypeOK
  <2> QED  BY <1>3, <2>1, <2>2, <2>3 DEF Checks, PutChecked, pageVars
<1>4. CASE Handles(c)
  <2>1. fetch[c] \in Fetch /\ fetch[c] # NoFetch
    BY <1>4, FetchType DEF Handles, NoFetch
  <2>2. \A d \in Client : Body(d)' = Body(d) /\ (d # c => fetch'[d] = fetch[d])
    BY <1>4, <2>1 DEF Handles, Body, EditorTypeOK, Fetch
  <2>3. /\ Valid(store'.topology) /\ Valid(seen'[c].topology)
        /\ handler'[c].pc = "replaced" => Valid(handler'[c].put.topology)
        /\ \A d \in Client \ {c} : seen'[d] = seen[d] /\ handler'[d] = handler[d]
    BY <1>4, AnswerValid DEF Handles, EditorTypeOK
  <2> QED  BY <1>4, <2>1, <2>2, <2>3 DEF Handles, pageVars
<1>5. CASE Receives(c)
  <2>1. \A d \in Client : fetch'[d] # NoFetch => fetch'[d] = fetch[d] /\ Body(d)' = Body(d)
    BY <1>5 DEF Receives, Body, EditorTypeOK
  <2>2. \A b \in Browser : topologyDoc'[b] \in {topologyDoc[b], seen[c]} /\ gets' = gets
    BY <1>5 DEF Receives, AnswerDoc, EditorTypeOK
  <2>3. \A d \in Client : seen'[d] \in {seen[d], NewStore}
    BY <1>5 DEF Receives, EditorTypeOK, StoreTypeOK
  <2> QED  BY <1>5, <2>1, <2>2, <2>3, NewStoreValid DEF Receives
<1> QED  BY <1>1, <1>2, <1>3, <1>4, <1>5 DEF FetchStep

\* What a restart leaves of the fetches.
LEMMA RestartFetches ==
    ASSUME EditorTypeOK, Restart, NEW c \in Client
    PROVE  /\ fetch'[c].by = fetch[c].by /\ fetch'[c].foreign = fetch[c].foreign
           /\ fetch'[c].base = fetch[c].base /\ fetch'[c].edit = fetch[c].edit
           /\ Body(c)' = Body(c)
           /\ fetch'[c].pc \notin {"sent", "handled"}
           /\ fetch[c].pc \notin {"sent", "handled"} => fetch'[c] = fetch[c]
<1>1. CASE fetch[c].pc \in {"sent", "handled"}
  <2>1. fetch[c] \in Fetch
    BY <1>1, FetchType
  <2>2. fetch'[c] = [fetch[c] EXCEPT !.pc = "refused"]
    BY <1>1 DEF Restart
  <2> QED  BY <1>1, <2>1, <2>2 DEF Fetch, Body
<1>2. CASE fetch[c].pc \notin {"sent", "handled"}
  BY <1>2 DEF Restart, Body
<1> QED  BY <1>1, <1>2

LEMMA RestartValid ==
    ASSUME EditorTypeOK, ValidInv, Restart
    PROVE  ValidInv'
<1> USE DEF ValidInv, CanvasSendsValidDocuments
<1>1. Valid(store'.topology)
  BY NewStoreValid DEF Restart, Adopted
<1>2. \A c \in Client : fetch'[c] # NoFetch => fetch[c] # NoFetch /\ Body(c)' = Body(c)
  BY RestartFetches DEF NoFetch
<1> QED  BY <1>1, <1>2 DEF Restart, pageVars, NoRequest

\* Whatever becomes of its document meanwhile, an edit on the canvas is never
\* turned down as invalid.
THEOREM CanvasSendsValidDocumentsAlways == EditorSpec => []CanvasSendsValidDocuments
<1>1. EditorTypeOK /\ ValidInv /\ [EditorNext]_editorVars => ValidInv'
  <2> SUFFICES ASSUME EditorTypeOK, ValidInv, [EditorNext]_editorVars
               PROVE  ValidInv'
    OBVIOUS
  <2>1. CASE UNCHANGED editorVars
    BY <2>1 DEF editorVars, storeVars, pageVars, ValidInv, CanvasSendsValidDocuments, Body
  <2> QED  BY <2>1, PageStepValid, FetchStepValid, RestartValid, StepCases
<1>2. ValidInv => CanvasSendsValidDocuments
  BY DEF ValidInv
<1> QED  BY <1>1, <1>2, InitValid, EditorTypeCorrect, PTL DEF EditorSpec

-----------------------------------------------------------------------------
(* The layout.                                                             *)

LEMMA EditedNodes ==
    ASSUME NEW t \in Topo, NEW e \in Edit, NEW places \in SUBSET NodeId,
           NodesOf(t) \subseteq places
    PROVE  NodesOf(Edited(t, e)) \subseteq NextLayout(places, e)
<1>1. CASE e.kind = "addNode"
  <2>1. NodesOf(Edited(t, e)) \subseteq NodesOf(t) \cup {e.id}
    BY <1>1 DEF Edited, addNode, NodesOf, Topo
  <2> QED  BY <1>1, <2>1 DEF NextLayout
<1>2. CASE e.kind = "deleteNode"
  <2>1. NodesOf(Edited(t, e)) \subseteq NodesOf(t) \ {e.id}
    BY <1>2 DEF Edited, deleteNode, NodesOf, Topo
  <2> QED  BY <1>2, <2>1 DEF NextLayout
<1>3. CASE e.kind \in {"addLink", "deleteLink"}
  <2>1. NodesOf(Edited(t, e)) = NodesOf(t)
    BY <1>3 DEF Edited, addLink, deleteLink, NodesOf
  <2> QED  BY <1>3, <2>1 DEF NextLayout
<1> QED  BY <1>1, <1>2, <1>3 DEF Edit

LEMMA NoNodesYet == NodesOf(NewStore.topology) = {} /\ LinksOf(NewStore.topology) = {}
BY DEF NodesOf, LinksOf, NewStore, EmptyTopo

\* A page that is on course shows no node without a position.
THEOREM EveryNodeHasAPlaceAlways == EditorSpec => []EveryNodeHasAPlace
<1>1. EditorInit => EveryNodeHasAPlace
  BY NoNodesYet DEF EditorInit, EveryNodeHasAPlace
<1>2. EditorTypeOK /\ EveryNodeHasAPlace /\ [EditorNext]_editorVars => EveryNodeHasAPlace'
  <2> SUFFICES ASSUME EditorTypeOK, EveryNodeHasAPlace, [EditorNext]_editorVars
               PROVE  EveryNodeHasAPlace'
    OBVIOUS
  <2> USE DEF EveryNodeHasAPlace
  <2>1. ASSUME NEW b \in Browser, Loads(b)
        PROVE  EveryNodeHasAPlace'
    BY <2>1 DEF Loads, assignMissingPositions, EditorTypeOK
  <2>2. ASSUME NEW b \in Browser,
               FailsToLoad(b) \/ \E part \in Parts : Gets(b, part)
        PROVE  EveryNodeHasAPlace'
    BY <2>2 DEF Gets, FailsToLoad, historyVars
  <2>3. ASSUME NEW b \in Browser, Leaves(b)
        PROVE  EveryNodeHasAPlace'
    BY <2>3, NoNodesYet DEF Leaves, EditorTypeOK
  <2>4. ASSUME NEW b \in Browser, MovesNode(b) \/ SavesLayout(b)
        PROVE  EveryNodeHasAPlace'
    BY <2>4 DEF MovesNode, SavesLayout, EditorTypeOK, historyVars
  <2>5. ASSUME NEW c \in Client, FetchStep(c), ~ Receives(c)
        PROVE  EveryNodeHasAPlace'
    BY <2>5 DEF FetchStep, Puts, Conflict, Checks, Handles, Breaks, pageVars, historyVars
  <2>6. ASSUME NEW c \in Client, Receives(c)
        PROVE  EveryNodeHasAPlace'
    <3>1. fetch[c] \in Fetch
      BY <2>6, FetchType DEF Receives
    <3>2. CASE fetch[c].pc = "ok" /\ fetch[c].by # None
      <4> DEFINE b == fetch[c].by
                 e == fetch[c].edit
                 t == topologyDoc[b].topology
      <4>1. b \in Browser /\ e \in Edit /\ t \in Topo
        BY <3>1, <3>2 DEF Fetch, EditorTypeOK, Document
      <4>2. CASE Fits(c)
        <5>1. b \notin astray =>
                 NodesOf(seen[c].topology) \subseteq NextLayout(layout[b], e)
          BY <4>1, <4>2, EditedNodes DEF EditorTypeOK, Fits
        <5> QED
          BY <2>6, <3>2, <4>1, <4>2, <5>1 DEF Receives, AnswerDoc, EditorTypeOK
      <4>3. CASE ~ Fits(c)
        BY <2>6, <3>2, <4>1, <4>3 DEF Receives, EditorTypeOK
      <4> QED  BY <4>2, <4>3
    <3>3. CASE fetch[c].pc = "refused" \/ fetch[c].by = None
      BY <2>6, <3>3 DEF Receives
    <3> QED  BY <2>6, <3>2, <3>3 DEF Receives
  <2>7. CASE Restart \/ UNCHANGED editorVars
    BY <2>7 DEF Restart, editorVars, pageVars, historyVars
  <2> QED  BY <2>1, <2>2, <2>3, <2>4, <2>5, <2>6, <2>7, StepCases DEF PageStep
<1> QED  BY <1>1, <1>2, EditorTypeCorrect, PTL DEF EditorSpec

\* Init is still waiting, and nobody has touched the page.
Idle(b) == page[b] = "loading" /\ b \notin hasty

\* Who is waiting for a fetch, and where the fetch is.
FetchOK(c) ==
    /\ fetch[c].by # None => ~ Idle(fetch[c].by)
    /\ fetch[c].by # None /\ fetch[c].by \notin foreign => ~ fetch[c].foreign
    /\ handler[c].pc # "idle" <=> fetch[c].pc = "handled"
    /\ handler[c].pc = "checked" =>
          handler[c].put = [topology |-> Body(c), version |-> fetch[c].base.version]

PageOK(b) == Idle(b) => topologyDoc[b] = NewStore /\ layout[b] = {} /\ ~ saveTimer[b]

SessionInv ==
    /\ \A c \in Client : FetchOK(c)
    /\ \A b \in Browser : PageOK(b)

LEMMA LeavesFetches ==
    ASSUME EditorTypeOK, NEW b \in Browser, Leaves(b), NEW c \in Client
    PROVE  /\ fetch'[c].by = (IF fetch[c].by = b THEN None ELSE fetch[c].by)
           /\ fetch'[c].pc = fetch[c].pc
           /\ fetch'[c].foreign = fetch[c].foreign
           /\ fetch'[c].base = fetch[c].base /\ fetch'[c].edit = fetch[c].edit
           /\ Body(c)' = Body(c)
<1>1. fetch'[c] = [fetch[c] EXCEPT !.by = IF @ = b THEN None ELSE @]
  BY DEF Leaves
<1>2. CASE fetch[c] = NoFetch
  BY <1>1, <1>2 DEF NoFetch, Body
<1>3. CASE fetch[c] \in Fetch
  BY <1>1, <1>3 DEF Fetch, Body
<1> QED  BY <1>2, <1>3 DEF EditorTypeOK

LEMMA SessionStep ==
    ASSUME EditorTypeOK, SessionInv, [EditorNext]_editorVars
    PROVE  SessionInv'
<1> USE DEF SessionInv
<1> USE DEF Idle
<1>1. ASSUME NEW b \in Browser, Loads(b) \/ FailsToLoad(b)
      PROVE  SessionInv'
  <2>1. \A a \in Browser : Idle(a)' => Idle(a) /\ a # b
    BY <1>1 DEF Loads, FailsToLoad, EditorTypeOK, historyVars
  <2>2. \A a \in Browser \ {b} : /\ topologyDoc'[a] = topologyDoc[a]
                                /\ layout'[a] = layout[a] /\ saveTimer'[a] = saveTimer[a]
    BY <1>1 DEF Loads, FailsToLoad, EditorTypeOK
  <2>3. \A a \in Browser : PageOK(a)'
    BY <2>1, <2>2 DEF PageOK
  <2>4. \A c \in Client : fetch[c].by \in Browser \cup {None}
    BY DEF EditorTypeOK, Fetch, NoFetch
  <2>5. UNCHANGED <<handler, fetch, foreign>>
    BY <1>1 DEF Loads, FailsToLoad, storeVars, historyVars
  <2> QED  BY <2>1, <2>3, <2>4, <2>5 DEF FetchOK, Body
<1>2. ASSUME NEW b \in Browser, NEW part \in Parts, Gets(b, part)
       PROVE  SessionInv'
  BY <1>2 DEF Gets, storeVars, historyVars, FetchOK, PageOK, Body
<1>3. ASSUME NEW b \in Browser, Leaves(b)
      PROVE  SessionInv'
  <2>1. \A a \in Browser \ {b} :
            /\ Idle(a)' <=> Idle(a)
            /\ topologyDoc'[a] = topologyDoc[a]
            /\ layout'[a] = layout[a] /\ saveTimer'[a] = saveTimer[a]
    BY <1>3 DEF Leaves, EditorTypeOK
  <2>2. \A c \in Client : /\ fetch[c].by \in Browser \cup {None}
                          /\ fetch'[c].by # b
    BY <1>3, LeavesFetches, EditorAssumption DEF EditorTypeOK, Fetch, NoFetch
  <2>3. foreign' = foreign \ {b} /\ UNCHANGED handler
    BY <1>3 DEF Leaves, storeVars
  <2>4. PageOK(b)'
    BY <1>3 DEF Leaves, EditorTypeOK, PageOK
  <2>5. \A a \in Browser : PageOK(a)'
    BY <2>1, <2>4 DEF PageOK
  <2> QED  BY <1>3, <2>1, <2>2, <2>3, <2>5, LeavesFetches DEF FetchOK
<1>4. ASSUME NEW b \in Browser, MovesNode(b) \/ SavesLayout(b)
      PROVE  SessionInv'
  <2>1. UNCHANGED <<page, hasty, topologyDoc, handler, fetch, foreign>>
    BY <1>4 DEF MovesNode, SavesLayout, storeVars, historyVars
  <2>2. ~ Idle(b)
    BY <1>4, NoNodesYet DEF MovesNode, SavesLayout, PageOK
  <2>3. \A a \in Browser \ {b} : layout'[a] = layout[a] /\ saveTimer'[a] = saveTimer[a]
    BY <1>4 DEF MovesNode, SavesLayout, EditorTypeOK
  <2> QED  BY <2>1, <2>2, <2>3 DEF FetchOK, PageOK, Body
<1>5. ASSUME NEW c \in Client, NEW b \in Browser, NEW e \in Edit, Puts(b, c, e)
      PROVE  SessionInv'
  <2>1. /\ fetch'[c].by = b /\ fetch'[c].pc = "sent"
        /\ fetch'[c].foreign = (b \in foreign)
    BY <1>5 DEF Puts, EditorTypeOK
  <2>2. handler'[c].pc = "idle"
    <3>1. fetch[c].pc # "handled" /\ UNCHANGED handler
      BY <1>5 DEF Puts, storeVars, NoFetch
    <3> QED  BY <3>1 DEF FetchOK
  <2>3. \A d \in Client \ {c} : fetch'[d] = fetch[d] /\ Body(d)' = Body(d)
    BY <1>5 DEF Puts, EditorTypeOK, Body
  <2>4. /\ UNCHANGED <<handler, foreign, page, topologyDoc, layout, saveTimer>>
        /\ hasty \subseteq hasty'
    BY <1>5 DEF Puts, storeVars, pageVars
  <2>5. ~ Idle(b)'
    BY <1>5 DEF Puts, pageVars
  <2>6. \A a \in Browser \cup {None} : Idle(a)' => Idle(a)
    BY <2>4
  <2>7. ASSUME NEW d \in Client, d # c
        PROVE  FetchOK(d)'
    <3>1. FetchOK(d) /\ fetch'[d] = fetch[d] /\ Body(d)' = Body(d)
      BY <2>3, <2>7
    <3> QED  BY <2>4, <2>6, <3>1 DEF FetchOK
  <2>8. FetchOK(c)'
    BY <2>1, <2>2, <2>4, <2>5 DEF FetchOK
  <2>9. \A a \in Browser : PageOK(a)'
    BY <2>4, <2>6 DEF PageOK
  <2> QED  BY <2>7, <2>8, <2>9
<1>6. ASSUME NEW c \in Client, Conflict(c) \/ Breaks(c)
      PROVE  SessionInv'
  <2>1. fetch[c] \in Fetch
    BY <1>6, FetchType DEF Conflict, Breaks
  <2> QED
    BY <1>6, <2>1
    DEF Conflict, Breaks, Fetch, EditorTypeOK, storeVars, pageVars, historyVars, Body,
        FetchOK, PageOK
<1>7. ASSUME NEW c \in Client, Checks(c)
      PROVE  SessionInv'
  <2>1. fetch[c] \in Fetch
    BY <1>7, FetchType DEF Checks
  <2>2. Body(c)' = Body(c) /\ fetch'[c].base = fetch[c].base
    BY <1>7, <2>1 DEF Checks, Fetch, EditorTypeOK, Body
  <2>3. handler'[c].pc = "checked"
        /\ handler'[c].put = [topology |-> Body(c), version |-> fetch[c].base.version]
    BY <1>7 DEF Checks, PutChecked, EditorTypeOK, StoreTypeOK
  <2>4. \A d \in Client \ {c} : handler'[d] = handler[d] /\ fetch'[d] = fetch[d]
                               /\ Body(d)' = Body(d)
    BY <1>7 DEF Checks, PutChecked, EditorTypeOK, StoreTypeOK, Body
  <2>5. /\ fetch'[c].by = fetch[c].by /\ fetch'[c].foreign = fetch[c].foreign
        /\ fetch'[c].pc = "handled"
    BY <1>7, <2>1 DEF Checks, Fetch, EditorTypeOK
  <2> QED
    BY <1>7, <2>2, <2>3, <2>4, <2>5 DEF Checks, pageVars, historyVars, FetchOK, PageOK
<1>8. ASSUME NEW c \in Client, Handles(c)
      PROVE  SessionInv'
  <2>1. fetch[c] \in Fetch
    BY <1>8, FetchType DEF Handles
  <2>2. Body(c)' = Body(c) /\ fetch'[c].base = fetch[c].base
        /\ fetch'[c].by = fetch[c].by /\ fetch'[c].foreign = fetch[c].foreign
    BY <1>8, <2>1 DEF Handles, Fetch, EditorTypeOK, Body
  <2>3. handler'[c] = NoRequest \/ handler'[c].pc = "replaced"
    BY <1>8 DEF Handles, Answer, PutInvalid, PutUnchanged, PutReplaces, PutNotifies,
               EditorTypeOK, StoreTypeOK
  <2>4. \A d \in Client \ {c} : handler'[d] = handler[d] /\ fetch'[d] = fetch[d]
                               /\ Body(d)' = Body(d)
    BY <1>8 DEF Handles, Answer, PutInvalid, PutUnchanged, PutReplaces, PutNotifies,
               EditorTypeOK, StoreTypeOK, Body
  <2>5. handler'[c].pc # "idle" <=> fetch'[c].pc = "handled"
    BY <1>8, <2>1, <2>3 DEF Handles, EditorTypeOK, NoRequest, Fetch
  <2>6. handler'[c].pc # "checked"
    BY <2>3 DEF NoRequest
  <2> QED
    BY <1>8, <2>2, <2>4, <2>5, <2>6 DEF Handles, pageVars, FetchOK, PageOK
<1>9. ASSUME NEW c \in Client, Receives(c)
      PROVE  SessionInv'
  <2>1. \A d \in Client \ {c} : fetch'[d] = fetch[d] /\ Body(d)' = Body(d)
    BY <1>9 DEF Receives, EditorTypeOK, Body
  <2>2. fetch'[c] = NoFetch /\ UNCHANGED <<handler, page, foreign, hasty>>
    BY <1>9 DEF Receives, EditorTypeOK
  <2>3. \A b \in Browser : \/ fetch[c].by = b /\ b # None
                           \/ /\ topologyDoc'[b] = topologyDoc[b]
                              /\ layout'[b] = layout[b] /\ saveTimer'[b] = saveTimer[b]
    BY <1>9, EditorAssumption DEF Receives, EditorTypeOK
  <2>4. fetch[c].pc # "handled"
    BY <1>9 DEF Receives
  <2>5. \A b \in Browser : PageOK(b)'
    BY <2>2, <2>3 DEF FetchOK, PageOK
  <2>6. handler'[c].pc = "idle"
    BY <2>2, <2>4 DEF FetchOK
  <2>7. /\ fetch'[c].by = None /\ fetch'[c].pc = "idle"
    BY <2>2 DEF NoFetch
  <2> QED  BY <2>1, <2>2, <2>5, <2>6, <2>7 DEF FetchOK
<1>10. CASE Restart
  <2>1. \A c \in Client : handler'[c] = NoRequest
    BY <1>10 DEF Restart
  <2>2. \A c \in Client : fetch[c].by # None => fetch[c].by \in foreign'
    <3> SUFFICES ASSUME NEW c \in Client, fetch[c].by # None
                 PROVE  fetch[c].by \in foreign'
      OBVIOUS
    <3>1. fetch[c].by \in Browser
      BY DEF EditorTypeOK, Fetch, NoFetch
    <3>2. InUse(fetch[c].by)
      BY DEF FetchOK, InUse
    <3> QED  BY <1>10, <3>1, <3>2 DEF Restart
  <2>3. \A c \in Client : handler'[c].pc = "idle" /\ fetch'[c].pc # "handled"
    BY <1>10, <2>1, RestartFetches DEF NoRequest
  <2>4. UNCHANGED <<page, hasty, topologyDoc, layout, saveTimer>>
    BY <1>10 DEF Restart, pageVars
  <2> QED
    BY <1>10, <2>2, <2>3, <2>4, RestartFetches DEF FetchOK, PageOK
<1>11. CASE UNCHANGED editorVars
  BY <1>11 DEF editorVars, storeVars, pageVars, historyVars, Body, FetchOK, PageOK
<1> QED
  BY <1>1, <1>2, <1>3, <1>4, <1>5, <1>6, <1>7, <1>8, <1>9, <1>10, <1>11, StepCases
  DEF PageStep, FetchStep

LEMMA SessionAlways == EditorSpec => [](EditorTypeOK /\ SessionInv)
<1>1. EditorInit => SessionInv
  BY DEF EditorInit, SessionInv, FetchOK, PageOK, NoFetch, NoRequest
<1> QED  BY <1>1, SessionStep, EditorTypeCorrect, PTL DEF EditorSpec

\* Nobody but b has used the canvas.
Alone(b) == accidents = 0 /\ \A a \in Browser \ {b} : ~ InUse(a)

\* Init has replaced what the user of b had arranged by then.
Overtaken(b) == b \in hasty /\ page[b] = "open"

Kept(b) == /\ Idle(b) => layouts = {}
           /\ ~ Overtaken(b) /\ ~ saveTimer[b] /\ layouts # {} => layouts = layout[b]

LayoutInv == \A b \in Browser : Alone(b) => Kept(b)

\* Nothing makes a page that b would not have been alone with disappear.
LEMMA AloneBefore ==
    ASSUME EditorTypeOK, EditorNext \/ UNCHANGED editorVars, NEW b \in Browser, Alone(b)'
    PROVE  Alone(b) /\ \A a \in Browser : ~ Leaves(a) /\ ~ FailsToLoad(a)
<1>1. \A a \in Browser : ~ Leaves(a) /\ ~ FailsToLoad(a)
  BY DEF Leaves, FailsToLoad, Alone, EditorTypeOK
<1>2. accidents = 0
  <2>1. accidents' \in {accidents, accidents + 1}
    BY DEF EditorNext, Gets, Loads, FailsToLoad, Leaves, MovesNode, SavesLayout, AddsNode,
           DeletesNode, AddsLink, DeletesLink, Puts, Conflict, Checks, Handles, Receives,
           Breaks, Restart, editorVars
  <2> QED  BY <2>1 DEF Alone, EditorTypeOK
<1>3. \A a \in Browser : InUse(a) => InUse(a)'
  <2> USE DEF InUse
  <2>1. ASSUME NEW x \in Browser, NEW part \in Parts, Gets(x, part)
        PROVE  \A a \in Browser : InUse(a) => InUse(a)'
    <3>1. gets'[x].parts # {}
      BY <2>1 DEF Gets, EditorTypeOK
    <3>2. gets'[x] # NoAnswers /\ \A a \in Browser \ {x} : gets'[a] = gets[a]
      BY <2>1, <3>1 DEF Gets, EditorTypeOK, NoAnswers
    <3> QED  BY <2>1, <3>2 DEF Gets, historyVars
  <2>2. ASSUME NEW x \in Browser, Loads(x)
        PROVE  \A a \in Browser : InUse(a) => InUse(a)'
    BY <2>2 DEF Loads, EditorTypeOK
  <2>3. ASSUME NEW c \in Client, FetchStep(c)
        PROVE  UNCHANGED <<page, gets>> /\ hasty \subseteq hasty'
    BY <2>3 DEF FetchStep, Puts, Conflict, Checks, Handles, Receives, Breaks, pageVars,
                historyVars
  <2>4. ASSUME NEW x \in Browser, MovesNode(x) \/ SavesLayout(x)
        PROVE  UNCHANGED <<page, gets, hasty>>
    BY <2>4 DEF MovesNode, SavesLayout, historyVars
  <2>5. CASE Restart \/ UNCHANGED editorVars
    BY <2>5 DEF Restart, editorVars, pageVars, historyVars
  <2> QED  BY <1>1, <2>1, <2>2, <2>3, <2>4, <2>5, StepCases DEF PageStep
<1> QED  BY <1>1, <1>2, <1>3 DEF Alone

LEMMA LayoutStep ==
    ASSUME EditorTypeOK, SessionInv, LayoutInv, [EditorNext]_editorVars
    PROVE  LayoutInv'
<1> SUFFICES ASSUME NEW b \in Browser, Alone(b)'
             PROVE  Kept(b)'
  BY DEF LayoutInv
<1>1. Alone(b) /\ \A a \in Browser : ~ Leaves(a) /\ ~ FailsToLoad(a)
  BY AloneBefore
<1>2. Kept(b)
  BY <1>1 DEF LayoutInv
<1>3. \A a \in Browser \ {b} : Idle(a) /\ ~ saveTimer[a] /\ NodesOf(topologyDoc[a].topology) = {}
  BY <1>1, NoNodesYet DEF Alone, InUse, Idle, SessionInv, PageOK
<1>4. ASSUME NEW a \in Browser, Loads(a)
      PROVE  Kept(b)'
  <2>1. a = b
    BY <1>4 DEF Alone, InUse, Loads, EditorTypeOK
  <2>2. /\ page[b] = "loading" /\ page'[b] = "open"
        /\ UNCHANGED <<layouts, hasty>>
    BY <1>4, <2>1 DEF Loads, EditorTypeOK
  <2>3. CASE b \in hasty
    BY <2>2, <2>3 DEF Kept, Idle, Overtaken
  <2>4. CASE b \notin hasty
    BY <1>2, <2>2, <2>4 DEF Kept, Idle
  <2> QED  BY <2>3, <2>4
<1>5. ASSUME NEW a \in Browser, NEW part \in Parts, Gets(a, part)
      PROVE  Kept(b)'
  BY <1>2, <1>5 DEF Gets, historyVars, Kept, Idle, Overtaken
<1>6. ASSUME NEW a \in Browser, MovesNode(a)
      PROVE  Kept(b)'
  <2>1. a = b /\ saveTimer'[b] /\ UNCHANGED <<page, hasty, layouts>>
    BY <1>3, <1>6 DEF MovesNode, EditorTypeOK, historyVars
  <2> QED  BY <1>2, <2>1 DEF Kept, Idle
<1>7. ASSUME NEW a \in Browser, SavesLayout(a)
      PROVE  Kept(b)'
  <2>1. a = b /\ saveTimer[b] /\ layouts' = layout'[b] /\ UNCHANGED <<page, hasty>>
    BY <1>3, <1>7 DEF SavesLayout, historyVars
  <2>2. ~ Idle(b)'
    BY <2>1 DEF SessionInv, PageOK, Idle
  <2> QED  BY <2>1, <2>2 DEF Kept
<1>8. ASSUME NEW c \in Client, FetchStep(c), ~ Receives(c)
      PROVE  Kept(b)'
  <2>1. UNCHANGED <<page, layout, saveTimer, layouts>> /\ hasty \subseteq hasty'
    BY <1>8 DEF FetchStep, Puts, Conflict, Checks, Handles, Breaks, pageVars, historyVars
  <2> QED  BY <1>2, <2>1 DEF Kept, Idle, Overtaken
<1>9. ASSUME NEW c \in Client, Receives(c)
      PROVE  Kept(b)'
  <2>1. fetch[c] \in Fetch
    BY <1>9, FetchType DEF Receives
  <2>2. UNCHANGED <<page, hasty, layouts>>
    BY <1>9 DEF Receives
  <2>3. saveTimer'[b] \/ (saveTimer'[b] = saveTimer[b] /\ layout'[b] = layout[b])
    <3>1. CASE fetch[c].pc = "ok" /\ fetch[c].by = b
      <4>1. CASE Persists(fetch[c].edit)
        BY <1>9, <3>1, <4>1, EditorAssumption DEF Receives, EditorTypeOK
      <4>2. CASE ~ Persists(fetch[c].edit)
        <5>1. NextLayout(layout[b], fetch[c].edit) = layout[b]
          BY <2>1, <4>2 DEF NextLayout, Persists, Fetch, Edit
        <5>2. layout'[b] = layout[b]
          BY <1>9, <3>1, <5>1, EditorAssumption DEF Receives, EditorTypeOK
        <5>3. saveTimer'[b] = saveTimer[b]
          BY <1>9, <3>1, <4>2, EditorAssumption DEF Receives, EditorTypeOK, Persists
        <5> QED  BY <5>2, <5>3
      <4> QED  BY <4>1, <4>2
    <3>2. CASE fetch[c].pc = "refused" \/ fetch[c].by # b
      BY <1>9, <2>1, <3>2 DEF Receives, EditorTypeOK
    <3> QED  BY <1>9, <3>1, <3>2 DEF Receives
  <2> QED  BY <1>2, <2>2, <2>3 DEF Kept, Idle, Overtaken
<1>10. CASE UNCHANGED editorVars
  BY <1>2, <1>10 DEF editorVars, pageVars, historyVars, Kept, Idle, Overtaken
<1>11. ~ Restart
  BY DEF Restart, Alone, EditorTypeOK
<1> QED
  BY <1>1, <1>4, <1>5, <1>6, <1>7, <1>8, <1>9, <1>10, <1>11, StepCases DEF PageStep

\* A user who is alone finds on a reload what was arranged, once it is saved, but for
\* what init has replaced.
THEOREM OnePageKeepsItsLayoutAlways == EditorSpec => []OnePageKeepsItsLayout
<1>1. EditorInit => LayoutInv
  BY DEF EditorInit, LayoutInv, Kept
<1>2. LayoutInv => OnePageKeepsItsLayout
  BY DEF LayoutInv, Alone, Kept, Overtaken, OnePageKeepsItsLayout
<1> QED  BY <1>1, <1>2, LayoutStep, SessionAlways, PTL DEF EditorSpec

-----------------------------------------------------------------------------
(* Versions.  Known are the documents whose versions this life of the      *)
(* program has given out, and the empty one of version 0 that a page has   *)
(* before init is through: among those a version names one content,        *)
(* however many restarts there were.                                       *)

Pending(c)  == fetch[c].pc \in {"sent", "handled"} /\ ~ fetch[c].foreign
Expected(c) == fetch[c].pc = "ok" /\ fetch[c].by # None /\ fetch[c].by \notin foreign

KnownPage(d)   == \E b \in Browser \ foreign : d = topologyDoc[b] \/ d = gets[b].doc
KnownBase(d)   == \E c \in Client : (Pending(c) \/ Expected(c)) /\ d = fetch[c].base
KnownAnswer(d) ==
    \E c \in Client : \/ handler[c].pc = "replaced" /\ d = handler[c].put
                      \/ Expected(c) /\ d = seen[c]
Known(d) == d = store \/ d = NewStore \/ KnownPage(d) \/ KnownBase(d) \/ KnownAnswer(d)

KnownInv ==
    \A d \in Document : Known(d) =>
        /\ d.version <= store.version
        /\ \A x \in Document : Known(x) /\ d.version = x.version => d = x

\* It is enough that a step brings in nothing but what it stores.
LEMMA KnownStays ==
    ASSUME EditorTypeOK, EditorTypeOK', KnownInv,
           store' = store \/ store'.version = store.version + 1,
           \A d \in Document : Known(d)' => d = store' \/ Known(d)
    PROVE  KnownInv'
<1>1. store \in Document /\ store' \in Document
  BY DEF EditorTypeOK, StoreTypeOK
<1>2. store.version \in Nat /\ store'.version \in Nat
  BY <1>1 DEF Document
<1>3. Known(store)
  BY DEF Known
<1>4. \A d \in Document : Known(d) => d.version <= store.version /\ d.version \in Nat
  BY DEF KnownInv, Document
<1>5. CASE store' = store
  <2>1. \A d \in Document : Known(d)' => Known(d)
    BY <1>3, <1>5
  <2> QED  BY <1>5, <2>1 DEF KnownInv
<1>6. CASE store'.version = store.version + 1
  <2>1. ASSUME NEW d \in Document, Known(d)'
        PROVE  d = store' \/ (Known(d) /\ d.version < store'.version)
    BY <1>2, <1>4, <1>6, <2>1
  <2>2. ASSUME NEW d \in Document, Known(d)', NEW x \in Document, Known(x)',
               d.version = x.version
        PROVE  d = x
    <3>1. CASE d = store' \/ x = store'
      BY <1>2, <2>1, <2>2, <3>1
    <3>2. CASE Known(d) /\ Known(x)
      BY <2>2, <3>2 DEF KnownInv
    <3> QED  BY <2>1, <2>2, <3>1, <3>2
  <2>3. \A d \in Document : Known(d)' => d.version <= store'.version
    BY <1>2, <2>1 DEF Document
  <2> QED  BY <2>2, <2>3 DEF KnownInv
<1> QED  BY <1>5, <1>6

LEMMA KnownByPages ==
    ASSUME EditorTypeOK, EditorTypeOK', SessionInv, KnownInv, NEW b \in Browser, PageStep(b)
    PROVE  KnownInv'
<1>1. store' = store /\ UNCHANGED <<handler, seen>>
  BY DEF PageStep, Gets, Loads, FailsToLoad, Leaves, MovesNode, SavesLayout, storeVars
<1>2. ASSUME \/ \E part \in Parts : Gets(b, part)
             \/ Loads(b) \/ FailsToLoad(b) \/ MovesNode(b) \/ SavesLayout(b),
             NEW d \in Document, Known(d)'
      PROVE  d = store' \/ Known(d)
  <2>1. \A a \in Browser : /\ topologyDoc'[a] \in {topologyDoc[a], gets[a].doc}
                           /\ gets'[a].doc \in {gets[a].doc, store, NewStore}
    BY <1>2 DEF Gets, Loads, FailsToLoad, MovesNode, SavesLayout, EditorTypeOK, NoAnswers
  <2>2. UNCHANGED <<fetch, foreign>>
    BY <1>2 DEF Gets, Loads, FailsToLoad, MovesNode, SavesLayout, historyVars
  <2>3. KnownPage(d)' => d = store \/ d = NewStore \/ KnownPage(d)
    BY <2>1, <2>2 DEF KnownPage
  <2>4. (KnownBase(d)' => KnownBase(d)) /\ (KnownAnswer(d)' => KnownAnswer(d))
    BY <1>1, <2>2 DEF KnownBase, KnownAnswer, Pending, Expected
  <2> QED  BY <1>1, <1>2, <2>3, <2>4 DEF Known
<1>3. ASSUME Leaves(b), NEW d \in Document, Known(d)'
      PROVE  d = store' \/ Known(d)
  <2>1. \A a \in Browser \ foreign' :
            \/ topologyDoc'[a] = NewStore /\ gets'[a].doc = NewStore
            \/ a \notin foreign /\ topologyDoc'[a] = topologyDoc[a] /\ gets'[a] = gets[a]
    BY <1>3 DEF Leaves, EditorTypeOK, NoAnswers
  <2>2. ASSUME NEW c \in Client
        PROVE  (Pending(c)' => Pending(c)) /\ (Expected(c)' => Expected(c))
    <3>1. foreign' = foreign \ {b}
      BY <1>3 DEF Leaves
    <3> QED  BY <1>3, <3>1, LeavesFetches DEF Pending, Expected
  <2>3. \A c \in Client : fetch'[c].base = fetch[c].base
    BY <1>3, LeavesFetches
  <2>4. KnownPage(d)' => d = NewStore \/ KnownPage(d)
    BY <2>1 DEF KnownPage
  <2>5. (KnownBase(d)' => KnownBase(d)) /\ (KnownAnswer(d)' => KnownAnswer(d))
    BY <1>1, <2>2, <2>3 DEF KnownBase, KnownAnswer
  <2> QED  BY <1>3, <2>4, <2>5 DEF Known
<1> QED  BY <1>1, <1>2, <1>3, KnownStays DEF PageStep

\* What becomes of the store, the handler and the document answered.
LEMMA AnswerSteps ==
    ASSUME StoreTypeOK, NEW c \in Client, Answer(c)
    PROVE  /\ \A d \in Client \ {c} : handler'[d] = handler[d] /\ seen'[d] = seen[d]
           /\ \/ /\ handler'[c] = NoRequest /\ store' = store
                 /\ seen'[c] \in {seen[c], store}
                 /\ handler[c].pc = "checked"
                 /\ Valid(handler[c].put.topology) =>
                       seen'[c] = store /\ store.topology = handler[c].put.topology
              \/ /\ handler[c].pc = "checked" /\ Valid(handler[c].put.topology)
                 /\ store' = [topology |-> handler[c].put.topology,
                              version |-> store.version + 1]
                 /\ handler'[c] = [pc |-> "replaced", put |-> store'] /\ seen'[c] = seen[c]
              \/ /\ handler[c].pc = "replaced" /\ handler'[c] = NoRequest
                 /\ store' = store /\ seen'[c] = handler[c].put
<1> USE DEF StoreTypeOK
<1>1. CASE PutInvalid(c)
  BY <1>1 DEF PutInvalid
<1>2. CASE PutUnchanged(c)
  BY <1>2 DEF PutUnchanged
<1>3. CASE PutReplaces(c)
  BY <1>3 DEF PutReplaces
<1>4. CASE PutNotifies(c)
  BY <1>4 DEF PutNotifies
<1> QED  BY <1>1, <1>2, <1>3, <1>4 DEF Answer

LEMMA KnownByHandles ==
    ASSUME EditorTypeOK, EditorTypeOK', SessionInv, KnownInv, NEW c \in Client, Handles(c)
    PROVE  KnownInv'
<1>1. fetch[c] \in Fetch
  BY FetchType DEF Handles
<1>2. /\ UNCHANGED <<page, gets, topologyDoc, foreign>>
      /\ \A d \in Client \ {c} : handler'[d] = handler[d] /\ seen'[d] = seen[d]
                                 /\ fetch'[d] = fetch[d]
      /\ fetch'[c].base = fetch[c].base /\ fetch'[c].by = fetch[c].by
      /\ fetch'[c].foreign = fetch[c].foreign
  BY <1>1, AnswerSteps DEF Handles, pageVars, EditorTypeOK, Fetch
<1>3. (Pending(c) \/ Expected(c))' => Pending(c)
  <2>1. fetch[c].pc = "handled"
    BY DEF Handles
  <2> QED  BY <1>2, <2>1 DEF Pending, Expected, SessionInv, FetchOK
<1>4. ASSUME NEW d \in Document, Known(d)'
      PROVE  d = store' \/ Known(d)
  <2>1. KnownPage(d)' => KnownPage(d)
    BY <1>2 DEF KnownPage
  <2>2. KnownBase(d)' => KnownBase(d)
    BY <1>2, <1>3 DEF KnownBase, Pending, Expected
  <2>3. KnownAnswer(d)' => d = store' \/ KnownAnswer(d)
    <3>1. handler'[c].pc = "replaced" => handler'[c].put = store'
      BY AnswerSteps DEF Handles, EditorTypeOK, NoRequest
    <3>2. Expected(c)' => \/ seen'[c] = store'
                          \/ handler[c].pc = "replaced" /\ seen'[c] = handler[c].put
      <4> SUFFICES ASSUME Expected(c)'
                   PROVE  \/ seen'[c] = store'
                          \/ handler[c].pc = "replaced" /\ seen'[c] = handler[c].put
        OBVIOUS
      <4>1. handler'[c] = NoRequest /\ Valid(Body(c))
        <5>1. fetch'[c].pc = "ok" /\ fetch[c].pc = "handled"
          BY DEF Expected, Handles
        <5> QED  BY <1>1, <5>1 DEF Handles, EditorTypeOK, Fetch
      <4>2. handler[c].pc = "checked" => handler[c].put.topology = Body(c)
        <5>1. FetchOK(c)
          BY DEF SessionInv
        <5> QED  BY <5>1 DEF FetchOK
      <4>3. handler'[c].pc = "idle"
        BY <4>1 DEF NoRequest
      <4>4. Answer(c) /\ StoreTypeOK
        BY DEF Handles, EditorTypeOK
      <4> QED  BY <4>1, <4>2, <4>3, <4>4, AnswerSteps
    <3> SUFFICES ASSUME NEW x \in Client,
                        \/ handler'[x].pc = "replaced" /\ d = handler'[x].put
                        \/ Expected(x)' /\ d = seen'[x]
                 PROVE  d = store' \/ KnownAnswer(d)
      BY DEF KnownAnswer
    <3>3. CASE x = c
      BY <3>1, <3>2, <3>3 DEF KnownAnswer
    <3>4. CASE x # c
      BY <1>2, <3>4 DEF KnownAnswer, Expected
    <3> QED  BY <3>3, <3>4
  <2> QED  BY <1>4, <2>1, <2>2, <2>3 DEF Known
<1>5. store' = store \/ store'.version = store.version + 1
  BY AnswerSteps DEF Handles, EditorTypeOK
<1> QED  BY <1>4, <1>5, KnownStays

LEMMA KnownByFetches ==
    ASSUME EditorTypeOK, EditorTypeOK', SessionInv, KnownInv, NEW c \in Client,
           FetchStep(c), ~ Handles(c)
    PROVE  KnownInv'
<1>1. store' = store
  BY DEF FetchStep, Puts, Conflict, Checks, PutChecked, Receives, Breaks, storeVars
<1>2. ASSUME NEW b \in Browser, NEW e \in Edit, Puts(b, c, e),
             NEW d \in Document, Known(d)'
      PROVE  Known(d)
  <2>1. UNCHANGED <<handler, seen, gets, topologyDoc, foreign>>
    BY <1>2 DEF Puts, storeVars, pageVars
  <2>2. /\ fetch'[c].pc = "sent" /\ fetch'[c].base = topologyDoc[b]
        /\ fetch'[c].foreign = (b \in foreign)
        /\ \A x \in Client \ {c} : fetch'[x] = fetch[x]
    BY <1>2 DEF Puts, EditorTypeOK
  <2>3. KnownBase(d)' => KnownBase(d) \/ KnownPage(d)
    <3> SUFFICES ASSUME NEW x \in Client, (Pending(x) \/ Expected(x))' /\ d = fetch'[x].base
                 PROVE  KnownBase(d) \/ KnownPage(d)
      BY DEF KnownBase
    <3>1. CASE x = c
      BY <2>2, <3>1 DEF Pending, Expected, KnownPage
    <3>2. CASE x # c
      BY <2>1, <2>2, <3>2 DEF Pending, Expected, KnownBase
    <3> QED  BY <3>1, <3>2
  <2>4. KnownAnswer(d)' => KnownAnswer(d)
    <3> SUFFICES ASSUME NEW x \in Client,
                        \/ handler'[x].pc = "replaced" /\ d = handler'[x].put
                        \/ Expected(x)' /\ d = seen'[x]
                 PROVE  KnownAnswer(d)
      BY DEF KnownAnswer
    <3> QED  BY <2>1, <2>2 DEF KnownAnswer, Expected
  <2>5. KnownPage(d)' => KnownPage(d)
    BY <2>1 DEF KnownPage
  <2> QED  BY <1>1, <1>2, <2>3, <2>4, <2>5 DEF Known
<1>3. ASSUME Conflict(c) \/ Checks(c) \/ Breaks(c), NEW d \in Document, Known(d)'
      PROVE  Known(d)
  <2>1. fetch[c] \in Fetch
    BY <1>3, FetchType DEF Conflict, Checks, Breaks
  <2>2. /\ UNCHANGED <<seen, gets, topologyDoc, foreign>>
        /\ \A x \in Client : handler'[x].pc = "replaced" => handler'[x] = handler[x]
    BY <1>3 DEF Conflict, Checks, Breaks, PutChecked, storeVars, pageVars, historyVars,
               EditorTypeOK, StoreTypeOK
  <2>3. ASSUME NEW x \in Client
        PROVE  /\ fetch'[x].base = fetch[x].base
               /\ Pending(x)' => Pending(x)
               /\ Expected(x)' => Expected(x)
    <3>1. CASE x = c
      BY <1>3, <2>1, <2>2, <3>1
      DEF Conflict, Checks, Breaks, Pending, Expected, EditorTypeOK, Fetch
    <3>2. CASE x # c
      BY <1>3, <2>2, <3>2 DEF Conflict, Checks, Breaks, Pending, Expected, EditorTypeOK
    <3> QED  BY <3>1, <3>2
  <2>4. KnownBase(d)' => KnownBase(d)
    <3> SUFFICES ASSUME NEW x \in Client, (Pending(x) \/ Expected(x))' /\ d = fetch'[x].base
                 PROVE  KnownBase(d)
      BY DEF KnownBase
    <3> QED  BY <2>3 DEF KnownBase
  <2>5. KnownAnswer(d)' => KnownAnswer(d)
    <3> SUFFICES ASSUME NEW x \in Client,
                        \/ handler'[x].pc = "replaced" /\ d = handler'[x].put
                        \/ Expected(x)' /\ d = seen'[x]
                 PROVE  KnownAnswer(d)
      BY DEF KnownAnswer
    <3> QED  BY <2>2, <2>3 DEF KnownAnswer
  <2>6. KnownPage(d)' => KnownPage(d)
    BY <2>2 DEF KnownPage
  <2> QED  BY <1>1, <1>3, <2>4, <2>5, <2>6 DEF Known
<1>4. ASSUME Receives(c), NEW d \in Document, Known(d)'
      PROVE  Known(d)
  <2>1. /\ UNCHANGED <<handler, gets, foreign>>
        /\ fetch'[c] = NoFetch
        /\ \A x \in Client \ {c} : fetch'[x] = fetch[x] /\ seen'[x] = seen[x]
    BY <1>4 DEF Receives, EditorTypeOK, StoreTypeOK
  <2>2. ASSUME NEW x \in Browser \ foreign
        PROVE  topologyDoc'[x] = topologyDoc[x] \/ (Expected(c) /\ topologyDoc'[x] = seen[c])
    <3>1. CASE x = fetch[c].by /\ fetch[c].pc = "ok"
      BY <1>4, <3>1, EditorAssumption DEF Receives, AnswerDoc, Expected, EditorTypeOK
    <3>2. CASE x # fetch[c].by \/ fetch[c].pc # "ok"
      BY <1>4, <3>2 DEF Receives, EditorTypeOK
    <3> QED  BY <3>1, <3>2
  <2>3. KnownBase(d)' => KnownBase(d)
    <3> SUFFICES ASSUME NEW x \in Client, (Pending(x) \/ Expected(x))' /\ d = fetch'[x].base
                 PROVE  KnownBase(d)
      BY DEF KnownBase
    <3>1. x # c
      BY <2>1 DEF Pending, Expected, NoFetch
    <3> QED  BY <2>1, <3>1 DEF KnownBase, Pending, Expected
  <2>4. KnownAnswer(d)' => KnownAnswer(d)
    <3> SUFFICES ASSUME NEW x \in Client,
                        \/ handler'[x].pc = "replaced" /\ d = handler'[x].put
                        \/ Expected(x)' /\ d = seen'[x]
                 PROVE  KnownAnswer(d)
      BY DEF KnownAnswer
    <3>1. CASE x = c
      BY <2>1, <3>1 DEF KnownAnswer, Expected, NoFetch
    <3>2. CASE x # c
      BY <2>1, <3>2 DEF KnownAnswer, Expected
    <3> QED  BY <3>1, <3>2
  <2>5. KnownPage(d)' => KnownPage(d) \/ KnownAnswer(d)
    BY <2>1, <2>2 DEF KnownPage, KnownAnswer
  <2> QED  BY <1>1, <1>4, <2>3, <2>4, <2>5 DEF Known
<1> QED  BY <1>1, <1>2, <1>3, <1>4, KnownStays DEF FetchStep

LEMMA KnownByRestart ==
    ASSUME EditorTypeOK, EditorTypeOK', SessionInv, Restart
    PROVE  KnownInv'
<1>1. ASSUME NEW d \in Document, Known(d)'
      PROVE  d = store' \/ d = NewStore
  <2>1. KnownPage(d)' => d = NewStore
    <3>1. \A b \in Browser \ foreign' : topologyDoc'[b] = NewStore /\ gets'[b].doc = NewStore
      BY DEF Restart, pageVars, InUse, Idle, SessionInv, PageOK, NoAnswers
    <3> QED  BY <3>1 DEF KnownPage
  <2>2. ASSUME NEW c \in Client
        PROVE  /\ ~ Pending(c)' /\ ~ Expected(c)'
               /\ handler'[c].pc # "replaced"
    <3>1. fetch'[c].by # None => fetch'[c].by \in foreign'
      <4> SUFFICES ASSUME fetch'[c].by # None
                   PROVE  fetch'[c].by \in foreign'
        OBVIOUS
      <4>1. fetch'[c].by = fetch[c].by
        BY RestartFetches
      <4>2. fetch[c].by \in Browser /\ InUse(fetch[c].by)
        <5>1. fetch[c].by \in Browser \cup {None}
          BY DEF EditorTypeOK, Fetch, NoFetch
        <5>2. FetchOK(c)
          BY DEF SessionInv
        <5> QED  BY <4>1, <5>1, <5>2 DEF FetchOK, Idle, InUse
      <4> QED  BY <4>1, <4>2 DEF Restart
    <3>2. fetch'[c].pc \notin {"sent", "handled"}
      BY RestartFetches
    <3> QED  BY <3>1, <3>2 DEF Pending, Expected, Restart, NoRequest
  <2> QED  BY <1>1, <2>1, <2>2 DEF Known, KnownBase, KnownAnswer
<1>2. store' = NewStore \/ store'.version = 1
  BY DEF Restart, Adopted
<1> QED  BY <1>1, <1>2, NewStoreType DEF KnownInv, NewStore, Document

LEMMA KnownStep ==
    ASSUME EditorTypeOK, EditorTypeOK', SessionInv, KnownInv, [EditorNext]_editorVars
    PROVE  KnownInv'
<1>1. CASE UNCHANGED editorVars
  BY <1>1 DEF editorVars, storeVars, pageVars, historyVars, KnownInv, Known, KnownPage,
             KnownBase, KnownAnswer, Pending, Expected
<1> QED
  BY <1>1, KnownByPages, KnownByHandles, KnownByFetches, KnownByRestart, StepCases

LEMMA KnownAlways == EditorSpec => []KnownInv
<1>1. EditorInit => KnownInv
  <2> SUFFICES ASSUME EditorInit
               PROVE  KnownInv
    OBVIOUS
  <2>1. \A d : Known(d) => d = store \/ d = NewStore
    BY DEF EditorInit, Known, KnownPage, KnownBase, KnownAnswer, Pending, Expected,
           NoFetch, NoRequest, NoAnswers
  <2>2. store = NewStore \/ store.version = 1
    BY DEF EditorInit, Adopted
  <2> QED  BY <2>1, <2>2, NewStoreType DEF KnownInv, NewStore, Document
<1>2. (EditorTypeOK /\ SessionInv)' => EditorTypeOK'
  OBVIOUS
<1> QED  BY <1>1, <1>2, KnownStep, SessionAlways, PTL DEF EditorSpec

\* The version check does what it is there for, but for version 0, races and the
\* pages that have lived through a restart: an accepted edit changes what its user
\* changed and nothing else.
THEOREM EditsApplyToWhatIsStoredAlways == EditorSpec => EditsApplyToWhatIsStored
<1> DEFINE Applies ==
      \A c \in Client :
          /\ Replaced(c)
          /\ fetch[c].base.version # 0
          /\ fetch[c].base.version = store.version
          /\ ~ fetch[c].foreign
          => store'.topology = Edited(store.topology, fetch[c].edit)
<1>1. EditorTypeOK /\ SessionInv /\ KnownInv /\ [EditorNext]_editorVars
        => [Applies]_editorVars
  <2> SUFFICES ASSUME EditorTypeOK, SessionInv, KnownInv, EditorNext,
                      NEW c \in Client, Replaced(c),
                      fetch[c].base.version = store.version, ~ fetch[c].foreign
               PROVE  store'.topology = Edited(store.topology, fetch[c].edit)
    OBVIOUS
  <2>1. FetchOK(c) /\ fetch[c].pc = "handled" /\ handler[c].put.topology = Body(c)
    BY DEF SessionInv, FetchOK, Replaced
  <2>2. fetch[c].base \in Document /\ store \in Document
    BY <2>1, FetchType DEF Fetch, EditorTypeOK, StoreTypeOK
  <2>3. Known(store) /\ Known(fetch[c].base)
    BY <2>1 DEF Known, KnownBase, Pending
  <2>4. fetch[c].base = store
    BY <2>2, <2>3 DEF KnownInv
  <2>5. ASSUME NEW x \in Client, FetchStep(x)
        PROVE  x = c /\ Handles(c)
    <3>1. CASE Handles(x)
      BY <3>1, AnswerSteps DEF Handles, EditorTypeOK, Replaced
    <3>2. CASE ~ Handles(x)
      <4>1. UNCHANGED handler \/ (handler[x].pc = "idle" /\ \A y \in Client \ {x} : handler'[y] = handler[y])
        BY <2>5, <3>2 DEF FetchStep, Puts, Conflict, Checks, PutChecked, Receives, Breaks,
                         storeVars, EditorTypeOK, StoreTypeOK
      <4> QED  BY <4>1 DEF Replaced
    <3> QED  BY <3>1, <3>2
  <2>6. ~ Restart
    BY DEF Restart, Replaced, NoRequest
  <2>7. \A b \in Browser : ~ PageStep(b)
    BY DEF PageStep, Gets, Loads, FailsToLoad, Leaves, MovesNode, SavesLayout, storeVars,
           Replaced
  <2>8. Answer(c) /\ StoreTypeOK
    BY <2>5, <2>6, <2>7, StepCases DEF Handles, EditorTypeOK
  <2>9. store'.topology = handler[c].put.topology
    BY <2>8, AnswerSteps DEF Replaced, NoRequest
  <2> QED  BY <2>1, <2>4, <2>9 DEF Body
<1> QED
  BY <1>1, SessionAlways, KnownAlways, PTL DEF EditorSpec, EditsApplyToWhatIsStored

-----------------------------------------------------------------------------
(* Pages stay on course.  As long as no PUT has been accepted on another   *)
(* document than the one it was made on, the document of a page is the one *)
(* its stored edit was made on; so there is only one such edit at a time,  *)
(* and its answer is what the page is waiting for.                         *)

Watched(c) == /\ fetch[c].by # None
              /\ fetch[c].by \notin foreign
              /\ fetch[c].by \notin astray
              /\ ~ Overtaken(fetch[c].by)

\* The edit has been stored.
Made(c) == \/ handler[c].pc = "replaced"
           \/ fetch[c].pc = "ok" /\ seen[c].version # fetch[c].base.version

Result(c) == IF fetch[c].pc = "ok" THEN seen[c] ELSE handler[c].put

OnCourse(c) ==
    LET doc  == topologyDoc[fetch[c].by]
        base == fetch[c].base
    IN  /\ fetch[c].pc \in {"sent", "handled", "ok"} => base.version <= doc.version
        /\ Made(c) => /\ doc = base
                      /\ Result(c) = [topology |-> Body(c), version |-> base.version + 1]
        /\ fetch[c].pc = "ok" /\ ~ Made(c) => seen[c] = base /\ Body(c) = base.topology

OneMade(c, d) == ~ (Made(c) /\ Made(d) /\ fetch[c].by = fetch[d].by)

CourseInv ==
    ~ raced => \A c \in Client : Watched(c) =>
        /\ OnCourse(c)
        /\ \A d \in Client \ {c} : Watched(d) => OneMade(c, d)

\* A step keeps what it does not touch on course.
LEMMA CourseStays ==
    ASSUME CourseInv, raced => raced',
           NEW S \in SUBSET Client,
           \A c \in S : Watched(c)' =>
               /\ Watched(c)
               /\ fetch'[c] = fetch[c] /\ handler'[c] = handler[c] /\ seen'[c] = seen[c]
               /\ topologyDoc'[fetch[c].by] = topologyDoc[fetch[c].by],
           ~ raced' => \A c \in Client \ S : ~ Watched(c)'
    PROVE  CourseInv'
<1> SUFFICES ASSUME ~ raced', NEW c \in Client, Watched(c)'
             PROVE  /\ OnCourse(c)'
                    /\ \A d \in Client \ {c} : Watched(d)' => OneMade(c, d)'
  BY DEF CourseInv
<1>1. /\ c \in S /\ Watched(c) /\ OnCourse(c)
      /\ fetch'[c] = fetch[c] /\ handler'[c] = handler[c] /\ seen'[c] = seen[c]
      /\ topologyDoc'[fetch[c].by] = topologyDoc[fetch[c].by]
  BY DEF CourseInv
<1>2. OnCourse(c)'
  BY <1>1 DEF OnCourse, Made, Result, Body
<1>3. ASSUME NEW d \in Client \ {c}, Watched(d)'
      PROVE  OneMade(c, d)'
  <2>1. /\ Watched(d) /\ fetch'[d] = fetch[d] /\ handler'[d] = handler[d] /\ seen'[d] = seen[d]
    BY <1>3
  <2>2. OneMade(c, d)
    BY <1>1, <2>1 DEF CourseInv
  <2> QED  BY <1>1, <2>1, <2>2 DEF OneMade, Made
<1> QED  BY <1>2, <1>3

LEMMA CourseByPages ==
    ASSUME EditorTypeOK, SessionInv, CourseInv, NEW b \in Browser, PageStep(b)
    PROVE  CourseInv'
<1>1. UNCHANGED <<handler, seen, raced>>
  BY DEF PageStep, Gets, Loads, FailsToLoad, Leaves, MovesNode, SavesLayout, storeVars,
         historyVars
<1>2. ASSUME Loads(b), NEW c \in Client, Watched(c)'
      PROVE  /\ Watched(c) /\ fetch'[c] = fetch[c]
             /\ topologyDoc'[fetch[c].by] = topologyDoc[fetch[c].by]
  <2>1. /\ UNCHANGED <<fetch, foreign, hasty>>
        /\ astray \subseteq astray'
        /\ page'[b] = "open"
        /\ \A a \in Browser \ {b} : page'[a] = page[a] /\ topologyDoc'[a] = topologyDoc[a]
    BY <1>2 DEF Loads, EditorTypeOK
  <2>2. fetch[c].by # b
    BY <1>2, <2>1 DEF Watched, Overtaken, SessionInv, FetchOK, Idle, Loads
  <2>3. fetch[c].by \in Browser \cup {None}
    BY DEF EditorTypeOK, Fetch, NoFetch
  <2> QED  BY <1>2, <2>1, <2>2, <2>3 DEF Watched, Overtaken
<1>3. ASSUME Leaves(b), NEW c \in Client, Watched(c)'
      PROVE  /\ Watched(c) /\ fetch'[c] = fetch[c]
             /\ topologyDoc'[fetch[c].by] = topologyDoc[fetch[c].by]
  <2>1. /\ fetch'[c].by = (IF fetch[c].by = b THEN None ELSE fetch[c].by)
        /\ fetch'[c] = [fetch[c] EXCEPT !.by = IF @ = b THEN None ELSE @]
    BY <1>3, LeavesFetches DEF Leaves
  <2>2. fetch[c].by # b /\ fetch[c].by # None
    BY <1>3, <2>1 DEF Watched
  <2>3. fetch[c].by \in Browser /\ fetch[c] \in Fetch
    BY <2>2 DEF EditorTypeOK, Fetch, NoFetch
  <2>4. fetch'[c] = fetch[c]
    BY <2>1, <2>2, <2>3 DEF Fetch
  <2>5. /\ foreign' = foreign \ {b} /\ astray' = astray \ {b} /\ hasty' = hasty \ {b}
        /\ \A a \in Browser \ {b} : page'[a] = page[a] /\ topologyDoc'[a] = topologyDoc[a]
    BY <1>3 DEF Leaves, EditorTypeOK
  <2> QED  BY <1>3, <2>2, <2>3, <2>4, <2>5 DEF Watched, Overtaken
<1>4. ASSUME \/ \E part \in Parts : Gets(b, part)
             \/ FailsToLoad(b) \/ MovesNode(b) \/ SavesLayout(b),
             NEW c \in Client, Watched(c)'
      PROVE  /\ Watched(c) /\ fetch'[c] = fetch[c]
             /\ topologyDoc'[fetch[c].by] = topologyDoc[fetch[c].by]
  <2>1. UNCHANGED <<fetch, foreign, astray, hasty, topologyDoc>>
    BY <1>4 DEF Gets, FailsToLoad, MovesNode, SavesLayout, historyVars
  <2>2. \A a \in Browser : page[a] = "open" => page'[a] = "open"
    BY <1>4 DEF Gets, FailsToLoad, MovesNode, SavesLayout, EditorTypeOK
  <2>3. fetch[c].by \in Browser \cup {None}
    BY DEF EditorTypeOK, Fetch, NoFetch
  <2> QED  BY <1>4, <2>1, <2>2, <2>3 DEF Watched, Overtaken
<1> QED
  BY <1>1, <1>2, <1>3, <1>4, CourseStays DEF PageStep

\* A fetch of which nothing is stored yet may go on as it likes.
LEMMA CourseOfOne ==
    ASSUME CourseInv, raced => raced', NEW c \in Client,
           \A d \in Client \ {c} : Watched(d)' =>
               /\ Watched(d)
               /\ fetch'[d] = fetch[d] /\ handler'[d] = handler[d] /\ seen'[d] = seen[d]
               /\ topologyDoc'[fetch[d].by] = topologyDoc[fetch[d].by],
           ~ raced' /\ Watched(c)' => OnCourse(c)',
           ~ raced' /\ Watched(c)' => \A d \in Client \ {c} : Watched(d)' => OneMade(c, d)'
    PROVE  CourseInv'
<1> SUFFICES ASSUME ~ raced', NEW d \in Client, Watched(d)'
             PROVE  /\ OnCourse(d)'
                    /\ \A x \in Client \ {d} : Watched(x)' => OneMade(d, x)'
  BY DEF CourseInv
<1>1. CASE d = c
  BY <1>1
<1>2. CASE d # c
  <2>1. /\ Watched(d) /\ OnCourse(d)
        /\ fetch'[d] = fetch[d] /\ handler'[d] = handler[d] /\ seen'[d] = seen[d]
        /\ topologyDoc'[fetch[d].by] = topologyDoc[fetch[d].by]
    BY <1>2 DEF CourseInv
  <2>2. OnCourse(d)'
    BY <2>1 DEF OnCourse, Made, Result, Body
  <2>3. ASSUME NEW x \in Client \ {d}, Watched(x)'
        PROVE  OneMade(d, x)'
    <3>1. CASE x = c
      <4>1. OneMade(c, d)'
        BY <1>2, <2>3, <3>1
      <4> QED  BY <3>1, <4>1 DEF OneMade
    <3>2. CASE x # c
      <4>1. /\ Watched(x) /\ fetch'[x] = fetch[x]
            /\ handler'[x] = handler[x] /\ seen'[x] = seen[x]
        BY <2>3, <3>2
      <4>2. OneMade(d, x)
        BY <2>1, <4>1 DEF CourseInv
      <4> QED  BY <2>1, <4>1, <4>2 DEF OneMade, Made
    <3> QED  BY <3>1, <3>2
  <2> QED  BY <2>2, <2>3
<1> QED  BY <1>1, <1>2

LEMMA CourseByRequests ==
    ASSUME EditorTypeOK, SessionInv, CourseInv, NEW c \in Client,
           \/ \E b \in Browser, e \in Edit : Puts(b, c, e)
           \/ Conflict(c) \/ Checks(c) \/ Breaks(c)
    PROVE  CourseInv'
<1>1. /\ UNCHANGED <<page, topologyDoc, foreign, astray, raced, seen>>
      /\ hasty \subseteq hasty'
      /\ \A d \in Client \ {c} : fetch'[d] = fetch[d] /\ handler'[d] = handler[d]
  BY DEF Puts, Conflict, Checks, PutChecked, Breaks, storeVars, pageVars, historyVars,
         EditorTypeOK, StoreTypeOK
<1>2. FetchOK(c)
  BY DEF SessionInv
<1>3. ASSUME NEW b \in Browser, NEW e \in Edit, Puts(b, c, e)
      PROVE  OnCourse(c)' /\ ~ Made(c)'
  <2>1. /\ fetch'[c].pc = "sent" /\ fetch'[c].by = b /\ fetch'[c].base = topologyDoc[b]
        /\ handler' = handler /\ fetch[c].pc = "idle"
    BY <1>3 DEF Puts, storeVars, EditorTypeOK, NoFetch
  <2>2. handler'[c].pc = "idle"
    BY <1>2, <2>1 DEF FetchOK
  <2>3. topologyDoc[b].version \in Nat
    BY DEF EditorTypeOK, Document
  <2> QED  BY <1>1, <2>1, <2>2, <2>3 DEF OnCourse, Made
<1>4. ASSUME Conflict(c) \/ Checks(c), Watched(c)', ~ raced
      PROVE  OnCourse(c)' /\ ~ Made(c)'
  <2>1. fetch[c] \in Fetch /\ fetch[c].pc = "sent"
    BY <1>4, FetchType DEF Conflict, Checks
  <2>2. /\ fetch'[c].by = fetch[c].by /\ fetch'[c].base = fetch[c].base
        /\ fetch'[c].pc \in {"refused", "handled"}
    BY <1>4, <2>1 DEF Conflict, Checks, EditorTypeOK, Fetch
  <2>3. handler'[c].pc # "replaced"
    BY <1>2, <1>4, <2>1 DEF FetchOK, Conflict, Checks, PutChecked, storeVars,
                            EditorTypeOK, StoreTypeOK
  <2>4. Watched(c) /\ OnCourse(c)
    BY <1>1, <1>4, <2>2 DEF Watched, Overtaken, CourseInv
  <2> QED  BY <1>1, <2>1, <2>2, <2>3, <2>4 DEF OnCourse, Made
<1>5. ASSUME Breaks(c)
      PROVE  ~ Watched(c)'
  <2>1. fetch[c] \in Fetch
    BY <1>5, FetchType DEF Breaks
  <2> QED  BY <1>5, <2>1 DEF Breaks, EditorTypeOK, Watched
<1>6. \A d \in Client \ {c} : Watched(d)' => Watched(d)
  BY <1>1 DEF Watched, Overtaken
<1>7. ~ raced' /\ Watched(c)' => OnCourse(c)' /\ ~ Made(c)'
  BY <1>1, <1>3, <1>4, <1>5
<1>8. ~ raced' /\ Watched(c)' => \A d \in Client \ {c} : OneMade(c, d)'
  BY <1>7 DEF OneMade
<1> QED  BY <1>1, <1>6, <1>7, <1>8, CourseOfOne

LEMMA CourseByHandles ==
    ASSUME EditorTypeOK, SessionInv, KnownInv, CourseInv, NEW c \in Client, Handles(c)
    PROVE  CourseInv'
<1> DEFINE b    == fetch[c].by
           base == fetch[c].base
<1>1. fetch[c] \in Fetch /\ fetch[c].pc = "handled" /\ FetchOK(c)
  BY FetchType DEF Handles, SessionInv
<1>2. /\ UNCHANGED <<page, topologyDoc, foreign, astray, hasty>>
      /\ \A d \in Client \ {c} : handler'[d] = handler[d] /\ seen'[d] = seen[d]
                                 /\ fetch'[d] = fetch[d]
      /\ fetch'[c].base = base /\ fetch'[c].by = b
      /\ fetch'[c].edit = fetch[c].edit
      /\ fetch'[c].pc = IF handler'[c] # NoRequest THEN "handled"
                        ELSE IF Valid(Body(c)) THEN "ok" ELSE "refused"
  BY <1>1, AnswerSteps DEF Handles, pageVars, EditorTypeOK, Fetch
<1>3. raced => raced'
  BY DEF Handles
<1>4. Answer(c) /\ StoreTypeOK
  BY DEF Handles, EditorTypeOK
<1>5. \A d \in Client \ {c} : Watched(d)' => Watched(d)
  BY <1>2 DEF Watched, Overtaken
<1>6. Body(c)' = Body(c) /\ base \in Document /\ store \in Document
  BY <1>1, <1>2 DEF Body, Fetch, EditorTypeOK, StoreTypeOK
<1>7. CASE handler[c].pc = "checked" /\ ~ Valid(Body(c))
  <2>1. handler'[c] = NoRequest
    BY <1>1, <1>4, <1>7, AnswerSteps DEF FetchOK
  <2>2. fetch'[c].pc = "refused" /\ ~ Made(c)'
    BY <1>2, <1>7, <2>1 DEF Made, NoRequest
  <2>3. OnCourse(c)'
    BY <2>2 DEF OnCourse
  <2> QED  BY <1>2, <1>3, <1>5, <2>2, <2>3, CourseOfOne DEF OneMade
<1>8. CASE handler[c].pc = "checked" /\ Valid(Body(c))
  <2> SUFFICES ASSUME ~ raced', Watched(c)'
               PROVE  /\ OnCourse(c)'
                      /\ \A d \in Client \ {c} : Watched(d)' => OneMade(c, d)'
    BY <1>2, <1>3, <1>5, CourseOfOne
  <2>1. store = base /\ handler[c].put = [topology |-> Body(c), version |-> base.version]
    BY <1>1, <1>8 DEF Handles, Accepted, FetchOK
  <2>2. Watched(c) /\ OnCourse(c) /\ ~ raced /\ b \in Browser
    BY <1>1, <1>2, <1>3 DEF Watched, Overtaken, CourseInv, Fetch
  <2>3. b \notin foreign
    BY <2>2 DEF Watched
  <2>4. topologyDoc[b] \in Document /\ Known(topologyDoc[b]) /\ Known(store)
    BY <2>2, <2>3 DEF Known, KnownPage, EditorTypeOK
  <2>5. topologyDoc[b] = base
    <3>1. base.version <= topologyDoc[b].version
      BY <1>1, <2>2 DEF OnCourse
    <3>2. topologyDoc[b].version <= store.version
      BY <2>4 DEF KnownInv
    <3>3. topologyDoc[b].version = store.version
      BY <1>6, <2>1, <2>4, <3>1, <3>2 DEF Document
    <3> QED  BY <1>6, <2>1, <2>4, <3>3 DEF KnownInv
  <2>6. base.version \in Nat
    BY <1>6 DEF Document
  <2>7. CASE handler'[c] = NoRequest
    <3>1. seen'[c] = store /\ store.topology = Body(c)
      BY <1>4, <1>8, <2>1, <2>7, AnswerSteps DEF NoRequest
    <3>2. fetch'[c].pc = "ok" /\ ~ Made(c)'
      BY <1>2, <1>8, <2>1, <2>7, <3>1 DEF Made, NoRequest
    <3>3. OnCourse(c)'
      BY <1>2, <1>6, <2>1, <2>5, <2>6, <3>1, <3>2 DEF OnCourse
    <3> QED  BY <3>2, <3>3 DEF OneMade
  <2>8. CASE handler'[c] # NoRequest
    <3>1. /\ handler'[c].pc = "replaced"
          /\ handler'[c].put = [topology |-> Body(c), version |-> base.version + 1]
      BY <1>4, <1>8, <2>1, <2>8, AnswerSteps
    <3>2. fetch'[c].pc = "handled"
      BY <1>2, <2>8
    <3>3. OnCourse(c)'
      BY <1>2, <1>6, <2>5, <2>6, <3>1, <3>2 DEF OnCourse, Made, Result
    <3>4. ASSUME NEW d \in Client \ {c}, Watched(d)', Made(d)', fetch'[d].by = b
          PROVE  FALSE
      <4>1. Watched(d) /\ Made(d) /\ OnCourse(d) /\ fetch[d].by = b
        BY <1>2, <1>5, <2>2, <3>4 DEF Made, CourseInv
      <4>2. /\ Result(d).version = topologyDoc[b].version + 1
        BY <4>1 DEF OnCourse
      <4>3. Result(d) \in Document /\ Known(Result(d))
        <5>1. CASE fetch[d].pc = "ok"
          BY <4>1, <5>1 DEF Result, Known, KnownAnswer, Expected, Watched, EditorTypeOK,
                            StoreTypeOK
        <5>2. CASE fetch[d].pc # "ok"
          BY <4>1, <5>2 DEF Result, Made, Known, KnownAnswer, EditorTypeOK, StoreTypeOK,
                            Handler
        <5> QED  BY <5>1, <5>2
      <4>4. Result(d).version <= store.version
        BY <4>3 DEF KnownInv
      <4> QED  BY <2>1, <2>5, <2>6, <4>2, <4>4
    <3>5. \A d \in Client \ {c} : Watched(d)' => OneMade(c, d)'
      BY <1>2, <3>4 DEF OneMade
    <3> QED  BY <3>3, <3>5
  <2> QED  BY <2>7, <2>8
<1>9. CASE handler[c].pc = "replaced"
  <2> SUFFICES ASSUME ~ raced', Watched(c)'
               PROVE  /\ OnCourse(c)'
                      /\ \A d \in Client \ {c} : Watched(d)' => OneMade(c, d)'
    BY <1>2, <1>3, <1>5, CourseOfOne
  <2>1. Watched(c) /\ OnCourse(c) /\ ~ raced
    BY <1>2, <1>3 DEF Watched, Overtaken, CourseInv
  <2>2. /\ topologyDoc[b] = base
        /\ handler[c].put = [topology |-> Body(c), version |-> base.version + 1]
    BY <1>1, <1>9, <2>1 DEF OnCourse, Made, Result
  <2>3. handler'[c] = NoRequest /\ seen'[c] = handler[c].put
    BY <1>4, <1>9, AnswerSteps
  <2>4. base.version \in Nat
    BY <1>6 DEF Document
  <2>5. OnCourse(c)'
    BY <1>2, <1>6, <2>2, <2>3, <2>4 DEF OnCourse, Made, Result, NoRequest
  <2>6. ASSUME NEW d \in Client \ {c}, Watched(d)', Made(d)', fetch'[d].by = b
        PROVE  FALSE
    <3>1. Watched(d) /\ Made(d) /\ fetch[d].by = b /\ OneMade(c, d)
      BY <1>2, <1>5, <2>1, <2>6 DEF Made, CourseInv
    <3> QED  BY <1>9, <3>1 DEF OneMade, Made
  <2>7. \A d \in Client \ {c} : Watched(d)' => OneMade(c, d)'
    BY <1>2, <2>6 DEF OneMade
  <2> QED  BY <2>5, <2>7
<1> QED  BY <1>1, <1>4, <1>7, <1>8, <1>9 DEF FetchOK, EditorTypeOK, StoreTypeOK, Handler

LEMMA CourseByReceives ==
    ASSUME EditorTypeOK, SessionInv, KnownInv, CourseInv, NEW c \in Client, Receives(c)
    PROVE  CourseInv'
<1> DEFINE b == fetch[c].by
<1>1. /\ UNCHANGED <<page, handler, foreign, hasty, raced>>
      /\ fetch'[c] = NoFetch
      /\ \A d \in Client \ {c} : fetch'[d] = fetch[d] /\ seen'[d] = seen[d]
  BY DEF Receives, EditorTypeOK, StoreTypeOK
<1>2. ~ Watched(c)'
  BY <1>1 DEF Watched, NoFetch
<1>3. astray \subseteq astray'
  BY DEF Receives
<1>4. \A d \in Client \ {c} : Watched(d)' => Watched(d)
  BY <1>1, <1>3 DEF Watched, Overtaken
<1>5. CASE fetch[c].pc = "refused" \/ b = None
  <2>1. UNCHANGED topologyDoc
    BY <1>5 DEF Receives
  <2> QED  BY <1>1, <1>2, <1>4, <2>1, CourseOfOne
<1>6. CASE fetch[c].pc = "ok" /\ b # None
  <2>1. fetch[c] \in Fetch /\ b \in Browser
    BY <1>6, FetchType DEF Fetch
  <2>2. /\ topologyDoc'[b] = seen[c]
        /\ \A a \in Browser \ {b} : topologyDoc'[a] = topologyDoc[a]
        /\ astray' = IF Fits(c) THEN astray ELSE astray \cup {b}
    BY <1>6, <2>1 DEF Receives, AnswerDoc, EditorTypeOK
  <2>3. CASE b \in foreign \/ b \in astray' \/ Overtaken(b)
    <3>1. ASSUME NEW d \in Client \ {c}, Watched(d)'
          PROVE  topologyDoc'[fetch[d].by] = topologyDoc[fetch[d].by]
      <4>1. fetch[d].by \in Browser /\ fetch[d].by # b
        <5>1. fetch[d].by \in Browser \cup {None}
          BY DEF EditorTypeOK, Fetch, NoFetch
        <5> QED  BY <1>1, <2>3, <3>1, <5>1 DEF Watched, Overtaken
      <4> QED  BY <2>2, <4>1
    <3> QED  BY <1>1, <1>2, <1>4, <3>1, CourseOfOne
  <2>4. CASE b \notin foreign /\ b \notin astray' /\ ~ Overtaken(b)
    <3> SUFFICES ASSUME ~ raced
                 PROVE  \A d \in Client : Watched(d)' =>
                            /\ OnCourse(d)'
                            /\ \A x \in Client \ {d} : Watched(x)' => OneMade(d, x)'
      BY <1>1 DEF CourseInv
    <3>1. Watched(c) /\ OnCourse(c) /\ Fits(c)
      BY <1>3, <1>6, <2>2, <2>4 DEF Watched, CourseInv
    <3>2. /\ topologyDoc[b] \in Document /\ Known(topologyDoc[b])
          /\ fetch[c].base \in Document /\ Known(fetch[c].base)
          /\ seen[c] \in Document
      BY <1>6, <2>1, <2>4
      DEF Known, KnownPage, KnownBase, Expected, EditorTypeOK, StoreTypeOK, Fetch
    <3>3. topologyDoc[b].version \in Nat /\ fetch[c].base.version \in Nat
      BY <3>2 DEF Document
    <3>4. ASSUME ~ Made(c)
          PROVE  topologyDoc'[b] = topologyDoc[b]
      <4>1. seen[c] = fetch[c].base /\ fetch[c].base.version <= topologyDoc[b].version
        BY <1>6, <3>1, <3>4 DEF OnCourse
      <4>2. seen[c].version >= topologyDoc[b].version
        BY <3>1 DEF Fits
      <4>3. fetch[c].base.version = topologyDoc[b].version
        BY <3>3, <4>1, <4>2
      <4> QED  BY <2>2, <3>2, <4>1, <4>3 DEF KnownInv
    <3>5. ASSUME Made(c)
          PROVE  /\ topologyDoc'[b].version = topologyDoc[b].version + 1
                 /\ \A d \in Client \ {c} : Watched(d) /\ fetch[d].by = b => ~ Made(d)
      <4>1. /\ topologyDoc[b] = fetch[c].base
            /\ seen[c] = [topology |-> Body(c), version |-> fetch[c].base.version + 1]
        BY <1>6, <3>1, <3>5 DEF OnCourse, Result
      <4>2. \A d \in Client \ {c} : Watched(d) => OneMade(c, d)
        BY <3>1 DEF CourseInv
      <4> QED  BY <2>2, <3>5, <4>1, <4>2 DEF OneMade
    <3>6. ASSUME NEW d \in Client, Watched(d)'
          PROVE  OnCourse(d)'
      <4>1. d # c /\ Watched(d) /\ OnCourse(d)
        BY <1>2, <1>4, <3>6 DEF CourseInv
      <4>2. /\ fetch'[d] = fetch[d] /\ seen'[d] = seen[d] /\ handler'[d] = handler[d]
            /\ (Made(d)' <=> Made(d)) /\ Result(d)' = Result(d) /\ Body(d)' = Body(d)
        BY <1>1, <4>1 DEF Made, Result, Body
      <4>3. CASE fetch[d].by = b
        <5>1. CASE Made(c)
          <6>1. ~ Made(d) /\ topologyDoc'[b].version = topologyDoc[b].version + 1
            BY <3>5, <4>1, <4>3, <5>1
          <6>2. fetch[d].pc \in {"sent", "handled", "ok"} => fetch[d].base.version \in Nat
            BY FetchType DEF Fetch, Document
          <6> QED  BY <3>3, <4>1, <4>2, <4>3, <6>1, <6>2 DEF OnCourse
        <5>2. CASE ~ Made(c)
          BY <3>4, <4>1, <4>2, <4>3, <5>2 DEF OnCourse
        <5> QED  BY <5>1, <5>2
      <4>4. CASE fetch[d].by # b
        <5>1. fetch[d].by \in Browser
          BY <4>1 DEF Watched, EditorTypeOK, Fetch, NoFetch
        <5> QED  BY <2>2, <4>1, <4>2, <4>4, <5>1 DEF OnCourse
      <4> QED  BY <4>3, <4>4
    <3>7. ASSUME NEW d \in Client, Watched(d)', NEW x \in Client \ {d}, Watched(x)'
          PROVE  OneMade(d, x)'
      <4>1. d # c /\ x # c /\ Watched(d) /\ Watched(x) /\ OneMade(d, x)
        BY <1>2, <1>4, <3>7 DEF CourseInv
      <4> QED  BY <1>1, <4>1 DEF OneMade, Made
    <3> QED  BY <3>6, <3>7
  <2> QED  BY <2>3, <2>4
<1> QED  BY <1>5, <1>6 DEF Receives

LEMMA CourseStep ==
    ASSUME EditorTypeOK, SessionInv, KnownInv, CourseInv, [EditorNext]_editorVars
    PROVE  CourseInv'
<1>1. CASE Restart
  <2>1. ASSUME NEW c \in Client
        PROVE  ~ Watched(c)'
    <3>1. fetch'[c].by = fetch[c].by
      BY <1>1, RestartFetches
    <3>2. fetch[c].by \in Browser \cup {None} /\ FetchOK(c)
      BY DEF EditorTypeOK, Fetch, NoFetch, SessionInv
    <3> QED  BY <1>1, <3>1, <3>2 DEF Restart, Watched, FetchOK, Idle, InUse
  <2> QED  BY <2>1 DEF CourseInv
<1>2. CASE UNCHANGED editorVars
  BY <1>2 DEF editorVars, storeVars, pageVars, historyVars, CourseInv, Watched, Overtaken,
             OnCourse, OneMade, Made, Result, Body
<1>3. ASSUME NEW c \in Client, FetchStep(c)
      PROVE  CourseInv'
  BY <1>3, CourseByRequests, CourseByHandles, CourseByReceives DEF FetchStep
<1> QED  BY <1>1, <1>2, <1>3, CourseByPages, StepCases

\* Late answers take nothing back, with the exceptions the property names.
THEOREM PagesStayOnCourseAlways == EditorSpec => PagesStayOnCourse
<1> DEFINE Stay ==
      \A b \in Browser : b \in astray' \ astray =>
          \/ raced
          \/ b \in foreign
          \/ b \in hasty /\ page'[b] = "open"
          \/ \E c \in Client : Taken(c) /\ Body(c) = fetch[c].base.topology
<1>1. EditorInit => CourseInv
  BY DEF EditorInit, CourseInv, Watched, NoFetch
<1>2. EditorTypeOK /\ SessionInv /\ CourseInv /\ [EditorNext]_editorVars => [Stay]_editorVars
  <2> SUFFICES ASSUME EditorTypeOK, SessionInv, CourseInv, EditorNext,
                      NEW b \in Browser, b \in astray' \ astray,
                      ~ raced, b \notin foreign, ~ (b \in hasty /\ page'[b] = "open")
               PROVE  \E c \in Client : Taken(c) /\ Body(c) = fetch[c].base.topology
    OBVIOUS
  <2>1. ASSUME NEW a \in Browser, Loads(a)
        PROVE  FALSE
    <3>1. a = b /\ ~ (topologyDoc[b].version <= gets[b].doc.version)
      BY <2>1 DEF Loads
    <3>2. gets[b].doc \in Document
      BY DEF EditorTypeOK, Answers
    <3>3. topologyDoc[b] # NewStore
      BY <3>1, <3>2 DEF NewStore, Document
    <3>4. page[b] = "loading" /\ page'[b] = "open"
      BY <2>1, <3>1 DEF Loads, EditorTypeOK
    <3> QED  BY <3>3, <3>4 DEF SessionInv, PageOK, Idle
  <2>2. ~ Restart /\ \A a \in Browser : ~ PageStep(a)
    BY <2>1 DEF Restart, PageStep, Gets, FailsToLoad, Leaves, MovesNode, SavesLayout,
                historyVars
  <2>3. PICK c \in Client : Receives(c)
    <3>1. \A c \in Client : FetchStep(c) => Receives(c)
      BY DEF FetchStep, Puts, Conflict, Checks, Handles, Breaks, historyVars
    <3> QED  BY <2>2, <3>1, StepCases
  <2>4. fetch[c].pc = "ok" /\ fetch[c].by = b /\ b # None /\ ~ Fits(c)
    BY <2>3, EditorAssumption DEF Receives
  <2>5. Taken(c)
    BY <2>3, <2>4 DEF Taken, Receives, EditorTypeOK
  <2>6. Watched(c) /\ OnCourse(c)
    <3>1. ~ Overtaken(b)
      BY <2>3 DEF Receives, Overtaken
    <3> QED  BY <2>4, <3>1 DEF Watched, CourseInv
  <2>7. Body(c) = Edited(fetch[c].base.topology, fetch[c].edit)
    BY DEF Body
  <2>8. ~ Made(c)
    <3> SUFFICES ASSUME Made(c)
                 PROVE  FALSE
      OBVIOUS
    <3>1. /\ topologyDoc[b] = fetch[c].base
          /\ seen[c] = [topology |-> Body(c), version |-> fetch[c].base.version + 1]
      BY <2>4, <2>6 DEF OnCourse, Result
    <3>2. fetch[c].base.version \in Nat
      BY <2>4, FetchType DEF Fetch, Document
    <3> QED  BY <2>4, <2>7, <3>1, <3>2 DEF Fits
  <2>9. Body(c) = fetch[c].base.topology
    BY <2>4, <2>6, <2>8 DEF OnCourse
  <2> QED  BY <2>5, <2>9
<1> QED
  BY <1>1, <1>2, CourseStep, SessionAlways, KnownAlways, PTL
  DEF EditorSpec, PagesStayOnCourse

=============================================================================
