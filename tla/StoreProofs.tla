---------------------------- MODULE StoreProofs -----------------------------
(***************************************************************************)
(* Proofs about Store, for any number of clients and versions.             *)
(***************************************************************************)
EXTENDS Store, TLAPS

LEMMA NewStoreType == NewStore \in Document /\ NoRequest \in Handler
BY DEF NewStore, NoRequest, Document, Topo, EmptyTopo, Handler

LEMMA NewStoreValid == Valid(NewStore.topology)
BY DEF NewStore, Valid, EmptyTopo, LinksOf

LEMMA ClientStepType ==
    ASSUME StoreTypeOK, ClientStep
    PROVE  StoreTypeOK'
<1> USE DEF StoreTypeOK
<1>1. ASSUME NEW c \in Client, Get(c)
      PROVE  StoreTypeOK'
  BY <1>1 DEF Get
<1>2. ASSUME NEW c \in Client, NEW t \in Submissions, NEW v \in {0, seen[c].version},
             PutChecked(c, t, v)
      PROVE  StoreTypeOK'
  <2>1. [topology |-> t, version |-> v] \in Document
    BY <1>2, SubmissionsAssumption DEF Document
  <2> QED  BY <1>2, <2>1 DEF PutChecked, Handler
<1>3. ASSUME NEW c \in Client, PutInvalid(c) \/ PutUnchanged(c) \/ PutNotifies(c)
      PROVE  StoreTypeOK'
  BY <1>3, NewStoreType DEF PutInvalid, PutUnchanged, PutNotifies, Handler
<1>4. ASSUME NEW c \in Client, PutReplaces(c)
      PROVE  StoreTypeOK'
  <2>1. handler[c].put.topology \in Topo /\ store.version + 1 \in Nat
    BY DEF Handler, Document
  <2>2. store' \in Document
    BY <1>4, <2>1 DEF PutReplaces, Document
  <2> QED  BY <1>4, <2>2 DEF PutReplaces, Handler
<1> QED  BY <1>1, <1>2, <1>3, <1>4 DEF ClientStep, Answer

\* What a client does to the document: nothing, or PutReplaces.
LEMMA ClientStepStore ==
    ASSUME ClientStep
    PROVE  store' = store \/ \E c \in Client : PutReplaces(c)
BY DEF ClientStep, Answer, Get, PutChecked, PutInvalid, PutUnchanged, PutNotifies

LEMMA ClientStepValid ==
    ASSUME StoredIsValid, ClientStep
    PROVE  StoredIsValid'
BY ClientStepStore DEF StoredIsValid, PutReplaces

LEMMA StoreTypeInv == StoreSpec => []StoreTypeOK
<1>1. StoreInit => StoreTypeOK
  BY NewStoreType DEF StoreInit, StoreTypeOK
<1>2. StoreTypeOK /\ [StoreNext]_storeVars => StoreTypeOK'
  <2> SUFFICES ASSUME StoreTypeOK, [StoreNext]_storeVars
               PROVE  StoreTypeOK'
    OBVIOUS
  <2>1. CASE TakesChange
    BY <2>1 DEF TakesChange, StoreTypeOK
  <2>2. CASE UNCHANGED storeVars
    BY <2>2 DEF storeVars, StoreTypeOK
  <2> QED  BY <2>1, <2>2, ClientStepType DEF StoreNext
<1> QED  BY <1>1, <1>2, PTL DEF StoreSpec

\* No interleaving of requests stores a document that cannot be built.
THEOREM StoredIsValidAlways == StoreSpec => []StoredIsValid
<1>1. StoreInit => StoredIsValid
  BY NewStoreValid DEF StoreInit, StoredIsValid
<1>2. StoredIsValid /\ [StoreNext]_storeVars => StoredIsValid'
  BY ClientStepValid DEF StoreNext, TakesChange, storeVars, StoredIsValid
<1> QED  BY <1>1, <1>2, PTL DEF StoreSpec

\* Optimistic concurrency has something to compare: one version, one content.
THEOREM VersionNamesOneContentAlways == StoreSpec => []VersionNamesOneContent
<1>1. StoreInit => VersionNamesOneContent
  BY DEF StoreInit, VersionNamesOneContent, NoRequest, NewStore
<1>2. StoreTypeOK /\ VersionNamesOneContent /\ [StoreNext]_storeVars
        => VersionNamesOneContent'
  <2> SUFFICES ASSUME StoreTypeOK, VersionNamesOneContent, [StoreNext]_storeVars
               PROVE  VersionNamesOneContent'
    OBVIOUS
  <2> USE DEF VersionNamesOneContent, StoreTypeOK, Document, Handler
  <2>1. ASSUME NEW c \in Client, Get(c)
        PROVE  VersionNamesOneContent'
    BY <2>1 DEF Get
  <2>2. ASSUME NEW c \in Client, NEW t \in Submissions, NEW v \in {0, seen[c].version},
               PutChecked(c, t, v)
        PROVE  VersionNamesOneContent'
    BY <2>2 DEF PutChecked
  <2>3. ASSUME NEW c \in Client, PutInvalid(c)
        PROVE  VersionNamesOneContent'
    BY <2>3 DEF PutInvalid, NoRequest
  <2>4. ASSUME NEW c \in Client, PutUnchanged(c)
        PROVE  VersionNamesOneContent'
    BY <2>4 DEF PutUnchanged, NoRequest
  <2>5. ASSUME NEW c \in Client, PutReplaces(c)
        PROVE  VersionNamesOneContent'
    BY <2>5 DEF PutReplaces
  <2>6. ASSUME NEW c \in Client, PutNotifies(c)
        PROVE  VersionNamesOneContent'
    BY <2>6 DEF PutNotifies, NoRequest
  <2>7. CASE TakesChange \/ UNCHANGED storeVars
    BY <2>7 DEF TakesChange, storeVars
  <2> QED
    BY <2>1, <2>2, <2>3, <2>4, <2>5, <2>6, <2>7 DEF StoreNext, ClientStep, Answer
<1> QED  BY <1>1, <1>2, StoreTypeInv, PTL DEF StoreSpec

=============================================================================
