---------------------------- MODULE EngineProofs ----------------------------
(***************************************************************************)
(* Proofs about the running program: the store, the run loop, the cycle    *)
(* and the process together, for any number of clients, edits, requests,   *)
(* faults, disturbances and crashes.                                       *)
(***************************************************************************)
EXTENDS Engine, ReconcilerProofs, StoreProofs

-----------------------------------------------------------------------------
(* Types, and what the cycle guarantees wherever it runs.                  *)

\* A dead process remembers nothing.
Forgotten ==
    ~ alive =>
        /\ store = NewStore /\ doc = NewStore
        /\ handler = [c \in Client |-> NoRequest]
        /\ at = "idle" /\ ~ changes /\ ~ trigger /\ ~ armed
        /\ status = newStatus(0)

\* The invariants of the parts, in the whole.
PartsInv == /\ EngineTypeOK
            /\ StoredIsValid
            /\ CycleInv
            /\ StatusTellsTheOutcome
            /\ Forgotten

LEMMA PartsInit == EngineInit => PartsInv
<1> SUFFICES ASSUME EngineInit PROVE PartsInv
  OBVIOUS
<1>1. EngineTypeOK
  BY NewStoreType, newFailuresType, newStatusType, DocumentsAssumption
     DEF EngineInit, StoreInit, EngineTypeOK, StoreTypeOK, TypeOK, Document
<1>2. StoredIsValid
  BY NewStoreValid DEF EngineInit, StoreInit, StoredIsValid
<1>3. CycleInv
  BY NewStoreValid DEF EngineInit, CycleInv, CycleOnTrack, desired
<1>4. StatusTellsTheOutcome
  BY DEF EngineInit, StatusTellsTheOutcome, disturbed
<1>5. Forgotten
  BY DEF EngineInit, StoreInit, Forgotten
<1> QED  BY <1>1, <1>2, <1>3, <1>4, <1>5 DEF PartsInv

\* What a step does not touch stays as it is.
LEMMA ReconcilerFrame ==
    ASSUME UNCHANGED reconcilerVars
    PROVE  /\ TypeOK => TypeOK'
           /\ CycleInv => CycleInv'
           /\ StatusTellsTheOutcome => StatusTellsTheOutcome'
<1>1. /\ doc' = doc /\ lab' = lab /\ at' = at /\ todo' = todo /\ failed' = failed
      /\ faulted' = faulted /\ status' = status /\ disturbances' = disturbances
  BY DEF reconcilerVars, cycleVars
<1>2. TypeOK => TypeOK'
  BY <1>1 DEF TypeOK
<1>3. CycleInv => CycleInv'
  BY <1>1 DEF CycleInv, CycleOnTrack, OnTrack, NodeOnTrack, LinkOnTrack, NodeIsRight,
              LinkIsRight, Pending, desired, disturbed
<1>4. StatusTellsTheOutcome => StatusTellsTheOutcome'
  BY <1>1 DEF StatusTellsTheOutcome, Tells, NodeIsRight, LinkIsRight, desired, disturbed
<1> QED  BY <1>2, <1>3, <1>4

LEMMA StoreFrame ==
    ASSUME UNCHANGED storeVars
    PROVE  /\ StoreTypeOK => StoreTypeOK'
           /\ StoredIsValid => StoredIsValid'
BY DEF storeVars, StoreTypeOK, StoredIsValid

LEMMA ClientsParts ==
    ASSUME PartsInv, Clients
    PROVE  PartsInv'
<1>1. StoreTypeOK' /\ StoredIsValid'
  BY ClientStepType, ClientStepValid DEF Clients, PartsInv, EngineTypeOK
<1>2. TypeOK' /\ CycleInv' /\ StatusTellsTheOutcome'
  BY ReconcilerFrame DEF Clients, PartsInv, EngineTypeOK
<1>3. Forgotten' /\ alive' \in BOOLEAN /\ crashes' \in Nat /\ requests' \in Nat
      /\ trigger' \in BOOLEAN /\ armed' \in BOOLEAN /\ adopted' \in BOOLEAN
      /\ untouched' \in BOOLEAN
  BY DEF Clients, PartsInv, Forgotten, EngineTypeOK, loopVars, processVars
<1> QED  BY <1>1, <1>2, <1>3 DEF PartsInv, EngineTypeOK

\* What a step of the loop or of a handler leaves to check: the types of its own
\* variables, when it changes neither the store nor the cycle.
LEMMA LoopParts ==
    ASSUME PartsInv, Trigger \/ RunTakesChange \/ RunTakesTrigger
    PROVE  PartsInv'
<1>1. StoreTypeOK' /\ StoredIsValid'
  BY DEF Trigger, RunTakesChange, RunTakesTrigger, TakesChange, PartsInv, EngineTypeOK,
         StoreTypeOK, StoredIsValid, storeVars
<1>2. TypeOK' /\ CycleInv' /\ StatusTellsTheOutcome'
  BY ReconcilerFrame DEF Trigger, RunTakesChange, RunTakesTrigger, PartsInv, EngineTypeOK
<1>3. alive /\ alive'
  BY DEF Trigger, RunTakesChange, RunTakesTrigger, processVars
<1>4. Forgotten'
  BY <1>3 DEF Forgotten
<1>5. alive' \in BOOLEAN /\ crashes' \in Nat /\ requests' \in Nat
  BY DEF Trigger, RunTakesChange, RunTakesTrigger, PartsInv, EngineTypeOK, processVars
<1>6. trigger' \in BOOLEAN /\ armed' \in BOOLEAN /\ adopted' \in BOOLEAN
      /\ untouched' \in BOOLEAN
  BY DEF Trigger, RunTakesChange, RunTakesTrigger, PartsInv, EngineTypeOK, historyVars
<1> QED  BY <1>1, <1>2, <1>4, <1>5, <1>6 DEF PartsInv, EngineTypeOK

LEMMA TimerFiresParts ==
    ASSUME PartsInv, TimerFires
    PROVE  PartsInv'
<1>1. StoreTypeOK' /\ StoredIsValid'
  BY StoreFrame DEF TimerFires, PartsInv, EngineTypeOK
<1>2. BeginCycle(store) /\ store \in Document
  BY DEF TimerFires, PartsInv, EngineTypeOK, StoreTypeOK
<1>3. TypeOK'
  BY <1>2, BeginCycleType DEF PartsInv, EngineTypeOK
<1>4. CycleInv' /\ StatusTellsTheOutcome'
  BY <1>2 DEF BeginCycle, CycleInv, CycleOnTrack, StatusTellsTheOutcome, desired, PartsInv,
              StoredIsValid
<1>5. Forgotten' /\ alive' \in BOOLEAN /\ crashes' \in Nat /\ requests' \in Nat
      /\ trigger' \in BOOLEAN /\ armed' \in BOOLEAN /\ adopted' \in BOOLEAN
      /\ untouched' \in BOOLEAN
  BY DEF TimerFires, PartsInv, Forgotten, EngineTypeOK, processVars, historyVars
<1> QED  BY <1>1, <1>3, <1>4, <1>5 DEF PartsInv, EngineTypeOK

LEMMA RunReconcilesParts ==
    ASSUME PartsInv, RunReconciles
    PROVE  PartsInv'
<1>1. StoreTypeOK' /\ StoredIsValid'
  BY StoreFrame DEF RunReconciles, PartsInv, EngineTypeOK
<1>2. TypeOK' /\ CycleInv' /\ StatusTellsTheOutcome'
  BY CycleStepType, CycleStepOnTrack, CycleStepTells
     DEF RunReconciles, PartsInv, EngineTypeOK
<1>3. Forgotten' /\ alive' \in BOOLEAN /\ crashes' \in Nat /\ requests' \in Nat
      /\ trigger' \in BOOLEAN /\ armed' \in BOOLEAN /\ adopted' \in BOOLEAN
      /\ untouched' \in BOOLEAN
  BY DEF RunReconciles, PartsInv, Forgotten, EngineTypeOK, loopVars, processVars, historyVars
<1> QED  BY <1>1, <1>2, <1>3 DEF PartsInv, EngineTypeOK

LEMMA LabDisturbedParts ==
    ASSUME PartsInv, LabDisturbed
    PROVE  PartsInv'
<1>1. StoreTypeOK' /\ StoredIsValid'
  BY StoreFrame DEF LabDisturbed, PartsInv, EngineTypeOK
<1>2. TypeOK' /\ CycleInv' /\ StatusTellsTheOutcome'
  BY DisturbanceType, DisturbanceOnTrack, DisturbanceTells
     DEF LabDisturbed, PartsInv, EngineTypeOK
<1>3. Forgotten' /\ alive' \in BOOLEAN /\ crashes' \in Nat /\ requests' \in Nat
      /\ trigger' \in BOOLEAN /\ armed' \in BOOLEAN /\ adopted' \in BOOLEAN
      /\ untouched' \in BOOLEAN
  <2>1. doc' = doc /\ at' = at /\ status' = status
    BY DEF LabDisturbed, Disturbance, NodeDies, NodeAppears, LinkVanishes, cycleVars
  <2> QED  BY <2>1 DEF LabDisturbed, PartsInv, Forgotten, EngineTypeOK, storeVars, loopVars,
                       processVars
<1> QED  BY <1>1, <1>2, <1>3 DEF PartsInv, EngineTypeOK

LEMMA CrashParts ==
    ASSUME PartsInv, Crash
    PROVE  PartsInv'
<1>1. StoreTypeOK' /\ StoredIsValid'
  BY NewStoreType, NewStoreValid
     DEF Crash, PartsInv, EngineTypeOK, StoreTypeOK, StoredIsValid
<1>2. TypeOK'
  BY NewStoreType, newFailuresType, newStatusType
     DEF Crash, PartsInv, EngineTypeOK, TypeOK
<1>3. CycleInv' /\ StatusTellsTheOutcome'
  BY NewStoreValid DEF Crash, CycleInv, CycleOnTrack, StatusTellsTheOutcome, desired, disturbed
<1>4. Forgotten'
  <2>1. /\ store' = NewStore /\ doc' = NewStore /\ status' = newStatus(0)
        /\ handler' = [c \in Client |-> NoRequest] /\ at' = "idle"
    BY DEF Crash
  <2>2. ~ changes' /\ ~ trigger' /\ ~ armed'
    BY DEF Crash
  <2> QED  BY <2>1, <2>2 DEF Forgotten
<1>5. alive' \in BOOLEAN /\ crashes' \in Nat /\ requests' \in Nat /\ trigger' \in BOOLEAN
      /\ armed' \in BOOLEAN /\ adopted' \in BOOLEAN /\ untouched' \in BOOLEAN
  <2>1. /\ alive' = FALSE /\ crashes' = crashes + 1 /\ trigger' = FALSE /\ armed' = FALSE
        /\ adopted' = adopted /\ untouched' = untouched /\ requests' = requests
    BY Zenon DEF Crash, historyVars
  <2>2. alive' \in BOOLEAN /\ trigger' \in BOOLEAN /\ armed' \in BOOLEAN
    BY <2>1
  <2>3. crashes' \in Nat /\ requests' \in Nat
    BY <2>1 DEF PartsInv, EngineTypeOK
  <2>4. adopted' \in BOOLEAN /\ untouched' \in BOOLEAN
    BY <2>1, Zenon DEF PartsInv, EngineTypeOK
  <2> QED  BY <2>2, <2>3, <2>4
<1> QED  BY <1>1, <1>2, <1>3, <1>4, <1>5 DEF PartsInv, EngineTypeOK

LEMMA StartsParts ==
    ASSUME PartsInv, AdoptSucceeds \/ AdoptFindsNothing \/ AdoptFails
    PROVE  PartsInv'
<1>0. /\ ~ alive /\ alive' /\ untouched' /\ adopted' \in BOOLEAN
      /\ UNCHANGED <<reconcilerVars, loopVars, handler, seen, crashes, requests>>
  BY DEF AdoptSucceeds, AdoptFindsNothing, AdoptFails, Starts
<1>1. StoreTypeOK' /\ StoredIsValid'
  <2>1. CASE AdoptSucceeds
    <3>1. store' = [topology |-> lab, version |-> 1] /\ changes' /\ Valid(lab)
      BY <2>1 DEF AdoptSucceeds
    <3>2. store' \in Document
      BY <3>1 DEF PartsInv, EngineTypeOK, TypeOK, Document
    <3> QED  BY <1>0, <3>1, <3>2 DEF PartsInv, EngineTypeOK, StoreTypeOK, StoredIsValid
  <2>2. CASE AdoptFindsNothing \/ AdoptFails
    BY <2>2, <1>0, StoreFrame DEF AdoptFindsNothing, AdoptFails, PartsInv, EngineTypeOK, storeVars
  <2> QED  BY <2>1, <2>2
<1>2. TypeOK' /\ CycleInv' /\ StatusTellsTheOutcome'
  BY <1>0, ReconcilerFrame DEF PartsInv, EngineTypeOK
<1>3. Forgotten' /\ alive' \in BOOLEAN /\ crashes' \in Nat /\ requests' \in Nat
      /\ trigger' \in BOOLEAN /\ armed' \in BOOLEAN /\ untouched' \in BOOLEAN
  BY <1>0 DEF PartsInv, Forgotten, EngineTypeOK, loopVars, Starts, AdoptSucceeds,
              AdoptFindsNothing, AdoptFails
<1> QED  BY <1>0, <1>1, <1>2, <1>3 DEF PartsInv, EngineTypeOK

LEMMA PartsStep == PartsInv /\ [EngineNext]_engineVars => PartsInv'
<1> SUFFICES ASSUME PartsInv, [EngineNext]_engineVars
             PROVE  PartsInv'
  OBVIOUS
<1>1. CASE UNCHANGED engineVars
  <2>1. UNCHANGED storeVars /\ UNCHANGED reconcilerVars
    BY <1>1 DEF engineVars
  <2>2. StoreTypeOK' /\ StoredIsValid' /\ TypeOK' /\ CycleInv' /\ StatusTellsTheOutcome'
    BY <2>1, StoreFrame, ReconcilerFrame DEF PartsInv, EngineTypeOK
  <2>3. Forgotten'
    BY <1>1 DEF engineVars, storeVars, reconcilerVars, cycleVars, loopVars, processVars,
                PartsInv, Forgotten
  <2> QED  BY <1>1, <2>2, <2>3 DEF engineVars, loopVars, historyVars, processVars, PartsInv,
                                   EngineTypeOK
<1> QED
  BY <1>1, ClientsParts, LoopParts, TimerFiresParts, RunReconcilesParts, LabDisturbedParts,
     CrashParts, StartsParts DEF EngineNext

\* Whatever clients, the timer, the machine and crashes do, the parts keep their
\* invariants: the store holds what can be built, the cycle stays on track, and
\* the status of an undisturbed cycle tells its outcome.
THEOREM PartsHold == EngineSpec => []PartsInv
BY PartsInit, PartsStep, PTL DEF EngineSpec

THEOREM EngineTypeCorrect == EngineSpec => []EngineTypeOK
BY PartsHold, PTL DEF PartsInv

-----------------------------------------------------------------------------
(* No edit slips through.                                                  *)

\* Only a handler that is about to notify stops being in that state, by
\* notifying; and the document changes only together with such a handler.
LEMMA ClientsWake ==
    ASSUME StoreTypeOK, ClientStep
    PROVE  /\ store' # store => \E c \in Client : handler'[c].pc = "replaced"
           /\ \A c \in Client : handler[c].pc = "replaced" =>
                  changes' \/ handler'[c].pc = "replaced"
           /\ changes => changes'
<1> USE DEF StoreTypeOK
<1>1. ASSUME NEW c \in Client, Get(c)
      PROVE  store' = store /\ changes' = changes /\ handler' = handler
  BY <1>1 DEF Get
<1>2. ASSUME NEW c \in Client, NEW t \in Submissions, NEW v \in {0, seen[c].version},
             PutChecked(c, t, v)
      PROVE  /\ store' = store /\ changes' = changes /\ handler[c].pc = "idle"
             /\ \A b \in Client \ {c} : handler'[b] = handler[b]
  BY <1>2 DEF PutChecked
<1>3. ASSUME NEW c \in Client, PutInvalid(c) \/ PutUnchanged(c)
      PROVE  /\ store' = store /\ changes' = changes /\ handler[c].pc = "checked"
             /\ \A b \in Client \ {c} : handler'[b] = handler[b]
  BY <1>3 DEF PutInvalid, PutUnchanged
<1>4. ASSUME NEW c \in Client, PutReplaces(c)
      PROVE  /\ changes' = changes /\ handler'[c].pc = "replaced"
             /\ \A b \in Client \ {c} : handler'[b] = handler[b]
  BY <1>4 DEF PutReplaces
<1>5. ASSUME NEW c \in Client, PutNotifies(c)
      PROVE  store' = store /\ changes'
  BY <1>5 DEF PutNotifies
<1> QED  BY <1>1, <1>2, <1>3, <1>4, <1>5 DEF ClientStep, Answer

LEMMA WakeupStep ==
    PartsInv /\ NoLostWakeup /\ [EngineNext]_engineVars => NoLostWakeup'
<1> SUFFICES ASSUME PartsInv, NoLostWakeup, [EngineNext]_engineVars,
                    alive', store'.version # doc'.version
             PROVE  changes' \/ armed' \/ \E c \in Client : handler'[c].pc = "replaced"
  BY DEF NoLostWakeup
<1>1. CASE Clients
  <2>1. /\ doc' = doc /\ armed' = armed /\ alive /\ ClientStep /\ StoreTypeOK
    BY <1>1 DEF Clients, reconcilerVars, cycleVars, loopVars, processVars, PartsInv,
                EngineTypeOK
  <2>2. CASE store' # store
    BY <2>1, <2>2, ClientsWake
  <2>3. CASE store' = store
    BY <2>1, <2>3, ClientsWake DEF NoLostWakeup
  <2> QED  BY <2>2, <2>3
<1>2. CASE Trigger
  BY <1>2 DEF Trigger, NoLostWakeup, storeVars, reconcilerVars, cycleVars, processVars
<1>3. CASE RunTakesChange \/ RunTakesTrigger
  BY <1>3 DEF RunTakesChange, RunTakesTrigger
<1>4. CASE TimerFires
  BY <1>4 DEF TimerFires, BeginCycle, storeVars
<1>5. CASE RunReconciles
  <2>1. doc' = doc
    BY <1>5 DEF RunReconciles, CycleStep, CycleFails, FindsConverged, StartsApply,
                OpSucceeds, OpRejected, OpFaults, Verify
  <2> QED  BY <1>5, <2>1 DEF RunReconciles, NoLostWakeup, storeVars, loopVars, processVars
<1>6. CASE LabDisturbed
  <2>1. doc' = doc
    BY <1>6 DEF LabDisturbed, Disturbance, NodeDies, NodeAppears, LinkVanishes, cycleVars
  <2> QED  BY <1>6, <2>1 DEF LabDisturbed, NoLostWakeup, storeVars, loopVars, processVars
<1>7. CASE Crash
  BY <1>7 DEF Crash
<1>8. CASE AdoptSucceeds
  BY <1>8 DEF AdoptSucceeds
<1>9. CASE AdoptFindsNothing \/ AdoptFails
  BY <1>9 DEF AdoptFindsNothing, AdoptFails, Starts, PartsInv, Forgotten, reconcilerVars,
              cycleVars
<1>10. CASE UNCHANGED engineVars
  BY <1>10 DEF engineVars, storeVars, reconcilerVars, cycleVars, loopVars, processVars,
               NoLostWakeup
<1> QED
  BY <1>1, <1>2, <1>3, <1>4, <1>5, <1>6, <1>7, <1>8, <1>9, <1>10 DEF EngineNext

\* A channel of depth one, a timer that is re-armed and a snapshot taken at the
\* start of the cycle lose no edit, whatever the interleaving.
THEOREM NoLostWakeupAlways == EngineSpec => []NoLostWakeup
<1>1. EngineInit => PartsInv /\ NoLostWakeup
  BY PartsInit DEF EngineInit, NoLostWakeup
<1>2. PartsInv /\ NoLostWakeup /\ [EngineNext]_engineVars => (PartsInv /\ NoLostWakeup)'
  BY PartsStep, WakeupStep
<1> QED  BY <1>1, <1>2, PTL DEF EngineSpec

-----------------------------------------------------------------------------
(* Versions.                                                               *)

\* What is reported between cycles is what the last cycle was for.
Reported == at = "idle" => status.version = doc.version

VersionInv == VersionsAreOrdered /\ Reported

LEMMA CycleVersions ==
    ASSUME TypeOK, CycleStep
    PROVE  /\ doc' = doc
           /\ status'.version \in {status.version, doc.version}
           /\ at' = "idle" => status'.version = doc.version
<1>1. status \in Status
  BY DEF TypeOK
<1>2. CASE CycleFails
  BY <1>1, <1>2 DEF CycleFails, Status
<1>3. CASE FindsConverged \/ Verify
  BY <1>3 DEF FindsConverged, Verify, buildStatus
<1>4. CASE StartsApply
  BY <1>4 DEF StartsApply, applyingStatus
<1>5. ASSUME NEW o \in todo, OpSucceeds(o) \/ OpRejected(o) \/ OpFaults(o)
      PROVE  doc' = doc /\ status' = status /\ at' = "apply"
  BY <1>5 DEF OpSucceeds, OpRejected, OpFaults
<1> QED  BY <1>2, <1>3, <1>4, <1>5 DEF CycleStep

LEMMA DisturbanceVersions ==
    ASSUME Disturbance
    PROVE  doc' = doc /\ status' = status /\ at' = at
BY DEF Disturbance, NodeDies, NodeAppears, LinkVanishes, cycleVars

LEMMA VersionStep == PartsInv /\ VersionInv /\ [EngineNext]_engineVars => VersionInv'
<1> SUFFICES ASSUME PartsInv, VersionInv, [EngineNext]_engineVars
             PROVE  VersionInv'
  OBVIOUS
<1>0. /\ store.version \in Nat /\ doc.version \in Nat /\ status.version \in Nat
      /\ TypeOK
  BY DEF PartsInv, EngineTypeOK, StoreTypeOK, TypeOK, Document, Status
<1>1. CASE Clients
  <2>1. /\ doc' = doc /\ status' = status /\ at' = at
        /\ store' = store \/ \E c \in Client : PutReplaces(c)
    BY <1>1, ClientStepStore DEF Clients, reconcilerVars, cycleVars
  <2>2. store' = store \/ store'.version = store.version + 1
    BY <2>1 DEF PutReplaces
  <2> QED  BY <1>0, <2>1, <2>2 DEF VersionInv, VersionsAreOrdered, Reported
<1>2. CASE Trigger \/ RunTakesChange \/ RunTakesTrigger \/ UNCHANGED engineVars
  <2>1. doc' = doc /\ status' = status /\ at' = at /\ store' = store
    BY <1>2 DEF Trigger, RunTakesChange, RunTakesTrigger, TakesChange, engineVars, storeVars,
                reconcilerVars, cycleVars
  <2> QED  BY <2>1 DEF VersionInv, VersionsAreOrdered, Reported
<1>3. CASE TimerFires
  BY <1>0, <1>3 DEF TimerFires, BeginCycle, storeVars, VersionInv, VersionsAreOrdered, Reported
<1>4. CASE RunReconciles
  <2>1. store' = store /\ CycleStep
    BY <1>4 DEF RunReconciles, storeVars
  <2> QED
    BY <1>0, <2>1, CycleVersions DEF VersionInv, VersionsAreOrdered, Reported
<1>5. CASE LabDisturbed
  BY <1>5, DisturbanceVersions
     DEF LabDisturbed, storeVars, VersionInv, VersionsAreOrdered, Reported
<1>6. CASE Crash
  BY <1>6 DEF Crash, NewStore, newStatus, VersionInv, VersionsAreOrdered, Reported
<1>7. CASE AdoptSucceeds \/ AdoptFindsNothing \/ AdoptFails
  <2>1. /\ store = NewStore /\ doc = NewStore /\ status = newStatus(0)
    BY <1>7 DEF AdoptSucceeds, AdoptFindsNothing, AdoptFails, Starts, PartsInv, Forgotten
  <2>2. doc' = doc /\ status' = status /\ at' = at
    BY <1>7 DEF AdoptSucceeds, AdoptFindsNothing, AdoptFails, Starts, reconcilerVars, cycleVars
  <2>3. store' = store \/ store'.version = 1
    BY <1>7 DEF AdoptSucceeds, AdoptFindsNothing, AdoptFails
  <2> QED
    BY <2>1, <2>2, <2>3 DEF NewStore, newStatus, VersionInv, VersionsAreOrdered, Reported
<1> QED
  BY <1>1, <1>2, <1>3, <1>4, <1>5, <1>6, <1>7 DEF EngineNext

LEMMA VersionsHold == EngineSpec => [](PartsInv /\ VersionInv)
<1>1. EngineInit => PartsInv /\ VersionInv
  BY PartsInit
     DEF EngineInit, StoreInit, NewStore, newStatus, VersionInv, VersionsAreOrdered, Reported
<1>2. PartsInv /\ VersionInv /\ [EngineNext]_engineVars => (PartsInv /\ VersionInv)'
  BY PartsStep, VersionStep
<1> QED  BY <1>1, <1>2, PTL DEF EngineSpec

\* The status, the engine's copy and the store's document are in this order.
THEOREM VersionsAreOrderedAlways == EngineSpec => []VersionsAreOrdered
BY VersionsHold, PTL DEF VersionInv

\* A browser that follows the statuses of a living process never sees one that
\* is for an older document than the one before it.
THEOREM StatusNeverGoesBackAlways == EngineSpec => StatusNeverGoesBack
<1>1. PartsInv /\ VersionInv /\ [EngineNext]_engineVars
        => [alive /\ alive' => status.version <= status'.version]_engineVars
  <2> SUFFICES ASSUME PartsInv, VersionInv, EngineNext, alive, alive'
               PROVE  status.version <= status'.version
    OBVIOUS
  <2>0. /\ doc.version \in Nat /\ status.version \in Nat /\ TypeOK
        /\ status.version <= doc.version
    BY DEF PartsInv, EngineTypeOK, TypeOK, Document, Status, VersionInv, VersionsAreOrdered
  <2>1. CASE Clients \/ Trigger \/ RunTakesChange \/ RunTakesTrigger \/ TimerFires
    BY <2>0, <2>1 DEF Clients, Trigger, RunTakesChange, RunTakesTrigger, TimerFires,
                      BeginCycle, reconcilerVars
  <2>2. CASE RunReconciles
    BY <2>0, <2>2, CycleVersions DEF RunReconciles
  <2>3. CASE LabDisturbed
    BY <2>0, <2>3, DisturbanceVersions DEF LabDisturbed
  <2>4. CASE Crash
    BY <2>4 DEF Crash
  <2>5. CASE AdoptSucceeds \/ AdoptFindsNothing \/ AdoptFails
    BY <2>5 DEF AdoptSucceeds, AdoptFindsNothing, AdoptFails, Starts
  <2> QED  BY <2>1, <2>2, <2>3, <2>4, <2>5 DEF EngineNext
<1> QED  BY <1>1, VersionsHold, PTL DEF EngineSpec, StatusNeverGoesBack

-----------------------------------------------------------------------------
(* Quiet.                                                                  *)

LEMMA QuietIsDone == PartsInv /\ NoLostWakeup /\ VersionInv => QuietMeansDone
<1> SUFFICES ASSUME PartsInv, NoLostWakeup, VersionInv, Quiet
             PROVE  /\ status.version = store.version
                    /\ ~ status.error /\ ~ disturbed /\ failed = newFailures =>
                          Diff(store.topology, lab) = {}
  BY DEF QuietMeansDone
<1>1. doc = store
  <2>1. doc.version = store.version
    BY DEF Quiet, NoLostWakeup
  <2> QED  BY <2>1 DEF VersionInv, VersionsAreOrdered
<1>2. status.version = store.version
  BY <1>1 DEF Quiet, VersionInv, Reported
<1>3. ASSUME ~ status.error, ~ disturbed, failed = newFailures
      PROVE  Diff(store.topology, lab) = {}
  <2>1. Tells(newFailures, status)
    BY <1>3 DEF PartsInv, StatusTellsTheOutcome, Quiet
  <2>2. desired \in Topo /\ lab \in Topo
    BY DEF PartsInv, EngineTypeOK, TypeOK, Document, desired
  <2>3. \A n \in NodeId : lab.nodes[n] = desired.nodes[n]
    BY <2>1 DEF Tells, newFailures, NodesOf, NodeIsRight
  <2>4. \A l \in LinkId :
            \/ /\ desired.links[l] # None /\ lab.links[l] # None
               /\ endpointsEqual(desired.links[l], lab.links[l])
            \/ desired.links[l] = None /\ lab.links[l] = None
    BY <2>1 DEF Tells, newFailures, LinksOf, LinkIsRight
  <2>5. Diff(desired, lab) = {}
    BY <2>2, <2>3, <2>4, RightMeansNoDiff
  <2> QED  BY <1>1, <2>5 DEF desired
<1> QED  BY <1>2, <1>3

\* An engine with nothing on its way has dealt with the stored document.
THEOREM QuietMeansDoneAlways == EngineSpec => []QuietMeansDone
BY NoLostWakeupAlways, VersionsHold, QuietIsDone, PTL

-----------------------------------------------------------------------------
(* Adoption.                                                               *)

\* Since a successful Adopt and with no interference, the lab and the store
\* agree, and the only cycles are reads that find nothing to do.
Intact ==
    alive /\ adopted /\ untouched =>
        /\ lab = store.topology
        /\ at \in {"idle", "read"}
        /\ at = "read" => doc = store

LEMMA SameMeansNoDiff ==
    ASSUME NEW t \in Topo
    PROVE  Diff(t, t) = {}
<1>1. \A l \in LinkId : t.links[l] # None => endpointsEqual(t.links[l], t.links[l])
  BY DEF endpointsEqual
<1> QED  BY <1>1, RightMeansNoDiff

LEMMA IntactStep == PartsInv /\ Intact /\ [EngineNext]_engineVars => Intact'
<1> SUFFICES ASSUME PartsInv, Intact, [EngineNext]_engineVars,
                    alive', adopted', untouched'
             PROVE  /\ lab' = store'.topology
                    /\ at' \in {"idle", "read"}
                    /\ at' = "read" => doc' = store'
  BY DEF Intact
<1>0. TypeOK /\ lab \in Topo /\ (at # "apply" => todo = {})
  BY DEF PartsInv, EngineTypeOK, TypeOK
<1>1. CASE Clients
  <2>1. alive /\ adopted /\ untouched /\ store' = store
    BY <1>1 DEF Clients
  <2>2. lab' = lab /\ at' = at /\ doc' = doc
    BY <1>1 DEF Clients, reconcilerVars, cycleVars
  <2> QED  BY <2>1, <2>2 DEF Intact
<1>2. CASE Trigger \/ RunTakesChange \/ RunTakesTrigger \/ UNCHANGED engineVars
  <2>1. alive /\ adopted /\ untouched /\ store' = store
    BY <1>2 DEF Trigger, RunTakesChange, RunTakesTrigger, TakesChange, engineVars, storeVars,
                historyVars, processVars
  <2>2. lab' = lab /\ at' = at /\ doc' = doc
    BY <1>2 DEF Trigger, RunTakesChange, RunTakesTrigger, engineVars, reconcilerVars, cycleVars
  <2> QED  BY <2>1, <2>2 DEF Intact
<1>3. CASE TimerFires
  <2>1. alive /\ adopted /\ untouched /\ store' = store
    BY <1>3 DEF TimerFires, storeVars, historyVars, processVars
  <2>2. lab' = lab /\ at' = "read" /\ doc' = store
    BY <1>3 DEF TimerFires, BeginCycle
  <2> QED  BY <2>1, <2>2 DEF Intact
<1>4. CASE RunReconciles
  <2>1. alive /\ adopted /\ untouched /\ store' = store /\ CycleStep
    BY <1>4 DEF RunReconciles, storeVars, historyVars, processVars
  <2>2. lab = store.topology /\ at # "apply" /\ (at = "read" => doc = store)
    BY <2>1 DEF Intact
  <2>3. at = "read" => Diff(doc.topology, lab) = {}
    BY <1>0, <2>2, SameMeansNoDiff
  <2>4. ~ StartsApply
    BY <2>3 DEF StartsApply
  <2>5. CycleFails \/ FindsConverged
    BY <2>1, <2>2, <2>4 DEF CycleStep, OpSucceeds, OpRejected, OpFaults, Verify
  <2>6. lab' = lab /\ at' = "idle"
    BY <2>5 DEF CycleFails, FindsConverged
  <2> QED  BY <2>1, <2>2, <2>6
<1>5. CASE LabDisturbed \/ Crash
  BY <1>5 DEF LabDisturbed, Crash
<1>6. CASE AdoptFails
  BY <1>6 DEF AdoptFails
<1>7. CASE AdoptSucceeds \/ AdoptFindsNothing
  <2>1. store = NewStore /\ at = "idle"
    BY <1>7 DEF AdoptSucceeds, AdoptFindsNothing, Starts, PartsInv, Forgotten
  <2>2. lab' = lab /\ at' = at
    BY <1>7 DEF AdoptSucceeds, AdoptFindsNothing, Starts, reconcilerVars, cycleVars
  <2>3. store'.topology = lab
    BY <1>7, <2>1 DEF AdoptSucceeds, AdoptFindsNothing, NewStore
  <2> QED  BY <2>1, <2>2, <2>3
<1> QED
  BY <1>1, <1>2, <1>3, <1>4, <1>5, <1>6, <1>7 DEF EngineNext

\* A restart that adopts the lab applies nothing to it.
THEOREM AdoptedLabIsLeftAloneAlways == EngineSpec => []AdoptedLabIsLeftAlone
<1>1. EngineInit => PartsInv /\ Intact
  BY PartsInit DEF EngineInit, Intact
<1>2. PartsInv /\ Intact /\ [EngineNext]_engineVars => (PartsInv /\ Intact)'
  BY PartsStep, IntactStep
<1>3. PartsInv /\ Intact => AdoptedLabIsLeftAlone
  BY DEF PartsInv, Forgotten, Intact, AdoptedLabIsLeftAlone
<1> QED  BY <1>1, <1>2, <1>3, PTL DEF EngineSpec

=============================================================================
