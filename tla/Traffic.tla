------------------------------ MODULE Traffic -------------------------------
(***************************************************************************)
(* Engine.pollTraffic: at every tick the Run loop reads the byte counters  *)
(* of the links the last cycle reported as up, and publishes how much they *)
(* grew since the reading before.  The counters belong to a veth pair and  *)
(* start again from zero whenever a pair is built anew under the same ID,  *)
(* which the poller is not told.                                           *)
(*                                                                         *)
(* Reconcile cycles and polls share one goroutine, so each is one step     *)
(* here; edits, traffic and accidents on the machine come in between.      *)
(***************************************************************************)
EXTENDS Naturals

CONSTANTS
    LinkId,
    None,      \* no link, pair or reading
    Flaky,     \* the links whose readings may fail though the pair is there
    MaxBytes   \* bound: bytes a pair carries, and bytes between two readings

ASSUME TrafficBoundsAssumption == Flaky \subseteq LinkId /\ MaxBytes \in Nat

VARIABLES
    wanted,    \* the links of the document, each with the order of its ends
    up,        \* the links whose state in Engine.status is up
    pair,      \* the veth pair of each link: the order of ends it was built
               \* with, and the byte counters of its end 0
    baseline,  \* Engine.trafficBaseline
    published, \* the samples of the last tick; 0 where there is none
    crossed,   \* history: the bytes that crossed a link since its last reading
    reading,   \* history: the last reading taken of the present pair while the
               \* document had the link
    tick       \* history: flips at every tick

trafficVars == <<wanted, up, pair, baseline, published, crossed, reading, tick>>

Direction == {"fwd", "rev"}
Order     == {"ab", "ba"}  \* a link's ends are unordered, its endpoints are not
Counters  == [Direction -> Nat]
Pair      == [order : Order, bytes : Counters]

ASSUME NoneAssumption == None \notin Counters /\ None \notin Pair /\ None \notin Order

NoBytes == [d \in Direction |-> 0]
OneMore(counters, d) == [counters EXCEPT ![d] = @ + 1]
NewPair(order) == [order |-> order, bytes |-> NoBytes]

TrafficInit ==
    /\ wanted = [l \in LinkId |-> None]
    /\ up = {}
    /\ pair = [l \in LinkId |-> None]
    /\ baseline = [l \in LinkId |-> None]
    /\ published = [l \in LinkId |-> NoBytes]
    /\ crossed = [l \in LinkId |-> NoBytes]
    /\ reading = [l \in LinkId |-> None]
    /\ tick = FALSE

-----------------------------------------------------------------------------
\* Around the poller.

\* A client replaces the document.
Edit(l, order) ==
    /\ wanted' = [wanted EXCEPT ![l] = order]
    /\ UNCHANGED <<up, pair, baseline, published, crossed, reading, tick>>

\* A cycle: it removes the pairs nobody wants, builds those that are missing or
\* whose node it recreates, leaves the others, and fails on some.
Cycle(rebuilt, broken) ==
    /\ pair' = [l \in LinkId |->
                   CASE l \in broken -> IF l \in rebuilt THEN None ELSE pair[l]
                     [] l \notin broken /\ wanted[l] = None -> None
                     [] l \notin broken /\ wanted[l] # None ->
                           IF pair[l] = None \/ l \in rebuilt THEN NewPair(wanted[l])
                                                              ELSE pair[l]]
    /\ up' = {l \in LinkId : wanted[l] # None /\ l \notin broken}
    /\ reading' = [l \in LinkId |-> IF pair'[l] = None \/ l \in rebuilt
                                    THEN None ELSE reading[l]]
    /\ UNCHANGED <<wanted, baseline, published, crossed, tick>>

\* A node dies, or somebody deletes the pair.
Vanishes(l) ==
    /\ pair[l] # None
    /\ pair' = [pair EXCEPT ![l] = None]
    /\ reading' = [reading EXCEPT ![l] = None]
    /\ UNCHANGED <<wanted, up, baseline, published, crossed, tick>>

Carries(l, d) ==
    /\ pair[l] # None
    /\ pair[l].bytes[d] < MaxBytes
    /\ crossed[l][d] < MaxBytes
    /\ pair' = [pair EXCEPT ![l] = [order |-> @.order, bytes |-> OneMore(@.bytes, d)]]
    /\ crossed' = [crossed EXCEPT ![l] = OneMore(@, d)]
    /\ UNCHANGED <<wanted, up, baseline, published, reading, tick>>

-----------------------------------------------------------------------------
\* pollTraffic.

\* Broken: a reset counter is not noticed.
counterDeltaUnguarded(prev, cur) == cur - prev

\* Broken: a reset counter is taken for lost bytes.
counterDeltaIsDistance(prev, cur) == IF cur < prev THEN prev - cur ELSE cur - prev

\* A counter that went backwards is that of another pair.
counterDelta(prev, cur) == IF cur < prev THEN cur ELSE cur - prev

Live == {l \in LinkId : wanted[l] # None}

\* The links whose counters are read; Driver.LinkCounters looks for end 0 of the
\* pair in the namespace of endpoint 0.
Read(erred) == {l \in (Live \cap up) \ erred : /\ pair[l] # None
                                               /\ pair[l].order = wanted[l]}

\* A first sighting only establishes the baseline.
Sample(l, d) ==
    IF baseline[l] = None THEN 0 ELSE counterDelta(baseline[l][d], pair[l].bytes[d])

\* Broken: a link that was not read loses its baseline.
NextBaselineOfRead(l, read) == IF l \in read THEN pair[l].bytes ELSE None

\* Broken: baselines are never dropped.
NextBaselineKeepsAll(l, read) == IF l \in read THEN pair[l].bytes ELSE baseline[l]

\* The baselines of links the document no longer has are dropped.
NextBaseline(l, read) ==
    CASE l \in read        -> pair[l].bytes
      [] l \in Live \ read -> baseline[l]
      [] l \notin Live     -> None

Poll(erred) ==
    LET read == Read(erred)
    IN  /\ baseline' = [l \in LinkId |-> NextBaseline(l, read)]
        /\ published' = [l \in LinkId |-> [d \in Direction |->
                           IF l \in read THEN Sample(l, d) ELSE 0]]
        /\ crossed' = [l \in LinkId |-> IF l \in read THEN NoBytes ELSE crossed[l]]
        /\ reading' = [l \in LinkId |-> CASE l \in read        -> pair[l].bytes
                                          [] l \in Live \ read -> reading[l]
                                          [] l \notin Live     -> None]
        /\ tick' = ~ tick
        /\ UNCHANGED <<wanted, up, pair>>

TrafficNext ==
    \/ \E l \in LinkId, order \in Order \cup {None} : Edit(l, order)
    \/ \E rebuilt, broken \in SUBSET LinkId : Cycle(rebuilt, broken)
    \/ \E l \in LinkId : Vanishes(l)
    \/ \E l \in LinkId, d \in Direction : Carries(l, d)
    \/ \E erred \in SUBSET Flaky : Poll(erred)

TrafficSpec == TrafficInit /\ [][TrafficNext]_trafficVars

-----------------------------------------------------------------------------

TrafficTypeOK ==
    /\ wanted \in [LinkId -> Order \cup {None}]
    /\ up \subseteq LinkId
    /\ pair \in [LinkId -> Pair \cup {None}]
    /\ baseline \in [LinkId -> Counters \cup {None}]
    /\ published \in [LinkId -> Counters]
    /\ crossed \in [LinkId -> Counters]
    /\ reading \in [LinkId -> Counters \cup {None}]
    /\ tick \in BOOLEAN

\* No byte is reported twice and none is made up: a tick publishes no more than
\* what crossed the link since its last reading, however often its pair was built
\* anew since, behind failed readings or while the link was down.
NoMoreThanCrossed ==
    [][tick' # tick =>
          \A l \in LinkId, d \in Direction :
              published'[l][d] <= crossed[l][d]]_trafficVars

\* Two readings of one pair account for every byte between them, whatever ticks
\* in between found the link down or failed to read it.
NoByteIsSkipped ==
    [][tick' # tick =>
          \A l \in LinkId : reading[l] # None /\ reading'[l] # None =>
              \A d \in Direction :
                  published'[l][d] = reading'[l][d] - reading[l][d]]_trafficVars

\* What the poller remembers, and what has crossed since: a baseline read off the
\* present pair differs from its counters by just that, and beside a baseline
\* read off an earlier pair the present one has counted no more than that.
BaselinesAreAccountedFor ==
    \A l \in LinkId :
        /\ reading[l] # None =>
              /\ pair[l] # None
              /\ baseline[l] = reading[l]
              /\ \A d \in Direction : pair[l].bytes[d] = reading[l][d] + crossed[l][d]
        /\ reading[l] = None /\ baseline[l] # None /\ pair[l] # None =>
              \A d \in Direction : pair[l].bytes[d] <= crossed[l][d]

=============================================================================
