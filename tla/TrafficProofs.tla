---------------------------- MODULE TrafficProofs ---------------------------
(***************************************************************************)
(* Proofs about Traffic, for any number of links and bytes.                *)
(***************************************************************************)
EXTENDS Traffic, TLAPS

TrafficInv == TrafficTypeOK /\ BaselinesAreAccountedFor

\* What a reading adds is a natural number, and at most the counter itself.
LEMMA CounterDeltaBounds ==
    ASSUME NEW prev \in Nat, NEW cur \in Nat
    PROVE  /\ counterDelta(prev, cur) \in Nat
           /\ counterDelta(prev, cur) <= cur
           /\ prev <= cur => counterDelta(prev, cur) = cur - prev
BY DEF counterDelta

LEMMA NoBytesType == NoBytes \in Counters /\ \A d \in Direction : NoBytes[d] = 0
BY DEF NoBytes, Counters

\* What a tick does to one link, by whether its counters are read.
LEMMA PollByLink ==
    ASSUME NEW erred, Poll(erred), NEW l \in LinkId
    PROVE  /\ l \in Read(erred) =>
                 /\ pair[l] # None /\ wanted[l] # None
                 /\ baseline'[l] = pair[l].bytes
                 /\ reading'[l] = pair[l].bytes
                 /\ crossed'[l] = NoBytes
                 /\ \A d \in Direction : published'[l][d] = Sample(l, d)
           /\ l \notin Read(erred) =>
                 /\ \/ wanted[l] # None /\ baseline'[l] = baseline[l]
                                        /\ reading'[l] = reading[l]
                    \/ wanted[l] = None /\ baseline'[l] = None /\ reading'[l] = None
                 /\ crossed'[l] = crossed[l]
                 /\ \A d \in Direction : published'[l][d] = 0
BY DEF Poll, NextBaseline, Read, Live

\* What a tick publishes of a link.
LEMMA SampleBounds ==
    ASSUME TrafficInv, NEW l \in LinkId, pair[l] # None, NEW d \in Direction
    PROVE  /\ Sample(l, d) \in Nat
           /\ Sample(l, d) <= crossed[l][d]
           /\ reading[l] # None => Sample(l, d) = pair[l].bytes[d] - reading[l][d]
<1>1. pair[l].bytes[d] \in Nat /\ crossed[l][d] \in Nat
  BY DEF TrafficInv, TrafficTypeOK, Pair, Counters
<1>2. CASE baseline[l] = None
  BY <1>1, <1>2 DEF Sample, TrafficInv, BaselinesAreAccountedFor
<1>3. CASE baseline[l] # None
  <2>1. baseline[l][d] \in Nat
    BY <1>3 DEF TrafficInv, TrafficTypeOK, Counters
  <2>2. Sample(l, d) = counterDelta(baseline[l][d], pair[l].bytes[d])
    BY <1>3 DEF Sample
  <2>3. CASE reading[l] # None
    <3>1. /\ baseline[l] = reading[l]
          /\ pair[l].bytes[d] = baseline[l][d] + crossed[l][d]
      BY <2>3 DEF TrafficInv, BaselinesAreAccountedFor
    <3>2. /\ baseline[l][d] <= pair[l].bytes[d]
          /\ pair[l].bytes[d] - baseline[l][d] = crossed[l][d]
      BY <1>1, <2>1, <3>1
    <3>3. counterDelta(baseline[l][d], pair[l].bytes[d])
             = pair[l].bytes[d] - baseline[l][d]
      BY <1>1, <2>1, <3>2, CounterDeltaBounds
    <3> QED  BY <1>1, <2>2, <3>1, <3>2, <3>3
  <2>4. CASE reading[l] = None
    <3>1. pair[l].bytes[d] <= crossed[l][d]
      BY <1>3, <2>4 DEF TrafficInv, BaselinesAreAccountedFor
    <3>2. /\ counterDelta(baseline[l][d], pair[l].bytes[d]) \in Nat
          /\ counterDelta(baseline[l][d], pair[l].bytes[d]) <= pair[l].bytes[d]
      BY <1>1, <2>1, CounterDeltaBounds
    <3>3. Sample(l, d) \in Nat /\ Sample(l, d) <= pair[l].bytes[d]
      BY <2>2, <3>2
    <3> QED  BY <1>1, <2>4, <3>1, <3>3
  <2> QED  BY <2>3, <2>4
<1> QED  BY <1>2, <1>3

LEMMA PollKeepsInv ==
    ASSUME TrafficInv, NEW erred, Poll(erred)
    PROVE  TrafficInv'
<1>1. TrafficTypeOK'
  <2>1. \A l \in LinkId : l \in Read(erred) => pair[l].bytes \in Counters
    BY PollByLink DEF TrafficInv, TrafficTypeOK, Pair
  <2>2. \A l \in LinkId, d \in Direction : published'[l][d] \in Nat
    <3> SUFFICES ASSUME NEW l \in LinkId, NEW d \in Direction
                 PROVE  published'[l][d] \in Nat
      OBVIOUS
    <3> QED  BY PollByLink, SampleBounds
  <2>3. /\ baseline' = [l \in LinkId |-> baseline'[l]]
        /\ reading' = [l \in LinkId |-> reading'[l]]
        /\ crossed' = [l \in LinkId |-> crossed'[l]]
        /\ published' = [l \in LinkId |-> [d \in Direction |-> published'[l][d]]]
    BY DEF Poll
  <2>4. \A l \in LinkId : /\ baseline'[l] \in Counters \cup {None}
                          /\ reading'[l] \in Counters \cup {None}
                          /\ crossed'[l] \in Counters
    BY <2>1, PollByLink, NoBytesType DEF TrafficInv, TrafficTypeOK
  <2>5. published' \in [LinkId -> Counters]
    BY <2>2, <2>3 DEF Counters
  <2>6. /\ wanted' = wanted /\ up' = up /\ pair' = pair /\ tick' \in BOOLEAN
    BY DEF Poll
  <2> QED  BY <2>3, <2>4, <2>5, <2>6 DEF TrafficInv, TrafficTypeOK
<1>2. BaselinesAreAccountedFor'
  <2> SUFFICES ASSUME NEW l \in LinkId
               PROVE  /\ reading'[l] # None =>
                            /\ pair[l] # None
                            /\ baseline'[l] = reading'[l]
                            /\ \A d \in Direction :
                                  pair[l].bytes[d] = reading'[l][d] + crossed'[l][d]
                      /\ reading'[l] = None /\ baseline'[l] # None /\ pair[l] # None =>
                            \A d \in Direction : pair[l].bytes[d] <= crossed'[l][d]
    BY DEF BaselinesAreAccountedFor, Poll
  <2>1. CASE l \in Read(erred)
    <3>1. pair[l].bytes \in Counters
      BY <2>1, PollByLink DEF TrafficInv, TrafficTypeOK, Pair
    <3>2. reading'[l] # None
      BY <2>1, <3>1, PollByLink, NoneAssumption
    <3>3. \A d \in Direction : pair[l].bytes[d] \in Nat
      BY <3>1 DEF Counters
    <3> QED  BY <2>1, <3>2, <3>3, PollByLink, NoBytesType
  <2>2. CASE l \notin Read(erred)
    BY <2>2, PollByLink DEF TrafficInv, BaselinesAreAccountedFor
  <2> QED  BY <2>1, <2>2
<1> QED  BY <1>1, <1>2 DEF TrafficInv

LEMMA CycleKeepsInv ==
    ASSUME TrafficInv, NEW rebuilt, NEW broken, Cycle(rebuilt, broken)
    PROVE  TrafficInv'
<1>1. \A l \in LinkId :
         \/ pair'[l] = None /\ reading'[l] = None
         \/ pair'[l] = pair[l] /\ reading'[l] = reading[l]
         \/ /\ wanted[l] # None
            /\ pair'[l] = NewPair(wanted[l])
            /\ reading'[l] = None
  <2> SUFFICES ASSUME NEW l \in LinkId
               PROVE  \/ pair'[l] = None /\ reading'[l] = None
                      \/ pair'[l] = pair[l] /\ reading'[l] = reading[l]
                      \/ /\ wanted[l] # None
                         /\ pair'[l] = NewPair(wanted[l])
                         /\ reading'[l] = None
    OBVIOUS
  <2>1. pair[l] = None => reading[l] = None
    BY DEF TrafficInv, BaselinesAreAccountedFor
  <2> QED  BY <2>1 DEF Cycle
<1>2. \A order \in Order : NewPair(order) \in Pair /\ NewPair(order).bytes = NoBytes
  BY NoBytesType DEF NewPair, Pair
<1>3. /\ wanted' = wanted /\ baseline' = baseline /\ published' = published
      /\ crossed' = crossed /\ tick' = tick /\ up' \subseteq LinkId
      /\ pair' = [l \in LinkId |-> pair'[l]]
      /\ reading' = [l \in LinkId |-> reading'[l]]
  BY DEF Cycle
<1>4. TrafficTypeOK'
  <2>1. \A l \in LinkId : /\ pair'[l] \in Pair \cup {None}
                          /\ reading'[l] \in Counters \cup {None}
    BY <1>1, <1>2 DEF TrafficInv, TrafficTypeOK
  <2> QED  BY <1>3, <2>1 DEF TrafficInv, TrafficTypeOK
<1>5. BaselinesAreAccountedFor'
  <2>1. \A l \in LinkId, d \in Direction : crossed[l][d] \in Nat
    BY DEF TrafficInv, TrafficTypeOK, Counters
  <2>2. \A l \in LinkId : wanted[l] # None => wanted[l] \in Order
    BY DEF TrafficInv, TrafficTypeOK
  <2> SUFFICES ASSUME NEW l \in LinkId
               PROVE  /\ reading'[l] # None =>
                            /\ pair'[l] # None
                            /\ baseline[l] = reading'[l]
                            /\ \A d \in Direction :
                                  pair'[l].bytes[d] = reading'[l][d] + crossed[l][d]
                      /\ reading'[l] = None /\ baseline[l] # None /\ pair'[l] # None =>
                            \A d \in Direction : pair'[l].bytes[d] <= crossed[l][d]
    BY <1>3 DEF BaselinesAreAccountedFor
  <2>3. CASE pair'[l] = None /\ reading'[l] = None
    BY <2>3
  <2>4. CASE pair'[l] = pair[l] /\ reading'[l] = reading[l]
    BY <2>4 DEF TrafficInv, BaselinesAreAccountedFor
  <2>5. CASE /\ wanted[l] # None
             /\ pair'[l] = NewPair(wanted[l])
             /\ reading'[l] = None
    BY <2>5, <1>2, <2>1, <2>2, NoBytesType
  <2> QED  BY <1>1, <2>3, <2>4, <2>5
<1> QED  BY <1>4, <1>5 DEF TrafficInv

LEMMA VanishesKeepsInv ==
    ASSUME TrafficInv, NEW l \in LinkId, Vanishes(l)
    PROVE  TrafficInv'
BY DEF Vanishes, TrafficInv, TrafficTypeOK, BaselinesAreAccountedFor

LEMMA OneMoreByte ==
    ASSUME NEW counters \in Counters, NEW d \in Direction
    PROVE  /\ OneMore(counters, d) \in Counters
           /\ \A e \in Direction :
                 OneMore(counters, d)[e] = counters[e] + (IF e = d THEN 1 ELSE 0)
BY DEF OneMore, Counters

LEMMA CarriesKeepsInv ==
    ASSUME TrafficInv, NEW l \in LinkId, NEW d \in Direction, Carries(l, d)
    PROVE  TrafficInv'
<1> DEFINE grown == [order |-> pair[l].order, bytes |-> OneMore(pair[l].bytes, d)]
<1>1. /\ pair[l] \in Pair
      /\ pair[l].bytes \in Counters
      /\ crossed[l] \in Counters
  BY DEF Carries, TrafficInv, TrafficTypeOK, Pair
<1>2. /\ pair' = [pair EXCEPT ![l] = grown]
      /\ crossed' = [crossed EXCEPT ![l] = OneMore(crossed[l], d)]
      /\ wanted' = wanted /\ up' = up /\ baseline' = baseline
      /\ published' = published /\ reading' = reading /\ tick' = tick
  BY DEF Carries
<1>3. grown \in Pair
  BY <1>1, OneMoreByte DEF Pair
<1>4. TrafficTypeOK'
  BY <1>1, <1>2, <1>3, OneMoreByte DEF TrafficInv, TrafficTypeOK
<1>5. BaselinesAreAccountedFor'
  <2> SUFFICES ASSUME NEW m \in LinkId
               PROVE  /\ reading[m] # None =>
                            /\ pair'[m] # None
                            /\ baseline[m] = reading[m]
                            /\ \A e \in Direction :
                                  pair'[m].bytes[e] = reading[m][e] + crossed'[m][e]
                      /\ reading[m] = None /\ baseline[m] # None /\ pair'[m] # None =>
                            \A e \in Direction : pair'[m].bytes[e] <= crossed'[m][e]
    BY <1>2 DEF BaselinesAreAccountedFor
  <2>1. CASE m # l
    <3>1. pair'[m] = pair[m] /\ crossed'[m] = crossed[m]
      BY <1>2, <2>1 DEF TrafficInv, TrafficTypeOK
    <3> QED  BY <3>1 DEF TrafficInv, BaselinesAreAccountedFor
  <2>2. CASE m = l
    <3>1. /\ pair'[l] # None
          /\ \A e \in Direction :
                /\ pair'[l].bytes[e] = pair[l].bytes[e] + (IF e = d THEN 1 ELSE 0)
                /\ crossed'[l][e] = crossed[l][e] + (IF e = d THEN 1 ELSE 0)
      <4>1. pair'[l] = grown /\ crossed'[l] = OneMore(crossed[l], d)
        BY <1>2 DEF TrafficInv, TrafficTypeOK
      <4>2. pair'[l] # None
        BY <4>1, <1>3, NoneAssumption
      <4> QED  BY <1>1, <4>1, <4>2, OneMoreByte
    <3>2. \A e \in Direction : /\ pair[l].bytes[e] \in Nat
                               /\ crossed[l][e] \in Nat
                               /\ reading[l] # None => reading[l][e] \in Nat
      BY <1>1 DEF Counters, TrafficInv, TrafficTypeOK
    <3>3. pair[l] # None
      BY DEF Carries
    <3> QED  BY <2>2, <3>1, <3>2, <3>3 DEF TrafficInv, BaselinesAreAccountedFor
  <2> QED  BY <2>1, <2>2
<1> QED  BY <1>4, <1>5 DEF TrafficInv

\* Type correctness, and that every baseline is accounted for.
THEOREM AccountsHold == TrafficSpec => []TrafficInv
<1>1. TrafficInit => TrafficInv
  BY NoBytesType DEF TrafficInit, TrafficInv, TrafficTypeOK, BaselinesAreAccountedFor
<1>2. TrafficInv /\ [TrafficNext]_trafficVars => TrafficInv'
  <2> SUFFICES ASSUME TrafficInv, [TrafficNext]_trafficVars
               PROVE  TrafficInv'
    OBVIOUS
  <2>1. ASSUME NEW l \in LinkId, NEW order \in Order \cup {None}, Edit(l, order)
        PROVE  TrafficInv'
    BY <2>1 DEF Edit, TrafficInv, TrafficTypeOK, BaselinesAreAccountedFor
  <2>2. CASE UNCHANGED trafficVars
    BY <2>2 DEF trafficVars, TrafficInv, TrafficTypeOK, BaselinesAreAccountedFor
  <2> QED  BY <2>1, <2>2, CycleKeepsInv, VanishesKeepsInv, CarriesKeepsInv, PollKeepsInv
           DEF TrafficNext
<1> QED  BY <1>1, <1>2, PTL DEF TrafficSpec

\* Every reachable state has its type: no sample and no counter is negative.
THEOREM TrafficTypeCorrect == TrafficSpec => []TrafficTypeOK
<1>1. TrafficInv => TrafficTypeOK
  BY DEF TrafficInv
<1> QED  BY <1>1, AccountsHold, PTL

\* Whatever is rebuilt, lost or left unread, the baselines are accounted for.
THEOREM BaselinesAreAccountedForAlways == TrafficSpec => []BaselinesAreAccountedFor
<1>1. TrafficInv => BaselinesAreAccountedFor
  BY DEF TrafficInv
<1> QED  BY <1>1, AccountsHold, PTL

\* Only a tick flips tick.
LEMMA TicksArePolls ==
    ASSUME TrafficInv, [TrafficNext]_trafficVars, tick' # tick
    PROVE  \E erred \in SUBSET Flaky : Poll(erred)
BY DEF TrafficNext, Edit, Cycle, Vanishes, Carries, trafficVars

\* No byte is reported twice and none is made up.
THEOREM NoMoreThanCrossedAlways == TrafficSpec => NoMoreThanCrossed
<1>1. TrafficInv /\ [TrafficNext]_trafficVars =>
        [tick' # tick =>
            \A l \in LinkId, d \in Direction :
                published'[l][d] <= crossed[l][d]]_trafficVars
  <2> SUFFICES ASSUME TrafficInv, [TrafficNext]_trafficVars, tick' # tick,
                      NEW l \in LinkId, NEW d \in Direction
               PROVE  published'[l][d] <= crossed[l][d]
    OBVIOUS
  <2>1. PICK erred \in SUBSET Flaky : Poll(erred)
    BY TicksArePolls
  <2>2. crossed[l][d] \in Nat
    BY DEF TrafficInv, TrafficTypeOK, Counters
  <2> QED  BY <2>1, <2>2, PollByLink, SampleBounds
<1> QED  BY <1>1, AccountsHold, PTL DEF TrafficSpec, NoMoreThanCrossed

\* Two readings of one pair account for every byte between them.
THEOREM NoByteIsSkippedAlways == TrafficSpec => NoByteIsSkipped
<1>1. TrafficInv /\ [TrafficNext]_trafficVars =>
        [tick' # tick =>
            \A l \in LinkId : reading[l] # None /\ reading'[l] # None =>
                \A d \in Direction :
                    published'[l][d] = reading'[l][d] - reading[l][d]]_trafficVars
  <2> SUFFICES ASSUME TrafficInv, [TrafficNext]_trafficVars, tick' # tick,
                      NEW l \in LinkId, reading[l] # None, reading'[l] # None,
                      NEW d \in Direction
               PROVE  published'[l][d] = reading'[l][d] - reading[l][d]
    OBVIOUS
  <2>1. PICK erred \in SUBSET Flaky : Poll(erred)
    BY TicksArePolls
  <2>2. reading[l][d] \in Nat
    BY DEF TrafficInv, TrafficTypeOK, Counters
  <2>3. CASE l \in Read(erred)
    BY <2>1, <2>3, PollByLink, SampleBounds
  <2>4. CASE l \notin Read(erred)
    BY <2>1, <2>2, <2>4, PollByLink
  <2> QED  BY <2>3, <2>4
<1> QED  BY <1>1, AccountsHold, PTL DEF TrafficSpec, NoByteIsSkipped

=============================================================================
