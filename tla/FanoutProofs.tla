---------------------------- MODULE FanoutProofs ----------------------------
(***************************************************************************)
(* Proofs about Fanout: what the slots of depth one hold while setStatus   *)
(* sends and browsers come, read and go, for any number of either.         *)
(***************************************************************************)
EXTENDS Fanout, TLAPS

\* What a channel that setStatus has nothing left to send to makes of a browser.
UpToDate(c) == \/ slot[c] = current
               \/ slot[c] = 0 /\ handler[c] = "subscribed"
               \/ slot[c] = 0 /\ handler[c] = "writing" /\ hand[c] = current
               \/ slot[c] = 0 /\ handler[c] = "streaming" /\ view[c] = current

\* Nothing is newer than the last publication.
NothingIsAhead ==
    \A c \in Conn : slot[c] <= current /\ hand[c] <= current /\ view[c] <= current

\* A channel is registered while its handler runs, and fresh before.
ChannelsFollowHandlers ==
    \A c \in Conn :
        /\ c \in subs <=> handler[c] \in {"subscribed", "writing", "streaming"}
        /\ handler[c] = "absent" => slot[c] = 0 /\ c \notin targets \cup closed
        /\ handler[c] \in {"absent", "subscribed"} => frames[c] = 0 /\ view[c] = 0

\* Between two selects setStatus has a channel in hand, drained before the third.
SelectsInOrder ==
    /\ stage # "send" => serving \in targets
    /\ stage = "resend" => slot[serving] = 0

\* What a handler took last, written or not.
Taken(c) == IF handler[c] = "writing" THEN hand[c] ELSE view[c]

\* A browser that is written its initial picture shows nothing yet; after the
\* first frame of its channel each one taken, waiting or to be sent is newer.
FramesInOrder ==
    \A c \in subs :
        /\ c \in targets => slot[c] < current
        /\ frames[c] # 0 =>
              /\ slot[c] # 0 => Taken(c) < slot[c]
              /\ c \in targets => Taken(c) < current
        /\ handler[c] = "writing" => \/ frames[c] = 0 /\ view[c] = 0
                                    \/ frames[c] = 1
                                    \/ view[c] < hand[c]

FanoutInv ==
    /\ FanoutTypeOK
    /\ NothingIsAhead
    /\ ChannelsFollowHandlers
    /\ SelectsInOrder
    /\ FramesInOrder
    /\ \A c \in subs \ targets : UpToDate(c)

-----------------------------------------------------------------------------

\* A publication makes every registered channel one to serve.
LEMMA PublishKeepsInv ==
    ASSUME FanoutInv, Publish
    PROVE  FanoutInv'
<1> USE MaxPublicationsAssumption
<1>1. FanoutTypeOK'
  BY DEF Publish, channelVars, handlerVars, FanoutInv, FanoutTypeOK
<1>2. NothingIsAhead' /\ ChannelsFollowHandlers'
  BY DEF Publish, channelVars, handlerVars, FanoutInv, FanoutTypeOK, NothingIsAhead,
         ChannelsFollowHandlers
<1>3. SelectsInOrder' /\ \A c \in (subs \ targets)' : UpToDate(c)'
  BY DEF Publish, channelVars, handlerVars, FanoutInv, FanoutTypeOK, SelectsInOrder
<1>4. FramesInOrder'
  BY DEF Publish, channelVars, handlerVars, FanoutInv, FanoutTypeOK, NothingIsAhead,
         FramesInOrder, Taken
<1> QED  BY <1>1, <1>2, <1>3, <1>4 DEF FanoutInv

\* The end of the process changes nothing else.
LEMMA PanicKeepsInv ==
    ASSUME FanoutInv, Panic
    PROVE  FanoutInv'
BY DEF Panic, channelVars, sendVars, handlerVars, FanoutInv, FanoutTypeOK, NothingIsAhead,
       ChannelsFollowHandlers, SelectsInOrder, FramesInOrder, Taken, UpToDate

\* The newest status, put into the empty channel of a subscriber that waits for it.
LEMMA FillKeepsInv ==
    ASSUME FanoutInv, NEW c \in targets, c \notin closed, slot[c] = 0,
           slot' = [slot EXCEPT ![c] = current],
           targets' = targets \ {c},
           stage' = "send",
           UNCHANGED <<current, subs, closed, serving, panicked, handlerVars>>
    PROVE  FanoutInv'
<1> USE MaxPublicationsAssumption
<1>1. c \in Conn
  BY DEF FanoutInv, FanoutTypeOK
<1>2. FanoutTypeOK' /\ NothingIsAhead'
  BY <1>1 DEF handlerVars, FanoutInv, FanoutTypeOK, NothingIsAhead
<1>3. ChannelsFollowHandlers' /\ SelectsInOrder'
  BY <1>1 DEF handlerVars, FanoutInv, FanoutTypeOK, ChannelsFollowHandlers, SelectsInOrder
<1>4. FramesInOrder'
  BY <1>1 DEF handlerVars, FanoutInv, FanoutTypeOK, FramesInOrder, Taken
<1>5. \A d \in (subs \ targets)' : UpToDate(d)'
  BY <1>1 DEF handlerVars, FanoutInv, FanoutTypeOK, UpToDate
<1> QED  BY <1>2, <1>3, <1>4, <1>5 DEF FanoutInv

\* The selects of setStatus: a channel is served when it holds the newest.
LEMMA DeliverKeepsInv ==
    ASSUME FanoutInv, Deliver
    PROVE  FanoutInv'
<1>1. ASSUME NEW c \in targets, Send(c), ~ Panic
      PROVE  FanoutInv'
  <2>1. c \in Conn /\ c \notin closed
    BY <1>1 DEF Send, FanoutInv, FanoutTypeOK
  <2>2. CASE slot[c] = 0
    BY <1>1, <2>1, <2>2, FillKeepsInv DEF Send
  <2>3. CASE slot[c] # 0
    BY <1>1, <2>1, <2>3
    DEF Send, channelVars, handlerVars, FanoutInv, FanoutTypeOK, NothingIsAhead,
        ChannelsFollowHandlers, SelectsInOrder, FramesInOrder, Taken, UpToDate
  <2> QED  BY <2>2, <2>3
<1>2. ASSUME Drain
      PROVE  FanoutInv'
  <2>1. serving \in targets
    BY <1>2 DEF Drain, FanoutInv, SelectsInOrder
  <2>2. FanoutTypeOK' /\ NothingIsAhead' /\ ChannelsFollowHandlers' /\ SelectsInOrder'
    BY <1>2, <2>1, MaxPublicationsAssumption
    DEF Drain, handlerVars, FanoutInv, FanoutTypeOK, NothingIsAhead,
        ChannelsFollowHandlers, SelectsInOrder
  <2>3. \A d \in (subs \ targets)' : UpToDate(d)'
    BY <1>2, <2>1 DEF Drain, handlerVars, FanoutInv, FanoutTypeOK, UpToDate
  <2>4. FramesInOrder'
    <3>1. 0 < current \/ serving \notin subs
      BY <1>2, <2>1, MaxPublicationsAssumption DEF FanoutInv, FanoutTypeOK, FramesInOrder
    <3> QED  BY <1>2, <2>1, <3>1, MaxPublicationsAssumption
             DEF Drain, handlerVars, FanoutInv, FanoutTypeOK, FramesInOrder, Taken
  <2> QED  BY <2>2, <2>3, <2>4 DEF FanoutInv
<1>3. ASSUME Resend, ~ Panic
      PROVE  FanoutInv'
  <2>1. serving \in targets /\ slot[serving] = 0 /\ serving \notin closed
    BY <1>3 DEF Resend, FanoutInv, SelectsInOrder
  <2>2. slot' = [slot EXCEPT ![serving] = current]
    BY <1>3, <2>1 DEF Resend, FanoutInv, FanoutTypeOK
  <2> QED  BY <1>3, <2>1, <2>2, FillKeepsInv DEF Resend
<1> QED  BY <1>1, <1>2, <1>3, PanicKeepsInv DEF Deliver

\* A browser comes, with a fresh channel.
LEMMA SubscribeKeepsInv ==
    ASSUME FanoutInv, NEW c \in Conn, Subscribe(c)
    PROVE  FanoutInv'
<1>1. slot[c] = 0 /\ c \notin targets \cup closed /\ frames[c] = 0 /\ view[c] = 0
  BY DEF Subscribe, FanoutInv, ChannelsFollowHandlers
<1>2. FanoutTypeOK' /\ NothingIsAhead' /\ SelectsInOrder'
  BY <1>1 DEF Subscribe, sendVars, FanoutInv, FanoutTypeOK, NothingIsAhead, SelectsInOrder
<1>3. ChannelsFollowHandlers' /\ \A d \in (subs \ targets)' : UpToDate(d)'
  BY <1>1 DEF Subscribe, sendVars, FanoutInv, FanoutTypeOK, ChannelsFollowHandlers, UpToDate
<1>4. FramesInOrder'
  BY <1>1 DEF Subscribe, sendVars, FanoutInv, FanoutTypeOK, FramesInOrder, Taken
<1> QED  BY <1>2, <1>3, <1>4 DEF FanoutInv

\* A handler reads the current picture.
LEMMA TakeCurrentKeepsInv ==
    ASSUME FanoutInv, NEW c \in Conn, TakeCurrent(c)
    PROVE  FanoutInv'
<1> USE MaxPublicationsAssumption
<1>1. FanoutTypeOK' /\ NothingIsAhead' /\ SelectsInOrder'
  BY DEF TakeCurrent, channelVars, sendVars, FanoutInv, FanoutTypeOK, NothingIsAhead,
         SelectsInOrder
<1>2. ChannelsFollowHandlers' /\ \A d \in (subs \ targets)' : UpToDate(d)'
  BY DEF TakeCurrent, channelVars, sendVars, FanoutInv, FanoutTypeOK, ChannelsFollowHandlers,
         UpToDate
<1>3. FramesInOrder'
  BY DEF TakeCurrent, channelVars, sendVars, FanoutInv, FanoutTypeOK, ChannelsFollowHandlers,
         FramesInOrder, Taken
<1> QED  BY <1>1, <1>2, <1>3 DEF FanoutInv

\* A handler takes what its channel holds: the newest, if it is not to be served.
LEMMA TakeFrameKeepsInv ==
    ASSUME FanoutInv, NEW c \in Conn, TakeFrame(c)
    PROVE  FanoutInv'
<1> USE MaxPublicationsAssumption
<1>1. FanoutTypeOK' /\ SelectsInOrder'
  BY DEF TakeFrame, sendVars, FanoutInv, FanoutTypeOK, SelectsInOrder
<1>2. NothingIsAhead'
  BY DEF TakeFrame, FanoutInv, FanoutTypeOK, NothingIsAhead
<1>3. ChannelsFollowHandlers' /\ \A d \in (subs \ targets)' : UpToDate(d)'
  BY DEF TakeFrame, sendVars, FanoutInv, FanoutTypeOK, ChannelsFollowHandlers, UpToDate
<1>4. FramesInOrder'
  <2>1. ASSUME NEW d \in subs, d # c
        PROVE  /\ slot'[d] = slot[d] /\ hand'[d] = hand[d]
               /\ handler'[d] = handler[d] /\ frames'[d] = frames[d]
    BY <2>1 DEF TakeFrame, FanoutInv, FanoutTypeOK
  <2>2. /\ slot'[c] = 0 /\ hand'[c] = slot[c] /\ view'[c] = view[c]
        /\ handler'[c] = "writing" /\ frames'[c] = frames[c] + 1
    BY DEF TakeFrame, FanoutInv, FanoutTypeOK
  <2>3. Taken(c) = view[c] /\ Taken(c)' = slot[c]
    BY <2>2 DEF TakeFrame, Taken
  <2>4. frames[c] \in Nat /\ slot[c] \in Nat /\ current \in Nat /\ slot[c] # 0
    BY DEF TakeFrame, FanoutInv, FanoutTypeOK
  <2>5. c \in subs
    BY DEF TakeFrame, FanoutInv, ChannelsFollowHandlers
  <2>6. c \in targets => slot[c] < current
    BY <2>5 DEF FanoutInv, FramesInOrder
  <2>7. frames[c] # 0 => view[c] < slot[c]
    BY <2>3, <2>4, <2>5 DEF FanoutInv, FramesInOrder
  <2>8. UNCHANGED <<current, subs, targets, view>>
    BY DEF TakeFrame, sendVars
  <2> SUFFICES ASSUME NEW d \in subs
               PROVE  /\ d \in targets => slot'[d] < current
                      /\ frames'[d] # 0 =>
                            /\ slot'[d] # 0 => Taken(d)' < slot'[d]
                            /\ d \in targets => Taken(d)' < current
                      /\ handler'[d] = "writing" => \/ frames'[d] = 0 /\ view[d] = 0
                                                    \/ frames'[d] = 1
                                                    \/ view[d] < hand'[d]
    BY <2>8 DEF FramesInOrder
  <2>9. CASE d = c
    BY <2>2, <2>3, <2>4, <2>6, <2>7, <2>9
  <2>10. CASE d # c
    BY <2>1, <2>8, <2>10 DEF FanoutInv, FramesInOrder, Taken
  <2> QED  BY <2>9, <2>10
<1> QED  BY <1>1, <1>2, <1>3, <1>4 DEF FanoutInv

\* A browser is written what its handler has in hand.
LEMMA WriteMessageKeepsInv ==
    ASSUME FanoutInv, NEW c \in Conn, WriteMessage(c)
    PROVE  FanoutInv'
<1> USE MaxPublicationsAssumption
<1>1. FanoutTypeOK' /\ NothingIsAhead' /\ SelectsInOrder'
  BY DEF WriteMessage, channelVars, sendVars, FanoutInv, FanoutTypeOK, NothingIsAhead,
         SelectsInOrder
<1>2. ChannelsFollowHandlers' /\ \A d \in (subs \ targets)' : UpToDate(d)'
  BY DEF WriteMessage, channelVars, sendVars, FanoutInv, FanoutTypeOK,
         ChannelsFollowHandlers, UpToDate
<1>3. FramesInOrder'
  BY DEF WriteMessage, channelVars, sendVars, FanoutInv, FanoutTypeOK, FramesInOrder, Taken
<1> QED  BY <1>1, <1>2, <1>3 DEF FanoutInv

\* A browser goes.
LEMMA UnsubscribeKeepsInv ==
    ASSUME FanoutInv, NEW c \in Conn, Unsubscribe(c)
    PROVE  FanoutInv'
<1>1. FanoutTypeOK' /\ NothingIsAhead' /\ SelectsInOrder'
  BY DEF Unsubscribe, sendVars, FanoutInv, FanoutTypeOK, NothingIsAhead, SelectsInOrder
<1>2. ChannelsFollowHandlers' /\ \A d \in (subs \ targets)' : UpToDate(d)'
  BY DEF Unsubscribe, sendVars, FanoutInv, FanoutTypeOK, ChannelsFollowHandlers, UpToDate
<1>3. FramesInOrder'
  BY DEF Unsubscribe, sendVars, FanoutInv, FanoutTypeOK, FramesInOrder, Taken
<1> QED  BY <1>1, <1>2, <1>3 DEF FanoutInv

\* The accounts of setStatus and its browsers hold in every state of the fan-out.
LEMMA FanoutInvAlways == FanoutSpec => []FanoutInv
<1>1. FanoutInit => FanoutInv
  <2> USE DEF FanoutInit
  <2>1. 0 \in 0 .. MaxPublications
    BY MaxPublicationsAssumption
  <2>2. ASSUME FanoutInit  PROVE FanoutTypeOK
    <3>1. /\ slot \in [Conn -> 0 .. MaxPublications]
          /\ hand \in [Conn -> 0 .. MaxPublications]
          /\ view \in [Conn -> 0 .. MaxPublications]
      BY <2>1, <2>2, Zenon
    <3>2. handler \in [Conn -> {"absent", "subscribed", "writing", "streaming", "gone"}]
      BY <2>2, Zenon
    <3>3. frames \in [Conn -> Nat]
      BY <2>2
    <3> QED  BY <2>1, <2>2, <3>1, <3>2, <3>3 DEF FanoutTypeOK
  <2>3. FanoutInit => /\ NothingIsAhead /\ ChannelsFollowHandlers /\ SelectsInOrder
                      /\ FramesInOrder
    BY DEF NothingIsAhead, ChannelsFollowHandlers, SelectsInOrder, FramesInOrder
  <2> QED  BY <2>2, <2>3 DEF FanoutInv
<1>2. FanoutInv /\ [FanoutNext]_fanoutVars => FanoutInv'
  <2> SUFFICES ASSUME FanoutInv, [FanoutNext]_fanoutVars
               PROVE  FanoutInv'
    OBVIOUS
  <2>1. CASE FanoutNext
    BY <2>1, PublishKeepsInv, DeliverKeepsInv, SubscribeKeepsInv, TakeCurrentKeepsInv,
       TakeFrameKeepsInv, WriteMessageKeepsInv, UnsubscribeKeepsInv
    DEF FanoutNext
  <2>2. CASE UNCHANGED fanoutVars
    BY <2>2 DEF fanoutVars, channelVars, sendVars, handlerVars, FanoutInv, FanoutTypeOK,
                NothingIsAhead, ChannelsFollowHandlers, SelectsInOrder, FramesInOrder,
                Taken, UpToDate
  <2> QED  BY <2>1, <2>2
<1> QED  BY <1>1, <1>2, PTL DEF FanoutSpec

\* The engine and the handlers of /ws keep their types, for any number of browsers.
THEOREM FanoutTypeCorrect == FanoutSpec => []FanoutTypeOK
<1>1. FanoutInv => FanoutTypeOK
  BY DEF FanoutInv
<1> QED  BY <1>1, FanoutInvAlways, PTL

\* Dropping frames loses nothing: when setStatus is through, every subscriber has
\* the newest status, or it is on its way to it, or the current picture is next.
THEOREM NothingNewerIsLostAlways == FanoutSpec => []NothingNewerIsLost
<1>1. FanoutInv => NothingNewerIsLost
  BY DEF FanoutInv, NothingNewerIsLost, UpToDate
<1> QED  BY <1>1, FanoutInvAlways, PTL

\* A write that takes a browser back is the first of a channel with more to come.
LEMMA GoingBackIsFirst ==
    ASSUME FanoutInv, FanoutNext, NEW c \in Conn, view'[c] < view[c]
    PROVE  /\ frames[c] = 1
           /\ c \in targets \/ slot[c] = current
<1> USE MaxPublicationsAssumption
<1>1. view' # view
  BY DEF FanoutInv, FanoutTypeOK
<1>2. PICK d \in Conn : WriteMessage(d)
  BY <1>1 DEF FanoutNext, Publish, Deliver, Send, Drain, Resend, Panic, Subscribe,
              TakeCurrent, TakeFrame, Unsubscribe, handlerVars
<1>3. c = d /\ hand[c] < view[c] /\ handler[c] = "writing"
  BY <1>2 DEF WriteMessage, FanoutInv, FanoutTypeOK
<1>4. c \in subs
  BY <1>3 DEF FanoutInv, ChannelsFollowHandlers
<1>5. hand[c] \in Nat /\ view[c] \in Nat /\ view[c] <= current /\ current \in Nat
  BY DEF FanoutInv, FanoutTypeOK, NothingIsAhead
<1>6. frames[c] = 1
  BY <1>3, <1>4, <1>5 DEF FanoutInv, FramesInOrder
<1>7. c \notin targets => slot[c] = current
  BY <1>3, <1>4, <1>5 DEF FanoutInv, UpToDate
<1> QED  BY <1>6, <1>7

\* The initial picture can overtake a frame, and a browser go back to that frame,
\* only once, and only with the newest status still to come.
THEOREM ViewGoesBackOnlyOnceAlways == FanoutSpec => ViewGoesBackOnlyOnce
<1>1. FanoutInv /\ [FanoutNext]_fanoutVars =>
         [\A c \in Conn :
            view'[c] < view[c] =>
               /\ frames[c] = 1
               /\ c \in targets \/ slot[c] = current]_fanoutVars
  BY GoingBackIsFirst
<1> QED  BY <1>1, FanoutInvAlways, PTL DEF FanoutSpec, ViewGoesBackOnlyOnce

=============================================================================
