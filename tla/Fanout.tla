------------------------------- MODULE Fanout -------------------------------
(***************************************************************************)
(* How a status gets from the engine to the browsers: Engine.setStatus,    *)
(* Subscribe and its unsubscribe function, and the handlers of /ws.        *)
(* publishTraffic and SubscribeTraffic are the same code for samples.      *)
(*                                                                         *)
(* setStatus stores the status and copies the subscriber channels under    *)
(* the lock, and sends after releasing it; each attempt to send is a step  *)
(* that handlers come and go between.  A handler takes a status and writes *)
(* it to the browser in two steps: the write may last ten seconds, and any *)
(* number of publications come in between.  A status is the number of its  *)
(* publication; 0 is the empty one the engine starts with.                 *)
(***************************************************************************)
EXTENDS Naturals

CONSTANTS
    Conn,            \* WebSocket connections, each used once
    MaxPublications  \* bound: statuses the engine publishes

ASSUME MaxPublicationsAssumption == MaxPublications \in Nat

VARIABLES
    current,   \* Engine.status
    subs,      \* Engine.subs: the connections whose channel is registered
    slot,      \* what each channel of depth one holds; 0 is nothing
    closed,    \* the channels unsubscribe has closed
    targets,   \* setStatus: the channels it has copied and not served yet
    stage,     \* setStatus at the channel it is serving: send, drain, resend
    serving,   \* that channel, if stage is not send
    panicked,  \* the runtime has ended the process: a send on a closed channel
    handler,   \* handleWS: absent, subscribed, writing, streaming, gone
    hand,      \* the status each handler took last
    view,      \* the status each browser shows
    frames     \* history: the statuses each handler took out of its channel

channelVars == <<subs, slot, closed>>
sendVars    == <<targets, stage, serving>>
handlerVars == <<handler, hand, view, frames>>
fanoutVars  == <<current, channelVars, sendVars, panicked, handlerVars>>

FanoutInit ==
    /\ current = 0
    /\ subs = {}
    /\ slot = [c \in Conn |-> 0]
    /\ closed = {}
    /\ targets = {}
    /\ stage = "send"
    /\ serving \in Conn
    /\ panicked = FALSE
    /\ handler = [c \in Conn |-> "absent"]
    /\ hand = [c \in Conn |-> 0]
    /\ view = [c \in Conn |-> 0]
    /\ frames = [c \in Conn |-> 0]

-----------------------------------------------------------------------------
\* The engine.

\* setStatus up to the release of the lock, and not before the last one is out.
Publish ==
    /\ targets = {}
    /\ current < MaxPublications
    /\ current' = current + 1
    /\ targets' = subs
    /\ UNCHANGED <<channelVars, stage, serving, panicked, handlerVars>>

Panic ==
    /\ panicked' = TRUE
    /\ UNCHANGED <<current, channelVars, sendVars, handlerVars>>

\* Broken: a plain send, without a default branch.
SendBlocks(c) ==
    /\ stage = "send"
    /\ c \in targets
    /\ \/ c \in closed /\ Panic
       \/ /\ c \notin closed /\ slot[c] = 0
          /\ slot' = [slot EXCEPT ![c] = current]
          /\ targets' = targets \ {c}
          /\ UNCHANGED <<current, subs, closed, stage, serving, panicked, handlerVars>>

\* The first select: send, or find the slot full.
Send(c) ==
    /\ stage = "send"
    /\ c \in targets
    /\ \/ c \in closed /\ Panic
       \/ /\ c \notin closed /\ slot[c] = 0
          /\ slot' = [slot EXCEPT ![c] = current]
          /\ targets' = targets \ {c}
          /\ UNCHANGED <<current, subs, closed, stage, serving, panicked, handlerVars>>
       \/ /\ c \notin closed /\ slot[c] # 0
          /\ stage' = "drain"
          /\ serving' = c
          /\ UNCHANGED <<current, channelVars, targets, panicked, handlerVars>>

\* Broken: the old status stays in the channel.
DrainNothing ==
    /\ stage = "drain"
    /\ stage' = "resend"
    /\ UNCHANGED <<current, channelVars, targets, serving, panicked, handlerVars>>

\* The second select: take the old status out, if the handler has not.
Drain ==
    /\ stage = "drain"
    /\ slot' = [slot EXCEPT ![serving] = 0]
    /\ stage' = "resend"
    /\ UNCHANGED <<current, subs, closed, targets, serving, panicked, handlerVars>>

\* The third select.
Resend ==
    /\ stage = "resend"
    /\ \/ serving \in closed /\ Panic
       \/ /\ serving \notin closed
          /\ slot' = [slot EXCEPT ![serving] = IF @ = 0 THEN current ELSE @]
          /\ targets' = targets \ {serving}
          /\ stage' = "send"
          /\ UNCHANGED <<current, subs, closed, serving, panicked, handlerVars>>

Deliver == (\E c \in targets : Send(c)) \/ Drain \/ Resend

-----------------------------------------------------------------------------
\* The handlers.

Subscribe(c) ==
    /\ handler[c] = "absent"
    /\ handler' = [handler EXCEPT ![c] = "subscribed"]
    /\ subs' = subs \cup {c}
    /\ UNCHANGED <<current, slot, closed, sendVars, panicked, hand, view, frames>>

\* Broken: the initial status is not sent.
StreamAtOnce(c) ==
    /\ handler[c] = "subscribed"
    /\ handler' = [handler EXCEPT ![c] = "streaming"]
    /\ UNCHANGED <<current, channelVars, sendVars, panicked, hand, view, frames>>

\* The current picture first, so that a page does not stay blank.
TakeCurrent(c) ==
    /\ handler[c] = "subscribed"
    /\ handler' = [handler EXCEPT ![c] = "writing"]
    /\ hand' = [hand EXCEPT ![c] = current]
    /\ UNCHANGED <<current, channelVars, sendVars, panicked, view, frames>>

\* The handler's select: a status comes out of the channel, which is empty again.
TakeFrame(c) ==
    /\ handler[c] = "streaming"
    /\ slot[c] # 0
    /\ handler' = [handler EXCEPT ![c] = "writing"]
    /\ hand' = [hand EXCEPT ![c] = slot[c]]
    /\ slot' = [slot EXCEPT ![c] = 0]
    /\ frames' = [frames EXCEPT ![c] = @ + 1]
    /\ UNCHANGED <<current, subs, closed, sendVars, panicked, view>>

\* The write that follows either, when it has succeeded.
WriteMessage(c) ==
    /\ handler[c] = "writing"
    /\ handler' = [handler EXCEPT ![c] = "streaming"]
    /\ view' = [view EXCEPT ![c] = hand[c]]
    /\ UNCHANGED <<current, channelVars, sendVars, panicked, hand, frames>>

\* Broken: the closed channel stays registered.
UnsubscribeKeepsEntry(c) ==
    /\ handler[c] \in {"writing", "streaming"}
    /\ handler' = [handler EXCEPT ![c] = "gone"]
    /\ closed' = closed \cup {c}
    /\ UNCHANGED <<current, subs, slot, sendVars, panicked, hand, view, frames>>

\* The browser goes away, or a write to it fails: unsubscribe closes the channel.
Unsubscribe(c) ==
    /\ handler[c] \in {"writing", "streaming"}
    /\ handler' = [handler EXCEPT ![c] = "gone"]
    /\ subs' = subs \ {c}
    /\ closed' = closed \cup {c}
    /\ UNCHANGED <<current, slot, sendVars, panicked, hand, view, frames>>

FanoutNext ==
    /\ ~ panicked
    /\ \/ Publish
       \/ Deliver
       \/ \E c \in Conn : \/ Subscribe(c) \/ TakeCurrent(c) \/ TakeFrame(c)
                          \/ WriteMessage(c) \/ Unsubscribe(c)

FanoutSpec == FanoutInit /\ [][FanoutNext]_fanoutVars

\* The engine's goroutine runs; handlers may be as slow as they like.
EngineRuns == ~ panicked /\ Deliver
SlowReadersSpec == FanoutSpec /\ WF_fanoutVars(EngineRuns)

\* A browser takes what it is sent, or is dropped when a write times out.
HandlerRuns(c) == ~ panicked /\ (TakeCurrent(c) \/ TakeFrame(c) \/ WriteMessage(c))
ReadersAreServed == \A c \in Conn : WF_fanoutVars(HandlerRuns(c))

-----------------------------------------------------------------------------

FanoutTypeOK ==
    /\ current \in 0 .. MaxPublications
    /\ subs \subseteq Conn
    /\ slot \in [Conn -> 0 .. MaxPublications]
    /\ closed \subseteq Conn
    /\ targets \subseteq Conn
    /\ stage \in {"send", "drain", "resend"}
    /\ serving \in Conn
    /\ panicked \in BOOLEAN
    /\ handler \in [Conn -> {"absent", "subscribed", "writing", "streaming", "gone"}]
    /\ hand \in [Conn -> 0 .. MaxPublications]
    /\ view \in [Conn -> 0 .. MaxPublications]
    /\ frames \in [Conn -> Nat]
    /\ subs \cap closed = {}

\* "Dropping frames loses nothing": when setStatus is through, the channel of
\* every subscriber holds the newest status, or is empty because the browser
\* shows it, is being sent it, or is about to be sent the current picture.
NothingNewerIsLost ==
    targets = {} =>
        \A c \in subs :
            \/ slot[c] = current
            \/ slot[c] = 0 /\ handler[c] = "subscribed"
            \/ slot[c] = 0 /\ handler[c] = "writing" /\ hand[c] = current
            \/ slot[c] = 0 /\ handler[c] = "streaming" /\ view[c] = current

\* The initial picture can overtake a frame that waits in the channel, and the
\* browser go back to that frame.  It does so only with the first frame of its
\* channel, and only when the newest status is to come: setStatus has yet to
\* send it, or it is in the channel.
ViewGoesBackOnlyOnce ==
    [][\A c \in Conn :
         view'[c] < view[c] =>
            /\ frames[c] = 1
            /\ c \in targets \/ slot[c] = current]_fanoutVars

\* "Rather than stalling the engine": however slow the browsers, setStatus ends.
EngineNeverStalls == (targets # {}) ~> (targets = {} \/ panicked)

\* If handlers get to run, every browser that stays shows the newest status.
NewestStatusArrives ==
    ReadersAreServed =>
        \A c \in Conn, s \in 1 .. MaxPublications :
            (current = s /\ c \in subs) ~> (view[c] >= s \/ c \notin subs \/ panicked)

\* A browser that leaves takes nobody along: setStatus never sends on a channel
\* unsubscribe has closed.
NoSendOnClosedChannel == ~ panicked

=============================================================================
