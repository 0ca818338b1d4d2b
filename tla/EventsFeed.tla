----------------------------- MODULE EventsFeed -----------------------------
(***************************************************************************)
(* The /events feed on top of the audio registry: a connection that opens  *)
(* is sent a snapshot of all windows, and a timer sends the changes        *)
(* announced since the last tick to every listener.  The handlers of audio *)
(* connections are those of AudioSlices; the FFT and I/O thread variables  *)
(* of that module are not used here.                                       *)
(*                                                                         *)
(* A listener is a browser: its view is modelled from the messages it is   *)
(* sent, which replace what it knew of the clients they name.              *)
(***************************************************************************)
EXTENDS AudioSlices

CONSTANTS
    Listeners,         \* connections to /events
    MaxWaterfall       \* bound: waterfall clients counted at a time

VARIABLES
    listener,          \* where each listener's handler is
    events_connections,
    snapshot,          \* the snapshot a listener's handler is about to send
    batch,             \* the changes the timer handler took, to be sent
    toSend,            \* listeners it has yet to send them to
    waterfall_clients, \* how many nodes the waterfall maps hold
    view,              \* external: what each listener has been told
    count,             \* external: the waterfall count it has been told
    overtaken          \* history: clients of whom a listener's snapshot, sent after
                       \* a newer batch, has told it something older

eventVars == <<listener, events_connections, snapshot, batch, toSend,
               waterfall_clients, view, count, overtaken>>
eventsVars == <<vars, eventVars>>

NoChanges == [c \in {} |-> GoneWindow]
NoMessage == [changes |-> NoChanges, waterfall |-> 0]

EventsInit ==
    /\ Init
    /\ listener = [e \in Listeners |-> "new"]
    /\ events_connections = {}
    /\ snapshot = [e \in Listeners |-> NoMessage]
    /\ batch = NoMessage
    /\ toSend = {}
    /\ waterfall_clients = 0
    /\ view = [e \in Listeners |-> [c \in Clients |-> GoneWindow]]
    /\ count = [e \in Listeners |-> 0]
    /\ overtaken = [e \in Listeners |-> {}]

\* The count both kinds of message carry.
WaterfallClients == waterfall_clients

\* The window of a registered client, as the snapshot reads it.
Registered == {c \in Clients : NodesOf(c) # {}}
Actual(c) == IF c \in Registered THEN window[c] ELSE GoneWindow

Step(e, from, to) ==
    listener[e] = from /\ listener' = [listener EXCEPT ![e] = to]
-----------------------------------------------------------------------------
(***************************************************************************)
(* on_open_events in three steps, and on_close_events.  The timer handler  *)
(* iterates the set while they change it: whether it still reaches a       *)
(* listener inserted meanwhile is left open.                               *)
(***************************************************************************)
MutSubscribe(e) ==                           \* mutant: never subscribed
    /\ Step(e, "new", "subscribed")
    /\ UNCHANGED <<vars, events_connections, snapshot, batch, toSend,
                   waterfall_clients, view, count, overtaken>>

Subscribe(e) ==
    /\ Step(e, "new", "subscribed")
    /\ events_connections' = events_connections \cup {e}
    /\ \/ toSend' = toSend
       \/ toSend # {} /\ toSend' = toSend \cup {e}
    /\ UNCHANGED <<vars, snapshot, batch, waterfall_clients, view, count, overtaken>>

\* get_initial_state_info, under signal_slice_mtx: the clients in the map.
Snapshot(e) ==
    /\ Step(e, "subscribed", "snapshot")
    /\ signal_slice_mtx = None
    /\ snapshot' = [snapshot EXCEPT ![e] =
         [changes |-> IF ShowOtherUsers THEN [c \in Registered |-> Actual(c)] ELSE NoChanges,
          waterfall |-> WaterfallClients]]
    /\ UNCHANGED <<vars, events_connections, batch, toSend, waterfall_clients,
                   view, count, overtaken>>

\* What a message tells a listener.
Told(e, msg) ==
    /\ view' = [view EXCEPT ![e] = [c \in Clients |->
                  IF c \in DOMAIN msg.changes THEN msg.changes[c] ELSE @[c]]]
    /\ count' = [count EXCEPT ![e] = msg.waterfall]

SendSnapshot(e) ==
    /\ Step(e, "snapshot", "open")
    /\ Told(e, snapshot[e])
    /\ snapshot' = [snapshot EXCEPT ![e] = NoMessage]
    /\ UNCHANGED <<vars, events_connections, batch, toSend, waterfall_clients, overtaken>>

\* The page goes away, and with it what it has been told.
OnCloseEvents(e) ==
    /\ Step(e, "open", "closed")
    /\ events_connections' = events_connections \ {e}
    /\ view' = [view EXCEPT ![e] = [c \in Clients |-> GoneWindow]]
    /\ count' = [count EXCEPT ![e] = 0]
    /\ overtaken' = [overtaken EXCEPT ![e] = {}]
    /\ UNCHANGED <<vars, snapshot, batch, toSend, waterfall_clients>>

(***************************************************************************)
(* on_timer: get_event_info, then one send per listener.                   *)
(***************************************************************************)
\* Nothing is sent when no audio client has announced a change.
OnTimer ==
    /\ toSend = {}
    /\ DOMAIN signal_changes # {}
    /\ batch' = IF events_connections = {} THEN NoMessage
                ELSE [changes |-> IF ShowOtherUsers THEN signal_changes ELSE NoChanges,
                      waterfall |-> WaterfallClients]
    /\ signal_changes' = IF ShowOtherUsers THEN NoChanges ELSE signal_changes
    /\ toSend' = events_connections
    /\ UNCHANGED <<clientVars, registryVars, fftVars, listener, events_connections,
                   snapshot, waterfall_clients, view, count, overtaken>>

\* A send to a listener that has left fails, and is caught.  The message is local
\* to the handler, which ends with the last send.
Send(e) ==
    /\ e \in toSend
    /\ toSend' = toSend \ {e}
    /\ batch' = IF toSend = {e} THEN NoMessage ELSE batch
    /\ IF listener[e] = "closed"
       THEN UNCHANGED <<view, count, overtaken>>
       ELSE /\ Told(e, batch)
            /\ overtaken' = [overtaken EXCEPT ![e] =
                 (@ \ DOMAIN batch.changes) \cup
                 {c \in DOMAIN batch.changes \cap DOMAIN snapshot[e].changes :
                    listener[e] = "snapshot"}]
    /\ UNCHANGED <<vars, listener, events_connections, snapshot, waterfall_clients>>
-----------------------------------------------------------------------------
\* Waterfall clients come and go without announcing anything.
WaterfallCount(n) ==
    /\ n \in 0..MaxWaterfall /\ n \in {waterfall_clients - 1, waterfall_clients + 1}
    /\ waterfall_clients' = n
    /\ UNCHANGED <<vars, listener, events_connections, snapshot, batch, toSend,
                   view, count, overtaken>>

OpenEvents(e) == Snapshot(e) \/ SendSnapshot(e)
Timer == OnTimer \/ \E e \in Listeners : Send(e)

EventsNext ==
    \/ \E c \in Clients : Handler(c) /\ UNCHANGED eventVars
    \/ \E e \in Listeners : Subscribe(e) \/ OpenEvents(e) \/ OnCloseEvents(e)
    \/ Timer
    \/ \E n \in 0..MaxWaterfall : WaterfallCount(n)

EventsSpec == EventsInit /\ [][EventsNext]_eventsVars

(***************************************************************************)
(* The timer is armed again after every tick, and handlers that have begun *)
(* go on.                                                                  *)
(***************************************************************************)
EventsFairness ==
    /\ WF_eventsVars(Timer)
    /\ \A e \in Listeners : SF_eventsVars(OpenEvents(e))
    /\ \A c \in Clients : SF_eventsVars(Continue(c) /\ UNCHANGED eventVars)

FairEventsSpec == EventsSpec /\ EventsFairness
-----------------------------------------------------------------------------
(***************************************************************************)
(* Properties.                                                             *)
(***************************************************************************)

\* No change is lost between subscription, snapshot and the ticks: what a
\* listener has been told of a client is right, or the client's handler is still
\* at work, or the change is announced or on its way.  The one exception is a
\* client named both by the snapshot and by a tick sent after the snapshot was
\* taken (events.cpp:36) and before it was sent (72): the older word comes last,
\* and stands until the client changes again.
OnItsWay(e, c) ==
    \/ handler[c] \notin {"new", "open", "closed"}
    \/ c \in DOMAIN signal_changes
    \/ e \in toSend /\ c \in DOMAIN batch.changes
NoLostChange ==
    ShowOtherUsers =>
        \A e \in Listeners, c \in Clients :
            listener[e] = "open" /\ c \notin overtaken[e]
                => view[e][c] = Actual(c) \/ OnItsWay(e, c)

\* Under fair scheduling a listener learns that a client has left, unless the tick
\* that said so overtook the listener's own snapshot, which names the client: that
\* listener shows the client for ever.
DepartureIsHeard ==
    \A e \in Listeners, c \in Clients :
        handler[c] = "closed" /\ listener[e] = "open"
            ~> \/ view[e][c] = GoneWindow \/ c \in overtaken[e]
               \/ listener[e] = "closed"

\* events.cpp:99 says the count is broadcast to all connections; a change of the
\* number of waterfall clients alone is never sent.
CountIsBroadcast ==
    \A e \in Listeners, n \in 0..MaxWaterfall :
        waterfall_clients = n /\ listener[e] = "open"
            ~> count[e] = n \/ waterfall_clients # n \/ listener[e] = "closed"
=============================================================================
