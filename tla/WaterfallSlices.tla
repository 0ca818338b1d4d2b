-------------------------- MODULE WaterfallSlices --------------------------
(***************************************************************************)
(* The registry of waterfall clients: one map per downsampling level, each *)
(* with its own mutex.  set_waterfall_range takes a client's node out of   *)
(* one map and puts it into another under two mutexes, one after the other,*)
(* and only then updates the client's l, r and level, which send_waterfall *)
(* reads on an I/O thread without a lock.  waterfall_loop visits the levels*)
(* one by one, holding one mutex at a time.                                *)
(*                                                                         *)
(* As in AudioSlices frames are not numbered, and a loop begins when the   *)
(* tasks of the one before are done, as FrameLoop shows.                   *)
(***************************************************************************)
EXTENDS WaterfallWindow

CONSTANTS
    FftResultSize,     \* fft_result_size
    MinWaterfallFft,   \* min_waterfall_fft
    Clients,           \* connections to /waterfall
    SlowClients,       \* those whose send buffer may exceed its limit
    Movers,            \* those that send window messages
    IoThreads,         \* the threads that run m_server.run()
    Messages           \* window messages, pairs <<l, r>>

ASSUME SizeAssumption == HasLevels(FftResultSize, MinWaterfallFft)
ASSUME ClientsAssumption == SlowClients \subseteq Clients /\ Movers \subseteq Clients
ASSUME MessagesAssumption == Messages \subseteq Int \X Int

Levels == LevelCount(FftResultSize, MinWaterfallFft)
LevelIds == 0..(Levels - 1)
LevelSize(i) == LevelLength(FftResultSize, i)
WindowFor(l, r) == Window(FftResultSize, MinWaterfallFft, l, r)

Garbage == -1          \* l and r before set_waterfall_range
Place == [level : LevelIds, l : Int, r : Int]
Node == [client : Clients, at : Place]

VARIABLES
    handler,           \* where each connection's current handler is
    arg,               \* the place that handler is setting
    place,             \* WaterfallClient::level, l, r
    waterfall_slices,  \* the nodes of all maps; a node's level names its map
    next,              \* waterfall_loop: next level; Levels when it is not running
    held,              \* it holds the mutex of that level
    todo,              \* nodes of that level it has yet to visit
    queue,             \* tasks posted and not started: the nodes visited
    executing,         \* each I/O thread's task and the length it has read
    disturbed,         \* history: handler active since the loop began
    served,            \* history: clients posted in this loop
    asked,             \* history: the window each client asked for last
    shown              \* history: sent a slice of the place it has moved to

loopVars == <<next, held, todo, served>>
taskVars == <<queue, executing, shown>>
clientVars == <<handler, arg, place>>
vars == <<clientVars, asked, waterfall_slices, loopVars, taskVars, disturbed>>

\* on_open_waterfall moves a new client to the last level.
DefaultPlace == [level |-> Levels - 1, l |-> 0, r |-> MinWaterfallFft]
DefaultWindow == <<0, MinWaterfallFft * Pow2[Levels - 1]>>

Init ==
    /\ handler = [c \in Clients |-> "new"]
    /\ arg = [c \in Clients |-> DefaultPlace]
    /\ place = [c \in Clients |-> [level |-> 0, l |-> Garbage, r |-> Garbage]]
    /\ waterfall_slices = {}
    /\ next = Levels
    /\ held = FALSE
    /\ todo = {}
    /\ queue = {}
    /\ executing = [th \in IoThreads |-> {}]
    /\ disturbed = [c \in Clients |-> TRUE]
    /\ served = {}
    /\ shown = [c \in Clients |-> FALSE]
    /\ asked = [c \in Clients |-> DefaultWindow]

NodesOf(c) == {n \in waterfall_slices : n.client = c}
Running == UNION {executing[th] : th \in IoThreads}
Outstanding == queue \cup {e.task : e \in Running}
Settled == {"new", "open", "closed"}

-----------------------------------------------------------------------------
(***************************************************************************)
(* The handlers of one connection.                                         *)
(***************************************************************************)
Free(level) == ~(held /\ next = level)

Goto(c, from, to) ==
    /\ handler[c] = from
    /\ handler' = [handler EXCEPT ![c] = to]
    /\ disturbed' = [disturbed EXCEPT ![c] = TRUE]

\* on_open_waterfall registers the client at level 0, to move it at once.
Open(c) ==
    /\ Goto(c, "new", "extract")
    /\ Free(0)
    /\ waterfall_slices' = waterfall_slices \cup
         {[client |-> c, at |-> [level |-> 0, l |-> 0, r |-> MinWaterfallFft]]}
    /\ UNCHANGED <<asked, arg, place, loopVars, taskVars>>

MutInOrder(l, r) == TRUE                     \* mutant: the message is not checked
InOrder(l, r) == 0 <= l /\ l < r

OnWindowMessage(c, l, r) ==
    /\ c \in Movers
    /\ InOrder(l, r)
    /\ Goto(c, "open", "extract")
    /\ arg' = [arg EXCEPT ![c] = WindowFor(l, r)]
    /\ asked' = [asked EXCEPT ![c] = <<l, r>>]
    /\ shown' = [shown EXCEPT ![c] = FALSE]
    /\ UNCHANGED <<place, waterfall_slices, loopVars, queue, executing>>

\* set_waterfall_range: out of the old level's map ...
MutExtracted(c) == waterfall_slices          \* mutant: copied, not extracted
Extracted(c) == waterfall_slices \ NodesOf(c)

Extract(c) ==
    /\ Goto(c, "extract", "insert")
    /\ Free(place[c].level)
    /\ waterfall_slices' = Extracted(c)
    /\ UNCHANGED <<asked, arg, place, loopVars, taskVars>>

\* ... into the new one, and then the three members.
Insert(c) ==
    /\ Goto(c, "insert", "setL")
    /\ Free(arg[c].level)
    /\ waterfall_slices' = waterfall_slices \cup {[client |-> c, at |-> arg[c]]}
    /\ UNCHANGED <<asked, arg, place, loopVars, taskVars>>

SetL(c) ==
    /\ Goto(c, "setL", "setR")
    /\ place' = [place EXCEPT ![c].l = arg[c].l]
    /\ UNCHANGED <<asked, arg, waterfall_slices, loopVars, taskVars>>

SetR(c) ==
    /\ Goto(c, "setR", "setLevel")
    /\ place' = [place EXCEPT ![c].r = arg[c].r]
    /\ UNCHANGED <<asked, arg, waterfall_slices, loopVars, taskVars>>

MutNewLevel(c) == place[c].level             \* mutant: level is not updated
NewLevel(c) == arg[c].level

\* The handler ends: its argument is no more (reset to a fixed value).
SetLevel(c) ==
    /\ Goto(c, "setLevel", "open")
    /\ place' = [place EXCEPT ![c].level = NewLevel(c)]
    /\ arg' = [arg EXCEPT ![c] = DefaultPlace]
    /\ UNCHANGED <<asked, waterfall_slices, loopVars, taskVars>>

OnClose(c) ==
    /\ Goto(c, "open", "closed")
    /\ Free(place[c].level)
    /\ waterfall_slices' = Extracted(c)
    /\ shown' = [shown EXCEPT ![c] = FALSE]
    /\ UNCHANGED <<asked, arg, place, loopVars, queue, executing>>

Continue(c) == Extract(c) \/ Insert(c) \/ SetL(c) \/ SetR(c) \/ SetLevel(c)

Handler(c) == \/ Open(c) \/ OnClose(c) \/ Continue(c)
              \/ \E w \in Messages : OnWindowMessage(c, w[1], w[2])
-----------------------------------------------------------------------------
(***************************************************************************)
(* The FFT thread and the I/O threads.                                     *)
(***************************************************************************)
BeginLoop ==
    /\ next = Levels
    /\ Outstanding = {}
    /\ next' = 0
    /\ served' = {}
    /\ disturbed' = [c \in Clients |-> handler[c] \notin Settled]
    /\ UNCHANGED <<asked, clientVars, waterfall_slices, held, todo, taskVars>>

LockLevel ==
    /\ next < Levels /\ ~held
    /\ held' = TRUE
    /\ todo' = {n \in waterfall_slices : n.at.level = next}
    /\ UNCHANGED <<asked, clientVars, waterfall_slices, next, served, taskVars, disturbed>>

\* More than 50000 bytes are waiting in the connection's send buffer.
MutMaySkip(c) == c \notin SlowClients        \* mutant: the comparison is inverted
MaySkip(c) == c \in SlowClients

Visit(n) ==
    /\ todo' = todo \ {n}
    /\ \/ queue' = queue \cup {n} /\ served' = served \cup {n.client}
       \/ MaySkip(n.client) /\ UNCHANGED <<queue, served>>
    /\ UNCHANGED <<asked, clientVars, waterfall_slices, next, held, executing, shown, disturbed>>

UnlockLevel ==
    /\ held /\ todo = {}
    /\ held' = FALSE
    /\ next' = next + 1
    /\ UNCHANGED <<asked, clientVars, waterfall_slices, todo, served, taskVars, disturbed>>

\* send_waterfall reads the length first ...
StartTask(th, n) ==
    /\ executing[th] = {}
    /\ executing' = [executing EXCEPT ![th] =
         {[task |-> n, len |-> place[n.client].r - place[n.client].l]}]
    /\ queue' = queue \ {n}
    /\ UNCHANGED <<asked, clientVars, waterfall_slices, loopVars, shown, disturbed>>

\* ... then the label, l and r scaled up from the client's level.
MutLabel(c) == [l |-> place[c].l, r |-> place[c].r]     \* mutant: not scaled
Label(c) == [l |-> place[c].l * Pow2[place[c].level], r |-> place[c].r * Pow2[place[c].level]]

FinishTask(th, e) ==
    LET c == e.task.client IN
    /\ executing' = [executing EXCEPT ![th] = {}]
    /\ shown' = [shown EXCEPT ![c] = handler[c] = "open" /\ e.task.at = place[c]]
    /\ UNCHANGED <<asked, clientVars, waterfall_slices, loopVars, queue, disturbed>>

FftThread == \/ BeginLoop \/ LockLevel \/ UnlockLevel
             \/ \E n \in todo : Visit(n)
IoThread(th) == \/ \E n \in queue : StartTask(th, n)
                \/ \E e \in executing[th] : FinishTask(th, e)

Next == \/ \E c \in Clients : Handler(c)
        \/ FftThread
        \/ \E th \in IoThreads : IoThread(th)

Spec == Init /\ [][Next]_vars

(***************************************************************************)
(* Handlers that have begun and threads keep running, and the mutexes the  *)
(* loop releases at every level are eventually granted to a handler.       *)
(***************************************************************************)
Fairness ==
    /\ \A c \in Clients : SF_vars(Continue(c))
    /\ WF_vars(FftThread)
    /\ \A th \in IoThreads : WF_vars(IoThread(th))

FairSpec == Spec /\ Fairness
-----------------------------------------------------------------------------
(***************************************************************************)
(* Properties.                                                             *)
(***************************************************************************)

\* A client is in at most one level's map and at most once, in the map its level
\* names and under the key its l and r name whenever no handler is moving it, and
\* in none once it has closed: the iterator and the level given to the next
\* extract or erase always belong together.
Registered(c) ==
    CASE handler[c] \in {"new", "insert", "closed"} -> {}
      [] handler[c] = "open" -> {place[c]}
      [] handler[c] \in {"setL", "setR", "setLevel"} -> {arg[c]}
      [] OTHER -> {n.at : n \in NodesOf(c)}

RegistryConsistent ==
    \A c \in Clients :
        /\ {n.at : n \in NodesOf(c)} = Registered(c)
        /\ \A n, k \in NodesOf(c) : n = k
        /\ handler[c] = "extract" =>
             \E n \in NodesOf(c) : n.at.level = place[c].level

\* A client's slice is the window it asked for last, from the time its handler has
\* registered it: in order, not empty unless a level may have a single bin, each end
\* within half a pixel of the end asked for.  waterfall.cpp:56 does not compare the
\* ends with the spectrum: a window that is wider than the spectrum may be cut from
\* the last level with its ends not halved, and a slice reaches past its level, where
\* the next level's bins are, or none, but only if the window asked for reaches past
\* the bins that the level is made of.
HalfAPixelOff(x, end, level) == 2 * (x * Pow2[level] - end) \in -Pow2[level]..Pow2[level]
Serves(p, l, r) ==
    /\ p.level \in LevelIds
    /\ 0 <= p.l /\ p.l <= p.r
    /\ MinWaterfallFft >= 2 => p.l < p.r
    /\ \/ HalfAPixelOff(p.l, l, p.level) /\ HalfAPixelOff(p.r, r, p.level)
       \/ p.l = l /\ p.r = r /\ p.level = Levels - 1 /\ r - l > FftResultSize
    /\ p.r > LevelSize(p.level) => r > Pow2[p.level] * LevelSize(p.level)
SliceIsAsked ==
    \A n \in waterfall_slices :
        handler[n.client] # "extract" => Serves(n.at, asked[n.client][1], asked[n.client][2])

\* A client whose handlers stayed idle during a loop is posted exactly once,
\* whatever the others do: not missed unless it is slow ...
NotMissed ==
    next = Levels =>
        \A c \in Clients \ SlowClients :
            handler[c] = "open" /\ ~disturbed[c] => c \in served

\* ... and not twice.
NotTwice ==
    \A n, k \in Outstanding : n.client = k.client /\ n # k => disturbed[n.client]

\* Such a client's slice carries the label and the length of the window it was
\* cut from.
LabelFits ==
    \A e \in Running :
        LET c == e.task.client IN
        ~disturbed[c] => /\ e.len = e.task.at.r - e.task.at.l
                         /\ Label(c) = [l |-> e.task.at.l * Pow2[e.task.at.level],
                                        r |-> e.task.at.r * Pow2[e.task.at.level]]

\* A client that has moved and is not slow is eventually sent its new window,
\* unless it moves again or leaves.
MoveIsShown ==
    \A c \in Clients \ SlowClients :
        handler[c] = "open" ~> shown[c] \/ handler[c] # "open"
=============================================================================
