-------------------------- MODULE WaterfallProofs --------------------------
(***************************************************************************)
(* Proofs about WaterfallSlices: the maps of the levels and the clients'   *)
(* own level, l and r agree, whatever number of connections come, move and *)
(* go, and whatever the loop and its tasks are doing meanwhile; and every  *)
(* slice is the window its client asked for last, whatever it asked for.   *)
(***************************************************************************)
EXTENDS WaterfallSlices, WindowProofs

\* The levels there are, and where a message may move a client.
LEMMA LevelsAre ==
    /\ Levels \in Nat \ {0}
    /\ \A i \in LevelIds : LevelSize(i) \in Nat /\ LevelSize(i) >= MinWaterfallFft
<1>1. HasLevels(FftResultSize, MinWaterfallFft)
  BY SizeAssumption
<1>2. Levels \in Nat \ {0} /\ \A i \in LevelIds : LevelSize(i) >= MinWaterfallFft
  BY <1>1, LevelsIs DEF LevelIds, Levels, LevelSize, Last
<1>3. \A i \in LevelIds : LevelSize(i) \in Nat
  BY <1>1, <1>2, LengthIs DEF LevelIds, LevelSize, HasLevels
<1> QED
  BY <1>2, <1>3

LEMMA MovedLevel == \A l, r : WindowFor(l, r).level \in LevelIds
<1>1. HasLevels(FftResultSize, MinWaterfallFft)
  BY SizeAssumption
<1> QED
  BY <1>1, WindowLevel DEF WindowFor, LevelIds, Levels, Last
-----------------------------------------------------------------------------
Moving == {"extract", "insert", "setL", "setR", "setLevel"}

\* A place is a record of three fields, whatever their values.
Shape(p) == [level |-> p.level, l |-> p.l, r |-> p.r]
ShapeInv ==
    /\ handler \in [Clients -> Settled \cup Moving]
    /\ arg = [c \in Clients |-> Shape(arg[c])]
    /\ place = [c \in Clients |-> Shape(place[c])]

\* Which members a client's handler has stored already, and which nodes the
\* client has, by the point the handler has reached.
ClientInv(c) ==
    /\ handler[c] = "new" => place[c].level = 0
    /\ handler[c] \in {"setR", "setLevel"} => place[c].l = arg[c].l
    /\ handler[c] = "setLevel" => place[c].r = arg[c].r
    /\ handler[c] \in {"new", "insert", "closed"} => NodesOf(c) = {}
    /\ handler[c] = "extract" =>
         \E n \in waterfall_slices :
             NodesOf(c) = {n} /\ n.at.level = place[c].level
    /\ handler[c] = "open" => NodesOf(c) = {[client |-> c, at |-> place[c]]}
    /\ handler[c] \in {"setL", "setR", "setLevel"} =>
         NodesOf(c) = {[client |-> c, at |-> arg[c]]}

RegInv == ShapeInv /\ \A c \in Clients : ClientInv(c)
-----------------------------------------------------------------------------
\* Taking a client's nodes out leaves it none, and the others theirs.
LEMMA ExtractedNodes ==
    ASSUME NEW c, waterfall_slices' = Extracted(c)
    PROVE  NodesOf(c)' = {} /\ \A d : d # c => NodesOf(d)' = NodesOf(d)
  BY DEF Extracted, NodesOf

\* Putting one node in for a client that has none gives it that one.
LEMMA InsertedNodes ==
    ASSUME NEW c, NEW p, NodesOf(c) = {},
           waterfall_slices' = waterfall_slices \cup {[client |-> c, at |-> p]}
    PROVE  /\ NodesOf(c)' = {[client |-> c, at |-> p]}
           /\ \A d : d # c => NodesOf(d)' = NodesOf(d)
  BY DEF NodesOf

\* A step that leaves a client's handler, members and nodes alone keeps what the
\* invariant says of it.
LEMMA Untouched ==
    ASSUME NEW c, ClientInv(c), handler'[c] = handler[c], place'[c] = place[c],
           arg'[c] = arg[c], NodesOf(c)' = NodesOf(c)
    PROVE  ClientInv(c)'
<1>1. \A n : NodesOf(c) = {n} => n \in waterfall_slices'
  BY DEF NodesOf
<1> QED
  BY <1>1 DEF ClientInv

\* At first nobody is registered.
LEMMA InitReg == Init => RegInv
<1> SUFFICES ASSUME Init PROVE RegInv
  OBVIOUS
<1>1. ShapeInv
  BY DEF Init, ShapeInv, Shape, Settled, DefaultPlace
<1>2. ASSUME NEW c \in Clients PROVE ClientInv(c)
  <2>1. handler[c] = "new" /\ NodesOf(c) = {} /\ place[c].level = 0
    BY DEF Init, NodesOf
  <2> QED
    BY <2>1 DEF ClientInv
<1> QED
  BY <1>1, <1>2 DEF RegInv

\* Every step of a handler keeps the invariant, for its own client and for the
\* others.
LEMMA HandlerReg ==
    ASSUME RegInv, NEW c \in Clients, Handler(c)
    PROVE  RegInv'
<1> DEFINE Others == \A d \in Clients \ {c} : ClientInv(d)'
<1>a. SUFFICES ShapeInv' /\ ClientInv(c)' /\ Others
  BY DEF RegInv
<1>b. ShapeInv /\ ClientInv(c) /\ \A d \in Clients : ClientInv(d)
  BY DEF RegInv
<1>c. ASSUME \A d \in Clients \ {c} : /\ handler'[d] = handler[d] /\ place'[d] = place[d]
                                      /\ arg'[d] = arg[d] /\ NodesOf(d)' = NodesOf(d)
      PROVE  Others
  BY <1>b, <1>c, Untouched
<1> HIDE DEF Others
<1>1. CASE Open(c)
  <2> DEFINE p == [level |-> 0, l |-> 0, r |-> MinWaterfallFft]
  <2>1. NodesOf(c) = {} /\ place[c].level = 0
    BY <1>1, <1>b DEF Open, Goto, ClientInv
  <2>2. waterfall_slices' = waterfall_slices \cup {[client |-> c, at |-> p]}
    BY <1>1 DEF Open
  <2>3. NodesOf(c)' = {[client |-> c, at |-> p]} /\ \A d : d # c => NodesOf(d)' = NodesOf(d)
    BY <2>1, <2>2, InsertedNodes
  <2>4. ShapeInv'
    BY <1>1, <1>b DEF Open, Goto, ShapeInv, Settled, Moving
  <2>5. handler'[c] = "extract" /\ place'[c] = place[c]
    BY <1>1, <1>b DEF Open, Goto, ShapeInv
  <2>6. ClientInv(c)'
    <3>1. [client |-> c, at |-> p] \in waterfall_slices'
      BY <2>2
    <3>2. [client |-> c, at |-> p].at.level = place'[c].level
      BY <2>1, <2>5
    <3> HIDE DEF p
    <3>3. \E n \in waterfall_slices' : NodesOf(c)' = {n} /\ n.at.level = place'[c].level
      BY <2>3, <3>1, <3>2
    <3> QED
      BY <3>3, <2>5 DEF ClientInv
  <2>7. Others
    BY <2>3, <1>1, <1>b, <1>c DEF Open, Goto, ShapeInv
  <2> QED
    BY <2>4, <2>6, <2>7
<1>2. CASE \E w \in Messages : OnWindowMessage(c, w[1], w[2])
  <2>1. PICK w \in Messages : OnWindowMessage(c, w[1], w[2])
    BY <1>2
  <2> DEFINE p == WindowFor(w[1], w[2])
  <2>2. p = Shape(p)
    BY DEF WindowFor, Window, Shape
  <2> HIDE DEF p
  <2>3. arg' = [arg EXCEPT ![c] = p]
    BY <2>1 DEF OnWindowMessage, p
  <2>4. ShapeInv'
    <3>1. arg' = [d \in Clients |-> Shape(arg'[d])]
      BY <2>2, <2>3, <1>b DEF ShapeInv
    <3> QED
      BY <3>1, <2>1, <1>b DEF OnWindowMessage, Goto, ShapeInv, Settled, Moving
  <2>5. /\ handler[c] = "open" /\ handler'[c] = "extract" /\ place'[c] = place[c]
        /\ waterfall_slices' = waterfall_slices
    BY <2>1, <1>b DEF OnWindowMessage, Goto, ShapeInv
  <2>6. \A d : NodesOf(d)' = NodesOf(d)
    BY <2>5 DEF NodesOf
  <2>7. ClientInv(c)'
    <3>1. NodesOf(c) = {[client |-> c, at |-> place[c]]}
      BY <2>5, <1>b DEF ClientInv
    <3>2. [client |-> c, at |-> place[c]] \in waterfall_slices
      BY <3>1 DEF NodesOf
    <3> QED
      BY <3>1, <3>2, <2>5, <2>6 DEF ClientInv
  <2>8. Others
    BY <2>1, <2>3, <2>5, <2>6, <1>b, <1>c DEF OnWindowMessage, Goto, ShapeInv
  <2> QED
    BY <2>4, <2>7, <2>8
<1>3. CASE Extract(c)
  <2>1. NodesOf(c)' = {} /\ \A d : d # c => NodesOf(d)' = NodesOf(d)
    BY <1>3, ExtractedNodes DEF Extract
  <2>2. ShapeInv'
    BY <1>3, <1>b DEF Extract, Goto, ShapeInv, Settled, Moving
  <2>3. handler'[c] = "insert"
    BY <1>3, <1>b DEF Extract, Goto, ShapeInv
  <2>4. ClientInv(c)'
    BY <2>1, <2>3 DEF ClientInv
  <2>5. Others
    BY <2>1, <1>3, <1>b, <1>c DEF Extract, Goto, ShapeInv
  <2> QED
    BY <2>2, <2>4, <2>5
<1>4. CASE Insert(c)
  <2>1. NodesOf(c) = {}
    BY <1>4, <1>b DEF Insert, Goto, ClientInv
  <2>2. /\ NodesOf(c)' = {[client |-> c, at |-> arg[c]]}
        /\ \A d : d # c => NodesOf(d)' = NodesOf(d)
    BY <1>4, <2>1, InsertedNodes DEF Insert
  <2>3. ShapeInv'
    BY <1>4, <1>b DEF Insert, Goto, ShapeInv, Settled, Moving
  <2>4. handler'[c] = "setL" /\ arg'[c] = arg[c]
    BY <1>4, <1>b DEF Insert, Goto, ShapeInv
  <2>5. ClientInv(c)'
    BY <2>2, <2>4 DEF ClientInv
  <2>6. Others
    BY <2>2, <1>4, <1>b, <1>c DEF Insert, Goto, ShapeInv
  <2> QED
    BY <2>3, <2>5, <2>6
<1>5. CASE SetL(c)
  <2>1. waterfall_slices' = waterfall_slices /\ arg' = arg
    BY <1>5 DEF SetL
  <2>2. \A d : NodesOf(d)' = NodesOf(d)
    BY <2>1 DEF NodesOf
  <2>3. ShapeInv'
    <3>1. place' = [d \in Clients |-> Shape(place'[d])]
      BY <1>5, <1>b DEF SetL, ShapeInv, Shape
    <3> QED
      BY <3>1, <1>5, <1>b DEF SetL, Goto, ShapeInv, Settled, Moving
  <2>4. /\ handler[c] = "setL" /\ handler'[c] = "setR" /\ place'[c].l = arg[c].l
    BY <1>5, <1>b DEF SetL, Goto, ShapeInv, Shape
  <2>5. ClientInv(c)'
    BY <2>1, <2>2, <2>4, <1>b DEF ClientInv
  <2>6. Others
    BY <2>1, <2>2, <1>5, <1>b, <1>c DEF SetL, Goto, ShapeInv
  <2> QED
    BY <2>3, <2>5, <2>6
<1>6. CASE SetR(c)
  <2>1. waterfall_slices' = waterfall_slices /\ arg' = arg
    BY <1>6 DEF SetR
  <2>2. \A d : NodesOf(d)' = NodesOf(d)
    BY <2>1 DEF NodesOf
  <2>3. ShapeInv'
    <3>1. place' = [d \in Clients |-> Shape(place'[d])]
      BY <1>6, <1>b DEF SetR, ShapeInv, Shape
    <3> QED
      BY <3>1, <1>6, <1>b DEF SetR, Goto, ShapeInv, Settled, Moving
  <2>4. /\ handler[c] = "setR" /\ handler'[c] = "setLevel"
        /\ place'[c].r = arg[c].r /\ place'[c].l = place[c].l
    BY <1>6, <1>b DEF SetR, Goto, ShapeInv, Shape
  <2>5. ClientInv(c)'
    BY <2>1, <2>2, <2>4, <1>b DEF ClientInv
  <2>6. Others
    BY <2>1, <2>2, <1>6, <1>b, <1>c DEF SetR, Goto, ShapeInv
  <2> QED
    BY <2>3, <2>5, <2>6
<1>7. CASE SetLevel(c)
  <2>1. waterfall_slices' = waterfall_slices
    BY <1>7 DEF SetLevel
  <2>2. \A d : NodesOf(d)' = NodesOf(d)
    BY <2>1 DEF NodesOf
  <2>3. DefaultPlace = Shape(DefaultPlace)
    BY DEF DefaultPlace, Shape
  <2>4. ShapeInv'
    <3>1. arg' = [d \in Clients |-> Shape(arg'[d])]
      BY <2>3, <1>7, <1>b DEF SetLevel, ShapeInv
    <3>2. place' = [d \in Clients |-> Shape(place'[d])]
      BY <1>7, <1>b DEF SetLevel, ShapeInv, Shape
    <3> QED
      BY <3>1, <3>2, <1>7, <1>b DEF SetLevel, Goto, ShapeInv, Settled, Moving
  <2>5. handler[c] = "setLevel" /\ handler'[c] = "open"
    BY <1>7, <1>b DEF SetLevel, Goto, ShapeInv
  <2>6. place'[c] = arg[c]
    <3>1. place'[c] = [level |-> arg[c].level, l |-> place[c].l, r |-> place[c].r]
      BY <1>7, <1>b DEF SetLevel, NewLevel, ShapeInv, Shape
    <3>2. place[c].l = arg[c].l /\ place[c].r = arg[c].r
      BY <2>5, <1>b DEF ClientInv
    <3>3. arg[c] = [level |-> arg[c].level, l |-> arg[c].l, r |-> arg[c].r]
      BY <1>b DEF ShapeInv, Shape
    <3> QED
      BY <3>1, <3>2, <3>3
  <2>7. ClientInv(c)'
    BY <2>2, <2>5, <2>6, <1>b DEF ClientInv
  <2>8. Others
    BY <2>2, <1>7, <1>b, <1>c DEF SetLevel, Goto, ShapeInv
  <2> QED
    BY <2>4, <2>7, <2>8
<1>8. CASE OnClose(c)
  <2>1. NodesOf(c)' = {} /\ \A d : d # c => NodesOf(d)' = NodesOf(d)
    BY <1>8, ExtractedNodes DEF OnClose
  <2>2. ShapeInv'
    BY <1>8, <1>b DEF OnClose, Goto, ShapeInv, Settled, Moving
  <2>3. handler'[c] = "closed"
    BY <1>8, <1>b DEF OnClose, Goto, ShapeInv
  <2>4. ClientInv(c)'
    BY <2>1, <2>3 DEF ClientInv
  <2>5. Others
    BY <2>1, <1>8, <1>b, <1>c DEF OnClose, Goto, ShapeInv
  <2> QED
    BY <2>2, <2>4, <2>5
<1> QED
  BY <1>1, <1>2, <1>3, <1>4, <1>5, <1>6, <1>7, <1>8 DEF Handler, Continue

\* The loop and the tasks read the registry and the clients, and change neither.
LEMMA LoopReg ==
    RegInv /\ (FftThread \/ (\E th \in IoThreads : IoThread(th)) \/ UNCHANGED vars) => RegInv'
<1> SUFFICES ASSUME RegInv,
                    FftThread \/ (\E th \in IoThreads : IoThread(th)) \/ UNCHANGED vars
             PROVE  RegInv'
  OBVIOUS
<1>1. UNCHANGED <<clientVars, waterfall_slices>>
  BY DEF FftThread, BeginLoop, LockLevel, UnlockLevel, Visit, IoThread, StartTask,
         FinishTask, vars
<1> QED
  BY <1>1 DEF RegInv, ShapeInv, ClientInv, NodesOf, clientVars

\* The invariant is inductive and holds in every reachable state.
THEOREM RegistryInductive == Spec => []RegInv
<1>1. RegInv /\ [Next]_vars => RegInv'
  BY HandlerReg, LoopReg DEF Next
<1> QED
  BY InitReg, <1>1, PTL DEF Spec

\* Every client has one node, in the map its level names and under the key its
\* members name, whenever no handler is moving it.
LEMMA RegInvConsistent == RegInv => RegistryConsistent
<1> SUFFICES ASSUME RegInv, NEW c \in Clients
             PROVE  /\ {n.at : n \in NodesOf(c)} = Registered(c)
                    /\ \A n, k \in NodesOf(c) : n = k
                    /\ handler[c] = "extract" =>
                         \E n \in NodesOf(c) : n.at.level = place[c].level
  BY DEF RegistryConsistent
<1>1. ClientInv(c) /\ handler[c] \in Settled \cup Moving
  BY DEF RegInv, ShapeInv
<1>2. CASE handler[c] \in {"new", "insert", "closed"}
  BY <1>1, <1>2 DEF ClientInv, Registered
<1>3. CASE handler[c] = "open"
  <2>1. NodesOf(c) = {[client |-> c, at |-> place[c]]}
    BY <1>1, <1>3 DEF ClientInv
  <2>2. {n.at : n \in NodesOf(c)} = {place[c]}
    BY <2>1
  <2>3. Registered(c) = {place[c]}
    BY <1>3 DEF Registered
  <2> QED
    BY <2>1, <2>2, <2>3, <1>3
<1>4. CASE handler[c] \in {"setL", "setR", "setLevel"}
  <2>1. NodesOf(c) = {[client |-> c, at |-> arg[c]]}
    BY <1>1, <1>4 DEF ClientInv
  <2>2. {n.at : n \in NodesOf(c)} = {arg[c]}
    BY <2>1
  <2>3. Registered(c) = {arg[c]}
    BY <1>4 DEF Registered
  <2> QED
    BY <2>1, <2>2, <2>3, <1>4
<1>5. CASE handler[c] = "extract"
  BY <1>1, <1>5 DEF ClientInv, Registered
<1> QED
  BY <1>1, <1>2, <1>3, <1>4, <1>5 DEF Settled, Moving

\* RegistryConsistent of WaterfallSlices, for any numbers of clients, levels and
\* threads: the iterator and the level a handler hands to extract or erase always
\* belong together.
THEOREM RegistryIsConsistent == Spec => []RegistryConsistent
  BY RegistryInductive, RegInvConsistent, PTL
-----------------------------------------------------------------------------
(***************************************************************************)
(* The loop and the tasks.  A client that no handler has touched since the *)
(* loop began is where it was, so its tasks are all of its one node.       *)
(***************************************************************************)
Visiting ==
    /\ next \in Nat /\ held \in BOOLEAN
    /\ held => next # Levels
    /\ todo # {} => held
    /\ todo \subseteq waterfall_slices
    /\ \A n \in todo : n.at.level = next

Undisturbed ==
    /\ disturbed \in [Clients -> BOOLEAN]
    /\ \A c \in Clients : ~disturbed[c] => handler[c] \in Settled

Tasks ==
    /\ executing = [th \in IoThreads |-> executing[th]]
    /\ \A n \in waterfall_slices \cup Outstanding : n.client \in Clients
    /\ \A n \in Outstanding :
         ~disturbed[n.client] => n = [client |-> n.client, at |-> place[n.client]]

ServeInv == Visiting /\ Undisturbed /\ Tasks /\ LabelFits

LEMMA InitServe == Init => ServeInv
<1> SUFFICES ASSUME Init PROVE ServeInv
  OBVIOUS
<1>1. Running = {} /\ Outstanding = {}
  BY DEF Init, Running, Outstanding
<1> QED
  BY <1>1, LevelsAre DEF Init, ServeInv, Visiting, Undisturbed, Tasks, LabelFits

\* A registered client that no handler has touched has its node where it says.
LEMMA NodeInPlace ==
    ASSUME RegInv, Undisturbed, NEW n \in waterfall_slices, n.client \in Clients,
           ~disturbed[n.client]
    PROVE  n = [client |-> n.client, at |-> place[n.client]]
<1> DEFINE c == n.client
<1>1. n \in NodesOf(c) /\ ClientInv(c) /\ handler[c] \in Settled
  BY DEF NodesOf, RegInv, Undisturbed
<1> QED
  BY <1>1 DEF ClientInv, Settled

\* What a handler leaves alone: the loop, the tasks and the other clients.
LEMMA HandlerKeeps ==
    ASSUME RegInv, NEW c \in Clients, Handler(c)
    PROVE  /\ UNCHANGED <<next, held, todo, served, queue, executing>>
           /\ disturbed' = [disturbed EXCEPT ![c] = TRUE]
           /\ \A d \in Clients \ {c} : handler'[d] = handler[d] /\ place'[d] = place[d]
<1> USE DEF loopVars, taskVars, Goto
<1> USE DEF RegInv, ShapeInv
<1>1. CASE Open(c)
  BY <1>1 DEF Open
<1>2. ASSUME NEW w \in Messages, OnWindowMessage(c, w[1], w[2])
      PROVE  /\ UNCHANGED <<next, held, todo, served, queue, executing>>
             /\ disturbed' = [disturbed EXCEPT ![c] = TRUE]
             /\ \A d \in Clients \ {c} : handler'[d] = handler[d] /\ place'[d] = place[d]
  BY <1>2 DEF OnWindowMessage
<1>3. CASE Extract(c) \/ Insert(c) \/ OnClose(c)
  BY <1>3 DEF Extract, Insert, OnClose
<1>4. CASE SetL(c) \/ SetR(c) \/ SetLevel(c)
  BY <1>4 DEF SetL, SetR, SetLevel
<1> QED
  BY <1>1, <1>2, <1>3, <1>4 DEF Handler, Continue

\* A handler disturbs its client, and takes no node of the level being visited.
LEMMA HandlerServe ==
    ASSUME RegInv, ServeInv, NEW c \in Clients, Handler(c)
    PROVE  ServeInv'
<1> USE DEF ServeInv
<1>1. /\ UNCHANGED <<next, held, todo, queue, executing>>
      /\ disturbed' = [disturbed EXCEPT ![c] = TRUE]
      /\ \A d \in Clients \ {c} : handler'[d] = handler[d] /\ place'[d] = place[d]
  BY HandlerKeeps
<1>2. \A n \in waterfall_slices' : n.client \in Clients
  BY DEF Handler, Continue, Open, OnWindowMessage, Extract, Insert, SetL, SetR, SetLevel,
         OnClose, Extracted, Tasks
<1>3. todo \subseteq waterfall_slices'
  <2>1. CASE Extract(c) \/ OnClose(c)
    <3>1. waterfall_slices' = Extracted(c) /\ Free(place[c].level)
      BY <2>1 DEF Extract, OnClose
    <3>2. \A n \in NodesOf(c) : n.at.level = place[c].level
      <4>1. ClientInv(c) /\ handler[c] \in {"extract", "open"}
        BY <2>1 DEF RegInv, Extract, OnClose, Goto
      <4> QED
        BY <4>1 DEF ClientInv
    <3>3. \A n \in todo : n \notin NodesOf(c)
      BY <3>1, <3>2 DEF Visiting, Free
    <3> QED
      BY <3>1, <3>3 DEF Visiting, Extracted
  <2>2. CASE ~(Extract(c) \/ OnClose(c))
    BY <2>2 DEF Handler, Continue, Open, OnWindowMessage, Insert, SetL, SetR, SetLevel, Visiting
  <2> QED
    BY <2>1, <2>2
<1>4. Outstanding' = Outstanding /\ Running' = Running
  BY <1>1 DEF Outstanding, Running
<1>5. Visiting'
  BY <1>1, <1>3 DEF Visiting
<1>6. Undisturbed'
  BY <1>1 DEF Undisturbed
<1>7. Tasks'
  BY <1>1, <1>2, <1>4 DEF Tasks, Undisturbed
<1>8. LabelFits'
  <2>1. \A e \in Running : e.task.client \in Clients
    BY DEF Tasks, Outstanding
  <2>2. ASSUME NEW e \in Running, ~disturbed'[e.task.client]
        PROVE  /\ ~disturbed[e.task.client]
               /\ Label(e.task.client)' = Label(e.task.client)
    BY <1>1, <2>1, <2>2 DEF Label, Undisturbed
  <2> QED
    BY <1>4, <2>2 DEF LabelFits
<1> QED
  BY <1>5, <1>6, <1>7, <1>8

\* A loop begins without tasks, and posts the nodes it finds.
LEMMA FftServe ==
    ASSUME RegInv, ServeInv, FftThread
    PROVE  ServeInv'
<1> USE LevelsAre DEF ServeInv, clientVars, taskVars
<1>1. CASE BeginLoop
  <2>1. Outstanding = {} /\ Outstanding' = {} /\ Running' = {}
    BY <1>1, SMTT(30) DEF BeginLoop, Outstanding, Running
  <2>2. ~held /\ todo = {}
    BY <1>1 DEF BeginLoop, Visiting
  <2>3. Visiting' /\ Undisturbed'
    BY <1>1, <2>2 DEF BeginLoop, Visiting, Undisturbed
  <2> QED
    BY <1>1, <2>1, <2>3 DEF BeginLoop, Tasks, LabelFits
<1>2. CASE LockLevel \/ UnlockLevel
  <2>1. /\ Outstanding' = Outstanding /\ Running' = Running
        /\ UNCHANGED <<handler, place, waterfall_slices, executing, disturbed>>
    BY <1>2 DEF LockLevel, UnlockLevel, Outstanding, Running
  <2>2. Visiting'
    <3>1. CASE LockLevel
      BY <3>1 DEF LockLevel, Visiting
    <3>2. CASE UnlockLevel
      <4>1. todo = {} /\ todo' = {} /\ held' = FALSE /\ next' = next + 1
        BY <3>2 DEF UnlockLevel
      <4>2. next \in Nat
        BY DEF Visiting
      <4>3. next' \in Nat
        BY <4>1, <4>2
      <4>4. held' \in BOOLEAN
        BY <4>1, Zenon
      <4> QED
        BY <4>1, <4>3, <4>4 DEF Visiting
    <3> QED
      BY <1>2, <3>1, <3>2
  <2>3. Undisturbed' /\ Tasks'
    BY <2>1 DEF Undisturbed, Tasks
  <2>4. LabelFits'
    BY <2>1 DEF LabelFits, Label
  <2> QED
    BY <2>2, <2>3, <2>4
<1>3. ASSUME NEW n \in todo, Visit(n) PROVE ServeInv'
  <2>1. /\ Running' = Running
        /\ Outstanding' \in {Outstanding, Outstanding \cup {n}}
        /\ todo' = todo \ {n} /\ UNCHANGED <<next, held, handler, place>>
        /\ UNCHANGED <<waterfall_slices, executing, disturbed>>
    BY <1>3 DEF Visit, Outstanding, Running
  <2>2. n \in waterfall_slices /\ n.client \in Clients
    BY DEF Visiting, Tasks
  <2>3. ~disturbed[n.client] => n = [client |-> n.client, at |-> place[n.client]]
    BY <2>2, NodeInPlace
  <2>4. Visiting' /\ Undisturbed'
    BY <2>1 DEF Visiting, Undisturbed
  <2>5. Tasks'
    BY <2>1, <2>2, <2>3 DEF Tasks
  <2>6. LabelFits'
    BY <2>1 DEF LabelFits, Label
  <2> QED
    BY <2>4, <2>5, <2>6
<1> QED
  BY <1>1, <1>2, <1>3 DEF FftThread

\* A thread reads the length where the node was cut, if nobody has moved it.
LEMMA IoServe ==
    ASSUME ServeInv, NEW th \in IoThreads, IoThread(th)
    PROVE  ServeInv'
<1> USE DEF ServeInv, clientVars, loopVars
<1>1. /\ UNCHANGED <<handler, place, waterfall_slices, next, held, todo, disturbed>>
      /\ executing' = [x \in IoThreads |-> executing'[x]]
  BY DEF IoThread, StartTask, FinishTask, Tasks
<1>2. Visiting' /\ Undisturbed'
  BY <1>1 DEF Visiting, Undisturbed
<1>3. ASSUME NEW n \in queue, StartTask(th, n) PROVE Tasks' /\ LabelFits'
  <2> DEFINE e == [task |-> n, len |-> place[n.client].r - place[n.client].l]
  <2>1. Running' = Running \cup {e}
    BY <1>3 DEF StartTask, Running, Tasks
  <2>2. e.task = n /\ e.len = place[n.client].r - place[n.client].l
    OBVIOUS
  <2> HIDE DEF e
  <2>3. {x.task : x \in Running'} = {x.task : x \in Running} \cup {n}
    BY <2>1, <2>2
  <2>4. Outstanding' = Outstanding
    BY <1>3, <2>3 DEF StartTask, Outstanding
  <2>5. Tasks'
    BY <1>1, <2>4 DEF Tasks
  <2>6. ~disturbed[n.client] => n.at = place[n.client]
    <3>1. ~disturbed[n.client] => n = [client |-> n.client, at |-> place[n.client]]
      BY DEF Tasks, Outstanding
    <3> QED
      BY <3>1
  <2>7. LabelFits'
    BY <1>1, <2>1, <2>2, <2>6 DEF LabelFits, Label
  <2> QED
    BY <2>5, <2>7
<1>4. ASSUME NEW e \in executing[th], FinishTask(th, e) PROVE Tasks' /\ LabelFits'
  <2>1. Running' \subseteq Running
    BY <1>4 DEF FinishTask, Running, Tasks
  <2>2. Outstanding' \subseteq Outstanding
    BY <1>4, <2>1 DEF FinishTask, Outstanding
  <2> QED
    BY <1>1, <1>2, <2>1, <2>2 DEF Tasks, LabelFits, Label
<1> QED
  BY <1>2, <1>3, <1>4 DEF IoThread

\* The loop and the tasks keep to what they should know of the clients.
THEOREM ServingInductive == Spec => [](RegInv /\ ServeInv)
<1>1. RegInv /\ ServeInv /\ [Next]_vars => ServeInv'
  <2> SUFFICES ASSUME RegInv, ServeInv, [Next]_vars PROVE ServeInv'
    OBVIOUS
  <2>1. CASE UNCHANGED vars
    <3>1. UNCHANGED <<handler, place, waterfall_slices, next, held, todo, queue, executing, disturbed>>
      BY <2>1 DEF vars, clientVars, loopVars, taskVars
    <3>2. Outstanding' = Outstanding /\ Running' = Running
      BY <3>1 DEF Outstanding, Running
    <3> QED
      BY <3>1, <3>2 DEF ServeInv, Visiting, Undisturbed, Tasks, LabelFits, Label
  <2> QED
    BY <2>1, HandlerServe, FftServe, IoServe DEF Next
<1> QED
  BY InitServe, <1>1, RegistryInductive, PTL DEF Spec

\* LabelFits: a slice carries the label and the length of the window it was cut
\* from, unless a handler of its client is at work.
THEOREM LabelsAlwaysFit == Spec => []LabelFits
<1>1. ServeInv => LabelFits
  BY DEF ServeInv
<1> QED
  BY <1>1, ServingInductive, PTL

\* NotTwice: a client that no handler touches during a loop has one task.
THEOREM NobodyTwice == Spec => []NotTwice
<1>1. ServeInv => NotTwice
  BY DEF ServeInv, Tasks, NotTwice
<1> QED
  BY <1>1, ServingInductive, PTL
-----------------------------------------------------------------------------
(***************************************************************************)
(* Nobody is missed.  A client that no handler touches stays on its level, *)
(* which the loop has yet to reach, is visiting with the client's node on  *)
(* its list, or has left behind with the client posted.                    *)
(***************************************************************************)
OnLevels == \A c \in Clients : place[c].level \in LevelIds /\ arg[c].level \in LevelIds

Due(c) ==
    \/ c \in served
    \/ place[c].level > next
    \/ /\ place[c].level = next
       /\ held => [client |-> c, at |-> place[c]] \in todo

Idle(c) == c \notin SlowClients /\ handler[c] = "open" /\ ~disturbed[c]

MissInv == OnLevels /\ \A c \in Clients : Idle(c) => Due(c)

LEMMA InitMiss == Init => MissInv
  BY LevelsAre DEF Init, MissInv, OnLevels, DefaultPlace, LevelIds, Idle

\* A handler disturbs its client and moves it from level to level.
LEMMA HandlerMiss ==
    ASSUME RegInv, ServeInv, MissInv, NEW c \in Clients, Handler(c)
    PROVE  MissInv'
<1>1. OnLevels'
  <2> USE DEF RegInv, ShapeInv, Shape, MissInv, OnLevels
  <2>1. CASE Open(c) \/ Extract(c) \/ Insert(c) \/ OnClose(c)
    BY <2>1 DEF Open, Extract, Insert, OnClose
  <2>2. ASSUME NEW w \in Messages, OnWindowMessage(c, w[1], w[2]) PROVE OnLevels'
    <3>1. place' = place /\ arg' = [arg EXCEPT ![c] = WindowFor(w[1], w[2])]
      BY <2>2 DEF OnWindowMessage
    <3>2. WindowFor(w[1], w[2]).level \in LevelIds
      BY MovedLevel
    <3> QED
      BY <3>1, <3>2
  <2>3. CASE SetL(c) \/ SetR(c)
    BY <2>3, ZenonT(60) DEF SetL, SetR
  <2>4. CASE SetLevel(c)
    BY <2>4, LevelsAre DEF SetLevel, NewLevel, DefaultPlace, LevelIds
  <2> QED
    BY <2>1, <2>2, <2>3, <2>4 DEF Handler, Continue
<1>2. /\ UNCHANGED <<next, held, todo, served>>
      /\ disturbed' = [disturbed EXCEPT ![c] = TRUE]
      /\ \A d \in Clients \ {c} : handler'[d] = handler[d] /\ place'[d] = place[d]
  BY HandlerKeeps DEF ServeInv
<1>3. ASSUME NEW d \in Clients, Idle(d)' PROVE Due(d)'
  <2>1. d # c
    BY <1>2, <1>3 DEF Idle, ServeInv, Undisturbed
  <2>2. Idle(d)
    BY <1>2, <1>3, <2>1 DEF Idle, ServeInv, Undisturbed
  <2>3. Due(d)
    BY <2>2 DEF MissInv
  <2> QED
    BY <1>2, <2>1, <2>3 DEF Due
<1> QED
  BY <1>1, <1>3 DEF MissInv

\* The loop passes a level only when it has visited the nodes it found there.
LEMMA FftMiss ==
    ASSUME RegInv, ServeInv, MissInv, FftThread
    PROVE  MissInv'
<1>1. UNCHANGED <<handler, place, arg, waterfall_slices>>
  BY DEF FftThread, BeginLoop, LockLevel, UnlockLevel, Visit, clientVars
<1>2. OnLevels'
  BY <1>1 DEF MissInv, OnLevels
<1>3. ASSUME NEW c \in Clients, Idle(c)' PROVE Due(c)'
  <2>1. place[c].level \in Nat
    BY LevelsAre DEF MissInv, OnLevels, LevelIds
  <2>2. [client |-> c, at |-> place[c]] \in waterfall_slices
    <3>1. NodesOf(c) = {[client |-> c, at |-> place[c]]}
      BY <1>1, <1>3 DEF Idle, RegInv, ClientInv
    <3> QED
      BY <3>1 DEF NodesOf
  <2>3. CASE BeginLoop
    <3>1. next' = 0 /\ ~held'
      BY <2>3 DEF BeginLoop, ServeInv, Visiting
    <3> QED
      BY <1>1, <2>1, <3>1 DEF Due
  <2>4. CASE ~BeginLoop
    <3>1. disturbed' = disturbed
      BY <2>4 DEF FftThread, LockLevel, UnlockLevel, Visit
    <3>2. Due(c)
      BY <1>1, <1>3, <3>1 DEF Idle, MissInv
    <3>3. CASE LockLevel
      BY <1>1, <2>2, <3>2, <3>3 DEF LockLevel, Due
    <3>4. CASE UnlockLevel
      <4>1. held /\ todo = {} /\ ~held' /\ next' = next + 1 /\ served' = served
        BY <3>4 DEF UnlockLevel
      <4>2. c \in served \/ place[c].level > next
        BY <3>2, <4>1 DEF Due
      <4>3. next \in Nat
        BY DEF ServeInv, Visiting
      <4> QED
        BY <1>1, <2>1, <4>1, <4>2, <4>3 DEF Due
    <3>5. ASSUME NEW n \in todo, Visit(n) PROVE Due(c)'
      <4>1. next' = next /\ held' = held /\ todo' = todo \ {n} /\ served \subseteq served'
        BY <3>5 DEF Visit
      <4>2. CASE n.client = c
        BY <1>3, <3>5, <4>2 DEF Visit, MaySkip, Idle, Due
      <4>3. CASE n.client # c
        <5>1. [client |-> c, at |-> place[c]].client = c
          OBVIOUS
        <5>2. n # [client |-> c, at |-> place[c]]
          BY <4>3, <5>1
        <5> QED
          BY <1>1, <3>2, <4>1, <5>2 DEF Due
      <4> QED
        BY <4>2, <4>3
    <3> QED
      BY <2>4, <3>3, <3>4, <3>5 DEF FftThread
  <2> QED
    BY <2>3, <2>4
<1> QED
  BY <1>2, <1>3 DEF MissInv

\* What is due is posted in time, in every reachable state.
THEOREM DueInductive == Spec => []MissInv
<1>1. RegInv /\ ServeInv /\ MissInv /\ [Next]_vars => MissInv'
  <2> SUFFICES ASSUME RegInv, ServeInv, MissInv, [Next]_vars PROVE MissInv'
    OBVIOUS
  <2>1. CASE (\E th \in IoThreads : IoThread(th)) \/ UNCHANGED vars
    <3>1. UNCHANGED <<handler, place, arg, next, held, todo, served, disturbed>>
      BY <2>1 DEF IoThread, StartTask, FinishTask, vars, clientVars, loopVars
    <3> QED
      BY <3>1 DEF MissInv, OnLevels, Idle, Due
  <2> QED
    BY <2>1, HandlerMiss, FftMiss DEF Next
<1> QED
  BY InitMiss, <1>1, ServingInductive, PTL DEF Spec

\* NotMissed: a client that is not slow and that no handler touches during a loop
\* is posted in it, although the loop holds one level's mutex at a time.
THEOREM NobodyMissed == Spec => []NotMissed
<1>1. MissInv => NotMissed
  <2> SUFFICES ASSUME MissInv, next = Levels, NEW c \in Clients \ SlowClients,
                      handler[c] = "open", ~disturbed[c]
               PROVE  c \in served
    BY DEF NotMissed
  <2>1. Due(c) /\ place[c].level \in LevelIds
    BY DEF MissInv, Idle, OnLevels
  <2> QED
    BY <2>1, LevelsAre DEF Due, LevelIds
<1> QED
  BY <1>1, DueInductive, PTL
-----------------------------------------------------------------------------
(***************************************************************************)
(* What is cut from a level is what the client asked for.  Nothing is      *)
(* assumed of the messages: on_window_message compares the ends of a window*)
(* with each other and with zero, not with the size of the spectrum.       *)
(***************************************************************************)
ServesAsked(c, p) == Serves(p, asked[c][1], asked[c][2])

\* What a handler is about to set, and what it has set.
AskedBy(c) ==
    /\ handler[c] \in {"new"} \cup Moving => ServesAsked(c, arg[c])
    /\ handler[c] = "open" => ServesAsked(c, place[c])
AskInv == /\ asked = [c \in Clients |-> asked[c]]
          /\ \A c \in Clients : AskedBy(c)

\* A message that is accepted asks for a window there is.
LEMMA WindowServes ==
    ASSUME NEW l \in Int, NEW r \in Int, InOrder(l, r)
    PROVE  Serves(WindowFor(l, r), l, r)
<1> DEFINE F == FftResultSize
           M == MinWaterfallFft
           w == WindowFor(l, r)
<1>1. HasLevels(F, M) /\ l \in Nat /\ r \in Nat /\ l < r
  BY SizeAssumption DEF InOrder
<1>2. LevelIds = 0..Last(F, M) /\ Levels - 1 = Last(F, M)
  BY DEF LevelIds, Levels, Last
<1>3. w = Window(F, M, l, r)
  BY DEF WindowFor
<1> HIDE DEF w
<1>4. /\ w.level \in 0..Last(F, M) /\ w.l \in Nat /\ w.r \in Nat /\ w.l <= w.r
      /\ M >= 2 => w.l < w.r
      /\ \/ /\ 2 * (w.l * Pow2[w.level] - l) \in -Pow2[w.level]..Pow2[w.level]
            /\ 2 * (w.r * Pow2[w.level] - r) \in -Pow2[w.level]..Pow2[w.level]
         \/ w.l = l /\ w.r = r /\ w.level = Last(F, M) /\ r - l > F
      /\ w.r > LevelLength(F, w.level) => r > Pow2[w.level] * LevelLength(F, w.level)
  BY <1>1, <1>3, WindowIs
<1>5. Serves(w, l, r)
  BY <1>2, <1>4 DEF Serves, HalfAPixelOff, LevelSize
<1> QED
  BY <1>5 DEF w

\* The window every client starts with.
LEMMA DefaultServes == Serves(DefaultPlace, DefaultWindow[1], DefaultWindow[2])
<1> DEFINE n == Levels - 1
           P == Pow2[n]
           M == MinWaterfallFft
<1>1. n \in LevelIds /\ n \in Nat /\ M \in Nat \ {0} /\ LevelSize(n) >= M /\ LevelSize(n) \in Nat
  BY LevelsAre, SizeAssumption DEF HasLevels, LevelIds
<1>2. P \in Nat \ {0}
  BY <1>1, Pow2Grows
<1>3. DefaultPlace.level = n /\ DefaultPlace.l = 0 /\ DefaultPlace.r = M
  BY DEF DefaultPlace
<1>4. DefaultWindow[1] = 0 /\ DefaultWindow[2] = M * P
  BY DEF DefaultWindow
<1> HIDE DEF n, P, M
<1>5. 2 * (0 * P - 0) \in -P..P /\ 2 * (M * P - M * P) \in -P..P
  <2> DEFINE x == M * P
  <2>1. x \in Nat
    BY <1>1, <1>2
  <2> HIDE DEF x
  <2>2. 2 * (x - x) \in -P..P
    BY <1>2, <2>1
  <2> QED
    BY <1>2, <2>2 DEF x
<1>6. HalfAPixelOff(0, 0, n) /\ HalfAPixelOff(M, M * P, n)
  BY <1>5 DEF HalfAPixelOff, P
<1>7. 0 <= 0 /\ 0 <= M /\ (M >= 2 => 0 < M) /\ ~(M > LevelSize(n))
  BY <1>1
<1> QED
  BY <1>1, <1>3, <1>4, <1>6, <1>7 DEF Serves, M

LEMMA InitAsk == Init => AskInv
<1> SUFFICES ASSUME Init PROVE AskInv
  OBVIOUS
<1>1. ASSUME NEW c \in Clients PROVE AskedBy(c)
  <2>1. handler[c] = "new" /\ arg[c] = DefaultPlace /\ asked[c] = DefaultWindow
    BY DEF Init
  <2> QED
    BY <2>1, DefaultServes DEF AskedBy, ServesAsked
<1> QED
  BY <1>1 DEF Init, AskInv

\* A step that changes neither what a client asked for nor what its handler sets keeps
\* it, unless the handler ends.
LEMMA StillAsked ==
    ASSUME NEW c, AskedBy(c), asked'[c] = asked[c], arg'[c] = arg[c],
           \/ handler'[c] = handler[c] /\ place'[c] = place[c]
           \/ handler[c] \in {"new"} \cup Moving /\ handler'[c] \in Moving
           \/ handler'[c] = "closed"
    PROVE  AskedBy(c)'
  BY DEF AskedBy, ServesAsked, Serves, Moving

\* Every step keeps it: a handler that moves its client sets what was asked for.
LEMMA StepAsk ==
    ASSUME RegInv, AskInv, [Next]_vars
    PROVE  AskInv'
<1>1. ASSUME NEW c \in Clients, Handler(c) PROVE AskInv'
  <2> USE DEF Goto
  <2>a. /\ handler = [d \in Clients |-> handler[d]] /\ arg = [d \in Clients |-> arg[d]]
        /\ place = [d \in Clients |-> place[d]] /\ asked = [d \in Clients |-> asked[d]]
        /\ \A d \in Clients : AskedBy(d)
    BY DEF RegInv, ShapeInv, Shape, AskInv
  <2>b. ASSUME asked' = [d \in Clients |-> asked'[d]], AskedBy(c)',
               \A d \in Clients \ {c} : /\ handler'[d] = handler[d] /\ arg'[d] = arg[d]
                                       /\ place'[d] = place[d] /\ asked'[d] = asked[d]
        PROVE  AskInv'
    BY <2>a, <2>b, StillAsked DEF AskInv
  <2>1. CASE Open(c) \/ Extract(c) \/ Insert(c) \/ OnClose(c)
    <3>1. /\ asked' = asked /\ arg' = arg /\ place' = place
          /\ \A d \in Clients \ {c} : handler'[d] = handler[d]
          /\ \/ handler[c] \in {"new"} \cup Moving /\ handler'[c] \in Moving
             \/ handler'[c] = "closed"
      BY <2>1, <2>a DEF Open, Extract, Insert, OnClose, Moving
    <3>2. AskedBy(c)'
      BY <2>a, <3>1, StillAsked
    <3> QED
      BY <2>a, <2>b, <3>1, <3>2
  <2>2. ASSUME NEW w \in Messages, OnWindowMessage(c, w[1], w[2]) PROVE AskInv'
    <3>1. /\ place' = place /\ handler' = [handler EXCEPT ![c] = "extract"]
          /\ arg' = [arg EXCEPT ![c] = WindowFor(w[1], w[2])]
          /\ asked' = [asked EXCEPT ![c] = <<w[1], w[2]>>]
          /\ InOrder(w[1], w[2])
      BY <2>2 DEF OnWindowMessage
    <3>2. Serves(WindowFor(w[1], w[2]), w[1], w[2])
      BY <3>1, WindowServes, MessagesAssumption
    <3>3. handler'[c] = "extract" /\ arg'[c] = WindowFor(w[1], w[2]) /\ asked'[c] = <<w[1], w[2]>>
      BY <2>a, <3>1
    <3>4. Serves(arg'[c], asked'[c][1], asked'[c][2])
      BY <3>2, <3>3
    <3>5. AskedBy(c)'
      BY <3>3, <3>4 DEF AskedBy, ServesAsked, Serves
    <3>6. /\ asked' = [d \in Clients |-> asked'[d]]
          /\ \A d \in Clients \ {c} : /\ handler'[d] = handler[d] /\ arg'[d] = arg[d]
                                      /\ place'[d] = place[d] /\ asked'[d] = asked[d]
      BY <2>a, <3>1
    <3> QED
      BY <2>b, <3>5, <3>6
  <2>3. CASE SetL(c) \/ SetR(c)
    <3>1. /\ asked' = asked /\ arg' = arg
          /\ \A d \in Clients \ {c} : handler'[d] = handler[d] /\ place'[d] = place[d]
          /\ handler[c] \in Moving /\ handler'[c] \in Moving
      BY <2>3, <2>a DEF SetL, SetR, Moving
    <3>2. AskedBy(c)'
      BY <2>a, <3>1, StillAsked
    <3> QED
      BY <2>a, <2>b, <3>1, <3>2
  <2>4. CASE SetLevel(c)
    <3>1. /\ asked' = asked /\ handler[c] = "setLevel" /\ handler'[c] = "open"
          /\ \A d \in Clients \ {c} : /\ handler'[d] = handler[d] /\ place'[d] = place[d]
                                      /\ arg'[d] = arg[d]
      BY <2>4, <2>a DEF SetLevel
    <3>2. place'[c] = arg[c]
      <4>1. place'[c] = [level |-> arg[c].level, l |-> place[c].l, r |-> place[c].r]
        BY <2>4 DEF SetLevel, NewLevel, RegInv, ShapeInv, Shape
      <4>2. place[c].l = arg[c].l /\ place[c].r = arg[c].r
        BY <3>1 DEF RegInv, ClientInv
      <4>3. arg[c] = [level |-> arg[c].level, l |-> arg[c].l, r |-> arg[c].r]
        BY DEF RegInv, ShapeInv, Shape
      <4> QED
        BY <4>1, <4>2, <4>3
    <3>3. Serves(place'[c], asked'[c][1], asked'[c][2])
      BY <2>a, <3>1, <3>2 DEF AskedBy, ServesAsked, Moving
    <3>4. AskedBy(c)'
      BY <3>1, <3>3 DEF AskedBy, ServesAsked, Serves, Moving
    <3> QED
      BY <2>a, <2>b, <3>1, <3>4
  <2> QED
    BY <1>1, <2>1, <2>2, <2>3, <2>4 DEF Handler, Continue
<1>2. CASE FftThread \/ (\E th \in IoThreads : IoThread(th)) \/ UNCHANGED vars
  <2>1. UNCHANGED <<handler, arg, place, asked>>
    BY <1>2 DEF FftThread, BeginLoop, LockLevel, UnlockLevel, Visit, IoThread, StartTask,
                FinishTask, vars, clientVars
  <2> QED
    BY <2>1, StillAsked DEF AskInv
<1> QED
  BY <1>1, <1>2 DEF Next

\* SliceIsAsked of WaterfallSlices, for every size of spectrum and any messages: what
\* is cut for a client is the window it asked for last, in order, each end within half
\* a pixel, and it reaches past its level only if the window asked for does, which the
\* code does not refuse.
THEOREM SlicesAreAsked == Spec => []SliceIsAsked
<1>1. Init => AskInv
  BY InitAsk
<1>2. RegInv /\ AskInv /\ [Next]_vars => AskInv'
  BY StepAsk
<1>3. RegInv /\ Tasks /\ AskInv => SliceIsAsked
  <2> SUFFICES ASSUME RegInv, Tasks, AskInv, NEW n \in waterfall_slices,
                      handler[n.client] # "extract"
               PROVE  ServesAsked(n.client, n.at)
    BY DEF SliceIsAsked, ServesAsked
  <2> DEFINE c == n.client
  <2>1. c \in Clients /\ n \in NodesOf(c)
    BY DEF Tasks, NodesOf
  <2>2. ClientInv(c) /\ AskedBy(c) /\ handler[c] \in Settled \cup Moving
    BY <2>1 DEF RegInv, ShapeInv, AskInv
  <2> HIDE DEF c
  <2>3. CASE handler[c] = "open"
    <3>1. n = [client |-> c, at |-> place[c]]
      BY <2>1, <2>2, <2>3 DEF ClientInv
    <3>2. n.at = place[c]
      BY <3>1
    <3> QED
      BY <2>2, <2>3, <3>2 DEF AskedBy, c
  <2>4. CASE handler[c] \in {"setL", "setR", "setLevel"}
    <3>1. n = [client |-> c, at |-> arg[c]]
      BY <2>1, <2>2, <2>4 DEF ClientInv
    <3>2. n.at = arg[c]
      BY <3>1
    <3> QED
      BY <2>2, <2>4, <3>2 DEF AskedBy, Moving, c
  <2>5. handler[c] \in {"open", "setL", "setR", "setLevel"}
    BY <2>1, <2>2 DEF ClientInv, Settled, Moving, c
  <2> QED
    BY <2>3, <2>4, <2>5
<1>4. ServeInv => Tasks
  BY DEF ServeInv
<1> QED
  BY <1>1, <1>2, <1>3, <1>4, ServingInductive, PTL DEF Spec
=============================================================================
