---------------------------- MODULE AudioProofs ----------------------------
(***************************************************************************)
(* Proofs about AudioSlices and EventsFeed: the registry and the windows   *)
(* agree, what is copied from a slice fits its IFFT whatever a thread has  *)
(* read, a task nobody has disturbed uses the window it was given, clients *)
(* have one task each, and no change of a window is lost on its way to a   *)
(* listener; for any numbers of clients, listeners and threads, any        *)
(* spectrum, any default window and any messages.                          *)
(***************************************************************************)
EXTENDS EventsFeed, TLAPS

States == {"new", "setMid", "setL", "setR", "extract", "insert", "announce",
           "open", "closing", "closed"}

\* The keys of the map: in the spectrum, both ends included, and no wider than an
\* IFFT but for the default window's.
InRange(k) ==
    /\ k \in Key /\ k.l >= 0 /\ k.l <= k.r /\ k.r <= FftResultSize
    /\ k.r - k.l <= AudioFftSize \/ k = KeyOf(DefaultWindow)

Types ==
    /\ handler \in [Clients -> States]
    /\ arg \in [Clients -> Message] /\ \A c \in Clients : InRange(KeyOf(arg[c]))
    /\ window \in [Clients -> Message]
    /\ disturbed \in [Clients -> BOOLEAN]
    /\ executing = [th \in IoThreads |-> executing[th]]
    /\ signal_slices \cup Outstanding \subseteq Node
    /\ \A n \in signal_slices \cup Outstanding : InRange(n.key)
    /\ \A e \in Running : \A x \in DOMAIN e.read : e.read[x] \in Int

\* Which members a client's handler has stored already, and which nodes the
\* client has, by the point the handler has reached.
ClientInv(c) ==
    /\ handler[c] \in {"setR", "extract", "insert"} => window[c].l = arg[c].l
    /\ handler[c] \in {"extract", "insert"} => window[c].r = arg[c].r
    /\ handler[c] \in {"new", "insert", "closing", "closed"} => NodesOf(c) = {}
    /\ handler[c] \in {"setMid", "setL", "setR", "extract"} => \E n : NodesOf(c) = {n}
    /\ handler[c] \in {"announce", "open"} =>
         NodesOf(c) = {[client |-> c, key |-> KeyOf(window[c])]}
Registry == \A c \in Clients : ClientInv(c)

\* While the loop runs nobody changes the registry, and who is still to be visited
\* has no task.
Loop ==
    /\ todo \subseteq signal_slices
    /\ todo # {} => signal_slice_mtx = Fft
    /\ \A n \in todo, k \in Outstanding : n.client # k.client

\* A task whose client no handler has touched since it was posted has the window
\* the client has, and so has what was read for it.
Calm == {"open", "setMid", "closing", "closed"}
Waiting ==
    \A n \in Outstanding : ~disturbed[n.client] =>
        /\ handler[n.client] \in Calm
        /\ window[n.client].l = n.key.l /\ window[n.client].r = n.key.r
ReadRight ==
    \A e \in Running : ~disturbed[e.task.client] =>
        \A x \in DOMAIN e.read : e.read[x] = Member(window[e.task.client], x)

AudioInv ==
    Types /\ Registry /\ Loop /\ Waiting /\ ReadRight /\ OneTaskPerClient
-----------------------------------------------------------------------------
\* Taking a client's nodes out leaves it none, and the others theirs.
LEMMA WithoutNodes ==
    ASSUME NEW c, signal_slices' = Without(c)
    PROVE  NodesOf(c)' = {} /\ \A d : d # c => NodesOf(d)' = NodesOf(d)
  BY DEF Without, NodesOf

\* Putting one node in for a client that has none gives it that one.
LEMMA AddedNode ==
    ASSUME NEW c, NEW k, NodesOf(c) = {},
           signal_slices' = signal_slices \cup {[client |-> c, key |-> k]}
    PROVE  /\ NodesOf(c)' = {[client |-> c, key |-> k]}
           /\ \A d : d # c => NodesOf(d)' = NodesOf(d)
  BY DEF NodesOf

\* Nobody has two nodes.
LEMMA OneNode ==
    ASSUME Types, Registry, NEW n \in signal_slices, NEW k \in signal_slices,
           n.client = k.client
    PROVE  n = k
  <1>1. PICK c \in Clients : c = n.client
    BY DEF Types, Node
  <1>2. n \in NodesOf(c) /\ k \in NodesOf(c)
    BY <1>1 DEF NodesOf
  <1>3. handler[c] \in States /\ ClientInv(c)
    BY <1>1 DEF Types, Registry
  <1> QED
    BY <1>2, <1>3 DEF States, ClientInv

\* A valid window has a key in the spectrum, and so have the default window and a
\* new client.
LEMMA ValidKeys ==
    /\ \A w \in Message : Valid(w) => InRange(KeyOf(w))
    /\ InRange(KeyOf(DefaultWindow))
    /\ InRange([l |-> 0, r |-> 0])
  BY SizesAssumption, DefaultAssumption DEF Valid, KeyOf, InRange, Key, Message

LEMMA InitAudio == Init => AudioInv
  <1> SUFFICES ASSUME Init PROVE AudioInv
    OBVIOUS
  <1>1. Outstanding = {} /\ Running = {} /\ signal_slices = {} /\ todo = {} /\ queue = {}
    BY DEF Init, Outstanding, Running
  <1>2. Types
    <2>1. window \in [Clients -> Message]
      BY WindowsAssumption DEF Init
    <2> QED
      BY <1>1, <2>1, DefaultAssumption, ValidKeys DEF Init, Types, States
  <1>3. Registry
    BY DEF Init, Registry, ClientInv, NodesOf
  <1> QED
    BY <1>1, <1>2, <1>3 DEF AudioInv, Loop, Waiting, ReadRight, OneTaskPerClient
-----------------------------------------------------------------------------
\* What every handler has to show: its own client's part of the registry, that it
\* leaves the others' nodes alone, and that it is not at work when the loop is.
LEMMA HandlerFrame ==
    ASSUME AudioInv, NEW c \in Clients,
           UNCHANGED <<todo, queue, executing>>,
           handler' \in [Clients -> States], window' \in [Clients -> Message],
           arg' \in [Clients -> Message], InRange(KeyOf(arg'[c])),
           \A d \in Clients \ {c} : /\ handler'[d] = handler[d] /\ arg'[d] = arg[d]
                                    /\ window'[d] = window[d] /\ NodesOf(d)' = NodesOf(d),
           ClientInv(c)',
           \A n \in signal_slices' \ signal_slices : n \in Node /\ InRange(n.key),
           todo # {} => signal_slices' = signal_slices /\ signal_slice_mtx' = signal_slice_mtx,
           \/ /\ disturbed' = disturbed /\ window'[c] = window[c]
              /\ handler[c] \in Calm => handler'[c] \in Calm
           \/ disturbed' = disturbed /\ handler[c] \notin Calm
           \/ disturbed' = [disturbed EXCEPT ![c] = TRUE]
    PROVE  AudioInv'
  <1> USE DEF AudioInv
  <1>1. Outstanding' = Outstanding /\ Running' = Running
    BY DEF Outstanding, Running
  <1>2. Types'
    <2>1. \A d \in Clients : InRange(KeyOf(arg'[d]))
      BY DEF Types
    <2>2. disturbed' \in [Clients -> BOOLEAN]
      BY DEF Types
    <2>3. /\ signal_slices' \cup Outstanding' \subseteq Node
          /\ \A n \in signal_slices' \cup Outstanding' : InRange(n.key)
      BY <1>1 DEF Types
    <2>4. executing' = [th \in IoThreads |-> executing'[th]]
      BY DEF Types
    <2>5. \A e \in Running' : \A x \in DOMAIN e.read : e.read[x] \in Int
      BY <1>1 DEF Types
    <2>6. \A k : InRange(k)' = InRange(k)
      BY DEF InRange
    <2> QED
      BY <2>1, <2>2, <2>3, <2>4, <2>5, <2>6 DEF Types, KeyOf
  <1>3. Registry'
    <2>1. ASSUME NEW d \in Clients \ {c} PROVE ClientInv(d)'
      BY <2>1, ZenonT(60) DEF Registry, ClientInv
    <2> QED
      BY <2>1 DEF Registry
  <1>4. Loop'
    BY <1>1 DEF Loop
  <1>5. \A d \in Clients : ~disturbed'[d] => ~disturbed[d]
    BY DEF Types
  <1>6. ASSUME NEW n \in Outstanding, ~disturbed'[n.client]
        PROVE  /\ handler'[n.client] \in Calm
               /\ window'[n.client] = window[n.client]
               /\ window[n.client].l = n.key.l /\ window[n.client].r = n.key.r
    <2>1. n.client \in Clients
      BY DEF Types, Node
    <2>2. /\ handler[n.client] \in Calm
          /\ window[n.client].l = n.key.l /\ window[n.client].r = n.key.r
      BY <1>5, <1>6, <2>1 DEF Waiting
    <2>3. CASE n.client = c
      BY <1>6, <2>1, <2>2, <2>3 DEF Types
    <2>4. CASE n.client # c
      BY <2>1, <2>2, <2>4
    <2> QED
      BY <2>3, <2>4
  <1>7. Waiting'
    BY <1>1, <1>6 DEF Waiting
  <1>8. ReadRight'
    <2> SUFFICES ASSUME NEW e \in Running, ~disturbed'[e.task.client], NEW x \in DOMAIN e.read
                 PROVE  e.read[x] = Member(window'[e.task.client], x)
      BY <1>1 DEF ReadRight, Member
    <2>1. e.task \in Outstanding /\ e.task.client \in Clients
      BY DEF Outstanding, Types, Node
    <2>2. window'[e.task.client] = window[e.task.client]
      BY <1>6, <2>1
    <2> QED
      BY <1>5, <2>1, <2>2 DEF ReadRight
  <1>9. OneTaskPerClient'
    BY <1>1 DEF OneTaskPerClient
  <1> QED
    BY <1>2, <1>3, <1>4, <1>7, <1>8, <1>9

LEMMA HandlerKeeps ==
    ASSUME AudioInv, NEW c \in Clients, Handler(c) PROVE AudioInv'
  <1>a. /\ handler \in [Clients -> States] /\ window \in [Clients -> Message]
        /\ arg \in [Clients -> Message] /\ \A d \in Clients : InRange(KeyOf(arg[d]))
        /\ ClientInv(c) /\ DefaultWindow \in Message
        /\ todo # {} => signal_slice_mtx = Fft
    BY DefaultAssumption DEF AudioInv, Types, Registry, Loop
  <1>b. c # Fft /\ None # Fft
    BY FftAssumption
  <1>1. CASE Open(c)
    <2> DEFINE k == [l |-> 0, r |-> 0]
    <2>1. NodesOf(c) = {} /\ handler'[c] = "setMid"
      BY <1>1, <1>a DEF Open, Goto, ClientInv
    <2>2. signal_slices' = signal_slices \cup {[client |-> c, key |-> k]}
      BY <1>1 DEF Open
    <2>3. NodesOf(c)' = {[client |-> c, key |-> k]} /\ \A d : d # c => NodesOf(d)' = NodesOf(d)
      BY <2>1, <2>2, AddedNode
    <2>4. ClientInv(c)'
      BY <2>1, <2>3 DEF ClientInv
    <2>5. \A n \in signal_slices' \ signal_slices : n \in Node /\ InRange(n.key)
      BY <2>2, ValidKeys DEF Node, InRange
    <2> QED
      BY <1>1, <1>a, <1>b, <2>3, <2>4, <2>5, HandlerFrame DEF Open, Goto, States, fftVars, Calm
  <1>2. ASSUME NEW w \in Messages, OnWindowMessage(c, w) PROVE AudioInv'
    <2>1. w \in Message /\ InRange(KeyOf(w))
      BY <1>2, WindowsAssumption, ValidKeys DEF OnWindowMessage
    <2>2. \A d : NodesOf(d)' = NodesOf(d)
      BY <1>2 DEF OnWindowMessage, registryVars, NodesOf
    <2>3. handler[c] = "open" /\ handler'[c] = "setMid"
      BY <1>2, <1>a DEF OnWindowMessage, Goto
    <2>4. ClientInv(c)'
      BY <1>a, <2>2, <2>3 DEF ClientInv
    <2> QED
      BY <1>2, <1>a, <2>1, <2>2, <2>3, <2>4, HandlerFrame
         DEF OnWindowMessage, Goto, States, fftVars, registryVars, Calm
  <1>3. CASE SetMid(c)
    <2>1. \A d : NodesOf(d)' = NodesOf(d)
      BY <1>3 DEF SetMid, registryVars, NodesOf
    <2>2. handler[c] = "setMid" /\ handler'[c] = "setL"
      BY <1>3, <1>a DEF SetMid, Goto
    <2>3. ClientInv(c)'
      BY <1>a, <2>1, <2>2 DEF ClientInv
    <2>4. window' \in [Clients -> Message]
      BY <1>3, <1>a DEF SetMid, Message
    <2> QED
      BY <1>3, <1>a, <2>1, <2>2, <2>3, <2>4, HandlerFrame DEF SetMid, Goto, States, registryVars, Calm
  <1>4. CASE SetL(c)
    <2>1. \A d : NodesOf(d)' = NodesOf(d)
      BY <1>4 DEF SetL, registryVars, NodesOf
    <2>2. handler[c] = "setL" /\ handler'[c] = "setR"
      BY <1>4, <1>a DEF SetL, Goto
    <2>3. window' \in [Clients -> Message] /\ window'[c].l = arg[c].l
      BY <1>4, <1>a DEF SetL, Message
    <2>4. ClientInv(c)'
      BY <1>4, <1>a, <2>1, <2>2, <2>3 DEF ClientInv, SetL
    <2> QED
      BY <1>4, <1>a, <2>1, <2>2, <2>3, <2>4, HandlerFrame
         DEF SetL, Goto, States, fftVars, registryVars, Calm
  <1>5. CASE SetR(c)
    <2>1. \A d : NodesOf(d)' = NodesOf(d)
      BY <1>5 DEF SetR, registryVars, NodesOf
    <2>2. handler[c] = "setR" /\ handler'[c] = "extract"
      BY <1>5, <1>a DEF SetR, Goto
    <2>3. window' \in [Clients -> Message] /\ window'[c].l = window[c].l /\ window'[c].r = arg[c].r
      BY <1>5, <1>a DEF SetR, Message
    <2>4. ClientInv(c)'
      BY <1>5, <1>a, <2>1, <2>2, <2>3 DEF ClientInv, SetR
    <2> QED
      BY <1>5, <1>a, <2>1, <2>2, <2>3, <2>4, HandlerFrame
         DEF SetR, Goto, States, fftVars, registryVars, Calm
  <1>6. CASE Extract(c)
    <2>1. NodesOf(c)' = {} /\ \A d : d # c => NodesOf(d)' = NodesOf(d)
      BY <1>6, WithoutNodes DEF Extract
    <2>2. handler[c] = "extract" /\ handler'[c] = "insert"
      BY <1>6, <1>a DEF Extract, Goto
    <2>3. ClientInv(c)'
      BY <1>6, <1>a, <2>1, <2>2 DEF ClientInv, Extract
    <2>4. signal_slices' \subseteq signal_slices
      BY <1>6 DEF Extract, Without
    <2>5. todo = {}
      BY <1>6, <1>a, <1>b DEF Extract, Lock
    <2> QED
      BY <1>6, <1>a, <2>1, <2>2, <2>3, <2>4, <2>5, HandlerFrame DEF Extract, Goto, States, fftVars, Calm
  <1>7. CASE Insert(c)
    <2>1. handler[c] = "insert" /\ handler'[c] = "announce" /\ NodesOf(c) = {}
      BY <1>7, <1>a DEF Insert, Goto, ClientInv
    <2>2. signal_slices' = signal_slices \cup {[client |-> c, key |-> KeyOf(arg[c])]}
      BY <1>7 DEF Insert, NewKey
    <2>3. /\ NodesOf(c)' = {[client |-> c, key |-> KeyOf(arg[c])]}
          /\ \A d : d # c => NodesOf(d)' = NodesOf(d)
      BY <2>1, <2>2, AddedNode
    <2>4. KeyOf(window'[c]) = KeyOf(arg[c])
      BY <1>7, <1>a, <2>1 DEF Insert, ClientInv, KeyOf
    <2>5. ClientInv(c)'
      BY <2>1, <2>3, <2>4 DEF ClientInv
    <2>6. \A n \in signal_slices' \ signal_slices : n \in Node /\ InRange(n.key)
      BY <1>a, <2>2, ValidKeys DEF Node, InRange
    <2>7. todo = {}
      BY <1>7, <1>a, <1>b DEF Insert, Unlock
    <2> QED
      BY <1>7, <1>a, <2>1, <2>3, <2>5, <2>6, <2>7, HandlerFrame DEF Insert, Goto, States, fftVars, Calm
  <1>8. CASE Announce(c)
    <2>1. \A d : NodesOf(d)' = NodesOf(d)
      BY <1>8 DEF Announce, registryVars, NodesOf
    <2>2. handler[c] = "announce" /\ handler'[c] = "open"
      BY <1>8, <1>a DEF Announce, Goto
    <2>3. ClientInv(c)'
      BY <1>8, <1>a, <2>1, <2>2 DEF ClientInv, Announce
    <2> QED
      BY <1>8, <1>a, <2>1, <2>2, <2>3, ValidKeys, HandlerFrame
         DEF Announce, Goto, States, fftVars, registryVars, Calm
  <1>9. CASE AnnounceGone(c)
    <2>1. \A d : NodesOf(d)' = NodesOf(d)
      BY <1>9 DEF AnnounceGone, registryVars, NodesOf
    <2>2. handler[c] = "closing" /\ handler'[c] = "closed"
      BY <1>9, <1>a DEF AnnounceGone, Goto
    <2>3. ClientInv(c)'
      BY <1>9, <1>a, <2>1, <2>2 DEF ClientInv, AnnounceGone
    <2> QED
      BY <1>9, <1>a, <2>1, <2>2, <2>3, HandlerFrame
         DEF AnnounceGone, Goto, States, fftVars, registryVars, Calm
  <1>10. CASE OnClose(c)
    <2>1. NodesOf(c)' = {} /\ \A d : d # c => NodesOf(d)' = NodesOf(d)
      BY <1>10, WithoutNodes DEF OnClose
    <2>2. handler[c] = "open" /\ handler'[c] = "closing"
      BY <1>10, <1>a DEF OnClose, Goto
    <2>3. ClientInv(c)'
      BY <2>1, <2>2 DEF ClientInv
    <2>4. signal_slices' \subseteq signal_slices
      BY <1>10 DEF OnClose, Without
    <2>5. todo = {}
      BY <1>10, <1>a, <1>b DEF OnClose
    <2> QED
      BY <1>10, <1>a, <2>1, <2>2, <2>3, <2>4, <2>5, HandlerFrame DEF OnClose, Goto, States, fftVars, Calm
  <1> QED
    BY <1>1, <1>2, <1>3, <1>4, <1>5, <1>6, <1>7, <1>8, <1>9, <1>10 DEF Handler, Continue
-----------------------------------------------------------------------------
\* The loop visits each node once, and posts the client's only task.
LEMMA LoopKeeps ==
    ASSUME AudioInv, FftThread PROVE AudioInv'
  <1> USE DEF AudioInv, clientVars, registryVars, fftVars
  <1>1. CASE SignalLoop
    <2>1. Outstanding = {} /\ Outstanding' = Outstanding /\ Running' = Running
      BY <1>1 DEF SignalLoop, TasksDone, Outstanding, Running
    <2>2. Types' /\ Registry' /\ Waiting' /\ ReadRight' /\ OneTaskPerClient'
      BY <1>1, <2>1 DEF SignalLoop, Types, InRange, Registry, ClientInv, NodesOf, Waiting,
                        ReadRight, OneTaskPerClient
    <2>3. Loop'
      BY <1>1, <2>1 DEF SignalLoop, Loop, Lock
    <2> QED
      BY <2>2, <2>3
  <1>2. CASE SignalLoopDone
    <2>1. Outstanding' = Outstanding /\ Running' = Running
      BY <1>2 DEF SignalLoopDone, Outstanding, Running
    <2>2. Types' /\ Registry' /\ Waiting' /\ ReadRight' /\ OneTaskPerClient'
      BY <1>2, <2>1 DEF SignalLoopDone, Types, InRange, Registry, ClientInv, NodesOf, Waiting,
                        ReadRight, OneTaskPerClient
    <2>3. Loop'
      BY <1>2, <2>1 DEF SignalLoopDone, Loop
    <2> QED
      BY <2>2, <2>3
  <1>3. ASSUME NEW n \in todo, Visit(n) PROVE AudioInv'
    <2>1. /\ Running' = Running
          /\ Outstanding' \in {Outstanding, Outstanding \cup {n}}
          /\ todo' = todo \ {n} /\ UNCHANGED <<handler, arg, window, executing>>
          /\ UNCHANGED <<signal_slices, signal_slice_mtx>>
      BY <1>3 DEF Visit, Outstanding, Running
    <2>2. n \in signal_slices /\ n \in Node /\ n.client \in Clients
      BY DEF Loop, Types, Node
    <2>3. \A k \in Outstanding : k.client # n.client
      BY DEF Loop
    <2>4. \A d \in Clients \ {n.client} : disturbed'[d] = disturbed[d]
      BY <1>3, <2>2 DEF Visit, Types
    <2>5. Types'
      <3>1. disturbed' \in [Clients -> BOOLEAN]
        BY <1>3 DEF Visit, Types
      <3> QED
        BY <2>1, <2>2, <3>1 DEF Types, InRange
    <2>6. Registry'
      BY <2>1 DEF Registry, ClientInv, NodesOf
    <2>7. Loop'
      <3>1. \A k \in todo' : k.client # n.client
        BY <2>1, <2>2, OneNode DEF Loop
      <3> QED
        BY <2>1, <3>1 DEF Loop
    <2>8. Waiting'
      <3>1. SUFFICES ASSUME NEW k \in Outstanding', ~disturbed'[k.client]
                     PROVE  /\ handler[k.client] \in Calm
                            /\ window[k.client].l = k.key.l /\ window[k.client].r = k.key.r
        BY <2>1 DEF Waiting
      <3>2. CASE k \in Outstanding
        <4>1. k.client \in Clients \ {n.client}
          BY <2>3, <3>2 DEF Types, Node
        <4> QED
          BY <2>4, <3>1, <3>2, <4>1 DEF Waiting
      <3>3. CASE k \notin Outstanding
        <4>1. k = n /\ disturbed' = [disturbed EXCEPT ![n.client] =
                                       handler[n.client] \notin {"open", "closing", "closed"}]
          BY <1>3, <2>1, <3>3 DEF Visit, Outstanding
        <4>2. handler[n.client] \in {"open", "closing", "closed"}
          BY <2>2, <3>1, <4>1 DEF Types
        <4>3. n \in NodesOf(n.client) /\ ClientInv(n.client)
          BY <2>2 DEF NodesOf, Registry
        <4>4. handler[n.client] = "open"
          BY <4>2, <4>3 DEF ClientInv
        <4>5. n = [client |-> n.client, key |-> KeyOf(window[n.client])]
          BY <4>3, <4>4 DEF ClientInv
        <4>6. n.key = KeyOf(window[n.client])
          BY <4>5
        <4> QED
          BY <4>1, <4>4, <4>6 DEF KeyOf, Calm
      <3> QED
        BY <3>2, <3>3
    <2>9. ReadRight'
      <3>1. \A e \in Running : e.task.client \in Clients \ {n.client}
        BY <2>3 DEF Outstanding, Types, Node
      <3> QED
        BY <2>1, <2>4, <3>1 DEF ReadRight, Member
    <2>10. OneTaskPerClient'
      BY <2>1, <2>3 DEF OneTaskPerClient
    <2> QED
      BY <2>5, <2>6, <2>7, <2>8, <2>9, <2>10
  <1> QED
    BY <1>1, <1>2, <1>3 DEF FftThread

\* What is running, with one thread's part x put in the place of what it had.
LEMMA PutInPlace ==
    ASSUME Types, NEW th \in IoThreads, NEW X,
           executing' = [executing EXCEPT ![th] = X]
    PROVE  /\ Running' \subseteq Running \cup X
           /\ executing' = [x \in IoThreads |-> executing'[x]]
  BY DEF Types, Running

\* What an I/O thread has to show: its task is one that was outstanding, what it has
\* read is what it had read or the client's present window, and the rest stays.
LEMMA TaskFrame ==
    ASSUME AudioInv, UNCHANGED <<clientVars, registryVars, todo, disturbed>>,
           Outstanding' \subseteq Outstanding,
           executing' = [x \in IoThreads |-> executing'[x]],
           \A e \in Running' \ Running : \A x \in DOMAIN e.read :
              /\ e.read[x] \in Int
              /\ ~disturbed[e.task.client] => e.read[x] = Member(window[e.task.client], x)
    PROVE  AudioInv'
  <1> USE DEF AudioInv, clientVars, registryVars
  <1>1. Types'
    BY DEF Types, InRange
  <1>2. Registry' /\ Loop' /\ Waiting'
    BY DEF Registry, ClientInv, NodesOf, Loop, Waiting
  <1>3. ReadRight' /\ OneTaskPerClient'
    BY DEF ReadRight, Member, OneTaskPerClient
  <1> QED
    BY <1>1, <1>2, <1>3

LEMMA TasksKeep ==
    ASSUME AudioInv, NEW th \in IoThreads, IoThread(th) PROVE AudioInv'
  <1>t. Types
    BY DEF AudioInv
  <1>1. ASSUME NEW n \in queue, StartTask(th, n) PROVE AudioInv'
    <2> DEFINE e == [task |-> n, read |-> [x \in {} |-> 0]]
    <2>1. Running' \subseteq Running \cup {e} /\ executing' = [x \in IoThreads |-> executing'[x]]
      BY <1>1, <1>t, PutInPlace DEF StartTask
    <2>2. e.task = n /\ DOMAIN e.read = {}
      OBVIOUS
    <2> HIDE DEF e
    <2>3. Outstanding' \subseteq Outstanding
      BY <1>1, <2>1, <2>2 DEF StartTask, Outstanding
    <2> QED
      BY <1>1, <2>1, <2>2, <2>3, TaskFrame DEF StartTask
  <1>2. ASSUME NEW e \in executing[th], FinishTask(th, e) PROVE AudioInv'
    <2>1. Running' \subseteq Running /\ executing' = [x \in IoThreads |-> executing'[x]]
      BY <1>2, <1>t, PutInPlace DEF FinishTask
    <2>2. Outstanding' \subseteq Outstanding
      BY <1>2, <2>1 DEF FinishTask, Outstanding
    <2> QED
      BY <1>2, <2>1, <2>2, TaskFrame DEF FinishTask
  <1>3. ASSUME NEW e \in executing[th], NEW x \in Reads, ReadMember(th, e, x) PROVE AudioInv'
    <2> DEFINE w == window[e.task.client]
               f == WithValue(e.read, x, w)
               d == [task |-> e.task, read |-> f]
    <2>1. Running' \subseteq Running \cup {d} /\ executing' = [y \in IoThreads |-> executing'[y]]
      BY <1>3, <1>t, PutInPlace DEF ReadMember
    <2>2. d.task = e.task /\ d.read = f
      OBVIOUS
    <2>3. e \in Running /\ e.task \in Outstanding
      BY DEF Running, Outstanding
    <2>4. w \in Message
      BY <1>t, <2>3 DEF Types, Node
    <2>5. ASSUME NEW y \in DOMAIN f
          PROVE  /\ f[y] \in Int
                 /\ ~disturbed[e.task.client] => f[y] = Member(w, y)
      <3>1. Member(w, x) \in Int
        BY <2>4 DEF Member, Message
      <3>2. \A z \in DOMAIN e.read : e.read[z] \in Int
        BY <1>t, <2>3 DEF Types
      <3>3. ~disturbed[e.task.client] => \A z \in DOMAIN e.read : e.read[z] = Member(w, z)
        BY <2>3 DEF AudioInv, ReadRight
      <3>4. /\ y = x \/ y \in DOMAIN e.read
            /\ f[y] = IF y = x THEN Member(w, x) ELSE e.read[y]
        BY <2>5 DEF WithValue
      <3> QED
        BY <3>1, <3>2, <3>3, <3>4
    <2> HIDE DEF d, f
    <2>6. Outstanding' \subseteq Outstanding
      BY <1>3, <2>1, <2>2, <2>3 DEF ReadMember, Outstanding
    <2> QED
      BY <1>3, <2>1, <2>2, <2>5, <2>6, TaskFrame DEF ReadMember
  <1> QED
    BY <1>1, <1>2, <1>3 DEF IoThread

\* Nothing it says depends on what is announced.
LEMMA AudioUnread ==
    ASSUME AudioInv, UNCHANGED <<clientVars, registryVars, fftVars>> PROVE AudioInv'
  <1>1. Outstanding' = Outstanding /\ Running' = Running
    BY DEF fftVars, Outstanding, Running
  <1> QED
    BY <1>1, TaskFrame DEF fftVars, AudioInv, Types

\* The invariant is inductive and holds in every reachable state.
THEOREM AudioInductive == Spec => []AudioInv
  <1>1. AudioInv /\ [Next]_vars => AudioInv'
    BY HandlerKeeps, LoopKeeps, TasksKeep, AudioUnread DEF Next, vars
  <1> QED
    BY <1>1, InitAudio, PTL DEF Spec

\* Every client has one node, under the key its members name, whenever no handler
\* is changing them.
LEMMA AudioInvConsistent == AudioInv => RegistryConsistent
  <1> SUFFICES ASSUME AudioInv, NEW c \in Clients
               PROVE  /\ {n.key : n \in NodesOf(c)} = NodeKeys(c)
                      /\ \A n, k \in NodesOf(c) : n = k
                      /\ handler[c] \in {"setMid", "setL", "setR", "extract"} => NodesOf(c) # {}
    BY DEF RegistryConsistent
  <1>1. ClientInv(c) /\ handler[c] \in States
    BY DEF AudioInv, Types, Registry
  <1>2. CASE handler[c] \in {"new", "insert", "closing", "closed"}
    BY <1>1, <1>2 DEF ClientInv, NodeKeys
  <1>3. CASE handler[c] \in {"setMid", "setL", "setR", "extract"}
    BY <1>1, <1>3 DEF ClientInv, NodeKeys
  <1>4. CASE handler[c] \in {"announce", "open"}
    <2>1. NodesOf(c) = {[client |-> c, key |-> KeyOf(window[c])]}
      BY <1>1, <1>4 DEF ClientInv
    <2>2. {n.key : n \in NodesOf(c)} = {KeyOf(window[c])}
      BY <2>1
    <2>3. NodeKeys(c) = {KeyOf(window[c])}
      BY <1>4 DEF NodeKeys, KeyOf
    <2> QED
      BY <2>1, <2>2, <2>3, <1>4
  <1> QED
    BY <1>1, <1>2, <1>3, <1>4 DEF States

\* RegistryConsistent of AudioSlices: the iterator a handler hands to extract or
\* erase is the client's one node, under the window it has set last.
THEOREM AudioRegistryConsistent == Spec => []RegistryConsistent
  BY AudioInductive, AudioInvConsistent, PTL

\* The clamps of signal.cpp:124-198 keep every copy inside the IFFT's input, for any
\* length and any centre.
LEMMA CopiesAlwaysFit ==
    ASSUME NEW f, f["r"] \in Int, f["l"] \in Int, f["mid"] \in Int, f["midL"] \in Int
    PROVE  CopiesFit(f)
  <1> DEFINE n == Length(f)
             m == Centre(f)
             N == AudioFftSize
             h == Half
  <1>1. n \in Int /\ m \in Int /\ N \in Nat
    BY SizesAssumption DEF Length, Centre
  <1>2. h \in Nat /\ 2 * h <= N
    BY <1>1 DEF Half
  <1>3. /\ CopyL("USB", f) = Larger(0, m) /\ CopyL("positive", f) = Larger(0, m)
        /\ CopyL("LSB", f) = Larger(0, m - N + 1) /\ CopyL("negative", f) = Larger(0, m - h + 1)
    BY DEF CopyL
  <1>4. /\ CopyR("USB", f) = Smaller(n, m + N) /\ CopyR("positive", f) = Smaller(n, m + h)
        /\ CopyR("LSB", f) = Smaller(n, m + 1) /\ CopyR("negative", f) = Smaller(n, m)
    BY DEF CopyR
  <1>5. \A b : /\ InputBin("USB", f, b) = b - m /\ InputBin("positive", f, b) = b - m
               /\ InputBin("LSB", f, b) = m - b /\ InputBin("negative", f, b) = N - (m - b)
    BY DEF InputBin
  <1> HIDE DEF n, m, N, h
  <1>6. ASSUME NEW part \in Parts, NEW b \in CopyL(part, f)..(CopyR(part, f) - 1)
        PROVE  InputBin(part, f, b) \in 0..(AudioFftSize - 1)
    <2>1. CASE part = "USB"
      BY <1>1, <1>3, <1>4, <1>5, <1>6, <2>1 DEF Larger, Smaller, N
    <2>2. CASE part = "LSB"
      BY <1>1, <1>3, <1>4, <1>5, <1>6, <2>2 DEF Larger, Smaller, N
    <2>3. CASE part = "positive"
      BY <1>1, <1>2, <1>3, <1>4, <1>5, <1>6, <2>3 DEF Larger, Smaller, N
    <2>4. CASE part = "negative"
      BY <1>1, <1>2, <1>3, <1>4, <1>5, <1>6, <2>4 DEF Larger, Smaller, N
    <2> QED
      BY <2>1, <2>2, <2>3, <2>4 DEF Parts
  <1>7. ASSUME NEW b \in CopyL("positive", f)..(CopyR("positive", f) - 1),
               NEW d \in CopyL("negative", f)..(CopyR("negative", f) - 1)
        PROVE  InputBin("positive", f, b) # InputBin("negative", f, d)
    <2>1. b \in Int /\ b - m <= h - 1
      BY <1>1, <1>2, <1>3, <1>4, <1>7 DEF Larger, Smaller
    <2>2. d \in Int /\ N - (m - d) >= N - h + 1
      BY <1>1, <1>2, <1>3, <1>4, <1>7 DEF Larger, Smaller
    <2> QED
      BY <1>1, <1>2, <1>5, <2>1, <2>2
  <1> QED
    BY <1>6, <1>7 DEF CopiesFit

\* SlicesInRange: the copies stay in the IFFT's input whatever was read of l, r and
\* audio_mid, and an undisturbed client's slice lies in the spectrum.
THEOREM SlicesAlwaysInRange == Spec => []SlicesInRange
  <1>1. AudioInv => SlicesInRange
    <2> SUFFICES ASSUME AudioInv, NEW e \in Running,
                        {"r", "l", "mid", "midL"} \subseteq DOMAIN e.read
                 PROVE  /\ CopiesFit(e.read)
                        /\ ~disturbed[e.task.client] => SliceFits(e.task.key, e.read)
      BY DEF SlicesInRange
    <2>1. /\ e.read["r"] \in Int /\ e.read["l"] \in Int
          /\ e.read["mid"] \in Int /\ e.read["midL"] \in Int
      BY DEF AudioInv, Types
    <2>2. ASSUME ~disturbed[e.task.client] PROVE SliceFits(e.task.key, e.read)
      <3>1. e.task \in Outstanding /\ InRange(e.task.key)
        BY DEF AudioInv, Types, Outstanding
      <3>2. Length(e.read) = e.task.key.r - e.task.key.l
        BY <2>2, <3>1 DEF AudioInv, Waiting, ReadRight, Member, Length
      <3> QED
        BY <3>1, <3>2, SizesAssumption DEF InRange, SliceFits, Key
    <2> QED
      BY <2>1, <2>2, CopiesAlwaysFit
  <1> QED
    BY <1>1, AudioInductive, PTL

\* UndisturbedSlice: a task whose client no handler touches reads the window its
\* slice was cut for, and only that one.
THEOREM UndisturbedTasksFit == Spec => []UndisturbedSlice
  <1>1. AudioInv => UndisturbedSlice
    <2> SUFFICES ASSUME AudioInv, NEW e \in Running, ~disturbed[e.task.client],
                        NEW x \in DOMAIN e.read
                 PROVE  /\ x \in {"l", "midL"} => e.read[x] = e.task.key.l
                        /\ x = "r" => e.read[x] = e.task.key.r
                        /\ x \in {"idx", "label"} /\ "mid" \in DOMAIN e.read
                             => e.read[x] = e.read["mid"]
      BY DEF UndisturbedSlice
    <2>1. e.task \in Outstanding
      BY DEF Outstanding
    <2>2. \A y \in DOMAIN e.read : e.read[y] = Member(window[e.task.client], y)
      BY DEF AudioInv, ReadRight
    <2> QED
      BY <2>1, <2>2 DEF AudioInv, Waiting, Member
  <1> QED
    BY <1>1, AudioInductive, PTL

\* OneTaskPerClient: no two threads run send_audio of one client.
THEOREM OneTaskEach == Spec => []OneTaskPerClient
  <1>1. AudioInv => OneTaskPerClient
    BY DEF AudioInv
  <1> QED
    BY <1>1, AudioInductive, PTL
-----------------------------------------------------------------------------
(***************************************************************************)
(* The events feed.                                                        *)
(***************************************************************************)
ListenerTypes ==
    /\ listener \in [Listeners -> {"new", "subscribed", "snapshot", "open", "closed"}]
    /\ overtaken = [g \in Listeners |-> overtaken[g]]
    /\ view = [e \in Listeners |-> view[e]] /\ snapshot = [e \in Listeners |-> snapshot[e]]
    /\ toSend \subseteq Listeners /\ events_connections \subseteq Listeners

\* Whoever is to be sent a snapshot has subscribed before it was taken, so that
\* the ticks reach it.
Subscribed ==
    \A e \in Listeners :
        /\ listener[e] \in {"subscribed", "snapshot", "open"} => e \in events_connections
        /\ listener[e] = "new" => e \notin toSend \cup events_connections

\* What a listener will know of a client once it has been sent its snapshot, which
\* names the clients registered when it was taken.
Known(e, c) ==
    IF listener[e] = "snapshot" /\ c \in DOMAIN snapshot[e].changes
    THEN snapshot[e].changes[c] ELSE view[e][c]

\* It is right, or what is missing is on its way; before the snapshot is taken that
\* is so of the clients the snapshot is not going to name.
Informed(e, c) ==
    /\ listener[e] = "new" => view[e][c] = GoneWindow
    /\ listener[e] = "subscribed" /\ c \notin Registered =>
         Known(e, c) = GoneWindow \/ OnItsWay(e, c)
    /\ listener[e] \in {"snapshot", "open"} /\ c \notin overtaken[e] =>
         Known(e, c) = Actual(c) \/ OnItsWay(e, c)
Informing == ShowOtherUsers => \A e \in Listeners, c \in Clients : Informed(e, c)

\* What a handler announces is what it has stored.
Stored ==
    \A c \in Clients :
        /\ handler[c] \in {"setL", "setR", "extract", "insert"} => window[c].m = arg[c].m
        /\ handler[c] = "announce" => window[c] = arg[c]

\* The last word about a client at rest is right: the change announced, or, if
\* there is none, the one the timer is sending.
AtRest(c) == handler[c] \in {"new", "open", "closed"}
LastWord ==
    ShowOtherUsers =>
        \A c \in Clients : AtRest(c) =>
            /\ c \in DOMAIN signal_changes => signal_changes[c] = Actual(c)
            /\ c \notin DOMAIN signal_changes /\ toSend # {} /\ c \in DOMAIN batch.changes =>
                 batch.changes[c] = Actual(c)

FeedInv == /\ AudioInv /\ ListenerTypes /\ Subscribed /\ Stored /\ LastWord
           /\ Informing
-----------------------------------------------------------------------------
LEMMA InitFeed == EventsInit => FeedInv
  <1> SUFFICES ASSUME EventsInit PROVE FeedInv
    OBVIOUS
  <1>1. AudioInv
    BY InitAudio DEF EventsInit
  <1>2. ListenerTypes /\ Subscribed /\ Informing
    BY DEF EventsInit, ListenerTypes, Subscribed, Informing, Informed
  <1>3. Stored /\ LastWord
    BY DEF EventsInit, Init, Stored, LastWord
  <1> QED
    BY <1>1, <1>2, <1>3 DEF FeedInv

\* What an audio handler does to the feed: another client's part is untouched, and
\* its own is either at work still or has just been announced.
LEMMA HandlerAnnounces ==
    ASSUME FeedInv, NEW c \in Clients, Handler(c)
    PROVE  /\ Stored'
           /\ \A d \in Clients : d # c =>
                /\ handler'[d] = handler[d] /\ Actual(d)' = Actual(d)
                /\ d \in Registered' <=> d \in Registered
                /\ d \in DOMAIN signal_changes' <=> d \in DOMAIN signal_changes
                /\ d \in DOMAIN signal_changes => signal_changes'[d] = signal_changes[d]
           /\ DOMAIN signal_changes \subseteq DOMAIN signal_changes'
           /\ AtRest(c)' /\ ShowOtherUsers =>
                c \in DOMAIN signal_changes' /\ signal_changes'[c] = Actual(c)'
  <1>a. /\ handler \in [Clients -> States] /\ window \in [Clients -> Message]
        /\ arg \in [Clients -> Message] /\ ClientInv(c) /\ AudioInv'
    BY HandlerKeeps DEF FeedInv, AudioInv, Types, Registry
  <1>b. \A v, w \in Message : v.l = w.l /\ v.m = w.m /\ v.r = w.r => v = w
    BY DEF Message
  <1>1. CASE Announce(c)
    <2>1. handler[c] = "announce" /\ handler'[c] = "open" /\ window' = window
          /\ signal_slices' = signal_slices /\ signal_changes' = Announced(c, arg[c])
          /\ \A d \in Clients : d # c => handler'[d] = handler[d] /\ arg'[d] = arg[d]
      BY <1>1, <1>a DEF Announce, Goto, registryVars
    <2>2. Actual(c)' = arg[c]
      <3>1. NodesOf(c)' # {}
        BY <2>1, <1>a DEF ClientInv, NodesOf
      <3> QED
        BY <2>1, <3>1 DEF Actual, Registered, FeedInv, Stored
    <2>3. Stored'
      BY <2>1 DEF FeedInv, Stored
    <2> QED
      BY <2>1, <2>2, <2>3 DEF Announced, Actual, Registered, NodesOf
  <1>2. CASE AnnounceGone(c)
    <2>1. handler[c] = "closing" /\ handler'[c] = "closed" /\ window' = window /\ arg' = arg
          /\ signal_slices' = signal_slices /\ signal_changes' = Announced(c, GoneWindow)
          /\ \A d \in Clients : d # c => handler'[d] = handler[d]
      BY <1>2, <1>a DEF AnnounceGone, Goto, registryVars
    <2>2. Actual(c)' = GoneWindow
      BY <2>1, <1>a DEF ClientInv, Actual, Registered, NodesOf
    <2>3. Stored'
      BY <2>1 DEF FeedInv, Stored
    <2> QED
      BY <2>1, <2>2, <2>3 DEF Announced, Actual, Registered, NodesOf
  <1>3. CASE \/ Open(c) \/ SetMid(c) \/ SetL(c) \/ SetR(c) \/ Extract(c) \/ Insert(c)
             \/ OnClose(c) \/ \E w \in Messages : OnWindowMessage(c, w)
    <2>1. signal_changes' = signal_changes /\ ~AtRest(c)'
      BY <1>3, <1>a DEF Open, SetMid, SetL, SetR, Extract, Insert, OnClose, OnWindowMessage, Goto,
                        AtRest
    <2>2. ASSUME NEW d \in Clients, d # c
          PROVE  /\ handler'[d] = handler[d] /\ window'[d] = window[d] /\ arg'[d] = arg[d]
                 /\ NodesOf(d)' = NodesOf(d)
      <3>1. NodesOf(d)' = NodesOf(d)
        BY <1>3, <2>2 DEF Open, SetMid, SetL, SetR, Extract, Insert, OnClose, OnWindowMessage,
                          registryVars, NodesOf, Without
      <3> QED
        BY <1>3, <1>a, <2>2, <3>1 DEF Open, SetMid, SetL, SetR, Extract, Insert, OnClose,
                                      OnWindowMessage, Goto
    <2>3. /\ handler'[c] \in {"setL", "setR", "extract", "insert"} => window'[c].m = arg'[c].m
          /\ handler'[c] = "announce" => window'[c] = arg'[c]
      <3>1. CASE SetMid(c)
        BY <1>a, <3>1 DEF SetMid, Goto, Message
      <3>2. CASE SetL(c) \/ SetR(c)
        BY <1>a, <3>2 DEF SetL, SetR, Goto, FeedInv, Stored, Message
      <3>3. CASE Extract(c)
        BY <1>a, <3>3 DEF Extract, Goto, FeedInv, Stored
      <3>4. CASE Insert(c)
        BY <1>a, <1>b, <3>4 DEF Insert, Goto, FeedInv, Stored, ClientInv
      <3>5. CASE Open(c) \/ OnClose(c) \/ \E w \in Messages : OnWindowMessage(c, w)
        BY <1>a, <3>5 DEF Open, OnClose, OnWindowMessage, Goto
      <3> QED
        BY <1>3, <3>1, <3>2, <3>3, <3>4, <3>5
    <2>4. Stored'
      BY <2>2, <2>3 DEF FeedInv, Stored
    <2> QED
      BY <2>1, <2>2, <2>4 DEF Actual, Registered
  <1> QED
    BY <1>1, <1>2, <1>3 DEF Handler, Continue

\* A listener stays informed of a client when it is told nothing, and what was on
\* its way still is.
LEMMA StillInformed ==
    ASSUME NEW e, NEW c, Informed(e, c),
           listener'[e] = listener[e], snapshot'[e] = snapshot[e],
           view'[e][c] = view[e][c], overtaken'[e] = overtaken[e],
           listener[e] # "new" /\ OnItsWay(e, c) => OnItsWay(e, c)',
           \/ Actual(c)' = Actual(c) /\ (c \in Registered' <=> c \in Registered)
           \/ OnItsWay(e, c)'
    PROVE  Informed(e, c)'
  BY DEF Informed, Known

\* So what a listener was told becomes wrong only when the right word is on its way.
LEMMA HandlerFeeds ==
    ASSUME FeedInv, NEW c \in Clients, Handler(c), UNCHANGED eventVars
    PROVE  FeedInv'
  <1>1. AudioInv'
    BY HandlerKeeps DEF FeedInv
  <1>2. ListenerTypes' /\ Subscribed'
    BY DEF FeedInv, ListenerTypes, Subscribed, eventVars
  <1>3. LastWord'
    <2> SUFFICES ASSUME ShowOtherUsers, NEW d \in Clients, AtRest(d)'
                 PROVE  /\ d \in DOMAIN signal_changes' => signal_changes'[d] = Actual(d)'
                        /\ d \notin DOMAIN signal_changes' /\ toSend # {}
                             /\ d \in DOMAIN batch.changes => batch.changes[d] = Actual(d)'
      BY DEF LastWord, eventVars
    <2>1. CASE d = c
      BY <2>1, HandlerAnnounces
    <2>2. CASE d # c
      BY <2>2, HandlerAnnounces DEF FeedInv, LastWord, AtRest
    <2> QED
      BY <2>1, <2>2
  <1>4. ASSUME ShowOtherUsers, NEW e \in Listeners, NEW d \in Clients PROVE Informed(e, d)'
    <2>1. listener' = listener /\ snapshot' = snapshot /\ view' = view /\ overtaken' = overtaken
      BY DEF eventVars
    <2>2. /\ OnItsWay(e, d) => OnItsWay(e, d)'
          /\ \/ Actual(d)' = Actual(d) /\ (d \in Registered' <=> d \in Registered)
             \/ OnItsWay(e, d)'
      <3>1. CASE d = c
        BY <1>4, <3>1, HandlerAnnounces DEF OnItsWay, AtRest, eventVars
      <3>2. CASE d # c
        BY <3>2, HandlerAnnounces DEF OnItsWay, eventVars
      <3> QED
        BY <3>1, <3>2
    <2> QED
      BY <1>4, <2>1, <2>2, StillInformed DEF FeedInv, Informing
  <1> QED
    BY <1>1, <1>2, <1>3, <1>4, HandlerAnnounces DEF FeedInv, Informing

\* Where nothing is announced or set, the part about the audio clients stays.
LEMMA FeedUnmoved ==
    ASSUME FeedInv, UNCHANGED <<clientVars, registryVars, fftVars>>
    PROVE  /\ AudioInv' /\ Stored' /\ Registered' = Registered
           /\ \A c \in Clients : Actual(c)' = Actual(c) /\ handler'[c] = handler[c]
  BY AudioUnread DEF FeedInv, Stored, Actual, Registered, NodesOf, clientVars, registryVars

\* A listener opens: subscribed first, then the snapshot, then its sending.
LEMMA ListenerFeeds ==
    ASSUME FeedInv, NEW e \in Listeners, Subscribe(e) \/ OpenEvents(e) \/ OnCloseEvents(e)
    PROVE  FeedInv'
  <1>a. /\ vars' = vars /\ batch' = batch /\ signal_changes' = signal_changes
        /\ toSend \subseteq toSend' /\ (toSend = {} => toSend' = {})
        /\ toSend' \subseteq toSend \cup {e} /\ handler' = handler
        /\ (toSend' = toSend \/ Subscribe(e))
    BY DEF Subscribe, OpenEvents, Snapshot, SendSnapshot, OnCloseEvents, vars, clientVars
  <1>b. /\ AudioInv' /\ Stored' /\ Registered' = Registered
        /\ \A c \in Clients : Actual(c)' = Actual(c)
    BY <1>a, FeedUnmoved DEF vars
  <1>c. /\ listener \in [Listeners -> {"new", "subscribed", "snapshot", "open", "closed"}]
        /\ overtaken = [g \in Listeners |-> overtaken[g]]
        /\ view = [f \in Listeners |-> view[f]] /\ snapshot = [f \in Listeners |-> snapshot[f]]
        /\ toSend \subseteq Listeners /\ events_connections \subseteq Listeners
    BY DEF FeedInv, ListenerTypes
  <1>d. \A f, c : OnItsWay(f, c) => OnItsWay(f, c)'
    BY <1>a DEF OnItsWay
  <1>1. LastWord'
    BY <1>a, <1>b DEF FeedInv, LastWord, AtRest
  <1>2. ASSUME NEW f \in Listeners, f # e
        PROVE  /\ listener'[f] = listener[f] /\ overtaken'[f] = overtaken[f]
               /\ view'[f] = view[f] /\ snapshot'[f] = snapshot[f]
               /\ f \in events_connections' <=> f \in events_connections
               /\ f \in toSend' <=> f \in toSend
    BY <1>2, <1>a, <1>c DEF Subscribe, OpenEvents, Snapshot, SendSnapshot, OnCloseEvents, Step, Told
  <1>3. ListenerTypes'
    <2>1. overtaken' = [g \in Listeners |-> overtaken'[g]]
      BY <1>c DEF Subscribe, OpenEvents, Snapshot, SendSnapshot, OnCloseEvents
    <2>2. /\ listener' \in [Listeners -> {"new", "subscribed", "snapshot", "open", "closed"}]
          /\ events_connections' \subseteq Listeners
      BY <1>c DEF Subscribe, OpenEvents, Snapshot, SendSnapshot, OnCloseEvents, Step
    <2>3. /\ view' = [f \in Listeners |-> view'[f]]
          /\ snapshot' = [f \in Listeners |-> snapshot'[f]]
      BY <1>c DEF Subscribe, OpenEvents, Snapshot, SendSnapshot, OnCloseEvents, Told
    <2> QED
      BY <1>a, <1>c, <2>1, <2>2, <2>3 DEF ListenerTypes
  <1>4. ASSUME ShowOtherUsers, NEW f \in Listeners \ {e}, NEW c \in Clients
        PROVE  Informed(f, c)'
    BY <1>4, <1>b, <1>d, <1>2, StillInformed DEF FeedInv, Informing
  <1>5. Subscribed' /\ (ShowOtherUsers => \A c \in Clients : Informed(e, c)')
    <2>1. CASE Subscribe(e)
      <3>1. /\ listener[e] = "new" /\ listener'[e] = "subscribed" /\ e \in events_connections'
            /\ view' = view
        BY <2>1, <1>c DEF Subscribe, Step
      <3>2. ShowOtherUsers => \A c \in Clients : view[e][c] = GoneWindow
        BY <3>1 DEF FeedInv, Informing, Informed
      <3> QED
        BY <1>2, <3>1, <3>2 DEF FeedInv, Subscribed, Informed, Known
    <2>2. CASE Snapshot(e)
      <3>1. /\ listener[e] = "subscribed" /\ listener'[e] = "snapshot" /\ view' = view
            /\ events_connections' = events_connections /\ toSend' = toSend
        BY <2>2, <1>c DEF Snapshot, Step
      <3>2. ShowOtherUsers => snapshot'[e].changes = [c \in Registered |-> Actual(c)]
        BY <2>2, <1>c DEF Snapshot
      <3>3. Subscribed'
        BY <1>2, <3>1 DEF FeedInv, Subscribed
      <3>4. ASSUME ShowOtherUsers, NEW c \in Clients PROVE Informed(e, c)'
        <4>1. CASE c \in Registered
          BY <1>b, <3>1, <3>2, <3>4, <4>1 DEF Informed, Known
        <4>2. CASE c \notin Registered
          <5>1. view[e][c] = GoneWindow \/ OnItsWay(e, c)
            BY <3>1, <3>4, <4>2 DEF FeedInv, Informing, Informed, Known
          <5>2. Actual(c) = GoneWindow
            BY <4>2 DEF Actual
          <5>3. c \notin DOMAIN snapshot'[e].changes
            BY <3>2, <3>4, <4>2
          <5>4. Known(e, c)' = view[e][c]
            BY <3>1, <5>3 DEF Known
          <5>5. Known(e, c)' = Actual(c)' \/ OnItsWay(e, c)'
            BY <1>b, <1>d, <5>1, <5>2, <5>4
          <5> QED
            BY <3>1, <5>5 DEF Informed
        <4> QED
          BY <4>1, <4>2
      <3> QED
        BY <3>3, <3>4
    <2>3. CASE SendSnapshot(e)
      <3>1. /\ listener[e] = "snapshot" /\ listener'[e] = "open" /\ overtaken' = overtaken
            /\ events_connections' = events_connections /\ toSend' = toSend
        BY <2>3, <1>c DEF SendSnapshot, Step
      <3>2. \A c \in Clients : Known(e, c)' = Known(e, c)
        BY <2>3, <1>c, <3>1 DEF SendSnapshot, Told, Known
      <3>3. Subscribed'
        BY <1>2, <3>1 DEF FeedInv, Subscribed
      <3> QED
        BY <1>b, <1>d, <3>1, <3>2, <3>3 DEF FeedInv, Informing, Informed
    <2>4. CASE OnCloseEvents(e)
      <3>1. listener'[e] = "closed"
        BY <2>4, <1>c DEF OnCloseEvents, Step
      <3> QED
        BY <1>2, <3>1 DEF FeedInv, Subscribed, Informed
    <2> QED
      BY <2>1, <2>2, <2>3, <2>4 DEF OpenEvents
  <1> QED
    BY <1>b, <1>1, <1>3, <1>4, <1>5 DEF FeedInv, Informing

\* A tick takes the changes for every subscriber, and sends them one by one.
LEMMA TickFeeds ==
    ASSUME FeedInv, OnTimer PROVE FeedInv'
  <1>a. /\ AudioInv' /\ Stored' /\ Registered' = Registered
        /\ \A c \in Clients : Actual(c)' = Actual(c) /\ handler'[c] = handler[c]
    BY FeedUnmoved DEF OnTimer
  <1>b. /\ toSend = {} /\ toSend' = events_connections /\ events_connections' = events_connections
        /\ listener' = listener /\ snapshot' = snapshot /\ view' = view /\ overtaken' = overtaken
    BY DEF OnTimer
  <1>c. ShowOtherUsers =>
          /\ DOMAIN signal_changes' = {}
          /\ events_connections # {} => batch'.changes = signal_changes
    BY DEF OnTimer, NoChanges
  <1>1. ListenerTypes' /\ Subscribed'
    BY <1>b DEF FeedInv, ListenerTypes, Subscribed
  <1>2. LastWord'
    BY <1>a, <1>b, <1>c DEF FeedInv, LastWord, AtRest
  <1>3. ASSUME ShowOtherUsers, NEW e \in events_connections, NEW c \in Clients, OnItsWay(e, c)
        PROVE  OnItsWay(e, c)'
    BY <1>3, <1>a, <1>b, <1>c DEF OnItsWay
  <1>4. ASSUME ShowOtherUsers, NEW e \in Listeners, NEW c \in Clients
        PROVE  Informed(e, c)'
    <2>1. CASE listener[e] = "closed"
      BY <1>b, <2>1 DEF Informed
    <2>2. CASE listener[e] # "closed"
      <3>1. listener[e] # "new" => e \in events_connections
        BY <2>2 DEF FeedInv, Subscribed, ListenerTypes
      <3> QED
        BY <1>a, <1>b, <1>3, <1>4, <3>1, StillInformed DEF FeedInv, Informing
    <2> QED
      BY <2>1, <2>2
  <1> QED
    BY <1>a, <1>1, <1>2, <1>4 DEF FeedInv, Informing

LEMMA SendFeeds ==
    ASSUME FeedInv, NEW e \in Listeners, Send(e) PROVE FeedInv'
  <1>a. /\ AudioInv' /\ Stored' /\ signal_changes' = signal_changes /\ Registered' = Registered
        /\ \A c \in Clients : Actual(c)' = Actual(c) /\ handler'[c] = handler[c]
    BY FeedUnmoved DEF Send, vars
  <1>b. /\ e \in toSend /\ toSend' = toSend \ {e} /\ (toSend' # {} => batch' = batch)
        /\ listener' = listener /\ snapshot' = snapshot
        /\ events_connections' = events_connections
    BY DEF Send
  <1>c. /\ listener \in [Listeners -> {"new", "subscribed", "snapshot", "open", "closed"}]
        /\ overtaken = [g \in Listeners |-> overtaken[g]]
        /\ view = [f \in Listeners |-> view[f]]
    BY DEF FeedInv, ListenerTypes
  <1>d. \A f \in Listeners : f # e => view'[f] = view[f] /\ overtaken'[f] = overtaken[f]
    BY <1>c DEF Send, Told
  <1>1. listener[e] # "closed" =>
          overtaken'[e] = (overtaken[e] \ DOMAIN batch.changes) \cup
                          {c \in DOMAIN batch.changes \cap DOMAIN snapshot[e].changes :
                             listener[e] = "snapshot"}
    BY <1>c DEF Send
  <1>2. ListenerTypes' /\ Subscribed'
    <2>1. view' = [f \in Listeners |-> view'[f]]
      BY <1>c DEF Send, Told
    <2>2. overtaken' = [g \in Listeners |-> overtaken'[g]]
      BY <1>c DEF Send
    <2> QED
      BY <1>b, <2>1, <2>2 DEF FeedInv, ListenerTypes, Subscribed
  <1>3. LastWord'
    BY <1>a, <1>b DEF FeedInv, LastWord, AtRest
  <1>4. \A f \in Listeners \ {e} : \A c \in Clients : OnItsWay(f, c) => OnItsWay(f, c)'
    BY <1>a, <1>b DEF OnItsWay
  <1>5. ASSUME ShowOtherUsers, NEW c \in Clients PROVE Informed(e, c)'
    <2>1. listener[e] # "new"
      BY <1>b DEF FeedInv, Subscribed
    <2>2. CASE listener[e] = "closed"
      BY <1>b, <2>2 DEF Informed
    <2>3. CASE listener[e] # "closed" /\ c \in DOMAIN batch.changes
      <3>1. view'[e][c] = batch.changes[c]
        BY <2>3, <1>c DEF Send, Told
      <3>2. c \in DOMAIN snapshot[e].changes /\ listener[e] = "snapshot" => c \in overtaken'[e]
        BY <1>1, <2>3
      <3>3. batch.changes[c] = Actual(c)' \/ OnItsWay(e, c)'
        <4>1. CASE ~AtRest(c) \/ c \in DOMAIN signal_changes
          BY <1>a, <4>1 DEF OnItsWay, AtRest
        <4>2. CASE AtRest(c) /\ c \notin DOMAIN signal_changes
          BY <1>5, <1>a, <1>b, <2>3, <4>2 DEF FeedInv, LastWord
        <4> QED
          BY <4>1, <4>2
      <3>4. c \notin Registered' => Actual(c)' = GoneWindow
        BY DEF Actual
      <3> QED
        BY <1>b, <2>1, <3>1, <3>2, <3>3, <3>4 DEF Informed, Known
    <2>4. CASE listener[e] # "closed" /\ c \notin DOMAIN batch.changes
      <3>1. view'[e][c] = view[e][c] /\ (c \in overtaken[e] <=> c \in overtaken'[e])
        BY <2>4, <1>1, <1>c DEF Send, Told
      <3>2. OnItsWay(e, c) => OnItsWay(e, c)'
        BY <1>a, <2>4 DEF OnItsWay
      <3>3. Informed(e, c) /\ Known(e, c)' = Known(e, c)
        BY <1>5, <1>b, <3>1 DEF FeedInv, Informing, Known
      <3> QED
        BY <1>a, <1>b, <2>1, <3>1, <3>2, <3>3 DEF Informed
    <2> QED
      BY <2>2, <2>3, <2>4
  <1>6. ASSUME ShowOtherUsers, NEW f \in Listeners \ {e}, NEW c \in Clients
        PROVE  Informed(f, c)'
    BY <1>6, <1>a, <1>b, <1>d, <1>4, StillInformed DEF FeedInv, Informing
  <1> QED
    BY <1>a, <1>2, <1>3, <1>5, <1>6 DEF FeedInv, Informing
-----------------------------------------------------------------------------
\* The inductive invariant of the feed, on top of that of the registry.
THEOREM FeedInductive == EventsSpec => []FeedInv
  <1>0. ASSUME FeedInv, UNCHANGED <<vars, listener, events_connections, snapshot, batch,
                                    toSend, view, overtaken>>
        PROVE  FeedInv'
    <2>1. /\ AudioInv' /\ Stored' /\ signal_changes' = signal_changes
          /\ Registered' = Registered
          /\ \A c \in Clients : Actual(c)' = Actual(c) /\ handler'[c] = handler[c]
      BY <1>0, FeedUnmoved DEF vars
    <2>2. ListenerTypes' /\ Subscribed' /\ LastWord'
      BY <1>0, <2>1 DEF FeedInv, ListenerTypes, Subscribed, LastWord, AtRest
    <2>3. \A e \in Listeners, c \in Clients : OnItsWay(e, c)' <=> OnItsWay(e, c)
      BY <1>0, <2>1 DEF OnItsWay
    <2>4. Informing'
      BY <1>0, <2>1, <2>3, StillInformed DEF FeedInv, Informing
    <2> QED
      BY <2>1, <2>2, <2>4 DEF FeedInv
  <1>1. FeedInv /\ [EventsNext]_eventsVars => FeedInv'
    <2> SUFFICES ASSUME FeedInv, [EventsNext]_eventsVars PROVE FeedInv'
      OBVIOUS
    <2>1. ASSUME NEW n, WaterfallCount(n) PROVE FeedInv'
      BY <1>0, <2>1 DEF WaterfallCount
    <2>2. CASE UNCHANGED eventsVars
      BY <1>0, <2>2 DEF eventsVars, eventVars
    <2> QED
      BY <2>1, <2>2, HandlerFeeds, ListenerFeeds, TickFeeds, SendFeeds DEF EventsNext, Timer
  <1> QED
    BY <1>1, InitFeed, PTL DEF EventsSpec

\* NoLostChange: between on_open_events, the handlers and the timer no change of a
\* client's window is lost to a listener, but to one whose snapshot named the client
\* and was sent after a tick that did so too, until the client's next change.
THEOREM NoChangeIsLost == EventsSpec => []NoLostChange
  <1>1. FeedInv => NoLostChange
    BY DEF FeedInv, Informing, Informed, Known, NoLostChange
  <1> QED
    BY <1>1, FeedInductive, PTL
=============================================================================
