---------------------------- MODULE AudioSlices ----------------------------
(***************************************************************************)
(* The registry of audio clients, signal_slices, and the window of each    *)
(* client, AudioClient::l, audio_mid and r.  A connection's handlers run   *)
(* one after the other on its strand.  Only the registry is protected by   *)
(* signal_slice_mtx: the window is written by the handlers and read by     *)
(* send_audio, on another I/O thread, without any lock.  signal_loop takes *)
(* the position of the slice from the registry's key, send_audio its       *)
(* length from the window, which it reads member by member.                *)
(*                                                                         *)
(* Frames are not numbered: FrameLoop shows that signal_loop runs only     *)
(* when every task of the frame before is done, which is assumed here.     *)
(* audio_mid is represented by its floor, the bin it lies in.              *)
(***************************************************************************)
EXTENDS Integers, FiniteSets

CONSTANTS
    Clients,           \* connections to /audio
    SlowClients,       \* those whose send buffer may exceed its limit
    Retuners,          \* those that send window messages
    IoThreads,         \* the threads that run m_server.run()
    FftResultSize,     \* fft_result_size
    AudioFftSize,      \* audio_fft_size
    DefaultWindow,     \* default_l, default_m, default_r
    GarbageWindows,    \* what l, audio_mid and r may hold before they are assigned
    Messages,          \* the windows clients ask for
    ShowOtherUsers,    \* show_other_users
    None

ASSUME ClientsAssumption == SlowClients \subseteq Clients /\ Retuners \subseteq Clients
ASSUME NoneAssumption == None \notin Clients
ASSUME SizesAssumption == FftResultSize \in Nat /\ AudioFftSize \in Nat
ASSUME ShowAssumption == ShowOtherUsers \in BOOLEAN

Fft == "fft"           \* the FFT thread as an owner of the mutex
NoMid == -3            \* a window message without m

Message == [l : Int, m : Int, r : Int]
GoneWindow == [l |-> -1, m |-> -1, r |-> -1]

ASSUME WindowsAssumption == Messages \subseteq Message /\ GarbageWindows \subseteq Message

\* The constructor clamps the default window to the spectrum, both ends included.
\* It may be wider than any window a client can ask for.
ASSUME DefaultAssumption ==
    /\ DefaultWindow \in Message
    /\ DefaultWindow.l \in 0..FftResultSize /\ DefaultWindow.r \in 0..FftResultSize
    /\ DefaultWindow.l <= DefaultWindow.r
ASSUME FftAssumption == Fft \notin Clients /\ Fft # None

Key == [l : Int, r : Int]
Node == [client : Clients, key : Key]

VARIABLES
    handler,           \* where each connection's current handler is
    arg,               \* the window that handler is setting
    window,            \* AudioClient::l, audio_mid, r
    signal_slices,
    signal_slice_mtx,  \* its owner, or None
    signal_changes,    \* windows to announce, a partial map
    todo,              \* nodes signal_loop has yet to visit
    queue,             \* tasks posted and not started: the nodes visited
    executing,         \* each I/O thread's task and what it has read so far
    disturbed,         \* history: handler active since the task was posted
    hears              \* history: sent a slice of the window set last

fftVars == <<todo, queue, executing, disturbed, hears>>
registryVars == <<signal_slices, signal_slice_mtx>>
clientVars == <<handler, arg, window>>
vars == <<clientVars, registryVars, signal_changes, fftVars>>

Init ==
    /\ handler = [c \in Clients |-> "new"]
    /\ arg = [c \in Clients |-> DefaultWindow]
    /\ window \in [Clients -> GarbageWindows]
    /\ signal_slices = {}
    /\ signal_slice_mtx = None
    /\ signal_changes = [c \in {} |-> GoneWindow]
    /\ todo = {}
    /\ queue = {}
    /\ executing = [th \in IoThreads |-> {}]
    /\ disturbed = [c \in Clients |-> FALSE]
    /\ hears = [c \in Clients |-> FALSE]

MutKeyOf(w) == [l |-> w.m, r |-> w.r]        \* mutant: keyed by the centre
KeyOf(w) == [l |-> w.l, r |-> w.r]
MutNewKey(c) == [l |-> 0, r |-> 0]           \* mutant: the key is not updated
NewKey(c) == KeyOf(arg[c])
NodesOf(c) == {n \in signal_slices : n.client = c}
MutWithout(c) == signal_slices               \* mutant: copied, not extracted
Without(c) == signal_slices \ NodesOf(c)
Running == UNION {executing[th] : th \in IoThreads}
Outstanding == queue \cup {e.task : e \in Running}

-----------------------------------------------------------------------------
(***************************************************************************)
(* The handlers of one connection.                                         *)
(***************************************************************************)
Lock(o) == signal_slice_mtx = None /\ signal_slice_mtx' = o
Unlock(o) == signal_slice_mtx = o /\ signal_slice_mtx' = None

Goto(c, from, to) ==
    handler[c] = from /\ handler' = [handler EXCEPT ![c] = to]

\* on_open_signal registers the client before its window is set.
Open(c) ==
    /\ Goto(c, "new", "setMid")
    /\ signal_slice_mtx = None
    /\ signal_slices' = signal_slices \cup {[client |-> c, key |-> [l |-> 0, r |-> 0]]}
    /\ UNCHANGED <<arg, window, signal_slice_mtx, signal_changes, fftVars>>

\* on_window_message ignores any other message.
Valid(w) ==
    /\ w.m # NoMid
    /\ w.l \in 0..(FftResultSize - 1) /\ w.r \in 0..(FftResultSize - 1)
    /\ w.l <= w.r
    /\ w.r - w.l <= AudioFftSize

OnWindowMessage(c, w) ==
    /\ c \in Retuners
    /\ Valid(w)
    /\ Goto(c, "open", "setMid")
    /\ arg' = [arg EXCEPT ![c] = w]
    /\ UNCHANGED <<window, registryVars, signal_changes, fftVars>>

\* set_audio_range: three plain stores, then the registry under its mutex, then
\* the announcement.
SetMid(c) ==
    /\ Goto(c, "setMid", "setL")
    /\ window' = [window EXCEPT ![c].m = arg[c].m]
    /\ disturbed' = [disturbed EXCEPT ![c] = TRUE]
    /\ hears' = [hears EXCEPT ![c] = FALSE]
    /\ UNCHANGED <<arg, registryVars, signal_changes, todo, queue, executing>>

SetL(c) ==
    /\ Goto(c, "setL", "setR")
    /\ window' = [window EXCEPT ![c].l = arg[c].l]
    /\ UNCHANGED <<arg, registryVars, signal_changes, fftVars>>

SetR(c) ==
    /\ Goto(c, "setR", "extract")
    /\ window' = [window EXCEPT ![c].r = arg[c].r]
    /\ UNCHANGED <<arg, registryVars, signal_changes, fftVars>>

Extract(c) ==
    /\ Goto(c, "extract", "insert")
    /\ Lock(c)
    /\ signal_slices' = Without(c)
    /\ UNCHANGED <<arg, window, signal_changes, fftVars>>

Insert(c) ==
    /\ Goto(c, "insert", "announce")
    /\ Unlock(c)
    /\ signal_slices' = signal_slices \cup {[client |-> c, key |-> NewKey(c)]}
    /\ UNCHANGED <<arg, window, signal_changes, fftVars>>

\* broadcast_signal_changes: the last change of a client overwrites the others.
MutAnnounced(c, w) ==                        \* mutant: the first change is kept
    [d \in DOMAIN signal_changes \cup {c} |->
       IF d \in DOMAIN signal_changes THEN signal_changes[d] ELSE w]
Announced(c, w) ==
    IF ShowOtherUsers
    THEN [d \in DOMAIN signal_changes \cup {c} |->
            IF d = c THEN w ELSE signal_changes[d]]
    ELSE signal_changes

\* The handler ends: its argument is no more (reset to a fixed value).
Announce(c) ==
    /\ Goto(c, "announce", "open")
    /\ signal_changes' = Announced(c, arg[c])
    /\ arg' = [arg EXCEPT ![c] = DefaultWindow]
    /\ UNCHANGED <<window, registryVars, fftVars>>

\* on_close erases the node the client's iterator points to.
OnClose(c) ==
    /\ Goto(c, "open", "closing")
    /\ signal_slice_mtx = None
    /\ signal_slices' = Without(c)
    /\ UNCHANGED <<arg, window, signal_slice_mtx, signal_changes, fftVars>>

AnnounceGone(c) ==
    /\ Goto(c, "closing", "closed")
    /\ signal_changes' = Announced(c, GoneWindow)
    /\ UNCHANGED <<arg, window, registryVars, fftVars>>

\* What a handler that has begun still has to do.
Continue(c) == \/ SetMid(c) \/ SetL(c) \/ SetR(c) \/ Extract(c) \/ Insert(c)
               \/ Announce(c) \/ AnnounceGone(c)

Handler(c) == \/ Open(c) \/ OnClose(c) \/ Continue(c)
              \/ \E w \in Messages : OnWindowMessage(c, w)
-----------------------------------------------------------------------------
(***************************************************************************)
(* The FFT thread and the I/O threads.                                     *)
(***************************************************************************)
MutTasksDone == TRUE                         \* mutant: tasks are not waited for
TasksDone == Outstanding = {}

SignalLoop ==
    /\ TasksDone
    /\ Lock(Fft)
    /\ todo' = signal_slices
    /\ UNCHANGED <<clientVars, signal_slices, signal_changes, queue, executing,
                   disturbed, hears>>

\* One client: its task is posted, unless it is slow and the frame is dropped.
Visit(n) ==
    /\ todo' = todo \ {n}
    /\ \/ /\ queue' = queue \cup {n}
          /\ disturbed' = [disturbed EXCEPT ![n.client] =
                             handler[n.client] \notin {"open", "closing", "closed"}]
       \/ n.client \in SlowClients /\ UNCHANGED <<queue, disturbed>>
    /\ UNCHANGED <<clientVars, registryVars, signal_changes, executing, hears>>

SignalLoopDone ==
    /\ todo = {}
    /\ Unlock(Fft)
    /\ UNCHANGED <<clientVars, signal_slices, signal_changes, fftVars>>

\* send_audio reads the members at signal.cpp:105-107 and, when it has demodulated
\* the slice, 287: r and l for the length, audio_mid and l once more for the centre,
\* audio_mid again for the sign and again for the label.  A handler may store between
\* any two.
Reads == {"r", "l", "mid", "midL", "idx", "label"}
Before == [r |-> {}, l |-> {"r"}, mid |-> {"r", "l"}, midL |-> {"r", "l", "mid"},
           idx |-> {"r", "l", "mid", "midL"}, label |-> Reads \ {"label"}]
Member(w, x) == IF x = "r" THEN w.r ELSE IF x \in {"l", "midL"} THEN w.l ELSE w.m
WithValue(f, x, w) ==
    [y \in DOMAIN f \cup {x} |-> IF y = x THEN Member(w, x) ELSE f[y]]

\* What was read is one window, and the window whose slice the task was given.
Fits(e, w) ==
    /\ \A x \in DOMAIN e.read : e.read[x] = Member(w, x)
    /\ e.task.key = KeyOf(w)

StartTask(th, n) ==
    /\ executing[th] = {}
    /\ executing' = [executing EXCEPT ![th] = {[task |-> n, read |-> [x \in {} |-> 0]]}]
    /\ queue' = queue \ {n}
    /\ UNCHANGED <<clientVars, registryVars, signal_changes, todo, disturbed, hears>>

ReadMember(th, e, x) ==
    /\ DOMAIN e.read = Before[x]
    /\ executing' = [executing EXCEPT ![th] =
                       {[task |-> e.task,
                         read |-> WithValue(e.read, x, window[e.task.client])]}]
    /\ UNCHANGED <<clientVars, registryVars, signal_changes, todo, queue, disturbed, hears>>

\* It sends what it made of the slice, unless the connection is gone.
FinishTask(th, e) ==
    /\ DOMAIN e.read = Reads
    /\ executing' = [executing EXCEPT ![th] = {}]
    /\ hears' = IF handler[e.task.client] \in {"closing", "closed"} THEN hears
                ELSE [hears EXCEPT ![e.task.client] = Fits(e, window[e.task.client])]
    /\ UNCHANGED <<clientVars, registryVars, signal_changes, todo, queue, disturbed>>

FftThread == SignalLoop \/ SignalLoopDone \/ \E n \in todo : Visit(n)
IoThread(th) ==
    \/ \E n \in queue : StartTask(th, n)
    \/ \E e \in executing[th] : FinishTask(th, e) \/ \E x \in Reads : ReadMember(th, e, x)

Next == \/ \E c \in Clients : Handler(c)
        \/ FftThread
        \/ \E th \in IoThreads : IoThread(th)

Spec == Init /\ [][Next]_vars

(***************************************************************************)
(* A handler that has begun and every thread keep running, and whoever     *)
(* waits for the mutex, released again and again, is eventually granted it.*)
(* Nobody has to connect, retune or leave.                                 *)
(***************************************************************************)
Fairness ==
    /\ \A c \in Clients : SF_vars(Continue(c))
    /\ WF_vars(FftThread) /\ SF_vars(SignalLoop)
    /\ \A th \in IoThreads : WF_vars(IoThread(th))

FairSpec == Spec /\ Fairness
-----------------------------------------------------------------------------
(***************************************************************************)
(* Properties.                                                             *)
(***************************************************************************)
\* The registry and the clients agree: a connection is in the map under exactly
\* one key, the window its handlers set last, and not at all while it is being
\* re-keyed or once it has closed (the iterator of signal.h stays valid).
NodeKeys(c) ==
    CASE handler[c] \in {"new", "insert", "closing", "closed"} -> {}
      [] handler[c] \in {"announce", "open"} -> {[l |-> window[c].l, r |-> window[c].r]}
      [] OTHER -> {n.key : n \in NodesOf(c)}

RegistryConsistent ==
    \A c \in Clients :
        /\ {n.key : n \in NodesOf(c)} = NodeKeys(c)
        /\ \A n, k \in NodesOf(c) : n = k
        /\ handler[c] \in {"setMid", "setL", "setR", "extract"} => NodesOf(c) # {}

(***************************************************************************)
(* The copies from the slice to the IFFT's input, signal.cpp:124-198: bin  *)
(* b of the slice goes to InputBin(part, f, b), for what has been read, f. *)
(* AM and FM make two copies.                                              *)
(***************************************************************************)
Smaller(a, b) == IF a < b THEN a ELSE b
Larger(a, b) == IF a < b THEN b ELSE a

Length(f) == f["r"] - f["l"]
Centre(f) == f["mid"] - f["midL"]
Half == AudioFftSize \div 2
Parts == {"USB", "LSB", "positive", "negative"}

CopyL(part, f) ==
    CASE part \in {"USB", "positive"} -> Larger(0, Centre(f))
      [] part = "LSB" -> Larger(0, Centre(f) - AudioFftSize + 1)
      [] OTHER -> Larger(0, Centre(f) - Half + 1)
MutCopyR(part, f) == Length(f)               \* mutant: cut by the slice alone
CopyR(part, f) ==
    CASE part = "USB" -> Smaller(Length(f), Centre(f) + AudioFftSize)
      [] part = "LSB" -> Smaller(Length(f), Centre(f) + 1)
      [] part = "positive" -> Smaller(Length(f), Centre(f) + Half)
      [] OTHER -> Smaller(Length(f), Centre(f))
InputBin(part, f, b) ==
    CASE part \in {"USB", "positive"} -> b - Centre(f)
      [] part = "LSB" -> Centre(f) - b
      [] OTHER -> AudioFftSize - (Centre(f) - b)

\* Whatever a client asks for, whatever its default window and whatever a thread has
\* read of a window that was being changed, or was not set yet: the bins copied land
\* in the input of the client's IFFT, and the halves of AM and FM do not overlap.
\* And if no handler has touched the client since the task was posted, the slice
\* that is read, Length bins of it, lies in the spectrum; it is no longer than the
\* IFFT unless it is the default window's.
CopiesFit(f) ==
    /\ \A part \in Parts : \A b \in CopyL(part, f)..(CopyR(part, f) - 1) :
         InputBin(part, f, b) \in 0..(AudioFftSize - 1)
    /\ \A b \in CopyL("positive", f)..(CopyR("positive", f) - 1),
         d \in CopyL("negative", f)..(CopyR("negative", f) - 1) :
         InputBin("positive", f, b) # InputBin("negative", f, d)
SliceFits(key, f) ==
    /\ Length(f) >= 0 /\ key.l >= 0 /\ key.l + Length(f) <= FftResultSize
    /\ Length(f) <= AudioFftSize \/ key = KeyOf(DefaultWindow)
SlicesInRange ==
    \A e \in Running : {"r", "l", "mid", "midL"} \subseteq DOMAIN e.read =>
        /\ CopiesFit(e.read)
        /\ ~disturbed[e.task.client] => SliceFits(e.task.key, e.read)

\* If no handler has touched the client since the task was posted, the task uses
\* the window whose slice it was given, and one window only.
UndisturbedSlice ==
    \A e \in Running :
        ~disturbed[e.task.client] =>
            \A x \in DOMAIN e.read :
                /\ x \in {"l", "midL"} => e.read[x] = e.task.key.l
                /\ x = "r" => e.read[x] = e.task.key.r
                /\ x \in {"idx", "label"} /\ "mid" \in DOMAIN e.read
                     => e.read[x] = e.read["mid"]

\* Two threads never run send_audio of one client.
OneTaskPerClient ==
    \A n, k \in Outstanding : n.client = k.client => n = k

\* A client that has retuned and is not slow eventually hears its new window,
\* unless it retunes again or leaves.
RetuneIsHeard ==
    \A c \in Clients \ SlowClients :
        handler[c] = "open" ~> hears[c] \/ handler[c] # "open"

\* signal.cpp:101 says the buffer is given offset by l; the l that send_audio
\* uses may be another one than the key's.
BufferOffsetByL ==
    \A e \in Running : "l" \in DOMAIN e.read => e.task.key.l = e.read["l"]
=============================================================================
