----------------------------- MODULE Lifecycle -----------------------------
(***************************************************************************)
(* The server from main() to its end: which configurations start, the      *)
(* threads of run(), and stop(), which runs inside a signal handler on     *)
(* whichever thread the signal interrupts.  The thread stays where it was  *)
(* until stop() returns, and the others go on: the registries are walked   *)
(* without their mutexes.                                                  *)
(*                                                                         *)
(* Connections of every kind are clients; the io_service hands their       *)
(* handlers, the posted tasks and the timer to the I/O threads, of which   *)
(* the main thread is one, and ends run() when no work is left.            *)
(***************************************************************************)
EXTENDS Setup

CONSTANTS
    Configs,           \* configurations, with driver, format and registration
    Clients,           \* connections
    Listeners,         \* those to /events, which have no window and no tasks
    IoThreads,         \* the threads that run m_server.run()
    Main,              \* the main thread, one of them
    MaxSignals         \* bound: SIGINTs

ASSUME MainAssumption == Main \in IoThreads
ASSUME ListenersAssumption == Listeners \subseteq Clients
ASSUME MaxSignalsAssumption == MaxSignals \in Nat

VARIABLES
    config,
    main,              \* where main() is
    outcome,           \* how the process ended
    running, listening,
    timer,             \* whether m_timer is set
    returned,          \* I/O threads that are back from m_server.run()
    handling,          \* the client an I/O thread opens or retunes
    client,            \* each connection: its node "inserted" by the handler that
                       \* opens it, "extracted" by one that moves it, "settled"
    told,              \* clients stop() has told to close
    tasks,             \* clients with a task posted and not run
    fft, register,     \* where fft_thread and registration_thread are
    stop,              \* how far stop() is
    on,                \* the thread it runs on
    signals,
    raced              \* history: clients whose registry changed under stop()

process == <<config, main, outcome>>
flags == <<running, listening>>
io == <<timer, returned, handling>>
threads == <<fft, register>>
stopping == <<stop, on, signals, told>>
vars == <<process, flags, io, client, tasks, threads, stopping, raced>>

Nobody == "nobody"
Fft == "fft"
Registration == "registration"

Init ==
    /\ config \in Configs
    /\ main = "start" /\ outcome = "none"
    /\ running = FALSE /\ listening = FALSE
    /\ timer = FALSE
    /\ returned = {} /\ handling = [th \in IoThreads |-> Nobody]
    /\ client = [c \in Clients |-> "absent"]
    /\ told = {} /\ tasks = {}
    /\ fft = "none" /\ register = "none"
    /\ stop = "no" /\ on = Nobody /\ signals = 0
    /\ raced = {}

Alive == outcome = "none"
Free(th) == Alive /\ on # th                 \* not interrupted by stop()
Registered == {c \in Clients : client[c] \in {"inserted", "settled"}}
Users == Registered \ Listeners
Connected == {c \in Clients : client[c] \notin {"absent", "closed"}}
-----------------------------------------------------------------------------
(***************************************************************************)
(* main() and run().                                                       *)
(***************************************************************************)
Formats == {"u8", "s8", "u16", "s16", "f32", "f64"}

Ends(how) == outcome' = how /\ main' = "ended"

\* No driver and an unknown format end the program; a throw of the constructor is
\* not caught.
Construct ==
    /\ Alive /\ main = "start"
    /\ CASE config.driver = Missing -> Ends("exit 0")
         [] config.driver # Missing /\ config.format \notin Formats -> Ends("exit 1")
         [] config.driver # Missing /\ config.format \in Formats /\ Rejected(config) ->
              Ends("aborted")
         [] OTHER -> main' = "constructed" /\ UNCHANGED outcome
    /\ UNCHANGED <<config, flags, io, client, tasks, threads, stopping, raced>>

\* run(), which listens before it accepts and accepts before it starts the threads.
Run ==
    /\ Free(Main) /\ main = "constructed"
    /\ main' = "listen" /\ running' = TRUE
    /\ UNCHANGED <<config, outcome, listening, io, client, tasks, threads, stopping, raced>>

\* The port may be taken, for IPv4 as for IPv6.
Listen ==
    /\ Free(Main) /\ main = "listen"
    /\ \/ Ends("aborted") /\ UNCHANGED listening
       \/ main' = "accept" /\ listening' = TRUE /\ UNCHANGED outcome
    /\ UNCHANGED <<config, running, io, client, tasks, threads, stopping, raced>>

\* start_accept throws if stop() has ended the listening meanwhile.
StartAccept ==
    /\ Free(Main) /\ main = "accept"
    /\ IF listening THEN main' = "threads" /\ UNCHANGED outcome ELSE Ends("aborted")
    /\ UNCHANGED <<config, flags, io, client, tasks, threads, stopping, raced>>

StartThreads ==
    /\ Free(Main) /\ main = "threads"
    /\ main' = "io" /\ timer' = TRUE
    /\ fft' = "check"
    /\ register' = IF config.registration THEN "check" ELSE "none"
    /\ UNCHANGED <<config, outcome, flags, returned, handling, client, tasks, stopping, raced>>

JoinIo ==
    /\ Free(Main) /\ main = "io" /\ returned = IoThreads
    /\ main' = "join"
    /\ UNCHANGED <<config, outcome, flags, io, client, tasks, threads, stopping, raced>>

\* registration_thread is joined although it may not have been started: join()
\* throws, and nobody catches.
JoinRegistration ==
    /\ Free(Main) /\ main = "join"
    /\ IF config.registration
       THEN register = "done" /\ main' = "joined" /\ UNCHANGED outcome
       ELSE Ends("aborted")
    /\ UNCHANGED <<config, flags, io, client, tasks, threads, stopping, raced>>

Exit ==
    /\ Free(Main) /\ main = "joined" /\ fft = "done"
    /\ Ends("exit 0")
    /\ UNCHANGED <<config, flags, io, client, tasks, threads, stopping, raced>>

MainThread ==
    \/ Construct \/ Run \/ Listen \/ StartAccept \/ StartThreads
    \/ JoinIo \/ JoinRegistration \/ Exit
-----------------------------------------------------------------------------
(***************************************************************************)
(* The FFT and registration threads.                                       *)
(***************************************************************************)

\* A frame is skipped if nobody is registered; otherwise the tasks of the frame
\* before are waited for, and new ones posted, except for slow clients.
FftStep ==
    /\ Free(Fft)
    /\ \/ fft = "check" /\ fft' = (IF running THEN "frame" ELSE "done") /\ UNCHANGED tasks
       \/ fft = "frame" /\ fft' = (IF Users = {} THEN "check" ELSE "wait") /\ UNCHANGED tasks
       \/ fft = "wait" /\ tasks = {} /\ fft' = "check" /\ tasks' \in SUBSET Users
    /\ UNCHANGED <<process, flags, io, client, register, stopping, raced>>

\* register_server announces the server and sleeps for a minute.
RegistrationStep ==
    /\ Free(Registration)
    /\ \/ register = "check" /\ register' = (IF running THEN "sleep" ELSE "done")
       \/ register = "sleep" /\ register' = "check"
    /\ UNCHANGED <<process, flags, io, client, tasks, fft, stopping, raced>>
-----------------------------------------------------------------------------
(***************************************************************************)
(* The I/O threads.                                                        *)
(***************************************************************************)
Idle(th) == Free(th) /\ main = "io" /\ th \notin returned /\ handling[th] = Nobody

Becomes(c, from, to) ==
    /\ client[c] = from /\ client' = [client EXCEPT ![c] = to]
    /\ raced' = IF stop = "walk" THEN raced \cup {c} ELSE raced

Connect(c) ==
    /\ Alive /\ main = "io" /\ listening /\ Becomes(c, "absent", "opening")
    /\ UNCHANGED <<process, flags, io, tasks, threads, stopping>>

\* on_open registers the connection ...
OnOpen(th, c) ==
    /\ Idle(th) /\ Becomes(c, "opening", "inserted")
    /\ handling' = [handling EXCEPT ![th] = c]
    /\ UNCHANGED <<process, flags, timer, returned, tasks, threads, stopping>>

\* ... and sends a listener its snapshot, which throws, out of the I/O thread, if
\* stop() has told the connection to close meanwhile ...
SendSnapshot(th) ==
    /\ Free(th)
    /\ LET c == handling[th] IN
       /\ c \in Listeners /\ client[c] = "inserted"
       /\ IF c \in told THEN Ends("aborted") /\ UNCHANGED <<client, handling>>
          ELSE /\ client' = [client EXCEPT ![c] = "settled"]
               /\ handling' = [handling EXCEPT ![th] = Nobody]
               /\ UNCHANGED <<main, outcome>>
    /\ UNCHANGED <<config, flags, timer, returned, tasks, threads, stopping, raced>>

\* ... and gives the others their default window.
SetDefault(th) ==
    /\ Free(th) /\ handling[th] \in Clients \ Listeners
    /\ Becomes(handling[th], "inserted", "extracted")
    /\ UNCHANGED <<process, flags, io, tasks, threads, stopping>>

\* set_audio_range and set_waterfall_range take the node out of its registry ...
Retune(th, c) ==
    /\ Idle(th) /\ c \notin told \cup Listeners /\ Becomes(c, "settled", "extracted")
    /\ handling' = [handling EXCEPT ![th] = c]
    /\ UNCHANGED <<process, flags, timer, returned, tasks, threads, stopping>>

\* ... and put it back.
Retuned(th) ==
    /\ Free(th) /\ handling[th] # Nobody
    /\ Becomes(handling[th], "extracted", "settled")
    /\ handling' = [handling EXCEPT ![th] = Nobody]
    /\ UNCHANGED <<process, flags, timer, returned, tasks, threads, stopping>>

\* on_close, because the client left or because it was told to.
OnClose(th, c) ==
    /\ Idle(th) /\ Becomes(c, "settled", "closed")
    /\ UNCHANGED <<process, flags, io, tasks, threads, stopping>>

RunTask(th) ==
    /\ Idle(th)
    /\ \E c \in tasks : tasks' = tasks \ {c}
    /\ UNCHANGED <<process, flags, io, client, threads, stopping, raced>>

MutRearmed == TRUE                           \* mutant: the timer is always set again
Rearmed == running

OnTimer(th) ==
    /\ Idle(th) /\ timer
    /\ timer' = Rearmed
    /\ UNCHANGED <<process, flags, returned, handling, client, tasks, threads, stopping, raced>>

\* m_server.run() returns when the io_service has no work left.
MutOutOfWork == ~listening /\ ~timer /\ tasks = {}
                                             \* mutant: connections are no work
OutOfWork == ~listening /\ ~timer /\ tasks = {} /\ Connected = {}

Return(th) ==
    /\ Idle(th) /\ main = "io" /\ OutOfWork
    /\ returned' = returned \cup {th}
    /\ UNCHANGED <<process, flags, timer, handling, client, tasks, threads, stopping, raced>>

\* What an I/O thread does unless the clients ask for more.
Duty(th) ==
    \/ SendSnapshot(th) \/ SetDefault(th) \/ Retuned(th)
    \/ RunTask(th) \/ OnTimer(th) \/ Return(th)
    \/ \E c \in Clients : OnOpen(th, c) \/ (c \in told /\ OnClose(th, c))
-----------------------------------------------------------------------------
(***************************************************************************)
(* SIGINT.                                                                 *)
(***************************************************************************)
ThreadsAlive ==
    {Main} \cup (IF main = "io" THEN IoThreads \ returned ELSE {})
        \cup (IF fft \in {"none", "done"} THEN {} ELSE {Fft})
        \cup (IF register \in {"none", "done"} THEN {} ELSE {Registration})

\* stop() clears running and ends the listening, which throws, out of the signal
\* handler, unless the server listens: a second stop() does, or makes the first.
\* Before the handler is installed the signal kills the process.
Sigint(th) ==
    /\ Alive /\ signals < MaxSignals
    /\ signals' = signals + 1
    /\ IF main = "start" THEN Ends("killed") /\ UNCHANGED <<running, stop, on>>
       ELSE /\ running' = FALSE
            /\ IF stop = "no" /\ listening
               THEN stop' = "cleared" /\ on' = th /\ UNCHANGED <<main, outcome>>
               ELSE Ends("aborted") /\ UNCHANGED <<stop, on>>
    /\ UNCHANGED <<config, listening, io, client, tasks, threads, told, raced>>

StopListening ==
    /\ Alive /\ stop = "cleared"
    /\ listening' = FALSE /\ stop' = "walk"
    /\ UNCHANGED <<process, running, io, client, tasks, threads, on, signals, told, raced>>

\* The registries are walked while they may change: a client they change under
\* the walk may be missed, and the walk itself may crash.
Tell(c) ==
    /\ Alive /\ stop = "walk" /\ c \in Registered \ told
    /\ told' = told \cup {c}
    /\ UNCHANGED <<process, flags, io, client, tasks, threads, stop, on, signals, raced>>

StopReturns ==
    /\ Alive /\ stop = "walk" /\ Registered \subseteq told \cup raced
    /\ stop' = "returned" /\ on' = Nobody
    /\ UNCHANGED <<process, flags, io, client, tasks, threads, signals, told, raced>>

StopCrashes ==
    /\ Alive /\ stop = "walk" /\ raced # {}
    /\ Ends("aborted")
    /\ UNCHANGED <<config, flags, io, client, tasks, threads, stopping, raced>>

Stop == StopListening \/ (\E c \in Clients : Tell(c)) \/ StopReturns

Next ==
    \/ MainThread \/ FftStep \/ RegistrationStep
    \/ \E th \in IoThreads :
          \/ Duty(th)
          \/ \E c \in Clients : Retune(th, c) \/ OnClose(th, c)
    \/ \E c \in Clients : Connect(c)
    \/ \E th \in ThreadsAlive \ {on} : Sigint(th)
    \/ Stop \/ StopCrashes

Spec == Init /\ [][Next]_vars

(***************************************************************************)
(* Every thread keeps running, the input delivers samples or ends, and a   *)
(* connection that was told to close closes, at the latest by websocketpp's*)
(* timeout.  Nobody has to connect, retune, leave or press Ctrl-C.         *)
(***************************************************************************)
FairSpec ==
    /\ Spec
    /\ WF_vars(MainThread) /\ WF_vars(FftStep) /\ WF_vars(RegistrationStep)
    /\ \A th \in IoThreads : WF_vars(Duty(th))
    /\ WF_vars(Stop)
-----------------------------------------------------------------------------
(***************************************************************************)
(* Properties.                                                             *)
(***************************************************************************)

\* fft_thread never waits for tasks nobody will run: an I/O thread is left as
\* long as tasks are posted.
TasksHaveThreads == Alive /\ tasks # {} => returned # IoThreads

\* When main() exits after run(), all its threads are done and no task, timer or
\* connection is left behind.
NothingLeft ==
    main = "ended" /\ outcome = "exit 0" /\ returned # {} =>
        /\ returned = IoThreads /\ fft = "done" /\ register = "done"
        /\ tasks = {} /\ ~timer /\ Connected = {}

\* Once stop() has returned and every connection left has been told to close, the
\* process ends; a client that was opening or handling meanwhile is not told,
\* and the server waits until it leaves.
StopEnds == stop = "returned" /\ Connected \subseteq told ~> outcome # "none"
=============================================================================
