--------------------------- MODULE LifecycleProofs ---------------------------
(***************************************************************************)
(* How the server ends, for any configurations, any numbers of clients and *)
(* I/O threads and any number of signals.                                  *)
(***************************************************************************)
EXTENDS Lifecycle, TLAPS

Types ==
    /\ signals \in Nat
    /\ handling \in [IoThreads -> Clients \cup {Nobody}]
    /\ main \in {"start", "constructed", "listen", "accept", "threads", "io", "join", "joined", "ended"}
    /\ main = "ended" <=> ~Alive

\* No thread has begun before run() has started them, and stop() cannot get to the
\* connections before the server listens.
Fresh ==
    /\ main \in {"start", "constructed", "listen"} => ~listening /\ stop = "no"
    /\ main \in {"start", "constructed", "listen", "accept", "threads"} =>
          fft = "none" /\ returned = {}

\* An I/O thread returns when no work is left, and none comes again: nobody
\* listens, the timer is not set, and no client is left to post tasks for.
Drained == returned # {} => OutOfWork

\* How far run() has got with its joins.
Joins ==
    /\ main \in {"join", "joined"} => returned = IoThreads
    /\ main = "joined" => register = "done"
Left ==
    outcome = "exit 0" /\ returned # {} =>
        returned = IoThreads /\ fft = "done" /\ register = "done"

LifeInv ==
    Types /\ Fresh /\ Drained /\ Joins /\ Left

USE DEF Alive, Free, Idle, Ends, OutOfWork
-----------------------------------------------------------------------------
(***************************************************************************)
(* Every step keeps the invariant.                                         *)
(***************************************************************************)
LEMMA InitLife == Init => LifeInv
  BY DEF Init, LifeInv, Types, Fresh, Drained, Joins, Left

LEMMA MainKeeps ==
    ASSUME LifeInv, MainThread PROVE LifeInv'
  <1> USE DEF LifeInv, Types, Fresh, Drained, Joins, Left,
              flags, io, threads, stopping, Connected
  <1>1. CASE Construct
    BY <1>1 DEF Construct
  <1>2. CASE Listen
    <2>1. CASE main' = "accept"
      BY <1>2, <2>1 DEF Listen
    <2>2. CASE Ends("aborted")
      BY <1>2, <2>2 DEF Listen
    <2> QED
      BY <1>2, <2>1, <2>2 DEF Listen
  <1>6. CASE Run
    BY <1>6 DEF Run
  <1>7. CASE StartAccept
    BY <1>7 DEF StartAccept
  <1>8. CASE StartThreads
    BY <1>8 DEF StartThreads
  <1>3. CASE JoinIo
    BY <1>3 DEF JoinIo
  <1>4. CASE JoinRegistration
    BY <1>4 DEF JoinRegistration
  <1>5. CASE Exit
    BY <1>5 DEF Exit
  <1> QED
    BY <1>1, <1>2, <1>3, <1>4, <1>5, <1>6, <1>7, <1>8 DEF MainThread

LEMMA ThreadsKeep ==
    ASSUME LifeInv, FftStep \/ RegistrationStep PROVE LifeInv'
  <1> USE DEF LifeInv, Types, Fresh, Drained, Joins, Left,
              process, flags, io, stopping, Connected
  <1>1. CASE FftStep
    <2>1. returned # {} => Users = {}
      BY DEF Users, Registered
    <2> QED
      BY <1>1, <2>1 DEF FftStep
  <1>2. CASE RegistrationStep
    BY <1>2 DEF RegistrationStep
  <1> QED
    BY <1>1, <1>2

LEMMA ClientsKeep ==
    ASSUME LifeInv, NEW th \in IoThreads, NEW c \in Clients,
           Connect(c) \/ OnOpen(th, c) \/ Retune(th, c) \/ OnClose(th, c)
    PROVE  LifeInv'
  <1> USE DEF LifeInv, Types, Fresh, Drained, Joins, Left,
              process, flags, io, threads, stopping, Connected
  <1>1. CASE Connect(c)
    BY <1>1 DEF Connect, Becomes
  <1>2. CASE OnOpen(th, c)
    BY <1>2 DEF OnOpen, Becomes
  <1>3. CASE Retune(th, c)
    BY <1>3 DEF Retune, Becomes
  <1>4. CASE OnClose(th, c)
    BY <1>4 DEF OnClose, Becomes
  <1> QED
    BY <1>1, <1>2, <1>3, <1>4

LEMMA IoKeeps ==
    ASSUME LifeInv, NEW th \in IoThreads,
           SendSnapshot(th) \/ SetDefault(th) \/ Retuned(th)
             \/ RunTask(th) \/ OnTimer(th) \/ Return(th)
    PROVE  LifeInv'
  <1> USE DEF LifeInv, Types, Fresh, Drained, Joins, Left,
              process, flags, io, threads, stopping, Connected
  <1>1. CASE Retuned(th)
    BY <1>1 DEF Retuned, Becomes
  <1>2. CASE RunTask(th)
    BY <1>2 DEF RunTask
  <1>3. CASE OnTimer(th)
    BY <1>3 DEF OnTimer
  <1>4. CASE Return(th)
    BY <1>4 DEF Return
  <1>5. CASE SendSnapshot(th)
    <2>1. CASE handling[th] \in told
      BY <1>5, <2>1 DEF SendSnapshot
    <2>2. CASE handling[th] \notin told
      <3>1. UNCHANGED <<main, outcome, signals, timer, returned, tasks, fft, register, listening, stop>>
        BY <1>5, <2>2 DEF SendSnapshot
      <3>2. handling' \in [IoThreads -> Clients \cup {Nobody}]
        BY <1>5, <2>2 DEF SendSnapshot
      <3>3. handling[th] \in Clients /\ client[handling[th]] \notin {"absent", "closed"}
        BY <1>5, ListenersAssumption DEF SendSnapshot
      <3>4. returned = {}
        BY <3>3
      <3> QED
        BY <3>1, <3>2, <3>4
    <2> QED
      BY <2>1, <2>2
  <1>6. CASE SetDefault(th)
    BY <1>6 DEF SetDefault, Becomes
  <1> QED
    BY <1>1, <1>2, <1>3, <1>4, <1>5, <1>6

LEMMA StopKeeps ==
    ASSUME LifeInv, (\E th \in ThreadsAlive \ {on} : Sigint(th)) \/ Stop \/ StopCrashes
    PROVE  LifeInv'
  <1> USE DEF LifeInv, Types, Fresh, Drained, Joins, Left,
              process, flags, io, threads, stopping, Connected
  <1>1. CASE \E th \in ThreadsAlive \ {on} : Sigint(th)
    <2>1. PICK th \in ThreadsAlive \ {on} : Sigint(th)
      BY <1>1
    <2>2. signals' = signals + 1 /\ UNCHANGED <<config, listening, io, client, tasks, threads, raced>>
      BY <2>1 DEF Sigint
    <2>3. CASE main = "start"
      BY <2>1, <2>2, <2>3 DEF Sigint
    <2>4. CASE main # "start" /\ stop = "no" /\ listening
      BY <2>1, <2>2, <2>4 DEF Sigint
    <2>5. CASE main # "start" /\ ~(stop = "no" /\ listening)
      <3>1. Ends("aborted") /\ UNCHANGED <<stop, on>>
        BY <2>1, <2>5 DEF Sigint
      <3>2. signals' \in Nat
        <4>1. signals \in Nat /\ signals' = signals + 1
          BY <2>2
        <4> QED
          BY ONLY <4>1
      <3> QED
        BY <2>2, <3>1, <3>2
    <2> QED
      BY <2>3, <2>4, <2>5
  <1>2. CASE StopListening
    BY <1>2 DEF StopListening
  <1>3. CASE \E c \in Clients : Tell(c)
    BY <1>3 DEF Tell
  <1>4. CASE StopReturns
    BY <1>4 DEF StopReturns
  <1>5. CASE StopCrashes
    BY <1>5 DEF StopCrashes
  <1> QED
    BY <1>1, <1>2, <1>3, <1>4, <1>5 DEF Stop

\* What is true of the threads, the timer, the flags and the connections at every
\* moment of every life of the server.
THEOREM LifeInductive == Spec => []LifeInv
  <1>1. LifeInv /\ [Next]_vars => LifeInv'
    <2>1. SUFFICES ASSUME LifeInv, [Next]_vars PROVE LifeInv'
      OBVIOUS
    <2>2. CASE UNCHANGED vars
      BY <2>1, <2>2 DEF vars, process, flags, io, threads, stopping, LifeInv, Types,
        Fresh, Drained, Joins, Left, Connected
    <2> QED
      BY <2>1, <2>2, MainAssumption, MainKeeps, ThreadsKeep, ClientsKeep, IoKeeps, StopKeeps
         DEF Next, Duty
  <1> QED
    BY <1>1, InitLife, PTL DEF Spec

\* fft_thread never waits for tasks that no thread is left to run.
THEOREM TasksAlwaysHaveThreads == Spec => []TasksHaveThreads
  <1>1. LifeInv => TasksHaveThreads
    BY MainAssumption DEF LifeInv, Drained, TasksHaveThreads
  <1> QED
    BY <1>1, LifeInductive, PTL

\* An exit after run() leaves no thread, task, timer or connection behind.
THEOREM ExitLeavesNothing == Spec => []NothingLeft
  <1>1. LifeInv => NothingLeft
    BY DEF LifeInv, Drained, Left, NothingLeft
  <1> QED
    BY <1>1, LifeInductive, PTL

=============================================================================
