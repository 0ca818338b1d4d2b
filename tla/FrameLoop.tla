----------------------------- MODULE FrameLoop -----------------------------
(***************************************************************************)
(* broadcast_server::fft_task and everything that shares memory with it:   *)
(* the asynchronous sample reader that fills one of three input buffers    *)
(* while the other two are transformed, the I/O threads that run the       *)
(* send_audio / send_waterfall tasks on slices of the FFT output, the      *)
(* handlers that add, move and remove clients, and stop().                 *)
(*                                                                         *)
(* Samples are abstracted to numbered half-blocks.  Block n is the n-th    *)
(* one read from the input; blocks 0 and -1 are the uninitialised contents *)
(* the first two transforms see.  A spectrum computed from the blocks      *)
(* n-1 and n is represented by n.  A block stands for the read that should *)
(* have filled it: what a short read leaves in it is the subject of        *)
(* SampleConversion.                                                       *)
(***************************************************************************)
EXTENDS Integers, FiniteSets

CONSTANTS
    AudioClients,      \* connections to /audio
    WaterfallClients,  \* connections to /waterfall
    Retuners,          \* the clients that send window messages
    SlowClients,       \* the clients whose send buffer may exceed its limit
    IoThreads,         \* the threads that run m_server.run()
    Levels,            \* downsample_levels
    SkipNum,           \* skip_num: every SkipNum-th frame feeds the waterfall
    MaxBlocks          \* bound: half-blocks the input delivers before it stalls

ASSUME ClientsAssumption ==
    /\ AudioClients \cap WaterfallClients = {}
    /\ Retuners \subseteq AudioClients \cup WaterfallClients
    /\ SlowClients \subseteq AudioClients \cup WaterfallClients
ASSUME LevelsAssumption == Levels \in Nat \ {0}
ASSUME SkipNumAssumption == SkipNum \in Nat \ {0}
ASSUME MaxBlocksAssumption == MaxBlocks \in Nat

Clients == AudioClients \cup WaterfallClients
LevelIds == 0..(Levels - 1)

None == -2             \* no value yet: no task, no destination, no history
Torn == -3             \* a buffer that is being written, or was never written

ASSUME NoneAssumption == None \notin AudioClients

AudioLevel == -1       \* the level recorded in an audio task

Blocks == Int          \* block and spectrum numbers, Torn included

Task == [client : Clients, level : LevelIds \cup {AudioLevel},
         frame : Nat, src : Blocks]

VARIABLES
    running,           \* broadcast_server::running
    pc,                \* the next statement of fft_task
    idx,               \* input_buffer_idx
    input_buffers,     \* block held by each of the three input buffers
    buffer_read,       \* the buffer the pending async read fills, or None
    blocks,            \* half-blocks read so far
    inbuf,             \* the two blocks loaded into the FFT input
    outbuf,            \* the spectrum in fft_buffer and quantizedbuf
    frame_num,
    level,             \* waterfall_loop's loop index
    signal_futures, waterfall_futures,
    queue,             \* tasks posted to the io_service and not started
    executing,         \* the task each I/O thread runs: {} or {task}
    freed,             \* memory released at the end of fft_task
    conn,              \* life cycle of each connection
    signal_slices,     \* audio clients present in the map
    signal_slice_mtx,  \* the audio client that holds the mutex, or None
    waterfall_slices,  \* waterfall clients present in the map of each level
    dest,              \* level a waterfall client is moving to, or None
    sent,              \* history: frame of the last completed send
    phase,             \* history: src - frame of the first task after opening
    heard              \* history: src of the last completed send since then

fftVars == <<pc, idx, inbuf, outbuf, frame_num, level, freed>>
readVars == <<input_buffers, buffer_read, blocks>>
taskVars == <<signal_futures, waterfall_futures, queue, executing,
              sent, phase, heard>>
clientVars == <<conn, signal_slices, signal_slice_mtx, waterfall_slices, dest>>
vars == <<running, fftVars, readVars, taskVars, clientVars>>

PcValues == {"while", "waitRead", "load0", "load1", "users", "waitSignal",
             "waitWaterfall", "execute", "executing", "postSignal",
             "postWaterfall", "free", "joinRead", "destroy", "exited"}

Init ==
    /\ running = TRUE
    /\ pc = "while"
    /\ idx = 0
    /\ input_buffers = [i \in 0..2 |-> IF i = 2 THEN Torn ELSE i - 1]
    /\ buffer_read = None
    /\ blocks = 0
    /\ inbuf = <<Torn, Torn>>
    /\ outbuf = Torn
    /\ frame_num = 0
    /\ level = 0
    /\ signal_futures = {}
    /\ waterfall_futures = {}
    /\ queue = {}
    /\ executing = [th \in IoThreads |-> {}]
    /\ freed = {}
    /\ conn = [c \in Clients |-> "new"]
    /\ signal_slices = {}
    /\ signal_slice_mtx = None
    /\ waterfall_slices = [i \in LevelIds |-> {}]
    /\ dest = [c \in WaterfallClients |-> None]
    /\ sent = [c \in Clients |-> None]
    /\ phase = [c \in Clients |-> None]
    /\ heard = [c \in Clients |-> None]

(***************************************************************************)
(* Tasks that were posted and have not completed: they hold a pointer into *)
(* the FFT output.                                                         *)
(***************************************************************************)
Outstanding == queue \cup UNION {executing[th] : th \in IoThreads}

Buf0 == idx
Buf1 == (idx + 1) % 3
MutBuf2 == (idx + 1) % 3                     \* mutant: reads into a loaded buffer
Buf2 == (idx + 2) % 3
MutNextIdx == idx + 1                        \* mutant: the index does not wrap
MutNextIdxTwo == (idx + 2) % 3               \* mutant: advances by two
NextIdx == (idx + 1) % 3

\* The conditions of the loop, the test for users, the two waits and the mutex.
Users == signal_slices \cup UNION {waterfall_slices[i] : i \in LevelIds}
MutNoUsers == \E c \in Clients : Users \subseteq {c}     \* mutant: off by one
NoUsers == Users = {}
MutSignalDone == TRUE                        \* mutant: not waited for
SignalDone == signal_futures \cap Outstanding = {}
MutWaterfallDone == TRUE                     \* mutant: not waited for
WaterfallDone == waterfall_futures \cap Outstanding = {}
MutLockSignal == TRUE                        \* mutant: signal_loop takes no lock
LockSignal == signal_slice_mtx = None

-----------------------------------------------------------------------------
(***************************************************************************)
(* The FFT thread.                                                         *)
(***************************************************************************)
While ==
    /\ pc = "while"
    /\ pc' = IF running THEN "waitRead" ELSE "free"
    /\ UNCHANGED <<running, idx, inbuf, outbuf, frame_num, level, freed,
                   readVars, taskVars, clientVars>>

\* The read of the previous iteration is awaited, then the next one is
\* launched into the buffer this iteration does not load.
StartRead ==
    /\ pc = "waitRead"
    /\ buffer_read = None
    /\ buffer_read' = Buf2
    /\ input_buffers' = [input_buffers EXCEPT ![Buf2] = Torn]
    /\ pc' = "load0"
    /\ UNCHANGED <<running, idx, inbuf, outbuf, frame_num, level, freed,
                   blocks, taskVars, clientVars>>

LoadFirst ==
    /\ pc = "load0"
    /\ inbuf' = [inbuf EXCEPT ![1] = input_buffers[Buf0]]
    /\ pc' = "load1"
    /\ UNCHANGED <<running, idx, outbuf, frame_num, level, freed,
                   readVars, taskVars, clientVars>>

LoadSecond ==
    /\ pc = "load1"
    /\ inbuf' = [inbuf EXCEPT ![2] = input_buffers[Buf1]]
    /\ pc' = "users"
    /\ UNCHANGED <<running, idx, outbuf, frame_num, level, freed,
                   readVars, taskVars, clientVars>>

\* The sizes of the maps are read without their mutexes.
CheckUsers ==
    /\ pc = "users"
    /\ idx' = NextIdx
    /\ pc' = IF NoUsers THEN "while" ELSE "waitSignal"
    /\ UNCHANGED <<running, inbuf, outbuf, frame_num, level, freed,
                   readVars, taskVars, clientVars>>

WaitSignal ==
    /\ pc = "waitSignal"
    /\ SignalDone
    /\ pc' = "waitWaterfall"
    /\ UNCHANGED <<running, idx, inbuf, outbuf, frame_num, level, freed,
                   readVars, taskVars, clientVars>>

WaitWaterfall ==
    /\ pc = "waitWaterfall"
    /\ WaterfallDone
    /\ pc' = "execute"
    /\ UNCHANGED <<running, idx, inbuf, outbuf, frame_num, level, freed,
                   readVars, taskVars, clientVars>>

\* fft->execute() rewrites the output in place ...
Execute ==
    /\ pc = "execute"
    /\ outbuf' = Torn
    /\ pc' = "executing"
    /\ UNCHANGED <<running, idx, inbuf, frame_num, level, freed,
                   readVars, taskVars, clientVars>>

\* ... and it is complete after the wrap-around copy.
ExecuteDone ==
    /\ pc = "executing"
    /\ outbuf' = inbuf[2]
    /\ pc' = "postSignal"
    /\ UNCHANGED <<running, idx, inbuf, frame_num, level, freed,
                   readVars, taskVars, clientVars>>

\* The tasks posted for the clients C of one map, and the histories they start.
Tasks(C, lvl) ==
    {[client |-> c, level |-> lvl, frame |-> frame_num, src |-> outbuf] : c \in C}
StartPhase(C) ==
    [c \in Clients |-> IF c \in C /\ conn[c] = "open" /\ phase[c] = None
                       THEN outbuf - frame_num ELSE phase[c]]

\* signal_loop holds signal_slice_mtx while it posts one task per client that
\* is not dropped for being slow.
PostSignal ==
    /\ pc = "postSignal"
    /\ LockSignal
    /\ \E dropped \in SUBSET (signal_slices \cap SlowClients) :
         LET posted == signal_slices \ dropped IN
         /\ signal_futures' = Tasks(posted, AudioLevel)
         /\ queue' = queue \cup Tasks(posted, AudioLevel)
         /\ phase' = StartPhase(posted)
    /\ IF frame_num % SkipNum = 0
       THEN /\ pc' = "postWaterfall"
            /\ level' = 0
            /\ waterfall_futures' = {}
            /\ UNCHANGED frame_num
       ELSE /\ pc' = "while"
            /\ frame_num' = frame_num + 1
            /\ UNCHANGED <<level, waterfall_futures>>
    /\ UNCHANGED <<running, idx, inbuf, outbuf, freed, executing, sent, heard,
                   readVars, clientVars>>

\* One iteration of waterfall_loop: one level, under that level's mutex.
PostWaterfall ==
    /\ pc = "postWaterfall"
    /\ \E dropped \in SUBSET (waterfall_slices[level] \cap SlowClients) :
         LET posted == waterfall_slices[level] \ dropped IN
         /\ waterfall_futures' = waterfall_futures \cup Tasks(posted, level)
         /\ queue' = queue \cup Tasks(posted, level)
         /\ phase' = StartPhase(posted)
    /\ IF level + 1 < Levels
       THEN /\ level' = level + 1
            /\ UNCHANGED <<pc, frame_num>>
       ELSE /\ pc' = "while"
            /\ frame_num' = frame_num + 1
            /\ UNCHANGED level
    /\ UNCHANGED <<running, idx, inbuf, outbuf, freed, executing, sent, heard,
                   signal_futures, readVars, clientVars>>

\* After the loop the input buffers are freed, then the locals are destroyed
\* in reverse order: the future of the pending read blocks, those of the
\* posted tasks do not, and the FFT goes last with its output buffers.
FreeInput ==
    /\ pc = "free"
    /\ freed' = freed \cup {"input"}
    /\ pc' = "joinRead"
    /\ UNCHANGED <<running, idx, inbuf, outbuf, frame_num, level,
                   readVars, taskVars, clientVars>>

JoinRead ==
    /\ pc = "joinRead"
    /\ buffer_read = None
    /\ pc' = "destroy"
    /\ UNCHANGED <<running, idx, inbuf, outbuf, frame_num, level, freed,
                   readVars, taskVars, clientVars>>

DestroyFft ==
    /\ pc = "destroy"
    /\ freed' = freed \cup {"output"}
    /\ pc' = "exited"
    /\ UNCHANGED <<running, idx, inbuf, outbuf, frame_num, level,
                   readVars, taskVars, clientVars>>

FftTask == \/ While \/ StartRead \/ LoadFirst \/ LoadSecond \/ CheckUsers
           \/ WaitSignal \/ WaitWaterfall \/ Execute \/ ExecuteDone
           \/ PostSignal \/ PostWaterfall
           \/ FreeInput \/ JoinRead \/ DestroyFft
-----------------------------------------------------------------------------
(***************************************************************************)
(* The asynchronous reader and the I/O threads.                            *)
(***************************************************************************)
FinishRead ==
    /\ buffer_read # None
    /\ blocks < MaxBlocks
    /\ blocks' = blocks + 1
    /\ input_buffers' = [input_buffers EXCEPT ![buffer_read] = blocks + 1]
    /\ buffer_read' = None
    /\ UNCHANGED <<running, fftVars, taskVars, clientVars>>

StartTask(th, t) ==
    /\ executing[th] = {}
    /\ executing' = [executing EXCEPT ![th] = {t}]
    /\ queue' = queue \ {t}
    /\ UNCHANGED <<running, fftVars, readVars, signal_futures, waterfall_futures,
                   sent, phase, heard, clientVars>>

FinishTask(th) ==
    /\ \E t \in executing[th] :
         /\ sent' = [sent EXCEPT ![t.client] = t.frame]
         /\ heard' = [heard EXCEPT ![t.client] =
                                   IF phase[t.client] = None THEN None ELSE t.src]
    /\ executing' = [executing EXCEPT ![th] = {}]
    /\ UNCHANGED <<running, fftVars, readVars, signal_futures, waterfall_futures,
                   queue, phase, clientVars>>

IoThread(th) == (\E t \in queue : StartTask(th, t)) \/ FinishTask(th)
-----------------------------------------------------------------------------
(***************************************************************************)
(* The handlers, as far as the FFT thread can see them: the maps' nodes.   *)
(***************************************************************************)
OpenAudio(c) ==
    /\ conn[c] = "new"
    /\ signal_slice_mtx = None
    /\ conn' = [conn EXCEPT ![c] = "opening"]
    /\ signal_slices' = signal_slices \cup {c}
    /\ UNCHANGED <<running, fftVars, readVars, taskVars, signal_slice_mtx,
                   waterfall_slices, dest>>

\* set_audio_range: the node is out of the map between extract and insert.
ExtractAudio(c) ==
    /\ conn[c] = "opening" \/ (conn[c] = "open" /\ c \in Retuners)
    /\ signal_slice_mtx = None
    /\ signal_slice_mtx' = c
    /\ signal_slices' = signal_slices \ {c}
    /\ UNCHANGED <<running, fftVars, readVars, taskVars, conn,
                   waterfall_slices, dest>>

\* Mutant: the mutex stays locked.
MutInsertAudio(c) ==
    /\ signal_slice_mtx = c
    /\ c \notin signal_slices
    /\ signal_slices' = signal_slices \cup {c}
    /\ conn' = [conn EXCEPT ![c] = "open"]
    /\ UNCHANGED <<running, fftVars, readVars, taskVars, signal_slice_mtx,
                   waterfall_slices, dest>>

InsertAudio(c) ==
    /\ signal_slice_mtx = c
    /\ signal_slice_mtx' = None
    /\ signal_slices' = signal_slices \cup {c}
    /\ conn' = [conn EXCEPT ![c] = "open"]
    /\ UNCHANGED <<running, fftVars, readVars, taskVars, waterfall_slices, dest>>

CloseAudio(c) ==
    /\ conn[c] = "open"
    /\ signal_slice_mtx = None
    /\ conn' = [conn EXCEPT ![c] = "closed"]
    /\ signal_slices' = signal_slices \ {c}
    /\ UNCHANGED <<running, fftVars, readVars, taskVars, signal_slice_mtx,
                   waterfall_slices, dest>>

OpenWaterfall(c) ==
    /\ conn[c] = "new"
    /\ conn' = [conn EXCEPT ![c] = "opening"]
    /\ waterfall_slices' = [waterfall_slices EXCEPT ![0] = @ \cup {c}]
    /\ UNCHANGED <<running, fftVars, readVars, taskVars, signal_slices,
                   signal_slice_mtx, dest>>

\* set_waterfall_range takes two mutexes one after the other: in between the
\* node is in no map and nothing is locked.  Opening moves it to the last level.
ExtractWaterfall(c, i, k) ==
    /\ \/ conn[c] = "opening" /\ k = Levels - 1
       \/ conn[c] = "open" /\ c \in Retuners
    /\ c \in waterfall_slices[i]
    /\ waterfall_slices' = [waterfall_slices EXCEPT ![i] = @ \ {c}]
    /\ dest' = [dest EXCEPT ![c] = k]
    /\ UNCHANGED <<running, fftVars, readVars, taskVars, conn, signal_slices,
                   signal_slice_mtx>>

InsertWaterfall(c) ==
    /\ dest[c] # None
    /\ waterfall_slices' = [waterfall_slices EXCEPT ![dest[c]] = @ \cup {c}]
    /\ dest' = [dest EXCEPT ![c] = None]
    /\ conn' = [conn EXCEPT ![c] = "open"]
    /\ UNCHANGED <<running, fftVars, readVars, taskVars, signal_slices,
                   signal_slice_mtx>>

CloseWaterfall(c) ==
    /\ conn[c] = "open"
    /\ dest[c] = None
    /\ conn' = [conn EXCEPT ![c] = "closed"]
    /\ waterfall_slices' = [i \in LevelIds |-> waterfall_slices[i] \ {c}]
    /\ UNCHANGED <<running, fftVars, readVars, taskVars, signal_slices,
                   signal_slice_mtx, dest>>

Handlers ==
    \/ \E c \in AudioClients : \/ OpenAudio(c) \/ ExtractAudio(c)
                               \/ InsertAudio(c) \/ CloseAudio(c)
    \/ \E c \in WaterfallClients :
         \/ OpenWaterfall(c) \/ InsertWaterfall(c) \/ CloseWaterfall(c)
         \/ \E i, k \in LevelIds : ExtractWaterfall(c, i, k)

Stop ==
    /\ running
    /\ running' = FALSE
    /\ UNCHANGED <<fftVars, readVars, taskVars, clientVars>>
-----------------------------------------------------------------------------
Next ==
    \/ FftTask
    \/ FinishRead
    \/ \E th \in IoThreads : IoThread(th)
    \/ Handlers
    \/ Stop

Spec == Init /\ [][Next]_vars

(***************************************************************************)
(* Every thread that can run does, a handler that has extracted a node     *)
(* inserts it again, and the mutexes the FFT thread needs, released again  *)
(* and again, are eventually granted to it.  Nobody has to connect,        *)
(* retune, leave or stop the server.                                       *)
(***************************************************************************)
Fairness ==
    /\ SF_vars(FftTask)
    /\ WF_vars(FinishRead)
    /\ \A th \in IoThreads : WF_vars(IoThread(th))
    /\ \A c \in AudioClients : WF_vars(InsertAudio(c))
    /\ \A c \in WaterfallClients : WF_vars(InsertWaterfall(c))

FairSpec == Spec /\ Fairness
-----------------------------------------------------------------------------
(***************************************************************************)
(* Properties.                                                             *)
(***************************************************************************)

\* Every variable holds a value of its type.
TypeOK ==
    /\ running \in BOOLEAN
    /\ pc \in PcValues
    /\ idx \in 0..2
    /\ input_buffers \in [0..2 -> Blocks]
    /\ buffer_read \in 0..2 \cup {None}
    /\ blocks \in Nat
    /\ inbuf \in [1..2 -> Blocks]
    /\ outbuf \in Blocks
    /\ frame_num \in Nat
    /\ level \in LevelIds
    /\ signal_futures \subseteq Task
    /\ waterfall_futures \subseteq Task
    /\ queue \subseteq Task
    /\ executing \in [IoThreads -> SUBSET Task]
    /\ \A th \in IoThreads : \A t, u \in executing[th] : t = u
    /\ freed \subseteq {"input", "output"}
    /\ conn \in [Clients -> {"new", "opening", "open", "closed"}]
    /\ signal_slices \subseteq AudioClients
    /\ signal_slice_mtx \in AudioClients \cup {None}
    /\ waterfall_slices \in [LevelIds -> SUBSET WaterfallClients]
    /\ dest \in [WaterfallClients -> LevelIds \cup {None}]
    /\ sent \in [Clients -> Int]
    /\ phase \in [Clients -> Int]
    /\ heard \in [Clients -> Blocks]

\* A slice that is posted or being sent still holds the spectrum it was posted
\* for: fft->execute() never runs under a client (the waits of fft.cpp:83-88).
OutputStable == \A t \in Outstanding : t.src = outbuf

\* What is transformed is two whole, consecutive half-blocks, never a buffer
\* the asynchronous read is filling (the rotation of fft.cpp:50-71).
Transforming == {"users", "waitSignal", "waitWaterfall", "execute", "executing"}
SpectrumWhole ==
    pc \in Transforming => /\ inbuf[1] >= -1
                           /\ inbuf[2] = inbuf[1] + 1

\* Frames overlap by half: the first half of each transform is the second half
\* of the one before, whether or not that one was skipped.
HalfOverlap ==
    [][inbuf'[1] # inbuf[1] => inbuf'[1] = inbuf[2] \/ inbuf[2] = Torn]_vars

\* A client's demodulator state is never used by two threads at once: at most
\* one send_audio of a client is posted or running.
OneAudioTask ==
    \A t, u \in Outstanding :
        t.client = u.client /\ t.client \in AudioClients => t = u

\* No client is ever sent an older frame after a newer one, although any
\* I/O thread may run any task.
SentInOrder == [][\A c \in Clients : sent'[c] >= sent[c]]_vars

\* Overlap-add needs the frame before.  An audio client that is not slow is sent
\* every transform that is made once it has had one, also while it retunes; and if
\* it stays where it is, those transforms are of every half-block read.  The second
\* part is not true of a client that retunes: while its handler has its node out of
\* the map and nobody else is connected, fft.cpp:72-80 takes the loop for idle, and
\* the half-block read meanwhile is never transformed.
NoAudioGap ==
    [][\A c \in AudioClients \ SlowClients :
          /\ sent'[c] # sent[c] /\ sent[c] # None => sent'[c] = sent[c] + 1
          /\ heard'[c] # heard[c] /\ heard[c] # None /\ c \notin Retuners
                => heard'[c] = heard[c] + 1]_vars

\* send_audio inverts odd frames, so for one client the frame number must keep
\* step with the half-blocks.  It does for every client that never retunes,
\* whatever the others do.
PhaseKept ==
    \A t \in Outstanding :
        t.client \notin Retuners /\ phase[t.client] # None
            => t.src - t.frame = phase[t.client]

\* The output buffer behaves as SharedSpectrum promises: lent whole, returned by
\* every task, and only then rewritten.
Spectrum == INSTANCE SharedSpectrum WITH content <- outbuf, readers <- Outstanding
ImplementsSharedSpectrum == Spectrum!Spec

\* The waits for the clients and for the mutex end: a frame once begun is
\* transformed and posted.
FrameCompletes == pc = "waitSignal" ~> pc = "while"

(***************************************************************************)
(* The inductive invariants behind OutputStable, SpectrumWhole and         *)
(* HalfOverlap.                                                            *)
(***************************************************************************)

\* Whoever still reads the output is in one of the vectors of futures, and none
\* is left once both vectors have been waited for.
WaitInv ==
    /\ Outstanding \subseteq signal_futures \cup waterfall_futures
    /\ pc = "waitWaterfall" => signal_futures \cap Outstanding = {}
    /\ pc \in {"execute", "executing", "postSignal"} => Outstanding = {}
    /\ pc \in {"postSignal", "postWaterfall"} => outbuf # Torn
    /\ pc = "executing" => outbuf = Torn
    /\ OutputStable

\* Where the last blocks read are.  While loading, the pending read fills Buf2;
\* once idx has advanced that buffer is Buf1.
Loading == {"load0", "load1", "users"}
BufferInv ==
    /\ pc \in Loading =>
         \/ /\ buffer_read = Buf2
            /\ input_buffers[Buf1] = blocks
            /\ input_buffers[Buf0] = blocks - 1
         \/ /\ buffer_read = None /\ blocks >= 1
            /\ input_buffers[Buf2] = blocks
            /\ input_buffers[Buf1] = blocks - 1
            /\ input_buffers[Buf0] = blocks - 2
    /\ pc \notin Loading =>
         \/ buffer_read = Buf1 /\ input_buffers[Buf0] = blocks
         \/ /\ buffer_read = None
            /\ input_buffers[Buf1] = blocks
            /\ input_buffers[Buf0] = blocks - 1

\* What has been loaded, relative to the buffer the next transform starts with.
InbufInv ==
    /\ pc \in Transforming => inbuf[1] >= -1 /\ inbuf[2] = inbuf[1] + 1
    /\ pc \notin Loading => inbuf[2] \in {Torn, input_buffers[Buf0]}
    /\ pc = "load0" => inbuf[2] \in {Torn, input_buffers[Buf0]}
    /\ pc = "load1" => inbuf[1] = input_buffers[Buf0]
    /\ pc = "users" => inbuf[2] = input_buffers[Buf1]

(***************************************************************************)
(* Those behind SentInOrder, NoAudioGap and PhaseKept.                     *)
(***************************************************************************)

\* Where the clients' nodes are.  Only a client that moves is out of its map, and
\* an audio client only while its handler holds the mutex.
AudioNode(c) ==
    /\ c \in signal_slices => conn[c] \in {"opening", "open"}
    /\ conn[c] \in {"opening", "open"} /\ signal_slice_mtx # c => c \in signal_slices
    /\ signal_slice_mtx = c => \/ conn[c] = "opening"
                               \/ conn[c] = "open" /\ c \in Retuners
WaterfallNode(c) ==
    /\ \A i \in LevelIds : c \in waterfall_slices[i] => conn[c] \in {"opening", "open"}
    /\ dest[c] # None => \/ conn[c] = "opening"
                         \/ conn[c] = "open" /\ c \in Retuners
    /\ conn[c] = "open" /\ c \notin Retuners =>
         \E i \in LevelIds : c \in waterfall_slices[i]
NodesInv == /\ \A c \in AudioClients : AudioNode(c)
            /\ \A c \in WaterfallClients : WaterfallNode(c)

\* The tasks of one frame are done before those of the next are posted: all that
\* are outstanding, and the newest ever sent, are of the frame posted last.
Posted == IF pc = "postWaterfall" THEN frame_num ELSE frame_num - 1
HasTask(c) == \E t \in Outstanding : t.client = c
FrameInv ==
    /\ \A t \in Outstanding : t.frame = Posted
    /\ \A c \in Clients : sent[c] <= Posted
    /\ \A c \in Clients : conn[c] = "new" => sent[c] = None /\ ~HasTask(c)

\* An audio client that is not slow is sent every frame: until it leaves it has
\* been sent the last one or has a task for it, and nothing older is missing.
Fed(c) ==
    sent[c] # None => /\ conn[c] # "closed" => sent[c] = Posted \/ HasTask(c)
                      /\ HasTask(c) => sent[c] >= Posted - 1
GapInv == \A c \in AudioClients \ SlowClients : Fed(c)

\* By how much the block the next, or the present, transform ends with is ahead
\* of the frame number: it grows by one when a frame is skipped, which does not
\* happen while a client that stays put is connected.
Transformed == {"waitSignal", "waitWaterfall", "execute", "executing",
                "postSignal", "postWaterfall"}
Ahead == input_buffers[Buf0] + (IF pc \in Transformed THEN 0 ELSE 1) - frame_num
PhaseInv ==
    /\ pc \in {"postSignal", "postWaterfall"} => outbuf = input_buffers[Buf0]
    /\ \A c \in Clients : phase[c] # None => conn[c] \in {"open", "closed"}
    /\ \A c \in Clients \ Retuners :
         phase[c] # None /\ conn[c] = "open" => phase[c] = Ahead
    /\ PhaseKept

\* The half-blocks a client has been sent are those of the frames it has been sent.
HeardInv ==
    \A c \in Clients \ Retuners :
        heard[c] # None => /\ phase[c] # None /\ sent[c] # None
                           /\ heard[c] = sent[c] + phase[c]

IInv == /\ TypeOK /\ WaitInv /\ BufferInv /\ InbufInv
        /\ NodesInv /\ FrameInv /\ GapInv /\ PhaseInv /\ HeardInv

\* After stop() the FFT thread ends, unless it is blocked on a read that the
\* input no longer completes: it cannot be stuck on a client or on the mutex.
ReadBlocked ==
    pc \in {"waitRead", "joinRead"} /\ buffer_read # None /\ blocks = MaxBlocks
ThreadEnds == ~running ~> (pc = "exited" \/ ReadBlocked)

\* fft.cpp:82 says the clients are waited for; at the end of fft_task they are
\* not, and the output they read is freed.
OutputOutlivesTasks == "output" \in freed => Outstanding = {}

\* fft.cpp:72 says the FFT is skipped if there are no users.
SkipOnlyWithoutUsers ==
    [][pc = "users" /\ pc' = "while" => \A c \in Clients : conn[c] # "open"]_vars

\* websocket.cpp:215 says each waterfall client is sent its slice; a client
\* that moves up during the loop is sent two, to one encoder.
OneSlicePerClient ==
    \A t, u \in Outstanding : t.client = u.client => t = u
=============================================================================
