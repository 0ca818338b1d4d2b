-------------------------- MODULE FrameLoopProofs --------------------------
(***************************************************************************)
(* Proofs about FrameLoop: type correctness, the stability of the output   *)
(* under the clients, the triple buffering of the input, and the           *)
(* refinement of SharedSpectrum.                                           *)
(***************************************************************************)
EXTENDS FrameLoop, TLAPS

\* The initial state has the declared types.
LEMMA InitType == Init => TypeOK
  BY LevelsAssumption, SMTT(30)
     DEF Init, TypeOK, PcValues, Blocks, LevelIds, None, Torn, Clients

\* Every step of the FFT thread, of the reader, of an I/O thread, of a handler
\* and of stop() keeps the types.
LEMMA NextType == TypeOK /\ [Next]_vars => TypeOK'
<1> SUFFICES ASSUME TypeOK, [Next]_vars PROVE TypeOK'
  OBVIOUS
<1> USE LevelsAssumption, SkipNumAssumption, MaxBlocksAssumption
<1>1. CASE While
  BY <1>1 DEF While, TypeOK, PcValues, readVars, taskVars, clientVars
<1>2. CASE StartRead
  BY <1>2 DEF StartRead, TypeOK, PcValues, taskVars, clientVars, Buf2, Torn, Blocks, None
<1>3. CASE LoadFirst
  BY <1>3 DEF LoadFirst, TypeOK, PcValues, readVars, taskVars, clientVars, Buf0
<1>4. CASE LoadSecond
  BY <1>4 DEF LoadSecond, TypeOK, PcValues, readVars, taskVars, clientVars, Buf1
<1>5. CASE CheckUsers
  BY <1>5 DEF CheckUsers, NextIdx, TypeOK, PcValues, readVars, taskVars, clientVars
<1>6. CASE WaitSignal
  BY <1>6 DEF WaitSignal, TypeOK, PcValues, readVars, taskVars, clientVars
<1>7. CASE WaitWaterfall
  BY <1>7 DEF WaitWaterfall, TypeOK, PcValues, readVars, taskVars, clientVars
<1>8. CASE Execute
  BY <1>8 DEF Execute, TypeOK, PcValues, readVars, taskVars, clientVars, Torn, Blocks
<1>9. CASE ExecuteDone
  BY <1>9 DEF ExecuteDone, TypeOK, PcValues, readVars, taskVars, clientVars, Blocks
<1>10. CASE PostSignal
  <2>1. \A C \in SUBSET AudioClients : /\ Tasks(C, AudioLevel) \subseteq Task
                                       /\ StartPhase(C) \in [Clients -> Int]
    BY DEF TypeOK, Tasks, Task, StartPhase, Clients, Blocks
  <2>2. queue' \subseteq Task /\ signal_futures' \subseteq Task /\ phase' \in [Clients -> Int]
    BY <1>10, <2>1 DEF PostSignal, TypeOK
  <2>3. /\ pc' \in PcValues /\ level' \in LevelIds /\ frame_num' \in Nat
        /\ waterfall_futures' \subseteq Task
    BY <1>10 DEF PostSignal, TypeOK, PcValues, LevelIds
  <2> QED
    BY <1>10, <2>2, <2>3 DEF PostSignal, TypeOK, readVars, clientVars
<1>11. CASE PostWaterfall
  <2>1. \A C \in SUBSET WaterfallClients : /\ Tasks(C, level) \subseteq Task
                                           /\ StartPhase(C) \in [Clients -> Int]
    BY DEF TypeOK, Tasks, Task, StartPhase, Clients, Blocks
  <2>2. /\ queue' \subseteq Task /\ waterfall_futures' \subseteq Task
        /\ phase' \in [Clients -> Int]
    BY <1>11, <2>1 DEF PostWaterfall, TypeOK
  <2>3. pc' \in PcValues /\ level' \in LevelIds /\ frame_num' \in Nat
    BY <1>11 DEF PostWaterfall, TypeOK, PcValues, LevelIds
  <2> QED
    BY <1>11, <2>2, <2>3 DEF PostWaterfall, TypeOK, readVars, clientVars
<1>12. CASE FreeInput
  BY <1>12 DEF FreeInput, TypeOK, PcValues, readVars, taskVars, clientVars
<1>13. CASE JoinRead
  BY <1>13 DEF JoinRead, TypeOK, PcValues, readVars, taskVars, clientVars
<1>14. CASE DestroyFft
  BY <1>14 DEF DestroyFft, TypeOK, PcValues, readVars, taskVars, clientVars
<1>15. CASE FinishRead
  BY <1>15 DEF FinishRead, TypeOK, fftVars, taskVars, clientVars, Blocks
<1>16. ASSUME NEW th \in IoThreads, NEW t \in queue, StartTask(th, t) PROVE TypeOK'
  BY <1>16 DEF StartTask, TypeOK, fftVars, readVars, clientVars
<1>17. ASSUME NEW th \in IoThreads, FinishTask(th) PROVE TypeOK'
  <2>1. PICK t \in Task :
          /\ sent' = [sent EXCEPT ![t.client] = t.frame]
          /\ heard' = [heard EXCEPT ![t.client] =
                                    IF phase[t.client] = None THEN None ELSE t.src]
    BY <1>17 DEF FinishTask, TypeOK
  <2>2. t.frame \in Int /\ t.src \in Int /\ None \in Int
    BY DEF Task, Blocks, None
  <2>3. sent' \in [Clients -> Int]
    BY <2>1, <2>2 DEF TypeOK
  <2>4. heard' \in [Clients -> Blocks]
    BY <2>1, <2>2 DEF TypeOK, Blocks
  <2> QED
    BY <1>17, <2>3, <2>4 DEF FinishTask, TypeOK, fftVars, readVars, clientVars
<1>18. ASSUME NEW c \in AudioClients,
              OpenAudio(c) \/ ExtractAudio(c) \/ InsertAudio(c) \/ CloseAudio(c)
       PROVE  TypeOK'
  BY <1>18 DEF OpenAudio, ExtractAudio, InsertAudio, CloseAudio, TypeOK,
               fftVars, readVars, taskVars, Clients
<1>19. ASSUME NEW c \in WaterfallClients,
              OpenWaterfall(c) \/ InsertWaterfall(c) \/ CloseWaterfall(c)
       PROVE  TypeOK'
  <2>1. CASE OpenWaterfall(c)
    <3>1. 0 \in LevelIds /\ c \in Clients
      BY DEF LevelIds, Clients
    <3> QED
      BY <2>1, <3>1 DEF OpenWaterfall, TypeOK, fftVars, readVars, taskVars
  <2>2. CASE InsertWaterfall(c)
    <3>1. dest[c] \in LevelIds /\ c \in Clients
      BY <2>2 DEF InsertWaterfall, TypeOK, Clients
    <3> QED
      BY <2>2, <3>1 DEF InsertWaterfall, TypeOK, fftVars, readVars, taskVars
  <2>3. CASE CloseWaterfall(c)
    <3>1. c \in Clients
      BY DEF Clients
    <3> QED
      BY <2>3, <3>1 DEF CloseWaterfall, TypeOK, fftVars, readVars, taskVars
  <2> QED
    BY <1>19, <2>1, <2>2, <2>3
<1>20. ASSUME NEW c \in WaterfallClients, NEW i \in LevelIds, NEW k \in LevelIds,
              ExtractWaterfall(c, i, k)
       PROVE  TypeOK'
  BY <1>20 DEF ExtractWaterfall, TypeOK, fftVars, readVars, taskVars
<1>21. CASE Stop
  BY <1>21 DEF Stop, TypeOK, fftVars, readVars, taskVars, clientVars
<1>22. CASE UNCHANGED vars
  BY <1>22 DEF TypeOK, vars, fftVars, readVars, taskVars, clientVars
<1> QED
  BY <1>1, <1>2, <1>3, <1>4, <1>5, <1>6, <1>7, <1>8, <1>9, <1>10, <1>11,
     <1>12, <1>13, <1>14, <1>15, <1>16, <1>17, <1>18, <1>19, <1>20, <1>21,
     <1>22 DEF Next, FftTask, IoThread, Handlers

\* Every variable of FrameLoop keeps its type in every reachable state.
THEOREM TypeCorrect == Spec => []TypeOK
<1> QED
  BY InitType, NextType, PTL DEF Spec

-----------------------------------------------------------------------------
(***************************************************************************)
(* The output side.                                                        *)
(***************************************************************************)

\* A step that leaves the queue, the I/O threads, the futures, the output and
\* pc's relevant values alone keeps WaitInv.
LEMMA WaitStutter ==
  ASSUME WaitInv, UNCHANGED <<outbuf, taskVars>>,
         pc' = pc \/ pc' \notin {"waitWaterfall", "execute", "executing",
                                 "postSignal", "postWaterfall"}
  PROVE  WaitInv'
<1>1. Outstanding' = Outstanding
  BY DEF Outstanding, taskVars
<1> QED
  BY <1>1 DEF WaitInv, OutputStable, taskVars

\* Nothing is posted initially.
LEMMA InitWait == Init => WaitInv
<1> SUFFICES ASSUME Init PROVE WaitInv
  OBVIOUS
<1>1. Outstanding = {}
  BY DEF Init, Outstanding
<1> QED
  BY <1>1 DEF Init, WaitInv, OutputStable

\* The waits of fft_task establish, and posting keeps, that every task that is
\* not done is in a vector of futures.
LEMMA NextWait == TypeOK /\ WaitInv /\ InbufInv /\ [Next]_vars => WaitInv'
<1> SUFFICES ASSUME TypeOK, WaitInv, InbufInv, [Next]_vars PROVE WaitInv'
  OBVIOUS
<1>1. CASE While
  BY <1>1, WaitStutter DEF While
<1>2. CASE StartRead
  BY <1>2, WaitStutter DEF StartRead
<1>3. CASE LoadFirst
  BY <1>3, WaitStutter DEF LoadFirst
<1>4. CASE LoadSecond
  BY <1>4, WaitStutter DEF LoadSecond
<1>5. CASE CheckUsers
  BY <1>5, WaitStutter DEF CheckUsers
<1>6. CASE WaitSignal
  <2>1. Outstanding' = Outstanding
    BY <1>6 DEF WaitSignal, Outstanding, taskVars
  <2> QED
    BY <1>6, <2>1 DEF WaitSignal, SignalDone, WaitInv, OutputStable, taskVars
<1>7. CASE WaitWaterfall
  <2>1. Outstanding' = Outstanding
    BY <1>7 DEF WaitWaterfall, Outstanding, taskVars
  <2>2. Outstanding = {}
    BY <1>7 DEF WaitWaterfall, WaterfallDone, WaitInv
  <2> QED
    BY <1>7, <2>1, <2>2 DEF WaitWaterfall, WaitInv, OutputStable, taskVars
<1>8. CASE Execute
  <2>1. Outstanding' = {}
    BY <1>8 DEF Execute, Outstanding, taskVars, WaitInv
  <2> QED
    BY <1>8, <2>1 DEF Execute, WaitInv, OutputStable, taskVars
<1>9. CASE ExecuteDone
  <2>1. Outstanding' = {}
    BY <1>9 DEF ExecuteDone, Outstanding, taskVars, WaitInv
  <2>2. outbuf' # Torn
    BY <1>9 DEF ExecuteDone, InbufInv, Transforming, TypeOK, Torn, Blocks
  <2> QED
    BY <1>9, <2>1, <2>2 DEF ExecuteDone, WaitInv, OutputStable, taskVars
<1>10. CASE PostSignal
  <2>1. PICK C \in SUBSET Clients :
            /\ signal_futures' = Tasks(C, AudioLevel)
            /\ queue' = queue \cup Tasks(C, AudioLevel)
    BY <1>10 DEF PostSignal, TypeOK, Clients
  <2>2. Outstanding = {} /\ outbuf # Torn
    BY <1>10 DEF PostSignal, WaitInv
  <2>3. Outstanding' = Tasks(C, AudioLevel)
    BY <1>10, <2>1, <2>2 DEF PostSignal, Outstanding
  <2>4. \A t \in Tasks(C, AudioLevel) : t.src = outbuf
    BY DEF Tasks
  <2>5. outbuf' = outbuf /\ pc' \in {"postWaterfall", "while"}
    BY <1>10 DEF PostSignal
  <2> QED
    BY <2>1, <2>2, <2>3, <2>4, <2>5 DEF WaitInv, OutputStable
<1>11. CASE PostWaterfall
  <2>1. PICK C \in SUBSET Clients :
            /\ waterfall_futures' = waterfall_futures \cup Tasks(C, level)
            /\ queue' = queue \cup Tasks(C, level)
    BY <1>11 DEF PostWaterfall, TypeOK, Clients
  <2>2. outbuf # Torn
    BY <1>11 DEF PostWaterfall, WaitInv
  <2>3. Outstanding' = Outstanding \cup Tasks(C, level)
    BY <1>11, <2>1 DEF PostWaterfall, Outstanding
  <2>4. \A t \in Tasks(C, level) : t.src = outbuf
    BY DEF Tasks
  <2>5. /\ outbuf' = outbuf /\ signal_futures' = signal_futures
        /\ pc' \in {"postWaterfall", "while"}
    BY <1>11 DEF PostWaterfall
  <2> QED
    BY <2>1, <2>2, <2>3, <2>4, <2>5 DEF WaitInv, OutputStable
<1>12. CASE FreeInput \/ JoinRead \/ DestroyFft
  BY <1>12, WaitStutter DEF FreeInput, JoinRead, DestroyFft
<1>13. CASE FinishRead \/ Handlers \/ Stop \/ UNCHANGED vars
  <2>1. UNCHANGED <<pc, outbuf, taskVars>>
    BY <1>13 DEF FinishRead, Handlers, Stop, vars, fftVars, OpenAudio,
                 ExtractAudio, InsertAudio, CloseAudio, OpenWaterfall,
                 ExtractWaterfall, InsertWaterfall, CloseWaterfall
  <2> QED
    BY <2>1, WaitStutter
<1>14. ASSUME NEW th \in IoThreads, IoThread(th) PROVE WaitInv'
  <2>1. Outstanding' \subseteq Outstanding
    <3>1. ASSUME NEW t \in queue, StartTask(th, t)
          PROVE  Outstanding' \subseteq Outstanding
      BY <3>1 DEF StartTask, Outstanding, TypeOK
    <3>2. CASE FinishTask(th)
      BY <3>2 DEF FinishTask, Outstanding, TypeOK
    <3> QED
      BY <1>14, <3>1, <3>2 DEF IoThread
  <2>2. UNCHANGED <<pc, outbuf, signal_futures, waterfall_futures>>
    BY <1>14 DEF IoThread, StartTask, FinishTask, fftVars
  <2> QED
    BY <2>1, <2>2 DEF WaitInv, OutputStable
<1> QED
  BY <1>1, <1>2, <1>3, <1>4, <1>5, <1>6, <1>7, <1>8, <1>9, <1>10, <1>11,
     <1>12, <1>13, <1>14 DEF Next, FftTask

-----------------------------------------------------------------------------
(***************************************************************************)
(* The input side.                                                         *)
(***************************************************************************)

\* The three buffer indices are distinct, and advancing idx shifts them.
LEMMA Rotation ==
  ASSUME TypeOK
  PROVE  /\ Buf0 \in 0..2 /\ Buf1 \in 0..2 /\ Buf2 \in 0..2
         /\ Buf0 # Buf1 /\ Buf1 # Buf2 /\ Buf0 # Buf2
         /\ (Buf1 + 1) % 3 = Buf2 /\ (Buf1 + 2) % 3 = Buf0
<1>1. idx = 0 \/ idx = 1 \/ idx = 2
  BY DEF TypeOK
<1> QED
  BY <1>1 DEF Buf0, Buf1, Buf2

\* The first two buffers stand for the blocks -1 and 0.
LEMMA InitInput == Init => BufferInv /\ InbufInv
  BY DEF Init, BufferInv, InbufInv, Loading, Transforming, Buf0, Buf1, Buf2, Torn, None

\* A step that changes neither the buffers, nor the read, nor the loaded blocks.
LEMMA InputStutter ==
  ASSUME BufferInv, InbufInv, UNCHANGED <<idx, readVars, inbuf>>,
         \/ pc' = pc
         \/ pc \notin Loading /\ pc' \notin Loading /\ pc \in Transforming
         \/ pc \notin Loading /\ pc' \notin Loading /\ pc' \notin Transforming
  PROVE  BufferInv' /\ InbufInv'
  BY Zenon DEF BufferInv, InbufInv, Buf0, Buf1, Buf2, readVars, Loading, Transforming

\* Starting a read, loading, advancing idx and the end of a read keep track of
\* where the newest blocks are.
LEMMA NextInput ==
  TypeOK /\ BufferInv /\ InbufInv /\ [Next]_vars => BufferInv' /\ InbufInv'
<1> SUFFICES ASSUME TypeOK, BufferInv, InbufInv, [Next]_vars
             PROVE  BufferInv' /\ InbufInv'
  OBVIOUS
<1>0. pc \in PcValues
  BY DEF TypeOK
<1>1. CASE While \/ FreeInput \/ JoinRead \/ DestroyFft
  <2>1. UNCHANGED <<idx, readVars, inbuf>>
    BY <1>1 DEF While, FreeInput, JoinRead, DestroyFft
  <2>2. pc \notin Loading /\ pc' \notin Loading /\ pc' \notin Transforming
    BY <1>1 DEF While, FreeInput, JoinRead, DestroyFft, Loading, Transforming
  <2> QED
    BY <2>1, <2>2, InputStutter
<1>2. CASE WaitSignal \/ WaitWaterfall \/ Execute \/ ExecuteDone
  <2>1. UNCHANGED <<idx, readVars, inbuf>>
    BY <1>2 DEF WaitSignal, WaitWaterfall, Execute, ExecuteDone
  <2>2. pc \notin Loading /\ pc' \notin Loading /\ pc \in Transforming
    BY <1>2 DEF WaitSignal, WaitWaterfall, Execute, ExecuteDone, Loading, Transforming
  <2> QED
    BY <2>1, <2>2, InputStutter
<1>3. CASE PostSignal \/ PostWaterfall
  <2>1. UNCHANGED <<idx, readVars, inbuf>>
    BY <1>3 DEF PostSignal, PostWaterfall
  <2>2. pc \notin Loading /\ pc' \notin Loading /\ pc' \notin Transforming
    BY <1>3 DEF PostSignal, PostWaterfall, Loading, Transforming
  <2> QED
    BY <2>1, <2>2, InputStutter
<1>4. CASE StartRead
  <2>1. /\ input_buffers[Buf1] = blocks /\ input_buffers[Buf0] = blocks - 1
        /\ inbuf[2] \in {Torn, input_buffers[Buf0]}
    BY <1>4, Rotation DEF StartRead, BufferInv, InbufInv, Loading, None
  <2>2. /\ input_buffers'[Buf1] = blocks /\ input_buffers'[Buf0] = blocks - 1
        /\ buffer_read' = Buf2 /\ pc' = "load0"
        /\ UNCHANGED <<idx, blocks, inbuf>>
    BY <1>4, <2>1, Rotation DEF StartRead, TypeOK
  <2> QED
    BY <2>1, <2>2 DEF BufferInv, InbufInv, Loading, Transforming, Buf0, Buf1, Buf2
<1>5. CASE LoadFirst
  <2>1. /\ inbuf'[1] = input_buffers[Buf0] /\ pc = "load0" /\ pc' = "load1"
        /\ UNCHANGED <<idx, input_buffers, buffer_read, blocks>>
    BY <1>5 DEF LoadFirst, TypeOK, readVars
  <2> QED
    BY <2>1 DEF BufferInv, InbufInv, Loading, Transforming, Buf0, Buf1, Buf2
<1>6. CASE LoadSecond
  <2>1. /\ inbuf'[2] = input_buffers[Buf1] /\ inbuf'[1] = inbuf[1]
        /\ pc = "load1" /\ pc' = "users"
        /\ UNCHANGED <<idx, input_buffers, buffer_read, blocks>>
    BY <1>6 DEF LoadSecond, TypeOK, readVars
  <2>2. inbuf[1] = input_buffers[Buf0]
    BY <2>1 DEF InbufInv
  <2>3. inbuf'[1] >= -1 /\ inbuf'[2] = inbuf'[1] + 1
    BY <2>1, <2>2 DEF BufferInv, Loading, TypeOK
  <2> QED
    BY <2>1, <2>3 DEF BufferInv, InbufInv, Loading, Transforming, Buf0, Buf1, Buf2
<1>7. CASE CheckUsers
  <2>1. /\ Buf0' = Buf1 /\ Buf1' = Buf2 /\ pc = "users" /\ pc' \notin Loading
        /\ UNCHANGED <<input_buffers, buffer_read, blocks, inbuf>>
    BY <1>7, Rotation DEF CheckUsers, NextIdx, Buf0, Buf1, Loading, readVars
  <2> QED
    BY <2>1 DEF BufferInv, InbufInv, Loading, Transforming
<1>8. CASE FinishRead
  <2>1. /\ buffer_read \in 0..2 /\ buffer_read' = None /\ blocks' = blocks + 1
        /\ UNCHANGED <<pc, idx, inbuf>>
        /\ input_buffers' = [input_buffers EXCEPT ![buffer_read] = blocks + 1]
    BY <1>8 DEF FinishRead, TypeOK, fftVars
  <2>2. CASE pc \in Loading
    <3>1. /\ buffer_read = Buf2 /\ input_buffers[Buf1] = blocks
          /\ input_buffers[Buf0] = blocks - 1
      BY <2>1, <2>2, Rotation DEF BufferInv, None
    <3>2. /\ input_buffers'[Buf2] = blocks + 1 /\ input_buffers'[Buf1] = blocks
          /\ input_buffers'[Buf0] = blocks - 1
      BY <2>1, <3>1, Rotation DEF TypeOK
    <3>3. BufferInv'
      BY <2>1, <2>2, <3>2 DEF BufferInv, Buf0, Buf1, Buf2, TypeOK
    <3>4. InbufInv'
      BY <2>1, <2>2, <3>1, <3>2 DEF InbufInv, Buf0, Buf1, Loading, Transforming
    <3> QED
      BY <3>3, <3>4
  <2>3. CASE pc \notin Loading
    <3>1. buffer_read = Buf1 /\ input_buffers[Buf0] = blocks
      BY <2>1, <2>3, Rotation DEF BufferInv, None
    <3>2. /\ input_buffers'[Buf1] = blocks + 1 /\ input_buffers'[Buf0] = blocks
      BY <2>1, <3>1, Rotation DEF TypeOK
    <3>3. BufferInv'
      BY <2>1, <2>3, <3>2 DEF BufferInv, Buf0, Buf1, Buf2, TypeOK
    <3>4. InbufInv'
      BY <2>1, <2>3, <3>1, <3>2 DEF InbufInv, Buf0, Buf1, Loading, Transforming
    <3> QED
      BY <3>3, <3>4
  <2> QED
    BY <2>2, <2>3
<1>9. CASE (\E th \in IoThreads : IoThread(th)) \/ Handlers \/ Stop \/ UNCHANGED vars
  <2>1. UNCHANGED <<pc, idx, readVars, inbuf>>
    BY <1>9 DEF IoThread, StartTask, FinishTask, Handlers, Stop, vars, fftVars,
                OpenAudio, ExtractAudio, InsertAudio, CloseAudio, OpenWaterfall,
                ExtractWaterfall, InsertWaterfall, CloseWaterfall
  <2> QED
    BY <2>1, InputStutter
<1> QED
  BY <1>1, <1>2, <1>3, <1>4, <1>5, <1>6, <1>7, <1>8, <1>9 DEF Next, FftTask

-----------------------------------------------------------------------------
(***************************************************************************)
(* The clients' nodes, which only the handlers move.                       *)
(***************************************************************************)
LEMMA InitNodes == Init => NodesInv
  BY NoneAssumption DEF Init, NodesInv, AudioNode, WaterfallNode, Clients, None

\* A handler changes nothing but the nodes and the connections.
LEMMA HandlersOnly ==
  ASSUME Handlers
  PROVE  UNCHANGED <<running, fftVars, readVars, taskVars>>
  BY DEF Handlers, OpenAudio, ExtractAudio, InsertAudio, CloseAudio, OpenWaterfall,
         ExtractWaterfall, InsertWaterfall, CloseWaterfall

LEMMA OthersKeepNodes ==
  ASSUME [Next]_vars, ~Handlers
  PROVE  UNCHANGED clientVars
  BY DEF Next, FftTask, While, StartRead, LoadFirst, LoadSecond, CheckUsers, WaitSignal,
         WaitWaterfall, Execute, ExecuteDone, PostSignal, PostWaterfall, FreeInput,
         JoinRead, DestroyFft, FinishRead, IoThread, StartTask, FinishTask, Stop, vars

LEMMA NextNodes == TypeOK /\ NodesInv /\ [Next]_vars => NodesInv'
<1> SUFFICES ASSUME TypeOK, NodesInv, [Next]_vars PROVE NodesInv'
  OBVIOUS
<1>1. CASE ~Handlers
  BY <1>1, OthersKeepNodes DEF NodesInv, AudioNode, WaterfallNode, clientVars
<1>2. ASSUME NEW d \in AudioClients,
             OpenAudio(d) \/ ExtractAudio(d) \/ InsertAudio(d) \/ CloseAudio(d)
      PROVE  NodesInv'
  <2>1. d \in Clients /\ d \notin WaterfallClients
    BY ClientsAssumption DEF Clients
  <2>2. \A c \in Clients \ {d} : conn'[c] = conn[c]
    BY <1>2, <2>1 DEF OpenAudio, ExtractAudio, InsertAudio, CloseAudio, TypeOK
  <2>3. UNCHANGED <<waterfall_slices, dest>>
    BY <1>2 DEF OpenAudio, ExtractAudio, InsertAudio, CloseAudio
  <2>4. \A c \in WaterfallClients : WaterfallNode(c)'
    BY <2>1, <2>2, <2>3 DEF NodesInv, WaterfallNode, Clients
  <2>5. AudioNode(d)'
    <3>1. AudioNode(d) /\ d # None
      BY NoneAssumption DEF NodesInv
    <3>2. CASE OpenAudio(d)
      BY <2>1, <3>1, <3>2 DEF OpenAudio, TypeOK, AudioNode
    <3>3. CASE ExtractAudio(d)
      BY <2>1, <3>1, <3>3 DEF ExtractAudio, TypeOK, AudioNode
    <3>4. CASE InsertAudio(d)
      BY <2>1, <3>1, <3>4 DEF InsertAudio, TypeOK, AudioNode
    <3>5. CASE CloseAudio(d)
      BY <2>1, <3>1, <3>5 DEF CloseAudio, TypeOK, AudioNode
    <3> QED
      BY <1>2, <3>2, <3>3, <3>4, <3>5
  <2>6. ASSUME NEW c \in AudioClients, c # d PROVE AudioNode(c)'
    <3>1. c \in Clients /\ AudioNode(c) /\ conn'[c] = conn[c]
      BY <2>2, <2>6 DEF Clients, NodesInv
    <3>2. (c \in signal_slices') = (c \in signal_slices)
      BY <1>2, <2>6 DEF OpenAudio, ExtractAudio, InsertAudio, CloseAudio
    <3>3. (signal_slice_mtx' = c) = (signal_slice_mtx = c)
      BY <1>2, <2>6, NoneAssumption
         DEF OpenAudio, ExtractAudio, InsertAudio, CloseAudio
    <3> QED
      BY <3>1, <3>2, <3>3 DEF AudioNode
  <2> QED
    BY <2>4, <2>5, <2>6 DEF NodesInv
<1>3. ASSUME NEW d \in WaterfallClients,
             \/ OpenWaterfall(d) \/ InsertWaterfall(d) \/ CloseWaterfall(d)
             \/ \E i, k \in LevelIds : ExtractWaterfall(d, i, k)
      PROVE  NodesInv'
  <2>1. d \in Clients /\ d \notin AudioClients
    BY ClientsAssumption DEF Clients
  <2>2. \A c \in Clients \ {d} : conn'[c] = conn[c]
    BY <1>3, <2>1 DEF OpenWaterfall, InsertWaterfall, CloseWaterfall, ExtractWaterfall,
                      TypeOK
  <2>3. UNCHANGED <<signal_slices, signal_slice_mtx>>
    BY <1>3 DEF OpenWaterfall, InsertWaterfall, CloseWaterfall, ExtractWaterfall
  <2>4. \A c \in AudioClients : AudioNode(c)'
    BY <2>1, <2>2, <2>3 DEF NodesInv, AudioNode, Clients
  <2>5. WaterfallNode(d)'
    <3>1. WaterfallNode(d)
      BY DEF NodesInv
    <3>2. CASE OpenWaterfall(d)
      BY <2>1, <3>1, <3>2 DEF OpenWaterfall, TypeOK, WaterfallNode
    <3>3. CASE InsertWaterfall(d)
      <4>1. dest[d] \in LevelIds
        BY <3>3 DEF InsertWaterfall, TypeOK
      <4>2. d \in waterfall_slices'[dest[d]] /\ conn'[d] = "open" /\ dest'[d] = None
        BY <2>1, <3>3, <4>1 DEF InsertWaterfall, TypeOK
      <4> QED
        BY <4>1, <4>2 DEF WaterfallNode
    <3>4. CASE CloseWaterfall(d)
      BY <2>1, <3>1, <3>4 DEF CloseWaterfall, TypeOK, WaterfallNode
    <3>5. ASSUME NEW i \in LevelIds, NEW k \in LevelIds, ExtractWaterfall(d, i, k)
          PROVE  WaterfallNode(d)'
      <4>1. conn'[d] = "opening" \/ (conn'[d] = "open" /\ d \in Retuners)
        BY <3>5 DEF ExtractWaterfall
      <4> QED
        BY <4>1 DEF WaterfallNode
    <3> QED
      BY <1>3, <3>2, <3>3, <3>4, <3>5
  <2>6. ASSUME NEW c \in WaterfallClients, c # d PROVE WaterfallNode(c)'
    <3>1. c \in Clients /\ WaterfallNode(c) /\ conn'[c] = conn[c]
      BY <2>2, <2>6 DEF Clients, NodesInv
    <3>2. dest'[c] = dest[c]
      BY <1>3, <2>6 DEF OpenWaterfall, InsertWaterfall, CloseWaterfall,
                        ExtractWaterfall, TypeOK
    <3>3. \A i \in LevelIds : (c \in waterfall_slices'[i]) = (c \in waterfall_slices[i])
      <4>1. CASE CloseWaterfall(d)
        BY <2>6, <4>1 DEF CloseWaterfall
      <4>2. CASE OpenWaterfall(d)
        BY <2>6, <4>2 DEF OpenWaterfall, TypeOK
      <4>3. CASE InsertWaterfall(d)
        BY <2>6, <4>3 DEF InsertWaterfall, TypeOK
      <4>4. ASSUME NEW i \in LevelIds, NEW k \in LevelIds, ExtractWaterfall(d, i, k)
            PROVE  \A j \in LevelIds :
                     (c \in waterfall_slices'[j]) = (c \in waterfall_slices[j])
        BY <2>6, <4>4 DEF ExtractWaterfall, TypeOK
      <4> QED
        BY <1>3, <4>1, <4>2, <4>3, <4>4
    <3> QED
      BY <3>1, <3>2, <3>3 DEF WaterfallNode
  <2> QED
    BY <2>4, <2>5, <2>6 DEF NodesInv
<1> QED
  BY <1>1, <1>2, <1>3 DEF Handlers

-----------------------------------------------------------------------------
(***************************************************************************)
(* The frames of the tasks.  A step posts a frame's tasks, for the audio   *)
(* clients or for one level, or starts or finishes a task, or does neither.*)
(***************************************************************************)
Quiet ==
    \/ While \/ StartRead \/ LoadFirst \/ LoadSecond \/ CheckUsers
    \/ WaitSignal \/ WaitWaterfall \/ Execute \/ ExecuteDone
    \/ FreeInput \/ JoinRead \/ DestroyFft
    \/ FinishRead \/ Handlers \/ Stop \/ UNCHANGED vars

LEMMA StepKinds ==
  ASSUME [Next]_vars
  PROVE  PostSignal \/ PostWaterfall \/ (\E th \in IoThreads : IoThread(th)) \/ Quiet
  BY DEF Next, FftTask, Quiet

LEMMA QuietStep ==
  ASSUME Quiet
  PROVE  /\ UNCHANGED <<frame_num, taskVars>>
         /\ Outstanding' = Outstanding /\ Posted' = Posted
<1>1. CASE Handlers
  <2>1. UNCHANGED <<pc, frame_num, taskVars>>
    BY <1>1, HandlersOnly DEF fftVars
  <2> QED
    BY <2>1 DEF Outstanding, Posted, taskVars
<1>2. CASE ~Handlers
  <2>1. UNCHANGED <<frame_num, taskVars>>
    BY <1>2 DEF Quiet, While, StartRead, LoadFirst, LoadSecond, CheckUsers, WaitSignal,
                WaitWaterfall, Execute, ExecuteDone, FreeInput, JoinRead, DestroyFft,
                FinishRead, Stop, vars, fftVars
  <2>2. (pc' = "postWaterfall") = (pc = "postWaterfall")
    BY <1>2 DEF Quiet, While, StartRead, LoadFirst, LoadSecond, CheckUsers, WaitSignal,
                WaitWaterfall, Execute, ExecuteDone, FreeInput, JoinRead, DestroyFft,
                FinishRead, Stop, vars, fftVars
  <2> QED
    BY <2>1, <2>2 DEF Outstanding, Posted, taskVars
<1> QED
  BY <1>1, <1>2

LEMMA SignalPosted ==
  ASSUME TypeOK, WaitInv, PostSignal
  PROVE  \E C \in SUBSET signal_slices :
            /\ signal_slices \ SlowClients \subseteq C
            /\ Outstanding = {} /\ Outstanding' = Tasks(C, AudioLevel)
            /\ phase' = StartPhase(C)
            /\ Posted = frame_num - 1 /\ Posted' = frame_num
            /\ signal_slice_mtx = None
            /\ UNCHANGED <<sent, outbuf, idx, readVars, clientVars>>
<1>1. PICK dropped \in SUBSET (signal_slices \cap SlowClients) :
         /\ queue' = queue \cup Tasks(signal_slices \ dropped, AudioLevel)
         /\ phase' = StartPhase(signal_slices \ dropped)
  BY DEF PostSignal
<1>2. Outstanding = {}
  BY DEF PostSignal, WaitInv
<1>3. Outstanding' = Outstanding \cup Tasks(signal_slices \ dropped, AudioLevel)
  BY <1>1 DEF PostSignal, Outstanding
<1>4. Posted = frame_num - 1 /\ Posted' = frame_num
  BY DEF PostSignal, Posted, TypeOK
<1>5. /\ signal_slice_mtx = None
      /\ UNCHANGED <<sent, outbuf, idx, readVars, clientVars>>
  BY DEF PostSignal, LockSignal
<1>6. /\ signal_slices \ dropped \in SUBSET signal_slices
      /\ signal_slices \ SlowClients \subseteq signal_slices \ dropped
  OBVIOUS
<1> QED
  BY <1>1, <1>2, <1>3, <1>4, <1>5, <1>6

LEMMA WaterfallPosted ==
  ASSUME TypeOK, PostWaterfall
  PROVE  \E C \in SUBSET waterfall_slices[level] :
            /\ Outstanding' = Outstanding \cup Tasks(C, level)
            /\ phase' = StartPhase(C)
            /\ Posted = frame_num /\ Posted' = frame_num
            /\ UNCHANGED <<sent, outbuf, idx, readVars, clientVars>>
<1>1. PICK C \in SUBSET waterfall_slices[level] :
         /\ queue' = queue \cup Tasks(C, level)
         /\ phase' = StartPhase(C)
  BY DEF PostWaterfall
<1>2. Outstanding' = Outstanding \cup Tasks(C, level)
  BY <1>1 DEF PostWaterfall, Outstanding
<1>3. Posted = frame_num /\ Posted' = frame_num
  BY DEF PostWaterfall, Posted, TypeOK
<1>4. UNCHANGED <<sent, outbuf, idx, readVars, clientVars>>
  BY DEF PostWaterfall
<1> QED
  BY <1>1, <1>2, <1>3, <1>4

LEMMA TasksAre ==
  ASSUME NEW C, NEW lvl
  PROVE  /\ \A t \in Tasks(C, lvl) : t.client \in C /\ t.frame = frame_num /\ t.src = outbuf
         /\ \A c \in C : \E t \in Tasks(C, lvl) : t.client = c
<1>1. \A t \in Tasks(C, lvl) : t.client \in C /\ t.frame = frame_num /\ t.src = outbuf
  BY DEF Tasks
<1>2. ASSUME NEW c \in C PROVE \E t \in Tasks(C, lvl) : t.client = c
  <2> DEFINE T == [client |-> c, level |-> lvl, frame |-> frame_num, src |-> outbuf]
  <2>1. T \in Tasks(C, lvl) /\ T.client = c
    BY DEF Tasks
  <2> QED
    BY <2>1
<1> QED
  BY <1>1, <1>2

LEMMA IoStep ==
  ASSUME TypeOK, FrameInv, NEW th \in IoThreads, IoThread(th)
  PROVE  /\ UNCHANGED <<running, fftVars, readVars, phase, clientVars>>
         /\ Outstanding' \subseteq Outstanding /\ Posted' = Posted
         /\ \A c \in Clients : sent'[c] # sent[c] => sent'[c] = Posted /\ HasTask(c)
         /\ \A c \in Clients : HasTask(c) => HasTask(c)' \/ sent'[c] = Posted
<1>1. UNCHANGED <<running, fftVars, readVars, phase, clientVars>>
  BY DEF IoThread, StartTask, FinishTask
<1>2. Posted' = Posted
  BY <1>1 DEF Posted, fftVars
<1>3. ASSUME NEW t \in queue, StartTask(th, t)
      PROVE  Outstanding' = Outstanding /\ sent' = sent
  <2>1. /\ queue' = queue \ {t} /\ sent' = sent
        /\ executing[th] = {} /\ executing'[th] = {t}
        /\ \A u \in IoThreads \ {th} : executing'[u] = executing[u]
    BY <1>3 DEF StartTask, TypeOK
  <2> QED
    BY <2>1 DEF Outstanding
<1>4. ASSUME FinishTask(th)
      PROVE  /\ Outstanding' \subseteq Outstanding
             /\ Outstanding \ executing[th] \subseteq Outstanding'
             /\ \A c \in Clients :
                  IF \E t \in executing[th] : t.client = c
                  THEN sent'[c] = Posted ELSE sent'[c] = sent[c]
  <2>1. /\ executing'[th] = {} /\ queue' = queue
        /\ \A u \in IoThreads \ {th} : executing'[u] = executing[u]
    BY <1>4 DEF FinishTask, TypeOK
  <2>2. PICK t \in executing[th] : sent' = [sent EXCEPT ![t.client] = t.frame]
    BY <1>4 DEF FinishTask
  <2>3. \A u \in executing[th] : u = t
    BY <2>2 DEF TypeOK
  <2>4. t.frame = Posted
    BY <2>2 DEF FrameInv, Outstanding
  <2>5. ASSUME NEW c \in Clients
        PROVE  IF \E u \in executing[th] : u.client = c
               THEN sent'[c] = Posted ELSE sent'[c] = sent[c]
    BY <2>2, <2>3, <2>4 DEF TypeOK
  <2> QED
    BY <2>1, <2>5 DEF Outstanding
<1>5. CASE \E t \in queue : StartTask(th, t)
  BY <1>1, <1>2, <1>3, <1>5 DEF HasTask
<1>6. CASE FinishTask(th)
  <2>1. \A c \in Clients : sent'[c] # sent[c] => sent'[c] = Posted /\ HasTask(c)
    BY <1>4, <1>6 DEF HasTask, Outstanding
  <2>2. \A c \in Clients : HasTask(c) => HasTask(c)' \/ sent'[c] = Posted
    BY <1>4, <1>6 DEF HasTask
  <2> QED
    BY <1>1, <1>2, <1>4, <1>6, <2>1, <2>2
<1> QED
  BY <1>5, <1>6 DEF IoThread

\* A connection is new only until it opens, and stays closed.
LEMMA ConnStep ==
  ASSUME TypeOK, NodesInv, [Next]_vars, NEW c \in Clients
  PROVE  /\ conn'[c] = "new" => conn[c] = "new"
         /\ conn[c] \in {"open", "closed"} => conn'[c] \in {"open", "closed"}
         /\ conn[c] = "closed" => conn'[c] = "closed"
         /\ c \notin Retuners /\ conn'[c] = "open" => conn[c] \in {"opening", "open"}
<1>1. CASE ~Handlers
  BY <1>1, OthersKeepNodes DEF clientVars, TypeOK
<1>2. ASSUME NEW d \in AudioClients,
             OpenAudio(d) \/ ExtractAudio(d) \/ InsertAudio(d) \/ CloseAudio(d)
      PROVE  /\ conn'[d] # "new" \/ conn'[d] = conn[d]
             /\ conn[d] # "closed"
             /\ conn[d] = "open" => conn'[d] \in {"open", "closed"}
             /\ conn'[d] = "open" => conn[d] \in {"opening", "open"}
             /\ \A b \in Clients \ {d} : conn'[b] = conn[b]
  BY <1>2 DEF OpenAudio, ExtractAudio, InsertAudio, CloseAudio, TypeOK, NodesInv,
              AudioNode, Clients
<1>3. ASSUME NEW d \in WaterfallClients,
             \/ OpenWaterfall(d) \/ InsertWaterfall(d) \/ CloseWaterfall(d)
             \/ \E i, k \in LevelIds : ExtractWaterfall(d, i, k)
      PROVE  /\ conn'[d] # "new" \/ conn'[d] = conn[d]
             /\ conn[d] # "closed"
             /\ conn[d] = "open" => conn'[d] \in {"open", "closed"}
             /\ conn'[d] = "open" => conn[d] \in {"opening", "open"}
             /\ \A b \in Clients \ {d} : conn'[b] = conn[b]
  BY <1>3 DEF OpenWaterfall, InsertWaterfall, CloseWaterfall, ExtractWaterfall,
              TypeOK, NodesInv, WaterfallNode, Clients
<1>4. \A d \in AudioClients \cup WaterfallClients : d \in Clients
  BY DEF Clients
<1>5. ASSUME NEW d \in Clients,
             /\ conn'[d] # "new" \/ conn'[d] = conn[d]
             /\ conn[d] # "closed"
             /\ conn[d] = "open" => conn'[d] \in {"open", "closed"}
             /\ conn'[d] = "open" => conn[d] \in {"opening", "open"}
             /\ \A b \in Clients \ {d} : conn'[b] = conn[b]
      PROVE  /\ conn'[c] = "new" => conn[c] = "new"
             /\ conn[c] \in {"open", "closed"} => conn'[c] \in {"open", "closed"}
             /\ conn[c] = "closed" => conn'[c] = "closed"
             /\ conn'[c] = "open" => conn[c] \in {"opening", "open"}
  BY <1>5
<1> QED
  BY <1>1, <1>2, <1>3, <1>4, <1>5 DEF Handlers

\* All outstanding tasks, and nothing sent is newer, are of the frame posted last.
LEMMA InitFrame == Init => FrameInv /\ GapInv
<1> SUFFICES ASSUME Init PROVE FrameInv /\ GapInv
  OBVIOUS
<1>1. Outstanding = {}
  BY DEF Init, Outstanding
<1> QED
  BY <1>1 DEF Init, FrameInv, GapInv, Fed, HasTask, Posted, None, Clients

LEMMA NextFrame ==
  TypeOK /\ WaitInv /\ NodesInv /\ FrameInv /\ [Next]_vars => FrameInv'
<1> SUFFICES ASSUME TypeOK, WaitInv, NodesInv, FrameInv, [Next]_vars PROVE FrameInv'
  OBVIOUS
<1>1. \A c \in Clients : conn'[c] = "new" => sent[c] = None /\ ~HasTask(c)
  BY ConnStep DEF FrameInv
<1>2. CASE Quiet
  BY <1>1, <1>2, QuietStep DEF FrameInv, HasTask, taskVars
<1>3. CASE PostSignal
  <2>1. PICK C \in SUBSET signal_slices :
          /\ Outstanding' = Tasks(C, AudioLevel)
          /\ Posted = frame_num - 1 /\ Posted' = frame_num
          /\ UNCHANGED <<sent, clientVars>>
    BY <1>3, SignalPosted
  <2>2. \A t \in Outstanding' : t.frame = Posted' /\ t.client \in C
    BY <2>1, TasksAre
  <2>3. \A c \in C : c \in Clients /\ conn[c] # "new"
    BY DEF NodesInv, AudioNode, TypeOK, Clients
  <2>4. \A c \in Clients : sent'[c] <= Posted'
    BY <2>1 DEF FrameInv, TypeOK
  <2>5. ASSUME NEW c \in Clients, conn'[c] = "new" PROVE sent'[c] = None /\ ~HasTask(c)'
    BY <1>1, <2>1, <2>2, <2>3, <2>5 DEF HasTask, clientVars
  <2> QED
    BY <2>2, <2>4, <2>5 DEF FrameInv
<1>4. CASE PostWaterfall
  <2>1. PICK C \in SUBSET waterfall_slices[level] :
          /\ Outstanding' = Outstanding \cup Tasks(C, level)
          /\ Posted = frame_num /\ Posted' = frame_num
          /\ UNCHANGED <<sent, clientVars>>
    BY <1>4, WaterfallPosted
  <2>2. \A t \in Outstanding' : t.frame = Posted' /\ (t \in Outstanding \/ t.client \in C)
    BY <2>1, TasksAre DEF FrameInv
  <2>3. \A c \in C : c \in Clients /\ conn[c] # "new"
    BY DEF NodesInv, WaterfallNode, TypeOK, Clients
  <2>4. \A c \in Clients : sent'[c] <= Posted'
    BY <2>1 DEF FrameInv
  <2>5. ASSUME NEW c \in Clients, conn'[c] = "new" PROVE sent'[c] = None /\ ~HasTask(c)'
    BY <1>1, <2>1, <2>2, <2>3, <2>5 DEF HasTask, clientVars
  <2> QED
    BY <2>2, <2>4, <2>5 DEF FrameInv
<1>5. ASSUME NEW th \in IoThreads, IoThread(th) PROVE FrameInv'
  <2>1. /\ Outstanding' \subseteq Outstanding /\ Posted' = Posted
        /\ \A c \in Clients : sent'[c] # sent[c] => sent'[c] = Posted /\ HasTask(c)
    BY <1>5, IoStep
  <2>2. \A c \in Clients : HasTask(c)' => HasTask(c)
    BY <2>1 DEF HasTask
  <2>3. Posted \in Int
    BY DEF Posted, TypeOK
  <2> QED
    BY <1>1, <2>1, <2>2, <2>3 DEF FrameInv
<1> QED
  BY <1>2, <1>3, <1>4, <1>5, StepKinds

\* An audio client that is not slow gets a task for every frame posted while its
\* node is in the map, and signal_loop never runs while it is not.
LEMMA NextGap ==
  TypeOK /\ WaitInv /\ NodesInv /\ FrameInv /\ GapInv /\ [Next]_vars => GapInv'
<1> SUFFICES ASSUME TypeOK, WaitInv, NodesInv, FrameInv, GapInv, [Next]_vars,
                    NEW c \in AudioClients \ SlowClients
             PROVE  Fed(c)'
  BY DEF GapInv
<1>1. /\ c \in Clients /\ Fed(c)
      /\ conn'[c] # "closed" => conn[c] # "closed"
  BY ConnStep DEF GapInv, Clients
<1>2. CASE Quiet
  BY <1>1, <1>2, QuietStep DEF Fed, HasTask, taskVars
<1>3. CASE PostSignal
  <2>1. PICK C \in SUBSET signal_slices :
          /\ signal_slices \ SlowClients \subseteq C
          /\ Outstanding = {} /\ Outstanding' = Tasks(C, AudioLevel)
          /\ Posted = frame_num - 1 /\ Posted' = frame_num
          /\ signal_slice_mtx = None
          /\ UNCHANGED <<sent, clientVars>>
    BY <1>3, SignalPosted
  <2>2. SUFFICES ASSUME sent[c] # None
                 PROVE  /\ conn'[c] # "closed" => sent'[c] = Posted' \/ HasTask(c)'
                        /\ HasTask(c)' => sent'[c] >= Posted' - 1
    BY <2>1 DEF Fed
  <2>3. conn[c] # "closed" => sent[c] = Posted
    BY <1>1, <2>1, <2>2 DEF Fed, HasTask
  <2>4. conn[c] # "new"
    BY <1>1, <2>2 DEF FrameInv
  <2>5. conn[c] # "closed" => c \in C
    BY <1>1, <2>1, <2>4, NoneAssumption DEF NodesInv, AudioNode, TypeOK
  <2>6. HasTask(c)' <=> c \in C
    BY <2>1, TasksAre DEF HasTask
  <2>7. c \in C => conn[c] # "closed"
    BY DEF NodesInv, AudioNode
  <2> QED
    BY <2>1, <2>3, <2>5, <2>6, <2>7 DEF TypeOK, clientVars
<1>4. CASE PostWaterfall
  <2>1. PICK C \in SUBSET waterfall_slices[level] :
          /\ Outstanding' = Outstanding \cup Tasks(C, level)
          /\ Posted = frame_num /\ Posted' = frame_num
          /\ UNCHANGED <<sent, clientVars>>
    BY <1>4, WaterfallPosted
  <2>2. c \notin C
    BY ClientsAssumption DEF TypeOK
  <2>3. HasTask(c)' <=> HasTask(c)
    BY <2>1, <2>2, TasksAre DEF HasTask
  <2> QED
    BY <1>1, <2>1, <2>3 DEF Fed, clientVars
<1>5. ASSUME NEW th \in IoThreads, IoThread(th) PROVE Fed(c)'
  <2>1. /\ Outstanding' \subseteq Outstanding /\ Posted' = Posted /\ conn' = conn
        /\ sent'[c] # sent[c] => sent'[c] = Posted /\ HasTask(c)
        /\ HasTask(c) => HasTask(c)' \/ sent'[c] = Posted
    BY <1>1, <1>5, IoStep DEF clientVars
  <2>2. HasTask(c)' => HasTask(c)
    BY <2>1 DEF HasTask
  <2>3. Posted \in Int /\ sent[c] \in Int
    BY <1>1 DEF Posted, TypeOK
  <2> QED
    BY <1>1, <2>1, <2>2, <2>3 DEF Fed
<1> QED
  BY <1>2, <1>3, <1>4, <1>5, StepKinds

-----------------------------------------------------------------------------
(***************************************************************************)
(* The phase of a client: how far its blocks are ahead of the frames.      *)
(***************************************************************************)
LEMMA InitPhase == Init => PhaseInv
<1> SUFFICES ASSUME Init PROVE PhaseInv
  OBVIOUS
<1>1. Outstanding = {}
  BY DEF Init, Outstanding
<1> QED
  BY <1>1 DEF Init, PhaseInv, PhaseKept

\* Only a frame that is skipped changes it.
LEMMA AheadStep ==
  ASSUME TypeOK, WaitInv, BufferInv, InbufInv, [Next]_vars
  PROVE  /\ Ahead' = Ahead \/ (CheckUsers /\ NoUsers)
         /\ pc' \in {"postSignal", "postWaterfall"} =>
              \/ pc \in {"postSignal", "postWaterfall"}
                 /\ outbuf' = outbuf /\ input_buffers'[Buf0'] = input_buffers[Buf0]
              \/ outbuf' = input_buffers'[Buf0']
<1>0. pc \in PcValues /\ Buf0 \in 0..2 /\ frame_num \in Nat /\ input_buffers[Buf0] \in Int
  BY Rotation DEF TypeOK, Blocks
<1>1. CASE While \/ LoadFirst \/ LoadSecond \/ WaitSignal \/ WaitWaterfall \/ Execute
           \/ FreeInput \/ JoinRead \/ DestroyFft \/ Stop
  <2>1. UNCHANGED <<idx, input_buffers, frame_num>>
    BY <1>1 DEF While, LoadFirst, LoadSecond, WaitSignal, WaitWaterfall, Execute,
                FreeInput, JoinRead, DestroyFft, Stop, readVars, fftVars
  <2>2. /\ (pc' \in Transformed) = (pc \in Transformed)
        /\ pc' \notin {"postSignal", "postWaterfall"} \/ (pc' = pc /\ outbuf' = outbuf)
    BY <1>1 DEF While, LoadFirst, LoadSecond, WaitSignal, WaitWaterfall, Execute,
                FreeInput, JoinRead, DestroyFft, Stop, fftVars, Transformed
  <2> QED
    BY <2>1, <2>2 DEF Ahead, Buf0
<1>2. CASE ExecuteDone
  <2>1. inbuf[2] = input_buffers[Buf0]
    BY <1>2 DEF ExecuteDone, InbufInv, Transforming, Loading, TypeOK, Torn, Blocks
  <2>2. /\ UNCHANGED <<idx, input_buffers, frame_num>> /\ outbuf' = inbuf[2]
        /\ pc \in Transformed /\ pc' \in Transformed
    BY <1>2 DEF ExecuteDone, readVars, Transformed
  <2> QED
    BY <2>1, <2>2 DEF Ahead, Buf0
<1>3. CASE StartRead
  <2>1. /\ pc \notin Transformed /\ pc' = "load0" /\ UNCHANGED <<idx, frame_num>>
        /\ input_buffers'[Buf0] = input_buffers[Buf0]
    BY <1>3, Rotation DEF StartRead, TypeOK, Transformed
  <2> QED
    BY <2>1 DEF Ahead, Buf0, Transformed
<1>4. CASE FinishRead
  <2>1. buffer_read # Buf0
    BY <1>4, Rotation DEF FinishRead, BufferInv, None
  <2>2. /\ UNCHANGED <<pc, idx, frame_num, outbuf>>
        /\ input_buffers'[Buf0] = input_buffers[Buf0]
    BY <1>0, <1>4, <2>1 DEF FinishRead, fftVars, TypeOK
  <2> QED
    BY <2>2 DEF Ahead, Buf0
<1>5. CASE CheckUsers
  <2>1. /\ pc = "users" /\ Buf0' = Buf1 /\ UNCHANGED <<input_buffers, frame_num>>
        /\ pc' = "waitSignal" \/ (pc' = "while" /\ NoUsers)
    BY <1>5, Rotation DEF CheckUsers, NextIdx, Buf0, Buf1, readVars
  <2>2. input_buffers[Buf1] = input_buffers[Buf0] + 1
    BY <2>1 DEF BufferInv, Loading, TypeOK
  <2> QED
    BY <1>0, <1>5, <2>1, <2>2 DEF Ahead, Transformed
<1>6. CASE PostSignal \/ PostWaterfall
  <2>1. UNCHANGED <<idx, input_buffers, outbuf>>
    BY <1>6 DEF PostSignal, PostWaterfall, readVars
  <2>2. /\ pc \in {"postSignal", "postWaterfall"}
        /\ \/ pc' = "postWaterfall" /\ frame_num' = frame_num
           \/ pc' = "while" /\ frame_num' = frame_num + 1
    BY <1>6 DEF PostSignal, PostWaterfall
  <2> QED
    BY <1>0, <2>1, <2>2 DEF Ahead, Buf0, Transformed
<1>7. CASE (\E th \in IoThreads : IoThread(th)) \/ Handlers \/ UNCHANGED vars
  <2>1. UNCHANGED <<pc, idx, frame_num, outbuf, input_buffers>>
    BY <1>7, HandlersOnly DEF IoThread, StartTask, FinishTask, vars, fftVars, readVars
  <2> QED
    BY <2>1 DEF Ahead, Buf0
<1> QED
  BY <1>1, <1>2, <1>3, <1>4, <1>5, <1>6, <1>7 DEF Next, FftTask

LEMMA OpenIsUser ==
  ASSUME TypeOK, NodesInv, NEW c \in Clients \ Retuners, conn[c] = "open"
  PROVE  ~NoUsers
<1>1. CASE c \in AudioClients
  <2>1. c \in signal_slices
    BY <1>1 DEF NodesInv, AudioNode
  <2> QED
    BY <2>1 DEF NoUsers, Users
<1>2. CASE c \in WaterfallClients
  <2>1. PICK i \in LevelIds : c \in waterfall_slices[i]
    BY <1>2 DEF NodesInv, WaterfallNode
  <2> QED
    BY <2>1 DEF NoUsers, Users
<1> QED
  BY <1>1, <1>2 DEF Clients

\* What posting for the clients C does to the phases.
LEMMA PhasePosted ==
  ASSUME TypeOK, NodesInv, FrameInv, PhaseInv, OutputStable, NEW C \in SUBSET Clients,
         NEW lvl, pc \in {"postSignal", "postWaterfall"},
         \A c \in C : conn[c] \in {"opening", "open"},
         \A t \in Outstanding : t.frame = frame_num,
         phase' = StartPhase(C), Outstanding' = Outstanding \cup Tasks(C, lvl)
  PROVE  /\ PhaseKept'
         /\ \A c \in Clients : phase'[c] # None => conn[c] \in {"open", "closed"}
         /\ \A c \in Clients \ Retuners :
              phase'[c] # None /\ conn[c] = "open" => phase'[c] = Ahead
<1>1. outbuf - frame_num = Ahead
  BY DEF PhaseInv, Ahead, Transformed, TypeOK, Blocks
<1>2. \A c \in Clients : \/ phase'[c] = phase[c]
                         \/ conn[c] = "open" /\ phase[c] = None /\ phase'[c] = Ahead
  BY <1>1 DEF StartPhase
<1>3. \A c \in Clients : phase'[c] # None => conn[c] \in {"open", "closed"}
  BY <1>2 DEF PhaseInv
<1>4. \A c \in Clients \ Retuners :
         phase'[c] # None /\ conn[c] = "open" => phase'[c] = Ahead
  BY <1>2 DEF PhaseInv
<1>5. ASSUME NEW t \in Outstanding', t.client \notin Retuners, phase'[t.client] # None
      PROVE  t.src - t.frame = phase'[t.client]
  <2>1. t.src = outbuf /\ t.frame = frame_num
    BY TasksAre DEF OutputStable
  <2>2. t.client \in Clients
    BY TasksAre DEF Outstanding, TypeOK, Task
  <2>3. CASE conn[t.client] = "open"
    BY <1>1, <1>4, <1>5, <2>1, <2>2, <2>3
  <2>4. CASE conn[t.client] # "open"
    <3>1. t \in Outstanding /\ phase'[t.client] = phase[t.client]
      BY <1>2, <1>3, <1>5, <2>2, <2>4, TasksAre
    <3> QED
      BY <1>5, <3>1 DEF PhaseInv, PhaseKept
  <2> QED
    BY <2>3, <2>4
<1> QED
  BY <1>3, <1>4, <1>5 DEF PhaseKept

LEMMA NextPhase ==
  /\ TypeOK /\ WaitInv /\ BufferInv /\ InbufInv /\ NodesInv /\ FrameInv /\ PhaseInv
  /\ [Next]_vars
  => PhaseInv'
<1> SUFFICES ASSUME TypeOK, WaitInv, BufferInv, InbufInv, NodesInv, FrameInv, PhaseInv,
                    [Next]_vars
             PROVE  PhaseInv'
  OBVIOUS
<1>1. pc' \in {"postSignal", "postWaterfall"} => outbuf' = input_buffers'[Buf0']
  BY AheadStep DEF PhaseInv
<1>2. ASSUME UNCHANGED phase, Outstanding' \subseteq Outstanding PROVE PhaseInv'
  <2>1. \A c \in Clients : phase'[c] # None => conn'[c] \in {"open", "closed"}
    BY <1>2, ConnStep DEF PhaseInv
  <2>2. ASSUME NEW c \in Clients \ Retuners, phase'[c] # None, conn'[c] = "open"
        PROVE  phase'[c] = Ahead'
    <3>1. conn[c] = "open"
      BY <1>2, <2>2, ConnStep DEF PhaseInv
    <3> QED
      BY <1>2, <2>2, <3>1, AheadStep, OpenIsUser DEF PhaseInv
  <2>3. PhaseKept'
    BY <1>2 DEF PhaseInv, PhaseKept
  <2> QED
    BY <1>1, <2>1, <2>2, <2>3 DEF PhaseInv
<1>3. CASE Quiet
  BY <1>2, <1>3, QuietStep DEF taskVars
<1>4. ASSUME NEW th \in IoThreads, IoThread(th) PROVE PhaseInv'
  BY <1>2, <1>4, IoStep
<1>5. ASSUME PostSignal \/ PostWaterfall, NEW C \in SUBSET Clients, NEW lvl,
             \A c \in C : conn[c] \in {"opening", "open"},
             \A t \in Outstanding : t.frame = frame_num,
             phase' = StartPhase(C), Outstanding' = Outstanding \cup Tasks(C, lvl)
      PROVE  PhaseInv'
  <2>1. pc \in {"postSignal", "postWaterfall"} /\ conn' = conn /\ OutputStable
    BY <1>5 DEF PostSignal, PostWaterfall, clientVars, WaitInv
  <2>2. Ahead' = Ahead
    BY <2>1, AheadStep DEF CheckUsers
  <2> QED
    BY <1>1, <1>5, <2>1, <2>2, PhasePosted DEF PhaseInv
<1>6. CASE PostSignal
  <2>1. PICK C \in SUBSET signal_slices :
          /\ Outstanding = {} /\ Outstanding' = Tasks(C, AudioLevel)
          /\ phase' = StartPhase(C)
    BY <1>6, SignalPosted
  <2>2. C \in SUBSET Clients /\ \A c \in C : conn[c] \in {"opening", "open"}
    BY DEF NodesInv, AudioNode, TypeOK, Clients
  <2> QED
    BY <1>5, <1>6, <2>1, <2>2
<1>7. CASE PostWaterfall
  <2>1. PICK C \in SUBSET waterfall_slices[level] :
          /\ Outstanding' = Outstanding \cup Tasks(C, level)
          /\ phase' = StartPhase(C) /\ Posted = frame_num
    BY <1>7, WaterfallPosted
  <2>2. C \in SUBSET Clients /\ \A c \in C : conn[c] \in {"opening", "open"}
    BY DEF NodesInv, WaterfallNode, TypeOK, Clients
  <2> QED
    BY <1>5, <1>7, <2>1, <2>2 DEF FrameInv
<1> QED
  BY <1>3, <1>4, <1>6, <1>7, StepKinds

LEMMA InitHeard == Init => HeardInv
  BY DEF Init, HeardInv

\* What a client that stays put has been sent are the half-blocks of its frames.
LEMMA NextHeard ==
  TypeOK /\ WaitInv /\ FrameInv /\ PhaseKept /\ HeardInv /\ [Next]_vars => HeardInv'
<1> SUFFICES ASSUME TypeOK, WaitInv, FrameInv, PhaseKept, HeardInv, [Next]_vars,
                    NEW c \in Clients \ Retuners, heard'[c] # None
             PROVE  /\ phase'[c] # None /\ sent'[c] # None
                    /\ heard'[c] = sent'[c] + phase'[c]
  BY DEF HeardInv
<1>1. ASSUME UNCHANGED <<sent, heard>>, phase'[c] = phase[c] \/ phase[c] = None
      PROVE  /\ phase'[c] # None /\ sent'[c] # None
             /\ heard'[c] = sent'[c] + phase'[c]
  BY <1>1 DEF HeardInv
<1>2. CASE Quiet
  BY <1>1, <1>2, QuietStep DEF taskVars
<1>3. CASE PostSignal
  <2>1. UNCHANGED <<sent, heard>> /\ \E C : phase' = StartPhase(C)
    BY <1>3 DEF PostSignal
  <2> QED
    BY <1>1, <2>1 DEF StartPhase
<1>4. CASE PostWaterfall
  <2>1. UNCHANGED <<sent, heard>> /\ \E C : phase' = StartPhase(C)
    BY <1>4 DEF PostWaterfall
  <2> QED
    BY <1>1, <2>1 DEF StartPhase
<1>5. ASSUME NEW th \in IoThreads, NEW t \in queue, StartTask(th, t)
      PROVE  UNCHANGED <<sent, heard, phase>>
  BY <1>5 DEF StartTask
<1>6. ASSUME NEW th \in IoThreads, FinishTask(th)
      PROVE  /\ phase'[c] # None /\ sent'[c] # None
             /\ heard'[c] = sent'[c] + phase'[c]
  <2>1. PICK t \in executing[th] :
          /\ sent' = [sent EXCEPT ![t.client] = t.frame]
          /\ heard' = [heard EXCEPT ![t.client] =
                                    IF phase[t.client] = None THEN None ELSE t.src]
          /\ phase' = phase
    BY <1>6 DEF FinishTask
  <2>2. t \in Outstanding /\ t.client \in Clients /\ t.frame \in Nat /\ t.src \in Int
    BY DEF Outstanding, TypeOK, Task, Blocks
  <2>3. CASE t.client = c
    <3>1. phase[c] # None /\ heard'[c] = t.src /\ sent'[c] = t.frame
      BY <2>1, <2>2, <2>3 DEF TypeOK
    <3>2. t.src - t.frame = phase[c] /\ phase[c] \in Int
      BY <2>2, <2>3, <3>1 DEF PhaseKept, TypeOK
    <3> QED
      BY <2>1, <2>2, <3>1, <3>2 DEF None
  <2>4. CASE t.client # c
    <3>1. heard'[c] = heard[c] /\ sent'[c] = sent[c] /\ phase'[c] = phase[c]
      BY <2>1, <2>2, <2>4 DEF TypeOK
    <3> QED
      BY <3>1 DEF HeardInv
  <2> QED
    BY <2>3, <2>4
<1> QED
  BY <1>1, <1>2, <1>3, <1>4, <1>5, <1>6, StepKinds DEF IoThread

-----------------------------------------------------------------------------
(***************************************************************************)
(* The theorems.                                                           *)
(***************************************************************************)

\* The conjunction of the invariants is inductive.
THEOREM Inductive == Spec => []IInv
<1>1. Init => IInv
  BY InitType, InitWait, InitInput, InitNodes, InitFrame, InitPhase, InitHeard DEF IInv
<1>2. IInv /\ [Next]_vars => IInv'
  BY NextType, NextWait, NextInput, NextNodes, NextFrame, NextGap, NextPhase, NextHeard
  DEF IInv, PhaseInv
<1> QED
  BY <1>1, <1>2, PTL DEF Spec

\* No slice a client still reads is overwritten by the next transform.
THEOREM OutputIsStable == Spec => []OutputStable
<1>1. IInv => OutputStable
  BY DEF IInv, WaitInv
<1> QED
  BY <1>1, Inductive, PTL

\* Every transform sees two whole, consecutive half-blocks.
THEOREM SpectrumIsWhole == Spec => []SpectrumWhole
<1>1. IInv => SpectrumWhole
  BY DEF IInv, InbufInv, SpectrumWhole
<1> QED
  BY <1>1, Inductive, PTL

\* Successive transforms overlap by one half-block.
THEOREM TransformsOverlap == Spec => HalfOverlap
<1> DEFINE Overlap == inbuf'[1] # inbuf[1] => inbuf'[1] = inbuf[2] \/ inbuf[2] = Torn
<1>1. IInv /\ [Next]_vars => [Overlap]_vars
  <2> SUFFICES ASSUME IInv, [Next]_vars, inbuf'[1] # inbuf[1]
               PROVE  inbuf'[1] = inbuf[2] \/ inbuf[2] = Torn
    OBVIOUS
  <2>1. ~LoadSecond
    BY DEF LoadSecond, IInv, TypeOK
  <2>2. LoadFirst
    BY <2>1 DEF Next, FftTask, While, StartRead, CheckUsers, WaitSignal,
                WaitWaterfall, Execute, ExecuteDone, PostSignal, PostWaterfall,
                FreeInput, JoinRead, DestroyFft, FinishRead, IoThread, StartTask,
                FinishTask, Handlers, Stop, vars, fftVars, OpenAudio, ExtractAudio,
                InsertAudio, CloseAudio, OpenWaterfall, ExtractWaterfall,
                InsertWaterfall, CloseWaterfall
  <2> QED
    BY <2>2 DEF LoadFirst, IInv, TypeOK, InbufInv
<1> QED
  BY <1>1, Inductive, PTL DEF Spec, HalfOverlap

\* What is sent next is of the frame posted last.
LEMMA SentStep ==
  ASSUME IInv, [Next]_vars, NEW c \in Clients, sent'[c] # sent[c]
  PROVE  sent'[c] = Posted /\ HasTask(c)
<1>1. CASE Quiet
  BY <1>1, QuietStep DEF taskVars
<1>2. CASE PostSignal \/ PostWaterfall
  BY <1>2 DEF PostSignal, PostWaterfall
<1>3. ASSUME NEW th \in IoThreads, IoThread(th) PROVE sent'[c] = Posted /\ HasTask(c)
  BY <1>3, IoStep DEF IInv
<1> QED
  BY <1>1, <1>2, <1>3, StepKinds

\* What send_audio inverts by the frame number is what the blocks were: a client
\* that stays put keeps its phase, whatever the others do.
THEOREM PhaseIsKept == Spec => []PhaseKept
<1>1. IInv => PhaseKept
  BY DEF IInv, PhaseInv
<1> QED
  BY <1>1, Inductive, PTL

\* No client is sent an older frame after a newer one.
THEOREM FramesInOrder == Spec => SentInOrder
<1> DEFINE Rises == \A c \in Clients : sent'[c] >= sent[c]
<1>1. IInv /\ [Next]_vars => [Rises]_vars
  <2> SUFFICES ASSUME IInv, [Next]_vars, NEW c \in Clients PROVE sent'[c] >= sent[c]
    OBVIOUS
  <2>1. sent[c] \in Int /\ sent[c] <= Posted
    BY DEF IInv, TypeOK, FrameInv
  <2>2. sent'[c] = sent[c] \/ sent'[c] = Posted
    BY SentStep
  <2> QED
    BY <2>1, <2>2
<1> QED
  BY <1>1, Inductive, PTL DEF Spec, SentInOrder

\* Only the end of a task adds to what a client has been sent.
LEMMA HeardStep ==
  ASSUME [Next]_vars, heard' # heard
  PROVE  \E th \in IoThreads : \E t \in executing[th] :
           /\ sent' = [sent EXCEPT ![t.client] = t.frame]
           /\ heard' = [heard EXCEPT ![t.client] =
                                     IF phase[t.client] = None THEN None ELSE t.src]
<1>1. ~Quiet
  BY QuietStep DEF taskVars
<1>2. ~PostSignal /\ ~PostWaterfall
  BY DEF PostSignal, PostWaterfall
<1>3. PICK th \in IoThreads : IoThread(th)
  BY <1>1, <1>2, StepKinds
<1>4. FinishTask(th)
  BY <1>3 DEF IoThread, StartTask
<1> QED
  BY <1>4 DEF FinishTask

\* An audio client that is not slow is sent every transform, and every half-block
\* unless it retunes.
THEOREM AudioHasNoGap == Spec => NoAudioGap
<1> DEFINE Next1 ==
      \A c \in AudioClients \ SlowClients :
          /\ sent'[c] # sent[c] /\ sent[c] # None => sent'[c] = sent[c] + 1
          /\ heard'[c] # heard[c] /\ heard[c] # None /\ c \notin Retuners
                => heard'[c] = heard[c] + 1
<1>1. IInv /\ [Next]_vars => [Next1]_vars
  <2> SUFFICES ASSUME IInv, [Next]_vars, NEW c \in AudioClients \ SlowClients
               PROVE  /\ sent'[c] # sent[c] /\ sent[c] # None => sent'[c] = sent[c] + 1
                      /\ heard'[c] # heard[c] /\ heard[c] # None /\ c \notin Retuners
                            => heard'[c] = heard[c] + 1
    OBVIOUS
  <2>1. c \in Clients /\ sent[c] \in Int /\ sent[c] <= Posted /\ Posted \in Int
    BY DEF IInv, TypeOK, FrameInv, Clients, Posted
  <2>2. ASSUME sent'[c] # sent[c], sent[c] # None PROVE sent'[c] = sent[c] + 1
    <3>1. sent'[c] = Posted /\ HasTask(c)
      BY <2>1, <2>2, SentStep
    <3>2. sent[c] >= Posted - 1
      BY <2>2, <3>1 DEF IInv, GapInv, Fed
    <3> QED
      BY <2>1, <2>2, <3>1, <3>2
  <2>3. ASSUME heard'[c] # heard[c], heard[c] # None, c \notin Retuners
        PROVE  heard'[c] = heard[c] + 1
    <3>1. /\ heard[c] = sent[c] + phase[c] /\ sent[c] # None /\ phase[c] # None
          /\ phase[c] \in Int
      BY <2>1, <2>3 DEF IInv, HeardInv, TypeOK
    <3>0. PICK th \in IoThreads : \E t \in executing[th] :
            /\ sent' = [sent EXCEPT ![t.client] = t.frame]
            /\ heard' = [heard EXCEPT ![t.client] =
                                      IF phase[t.client] = None THEN None ELSE t.src]
      BY <2>3, HeardStep
    <3>2. PICK t \in executing[th] :
            /\ sent' = [sent EXCEPT ![t.client] = t.frame]
            /\ heard' = [heard EXCEPT ![t.client] =
                                      IF phase[t.client] = None THEN None ELSE t.src]
      BY <3>0
    <3>3. t \in Outstanding /\ t.client = c /\ t.frame \in Int /\ t.src \in Int
      BY <2>1, <2>3, <3>2 DEF IInv, TypeOK, Outstanding, Task, Blocks
    <3>4. heard'[c] = t.src /\ sent'[c] = t.frame /\ t.src - t.frame = phase[c]
      BY <2>1, <2>3, <3>1, <3>2, <3>3 DEF IInv, PhaseInv, PhaseKept, TypeOK
    <3>5. heard'[c] = sent'[c] + phase[c] /\ sent'[c] # sent[c]
      BY <2>1, <2>3, <3>1, <3>3, <3>4
    <3> QED
      BY <2>1, <2>2, <3>1, <3>3, <3>4, <3>5
  <2> QED
    BY <2>2, <2>3
<1> QED
  BY <1>1, Inductive, PTL DEF Spec, NoAudioGap

\* The FFT output behaves as SharedSpectrum promises.
THEOREM Refinement == Spec => ImplementsSharedSpectrum
<1>1. Init => Spectrum!Init
  <2> SUFFICES ASSUME Init PROVE Spectrum!Init
    OBVIOUS
  <2>1. Outstanding = {}
    BY DEF Init, Outstanding
  <2> QED
    BY <2>1 DEF Init, Spectrum!Init
<1>2. IInv /\ [Next]_vars => [Spectrum!Next]_<<outbuf, Outstanding>>
  <2> SUFFICES ASSUME IInv, [Next]_vars
               PROVE  [Spectrum!Next]_<<outbuf, Outstanding>>
    OBVIOUS
  <2>1. CASE Execute
    <3>1. Outstanding = {} /\ Outstanding' = {}
      BY <2>1 DEF Execute, IInv, WaitInv, Outstanding, taskVars
    <3> QED
      BY <2>1, <3>1 DEF Execute, Spectrum!Next, Spectrum!BeginUpdate
  <2>2. CASE ExecuteDone
    <3>1. Outstanding' = Outstanding
      BY <2>2 DEF ExecuteDone, Outstanding, taskVars
    <3>2. outbuf' # Torn
      BY <2>2 DEF ExecuteDone, IInv, InbufInv, Transforming, TypeOK, Torn, Blocks
    <3>3. outbuf = Torn
      BY <2>2 DEF ExecuteDone, IInv, WaitInv
    <3> QED
      BY <3>1, <3>2, <3>3 DEF Spectrum!Next, Spectrum!EndUpdate
  <2>3. CASE PostSignal \/ PostWaterfall
    <3>1. PICK C \in SUBSET Clients, k \in LevelIds \cup {AudioLevel} :
             queue' = queue \cup Tasks(C, k)
      BY <2>3 DEF PostSignal, PostWaterfall, IInv, TypeOK, Clients
    <3>2. Outstanding' = Outstanding \cup Tasks(C, k)
      BY <2>3, <3>1 DEF PostSignal, PostWaterfall, Outstanding
    <3>3. \A t \in Tasks(C, k) : t.src = outbuf
      BY DEF Tasks
    <3>4. outbuf # Torn /\ outbuf' = outbuf
      BY <2>3 DEF PostSignal, PostWaterfall, IInv, WaitInv
    <3> QED
      BY <3>2, <3>3, <3>4 DEF Spectrum!Next, Spectrum!Lend
  <2>4. ASSUME NEW th \in IoThreads, IoThread(th)
        PROVE  [Spectrum!Next]_<<outbuf, Outstanding>>
    <3>1. Outstanding' \subseteq Outstanding
      <4>1. ASSUME NEW t \in queue, StartTask(th, t)
            PROVE  Outstanding' \subseteq Outstanding
        BY <4>1 DEF StartTask, Outstanding, IInv, TypeOK
      <4>2. CASE FinishTask(th)
        BY <4>2 DEF FinishTask, Outstanding, IInv, TypeOK
      <4> QED
        BY <2>4, <4>1, <4>2 DEF IoThread
    <3>2. outbuf' = outbuf
      BY <2>4 DEF IoThread, StartTask, FinishTask, fftVars
    <3> QED
      BY <3>1, <3>2 DEF Spectrum!Next, Spectrum!Return
  <2>5. CASE \/ While \/ StartRead \/ LoadFirst \/ LoadSecond \/ CheckUsers
             \/ WaitSignal \/ WaitWaterfall \/ FreeInput \/ JoinRead \/ DestroyFft
             \/ FinishRead \/ Handlers \/ Stop \/ UNCHANGED vars
    <3>1. UNCHANGED <<outbuf, queue, executing>>
      BY <2>5 DEF While, StartRead, LoadFirst, LoadSecond, CheckUsers, WaitSignal,
                  WaitWaterfall, FreeInput, JoinRead, DestroyFft, FinishRead,
                  Handlers, Stop, vars, fftVars, taskVars, OpenAudio, ExtractAudio,
                  InsertAudio, CloseAudio, OpenWaterfall, ExtractWaterfall,
                  InsertWaterfall, CloseWaterfall
    <3>2. Outstanding' = Outstanding
      BY <3>1 DEF Outstanding
    <3> QED
      BY <3>1, <3>2
  <2> QED
    BY <2>1, <2>2, <2>3, <2>4, <2>5 DEF Next, FftTask
<1> QED
  BY <1>1, <1>2, Inductive, PTL DEF Spec, ImplementsSharedSpectrum, Spectrum!Spec

\* At most one send_audio of a client is posted or running: the frame before has
\* been waited for, and waterfall_loop posts nothing for an audio client.
THEOREM OneAudioTaskEach == Spec => []OneAudioTask
<1>1. Init => OneAudioTask
  <2> SUFFICES ASSUME Init PROVE OneAudioTask
    OBVIOUS
  <2>1. Outstanding = {}
    BY DEF Init, Outstanding
  <2> QED
    BY <2>1 DEF OneAudioTask
<1>2. IInv /\ OneAudioTask /\ [Next]_vars => OneAudioTask'
  <2> SUFFICES ASSUME IInv, OneAudioTask, [Next]_vars PROVE OneAudioTask'
    OBVIOUS
  <2>1. CASE PostSignal
    <3>1. PICK C \in SUBSET Clients : queue' = queue \cup Tasks(C, AudioLevel)
      BY <2>1 DEF PostSignal, IInv, TypeOK, Clients
    <3>2. Outstanding = {}
      BY <2>1 DEF PostSignal, IInv, WaitInv
    <3>3. Outstanding' = Outstanding \cup Tasks(C, AudioLevel)
      BY <2>1, <3>1 DEF PostSignal, Outstanding
    <3>4. ASSUME NEW t \in Tasks(C, AudioLevel), NEW u \in Tasks(C, AudioLevel),
                 t.client = u.client
          PROVE  t = u
      <4> DEFINE T(c) == [client |-> c, level |-> AudioLevel,
                          frame |-> frame_num, src |-> outbuf]
      <4>1. (\E c \in C : t = T(c)) /\ (\E c \in C : u = T(c))
        BY DEF Tasks
      <4>2. \A c \in C : T(c).client = c
        OBVIOUS
      <4> HIDE DEF T
      <4> QED
        BY <3>4, <4>1, <4>2
    <3> QED
      BY <3>2, <3>3, <3>4 DEF OneAudioTask
  <2>2. CASE PostWaterfall
    <3>1. PICK C \in SUBSET WaterfallClients : queue' = queue \cup Tasks(C, level)
      BY <2>2 DEF PostWaterfall, IInv, TypeOK
    <3>2. Outstanding' = Outstanding \cup Tasks(C, level)
      BY <2>2, <3>1 DEF PostWaterfall, Outstanding
    <3>3. \A t \in Tasks(C, level) : t.client \notin AudioClients
      BY ClientsAssumption DEF Tasks
    <3> QED
      BY <3>2, <3>3 DEF OneAudioTask
  <2>3. ASSUME NEW th \in IoThreads, IoThread(th)
        PROVE  OneAudioTask'
    <3>1. Outstanding' \subseteq Outstanding
      <4>1. ASSUME NEW t \in queue, StartTask(th, t)
            PROVE  Outstanding' \subseteq Outstanding
        BY <4>1 DEF StartTask, Outstanding, IInv, TypeOK
      <4>2. CASE FinishTask(th)
        BY <4>2 DEF FinishTask, Outstanding, IInv, TypeOK
      <4> QED
        BY <2>3, <4>1, <4>2 DEF IoThread
    <3> QED
      BY <3>1 DEF OneAudioTask
  <2>4. CASE \/ While \/ StartRead \/ LoadFirst \/ LoadSecond \/ CheckUsers
             \/ WaitSignal \/ WaitWaterfall \/ Execute \/ ExecuteDone
             \/ FreeInput \/ JoinRead \/ DestroyFft
             \/ FinishRead \/ Handlers \/ Stop \/ UNCHANGED vars
    <3>1. UNCHANGED <<queue, executing>>
      BY <2>4 DEF While, StartRead, LoadFirst, LoadSecond, CheckUsers, WaitSignal,
                  WaitWaterfall, Execute, ExecuteDone, FreeInput, JoinRead,
                  DestroyFft, FinishRead, Handlers, Stop, vars, fftVars, taskVars,
                  OpenAudio, ExtractAudio, InsertAudio, CloseAudio, OpenWaterfall,
                  ExtractWaterfall, InsertWaterfall, CloseWaterfall
    <3>2. Outstanding' = Outstanding
      BY <3>1 DEF Outstanding
    <3> QED
      BY <3>2 DEF OneAudioTask
  <2> QED
    BY <2>1, <2>2, <2>3, <2>4 DEF Next, FftTask
<1> QED
  BY <1>1, <1>2, Inductive, PTL DEF Spec
=============================================================================
