---------------------------- MODULE SampleProofs ----------------------------
(***************************************************************************)
(* The conversion in place is safe for every length of a read, every       *)
(* format, every short read and any number of samples converted at once;   *)
(* and the spectrum computed from it is laid out so that every window's    *)
(* slice is whole, for every configuration.                                *)
(***************************************************************************)
EXTENDS SamplePath, WindowProofs

Shape ==
    /\ num \in Nat \ {0} /\ width \in {1, 2, 4, 8}
    /\ unsigned \in BOOLEAN
    /\ got \in Nat /\ done \in 0..num
    /\ mem = [b \in 0..(Size(num, width) - 1) |-> mem[b]]
    /\ value = [i \in 0..(num - 1) |-> value[i]]

\* A sample that is yet to be converted is as fread has left it.
Pending ==
    \A i \in done..(num - 1) : \A b \in SampleBytes(i) :
        /\ mem[b] \in {"raw", "old"}
        /\ b < Scratch(num, width) + got => mem[b] = "raw"

SampleInv == Shape /\ Pending /\ SamplesIntact
-----------------------------------------------------------------------------
(***************************************************************************)
(* Where the bytes are: everything lies in the array, and the samples from *)
(* j on lie behind the samples and the results before j.                   *)
(***************************************************************************)
LEMMA SampleInArray ==
    ASSUME Shape, NEW i \in 0..(num - 1), NEW b \in SampleBytes(i)
    PROVE  /\ b \in 0..(Size(num, width) - 1)
           /\ Scratch(num, width) <= b
           /\ b < Scratch(num, width) + width * (i + 1)
  <1>1. CASE width = 1
    BY <1>1 DEF Shape, SampleBytes, Scratch, Size, FloatBytes
  <1>2. CASE width = 2
    BY <1>2, SMTT(30) DEF Shape, SampleBytes, Scratch, Size, FloatBytes
  <1>3. CASE width = 4
    BY <1>3 DEF Shape, SampleBytes, Scratch, Size, FloatBytes
  <1>4. CASE width = 8
    BY <1>4, SMTT(30) DEF Shape, SampleBytes, Scratch, Size, FloatBytes
  <1> QED
    BY <1>1, <1>2, <1>3, <1>4 DEF Shape

LEMMA ResultInArray ==
    ASSUME Shape, NEW i \in 0..(num - 1), NEW b \in ResultBytes(i)
    PROVE  b \in 0..(Size(num, width) - 1)
  BY DEF Shape, ResultBytes, Size, FloatBytes

LEMMA SamplesBehind ==
    ASSUME Shape, NEW j \in 0..(num - 1), NEW b \in SampleBytes(j), NEW i \in 0..(j - 1)
    PROVE  b \notin SampleBytes(i) /\ b \notin ResultBytes(i)
  <1>1. CASE width = 1
    BY <1>1 DEF Shape, SampleBytes, ResultBytes, Scratch, FloatBytes
  <1>2. CASE width = 2
    BY <1>2, SMTT(30) DEF Shape, SampleBytes, ResultBytes, Scratch, FloatBytes
  <1>3. CASE width = 4
    BY <1>3 DEF Shape, SampleBytes, ResultBytes, Scratch, FloatBytes
  <1>4. CASE width = 8
    BY <1>4, SMTT(30) DEF Shape, SampleBytes, ResultBytes, Scratch, FloatBytes
  <1> QED
    BY <1>1, <1>2, <1>3, <1>4 DEF Shape
-----------------------------------------------------------------------------
(***************************************************************************)
(* The invariant.                                                          *)
(***************************************************************************)
LEMMA AfterReadPending ==
    Shape /\ done = 0 /\ mem = AfterRead(got) => Pending /\ SamplesIntact
  <1> SUFFICES ASSUME Shape, done = 0, mem = AfterRead(got)
               PROVE  Pending /\ SamplesIntact
    OBVIOUS
  <1>1. SUFFICES ASSUME NEW i \in 0..(num - 1), NEW b \in SampleBytes(i)
                 PROVE  /\ mem[b] \in {"raw", "old"}
                        /\ b < Scratch(num, width) + got => mem[b] = "raw"
    BY DEF Pending, SamplesIntact, Shape
  <1>2. b \in 0..(Size(num, width) - 1) /\ Scratch(num, width) <= b
    BY SampleInArray
  <1>3. Scratch(num, width) \in Int
    BY DEF Shape, Scratch, FloatBytes
  <1> QED
    BY <1>2, <1>3 DEF AfterRead, Shape

LEMMA Initially == SampleInit => SampleInv
  <1>1. SUFFICES ASSUME SampleInit PROVE SampleInv
    OBVIOUS
  <1>2. Shape
    BY <1>1, ReadSizesAssumption, WidthsAssumption
       DEF SampleInit, Shape, Deliveries, AfterRead
  <1> QED
    BY <1>1, <1>2, AfterReadPending DEF SampleInit, SampleInv

\* What is loaded for a sample that is yet to be converted.
LEMMA LoadedRight ==
    ASSUME Shape, Pending, NEW i \in done..(num - 1)
    PROVE  Loaded(i) # "wrong" /\ (width * (i + 1) <= got => Loaded(i) = "own")
  <1> DEFINE seen == {mem[b] : b \in SampleBytes(i)}
  <1>1. i \in 0..(num - 1)
    BY DEF Shape
  <1>2. seen \subseteq {"raw", "old"}
    BY DEF Pending
  <1>3. ASSUME width * (i + 1) <= got
        PROVE  seen = {"raw"}
    <2>1. \A b \in SampleBytes(i) : mem[b] = "raw"
      <3>1. TAKE b \in SampleBytes(i)
      <3>2. b < Scratch(num, width) + width * (i + 1) /\ b \in Int
        BY <1>1, SampleInArray
      <3>3. Scratch(num, width) \in Int /\ width * (i + 1) \in Int
        BY <1>1 DEF Shape, Scratch, FloatBytes
      <3> QED
        <4>1. b < Scratch(num, width) + got
          BY <1>3, <3>2, <3>3 DEF Shape
        <4> QED
          BY <4>1 DEF Pending
    <2>2. SampleBytes(i) # {}
      <3>1. Scratch(num, width) + width * i \in Int /\ width >= 1
        BY <1>1 DEF Shape, Scratch, FloatBytes
      <3>2. Scratch(num, width) + width * i \in SampleBytes(i)
        BY <3>1 DEF SampleBytes, Shape
      <3> QED
        BY <3>2
    <2> QED
      BY <2>1, <2>2
  <1> QED
    BY <1>2, <1>3 DEF Loaded

LEMMA ConvertKeeps ==
    ASSUME SampleInv, NEW n \in Chunks, Convert(n)
    PROVE  SampleInv'
  <1> USE DEF SampleInv
  <1>1. n \in Nat \ {0}
    BY ChunksAssumption
  <1>2. /\ num' = num /\ width' = width /\ unsigned' = unsigned /\ got' = got
        /\ done' = done + n /\ done' \in 0..num
    BY <1>1 DEF Convert, Shape
  <1>3. \A i : SampleBytes(i)' = SampleBytes(i)
    BY <1>2 DEF SampleBytes
  <1>4. Shape'
    BY <1>2 DEF Shape, Convert
  <1>5. Chunk(n) \subseteq 0..(num - 1) /\ Chunk(n) \subseteq done..(num - 1)
    BY <1>1, <1>2 DEF Chunk, Shape
  <1>6. Pending'
    <2>1. SUFFICES ASSUME NEW j \in (done + n)..(num - 1), NEW b \in SampleBytes(j)
                   PROVE  mem'[b] = mem[b]
      <3>1. \A j \in (done + n)..(num - 1) : j \in done..(num - 1)
        BY <1>1 DEF Shape
      <3> QED
        BY <1>2, <1>3, <2>1, <3>1 DEF Pending
    <2>2. j \in 0..(num - 1)
      BY <1>1 DEF Shape
    <2>3. \A i \in Chunk(n) : i \in 0..(j - 1)
      BY <1>1 DEF Chunk, Shape
    <2>4. \A i \in Chunk(n) : b \notin SampleBytes(i) /\ b \notin ResultBytes(i)
      BY <2>2, <2>3, SamplesBehind
    <2>5. b \in 0..(Size(num, width) - 1)
      BY <2>2, SampleInArray
    <2> QED
      BY <2>4, <2>5 DEF Convert
  <1>7. SamplesIntact'
    <2>1. SUFFICES ASSUME NEW i \in 0..(done' - 1)
                   PROVE  /\ \A b \in ResultBytes(i) : mem'[b] = "float"
                          /\ value'[i] # "wrong"
                          /\ width' * (i + 1) <= got' => value'[i] = "own"
      BY DEF SamplesIntact
    <2>2. i \in 0..(num - 1)
      BY <1>1, <1>2 DEF Shape
    <2>3. \A b \in ResultBytes(i) : b \in 0..(Size(num, width) - 1)
      BY <2>2, ResultInArray
    <2>4. CASE i \in Chunk(n)
      <3>1. value'[i] = Loaded(i)
        BY <2>2, <2>4 DEF Convert
      <3>2. \A b \in ResultBytes(i) : mem'[b] = "float"
        BY <2>3, <2>4 DEF Convert
      <3> QED
        BY <1>2, <1>5, <2>4, <3>1, <3>2, LoadedRight
    <2>5. CASE i \notin Chunk(n)
      <3>1. i \in 0..(done - 1)
        BY <1>1, <1>2, <2>5 DEF Chunk, Shape
      <3>2. value'[i] = value[i]
        BY <2>2, <2>5 DEF Convert
      <3>3. ASSUME NEW b \in ResultBytes(i) PROVE mem'[b] = "float"
        <4>1. \A k \in Chunk(n) : i \in 0..(k - 1) /\ k \in 0..(num - 1)
          BY <1>5, <3>1 DEF Chunk, Shape
        <4>2. \A k \in Chunk(n) : b \notin SampleBytes(k)
          BY <4>1, SamplesBehind
        <4>3. mem[b] = "float"
          BY <3>1 DEF SamplesIntact
        <4> QED
          BY <2>3, <4>2, <4>3 DEF Convert
      <3> QED
        BY <1>2, <3>1, <3>2, <3>3 DEF SamplesIntact
    <2> QED
      BY <2>4, <2>5
  <1> QED
    BY <1>4, <1>6, <1>7

\* Everything the results rest on holds at every moment of every read.
THEOREM SampleInductive == SampleSpec => []SampleInv
  <1>1. SampleInv /\ [SampleNext]_sampleVars => SampleInv'
    <2>1. SUFFICES ASSUME SampleInv, [SampleNext]_sampleVars PROVE SampleInv'
      OBVIOUS
    <2>2. ASSUME NEW bytes \in Deliveries, Read(bytes) PROVE SampleInv'
      <3>1. Shape' /\ done' = 0 /\ mem' = AfterRead(got)'
        BY <2>1, <2>2 DEF SampleInv, Shape, Read, Deliveries, AfterRead
      <3>2. (Shape /\ done = 0 /\ mem = AfterRead(got) => Pending /\ SamplesIntact)'
        BY AfterReadPending, PTL
      <3> QED
        BY <3>1, <3>2 DEF SampleInv
    <2>3. CASE UNCHANGED sampleVars
      BY <2>1, <2>3, ZenonT(60) DEF sampleVars, SampleInv, Shape, Pending, SamplesIntact, SampleBytes, ResultBytes
    <2> QED
      BY <2>1, <2>2, <2>3, ConvertKeeps DEF SampleNext
  <1> QED
    BY <1>1, Initially, PTL DEF SampleSpec

\* No sample is overwritten before it is converted, by whatever is converted into
\* the same array.
THEOREM SamplesAreIntact == SampleSpec => []SamplesIntact
  BY SampleInductive, PTL DEF SampleInv
-----------------------------------------------------------------------------
(***************************************************************************)
(* The spectrum.  What the cells of fft_buffer hold at each point of a     *)
(* frame: every bin in its place, normalised once it has been quantised,   *)
(* and the front of an IQ spectrum again behind its end.                   *)
(***************************************************************************)
Spare == AudioMaxFftSize(config)

TimesScaled(k) ==
    CASE pc = "upper" -> 0
      [] pc = "lower" -> IF k < BaseIdx THEN 0 ELSE 1
      [] OTHER -> 1

ConfigInv ==
    /\ config \in Configs
    /\ default.l \in 0..N /\ default.r \in 0..N

CellInv ==
    /\ DOMAIN fft_buffer = 0..(OutputCells(config) - 1)
    /\ pc \in {"transform", "upper", "lower", "halve", "posted"}
    /\ pc # "transform" =>
         \A k \in 0..(N - 1) : fft_buffer[k] = [bin |-> k, scaled |-> TimesScaled(k)]
    /\ pc = "posted" /\ ~IsReal(config) =>
         \A k \in N..(N + Spare - 1) : fft_buffer[k] = fft_buffer[k - N]

\* The sizes of a configuration, and how they fit together.
LEMMA SizesFit ==
    ASSUME config \in Configs
    PROVE  /\ N \in Nat \ {0} /\ Spare \in Nat /\ OutputCells(config) \in Nat
           /\ BaseIdx \in 0..N /\ N <= OutputCells(config)
           /\ ~IsReal(config) =>
                /\ Spare <= N /\ OutputCells(config) = N + Spare
                /\ config.fft_size = N /\ BaseIdx = N \div 2 + 1
           /\ IsReal(config) => BaseIdx = 0
<1>1. /\ config.fft_size \in Nat /\ config.fft_size % 2 = 0 /\ config.fft_size > 0
      /\ config.sps \in Nat \ {0} /\ config.audio_sps \in Nat
      /\ IsReal(config) \/ Spare <= ResultSize(config)
  BY ConfigsAssumption DEF Spare
<1>2. Spare \in Nat
  <2> DEFINE a == config.audio_sps * config.fft_size
             b == 4 * config.sps
  <2>1. a \in Nat /\ b \in Nat \ {0}
    BY <1>1
  <2> HIDE DEF a, b
  <2>2. (a + b - 1) \div b \in Nat
    BY <2>1
  <2> QED
    BY <2>2 DEF Spare, AudioMaxFftSize, a, b
<1>3. CASE IsReal(config)
  BY <1>1, <1>2, <1>3 DEF N, ResultSize, OutputCells, BaseIdx
<1>4. CASE ~IsReal(config)
  <2>1. /\ N = config.fft_size /\ OutputCells(config) = N + Spare /\ BaseIdx = N \div 2 + 1
        /\ Spare <= N
    BY <1>1, <1>4 DEF N, ResultSize, OutputCells, BaseIdx, Spare
  <2> QED
    BY <1>1, <1>2, <1>4, <2>1
<1> QED
  BY <1>3, <1>4

\* The default window is clamped to the spectrum, whatever the configuration asks.
LEMMA DefaultInside ==
    ASSUME config \in Configs, NEW f \in DefaultFrequencies(config)
    PROVE  /\ DefaultWindow(config, f).l \in 0..N
           /\ DefaultWindow(config, f).r \in 0..N
<1>1. /\ config.sps \in Nat \ {0} /\ config.frequency \in Int /\ N \in Nat \ {0}
      /\ config.defaults.frequency = Missing \/ config.defaults.frequency \in Int
  BY ConfigsAssumption, SizesFit
<1>2. BaseFreq(config) \in Int /\ f \in Int
  <2>1. BaseFreq(config) \in Int
    BY <1>1 DEF BaseFreq
  <2> QED
    BY <1>1, <2>1, UninitialisedAssumption DEF DefaultFrequencies, Requested
<1> DEFINE mode == IF config.defaults.modulation \in DOMAIN Reach
                   THEN config.defaults.modulation ELSE "USB"
           whole == ResultSize(config) * (IF IsReal(config) THEN 2 ELSE 1)
           m == ((f - BaseFreq(config)) * whole) \div config.sps
           below == Offset(config, Reach[mode].below)
           above == Offset(config, Reach[mode].above)
<1>3. m \in Int
  <2>1. whole \in Int
    BY <1>1 DEF N
  <2> HIDE DEF whole
  <2>2. (f - BaseFreq(config)) * whole \in Int
    BY <1>2, <2>1
  <2> QED
    BY <1>1, <2>2
<1>4. below \in Int /\ above \in Int
  <2>1. mode \in {"LSB", "USB", "AM", "FM", "WBFM"}
    BY DEF Reach
  <2>2. Reach[mode].below \in Int /\ Reach[mode].above \in Int
    <3> HIDE DEF mode
    <3> QED
      BY <2>1 DEF Reach
  <2> HIDE DEF mode
  <2>3. \A hz \in Int : Offset(config, hz) \in Int
    <3> TAKE hz \in Int
    <3>1. hz * N \in Int
      BY <1>1
    <3> QED
      BY <1>1, <3>1 DEF Offset, N
  <2> QED
    BY <2>2, <2>3
<1> DEFINE clamped(x) == IF x < 0 THEN 0 ELSE IF x > N THEN N ELSE x
<1>5. /\ DefaultWindow(config, f).l = clamped(m - below)
      /\ DefaultWindow(config, f).r = clamped(m + above)
  BY DEF DefaultWindow, N
<1>6. \A x \in Int : clamped(x) \in 0..N
  BY <1>1
<1> HIDE DEF m, below, above, clamped
<1>7. m - below \in Int /\ m + above \in Int
  BY <1>3, <1>4
<1> QED
  BY <1>5, <1>6, <1>7

LEMMA InitCells == SpectrumInit => ConfigInv /\ CellInv
<1> SUFFICES ASSUME SpectrumInit PROVE ConfigInv /\ CellInv
  OBVIOUS
<1>1. ConfigInv
  BY DefaultInside DEF SpectrumInit, ConfigInv
<1>2. CellInv
  BY DEF SpectrumInit, CellInv, Cleared
<1> QED
  BY <1>1, <1>2

\* Every step of a frame puts the cells in the state the next one expects.
LEMMA StepCells ==
    ASSUME ConfigInv, CellInv, [SpectrumNext]_spectrumVars
    PROVE  ConfigInv' /\ CellInv'
<1>1. config' = config /\ default' = default
  BY DEF SpectrumNext, Transform, QuantizeUpper, QuantizeLower, Halve, WrapCopy, NextFrame,
         spectrumVars
<1>2. ConfigInv' /\ N' = N /\ BaseIdx' = BaseIdx /\ Spare' = Spare
  BY <1>1 DEF ConfigInv, N, BaseIdx, Spare
<1>3. /\ N \in Nat \ {0} /\ Spare \in Nat /\ OutputCells(config) \in Nat
      /\ BaseIdx \in 0..N /\ N <= OutputCells(config)
      /\ ~IsReal(config) => Spare <= N /\ OutputCells(config) = N + Spare
  BY SizesFit DEF ConfigInv
<1>4. CASE Transform
  <2>1. pc' = "upper" /\ DOMAIN fft_buffer' = DOMAIN fft_buffer
    BY <1>4 DEF Transform, Goto
  <2>2. \A k \in 0..(N - 1) : fft_buffer'[k] = [bin |-> k, scaled |-> 0]
    BY <1>3, <1>4 DEF Transform, CellInv
  <2> QED
    BY <1>1, <1>2, <2>1, <2>2 DEF CellInv, TimesScaled
<1>5. CASE QuantizeUpper
  <2>1. pc = "upper" /\ pc' = "lower" /\ DOMAIN fft_buffer' = DOMAIN fft_buffer
    BY <1>5 DEF QuantizeUpper, PowerAndQuantize, Goto
  <2>2. ASSUME NEW k \in 0..(N - 1)
        PROVE  fft_buffer'[k] = [bin |-> k, scaled |-> IF k < BaseIdx THEN 0 ELSE 1]
    <3>1. fft_buffer[k] = [bin |-> k, scaled |-> 0] /\ k \in DOMAIN fft_buffer
      BY <1>3, <2>1 DEF CellInv, TimesScaled
    <3>2. k \in BaseIdx..(BaseIdx + (N - BaseIdx) - 1) <=> ~(k < BaseIdx)
      BY <1>3
    <3>3. fft_buffer'[k] = IF k \in BaseIdx..(BaseIdx + (N - BaseIdx) - 1)
                           THEN [fft_buffer[k] EXCEPT !.scaled = @ + 1] ELSE fft_buffer[k]
      BY <1>5, <3>1 DEF QuantizeUpper, PowerAndQuantize
    <3> QED
      BY <3>1, <3>2, <3>3
  <2> QED
    BY <1>1, <1>2, <2>1, <2>2 DEF CellInv, TimesScaled
<1>6. CASE QuantizeLower
  <2>1. pc = "lower" /\ pc' = "halve" /\ DOMAIN fft_buffer' = DOMAIN fft_buffer
    BY <1>6 DEF QuantizeLower, PowerAndQuantize, Goto
  <2>2. ASSUME NEW k \in 0..(N - 1)
        PROVE  fft_buffer'[k] = [bin |-> k, scaled |-> 1]
    <3>1. /\ fft_buffer[k] = [bin |-> k, scaled |-> IF k < BaseIdx THEN 0 ELSE 1]
          /\ k \in DOMAIN fft_buffer
      BY <1>3, <2>1 DEF CellInv, TimesScaled
    <3>2. k \in 0..(0 + BaseIdx - 1) <=> k < BaseIdx
      BY <1>3
    <3>3. fft_buffer'[k] = IF k \in 0..(0 + BaseIdx - 1)
                           THEN [fft_buffer[k] EXCEPT !.scaled = @ + 1] ELSE fft_buffer[k]
      BY <1>6, <3>1 DEF QuantizeLower, PowerAndQuantize
    <3> QED
      BY <3>1, <3>2, <3>3
  <2> QED
    BY <1>1, <1>2, <2>1, <2>2 DEF CellInv, TimesScaled
<1>7. CASE Halve
  BY <1>1, <1>2, <1>7 DEF Halve, CellInv, TimesScaled
<1>8. CASE WrapCopy
  <2>1. pc = "halve" /\ pc' = "posted" /\ DOMAIN fft_buffer' = DOMAIN fft_buffer
    BY <1>8 DEF WrapCopy
  <2>2. ASSUME NEW k \in 0..(N - 1) PROVE fft_buffer'[k] = [bin |-> k, scaled |-> 1]
    <3>1. fft_buffer[k] = [bin |-> k, scaled |-> 1] /\ k \in DOMAIN fft_buffer
      BY <1>3, <2>1 DEF CellInv, TimesScaled
    <3>2. k \notin N..(N + Spare - 1)
      BY <1>3
    <3> QED
      BY <1>8, <3>1, <3>2 DEF WrapCopy, Spare
  <2>3. ASSUME ~IsReal(config), NEW k \in N..(N + Spare - 1)
        PROVE  fft_buffer'[k] = fft_buffer'[k - N]
    <3>1. k \in DOMAIN fft_buffer /\ k - N \in 0..(N - 1)
      BY <1>3, <2>3 DEF CellInv
    <3>2. fft_buffer'[k] = fft_buffer[k - N]
      BY <1>8, <2>3, <3>1 DEF WrapCopy, Spare
    <3>3. k - N \in DOMAIN fft_buffer /\ k - N \notin N..(N + Spare - 1)
      BY <1>3, <3>1 DEF CellInv
    <3>4. fft_buffer'[k - N] = fft_buffer[k - N]
      BY <1>8, <3>3 DEF WrapCopy, Spare
    <3> QED
      BY <3>2, <3>4
  <2> QED
    BY <1>1, <1>2, <2>1, <2>2, <2>3 DEF CellInv, TimesScaled
<1>9. CASE NextFrame
  BY <1>1, <1>2, <1>9 DEF NextFrame, Goto, buffers, CellInv, TimesScaled
<1>10. CASE UNCHANGED spectrumVars
  BY <1>1, <1>2, <1>10 DEF spectrumVars, buffers, CellInv, TimesScaled
<1> QED
  BY <1>2, <1>4, <1>5, <1>6, <1>7, <1>8, <1>9, <1>10 DEF SpectrumNext

\* Where the slice of a window begins, and that it may run past the end of an IQ
\* spectrum but not past the copy behind it.
LEMMA SliceIs ==
    ASSUME ConfigInv, CellInv, pc = "posted", NEW l \in 0..N, NEW r \in 0..N,
           r - l <= Spare
    PROVE  Contiguous(l, r)
<1>1. /\ N \in Nat \ {0} /\ Spare \in Nat /\ OutputCells(config) \in Nat
      /\ N <= OutputCells(config)
      /\ ~IsReal(config) =>
           /\ Spare <= N /\ OutputCells(config) = N + Spare
           /\ config.fft_size = N
  BY SizesFit DEF ConfigInv
<1> SUFFICES ASSUME NEW x \in l..(r - 1)
             PROVE  /\ AudioStart(l) + x - l \in DOMAIN fft_buffer
                    /\ fft_buffer[AudioStart(l) + x - l].bin = BinAt(x)
                    /\ fft_buffer[AudioStart(l) + x - l].scaled = 1
  BY DEF Contiguous
<1>2. /\ DOMAIN fft_buffer = 0..(OutputCells(config) - 1)
      /\ \A k \in 0..(N - 1) : fft_buffer[k] = [bin |-> k, scaled |-> 1]
      /\ ~IsReal(config) => \A k \in N..(N + Spare - 1) : fft_buffer[k] = fft_buffer[k - N]
  BY DEF CellInv, TimesScaled
<1>3. x \in Int /\ l <= x /\ x < r /\ x \in 0..(N - 1) /\ l \in 0..(N - 1) /\ r <= N
      /\ l \in Int /\ r \in Int
  BY <1>1
<1>4. CASE IsReal(config)
  <2>1. AudioStart(l) = l /\ BinAt(x) = x
    BY <1>1, <1>3, <1>4 DEF AudioStart, BinAt
  <2> DEFINE k == AudioStart(l) + x - l
  <2>2. k = x /\ x \in DOMAIN fft_buffer
    BY <1>1, <1>2, <1>3, <2>1
  <2> HIDE DEF k
  <2>3. fft_buffer[k] = [bin |-> BinAt(x), scaled |-> 1] /\ k \in DOMAIN fft_buffer
    BY <1>2, <1>3, <2>1, <2>2
  <2> QED
    BY <2>3 DEF k
<1>5. CASE ~IsReal(config)
  <2> DEFINE h == N \div 2 + 1
             k == AudioStart(l) + x - l
  <2>1. AudioStart(l) = (l + h) % N /\ BinAt(x) = (x + h) % N /\ h \in 1..N + 1
    BY <1>1, <1>5 DEF AudioStart, BinAt
  <2> HIDE DEF h
  <2>2. AudioStart(l) = (IF l + h < N THEN l + h ELSE IF l + h < 2 * N THEN l + h - N ELSE l + h - 2 * N)
    BY <1>1, <1>3, <2>1
  <2>3. BinAt(x) = (IF x + h < N THEN x + h ELSE IF x + h < 2 * N THEN x + h - N ELSE x + h - 2 * N)
    BY <1>1, <1>3, <2>1
  <2>4. k \in 0..(N + Spare - 1) /\ BinAt(x) = (IF k < N THEN k ELSE k - N)
        /\ (k >= N => k - N \in 0..(N - 1))
    BY <1>1, <1>3, <1>5, <2>1, <2>2, <2>3
  <2> HIDE DEF k
  <2>5. fft_buffer[k] = [bin |-> BinAt(x), scaled |-> 1] /\ k \in DOMAIN fft_buffer
    BY <1>1, <1>2, <1>5, <2>4, SMTT(30)
  <2> QED
    BY <2>5 DEF k
<1> QED
  BY <1>4, <1>5

-----------------------------------------------------------------------------
(***************************************************************************)
(* The pyramid.  Level after level is written behind the one before, each  *)
(* pixel from two of that one, until the last level of the configuration.  *)
(***************************************************************************)
Shown(i, x) ==
    LET k == LevelStart(i) + x IN
    /\ powerbuf[k] = BinsAt(i, x)
    /\ quantizedbuf[k] = [bins |-> BinsAt(i, x), shift |-> i]

LevelsInv ==
    /\ halvings \in 0..Last(N, config.waterfall_size)
    /\ base = LevelStart(halvings) /\ out_len = LevelLength(N, halvings)
    /\ base + 2 * out_len <= 2 * N
    /\ \A i \in 0..halvings :
         /\ LevelStart(i) + LevelLength(N, i) <= base + out_len
         /\ \A x \in 0..(LevelLength(N, i) - 1) : Shown(i, x)

PixelInv ==
    /\ DOMAIN powerbuf = 0..(2 * N - 1) /\ DOMAIN quantizedbuf = 0..(2 * N - 1)
    /\ pc = "lower" => \A x \in 0..(N - BaseIdx - 1) : Shown(0, x)
    /\ pc \in {"halve", "posted"} => LevelsInv
    /\ pc = "posted" => halvings = Last(N, config.waterfall_size)

\* Each level starts where the one before ends.
LEMMA LevelStartIs ==
    ASSUME N \in Nat
    PROVE  /\ LevelStart(0) = 0
           /\ \A i \in Nat : /\ LevelStart(i) \in Nat
                             /\ LevelStart(i + 1) = LevelStart(i) + LevelLength(N, i)
<1> DEFINE F == N
           start == LevelStarts(F)
           Behind(v, n) == v + LevelLength(F, n - 1)
<1>0. \A i : LevelStart(i) = start[i]
  BY DEF LevelStart
<1>1. start[0] = 0 /\ \A i \in Nat : start[i + 1] = start[i] + LevelLength(F, i)
  <2> HIDE DEF F
  <2>1. NatInductiveDefHypothesis(start, 0, Behind)
    BY DEF NatInductiveDefHypothesis, LevelStarts
  <2>2. NatInductiveDefConclusion(start, 0, Behind)
    BY <2>1, NatInductiveDef
  <2>3. start = [i \in Nat |-> IF i = 0 THEN 0 ELSE start[i - 1] + LevelLength(F, i - 1)]
    BY <2>2 DEF NatInductiveDefConclusion
  <2> HIDE DEF start
  <2> QED
    BY <2>3
<1> DEFINE S == {i \in Nat : start[i] \in Nat}
<1>2. 0 \in S /\ \A i \in S : i + 1 \in S
  <2>1. \A i \in Nat : LevelLength(F, i) \in Nat
    BY LengthIs
  <2> HIDE DEF F, start
  <2> QED
    BY <1>1, <2>1
<1>3. S = Nat
  <2> HIDE DEF S
  <2>1. S \in SUBSET Nat
    BY DEF S
  <2> QED
    BY <1>2, <2>1, ReachesAll
<1> QED
  BY <1>0, <1>1, <1>3

\* A bin of an IQ spectrum is shown where the lowest frequency comes first.
LEMMA BinIs ==
    ASSUME config \in Configs, NEW x \in 0..(N - 1)
    PROVE  BinAt(x) = IF x + BaseIdx < N THEN x + BaseIdx ELSE x + BaseIdx - N
<1>1. N \in Nat \ {0} /\ BaseIdx \in 0..N /\ x \in Nat /\ x < N
  BY SizesFit
<1>2. CASE IsReal(config)
  BY <1>1, <1>2, SizesFit DEF BinAt
<1>3. CASE ~IsReal(config)
  <2>1. BinAt(x) = (x + BaseIdx) % N
    BY <1>1, <1>3, SizesFit DEF BinAt
  <2> DEFINE B == BaseIdx
             F == N
  <2> HIDE DEF B, F
  <2>2. (x + B) % F = IF x + B < F THEN x + B ELSE x + B - F
    BY <1>1 DEF B, F
  <2> QED
    BY <2>1, <2>2 DEF B, F
<1> QED
  BY <1>2, <1>3

LEMMA FirstBins == \A x \in Nat : BinsAt(0, x) = {BinAt(x)}
<1> TAKE x \in Nat
<1>1. (x * Pow2[0])..(x * Pow2[0] + Pow2[0] - 1) = {x}
  BY Pow2Doubles
<1> QED
  BY <1>1 DEF BinsAt

\* Two pixels next to each other show the bins of one on the next level.
LEMMA BinsJoin ==
    ASSUME NEW i \in Nat, NEW x \in Nat
    PROVE  BinsAt(i, 2 * x) \cup BinsAt(i, 2 * x + 1) = BinsAt(i + 1, x)
<1> DEFINE P == Pow2[i]
<1>1. P \in Nat \ {0} /\ Pow2[i + 1] = 2 * P
  BY Pow2Doubles, Pow2Grows
<1> HIDE DEF P
<1> DEFINE a == (2 * x) * P
<1>2. a \in Nat /\ (2 * x + 1) * P = a + P /\ x * (2 * P) = a
  BY <1>1
<1> HIDE DEF a
<1>3. (a..(a + P - 1)) \cup ((a + P)..(a + P + P - 1)) = a..(a + 2 * P - 1)
  BY <1>1, <1>2
<1>4. /\ BinsAt(i, 2 * x) = {BinAt(y) : y \in a..(a + P - 1)}
      /\ BinsAt(i, 2 * x + 1) = {BinAt(y) : y \in (a + P)..(a + P + P - 1)}
      /\ BinsAt(i + 1, x) = {BinAt(y) : y \in a..(a + 2 * P - 1)}
  BY <1>1, <1>2 DEF BinsAt, P, a
<1> QED
  BY <1>3, <1>4

LEMMA LengthHalves ==
    ASSUME NEW F \in Nat, NEW i \in Nat
    PROVE  LevelLength(F, i + 1) = LevelLength(F, i) \div 2
<1> DEFINE P == Pow2[i]
           a == LevelLength(F, i)
           b == LevelLength(F, i + 1)
<1>0. P \in Nat \ {0} /\ a \in Nat /\ P * a <= F /\ F < P * a + P
  BY LengthIs
<1>1. P \in Nat \ {0} /\ b \in Nat /\ (2 * P) * b <= F /\ F < (2 * P) * b + 2 * P
  <2>1. /\ b \in Nat /\ Pow2[i + 1] * b <= F /\ F < Pow2[i + 1] * b + Pow2[i + 1]
    <3>1. i + 1 \in Nat
      OBVIOUS
    <3> QED
      BY <3>1, LengthIs, Zenon
  <2>2. Pow2[i + 1] = 2 * P
    BY Pow2Doubles
  <2> QED
    BY <1>0, <2>1, <2>2
<1> HIDE DEF P, a, b
<1>2. P * (2 * b) < P * (a + 1) /\ P * a < P * (2 * b + 2)
  <2>1. /\ P * (2 * b) = (2 * P) * b /\ P * (a + 1) = P * a + P
        /\ P * (2 * b + 2) = (2 * P) * b + 2 * P
    BY <1>0, <1>1
  <2> DEFINE u == P * a
             v == (2 * P) * b
  <2>2. u \in Nat /\ v \in Nat
    BY <1>0, <1>1
  <2>3. u <= F /\ F < u + P /\ v <= F /\ F < v + 2 * P
    BY <1>0, <1>1
  <2> HIDE DEF u, v
  <2>4. v < u + P /\ u < v + 2 * P
    BY <1>0, <1>1, <2>2, <2>3
  <2> QED
    BY <2>1, <2>4 DEF u, v
<1>3. \A m, n \in Nat : P * m < P * n => m < n
  BY <1>0, <1>1
<1>4. 2 * b < a + 1 /\ a < 2 * b + 2
  BY <1>0, <1>1, <1>2, <1>3
<1>5. b = a \div 2
  BY <1>0, <1>1, <1>4
<1> QED
  BY <1>5 DEF a, b

LEMMA PyramidIs ==
    ASSUME config \in Configs
    PROVE  PowerCells(config) = 2 * N /\ HasLevels(N, config.waterfall_size)
<1>1. /\ config.fft_size \in Nat /\ config.fft_size % 2 = 0
      /\ config.waterfall_size \in 1..ResultSize(config) /\ N \in Nat \ {0}
  BY ConfigsAssumption, SizesFit
<1> QED
  BY <1>1 DEF PowerCells, N, ResultSize, HasLevels

\* What a pixel should show is the same for all frames of a configuration.
LEMMA SameLayout ==
    ASSUME config' = config
    PROVE  /\ N' = N /\ BaseIdx' = BaseIdx
           /\ \A i : LevelStart(i)' = LevelStart(i)
           /\ \A i, x : BinsAt(i, x)' = BinsAt(i, x)
<1>1. N' = N /\ BaseIdx' = BaseIdx
  BY DEF N, BaseIdx
<1>2. \A i : LevelStart(i)' = LevelStart(i)
  BY <1>1 DEF LevelStart
<1>3. \A y : BinAt(y)' = BinAt(y)
  BY <1>1 DEF BinAt
<1>4. \A i, x : BinsAt(i, x)' = BinsAt(i, x)
  BY <1>3 DEF BinsAt
<1> QED
  BY <1>1, <1>2, <1>4

LEMMA BinsInPlace ==
    ASSUME CellInv, pc # "transform" PROVE \A k \in 0..(N - 1) : fft_buffer[k].bin = k
<1> TAKE k \in 0..(N - 1)
<1>1. fft_buffer[k] = [bin |-> k, scaled |-> TimesScaled(k)]
  BY DEF CellInv
<1> QED
  BY <1>1

\* The upper half of an IQ spectrum, all of a real one, is shown first, ...
LEMMA UpperShown ==
    ASSUME ConfigInv, CellInv, PixelInv, QuantizeUpper
    PROVE  PixelInv'
<1>1. config' = config /\ pc = "upper" /\ pc' = "lower"
  BY DEF QuantizeUpper, Goto
<1>2. N \in Nat \ {0} /\ BaseIdx \in 0..N
  BY SizesFit DEF ConfigInv
<1>3. DOMAIN powerbuf' = DOMAIN powerbuf /\ DOMAIN quantizedbuf' = DOMAIN quantizedbuf
  BY DEF QuantizeUpper, PowerAndQuantize
<1>4. ASSUME NEW x \in 0..(N - BaseIdx - 1) PROVE Shown(0, x)'
  <2>1. x \in Nat /\ x \in 0..(N - 1) /\ x + BaseIdx \in 0..(N - 1)
    BY <1>2
  <2>2. x \in 0..(0 + (N - BaseIdx) - 1) /\ x - 0 + BaseIdx = x + BaseIdx
    BY <1>2
  <2>3. x \in DOMAIN powerbuf /\ x \in DOMAIN quantizedbuf
    BY <1>2, <2>1 DEF PixelInv
  <2>4. /\ powerbuf'[x] = {fft_buffer[x - 0 + BaseIdx].bin}
        /\ quantizedbuf'[x] = [bins |-> {fft_buffer[x - 0 + BaseIdx].bin}, shift |-> 0]
    BY <2>2, <2>3 DEF QuantizeUpper, PowerAndQuantize
  <2>5. fft_buffer[x + BaseIdx].bin = x + BaseIdx
    BY <1>1, <2>1, BinsInPlace
  <2>6. BinAt(x) = x + BaseIdx
    BY <1>2, <2>1, BinIs DEF ConfigInv
  <2>7. BinsAt(0, x) = {BinAt(x)} /\ LevelStart(0) + x = x
    BY <1>2, <2>1, FirstBins, LevelStartIs
  <2>8. LevelStart(0)' = LevelStart(0) /\ BinsAt(0, x)' = BinsAt(0, x)
    BY <1>1, SameLayout
  <2> QED
    BY <2>2, <2>4, <2>5, <2>6, <2>7, <2>8 DEF Shown
<1> QED
  BY <1>1, <1>3, <1>4, SameLayout DEF PixelInv

\* ... then the rest, which completes the first level.
LEMMA LowerShown ==
    ASSUME ConfigInv, CellInv, PixelInv, QuantizeLower
    PROVE  PixelInv'
<1>1. config' = config /\ pc = "lower" /\ pc' = "halve"
  BY DEF QuantizeLower, Goto
<1>2. N \in Nat \ {0} /\ BaseIdx \in 0..N
  BY SizesFit DEF ConfigInv
<1>3. DOMAIN powerbuf' = DOMAIN powerbuf /\ DOMAIN quantizedbuf' = DOMAIN quantizedbuf
  BY DEF QuantizeLower, PowerAndQuantize
<1>4. ASSUME NEW x \in 0..(N - 1) PROVE Shown(0, x)'
  <2>1. x \in Nat /\ BinsAt(0, x) = {BinAt(x)} /\ LevelStart(0) + x = x
    BY <1>2, FirstBins, LevelStartIs
  <2>2. LevelStart(0)' = LevelStart(0) /\ BinsAt(0, x)' = BinsAt(0, x)
    BY <1>1, SameLayout
  <2>3. x \in DOMAIN powerbuf /\ x \in DOMAIN quantizedbuf
    BY <1>2, <2>1 DEF PixelInv
  <2>4. CASE x < N - BaseIdx
    <3>1. Shown(0, x)
      BY <1>1, <1>2, <2>1, <2>4 DEF PixelInv
    <3>2. x \notin (N - BaseIdx)..(N - BaseIdx + BaseIdx - 1)
      BY <1>2, <2>4
    <3>3. powerbuf'[x] = powerbuf[x] /\ quantizedbuf'[x] = quantizedbuf[x]
      BY <2>3, <3>2 DEF QuantizeLower, PowerAndQuantize
    <3> QED
      BY <2>1, <2>2, <3>1, <3>3 DEF Shown
  <2>5. CASE x >= N - BaseIdx
    <3>1. /\ x \in (N - BaseIdx)..(N - BaseIdx + BaseIdx - 1)
          /\ x - (N - BaseIdx) + 0 \in 0..(N - 1)
          /\ x - (N - BaseIdx) + 0 = x + BaseIdx - N
      BY <1>2, <2>5
    <3>2. /\ powerbuf'[x] = {fft_buffer[x - (N - BaseIdx) + 0].bin}
          /\ quantizedbuf'[x] = [bins |-> {fft_buffer[x - (N - BaseIdx) + 0].bin}, shift |-> 0]
      BY <2>3, <3>1 DEF QuantizeLower, PowerAndQuantize
    <3>3. fft_buffer[x - (N - BaseIdx) + 0].bin = x - (N - BaseIdx) + 0
      BY <1>1, <3>1, BinsInPlace
    <3>4. BinAt(x) = x + BaseIdx - N
      BY <1>2, <2>1, <2>5, BinIs DEF ConfigInv
    <3> QED
      BY <2>1, <2>2, <3>1, <3>2, <3>3, <3>4 DEF Shown
  <2> QED
    BY <1>2, <2>4, <2>5
<1>5. halvings' = 0 /\ base' = 0 /\ out_len' = N
  BY DEF QuantizeLower
<1>6. LevelLength(N, 0) = N /\ LevelStart(0) = 0 /\ Last(N, config.waterfall_size) \in Nat
  <2>1. HasLevels(N, config.waterfall_size)
    BY PyramidIs DEF ConfigInv
  <2> QED
    BY <1>2, <2>1, Pow2Doubles, LevelStartIs, LevelsIs DEF LevelLength
<1>7. LevelsInv'
  BY <1>1, <1>2, <1>4, <1>5, <1>6, SameLayout DEF LevelsInv
<1> QED
  BY <1>1, <1>3, <1>7, SameLayout DEF PixelInv

\* A level is written behind all that are there, from pixels of the one before.
LEMMA HalveShown ==
    ASSUME ConfigInv, CellInv, PixelInv, Halve
    PROVE  PixelInv'
<1> DEFINE F == N
           h == halvings
           B == base
           O == out_len
           top == Last(N, config.waterfall_size)
           next == (B + O)..(B + O + (O \div 2) - 1)
<1>1. config' = config /\ pc = "halve" /\ pc' = "halve"
  BY DEF Halve
<1>2. /\ F \in Nat \ {0} /\ top \in Nat
  <2>1. HasLevels(N, config.waterfall_size) /\ N \in Nat \ {0}
    BY PyramidIs, SizesFit DEF ConfigInv
  <2> QED
    BY <2>1, LevelsIs
<1>3. /\ h \in 0..top /\ h < top
      /\ B = LevelStart(h) /\ O = LevelLength(F, h) /\ B + 2 * O <= 2 * F
      /\ \A i \in 0..h : /\ LevelStart(i) + LevelLength(F, i) <= B + O
                         /\ \A x \in 0..(LevelLength(F, i) - 1) : Shown(i, x)
  BY <1>1 DEF PixelInv, LevelsInv, Halve, DownsampleLevels, Last, N
<1>4. h \in Nat /\ h + 1 \in 0..top /\ B \in Nat /\ O \in Nat /\ O \div 2 \in Nat
      /\ 2 * (O \div 2) <= O
  <2>1. h \in Nat /\ h + 1 \in 0..top
    BY <1>2, <1>3
  <2>2. B \in Nat /\ O \in Nat
    BY <1>2, <1>3, <2>1, LevelStartIs, LengthIs
  <2> HIDE DEF O
  <2> QED
    BY <2>1, <2>2
<1>5. LevelStart(h + 1) = B + O /\ LevelLength(F, h + 1) = O \div 2
  BY <1>2, <1>3, <1>4, LevelStartIs, LengthHalves
<1>6. halvings' = h + 1 /\ base' = B + O /\ out_len' = O \div 2
  BY DEF Halve, Halved
<1>7. DOMAIN powerbuf = 0..(2 * F - 1) /\ DOMAIN quantizedbuf = 0..(2 * F - 1)
  BY DEF PixelInv
<1>8. /\ DOMAIN powerbuf' = DOMAIN powerbuf /\ DOMAIN quantizedbuf' = DOMAIN quantizedbuf
      /\ \A k \in DOMAIN powerbuf : powerbuf'[k] =
           IF k \in next
           THEN powerbuf[B + 2 * (k - B - O)] \cup powerbuf[B + 2 * (k - B - O) + 1]
           ELSE powerbuf[k]
      /\ \A k \in DOMAIN quantizedbuf : quantizedbuf'[k] =
           IF k \in next
           THEN [bins |-> powerbuf[B + 2 * (k - B - O)] \cup powerbuf[B + 2 * (k - B - O) + 1],
                 shift |-> h + 1]
           ELSE quantizedbuf[k]
  BY DEF Halve, Halved
<1> HIDE DEF F, h, B, O, top, next
<1>9. ASSUME NEW i \in 0..h, NEW x \in 0..(LevelLength(F, i) - 1) PROVE Shown(i, x)'
  <2>0. i \in Nat
    BY <1>4
  <2>1. LevelStart(i) \in Nat /\ LevelLength(F, i) \in Nat
    BY <1>2, <2>0, LevelStartIs, LengthIs DEF F
  <2> DEFINE k == LevelStart(i) + x
  <2>2. LevelStart(i) + LevelLength(F, i) <= B + O
    BY <1>3
  <2>3. k \in Nat /\ k < B + O
    BY <1>4, <2>1, <2>2
  <2>4. k \in 0..(2 * F - 1) /\ k \notin next
    <3> HIDE DEF k
    <3> QED
      BY <1>2, <1>3, <1>4, <2>3 DEF next
  <2>5. powerbuf'[k] = powerbuf[k] /\ quantizedbuf'[k] = quantizedbuf[k]
    <3> HIDE DEF k
    <3> QED
      BY <1>7, <1>8, <2>4
  <2>6. Shown(i, x)
    BY <1>3
  <2>7. LevelStart(i)' = LevelStart(i) /\ BinsAt(i, x)' = BinsAt(i, x)
    BY <1>1, SameLayout
  <2> QED
    BY <2>5, <2>6, <2>7 DEF Shown
<1>10. ASSUME NEW j, j = h + 1, NEW x \in 0..(LevelLength(F, j) - 1) PROVE Shown(j, x)'
  <2> DEFINE k == B + O + x
  <2>1. x \in Nat /\ x < O \div 2 /\ 2 * x + 1 < O
    BY <1>4, <1>5, <1>10
  <2>2. k \in next /\ k \in 0..(2 * F - 1) /\ k - B - O = x
    BY <1>2, <1>3, <1>4, <2>1 DEF next
  <2>3. LevelStart(j) + x = k
    BY <1>5, <1>10
  <2> HIDE DEF k
  <2>4. /\ powerbuf'[k] = powerbuf[B + 2 * x] \cup powerbuf[B + 2 * x + 1]
        /\ quantizedbuf'[k] =
             [bins |-> powerbuf[B + 2 * x] \cup powerbuf[B + 2 * x + 1], shift |-> j]
    BY <1>7, <1>8, <1>10, <2>2
  <2>5. powerbuf[B + 2 * x] = BinsAt(h, 2 * x) /\ powerbuf[B + 2 * x + 1] = BinsAt(h, 2 * x + 1)
    <3>1. 2 * x \in 0..(LevelLength(F, h) - 1) /\ 2 * x + 1 \in 0..(LevelLength(F, h) - 1)
      BY <1>3, <1>4, <2>1
    <3>2. Shown(h, 2 * x) /\ Shown(h, 2 * x + 1)
      BY <1>3, <1>4, <3>1
    <3>3. B + (2 * x + 1) = B + 2 * x + 1
      BY <1>4, <2>1
    <3> QED
      BY <1>3, <3>2, <3>3 DEF Shown
  <2>6. BinsAt(h, 2 * x) \cup BinsAt(h, 2 * x + 1) = BinsAt(j, x)
    BY <1>4, <1>10, <2>1, BinsJoin
  <2>7. LevelStart(j)' = LevelStart(j) /\ BinsAt(j, x)' = BinsAt(j, x)
    BY <1>1, SameLayout
  <2>8. powerbuf'[k] = BinsAt(j, x) /\ quantizedbuf'[k] = [bins |-> BinsAt(j, x), shift |-> j]
    BY <2>4, <2>5, <2>6
  <2>9. (LevelStart(j) + x)' = k
    BY <2>3, <2>7
  <2> QED
    BY <2>7, <2>8, <2>9 DEF Shown
<1>11. ASSUME NEW i \in 0..(h + 1)
       PROVE  /\ LevelStart(i) + LevelLength(F, i) <= B + O + (O \div 2)
              /\ \A x \in 0..(LevelLength(F, i) - 1) : Shown(i, x)'
  <2>1. CASE i = h + 1
    BY <1>4, <1>5, <1>10, <2>1
  <2>2. CASE i # h + 1
    <3>1. i \in 0..h /\ i \in Nat
      BY <1>4, <2>2
    <3>2. LevelStart(i) + LevelLength(F, i) <= B + O
      BY <1>3, <3>1
    <3>3. LevelStart(i) \in Nat /\ LevelLength(F, i) \in Nat
      BY <1>2, <3>1, LevelStartIs, LengthIs DEF F
    <3>4. LevelStart(i) + LevelLength(F, i) <= B + O + (O \div 2)
      BY <1>4, <3>2, <3>3
    <3> QED
      BY <1>9, <3>1, <3>4
  <2> QED
    BY <2>1, <2>2
<1>12. LevelsInv'
  <2>1. N' = F /\ config' = config
    BY <1>1, SameLayout DEF F
  <2>2. halvings' = h + 1 /\ base' = B + O /\ out_len' = O \div 2
    BY <1>6
  <2>3. halvings' \in 0..Last(N, config.waterfall_size)'
    BY <1>4, <2>1, <2>2 DEF top, F
  <2>4. base' = LevelStart(halvings)'
    BY <1>5, <2>1, <2>2 DEF LevelStart, F
  <2>5. out_len' = LevelLength(N, halvings)' /\ (base + 2 * out_len <= 2 * N)'
    BY <1>2, <1>3, <1>4, <1>5, <2>1, <2>2
  <2>6. ASSUME NEW i \in 0..halvings'
        PROVE  /\ (LevelStart(i) + LevelLength(N, i) <= base + out_len)'
               /\ \A x \in 0..(LevelLength(N, i)' - 1) : Shown(i, x)'
    <3>1. i \in 0..(h + 1)
      BY <2>2
    <3>2. LevelStart(i)' = LevelStart(i) /\ LevelLength(N, i)' = LevelLength(F, i)
      BY <1>1, <2>1, SameLayout
    <3> QED
      BY <1>11, <2>2, <3>1, <3>2
  <2> QED
    BY <2>3, <2>4, <2>5, <2>6 DEF LevelsInv
<1>13. DOMAIN powerbuf' = 0..(2 * N' - 1) /\ DOMAIN quantizedbuf' = 0..(2 * N' - 1)
  BY <1>1, <1>7, <1>8, SameLayout DEF F
<1> QED
  BY <1>1, <1>12, <1>13 DEF PixelInv

LEMMA InitPixels == SpectrumInit => PixelInv
<1> SUFFICES ASSUME SpectrumInit PROVE PixelInv
  OBVIOUS
<1>1. pc = "transform" /\ PowerCells(config) = 2 * N
  BY PyramidIs DEF SpectrumInit
<1>2. DOMAIN powerbuf = 0..(2 * N - 1) /\ DOMAIN quantizedbuf = 0..(2 * N - 1)
  BY <1>1 DEF SpectrumInit, Cleared
<1> QED
  BY <1>1, <1>2 DEF PixelInv

LEMMA StepPixels ==
    ASSUME ConfigInv, CellInv, PixelInv, [SpectrumNext]_spectrumVars
    PROVE  PixelInv'
<1>1. CASE Transform
  <2>1. PowerCells(config) = 2 * N /\ config' = config /\ pc' = "upper"
    BY <1>1, PyramidIs DEF Transform, Goto, ConfigInv
  <2>2. DOMAIN powerbuf' = 0..(2 * N - 1) /\ DOMAIN quantizedbuf' = 0..(2 * N - 1)
    BY <1>1, <2>1 DEF Transform, Blank, Cleared
  <2> QED
    BY <2>1, <2>2, SameLayout DEF PixelInv
<1>2. CASE QuantizeUpper \/ QuantizeLower \/ Halve
  BY <1>2, UpperShown, LowerShown, HalveShown
<1>3. CASE WrapCopy \/ NextFrame \/ UNCHANGED spectrumVars
  <2>1. config' = config /\ powerbuf' = powerbuf /\ quantizedbuf' = quantizedbuf
    BY <1>3 DEF WrapCopy, NextFrame, spectrumVars, buffers
  <2>2. N' = N /\ BaseIdx' = BaseIdx
    BY <2>1, SameLayout
  <2>3. \A i, x : Shown(i, x) => Shown(i, x)'
    BY <2>1, SameLayout DEF Shown
  <2>4. CASE NextFrame
    BY <2>1, <2>2, <2>4 DEF NextFrame, Goto, PixelInv
  <2>5. CASE WrapCopy \/ UNCHANGED spectrumVars
    <3>1. /\ halvings' = halvings /\ base' = base /\ out_len' = out_len
          /\ \/ pc' = pc
             \/ pc = "halve" /\ pc' = "posted" /\ halvings = Last(N, config.waterfall_size)
      BY <2>5 DEF WrapCopy, spectrumVars, DownsampleLevels, Last, N
    <3>2. \A i : LevelStart(i)' = LevelStart(i)
      BY <2>1, SameLayout
    <3>3. LevelStart(halvings)' = LevelStart(halvings)
      BY <2>2, <3>1 DEF LevelStart
    <3>4. LevelsInv => LevelsInv'
      BY <2>1, <2>2, <2>3, <3>1, <3>2, <3>3 DEF LevelsInv
    <3> QED
      BY <2>1, <2>2, <2>3, <3>1, <3>4 DEF PixelInv
  <2> QED
    BY <1>3, <2>4, <2>5
<1> QED
  BY <1>1, <1>2, <1>3 DEF SpectrumNext

\* Cells and pixels are as they should be in every reachable state.
THEOREM SpectrumInductive == SpectrumSpec => [](ConfigInv /\ CellInv /\ PixelInv)
<1>1. SpectrumInit => ConfigInv /\ CellInv /\ PixelInv
  BY InitCells, InitPixels
<1>2. ConfigInv /\ CellInv /\ PixelInv /\ [SpectrumNext]_spectrumVars =>
        (ConfigInv /\ CellInv /\ PixelInv)'
  BY StepCells, StepPixels
<1> QED
  BY <1>1, <1>2, PTL DEF SpectrumSpec

\* AudioSlicesWhole: the slice of any window a client may ask for is contiguous,
\* also where an IQ spectrum wraps around, for every configuration.
THEOREM AudioSlicesAreWhole == SpectrumSpec => []AudioSlicesWhole
<1>1. ConfigInv /\ CellInv => AudioSlicesWhole
  <2> SUFFICES ASSUME ConfigInv, CellInv, pc = "posted" PROVE AudioSlicesWhole
    BY DEF AudioSlicesWhole
  <2>1. default.l \in 0..N /\ default.r \in 0..N
    BY DEF ConfigInv
  <2>2. N \in Nat
    BY SizesFit DEF ConfigInv
  <2>3. \A l \in 0..(N - 1) : l \in 0..N
    BY <2>2
  <2> QED
    BY <2>1, <2>3, SliceIs DEF AudioSlicesWhole, Spare
<1> QED
  BY <1>1, SpectrumInductive, PTL

\* WaterfallSlicesWhole: the window a waterfall client is given has pixels of its
\* level, each the sum of the bins it stands for, for every configuration and
\* every window, but for the pixel past the end of a level that halved unevenly.
THEOREM WaterfallSlicesAreWhole == SpectrumSpec => []WaterfallSlicesWhole
<1>1. ConfigInv /\ PixelInv => WaterfallSlicesWhole
  <2> SUFFICES ASSUME ConfigInv, PixelInv, pc = "posted",
                      NEW l \in 0..(N - 1), NEW r \in (l + 1)..N,
                      NEW w, w = Window(N, config.waterfall_size, l, r)
               PROVE  /\ w.l <= w.r
                      /\ \/ w.r <= LevelLength(N, w.level)
                         \/ /\ w.r = LevelLength(N, w.level) + 1
                            /\ LevelLength(N, w.level) * Pow2[w.level] # N
                      /\ \A x \in w.l..(w.r - 1) : x < LevelLength(N, w.level) => Pixel(w.level, x)
    BY DEF WaterfallSlicesWhole
  <2>1. HasLevels(N, config.waterfall_size) /\ N \in Nat \ {0}
    BY PyramidIs, SizesFit DEF ConfigInv
  <2>2. l \in 0..N /\ r \in 0..N /\ l < r
    BY <2>1
  <2> DEFINE i == w.level
             size == LevelLength(N, i)
  <2>3. /\ i \in 0..Last(N, config.waterfall_size)
        /\ w.l \in Nat /\ w.r \in Nat /\ w.l <= w.r /\ w.r <= size + 1
        /\ N = size * Pow2[i] => w.r <= size
    <3> DEFINE P == Pow2[i]
    <3>1. l \in Nat /\ r \in Nat /\ r <= N /\ r - l <= N
      BY <2>1, <2>2
    <3>2. /\ i \in 0..Last(N, config.waterfall_size)
          /\ w.l \in Nat /\ w.r \in Nat /\ w.l <= w.r
          /\ \/ 2 * (w.r * P - r) \in -P..P
             \/ r - l > N
          /\ w.r > size => r > P * size
      <4> HIDE DEF N
      <4> QED
        BY <2>1, <2>2, <3>1, WindowIs, SMTT(30)
    <3>3. i \in Nat
      BY <2>1, <3>2, LevelsIs
    <3>4. size \in Nat /\ P \in Nat \ {0} /\ P * size <= N /\ N < P * size + P
      BY <2>1, <3>3, LengthIs
    <3> DEFINE n == w.r
    <3>5. n \in Nat /\ 2 * (n * P - r) <= P /\ (n > size => r > P * size)
      <4> HIDE DEF P, size, i, N
      <4>1. n \in Nat /\ n * P \in Nat
        BY <3>2, <3>4
      <4>2. ~ r - l > N
        BY <2>1, <3>1
      <4>3. 2 * (n * P - r) \in -P..P
        BY <3>2, <4>2
      <4> HIDE DEF n
      <4> DEFINE a == n * P
      <4>4. 2 * (a - r) <= P
        <5>1. a \in Nat /\ 2 * (a - r) \in -P..P
          BY <4>1, <4>3
        <5> HIDE DEF a
        <5> QED
          BY <3>1, <3>4, <5>1
      <4> QED
        BY <3>2, <4>1, <4>4 DEF n
    <3>6. ASSUME n >= size + 2 PROVE FALSE
      <4> HIDE DEF n, P, size, N
      <4>1. n * P >= (size + 2) * P /\ (size + 2) * P = P * size + 2 * P
        BY <3>4, <3>5, <3>6
      <4> DEFINE a == n * P
                 b == P * size
      <4>2. a \in Nat /\ b \in Nat /\ a >= b + 2 * P /\ N < b + P /\ 2 * (a - r) <= P
        BY <3>4, <3>5, <4>1
      <4> HIDE DEF a, b
      <4> QED
        BY <2>1, <3>1, <3>4, <4>2
    <3>7. w.r <= size + 1
      BY <3>4, <3>5, <3>6
    <3>8. ASSUME N = size * P PROVE w.r <= size
      BY <3>1, <3>4, <3>5, <3>8
    <3> QED
      BY <3>2, <3>7, <3>8
  <2>4. i \in Nat /\ size \in Nat /\ Last(N, config.waterfall_size) \in Nat
    <3>1. Last(N, config.waterfall_size) \in Nat
      BY <2>1, LevelsIs
    <3>2. i \in Nat
      BY <2>3, <3>1
    <3> QED
      BY <2>1, <3>1, <3>2, LengthIs
  <2>5. LevelsInv /\ i \in 0..halvings
    BY <2>3 DEF PixelInv
  <2>6. ASSUME NEW x \in w.l..(w.r - 1), x < size PROVE Pixel(i, x)
    <3>1. x \in 0..(size - 1)
      BY <2>3, <2>4, <2>6
    <3>2. Shown(i, x) /\ LevelStart(i) + size <= base + out_len
      BY <2>5, <3>1 DEF LevelsInv
    <3>3. base + 2 * out_len <= 2 * N /\ base \in Nat /\ out_len \in Nat /\ LevelStart(i) \in Nat
      <4>1. halvings \in Nat
        BY <2>4, <2>5 DEF LevelsInv
      <4> QED
        BY <2>1, <2>4, <2>5, <4>1, LevelStartIs, LengthIs DEF LevelsInv
    <3>4. LevelStart(i) + x \in 0..(2 * N - 1)
      <4> HIDE DEF size
      <4> QED
        BY <2>1, <2>4, <3>1, <3>2, <3>3
    <3> QED
      BY <3>2, <3>4 DEF Pixel, Shown, PixelInv
  <2> HIDE DEF size, i
  <2>7. w.r <= size \/ (w.r = size + 1 /\ size * Pow2[i] # N)
    BY <2>3, <2>4
  <2> QED
    BY <2>3, <2>6, <2>7 DEF size, i
<1> QED
  BY <1>1, SpectrumInductive, PTL
=============================================================================
