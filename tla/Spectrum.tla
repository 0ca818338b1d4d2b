------------------------------ MODULE Spectrum ------------------------------
(***************************************************************************)
(* The buffers of one frame: FFTW::execute and the copy fft_task makes for *)
(* IQ input, and where signal_loop and waterfall_loop point the clients.   *)
(* A client's coordinate is a position in the waterfall; IQ spectra are    *)
(* transformed with bin 0 first and shown with the lowest frequency first. *)
(*                                                                         *)
(* A cell of fft_buffer holds the bin it came from and how often it was    *)
(* normalised; a power the set of bins it sums; a waterfall pixel that and *)
(* the shift it was quantised with.                                        *)
(***************************************************************************)
EXTENDS Setup, WaterfallWindow

CONSTANTS Configs      \* configurations, of even fft_size

ASSUME ConfigsAssumption ==
    \A c \in Configs :
        /\ ~Rejected(c)
        /\ c.fft_size \in Nat /\ c.fft_size % 2 = 0 /\ c.fft_size > 0
        /\ c.sps \in Nat \ {0} /\ c.audio_sps \in Nat /\ c.frequency \in Int
        /\ c.defaults.frequency = Missing \/ c.defaults.frequency \in Int
        /\ c.waterfall_size \in 1..ResultSize(c)
        /\ IsReal(c) \/ AudioMaxFftSize(c) <= ResultSize(c)

VARIABLES
    config, default,   \* the configuration and its default window
    pc,
    fft_buffer,        \* outbuf of the FFT
    powerbuf,
    quantizedbuf,
    halvings,          \* the loop of execute: i,
    base, out_len      \* where level i starts and how long it is

buffers == <<fft_buffer, powerbuf, quantizedbuf>>
spectrumVars == <<config, default, pc, buffers, halvings, base, out_len>>

DownsampleLevels(c) == LevelCount(ResultSize(c), c.waterfall_size)

N == ResultSize(config)                   \* outbuf_len
Unwritten == [bin |-> -1, scaled |-> 0]
NoPixel == [bins |-> {}, shift |-> 0]

\* plan_c2c and plan_r2c: complex cells, and powers and pixels.
OutputCells(c) ==
    IF IsReal(c) THEN c.fft_size \div 2 + 1 ELSE c.fft_size + AudioMaxFftSize(c)
PowerCells(c) == IF IsReal(c) THEN c.fft_size ELSE 2 * c.fft_size

Cleared(cells, blank) == [k \in 0..(cells - 1) |-> blank]
Blank(c) ==
    /\ powerbuf' = Cleared(PowerCells(c), {})
    /\ quantizedbuf' = Cleared(PowerCells(c), NoPixel)

SpectrumInit ==
    /\ config \in Configs
    /\ \E f \in DefaultFrequencies(config) : default = DefaultWindow(config, f)
    /\ pc = "transform"
    /\ fft_buffer = Cleared(OutputCells(config), Unwritten)
    /\ powerbuf = Cleared(PowerCells(config), {})
    /\ quantizedbuf = Cleared(PowerCells(config), NoPixel)
    /\ halvings = 0 /\ base = 0 /\ out_len = 0

Goto(from, to) == pc = from /\ pc' = to

\* fftwf_execute: what the buffers held before is of an earlier frame.
Transform ==
    /\ Goto("transform", "upper")
    /\ fft_buffer' = [k \in DOMAIN fft_buffer |->
                        IF k < N \/ IsReal(config) THEN [bin |-> k, scaled |-> 0] ELSE Unwritten]
    /\ Blank(config)
    /\ UNCHANGED <<config, default, halvings, base, out_len>>

\* power_and_quantize of len bins from src on to the pixels from dst on.
BaseIdx == IF IsReal(config) THEN 0 ELSE config.fft_size \div 2 + 1

PowerAndQuantize(src, dst, len) ==
    LET of(k) == fft_buffer[k - dst + src].bin IN
    /\ fft_buffer' = [k \in DOMAIN fft_buffer |->
          IF k \in src..(src + len - 1) THEN [fft_buffer[k] EXCEPT !.scaled = @ + 1]
                                        ELSE fft_buffer[k]]
    /\ powerbuf' = [k \in DOMAIN powerbuf |->
          IF k \in dst..(dst + len - 1) THEN {of(k)} ELSE powerbuf[k]]
    /\ quantizedbuf' = [k \in DOMAIN quantizedbuf |->
          IF k \in dst..(dst + len - 1) THEN [bins |-> {of(k)}, shift |-> 0] ELSE quantizedbuf[k]]

QuantizeUpper ==
    /\ Goto("upper", "lower")
    /\ PowerAndQuantize(BaseIdx, 0, N - BaseIdx)
    /\ UNCHANGED <<config, default, halvings, base, out_len>>

QuantizeLower ==
    /\ Goto("lower", "halve")
    /\ PowerAndQuantize(0, N - BaseIdx, BaseIdx)
    /\ halvings' = 0 /\ base' = 0 /\ out_len' = N
    /\ UNCHANGED <<config, default>>

\* half_and_quantize: level i + 1 is written behind level i.
MutHalved(n) == (n + 1) \div 2               \* mutant: rounded up
Halved(n) == n \div 2

Halve ==
    LET next == (base + out_len)..(base + out_len + Halved(out_len) - 1)
        first(k) == base + 2 * (k - base - out_len)
        sum(k) == powerbuf[first(k)] \cup powerbuf[first(k) + 1] IN
    /\ pc = "halve" /\ halvings < DownsampleLevels(config) - 1
    /\ powerbuf' = [k \in DOMAIN powerbuf |-> IF k \in next THEN sum(k) ELSE powerbuf[k]]
    /\ quantizedbuf' = [k \in DOMAIN quantizedbuf |->
          IF k \in next THEN [bins |-> sum(k), shift |-> halvings + 1] ELSE quantizedbuf[k]]
    /\ halvings' = halvings + 1
    /\ base' = base + out_len
    /\ out_len' = Halved(out_len)
    /\ UNCHANGED <<config, default, pc, fft_buffer>>

\* fft_task: IQ input has its front copied behind its end, to make the slices of
\* clients near the wrap contiguous; then the clients' tasks are posted.
MutWrapCopy ==                               \* mutant: copied before it is scaled
    /\ pc = "halve" /\ halvings = DownsampleLevels(config) - 1
    /\ pc' = "posted"
    /\ fft_buffer' = [k \in DOMAIN fft_buffer |->
          IF ~IsReal(config) /\ k \in N..(N + AudioMaxFftSize(config) - 1)
          THEN [fft_buffer[k - N] EXCEPT !.scaled = 0] ELSE fft_buffer[k]]
    /\ UNCHANGED <<config, default, powerbuf, quantizedbuf, halvings, base, out_len>>
WrapCopy ==
    /\ pc = "halve" /\ halvings = DownsampleLevels(config) - 1
    /\ pc' = "posted"
    /\ fft_buffer' = [k \in DOMAIN fft_buffer |->
          IF ~IsReal(config) /\ k \in N..(N + AudioMaxFftSize(config) - 1)
          THEN fft_buffer[k - N] ELSE fft_buffer[k]]
    /\ UNCHANGED <<config, default, powerbuf, quantizedbuf, halvings, base, out_len>>

\* signal_loop and waterfall_loop: where the slice of a window begins.
AudioStart(l) == (l + (IF IsReal(config) THEN 0 ELSE config.fft_size \div 2 + 1)) % N

LevelStarts(size) ==
    LET start[i \in Nat] == IF i = 0 THEN 0 ELSE start[i - 1] + LevelLength(size, i - 1)
    IN  start
LevelStart(i) == LevelStarts(N)[i]

\* The next frame.
NextFrame ==
    /\ Goto("posted", "transform")
    /\ halvings' = 0 /\ base' = 0 /\ out_len' = 0
    /\ UNCHANGED <<config, default, buffers>>

SpectrumNext ==
    Transform \/ QuantizeUpper \/ QuantizeLower \/ Halve \/ WrapCopy \/ NextFrame

SpectrumSpec == SpectrumInit /\ [][SpectrumNext]_spectrumVars
-----------------------------------------------------------------------------
(***************************************************************************)
(* Properties.                                                             *)
(***************************************************************************)

\* The bin at a coordinate: IQ spectra are shown with bin size / 2 last.
BinAt(x) == IF IsReal(config) THEN x ELSE (x + N \div 2 + 1) % N

\* The slice of the window from l to r is contiguous in fft_buffer: the bins of
\* this frame that the window shows, each normalised once.
Contiguous(l, r) ==
    \A x \in l..(r - 1) :
        LET k == AudioStart(l) + x - l IN
        /\ k \in DOMAIN fft_buffer
        /\ fft_buffer[k].bin = BinAt(x) /\ fft_buffer[k].scaled = 1

\* Every window a client may ask for (on_window_message) is given such a slice,
\* also where the spectrum wraps around; and so is the default window, unless the
\* configuration makes it wider than a client may ask for, which nothing checks.
AudioSlicesWhole ==
    pc = "posted" =>
        /\ default.r - default.l <= AudioMaxFftSize(config) =>
             Contiguous(default.l, default.r)
        /\ \A l, r \in 0..(N - 1) :
             l <= r /\ r - l <= AudioMaxFftSize(config) => Contiguous(l, r)

\* Every window of the spectrum that a waterfall client may ask for gets pixels
\* of its level, each the average of the bins it stands for; rounding may take
\* it one pixel past the end where a level had an odd number of pixels.
BinsAt(i, x) == {BinAt(y) : y \in (x * Pow2[i])..(x * Pow2[i] + Pow2[i] - 1)}
Pixel(i, x) ==
    LET k == LevelStart(i) + x IN
    /\ k \in DOMAIN quantizedbuf
    /\ quantizedbuf[k] = [bins |-> BinsAt(i, x), shift |-> i]
WaterfallSlicesWhole ==
    pc = "posted" =>
        \A l \in 0..(N - 1) : \A r \in (l + 1)..N :
            LET w == Window(N, config.waterfall_size, l, r)
                size == LevelLength(N, w.level) IN
            /\ w.l <= w.r
            /\ w.r <= size \/ (w.r = size + 1 /\ size * Pow2[w.level] # N)
            /\ \A x \in w.l..(w.r - 1) : x < size => Pixel(w.level, x)
=============================================================================
