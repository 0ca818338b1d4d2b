-------------------------------- MODULE Setup --------------------------------
(***************************************************************************)
(* The constructor of broadcast_server: the sizes and the default window   *)
(* it computes from the configuration c, a record of the settings of       *)
(* config.toml, and the configurations it refuses.                         *)
(***************************************************************************)
EXTENDS Integers

CONSTANTS
    Compiled,          \* the macros of the optional parts compiled in
    Uninitialised,     \* values basefreq may hold before it is assigned
    Missing            \* a setting that is not given

ASSUME UninitialisedAssumption == Uninitialised \subseteq Int

BadInput(c) ==
    c.sps = Missing \/ c.frequency = Missing \/ c.signal \notin {"real", "iq"}

Support == [cuda |-> "CUFFT", opencl |-> "CLFFT", mkl |-> "MKL",
            av1 |-> "HAS_LIBAOM", opus |-> "HAS_OPUS"]
NotCompiledIn(c) ==
    \E part \in {c.accelerator, c.waterfall_compression, c.audio_compression} :
        part \in DOMAIN Support /\ Support[part] \notin Compiled

Rejected(c) == BadInput(c) \/ NotCompiledIn(c)

IsReal(c) == c.signal = "real"
ResultSize(c) == IF IsReal(c) THEN c.fft_size \div 2 ELSE c.fft_size
BaseFreq(c) == IF IsReal(c) THEN c.frequency ELSE c.frequency - c.sps \div 2

\* What default_frequency may be: basefreq is read for it before it is assigned,
\* and -1 stands for the middle of an IQ spectrum (and the top of a real one).
Requested(c) ==
    IF c.defaults.frequency = Missing THEN Uninitialised ELSE {c.defaults.frequency}
DefaultFrequencies(c) ==
    {IF f = -1 THEN BaseFreq(c) + c.sps \div 2 ELSE f : f \in Requested(c)}

\* The default window, clamped to the spectrum; m by the bin it falls in.
Reach == [LSB |-> [below |-> 3000, above |-> 0], USB |-> [below |-> 0, above |-> 3000],
          AM |-> [below |-> 5000, above |-> 5000], FM |-> [below |-> 5000, above |-> 5000],
          WBFM |-> [below |-> 96000, above |-> 96000]]
Offset(c, hz) == (hz * ResultSize(c)) \div c.sps

DefaultWindow(c, frequency) ==
    LET mode == IF c.defaults.modulation \in DOMAIN Reach THEN c.defaults.modulation ELSE "USB"
        whole == ResultSize(c) * (IF IsReal(c) THEN 2 ELSE 1)
        m == ((frequency - BaseFreq(c)) * whole) \div c.sps
        clamped(x) == IF x < 0 THEN 0 ELSE IF x > ResultSize(c) THEN ResultSize(c) ELSE x
    IN  [l |-> clamped(m - Offset(c, Reach[mode].below)),
         m |-> clamped(m),
         r |-> clamped(m + Offset(c, Reach[mode].above))]

AudioMaxFftSize(c) == 4 * ((c.audio_sps * c.fft_size + 4 * c.sps - 1) \div (4 * c.sps))
=============================================================================
