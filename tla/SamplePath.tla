----------------------------- MODULE SamplePath -----------------------------
(***************************************************************************)
(* The samples of one block on their way to the clients: while the reader  *)
(* converts half a block, the transform before it is analysed, on buffers  *)
(* that FrameLoop shows to be different.  The configuration says how many  *)
(* samples half a block has.                                               *)
(***************************************************************************)
EXTENDS SampleConversion, Spectrum

\* fft_task reads fft_size / 2 samples, twice as many numbers if they are IQ.
ReadSize(c) == IF IsReal(c) THEN c.fft_size \div 2 ELSE c.fft_size

vars == <<sampleVars, spectrumVars>>

Init == SampleInit /\ SpectrumInit /\ num = ReadSize(config)
Next == \/ SampleNext /\ UNCHANGED spectrumVars
        \/ SpectrumNext /\ UNCHANGED sampleVars

Spec == Init /\ [][Next]_vars
=============================================================================
