---------------------------- MODULE MCSamplePath ----------------------------
(* Real and IQ spectra of four to sixteen bins, also with odd levels. *)
EXTENDS SamplePath

C(signal, size, sps, audio, waterfall, frequency, mode) ==
    [signal |-> signal, fft_size |-> size, sps |-> sps, audio_sps |-> audio,
     waterfall_size |-> waterfall, frequency |-> 1000000,
     defaults |-> [frequency |-> frequency, modulation |-> mode],
     accelerator |-> "none", waterfall_compression |-> "zstd", audio_compression |-> "flac"]

MCConfigs ==
    {C("iq", 16, 192000, 48000, 4, f, "WBFM") : f \in {-1, Missing}}
    \cup {C("iq", 16, 192000, 96000, 4, 960000, "LSB"), C("iq", 12, 48000, 12000, 3, 1010000, "USB"),
          C("iq", 10, 48000, 12000, 2, 990000, "AM"), C("iq", 14, 96000, 12000, 1, -1, "USB"),
          C("iq", 16, 192000, 48000, 3, 930000, "FM"), C("iq", 8, 8000, 8000, 8, -1, "AM"),
          C("real", 16, 192000, 48000, 2, -1, "WBFM"), C("real", 20, 48000, 12000, 1, 1010000, "LSB"),
          C("real", 14, 48000, 12000, 3, 1020000, "AM"), C("real", 8, 48000, 48000, 1, Missing, "USB")}
MCUninitialised == {0, 950000, 1050000}
MCReadSizes == {ReadSize(c) : c \in MCConfigs}
MCWidths == {1, 2, 4, 8}
MCChunks == {1, 4}
MCShortfalls == {0, 5}
=============================================================================
