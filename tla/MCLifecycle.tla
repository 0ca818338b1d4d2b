---------------------------- MODULE MCLifecycle ----------------------------
(* An audio and an events client, the main thread and another, a second SIGINT. *)
EXTENDS Lifecycle

C(driver, format, registration, audio) ==
    [driver |-> driver, format |-> format, registration |-> registration,
     sps |-> 48000, frequency |-> 0, signal |-> "iq", accelerator |-> "none",
     waterfall_compression |-> "zstd", audio_compression |-> audio]

MCConfigs == {C("stdin", "u8", TRUE, "flac"), C("stdin", "f32", FALSE, "flac"),
              C("stdin", "f64", TRUE, "opus"), C("stdin", "u32", TRUE, "flac"),
              C(Missing, "u8", TRUE, "flac")}
=============================================================================
