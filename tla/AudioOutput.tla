---------------------------- MODULE AudioOutput ----------------------------
(***************************************************************************)
(* What a connection's task does with its data in the end: the sound of an *)
(* audio client goes through its AGC block by block and then to its        *)
(* encoder, while a demodulation message may reset the AGC at any time; a  *)
(* waterfall client's lines go to the AV1 encoder.                         *)
(***************************************************************************)
EXTENDS LookAhead, Encoders

VARIABLES kind         \* what the client's connection is for

vars == <<kind, agcVars, encoderVars>>

Init ==
    /\ kind \in {"audio", "waterfall"}
    /\ AgcInit /\ EncoderInit

\* send_audio: the AGC, then the encoder, then the next block.
Agc ==
    /\ \/ ProcessBegin /\ taken = arrived /\ ~Full
       \/ \E v \in Values : Push(v)
    /\ UNCHANGED encoderVars

Encoder ==
    /\ \/ left = 0 /\ taken < arrived /\ \E f \in Frames : Take(arrived - taken, f)
       \/ Deliver
       \/ Fail
    /\ UNCHANGED agcVars

\* on_demodulation_message.
Reset == (ResetBuffer \/ ResetMax) /\ UNCHANGED encoderVars

Next ==
    \/ kind = "audio" /\ (Agc \/ Encoder \/ Reset) /\ UNCHANGED kind
    \/ kind = "waterfall" /\ WaterfallNext /\ UNCHANGED <<kind, agcVars>>

Spec == Init /\ [][Next]_vars

\* LabelFollows for the blocks send_audio makes.
LabelsFollow == LabelFollows(BlockSize)
=============================================================================
