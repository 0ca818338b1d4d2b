------------------------------ MODULE Encoders ------------------------------
(***************************************************************************)
(* How sound and waterfall lines become packets.  send_audio writes the    *)
(* frame's number into the packet map and hands a block of sound to the    *)
(* FLAC library, which buffers it, encodes frames of its own length and    *)
(* delivers each through write_callback, with the map as it is then.       *)
(* AV1Encoder::send collects the lines of WATERFALL_COALESCE frames into   *)
(* one image and describes them in header_multi.  (OpusEncoder cannot be   *)
(* chosen: spectrumserver.cpp asks for HAS_OPUS, which nothing defines.)   *)
(*                                                                         *)
(* A sample is its number.  A pixel is the number of the frame that wrote  *)
(* it; frames the client was too slow for are missing.                     *)
(***************************************************************************)
EXTENDS Integers, Sequences

CONSTANTS
    FrameSize,         \* samples the FLAC library puts into a frame
    Frames,            \* numbers of the server's frames: the client may join at
                       \* any, and some are dropped for it or not finite
    Coalesce,          \* WATERFALL_COALESCE
    Width, Stride,     \* waterfall_size: pixels of a row of the image; stride[0]
    Widths,            \* bytes: the lengths of the client's slices
    MaxFrames          \* bound: frames of a waterfall

ASSUME SizesAssumption ==
    {FrameSize, Coalesce, Width, Stride} \subseteq Nat \ {0} /\ Width <= Stride
ASSUME FramesAssumption == Frames \subseteq Nat
ASSUME WidthsAssumption == Widths \subseteq Nat \ {0} /\ MaxFrames \in Nat

VARIABLES
    waiting, taken,            \* samples the library holds; how many were handed to it
    label,                     \* packet["frame_num"]
    dead,                      \* a send has failed: the library takes no more
    sent,                      \* the last packet of sound
    heard,                     \* history: samples in all packets
    frames,                    \* history: the frames of the blocks taken
    line, image, header_multi,
    frame,                     \* the last frame of the waterfall
    coded                      \* the last packet of lines

soundVars == <<waiting, taken, label, dead, sent, heard, frames>>
linesVars == <<line, image, header_multi, frame, coded>>
encoderVars == <<soundVars, linesVars>>

NoPacket == [samples |-> <<>>, label |-> 0]
NoLines == [headers |-> <<>>, image |-> <<>>]
Rows == 0..(Coalesce - 1)
Plane == 0..(Coalesce * Stride - 1)
Header == [frame |-> 0, bytes |-> 0]

EncoderInit ==
    /\ waiting = <<>> /\ taken = 0 /\ label = 0 /\ dead = FALSE
    /\ sent = NoPacket /\ heard = 0 /\ frames = <<>>
    /\ line = 0 /\ frame = 0
    /\ image = [p \in Plane |-> 0]
    /\ header_multi = [row \in Rows |-> Header]
    /\ coded = NoLines
-----------------------------------------------------------------------------
(***************************************************************************)
(* Sound: send_audio labels a block and hands its samples to the library,  *)
(* which encodes a frame as soon as it holds a sample more.  send catches  *)
(* what the connection throws; write_callback then reports a fatal error,  *)
(* and the library refuses every later block, which nobody looks at.       *)
(***************************************************************************)
Full == ~dead /\ Len(waiting) > FrameSize

MutTake(samples, f) ==                       \* mutant: the client's own frame_num
    /\ ~Full
    /\ \A k \in DOMAIN frames : frames[k] < f
    /\ waiting' = IF dead THEN waiting ELSE waiting \o [i \in 1..samples |-> taken + i]
    /\ taken' = taken + samples
    /\ label' = Len(frames)
    /\ frames' = Append(frames, f)
    /\ UNCHANGED <<dead, sent, heard, linesVars>>
Take(samples, f) ==
    /\ ~Full
    /\ \A k \in DOMAIN frames : frames[k] < f
    /\ waiting' = IF dead THEN waiting ELSE waiting \o [i \in 1..samples |-> taken + i]
    /\ taken' = taken + samples
    /\ label' = f
    /\ frames' = Append(frames, f)
    /\ UNCHANGED <<dead, sent, heard, linesVars>>

First == SubSeq(waiting, 1, FrameSize)
Rest == SubSeq(waiting, FrameSize + 1, Len(waiting))

MutFail ==                                   \* mutant: a lost packet is skipped
    /\ Full
    /\ waiting' = Rest
    /\ UNCHANGED <<taken, label, dead, sent, heard, frames, linesVars>>
Fail ==
    /\ Full
    /\ dead' = TRUE
    /\ UNCHANGED <<waiting, taken, label, sent, heard, frames, linesVars>>

Deliver ==
    /\ Full
    /\ sent' = [samples |-> First, label |-> label]
    /\ heard' = heard + FrameSize
    /\ waiting' = Rest
    /\ UNCHANGED <<taken, label, dead, frames, linesVars>>
-----------------------------------------------------------------------------
(***************************************************************************)
(* Waterfall lines.  A slice may be narrower than a row of the image, or   *)
(* wider: it then runs on into the next row and, from the last row, past   *)
(* the plane, into those of the colours, which are not encoded.            *)
(***************************************************************************)
Drop ==
    /\ frame < MaxFrames
    /\ frame' = frame + 1
    /\ UNCHANGED <<soundVars, line, image, header_multi, coded>>

MutWritten(bytes) ==                         \* mutant: the stride of the slice
    [p \in DOMAIN image |->
       IF p \in (line * bytes)..(line * bytes + bytes - 1) THEN frame + 1 ELSE image[p]]
Written(bytes) ==
    [p \in DOMAIN image |->
       IF p \in (line * Stride)..(line * Stride + bytes - 1) THEN frame + 1 ELSE image[p]]
Described(bytes) ==
    [row \in Rows |->
       IF row = line THEN [frame |-> frame + 1, bytes |-> bytes] ELSE header_multi[row]]

Line(bytes) ==
    /\ frame < MaxFrames
    /\ frame' = frame + 1
    /\ image' = Written(bytes)
    /\ header_multi' = Described(bytes)

\* Most lines only wait for the others. So do all lines once a send has thrown,
\* until the connection is closed: line has run past the image, and the headers
\* go where the last image's were compressed.
Collect(bytes) ==
    /\ line + 1 # Coalesce
    /\ Line(bytes)
    /\ line' = line + 1
    /\ UNCHANGED <<soundVars, coded>>

\* The last line of an image: it is encoded and sent; or the encoder reports an
\* error, which is taken for success (aom's error codes are positive), and
\* delivers nothing; or the send throws and line is not reset.
Finish(bytes, outcome) ==
    /\ line + 1 = Coalesce
    /\ Line(bytes)
    /\ coded' = IF outcome = "sent" THEN [headers |-> header_multi', image |-> image'] ELSE coded
    /\ line' = IF outcome = "thrown" THEN Coalesce ELSE 0
    /\ UNCHANGED soundVars

WaterfallNext ==
    \/ Drop
    \/ \E bytes \in Widths :
          \/ Collect(bytes)
          \/ \E outcome \in {"sent", "lost", "thrown"} : Finish(bytes, outcome)
-----------------------------------------------------------------------------
(***************************************************************************)
(* Properties.                                                             *)
(***************************************************************************)

\* What a client hears are the first samples its encoder was given, each once and
\* in order, and until a send fails the encoder holds exactly the others; after that
\* there is silence, never sound with a gap in it.
SoundContinues ==
    /\ sent # NoPacket => sent.samples = [i \in 1..FrameSize |-> heard - FrameSize + i]
    /\ ~dead => waiting = [i \in 1..(taken - heard) |-> heard + i]

\* A packet is labelled with the server's number of the frame its last sample is
\* of, or of the next frame this client was given, whatever frame the client
\* joined at and whichever were dropped for it.
LabelFollows(size) ==
    sent # NoPacket =>
        \E k \in DOMAIN frames :
            /\ sent.label = frames[k]
            /\ k - 1 - (sent.samples[FrameSize] - 1) \div size \in {0, 1}

\* In a packet of lines every row holds the pixels of the frame its header
\* names, as far as the image is wide, and rows are in the order of frames,
\* whatever the widths of the lines, the dropped frames and the lost images.
LinesMatchHeaders ==
    coded # NoLines =>
        \A row \in Rows :
            LET header == coded.headers[row] IN
            /\ \A col \in 0..(Width - 1) :
                 col < header.bytes => coded.image[row * Stride + col] = header.frame
            /\ \A before \in 0..(row - 1) : coded.headers[before].frame < header.frame

=============================================================================
