----------------------------- MODULE AudioDemod -----------------------------
(***************************************************************************)
(* AudioClient::send_audio for one client: how consecutive frames become   *)
(* sound by overlap-add, and what happens to it when the client changes    *)
(* its modulation or centre, is slow, or the input is not finite.          *)
(* on_demodulation_message and set_audio_range write demodulation and      *)
(* audio_mid on another thread without a lock; send_audio reads            *)
(* demodulation again after every call the compiler cannot see through.    *)
(* With liquid (HAS_LIQUID, if it is installed) AM mixes the baseband down *)
(* with a PLL whose phase lives from block to block; what the library does *)
(* when it is fed a NaN depends on its version: a phase kept as a float    *)
(* stays NaN, one kept as an integer becomes some number again.            *)
(*                                                                         *)
(* Half a buffer is represented by the halves of inverse transforms that   *)
(* were added up in it: a set of [frame, half, turn], where turn is 1 if   *)
(* the half is still inverted, turned by half a turn.                      *)
(***************************************************************************)
EXTENDS Integers

CONSTANTS
    IsReal,            \* is_real
    FftSize,           \* fft_size
    Mids,              \* floor(audio_mid) of the windows the client asks for
    Mixers,            \* what AM mixes with: no liquid, or one whose phase forgets
                       \* or keeps a NaN
    Demodulations,     \* the modulations it asks for
    Default,           \* default_mode
    Slow,              \* whether its send buffer may exceed the limit
    MaxFrames          \* bound: frames of a run

Modes == {"USB", "LSB", "AM", "FM"}
Sidebands == {"USB", "LSB"}

ASSUME FlagsAssumption == IsReal \in BOOLEAN /\ Slow \in BOOLEAN
ASSUME FftSizeAssumption == FftSize \in Nat \ {0}
ASSUME MidsAssumption == Mids \subseteq Int
ASSUME MixersAssumption == Mixers \subseteq {"none", "forgets", "keeps"}
ASSUME ModesAssumption == Demodulations \subseteq Modes /\ Default \in Modes
ASSUME MaxFramesAssumption == MaxFrames \in Nat

VARIABLES
    demodulation, audio_mid,     \* as the handlers leave them
    setting,                     \* set_audio_range is under way
    pc,                          \* what send_audio does next
    frame,                       \* the last frame posted
    centre, mid,                 \* audio_m (as a bin) and audio_m_idx of the task
    audio_real,                  \* what its first and second half are made of
    audio_real_prev,
    baseband, baseband_prev,     \* audio_complex_baseband
    carrier, carrier_prev,       \* audio_complex_baseband_carrier
    prev,                        \* the block whose last sample prev is
    mixer, phase,                \* the kind of mixer; the NaN halves its phase holds
    bad,                         \* history: frames that were not finite
    calm,                        \* history: first frame begun after the last
                                 \* change by the client, or dropped frame
    done                         \* history: the last frame sent

requests == <<demodulation, audio_mid, setting>>
indices == <<centre, mid>>
realVars == <<audio_real, audio_real_prev>>
complexVars == <<baseband, baseband_prev, carrier, carrier_prev, prev,
                 mixer, phase>>
history == <<bad, calm, done>>
vars == <<requests, pc, frame, indices, realVars, complexVars, history>>

\* What a block of sound is made of: halves added up, the carrier it was mixed
\* down with and the block before, for the FM discriminator.
Sound(halves, with, before) == [sum |-> halves, carrier |-> with, prev |-> before]

Init ==
    /\ demodulation = Default
    /\ audio_mid \in Mids
    /\ pc = "idle"
    /\ frame = 0
    /\ setting = FALSE
    /\ centre = audio_mid /\ mid = audio_mid
    /\ audio_real = <<Sound({}, {}, {}), {}>>
    /\ audio_real_prev = {}
    /\ baseband = <<{}, {}>> /\ baseband_prev = {}
    /\ carrier = <<{}, {}>> /\ carrier_prev = {}
    /\ prev = {}
    /\ mixer \in Mixers /\ phase = {}
    /\ bad = {} /\ calm = 1 /\ done = 0
-----------------------------------------------------------------------------
(***************************************************************************)
(* The handlers, and a frame that signal_loop drops.                       *)
(***************************************************************************)
OnDemodulationMessage(m) ==
    /\ ~setting
    /\ demodulation' = m
    /\ calm' = frame + 1
    /\ UNCHANGED <<audio_mid, setting, pc, frame, indices, realVars, complexVars, bad, done>>

\* set_audio_range stores audio_mid ...
SetMid(m) ==
    /\ ~setting
    /\ audio_mid' = m /\ setting' = TRUE
    /\ calm' = frame + 1
    /\ UNCHANGED <<demodulation, pc, frame, indices, realVars, complexVars, bad, done>>

\* ... then l and r, and puts the slice under its new key.
RangeSet ==
    /\ setting
    /\ setting' = FALSE
    /\ calm' = frame + 1
    /\ UNCHANGED <<demodulation, audio_mid, pc, frame, indices, realVars, complexVars,
                   bad, done>>

Drop ==
    /\ Slow
    /\ pc = "idle" /\ frame < MaxFrames
    /\ frame' = frame + 1
    /\ calm' = frame + 2
    /\ UNCHANGED <<requests, pc, indices, realVars, complexVars, bad, done>>
-----------------------------------------------------------------------------
(***************************************************************************)
(* send_audio.                                                             *)
(***************************************************************************)
Goto(from, to) == pc = from /\ pc' = to

\* audio_mid is read once for the bins to copy ...
Begin(finite) ==
    /\ frame < MaxFrames
    /\ Goto("idle", "index")
    /\ frame' = frame + 1
    /\ centre' = audio_mid
    /\ bad' = IF finite THEN bad ELSE bad \cup {frame + 1}
    /\ UNCHANGED <<requests, mid, realVars, complexVars, calm, done>>

\* ... and once more for the sign.
Index ==
    /\ Goto("index", "branch")
    /\ mid' = audio_mid
    /\ UNCHANGED <<requests, frame, centre, realVars, complexVars, history>>

HalfOf(f, h, turn) == [frame |-> f, half |-> h, turn |-> turn]
Transformed == <<{HalfOf(frame, 1, 0)}, {HalfOf(frame, 2, 0)}>>
Negated(halves) == {[h EXCEPT !.turn = 1 - @] : h \in halves}

\* The remainder of C++ has the sign of the dividend.
Rem2(m) == IF m >= 0 THEN m % 2 ELSE -((-m) % 2)

\* On odd frames the transforms of every other centre come out inverted.
MutInverted(m) == frame % 2 = 1 /\ Rem2(m) = 1  \* mutant: IQ is treated like real input
Inverted(m) == frame % 2 = 1 /\ Rem2(m) = (IF IsReal THEN 1 ELSE 0)

Corrected(buffer) ==
    IF Inverted(mid) THEN <<Negated(buffer[1]), Negated(buffer[2])>> ELSE buffer

\* USB and LSB: copy the bins and transform ...
Sideband ==
    /\ demodulation \in Sidebands
    /\ Goto("branch", "negate")
    /\ audio_real' = <<Sound(Transformed[1], {}, {}), Transformed[2]>>
    /\ UNCHANGED <<requests, frame, indices, audio_real_prev, complexVars, history>>

\* ... and, if the client still wants a sideband, undo the inversion; then add
\* the half kept from the frame before.
OverlapAdd(halves) == halves \cup audio_real_prev

NegateReal ==
    LET undone == IF demodulation \in Sidebands
                  THEN Corrected(<<audio_real[1].sum, audio_real[2]>>)
                  ELSE <<audio_real[1].sum, audio_real[2]>> IN
    /\ Goto("negate", "check")
    /\ audio_real' = <<Sound(OverlapAdd(undone[1]), {}, {}), undone[2]>>
    /\ UNCHANGED <<requests, frame, indices, audio_real_prev, complexVars, history>>

\* AM and FM: keep the second half of the last baseband ...
Baseband ==
    /\ demodulation \notin Sidebands
    /\ Goto("branch", "keepCarrier")
    /\ prev' = baseband[1]
    /\ baseband_prev' = baseband[2]
    /\ UNCHANGED <<requests, frame, indices, realVars, baseband, carrier, carrier_prev,
                   mixer, phase, history>>

\* ... and, for AM, of the last carrier; transform the bins ...
MutKept(buffer) == buffer[1]                 \* mutant: the wrong half is kept
Kept(buffer) == buffer[2]

KeepCarrier ==
    /\ Goto("keepCarrier", "carrier")
    /\ carrier_prev' = IF demodulation = "AM" THEN Kept(carrier) ELSE carrier_prev
    /\ baseband' = Transformed
    /\ UNCHANGED <<requests, frame, indices, realVars, baseband_prev, carrier, prev, mixer,
                   phase, history>>

\* ... and the carrier, undoing the inversion of the baseband ...
Carrier ==
    /\ Goto("carrier", "negateCarrier")
    /\ carrier' = IF demodulation = "AM" THEN Transformed ELSE carrier
    /\ baseband' = Corrected(baseband)
    /\ UNCHANGED <<requests, frame, indices, realVars, baseband_prev, carrier_prev, prev,
                   mixer, phase, history>>

\* ... and of the carrier; add the kept half of the baseband ...
NegateCarrier ==
    /\ Goto("negateCarrier", "am")
    /\ carrier' = IF demodulation = "AM" THEN Corrected(carrier) ELSE carrier
    /\ baseband' = [baseband EXCEPT ![1] = @ \cup baseband_prev]
    /\ UNCHANGED <<requests, frame, indices, realVars, baseband_prev, carrier_prev, prev,
                   mixer, phase, history>>

\* ... for AM that of the carrier, and mix down, with the phase locked to it ...
Nan(halves) == {h \in halves : h.frame \in bad}

Am ==
    /\ Goto("am", "fm")
    /\ IF demodulation = "AM"
       THEN /\ carrier' = [carrier EXCEPT ![1] = @ \cup carrier_prev]
            /\ phase' = IF mixer # "keeps" \/ phase # {} THEN phase ELSE Nan(carrier'[1])
            /\ audio_real' = [audio_real EXCEPT ![1] = Sound(baseband[1],
                                IF mixer = "none" THEN {} ELSE carrier'[1] \cup phase, {})]
       ELSE UNCHANGED <<carrier, phase, audio_real>>
    /\ UNCHANGED <<requests, frame, indices, audio_real_prev, baseband, baseband_prev,
                   carrier_prev, prev, mixer, history>>

\* ... for FM discriminate.
Fm ==
    /\ Goto("fm", "check")
    /\ audio_real' = IF demodulation = "FM"
                     THEN [audio_real EXCEPT ![1] = Sound(baseband[1], {}, prev)]
                     ELSE audio_real
    /\ UNCHANGED <<requests, frame, indices, audio_real_prev, complexVars, history>>

\* The block to send contains NaN: the task throws before anything is kept.
HasNan == Nan(audio_real[1].sum \cup audio_real[1].carrier \cup audio_real[1].prev) # {}

Throw ==
    /\ HasNan
    /\ Goto("check", "throw")
    /\ UNCHANGED <<requests, frame, indices, realVars, complexVars, history>>

Catch ==
    /\ Goto("throw", "idle")
    /\ UNCHANGED <<requests, frame, indices, realVars, complexVars, history>>

\* Otherwise the second half is kept and the block is encoded and sent.
Send ==
    /\ ~HasNan
    /\ Goto("check", "idle")
    /\ audio_real_prev' = audio_real[2]
    /\ done' = frame
    /\ UNCHANGED <<requests, frame, indices, audio_real, complexVars, bad, calm>>

SendAudio ==
    \/ \E finite \in BOOLEAN : Begin(finite)
    \/ Index
    \/ Sideband \/ NegateReal
    \/ Baseband \/ KeepCarrier \/ Carrier \/ NegateCarrier \/ Am \/ Fm
    \/ Throw \/ Catch \/ Send

Next ==
    \/ SendAudio
    \/ Drop
    \/ \E m \in Demodulations \ {demodulation} : OnDemodulationMessage(m)
    \/ \E m \in Mids \ {audio_mid} : SetMid(m)
    \/ RangeSet

Spec == Init /\ [][Next]_vars
-----------------------------------------------------------------------------
(***************************************************************************)
(* Properties.                                                             *)
(***************************************************************************)
\* The bin of the transform a centre stands for: IQ spectra begin in the middle.
Bin(m) == IF IsReal THEN m ELSE (m + FftSize \div 2 + 1) % FftSize

\* Frames overlap by half, so bin k has turned by k half-turns per frame; a
\* half is right when the odd turn of its frame and centre has been undone.
Right(f, h) == HalfOf(f, h, (Bin(centre) * f) % 2)

\* The sizes and centres for which the parity the code looks at is the turn. It
\* checks neither fft_size nor the centre a client sends: with IQ input and an
\* fft_size that is no multiple of four, or with real input and a negative odd
\* centre, every other block is added up with the wrong sign.
SignsHold == IF IsReal THEN FftSize % 2 = 0 /\ (centre >= 0 \/ centre % 2 = 0)
                       ELSE FftSize % 4 = 0

\* A change disturbs the frame it hits and the next one, no more: if neither
\* this frame nor the last one saw a change, and the last one was sent, then a
\* block to be sent is made of this frame's first and the last frame's second
\* half, and so is the carrier AM mixes with, and the FM discriminator starts from
\* the last block. Where SignsHold, the signs are right.
Undisturbed == ~setting /\ calm < frame /\ done = frame - 1

Joined(halves) ==
    /\ {<<h.frame, h.half>> : h \in halves} = {<<frame, 1>>, <<frame - 1, 2>>}
    /\ SignsHold => halves = {Right(frame, 1), Right(frame - 1, 2)}

Seamless ==
    pc = "check" /\ ~HasNan /\ Undisturbed =>
        LET block == audio_real[1] IN
        /\ Joined(block.sum)
        /\ demodulation = "AM" /\ mixer # "none" => Joined(block.carrier)
        /\ demodulation = "FM" => \E h \in block.prev : /\ h.frame = frame - 1 /\ h.half = 1
                                                        /\ SignsHold => h = Right(frame - 1, 1)

\* A frame that is not finite mutes at most two more: a later one is thrown away
\* only if the client, or a drop, interfered since, or if it is mixed down with
\* a phase that keeps a NaN; then AM is silent for good.
Recovers ==
    pc = "throw" => \E g \in bad : \/ g >= frame - 2 \/ calm > g
                                   \/ demodulation = "AM" /\ \E h \in phase : h.frame = g

\* signal.cpp:273 says the copied half is the one to add in the next frame; AM
\* and FM leave the second half alone, so after them an older one is added.
OverlapIsAdjacent ==
    pc = "check" /\ calm <= frame /\ done = frame - 1 =>
        \A h \in audio_real[1].sum : h.frame >= frame - 1
=============================================================================
