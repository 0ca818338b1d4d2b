---------------------------- MODULE DemodProofs ----------------------------
(***************************************************************************)
(* A client that is left alone hears a seamless sound, and a frame that is *)
(* not finite mutes at most two more unless the mixer keeps it: proofs of  *)
(* Seamless and Recovers of AudioDemod, for real and IQ input, any size    *)
(* and any centres, of either sign, for the halves that are added up and,  *)
(* where SignsHold, for their signs.                                       *)
(***************************************************************************)
EXTENDS AudioDemod, TLAPS

Half == [frame : Nat, half : 1..2, turn : 0..1]
Block == [sum : SUBSET Half, carrier : SUBSET Half, prev : SUBSET Half]
Pair == (SUBSET Half) \X (SUBSET Half)
Pcs == {"idle", "index", "branch", "negate", "keepCarrier", "carrier", "negateCarrier",
        "am", "fm", "check", "throw"}

TypeOK ==
    /\ demodulation \in Modes /\ audio_mid \in Int /\ centre \in Int /\ mid \in Int
    /\ setting \in BOOLEAN /\ mixer \in Mixers /\ phase \subseteq Half
    /\ pc \in Pcs /\ frame \in Nat
    /\ audio_real \in Block \X (SUBSET Half) /\ audio_real_prev \subseteq Half
    /\ baseband \in Pair /\ baseband_prev \subseteq Half
    /\ carrier \in Pair /\ carrier_prev \subseteq Half /\ prev \subseteq Half
    /\ bad \subseteq Nat /\ calm \in Nat /\ done \in Nat

\* Nothing is of a frame to come.
Heard == audio_real[1].sum \cup audio_real[1].carrier \cup audio_real[1].prev
Complex == baseband[1] \cup baseband[2] \cup baseband_prev \cup carrier[1] \cup carrier[2]
           \cup carrier_prev \cup prev
Held == Heard \cup audio_real[2] \cup audio_real_prev \cup Complex
PastInv ==
    /\ calm <= frame + 1
    /\ done <= frame /\ (pc # "idle" => done < frame)
    /\ \A g \in bad : g <= frame
    /\ \A h \in Held : h.frame <= frame
    /\ \A h \in phase : h.frame \in bad

\* A half as send_audio makes it while the client is left alone: turned or not as
\* the parity of its centre says.
Made(f, h) ==
    HalfOf(f, h, IF f % 2 = 1 /\ Rem2(audio_mid) = (IF IsReal THEN 1 ELSE 0) THEN 1 ELSE 0)

\* No half in S is older than frame k, unless it is from before the last change.
Near(S, k) == \A h \in S : k <= h.frame \/ h.frame < calm

\* S is the second half of the frame before; its first half, and what was added
\* to it; what this frame's first half adds up to.
Tail(S) == Near(S, frame - 1) /\ (calm < frame => S = {Made(frame - 1, 2)})
Before(S) == Near(S, frame - 2) /\ (calm < frame => Made(frame - 1, 1) \in S)
Whole(S) == /\ Near(S, frame - 1) /\ Made(frame, 1) \in S
            /\ calm < frame => S = {Made(frame, 1), Made(frame - 1, 2)}

Frame(f) == <<{Made(f, 1)}, {Made(f, 2)}>>

\* What a frame begun after the last change finds and makes, while the client
\* wants a sideband ...
SidebandInv ==
    /\ pc \in {"idle", "index", "branch", "negate", "check", "throw"}
    /\ pc = "negate" => audio_real = <<Sound(Transformed[1], {}, {}), Transformed[2]>>
    /\ pc \in {"check", "throw", "idle"} => audio_real[2] = {Made(frame, 2)}
    /\ pc = "check" => audio_real[1] = Sound({Made(frame, 1)} \cup audio_real_prev, {}, {})
    /\ pc = "idle" /\ done = frame => audio_real_prev = {Made(frame, 2)}
    /\ pc # "idle" /\ calm < frame /\ done = frame - 1 =>
         audio_real_prev = {Made(frame - 1, 2)}

\* ... and while it wants AM or FM.
MixedInv ==
    /\ pc # "negate"
    /\ \A h \in audio_real[2] : h.frame < calm
    /\ pc \in {"index", "branch"} => Before(baseband[1]) /\ Tail(baseband[2])
    /\ pc \in {"keepCarrier", "carrier", "negateCarrier", "am", "fm"} => Before(prev)
    /\ pc \in {"keepCarrier", "carrier", "negateCarrier"} => Tail(baseband_prev)
    /\ pc = "carrier" => baseband = Transformed
    /\ pc = "negateCarrier" => baseband = Frame(frame)
    /\ pc \in {"am", "fm", "check", "throw", "idle"} =>
         Whole(baseband[1]) /\ baseband[2] = {Made(frame, 2)}
    /\ pc = "check" /\ demodulation = "FM" =>
         /\ Whole(audio_real[1].sum) /\ audio_real[1].carrier = {}
         /\ Before(audio_real[1].prev)
CarrierInv ==
    /\ pc \in {"index", "branch", "keepCarrier"} => Tail(carrier[2])
    /\ pc \in {"carrier", "negateCarrier", "am"} => Tail(carrier_prev)
    /\ pc = "negateCarrier" => carrier = Transformed
    /\ pc = "am" => carrier = Frame(frame)
    /\ pc \in {"fm", "check", "throw", "idle"} => carrier[2] = {Made(frame, 2)}
    /\ pc \in {"fm", "check"} =>
         /\ Whole(audio_real[1].sum) /\ audio_real[1].prev = {}
         /\ Whole(carrier[1])
         /\ audio_real[1].carrier \subseteq carrier[1] \cup phase
         /\ mixer # "none" => carrier[1] \subseteq audio_real[1].carrier

SettledInv ==
    calm <= frame => /\ pc # "idle" => centre = audio_mid
                     /\ pc \notin {"idle", "index"} => mid = audio_mid
                     /\ demodulation \in Sidebands => SidebandInv
                     /\ demodulation \notin Sidebands => MixedInv
                     /\ demodulation = "AM" => CarrierInv

\* What is kept of a block that was sent is finite.
KeptInv == \A h \in audio_real_prev : h.frame \in bad => h.frame < calm

DemodInv == TypeOK /\ PastInv /\ SettledInv /\ KeptInv /\ Recovers
-----------------------------------------------------------------------------
(***************************************************************************)
(* Undoing the inversion.                                                  *)
(***************************************************************************)

LEMMA Division ==
    ASSUME NEW a \in Nat, NEW c \in Nat \ {0}
    PROVE  a = c * (a \div c) + (a % c) /\ a \div c \in Nat /\ a % c \in 0..(c - 1)
<1>1. a = c * (a \div c) + (a % c)
  OBVIOUS
<1>2. a \div c \in Nat
  OBVIOUS
<1>3. a % c \in 0..(c - 1)
  OBVIOUS
<1> QED
  BY <1>1, <1>2, <1>3

\* A product is odd if both factors are.
LEMMA OddProduct ==
    ASSUME NEW x \in Int, NEW y \in Nat
    PROVE  (x * y) % 2 = (IF y % 2 = 1 THEN x % 2 ELSE 0)
<1>1. PICK a \in Nat, p \in 0..1 : y = 2 * a + p /\ p = y % 2
  <2>1. y = 2 * (y \div 2) + (y % 2) /\ y \div 2 \in Nat /\ y % 2 \in 0..1
    BY Division
  <2> QED
    BY <2>1
<1>2. x * (2 * a) = 2 * (x * a) /\ x * a \in Int
  OBVIOUS
<1>3. \A k, b \in Int : (2 * k) % 2 = 0 /\ (2 * k + b) % 2 = b % 2
  OBVIOUS
<1>4. CASE p = 0
  <2>1. x * y = 2 * (x * a)
    BY <1>1, <1>2, <1>4
  <2> QED
    BY <1>1, <1>2, <1>3, <1>4, <2>1
<1>5. CASE p = 1
  <2>1. x * (2 * a + 1) = 2 * (x * a) + x
    BY <1>2
  <2> QED
    BY <1>1, <1>2, <1>3, <1>5, <2>1
<1> QED
  BY <1>1, <1>4, <1>5

\* The remainder of C++ tells even numbers from odd ones, but is -1 for the odd
\* negative ones.
LEMMA Remainder ==
    ASSUME NEW m \in Int
    PROVE  /\ m % 2 \in 0..1
           /\ Rem2(m) = 0 <=> m % 2 = 0
           /\ m >= 0 \/ m % 2 = 0 => Rem2(m) = m % 2
<1>1. m % 2 \in 0..1 /\ (-m) % 2 \in 0..1 /\ ((-m) % 2 = 0 <=> m % 2 = 0)
  OBVIOUS
<1> QED
  BY <1>1 DEF Rem2

\* Where SignsHold, the parity the code looks at is that of the bin.
LEMMA BinParity ==
    ASSUME centre \in Int, SignsHold
    PROVE  /\ Bin(centre) \in Int /\ Bin(centre) % 2 \in 0..1
           /\ Bin(centre) % 2 = 1 <=> Rem2(centre) = (IF IsReal THEN 1 ELSE 0)
<1>1. CASE IsReal
  BY <1>1, Remainder DEF Bin, SignsHold
<1>2. CASE ~IsReal
  <2>1. PICK q \in Nat \ {0} : FftSize = 4 * q
    BY <1>2, FftSizeAssumption DEF SignsHold
  <2> DEFINE k == centre + 2 * q + 1
             d == 4 * q
  <2>2. Bin(centre) = k % d /\ k \in Int /\ d \in Nat /\ d > 0
    BY <1>2, <2>1 DEF Bin
  <2>3. k = d * (k \div d) + (k % d) /\ k \div d \in Int /\ k % d \in 0..(d - 1)
    <3> HIDE DEF k, d
    <3> QED
      BY <2>2
  <2>5. PICK r \in Int : k = d * r + Bin(centre) /\ Bin(centre) \in Nat
    <3> HIDE DEF k, d
    <3>1. k % d \in Nat
      BY <2>2, <2>3
    <3>2. k = d * (k \div d) + Bin(centre)
      BY <2>2, <2>3
    <3> QED
      BY <2>2, <2>3, <3>1, <3>2
  <2>6. d * r = 2 * (2 * (q * r)) /\ q * r \in Int
    OBVIOUS
  <2>7. \A u, b, v \in Int : u + 2 * q + 1 = 2 * (2 * v) + b => (b % 2 = 1 <=> u % 2 = 0)
    OBVIOUS
  <2>8. centre + 2 * q + 1 = 2 * (2 * (q * r)) + Bin(centre)
    BY <2>5, <2>6
  <2>9. Bin(centre) % 2 = 1 <=> centre % 2 = 0
    <3> HIDE DEF k, d
    <3> QED
      BY <2>5, <2>6, <2>7, <2>8
  <2>10. Bin(centre) % 2 \in 0..1
    BY <2>5
  <2> QED
    BY <1>2, <2>5, <2>9, <2>10, Remainder
<1> QED
  BY <1>1, <1>2

\* What is made is then right.
LEMMA MadeIsRight ==
    ASSUME centre \in Int, SignsHold, centre = audio_mid, NEW f \in Nat, NEW h
    PROVE  Made(f, h) = Right(f, h)
<1>1. f % 2 \in 0..1
  OBVIOUS
<1>2. (Bin(centre) * f) % 2 = (IF f % 2 = 1 THEN Bin(centre) % 2 ELSE 0)
  BY BinParity, OddProduct
<1> QED
  BY <1>1, <1>2, BinParity DEF Made, Right

\* What send_audio makes of the transforms of a frame.
LEMMA CorrectedIs ==
    ASSUME mid = audio_mid
    PROVE  Corrected(Transformed) = Frame(frame)
<1> DEFINE turn == IF Inverted(mid) THEN 1 ELSE 0
<1>2. Frame(frame) = <<{HalfOf(frame, 1, turn)}, {HalfOf(frame, 2, turn)}>>
  BY DEF Frame, Made, Inverted
<1>3. \A h \in 1..2 : Negated({HalfOf(frame, h, 0)}) = {HalfOf(frame, h, 1)}
  BY DEF HalfOf, Negated
<1> QED
  BY <1>2, <1>3 DEF Corrected, Transformed

\* Corrected halves are halves of the same frames.
LEMMA CorrectedFrames ==
    ASSUME NEW b \in Pair
    PROVE  /\ Corrected(b) \in Pair
           /\ \A i \in 1..2 : \A h \in Corrected(b)[i] : \E g \in b[i] : g.frame = h.frame
<1>1. \A S \in SUBSET Half :
         Negated(S) \subseteq Half /\ \A h \in Negated(S) : \E g \in S : g.frame = h.frame
  BY DEF Negated, Half
<1>2. b[1] \in SUBSET Half /\ b[2] \in SUBSET Half
  BY DEF Pair
<1> QED
  BY <1>1, <1>2 DEF Corrected, Pair

LEMMA HalvesType ==
    ASSUME frame \in Nat
    PROVE  /\ Transformed \in Pair
           /\ \A i \in 1..2 : \A h \in Transformed[i] : h.frame = frame
           /\ \A f, h : Made(f, h).frame = f
<1>1. HalfOf(frame, 1, 0) \in Half /\ HalfOf(frame, 2, 0) \in Half
  BY DEF HalfOf, Half
<1>2. \A f, h : Made(f, h).frame = f
  BY DEF HalfOf, Made
<1>3. Transformed \in Pair
  BY <1>1 DEF Transformed, Pair
<1>4. \A i \in 1..2 : \A h \in Transformed[i] : h.frame = frame
  BY DEF Transformed, HalfOf
<1> QED
  BY <1>2, <1>3, <1>4
-----------------------------------------------------------------------------
LEMMA InitDemod == Init => DemodInv
<1> SUFFICES ASSUME Init PROVE DemodInv
  OBVIOUS
<1>1. TypeOK
  BY MidsAssumption, ModesAssumption, MixersAssumption DEF Init, TypeOK, Sound, Block, Pair, Pcs
<1>2. Held = {}
  BY DEF Init, Held, Heard, Complex, Sound
<1>3. PastInv
  BY <1>2 DEF Init, PastInv
<1> QED
  BY <1>1, <1>3 DEF Init, DemodInv, SettledInv, KeptInv, Recovers

LEMMA NextType == ASSUME TypeOK, [Next]_vars PROVE TypeOK'
<1>1. CASE SendAudio
  <2>1. ASSUME NEW finite \in BOOLEAN, Begin(finite) PROVE TypeOK'
    BY <2>1 DEF Begin, Goto, TypeOK, Pcs, requests, indices, realVars, complexVars
  <2>11. CASE Index
    BY <2>11 DEF Index, Goto, TypeOK, Pcs, requests, indices, realVars, complexVars, history
  <2>2. CASE Sideband
    BY <2>2, HalvesType DEF Sideband, Goto, TypeOK, Pcs, requests, indices, complexVars, history,
                            Sound, Block, Pair
  <2>3. CASE NegateReal
    <3> DEFINE undone == IF demodulation \in Sidebands
                         THEN Corrected(<<audio_real[1].sum, audio_real[2]>>)
                         ELSE <<audio_real[1].sum, audio_real[2]>>
    <3>1. <<audio_real[1].sum, audio_real[2]>> \in Pair
      BY DEF TypeOK, Block, Pair
    <3>2. undone \in Pair
      BY <3>1, CorrectedFrames
    <3>3. audio_real' \in Block \X (SUBSET Half)
      <4>1. audio_real' = <<Sound(undone[1] \cup audio_real_prev, {}, {}), undone[2]>>
        BY <2>3 DEF NegateReal, OverlapAdd
      <4> HIDE DEF undone
      <4> QED
        BY <3>2, <4>1 DEF TypeOK, Sound, Block, Pair
    <3> QED
      BY <2>3, <3>3 DEF NegateReal, Goto, TypeOK, Pcs, requests, indices, complexVars, history
  <2>4. CASE Baseband
    BY <2>4 DEF Baseband, Goto, TypeOK, Pcs, requests, indices, realVars, history, Pair
  <2>5. CASE KeepCarrier
    BY <2>5, HalvesType DEF KeepCarrier, Goto, Kept, TypeOK, Pcs, requests, indices, realVars,
                            history, Pair
  <2>6. CASE Carrier
    BY <2>6, HalvesType, CorrectedFrames DEF Carrier, Goto, TypeOK, Pcs, requests, indices, realVars,
                                             history
  <2>7. CASE NegateCarrier
    <3>1. baseband' \in Pair
      BY <2>7 DEF NegateCarrier, TypeOK, Pair
    <3> QED
      BY <2>7, <3>1, CorrectedFrames DEF NegateCarrier, Goto, TypeOK, Pcs, requests, indices,
                                         realVars, history
  <2>8. CASE Am
    <3>1. carrier' \in Pair
      BY <2>8 DEF Am, TypeOK, Pair
    <3>2. phase' \subseteq Half
      BY <2>8, <3>1 DEF Am, Nan, TypeOK, Pair
    <3>3. audio_real' \in Block \X (SUBSET Half)
      BY <2>8, <3>1 DEF Am, TypeOK, Pair, Sound, Block
    <3> QED
      BY <2>8, <3>1, <3>2, <3>3 DEF Am, Goto, TypeOK, Pcs, requests, indices, history
  <2>9. CASE Fm
    <3>1. audio_real' \in Block \X (SUBSET Half)
      BY <2>9 DEF Fm, TypeOK, Pair, Sound, Block
    <3> QED
      BY <2>9, <3>1 DEF Fm, Goto, TypeOK, Pcs, requests, indices, complexVars, history
  <2>10. CASE Throw \/ Catch \/ Send
    BY <2>10 DEF Throw, Catch, Send, Goto, TypeOK, Pcs, requests, indices, realVars, complexVars,
                 history
  <2> QED
    BY <1>1, <2>1, <2>2, <2>3, <2>4, <2>5, <2>6, <2>7, <2>8, <2>9, <2>10, <2>11 DEF SendAudio
<1>2. CASE Drop
  BY <1>2 DEF Drop, TypeOK, Pcs, requests, indices, realVars, complexVars
<1>3. ASSUME NEW m \in Demodulations, OnDemodulationMessage(m) PROVE TypeOK'
  BY <1>3, ModesAssumption DEF OnDemodulationMessage, TypeOK, Pcs, indices, realVars, complexVars
<1>4. ASSUME NEW m \in Mids, SetMid(m) PROVE TypeOK'
  BY <1>4, MidsAssumption DEF SetMid, TypeOK, Pcs, indices, realVars, complexVars
<1>6. CASE RangeSet
  <2>1. calm' \in Nat
    BY <1>6 DEF RangeSet, TypeOK
  <2> QED
    BY <1>6, <2>1, ZenonT(60) DEF RangeSet, TypeOK, Pcs, indices, realVars, complexVars
<1>5. CASE UNCHANGED vars
  BY <1>5 DEF vars, requests, indices, realVars, complexVars, history, TypeOK
<1> QED
  BY <1>1, <1>2, <1>3, <1>4, <1>5, <1>6 DEF Next

\* A step puts halves of the frame at work where older ones were.
LEMMA NextPast == ASSUME TypeOK, PastInv, [Next]_vars PROVE PastInv'
<1> USE DEF TypeOK
<1>1. frame \in Nat /\ calm \in Nat /\ done \in Nat /\ bad \subseteq Nat
  OBVIOUS
<1>2. ASSUME NEW finite \in BOOLEAN, Begin(finite) PROVE PastInv'
  <2>1. Held' = Held
    BY <1>2 DEF Begin, requests, realVars, complexVars, Held, Heard, Complex
  <2>2. \A h \in Held : h.frame <= frame'
    <3>1. \A h \in Held : h \in Half
      BY DEF Held, Heard, Complex, Block, Pair
    <3> QED
      BY <1>1, <1>2, <3>1 DEF PastInv, Half, Begin
  <2> QED
    BY <1>1, <1>2, <2>1, <2>2 DEF PastInv, Begin, Goto, complexVars
<1>15. CASE Index
  <2>1. Held' = Held /\ phase' = phase /\ bad' = bad
    BY <1>15 DEF Index, requests, realVars, complexVars, history, Held, Heard, Complex
  <2> QED
    BY <1>1, <1>15, <2>1 DEF PastInv, Index, Goto, complexVars, history
<1>3. CASE Sideband
  <2>1. \A h \in Held' : h \in Held \/ h \in Transformed[1] \/ h \in Transformed[2]
    BY <1>3 DEF Sideband, complexVars, Held, Heard, Complex, Sound
  <2> QED
    BY <1>1, <1>3, <2>1, HalvesType DEF PastInv, Sideband, Goto, complexVars, history
<1>4. CASE NegateReal
  <2> DEFINE made == <<audio_real[1].sum, audio_real[2]>>
             undone == IF demodulation \in Sidebands THEN Corrected(made) ELSE made
  <2>1. made \in Pair
    BY DEF Block, Pair
  <2>2. \A i \in 1..2 : \A h \in undone[i] : \E g \in made[i] : g.frame = h.frame
    <3> HIDE DEF made
    <3> QED
      BY <2>1, CorrectedFrames
  <2>3. audio_real' = <<Sound(undone[1] \cup audio_real_prev, {}, {}), undone[2]>>
    BY <1>4 DEF NegateReal, OverlapAdd
  <2>4. \A h \in Held' : h \in Held \/ h \in undone[1] \/ h \in undone[2]
    <3> HIDE DEF undone
    <3> QED
      BY <1>4, <2>3 DEF NegateReal, complexVars, Held, Heard, Complex, Sound
  <2>5. made[1] \subseteq Held /\ made[2] \subseteq Held
    BY DEF Held, Heard
  <2>6. \A h \in Held' : \E g \in Held : g.frame = h.frame
    <3> HIDE DEF undone, made
    <3> QED
      BY <2>2, <2>4, <2>5
  <2> QED
    BY <1>1, <1>4, <2>6 DEF PastInv, NegateReal, Goto, complexVars, history
<1>5. CASE Baseband
  <2>1. Held' \subseteq Held
    BY <1>5 DEF Baseband, realVars, Held, Heard, Complex
  <2> QED
    BY <1>1, <1>5, <2>1 DEF PastInv, Baseband, Goto, history
<1>6. CASE KeepCarrier
  <2>1. \A h \in Held' : h \in Held \/ h \in Transformed[1] \/ h \in Transformed[2]
    BY <1>6 DEF KeepCarrier, Kept, realVars, Held, Heard, Complex
  <2> QED
    BY <1>1, <1>6, <2>1, HalvesType DEF PastInv, KeepCarrier, Goto, history
<1>7. CASE Carrier
  <2>1. \A i \in 1..2 : \A h \in Corrected(baseband)[i] : \E g \in baseband[i] : g.frame = h.frame
    BY CorrectedFrames
  <2>2. \A h \in Held' : \/ h \in Held \/ h \in Transformed[1] \/ h \in Transformed[2]
                        \/ h \in Corrected(baseband)[1] \/ h \in Corrected(baseband)[2]
    BY <1>7 DEF Carrier, realVars, Held, Heard, Complex
  <2>3. baseband[1] \subseteq Held /\ baseband[2] \subseteq Held
    BY DEF Held, Complex
  <2> QED
    BY <1>1, <1>7, <2>1, <2>2, <2>3, HalvesType DEF PastInv, Carrier, Goto, history
<1>8. CASE NegateCarrier
  <2>1. \A i \in 1..2 : \A h \in Corrected(carrier)[i] : \E g \in carrier[i] : g.frame = h.frame
    BY CorrectedFrames
  <2>2. baseband' = <<baseband[1] \cup baseband_prev, baseband[2]>>
    BY <1>8 DEF NegateCarrier, Pair
  <2>3. \A h \in Held' : \/ h \in Held
                        \/ h \in Corrected(carrier)[1] \/ h \in Corrected(carrier)[2]
    BY <1>8, <2>2 DEF NegateCarrier, realVars, Held, Heard, Complex
  <2>4. carrier[1] \subseteq Held /\ carrier[2] \subseteq Held
    BY DEF Held, Complex
  <2> QED
    BY <1>1, <1>8, <2>1, <2>3, <2>4 DEF PastInv, NegateCarrier, Goto, history
<1>9. CASE Am
  <2>1. /\ \A h \in Held' : h \in Held \/ h \in phase
        /\ \A h \in phase' : h \in phase \/ h.frame \in bad
    <3>1. CASE demodulation = "AM"
      <4>1. /\ carrier' = <<carrier[1] \cup carrier_prev, carrier[2]>>
            /\ audio_real' = <<Sound(baseband[1],
                                 IF mixer = "none" THEN {} ELSE carrier'[1] \cup phase, {}),
                               audio_real[2]>>
            /\ \A h \in phase' : h \in phase \/ h.frame \in bad
        BY <1>9, <3>1 DEF Am, Pair, Nan
      <4>2. Complex' \subseteq Complex
        BY <1>9, <4>1 DEF Am, Complex
      <4>3. \A h \in Heard' : h \in Complex \/ h \in phase
        BY <4>1 DEF Heard, Complex, Sound
      <4> QED
        BY <1>9, <4>1, <4>2, <4>3 DEF Am, Held
    <3>2. CASE demodulation # "AM"
      BY <1>9, <3>2 DEF Am, Held, Heard, Complex
    <3> QED
      BY <3>1, <3>2
  <2> QED
    BY <1>1, <1>9, <2>1 DEF PastInv, Am, Goto, history
<1>10. CASE Fm
  <2>1. Held' \subseteq Held
    <3>1. CASE demodulation = "FM"
      <4>1. audio_real' = <<Sound(baseband[1], {}, prev), audio_real[2]>>
        BY <1>10, <3>1 DEF Fm
      <4> QED
        BY <1>10, <4>1 DEF Fm, complexVars, Held, Heard, Complex, Sound
    <3>2. CASE demodulation # "FM"
      BY <1>10, <3>2 DEF Fm, complexVars, Held, Heard, Complex
    <3> QED
      BY <3>1, <3>2
  <2> QED
    BY <1>1, <1>10, <2>1 DEF PastInv, Fm, Goto, complexVars, history
<1>11. CASE Throw \/ Catch \/ Send
  <2>1. Held' \subseteq Held
    BY <1>11 DEF Throw, Catch, Send, realVars, complexVars, Held, Heard, Complex
  <2>2. CASE Throw \/ Catch
    BY <1>1, <2>2, <2>1 DEF PastInv, Throw, Catch, Goto, complexVars, history
  <2>3. CASE Send
    BY <1>1, <2>3, <2>1 DEF PastInv, Send, Goto, complexVars
  <2> QED
    BY <1>11, <2>2, <2>3
<1>12. CASE Drop
  <2>1. Held' = Held
    BY <1>12 DEF Drop, realVars, complexVars, Held, Heard, Complex
  <2>2. \A h \in Held : h \in Half
    BY DEF Held, Heard, Complex, Block, Pair
  <2>3. \A h \in Held : h.frame <= frame'
    BY <1>1, <1>12, <2>2 DEF PastInv, Half, Drop
  <2> QED
    BY <1>1, <1>12, <2>1, <2>3 DEF PastInv, Drop, complexVars
<1>13. ASSUME NEW m, OnDemodulationMessage(m) \/ SetMid(m) \/ RangeSet
       PROVE  PastInv'
  <2>1. Held' = Held
    BY <1>13 DEF OnDemodulationMessage, SetMid, RangeSet, realVars, complexVars, Held, Heard,
                 Complex
  <2>2. /\ frame' = frame /\ calm' = frame + 1
        /\ done' = done /\ pc' = pc /\ bad' = bad /\ phase' = phase
    BY <1>13 DEF OnDemodulationMessage, SetMid, RangeSet, complexVars
  <2> QED
    BY <1>1, <2>1, <2>2 DEF PastInv
<1>14. CASE UNCHANGED vars
  <2>1. Held' = Held
    BY <1>14 DEF vars, realVars, complexVars, Held, Heard, Complex
  <2> QED
    BY <1>1, <1>14, <2>1 DEF PastInv, vars, complexVars, history
<1> QED
  BY <1>2, <1>3, <1>4, <1>5, <1>6, <1>7, <1>8, <1>9, <1>10, <1>11, <1>12, <1>13, <1>14, <1>15
     DEF Next, SendAudio
-----------------------------------------------------------------------------
(***************************************************************************)
(* What a frame begun after the last change finds and makes.               *)
(***************************************************************************)

\* It begins with what the frame before left, or, if that one saw the change,
\* with something of the past.
LEMMA BeginSettled ==
    ASSUME TypeOK, PastInv, SettledInv, NEW finite \in BOOLEAN, Begin(finite)
    PROVE  SettledInv'
<1> USE DEF TypeOK
<1>1. /\ pc = "idle" /\ pc' = "index" /\ frame' = frame + 1 /\ frame \in Nat
      /\ calm' = calm /\ done' = done /\ calm \in Nat /\ done \in Nat
      /\ centre' = audio_mid' /\ audio_mid' = audio_mid /\ demodulation' = demodulation
  BY DEF Begin, Goto, requests, history
<1>2. \A S \in SUBSET Half : S \subseteq Held => \A h \in S : h.frame <= frame /\ h.frame \in Nat
  BY DEF PastInv, Half
<1>3. /\ audio_real[2] \subseteq Half /\ audio_real[2] \subseteq Held
      /\ baseband[1] \subseteq Half /\ baseband[1] \subseteq Held
      /\ baseband[2] \subseteq Half /\ baseband[2] \subseteq Held
      /\ carrier[2] \subseteq Half /\ carrier[2] \subseteq Held
  BY DEF Held, Heard, Complex, Block, Pair
<1>4. /\ Made(frame - 1, 1)' = Made(frame, 1)
      /\ Made(frame - 1, 2)' = Made(frame, 2)
  <2>1. frame' - 1 = frame
    BY <1>1
  <2> QED
    BY <1>1, <2>1 DEF Made
<1>5. demodulation \in Sidebands => SidebandInv'
  BY <1>1, <1>4 DEF SettledInv, SidebandInv, Begin, realVars
<1>6. demodulation \notin Sidebands => MixedInv'
  <2> SUFFICES ASSUME demodulation \notin Sidebands PROVE MixedInv'
    OBVIOUS
  <2>1. CASE calm <= frame
    <3>1. MixedInv
      BY <2>1 DEF SettledInv
    <3>2. \A h \in audio_real[2] : h.frame < calm
      BY <3>1 DEF MixedInv
    <3>3. Near(baseband[1], frame - 1) /\ Made(frame, 1) \in baseband[1]
      BY <1>1, <3>1 DEF MixedInv, Whole
    <3>4. baseband[2] = {Made(frame, 2)}
      BY <1>1, <3>1 DEF MixedInv
    <3>5. Before(baseband[1])'
      BY <1>1, <1>4, <2>1, <3>3 DEF Before, Near, Begin, complexVars
    <3>6. Tail(baseband[2])'
      BY <1>1, <1>2, <1>3, <1>4, <2>1, <3>4, HalvesType DEF Tail, Near, Begin, complexVars
    <3> QED
      BY <1>1, <3>2, <3>5, <3>6 DEF MixedInv, Begin, realVars
  <2>2. CASE calm = frame + 1
    <3>1. Before(baseband[1])' /\ Tail(baseband[2])'
      BY <1>1, <1>2, <1>3, <2>2 DEF Before, Tail, Near, Begin, complexVars
    <3> QED
      BY <1>1, <1>2, <1>3, <2>2, <3>1 DEF MixedInv, Begin, realVars
  <2> QED
    BY <1>1, <2>1, <2>2 DEF PastInv
<1>7. demodulation = "AM" => CarrierInv'
  <2> SUFFICES ASSUME demodulation = "AM" PROVE CarrierInv'
    OBVIOUS
  <2>1. CASE calm <= frame
    <3>1. carrier[2] = {Made(frame, 2)}
      BY <1>1, <2>1 DEF SettledInv, CarrierInv
    <3>2. Tail(carrier[2])'
      BY <1>1, <1>2, <1>3, <1>4, <2>1, <3>1, HalvesType DEF Tail, Near, Begin, complexVars
    <3> QED
      BY <1>1, <3>2 DEF CarrierInv
  <2>2. CASE calm = frame + 1
    BY <1>1, <1>2, <1>3, <2>2 DEF CarrierInv, Tail, Near, Begin, complexVars
  <2> QED
    BY <1>1, <2>1, <2>2 DEF PastInv
<1> QED
  BY <1>1, <1>5, <1>6, <1>7 DEF SettledInv

\* A sideband: the transforms are corrected and the half kept is added.
LEMMA SidebandStep ==
    ASSUME TypeOK, PastInv, SettledInv, calm <= frame, demodulation \in Sidebands,
           Index \/ Sideband \/ NegateReal \/ Throw \/ Catch \/ Send
    PROVE  SidebandInv'
<1> USE DEF TypeOK
<1>1. SidebandInv /\ frame \in Nat
  BY DEF SettledInv
<1>2. frame' = frame /\ audio_mid' = audio_mid /\ calm' = calm
  BY DEF Index, requests, Sideband, NegateReal, Throw, Catch, Send, history
<1>3. \A f, h : Made(f, h)' = Made(f, h)
  BY <1>2 DEF Made
<1>7. CASE Index
  BY <1>1, <1>2, <1>3, <1>7 DEF SidebandInv, Index, Goto, realVars, history
<1>4. CASE Sideband
  BY <1>1, <1>2, <1>3, <1>4 DEF SidebandInv, Sideband, Goto, Transformed, history
<1>5. CASE NegateReal
  <2>1. pc = "negate" /\ pc' = "check" /\ audio_real_prev' = audio_real_prev /\ done' = done
    BY <1>5 DEF NegateReal, Goto, history
  <2>2. audio_real = <<Sound(Transformed[1], {}, {}), Transformed[2]>>
    BY <1>1, <2>1 DEF SidebandInv
  <2>3. <<audio_real[1].sum, audio_real[2]>> = Transformed
    BY <2>2 DEF Sound, Transformed
  <2>6. mid = audio_mid
    BY <2>1 DEF SettledInv
  <2>4. audio_real' = <<Sound(Frame(frame)[1] \cup audio_real_prev, {}, {}), Frame(frame)[2]>>
    BY <1>1, <1>5, <2>6, <2>3, CorrectedIs DEF NegateReal, OverlapAdd
  <2>5. audio_real'[1] = Sound({Made(frame, 1)} \cup audio_real_prev, {}, {})
        /\ audio_real'[2] = {Made(frame, 2)}
    BY <2>4 DEF Frame
  <2> QED
    BY <1>1, <1>2, <1>3, <2>1, <2>5 DEF SidebandInv
<1>6. CASE Throw \/ Catch \/ Send
  <2>1. CASE Throw
    BY <1>1, <1>2, <1>3, <2>1 DEF SidebandInv, Throw, Goto, realVars, history
  <2>2. CASE Catch
    BY <1>1, <1>2, <1>3, <2>2 DEF SidebandInv, PastInv, Catch, Goto, realVars, history
  <2>3. CASE Send
    BY <1>1, <1>2, <1>3, <2>3 DEF SidebandInv, Send, Goto
  <2> QED
    BY <1>6, <2>1, <2>2, <2>3
<1> QED
  BY <1>4, <1>5, <1>6, <1>7

\* AM and FM: the halves kept move on, the new ones are corrected and added up.
MixedStep == \/ Index \/ Baseband \/ KeepCarrier \/ Carrier \/ NegateCarrier \/ Am \/ Fm
             \/ Throw \/ Catch \/ Send

LEMMA MixedUnmoved ==
    ASSUME MixedStep
    PROVE  /\ frame' = frame /\ calm' = calm /\ requests' = requests
           /\ demodulation' = demodulation /\ (pc # "index" => mid' = mid)
           /\ \A f, h : Made(f, h)' = Made(f, h)
           /\ Frame(frame)' = Frame(frame) /\ Transformed' = Transformed
<1>1. /\ frame' = frame /\ calm' = calm /\ requests' = requests
      /\ pc # "index" => mid' = mid
  BY DEF MixedStep, Index, Goto, indices, Baseband, KeepCarrier, Carrier, NegateCarrier, Am, Fm,
         Throw, Catch, Send, requests, history
<1> QED
  BY <1>1 DEF Made, Frame, Transformed, requests

\* The first half of a frame, added to the second half of the one before.
LEMMA WholeIs ==
    ASSUME frame \in Nat, calm \in Nat, NEW S, Tail(S)
    PROVE  Whole({Made(frame, 1)} \cup S)
BY HalvesType DEF Tail, Whole, Near

LEMMA MixedKept ==
    ASSUME TypeOK, SettledInv, calm <= frame, demodulation \notin Sidebands, MixedStep
    PROVE  MixedInv'
<1> USE DEF TypeOK
<1>1. /\ MixedInv /\ frame \in Nat /\ calm \in Nat
      /\ pc = "carrier" => mid = audio_mid
  BY DEF SettledInv
<1>2. CASE Index
  BY <1>1, <1>2, MixedUnmoved
     DEF MixedInv, Index, Goto, realVars, complexVars, Before, Tail, Near
<1>3. CASE Baseband
  BY <1>1, <1>3, MixedUnmoved DEF MixedInv, Baseband, Goto, realVars, Before, Tail, Near
<1>4. CASE KeepCarrier
  BY <1>1, <1>4, MixedUnmoved DEF MixedInv, KeepCarrier, Goto, realVars, Before, Tail, Near
<1>5. CASE Carrier
  <2>1. baseband' = Frame(frame)
    BY <1>1, <1>5, CorrectedIs DEF MixedInv, Carrier, Goto
  <2> QED
    BY <1>1, <1>5, <2>1, MixedUnmoved DEF MixedInv, Carrier, Goto, realVars, Before, Tail, Near
<1>6. CASE NegateCarrier
  <2>1. baseband' = <<{Made(frame, 1)} \cup baseband_prev, {Made(frame, 2)}>>
    BY <1>1, <1>6 DEF MixedInv, NegateCarrier, Goto, Frame
  <2>2. Whole({Made(frame, 1)} \cup baseband_prev)
    BY <1>1, <1>6, WholeIs DEF MixedInv, NegateCarrier, Goto
  <2>3. baseband'[1] = {Made(frame, 1)} \cup baseband_prev /\ baseband'[2] = {Made(frame, 2)}
    BY <2>1
  <2> QED
    BY <1>1, <1>6, <2>2, <2>3, MixedUnmoved
       DEF MixedInv, NegateCarrier, Goto, realVars, Before, Whole, Near
<1>7. CASE Am
  <2>1. audio_real'[2] = audio_real[2]
    BY <1>7 DEF Am
  <2> QED
    BY <1>1, <1>7, <2>1, MixedUnmoved DEF MixedInv, Am, Goto, Before, Whole, Near
<1>8. CASE Fm
  <2>1. audio_real'[2] = audio_real[2]
    BY <1>8 DEF Fm
  <2>2. demodulation = "FM" => audio_real'[1] = Sound(baseband[1], {}, prev)
    BY <1>8 DEF Fm
  <2> QED
    BY <1>1, <1>8, <2>1, <2>2, MixedUnmoved
       DEF MixedInv, Fm, Goto, complexVars, Sound, Before, Whole, Near
<1>9. CASE Throw \/ Catch \/ Send
  BY <1>1, <1>9, MixedUnmoved
     DEF MixedInv, Throw, Catch, Send, Goto, realVars, complexVars, Whole, Near
<1> QED
  BY <1>2, <1>3, <1>4, <1>5, <1>6, <1>7, <1>8, <1>9 DEF MixedStep

LEMMA CarrierKept ==
    ASSUME TypeOK, SettledInv, calm <= frame, demodulation = "AM", MixedStep
    PROVE  CarrierInv'
<1> USE DEF TypeOK
<1>1. /\ CarrierInv /\ MixedInv /\ frame \in Nat /\ calm \in Nat
      /\ pc = "negateCarrier" => mid = audio_mid
  BY DEF SettledInv, Sidebands
<1>9. CASE Index
  BY <1>1, <1>9, MixedUnmoved DEF CarrierInv, Index, Goto, complexVars, Tail, Near
<1>2. CASE Baseband
  BY <1>1, <1>2, MixedUnmoved DEF CarrierInv, Baseband, Goto, Tail, Near
<1>3. CASE KeepCarrier
  BY <1>1, <1>3, MixedUnmoved DEF CarrierInv, KeepCarrier, Kept, Goto, Tail, Near
<1>4. CASE Carrier
  BY <1>1, <1>4, MixedUnmoved DEF CarrierInv, Carrier, Goto, Tail, Near
<1>5. CASE NegateCarrier
  <2>1. carrier' = Frame(frame)
    BY <1>1, <1>5, CorrectedIs DEF CarrierInv, NegateCarrier, Goto
  <2> QED
    BY <1>1, <1>5, <2>1, MixedUnmoved DEF CarrierInv, NegateCarrier, Goto, Tail, Near
<1>6. CASE Am
  <2>1. /\ carrier' = [carrier EXCEPT ![1] = @ \cup carrier_prev]
        /\ audio_real' = [audio_real EXCEPT ![1] = Sound(baseband[1],
                            IF mixer = "none" THEN {} ELSE carrier'[1] \cup phase, {})]
        /\ mixer' = mixer /\ phase \subseteq phase'
    <3>1. carrier' \in Pair
      BY <1>6 DEF Am, Pair
    <3> QED
      BY <1>6, <3>1 DEF Am
  <2>2. carrier'[1] = {Made(frame, 1)} \cup carrier_prev /\ carrier'[2] = {Made(frame, 2)}
    BY <1>1, <1>6, <2>1 DEF CarrierInv, Am, Goto, Frame
  <2>3. Whole(carrier'[1])
    BY <1>1, <1>6, <2>2, WholeIs DEF CarrierInv, Am, Goto
  <2>4. audio_real'[1] = Sound(baseband[1], IF mixer = "none" THEN {} ELSE carrier'[1] \cup phase, {})
    BY <2>1
  <2>5. Whole(baseband[1])
    BY <1>1, <1>6 DEF MixedInv, Am, Goto
  <2>6. Whole(audio_real[1].sum)' /\ Whole(carrier[1])'
    BY <1>1, <2>3, <2>4, <2>5, MixedUnmoved DEF Sound, Whole, Near
  <2>7. /\ audio_real'[1].prev = {}
        /\ audio_real'[1].carrier \subseteq carrier'[1] \cup phase'
        /\ mixer' # "none" => carrier'[1] \subseteq audio_real'[1].carrier
    BY <2>1, <2>4 DEF Sound
  <2> QED
    BY <1>6, <2>2, <2>6, <2>7, MixedUnmoved DEF CarrierInv, Am, Goto
<1>7. CASE Fm
  BY <1>1, <1>7, MixedUnmoved DEF CarrierInv, Fm, Goto, complexVars, Whole, Near
<1>8. CASE Throw \/ Catch \/ Send
  BY <1>1, <1>8, MixedUnmoved
     DEF CarrierInv, Throw, Catch, Send, Goto, realVars, complexVars, Whole, Near
<1> QED
  BY <1>2, <1>3, <1>4, <1>5, <1>6, <1>7, <1>8, <1>9 DEF MixedStep

LEMMA NextSettled ==
    ASSUME TypeOK, PastInv, SettledInv, [Next]_vars
    PROVE  SettledInv'
<1>1. frame \in Nat /\ calm \in Nat
  BY DEF TypeOK
<1>2. ASSUME NEW finite \in BOOLEAN, Begin(finite) PROVE SettledInv'
  BY <1>2, BeginSettled
<1>3. CASE Sideband \/ NegateReal \/ MixedStep
  <2> SUFFICES ASSUME calm' <= frame'
               PROVE  /\ pc' # "idle" => centre' = audio_mid'
                      /\ pc' \notin {"idle", "index"} => mid' = audio_mid'
                      /\ demodulation' \in Sidebands => SidebandInv'
                      /\ demodulation' \notin Sidebands => MixedInv'
                      /\ demodulation' = "AM" => CarrierInv'
    BY DEF SettledInv
  <2>1. /\ frame' = frame /\ calm' = calm /\ pc # "idle" /\ pc' # "index" /\ centre' = centre
        /\ mid' = IF pc = "index" THEN audio_mid ELSE mid
        /\ demodulation' = demodulation /\ audio_mid' = audio_mid
    BY <1>3 DEF Sideband, NegateReal, MixedStep, Index, Baseband, KeepCarrier, Carrier,
                NegateCarrier, Am, Fm, Throw, Catch, Send, Goto, requests, indices, history
  <2>4. centre' = audio_mid' /\ mid' = audio_mid'
    BY <2>1 DEF SettledInv
  <2>2. CASE demodulation \in Sidebands
    <3>1. SidebandInv
      BY <2>1, <2>2 DEF SettledInv
    <3>2. Index \/ Sideband \/ NegateReal \/ Throw \/ Catch \/ Send
      BY <1>3, <2>2, <3>1 DEF SidebandInv, MixedStep, Baseband, KeepCarrier, Carrier,
                              NegateCarrier, Am, Fm, Goto
    <3> QED
      BY <2>1, <2>2, <3>2, SidebandStep DEF SettledInv, Sidebands
  <2>3. CASE demodulation \notin Sidebands
    <3>1. MixedStep
      <4>1. MixedInv
        BY <2>1, <2>3 DEF SettledInv
      <4> QED
        BY <1>3, <2>3, <4>1 DEF MixedInv, Sideband, NegateReal, Goto
    <3> QED
      BY <2>1, <2>3, <3>1, MixedKept, CarrierKept DEF SettledInv
  <2> QED
    BY <2>2, <2>3, <2>4
<1>4. CASE Drop
  BY <1>1, <1>4 DEF SettledInv, Drop
<1>5. ASSUME NEW m, OnDemodulationMessage(m) \/ SetMid(m) \/ RangeSet PROVE SettledInv'
  BY <1>1, <1>5 DEF SettledInv, OnDemodulationMessage, SetMid, RangeSet
<1>6. CASE UNCHANGED vars
  BY <1>6 DEF vars, requests, indices, realVars, complexVars, history, SettledInv, SidebandInv, MixedInv,
              CarrierInv, Before, Tail, Whole, Near, Made, Transformed, Frame
<1> QED
  BY <1>2, <1>3, <1>4, <1>5, <1>6 DEF Next, SendAudio, MixedStep
-----------------------------------------------------------------------------
(***************************************************************************)
(* A frame that is not finite.                                             *)
(***************************************************************************)

\* The second half of a block is kept only after its first half, of the same
\* frame, was found to be finite.
LEMMA NextKept ==
    ASSUME TypeOK, PastInv, SettledInv, KeptInv, [Next]_vars
    PROVE  KeptInv'
<1>1. frame \in Nat /\ calm \in Nat /\ audio_real_prev \subseteq Half
  BY DEF TypeOK
<1>2. \A h \in audio_real_prev : h.frame \in Nat /\ h.frame <= frame
  BY <1>1 DEF PastInv, Held, Half
<1>3. CASE Send
  <2>1. CASE calm > frame
    BY <1>1, <1>3, <2>1 DEF TypeOK, PastInv, Held, Half, KeptInv, Send
  <2>2. CASE calm <= frame /\ demodulation \in Sidebands
    <3>1. audio_real[2] = {Made(frame, 2)} /\ Made(frame, 1) \in audio_real[1].sum
      BY <1>3, <2>2 DEF SettledInv, SidebandInv, Send, Goto, Sound
    <3>2. frame \notin bad
      BY <1>1, <1>3, <3>1, HalvesType DEF Send, HasNan, Nan
    <3> QED
      BY <1>1, <1>3, <3>1, <3>2, HalvesType DEF KeptInv, Send
  <2>3. CASE calm <= frame /\ demodulation \notin Sidebands
    BY <1>3, <2>3 DEF SettledInv, MixedInv, KeptInv, Send
  <2> QED
    BY <1>1, <2>1, <2>2, <2>3
<1>4. ASSUME NEW finite \in BOOLEAN, Begin(finite) PROVE KeptInv'
  BY <1>1, <1>2, <1>4 DEF KeptInv, Begin, realVars
<1>5. CASE Drop
  BY <1>1, <1>2, <1>5 DEF KeptInv, Drop, realVars
<1>6. ASSUME NEW m, OnDemodulationMessage(m) \/ SetMid(m) \/ RangeSet PROVE KeptInv'
  BY <1>1, <1>2, <1>6 DEF KeptInv, OnDemodulationMessage, SetMid, RangeSet, realVars
<1>7. CASE \/ Index \/ Sideband \/ NegateReal \/ Baseband \/ KeepCarrier \/ Carrier \/ NegateCarrier
           \/ Am \/ Fm \/ Throw \/ Catch \/ UNCHANGED vars
  <2>1. audio_real_prev' = audio_real_prev /\ bad' = bad /\ calm' = calm
    BY <1>7 DEF Index, Sideband, NegateReal, Baseband, KeepCarrier, Carrier, NegateCarrier, Am, Fm,
                Throw, Catch, vars, realVars, history
  <2> QED
    BY <2>1 DEF KeptInv
<1> QED
  BY <1>3, <1>4, <1>5, <1>6, <1>7 DEF Next, SendAudio

\* A block that is thrown away holds a half of such a frame; unless the client
\* interfered, the block holds nothing older than two frames.
LEMMA NextRecovers ==
    ASSUME TypeOK, PastInv, SettledInv, KeptInv, Recovers, [Next]_vars
    PROVE  Recovers'
<1>1. frame \in Nat /\ calm \in Nat /\ bad \subseteq Nat
  BY DEF TypeOK
<1>2. CASE Throw
  <2>1. PICK h \in Heard : h.frame \in bad
    BY <1>2 DEF Throw, HasNan, Nan, Heard
  <2>2. h.frame \in Nat /\ h.frame <= frame
    BY <1>1, <2>1 DEF PastInv, Held
  <2>3. \/ h.frame >= frame - 2 \/ calm > h.frame
        \/ demodulation = "AM" /\ h \in phase
    <3>1. CASE calm > frame
      BY <1>1, <2>2, <3>1
    <3>2. CASE calm <= frame /\ demodulation \in Sidebands
      <4>1. audio_real[1] = Sound({Made(frame, 1)} \cup audio_real_prev, {}, {})
        BY <1>2, <3>2 DEF SettledInv, SidebandInv, Throw, Goto
      <4>2. h = Made(frame, 1) \/ h \in audio_real_prev
        BY <2>1, <4>1 DEF Heard, Sound
      <4> QED
        BY <1>1, <2>1, <4>2, HalvesType DEF KeptInv
    <3>3. CASE calm <= frame /\ demodulation \notin Sidebands
      <4>1. \/ h \in audio_real[1].sum \/ h \in audio_real[1].carrier
            \/ h \in audio_real[1].prev
        BY <2>1 DEF Heard
      <4>2. pc = "check" /\ demodulation \in {"AM", "FM"}
        BY <1>2, <3>3 DEF TypeOK, Throw, Goto, Modes, Sidebands
      <4>3. CASE demodulation = "AM"
        <5>1. CarrierInv
          BY <3>3, <4>3 DEF SettledInv
        <5> QED
          BY <1>1, <2>2, <4>1, <4>2, <4>3, <5>1 DEF CarrierInv, Whole, Near
      <4>4. CASE demodulation = "FM"
        <5>1. MixedInv
          BY <3>3 DEF SettledInv
        <5> QED
          BY <1>1, <2>2, <4>1, <4>2, <4>4, <5>1 DEF MixedInv, Whole, Before, Near
      <4> QED
        BY <4>2, <4>3, <4>4
    <3> QED
      BY <1>1, <3>1, <3>2, <3>3
  <2> QED
    BY <1>1, <1>2, <2>1, <2>2, <2>3 DEF Recovers, Throw, requests, complexVars, history
<1>3. ASSUME NEW m, OnDemodulationMessage(m) \/ SetMid(m) \/ RangeSet PROVE Recovers'
  <2>1. frame' = frame /\ pc' = pc /\ bad' = bad /\ calm' = frame + 1
    BY <1>3 DEF OnDemodulationMessage, SetMid, RangeSet
  <2> QED
    BY <1>1, <2>1 DEF Recovers, PastInv
<1>4. CASE UNCHANGED vars
  BY <1>4 DEF Recovers, vars, requests, complexVars, history
<1>5. CASE \/ \E finite \in BOOLEAN : Begin(finite)
           \/ Index \/ Sideband \/ NegateReal \/ Baseband \/ KeepCarrier \/ Carrier
           \/ NegateCarrier \/ Am \/ Fm \/ Catch \/ Send \/ Drop
  <2>1. pc' # "throw"
    BY <1>5 DEF Begin, Index, Sideband, NegateReal, Baseband, KeepCarrier, Carrier, NegateCarrier, Am,
                Fm, Catch, Send, Drop, Goto
  <2> QED
    BY <2>1 DEF Recovers
<1> QED
  BY <1>2, <1>3, <1>4, <1>5 DEF Next, SendAudio
-----------------------------------------------------------------------------
\* The invariant the two theorems rest on: what the buffers of a client are made
\* of, frame by frame, from its last change on.
THEOREM DemodInductive == Spec => []DemodInv
<1>1. Init => DemodInv
  BY InitDemod
<1>2. DemodInv /\ [Next]_vars => DemodInv'
  BY NextType, NextPast, NextSettled, NextKept, NextRecovers DEF DemodInv
<1> QED
  BY <1>1, <1>2, PTL DEF Spec

LEMMA JoinedIs ==
    ASSUME frame \in Nat \ {0}, centre \in Int, centre = audio_mid,
           NEW S, S = {Made(frame, 1), Made(frame - 1, 2)}
    PROVE  Joined(S)
<1>1. \A f, h : <<Made(f, h).frame, Made(f, h).half>> = <<f, h>>
  BY DEF Made, HalfOf
<1>2. {<<h.frame, h.half>> : h \in S} = {<<frame, 1>>, <<frame - 1, 2>>}
  BY <1>1
<1>3. SignsHold => Made(frame, 1) = Right(frame, 1) /\ Made(frame - 1, 2) = Right(frame - 1, 2)
  BY MadeIsRight
<1> QED
  BY <1>2, <1>3 DEF Joined

\* AudioClient::send_audio: the frame after next of a client that changes nothing
\* is made of the halves of two consecutive transforms, whatever its modulation and
\* centre were before; their signs are right if fft_size and the centre are such
\* that the parity the code looks at is the turn of the bin.
THEOREM SoundIsSeamless == Spec => []Seamless
<1>1. DemodInv => Seamless
  <2> SUFFICES ASSUME DemodInv, pc = "check", ~HasNan, calm < frame, done = frame - 1
               PROVE  /\ Joined(audio_real[1].sum)
                      /\ demodulation = "AM" /\ mixer # "none" => Joined(audio_real[1].carrier)
                      /\ demodulation = "FM" =>
                           \E h \in audio_real[1].prev :
                               /\ h.frame = frame - 1 /\ h.half = 1
                               /\ SignsHold => h = Right(frame - 1, 1)
    BY DEF Seamless, Undisturbed
  <2>1. /\ frame \in Nat \ {0} /\ calm \in Nat /\ demodulation \in Modes /\ calm <= frame
        /\ centre \in Int /\ centre = audio_mid
    BY DEF DemodInv, TypeOK, SettledInv
  <2>2. CASE demodulation \in Sidebands
    <3>1. /\ audio_real[1] = Sound({Made(frame, 1)} \cup audio_real_prev, {}, {})
          /\ audio_real_prev = {Made(frame - 1, 2)}
      BY <2>1, <2>2 DEF DemodInv, SettledInv, SidebandInv
    <3>2. audio_real[1].sum = {Made(frame, 1), Made(frame - 1, 2)}
      BY <3>1 DEF Sound
    <3> QED
      BY <2>1, <2>2, <3>2, JoinedIs DEF Sidebands
  <2>3. CASE demodulation = "AM"
    <3>1. CarrierInv
      BY <2>1, <2>3 DEF DemodInv, SettledInv
    <3>2. /\ audio_real[1].sum = {Made(frame, 1), Made(frame - 1, 2)}
          /\ carrier[1] = {Made(frame, 1), Made(frame - 1, 2)}
      BY <3>1 DEF CarrierInv, Whole
    <3>3. mixer # "none" => audio_real[1].carrier = carrier[1]
      <4>1. \A h \in phase : h \notin audio_real[1].carrier
        BY DEF DemodInv, PastInv, HasNan, Nan
      <4> QED
        BY <3>1, <4>1 DEF CarrierInv
    <3> QED
      BY <2>1, <2>3, <3>2, <3>3, JoinedIs
  <2>4. CASE demodulation = "FM"
    <3>1. MixedInv
      BY <2>1, <2>4 DEF DemodInv, SettledInv, Sidebands
    <3>2. /\ audio_real[1].sum = {Made(frame, 1), Made(frame - 1, 2)}
          /\ Made(frame - 1, 1) \in audio_real[1].prev
      BY <2>4, <3>1 DEF MixedInv, Whole, Before
    <3>3. Made(frame - 1, 1).frame = frame - 1 /\ Made(frame - 1, 1).half = 1
      BY DEF Made, HalfOf
    <3>4. SignsHold => Made(frame - 1, 1) = Right(frame - 1, 1)
      BY <2>1, MadeIsRight
    <3> QED
      BY <2>1, <2>4, <3>2, <3>3, <3>4, JoinedIs
  <2> QED
    BY <2>1, <2>2, <2>3, <2>4 DEF Modes, Sidebands
<1> QED
  BY <1>1, DemodInductive, PTL

\* signal_loop catches what send_audio throws: a frame that is not finite silences
\* at most two more, unless the client changes something meanwhile or AM is mixed
\* down with a phase that keeps a NaN.
THEOREM MutingEnds == Spec => []Recovers
<1>1. DemodInv => Recovers
  BY DEF DemodInv
<1> QED
  BY <1>1, DemodInductive, PTL
=============================================================================
