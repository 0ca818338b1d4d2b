----------------------------- MODULE LookAhead -----------------------------
(***************************************************************************)
(* AGC: the sound is delayed so that the gain can follow the peak of the   *)
(* samples ahead.  lookahead_max is the usual queue of candidates for the  *)
(* peak: a sample leaves it when a louder one follows, or when it leaves   *)
(* the window, which pop() finds out by comparing values.                  *)
(*                                                                         *)
(* process() runs on an I/O thread, on one block of sound per frame;       *)
(* reset() runs on the thread of a demodulation message, without a lock.   *)
(* When the two overlap the queues are "torn": their operations are        *)
(* interleaved here one by one, and nothing is claimed of them until the   *)
(* next reset that finds process() idle.                                   *)
(*                                                                         *)
(* The gain follows the peak by a float recursion that is left out.        *)
(***************************************************************************)
EXTENDS Integers, Sequences

CONSTANTS
    LookAheadSamples,  \* look_ahead_samples
    Values,            \* the values of samples
    BlockSize,         \* samples of sound per frame
    MaxSamples         \* bound: samples of a run

ASSUME LookAheadAssumption == LookAheadSamples \in Nat \ {0}
ASSUME ValuesAssumption == Values \subseteq Int
ASSUME BlockAssumption == BlockSize \in Nat \ {0} /\ MaxSamples \in Nat

VARIABLES
    lookahead_buffer, lookahead_max,
    left,              \* samples process() has yet to push in this call
    resetting,         \* "no", or reset() is half done: "alone" or "overlapped"
    out,               \* the last sample of sound produced
    torn,              \* history: a reset overlapped process() since the last
                       \* that did not
    arrived, since     \* history: samples pushed, by now and by the last reset

agcVars == <<lookahead_buffer, lookahead_max, left, resetting, out, torn, arrived, since>>

Sample == [at : Nat, value : Values]
Silence == [at |-> 0, peak |-> 0]
Abs(x) == IF x < 0 THEN -x ELSE x
Loud(s) == Abs(s.value)

AgcInit ==
    /\ lookahead_buffer = <<>> /\ lookahead_max = <<>>
    /\ left = 0 /\ resetting = "no"
    /\ out = Silence
    /\ torn = FALSE /\ arrived = 0 /\ since = 0

\* push() drops the candidates that are quieter than the sample from the back ...
MutKept(queue, s) ==                         \* mutant: equally loud ones too
    CHOOSE k \in 0..Len(queue) :
        /\ k = 0 \/ Loud(queue[k]) > Loud(s)
        /\ \A j \in (k + 1)..Len(queue) : Loud(queue[j]) <= Loud(s)
Kept(queue, s) ==
    CHOOSE k \in 0..Len(queue) :
        /\ k = 0 \/ Loud(queue[k]) >= Loud(s)
        /\ \A j \in (k + 1)..Len(queue) : Loud(queue[j]) < Loud(s)

PushMax(queue, s) == Append(SubSeq(queue, 1, Kept(queue, s)), s)

\* ... and pop() takes the oldest sample out of both queues.
PopMax(queue, s) == IF queue[1].value = s.value THEN Tail(queue) ELSE queue

\* max(), of a queue that is empty only if it is torn.
Peak(queue) == IF queue = <<>> THEN -1 ELSE Loud(queue[1])

ProcessBegin ==
    /\ left = 0
    /\ arrived + BlockSize <= MaxSamples
    /\ left' = BlockSize
    /\ resetting' = IF resetting = "alone" THEN "overlapped" ELSE resetting
    /\ torn' = (torn \/ resetting # "no")
    /\ UNCHANGED <<lookahead_buffer, lookahead_max, out, arrived, since>>

\* One sample: until the look-ahead is filled, silence.
Push(v) ==
    LET s == [at |-> arrived + 1, value |-> v]
        pushed == Append(lookahead_buffer, s)
        candidates == PushMax(lookahead_max, s)
        full == Len(pushed) > LookAheadSamples IN
    /\ left > 0
    /\ left' = left - 1
    /\ arrived' = arrived + 1
    /\ lookahead_buffer' = IF full THEN Tail(pushed) ELSE pushed
    /\ lookahead_max' = IF full THEN PopMax(candidates, pushed[1]) ELSE candidates
    /\ out' = IF Len(lookahead_buffer') = LookAheadSamples
              THEN [at |-> lookahead_buffer'[1].at, peak |-> Peak(lookahead_max')]
              ELSE Silence
    /\ UNCHANGED <<resetting, torn, since>>

\* reset() clears one queue, then the other.
ResetBuffer ==
    /\ resetting = "no"
    /\ resetting' = IF left = 0 THEN "alone" ELSE "overlapped"
    /\ torn' = (torn \/ left > 0)
    /\ lookahead_buffer' = <<>>
    /\ UNCHANGED <<lookahead_max, left, out, arrived, since>>

ResetMax ==
    /\ resetting # "no"
    /\ resetting' = "no"
    /\ torn' = (resetting = "overlapped")
    /\ lookahead_max' = <<>>
    /\ since' = arrived
    /\ UNCHANGED <<lookahead_buffer, left, out, arrived>>

AgcNext ==
    \/ ProcessBegin
    \/ \E v \in Values : Push(v)
    \/ ResetBuffer \/ ResetMax

AgcSpec == AgcInit /\ [][AgcNext]_agcVars
-----------------------------------------------------------------------------
(***************************************************************************)
(* Properties.                                                             *)
(***************************************************************************)
Steady == ~torn /\ resetting = "no"

\* After a reset that process() did not overlap, each sample of sound is silence
\* until the look-ahead is filled, and then the sample pushed
\* LookAheadSamples - 1 before with the peak of it and all that follow it.
PeakIsExact ==
    Steady /\ arrived > since =>
        IF arrived - since < LookAheadSamples THEN out = Silence
        ELSE /\ out.at = arrived - LookAheadSamples + 1
             /\ Len(lookahead_buffer) = LookAheadSamples
             /\ \A i \in 1..LookAheadSamples :
                  /\ lookahead_buffer[i].at = out.at + i - 1
                  /\ Loud(lookahead_buffer[i]) <= out.peak
             /\ \E i \in 1..LookAheadSamples : Loud(lookahead_buffer[i]) = out.peak
=============================================================================
