-------------------------- MODULE WaterfallWindow --------------------------
(***************************************************************************)
(* The levels of a spectrum of size bins, of which the last has min or     *)
(* more (fft_result_size and min_waterfall_fft), and which of them a       *)
(* waterfall window is served from.  The halved window of the code is a    *)
(* float; scaled by the largest power of two it is an integer here.        *)
(***************************************************************************)
EXTENDS Integers

HasLevels(size, min) == min \in Nat \ {0} /\ size \in Nat /\ size >= min

Pow2[i \in Nat] == IF i = 0 THEN 1 ELSE 2 * Pow2[i - 1]
LevelLength(size, i) == size \div Pow2[i]

\* The constructor counts the halvings that leave at least min_waterfall_fft bins.
LevelCount(size, min) == CHOOSE n \in 0..size :
    /\ LevelLength(size, n) < min
    /\ \A i \in 0..(n - 1) : LevelLength(size, i) >= min
Last(size, min) == LevelCount(size, min) - 1

\* How far a window, halved i times, is from min_waterfall_fft bins; all of it
\* times the last level's power of two.
Distance(size, min, width, i) ==
    LET scale == Pow2[Last(size, min)]
        d == width * (scale \div Pow2[i]) - min * scale
    IN  IF d < 0 THEN -d ELSE d

\* The ends of a window at level i, halves rounded away from zero.
Rounded(x, i) == (2 * x + Pow2[i]) \div Pow2[i + 1]

\* on_window_message keeps the first level at which the window is closest to
\* min_waterfall_fft bins, with the window it has there; a window that is twice
\* too wide or more at every level would keep its own ends.
Closest(size, min, width) ==
    LET levels == 0..Last(size, min)
        distance == [i \in levels |-> Distance(size, min, width, i)] IN
    {i \in levels : /\ distance[i] < 2 * min * Pow2[Last(size, min)]
                    /\ \A j \in levels : distance[i] <= distance[j]}
First(levels) == CHOOSE i \in levels : \A j \in levels : i <= j

Window(size, min, l, r) ==
    LET near == Closest(size, min, r - l) IN
    IF near = {} THEN [level |-> Last(size, min), l |-> l, r |-> r]
    ELSE LET i == First(near) IN
         [level |-> i, l |-> Rounded(l, i), r |-> Rounded(r, i)]
=============================================================================
