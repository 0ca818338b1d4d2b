--------------------------- MODULE MCAudioSlices ---------------------------
(* Small instances of AudioSlices: a spectrum of four bins, IFFTs of two. *)
EXTENDS AudioSlices, TLC

CONSTANTS a1, a2, t1, t2

W(lo, mid, hi) == [l |-> lo, m |-> mid, r |-> hi]
MCDefault == W(1, 1, 4)                      \* wider than an IFFT
MCGarbage == {W(-2, 9, 9), W(9, -2, -2)}
\* One good window; one too wide, one past the end, one without m.
MCMessages == {W(2, 3, 3), W(0, 1, 3), W(3, 3, 4), W(1, NoMid, 2)}
=============================================================================
