---------------------------- MODULE MCEventsFeed ----------------------------
(* Small instances of EventsFeed. *)
EXTENDS EventsFeed, TLC

CONSTANTS a1, a2, e1, e2

W(lo, mid, hi) == [l |-> lo, m |-> mid, r |-> hi]
MCDefault == W(0, 1, 1)
MCGarbage == {W(-2, -2, -2)}
MCMessages == {W(2, 2, 3)}
MCNobody == {}
=============================================================================
