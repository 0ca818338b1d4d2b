---------------------------- MODULE MCFrameLoop ----------------------------
(* Small instances of FrameLoop. *)
EXTENDS FrameLoop, TLC

CONSTANTS a1, a2, w1, t1, t2

MCAudio == {a1, a2}
MCOneAudio == {a1}
MCWaterfall == {w1}
MCThreads == {t1, t2}
MCOneThread == {t1}
MCNobody == {}
=============================================================================
