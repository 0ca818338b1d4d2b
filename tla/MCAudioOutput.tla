--------------------------- MODULE MCAudioOutput ---------------------------
(* Look-ahead of three, blocks of three, frames of two; images of three rows. *)
EXTENDS AudioOutput

MCValues == {-2, -1, 0, 1, 2}
MCWidths == {1, 3, 4}
MCFrames == {1, 2, 4}
=============================================================================
