---------------------------- MODULE MCAudioDemod ----------------------------
(* Small instances of AudioDemod. *)
EXTENDS AudioDemod, TLC

MCMids == {2, -3}
MCOneMid == {2}
=============================================================================
