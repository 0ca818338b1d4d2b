------------------------- MODULE MCWaterfallSlices -------------------------
(* Small instances of WaterfallSlices: levels of 8, 4 and 2 bins. *)
EXTENDS WaterfallSlices, TLC

CONSTANTS w1, w2, t1, t2

\* A window that ends past the spectrum, for level 1 and with halves to round, one
\* wider than any level serves, and an empty one (the default is in level 2, and a new
\* client starts in level 0).
MCMessages == {<<5, 10>>, <<1, 25>>, <<3, 3>>}
=============================================================================
