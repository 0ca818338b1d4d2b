--------------------------- MODULE SharedSpectrum ---------------------------
(***************************************************************************)
(* What the FFT thread promises the clients about the one output buffer    *)
(* they all read: a task is lent the buffer only while it holds a complete *)
(* spectrum, the one the task was made for, and the buffer is not          *)
(* rewritten before every task has given it back.                          *)
(***************************************************************************)
CONSTANT Torn        \* the buffer while it is being rewritten

VARIABLES content,   \* the spectrum in the buffer, or Torn
          readers    \* the tasks that hold a pointer into it

Init == content = Torn /\ readers = {}

BeginUpdate ==
    /\ readers = {}
    /\ content' = Torn
    /\ UNCHANGED readers

EndUpdate ==
    /\ content = Torn
    /\ content' # Torn
    /\ UNCHANGED readers

Lend ==
    /\ content # Torn
    /\ readers \subseteq readers'
    /\ \A r \in readers' \ readers : r.src = content
    /\ UNCHANGED content

Return ==
    /\ readers' \subseteq readers
    /\ UNCHANGED content

Next == BeginUpdate \/ EndUpdate \/ Lend \/ Return

Spec == Init /\ [][Next]_<<content, readers>>
=============================================================================
