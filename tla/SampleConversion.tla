-------------------------- MODULE SampleConversion --------------------------
(***************************************************************************)
(* FileSampleReader and SampleConverter<T>::read: the samples of half a    *)
(* block are read into the end of the array of floats they are converted   *)
(* to, so the conversion overwrites its own input; samples wider than a    *)
(* float get a scratch array of their own, placed here after the floats.   *)
(* The compiler may convert several samples at once, loading them all      *)
(* before it stores any result; within such a chunk the flipped samples    *)
(* are stored before the results, in the order of the code.  A compiler    *)
(* that takes integers and floats never to overlap could do more; such     *)
(* builds are not covered.                                                 *)
(*                                                                         *)
(* A byte of memory is "old", "raw" once read from the input, "flipped"    *)
(* once its sign bit was flipped in place, "float" once it is a result.    *)
(***************************************************************************)
EXTENDS Integers

CONSTANTS
    ReadSizes,         \* num: the samples of half a block
    Widths,            \* sizeof(T) of the input formats
    Chunks,            \* how many samples may be converted at once
    Shortfalls         \* how many bytes fread may fail to deliver

ASSUME ReadSizesAssumption == ReadSizes \subseteq Nat \ {0}
ASSUME WidthsAssumption == Widths \subseteq {1, 2, 4, 8}
ASSUME ChunksAssumption == Chunks \subseteq Nat \ {0}
ASSUME ShortfallsAssumption == Shortfalls \subseteq Nat

VARIABLES
    num, width, unsigned,   \* the call's length and T
    got,                    \* bytes the last fread delivered
    done,                   \* samples converted; num: the call has returned
    mem,                    \* the array, and the scratch array if there is one
    value                   \* what each result was computed from

sampleVars == <<num, width, unsigned, got, done, mem, value>>

FloatBytes(n) == 4 * n
Size(n, w) == FloatBytes(n) + (IF w > 4 THEN w * n ELSE 0)

\* scratch: the last part of the array, or the array of its own.
MutScratch(n, w) == IF w > 4 THEN FloatBytes(n) ELSE 0
                                             \* mutant: the first part of it
Scratch(n, w) == IF w > 4 THEN FloatBytes(n) ELSE FloatBytes(n) - w * n
SampleBytes(i) == (Scratch(num, width) + width * i)..(Scratch(num, width) + width * i + width - 1)
ResultBytes(i) == (4 * i)..(4 * i + 3)

\* fread delivers what there is, all of it or less at the end of the input; the
\* number of bytes is ignored.
Deliveries == {bytes \in 0..(width * num) : width * num - bytes \in Shortfalls}
AfterRead(bytes) ==
    [b \in 0..(Size(num, width) - 1) |->
       IF b \in Scratch(num, width)..(Scratch(num, width) + bytes - 1) THEN "raw" ELSE "old"]

SampleInit ==
    /\ num \in ReadSizes /\ width \in Widths
    /\ unsigned \in BOOLEAN
    /\ got \in Deliveries
    /\ done = 0
    /\ mem = AfterRead(got)
    /\ value = [i \in 0..(num - 1) |-> "old"]

Read(bytes) ==
    /\ done = num
    /\ got' = bytes
    /\ done' = 0
    /\ mem' = AfterRead(bytes)
    /\ value' = [i \in 0..(num - 1) |-> "old"]
    /\ UNCHANGED <<num, width, unsigned>>

Loaded(i) ==
    LET seen == {mem[b] : b \in SampleBytes(i)} IN
    CASE seen = {"raw"} -> "own"
      [] seen # {"raw"} /\ seen \subseteq {"raw", "old"} -> "old"
      [] OTHER -> "wrong"

\* convert: the next samples are loaded, flipped in place if unsigned, and stored.
Chunk(n) == done..(done + n - 1)
Convert(n) ==
    /\ done + n <= num
    /\ done' = done + n
    /\ value' = [i \in 0..(num - 1) |-> IF i \in Chunk(n) THEN Loaded(i) ELSE value[i]]
    /\ mem' = [b \in 0..(Size(num, width) - 1) |->
                 CASE \E i \in Chunk(n) : b \in ResultBytes(i) -> "float"
                   [] /\ unsigned
                      /\ \E i \in Chunk(n) : b \in SampleBytes(i)
                      /\ ~\E i \in Chunk(n) : b \in ResultBytes(i) -> "flipped"
                   [] OTHER -> mem[b]]
    /\ UNCHANGED <<num, width, unsigned, got>>

SampleNext ==
    \/ \E bytes \in Deliveries : Read(bytes)
    \/ \E n \in Chunks : Convert(n)

SampleSpec == SampleInit /\ [][SampleNext]_sampleVars
-----------------------------------------------------------------------------
\* No sample is overwritten before it is converted: every result comes from its
\* own sample if that was read, from older bytes if the input ended before it,
\* never from another result or a sample flipped twice, and stays in place.
SamplesIntact ==
    \A i \in 0..(done - 1) :
        /\ \A b \in ResultBytes(i) : mem[b] = "float"
        /\ value[i] # "wrong"
        /\ width * (i + 1) <= got => value[i] = "own"
=============================================================================
