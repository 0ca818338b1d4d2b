---------------------------- MODULE OutputProofs ----------------------------
(***************************************************************************)
(* Proofs about AudioOutput and its parts: the AGC's peak is the peak of   *)
(* its window, for any look-ahead, any samples and any resets; and what    *)
(* becomes of samples and lines in the packets, for any sizes of blocks,   *)
(* frames, images and slices, whatever is dropped, lost or fails.          *)
(***************************************************************************)
EXTENDS AudioOutput, SequenceTheorems, WellFoundedInduction, TLAPS

(***************************************************************************)
(* What the two queues have to do with each other: the buffer b holds the  *)
(* samples up to the last; the candidates q are samples of it, in order    *)
(* and ever quieter; and every sample of the buffer is a candidate, or     *)
(* quieter than the first candidate that is not older.                     *)
(***************************************************************************)
Numbered(b, last) == \A i \in 1..Len(b) : b[i].at = last - Len(b) + i
InOrder(q) ==
    \A j, k \in 1..Len(q) : j < k => q[j].at < q[k].at /\ Loud(q[j]) >= Loud(q[k])
Drawn(b, q) == \A k \in 1..Len(q) : \E i \in 1..Len(b) : q[k] = b[i]
Covers(s, q, k) ==
    /\ s.at <= q[k].at
    /\ \/ s = q[k]
       \/ Loud(s) < Loud(q[k]) /\ \A j \in 1..(k - 1) : q[j].at < s.at
Covered(b, q) == \A i \in 1..Len(b) : \E k \in 1..Len(q) : Covers(b[i], q, k)

Good(b, q, last) ==
    /\ b \in Seq(Sample) /\ q \in Seq(Sample)
    /\ Numbered(b, last) /\ InOrder(q) /\ Drawn(b, q) /\ Covered(b, q)
-----------------------------------------------------------------------------
LEMMA LoudType == \A s \in Sample : Loud(s) \in Nat
  <1>1. TAKE s \in Sample
  <1>2. s.value \in Int
    BY ValuesAssumption DEF Sample
  <1>3. Abs(s.value) \in Nat
    BY <1>2 DEF Abs
  <1> QED
    BY <1>3 DEF Loud

\* push() leaves off at the last candidate that is at least as loud.
LEMMA KeptIs ==
    ASSUME NEW q \in Seq(Sample), NEW s \in Sample
    PROVE  /\ Kept(q, s) \in 0..Len(q)
           /\ Kept(q, s) = 0 \/ Loud(q[Kept(q, s)]) >= Loud(s)
           /\ \A j \in (Kept(q, s) + 1)..Len(q) : Loud(q[j]) < Loud(s)
  <1> DEFINE quieter == {k \in 0..Len(q) : \A j \in (k + 1)..Len(q) : Loud(q[j]) < Loud(s)}
  <1>1. Len(q) \in Nat
    OBVIOUS
  <1>2. Len(q) \in quieter
    BY <1>1
  <1>3. PICK k \in quieter : \A j \in quieter : ~(<<j, k>> \in OpToRel(<, Nat))
    <2>1. quieter \subseteq Nat /\ quieter # {}
      BY <1>1, <1>2
    <2> HIDE DEF quieter
    <2> QED
      BY <2>1, NatLessThanWellFounded, WFMin, Zenon
  <1>4. \A j \in quieter : ~(j < k)
    <2>1. \A j \in Nat : j < k => <<j, k>> \in OpToRel(<, Nat)
      BY DEF OpToRel
    <2>2. TAKE j \in quieter
    <2>3. j \in Nat
      BY <1>1
    <2> HIDE DEF quieter
    <2> QED
      BY <1>3, <2>1, <2>3, Zenon
  <1>5. k = 0 \/ Loud(q[k]) >= Loud(s)
    <2>1. SUFFICES ASSUME k # 0, ~(Loud(q[k]) >= Loud(s)) PROVE FALSE
      OBVIOUS
    <2>2. k \in 1..Len(q) /\ q[k] \in Sample
      BY <1>1, <2>1
    <2>3. Loud(q[k]) < Loud(s)
      BY <2>1, <2>2, LoudType
    <2>4. k - 1 \in quieter
      BY <2>2, <2>3
    <2> QED
      BY <1>4, <2>2, <2>4
  <1>6. /\ k \in 0..Len(q)
        /\ k = 0 \/ Loud(q[k]) >= Loud(s)
        /\ \A j \in (k + 1)..Len(q) : Loud(q[j]) < Loud(s)
    BY <1>5
  <1> QED
    BY <1>6 DEF Kept

LEMMA PushMaxIs ==
    ASSUME NEW q \in Seq(Sample), NEW s \in Sample
    PROVE  /\ PushMax(q, s) \in Seq(Sample)
           /\ Len(PushMax(q, s)) = Kept(q, s) + 1
           /\ \A i \in 1..Kept(q, s) : PushMax(q, s)[i] = q[i]
           /\ PushMax(q, s)[Kept(q, s) + 1] = s
  <1> DEFINE k == Kept(q, s)
             front == SubSeq(q, 1, k)
  <1>1. k \in 0..Len(q) /\ Len(q) \in Nat
    BY KeptIs
  <1>2. front \in Seq(Sample) /\ Len(front) = k /\ \A i \in 1..k : front[i] = q[i]
    <2>1. \A i \in 1..k : q[i] \in Sample
      BY <1>1
    <2>2. 1 \in Int /\ k \in Int
      BY <1>1
    <2> HIDE DEF k
    <2> QED
      BY <1>1, <2>1, <2>2, SubSeqProperties
  <1> HIDE DEF k, front
  <1>3. PushMax(q, s) = Append(front, s)
    BY DEF PushMax, front, k
  <1>4. /\ Append(front, s) \in Seq(Sample) /\ Len(Append(front, s)) = k + 1
        /\ \A i \in 1..k : Append(front, s)[i] = front[i]
        /\ Append(front, s)[k + 1] = s
    BY <1>2, AppendProperties
  <1> QED
    BY <1>2, <1>3, <1>4 DEF k
-----------------------------------------------------------------------------
(***************************************************************************)
(* push() and pop() keep the queues good.                                  *)
(***************************************************************************)
LEMMA PushIsGood ==
    ASSUME NEW b, NEW q, NEW last \in Nat, NEW s \in Sample,
           Good(b, q, last), s.at = last + 1
    PROVE  Good(Append(b, s), PushMax(q, s), last + 1)
  <1> DEFINE p == Append(b, s)
             k == Kept(q, s)
             c == PushMax(q, s)
  <1>1. /\ b \in Seq(Sample) /\ q \in Seq(Sample) /\ Len(b) \in Nat /\ Len(q) \in Nat
        /\ Numbered(b, last) /\ InOrder(q) /\ Drawn(b, q) /\ Covered(b, q)
    BY DEF Good
  <1>2. /\ p \in Seq(Sample) /\ Len(p) = Len(b) + 1
        /\ \A i \in 1..Len(b) : p[i] = b[i]
        /\ p[Len(b) + 1] = s
    BY <1>1, AppendProperties
  <1>3. /\ k \in 0..Len(q)
        /\ k = 0 \/ Loud(q[k]) >= Loud(s)
        /\ \A j \in (k + 1)..Len(q) : Loud(q[j]) < Loud(s)
    BY <1>1, KeptIs
  <1>4. /\ c \in Seq(Sample) /\ Len(c) = k + 1
        /\ \A i \in 1..k : c[i] = q[i]
        /\ c[k + 1] = s
    BY <1>1, PushMaxIs
  <1> HIDE DEF p, k, c
  <1>5. \A i \in 1..Len(b) : b[i] \in Sample /\ b[i].at <= last /\ b[i].at \in Nat
    <2>1. TAKE i \in 1..Len(b)
    <2>2. b[i] \in Sample
      BY <1>1
    <2>3. b[i].at = last - Len(b) + i
      BY <1>1 DEF Numbered
    <2>4. b[i].at \in Nat
      BY <2>2 DEF Sample
    <2> QED
      BY <1>1, <2>2, <2>3, <2>4
  <1>6. \A i \in 1..Len(q) : q[i] \in Sample /\ q[i].at <= last /\ q[i].at \in Nat
    BY <1>1, <1>5 DEF Drawn
  <1>7. Numbered(p, last + 1)
    <2>1. SUFFICES ASSUME NEW i \in 1..Len(p) PROVE p[i].at = last + 1 - Len(p) + i
      BY DEF Numbered
    <2>2. CASE i \in 1..Len(b)
      <3>1. p[i].at = last - Len(b) + i
        BY <1>1, <1>2, <2>2 DEF Numbered
      <3> QED
        BY <1>1, <1>2, <3>1
    <2>3. CASE i = Len(b) + 1
      BY <1>1, <1>2, <2>3
    <2> QED
      BY <1>1, <1>2, <2>2, <2>3
  <1>8. InOrder(c)
    <2>1. SUFFICES ASSUME NEW i \in 1..Len(c), NEW j \in 1..Len(c), i < j
                   PROVE  c[i].at < c[j].at /\ Loud(c[i]) >= Loud(c[j])
      BY DEF InOrder
    <2>2. i \in 1..k /\ i \in 1..Len(q) /\ c[i] = q[i]
      <3>1. i \in 1..k
        BY <1>3, <1>4, <2>1
      <3> QED
        BY <1>1, <1>3, <1>4, <3>1
    <2>3. CASE j \in 1..k
      <3>1. j \in 1..Len(q) /\ c[j] = q[j]
        BY <1>1, <1>3, <1>4, <2>3
      <3> QED
        BY <1>1, <2>1, <2>2, <3>1 DEF InOrder
    <2>4. CASE j = k + 1
      <3>1. c[j] = s /\ c[i].at < s.at
        BY <1>4, <1>6, <2>2, <2>4
      <3>2. k \in 1..Len(q) /\ Loud(q[k]) >= Loud(s)
        BY <1>1, <1>3, <2>2
      <3>3. Loud(q[i]) >= Loud(q[k])
        <4>1. CASE i = k
          BY <1>6, <2>2, <4>1, LoudType
        <4>2. CASE i < k
          BY <1>1, <2>2, <3>2, <4>2 DEF InOrder
        <4> QED
          BY <1>3, <2>2, <4>1, <4>2
      <3>4. Loud(q[i]) \in Nat /\ Loud(q[k]) \in Nat /\ Loud(s) \in Nat
        BY <1>6, <2>2, <3>2, LoudType
      <3> QED
        BY <2>2, <3>1, <3>2, <3>3, <3>4
    <2> QED
      BY <1>3, <1>4, <2>3, <2>4
  <1>9. Drawn(p, c)
    <2>1. SUFFICES ASSUME NEW j \in 1..Len(c) PROVE \E i \in 1..Len(p) : c[j] = p[i]
      BY DEF Drawn
    <2>2. CASE j \in 1..k
      <3>1. j \in 1..Len(q) /\ c[j] = q[j]
        BY <1>1, <1>3, <1>4, <2>2
      <3>2. PICK i \in 1..Len(b) : q[j] = b[i]
        BY <1>1, <3>1 DEF Drawn
      <3> QED
        BY <1>1, <1>2, <3>1, <3>2
    <2>3. CASE j = k + 1
      BY <1>1, <1>2, <1>4, <2>3
    <2> QED
      BY <1>3, <1>4, <2>2, <2>3
  <1>10. Covered(p, c)
    <2>1. SUFFICES ASSUME NEW i \in 1..Len(p)
                   PROVE  \E n \in 1..Len(c) : Covers(p[i], c, n)
      BY DEF Covered
    <2>2. CASE i = Len(b) + 1
      <3>1. k + 1 \in 1..Len(c) /\ c[k + 1] = p[i] /\ p[i] = s
        BY <1>2, <1>3, <1>4, <2>2
      <3>2. Covers(p[i], c, k + 1)
        BY <3>1 DEF Covers, Sample
      <3> QED
        BY <3>1, <3>2
    <2>3. CASE i \in 1..Len(b)
      <3>1. p[i] = b[i]
        BY <1>2, <2>3
      <3>2. PICK n \in 1..Len(q) : Covers(b[i], q, n)
        BY <1>1, <2>3 DEF Covered
      <3>3. CASE n <= k
        <4>1. n \in 1..Len(c) /\ c[n] = q[n] /\ \A j \in 1..(n - 1) : c[j] = q[j]
          BY <1>1, <1>3, <1>4, <3>2, <3>3
        <4>2. Covers(p[i], c, n)
          BY <3>1, <3>2, <4>1 DEF Covers
        <4> QED
          BY <4>1, <4>2
      <3>4. CASE n > k
        <4>1. Loud(q[n]) < Loud(s) /\ Loud(q[n]) \in Nat /\ Loud(s) \in Nat
          BY <1>1, <1>3, <1>6, <3>2, <3>4, LoudType
        <4>2. Loud(b[i]) < Loud(s)
          <5>1. Loud(b[i]) \in Nat
            BY <1>5, <2>3, LoudType
          <5> QED
            BY <3>2, <4>1, <5>1 DEF Covers
        <4>3. \A j \in 1..k : c[j].at < b[i].at
          <5>1. TAKE j \in 1..k
          <5>2. j \in 1..Len(q) /\ j < n /\ j \in 1..(n - 1) /\ c[j] = q[j]
            BY <1>1, <1>3, <1>4, <3>2, <3>4
          <5>3. q[j].at < b[i].at
            <6>1. CASE b[i] = q[n]
              BY <1>1, <3>2, <5>2, <6>1 DEF InOrder
            <6>2. CASE b[i] # q[n]
              BY <3>2, <5>2, <6>2 DEF Covers
            <6> QED
              BY <6>1, <6>2
          <5> QED
            BY <5>2, <5>3
        <4>4. b[i].at <= s.at
          BY <1>5, <2>3
        <4>5. k + 1 \in 1..Len(c) /\ (k + 1) - 1 = k /\ c[k + 1] = s
          BY <1>3, <1>4
        <4>6. Covers(p[i], c, k + 1)
          BY <3>1, <4>2, <4>3, <4>4, <4>5 DEF Covers
        <4> QED
          BY <4>5, <4>6
      <3> QED
        BY <1>3, <3>2, <3>3, <3>4
    <2> QED
      BY <1>1, <1>2, <2>2, <2>3
  <1> QED
    BY <1>2, <1>4, <1>7, <1>8, <1>9, <1>10 DEF Good, p, c

\* pop() finds the sample that leaves among the candidates by its value: if the
\* first candidate has that value it is that sample.
LEMMA PopIsGood ==
    ASSUME NEW b, NEW q, NEW last \in Nat, Good(b, q, last), b # <<>>
    PROVE  Good(Tail(b), PopMax(q, b[1]), last)
  <1> DEFINE t == Tail(b)
             r == PopMax(q, b[1])
  <1>1. /\ b \in Seq(Sample) /\ q \in Seq(Sample) /\ Len(b) \in Nat /\ Len(q) \in Nat
        /\ Numbered(b, last) /\ InOrder(q) /\ Drawn(b, q) /\ Covered(b, q)
    BY DEF Good
  <1>2. /\ Len(b) >= 1 /\ 1 \in 1..Len(b)
        /\ t \in Seq(Sample) /\ Len(t) = Len(b) - 1
        /\ \A i \in 1..Len(t) : t[i] = b[i + 1]
    BY <1>1, HeadTailProperties
  <1>3. \A i \in 1..Len(b) : b[i] \in Sample /\ b[i].at \in Nat
    <2>1. TAKE i \in 1..Len(b)
    <2>2. b[i] \in Sample
      BY <1>1
    <2> QED
      BY <2>2 DEF Sample
  <1>4. \A i \in 1..Len(b) : i > 1 => b[1].at < b[i].at
    <2>1. TAKE i \in 1..Len(b)
    <2>2. b[1].at = last - Len(b) + 1 /\ b[i].at = last - Len(b) + i
      BY <1>2 DEF Good, Numbered
    <2> QED
      BY <1>1, <2>2
  <1>5. \A k \in 1..Len(q) : q[k] \in Sample /\ q[k].at \in Nat
    <2>1. TAKE k \in 1..Len(q)
    <2>2. q[k] \in Sample
      BY <1>1
    <2> QED
      BY <2>2 DEF Sample
  <1>6. \A k \in 1..Len(q) : b[1].at <= q[k].at
    <2>1. TAKE k \in 1..Len(q)
    <2>2. PICK i \in 1..Len(b) : q[k] = b[i]
      BY <1>1 DEF Drawn
    <2> QED
      BY <1>1, <1>2, <1>3, <1>4, <2>2
  <1>7. /\ 1 \in 1..Len(q)
        /\ b[1] = q[1] \/ Loud(b[1]) < Loud(q[1])
    <2>1. PICK k \in 1..Len(q) : Covers(b[1], q, k)
      BY <1>1, <1>2 DEF Covered
    <2>2. 1 \in 1..Len(q)
      BY <1>1, <2>1
    <2>3. CASE k = 1
      BY <2>1, <2>2, <2>3 DEF Covers
    <2>4. CASE k # 1
      <3>1. 1 \in 1..(k - 1) /\ 1 < k
        BY <1>1, <2>1, <2>4
      <3>2. b[1] # q[k]
        BY <1>1, <1>2, <1>3, <1>5, <1>6, <2>1, <2>2, <3>1 DEF InOrder
      <3>3. q[1].at < b[1].at
        BY <2>1, <3>1, <3>2 DEF Covers
      <3> QED
        BY <1>2, <1>3, <1>5, <1>6, <2>2, <3>3
    <2> QED
      BY <2>2, <2>3, <2>4
  <1>8. \A k \in 1..Len(q) : q[k] # b[1] => \E i \in 1..Len(t) : q[k] = t[i]
    <2>1. SUFFICES ASSUME NEW k \in 1..Len(q), q[k] # b[1]
                   PROVE  \E i \in 1..Len(t) : q[k] = t[i]
      OBVIOUS
    <2>2. PICK i \in 1..Len(b) : q[k] = b[i]
      BY <1>1 DEF Drawn
    <2>3. i # 1
      BY <2>1, <2>2
    <2>4. i - 1 \in 1..Len(t) /\ t[i - 1] = b[i]
      BY <1>1, <1>2, <2>2, <2>3
    <2> QED
      BY <2>2, <2>4
  <1>9. Numbered(t, last)
    <2>1. SUFFICES ASSUME NEW i \in 1..Len(t) PROVE t[i].at = last - Len(t) + i
      BY DEF Numbered
    <2>2. i + 1 \in 1..Len(b)
      BY <1>1, <1>2
    <2>3. b[i + 1].at = last - Len(b) + (i + 1)
      BY <1>1, <2>2 DEF Numbered
    <2> QED
      BY <1>1, <1>2, <2>3
  <1>10. CASE q[1] = b[1]
    <2> DEFINE u == Tail(q)
    <2>1. r = u
      BY <1>10 DEF PopMax
    <2>2. u \in Seq(Sample) /\ Len(u) = Len(q) - 1 /\ \A k \in 1..Len(u) : u[k] = q[k + 1]
      BY <1>1, <1>7, HeadTailProperties
    <2> HIDE DEF t, u
    <2>3. \A k \in 1..Len(u) : k + 1 \in 1..Len(q) /\ u[k] = q[k + 1]
      BY <1>1, <2>2
    <2>4. InOrder(u)
      <3>1. SUFFICES ASSUME NEW j \in 1..Len(u), NEW k \in 1..Len(u), j < k
                     PROVE  u[j].at < u[k].at /\ Loud(u[j]) >= Loud(u[k])
        BY DEF InOrder
      <3>2. /\ j + 1 \in 1..Len(q) /\ u[j] = q[j + 1]
            /\ k + 1 \in 1..Len(q) /\ u[k] = q[k + 1] /\ j + 1 < k + 1
        BY <2>3, <3>1
      <3> QED
        BY <1>1, <3>2 DEF InOrder
    <2>5. Drawn(t, u)
      <3>1. SUFFICES ASSUME NEW k \in 1..Len(u) PROVE \E i \in 1..Len(t) : u[k] = t[i]
        BY DEF Drawn
      <3>2. k + 1 \in 1..Len(q) /\ u[k] = q[k + 1] /\ 1 < k + 1
        BY <2>2, <2>3
      <3>3. q[1].at < q[k + 1].at
        BY <1>1, <1>7, <3>2 DEF InOrder
      <3>4. q[k + 1] # b[1]
        BY <1>5, <1>7, <1>10, <3>2, <3>3
      <3> QED
        BY <1>8, <3>2, <3>4
    <2>6. Covered(t, u)
      <3>1. SUFFICES ASSUME NEW i \in 1..Len(t) PROVE \E n \in 1..Len(u) : Covers(t[i], u, n)
        BY DEF Covered
      <3>2. i + 1 \in 1..Len(b) /\ t[i] = b[i + 1] /\ i + 1 > 1
        BY <1>1, <1>2
      <3>3. PICK n \in 1..Len(q) : Covers(b[i + 1], q, n)
        BY <1>1, <3>2 DEF Covered
      <3>4. b[1].at < b[i + 1].at /\ b[i + 1].at <= q[n].at
        BY <1>4, <3>2, <3>3 DEF Covers
      <3>5. n # 1
        BY <1>2, <1>3, <1>10, <3>2, <3>4
      <3>6. n - 1 \in 1..Len(u) /\ u[n - 1] = q[n]
        BY <1>1, <2>2, <3>3, <3>5
      <3>7. \A j \in 1..(n - 2) : j + 1 \in 1..(n - 1) /\ u[j] = q[j + 1]
        <4>1. TAKE j \in 1..(n - 2)
        <4>2. j \in 1..Len(u) /\ j + 1 \in 1..(n - 1)
          BY <1>1, <2>2, <3>3
        <4> QED
          BY <2>2, <4>2
      <3>8. (n - 1) - 1 = n - 2
        BY <3>3
      <3>9. Covers(t[i], u, n - 1)
        BY <3>2, <3>3, <3>6, <3>7, <3>8 DEF Covers
      <3> QED
        BY <3>6, <3>9
    <2> QED
      BY <1>2, <1>9, <2>1, <2>2, <2>4, <2>5, <2>6 DEF Good, t
  <1>11. CASE q[1] # b[1]
    <2>1. Loud(b[1]) < Loud(q[1]) /\ Loud(b[1]) \in Nat /\ Loud(q[1]) \in Nat
      BY <1>2, <1>3, <1>5, <1>7, <1>11, LoudType
    <2>2. q[1].value # b[1].value
      BY <2>1 DEF Loud
    <2>3. r = q
      BY <2>2 DEF PopMax
    <2> HIDE DEF t
    <2>4. Drawn(t, q)
      <3>1. SUFFICES ASSUME NEW k \in 1..Len(q) PROVE \E i \in 1..Len(t) : q[k] = t[i]
        BY DEF Drawn
      <3>2. q[k] # b[1]
        <4>1. CASE k = 1
          BY <1>11, <4>1
        <4>2. CASE k # 1
          <5>1. q[1].at < q[k].at
            BY <1>1, <1>7, <4>2 DEF InOrder
          <5> QED
            BY <1>2, <1>3, <1>5, <1>6, <1>7, <5>1
        <4> QED
          BY <4>1, <4>2
      <3> QED
        BY <1>8, <3>2
    <2>5. Covered(t, q)
      <3>1. SUFFICES ASSUME NEW i \in 1..Len(t) PROVE \E n \in 1..Len(q) : Covers(t[i], q, n)
        BY DEF Covered
      <3>2. i + 1 \in 1..Len(b) /\ t[i] = b[i + 1]
        BY <1>1, <1>2
      <3> QED
        BY <1>1, <3>2 DEF Covered
    <2> QED
      BY <1>1, <1>2, <1>9, <2>3, <2>4, <2>5 DEF Good, t
  <1> QED
    BY <1>10, <1>11

\* The first candidate is the peak of the buffer.
LEMMA FirstIsPeak ==
    ASSUME NEW b, NEW q, NEW last \in Nat, Good(b, q, last), b # <<>>
    PROVE  /\ \A i \in 1..Len(b) : Loud(b[i]) <= Peak(q)
           /\ \E i \in 1..Len(b) : Loud(b[i]) = Peak(q)
  <1>1. /\ b \in Seq(Sample) /\ q \in Seq(Sample) /\ Len(b) \in Nat /\ Len(q) \in Nat
        /\ InOrder(q) /\ Drawn(b, q) /\ Covered(b, q) /\ 1 \in 1..Len(b)
    BY DEF Good
  <1>2. 1 \in 1..Len(q) /\ q # <<>>
    <2>1. PICK k \in 1..Len(q) : Covers(b[1], q, k)
      BY <1>1 DEF Covered
    <2> QED
      BY <1>1, <2>1
  <1>3. Peak(q) = Loud(q[1])
    BY <1>2 DEF Peak
  <1>4. ASSUME NEW i \in 1..Len(b) PROVE Loud(b[i]) <= Loud(q[1])
    <2>1. PICK k \in 1..Len(q) : Covers(b[i], q, k)
      BY <1>1 DEF Covered
    <2>2. b[i] \in Sample /\ q[k] \in Sample /\ q[1] \in Sample
      BY <1>1, <1>2
    <2>3. Loud(b[i]) \in Nat /\ Loud(q[k]) \in Nat /\ Loud(q[1]) \in Nat
      BY <2>2, LoudType
    <2>4. Loud(b[i]) <= Loud(q[k])
      BY <2>1, <2>3 DEF Covers
    <2>5. Loud(q[k]) <= Loud(q[1])
      <3>1. CASE k = 1
        BY <2>3, <3>1
      <3>2. CASE k # 1
        BY <1>1, <1>2, <2>3, <3>2 DEF InOrder
      <3> QED
        BY <3>1, <3>2
    <2> QED
      BY <2>3, <2>4, <2>5
  <1>5. \E i \in 1..Len(b) : Loud(b[i]) = Loud(q[1])
    BY <1>1, <1>2 DEF Drawn
  <1> QED
    BY <1>3, <1>4, <1>5
-----------------------------------------------------------------------------
(***************************************************************************)
(* The invariant of the specification.                                     *)
(***************************************************************************)
Filled == IF arrived - since < LookAheadSamples THEN arrived - since ELSE LookAheadSamples

AgcInv ==
    /\ arrived \in Nat /\ since \in 0..arrived /\ left \in Nat
    /\ resetting \in {"no", "alone", "overlapped"}
    /\ resetting = "alone" => left = 0 /\ lookahead_buffer = <<>>
    /\ Steady => /\ Good(lookahead_buffer, lookahead_max, arrived)
                 /\ Len(lookahead_buffer) = Filled
                 /\ PeakIsExact

LEMMA EmptyIsGood == \A last \in Nat : Good(<<>>, <<>>, last)
  BY DEF Good, Numbered, InOrder, Drawn, Covered

\* One sample, pushed and, if the window is full, popped.
LEMMA PushKeeps ==
    ASSUME AgcInv, NEW v \in Values, Push(v)
    PROVE  AgcInv'
  <1> DEFINE s == [at |-> arrived + 1, value |-> v]
             pushed == Append(lookahead_buffer, s)
             candidates == PushMax(lookahead_max, s)
  <1>1. /\ arrived' = arrived + 1 /\ left' = left - 1 /\ left > 0
        /\ resetting' = resetting /\ torn' = torn /\ since' = since
    BY DEF Push
  <1>2. /\ arrived' \in Nat /\ since' \in 0..arrived' /\ left' \in Nat
        /\ resetting # "alone" /\ (Steady' => Steady)
    BY <1>1 DEF AgcInv, Steady
  <1>3. SUFFICES ASSUME Steady
                 PROVE  /\ Good(lookahead_buffer', lookahead_max', arrived')
                        /\ Len(lookahead_buffer') = Filled'
                        /\ PeakIsExact'
    BY <1>1, <1>2 DEF AgcInv
  <1>4. /\ arrived \in Nat /\ since \in 0..arrived /\ LookAheadSamples \in Nat \ {0}
        /\ Good(lookahead_buffer, lookahead_max, arrived)
        /\ Len(lookahead_buffer) = Filled
    BY <1>3, LookAheadAssumption DEF AgcInv
  <1>5. s \in Sample /\ s.at = arrived + 1
    BY <1>4 DEF Sample
  <1> HIDE DEF s
  <1>6. Good(pushed, candidates, arrived')
    BY <1>1, <1>4, <1>5, PushIsGood
  <1>7. /\ pushed \in Seq(Sample) /\ Len(pushed) = Len(lookahead_buffer) + 1
        /\ pushed # <<>> /\ Len(lookahead_buffer) \in Nat
    BY <1>4, <1>5, AppendProperties DEF Good
  <1>8. /\ lookahead_buffer' = IF Len(pushed) > LookAheadSamples THEN Tail(pushed) ELSE pushed
        /\ lookahead_max' = IF Len(pushed) > LookAheadSamples
                            THEN PopMax(candidates, pushed[1]) ELSE candidates
        /\ out' = IF Len(lookahead_buffer') = LookAheadSamples
                  THEN [at |-> lookahead_buffer'[1].at, peak |-> Peak(lookahead_max')]
                  ELSE Silence
    BY DEF Push, s
  <1> HIDE DEF pushed, candidates
  <1>9. /\ Good(lookahead_buffer', lookahead_max', arrived')
        /\ Len(lookahead_buffer') = Filled'
    <2>1. CASE Len(pushed) > LookAheadSamples
      <3>1. Good(lookahead_buffer', lookahead_max', arrived')
        BY <1>2, <1>6, <1>7, <1>8, <2>1, PopIsGood
      <3>2. Len(lookahead_buffer') = Len(pushed) - 1
        BY <1>7, <1>8, <2>1, HeadTailProperties
      <3> QED
        BY <1>1, <1>4, <1>7, <2>1, <3>1, <3>2 DEF Filled
    <2>2. CASE ~(Len(pushed) > LookAheadSamples)
      BY <1>1, <1>4, <1>6, <1>7, <1>8, <2>2 DEF Filled
    <2> QED
      BY <2>1, <2>2
  <1>10. PeakIsExact'
    <2>1. arrived' - since' >= 1
      BY <1>1, <1>4
    <2>2. CASE arrived' - since' < LookAheadSamples
      <3>1. out' = Silence
        BY <1>1, <1>4, <1>8, <1>9, <2>2 DEF Filled
      <3> QED
        BY <2>2, <3>1 DEF PeakIsExact
    <2>3. CASE ~(arrived' - since' < LookAheadSamples)
      <3>1. Len(lookahead_buffer') = LookAheadSamples /\ 1 \in 1..LookAheadSamples
        BY <1>4, <1>9, <2>3 DEF Filled
      <3>2. out' = [at |-> lookahead_buffer'[1].at, peak |-> Peak(lookahead_max')]
        BY <1>8, <3>1
      <3>3. \A i \in 1..LookAheadSamples :
               lookahead_buffer'[i].at = arrived' - LookAheadSamples + i
        BY <1>9, <3>1 DEF Good, Numbered
      <3>4. lookahead_buffer' # <<>>
        BY <1>4, <3>1
      <3>5. /\ \A i \in 1..LookAheadSamples : Loud(lookahead_buffer'[i]) <= Peak(lookahead_max')
            /\ \E i \in 1..LookAheadSamples : Loud(lookahead_buffer'[i]) = Peak(lookahead_max')
        BY <1>2, <1>9, <3>1, <3>4, FirstIsPeak
      <3>6. out'.at = arrived' - LookAheadSamples + 1 /\ out'.peak = Peak(lookahead_max')
        BY <3>1, <3>2, <3>3
      <3>7. \A i \in 1..LookAheadSamples : lookahead_buffer'[i].at = out'.at + i - 1
        BY <1>2, <1>4, <3>3, <3>6
      <3> QED
        BY <2>3, <3>1, <3>5, <3>6, <3>7 DEF PeakIsExact
    <2> QED
      BY <2>2, <2>3
  <1> QED
    BY <1>9, <1>10

\* The queues hold what they should whenever no reset overlaps process().
THEOREM AgcInductive == AgcSpec => []AgcInv
  <1>1. AgcInit => AgcInv
    BY EmptyIsGood, LookAheadAssumption DEF AgcInit, AgcInv, Filled, PeakIsExact
  <1>2. AgcInv /\ [AgcNext]_agcVars => AgcInv'
    <2>1. SUFFICES ASSUME AgcInv, [AgcNext]_agcVars PROVE AgcInv'
      OBVIOUS
    <2>2. CASE ProcessBegin
      BY <2>1, <2>2, BlockAssumption DEF ProcessBegin, AgcInv, Steady, Filled, PeakIsExact
    <2>3. CASE ResetBuffer
      BY <2>1, <2>3 DEF ResetBuffer, AgcInv, Steady
    <2>4. CASE ResetMax
      <3>1. /\ arrived' = arrived /\ since' = arrived /\ left' = left /\ resetting' = "no"
            /\ lookahead_max' = <<>> /\ lookahead_buffer' = lookahead_buffer
            /\ arrived \in Nat /\ left \in Nat
        BY <2>1, <2>4 DEF ResetMax, AgcInv
      <3>2. ASSUME Steady' PROVE lookahead_buffer' = <<>>
        <4>1. torn' = FALSE
          BY <3>2 DEF Steady
        <4>2. resetting = "alone"
          BY <2>1, <2>4, <4>1 DEF ResetMax, AgcInv
        <4>3. lookahead_buffer = <<>>
          BY <2>1, <4>2 DEF AgcInv
        <4> QED
          BY <3>1, <4>3
      <3>3. ASSUME lookahead_buffer' = <<>>
            PROVE  /\ Good(lookahead_buffer', lookahead_max', arrived')
                   /\ Len(lookahead_buffer') = Filled' /\ PeakIsExact'
        BY <3>1, <3>3, EmptyIsGood, LookAheadAssumption DEF Filled, PeakIsExact
      <3> QED
        BY <3>1, <3>2, <3>3 DEF AgcInv
    <2>5. CASE UNCHANGED agcVars
      BY <2>1, <2>5 DEF agcVars, AgcInv, Steady, Filled, PeakIsExact
    <2> QED
      BY <2>1, <2>2, <2>3, <2>4, <2>5, PushKeeps DEF AgcNext
  <1> QED
    BY <1>1, <1>2, PTL DEF AgcSpec

\* Each sample of sound comes with the peak of exactly its window, whatever the
\* samples, the length of the look-ahead and the moments of the resets.
THEOREM PeakIsAlwaysExact == AgcSpec => []PeakIsExact
  <1>1. AgcInv => PeakIsExact
    BY DEF AgcInv, PeakIsExact
  <1> QED
    BY <1>1, AgcInductive, PTL

\* The encoder and the waterfall leave the AGC alone: the same holds of an audio
\* client's whole connection.
THEOREM PeakIsExactOnline == Spec => []PeakIsExact
  <1>1. Init => AgcInit
    BY DEF Init
  <1>2. [Next]_vars => [AgcNext]_agcVars
    BY DEF Next, vars, Agc, Encoder, Reset, AgcNext
  <1>3. Spec => AgcSpec
    BY <1>1, <1>2, PTL DEF Spec, AgcSpec
  <1> QED
    BY <1>3, PeakIsAlwaysExact, PTL
-----------------------------------------------------------------------------
(***************************************************************************)
(* The packets.  What an audio client was sent are the first samples       *)
(* taken, and until a send fails what waits are the others, in order.      *)
(***************************************************************************)
SoundInv ==
    /\ arrived \in Nat /\ taken \in Nat /\ heard \in 0..taken /\ label \in Nat
    /\ dead \in BOOLEAN /\ frames \in Seq(Nat)
    /\ waiting \in Seq(Nat) /\ (~dead => Len(waiting) = taken - heard)
    /\ sent # NoPacket => heard >= FrameSize
    /\ SoundContinues

\* The rows before the next line hold the pixels their headers describe, in the
\* order of frames, and so do those of the last image sent.
Fits(headers, pixels, row) ==
    \A col \in 0..(Width - 1) :
        col < headers[row].bytes => pixels[row * Stride + col] = headers[row].frame
Ordered(headers, row) == \A before \in 0..(row - 1) : headers[before].frame < headers[row].frame

LinesInv ==
    /\ line \in Nat /\ frame \in Nat
    /\ image = [p \in Plane |-> image[p]]
    /\ header_multi \in [Rows -> [frame : Nat, bytes : Nat]]
    /\ \A row \in Rows : header_multi[row].frame <= frame
    /\ \A row \in Rows : row < line =>
          Fits(header_multi, image, row) /\ Ordered(header_multi, row)
    /\ LinesMatchHeaders
-----------------------------------------------------------------------------
\* Rows do not overlap as far as the image is wide.
LEMMA RowsApart ==
    ASSUME NEW a \in Nat, NEW b \in Nat, a < b, NEW col \in 0..(Width - 1)
    PROVE  a * Stride + col < b * Stride
  <1>1. Stride \in Nat /\ Width \in Nat /\ Width <= Stride
    BY SizesAssumption
  <1>2. (a + 1) * Stride <= b * Stride
    BY <1>1
  <1>3. (a + 1) * Stride = a * Stride + Stride
    BY <1>1
  <1>4. a * Stride \in Nat /\ b * Stride \in Nat
    BY <1>1
  <1> QED
    BY <1>1, <1>2, <1>3, <1>4

\* Every pixel of a row lies in the image.
LEMMA RowInImage ==
    ASSUME NEW row \in Rows, NEW col \in 0..(Width - 1)
    PROVE  row * Stride + col \in Plane
  <1>1. Stride \in Nat /\ Coalesce \in Nat /\ row \in Nat /\ row < Coalesce
    BY SizesAssumption DEF Rows
  <1>2. row * Stride + col < Coalesce * Stride
    BY <1>1, RowsApart
  <1>3. row * Stride \in Nat /\ Coalesce * Stride \in Nat
    BY <1>1
  <1> QED
    BY <1>1, <1>2, <1>3 DEF Plane

\* A new line leaves the rows before it alone and fits its own header.
LEMMA LineKeeps ==
    ASSUME LinesInv, NEW bytes \in Widths, Line(bytes)
    PROVE  /\ image' = [p \in Plane |-> image'[p]]
           /\ header_multi' \in [Rows -> [frame : Nat, bytes : Nat]]
           /\ frame' \in Nat
           /\ \A row \in Rows : header_multi'[row].frame <= frame'
           /\ \A row \in Rows : row <= line =>
                 Fits(header_multi', image', row) /\ Ordered(header_multi', row)
  <1> USE SizesAssumption DEF LinesInv
  <1>1. bytes \in Nat /\ bytes > 0 /\ frame' = frame + 1
    BY WidthsAssumption DEF Line
  <1>2. image' = [p \in Plane |-> image'[p]]
    BY DEF Line, Written
  <1>3. header_multi' = [row \in Rows |-> IF row = line THEN [frame |-> frame + 1, bytes |-> bytes]
                                                      ELSE header_multi[row]]
    BY DEF Line, Described
  <1>4. header_multi' \in [Rows -> [frame : Nat, bytes : Nat]]
    BY <1>1, <1>3
  <1>5. \A row \in Rows : header_multi'[row].frame <= frame'
    BY <1>1, <1>3
  <1>6. ASSUME NEW row \in Rows, row < line
        PROVE  Fits(header_multi', image', row) /\ Ordered(header_multi', row)
    <2>1. header_multi'[row] = header_multi[row]
      BY <1>3, <1>6 DEF Rows
    <2>2. \A before \in 0..(row - 1) : header_multi'[before] = header_multi[before]
      BY <1>3, <1>6 DEF Rows
    <2>3. Ordered(header_multi', row)
      BY <1>6, <2>1, <2>2 DEF Ordered
    <2>4. ASSUME NEW col \in 0..(Width - 1)
          PROVE  image'[row * Stride + col] = image[row * Stride + col]
      <3> DEFINE p == row * Stride + col
      <3>1. p < line * Stride
        BY <1>6, <2>4, RowsApart DEF Rows
      <3>2. p \in Plane
        BY <2>4, RowInImage
      <3>3. line * Stride \in Nat
        BY SizesAssumption
      <3>6. p \in Nat
        <4>1. row \in Nat /\ col \in Nat /\ Stride \in Nat
          BY <2>4, SizesAssumption DEF Rows
        <4>2. row * Stride \in Nat
          BY <4>1
        <4> QED
          BY <4>1, <4>2
      <3> HIDE DEF p
      <3>4. p \notin (line * Stride)..(line * Stride + bytes - 1)
        BY <1>1, <3>1, <3>3, <3>6
      <3>5. image'[p] = image[p]
        BY <3>2, <3>4 DEF Line, Written
      <3> QED
        BY <3>5 DEF p
    <2>5. Fits(header_multi', image', row)
      BY <1>6, <2>1, <2>4 DEF Fits
    <2> QED
      BY <2>3, <2>5
  <1>7. ASSUME line \in Rows
        PROVE  Fits(header_multi', image', line) /\ Ordered(header_multi', line)
    <2>1. header_multi'[line] = [frame |-> frame + 1, bytes |-> bytes]
      BY <1>3, <1>7
    <2>2. Ordered(header_multi', line)
      BY <1>3, <1>7, <2>1 DEF Ordered, Rows
    <2>3. ASSUME NEW col \in 0..(Width - 1), col < bytes
          PROVE  image'[line * Stride + col] = frame + 1
      <3> DEFINE p == line * Stride + col
      <3>1. p \in Plane
        BY <1>7, <2>3, RowInImage
      <3>2. line * Stride \in Nat
        BY SizesAssumption
      <3>3. p \in (line * Stride)..(line * Stride + bytes - 1)
        BY <1>1, <2>3, <3>2
      <3> HIDE DEF p
      <3>4. image'[p] = frame + 1
        BY <3>1, <3>3 DEF Line, Written
      <3> QED
        BY <3>4 DEF p
    <2> QED
      BY <2>1, <2>2, <2>3 DEF Fits
  <1>8. ASSUME NEW row \in Rows, row <= line
        PROVE  Fits(header_multi', image', row) /\ Ordered(header_multi', row)
    <2>1. row < line \/ row = line
      BY <1>8 DEF Rows
    <2> QED
      BY <1>6, <1>7, <1>8, <2>1
  <1> QED
    BY <1>1, <1>2, <1>4, <1>5, <1>8

LEMMA WaterfallKeeps ==
    ASSUME LinesInv, WaterfallNext PROVE LinesInv'
  <1> USE SizesAssumption DEF LinesInv
  <1>1. CASE Drop
    <2>1. frame' = frame + 1 /\ UNCHANGED <<line, image, header_multi, coded>>
      BY <1>1 DEF Drop
    <2>2. \A row \in Rows : row < line' =>
             Fits(header_multi', image', row) /\ Ordered(header_multi', row)
      BY <2>1
    <2>3. LinesMatchHeaders'
      BY <2>1 DEF LinesMatchHeaders
    <2>4. \A row \in Rows : header_multi'[row].frame <= frame'
      BY <2>1
    <2>5. /\ line' \in Nat /\ frame' \in Nat
          /\ image' = [p \in Plane |-> image'[p]]
          /\ header_multi' \in [Rows -> [frame : Nat, bytes : Nat]]
      BY <2>1
    <2> QED
      BY <2>2, <2>3, <2>4, <2>5, Zenon
  <1>2. ASSUME NEW bytes \in Widths, Collect(bytes) PROVE LinesInv'
    <2>1. Line(bytes) /\ line' = line + 1 /\ coded' = coded /\ line + 1 # Coalesce
      BY <1>2 DEF Collect
    <2>3. LinesMatchHeaders'
      BY <2>1 DEF LinesMatchHeaders
    <2>4. \A row \in Rows : row < line' => row <= line
      BY <2>1 DEF Rows
    <2> QED
      BY <2>1, <2>3, <2>4, LineKeeps
  <1>3. ASSUME NEW bytes \in Widths, NEW outcome \in {"sent", "lost", "thrown"},
               Finish(bytes, outcome)
        PROVE  LinesInv'
    <2>1. /\ Line(bytes) /\ line + 1 = Coalesce
          /\ line' = IF outcome = "thrown" THEN Coalesce ELSE 0
      BY <1>3 DEF Finish
    <2>2. \A row \in Rows : row <= line
      BY <2>1 DEF Rows
    <2>3. line' \in Nat
      BY <2>1
    <2>4. LinesMatchHeaders'
      <3>1. CASE outcome = "sent"
        <4>1. coded' = [headers |-> header_multi', image |-> image']
          BY <1>3, <3>1 DEF Finish
        <4>2. \A row \in Rows : Fits(header_multi', image', row) /\ Ordered(header_multi', row)
          BY <2>1, <2>2, LineKeeps
        <4> QED
          BY <4>1, <4>2 DEF LinesMatchHeaders, Fits, Ordered
      <3>2. CASE outcome # "sent"
        BY <1>3, <3>2 DEF Finish, LinesMatchHeaders
      <3> QED
        BY <3>1, <3>2
    <2> QED
      BY <2>1, <2>2, <2>3, <2>4, LineKeeps
  <1> QED
    BY <1>1, <1>2, <1>3 DEF WaterfallNext
-----------------------------------------------------------------------------
\* A sequence of consecutive numbers is known by its length and where it begins.
LEMMA Counting ==
    ASSUME NEW s \in Seq(Nat), NEW n \in Nat, Len(s) = n, NEW h \in Nat,
           \A i \in 1..n : s[i] = h + i
    PROVE  s = [i \in 1..n |-> h + i]
  <1>1. s \in [1..n -> Nat]
    BY LenProperties
  <1>2. [i \in 1..n |-> h + i] \in [1..n -> Nat]
    OBVIOUS
  <1> QED
    BY <1>1, <1>2

\* The elements of a concatenation, those of each part.
LEMMA Joins ==
    ASSUME NEW s \in Seq(Nat), NEW t \in Seq(Nat)
    PROVE  /\ s \o t \in Seq(Nat) /\ Len(s \o t) = Len(s) + Len(t)
           /\ \A i \in 1..Len(s) : (s \o t)[i] = s[i]
           /\ \A i \in 1..Len(t) : (s \o t)[Len(s) + i] = t[i]
  OBVIOUS

\* The two parts of a sequence that is cut.
LEMMA Cut ==
    ASSUME NEW s \in Seq(Nat), NEW k \in Nat, k <= Len(s)
    PROVE  /\ SubSeq(s, 1, k) \in Seq(Nat) /\ Len(SubSeq(s, 1, k)) = k
           /\ \A i \in 1..k : SubSeq(s, 1, k)[i] = s[i]
           /\ SubSeq(s, k + 1, Len(s)) \in Seq(Nat)
           /\ Len(SubSeq(s, k + 1, Len(s))) = Len(s) - k
           /\ \A i \in 1..(Len(s) - k) : SubSeq(s, k + 1, Len(s))[i] = s[k + i]
  OBVIOUS

\* What is handed to the encoder is appended to what waits.
LEMMA TakeKeeps ==
    ASSUME SoundInv, NEW samples \in Nat, NEW f \in Frames, Take(samples, f),
           arrived' = arrived
    PROVE  SoundInv'
  <1> DEFINE new == [i \in 1..samples |-> taken + i]
  <1> USE DEF SoundInv
  <1>1. new \in Seq(Nat) /\ Len(new) = samples /\ \A i \in 1..samples : new[i] = taken + i
    <2>1. \A i \in 1..samples : taken + i \in Nat
      OBVIOUS
    <2> QED
      BY <2>1
  <1>2. /\ waiting' = IF dead THEN waiting ELSE waiting \o new
        /\ taken' = taken + samples /\ sent' = sent /\ heard' = heard /\ dead' = dead
        /\ frames' = Append(frames, f) /\ label' = f
    BY DEF Take
  <1>3. f \in Nat
    BY FramesAssumption
  <1> HIDE DEF new
  <1>4. heard' \in 0..taken' /\ taken' \in Nat /\ frames' \in Seq(Nat) /\ label' \in Nat
    BY <1>2, <1>3
  <1>5. CASE dead
    BY <1>2, <1>4, <1>5 DEF SoundContinues
  <1>6. CASE ~dead
    <2> DEFINE n == taken - heard
               m == taken + samples - heard
    <2>1. n \in Nat /\ m = n + samples /\ m = taken' - heard'
      BY <1>2
    <2>2. Len(waiting) = n /\ \A i \in 1..n : waiting[i] = heard + i
      BY <1>6 DEF SoundContinues
    <2>3. /\ waiting \o new \in Seq(Nat) /\ Len(waiting \o new) = n + samples
          /\ \A i \in 1..n : (waiting \o new)[i] = waiting[i]
          /\ \A i \in 1..samples : (waiting \o new)[n + i] = new[i]
      <3>1. waiting \in Seq(Nat) /\ new \in Seq(Nat) /\ Len(waiting) = n /\ Len(new) = samples
        BY <1>1, <2>2
      <3> HIDE DEF n
      <3> QED
        BY <3>1, Joins
    <2>4. ASSUME NEW i \in 1..m PROVE (waiting \o new)[i] = heard + i
      <3>1. CASE i \in 1..n
        BY <2>2, <2>3, <3>1
      <3>2. CASE i \notin 1..n
        <4>1. i - n \in 1..samples /\ i = n + (i - n)
          BY <2>1, <3>2
        <4>2. (waiting \o new)[i] = taken + (i - n)
          BY <1>1, <2>3, <4>1
        <4> QED
          BY <2>1, <4>2
      <3> QED
        BY <3>1, <3>2
    <2>5. waiting' = [i \in 1..m |-> heard + i]
      <3>1. heard \in Nat /\ m \in Nat /\ Len(waiting \o new) = m
        BY <2>1, <2>3
      <3>2. waiting \o new = [i \in 1..m |-> heard + i]
        <4> HIDE DEF m
        <4> QED
          BY <2>3, <2>4, <3>1, Counting, ZenonT(60)
      <3> QED
        BY <1>2, <1>6, <3>2
    <2> QED
      BY <1>2, <1>4, <1>6, <2>1, <2>3, <2>5 DEF SoundContinues
  <1> QED
    BY <1>5, <1>6

\* A packet takes the oldest samples that wait.
LEMMA DeliverKeeps ==
    ASSUME SoundInv, Deliver, arrived' = arrived PROVE SoundInv'
  <1> USE DEF SoundInv
  <1> DEFINE n == taken - heard
  <1>1. /\ FrameSize \in Nat /\ FrameSize > 0 /\ ~dead /\ Len(waiting) = n /\ n > FrameSize
        /\ n \in Nat
    BY SizesAssumption DEF Deliver, Full
  <1>2. waiting = [i \in 1..n |-> heard + i]
    BY <1>1 DEF SoundContinues
  <1>9. heard \in Nat /\ \A i \in 1..n : waiting[i] = heard + i
    <2>1. heard \in Nat /\ n \in Nat
      BY <1>1
    <2> HIDE DEF n
    <2> QED
      BY <1>2, <2>1
  <1>3. First = [i \in 1..FrameSize |-> heard + i] /\ First \in Seq(Nat)
    <2>1. First \in Seq(Nat) /\ Len(First) = FrameSize
          /\ \A i \in 1..FrameSize : First[i] = waiting[i]
      <3>1. waiting \in Seq(Nat) /\ FrameSize <= Len(waiting)
        BY <1>1
      <3> QED
        BY <1>1, <3>1, Cut DEF First
    <2>2. heard \in Nat /\ \A i \in 1..FrameSize : First[i] = heard + i
      <3>1. \A i \in 1..FrameSize : i \in 1..n
        BY <1>1
      <3> HIDE DEF n
      <3> QED
        BY <1>9, <2>1, <3>1
    <2> QED
      BY <1>1, <2>1, <2>2, Counting
  <1>4. Rest = [i \in 1..(n - FrameSize) |-> heard + FrameSize + i] /\ Rest \in Seq(Nat)
        /\ Len(Rest) = n - FrameSize
    <2>1. Rest \in Seq(Nat) /\ Len(Rest) = n - FrameSize
          /\ \A i \in 1..(n - FrameSize) : Rest[i] = waiting[FrameSize + i]
      <3>1. /\ waiting \in Seq(Nat) /\ FrameSize <= Len(waiting) /\ Len(waiting) = n
            /\ FrameSize \in Nat
        BY <1>1
      <3>2. /\ SubSeq(waiting, FrameSize + 1, Len(waiting)) \in Seq(Nat)
            /\ Len(SubSeq(waiting, FrameSize + 1, Len(waiting))) = Len(waiting) - FrameSize
            /\ \A i \in 1..(Len(waiting) - FrameSize) :
                  SubSeq(waiting, FrameSize + 1, Len(waiting))[i] = waiting[FrameSize + i]
        BY <3>1, Cut
      <3> HIDE DEF n
      <3> QED
        BY <3>1, <3>2, Zenon DEF Rest
    <2>2. \A i \in 1..(n - FrameSize) : waiting[FrameSize + i] = heard + FrameSize + i
      <3>1. TAKE i \in 1..(n - FrameSize)
      <3>2. FrameSize + i \in 1..n
        BY <1>1
      <3>3. waiting[FrameSize + i] = heard + (FrameSize + i)
        BY <1>9, <3>2
      <3> QED
        BY <1>1, <1>9, <3>3
    <2>3. n - FrameSize \in Nat /\ heard + FrameSize \in Nat
      BY <1>1
    <2>4. \A i \in 1..(n - FrameSize) : Rest[i] = heard + FrameSize + i
      BY <2>1, <2>2
    <2> HIDE DEF n
    <2> QED
      BY <2>1, <2>3, <2>4, Counting
  <1>5. /\ sent' = [samples |-> First, label |-> label] /\ heard' = heard + FrameSize
        /\ waiting' = Rest /\ taken' = taken /\ dead' = dead /\ label' = label
        /\ frames' = frames
    BY DEF Deliver
  <1>6. heard' \in 0..taken' /\ taken' - heard' = n - FrameSize /\ heard' >= FrameSize
    BY <1>1, <1>5
  <1>7. sent'.samples = [i \in 1..FrameSize |-> heard' - FrameSize + i]
    <2>1. heard' - FrameSize = heard
      BY <1>1, <1>5
    <2> QED
      BY <1>3, <1>5, <2>1
  <1>8. waiting' = [i \in 1..(taken' - heard') |-> heard' + i]
    BY <1>4, <1>5, <1>6
  <1> QED
    BY <1>1, <1>4, <1>5, <1>6, <1>7, <1>8 DEF SoundContinues

LEMMA FailKeeps ==
    ASSUME SoundInv, Fail, arrived' = arrived PROVE SoundInv'
  BY DEF SoundInv, Fail, SoundContinues

OutputInv == SoundInv /\ LinesInv

\* What the properties rest on holds at every moment of every connection.
THEOREM OutputInductive == Spec => []OutputInv
  <1>1. Init => OutputInv
    <2> SUFFICES ASSUME Init PROVE OutputInv
      OBVIOUS
    <2>1. SoundInv
      <3>1. /\ sent = NoPacket /\ waiting = <<>> /\ frames = <<>> /\ taken = 0 /\ heard = 0
            /\ label = 0 /\ dead = FALSE /\ arrived = 0
        BY DEF Init, AgcInit, EncoderInit
      <3>2. waiting = [i \in 1..(taken - heard) |-> heard + i]
        BY <3>1
      <3> QED
        <4>1. SoundContinues
          BY <3>1, <3>2 DEF SoundContinues
        <4>2. waiting \in Seq(Nat) /\ frames \in Seq(Nat) /\ Len(waiting) = taken - heard
          BY <3>1
        <4>3. arrived \in Nat /\ taken \in Nat /\ heard \in 0..taken /\ label \in Nat
          BY <3>1
        <4>4. dead \in BOOLEAN /\ ~(sent # NoPacket)
          BY <3>1
        <4> QED
          BY <4>1, <4>2, <4>3, <4>4, Zenon DEF SoundInv
    <2>2. LinesInv
      <3>1. /\ line = 0 /\ frame = 0 /\ coded = NoLines
            /\ image = [p \in Plane |-> 0]
            /\ header_multi = [row \in Rows |-> Header]
        BY DEF Init, EncoderInit
      <3>2. header_multi \in [Rows -> [frame : Nat, bytes : Nat]]
        BY <3>1 DEF Header
      <3>3. \A row \in Rows : header_multi[row].frame <= frame /\ ~(row < line)
        BY <3>1 DEF Header, Rows
      <3>4. LinesMatchHeaders
        BY <3>1 DEF LinesMatchHeaders
      <3>5. image = [p \in Plane |-> image[p]]
        BY <3>1
      <3> QED
        BY <3>1, <3>2, <3>3, <3>4, <3>5 DEF LinesInv
    <2> QED
      BY <2>1, <2>2 DEF OutputInv
  <1>2. OutputInv /\ [Next]_vars => OutputInv'
    <2> SUFFICES ASSUME OutputInv, [Next]_vars PROVE OutputInv'
      OBVIOUS
    <2>a. SoundInv /\ LinesInv
      BY DEF OutputInv
    <2>b. UNCHANGED linesVars => LinesInv'
      <3> SUFFICES ASSUME UNCHANGED linesVars PROVE LinesInv'
        OBVIOUS
      <3>1. UNCHANGED <<line, image, header_multi, frame, coded>>
        BY DEF linesVars
      <3>2. LinesMatchHeaders'
        BY <2>a, <3>1 DEF LinesInv, LinesMatchHeaders
      <3>3. \A row \in Rows : row < line' =>
               Fits(header_multi', image', row) /\ Ordered(header_multi', row)
        BY <2>a, <3>1 DEF LinesInv
      <3> QED
        BY <2>a, <3>1, <3>2, <3>3 DEF LinesInv
    <2>c. UNCHANGED soundVars /\ arrived' \in Nat => SoundInv'
      BY <2>a DEF SoundInv, soundVars, SoundContinues
    <2>1. CASE Agc \/ Reset
      <3>1. UNCHANGED encoderVars /\ arrived' \in Nat
        <4>1. UNCHANGED encoderVars
          BY <2>1 DEF Agc, Reset
        <4>2. arrived' \in {arrived, arrived + 1}
          <5>1. ASSUME NEW v \in Values, Push(v) PROVE arrived' = arrived + 1
            BY <5>1 DEF Push
          <5>2. ProcessBegin \/ ResetBuffer \/ ResetMax => arrived' = arrived
            BY DEF ProcessBegin, ResetBuffer, ResetMax
          <5> QED
            BY <2>1, <5>1, <5>2 DEF Agc, Reset
        <4> QED
          BY <2>a, <4>1, <4>2 DEF SoundInv
      <3> QED
        BY <3>1, <2>b, <2>c DEF encoderVars, OutputInv
    <2>2. CASE Encoder
      <3>1. arrived' = arrived
        BY <2>2 DEF Encoder, agcVars
      <3>2. ASSUME NEW f \in Frames, taken < arrived, Take(arrived - taken, f)
            PROVE  OutputInv'
        <4>1. arrived - taken \in Nat
          BY <2>a, <3>2 DEF SoundInv
        <4> QED
          BY <2>a, <2>b, <3>1, <3>2, <4>1, TakeKeeps DEF Take, OutputInv
      <3>3. CASE Deliver \/ Fail
        BY <2>a, <2>b, <3>1, <3>3, DeliverKeeps, FailKeeps DEF Deliver, Fail, OutputInv
      <3> QED
        BY <2>2, <3>2, <3>3 DEF Encoder
    <2>3. CASE WaterfallNext /\ UNCHANGED agcVars
      <3>1. UNCHANGED soundVars /\ arrived' = arrived
        BY <2>3 DEF WaterfallNext, Drop, Collect, Finish, agcVars
      <3> QED
        BY <2>a, <2>c, <2>3, <3>1, WaterfallKeeps DEF OutputInv, SoundInv
    <2>4. CASE UNCHANGED vars
      BY <2>a, <2>b, <2>c, <2>4 DEF vars, agcVars, encoderVars, OutputInv, SoundInv
    <2> QED
      BY <2>1, <2>2, <2>3, <2>4 DEF Next
  <1> QED
    BY <1>1, <1>2, PTL DEF Spec

\* SoundContinues: what is heard are the first samples taken, each once and in
\* order, and nothing follows a packet that was lost, whatever the lengths of blocks
\* and frames.
THEOREM SoundAlwaysContinues == Spec => []SoundContinues
  <1>1. OutputInv => SoundContinues
    BY DEF OutputInv, SoundInv
  <1> QED
    BY <1>1, OutputInductive, PTL

\* LinesMatchHeaders: the rows of an image are those its headers describe, whatever
\* the widths of lines and image, the frames dropped and the images lost.
THEOREM LinesAlwaysMatch == Spec => []LinesMatchHeaders
  <1>1. OutputInv => LinesMatchHeaders
    BY DEF OutputInv, LinesInv
  <1> QED
    BY <1>1, OutputInductive, PTL
-----------------------------------------------------------------------------
(***************************************************************************)
(* Labels: blocks are taken whole, one after the other, and never while a  *)
(* packet waits.                                                           *)
(***************************************************************************)
LEMMA QuotientBounds ==
    ASSUME NEW a \in Nat, NEW b \in Nat \ {0}
    PROVE  a \div b \in Int /\ (a \div b) * b <= a /\ a < (a \div b) * b + b
  OBVIOUS

\* A multiple of b below another is so by at least b.
LEMMA Multiples ==
    ASSUME NEW b \in Nat \ {0}, NEW x \in Int, NEW y \in Int, x < y
    PROVE  x * b + b <= y * b
  <1>1. (x + 1) * b <= y * b
    OBVIOUS
  <1>2. (x + 1) * b = x * b + b
    OBVIOUS
  <1> QED
    BY <1>1, <1>2

\* A packet's label is that of block k if its last sample is of block k or k - 1.
Labelled(last, name) ==
    \E k \in DOMAIN frames : name = frames[k] /\ k - 1 - (last - 1) \div BlockSize \in {0, 1}

LabelInv ==
    /\ left \in 0..BlockSize
    /\ taken = Len(frames) * BlockSize
    /\ frames # <<>> => label = frames[Len(frames)]
    /\ left > 0 => arrived = taken + BlockSize - left
    /\ left = 0 => arrived \in {taken, taken + BlockSize}
    /\ arrived # taken \/ left > 0 => ~Full
    /\ ~dead => Len(waiting) <= FrameSize + BlockSize
    /\ sent # NoPacket => Labelled(sent.samples[FrameSize], sent.label)

LEMMA LabelEncoded ==
    ASSUME SoundInv, LabelInv, Deliver, UNCHANGED agcVars PROVE LabelInv'
  <1> USE BlockAssumption, SizesAssumption DEF SoundInv, LabelInv
  <1> DEFINE waits == Len(waiting)
             last == heard + FrameSize
             block == Len(frames)
  <1>1. /\ FrameSize \in Nat \ {0} /\ BlockSize \in Nat \ {0} /\ waits \in Nat
        /\ waits > FrameSize /\ ~dead /\ waits = taken - heard /\ block \in Nat
    BY SMTT(30) DEF Deliver, Full
  <1>2. arrived = taken /\ left = 0 /\ block > 0 /\ block * BlockSize \in Nat
    <2>1. arrived = taken /\ left = 0
      BY <1>1 DEF Deliver
    <2>2. taken > 0
      BY <1>1
    <2>3. block = 0 => block * BlockSize = 0
      BY <1>1
    <2> QED
      BY <1>1, <2>1, <2>2, <2>3
  <1>4. last \in Nat /\ last >= 1 /\ last <= taken - 1 /\ last >= taken - BlockSize
    BY <1>1
  <1>5. (block - 1) * BlockSize = taken - BlockSize
    BY <1>1
  <1> DEFINE quotient == (last - 1) \div BlockSize
  <1>6. quotient \in Int /\ quotient * BlockSize <= last - 1 /\ last - 1 < quotient * BlockSize + BlockSize
    <2>1. last - 1 \in Nat
      BY <1>4, SMTT(30)
    <2> HIDE DEF last
    <2> QED
      BY <1>1, <2>1, QuotientBounds
  <1>3. taken = block * BlockSize
    OBVIOUS
  <1> HIDE DEF waits, last, quotient, block
  <1>7. quotient * BlockSize \in Int
    BY <1>1, <1>6
  <1>8. quotient <= block - 1
    <2>1. block < quotient + 1 => block * BlockSize <= quotient * BlockSize
      BY <1>1, <1>6
    <2> QED
      <3> DEFINE floor == quotient * BlockSize
                 end == block * BlockSize
      <3>1. floor \in Int /\ floor <= last - 1 /\ end = taken
        BY <1>3, <1>6, <1>7
      <3>2. block < quotient + 1 => end <= floor
        BY <2>1
      <3> HIDE DEF floor, end
      <3> QED
        BY <1>1, <1>4, <1>6, <3>1, <3>2
  <1>9. quotient >= block - 2
    <2>1. ASSUME quotient < block - 2 PROVE FALSE
      <3>1. quotient + 1 < block - 1 /\ quotient + 1 \in Int /\ block - 1 \in Int
        BY <1>1, <1>6, <2>1
      <3>2. (quotient + 1) * BlockSize + BlockSize <= (block - 1) * BlockSize
        BY <1>1, <3>1, Multiples
      <3>3. (quotient + 1) * BlockSize = quotient * BlockSize + BlockSize
        BY <1>1, <1>6
      <3> DEFINE floor == quotient * BlockSize
      <3>4. floor \in Int /\ last - 1 < floor + BlockSize
        BY <1>6, <1>7
      <3>5. floor + BlockSize + BlockSize <= taken - BlockSize
        BY <1>5, <3>2, <3>3
      <3> HIDE DEF floor
      <3> QED
        BY <1>1, <1>4, <3>4, <3>5
    <2> QED
      BY <1>1, <1>6, <2>1
  <1>10. block - 1 - quotient \in {0, 1}
    BY <1>1, <1>6, <1>8, <1>9
  <1>11. /\ sent' = [samples |-> First, label |-> label] /\ waiting' = Rest
         /\ frames' = frames /\ taken' = taken /\ label' = label /\ dead' = dead
    BY DEF Deliver
  <1>12. First[FrameSize] = last
    <2>1. First[FrameSize] = waiting[FrameSize]
      BY <1>1, SMTT(30) DEF First, waits
    <2>2. waiting = [i \in 1..(taken - heard) |-> heard + i]
      BY <1>1 DEF SoundContinues
    <2> QED
      BY <1>1, <2>1, <2>2 DEF last
  <1>13. Labelled(sent.samples[FrameSize], sent.label)'
    <2>1. block \in DOMAIN frames /\ label = frames[block]
      BY <1>1, <1>2, SMTT(30) DEF block
    <2>2. sent'.samples[FrameSize] = last /\ sent'.label = label
      BY <1>11, <1>12
    <2>3. label = frames'[block] /\ block - 1 - (last - 1) \div BlockSize \in {0, 1}
      BY <1>10, <1>11, <2>1 DEF quotient
    <2> QED
      BY <1>11, <2>1, <2>2, <2>3 DEF Labelled
  <1>14. Len(waiting') = waits - FrameSize
    BY <1>1, <1>11 DEF Rest, waits
  <1>15. left' = left /\ arrived' = arrived
    BY DEF agcVars
  <1> QED
    BY <1>1, <1>2, <1>11, <1>13, <1>14, <1>15 DEF waits

LEMMA LabelTaken ==
    ASSUME SoundInv, LabelInv, left = 0, taken < arrived, NEW f \in Frames,
           Take(arrived - taken, f), UNCHANGED agcVars
    PROVE  LabelInv'
  <1> USE BlockAssumption, SizesAssumption DEF SoundInv, LabelInv
  <1> DEFINE new == [i \in 1..BlockSize |-> taken + i]
  <1>1. arrived = taken + BlockSize /\ ~Full /\ BlockSize \in Nat \ {0} /\ FrameSize \in Nat
    OBVIOUS
  <1>2. new \in Seq(Nat) /\ Len(new) = BlockSize
    <2>1. \A i \in 1..BlockSize : taken + i \in Nat
      OBVIOUS
    <2> QED
      BY <1>1, <2>1
  <1>3. arrived - taken = BlockSize
    BY <1>1
  <1>4. waiting' = IF dead THEN waiting ELSE waiting \o new
    BY <1>3 DEF Take
  <1> HIDE DEF new
  <1>5. ~dead => Len(waiting') <= FrameSize + BlockSize
    BY <1>1, <1>2, <1>4, SMTT(30) DEF Full
  <1>6. (Len(frames) + 1) * BlockSize = Len(frames) * BlockSize + BlockSize
    BY <1>1
  <1>7. /\ taken' = taken + BlockSize /\ label' = f /\ frames' = Append(frames, f)
        /\ sent' = sent /\ dead' = dead /\ left' = left /\ arrived' = arrived
    BY <1>3 DEF Take, agcVars
  <1>8. /\ Len(frames') = Len(frames) + 1 /\ frames'[Len(frames) + 1] = f
        /\ \A k \in DOMAIN frames : k \in DOMAIN frames' /\ frames'[k] = frames[k]
    <2> DEFINE more == Append(frames, f)
    <2>1. f \in Nat /\ frames \in Seq(Nat)
      BY FramesAssumption
    <2>2. /\ Len(more) = Len(frames) + 1 /\ more[Len(frames) + 1] = f /\ more \in Seq(Nat)
          /\ \A k \in 1..Len(frames) : more[k] = frames[k]
      BY <2>1, SMTT(30)
    <2> HIDE DEF more
    <2>3. Len(frames) \in Nat /\ DOMAIN frames = 1..Len(frames) /\ DOMAIN more = 1..(Len(frames) + 1)
      BY <2>1, <2>2
    <2>4. \A k \in DOMAIN frames : k \in DOMAIN more /\ more[k] = frames[k]
      BY <2>2, <2>3
    <2>5. frames' = more
      BY <1>7 DEF more
    <2> QED
      BY <2>2, <2>4, <2>5
  <1>9. sent' # NoPacket => Labelled(sent.samples[FrameSize], sent.label)'
    BY <1>7, <1>8 DEF Labelled
  <1>10. taken' = Len(frames') * BlockSize /\ label' = frames'[Len(frames')]
    BY <1>6, <1>7, <1>8
  <1> QED
    BY <1>1, <1>5, <1>7, <1>9, <1>10

LEMMA LabelAgc ==
    ASSUME SoundInv, LabelInv, Agc \/ Reset PROVE LabelInv'
  <1> USE BlockAssumption DEF SoundInv, LabelInv
  <1>1. UNCHANGED <<waiting, taken, label, dead, sent, heard, frames>>
    BY DEF Agc, Reset, encoderVars, soundVars
  <1>2. sent' # NoPacket => Labelled(sent.samples[FrameSize], sent.label)'
    BY <1>1 DEF Labelled
  <1>3. CASE ProcessBegin /\ taken = arrived /\ ~Full
    BY <1>1, <1>2, <1>3 DEF ProcessBegin, Full
  <1>4. ASSUME NEW v \in Values, Push(v) PROVE LabelInv'
    <2>1. left > 0 /\ left' = left - 1 /\ arrived' = arrived + 1
      BY <1>4 DEF Push
    <2>2. Full' <=> Full
      BY <1>1 DEF Full
    <2>3. ~Full
      BY <2>1
    <2>4. left \in 1..BlockSize /\ BlockSize \in Nat /\ arrived = taken + BlockSize - left
      BY <2>1
    <2>5. left' \in 0..BlockSize /\ arrived' = taken + BlockSize - left'
      BY <2>1, <2>4
    <2>6. taken' = taken /\ taken \in Nat /\ (left' = 0 => arrived' = taken' + BlockSize)
      BY <1>1, <2>5
    <2>7. /\ taken' = Len(frames') * BlockSize
          /\ frames' # <<>> => label' = frames'[Len(frames')]
          /\ ~dead' => Len(waiting') <= FrameSize + BlockSize
      BY <1>1
    <2>8. left' > 0 => arrived' = taken' + BlockSize - left'
      BY <2>5, <2>6
    <2>9. left' = 0 => arrived' \in {taken', taken' + BlockSize}
      BY <2>6
    <2> QED
      BY <1>2, <2>2, <2>3, <2>5, <2>7, <2>8, <2>9, Zenon
  <1>5. CASE ResetBuffer \/ ResetMax
    <2>1. left' = left /\ arrived' = arrived
      BY <1>5 DEF ResetBuffer, ResetMax
    <2> QED
      BY <1>1, <1>2, <2>1 DEF Full
  <1> QED
    BY <1>3, <1>4, <1>5 DEF Agc, Reset

\* LabelsFollow: a packet is labelled with the server's frame of its last sample or of
\* the next block, for any lengths of blocks and frames, any frame the client joins
\* at and any that are dropped.
THEOREM LabelsAlwaysFollow == Spec => []LabelsFollow
  <1>1. Init => LabelInv
    <2> SUFFICES ASSUME Init PROVE LabelInv
      OBVIOUS
    <2>1. /\ left = 0 /\ taken = 0 /\ frames = <<>> /\ arrived = 0
          /\ waiting = <<>> /\ sent = NoPacket
      BY DEF Init, AgcInit, EncoderInit
    <2>2. 0 * BlockSize = 0 /\ 0 \in 0..BlockSize /\ FrameSize + BlockSize >= 0
      BY BlockAssumption, SizesAssumption
    <2>3. ~Full
      BY <2>1, SizesAssumption DEF Full
    <2> QED
      BY <2>1, <2>2, <2>3 DEF LabelInv
  <1>2. OutputInv /\ LabelInv /\ [Next]_vars => LabelInv'
    <2> SUFFICES ASSUME SoundInv, LabelInv, [Next]_vars PROVE LabelInv'
      BY DEF OutputInv
    <2>1. CASE UNCHANGED <<soundVars, agcVars>>
      <3>1. UNCHANGED <<waiting, taken, label, dead, sent, frames, left, arrived>>
        BY <2>1 DEF soundVars, agcVars
      <3> QED
        BY <3>1 DEF LabelInv, Labelled, Full
    <2>2. CASE Encoder
      <3>1. CASE Fail
        <4>1. /\ UNCHANGED <<waiting, taken, label, sent, frames, left, arrived>> /\ dead' = TRUE
          BY <2>2, <3>1 DEF Fail, Encoder, agcVars
        <4> QED
          BY <4>1 DEF LabelInv, Labelled, Full
      <3> QED
        BY <2>2, <3>1, LabelEncoded, LabelTaken DEF Encoder
    <2>3. WaterfallNext => UNCHANGED soundVars
      BY DEF WaterfallNext, Drop, Collect, Finish
    <2>4. CASE UNCHANGED vars
      BY <2>1, <2>4 DEF vars, encoderVars
    <2> QED
      BY <2>1, <2>2, <2>3, <2>4, LabelAgc DEF Next
  <1>3. LabelInv => LabelsFollow
    BY DEF LabelInv, Labelled, LabelsFollow, LabelFollows
  <1> QED
    BY <1>1, <1>2, <1>3, OutputInductive, PTL DEF Spec
=============================================================================
