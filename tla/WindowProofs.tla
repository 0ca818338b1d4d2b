---------------------------- MODULE WindowProofs ----------------------------
(***************************************************************************)
(* What the operators of WaterfallWindow compute, for every size of        *)
(* spectrum F and every smallest level M.                                  *)
(***************************************************************************)
EXTENDS WaterfallWindow, NaturalsInduction, WellFoundedInduction, TLAPS

\* A set of numbers that is not empty has a least one.
LEMMA LeastOf ==
    ASSUME NEW S \in SUBSET Nat, S # {} PROVE \E n \in S : \A m \in S : n <= m
<1>1. PICK n \in S : \A m \in S : ~(<<m, n>> \in OpToRel(<, Nat))
  BY NatLessThanWellFounded, WFMin, Zenon
<1>2. \A m \in S : ~(m < n)
  BY <1>1 DEF OpToRel
<1> QED
  BY <1>2

\* Induction, for a set.
LEMMA ReachesAll ==
    ASSUME NEW S \in SUBSET Nat, 0 \in S, \A n \in S : n + 1 \in S PROVE S = Nat
<1> SUFFICES ASSUME Nat \ S # {} PROVE FALSE
  OBVIOUS
<1>1. PICK n \in Nat \ S : \A m \in Nat \ S : n <= m
  BY LeastOf
<1>2. n # 0 /\ n - 1 \in S
  BY <1>1
<1> QED
  BY <1>1, <1>2

LEMMA Pow2Doubles == Pow2[0] = 1 /\ \A n \in Nat : Pow2[n + 1] = 2 * Pow2[n]
<1> DEFINE Twice(v, n) == 2 * v
<1>1. NatInductiveDefHypothesis(Pow2, 1, Twice)
  BY DEF NatInductiveDefHypothesis, Pow2
<1>2. NatInductiveDefConclusion(Pow2, 1, Twice)
  BY <1>1, NatInductiveDef
<1>3. Pow2 = [n \in Nat |-> IF n = 0 THEN 1 ELSE 2 * Pow2[n - 1]]
  BY <1>2 DEF NatInductiveDefConclusion
<1> QED
  BY <1>3

LEMMA Pow2Grows == \A n \in Nat : Pow2[n] \in Nat /\ Pow2[n] > n
<1> DEFINE S == {n \in Nat : Pow2[n] \in Nat /\ Pow2[n] > n}
<1>1. 0 \in S
  BY Pow2Doubles
<1>2. \A n \in S : n + 1 \in S
  BY Pow2Doubles
<1>3. S = Nat
  <2> HIDE DEF S
  <2>1. S \in SUBSET Nat
    BY DEF S
  <2> QED
    BY <1>1, <1>2, <2>1, ReachesAll
<1> QED
  BY <1>3

\* Powers add up.
LEMMA Pow2Splits ==
    ASSUME NEW i \in Nat PROVE \A j \in Nat : Pow2[i + j] = Pow2[i] * Pow2[j]
<1> DEFINE S == {j \in Nat : Pow2[i + j] = Pow2[i] * Pow2[j]}
<1>1. 0 \in S
  BY Pow2Doubles, Pow2Grows
<1>2. \A j \in S : j + 1 \in S
  <2> TAKE j \in S
  <2>1. Pow2[(i + j) + 1] = 2 * Pow2[i + j] /\ Pow2[j + 1] = 2 * Pow2[j]
    BY Pow2Doubles
  <2>2. i + (j + 1) = (i + j) + 1
    OBVIOUS
  <2>3. Pow2[i] \in Nat /\ Pow2[j] \in Nat
    BY Pow2Grows
  <2>4. 2 * (Pow2[i] * Pow2[j]) = Pow2[i] * (2 * Pow2[j])
    BY <2>3
  <2> QED
    BY <2>1, <2>2, <2>4
<1>3. S = Nat
  <2> HIDE DEF S
  <2>1. S \in SUBSET Nat
    BY DEF S
  <2> QED
    BY <1>1, <1>2, <2>1, ReachesAll
<1> QED
  BY <1>3

\* What \div does.
LEMMA Quotient ==
    ASSUME NEW a \in Nat, NEW b \in Nat \ {0}
    PROVE  a \div b \in Nat /\ b * (a \div b) <= a /\ a < b * (a \div b) + b
<1>1. a \div b \in Nat
  OBVIOUS
<1>2. (a \div b) * b <= a /\ a < (a \div b) * b + b
  OBVIOUS
<1>3. (a \div b) * b = b * (a \div b)
  BY <1>1
<1> QED
  BY <1>1, <1>2, <1>3

\* There is a last level, as halving ends: the first one below M is no level.
LEMMA LevelsIs ==
    ASSUME NEW F, NEW M, HasLevels(F, M)
    PROVE  /\ LevelCount(F, M) \in Nat \ {0} /\ Last(F, M) \in Nat
           /\ LevelLength(F, LevelCount(F, M)) < M
           /\ \A i \in 0..Last(F, M) : LevelLength(F, i) >= M
<1> DEFINE S == {n \in 0..F : LevelLength(F, n) < M}
<1>1. F \in Nat /\ M \in Nat \ {0} /\ F >= M
  BY DEF HasLevels
<1>2. \A i \in Nat : LevelLength(F, i) \in Nat
  <2> TAKE i \in Nat
  <2>1. Pow2[i] \in Nat \ {0}
    BY Pow2Grows
  <2> QED
    BY <1>1, <2>1, Quotient DEF LevelLength
<1>3. F \in S
  <2> DEFINE p == Pow2[F]
             q == F \div p
  <2>1. p \in Nat /\ p > F
    BY <1>1, Pow2Grows
  <2>2. q \in Nat /\ p * q <= F
    BY <1>1, <2>1, Quotient
  <2>3. q = 0
    <3> HIDE DEF p, q
    <3>1. q >= 1 => p * q >= p
      BY <2>1, <2>2
    <3> QED
      BY <1>1, <2>1, <2>2, <3>1
  <2> QED
    BY <1>1, <2>3 DEF LevelLength
<1>4. PICK n \in S : \A m \in S : n <= m
  <2> HIDE DEF S
  <2>1. S \in SUBSET Nat
    BY <1>1 DEF S
  <2> QED
    BY <1>3, <2>1, LeastOf
<1>5. \A i \in 0..(n - 1) : LevelLength(F, i) >= M
  BY <1>1, <1>2, <1>4
<1>6. /\ LevelCount(F, M) \in 0..F
      /\ LevelLength(F, LevelCount(F, M)) < M
      /\ \A i \in 0..(LevelCount(F, M) - 1) : LevelLength(F, i) >= M
  BY <1>4, <1>5 DEF LevelCount
<1>7. LevelLength(F, 0) = F
  BY <1>1, Pow2Doubles DEF LevelLength
<1> QED
  BY <1>1, <1>6, <1>7 DEF Last

\* The least level of a set of levels that is not empty is one of them.
LEMMA FirstIs ==
    ASSUME NEW C \in SUBSET Nat, C # {} PROVE First(C) \in C
  BY LeastOf DEF First

LEMMA ClosestAreLevels ==
    ASSUME NEW F, NEW M, NEW w PROVE Closest(F, M, w) \subseteq 0..Last(F, M)
  BY DEF Closest

\* Wherever the window, it is served from one of the levels.
LEMMA WindowLevel ==
    ASSUME NEW F, NEW M, HasLevels(F, M), NEW l, NEW r
    PROVE  Window(F, M, l, r).level \in 0..Last(F, M)
<1>1. Last(F, M) \in Nat /\ Last(F, M) \in 0..Last(F, M)
  BY LevelsIs
<1> DEFINE C == Closest(F, M, r - l)
<1>2. C \subseteq 0..Last(F, M) /\ C \in SUBSET Nat
  BY <1>1, ClosestAreLevels
<1> HIDE DEF C
<1>3. C # {} => First(C) \in C
  BY <1>2, FirstIs
<1>4. Window(F, M, l, r) = IF C = {} THEN [level |-> Last(F, M), l |-> l, r |-> r]
                           ELSE [level |-> First(C), l |-> Rounded(l, First(C)),
                                 r |-> Rounded(r, First(C))]
  BY DEF Window, C
<1>5. CASE C = {}
  BY <1>1, <1>4, <1>5
<1>6. CASE C # {}
  <2> DEFINE i == First(C)
  <2>1. i \in 0..Last(F, M)
    BY <1>2, <1>3, <1>6
  <2>2. Window(F, M, l, r) = [level |-> i, l |-> Rounded(l, i), r |-> Rounded(r, i)]
    BY <1>4, <1>6
  <2> HIDE DEF i
  <2> QED
    BY <2>1, <2>2
<1> QED
  BY <1>5, <1>6
-----------------------------------------------------------------------------
(***************************************************************************)
(* The levels in whole numbers.                                            *)
(***************************************************************************)
LEMMA LengthIs ==
    ASSUME NEW F \in Nat, NEW i \in Nat
    PROVE  /\ LevelLength(F, i) \in Nat /\ Pow2[i] \in Nat \ {0}
           /\ Pow2[i] * LevelLength(F, i) <= F
           /\ F < Pow2[i] * LevelLength(F, i) + Pow2[i]
<1>1. Pow2[i] \in Nat \ {0}
  BY Pow2Grows
<1> QED
  BY <1>1, Quotient DEF LevelLength

\* A level's power of two divides the last one's.
LEMMA ScaleIs ==
    ASSUME NEW F, NEW M, HasLevels(F, M), NEW i \in 0..Last(F, M)
    PROVE  /\ i \in Nat /\ Pow2[i] \in Nat \ {0} /\ Pow2[Last(F, M)] \in Nat \ {0}
           /\ Pow2[Last(F, M)] \div Pow2[i] \in Nat \ {0}
           /\ Pow2[Last(F, M)] = (Pow2[Last(F, M)] \div Pow2[i]) * Pow2[i]
<1> DEFINE P == Pow2[i]
           Q == Pow2[Last(F, M) - i]
           S == Pow2[Last(F, M)]
<1>1. /\ i \in Nat /\ Last(F, M) - i \in Nat /\ i + (Last(F, M) - i) = Last(F, M)
      /\ Last(F, M) \in Nat
  BY LevelsIs
<1>2. P \in Nat \ {0} /\ Q \in Nat \ {0} /\ S \in Nat \ {0}
  BY <1>1, Pow2Grows
<1>3. S = P * Q
  BY <1>1, Pow2Splits
<1> HIDE DEF P, Q, S
<1>4. P * Q = Q * P
  BY <1>2
<1>5. \A q \in Nat : (q * P) \div P = q
  BY <1>2
<1>6. S \div P = Q
  BY <1>2, <1>3, <1>4, <1>5
<1> QED
  BY <1>1, <1>2, <1>3, <1>4, <1>6 DEF P, S

\* No window of the spectrum is so wide that it is twice too wide at the last level.
LEMMA WidthBound ==
    ASSUME NEW F, NEW M, HasLevels(F, M) PROVE F < (2 * M) * Pow2[Last(F, M)]
<1> DEFINE q == LevelLength(F, LevelCount(F, M))
           S == Pow2[Last(F, M)]
<1>1. /\ Last(F, M) \in Nat /\ Last(F, M) + 1 = LevelCount(F, M)
      /\ LevelCount(F, M) \in Nat /\ q < M
  BY LevelsIs DEF Last
<1>2. S \in Nat \ {0} /\ Pow2[LevelCount(F, M)] = 2 * S
  BY <1>1, Pow2Doubles, Pow2Grows
<1>3. F \in Nat /\ M \in Nat
  BY DEF HasLevels
<1>4. q \in Nat /\ F < (2 * S) * q + 2 * S
  BY <1>1, <1>2, <1>3, LengthIs
<1> HIDE DEF q, S
<1>5. q + 1 <= M
  BY <1>1, <1>3, <1>4
<1>6. (2 * S) * q + 2 * S = (2 * S) * (q + 1)
  BY <1>2, <1>4
<1>7. (2 * S) * (q + 1) <= (2 * S) * M
  BY <1>2, <1>3, <1>4, <1>5
<1>8. (2 * S) * M = (2 * M) * S
  BY <1>2, <1>3
<1>9. F < (2 * M) * S
  BY <1>2, <1>3, <1>4, <1>6, <1>7, <1>8
<1> QED
  BY <1>9 DEF S

LEMMA DistanceIs ==
    ASSUME NEW F, NEW M, HasLevels(F, M), NEW w \in Nat, NEW i \in 0..Last(F, M)
    PROVE  LET a == w * (Pow2[Last(F, M)] \div Pow2[i])
               b == M * Pow2[Last(F, M)] IN
           /\ a \in Nat /\ b \in Nat /\ Distance(F, M, w, i) \in Nat
           /\ a <= b => Distance(F, M, w, i) = b - a
           /\ a >= b => Distance(F, M, w, i) = a - b
<1> DEFINE a == w * (Pow2[Last(F, M)] \div Pow2[i])
           b == M * Pow2[Last(F, M)]
<1>1. a \in Nat /\ b \in Nat
  BY ScaleIs DEF HasLevels
<1>2. Distance(F, M, w, i) = IF a - b < 0 THEN -(a - b) ELSE a - b
  BY DEF Distance
<1> HIDE DEF a, b
<1>3. /\ Distance(F, M, w, i) \in Nat
      /\ (a <= b => Distance(F, M, w, i) = b - a)
      /\ (a >= b => Distance(F, M, w, i) = a - b)
  BY <1>1, <1>2
<1> QED
  BY <1>1, <1>3 DEF a, b

\* A window that is no wider than the spectrum is close enough at some level, ...
LEMMA ClosestExists ==
    ASSUME NEW F, NEW M, HasLevels(F, M), NEW w \in 0..F
    PROVE  Closest(F, M, w) # {}
<1> DEFINE L == Last(F, M)
           b == M * Pow2[L]
           d(i) == Distance(F, M, w, i)
           D == {d(i) : i \in 0..L}
<1>1. L \in Nat /\ L \in 0..L /\ w \in Nat /\ F \in Nat /\ M \in Nat \ {0}
  BY LevelsIs DEF HasLevels
<1>2. \A i \in 0..L : d(i) \in Nat
  BY <1>1, DistanceIs
<1>3. PICK i \in 0..L : \A j \in 0..L : d(i) <= d(j)
  <2> HIDE DEF d, L
  <2>1. D \in SUBSET Nat /\ D # {}
    BY <1>1, <1>2
  <2> HIDE DEF D
  <2>2. PICK x \in D : \A e \in D : x <= e
    BY <2>1, LeastOf
  <2> QED
    BY <2>2 DEF D
<1>4. Pow2[L] \in Nat \ {0} /\ Pow2[L] \div Pow2[L] = 1
  <2>1. Pow2[L] \in Nat \ {0}
    BY <1>1, Pow2Grows
  <2> HIDE DEF L
  <2> QED
    BY <2>1
<1>5. b \in Nat /\ (2 * M) * Pow2[L] = 2 * b /\ F < 2 * b
  <2>1. F < (2 * M) * Pow2[L]
    BY WidthBound
  <2> HIDE DEF L
  <2> QED
    BY <1>1, <1>4, <2>1
<1>6. d(L) < 2 * b
  <2> DEFINE a == w * (Pow2[L] \div Pow2[L])
  <2>1. a = w
    BY <1>1, <1>4
  <2>2. /\ a <= b => d(L) = b - a
        /\ a >= b => d(L) = a - b
    <3>1. HasLevels(F, M) /\ w \in Nat /\ L \in 0..Last(F, M)
      BY <1>1
    <3> QED
      BY <3>1, DistanceIs, ZenonT(30)
  <2> HIDE DEF a, b, d, L
  <2> QED
    BY <1>1, <1>5, <2>1, <2>2
<1>7. d(i) < 2 * M * Pow2[L]
  <2>1. d(i) \in Nat /\ d(L) \in Nat /\ d(i) <= d(L)
    BY <1>1, <1>2, <1>3
  <2> HIDE DEF b, d, L
  <2> QED
    BY <1>5, <1>6, <2>1
<1> QED
  BY <1>3, <1>7 DEF Closest

\* ... where it is one bin wide at least, as it would be closer one level up,
\* unless the last level may have a single bin.
LEMMA WideEnough ==
    ASSUME NEW F, NEW M, HasLevels(F, M), M >= 2, NEW w \in Nat \ {0},
           NEW i \in Closest(F, M, w)
    PROVE  w >= Pow2[i]
<1>1. i \in 0..Last(F, M) /\ i \in Nat /\ Last(F, M) \in Nat /\ M \in Nat
  BY LevelsIs, ClosestAreLevels DEF HasLevels
<1>2. CASE i = 0
  BY <1>2, Pow2Doubles
<1>3. CASE i # 0
  <2> DEFINE P == Pow2[i - 1]
             S == Pow2[Last(F, M)]
             Q == S \div Pow2[i]
             R == S \div Pow2[i - 1]
  <2>1. i - 1 \in 0..Last(F, M) /\ i - 1 \in Nat /\ (i - 1) + 1 = i
    BY <1>1, <1>3
  <2>2. P \in Nat \ {0} /\ Pow2[i] = 2 * P
    BY <2>1, Pow2Doubles, ScaleIs
  <2>3. /\ Q \in Nat \ {0} /\ R \in Nat \ {0} /\ S \in Nat \ {0}
        /\ S = Q * (2 * P) /\ S = R * P
    BY <1>1, <2>1, <2>2, ScaleIs
  <2>4. Distance(F, M, w, i) <= Distance(F, M, w, i - 1)
    BY <1>1, <2>1 DEF Closest
  <2>5. /\ w * Q <= M * S => Distance(F, M, w, i) = M * S - w * Q
        /\ w * R <= M * S => Distance(F, M, w, i - 1) = M * S - w * R
    BY <1>1, <2>1, DistanceIs
  <2> HIDE DEF P, Q, R, S
  <2> SUFFICES ASSUME w < 2 * P PROVE FALSE
    BY <2>2
  <2>6. R = 2 * Q /\ w * R = 2 * (w * Q)
    <3>1. Q * (2 * P) = (2 * Q) * P
      BY <2>2, <2>3
    <3>2. \A x, y \in Nat : x * P = y * P => x = y
      BY <2>2
    <3>3. R = 2 * Q
      BY <2>3, <3>1, <3>2
    <3> QED
      BY <2>3, <3>3
  <2>7. w * Q < S /\ w * Q \in Nat \ {0}
    <3>1. w * Q < (2 * P) * Q /\ (2 * P) * Q = Q * (2 * P)
      BY <2>2, <2>3
    <3> QED
      BY <2>2, <2>3, <3>1
  <2>8. M * S \in Nat /\ M * S >= 2 * S
    BY <1>1, <2>3
  <2> DEFINE x == w * Q
             y == M * S
  <2>9. x < S /\ x \in Nat \ {0} /\ y \in Nat /\ y >= 2 * S
    BY <2>7, <2>8
  <2>10. /\ x <= y => Distance(F, M, w, i) = y - x
         /\ 2 * x <= y => Distance(F, M, w, i - 1) = y - 2 * x
    BY <2>5, <2>6
  <2> HIDE DEF x, y
  <2>11. x <= y /\ 2 * x <= y
    BY <2>3, <2>9
  <2>12. y - x <= y - 2 * x
    BY <2>4, <2>10, <2>11
  <2> QED
    BY <2>9, <2>12
<1> QED
  BY <1>2, <1>3

\* Rounding to a level moves an end by half a bin at most, keeps the ends of a window in
\* order, and apart if the window is one bin wide there, and past the end of the level
\* only if it ends past the bins the level is made of.
LEMMA RoundedFits ==
    ASSUME NEW F \in Nat, NEW i \in Nat, NEW l \in Nat, NEW r \in Nat, l <= r
    PROVE  /\ Rounded(l, i) \in Nat /\ Rounded(r, i) \in Nat
           /\ 2 * (Rounded(l, i) * Pow2[i] - l) \in -Pow2[i]..Pow2[i]
           /\ 2 * (Rounded(r, i) * Pow2[i] - r) \in -Pow2[i]..Pow2[i]
           /\ Rounded(l, i) <= Rounded(r, i)
           /\ r - l >= Pow2[i] => Rounded(l, i) < Rounded(r, i)
           /\ Rounded(r, i) > LevelLength(F, i) => r > Pow2[i] * LevelLength(F, i)
<1> DEFINE P == Pow2[i]
           N == LevelLength(F, i)
           x == Rounded(l, i)
           y == Rounded(r, i)
<1>1. P \in Nat \ {0} /\ N \in Nat
  BY LengthIs
<1>2. Pow2[i + 1] = 2 * P
  BY Pow2Doubles
<1>3. x = (2 * l + P) \div (2 * P) /\ y = (2 * r + P) \div (2 * P)
  BY <1>2 DEF Rounded
<1> HIDE DEF P, N, x, y
<1>4. 2 * P \in Nat \ {0} /\ 2 * l + P \in Nat /\ 2 * r + P \in Nat
  BY <1>1
<1>5. x \in Nat /\ (2 * P) * x <= 2 * l + P /\ 2 * l + P < (2 * P) * x + 2 * P
  BY <1>3, <1>4, Quotient
<1>6. y \in Nat /\ (2 * P) * y <= 2 * r + P /\ 2 * r + P < (2 * P) * y + 2 * P
  BY <1>3, <1>4, Quotient
<1> DEFINE a == x * P
           b == y * P
           c == P * N
<1>7. a \in Nat /\ b \in Nat /\ c \in Nat /\ (2 * P) * x = 2 * a /\ (2 * P) * y = 2 * b
  BY <1>1, <1>5, <1>6
<1>8. \A u, v \in Nat : u < v => u * P + P <= v * P
  <2> TAKE u, v \in Nat
  <2>1. u < v => (u + 1) * P <= v * P
    BY <1>1
  <2>2. (u + 1) * P = u * P + P
    BY <1>1
  <2> QED
    BY <2>1, <2>2
<1>9. (y < x => b + P <= a) /\ (y = x => b = a)
  BY <1>5, <1>6, <1>8
<1>10. N < y => c + P <= b
  <2>1. c = N * P
    BY <1>1
  <2> QED
    BY <1>1, <1>6, <1>8, <2>1
<1> HIDE DEF a, b, c
<1>11. x <= y
  BY <1>1, <1>5, <1>6, <1>7, <1>9
<1>12. r - l >= P => x < y
  BY <1>1, <1>5, <1>6, <1>7, <1>9
<1>13. y > N => r > c
  BY <1>1, <1>5, <1>6, <1>7, <1>10
<1>14. 2 * (a - l) \in -P..P /\ 2 * (b - r) \in -P..P
  BY <1>1, <1>5, <1>6, <1>7
<1> QED
  BY <1>5, <1>6, <1>11, <1>12, <1>13, <1>14 DEF P, N, x, y, a, b, c

\* The window a message is given: of a level, in order, each end within half a bin of
\* the end asked for, and past its level only if it was asked for past the spectrum; a
\* window wider than the spectrum may be left as it is.
LEMMA WindowIs ==
    ASSUME NEW F, NEW M, HasLevels(F, M), NEW l \in Nat, NEW r \in Nat, l < r,
           NEW w, w = Window(F, M, l, r)
    PROVE  /\ w.level \in 0..Last(F, M) /\ w.l \in Nat /\ w.r \in Nat /\ w.l <= w.r
           /\ M >= 2 => w.l < w.r
           /\ \/ /\ 2 * (w.l * Pow2[w.level] - l) \in -Pow2[w.level]..Pow2[w.level]
                 /\ 2 * (w.r * Pow2[w.level] - r) \in -Pow2[w.level]..Pow2[w.level]
              \/ w.l = l /\ w.r = r /\ w.level = Last(F, M) /\ r - l > F
           /\ w.r > LevelLength(F, w.level) => r > Pow2[w.level] * LevelLength(F, w.level)
<1>1. r - l \in Nat \ {0} /\ F \in Nat /\ l <= r /\ Last(F, M) \in Nat
  BY LevelsIs DEF HasLevels
<1> DEFINE C == Closest(F, M, r - l)
           i == First(C)
<1>2. C \subseteq 0..Last(F, M) /\ C \in SUBSET Nat
  BY <1>1, ClosestAreLevels
<1>3. CASE C = {}
  <2> DEFINE n == Last(F, M)
  <2>1. w.level = n /\ w.l = l /\ w.r = r
    BY <1>3 DEF Window
  <2>2. r - l > F
    BY <1>1, <1>3, ClosestExists
  <2> DEFINE p == Pow2[n]
             q == LevelLength(F, n)
  <2>3. p * q <= F /\ p \in Nat /\ q \in Nat
    BY <1>1, LengthIs
  <2>4. r > p * q
    <3> HIDE DEF n, p, q
    <3>1. p * q \in Nat
      BY <2>3
    <3> QED
      BY <1>1, <2>2, <2>3, <3>1
  <2> QED
    BY <1>1, <2>1, <2>2, <2>4
<1>4. CASE C # {}
  <2>1. i \in C
    <3> HIDE DEF C
    <3> QED
      BY <1>2, <1>4, FirstIs
  <2>2. w = [level |-> i, l |-> Rounded(l, i), r |-> Rounded(r, i)]
    BY <1>4 DEF Window
  <2>3. M >= 2 => r - l >= Pow2[i]
    BY <1>1, <2>1, WideEnough
  <2>4. i \in 0..Last(F, M) /\ i \in Nat
    BY <1>2, <2>1
  <2> HIDE DEF i
  <2> DEFINE x == Rounded(l, i)
             y == Rounded(r, i)
  <2>5. /\ x \in Nat /\ y \in Nat /\ x <= y
        /\ 2 * (x * Pow2[i] - l) \in -Pow2[i]..Pow2[i]
        /\ 2 * (y * Pow2[i] - r) \in -Pow2[i]..Pow2[i]
        /\ r - l >= Pow2[i] => x < y
        /\ y > LevelLength(F, i) => r > Pow2[i] * LevelLength(F, i)
    BY <1>1, <2>4, RoundedFits
  <2> HIDE DEF x, y
  <2>6. w.level = i /\ w.l = x /\ w.r = y
    BY <2>2 DEF x, y
  <2> QED
    BY <2>3, <2>4, <2>5, <2>6
<1> QED
  BY <1>3, <1>4
=============================================================================
