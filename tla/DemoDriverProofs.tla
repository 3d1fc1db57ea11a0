-------------------------- MODULE DemoDriverProofs --------------------------
(***************************************************************************)
(* Proofs about the demonstration, for windows and histories of any size,  *)
(* any set of readings and any pool of faults, however many at once.       *)
(***************************************************************************)
EXTENDS DemoDriver, SequenceTheorems, FiniteSetTheorems, WellFoundedInduction, TLAPS

FaultType    == [owner : 1 .. MaxOwners, kind : Kind, stopping : BOOLEAN]
ScenarioType == [owner : 1 .. MaxOwners, kind : Kind]
HistoryEntry == [gap : Gap, value : 0 .. MaxValue, failing : BOOLEAN]

-----------------------------------------------------------------------------
(* Sums over a sequence, by least counterexamples.                         *)

LEMMA LeastNat ==
    ASSUME NEW S \in SUBSET Nat, S # {}
    PROVE  \E i \in S : \A j \in S : i <= j
<1>1. \E i \in S : \A j \in S : <<j, i>> \notin OpToRel(<, Nat)
  BY NatLessThanWellFounded, WFMin
<1>2. \A i, j \in Nat : <<j, i>> \notin OpToRel(<, Nat) => ~(j < i)
  BY DEF OpToRel
<1>3. \A i, j \in Nat : ~(j < i) => i <= j
  OBVIOUS
<1>4. QED
  BY <1>1, <1>2, <1>3

\* A set of numbers up to n that has 0, and j with every j - 1, has all of them.
LEMMA Climb ==
    ASSUME NEW n \in Nat, NEW S, 0 \in S, \A j \in 1 .. n : j - 1 \in S => j \in S
    PROVE  \A j \in 0 .. n : j \in S
<1> DEFINE left == {j \in 0 .. n : j \notin S}
<1>1. SUFFICES ASSUME left # {} PROVE FALSE
  OBVIOUS
<1>2. left \in SUBSET Nat
  OBVIOUS
<1>3. \E i \in left : \A j \in left : i <= j
  <2> HIDE DEF left
  <2>1. QED
    BY <1>1, <1>2, LeastNat
<1>4. PICK i \in left : \A j \in left : i <= j
  BY <1>3
<1>5. i \in 1 .. n
  BY <1>4
<1>6. i - 1 \in 0 .. n /\ ~(i <= i - 1)
  BY <1>5
<1>7. i - 1 \in S
  BY <1>4, <1>6
<1>8. QED
  BY <1>4, <1>5, <1>7

\* The sums of the prefixes lead to the total.
LEMMA PrefixSums ==
    ASSUME NEW s \in Seq(Int)
    PROVE  \E f \in [0 .. Len(s) -> Int] :
              /\ f[0] = 0 /\ Total(s) = f[Len(s)]
              /\ \A n \in 1 .. Len(s) : f[n] = f[n - 1] + s[n]
<1> DEFINE Sums(n) == {g \in [0 .. n -> Int] :
                          g[0] = 0 /\ \A i \in 1 .. n : g[i] = g[i - 1] + s[i]}
           Summed  == {n \in Nat : Sums(n) # {}}
<1>1. Len(s) \in Nat /\ \A i \in 1 .. Len(s) : s[i] \in Int
  OBVIOUS
<1>2. 0 \in Summed
  <2>1. [i \in 0 .. 0 |-> 0] \in Sums(0)
    OBVIOUS
  <2>2. QED
    BY <2>1
<1>3. ASSUME NEW n \in 1 .. Len(s), n - 1 \in Summed
      PROVE  n \in Summed
  <2>1. PICK g \in [0 .. n - 1 -> Int] : g[0] = 0 /\ \A i \in 1 .. n - 1 : g[i] = g[i - 1] + s[i]
    BY <1>3
  <2> DEFINE h == [i \in 0 .. n |-> IF i = n THEN g[n - 1] + s[n] ELSE g[i]]
  <2>2. n - 1 \in 0 .. n - 1 /\ g[n - 1] \in Int /\ s[n] \in Int
    BY <1>1, <2>1
  <2>3. h \in [0 .. n -> Int]
    <3>1. ASSUME NEW i \in 0 .. n, i # n PROVE g[i] \in Int
      <4>1. i \in 0 .. n - 1
        BY <3>1
      <4>2. QED
        BY <4>1
    <3>2. QED
      BY <2>2, <3>1
  <2>4. h[n] = g[n - 1] + s[n] /\ \A i \in 0 .. n - 1 : h[i] = g[i]
    OBVIOUS
  <2> HIDE DEF h
  <2>5. h[0] = 0
    BY <2>1, <2>4
  <2>6. ASSUME NEW i \in 1 .. n PROVE h[i] = h[i - 1] + s[i]
    <3>1. i - 1 \in 0 .. n - 1
      OBVIOUS
    <3>2. CASE i = n
      BY <2>4, <3>1, <3>2
    <3>3. CASE i # n
      <4>1. i \in 1 .. n - 1 /\ i \in 0 .. n - 1
        BY <3>3
      <4>2. QED
        BY <2>1, <2>4, <3>1, <4>1
    <3>4. QED
      BY <3>2, <3>3
  <2>7. h \in Sums(n)
    BY <2>3, <2>5, <2>6
  <2>8. n \in Nat
    OBVIOUS
  <2>9. QED
    BY <2>7, <2>8
<1>4. Len(s) \in Summed
  <2> HIDE DEF Summed
  <2>1. \A j \in 0 .. Len(s) : j \in Summed
    BY <1>1, <1>2, <1>3, Climb
  <2>2. QED
    BY <1>1, <2>1
<1>5. PICK g \in [0 .. Len(s) -> Int] : g[0] = 0 /\ \A i \in 1 .. Len(s) : g[i] = g[i - 1] + s[i]
  BY <1>4
<1> DEFINE Recurs(f) == f = [n \in 0 .. Len(s) |-> IF n = 0 THEN 0 ELSE f[n - 1] + s[n]]
           total     == CHOOSE f : Recurs(f)
<1>6. Recurs(g)
  <2>1. \A n \in 0 .. Len(s) : g[n] = IF n = 0 THEN 0 ELSE g[n - 1] + s[n]
    BY <1>5
  <2>2. QED
    BY <1>5, <2>1
<1>7. Recurs(total)
  <2> HIDE DEF Recurs
  <2>1. QED
    BY <1>6
<1>8. Total(s) = total[Len(s)]
  BY DEF Total
<1> HIDE DEF total
<1>9. /\ DOMAIN total = 0 .. Len(s) /\ total = [n \in 0 .. Len(s) |-> total[n]]
      /\ total[0] = 0 /\ \A n \in 1 .. Len(s) : total[n] = total[n - 1] + s[n]
  <2>1. 0 \in 0 .. Len(s) /\ \A n \in 1 .. Len(s) : n \in 0 .. Len(s) /\ n # 0
    BY <1>1
  <2>2. QED
    BY <1>7, <2>1
<1>10. ASSUME NEW n \in 0 .. Len(s) PROVE total[n] \in Int
  <2> DEFINE whole == {i \in 0 .. Len(s) : total[i] \in Int}
  <2>1. 0 \in whole
    BY <1>1, <1>9
  <2>2. ASSUME NEW i \in 1 .. Len(s), i - 1 \in whole PROVE i \in whole
    <3>1. total[i - 1] \in Int /\ s[i] \in Int /\ total[i] = total[i - 1] + s[i]
      BY <1>1, <1>9, <2>2
    <3>2. total[i] \in Int /\ i \in 0 .. Len(s)
      BY <1>1, <3>1
    <3>3. QED
      BY <3>2
  <2> HIDE DEF whole
  <2>3. n \in whole
    BY <1>1, <2>1, <2>2, Climb
  <2>4. QED
    BY <2>3 DEF whole
<1>11. total \in [0 .. Len(s) -> Int]
  BY <1>9, <1>10
<1>12. QED
  BY <1>8, <1>9, <1>11

-----------------------------------------------------------------------------
(* A value is a spike only while it is rare.                               *)

\* A common factor goes.
LEMMA Cancel ==
    ASSUME NEW m \in Nat \ {0}, NEW p \in Int, NEW q \in Int, m * p <= m * q
    PROVE  p <= q
<1>1. SUFFICES ASSUME q + 1 <= p PROVE FALSE
  OBVIOUS
<1> DEFINE d == p - q - 1
<1>2. d \in Nat /\ p = q + 1 + d
  BY <1>1
<1> HIDE DEF d
<1>3. m * p = m * q + m + m * d /\ m * d >= 0
  BY <1>2
<1>4. m * q \in Int /\ m * d \in Int
  BY <1>2
<1>5. QED
  BY <1>3, <1>4

LEMMA SquareNotNegative == \A t \in Int : t * t >= 0
OBVIOUS

\* One more term in a sum a of m terms and in the sum b of their squares.
LEMMA OneMoreTerm ==
    ASSUME NEW m \in Nat, NEW a \in Int, NEW b \in Nat, NEW v \in Int, a * a <= m * b
    PROVE  (a + v) * (a + v) <= (m + 1) * (b + v * v)
<1>1. 2 * (a * v) <= b + m * (v * v)
  <2>1. CASE m = 0
    <3>1. a * a <= 0
      BY <2>1
    <3>2. a = 0
      BY <3>1
    <3>3. QED
      BY <2>1, <3>2
  <2>2. CASE m # 0
    <3> DEFINE t == a - m * v
    <3>1. t * t >= 0
      BY SquareNotNegative
    <3>2. t * t = a * a - m * (2 * (a * v)) + m * (m * (v * v))
      OBVIOUS
    <3>3. m * (b + m * (v * v)) = m * b + m * (m * (v * v))
      OBVIOUS
    <3> HIDE DEF t
    <3>4. m * (2 * (a * v)) <= m * (b + m * (v * v))
      BY <3>1, <3>2, <3>3
    <3>5. 2 * (a * v) \in Int /\ b + m * (v * v) \in Int
      OBVIOUS
    <3>6. QED
      BY <2>2, <3>4, <3>5, Cancel
  <2>3. QED
    BY <2>1, <2>2
<1>2. (a + v) * (a + v) = a * a + 2 * (a * v) + v * v
  OBVIOUS
<1>3. (m + 1) * (b + v * v) = m * b + m * (v * v) + b + v * v
  OBVIOUS
<1>4. QED
  BY <1>1, <1>2, <1>3

\* Of n terms all but k are not zero; a is their sum, b that of their squares.
\* When a is further out than the threshold, k is small.
LEMMA FewZeros ==
    ASSUME NEW n \in Nat, NEW k \in 0 .. n, NEW a \in Int, NEW b \in Nat, NEW T \in Nat,
           a * a <= (n - k) * b, n * b - a * a # 0, a * a >= T * (n * b - a * a)
    PROVE  (T + 1) * k <= n
<1>1. b # 0
  <2>1. SUFFICES ASSUME b = 0 PROVE FALSE
    OBVIOUS
  <2>2. a * a <= 0 /\ n * b = 0
    BY <2>1
  <2>3. a = 0
    BY <2>2
  <2>4. QED
    BY <2>2, <2>3
<1> DEFINE m == n - k
<1>2. m \in Nat
  OBVIOUS
<1>3. (T + 1) * (a * a) >= T * (n * b)
  OBVIOUS
<1>4. (T + 1) * (a * a) <= (T + 1) * (m * b)
  OBVIOUS
<1>5. b * (T * n) <= b * ((T + 1) * m)
  <2>1. b * (T * n) = T * (n * b) /\ b * ((T + 1) * m) = (T + 1) * (m * b)
    OBVIOUS
  <2>2. /\ T * (n * b) \in Int /\ (T + 1) * (m * b) \in Int /\ (T + 1) * (a * a) \in Int
    OBVIOUS
  <2>3. QED
    BY <1>3, <1>4, <2>1, <2>2
<1>6. T * n <= (T + 1) * m
  <2>1. T * n \in Int /\ (T + 1) * m \in Int
    OBVIOUS
  <2>2. QED
    BY <1>1, <1>5, <2>1, Cancel
<1>7. (T + 1) * m = T * n + n - (T + 1) * k
  OBVIOUS
<1>8. QED
  BY <1>6, <1>7

\* One more reading y, off x, in the sum q of the squares.
LEMMA Shifted ==
    ASSUME NEW j \in Int, NEW x \in Int, NEW s \in Int, NEW q \in Int, NEW y \in Int
    PROVE  (q + y * y) - 2 * (x * (s + y)) + j * (x * x)
             = (q - 2 * (x * s) + (j - 1) * (x * x)) + (y - x) * (y - x)
OBVIOUS

\* The detector's comparison on a whole window.
LEMMA ExceedsRarely ==
    ASSUME NEW w \in Seq(Int), NEW x \in Int, TRUE \in Exceeds(x, w)
    PROVE  (Threshold2 + 1) * Cardinality({i \in DOMAIN w : w[i] = x}) <= Len(w)
<1> DEFINE n       == Len(w)
           sq      == [i \in DOMAIN w |-> w[i] * w[i]]
           same(j) == {i \in 1 .. j : w[i] = x}
           k(j)    == Cardinality(same(j))
<1>1. n \in Nat /\ DOMAIN w = 1 .. n /\ \A i \in 1 .. n : w[i] \in Int
  OBVIOUS
<1>2. sq \in Seq(Int) /\ Len(sq) = n /\ \A i \in 1 .. n : sq[i] = w[i] * w[i]
  <2>1. \A i \in 1 .. n : w[i] * w[i] \in Int
    BY <1>1
  <2>2. QED
    BY <1>1, <2>1
<1>3. PICK S \in [0 .. n -> Int] :
          /\ S[0] = 0 /\ Total(w) = S[n] /\ \A j \in 1 .. n : S[j] = S[j - 1] + w[j]
  BY PrefixSums
<1>4. PICK Q \in [0 .. n -> Int] :
          /\ Q[0] = 0 /\ Squares(w) = Q[n] /\ \A j \in 1 .. n : Q[j] = Q[j - 1] + w[j] * w[j]
  <2> HIDE DEF sq
  <2>1. PICK Q \in [0 .. n -> Int] :
            /\ Q[0] = 0 /\ Total(sq) = Q[n] /\ \A j \in 1 .. n : Q[j] = Q[j - 1] + sq[j]
    BY <1>2, PrefixSums
  <2>2. Squares(w) = Total(sq)
    BY DEF Squares, sq
  <2>3. QED
    BY <1>2, <2>1, <2>2
\* The sum of what the readings are off x, and of its squares.
<1> DEFINE a(j) == S[j] - j * x
           b(j) == Q[j] - 2 * (x * S[j]) + j * (x * x)
           Bounded == {j \in 0 .. n : /\ k(j) \in 0 .. j /\ b(j) >= 0 /\ IsFiniteSet(same(j))
                                      /\ a(j) * a(j) <= (j - k(j)) * b(j)}
<1>5. \A j \in 0 .. n : S[j] \in Int /\ Q[j] \in Int /\ a(j) \in Int /\ b(j) \in Int
  <2>1. \A j \in 0 .. n : S[j] \in Int /\ Q[j] \in Int /\ j \in Int
    BY <1>1, <1>3, <1>4
  <2>2. QED
    BY <2>1
<1>6. 0 \in Bounded
  <2>1. same(0) = {}
    OBVIOUS
  <2>2. k(0) = 0 /\ IsFiniteSet(same(0))
    BY <2>1, FS_EmptySet
  <2>3. a(0) = 0 /\ b(0) = 0
    BY <1>3, <1>4
  <2> HIDE DEF a, b, k, same
  <2>4. QED
    BY <1>1, <2>2, <2>3
<1>7. ASSUME NEW j \in 1 .. n, j - 1 \in Bounded
      PROVE  j \in Bounded
  <2> DEFINE v == w[j] - x
  <2>1. /\ j - 1 \in 0 .. n /\ j \in 0 .. n
        /\ S[j - 1] \in Int /\ Q[j - 1] \in Int /\ w[j] \in Int /\ v \in Int
        /\ S[j] = S[j - 1] + w[j] /\ Q[j] = Q[j - 1] + w[j] * w[j]
    <3>1. j - 1 \in 0 .. n /\ j \in 0 .. n
      BY <1>1
    <3>2. w[j] \in Int /\ v \in Int
      BY <1>1
    <3>3. S[j] = S[j - 1] + w[j] /\ Q[j] = Q[j - 1] + w[j] * w[j]
      BY <1>3, <1>4
    <3>4. S[j - 1] \in Int /\ Q[j - 1] \in Int
      BY <1>5, <3>1
    <3>5. QED
      BY <3>1, <3>2, <3>3, <3>4
  <2>2. a(j) = a(j - 1) + v
    BY <2>1
  <2>3. b(j) = b(j - 1) + v * v
    <3> DEFINE s == S[j - 1]
               q == Q[j - 1]
               y == w[j]
    <3>1. s \in Int /\ q \in Int /\ y \in Int /\ j \in Int
      BY <2>1
    <3>2. b(j) = (q + y * y) - 2 * (x * (s + y)) + j * (x * x)
      BY <2>1
    <3>3. b(j - 1) = q - 2 * (x * s) + (j - 1) * (x * x) /\ v * v = (y - x) * (y - x)
      OBVIOUS
    <3> HIDE DEF b, s, q, y, v
    <3>4. QED
      BY <3>1, <3>2, <3>3, Shifted
  <2>4. same(j) = IF w[j] = x THEN same(j - 1) \cup {j} ELSE same(j - 1)
    <3>1. 1 .. j = 1 .. (j - 1) \cup {j}
      BY <1>1
    <3>2. QED
      BY <3>1
  <2>5. j \notin same(j - 1)
    BY <1>1
  <2>6. /\ k(j - 1) \in 0 .. j - 1 /\ b(j - 1) \in Nat /\ IsFiniteSet(same(j - 1))
        /\ a(j - 1) * a(j - 1) <= (j - 1 - k(j - 1)) * b(j - 1)
    BY <1>5, <1>7, <2>1
  <2>7. /\ IsFiniteSet(same(j)) /\ k(j) = IF w[j] = x THEN k(j - 1) + 1 ELSE k(j - 1)
    <3> HIDE DEF same
    <3>1. /\ IsFiniteSet(same(j - 1) \cup {j})
          /\ Cardinality(same(j - 1) \cup {j}) = Cardinality(same(j - 1)) + 1
      BY <2>5, <2>6, FS_AddElement
    <3>2. QED
      BY <2>4, <2>6, <3>1
  <2>8. a(j - 1) \in Int /\ b(j - 1) \in Nat
    BY <1>5, <2>1, <2>6
  <2> HIDE DEF a, b, k, same
  <2>9. CASE w[j] = x
    <3>1. v = 0
      BY <2>1, <2>9
    <3>2. a(j) = a(j - 1) /\ b(j) = b(j - 1)
      BY <2>2, <2>3, <2>8, <3>1
    <3>3. j - k(j) = j - 1 - k(j - 1) /\ k(j) \in 0 .. j
      <4>1. k(j - 1) \in 0 .. j - 1 /\ k(j) = k(j - 1) + 1
        BY <2>6, <2>7, <2>9
      <4>2. QED
        BY <4>1
    <3>4. a(j) * a(j) <= (j - k(j)) * b(j)
      BY <2>6, <3>2, <3>3
    <3>5. b(j) >= 0
      BY <2>6, <3>2
    <3>6. QED
      BY <2>1, <2>7, <3>3, <3>4, <3>5
  <2>10. CASE w[j] # x
    <3> DEFINE m == j - 1 - k(j - 1)
    <3>1. m \in Nat /\ j - k(j) = m + 1 /\ k(j) \in 0 .. j
      BY <2>6, <2>7, <2>10
    <3>2. a(j - 1) * a(j - 1) <= m * b(j - 1)
      BY <2>6
    <3> HIDE DEF m, v
    <3>3. (a(j - 1) + v) * (a(j - 1) + v) <= (m + 1) * (b(j - 1) + v * v)
      BY <2>1, <2>8, <3>1, <3>2, OneMoreTerm
    <3>4. v * v >= 0 /\ v * v \in Int
      BY <2>1, SquareNotNegative
    <3>5. b(j) >= 0
      <4> DEFINE u == v * v
      <4>1. u \in Int /\ u >= 0 /\ b(j) = b(j - 1) + u
        BY <2>3, <3>4
      <4> HIDE DEF u
      <4>2. QED
        BY <2>8, <4>1
    <3>6. a(j) * a(j) <= (j - k(j)) * b(j)
      BY <2>2, <2>3, <3>1, <3>3
    <3>7. QED
      BY <2>1, <2>7, <3>1, <3>5, <3>6
  <2>11. QED
    BY <2>9, <2>10
<1>8. n \in Bounded
  <2> HIDE DEF Bounded
  <2>1. \A j \in 0 .. n : j \in Bounded
    BY <1>1, <1>6, <1>7, Climb
  <2>2. QED
    BY <1>1, <2>1
<1>9. /\ k(n) \in 0 .. n /\ b(n) \in Nat /\ a(n) \in Int
      /\ a(n) * a(n) <= (n - k(n)) * b(n)
  <2>1. a(n) \in Int /\ b(n) \in Int
    BY <1>1, <1>5
  <2> HIDE DEF a, b, k, same
  <2>2. QED
    BY <1>8, <2>1
<1>10. n * b(n) - a(n) * a(n) = Spread(w) /\ a(n) * a(n) = Off(x, w) * Off(x, w)
  <2>1. S[n] \in Int /\ Q[n] \in Int
    BY <1>1, <1>5
  <2>2. Spread(w) = n * Q[n] - S[n] * S[n] /\ Off(x, w) = n * x - S[n]
    BY <1>3, <1>4 DEF Spread, Off
  <2>3. n * b(n) - a(n) * a(n) = n * Q[n] - S[n] * S[n]
    BY <1>1, <2>1
  <2>4. a(n) * a(n) = (n * x - S[n]) * (n * x - S[n])
    BY <1>1, <2>1
  <2>5. QED
    BY <2>2, <2>3, <2>4
<1>11. Spread(w) # 0 /\ Off(x, w) * Off(x, w) - Threshold2 * Spread(w) >= 0
  BY DEF Exceeds
<1> HIDE DEF a, b
<1>12. /\ n * b(n) - a(n) * a(n) # 0
       /\ a(n) * a(n) >= Threshold2 * (n * b(n) - a(n) * a(n))
  <2> DEFINE A == a(n) * a(n)
             D == n * b(n) - A
  <2>1. A \in Int /\ D \in Int /\ D # 0 /\ A - Threshold2 * D >= 0
    BY <1>1, <1>9, <1>10, <1>11
  <2>2. Threshold2 * D \in Int
    BY <2>1, DetectorsAssumption
  <2>3. A >= Threshold2 * D
    BY <2>1, <2>2
  <2>4. QED
    BY <2>1, <2>3
<1>13. (Threshold2 + 1) * k(n) <= n
  <2> HIDE DEF k, n
  <2>1. QED
    BY <1>1, <1>9, <1>12, DetectorsAssumption, FewZeros
<1>14. QED
  BY <1>1, <1>13

-----------------------------------------------------------------------------
(* The detectors' windows and histories.                                   *)

\* What is kept of a sequence: at most n of its elements.
LEMMA LastOfFacts ==
    ASSUME NEW S, NEW s \in Seq(S), NEW n \in Nat
    PROVE  /\ LastOf(s, n) \in Seq(S)
           /\ Len(LastOf(s, n)) <= n
           /\ \A i \in DOMAIN LastOf(s, n) : \E k \in DOMAIN s : LastOf(s, n)[i] = s[k]
<1>1. Len(s) \in Nat /\ DOMAIN s = 1 .. Len(s) /\ \A k \in 1 .. Len(s) : s[k] \in S
  OBVIOUS
<1>2. CASE Len(s) <= n
  <2>1. LastOf(s, n) = s
    BY <1>1, <1>2 DEF LastOf
  <2>2. QED
    BY <1>2, <2>1
<1>3. CASE Len(s) > n
  <2> DEFINE m == Len(s) - n + 1
             t == SubSeq(s, m, Len(s))
  <2>1. LastOf(s, n) = t
    BY <1>3 DEF LastOf
  <2>2. m \in Int /\ Len(s) \in Int /\ m >= 1 /\ \A k \in m .. Len(s) : s[k] \in S
    BY <1>1, <1>3
  <2>3. /\ t \in Seq(S)
        /\ Len(t) = IF m <= Len(s) THEN Len(s) - m + 1 ELSE 0
        /\ \A i \in 1 .. Len(s) - m + 1 : t[i] = s[m + i - 1]
    BY <2>2, SubSeqProperties
  <2> HIDE DEF t
  <2>4. Len(t) = n
    BY <1>1, <2>3
  <2>5. ASSUME NEW i \in DOMAIN t PROVE \E k \in DOMAIN s : t[i] = s[k]
    <3>1. i \in 1 .. n
      BY <2>3, <2>4
    <3>2. m + i - 1 \in 1 .. Len(s) /\ i \in 1 .. Len(s) - m + 1
      BY <1>1, <1>3, <3>1
    <3>3. QED
      BY <1>1, <2>3, <3>2
  <2>6. QED
    BY <2>1, <2>3, <2>4, <2>5
<1>4. QED
  BY <1>1, <1>2, <1>3

\* The last of a sequence is kept.
LEMMA LastKept ==
    ASSUME NEW S, NEW s \in Seq(S), s # <<>>, NEW n \in Nat \ {0}
    PROVE  Len(LastOf(s, n)) \in Nat \ {0} /\ LastOf(s, n)[Len(LastOf(s, n))] = s[Len(s)]
<1>1. Len(s) \in Nat \ {0} /\ \A k \in 1 .. Len(s) : s[k] \in S
  OBVIOUS
<1>2. CASE Len(s) <= n
  <2>1. LastOf(s, n) = s
    BY <1>1, <1>2 DEF LastOf
  <2>2. QED
    BY <1>1, <2>1
<1>3. CASE Len(s) > n
  <2> DEFINE m == Len(s) - n + 1
             t == SubSeq(s, m, Len(s))
  <2>1. LastOf(s, n) = t
    BY <1>3 DEF LastOf
  <2>2. m \in 1 .. Len(s) /\ Len(s) \in Nat /\ \A k \in m .. Len(s) : s[k] \in S
    BY <1>1, <1>3
  <2>3. /\ Len(t) = Len(s) - m + 1
        /\ \A i \in 1 .. Len(s) - m + 1 : t[i] = s[m + i - 1]
    BY <2>2, SubSeqProperties
  <2> HIDE DEF t
  <2>4. Len(t) = n /\ n \in 1 .. Len(s) - m + 1 /\ m + n - 1 = Len(s)
    BY <1>1, <2>3
  <2>5. t[Len(t)] = s[Len(s)]
    BY <2>3, <2>4
  <2>6. QED
    BY <2>1, <2>4, <2>5
<1>4. QED
  BY <1>1, <1>2, <1>3

\* A cycle keeps the types, and a history of one kind of readings of that kind.
LEMMA RunFacts ==
    ASSUME TypeOK, NEW gap \in Gap, NEW value \in 0 .. MaxValue, NEW failing \in BOOLEAN,
           Run(gap, value, failing)
    PROVE  /\ window' \in Seq(0 .. MaxValue) /\ Len(window') <= MaxWindow
           /\ history' \in Seq(HistoryEntry) /\ Len(history') <= Keep'
           /\ flags' \subseteq AnomalyType
           /\ metric' = metric
           /\ (\A i \in DOMAIN history : history[i].failing = failing)
                => \A i \in DOMAIN history' : history'[i].failing = failing
<1>1. /\ window \in Seq(0 .. MaxValue)
      /\ history \in Seq(HistoryEntry) /\ Len(history) <= Keep
      /\ metric' = metric
  BY DEF TypeOK, HistoryEntry, Run
<1>2. flags' \subseteq AnomalyType
  BY DEF Run
<1>3. Keep' = Keep /\ Keep \in Nat /\ MaxWindow \in Nat
  BY <1>1, DetectorsAssumption DEF Keep
<1>4. window' \in Seq(0 .. MaxValue) /\ Len(window') <= MaxWindow
  <2> DEFINE w == Append(window, value)
  <2>1. w \in Seq(0 .. MaxValue)
    BY <1>1
  <2>2. window' = LastOf(w, MaxWindow)
    BY DEF Run
  <2> HIDE DEF w
  <2>3. QED
    BY <1>3, <2>1, <2>2, LastOfFacts
<1>5. CASE metric \in Proc
  <2>1. history' = history
    BY <1>5 DEF Run
  <2>2. QED
    BY <1>1, <1>2, <1>3, <1>4, <2>1
<1>6. CASE metric \notin Proc
  <2> DEFINE entry == [gap |-> gap, value |-> value, failing |-> failing]
             h     == Append(history, entry)
  <2>1. history' = LastOf(h, Keep)
    BY <1>6 DEF Run
  <2>2. entry \in HistoryEntry /\ entry.failing = failing
    BY DEF HistoryEntry
  <2> HIDE DEF entry
  <2>3. h \in Seq(HistoryEntry)
    BY <1>1, <2>2
  <2>4. \A k \in DOMAIN h : (k \in DOMAIN history /\ h[k] = history[k]) \/ h[k] = entry
    BY <1>1, <2>2
  <2> HIDE DEF h
  <2>5. /\ history' \in Seq(HistoryEntry) /\ Len(history') <= Keep
        /\ \A i \in DOMAIN history' : \E k \in DOMAIN h : history'[i] = h[k]
    BY <1>3, <2>1, <2>3, LastOfFacts
  <2>6. \A i \in DOMAIN history' :
            (\E k \in DOMAIN history : history'[i] = history[k]) \/ history'[i] = entry
    BY <2>4, <2>5
  <2>7. QED
    BY <1>1, <1>2, <1>3, <1>4, <2>2, <2>5, <2>6
<1>7. QED
  BY <1>5, <1>6

-----------------------------------------------------------------------------
(* The scenarios' operations.                                              *)

LEMMA InjectFacts ==
    ASSUME faults \subseteq FaultType, NEW o \in 1 .. MaxOwners, NEW k \in Kind,
           Inject(o, k) \/ InjectNothing(k) \/ InjectRaises(o, k)
    PROVE  faults' \subseteq FaultType /\ \A f \in faults' : f \in faults \/ f.owner = o
<1>1. Fault(o, k) \in FaultType /\ Fault(o, k).owner = o
  BY DEF Fault, FaultType
<1>2. faults' = faults \/ faults' = faults \cup {Fault(o, k)}
  BY DEF Inject, InjectNothing, InjectRaises
<1>3. QED
  BY <1>1, <1>2

LEMMA CleanUpFacts ==
    ASSUME faults \subseteq FaultType, NEW o, CleanUp(o)
    PROVE  /\ faults' \subseteq FaultType
           /\ \A g \in faults' : g.stopping \/ (g \in faults /\ g.owner # o)
<1>1. CASE faults' = faults \ Of(o)
  BY <1>1 DEF Of
<1>2. CASE faults' = {IF f \in Of(o) THEN [f EXCEPT !.stopping = TRUE] ELSE f : f \in faults}
  <2>1. ASSUME NEW g \in faults'
        PROVE  g \in FaultType /\ (g.stopping \/ (g \in faults /\ g.owner # o))
    <3>1. PICK f \in faults : g = IF f \in Of(o) THEN [f EXCEPT !.stopping = TRUE] ELSE f
      BY <1>2
    <3>2. f \in FaultType
      OBVIOUS
    <3>3. CASE f \in Of(o)
      BY <3>1, <3>2, <3>3 DEF FaultType
    <3>4. CASE f \notin Of(o)
      BY <3>1, <3>2, <3>4 DEF Of
    <3>5. QED
      BY <3>3, <3>4
  <2>2. QED
    BY <2>1
<1>3. QED
  BY <1>1, <1>2 DEF CleanUp

-----------------------------------------------------------------------------
(* Every step.                                                             *)

LEMMA InitInv == Init => IInv
<1> SUFFICES ASSUME Init PROVE IInv
  OBVIOUS
<1>1. /\ window = << >> /\ history = << >> /\ flags = {} /\ metric \in Metric
      /\ faults = {} /\ phase = "idle" /\ scenarios = << >> /\ at = 1
      /\ rested = FALSE /\ ce_count = 0
  BY DEF Init, DetectorsInit, NoFaults
<1>2. Keep \in Nat /\ MaxWindow \in Nat /\ MaxValue \in Nat
  BY DetectorsAssumption, DemoDriverAssumption DEF Keep
<1>3. TypeOK
  <2>1. /\ window \in Seq(0 .. MaxValue) /\ Len(window) = 0
        /\ history \in Seq([gap : Gap, value : 0 .. MaxValue, failing : BOOLEAN])
        /\ Len(history) = 0
        /\ scenarios \in Seq([owner : 1 .. MaxOwners, kind : Kind]) /\ Len(scenarios) = 0
    BY <1>1
  <2>2. at \in 1 .. Len(scenarios) + 1
    BY <1>1, <2>1
  <2>3. Len(window) <= MaxWindow /\ Len(history) <= Keep
    BY <1>2, <2>1
  <2>4. /\ metric \in Metric /\ flags \subseteq AnomalyType
        /\ faults \subseteq [owner : 1 .. MaxOwners, kind : Kind, stopping : BOOLEAN]
        /\ phase \in {"idle", "healthy", "hardware", "inject", "fault", "cleanup", "stopped"}
        /\ rested \in BOOLEAN
    BY <1>1
  <2>5. ce_count \in 0 .. MaxValue
    BY <1>1, <1>2
  <2>6. QED
    BY <2>1, <2>2, <2>3, <2>4, <2>5 DEF TypeOK
<1>4. HistoryOK /\ FaultsOK
  BY <1>1 DEF HistoryOK, FaultsOK
<1>5. QED
  BY <1>3, <1>4 DEF IInv

\* A phase that begins or ends with its history in order.
LEMMA ClearedFacts ==
    ASSUME TypeOK, ClearHistory
    PROVE  /\ history' \in Seq(HistoryEntry) /\ Len(history') <= Keep'
           /\ \A i \in DOMAIN history' : FALSE
           /\ UNCHANGED <<metric, window, flags>>
<1>1. history' = << >> /\ UNCHANGED <<metric, window, flags>>
  BY DEF ClearHistory
<1>2. Keep' \in Nat
  BY <1>1, DetectorsAssumption DEF Keep
<1>3. QED
  BY <1>1, <1>2

LEMMA IInvStep ==
    ASSUME IInv, [Next]_vars
    PROVE  IInv'
<1> USE DEF IInv, Goto, Dies, detectors, driver
<1>0. /\ faults \subseteq FaultType /\ scenarios \in Seq(ScenarioType)
      /\ Len(scenarios) \in Nat /\ DOMAIN scenarios = 1 .. Len(scenarios)
      /\ at \in 1 .. Len(scenarios) + 1
      /\ MaxValue \in Nat
  BY DemoDriverAssumption DEF TypeOK, FaultType, ScenarioType
<1>1. CASE run_healthy
  <2>1. /\ UNCHANGED <<metric, window, history, flags, faults, scenarios, rested>>
        /\ phase = "idle" /\ phase' = "healthy" /\ at' = 1 /\ ce_count' = 0
    BY <1>1 DEF run_healthy
  <2>2. TypeOK'
    BY <1>0, <2>1 DEF TypeOK, Keep
  <2>3. HistoryOK'
    BY <2>1 DEF HistoryOK, Failing
  <2>4. FaultsOK'
    BY <2>1 DEF FaultsOK, ToCleanUp
  <2>5. QED
    BY <2>2, <2>3, <2>4
<1>2. CASE run_hardware_fault
  <2>1. /\ UNCHANGED <<metric, window, flags, faults, scenarios, rested>>
        /\ phase = "idle" /\ phase' = "hardware" /\ at' = 1 /\ ce_count' = 0
        /\ history' \in Seq(HistoryEntry) /\ Len(history') <= Keep'
        /\ \A i \in DOMAIN history' : FALSE
    BY <1>2, ClearedFacts DEF run_hardware_fault
  <2>2. TypeOK'
    BY <1>0, <2>1 DEF TypeOK, HistoryEntry
  <2>3. HistoryOK'
    BY <2>1 DEF HistoryOK
  <2>4. FaultsOK'
    BY <2>1 DEF FaultsOK, ToCleanUp
  <2>5. QED
    BY <2>2, <2>3, <2>4
<1>3. CASE run_fault
  <2>1. PICK kinds \in Pool : \E owner \in Injection(DOMAIN kinds, 1 .. MaxOwners) :
            scenarios' = [i \in DOMAIN kinds |-> [owner |-> owner[i], kind |-> kinds[i]]]
    BY <1>3 DEF run_fault
  <2>2. PICK owner \in [DOMAIN kinds -> 1 .. MaxOwners] :
            scenarios' = [i \in DOMAIN kinds |-> [owner |-> owner[i], kind |-> kinds[i]]]
    BY <2>1 DEF Injection
  <2>3. kinds \in Seq(Kind)
    BY DemoDriverAssumption
  <2>4. scenarios' \in Seq(ScenarioType)
    <3>1. \A i \in DOMAIN kinds : [owner |-> owner[i], kind |-> kinds[i]] \in ScenarioType
      BY <2>2, <2>3 DEF ScenarioType
    <3>2. scenarios' \in [1 .. Len(kinds) -> ScenarioType] /\ Len(kinds) \in Nat
      BY <2>2, <2>3, <3>1
    <3>3. QED
      BY <3>2
  <2>5. /\ UNCHANGED <<metric, window, history, flags, faults, rested>>
        /\ phase = "idle" /\ phase' = "inject" /\ at' = 1 /\ ce_count' = 0
    BY <1>3 DEF run_fault
  <2>6. at' \in 1 .. Len(scenarios') + 1
    BY <2>4, <2>5
  <2>7. TypeOK'
    BY <1>0, <2>4, <2>5, <2>6 DEF TypeOK, Keep, ScenarioType
  <2>8. HistoryOK'
    BY <2>5 DEF HistoryOK, Failing
  <2>9. \A f \in faults' : f.stopping
    BY <2>5 DEF FaultsOK, ToCleanUp
  <2>10. FaultsOK'
    BY <2>9 DEF FaultsOK
  <2>11. QED
    BY <2>7, <2>8, <2>10
<1>4. CASE InjectNext
  <2>1. /\ UNCHANGED <<metric, window, history, flags, scenarios, rested, ce_count>>
        /\ phase = "inject"
    BY <1>4 DEF InjectNext
  <2>2. CASE at > Len(scenarios)
    <3>1. phase' = "fault" /\ at' = 1 /\ UNCHANGED faults
      BY <1>4, <2>2 DEF InjectNext
    <3>2. TypeOK'
      BY <1>0, <2>1, <3>1 DEF TypeOK, Keep
    <3>3. HistoryOK'
      BY <2>1, <3>1 DEF HistoryOK, Failing
    <3>4. FaultsOK'
      BY <2>1, <3>1 DEF FaultsOK, ToCleanUp
    <3>5. QED
      BY <3>2, <3>3, <3>4
  <2>3. CASE at <= Len(scenarios)
    <3> DEFINE s == scenarios[at]
    <3>1. at \in DOMAIN scenarios /\ s \in ScenarioType
      BY <1>0, <2>3
    <3>2. s.owner \in 1 .. MaxOwners /\ s.kind \in Kind
      BY <3>1 DEF ScenarioType
    <3>3. /\ Inject(s.owner, s.kind) \/ InjectNothing(s.kind) \/ InjectRaises(s.owner, s.kind)
          /\ \/ phase' = "inject" /\ at' = at + 1
             \/ phase' = "stopped" /\ at' = 1
      BY <1>0, <1>4, <2>3 DEF InjectNext
    <3>4. faults' \subseteq FaultType /\ \A f \in faults' : f \in faults \/ f.owner = s.owner
      BY <1>0, <3>2, <3>3, InjectFacts
    <3>5. at' \in 1 .. Len(scenarios) + 1
      BY <1>0, <2>3, <3>3
    <3>6. TypeOK'
      BY <2>1, <3>3, <3>4, <3>5 DEF TypeOK, Keep, FaultType
    <3>7. HistoryOK'
      BY <2>1, <3>3 DEF HistoryOK, Failing
    <3>8. FaultsOK'
      BY <2>1, <3>1, <3>3, <3>4 DEF FaultsOK, ToCleanUp
    <3>9. QED
      BY <3>6, <3>7, <3>8
  <2>4. QED
    BY <1>0, <2>2, <2>3
<1>5. CASE run_cycle
  <2>1. PICK gap \in Gap, value \in Reading :
            /\ Run(gap, value, Failing)
            /\ ce_count' = IF metric \in Ecc THEN value ELSE ce_count
    BY <1>5 DEF run_cycle
  <2>2. value \in 0 .. MaxValue /\ ce_count' \in 0 .. MaxValue
    BY <1>0, <2>1 DEF Reading, TypeOK
  <2>3. Failing \in BOOLEAN
    BY DEF Failing
  <2>4. /\ window' \in Seq(0 .. MaxValue) /\ Len(window') <= MaxWindow
        /\ history' \in Seq(HistoryEntry) /\ Len(history') <= Keep'
        /\ flags' \subseteq AnomalyType
        /\ metric' = metric
        /\ (\A i \in DOMAIN history : history[i].failing = Failing)
             => \A i \in DOMAIN history' : history'[i].failing = Failing
    BY <2>1, <2>2, <2>3, RunFacts
  <2>5. UNCHANGED <<faults, phase, scenarios, at, rested>> /\ phase # "stopped"
    BY <1>5 DEF run_cycle
  <2>6. TypeOK'
    BY <2>2, <2>4, <2>5 DEF TypeOK, HistoryEntry
  <2>7. HistoryOK'
    BY <2>4, <2>5 DEF HistoryOK, Failing
  <2>8. FaultsOK'
    BY <2>5 DEF FaultsOK, ToCleanUp
  <2>9. QED
    BY <2>6, <2>7, <2>8
<1>6. CASE EndHealthy
  <2>1. /\ UNCHANGED <<metric, window, history, flags, faults, scenarios, ce_count>>
        /\ phase = "healthy" /\ phase' = "idle" /\ at' = 1 /\ rested' = TRUE
    BY <1>6 DEF EndHealthy
  <2>2. TypeOK'
    BY <1>0, <2>1 DEF TypeOK, Keep
  <2>3. HistoryOK'
    BY <2>1 DEF HistoryOK, Failing
  <2>4. FaultsOK'
    BY <2>1 DEF FaultsOK, ToCleanUp
  <2>5. QED
    BY <2>2, <2>3, <2>4
<1>7. CASE EndHardware
  <2>1. /\ UNCHANGED <<metric, window, flags, faults, scenarios, ce_count>>
        /\ phase = "hardware" /\ phase' = "idle" /\ at' = 1 /\ rested' = FALSE
        /\ history' \in Seq(HistoryEntry) /\ Len(history') <= Keep'
        /\ \A i \in DOMAIN history' : FALSE
    BY <1>7, ClearedFacts DEF EndHardware
  <2>2. TypeOK'
    <3>1. at' \in 1 .. Len(scenarios') + 1
      BY <1>0, <2>1
    <3>2. QED
      BY <2>1, <3>1 DEF TypeOK, HistoryEntry
  <2>3. HistoryOK'
    BY <2>1 DEF HistoryOK
  <2>4. FaultsOK'
    BY <2>1 DEF FaultsOK, ToCleanUp
  <2>5. QED
    BY <2>2, <2>3, <2>4
<1>8. CASE EndFault
  <2>1. /\ UNCHANGED <<metric, window, history, flags, faults, scenarios, rested, ce_count>>
        /\ phase = "fault" /\ phase' = "cleanup" /\ at' = 1
    BY <1>8 DEF EndFault
  <2>2. TypeOK'
    BY <1>0, <2>1 DEF TypeOK, Keep
  <2>3. HistoryOK'
    BY <2>1 DEF HistoryOK, Failing
  <2>4. ToCleanUp' = ToCleanUp
    BY <1>0, <2>1 DEF ToCleanUp
  <2>5. FaultsOK'
    BY <2>1, <2>4 DEF FaultsOK
  <2>6. QED
    BY <2>2, <2>3, <2>5
<1>9. CASE CleanUpNext
  <2>1. /\ UNCHANGED <<metric, window, history, flags, ce_count>>
        /\ phase = "cleanup"
    BY <1>9 DEF CleanUpNext
  <2>2. CASE at > Len(scenarios)
    <3>1. /\ phase' = "idle" /\ at' = 1 /\ rested' = FALSE
          /\ scenarios' = << >> /\ UNCHANGED faults
      BY <1>9, <2>2 DEF CleanUpNext
    <3>2. ToCleanUp = {}
      BY <1>0, <2>1, <2>2 DEF ToCleanUp
    <3>3. TypeOK'
      <4>1. scenarios' \in Seq([owner : 1 .. MaxOwners, kind : Kind]) /\ Len(scenarios') = 0
        BY <3>1
      <4>2. at' \in 1 .. Len(scenarios') + 1
        BY <3>1, <4>1
      <4>3. QED
        BY <2>1, <3>1, <4>1, <4>2 DEF TypeOK, Keep
    <3>4. HistoryOK'
      BY <2>1, <3>1 DEF HistoryOK, Failing
    <3>5. FaultsOK'
      BY <2>1, <3>1, <3>2 DEF FaultsOK
    <3>6. QED
      BY <3>3, <3>4, <3>5
  <2>3. CASE at <= Len(scenarios)
    <3> DEFINE o == scenarios[at].owner
    <3>1. UNCHANGED <<scenarios, rested>>
      BY <1>0, <1>9, <2>3 DEF CleanUpNext
    <3>2. CASE CleanUp(o) /\ phase' = "cleanup" /\ at' = at + 1
      <4>1. /\ faults' \subseteq FaultType
            /\ \A g \in faults' : g.stopping \/ (g \in faults /\ g.owner # o)
        BY <1>0, <3>2, CleanUpFacts
      <4>2. at' \in 1 .. Len(scenarios) + 1
        BY <1>0, <2>3, <3>2
      <4>3. TypeOK'
        BY <2>1, <3>1, <3>2, <4>1, <4>2 DEF TypeOK, Keep, FaultType
      <4>4. HistoryOK'
        BY <2>1, <3>2 DEF HistoryOK, Failing
      <4>5. ToCleanUp = at .. Len(scenarios) /\ ToCleanUp' = at + 1 .. Len(scenarios)
        BY <2>1, <3>1, <3>2 DEF ToCleanUp
      <4>6. \A i \in ToCleanUp : i = at \/ i \in ToCleanUp'
        BY <1>0, <4>5
      <4>7. FaultsOK'
        BY <2>1, <3>1, <4>1, <4>6 DEF FaultsOK
      <4>8. QED
        BY <4>3, <4>4, <4>7
    <3>3. CASE UNCHANGED faults /\ phase' = "stopped" /\ at' = 1
      <4>1. TypeOK'
        BY <1>0, <2>1, <3>1, <3>3 DEF TypeOK, Keep
      <4>2. QED
        BY <3>3, <4>1 DEF HistoryOK, FaultsOK
    <3>4. QED
      BY <1>0, <1>9, <2>3, <3>2, <3>3 DEF CleanUpNext, CleanUpRaises
  <2>4. QED
    BY <1>0, <2>2, <2>3
<1>10. CASE Interrupt
  <2>1. /\ UNCHANGED <<metric, window, history, flags, faults, scenarios, rested, ce_count>>
        /\ phase' = "stopped" /\ at' = 1
    BY <1>10 DEF Interrupt
  <2>2. TypeOK'
    BY <1>0, <2>1 DEF TypeOK, Keep
  <2>3. QED
    BY <2>1, <2>2 DEF HistoryOK, FaultsOK
<1>11. CASE Ends
  <2>1. /\ faults' \subseteq faults
        /\ UNCHANGED <<metric, window, history, flags, phase, scenarios, at, rested, ce_count>>
    BY <1>11 DEF Ends, Expire, InterpreterGone
  <2>2. TypeOK'
    BY <2>1 DEF TypeOK, Keep
  <2>3. HistoryOK'
    BY <2>1 DEF HistoryOK, Failing
  <2>4. FaultsOK'
    BY <2>1 DEF FaultsOK, ToCleanUp
  <2>5. QED
    BY <2>2, <2>3, <2>4
<1>12. CASE UNCHANGED vars
  BY <1>12 DEF vars, TypeOK, Keep, HistoryOK, Failing, FaultsOK, ToCleanUp
<1>13. QED
  BY <1>1, <1>2, <1>3, <1>4, <1>5, <1>6, <1>7, <1>8, <1>9, <1>10, <1>11, <1>12 DEF Next

-----------------------------------------------------------------------------
(* The theorems.                                                           *)

\* The invariant holds of every demonstration.
THEOREM Inductive == Spec => []IInv
BY InitInv, IInvStep, PTL DEF Spec

\* Windows and histories keep to their lengths, and every variable to its type.
THEOREM TypeCorrect == Spec => []TypeOK
<1>1. IInv => TypeOK
  BY DEF IInv
<1>2. QED
  BY Inductive, <1>1, PTL

\* No reading of a failing device is in a history another phase reads, nor the
\* other way round (reset_hw_history).
THEOREM PhasesDoNotBleed == Spec => []NeverBleeds
<1>1. IInv => NeverBleeds
  BY DEF IInv, HistoryOK, NeverBleeds
<1>2. QED
  BY Inductive, <1>1, PTL

\* When a phase without faults of its own begins, those of the one before it
\* were cleaned up (run_real_fault, run_compound_fault).
THEOREM FaultsEndWithTheirPhase == Spec => []FaultsOfThePhase
<1>1. IInv => FaultsOfThePhase
  BY DEF IInv, FaultsOK, ToCleanUp, FaultsOfThePhase
<1>2. QED
  BY Inductive, <1>1, PTL

-----------------------------------------------------------------------------
(* The spikes.                                                             *)

\* What is flagged of a window that was just updated.
Rare ==
    "zscore_spike" \in flags =>
        /\ window # <<>>
        /\ (Threshold2 + 1) * Cardinality({i \in DOMAIN window : window[i] = Last(window)})
               <= Len(window)

\* A cycle flags its reading only when that is rare in its window.
LEMMA RunRare ==
    ASSUME TypeOK, NEW gap \in Gap, NEW value \in 0 .. MaxValue, NEW failing \in BOOLEAN,
           Run(gap, value, failing)
    PROVE  Rare'
<1>1. SUFFICES ASSUME "zscore_spike" \in flags'
               PROVE  /\ window' # <<>>
                      /\ (Threshold2 + 1) *
                             Cardinality({i \in DOMAIN window' : window'[i] = Last(window')})
                           <= Len(window')
  BY DEF Rare
<1>2. window' \in Seq(0 .. MaxValue) /\ 0 .. MaxValue \subseteq Int
  BY RunFacts, DemoDriverAssumption
<1>3. Len(window') \in Nat \ {0} /\ window'[Len(window')] = value
  <2> DEFINE w == Append(window, value)
  <2>1. window' = LastOf(w, MaxWindow) /\ MaxWindow \in Nat \ {0}
    BY DetectorsAssumption DEF Run
  <2>2. w \in Seq(0 .. MaxValue) /\ w # <<>> /\ w[Len(w)] = value
    <3>1. window \in Seq(0 .. MaxValue)
      BY DEF TypeOK
    <3>2. w \in Seq(0 .. MaxValue) /\ w # <<>>
      BY <3>1, AppendProperties
    <3>3. Len(w) = Len(window) + 1 /\ w[Len(window) + 1] = value
      BY <3>1, AppendProperties
    <3> HIDE DEF w
    <3>4. QED
      BY <3>2, <3>3
  <2> HIDE DEF w
  <2>3. QED
    BY <2>1, <2>2, LastKept
<1>4. PICK spike \in Spike(value, window') : spike
  <2>1. PICK spike \in Spike(value, window') :
            flags' = {f \in AnomalyType :
                CASE f = "zscore_spike"          -> spike
                  [] f = "smart_acceleration"    -> metric \in Smart /\ SmartAccelerating(history')
                  [] f = "ecc_rate_acceleration" -> metric \in Ecc /\ EccAccelerating(history')}
    BY DEF Run
  <2>2. QED
    BY <1>1, <2>1
<1>5. TRUE \in Exceeds(value, window')
  BY <1>4 DEF Spike, Exceeds
<1>6. window' \in Seq(Int) /\ value \in Int
  BY <1>2, SeqMonotonic
<1>7. (Threshold2 + 1) * Cardinality({i \in DOMAIN window' : window'[i] = value}) <= Len(window')
  BY <1>5, <1>6, ExceedsRarely
<1>8. Last(window') = value /\ window' # <<>>
  BY <1>3 DEF Last
<1>9. QED
  BY <1>7, <1>8

\* Nothing else updates a window or flags anything.
LEMMA RareStep ==
    ASSUME TypeOK, Rare, [Next]_vars
    PROVE  Rare'
<1>1. CASE run_cycle
  <2>1. PICK gap \in Gap, value \in Reading : Run(gap, value, Failing)
    BY <1>1 DEF run_cycle
  <2>2. value \in 0 .. MaxValue /\ Failing \in BOOLEAN
    BY DemoDriverAssumption DEF Reading, Failing, TypeOK
  <2>3. QED
    BY <2>1, <2>2, RunRare
<1>2. CASE UNCHANGED <<window, flags>>
  BY <1>2 DEF Rare
<1>3. CASE ~run_cycle
  <2>1. UNCHANGED <<window, flags>>
    BY <1>3 DEF Next, vars, detectors, driver, run_healthy, run_hardware_fault, run_fault,
       InjectNext, EndHealthy, EndHardware, EndFault, CleanUpNext, Interrupt, Ends, ClearHistory
  <2>2. QED
    BY <1>2, <2>1
<1>4. QED
  BY <1>1, <1>3

\* No cycle leaves a flag behind that its own window does not bear out.
THEOREM AlwaysRare == Spec => []Rare
<1>1. Init => Rare
  BY DEF Init, DetectorsInit, Rare
<1>2. TypeOK /\ Rare /\ [Next]_vars => Rare'
  BY RareStep
<1>3. QED
  BY TypeCorrect, <1>1, <1>2, PTL DEF Spec

\* A reading is flagged only while it is at most one in Threshold2 + 1 of its
\* own window (zscore_detector.py has it in the mean and in the deviation).
THEOREM SpikesAreRare == Spec => []SpikeIsRare
<1>1. Rare => SpikeIsRare
  BY DEF Rare, SpikeIsRare
<1>2. QED
  BY AlwaysRare, <1>1, PTL

\* Whatever min_window is set to, the first Threshold2 readings are never
\* flagged; and a value that stays is flagged while there are at most
\* MaxWindow / (Threshold2 + 1) of it, and never after.
SpikeBounds ==
    "zscore_spike" \in flags =>
        /\ Len(window) > Threshold2
        /\ (Threshold2 + 1) * Cardinality({i \in DOMAIN window : window[i] = Last(window)})
               <= MaxWindow

\* So much holds of the detector for any readings, those of a fault included.
THEOREM SpikesAreBounded == Spec => []SpikeBounds
<1>1. ASSUME TypeOK, Rare PROVE SpikeBounds
  <2>1. SUFFICES ASSUME "zscore_spike" \in flags
                 PROVE  /\ Len(window) > Threshold2
                        /\ (Threshold2 + 1) *
                               Cardinality({i \in DOMAIN window : window[i] = Last(window)})
                             <= MaxWindow
    BY DEF SpikeBounds
  <2> DEFINE same == {i \in DOMAIN window : window[i] = Last(window)}
             c    == Cardinality(same)
  <2>2. window # <<>> /\ (Threshold2 + 1) * c <= Len(window)
    BY <1>1, <2>1 DEF Rare
  <2>3. Len(window) \in Nat \ {0} /\ DOMAIN window = 1 .. Len(window) /\ Len(window) <= MaxWindow
    BY <1>1, <2>2 DEF TypeOK
  <2>4. Len(window) \in same
    BY <2>3 DEF Last
  <2>5. IsFiniteSet(same)
    <3>1. IsFiniteSet(1 .. Len(window))
      BY <2>3, FS_Interval
    <3>2. same \subseteq 1 .. Len(window)
      BY <2>3
    <3>3. QED
      BY <3>1, <3>2, FS_Subset
  <2>6. c \in Nat /\ c # 0
    <3> HIDE DEF same
    <3>1. QED
      BY <2>4, <2>5, FS_CardinalityType, FS_EmptySet
  <2> HIDE DEF c
  <2>7. Threshold2 \in Nat /\ MaxWindow \in Nat
    BY DetectorsAssumption
  <2>8. (Threshold2 + 1) * c >= Threshold2 + 1
    <3>1. PICK d \in Nat : c = d + 1
      BY <2>6
    <3>2. (Threshold2 + 1) * c = (Threshold2 + 1) * d + Threshold2 + 1
      BY <2>7, <3>1
    <3>3. (Threshold2 + 1) * d >= 0
      BY <2>7
    <3>4. QED
      BY <2>7, <3>1, <3>2, <3>3
  <2>9. (Threshold2 + 1) * c \in Int
    BY <2>6, <2>7
  <2> DEFINE e == (Threshold2 + 1) * c
  <2>10. e \in Int /\ e >= Threshold2 + 1 /\ e <= Len(window)
    BY <2>2, <2>8, <2>9
  <2> HIDE DEF e
  <2>11. Len(window) > Threshold2 /\ e <= MaxWindow
    BY <2>3, <2>7, <2>10
  <2>12. QED
    BY <2>11 DEF e, c
<1>2. QED
  BY TypeCorrect, AlwaysRare, <1>1, PTL

=============================================================================
