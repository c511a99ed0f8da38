--------------------------- MODULE DueDateProofs ---------------------------
(***************************************************************************)
(* The theorem about DueDate: whatever is typed, the due date that is      *)
(* saved lies within a day of the exact one.                               *)
(*                                                                         *)
(* The arithmetic is on whole numbers throughout: a quotient is known by   *)
(* its distance from n * 2^e after multiplication with its divisor.        *)
(***************************************************************************)
EXTENDS DueDate, WellFoundedInduction, TLAPS

-----------------------------------------------------------------------------
(* Powers of two.  The prover computes 2^k where k is a number; where it   *)
(* is not, P[k] stands for it.                                             *)

PowersTo(P, n) ==
  /\ P \in [0..n -> Nat \ {0}] /\ P[0] = 1
  /\ \A k \in 1..n : P[k] = 2 * P[k - 1]

Powers(P) == PowersTo(P, 60)

LEMMA LeastNatural ==
  ASSUME NEW T \in SUBSET Nat, T # {}
  PROVE  \E x \in T : \A y \in T : x <= y
<1>1. PICK x \in T : \A y \in T : ~(<<y, x>> \in OpToRel(<, Nat))
  BY NatLessThanWellFounded, WFMin, Zenon
<1>2. \A y \in T : ~(y < x)
  BY <1>1 DEF OpToRel
<1> QED
  BY <1>2

LEMMA NextPower ==
  ASSUME NEW n \in Nat \ {0}, NEW P, PowersTo(P, n - 1)
  PROVE  \E Q : PowersTo(Q, n)
<1> DEFINE Q == [k \in 0..n |-> IF k = n THEN 2 * P[n - 1] ELSE P[k]]
<1>1. /\ n - 1 \in Nat /\ P \in [0..(n - 1) -> Nat \ {0}] /\ P[0] = 1
      /\ \A k \in 1..(n - 1) : P[k] = 2 * P[k - 1]
  BY DEF PowersTo
<1>2. 2 * P[n - 1] \in Nat \ {0} /\ \A k \in 0..n : k # n => k \in 0..(n - 1)
  BY <1>1
<1>3. /\ \A k \in 0..n : Q[k] \in Nat \ {0}
      /\ Q[0] = 1 /\ Q[n] = 2 * P[n - 1]
      /\ \A k \in 0..(n - 1) : Q[k] = P[k]
  BY <1>1, <1>2
<1>4. Q \in [0..n -> Nat \ {0}]
  BY <1>3
<1> HIDE DEF Q
<1>5. ASSUME NEW k \in 1..n PROVE Q[k] = 2 * Q[k - 1]
  <2>1. k - 1 \in 0..(n - 1) /\ (k = n \/ k \in 1..(n - 1))
    BY <1>1
  <2> QED
    BY <1>1, <1>3, <2>1
<1> QED
  BY <1>3, <1>4, <1>5 DEF PowersTo

LEMMA PowersExist == \E P : Powers(P)
<1> DEFINE T == { n \in Nat : ~ \E P : PowersTo(P, n) }
<1>1. ASSUME T # {} PROVE FALSE
  <2>1. T \in SUBSET Nat
    OBVIOUS
  <2>2. PICK n \in T : \A m \in T : n <= m
    BY <1>1, <2>1, LeastNatural, Zenon
  <2>3. n \in Nat /\ ~ \E P : PowersTo(P, n)
    BY <2>2
  <2>4. n # 0
    <3>1. PowersTo([k \in 0..0 |-> 1], 0)
      BY DEF PowersTo
    <3> QED
      BY <2>3, <3>1
  <2>5. n - 1 \in Nat /\ ~(n <= n - 1)
    BY <2>3, <2>4
  <2>6. \E P : PowersTo(P, n - 1)
    BY <2>2, <2>5
  <2> QED
    BY <2>3, <2>4, <2>6, NextPower
<1>2. 60 \in Nat /\ 60 \notin T
  BY <1>1
<1> QED
  BY <1>2 DEF Powers

LEMMA PowerSums ==
  ASSUME NEW P, Powers(P), NEW a \in 0..60, NEW b \in 0..60, a + b <= 60
  PROVE  P[a + b] = P[a] * P[b]
<1> DEFINE T == { n \in Nat : n <= 60 - a /\ P[a + n] # P[a] * P[n] }
<1>1. ASSUME T # {} PROVE FALSE
  <2>1. T \in SUBSET Nat
    OBVIOUS
  <2>2. PICK n \in T : \A m \in T : n <= m
    BY <1>1, <2>1, LeastNatural, Zenon
  <2>3. n \in Nat /\ n <= 60 - a /\ P[a + n] # P[a] * P[n]
    BY <2>2
  <2>4. P[a] \in Nat /\ P[0] = 1
    BY DEF Powers, PowersTo
  <2>5. n # 0
    BY <2>3, <2>4
  <2>6. n - 1 \in Nat /\ n - 1 <= 60 - a /\ ~(n <= n - 1)
    BY <2>3, <2>5
  <2>7. P[a + (n - 1)] = P[a] * P[n - 1]
    BY <2>2, <2>6
  <2>8. /\ a + n \in 1..60 /\ n \in 1..60 /\ a + (n - 1) = (a + n) - 1
        /\ P[n] = 2 * P[n - 1] /\ P[a + n] = 2 * P[(a + n) - 1]
    BY <2>3, <2>5 DEF Powers, PowersTo
  <2>9. PICK p \in Nat, q \in Nat : p = P[a] /\ q = P[n - 1]
    <3>1. a \in 0..60 /\ n - 1 \in 0..60
      BY <2>3, <2>6
    <3>2. P[a] \in Nat /\ P[n - 1] \in Nat
      BY <3>1 DEF Powers, PowersTo
    <3> QED
      BY <3>2
  <2>10. 2 * (p * q) = p * (2 * q)
    OBVIOUS
  <2> QED
    BY <2>3, <2>7, <2>8, <2>9, <2>10
<1>2. b \notin T
  BY <1>1
<1> QED
  BY <1>2

\* The powers that the proofs name.
LEMMA PowerValues ==
  ASSUME NEW P, Powers(P)
  PROVE  /\ P[0] = 1 /\ P[1] = 2 /\ P[2] = 4 /\ P[3] = 8 /\ P[4] = 16 /\ P[5] = 32 /\ P[6] = 64
         /\ P[7] = 128 /\ P[8] = 256 /\ P[9] = 512 /\ P[10] = 1024 /\ P[11] = 2048 /\ P[12] = 4096
         /\ P[13] = 8192 /\ P[14] = 16384 /\ P[15] = 32768 /\ P[16] = 65536 /\ P[17] = 131072
         /\ P[18] = 262144 /\ P[19] = 524288 /\ P[20] = 1048576 /\ P[21] = 2097152
         /\ P[22] = 4194304 /\ P[23] = 8388608 /\ P[24] = 16777216
<1>1. P[0] = 1 /\ \A k \in 1..60 : P[k] = 2 * P[k - 1]
  BY DEF Powers, PowersTo
<1>2. P[1] = 2 /\ P[2] = 4 /\ P[3] = 8 /\ P[4] = 16 /\ P[5] = 32 /\ P[6] = 64
  BY <1>1
<1>3. P[7] = 128 /\ P[8] = 256 /\ P[9] = 512 /\ P[10] = 1024 /\ P[11] = 2048 /\ P[12] = 4096
  BY <1>1, <1>2
<1>4. P[13] = 8192 /\ P[14] = 16384 /\ P[15] = 32768 /\ P[16] = 65536 /\ P[17] = 131072
  BY <1>1, <1>3
<1>5. P[18] = 262144 /\ P[19] = 524288 /\ P[20] = 1048576 /\ P[21] = 2097152
  BY <1>1, <1>4
<1>6. P[22] = 4194304 /\ P[23] = 8388608 /\ P[24] = 16777216
  BY <1>1, <1>5
<1> QED
  BY <1>1, <1>2, <1>3, <1>4, <1>5, <1>6

\* One line for each exponent that Days may raise 2 to.
LEMMA PowersAre ==
  ASSUME NEW P, Powers(P), NEW k \in 0..23
  PROVE  2^k = P[k]
<1>0. CASE k = 0
  BY <1>0, PowerValues
<1>1. CASE k = 1
  BY <1>1, PowerValues
<1>2. CASE k = 2
  BY <1>2, PowerValues
<1>3. CASE k = 3
  BY <1>3, PowerValues
<1>4. CASE k = 4
  BY <1>4, PowerValues
<1>5. CASE k = 5
  BY <1>5, PowerValues
<1>6. CASE k = 6
  BY <1>6, PowerValues
<1>7. CASE k = 7
  BY <1>7, PowerValues
<1>8. CASE k = 8
  BY <1>8, PowerValues
<1>9. CASE k = 9
  BY <1>9, PowerValues
<1>10. CASE k = 10
  BY <1>10, PowerValues
<1>11. CASE k = 11
  BY <1>11, PowerValues
<1>12. CASE k = 12
  BY <1>12, PowerValues
<1>13. CASE k = 13
  BY <1>13, PowerValues
<1>14. CASE k = 14
  BY <1>14, PowerValues
<1>15. CASE k = 15
  BY <1>15, PowerValues
<1>16. CASE k = 16
  BY <1>16, PowerValues
<1>17. CASE k = 17
  BY <1>17, PowerValues
<1>18. CASE k = 18
  BY <1>18, PowerValues
<1>19. CASE k = 19
  BY <1>19, PowerValues
<1>20. CASE k = 20
  BY <1>20, PowerValues
<1>21. CASE k = 21
  BY <1>21, PowerValues
<1>22. CASE k = 22
  BY <1>22, PowerValues
<1>23. CASE k = 23
  BY <1>23, PowerValues
<1> QED
  BY <1>0, <1>1, <1>2, <1>3, <1>4, <1>5, <1>6, <1>7, <1>8, <1>9, <1>10, <1>11, <1>12, <1>13, <1>14, <1>15, <1>16, <1>17, <1>18, <1>19, <1>20, <1>21, <1>22, <1>23

-----------------------------------------------------------------------------
(* One division.                                                           *)

LEMMA Division ==
  ASSUME NEW a \in Nat, NEW d \in Nat \ {0}
  PROVE  /\ a \div d \in Nat /\ a % d \in Nat /\ a % d < d
         /\ d * (a \div d) + (a % d) = a
OBVIOUS

\* What is divided may be bounded instead of its quotient.
LEMMA QuotientBelow ==
  ASSUME NEW d \in Nat \ {0}, NEW q \in Nat, NEW b \in Nat, d * q < d * b
  PROVE  q < b
<1>1. q >= b => d * q >= d * b
  OBVIOUS
<1> QED
  BY <1>1

\* A quotient and a remainder moved by the factor c.
Moves(c, q, r, d, m) ==
  \E q2 \in Nat, r2 \in Nat :
    /\ q2 = c * q + (c * r) \div d /\ r2 = (c * r) % d
    /\ r2 < d /\ q2 * d + r2 = c * m
    /\ c * q <= q2 /\ q2 <= c * q + (c - 1)

LEMMA Moved ==
  ASSUME NEW d \in Nat \ {0}, NEW q \in Nat, NEW r \in Nat, r < d, NEW m \in Nat,
         q * d + r = m, NEW c \in {2, 64}
  PROVE  Moves(c, q, r, d, m)
<1>1. PICK a \in Nat : a = c * r
  OBVIOUS
<1>2. PICK z \in Nat, y \in Nat : z = a \div d /\ y = a % d /\ y < d /\ d * z + y = a
  BY Division
<1>3. z < c
  <2>1. d * z <= c * r /\ c * r < d * c
    BY <1>1, <1>2
  <2>2. d * z < d * c
    BY <2>1
  <2> QED
    BY <2>2, QuotientBelow
<1>4. (c * q + z) * d + y = c * m
  <2>1. (c * q + z) * d = c * (q * d) + d * z
    OBVIOUS
  <2>2. c * (q * d) + c * r = c * m
    OBVIOUS
  <2> QED
    BY <1>1, <1>2, <2>1, <2>2
<1> QED
  BY <1>1, <1>2, <1>3, <1>4 DEF Moves

\* Numbers of one bit more than 18, 23 and 24.
W18 == 262144
W23 == 8388608
W24 == 16777216

LEMMA Widths ==
  /\ W18 \in Nat \ {0} /\ W23 \in Nat \ {0} /\ W24 \in Nat \ {0}
  /\ W23 = 32 * W18 /\ W24 = 64 * W18 /\ W24 = 2 * W23
BY SMT DEF W18, W23, W24

LEMMA PowersNamed == 2^23 = W23 /\ 2^24 = W24
BY SMT DEF W23, W24

LEMMA PowerOfWidth ==
  ASSUME NEW P, Powers(P)
  PROVE  P[24] = W24
BY PowerValues, SMT DEF W24

\* What every shift keeps of n / d: the quotient and the remainder are those
\* of n * 2^e.
Kept(x, n, d, P, k) ==
  /\ x \in [q : Nat, r : Nat, e : Nat]
  /\ x.q < W24 /\ x.r < d /\ x.e <= k
  /\ x.q * d + x.r = n * P[x.e]

\* A shift by six bits, and one by one.
BySix(x, y, n, d, P, k) ==
  /\ Kept(y, n, d, P, k + 6)
  /\ x.q >= W18 => y = x
  /\ x.q < W18 => y.e = x.e + 6

ByOne(x, y, n, d, P, k) ==
  /\ Kept(y, n, d, P, k + 1)
  /\ x.q >= W23 => y = x
  /\ x.q < W23 => y.q >= 2 * x.q

LEMMA ShiftKeeps ==
  ASSUME NEW P, Powers(P), NEW n \in Nat \ {0}, NEW d \in Nat \ {0},
         NEW k \in 0..54, NEW x, Kept(x, n, d, P, k)
  PROVE  /\ BySix(x, Shifted(x, d, 6), n, d, P, k)
         /\ ByOne(x, Shifted(x, d, 1), n, d, P, k)
<1> DEFINE y(c, b) == [q |-> c * x.q + (c * x.r) \div d, r |-> (c * x.r) % d, e |-> x.e + b]
<1>1. Shifted(x, d, 6) = IF x.q >= W18 THEN x ELSE y(64, 6)
  BY SMT DEF W18, W23, Shifted
<1>2. Shifted(x, d, 1) = IF x.q >= W23 THEN x ELSE y(2, 1)
  BY SMT DEF W18, W23, Shifted
<1>3. PICK q \in Nat, r \in Nat, e \in 0..54 : x.q = q /\ x.r = r /\ x.e = e
  BY SMT DEF Kept
<1>4. q < W24 /\ r < d /\ e <= k /\ q * d + r = n * P[e]
  BY <1>3, SMT DEF Kept
<1>5. P[e] \in Nat /\ P[e + 6] = 64 * P[e] /\ P[e + 1] = 2 * P[e]
  <2>1. P[6] = 64 /\ P[1] = 2 /\ P[e] \in Nat
    BY PowerValues DEF Powers, PowersTo
  <2>2. P[e + 6] = P[e] * 64 /\ P[e + 1] = P[e] * 2
    <3>1. /\ e \in 0..60 /\ 6 \in 0..60 /\ 1 \in 0..60
          /\ e + 6 <= 60 /\ e + 1 <= 60
      OBVIOUS
    <3>2. P[e + 6] = P[e] * P[6] /\ P[e + 1] = P[e] * P[1]
      BY <3>1, PowerSums, Zenon
    <3> QED
      BY <2>1, <3>2
  <2> QED
    BY <2>1, <2>2
<1>6. PICK p \in Nat, m \in Nat : p = P[e] /\ m = n * p
  BY <1>5
<1>7. 64 * m = n * (64 * p) /\ 2 * m = n * (2 * p)
  BY <1>6
<1>8. r < d /\ q * d + r = m
  BY <1>4, <1>6
<1>9. Moves(64, q, r, d, m) /\ Moves(2, q, r, d, m)
  BY <1>8, 64 \in {2, 64}, 2 \in {2, 64}, Moved, Zenon
<1>10. x.q < W18 => Kept(y(64, 6), n, d, P, k + 6)
  <2> SUFFICES ASSUME q < W18 PROVE Kept(y(64, 6), n, d, P, k + 6)
    BY <1>3
  <2>1. PICK q2 \in Nat, r2 \in Nat :
          /\ q2 = 64 * q + (64 * r) \div d /\ r2 = (64 * r) % d
          /\ r2 < d /\ q2 * d + r2 = 64 * m
          /\ 64 * q <= q2 /\ q2 <= 64 * q + (64 - 1)
    BY <1>9, SMT DEF Moves
  <2>2. y(64, 6) = [q |-> q2, r |-> r2, e |-> e + 6]
    BY <1>3, <2>1
  <2>3. q2 < W24
    BY <2>1, Widths
  <2>4. q2 * d + r2 = n * P[e + 6]
    BY <1>5, <1>6, <1>7, <2>1
  <2> QED
    BY <1>4, <2>1, <2>2, <2>3, <2>4, SMT DEF Kept
<1>11. x.q < W23 => Kept(y(2, 1), n, d, P, k + 1) /\ y(2, 1).q >= 2 * x.q
  <2> SUFFICES ASSUME q < W23 PROVE Kept(y(2, 1), n, d, P, k + 1) /\ y(2, 1).q >= 2 * q
    BY <1>3
  <2>1. PICK q2 \in Nat, r2 \in Nat :
          /\ q2 = 2 * q + (2 * r) \div d /\ r2 = (2 * r) % d
          /\ r2 < d /\ q2 * d + r2 = 2 * m
          /\ 2 * q <= q2 /\ q2 <= 2 * q + (2 - 1)
    BY <1>9, SMT DEF Moves
  <2>2. y(2, 1) = [q |-> q2, r |-> r2, e |-> e + 1]
    BY <1>3, <2>1
  <2>3. q2 < W24
    BY <2>1, Widths
  <2>4. q2 * d + r2 = n * P[e + 1]
    BY <1>5, <1>6, <1>7, <2>1
  <2> QED
    BY <1>4, <2>1, <2>2, <2>3, <2>4, SMT DEF Kept
<1> HIDE DEF y
<1>12. Kept(x, n, d, P, k + 6) /\ Kept(x, n, d, P, k + 1)
  BY SMT DEF Kept
<1>13. x.q < W18 => y(64, 6).e = x.e + 6
  BY SMT DEF y
<1> QED
  BY <1>1, <1>2, <1>3, <1>10, <1>11, <1>12, <1>13, Widths DEF BySix, ByOne

\* By six: the quotient has 18 bits, or every shift was made.
Sixfold(x, n, d, P, k) == Kept(x, n, d, P, k) /\ (x.q >= W18 \/ x.e = k)

LEMMA SixKeeps ==
  ASSUME NEW P, Powers(P), NEW n \in Nat \ {0}, NEW d \in Nat \ {0},
         NEW k \in 0..54, NEW x, Sixfold(x, n, d, P, k)
  PROVE  Sixfold(Shifted(x, d, 6), n, d, P, k + 6)
<1>1. PICK y : y = Shifted(x, d, 6)
  OBVIOUS
<1>2. Kept(x, n, d, P, k) /\ (x.q >= W18 \/ x.e = k)
  BY Zenon DEF Sixfold
<1>3. BySix(x, y, n, d, P, k)
  BY <1>1, <1>2, ShiftKeeps, Zenon
<1>4. /\ Kept(y, n, d, P, k + 6)
      /\ x.q >= W18 => y = x
      /\ x.q < W18 => y.e = x.e + 6
  BY <1>3, Zenon DEF BySix
<1>5. x.q \in Nat
  BY <1>2, SMT DEF Kept
<1>6. y.q >= W18 \/ y.e = k + 6
  BY <1>2, <1>4, <1>5, Widths
<1> QED
  BY <1>1, <1>4, <1>6, Zenon DEF Sixfold

LEMMA SixesKeep ==
  ASSUME NEW P, Powers(P), NEW n \in Nat \ {0}, NEW d \in Nat \ {0},
         NEW k \in 0..30, NEW x, Sixfold(x, n, d, P, k)
  PROVE  Sixfold(Sixes(x, d), n, d, P, k + 24)
<1>1. PICK x1 : x1 = Shifted(x, d, 6)
  OBVIOUS
<1>2. PICK x2 : x2 = Shifted(x1, d, 6)
  OBVIOUS
<1>3. PICK x3 : x3 = Shifted(x2, d, 6)
  OBVIOUS
<1>4. PICK x4 : x4 = Shifted(x3, d, 6)
  OBVIOUS
<1>5. Sixes(x, d) = x4
  BY <1>1, <1>2, <1>3, <1>4, Zenon DEF Sixes
<1>6. /\ k \in 0..54 /\ k + 6 \in 0..54 /\ k + 12 \in 0..54 /\ k + 18 \in 0..54
      /\ (k + 6) + 6 = k + 12 /\ (k + 12) + 6 = k + 18 /\ (k + 18) + 6 = k + 24
  OBVIOUS
<1>7. Sixfold(x1, n, d, P, k + 6)
  BY <1>1, <1>6, SixKeeps, Zenon
<1>8. Sixfold(x2, n, d, P, (k + 6) + 6)
  BY <1>2, <1>6, <1>7, SixKeeps, Zenon
<1>9. Sixfold(x3, n, d, P, (k + 12) + 6)
  BY <1>3, <1>6, <1>8, SixKeeps, Zenon
<1>10. Sixfold(x4, n, d, P, (k + 18) + 6)
  BY <1>4, <1>6, <1>9, SixKeeps, Zenon
<1> QED
  BY <1>5, <1>6, <1>10, Zenon

\* By one: the quotient grows to 24 bits.
LEMMA OneKeeps ==
  ASSUME NEW P, Powers(P), NEW n \in Nat \ {0}, NEW d \in Nat \ {0},
         NEW k \in 0..54, NEW x, Kept(x, n, d, P, k),
         NEW b \in Nat, x.q >= b
  PROVE  /\ Kept(Shifted(x, d, 1), n, d, P, k + 1)
         /\ 2 * b <= W23 => Shifted(x, d, 1).q >= 2 * b
<1>1. PICK y : y = Shifted(x, d, 1)
  OBVIOUS
<1>2. /\ Kept(y, n, d, P, k + 1)
      /\ x.q >= W23 => y = x
      /\ x.q < W23 => y.q >= 2 * x.q
  <2>1. ByOne(x, y, n, d, P, k)
    BY <1>1, ShiftKeeps, Zenon
  <2> QED
    BY <2>1, Zenon DEF ByOne
<1>3. x.q \in Nat /\ y.q \in Nat
  BY <1>2, SMT DEF Kept
<1>4. 2 * b <= W23 => y.q >= 2 * b
  BY <1>2, <1>3, Widths, SMT
<1> QED
  BY <1>1, <1>2, <1>4, Zenon

LEMMA OnesKeep ==
  ASSUME NEW P, Powers(P), NEW n \in Nat \ {0}, NEW d \in Nat \ {0},
         NEW x, Kept(x, n, d, P, 48), x.q >= W18
  PROVE  Kept(Ones(x, d), n, d, P, 53) /\ Ones(x, d).q >= W23
<1>1. PICK x1 : x1 = Shifted(x, d, 1)
  OBVIOUS
<1>2. PICK x2 : x2 = Shifted(x1, d, 1)
  OBVIOUS
<1>3. PICK x3 : x3 = Shifted(x2, d, 1)
  OBVIOUS
<1>4. PICK x4 : x4 = Shifted(x3, d, 1)
  OBVIOUS
<1>5. PICK x5 : x5 = Shifted(x4, d, 1)
  OBVIOUS
<1>6. Ones(x, d) = x5
  BY <1>1, <1>2, <1>3, <1>4, <1>5, Zenon DEF Ones
<1>7. /\ 48 \in 0..54 /\ 49 \in 0..54 /\ 50 \in 0..54 /\ 51 \in 0..54 /\ 52 \in 0..54
      /\ 48 + 1 = 49 /\ 49 + 1 = 50 /\ 50 + 1 = 51 /\ 51 + 1 = 52 /\ 52 + 1 = 53
  OBVIOUS
<1>8. Kept(x1, n, d, P, 49) /\ x1.q >= 2 * W18
  <2>1. W18 \in Nat /\ 2 * W18 <= W23
    BY Widths
  <2> QED
    BY <1>1, <1>7, <2>1, OneKeeps, Zenon
<1>9. Kept(x2, n, d, P, 50) /\ x2.q >= 2 * (2 * W18)
  <2>1. 2 * W18 \in Nat /\ 2 * (2 * W18) <= W23
    BY Widths
  <2> QED
    BY <1>2, <1>7, <1>8, <2>1, OneKeeps, Zenon
<1>10. Kept(x3, n, d, P, 51) /\ x3.q >= 2 * (2 * (2 * W18))
  <2>1. 2 * (2 * W18) \in Nat /\ 2 * (2 * (2 * W18)) <= W23
    BY Widths
  <2> QED
    BY <1>3, <1>7, <1>9, <2>1, OneKeeps, Zenon
<1>11. Kept(x4, n, d, P, 52) /\ x4.q >= 2 * (2 * (2 * (2 * W18)))
  <2>1. 2 * (2 * (2 * W18)) \in Nat /\ 2 * (2 * (2 * (2 * W18))) <= W23
    BY Widths
  <2> QED
    BY <1>4, <1>7, <1>10, <2>1, OneKeeps, Zenon
<1>12. Kept(x5, n, d, P, 53) /\ x5.q >= W23
  <2>1. 2 * (2 * (2 * (2 * W18))) \in Nat /\ 2 * (2 * (2 * (2 * (2 * W18)))) <= W23 /\ 2 * (2 * (2 * (2 * (2 * W18)))) = W23
    BY Widths
  <2> QED
    BY <1>5, <1>7, <1>11, <2>1, OneKeeps, Zenon
<1> QED
  BY <1>6, <1>12, Zenon

\* n / d, scaled to 24 bits.
LEMMA ScaledKeeps ==
  ASSUME NEW P, Powers(P), NEW n \in 1..(W24 - 1), NEW d \in 1..(W24 - 1)
  PROVE  Kept(Scaled(n, d), n, d, P, 53) /\ Scaled(n, d).q >= W23
<1>1. PICK x0 : x0 = [q |-> n \div d, r |-> n % d, e |-> 0]
  OBVIOUS
<1>2. PICK x1 : x1 = Sixes(x0, d)
  OBVIOUS
<1>3. PICK x2 : x2 = Sixes(x1, d)
  OBVIOUS
<1>4. Scaled(n, d) = Ones(x2, d)
  BY <1>1, <1>2, <1>3, Zenon DEF Scaled
<1>5. n \in Nat \ {0} /\ d \in Nat \ {0} /\ n < W24 /\ d < W24
  BY Widths
<1>6. Sixfold(x0, n, d, P, 0)
  <2>1. PICK q \in Nat, r \in Nat : q = n \div d /\ r = n % d /\ r < d /\ d * q + r = n
    BY <1>5, Division, Zenon
  <2>2. q * d + r = n * P[0] /\ q < W24
    <3>1. P[0] = 1 /\ d * q = q * d /\ d * q <= n
      BY <1>5, <2>1, SMT DEF Powers, PowersTo
    <3>2. q <= d * q
      BY <1>5, <2>1
    <3> QED
      BY <1>5, <2>1, <3>1, <3>2, Widths, SMT
  <2>3. x0 = [q |-> q, r |-> r, e |-> 0]
    BY <1>1, <2>1, Zenon
  <2> QED
    BY <2>1, <2>2, <2>3, SMT DEF Sixfold, Kept
<1>7. 0 \in 0..30 /\ 24 \in 0..30 /\ 0 + 24 = 24 /\ 24 + 24 = 48
  OBVIOUS
<1>8. Sixfold(x1, n, d, P, 24)
  BY <1>2, <1>5, <1>6, <1>7, SixesKeep, Zenon
<1>9. Sixfold(x2, n, d, P, 48)
  BY <1>3, <1>5, <1>7, <1>8, SixesKeep, Zenon
<1>10. x2.q >= W18
  <2> SUFFICES ASSUME x2.e = 48, x2.q < W18 PROVE FALSE
    <3>1. x2.q \in Nat /\ (x2.q >= W18 \/ x2.e = 48)
      BY <1>9, SMT DEF Sixfold, Kept
    <3> QED
      BY <3>1, Widths
  <2>1. PICK q \in Nat, r \in Nat : q = x2.q /\ r = x2.r /\ r < d /\ q * d + r = n * P[48]
    BY <1>9, SMT DEF Sixfold, Kept
  <2>2. P[48] = W24 * W24
    <3>1. P[24 + 24] = P[24] * P[24]
      <4>1. 24 \in 0..60 /\ 24 + 24 <= 60
        OBVIOUS
      <4> QED
        BY <4>1, PowerSums, Zenon
    <3>2. P[24] = W24
      BY PowerOfWidth, Zenon
    <3> QED
      BY <3>1, <3>2, <1>7, Zenon
  <2>3. n * P[48] >= W24 * W24
    BY <1>5, <2>2, Widths, SMT
  <2>4. q * d <= W18 * (W24 - 1)
    <3>1. q * d <= W18 * d
      BY <1>5, <2>1, Widths, SMT
    <3> QED
      BY <1>5, <2>1, <3>1, Widths, SMT
  <2> QED
    BY <1>5, <2>1, <2>3, <2>4, Widths, SMT
<1> QED
  BY <1>4, <1>5, <1>9, <1>10, OnesKeep, Zenon DEF Sixfold

-----------------------------------------------------------------------------
(* The rounded quotient.                                                   *)

\* A Float z is n / d, but for half a unit of its last bit.
Near(z, n, d, P) ==
  /\ z \in [m : Nat, e : 0..53] /\ z.m >= W23 /\ z.m < W24
  /\ 2 * (z.m * d) <= 2 * (n * P[z.e]) + d
  /\ 2 * (n * P[z.e]) <= 2 * (z.m * d) + d

LEMMA RoundedNear ==
  ASSUME NEW P, Powers(P), NEW n \in Nat \ {0}, NEW d \in Nat \ {0},
         NEW s, Kept(s, n, d, P, 53), s.q >= W23
  PROVE  /\ Rounded(s, d) \in {s.q, s.q + 1}
         /\ Rounded(s, d) = s.q + 1 => s.r > 0
         /\ 2 * (Rounded(s, d) * d) <= 2 * (n * P[s.e]) + d
         /\ 2 * (n * P[s.e]) <= 2 * (Rounded(s, d) * d) + d
<1>0. PICK m : m = Rounded(s, d)
  OBVIOUS
<1>1. PICK q \in Nat, r \in Nat : s.q = q /\ s.r = r /\ r < d /\ q * d + r = n * P[s.e] /\ m = Rounded(s, d)
  BY <1>0, SMT DEF Kept
<1>2. PICK f \in Nat : f = n * P[s.e] /\ q * d + r = f
  BY <1>1
<1>3. (m = q /\ 2 * r <= d) \/ (m = q + 1 /\ 2 * r >= d)
  BY <1>1, SMT DEF Rounded
<1>4. 2 * (m * d) <= 2 * f + d /\ 2 * f <= 2 * (m * d) + d
  <2>1. (q + 1) * d = q * d + d /\ q * d \in Nat
    OBVIOUS
  <2>2. CASE m = q /\ 2 * r <= d
    BY <1>1, <1>2, <2>1, <2>2
  <2>3. CASE m = q + 1 /\ 2 * r >= d
    BY <1>1, <1>2, <2>1, <2>3
  <2> QED
    BY <1>3, <2>2, <2>3
<1>5. m \in {q, q + 1} /\ (m = q + 1 => r > 0)
  BY <1>3
<1> QED
  BY <1>1, <1>2, <1>4, <1>5

LEMMA QuotientNear ==
  ASSUME NEW P, Powers(P), NEW n \in 1..(W24 - 1), NEW d \in 1..(W24 - 1)
  PROVE  Near(Quotient(n, d), n, d, P)
<1>1. PICK s : s = Scaled(n, d)
  OBVIOUS
<1>2. PICK m : m = Rounded(s, d)
  OBVIOUS
<1>3. n \in Nat \ {0} /\ d \in Nat \ {0} /\ n < W24
  BY Widths
<1>4. Kept(s, n, d, P, 53) /\ s.q >= W23
  BY <1>1, ScaledKeeps, Zenon
<1>5. /\ m \in {s.q, s.q + 1} /\ (m = s.q + 1 => s.r > 0)
      /\ 2 * (m * d) <= 2 * (n * P[s.e]) + d
      /\ 2 * (n * P[s.e]) <= 2 * (m * d) + d
  BY <1>2, <1>3, <1>4, RoundedNear, Zenon
<1>6. PICK q \in Nat, r \in Nat, e \in 0..53 :
        /\ s.q = q /\ s.r = r /\ s.e = e
        /\ q >= W23 /\ q < W24 /\ q * d + r = n * P[e]
  <2>1. /\ s.q \in Nat /\ s.r \in Nat /\ s.e \in Nat /\ s.e <= 53
    BY <1>4, SMT DEF Kept
  <2>2. s.q < W24 /\ s.q * d + s.r = n * P[s.e]
    BY <1>4, SMT DEF Kept
  <2>3. s.e \in 0..53
    BY <2>1
  <2> QED
    BY <1>4, <2>1, <2>2, <2>3
<1>7. Quotient(n, d) = IF m = W24 THEN [m |-> W23, e |-> e - 1] ELSE [m |-> m, e |-> e]
  BY <1>1, <1>2, <1>6, PowersNamed, Zenon DEF Quotient
<1>8. CASE m # W24
  <2>1. Quotient(n, d) = [m |-> m, e |-> e] /\ m \in Nat /\ m >= W23 /\ m < W24
    BY <1>5, <1>6, <1>7, <1>8, Widths
  <2> QED
    BY <1>5, <1>6, <2>1, SMT DEF Near
<1>9. CASE m = W24
  <2>1. q = W24 - 1 /\ r > 0
    BY <1>5, <1>6, <1>9, Widths
  <2>2. e # 0
    <3> SUFFICES ASSUME e = 0 PROVE FALSE
      OBVIOUS
    <3>1. q * d + r = n
      BY <1>3, <1>6 DEF Powers, PowersTo
    <3>2. q <= q * d
      BY <1>3
    <3> QED
      BY <1>3, <2>1, <3>1, <3>2, Widths
  <2>3. e - 1 \in 0..53 /\ P[e] = 2 * P[e - 1] /\ P[e - 1] \in Nat
    <3>1. e \in 1..60 /\ e - 1 \in 0..60
      BY <2>2
    <3> QED
      BY <3>1 DEF Powers, PowersTo
  <2>4. PICK p \in Nat : p = n * P[e - 1] /\ n * P[e] = 2 * p
    <3>1. n * P[e] = 2 * (n * P[e - 1])
      BY <1>3, <2>3
    <3> QED
      BY <1>3, <2>3, <3>1
  <2>5. W24 * d = 2 * (W23 * d) /\ W23 * d \in Nat
    BY <1>3, Widths
  <2>6. 2 * (W24 * d) <= 2 * (2 * p) + d /\ 2 * (2 * p) <= 2 * (W24 * d) + d
    BY <1>5, <1>6, <1>9, <2>4
  <2>7. 2 * (W23 * d) <= 2 * p + d /\ 2 * p <= 2 * (W23 * d) + d
    BY <1>3, <2>5, <2>6
  <2>8. Quotient(n, d) = [m |-> W23, e |-> e - 1]
    BY <1>7, <1>9
  <2>9. W23 \in Nat /\ W23 < W24
    BY Widths
  <2> QED
    BY <2>3, <2>4, <2>7, <2>8, <2>9, SMT DEF Near
<1> QED
  BY <1>8, <1>9

-----------------------------------------------------------------------------
(* Two quotients upon each other.                                          *)

\* a is R * U / 7 and x is D * X / a, each rounded; then g, the whole part of
\* x * U / X, is within one of v, that of 7 * D / R.
LEMMA WithinOne ==
  ASSUME NEW D \in Nat \ {0}, NEW R \in Nat \ {0}, NEW U \in Nat \ {0}, NEW X \in Nat \ {0},
         NEW a \in Nat, NEW x \in Nat, NEW v \in Nat, NEW g \in Nat,
         a >= W23, a < W24, x >= W23, v < W23,
         R * v <= 7 * D, 7 * D < R * (v + 1),
         2 * (a * 7) <= 2 * (R * U) + 7, 2 * (R * U) <= 2 * (a * 7) + 7,
         2 * (x * a) <= 2 * (D * X) + a, 2 * (D * X) <= 2 * (x * a) + a,
         X * g <= x * U, x * U < X * (g + 1)
  PROVE  g \in (v - 1)..(v + 1)
<1>1. PICK w \in Nat : w = W23 /\ w > 14 /\ W24 = 2 * w
  <2>1. W23 > 14
    BY SMT DEF W23
  <2> QED
    BY <2>1, Widths
<1>2. PICK dx \in Nat, xa \in Nat, ru \in Nat, s \in Nat \ {0} :
        dx = D * X /\ xa = x * a /\ ru = R * U /\ s = R * X
  OBVIOUS
<1>3. PICK t \in Nat : t = x * ru
  OBVIOUS
\* What the two roundings leave between the products.
<1>4. t <= 7 * xa + 3 * x /\ 7 * xa <= t + 3 * x
  <2>1. ru <= 7 * a + 3 /\ 7 * a <= ru + 3
    BY <1>2
  <2>2. x * ru <= x * (7 * a + 3) /\ x * (7 * a) <= x * (ru + 3)
    BY <2>1
  <2>3. x * (7 * a + 3) = 7 * (x * a) + 3 * x /\ x * (7 * a) = 7 * (x * a) /\ x * (ru + 3) = x * ru + 3 * x
    OBVIOUS
  <2> QED
    BY <1>2, <1>3, <2>2, <2>3
<1>5. 14 * xa <= 14 * dx + 7 * a /\ 14 * dx <= 14 * xa + 7 * a
  BY <1>2
<1>6. 2 * t <= 14 * dx + 7 * a + 6 * x /\ 14 * dx <= 2 * t + 7 * a + 6 * x
  BY <1>4, <1>5
\* The exact number, and the one computed, against s.
<1>7. v * s <= 7 * dx /\ 7 * dx < (v + 1) * s
  <2>1. (R * v) * X <= (7 * D) * X /\ (7 * D) * X < (R * (v + 1)) * X
    OBVIOUS
  <2>2. (R * v) * X = v * (R * X) /\ (7 * D) * X = 7 * (D * X) /\ (R * (v + 1)) * X = (v + 1) * (R * X)
    OBVIOUS
  <2> QED
    BY <1>2, <2>1, <2>2
<1>8. g * s <= t /\ t < (g + 1) * s
  <2>1. (X * g) * R <= (x * U) * R /\ (x * U) * R < (X * (g + 1)) * R
    OBVIOUS
  <2>2. (X * g) * R = g * (R * X) /\ (x * U) * R = x * (R * U) /\ (X * (g + 1)) * R = (g + 1) * (R * X)
    OBVIOUS
  <2> QED
    BY <1>2, <1>3, <2>1, <2>2
\* The error is at most one.
<1>9. 7 * a + 6 * x <= 2 * s
  <2> SUFFICES ASSUME 2 * s + 1 <= 7 * a + 6 * x PROVE FALSE
    OBVIOUS
  <2>1. 7 * dx < w * s
    <3>1. (v + 1) * s <= w * s
      BY <1>1
    <3> QED
      BY <1>7, <3>1
  <2>2. xa >= w * a /\ xa >= w * x
    BY <1>1, <1>2
  <2>3. w * (2 * s + 1) <= w * (7 * a + 6 * x)
    BY <1>1
  <2>4. PICK ws \in Nat, wa \in Nat, wx \in Nat : ws = w * s /\ wa = w * a /\ wx = w * x
    OBVIOUS
  <2>5. w * (2 * s + 1) = 2 * ws + w /\ w * (7 * a + 6 * x) = 7 * wa + 6 * wx
    BY <2>4
  <2>6. 2 * ws + w <= 7 * wa + 6 * wx
    BY <2>3, <2>5
  <2>7. wx + w < 7 * a
    BY <1>5, <2>1, <2>2, <2>4, <2>6
  <2>8. wx >= 14 * w
    BY <1>1, <2>4
  <2>9. a < 2 * w
    BY <1>1
  <2> QED
    BY <2>7, <2>8, <2>9
<1>10. ~(g >= v + 2)
  <2> SUFFICES ASSUME g >= v + 2 PROVE FALSE
    OBVIOUS
  <2>1. (v + 2) * s <= g * s
    OBVIOUS
  <2>2. (v + 2) * s = (v + 1) * s + s
    OBVIOUS
  <2> QED
    BY <1>6, <1>7, <1>8, <1>9, <2>1, <2>2
<1>11. ~(v >= g + 2)
  <2> SUFFICES ASSUME v >= g + 2 PROVE FALSE
    OBVIOUS
  <2>1. (g + 2) * s <= v * s
    OBVIOUS
  <2>2. (g + 2) * s = (g + 1) * s + s
    OBVIOUS
  <2> QED
    BY <1>6, <1>7, <1>8, <1>9, <2>1, <2>2
<1> QED
  BY <1>10, <1>11

-----------------------------------------------------------------------------
(* The due date.                                                           *)

\* A larger power of two is at least twice the smaller, and from 2^24 on at
\* least W24.
LEMMA PowersGrow ==
  ASSUME NEW P, Powers(P), NEW k \in 1..60
  PROVE  P[k] \in Nat /\ P[k] >= 2 /\ (k > 23 => P[k] >= W24)
<1>1. P[k] = 2 * P[k - 1] /\ P[k - 1] \in Nat \ {0}
  <2>1. k - 1 \in 0..60
    OBVIOUS
  <2> QED
    BY <2>1 DEF Powers, PowersTo
<1>2. ASSUME k > 23 PROVE P[k] >= W24
  <2>1. 24 \in 0..60 /\ k - 24 \in 0..60 /\ 24 + (k - 24) <= 60 /\ 24 + (k - 24) = k
    BY <1>2
  <2>2. P[24 + (k - 24)] = P[24] * P[k - 24]
    BY <2>1, PowerSums, Zenon
  <2>3. P[k - 24] \in Nat \ {0}
    BY <2>1 DEF Powers, PowersTo
  <2> QED
    BY <2>1, <2>2, <2>3, PowerOfWidth, Widths
<1> QED
  BY <1>1, <1>2

LEMMA DaysClose ==
  ASSUME distance \in Nat, distance < W24, run \in Nat \ {0}, run < W24,
         (7 * distance) \div run < W23
  PROVE  Days \in ((7 * distance) \div run - 1)..((7 * distance) \div run + 1)
<1>0. PICK v : v = (7 * distance) \div run
  OBVIOUS
<1>1. PICK D \in Nat, R \in Nat \ {0} :
        D = distance /\ R = run /\ v = (7 * distance) \div run /\ D < W24 /\ R < W24
  BY <1>0
<1>2. v \in Nat /\ R * v <= 7 * D /\ 7 * D < R * (v + 1) /\ v < W23
  <2>1. PICK n \in Nat : n = 7 * D
    OBVIOUS
  <2>2. PICK q \in Nat, r \in Nat : q = n \div R /\ r < R /\ R * q + r = n
    BY <2>1, Division, Zenon
  <2>3. R * (q + 1) = R * q + R
    OBVIOUS
  <2>4. v = q /\ v < W23
    BY <1>1, <2>1, <2>2
  <2> QED
    BY <2>1, <2>2, <2>3, <2>4
<1>3. SUFFICES Days \in (v - 1)..(v + 1)
  BY <1>1
<1>4. CASE D = 0
  <2>1. v = 0
    <3>1. v >= 1 => R * v >= 1
      BY <1>2
    <3> QED
      BY <1>2, <1>4, <3>1
  <2>2. Days = 0
    BY <1>1, <1>4 DEF Days
  <2> QED
    BY <2>1, <2>2
<1>5. CASE D # 0
  <2>1. PICK P : Powers(P)
    BY PowersExist
  <2>2. PICK a : a = Quotient(R, 7)
    OBVIOUS
  <2>3. Near(a, R, 7, P)
    <3>1. R \in 1..(W24 - 1) /\ 7 \in 1..(W24 - 1)
      <4>1. W24 > 7
        BY SMT DEF W24
      <4> QED
        BY <1>1, <4>1, Widths
    <3> QED
      BY <2>1, <2>2, <3>1, QuotientNear, Zenon
  <2>4. PICK am \in Nat, ae \in 0..53 : am = a.m /\ ae = a.e
    BY <2>3 DEF Near
  <2>5. am >= W23 /\ am < W24
    BY <2>3, <2>4 DEF Near
  <2>6. 2 * (am * 7) <= 2 * (R * P[ae]) + 7 /\ 2 * (R * P[ae]) <= 2 * (am * 7) + 7
    BY <2>3, <2>4, Zenon DEF Near
  <2>7. PICK z : z = Quotient(D, am)
    OBVIOUS
  <2>8. Near(z, D, am, P)
    <3>1. D \in 1..(W24 - 1) /\ am \in 1..(W24 - 1)
      BY <1>1, <1>5, <2>4, <2>5, Widths
    <3> QED
      BY <2>1, <2>7, <3>1, QuotientNear, Zenon
  <2>9. PICK x \in Nat, xe \in 0..53 : x = z.m /\ xe = z.e
    BY <2>8 DEF Near
  <2>10. x >= W23 /\ x < W24
    BY <2>8, <2>9 DEF Near
  <2>11. 2 * (x * am) <= 2 * (D * P[xe]) + am /\ 2 * (D * P[xe]) <= 2 * (x * am) + am
    BY <2>8, <2>9, Zenon DEF Near
  <2>12. PICK U \in Nat \ {0}, X \in Nat \ {0} : U = P[ae] /\ X = P[xe]
    <3>1. ae \in 0..60 /\ xe \in 0..60
      OBVIOUS
    <3>2. P[ae] \in Nat \ {0} /\ P[xe] \in Nat \ {0}
      BY <2>1, <3>1 DEF Powers, PowersTo
    <3> QED
      BY <3>2
  <2>13. PICK e \in Int : e = xe - ae /\ e <= 53 /\ -e <= 53
    OBVIOUS
  <2>14. Days = IF e > 23 THEN 0 ELSE IF e > 0 THEN x \div 2^e ELSE x * 2^(-e)
    BY <1>1, <1>5, <2>2, <2>4, <2>7, <2>9, <2>13, Zenon DEF Days, AverageDay
  <2>15. ASSUME NEW g \in Nat, X * g <= x * U, x * U < X * (g + 1)
         PROVE  g \in (v - 1)..(v + 1)
    BY <1>1, <1>2, <1>5, <2>5, <2>6, <2>10, <2>11, <2>12, <2>15, WithinOne
  <2>16. CASE e > 0
    <3>1. PICK p \in Nat : p = P[e] /\ p >= 2 /\ (e > 23 => p >= W24)
      <4>1. e \in 1..60
        BY <2>13, <2>16
      <4> QED
        BY <2>1, <4>1, PowersGrow
    <3>2. X = U * p
      <4>1. ae \in 0..60 /\ e \in 0..60 /\ ae + e <= 60 /\ ae + e = xe
        BY <2>13, <2>16
      <4>2. P[ae + e] = P[ae] * P[e]
        BY <2>1, <4>1, PowerSums, Zenon
      <4> QED
        BY <2>12, <3>1, <4>1, <4>2
    <3>3. PICK g \in Nat : g = Days /\ p * g <= x /\ x < p * (g + 1)
      <4>1. CASE e > 23
        <5>1. Days = 0 /\ p * 0 = 0 /\ p * (0 + 1) = p
          BY <2>14, <3>1, <4>1
        <5> QED
          BY <2>10, <3>1, <4>1, <5>1, Widths
      <4>2. CASE e <= 23
        <5>1. e \in 0..23
          BY <2>16, <4>2
        <5>2. Days = x \div p
          <6>1. 2^e = P[e]
            BY <2>1, <5>1, PowersAre, Zenon
          <6>2. Days = x \div 2^e
            BY <2>14, <2>16, <4>2
          <6> QED
            BY <3>1, <6>1, <6>2, Zenon
        <5>3. PICK q \in Nat, r \in Nat : q = x \div p /\ r < p /\ p * q + r = x
          <6>1. p \in Nat \ {0}
            BY <3>1
          <6>2. /\ x \div p \in Nat /\ x % p \in Nat /\ x % p < p
                /\ p * (x \div p) + (x % p) = x
            BY <6>1, Division, Zenon
          <6> QED
            BY <6>2
        <5>4. p * (q + 1) = p * q + p
          BY <3>1
        <5> QED
          BY <3>1, <5>2, <5>3, <5>4
      <4> QED
        BY <2>16, <4>1, <4>2
    <3>4. X * g <= x * U /\ x * U < X * (g + 1)
      <4>1. U * (p * g) <= U * x /\ U * x < U * (p * (g + 1))
        BY <3>3
      <4>2. U * (p * g) = (U * p) * g /\ U * (p * (g + 1)) = (U * p) * (g + 1) /\ U * x = x * U
        OBVIOUS
      <4> QED
        BY <3>2, <4>1, <4>2
    <3> QED
      BY <2>15, <3>3, <3>4
  <2>17. CASE e <= 0
    <3>1. PICK k \in Nat : k = -e /\ k <= 53
      BY <2>13, <2>17
    <3>2. PICK p \in Nat \ {0} : p = P[k] /\ (k # 0 => p >= 2)
      <4>1. k \in 0..60 /\ (k # 0 => k \in 1..60)
        BY <3>1
      <4>2. P[k] \in Nat \ {0}
        BY <2>1, <4>1 DEF Powers, PowersTo
      <4> QED
        BY <2>1, <4>1, <4>2, PowersGrow
    <3>3. U = X * p
      <4>1. xe \in 0..60 /\ k \in 0..60 /\ xe + k <= 60 /\ xe + k = ae
        BY <2>13, <3>1
      <4>2. P[xe + k] = P[xe] * P[k]
        BY <2>1, <4>1, PowerSums, Zenon
      <4> QED
        BY <2>12, <3>2, <4>1, <4>2
    <3>4. PICK g \in Nat : g = x * p
      OBVIOUS
    <3>5. X * g <= x * U /\ x * U < X * (g + 1)
      <4>1. x * U = X * (x * p) /\ X * (g + 1) = X * g + X
        BY <3>3
      <4> QED
        BY <3>4, <4>1
    <3>6. g \in (v - 1)..(v + 1)
      BY <2>15, <3>5
    <3>7. k = 0
      <4> SUFFICES ASSUME k # 0 PROVE FALSE
        OBVIOUS
      <4>1. x * p >= 2 * x
        BY <3>2
      <4>2. W23 > 1
        BY SMT DEF W23
      <4> QED
        BY <1>2, <2>10, <3>4, <3>6, <4>1, <4>2, Widths
    <3>8. Days = g
      <4>1. 2^k = P[k]
        BY <2>1, <3>7, PowersAre
      <4> QED
        BY <2>14, <2>17, <3>1, <3>2, <3>4, <4>1
    <3> QED
      BY <3>6, <3>8
  <2> QED
    BY <2>13, <2>16, <2>17
<1> QED
  BY <1>4, <1>5

-----------------------------------------------------------------------------
(* The row that is saved.                                                  *)

\* What the form holds is typed, whatever it is.
FormInv == distance \in Distances \cup {Wide} /\ run \in Runs \cup {Wide}

\* What fits is a number of 24 bits.
LEMMA FitsAreNumbers ==
  ASSUME FormInv, Fits
  PROVE  distance \in Nat /\ distance < W24 /\ run \in Nat \ {0} /\ run < W24
<1>1. distance \in Distances /\ run \in Runs /\ run > 0
  BY Zenon DEF FormInv, Fits
<1>2. Distances \subseteq 0..(W24 - 1) /\ Runs \subseteq 0..(W24 - 1)
  BY DueDateAssumption, PowersNamed, Zenon
<1>3. distance \in 0..(W24 - 1) /\ run \in 0..(W24 - 1)
  BY <1>1, <1>2, Zenon
<1> QED
  BY <1>1, <1>3, Widths

LEMMA NoRowIsDue ==
  ASSUME row = NoRow
  PROVE  DueWithinADay
<1>1. row.distance = 0 /\ row.run = 1 /\ row.days = 0
  BY DEF NoRow
<1>2. 7 * 0 = 0 /\ 0 \div 1 = 0 /\ 0 \in (0 - 1)..(0 + 1)
  OBVIOUS
<1> QED
  BY <1>1, <1>2, Zenon DEF DueWithinADay

LEMMA SaveStep ==
  ASSUME FormInv, Save
  PROVE  FormInv' /\ DueWithinADay'
<1>1. FormInv'
  BY Zenon DEF FormInv, Save
<1>2. CASE Fits
  <2>1. row' = [distance |-> distance, run |-> run, days |-> Days]
    BY <1>2 DEF Save
  <2>2. row'.distance = distance /\ row'.run = run /\ row'.days = Days
    BY <2>1
  <2>3. /\ distance \in Nat /\ distance < W24 /\ run \in Nat \ {0} /\ run < W24
    BY <1>2, FitsAreNumbers
  <2>4. ASSUME (7 * distance) \div run < 2^23
        PROVE  Days \in ((7 * distance) \div run - 1)..((7 * distance) \div run + 1)
    <3>1. (7 * distance) \div run < W23
      BY <2>4, PowersNamed, Zenon
    <3> QED
      BY <2>3, <3>1, DaysClose, Zenon
  <2>5. DueWithinADay'
    BY <2>2, <2>4, Zenon DEF DueWithinADay
  <2> QED
    BY <1>1, <2>5
<1>3. CASE ~Fits
  <2>1. (row = NoRow)'
    BY <1>3 DEF Save
  <2>2. DueWithinADay'
    BY <2>1, NoRowIsDue, PTL
  <2> QED
    BY <1>1, <2>2
<1> QED
  BY <1>2, <1>3

\* The row that is saved has a due date within a day of distance / (run / 7),
\* for every number that may be typed: both divisions of getServiceDueDate
\* round, and Int() drops the rest.
THEOREM DueDateCorrect == Spec => []DueWithinADay
<1>1. Init => FormInv /\ DueWithinADay
  BY NoRowIsDue DEF Init, FormInv
<1>2. FormInv /\ DueWithinADay /\ [Next]_vars => (FormInv /\ DueWithinADay)'
  <2> SUFFICES ASSUME FormInv, DueWithinADay, [Next]_vars PROVE FormInv' /\ DueWithinADay'
    OBVIOUS
  <2>1. CASE TypeDistance
    <3>1. FormInv' /\ (row = NoRow)'
      BY <2>1, Zenon DEF FormInv, TypeDistance
    <3> QED
      BY <3>1, NoRowIsDue, PTL
  <2>2. CASE TypeRun
    <3>1. FormInv' /\ (row = NoRow)'
      BY <2>2, Zenon DEF FormInv, TypeRun
    <3> QED
      BY <3>1, NoRowIsDue, PTL
  <2>3. CASE Save
    BY <2>3, SaveStep
  <2>4. CASE UNCHANGED vars
    BY <2>4, Zenon DEF FormInv, DueWithinADay, vars
  <2> QED
    BY <2>1, <2>2, <2>3, <2>4 DEF Next
<1> QED
  BY <1>1, <1>2, PTL DEF Spec

=============================================================================
