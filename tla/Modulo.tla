------------------------------- MODULE Modulo -------------------------------
(***************************************************************************)
(* Facts about % with a divisor that is not a literal, of which the        *)
(* provers know little: the indices of the ring buffers and the offsets    *)
(* into the chip's command FIFO are all taken modulo a constant or the     *)
(* size of a buffer.                                                       *)
(***************************************************************************)
EXTENDS Integers, TLAPS

LEMMA TimesPositive == ASSUME NEW n \in Nat \ {0}, NEW k \in Int, k > 0
                       PROVE  n * k >= n
OBVIOUS

LEMMA TimesNegative == ASSUME NEW n \in Nat \ {0}, NEW k \in Int, k <= 0
                       PROVE  n * k <= 0
OBVIOUS

LEMMA Division == ASSUME NEW n \in Nat \ {0}, NEW x \in Int
                  PROVE  /\ x \div n \in Int /\ x % n \in 0..n-1
                         /\ x = n * (x \div n) + (x % n)
OBVIOUS

(* Quotient and remainder are unique. *)
LEMMA Remainder ==
  ASSUME NEW n \in Nat \ {0}, NEW x \in Int, NEW q \in Int, NEW r \in 0..n-1,
         x = n * q + r
  PROVE  x % n = r
<1> DEFINE k == q - (x \div n)
           d == (x % n) - r
<1>1. k \in Int /\ d \in Int /\ d < n /\ -n < d
  BY Division
<1>2. n * k = n * q - n * (x \div n)
  BY Division
<1>3. n * k = d
  BY <1>2, Division
<1> HIDE DEF k, d
<1>4. k <= 0
  BY <1>1, <1>3, TimesPositive
<1>5. k >= 0
  <2> SUFFICES ASSUME k < 0 PROVE FALSE
    BY <1>1
  <2>1. n * (-k) = -d /\ -k > 0 /\ -k \in Int
    BY <1>1, <1>3
  <2>2. QED
    BY <1>1, <2>1, TimesPositive
<1>6. d = 0
  BY <1>1, <1>3, <1>4, <1>5
<1>7. QED
  BY <1>6, Division DEF d

LEMMA Small == ASSUME NEW n \in Nat \ {0}, NEW x \in 0..n-1 PROVE x % n = x
<1>1. x = n * 0 + x
  OBVIOUS
<1>2. QED
  BY <1>1, Remainder

(* Whole turns do not count. *)
LEMMA Turns == ASSUME NEW n \in Nat \ {0}, NEW x \in Int, NEW k \in Int
               PROVE  (x + n * k) % n = x % n
<1>1. /\ x \div n \in Int /\ x % n \in 0..n-1
      /\ x = n * (x \div n) + (x % n)
  BY Division
<1>2. n * ((x \div n) + k) = n * (x \div n) + n * k
  BY <1>1
<1>3. x + n * k = n * ((x \div n) + k) + (x % n)
  BY <1>1, <1>2
<1>4. (x \div n) + k \in Int /\ x + n * k \in Int
  BY <1>1
<1>5. QED
  BY <1>1, <1>3, <1>4, Remainder

(* Numbers less than n apart have different remainders. *)
LEMMA Apart == ASSUME NEW n \in Nat \ {0}, NEW x \in Int, NEW y \in Int,
                      x < y, y - x < n
               PROVE  x % n # y % n
<1> SUFFICES ASSUME x % n = y % n PROVE FALSE
  OBVIOUS
<1> DEFINE k == (y \div n) - (x \div n)
<1>1. k \in Int
  BY Division
<1>2. /\ x = n * (x \div n) + (x % n) /\ y = n * (y \div n) + (y % n)
      /\ x \div n \in Int /\ y \div n \in Int /\ x % n \in Int
  BY Division
<1>3. y - x = n * (y \div n) - n * (x \div n)
  BY <1>2
<1>4. n * k = n * (y \div n) - n * (x \div n)
  BY <1>2
<1>5. y - x = n * k
  BY <1>3, <1>4
<1> HIDE DEF k
<1>6. k > 0
  BY <1>1, <1>5, TimesNegative
<1>7. QED
  BY <1>1, <1>5, <1>6, TimesPositive

(* One turn too many. *)
LEMMA OneTurn == ASSUME NEW n \in Nat \ {0}, NEW x \in 0..2*n-1
                 PROVE  x % n = IF x < n THEN x ELSE x - n
<1>1. CASE x < n
  BY <1>1, Small
<1>2. CASE x >= n
  <2>1. x = n * 1 + (x - n) /\ x - n \in 0..n-1 /\ 1 \in Int /\ x \in Int
    BY <1>2
  <2>2. QED
    BY <1>2, <2>1, Remainder
<1>3. QED
  BY <1>1, <1>2

(* On a circle of n, l is how far t + l is ahead of t. *)
LEMMA Ahead == ASSUME NEW n \in Nat \ {0}, NEW t \in 0..n-1, NEW l \in 0..n-1
               PROVE  (((t + l) % n) - t) % n = l
<1> DEFINE x == t + l
           h == x % n
<1>1. x \in 0..2*n-1
  OBVIOUS
<1>2. h = IF x < n THEN x ELSE x - n
  BY <1>1, OneTurn
<1> HIDE DEF h
<1>3. CASE h = x
  <2>1. h - t = l
    BY <1>3
  <2>2. QED
    BY <2>1, Small DEF h
<1>4. CASE h = x - n
  <2>1. h - t = n * (-1) + l /\ h - t \in Int /\ -1 \in Int
    BY <1>4
  <2> DEFINE d == h - t
  <2> HIDE DEF d
  <2>2. d % n = l
    BY <2>1, Remainder DEF d
  <2>3. QED
    BY <2>2 DEF d, h
<1>5. QED
  BY <1>2, <1>3, <1>4

(* Reducing first changes nothing, when the one divisor divides the other. *)
LEMMA Reduced ==
  ASSUME NEW n \in Nat \ {0}, NEW m \in Nat \ {0},
         NEW s \in Nat \ {0}, n * m = s,
         NEW x \in Int, NEW k \in Int
  PROVE  ((x % s) + k) % n = (x + k) % n
<1> DEFINE q == x \div s
           r == x % s
<1>1. q \in Int /\ r \in Int /\ x = s * q + r
  BY Division
<1> HIDE DEF q, r
<1>2. s * q = n * (m * q) /\ m * q \in Int
  BY <1>1
<1>3. x + k = (r + k) + n * (m * q) /\ r + k \in Int
  BY <1>1, <1>2
<1>4. ((r + k) + n * (m * q)) % n = (r + k) % n
  BY <1>2, <1>3, Turns
<1>5. QED
  BY <1>3, <1>4 DEF r

LEMMA ReducedSame == ASSUME NEW n \in Nat \ {0}, NEW x \in Int
                     PROVE  \A k \in Int : ((x % n) + k) % n = (x + k) % n
<1>1. ASSUME NEW m \in Nat \ {0}, n * m = n, NEW k \in Int
      PROVE  ((x % n) + k) % n = (x + k) % n
  BY <1>1, Reduced
<1>2. 1 \in Nat \ {0} /\ n * 1 = n
  OBVIOUS
<1>3. QED
  BY <1>1, <1>2

LEMMA Inner == ASSUME NEW n \in Nat \ {0}, NEW m \in Nat \ {0},
                      NEW s \in Nat \ {0}, n * m = s, NEW x \in Int
               PROVE  (x % s) % n = x % n
<1>1. \A k \in Int : ((x % s) + k) % n = (x + k) % n
  BY Reduced
<1>2. ((x % s) + 0) % n = (x + 0) % n
  BY <1>1
<1>3. x % s \in Int
  BY Division
<1>4. (x % s) + 0 = x % s /\ x + 0 = x
  BY <1>3
<1>5. QED
  BY <1>2, <1>4

(* Bytes and words. *)
LEMMA Fourfold == ASSUME NEW c \in Nat \ {0}, NEW x \in Int
                  PROVE  (4 * x) % (4 * c) = 4 * (x % c)
<1> DEFINE q == x \div c
           r == x % c
<1>1. q \in Int /\ r \in 0..c-1 /\ x = c * q + r
  BY Division
<1> HIDE DEF q, r
<1>2. 4 * x = (4 * c) * q + 4 * r
  <2>1. (4 * c) * q = 4 * (c * q) /\ c * q \in Int
    BY <1>1
  <2>2. QED
    BY <1>1, <2>1
<1>3. 4 * r \in 0..4*c-1 /\ 4 * x \in Int /\ 4 * c \in Nat \ {0}
  BY <1>1
<1>4. (4 * x) % (4 * c) = 4 * r
  BY <1>1, <1>2, <1>3, Remainder
<1>5. QED
  BY <1>4 DEF r
=============================================================================
