--------------------------- MODULE RingArithmetic ---------------------------
(***************************************************************************)
(* Arithmetic of addresses on a ring and of multiples of a frame, used by  *)
(* the proofs about the buffers.                                           *)
(***************************************************************************)
EXTENDS Integers, TLAPS


\* Wrapping an address that ran past the ring at most once subtracts its size.
LEMMA WrapOnce ==
  ASSUME NEW s \in Nat \ {0}, NEW a \in Nat, NEW b \in Nat, a + b < s + s
  PROVE  (a + b) % s = IF a + b < s THEN a + b ELSE a + b - s
PROOF OBVIOUS

\* A wrapped number lies in the ring.
LEMMA WrapRange ==
  ASSUME NEW s \in Nat \ {0}, NEW a \in Int, NEW b \in Int, NEW c \in Int
  PROVE  (a + b) % s \in 0 .. s - 1 /\ (a + b - c) % s \in 0 .. s - 1
PROOF OBVIOUS

\* A multiple of a frame is a whole number of frames, and conversely.
LEMMA WholeFrames ==
  ASSUME NEW f \in Nat \ {0}, NEW a \in Nat, a % f = 0
  PROVE  \E m \in Nat : a = m * f
<1>1. a = f * (a \div f) + (a % f) /\ a \div f \in Nat
  OBVIOUS
<1>2. a = (a \div f) * f
  BY <1>1
<1> QED BY <1>1, <1>2

LEMMA FramesAreWhole ==
  ASSUME NEW f \in Nat \ {0}, NEW m \in Nat
  PROVE  (m * f) % f = 0
PROOF OBVIOUS

\* Multiples of a frame that differ are at least a frame apart.
LEMMA FrameApart ==
  ASSUME NEW f \in Nat \ {0}, NEW a \in Nat, NEW b \in Nat,
         a % f = 0, b % f = 0, a < b
  PROVE  a + f <= b
<1>1. PICK m \in Nat : a = m * f
  BY WholeFrames
<1>2. PICK k \in Nat : b = k * f
  BY WholeFrames
<1>3. m < k
  BY <1>1, <1>2
<1>4. (m + 1) * f <= k * f
  BY <1>3
<1>5. (m + 1) * f = m * f + f
  OBVIOUS
<1> QED BY <1>1, <1>2, <1>4, <1>5

\* Sums and differences of multiples of a frame are multiples of it.
LEMMA FrameSum ==
  ASSUME NEW f \in Nat \ {0}, NEW a \in Nat, NEW b \in Nat,
         a % f = 0, b % f = 0
  PROVE  /\ (a + b) % f = 0
         /\ a >= b => (a - b) % f = 0
<1>1. PICK m \in Nat : a = m * f
  BY WholeFrames
<1>2. PICK k \in Nat : b = k * f
  BY WholeFrames
<1>3. a + b = (m + k) * f /\ a - b = (m - k) * f
  BY <1>1, <1>2
<1>4. a >= b => m - k \in Nat
  BY <1>1, <1>2
<1>5. (a + b) % f = 0
  <2>1. m + k \in Nat
    OBVIOUS
  <2>2. ((m + k) * f) % f = 0
    BY <2>1, FramesAreWhole
  <2> QED BY <1>3, <2>2
<1>6. ASSUME a >= b PROVE (a - b) % f = 0
  <2>1. m - k \in Nat
    BY <1>4, <1>6
  <2>2. ((m - k) * f) % f = 0
    BY <2>1, FramesAreWhole
  <2> QED BY <1>3, <2>2
<1> QED BY <1>5, <1>6
=============================================================================
