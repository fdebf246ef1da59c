---------------------------- MODULE CryptoProofs ----------------------------
(***************************************************************************)
(* Proofs about the cryptographic code: HashStream, for every word, every  *)
(* value of a byte and every cut of a message, and PointDecompression, for *)
(* every number and size of limbs that leaves the carries room.            *)
(*                                                                         *)
(* The count of a hash is the number of bytes taken, wrapped, and the      *)
(* buffer holds those of the block that is begun; with the arithmetic of   *)
(* blocks and of the bytes of a number the refinement of BlockStream       *)
(* follows.                                                                *)
(*                                                                         *)
(* Of the field, a carry over all limbs keeps the number but for a         *)
(* multiple of twice the prime.  The limbs that unpackneg keeps are at     *)
(* most twice too large, which two carries after a product restore; three  *)
(* carries and two subtractions of the prime then leave the digits of the  *)
(* residue.  A product limb by limb stands for the product of the residues *)
(* (its rows are one factor moved up the limbs, what leaves the top coming *)
(* back times 38), so each register of unpackneg stands for what the       *)
(* equation of the curve asks of it, down to the accepted x.  That what it *)
(* rejects has no root is Euler's criterion: from Fermat's theorem (the    *)
(* multiples of x permute the residues), the exponents that the loop of    *)
(* pow2523 goes through, and P = 8 e + 5, which makes the two comparisons  *)
(* the only ones needed.                                                   *)
(***************************************************************************)
EXTENDS PointDecompression, HashStream, SequenceTheorems, WellFoundedInduction, TLAPS

-----------------------------------------------------------------------------
(* Induction, as a fact about sets.                                        *)

LEMMA LessThan ==
  \A x, y \in Nat : <<y, x>> \in OpToRel(<, Nat) <=> y < x
  BY DEF OpToRel

LEMMA LeastElement ==
  ASSUME NEW T \in SUBSET Nat, T # {}
  PROVE  \E m \in T : \A k \in T : m <= k
  <1>1. PICK m \in T : \A k \in T : ~(<<k, m>> \in OpToRel(<, Nat))
    BY NatLessThanWellFounded, WFMin
  <1>2. \A k \in T : ~(k < m)
    BY <1>1, LessThan
  <1> QED
    BY <1>2

LEMMA Induction ==
  ASSUME NEW T, 0 \in T, \A n \in Nat : n \in T => n + 1 \in T
  PROVE  Nat \subseteq T
  <1> SUFFICES ASSUME Nat \ T # {} PROVE FALSE
    OBVIOUS
  <1>1. PICK m \in Nat \ T : \A k \in Nat \ T : m <= k
    BY LeastElement
  <1>2. m # 0 /\ m - 1 \in Nat
    BY <1>1
  <1>3. m - 1 \in T
    BY <1>1, <1>2
  <1> QED
    BY <1>1, <1>2, <1>3

-----------------------------------------------------------------------------
(* Quotients and remainders.                                               *)

LEMMA Division ==
  ASSUME NEW a \in Nat, NEW b \in Nat \ {0}
  PROVE  /\ a \div b \in Nat /\ a % b \in 0 .. (b - 1) /\ a % b \in Nat
         /\ a = b * (a \div b) + (a % b)
  OBVIOUS

LEMMA Unique ==
  ASSUME NEW b \in Nat \ {0}, NEW q \in Nat, NEW r \in 0 .. (b - 1)
  PROVE  (b * q + r) \div b = q /\ (b * q + r) % b = r
  <1>1. b * q \in Nat /\ b * q + r \in Nat
    OBVIOUS
  <1>2. (b * q + r) % b = r
    BY <1>1
  <1>3. (b * q + r) \div b = q
    BY <1>1
  <1> QED
    BY <1>2, <1>3

LEMMA Multiple ==
  ASSUME NEW x \in Nat, NEW b \in Nat \ {0}, NEW k \in Nat
  PROVE  (x + b * k) \div b = x \div b + k /\ (x + b * k) % b = x % b
  <1>1. PICK q \in Nat, r \in 0 .. (b - 1) : q = x \div b /\ r = x % b /\ x = b * q + r
    BY Division
  <1>2. b * (q + k) = b * q + b * k /\ q + k \in Nat
    OBVIOUS
  <1>3. x + b * k = b * (q + k) + r
    <2>1. b * q \in Nat /\ b * k \in Nat
      OBVIOUS
    <2> QED
      BY <1>1, <1>2, <2>1
  <1>4. (b * (q + k) + r) \div b = q + k /\ (b * (q + k) + r) % b = r
    BY <1>2, Unique
  <1> QED
    BY <1>1, <1>3, <1>4

(* A remainder of a remainder.                                             *)
LEMMA RemainderOf ==
  ASSUME NEW x \in Nat, NEW b \in Nat \ {0}, NEW k \in Nat \ {0}
  PROVE  (x % (b * k)) % b = x % b
  <1>1. PICK m \in Nat \ {0} : m = b * k
    OBVIOUS
  <1>2. x % m \in Nat /\ x \div m \in Nat /\ x = m * (x \div m) + (x % m)
    BY Division
  <1>3. PICK y \in Nat, t \in Nat : y = x % m /\ t = x \div m
    BY <1>2
  <1>4. m * t = b * (k * t) /\ k * t \in Nat
    BY <1>1
  <1>5. x = y + b * (k * t)
    <2>1. m * t \in Nat
      OBVIOUS
    <2> QED
      BY <1>2, <1>3, <1>4, <2>1
  <1>6. (y + b * (k * t)) % b = y % b
    BY <1>4, Multiple
  <1> QED
    BY <1>1, <1>3, <1>5, <1>6

(* A number may be wrapped before eight of it are added to another.        *)
LEMMA WrappedFirst ==
  ASSUME NEW x \in Nat, NEW d \in Nat, NEW b \in Nat \ {0}
  PROVE  (8 * (x % b) + d) % b = (8 * x + d) % b
  <1>1. PICK q \in Nat, r \in Nat : q = x \div b /\ r = x % b /\ x = b * q + r
    BY Division
  <1>2. PICK y \in Nat, k \in Nat : y = 8 * r + d /\ k = 8 * q
    OBVIOUS
  <1>3. 8 * x + d = y + b * k
    <2>1. b * k = 8 * (b * q) /\ b * q \in Nat
      BY <1>2
    <2> QED
      BY <1>1, <1>2, <2>1
  <1>4. (y + b * k) % b = y % b
    BY Multiple
  <1> QED
    BY <1>1, <1>2, <1>3, <1>4

(* A quotient of a quotient.                                               *)
LEMMA QuotientOf ==
  ASSUME NEW x \in Nat, NEW b \in Nat \ {0}, NEW c \in Nat \ {0}
  PROVE  x \div (b * c) = (x \div b) \div c
  <1>1. PICK q \in Nat, r \in 0 .. (b - 1) : q = x \div b /\ x = b * q + r
    BY Division
  <1>2. PICK t \in Nat, s \in 0 .. (c - 1) : t = q \div c /\ q = c * t + s
    BY Division
  <1>3. PICK m \in Nat \ {0} : m = b * c
    OBVIOUS
  <1>4. PICK d \in Nat : d = b * s
    OBVIOUS
  <1>5. b * q = m * t + d
    <2>1. b * (c * t + s) = b * (c * t) + b * s
      OBVIOUS
    <2>2. b * (c * t) = (b * c) * t
      OBVIOUS
    <2> QED
      BY <1>2, <1>3, <1>4, <2>1, <2>2
  <1>6. d + r \in 0 .. (m - 1)
    <2>1. b * s <= b * (c - 1)
      OBVIOUS
    <2>2. b * (c - 1) = b * c - b
      OBVIOUS
    <2> QED
      BY <1>3, <1>4, <2>1, <2>2
  <1>7. m * t \in Nat
    OBVIOUS
  <1>8. x = m * t + (d + r)
    BY <1>1, <1>5, <1>7
  <1>9. (m * t + (d + r)) \div m = t
    BY <1>6, Unique
  <1> QED
    BY <1>1, <1>2, <1>3, <1>8, <1>9

(* A digit of a number wrapped above the digit.                            *)
LEMMA DigitKept ==
  ASSUME NEW x \in Nat, NEW p \in Nat \ {0}, NEW b \in Nat \ {0}, NEW k \in Nat \ {0}
  PROVE  ((x % (p * (b * k))) \div p) % b = (x \div p) % b
  <1>1. PICK m \in Nat \ {0} : m = p * (b * k)
    <2>1. b * k \in Nat \ {0}
      OBVIOUS
    <2> QED
      BY <2>1
  <1>2. PICK y \in Nat, t \in Nat : y = x % m /\ t = x \div m /\ x = m * t + y
    BY Division
  <1>3. m * t = p * (b * (k * t)) /\ k * t \in Nat /\ b * (k * t) \in Nat
    <2>1. (p * (b * k)) * t = p * ((b * k) * t)
      BY <1>2
    <2>2. (b * k) * t = b * (k * t)
      OBVIOUS
    <2>3. k * t \in Nat /\ b * (k * t) \in Nat
      OBVIOUS
    <2> QED
      BY <1>1, <2>1, <2>2, <2>3
  <1>4. x = y + p * (b * (k * t))
    <2>1. m * t \in Nat
      OBVIOUS
    <2> QED
      BY <1>2, <1>3, <2>1
  <1>5. (y + p * (b * (k * t))) \div p = y \div p + b * (k * t)
    BY <1>3, Multiple
  <1>6. (y \div p + b * (k * t)) % b = (y \div p) % b
    <2>1. y \div p \in Nat
      BY Division
    <2> QED
      BY <1>3, <2>1, Multiple
  <1> QED
    BY <1>1, <1>2, <1>4, <1>5, <1>6

-----------------------------------------------------------------------------
(* The bytes of a number.                                                  *)

(* w has the weights of the first k bytes, step by step.                   *)
Weighs(w, k) ==
  /\ w \in [0 .. k -> Nat \ {0}]
  /\ w[0] = 1
  /\ \A n \in 1 .. k : w[n] = BASE * w[n - 1]

LEMMA WeightsExist ==
  ASSUME NEW l \in Nat
  PROVE  \E w : Weighs(w, l)
  <1> DEFINE T == {k \in Nat : \E w : Weighs(w, k)}
  <1>0. BASE \in Nat \ {0}
    BY HashSizesAssumption
  <1>1. 0 \in T
    <2>1. Weighs([n \in 0 .. 0 |-> 1], 0)
      BY DEF Weighs
    <2> QED
      BY <2>1
  <1>2. ASSUME NEW k \in Nat, k \in T PROVE k + 1 \in T
    <2>1. PICK w : Weighs(w, k)
      BY <1>2
    <2> DEFINE t == [n \in 0 .. (k + 1) |-> IF n <= k THEN w[n] ELSE BASE * w[k]]
    <2>2. BASE * w[k] \in Nat \ {0}
      <3>1. w[k] \in Nat \ {0}
        BY <2>1 DEF Weighs
      <3> QED
        BY <1>0, <3>1
    <2>3. t \in [0 .. (k + 1) -> Nat \ {0}]
      BY <2>1, <2>2 DEF Weighs
    <2>4. t[0] = 1
      BY <2>1 DEF Weighs
    <2>5. ASSUME NEW n \in 1 .. (k + 1) PROVE t[n] = BASE * t[n - 1]
      <3>1. CASE n = k + 1
        BY <3>1
      <3>2. CASE n # k + 1
        BY <2>1, <3>2 DEF Weighs
      <3> QED
        BY <3>1, <3>2
    <2> HIDE DEF t
    <2>6. Weighs(t, k + 1)
      BY <2>3, <2>4, <2>5 DEF Weighs
    <2> QED
      BY <2>6
  <1> HIDE DEF T
  <1>3. Nat \subseteq T
    BY <1>1, <1>2, Induction
  <1> QED
    BY <1>3 DEF T

LEMMA Weights == Weighs(Weight, 2 * WORD_BYTES)
  <1> DEFINE Step(s) == [n \in 0 .. (2 * WORD_BYTES) |-> IF n = 0 THEN 1 ELSE BASE * s[n - 1]]
  <1>0. PICK l \in Nat : l = 2 * WORD_BYTES
    BY HashSizesAssumption
  <1>1. PICK w : Weighs(w, l)
    BY WeightsExist
  <1>2. w = Step(w)
    BY <1>0, <1>1 DEF Weighs
  <1>3. Weight = CHOOSE s : s = Step(s)
    BY DEF Weight
  <1>4. Weight = Step(Weight)
    BY <1>2, <1>3
  <1>5. /\ DOMAIN Weight = 0 .. l
        /\ Weight[0] = 1
        /\ \A n \in 1 .. l : Weight[n] = BASE * Weight[n - 1]
    <2>1. \A n \in 0 .. (2 * WORD_BYTES) : Weight[n] = IF n = 0 THEN 1 ELSE BASE * Weight[n - 1]
      BY <1>4, Zenon
    <2>2. DOMAIN Weight = 0 .. (2 * WORD_BYTES)
      BY <1>4, Zenon
    <2> QED
      BY <1>0, <2>1, <2>2
  <1>6. \A n \in 0 .. l : Weight[n] = w[n]
    <2> DEFINE T == {n \in Nat : n <= l => Weight[n] = w[n]}
    <2>1. 0 \in T
      BY <1>1, <1>5 DEF Weighs
    <2>2. ASSUME NEW n \in Nat, n \in T PROVE n + 1 \in T
      <3> SUFFICES ASSUME n + 1 <= l PROVE Weight[n + 1] = w[n + 1]
        OBVIOUS
      <3>1. Weight[n] = w[n] /\ n + 1 \in 1 .. l /\ (n + 1) - 1 = n
        BY <2>2
      <3> QED
        BY <1>1, <1>5, <3>1 DEF Weighs
    <2> HIDE DEF T
    <2>3. Nat \subseteq T
      BY <2>1, <2>2, Induction
    <2> QED
      BY <2>3 DEF T
  <1>7. Weight = w
    BY <1>0, <1>1, <1>4, <1>6 DEF Weighs
  <1> QED
    BY <1>0, <1>1, <1>7

LEMMA WeightSum ==
  ASSUME NEW a \in Nat, NEW b \in Nat, a + b <= 2 * WORD_BYTES
  PROVE  /\ Weight[a] \in Nat \ {0} /\ Weight[b] \in Nat \ {0}
         /\ Weight[a + b] = Weight[a] * Weight[b]
  <1>0. PICK l \in Nat : l = 2 * WORD_BYTES
    BY HashSizesAssumption
  <1>1. Weighs(Weight, l)
    BY <1>0, Weights
  <1>2. /\ a \in 0 .. l /\ b \in 0 .. l
        /\ Weight[a] \in Nat \ {0} /\ Weight[b] \in Nat \ {0}
    <2>1. a \in 0 .. l /\ b \in 0 .. l
      BY <1>0
    <2> QED
      BY <1>1, <2>1 DEF Weighs
  <1> DEFINE T == {k \in Nat : a + k <= l => Weight[a + k] = Weight[a] * Weight[k]}
  <1>3. 0 \in T
    BY <1>1, <1>2 DEF Weighs
  <1>4. ASSUME NEW k \in Nat, k \in T PROVE k + 1 \in T
    <2> SUFFICES ASSUME a + (k + 1) <= l
                 PROVE  Weight[a + (k + 1)] = Weight[a] * Weight[k + 1]
      OBVIOUS
    <2>1. PICK m \in Nat : m = a + k
      OBVIOUS
    <2>2. /\ m + 1 \in 1 .. l /\ (m + 1) - 1 = m /\ a + (k + 1) = m + 1
          /\ k + 1 \in 1 .. l /\ (k + 1) - 1 = k /\ k \in 0 .. l
      BY <2>1
    <2>3. Weight[m] = Weight[a] * Weight[k]
      BY <1>4, <2>1, <2>2
    <2>4. /\ Weight[m + 1] = BASE * Weight[m]
          /\ Weight[k + 1] = BASE * Weight[k]
          /\ Weight[k] \in Nat
      BY <1>1, <2>2 DEF Weighs
    <2>5. BASE * (Weight[a] * Weight[k]) = Weight[a] * (BASE * Weight[k])
      <3>1. BASE \in Nat
        BY HashSizesAssumption
      <3> QED
        BY <1>2, <2>4, <3>1
    <2> QED
      BY <2>2, <2>3, <2>4, <2>5
  <1> HIDE DEF T
  <1>5. Nat \subseteq T
    BY <1>3, <1>4, Induction
  <1> QED
    BY <1>0, <1>2, <1>5 DEF T

LEMMA WordSize ==
  /\ WORD_BYTES \in Nat \ {0} /\ WORD \in Nat \ {0} /\ BASE \in Nat \ {0}
  /\ \E v \in Nat \ {0} : WORD = (16 * WORD_BYTES) * v
  /\ WORD \div 8 \in Nat \ {0} /\ WORD = 8 * (WORD \div 8)
  <1>0. WORD_BYTES \in Nat \ {0} /\ BASE \in Nat \ {0} /\ WORD % (16 * WORD_BYTES) = 0
    BY HashSizesAssumption
  <1>1. WORD \in Nat \ {0}
    <2>1. WORD_BYTES \in 0 .. (2 * WORD_BYTES)
      BY <1>0
    <2> QED
      BY <2>1, Weights DEF WORD, Weighs
  <1>2. PICK d \in Nat \ {0} : d = 16 * WORD_BYTES
    BY <1>0
  <1>3. PICK v \in Nat : WORD = d * v + 0 /\ v = WORD \div d
    BY <1>0, <1>1, <1>2, Division
  <1>4. v # 0 /\ WORD = d * v
    BY <1>1, <1>3
  <1>5. WORD = 8 * ((2 * WORD_BYTES) * v)
    <2>1. (16 * WORD_BYTES) * v = 8 * ((2 * WORD_BYTES) * v)
      BY <1>0
    <2> QED
      BY <1>2, <1>4, <2>1
  <1>6. WORD \div 8 = (2 * WORD_BYTES) * v
    BY <1>0, <1>1, <1>5
  <1> QED
    BY <1>0, <1>1, <1>2, <1>4, <1>5, <1>6

(* A byte below the word's end is not changed by the wrap.                 *)
LEMMA ByteOfLow ==
  ASSUME NEW x \in Nat, NEW j \in 0 .. (WORD_BYTES - 1)
  PROVE  Byte(x % WORD, j) = Byte(x, j)
  <1>0. WORD_BYTES \in Nat \ {0} /\ BASE \in Nat \ {0} /\ j \in Nat
    BY WordSize
  <1>1. PICK p \in Nat \ {0}, k \in Nat \ {0} :
          p = Weight[j] /\ k = Weight[WORD_BYTES - 1 - j]
    <2>1. WORD_BYTES - 1 - j \in Nat /\ j + (WORD_BYTES - 1 - j) <= 2 * WORD_BYTES
      BY <1>0
    <2> QED
      BY <1>0, <2>1, WeightSum
  <1>2. WORD = p * (BASE * k)
    <2>1. PICK l \in Nat : l = WORD_BYTES - 1 - j
      BY <1>0
    <2>2. Weight[l + 1] = BASE * k
      <3>1. /\ l + 1 \in 1 .. (2 * WORD_BYTES) /\ (l + 1) - 1 = l
        BY <1>0, <2>1
      <3> QED
        BY <1>1, <2>1, <3>1, Weights DEF Weighs
    <2>3. j + (l + 1) = WORD_BYTES /\ l + 1 \in Nat /\ j + (l + 1) <= 2 * WORD_BYTES
      BY <1>0, <2>1
    <2>4. Weight[j + (l + 1)] = Weight[j] * Weight[l + 1]
      BY <1>0, <2>3, WeightSum
    <2> QED
      BY <1>1, <2>2, <2>3, <2>4 DEF WORD
  <1>3. ((x % (p * (BASE * k))) \div p) % BASE = (x \div p) % BASE
    <2>1. PICK b \in Nat \ {0} : b = BASE
      BY <1>0
    <2>2. ((x % (p * (b * k))) \div p) % b = (x \div p) % b
      BY DigitKept
    <2> QED
      BY <2>1, <2>2, Zenon
  <1> QED
    BY <1>1, <1>2, <1>3 DEF Byte

(* A byte of what lies above the word.                                     *)
LEMMA ByteOfHigh ==
  ASSUME NEW x \in Nat, NEW j \in 0 .. (WORD_BYTES - 1)
  PROVE  Byte(x \div WORD, j) = Byte(x, WORD_BYTES + j)
  <1>0. WORD_BYTES \in Nat \ {0} /\ j \in Nat /\ WORD_BYTES + j <= 2 * WORD_BYTES
    BY WordSize
  <1>1. /\ Weight[j] \in Nat \ {0} /\ WORD \in Nat \ {0}
        /\ Weight[WORD_BYTES + j] = WORD * Weight[j]
    BY <1>0, WeightSum DEF WORD
  <1>2. x \div (WORD * Weight[j]) = (x \div WORD) \div Weight[j]
    BY <1>1, QuotientOf
  <1> QED
    BY <1>1, <1>2 DEF Byte

(* The words of eight times a count of two words.                          *)
LEMMA EightTimes ==
  ASSUME NEW n \in Nat
  PROVE  /\ (8 * (n % WORD)) % WORD = (8 * n) % WORD
         /\ (8 * ((n \div WORD) % WORD) + (n % WORD) \div (WORD \div 8)) % WORD
              = ((8 * n) \div WORD) % WORD
  <1>0. PICK w \in Nat \ {0}, v \in Nat \ {0} : w = WORD /\ v = WORD \div 8 /\ w = 8 * v
    BY WordSize
  <1>1. PICK h \in Nat, c \in Nat : h = n \div w /\ c = n % w /\ n = w * h + c
    BY Division
  <1>2. (8 * c) % w = (8 * n) % w
    <2>1. PICK z \in Nat : z = 0
      OBVIOUS
    <2>2. (8 * (n % w) + z) % w = (8 * n + z) % w
      BY WrappedFirst
    <2>3. 8 * c + z = 8 * c /\ 8 * n + z = 8 * n
      BY <2>1
    <2> QED
      BY <1>1, <2>2, <2>3, Zenon
  <1>3. (8 * n) \div w = c \div v + 8 * h
    <2>1. 8 * n = 8 * c + w * (8 * h)
      <3>1. 8 * (w * h) = w * (8 * h) /\ w * h \in Nat
        OBVIOUS
      <3> QED
        BY <1>1, <3>1
    <2>2. (8 * c + w * (8 * h)) \div w = (8 * c) \div w + 8 * h
      <3>1. 8 * c \in Nat /\ 8 * h \in Nat
        OBVIOUS
      <3> QED
        BY <3>1, Multiple, Zenon
    <2>3. (8 * c) \div (8 * v) = ((8 * c) \div 8) \div v
      BY QuotientOf
    <2>4. (8 * c) \div 8 = c
      OBVIOUS
    <2> QED
      BY <1>0, <2>1, <2>2, <2>3, <2>4
  <1>4. (8 * (h % w) + c \div v) % w = (8 * h + c \div v) % w
    <2>1. PICK d \in Nat : d = c \div v
      BY Division
    <2>2. (8 * (h % w) + d) % w = (8 * h + d) % w
      BY WrappedFirst
    <2> QED
      BY <2>1, <2>2, Zenon
  <1>5. c \div v + 8 * h = 8 * h + c \div v
    <2>1. c \div v \in Nat
      BY Division
    <2> QED
      BY <2>1
  <1> QED
    BY <1>0, <1>1, <1>2, <1>3, <1>4, <1>5

-----------------------------------------------------------------------------
(* The inductive invariant.                                                *)

(* The count is what has been taken, in one word or in two.                *)
Counted ==
  /\ hash \in {"sha256", "sha512"} /\ closed \in BOOLEAN
  /\ fed \in Nat
  /\ count0 = fed % WORD
  /\ hash = "sha512" => count1 = (fed \div WORD) % WORD

(* A block of the message as the transform wants it.                       *)
DataBlock(m) == [k \in BlockPlaces |-> Data(BLOCK * m + k)]

(* Until the message ends the buffer has the bytes of the block begun.     *)
Held ==
  /\ buffer = [k \in BlockPlaces |-> buffer[k]]
  /\ ~closed => \A k \in BlockPlaces : k < Index => buffer[k] = Data(BLOCK * (fed \div BLOCK) + k)

IInv == Counted /\ Held

LEMMA BlockSize ==
  ASSUME Counted
  PROVE  /\ LENGTH \in Nat \ {0} /\ BLOCK \in Nat \ {0} /\ BLOCK = 8 * LENGTH
         /\ Index = fed % BLOCK
         /\ \E k \in Nat \ {0} : WORD = BLOCK * k
         /\ Reference!LENGTH = LENGTH /\ Reference!BLOCK = BLOCK
  <1>1. PICK v \in Nat \ {0} : WORD = (16 * WORD_BYTES) * v
    BY WordSize
  <1>2. /\ LENGTH \in Nat \ {0} /\ BLOCK \in Nat \ {0} /\ BLOCK = 8 * LENGTH
        /\ Reference!LENGTH = LENGTH /\ Reference!BLOCK = BLOCK
    BY WordSize DEF LENGTH, BLOCK, Reference!LENGTH, Reference!BLOCK
  <1>3. \E k \in Nat \ {0} : WORD = BLOCK * k
    <2>1. CASE hash = "sha256"
      <3>1. BLOCK = 8 * WORD_BYTES
        BY <2>1 DEF BLOCK, LENGTH
      <3>2. (16 * WORD_BYTES) * v = (8 * WORD_BYTES) * (2 * v) /\ 2 * v \in Nat \ {0}
        BY WordSize
      <3> QED
        BY <1>1, <3>1, <3>2
    <2>2. CASE hash # "sha256"
      <3>1. BLOCK = 16 * WORD_BYTES
        <4>1. 8 * (2 * WORD_BYTES) = 16 * WORD_BYTES
          BY WordSize
        <4> QED
          BY <2>2, <4>1 DEF BLOCK, LENGTH
      <3> QED
        BY <1>1, <3>1
    <2> QED
      BY <2>1, <2>2
  <1>4. PICK k \in Nat \ {0}, b \in Nat \ {0} : b = BLOCK /\ WORD = b * k
    BY <1>2, <1>3
  <1>5. (fed % (b * k)) % b = fed % b
    BY RemainderOf DEF Counted
  <1> QED
    BY <1>2, <1>3, <1>4, <1>5 DEF Index, Counted

-----------------------------------------------------------------------------
(* The count.                                                              *)

(* A sum may be wrapped before it is added to.                             *)
LEMMA WrappedSum ==
  ASSUME NEW x \in Nat, NEW n \in Nat, NEW b \in Nat \ {0}
  PROVE  ((x % b) + n) % b = (x + n) % b
  <1>1. PICK q \in Nat, r \in Nat : q = x \div b /\ r = x % b /\ x = b * q + r
    BY Division
  <1>2. PICK y \in Nat : y = r + n
    OBVIOUS
  <1>3. x + n = y + b * q
    <2>1. b * q \in Nat
      OBVIOUS
    <2> QED
      BY <1>1, <1>2, <2>1
  <1>4. (y + b * q) % b = y % b
    BY Multiple
  <1> QED
    BY <1>1, <1>2, <1>3, <1>4

LEMMA TakeCounts ==
  ASSUME Counted, NEW n \in Pieces, Take(n)
  PROVE  /\ Counted' /\ hash' = hash /\ ~closed /\ ~closed'
         /\ n \in Nat /\ fed' = fed + n
         /\ BLOCK' = BLOCK /\ BlockPlaces' = BlockPlaces /\ Index' = fed' % BLOCK
  <1>0. PICK w \in Nat \ {0}, v \in Nat \ {0} : w = WORD /\ v = WORD \div 8 /\ w = 8 * v
    BY WordSize
  <1>1. n \in Nat /\ n < v /\ n < w
    <2>1. n \in Nat /\ n < v
      BY <1>0, HashSizesAssumption
    <2> QED
      BY <1>0, <2>1
  <1>2. PICK c \in 0 .. (w - 1), h \in Nat :
          c = fed % w /\ h = fed \div w /\ fed = w * h + c
    <2>1. fed \in Nat
      BY DEF Counted
    <2>2. /\ fed % w \in 0 .. (w - 1) /\ fed \div w \in Nat
          /\ fed = w * (fed \div w) + (fed % w)
      BY <2>1, Division
    <2> QED
      BY <2>2
  <1>3. /\ hash' = hash /\ closed' = closed /\ fed' = fed + n
        /\ hash \in {"sha256", "sha512"} /\ closed \in BOOLEAN /\ fed \in Nat
        /\ count0 = c /\ count0' = (c + n) % w
    BY <1>0, <1>2 DEF Take, Counted
  <1>4. count0' = fed' % w
    BY <1>1, <1>2, <1>3, WrappedSum
  <1>5. ASSUME hash = "sha512" PROVE count1' = (fed' \div w) % w
    <2>1. count1 = h % w
      BY <1>0, <1>2, <1>5 DEF Counted
    <2>2. count1' = (count1 + CountCarry(count0', n) + n \div v) % w
      BY <1>0, <1>5 DEF Take
    <2>3. n \div v = 0
      BY <1>1
    <2>4. PICK e \in {0, 1} : e = CountCarry(count0', n)
      BY DEF CountCarry
    <2>5. fed' \div w = h + e
      <3>1. CASE c + n < w
        <4>1. (c + n) % w = c + n
          BY <1>1, <3>1
        <4>2. e = 0
          BY <1>1, <1>3, <2>4, <4>1 DEF CountCarry
        <4>3. PICK r \in 0 .. (w - 1) : r = c + n
          BY <1>1, <3>1
        <4>4. fed' = w * h + r
          <5>1. w * h \in Nat
            OBVIOUS
          <5> QED
            BY <1>1, <1>2, <1>3, <4>3, <5>1
        <4>5. (w * h + r) \div w = h
          BY Unique
        <4> QED
          BY <4>2, <4>4, <4>5
      <3>2. CASE c + n >= w
        <4>1. PICK r \in 0 .. (w - 1) : r = c + n - w /\ r < n
          BY <1>1, <3>2
        <4>2. (c + n) % w = r
          BY <1>1, <3>2, <4>1
        <4>3. e = 1
          BY <1>3, <2>4, <4>1, <4>2 DEF CountCarry
        <4>4. PICK g \in Nat : g = h + 1
          OBVIOUS
        <4>5. fed' = w * g + r
          <5>1. w * g = w * h + w /\ w * h \in Nat
            BY <4>4
          <5> QED
            BY <1>1, <1>2, <1>3, <4>1, <5>1
        <4>6. (w * g + r) \div w = g
          BY Unique
        <4> QED
          BY <4>3, <4>4, <4>5, <4>6
      <3> QED
        BY <1>1, <3>1, <3>2
    <2>6. ((h % w) + e) % w = (h + e) % w
      <3>1. PICK d \in Nat : d = e
        OBVIOUS
      <3>2. ((h % w) + d) % w = (h + d) % w
        BY WrappedSum
      <3> QED
        BY <3>1, <3>2
    <2>7. count1' = ((h % w) + e) % w
      <3>1. h % w \in Nat
        BY Division
      <3>2. (h % w) + e + 0 = (h % w) + e
        BY <3>1
      <3> QED
        BY <2>1, <2>2, <2>3, <2>4, <3>2
    <2> QED
      BY <2>5, <2>6, <2>7
  <1>6. ~closed /\ ~closed'
    BY DEF Take
  <1>7. BLOCK' = BLOCK /\ BlockPlaces' = BlockPlaces
    BY <1>3 DEF BLOCK, LENGTH, BlockPlaces
  <1>8. Index' = fed' % BLOCK
    <2>1. PICK b \in Nat \ {0}, k \in Nat \ {0} : b = BLOCK /\ WORD = b * k
      BY BlockSize
    <2>2. PICK f \in Nat : f = fed'
      BY <1>1, <1>3
    <2>3. (f % (b * k)) % b = f % b
      BY RemainderOf
    <2> QED
      BY <1>0, <1>4, <1>7, <2>1, <2>2, <2>3 DEF Index
  <1> QED
    BY <1>0, <1>1, <1>3, <1>4, <1>5, <1>6, <1>7, <1>8 DEF Counted

-----------------------------------------------------------------------------
(* Sequences of blocks.                                                    *)

LEMMA Prepend ==
  ASSUME NEW F, NEW n \in Nat
  PROVE  <<F[0]>> \o [j \in 1 .. n |-> F[j]] = [j \in 1 .. (n + 1) |-> F[j - 1]]
  <1> DEFINE S == {F[j] : j \in 0 .. n}
             s == <<F[0]>>
             t == [j \in 1 .. n |-> F[j]]
             u == [j \in 1 .. (n + 1) |-> F[j - 1]]
  <1>1. s \in Seq(S) /\ t \in Seq(S) /\ u \in Seq(S)
        /\ Len(s) = 1 /\ Len(t) = n /\ Len(u) = n + 1
    OBVIOUS
  <1>2. /\ s \o t \in Seq(S) /\ Len(s \o t) = n + 1
        /\ \A i \in 1 .. (n + 1) : (s \o t)[i] = IF i <= 1 THEN s[i] ELSE t[i - 1]
    BY <1>1, ConcatProperties
  <1>3. ASSUME NEW i \in 1 .. (n + 1) PROVE (s \o t)[i] = u[i]
    BY <1>2
  <1> QED
    BY <1>1, <1>2, <1>3, SeqEqual

LEMMA NothingBefore ==
  ASSUME NEW F, NEW n \in Nat
  PROVE  <<>> \o [j \in 1 .. n |-> F[j]] = [j \in 1 .. n |-> F[j]]
  <1> DEFINE S == {F[j] : j \in 0 .. n}
             t == [j \in 1 .. n |-> F[j]]
  <1>1. t \in Seq(S)
    OBVIOUS
  <1> QED
    BY <1>1, ConcatEmptySeq

(* The blocks of a message that it fills.                                  *)
LEMMA DataBlocks ==
  ASSUME Counted, NEW n \in Nat, NEW a \in Nat, NEW b \in Nat, a <= b, BLOCK * b <= n
  PROVE  Reference!Blocks(n, a, b) = [j \in 1 .. (b - a) |-> DataBlock(a + j - 1)]
  <1>0. PICK c \in Nat \ {0} : c = BLOCK /\ Reference!BLOCK = c
    BY BlockSize
  <1>1. ASSUME NEW j \in 1 .. (b - a), NEW k \in 0 .. (c - 1)
        PROVE  Reference!Padded(n, (a + j - 1) * c + k) = Data(c * (a + j - 1) + k)
    <2>1. PICK m \in Nat : m = a + j - 1 /\ m + 1 <= b
      OBVIOUS
    <2>2. m * c = c * m /\ c * m + k \in Nat /\ c * m + k < n
      <3>1. c * (m + 1) <= c * b
        BY <2>1
      <3>2. c * (m + 1) = c * m + c /\ c * m \in Nat /\ m * c = c * m
        OBVIOUS
      <3> QED
        BY <1>0, <3>1, <3>2
    <2>3. Reference!Padded(n, c * m + k) = Reference!Data(c * m + k)
      BY <2>2 DEF Reference!Padded
    <2> QED
      BY <2>1, <2>2, <2>3 DEF Data, Reference!Data
  <1> QED
    BY <1>0, <1>1 DEF Reference!Blocks, DataBlock, BlockPlaces

-----------------------------------------------------------------------------
(* A piece.                                                                *)

(* What a step has to show of the block it leaves.                         *)
LEMMA HeldAfter ==
  ASSUME Counted, NEW n \in Pieces, Take(n), NEW c, c = BLOCK,
         NEW q \in Nat, NEW r \in 0 .. (c - 1), fed' = c * q + r,
         buffer' = [k \in BlockPlaces |-> buffer'[k]],
         \A k \in BlockPlaces : k < r => buffer'[k] = Data(c * q + k)
  PROVE  IInv' /\ fed' \div c = q
  <1>1. c \in Nat \ {0}
    BY BlockSize
  <1>2. fed' \div c = q /\ fed' % c = r
    BY <1>1, Unique
  <1>3. /\ Counted' /\ BLOCK' = c /\ BlockPlaces' = BlockPlaces /\ Index' = r
    BY <1>2, TakeCounts
  <1>4. Held'
    BY <1>2, <1>3 DEF Held
  <1> QED
    BY <1>2, <1>3, <1>4 DEF IInv

LEMMA PartialFeeds ==
  ASSUME IInv, UpdatePartial
  PROVE  IInv' /\ Reference!Feed
  <1>0. PICK n \in Pieces : /\ Index > 0 /\ n < Left
                            /\ Take(n)
                            /\ buffer' = Copied(buffer, Index, fed, n)
                            /\ batch' = <<>>
    BY DEF UpdatePartial
  <1>1. Counted /\ Held /\ fed \in Nat
    BY DEF IInv, Counted
  <1>2. PICK c \in Nat \ {0} : c = BLOCK /\ Index = fed % c
    BY <1>1, BlockSize
  <1>3. PICK q \in Nat, r \in 0 .. (c - 1) :
          q = fed \div c /\ r = Index /\ fed = c * q + r
    <2>1. /\ fed \div c \in Nat /\ fed % c \in 0 .. (c - 1)
          /\ fed = c * (fed \div c) + (fed % c)
      BY <1>1, Division
    <2> QED
      BY <1>2, <2>1
  <1>4. /\ n \in Nat /\ fed' = fed + n /\ hash' = hash /\ ~closed /\ ~closed'
    BY <1>0, <1>1, TakeCounts
  <1>5. PICK d \in Nat : d = c * q
    OBVIOUS
  <1>6. PICK s \in 0 .. (c - 1) : s = r + n
    <2>1. n < c - r
      BY <1>0, <1>2, <1>3 DEF Left
    <2> QED
      BY <1>4, <2>1
  <1>7. fed' = c * q + s
    BY <1>3, <1>4, <1>5, <1>6
  <1>8. ASSUME NEW k \in BlockPlaces, k < s PROVE buffer'[k] = Data(c * q + k)
    <2>0. k \in Nat /\ k \in 0 .. (c - 1)
      BY <1>2 DEF BlockPlaces
    <2>1. CASE k < r
      <3>1. buffer'[k] = buffer[k]
        BY <1>0, <1>3, <2>0, <2>1 DEF Copied
      <3> QED
        BY <1>1, <1>2, <1>3, <1>4, <2>1, <3>1 DEF Held
    <2>2. CASE ~(k < r)
      <3>1. buffer'[k] = Data(fed + k - r)
        BY <1>0, <1>3, <1>6, <1>8, <2>0, <2>2 DEF Copied
      <3>2. fed + k - r = c * q + k
        BY <1>3, <1>5, <2>0
      <3> QED
        BY <3>1, <3>2
    <2> QED
      BY <2>1, <2>2
  <1>9. buffer' = [k \in BlockPlaces |-> buffer'[k]]
    BY <1>0 DEF Copied
  <1>10. IInv' /\ fed' \div c = q
    BY <1>0, <1>1, <1>2, <1>7, <1>8, <1>9, HeldAfter
  <1>11. batch' = Reference!Blocks(fed', fed \div c, fed' \div c)
    <2>1. PICK f \in Nat : f = fed' /\ c * q <= f
      BY <1>4, <1>5, <1>1, <1>3
    <2>2. Reference!Blocks(f, q, q) = [j \in 1 .. (q - q) |-> DataBlock(q + j - 1)]
      BY <1>1, <1>2, <2>1, DataBlocks
    <2>3. [j \in 1 .. (q - q) |-> DataBlock(q + j - 1)] = <<>>
      OBVIOUS
    <2> QED
      BY <1>0, <1>3, <1>10, <2>1, <2>2, <2>3
  <1>12. Reference!BLOCK = c
    BY <1>1, <1>2, BlockSize
  <1> QED
    BY <1>1, <1>4, <1>10, <1>11, <1>12 DEF Reference!Feed

LEMMA WholeFeeds ==
  ASSUME IInv, UpdateWhole
  PROVE  IInv' /\ Reference!Feed
  <1> DEFINE used == IF Index > 0 THEN Left ELSE 0
             full == Copied(buffer, Index, fed, used)
  <1>0. PICK n \in Pieces :
          /\ n >= used
          /\ Take(n)
          /\ batch' = (IF Index > 0 THEN <<full>> ELSE <<>>) \o Straight(fed + used, n - used)
          /\ buffer' = Copied(full, 0, fed + n - Remaining(n - used), Remaining(n - used))
    BY DEF UpdateWhole
  <1>1. Counted /\ Held /\ fed \in Nat
    BY DEF IInv, Counted
  <1>2. PICK c \in Nat \ {0} : c = BLOCK /\ Index = fed % c
    BY <1>1, BlockSize
  <1>3. PICK q \in Nat, r \in 0 .. (c - 1) :
          q = fed \div c /\ r = Index /\ fed = c * q + r
    <2>1. /\ fed \div c \in Nat /\ fed % c \in 0 .. (c - 1)
          /\ fed = c * (fed \div c) + (fed % c)
      BY <1>1, Division
    <2> QED
      BY <1>2, <2>1
  <1>4. /\ n \in Nat /\ fed' = fed + n /\ hash' = hash /\ ~closed /\ ~closed'
    BY <1>0, <1>1, TakeCounts
  <1>5. PICK u \in Nat : u = used /\ u = IF r > 0 THEN c - r ELSE 0
    BY <1>2, <1>3 DEF Left
  <1> HIDE DEF full, used
  <1>6. PICK p \in Nat : p = IF r > 0 THEN q + 1 ELSE q
    OBVIOUS
  <1>7. fed + u = c * p
    <2>1. c * (q + 1) = c * q + c /\ c * q \in Nat
      OBVIOUS
    <2> QED
      BY <1>3, <1>5, <1>6, <2>1
  <1>8. PICK l \in Nat : l = n - u
    <2>1. n >= u
      BY <1>0, <1>5
    <2> QED
      BY <1>4, <2>1
  <1>9. PICK m \in Nat, t \in 0 .. (c - 1) : m = l \div c /\ t = l % c /\ l = c * m + t
    BY Division
  <1>10. PICK g \in Nat : g = p + m
    OBVIOUS
  <1>11. fed' = c * g + t
    <2>1. PICK x \in Nat, y \in Nat : x = c * p /\ y = c * m
      OBVIOUS
    <2>2. c * g = x + y
      BY <1>10, <2>1
    <2>3. fed' = fed + n /\ fed + u = x /\ l = n - u /\ l = y + t
      BY <1>4, <1>7, <1>8, <1>9, <2>1
    <2> QED
      BY <1>1, <1>4, <2>2, <2>3
  <1>12. Remaining(n - used) = t
    BY <1>2, <1>5, <1>8, <1>9 DEF Remaining
  <1>13. PICK e \in Nat : e = c * g
    OBVIOUS
  <1>14. ASSUME NEW k \in BlockPlaces, k < t PROVE buffer'[k] = Data(c * g + k)
    <2>0. k \in Nat /\ k \in 0 .. (c - 1)
      BY <1>2 DEF BlockPlaces
    <2>1. buffer'[k] = Data((fed + n - t) + k - 0)
      BY <1>0, <1>12, <1>14, <2>0 DEF Copied
    <2>2. (fed + n - t) + k - 0 = c * g + k
      BY <1>1, <1>4, <1>11, <1>13, <2>0
    <2> QED
      BY <2>1, <2>2
  <1>15. buffer' = [k \in BlockPlaces |-> buffer'[k]]
    BY <1>0 DEF Copied
  <1>16. IInv' /\ fed' \div c = g
    BY <1>0, <1>1, <1>2, <1>11, <1>14, <1>15, HeldAfter
  <1>17. ASSUME r > 0 PROVE full = DataBlock(q)
    <2>1. ASSUME NEW k \in BlockPlaces PROVE full[k] = Data(c * q + k)
      <3>0. k \in Nat /\ k \in 0 .. (c - 1)
        BY <1>2 DEF BlockPlaces
      <3>1. CASE k < r
        <4>1. full[k] = buffer[k]
          BY <1>3, <3>0, <3>1 DEF Copied, full
        <4> QED
          BY <1>1, <1>2, <1>3, <1>4, <3>1, <4>1 DEF Held
      <3>2. CASE ~(k < r)
        <4>1. full[k] = Data(fed + k - r)
          <5>1. k >= r /\ k < r + u
            BY <1>5, <1>17, <3>0, <3>2
          <5> QED
            BY <1>3, <1>5, <5>1 DEF Copied, full
        <4>2. PICK d \in Nat : d = c * q
          OBVIOUS
        <4>3. fed + k - r = c * q + k
          BY <1>3, <3>0, <4>2
        <4> QED
          BY <4>1, <4>3
      <3> QED
        BY <3>1, <3>2
    <2>2. full = [k \in BlockPlaces |-> full[k]]
      BY DEF Copied, full
    <2> QED
      BY <1>2, <2>1, <2>2 DEF DataBlock
  <1>18. Straight(fed + used, n - used) = [j \in 1 .. m |-> DataBlock(p + j - 1)]
    <2>1. PICK o \in Nat : o = c * p
      OBVIOUS
    <2>2. ASSUME NEW j \in 1 .. m, NEW k \in BlockPlaces
          PROVE  o + (j - 1) * c + k = c * (p + j - 1) + k
      <3>1. c * (p + (j - 1)) = c * p + c * (j - 1) /\ (j - 1) * c = c * (j - 1)
        OBVIOUS
      <3>2. p + (j - 1) = p + j - 1
        OBVIOUS
      <3> QED
        BY <2>1, <3>1, <3>2
    <2>3. Straight(o, l) = [j \in 1 .. m |-> [k \in BlockPlaces |-> Data(o + (j - 1) * c + k)]]
      BY <1>2, <1>9 DEF Straight
    <2>4. Straight(o, l) = [j \in 1 .. m |-> [k \in BlockPlaces |-> Data(c * (p + j - 1) + k)]]
      BY <2>2, <2>3
    <2> QED
      BY <1>2, <1>5, <1>7, <1>8, <2>1, <2>4 DEF DataBlock
  <1>19. batch' = [j \in 1 .. (g - q) |-> DataBlock(q + j - 1)]
    <2>1. CASE r > 0
      <3> DEFINE F == [j \in 0 .. m |-> DataBlock(q + j)]
      <3>1. batch' = <<F[0]>> \o [j \in 1 .. m |-> F[j]]
        <4>1. F[0] = DataBlock(q) /\ \A j \in 1 .. m : F[j] = DataBlock(p + j - 1)
          <5>1. q + 0 = q /\ \A j \in 1 .. m : q + j = p + j - 1
            BY <1>6, <2>1
          <5> QED
            BY <5>1
        <4> HIDE DEF F
        <4>2. [j \in 1 .. m |-> DataBlock(p + j - 1)] = [j \in 1 .. m |-> F[j]]
          BY <4>1
        <4>3. batch' = <<full>> \o Straight(fed + used, n - used)
          BY <1>0, <1>3, <2>1
        <4> QED
          BY <1>17, <1>18, <2>1, <4>1, <4>2, <4>3
      <3>2. [j \in 1 .. (m + 1) |-> F[j - 1]] = [j \in 1 .. (g - q) |-> DataBlock(q + j - 1)]
        <4>1. m + 1 = g - q
          BY <1>6, <1>10, <2>1
        <4>2. \A j \in 1 .. (m + 1) : F[j - 1] = DataBlock(q + j - 1)
          <5>1. \A j \in 1 .. (m + 1) : j - 1 \in 0 .. m /\ q + (j - 1) = q + j - 1
            OBVIOUS
          <5> QED
            BY <5>1
        <4> HIDE DEF F
        <4> QED
          BY <4>1, <4>2
      <3> HIDE DEF F
      <3> QED
        BY <3>1, <3>2, Prepend
    <2>2. CASE ~(r > 0)
      <3> DEFINE F == [j \in 1 .. m |-> DataBlock(q + j - 1)]
      <3>1. p = q /\ m = g - q
        BY <1>6, <1>10, <2>2
      <3>2. batch' = <<>> \o F
        BY <1>0, <1>3, <1>18, <2>2, <3>1
      <3>3. F = [j \in 1 .. m |-> F[j]]
        OBVIOUS
      <3> HIDE DEF F
      <3>4. <<>> \o F = F
        BY <3>3, NothingBefore
      <3> QED
        BY <3>1, <3>2, <3>4 DEF F
    <2> QED
      BY <2>1, <2>2
  <1>20. batch' = Reference!Blocks(fed', fed \div c, fed' \div c)
    <2>1. PICK f \in Nat : f = fed' /\ c * g <= f
      BY <1>1, <1>4, <1>11, <1>13
    <2>2. q <= g
      BY <1>6, <1>10
    <2>3. Reference!Blocks(f, q, g) = [j \in 1 .. (g - q) |-> DataBlock(q + j - 1)]
      BY <1>1, <1>2, <2>1, <2>2, DataBlocks
    <2> QED
      BY <1>3, <1>16, <1>19, <2>1, <2>3
  <1>21. Reference!BLOCK = c
    BY <1>1, <1>2, BlockSize
  <1> QED
    BY <1>1, <1>4, <1>16, <1>20, <1>21 DEF Reference!Feed

-----------------------------------------------------------------------------
(* The end of the message.                                                 *)

LEMMA SameBytes ==
  /\ \A v : Reference!Pad(v) = Pad(v)
  /\ \A v : Reference!Data(v) = Data(v)
  /\ \A x, j : Reference!Byte(x, j) = Byte(x, j)
  <1>1. Reference!Weight = Weight
    BY DEF Reference!Weight, Weight
  <1> QED
    BY <1>1 DEF Reference!Pad, Pad, Reference!Data, Data, Reference!Byte, Byte

(* The length the code writes is the length in bits, byte by byte.         *)
LEMMA LengthBytes ==
  ASSUME Counted, NEW j \in 0 .. (LENGTH - 1)
  PROVE  LengthByte(j) = Reference!LengthByte(fed, j)
  <1>0. PICK w \in Nat \ {0} : w = WORD_BYTES
    BY WordSize
  <1>1. fed \in Nat /\ count0 = fed % WORD /\ 8 * fed \in Nat /\ j \in Nat
    BY DEF Counted
  <1>2. LowBits = (8 * fed) % WORD
    BY <1>1, EightTimes DEF LowBits
  <1>3. PICK x \in Nat : x = 8 * fed
    BY <1>1
  <1>4. Reference!LengthByte(fed, j) = Pad(Byte(x, LENGTH - 1 - j))
    BY <1>3, BlockSize, SameBytes DEF Reference!LengthByte
  <1>5. CASE hash = "sha256"
    <2>1. LENGTH = w /\ BitWords = <<LowBits>>
      BY <1>0, <1>5 DEF LENGTH, BitWords
    <2>2. j < w
      BY <1>1, <2>1
    <2>3. j \div w = 0 /\ j % w = j
      BY <1>1, <2>2
    <2>4. LengthByte(j) = Pad(Byte(LowBits, w - 1 - j))
      BY <1>0, <2>1, <2>3 DEF LengthByte
    <2>5. w - 1 - j \in 0 .. (w - 1)
      BY <1>1, <2>2
    <2>6. Byte(x % WORD, w - 1 - j) = Byte(x, w - 1 - j)
      BY <1>0, <2>5, ByteOfLow
    <2> QED
      BY <1>2, <1>3, <1>4, <2>1, <2>4, <2>6
  <1>6. CASE hash = "sha512"
    <2>1. LENGTH = 2 * w /\ BitWords = <<HighBits, LowBits>>
      BY <1>0, <1>6 DEF LENGTH, BitWords
    <2>2. CASE j < w
      <3>1. j \div w = 0 /\ j % w = j
        BY <1>1, <2>2
      <3>2. LengthByte(j) = Pad(Byte(HighBits, w - 1 - j))
        BY <1>0, <2>1, <3>1 DEF LengthByte
      <3>3. PICK h \in Nat : h = x \div WORD
        BY WordSize, Division
      <3>4. HighBits = h % WORD
        BY <1>1, <1>3, <1>6, <3>3, EightTimes DEF HighBits, Counted
      <3>5. w - 1 - j \in 0 .. (w - 1) /\ w + (w - 1 - j) = 2 * w - 1 - j
        BY <1>1, <2>2
      <3>6. Byte(h % WORD, w - 1 - j) = Byte(h, w - 1 - j)
        BY <1>0, <3>5, ByteOfLow
      <3>7. Byte(x \div WORD, w - 1 - j) = Byte(x, w + (w - 1 - j))
        BY <1>0, <3>5, ByteOfHigh
      <3> QED
        BY <1>4, <2>1, <3>2, <3>3, <3>4, <3>5, <3>6, <3>7
    <2>3. CASE ~(j < w)
      <3>0. j < 2 * w
        BY <1>1, <2>1
      <3>1. PICK y \in 0 .. (w - 1) : y = j - w
        BY <1>1, <2>3, <3>0
      <3>2. j = w * 1 + y
        BY <1>1, <3>1
      <3>3. j \div w = 1 /\ j % w = y
        BY <3>2, Unique
      <3>4. LengthByte(j) = Pad(Byte(LowBits, w - 1 - y))
        BY <1>0, <2>1, <3>3 DEF LengthByte
      <3>5. w - 1 - y \in 0 .. (w - 1) /\ w - 1 - y = 2 * w - 1 - j
        BY <1>1, <3>1
      <3>6. Byte(x % WORD, w - 1 - y) = Byte(x, w - 1 - y)
        BY <1>0, <3>5, ByteOfLow
      <3> QED
        BY <1>2, <1>3, <1>4, <2>1, <3>4, <3>5, <3>6
    <2> QED
      BY <2>2, <2>3
  <1> QED
    BY <1>5, <1>6 DEF Counted

LEMMA FinalCloses ==
  ASSUME IInv, Final
  PROVE  IInv' /\ Reference!Close
  <1> DEFINE marked == [buffer EXCEPT ![Index] = Pad(128)]
             first == Cleared(marked, Index + 1, BLOCK - (Index + 1))
             second == WithLength(Cleared(first, 0, BLOCK - LENGTH))
             only == WithLength(Cleared(marked, Index + 1, BLOCK - LENGTH - (Index + 1)))
  <1>0. /\ ~closed /\ closed' = TRUE
        /\ batch' = IF NoRoom(Index + 1) THEN <<first, second>> ELSE <<only>>
        /\ buffer' = batch'[Len(batch')]
        /\ UNCHANGED <<hash, count0, count1, fed>>
    BY DEF Final
  <1>1. Counted /\ Held /\ fed \in Nat
    BY DEF IInv, Counted
  <1>2. PICK c \in Nat \ {0}, l \in Nat \ {0} :
          /\ c = BLOCK /\ l = LENGTH /\ c = 8 * l /\ Index = fed % c
          /\ Reference!BLOCK = c /\ Reference!LENGTH = l
    BY <1>1, BlockSize
  <1>3. PICK q \in Nat, r \in 0 .. (c - 1) :
          q = fed \div c /\ r = Index /\ fed = c * q + r
    <2>1. /\ fed \div c \in Nat /\ fed % c \in 0 .. (c - 1)
          /\ fed = c * (fed \div c) + (fed % c)
      BY <1>1, Division
    <2> QED
      BY <1>2, <2>1
  <1>4. BlockPlaces = 0 .. (c - 1)
    BY <1>2 DEF BlockPlaces
  <1>5. PICK d \in Nat : d = c * q /\ fed = d + r
    BY <1>3
  <1>5a. fed = d + r /\ Index = r
    BY <1>3, <1>5
  <1>6. PICK m : m = marked
    OBVIOUS
  <1>7. /\ m[r] = Pad(128)
        /\ \A k \in BlockPlaces : k < r => m[k] = Data(d + k)
    <2>1. r \in BlockPlaces /\ r \in DOMAIN buffer
      BY <1>1, <1>4 DEF Held
    <2>2. m[r] = Pad(128) /\ \A k \in BlockPlaces : k # r => m[k] = buffer[k]
      BY <1>1, <1>3, <1>6, <2>1 DEF Held
    <2>3. \A k \in BlockPlaces : k < r => buffer[k] = Data(d + k)
      BY <1>0, <1>1, <1>2, <1>3, <1>5 DEF Held
    <2> QED
      BY <1>4, <2>2, <2>3
  <1>8. ASSUME NEW k \in 0 .. (l - 1)
        PROVE  LengthByte(k) = Reference!LengthByte(fed, k)
    BY <1>1, <1>2, LengthBytes
  <1>9. /\ \A v : Reference!Pad(v) = Pad(v)
        /\ \A v : Reference!Data(v) = Data(v)
    BY SameBytes
  <1>10. CASE ~NoRoom(Index + 1)
    <2>0. r + l < c
      BY <1>2, <1>3, <1>10 DEF NoRoom
    <2>1. Reference!PaddedSize(fed) = d + c /\ (d + c) \div c = q + 1
      <3>1. PICK s \in 0 .. (c - 1) : s = r + l
        BY <2>0
      <3>2. (c * q + s) \div c = q
        BY Unique
      <3>3. fed + l = c * q + s
        BY <1>5, <3>1
      <3>4. Reference!PaddedSize(fed) = (q + 1) * c
        BY <1>2, <3>2, <3>3 DEF Reference!PaddedSize
      <3>5. PICK g \in Nat, z \in 0 .. (c - 1) : g = q + 1 /\ z = 0
        OBVIOUS
      <3>6. (q + 1) * c = d + c /\ c * g + z = d + c
        BY <1>5, <3>5
      <3>7. (c * g + z) \div c = g
        BY Unique
      <3> QED
        BY <3>4, <3>5, <3>6, <3>7
    <2>2. ASSUME NEW k \in BlockPlaces PROVE only[k] = Reference!Padded(fed, d + k)
      <3>0. k \in Nat /\ k \in 0 .. (c - 1)
        BY <1>4
      <3>1. CASE k < r
        <4>1. only[k] = m[k]
          BY <1>2, <1>3, <1>6, <2>0, <3>0, <3>1 DEF WithLength, Cleared
        <4>2. d + k < fed
          BY <1>5a, <3>0, <3>1
        <4>3. Reference!Padded(fed, d + k) = Reference!Data(d + k)
          BY <1>1, <3>0, <4>2 DEF Reference!Padded
        <4> QED
          BY <1>7, <1>9, <3>1, <4>1, <4>3
      <3>2. CASE k = r
        <4>1. only[k] = m[k]
          BY <1>2, <1>3, <1>6, <2>0, <3>0, <3>2 DEF WithLength, Cleared
        <4>2. ~(d + k < fed) /\ d + k = fed /\ ~(d + k > fed)
          BY <1>5, <3>2
        <4>3. Reference!Padded(fed, fed) = Pad(128)
          BY <1>1, <1>9 DEF Reference!Padded
        <4> QED
          BY <1>7, <3>2, <4>1, <4>2, <4>3
      <3>3. CASE k > r /\ k < c - l
        <4>1. only[k] = Pad(0)
          BY <1>2, <1>3, <3>0, <3>3 DEF WithLength, Cleared
        <4>2. ~(d + k < fed) /\ d + k # fed /\ d + k > fed /\ d + k < d + c - l
          BY <1>5, <3>0, <3>3
        <4> QED
          BY <1>2, <1>9, <2>1, <4>1, <4>2 DEF Reference!Padded
      <3>4. CASE k >= c - l
        <4>1. only[k] = LengthByte(k - (c - l))
          BY <1>2, <3>0, <3>4 DEF WithLength
        <4>2. /\ ~(d + k < fed) /\ d + k # fed /\ ~(d + k < d + c - l)
              /\ k - (c - l) = d + k - (d + c - l) /\ k - (c - l) \in 0 .. (l - 1)
          BY <1>5a, <2>0, <3>0, <3>4
        <4>3. PICK x \in Nat, e \in Int : x = d + k /\ e = d + c - l
          BY <3>0
        <4>4. ~(x < fed) /\ x # fed /\ ~(x < e) /\ x - e = k - (c - l)
          BY <1>1, <1>2, <3>0, <4>2, <4>3
        <4>5. e = Reference!PaddedSize(fed) - Reference!LENGTH
          BY <1>2, <2>1, <4>3
        <4>6. Reference!Padded(fed, x) = Reference!LengthByte(fed, x - e)
          BY <4>4, <4>5, Zenon DEF Reference!Padded
        <4> QED
          BY <1>8, <4>1, <4>2, <4>3, <4>4, <4>6
      <3> QED
        BY <3>0, <3>1, <3>2, <3>3, <3>4
    <2>3. only = [k \in BlockPlaces |-> only[k]]
      BY DEF WithLength
    <2> HIDE DEF only, marked, first, second
    <2>4. batch' = <<only>> /\ buffer' = only
      BY <1>0, <1>10
    <2>5. Reference!Blocks(fed, q, q + 1) = <<only>>
      <3>1. \A k \in BlockPlaces : (q + 1 - 1) * c + k = d + k
        BY <1>5
      <3>2. [k \in 0 .. (c - 1) |-> Reference!Padded(fed, (q + 1 - 1) * c + k)] = only
        BY <1>4, <2>2, <2>3, <3>1
      <3>3. 1 .. (q + 1 - q) = {1}
        OBVIOUS
      <3>4. Reference!Blocks(fed, q, q + 1)
              = [j \in 1 .. 1 |-> [k \in 0 .. (c - 1) |-> Reference!Padded(fed, (q + j - 1) * c + k)]]
        BY <1>2, <3>3 DEF Reference!Blocks
      <3> QED
        BY <3>2, <3>4
    <2>6. Reference!Close
      BY <1>0, <1>2, <1>3, <2>1, <2>4, <2>5 DEF Reference!Close
    <2>7. IInv'
      BY <1>0, <1>1, <2>3, <2>4 DEF IInv, Counted, Held, BlockPlaces, BLOCK, LENGTH
    <2> QED
      BY <2>6, <2>7
  <1>11. CASE NoRoom(Index + 1)
    <2>0. r + l >= c
      BY <1>2, <1>3, <1>11 DEF NoRoom
    <2>1. Reference!PaddedSize(fed) = d + 2 * c /\ (d + 2 * c) \div c = q + 2
      <3>1. PICK s \in 0 .. (c - 1) : s = r + l - c
        BY <1>2, <2>0
      <3>2. PICK p \in Nat : p = q + 1 /\ c * p = d + c
        BY <1>5
      <3>3. (c * p + s) \div c = p
        BY Unique
      <3>4. fed + l = c * p + s
        BY <1>5, <3>1, <3>2
      <3>5. Reference!PaddedSize(fed) = (p + 1) * c
        BY <1>2, <3>3, <3>4 DEF Reference!PaddedSize
      <3>6. PICK g \in Nat, z \in 0 .. (c - 1) : g = p + 1 /\ z = 0
        OBVIOUS
      <3>7. (p + 1) * c = d + 2 * c /\ c * g + z = d + 2 * c
        <4>1. (p + 1) * c = c * p + c /\ c * g = c * p + c
          BY <3>6
        <4> QED
          BY <3>2, <3>6, <4>1
      <3>8. (c * g + z) \div c = g
        BY Unique
      <3> QED
        BY <3>2, <3>5, <3>6, <3>7, <3>8
    <2>2. ASSUME NEW k \in BlockPlaces PROVE first[k] = Reference!Padded(fed, d + k)
      <3>0. k \in Nat /\ k \in 0 .. (c - 1)
        BY <1>4
      <3>1. CASE k < r
        <4>1. first[k] = m[k]
          BY <1>2, <1>6, <1>5a, <3>0, <3>1 DEF Cleared
        <4>2. d + k < fed
          BY <1>5a, <3>0, <3>1
        <4>3. Reference!Padded(fed, d + k) = Reference!Data(d + k)
          BY <1>1, <3>0, <4>2 DEF Reference!Padded
        <4> QED
          BY <1>7, <1>9, <3>1, <4>1, <4>3
      <3>2. CASE k = r
        <4>1. first[k] = m[k]
          BY <1>2, <1>3, <1>6, <3>0, <3>2 DEF Cleared
        <4>2. d + k = fed
          BY <1>5, <3>2
        <4>3. Reference!Padded(fed, fed) = Pad(128)
          BY <1>1, <1>9 DEF Reference!Padded
        <4> QED
          BY <1>7, <3>2, <4>1, <4>2, <4>3
      <3>3. CASE k > r
        <4>1. first[k] = Pad(0)
          BY <1>2, <1>3, <3>0, <3>3 DEF Cleared
        <4>2. ~(d + k < fed) /\ d + k # fed /\ d + k > fed /\ d + k < d + 2 * c - l
          BY <1>2, <1>5, <3>0, <3>3
        <4> QED
          BY <1>2, <1>9, <2>1, <4>1, <4>2 DEF Reference!Padded
      <3> QED
        BY <3>0, <3>1, <3>2, <3>3
    <2>3. ASSUME NEW k \in BlockPlaces PROVE second[k] = Reference!Padded(fed, d + c + k)
      <3>0. k \in Nat /\ k \in 0 .. (c - 1)
        BY <1>4
      <3>1. CASE k < c - l
        <4>1. second[k] = Pad(0)
          BY <1>2, <3>0, <3>1 DEF WithLength, Cleared
        <4>2. /\ ~(d + c + k < fed) /\ d + c + k # fed
              /\ d + c + k > fed /\ d + c + k < d + 2 * c - l
          BY <1>5, <3>0, <3>1
        <4> QED
          BY <1>2, <1>9, <2>1, <4>1, <4>2 DEF Reference!Padded
      <3>2. CASE ~(k < c - l)
        <4>1. second[k] = LengthByte(k - (c - l))
          BY <1>2, <3>0, <3>2 DEF WithLength
        <4>2. /\ ~(d + c + k < fed) /\ d + c + k # fed /\ ~(d + c + k < d + 2 * c - l)
              /\ k - (c - l) = d + c + k - (d + 2 * c - l) /\ k - (c - l) \in 0 .. (l - 1)
          BY <1>5a, <3>0, <3>2
        <4>3. PICK x \in Nat, e \in Int : x = d + c + k /\ e = d + 2 * c - l
          BY <3>0
        <4>4. ~(x < fed) /\ x # fed /\ ~(x < e) /\ x - e = k - (c - l)
          BY <1>1, <1>2, <3>0, <4>2, <4>3
        <4>5. e = Reference!PaddedSize(fed) - Reference!LENGTH
          BY <1>2, <2>1, <4>3
        <4>6. Reference!Padded(fed, x) = Reference!LengthByte(fed, x - e)
          BY <4>4, <4>5, Zenon DEF Reference!Padded
        <4> QED
          BY <1>8, <4>1, <4>2, <4>3, <4>4, <4>6
      <3> QED
        BY <3>1, <3>2
    <2>4. first = [k \in BlockPlaces |-> first[k]] /\ second = [k \in BlockPlaces |-> second[k]]
      BY DEF WithLength, Cleared
    <2> HIDE DEF only, marked, first, second
    <2>5. batch' = <<first, second>> /\ buffer' = second
      BY <1>0, <1>11
    <2>6. Reference!Blocks(fed, q, q + 2) = <<first, second>>
      <3>1. /\ \A k \in BlockPlaces : (q + 1 - 1) * c + k = d + k
            /\ \A k \in BlockPlaces : (q + 2 - 1) * c + k = d + c + k
        <4>1. (q + 1 - 1) * c = d /\ (q + 2 - 1) * c = d + c
          BY <1>5
        <4> QED
          BY <4>1
      <3>2. /\ [k \in 0 .. (c - 1) |-> Reference!Padded(fed, (q + 1 - 1) * c + k)] = first
            /\ [k \in 0 .. (c - 1) |-> Reference!Padded(fed, (q + 2 - 1) * c + k)] = second
        BY <1>4, <2>2, <2>3, <2>4, <3>1
      <3>3. q + 2 - q = 2
        OBVIOUS
      <3>4. Reference!Blocks(fed, q, q + 2)
              = [j \in 1 .. 2 |-> [k \in 0 .. (c - 1) |-> Reference!Padded(fed, (q + j - 1) * c + k)]]
        BY <1>2, <3>3 DEF Reference!Blocks
      <3> QED
        BY <3>2, <3>4
    <2>7. Reference!Close
      BY <1>0, <1>2, <1>3, <2>1, <2>5, <2>6 DEF Reference!Close
    <2>8. IInv'
      BY <1>0, <1>1, <2>4, <2>5 DEF IInv, Counted, Held, BlockPlaces, BLOCK, LENGTH
    <2> QED
      BY <2>7, <2>8
  <1> QED
    BY <1>10, <1>11

-----------------------------------------------------------------------------
(* The theorem.                                                            *)

LEMMA InitInv == HashInit => IInv /\ Reference!Init
  <1> SUFFICES ASSUME HashInit PROVE IInv /\ Reference!Init
    OBVIOUS
  <1>1. 0 % WORD = 0 /\ 0 \div WORD = 0
    BY WordSize
  <1>2. Counted
    <2>1. 0 % WORD \in Nat
      BY <1>1
    <2> QED
      BY <1>1, WordSize DEF HashInit, Counted
  <1>3. Held
    <2>1. PICK c \in Nat \ {0} : c = BLOCK /\ Index = 0
      <3>1. BLOCK \in Nat \ {0} /\ 0 % BLOCK = 0
        BY <1>2, BlockSize
      <3> QED
        BY <3>1 DEF HashInit, Index
    <2>2. \A k \in BlockPlaces : ~(k < Index)
      BY <2>1 DEF BlockPlaces
    <2>3. buffer = [k \in BlockPlaces |-> Unset]
      BY DEF HashInit
    <2> QED
      BY <2>2, <2>3 DEF Held
  <1>4. Reference!Init
    BY DEF HashInit, Reference!Init
  <1> QED
    BY <1>2, <1>3, <1>4 DEF IInv

LEMMA NextInv ==
  IInv /\ [HashNext]_hashVars => IInv' /\ [Reference!Next]_<<hash, fed, batch, closed>>
  <1> SUFFICES ASSUME IInv, [HashNext]_hashVars
               PROVE  IInv' /\ [Reference!Next]_<<hash, fed, batch, closed>>
    OBVIOUS
  <1>1. CASE sha256_update \/ sovereign_sha512_update
    BY <1>1, PartialFeeds, WholeFeeds
    DEF sha256_update, sovereign_sha512_update, Reference!Next
  <1>2. CASE sha256_final \/ sovereign_sha512_final
    BY <1>2, FinalCloses DEF sha256_final, sovereign_sha512_final, Reference!Next
  <1>3. CASE UNCHANGED hashVars
    BY <1>3 DEF hashVars, IInv, Counted, Held, BlockPlaces, BLOCK, LENGTH, Index
  <1> QED
    BY <1>1, <1>2, <1>3 DEF HashNext

(* However a message is cut into pieces, the blocks both functions hand to *)
(* their transforms are those of the padded message, in order, each once,  *)
(* with its length in bits behind it (sha256.h:69-112,                     *)
(* sovereign_crypto.c:103-158).                                            *)
THEOREM StreamImplemented == HashSpec => ImplementsStream
  <1>1. HashInit => IInv /\ Reference!Init
    BY InitInv
  <1>2. IInv /\ [HashNext]_hashVars => IInv' /\ [Reference!Next]_<<hash, fed, batch, closed>>
    BY NextInv
  <1> QED
    BY <1>1, <1>2, PTL DEF HashSpec, ImplementsStream, Reference!Spec

-----------------------------------------------------------------------------
(* Recursion over the limbs.                                               *)

LEMMA InductionTo ==
  ASSUME NEW n \in Nat, NEW T, 0 \in T, \A k \in 0 .. (n - 1) : k \in T => k + 1 \in T
  PROVE  \A k \in 0 .. n : k \in T
  <1> DEFINE U == {k \in Nat : k <= n => k \in T}
  <1>1. 0 \in U
    OBVIOUS
  <1>2. \A k \in Nat : k \in U => k + 1 \in U
    OBVIOUS
  <1> HIDE DEF U
  <1>3. Nat \subseteq U
    BY <1>1, <1>2, Induction
  <1> QED
    BY <1>3 DEF U

Follows(s, F, first, n) ==
  /\ s[0] = first
  /\ \A k \in 0 .. (n - 1) : s[k + 1] = F[<<s[k], k>>]

LEMMA RecursionExists ==
  ASSUME NEW X, NEW n \in Nat, NEW first \in X, NEW F \in [X \X (0 .. (n - 1)) -> X]
  PROVE  \E s \in [0 .. n -> X] : Follows(s, F, first, n)
  <1> DEFINE T == {k \in Nat : \E s \in [0 .. k -> X] : Follows(s, F, first, k)}
  <1>1. 0 \in T
    <2>1. [k \in 0 .. 0 |-> first] \in [0 .. 0 -> X]
      OBVIOUS
    <2>2. Follows([k \in 0 .. 0 |-> first], F, first, 0)
      BY DEF Follows
    <2> QED
      BY <2>1, <2>2
  <1>2. ASSUME NEW k \in 0 .. (n - 1), k \in T PROVE k + 1 \in T
    <2>1. PICK s \in [0 .. k -> X] : Follows(s, F, first, k)
      BY <1>2
    <2>2. s[k] \in X /\ F[<<s[k], k>>] \in X
      <3>1. s[k] \in X
        OBVIOUS
      <3>2. <<s[k], k>> \in X \X (0 .. (n - 1))
        BY <3>1
      <3> QED
        BY <3>1, <3>2
    <2> DEFINE g == [m \in 0 .. (k + 1) |-> IF m = k + 1 THEN F[<<s[k], k>>] ELSE s[m]]
    <2>3. g \in [0 .. (k + 1) -> X]
      BY <2>2
    <2>4. g[0] = first
      BY <2>1 DEF Follows
    <2>5. ASSUME NEW m \in 0 .. ((k + 1) - 1) PROVE g[m + 1] = F[<<g[m], m>>]
      <3>1. g[m] = s[m]
        OBVIOUS
      <3>2. CASE m = k
        <4>1. g[m + 1] = F[<<s[k], k>>]
          BY <3>2
        <4> HIDE DEF g
        <4> QED
          BY <3>1, <3>2, <4>1, Zenon
      <3>3. CASE m # k
        <4>1. g[m + 1] = s[m + 1] /\ m \in 0 .. (k - 1)
          BY <3>3
        <4>2. s[m + 1] = F[<<s[m], m>>]
          BY <2>1, <4>1 DEF Follows
        <4> HIDE DEF g
        <4> QED
          BY <3>1, <4>1, <4>2, Zenon
      <3> QED
        BY <3>2, <3>3
    <2> HIDE DEF g
    <2>6. Follows(g, F, first, k + 1)
      BY <2>4, <2>5 DEF Follows
    <2> QED
      BY <2>3, <2>6
  <1> HIDE DEF T
  <1>3. \A k \in 0 .. n : k \in T
    BY <1>1, <1>2, InductionTo
  <1>4. n \in T
    BY <1>3
  <1> QED
    BY <1>4 DEF T

LEMMA StaysIn ==
  ASSUME NEW X, NEW n \in Nat, NEW s, s[0] \in X,
         \A k \in 0 .. (n - 1) : s[k] \in X => s[k + 1] \in X
  PROVE  \A k \in 0 .. n : s[k] \in X
  <1> DEFINE T == {k \in Nat : s[k] \in X}
  <1>1. 0 \in T
    OBVIOUS
  <1>2. \A k \in 0 .. (n - 1) : k \in T => k + 1 \in T
    OBVIOUS
  <1> HIDE DEF T
  <1>3. \A k \in 0 .. n : k \in T
    BY <1>1, <1>2, InductionTo
  <1> QED
    BY <1>3 DEF T

-----------------------------------------------------------------------------
LEMMA Sizes ==
  /\ LIMBS \in Nat /\ LIMBS >= 2 /\ RADIX \in Nat /\ RADIX >= 256 /\ RADIX % 2 = 0
  /\ Top \in Nat /\ Top >= 1 /\ Top + 1 = LIMBS
  /\ Places = 0 .. (LIMBS - 1) /\ Places = 0 .. Top
  BY FieldAssumption DEF Top, Places

LEMMA UnitDefined ==
  /\ Unit \in [0 .. LIMBS -> Nat \ {0}]
  /\ Unit[0] = 1
  /\ \A k \in 0 .. (LIMBS - 1) : Unit[k + 1] = RADIX * Unit[k]
  <1> DEFINE Step(s) == [k \in 0 .. LIMBS |-> IF k = 0 THEN 1 ELSE RADIX * s[k - 1]]
             F == [x \in (Nat \ {0}) \X (0 .. (LIMBS - 1)) |-> RADIX * x[1]]
  <1>0. LIMBS \in Nat /\ LIMBS >= 2 /\ RADIX \in Nat /\ RADIX >= 256
    BY Sizes
  <1>1. F \in [(Nat \ {0}) \X (0 .. (LIMBS - 1)) -> Nat \ {0}]
    <2>1. ASSUME NEW x \in Nat \ {0} PROVE RADIX * x \in Nat \ {0}
      BY <1>0
    <2> QED
      BY <2>1
  <1>2. \A x \in Nat \ {0}, k \in 0 .. (LIMBS - 1) : F[<<x, k>>] = RADIX * x
    OBVIOUS
  <1> HIDE DEF F
  <1>3. PICK w \in [0 .. LIMBS -> Nat \ {0}] : Follows(w, F, 1, LIMBS)
    <2>1. 1 \in Nat \ {0}
      OBVIOUS
    <2> QED
      BY <1>0, <1>1, <2>1, RecursionExists, Zenon
  <1>4. \A k \in 0 .. LIMBS : w[k] = IF k = 0 THEN 1 ELSE RADIX * w[k - 1]
    <2>1. w[0] = 1
      BY <1>3 DEF Follows
    <2>2. ASSUME NEW k \in 0 .. LIMBS, k # 0 PROVE w[k] = RADIX * w[k - 1]
      <3>1. PICK j \in 0 .. (LIMBS - 1) : j + 1 = k /\ j = k - 1
        BY <1>0, <2>2
      <3>2. w[j + 1] = F[<<w[j], j>>] /\ w[j] \in Nat \ {0}
        <4>1. w[j + 1] = F[<<w[j], j>>]
          BY <1>3, Zenon DEF Follows
        <4>2. w[j] \in Nat \ {0}
          BY <1>0, <1>3
        <4> QED
          BY <4>1, <4>2
      <3>3. w[j + 1] = RADIX * w[j]
        BY <1>2, <3>2, Zenon
      <3> QED
        BY <3>1, <3>3, Zenon
    <2> QED
      BY <2>1, <2>2
  <1>5. w = Step(w)
    BY <1>4
  <1>6. Unit = Step(Unit)
    BY <1>5, Zenon DEF Unit
  <1>7. \A k \in 0 .. LIMBS : Unit[k] = IF k = 0 THEN 1 ELSE RADIX * Unit[k - 1]
    BY <1>6, Zenon
  <1>8. Unit = [k \in 0 .. LIMBS |-> Unit[k]]
    BY <1>6, Zenon
  <1> HIDE DEF Step
  <1>9. Unit[0] = 1
    BY <1>0, <1>7
  <1>10. ASSUME NEW k \in 0 .. (LIMBS - 1) PROVE Unit[k + 1] = RADIX * Unit[k]
    <2>1. k + 1 \in 0 .. LIMBS /\ k + 1 # 0 /\ (k + 1) - 1 = k
      BY <1>0
    <2> QED
      BY <1>7, <2>1
  <1>11. \A k \in 0 .. LIMBS : Unit[k] \in Nat \ {0}
    <2>1. ASSUME NEW k \in 0 .. (LIMBS - 1), Unit[k] \in Nat \ {0}
          PROVE  Unit[k + 1] \in Nat \ {0}
      <3>1. ASSUME NEW x \in Nat \ {0} PROVE RADIX * x \in Nat \ {0}
        BY <1>0
      <3> QED
        BY <1>10, <2>1, <3>1
    <2>2. Unit[0] \in Nat \ {0}
      BY <1>9
    <2> QED
      BY <1>0, <2>1, <2>2, StaysIn
  <1>12. Unit \in [0 .. LIMBS -> Nat \ {0}]
    BY <1>8, <1>11, Zenon
  <1> QED
    BY <1>9, <1>10, <1>12

(* The sums of a function over the first limbs.                            *)
AreSums(s, f) ==
  /\ s \in [0 .. LIMBS -> Int]
  /\ s[0] = 0
  /\ \A k \in 0 .. (LIMBS - 1) : s[k + 1] = s[k] + f[k]

LEMMA TotalDefined ==
  ASSUME NEW f \in [Places -> Int]
  PROVE  \E s : AreSums(s, f) /\ Total(f) = s[LIMBS]
  <1> DEFINE Step(s) == [n \in 0 .. LIMBS |-> IF n = 0 THEN 0 ELSE s[n - 1] + f[n - 1]]
             F == [x \in Int \X (0 .. (LIMBS - 1)) |-> x[1] + f[x[2]]]
             u == CHOOSE s : s = Step(s)
  <1>0. LIMBS \in Nat /\ LIMBS >= 2 /\ Places = 0 .. (LIMBS - 1)
    BY Sizes
  <1>1. F \in [Int \X (0 .. (LIMBS - 1)) -> Int]
    BY <1>0
  <1>2. \A x \in Int, k \in 0 .. (LIMBS - 1) : F[<<x, k>>] = x + f[k]
    OBVIOUS
  <1> HIDE DEF F
  <1>3. PICK w \in [0 .. LIMBS -> Int] : Follows(w, F, 0, LIMBS)
    <2>1. 0 \in Int
      OBVIOUS
    <2> QED
      BY <1>0, <1>1, <2>1, RecursionExists, Zenon
  <1>4. \A k \in 0 .. LIMBS : w[k] = IF k = 0 THEN 0 ELSE w[k - 1] + f[k - 1]
    <2>1. w[0] = 0
      BY <1>3 DEF Follows
    <2>2. ASSUME NEW k \in 0 .. LIMBS, k # 0 PROVE w[k] = w[k - 1] + f[k - 1]
      <3>1. PICK j \in 0 .. (LIMBS - 1) : j + 1 = k /\ j = k - 1
        BY <1>0, <2>2
      <3>2. w[j + 1] = F[<<w[j], j>>] /\ w[j] \in Int
        <4>1. w[j + 1] = F[<<w[j], j>>]
          BY <1>3, Zenon DEF Follows
        <4>2. w[j] \in Int
          BY <1>0, <1>3
        <4> QED
          BY <4>1, <4>2
      <3>3. w[j + 1] = w[j] + f[j]
        BY <1>2, <3>2, Zenon
      <3> QED
        BY <3>1, <3>3, Zenon
    <2> QED
      BY <2>1, <2>2
  <1>5. w = Step(w)
    BY <1>4
  <1>6. u = Step(u)
    BY <1>5, Zenon
  <1>7. Total(f) = u[LIMBS]
    BY Zenon DEF Total
  <1> HIDE DEF u
  <1>8. \A k \in 0 .. LIMBS : u[k] = IF k = 0 THEN 0 ELSE u[k - 1] + f[k - 1]
    BY <1>6, Zenon
  <1>9. u = [k \in 0 .. LIMBS |-> u[k]]
    BY <1>6, Zenon
  <1> HIDE DEF Step
  <1>10. u[0] = 0
    BY <1>0, <1>8
  <1>11. ASSUME NEW k \in 0 .. (LIMBS - 1) PROVE u[k + 1] = u[k] + f[k]
    <2>1. k + 1 \in 0 .. LIMBS /\ k + 1 # 0 /\ (k + 1) - 1 = k
      BY <1>0
    <2> QED
      BY <1>8, <2>1
  <1>12. \A k \in 0 .. LIMBS : u[k] \in Int
    <2>1. ASSUME NEW k \in 0 .. (LIMBS - 1), u[k] \in Int PROVE u[k + 1] \in Int
      <3>1. f[k] \in Int
        BY <1>0
      <3> QED
        BY <1>11, <2>1, <3>1
    <2>2. u[0] \in Int
      BY <1>10
    <2> QED
      BY <1>0, <2>1, <2>2, StaysIn
  <1>13. u \in [0 .. LIMBS -> Int]
    BY <1>9, <1>12, Zenon
  <1> QED
    BY <1>7, <1>10, <1>11, <1>13, Zenon DEF AreSums

-----------------------------------------------------------------------------
(* What the first limbs stand for.                                         *)
AreParts(s, a) ==
  /\ s \in [0 .. LIMBS -> Int]
  /\ s[0] = 0
  /\ \A k \in 0 .. (LIMBS - 1) : s[k + 1] = s[k] + a[k] * Unit[k]

LEMMA ValueDefined ==
  ASSUME NEW a \in [Places -> Int]
  PROVE  /\ \E s : AreParts(s, a) /\ Value(a) = s[LIMBS]
         /\ Value(a) \in Int
  <1> DEFINE f == [k \in Places |-> a[k] * Unit[k]]
  <1>0. LIMBS \in Nat /\ LIMBS >= 2 /\ Places = 0 .. (LIMBS - 1)
    BY Sizes
  <1>1. f \in [Places -> Int]
    <2>1. ASSUME NEW k \in Places PROVE a[k] * Unit[k] \in Int
      <3>1. a[k] \in Int /\ Unit[k] \in Int
        BY <1>0, UnitDefined
      <3> QED
        BY <3>1
    <2> QED
      BY <2>1
  <1>2. \A k \in 0 .. (LIMBS - 1) : f[k] = a[k] * Unit[k]
    BY <1>0
  <1>3. Value(a) = Total(f)
    BY Zenon DEF Value
  <1> HIDE DEF f
  <1>4. PICK s : AreSums(s, f) /\ Total(f) = s[LIMBS]
    BY <1>1, TotalDefined
  <1>5. AreParts(s, a)
    BY <1>2, <1>4, Zenon DEF AreSums, AreParts
  <1>6. s[LIMBS] \in Int
    BY <1>0, <1>5 DEF AreParts
  <1> QED
    BY <1>3, <1>4, <1>5, <1>6

LEMMA DigitStep ==
  ASSUME NEW r \in Nat \ {0}, NEW u \in Nat \ {0}, NEW d \in 0 .. (r - 1),
         NEW p \in 0 .. (u - 1)
  PROVE  p + d * u \in 0 .. (r * u - 1)
  <1>1. d * u \in Nat /\ r * u \in Nat /\ (r - 1 - d) * u \in Nat
    OBVIOUS
  <1>2. (r - 1 - d) * u = r * u - u - d * u
    OBVIOUS
  <1> QED
    BY <1>1, <1>2

(* Digits stand for less than the next unit.                               *)
LEMMA DigitsBelow ==
  ASSUME NEW a \in [Places -> Int], NEW s, AreParts(s, a), NEW n \in 0 .. LIMBS,
         \A k \in 0 .. (n - 1) : a[k] \in 0 .. (RADIX - 1)
  PROVE  \A k \in 0 .. n : s[k] \in 0 .. (Unit[k] - 1)
  <1> DEFINE T == {k \in 0 .. LIMBS : s[k] \in 0 .. (Unit[k] - 1)}
  <1>0. LIMBS \in Nat /\ RADIX \in Nat \ {0}
    BY Sizes
  <1>1. 0 \in T
    BY <1>0, UnitDefined DEF AreParts
  <1>2. ASSUME NEW k \in 0 .. (n - 1), k \in T PROVE k + 1 \in T
    <2>1. k \in 0 .. (LIMBS - 1) /\ k + 1 \in 0 .. LIMBS /\ k \in 0 .. LIMBS
      BY <1>0
    <2>2. Unit[k] \in Nat \ {0} /\ a[k] \in 0 .. (RADIX - 1) /\ s[k] \in 0 .. (Unit[k] - 1)
      BY <1>2, <2>1, UnitDefined
    <2>3. s[k] + a[k] * Unit[k] \in 0 .. (RADIX * Unit[k] - 1)
      BY <1>0, <2>2, DigitStep
    <2>4. Unit[k + 1] = RADIX * Unit[k] /\ s[k + 1] = s[k] + a[k] * Unit[k]
      BY <2>1, UnitDefined DEF AreParts
    <2>5. s[k + 1] \in 0 .. (Unit[k + 1] - 1)
      BY <2>3, <2>4, Zenon
    <2> QED
      BY <2>1, <2>5
  <1> HIDE DEF T
  <1>3. \A k \in 0 .. n : k \in T
    BY <1>0, <1>1, <1>2, InductionTo
  <1> QED
    BY <1>3 DEF T

LEMMA SizeStep ==
  ASSUME NEW r \in Nat \ {0}, NEW u \in Nat \ {0}, NEW m \in Nat,
         NEW x \in Int, x <= m, -m <= x, NEW p \in Int,
         (r - 1) * p <= m * (u - 1), -(m * (u - 1)) <= (r - 1) * p
  PROVE  /\ (r - 1) * (p + x * u) <= m * (r * u - 1)
         /\ -(m * (r * u - 1)) <= (r - 1) * (p + x * u)
  <1>1. PICK b \in Nat : b = (r - 1) * u
    OBVIOUS
  <1>2. (m - x) * b >= 0 /\ (m + x) * b >= 0
    OBVIOUS
  <1>3. (m - x) * b = m * b - x * b /\ (m + x) * b = m * b + x * b
    OBVIOUS
  <1>4. (r - 1) * (p + x * u) = (r - 1) * p + x * b
    BY <1>1
  <1>5. m * (r * u - 1) = m * (u - 1) + m * b
    BY <1>1
  <1> QED
    BY <1>2, <1>3, <1>4, <1>5

(* Limbs of a size stand for a number of that size, times the sum of the   *)
(* units.                                                                  *)
LEMMA ValueSize ==
  ASSUME NEW a \in [Places -> Int], NEW m \in Nat,
         \A k \in Places : a[k] <= m /\ -m <= a[k]
  PROVE  /\ (RADIX - 1) * Value(a) <= m * (Unit[LIMBS] - 1)
         /\ -(m * (Unit[LIMBS] - 1)) <= (RADIX - 1) * Value(a)
  <1>0. LIMBS \in Nat /\ RADIX \in Nat \ {0} /\ Places = 0 .. (LIMBS - 1)
    BY Sizes
  <1>1. PICK s : AreParts(s, a) /\ Value(a) = s[LIMBS]
    BY ValueDefined
  <1> DEFINE T == {k \in 0 .. LIMBS : /\ (RADIX - 1) * s[k] <= m * (Unit[k] - 1)
                                      /\ -(m * (Unit[k] - 1)) <= (RADIX - 1) * s[k]}
  <1>2. 0 \in T
    BY <1>0, <1>1, UnitDefined DEF AreParts
  <1>3. ASSUME NEW k \in 0 .. (LIMBS - 1), k \in T PROVE k + 1 \in T
    <2>1. k + 1 \in 0 .. LIMBS /\ k \in 0 .. LIMBS
      BY <1>0
    <2>2. /\ Unit[k] \in Nat \ {0} /\ a[k] \in Int /\ s[k] \in Int
          /\ a[k] <= m /\ -m <= a[k]
      BY <1>0, <1>1, <2>1, UnitDefined DEF AreParts
    <2>3. (RADIX - 1) * s[k] <= m * (Unit[k] - 1) /\ -(m * (Unit[k] - 1)) <= (RADIX - 1) * s[k]
      BY <1>3
    <2> HIDE DEF T
    <2>4. /\ (RADIX - 1) * (s[k] + a[k] * Unit[k]) <= m * (RADIX * Unit[k] - 1)
          /\ -(m * (RADIX * Unit[k] - 1)) <= (RADIX - 1) * (s[k] + a[k] * Unit[k])
      BY <1>0, <2>2, <2>3, SizeStep
    <2>5. Unit[k + 1] = RADIX * Unit[k] /\ s[k + 1] = s[k] + a[k] * Unit[k]
      BY <1>1, UnitDefined DEF AreParts
    <2>6. /\ (RADIX - 1) * s[k + 1] <= m * (Unit[k + 1] - 1)
          /\ -(m * (Unit[k + 1] - 1)) <= (RADIX - 1) * s[k + 1]
      BY <2>4, <2>5, Zenon
    <2> QED
      BY <2>1, <2>6 DEF T
  <1> HIDE DEF T
  <1>4. \A k \in 0 .. LIMBS : k \in T
    BY <1>0, <1>2, <1>3, InductionTo
  <1>5. LIMBS \in T
    BY <1>0, <1>4
  <1> QED
    BY <1>1, <1>5 DEF T

(* A limb that changes changes the number by what it counts for.           *)
LEMMA ValueChanged ==
  ASSUME NEW a \in [Places -> Int], NEW j \in Places, NEW v \in Int
  PROVE  /\ [a EXCEPT ![j] = v] \in [Places -> Int]
         /\ Value([a EXCEPT ![j] = v]) = Value(a) + (v - a[j]) * Unit[j]
  <1> DEFINE b == [a EXCEPT ![j] = v]
  <1>0. LIMBS \in Nat /\ Places = 0 .. (LIMBS - 1)
    BY Sizes
  <1>1. b \in [Places -> Int] /\ b[j] = v /\ \A k \in Places : k # j => b[k] = a[k]
    OBVIOUS
  <1> HIDE DEF b
  <1>2. PICK s : AreParts(s, a) /\ Value(a) = s[LIMBS]
    BY ValueDefined
  <1>3. PICK z : AreParts(z, b) /\ Value(b) = z[LIMBS]
    BY <1>1, ValueDefined
  <1>4. j \in 0 .. LIMBS /\ a[j] \in Int /\ Unit[j] \in Int
    BY <1>0, UnitDefined
  <1>5. PICK e \in Int : e = (v - a[j]) * Unit[j]
    BY <1>4
  <1> DEFINE T == {k \in 0 .. LIMBS : z[k] = IF k > j THEN s[k] + e ELSE s[k]}
  <1>6. 0 \in T
    BY <1>0, <1>2, <1>3 DEF AreParts
  <1>7. ASSUME NEW k \in 0 .. (LIMBS - 1), k \in T PROVE k + 1 \in T
    <2>1. k + 1 \in 0 .. LIMBS /\ k \in 0 .. LIMBS
      BY <1>0
    <2>2. z[k + 1] = z[k] + b[k] * Unit[k] /\ s[k + 1] = s[k] + a[k] * Unit[k]
      BY <1>2, <1>3 DEF AreParts
    <2>3. z[k] \in Int /\ s[k] \in Int /\ a[k] \in Int /\ b[k] \in Int /\ Unit[k] \in Int
      <3>1. z[k] \in Int /\ s[k] \in Int
        BY <1>2, <1>3, <2>1 DEF AreParts
      <3>2. a[k] \in Int /\ b[k] \in Int
        BY <1>0, <1>1
      <3>3. Unit[k] \in Int
        BY <2>1, UnitDefined
      <3> QED
        BY <3>1, <3>2, <3>3
    <2>4. PICK x \in Int : x = a[k] * Unit[k]
      BY <2>3
    <2>5. b[k] * Unit[k] = IF k = j THEN x + e ELSE x
      <3>1. CASE k = j
        <4>1. b[k] = v /\ v - a[k] \in Int
          BY <1>1, <2>3, <3>1
        <4>2. v * Unit[k] = a[k] * Unit[k] + (v - a[k]) * Unit[k]
          BY <2>3
        <4> QED
          BY <1>5, <2>4, <3>1, <4>1, <4>2
      <3>2. CASE k # j
        BY <1>0, <1>1, <2>4, <3>2
      <3> QED
        BY <3>1, <3>2
    <2>6. z[k] = IF k > j THEN s[k] + e ELSE s[k]
      BY <1>7
    <2>7. z[k + 1] = IF k + 1 > j THEN s[k + 1] + e ELSE s[k + 1]
      <3>0. z[k + 1] = z[k] + b[k] * Unit[k] /\ s[k + 1] = s[k] + x
        BY <2>2, <2>4
      <3>1. j \in Nat /\ k \in Nat
        BY <1>0
      <3>2. CASE k = j
        <4>1. b[k] * Unit[k] = x + e /\ z[k] = s[k]
          BY <2>5, <2>6, <3>1, <3>2
        <4>2. z[k + 1] = s[k] + (x + e)
          BY <3>0, <4>1
        <4> QED
          BY <2>3, <3>0, <3>1, <3>2, <4>2
      <3>3. CASE k > j
        <4>1. b[k] * Unit[k] = x /\ z[k] = s[k] + e
          BY <2>5, <2>6, <3>1, <3>3
        <4>2. z[k + 1] = (s[k] + e) + x
          BY <3>0, <4>1
        <4> QED
          BY <2>3, <3>0, <3>1, <3>3, <4>2
      <3>4. CASE k < j
        <4>1. b[k] * Unit[k] = x /\ z[k] = s[k]
          BY <2>5, <2>6, <3>1, <3>4
        <4>2. z[k + 1] = s[k] + x
          BY <3>0, <4>1
        <4> QED
          BY <3>0, <3>1, <3>4, <4>2
      <3> QED
        BY <3>1, <3>2, <3>3, <3>4
    <2> QED
      BY <2>1, <2>7
  <1> HIDE DEF T
  <1>8. \A k \in 0 .. LIMBS : k \in T
    BY <1>0, <1>6, <1>7, InductionTo
  <1>9. z[LIMBS] = s[LIMBS] + e
    <2>1. LIMBS \in T /\ LIMBS > j
      BY <1>0, <1>8
    <2> QED
      BY <2>1 DEF T
  <1> QED
    BY <1>1, <1>2, <1>3, <1>5, <1>9 DEF b

-----------------------------------------------------------------------------
(* The carries.                                                            *)

LEMMA Quotient ==
  ASSUME NEW x \in Int, NEW r \in Nat \ {0}
  PROVE  /\ x \div r \in Int /\ x % r \in 0 .. (r - 1)
         /\ x = r * (x \div r) + (x % r)
  OBVIOUS

LEMMA LimbCarried ==
  ASSUME NEW a \in [Places -> Int], NEW k \in Places, NEW c \in Int, c = a[k] \div RADIX
  PROVE  /\ CarryLimb(a, k) \in [Places -> Int]
         /\ CarryLimb(a, k)[k] \in 0 .. (RADIX - 1)
         /\ \A j \in Places : j # k /\ j # (IF k < Top THEN k + 1 ELSE 0) =>
              CarryLimb(a, k)[j] = a[j]
         /\ k < Top => Value(CarryLimb(a, k)) = Value(a)
         /\ k = Top => /\ Value(CarryLimb(a, k)) = Value(a) - (Unit[LIMBS] - 38) * c
                       /\ CarryLimb(a, k)[0] = a[0] + 38 * c
  <1> DEFINE b == [a EXCEPT ![k] = a[k] % RADIX]
  <1>0. /\ LIMBS \in Nat /\ RADIX \in Nat \ {0} /\ Places = 0 .. (LIMBS - 1)
        /\ Top \in Nat /\ Top >= 1 /\ Top + 1 = LIMBS /\ Places = 0 .. Top
    BY Sizes
  <1>1. a[k] \in Int /\ a[k] % RADIX \in 0 .. (RADIX - 1) /\ a[k] % RADIX \in Int
        /\ (a[k] % RADIX) - a[k] = -(RADIX * c)
    <2>1. a[k] \in Int
      OBVIOUS
    <2>2. /\ a[k] % RADIX \in 0 .. (RADIX - 1)
          /\ a[k] = RADIX * (a[k] \div RADIX) + (a[k] % RADIX)
      BY <1>0, <2>1, Quotient
    <2> QED
      BY <1>0, <2>1, <2>2
  <1>2. b \in [Places -> Int] /\ b[k] = a[k] % RADIX /\ \A j \in Places : j # k => b[j] = a[j]
    BY <1>1
  <1>3. Value(b) = Value(a) + ((a[k] % RADIX) - a[k]) * Unit[k]
    BY <1>1, ValueChanged, Zenon
  <1>4. Value(a) \in Int
    BY ValueDefined
  <1>5. Unit[k] \in Int
    BY <1>0, UnitDefined
  <1>6. PICK e \in Int : e = c * (RADIX * Unit[k])
    BY <1>0, <1>5
  <1>7. Value(b) = Value(a) - e
    <2>1. (-(RADIX * c)) * Unit[k] = -(c * (RADIX * Unit[k]))
      <3>1. \A x, y, z \in Int : (-(x * y)) * z = -(y * (x * z))
        OBVIOUS
      <3>2. RADIX \in Int /\ c \in Int
        BY <1>0
      <3> QED
        BY <1>5, <3>1, <3>2, Zenon
    <2>2. Value(b) = Value(a) + (-(RADIX * c)) * Unit[k]
      BY <1>1, <1>3, Zenon
    <2>3. Value(b) = Value(a) + (-e)
      BY <1>6, <2>1, <2>2, Zenon
    <2>4. \A x, y \in Int : x + (-y) = x - y
      OBVIOUS
    <2> QED
      BY <1>4, <1>6, <2>3, <2>4, Zenon
  <1>8. Unit[k + 1] = RADIX * Unit[k]
    BY <1>0, UnitDefined
  <1>9. CASE k < Top
    <2> DEFINE d == [b EXCEPT ![k + 1] = b[k + 1] + c]
    <2>1. k + 1 \in Places /\ k + 1 # k
      BY <1>0, <1>9
    <2>2. b[k + 1] = a[k + 1] /\ b[k + 1] \in Int /\ b[k + 1] + c \in Int
      BY <1>2, <2>1
    <2>3. CarryLimb(a, k) = d
      BY <1>9, <2>1, <2>2 DEF CarryLimb
    <2>4. d \in [Places -> Int] /\ Value(d) = Value(b) + ((b[k + 1] + c) - b[k + 1]) * Unit[k + 1]
      BY <1>2, <2>1, <2>2, ValueChanged, Zenon
    <2>5. (b[k + 1] + c) - b[k + 1] = c
      BY <2>2
    <2>6. Value(d) = Value(b) + e
      BY <1>6, <1>8, <2>4, <2>5, Zenon
    <2>7. d[k] = b[k] /\ \A j \in Places : j # k + 1 => d[j] = b[j]
      BY <1>2, <2>1, <2>2
    <2> HIDE DEF b, d
    <2>8. Value(d) = Value(a)
      BY <1>4, <1>7, <2>6
    <2>9. d[k] \in 0 .. (RADIX - 1)
      BY <1>1, <1>2, <2>7, Zenon
    <2>10. \A j \in Places : j # k /\ j # k + 1 => d[j] = a[j]
      BY <1>2, <2>7, Zenon
    <2>11. k # Top
      BY <1>0, <1>9
    <2> QED
      BY <1>9, <2>3, <2>4, <2>8, <2>9, <2>10, <2>11, Zenon
  <1>10. CASE k = Top
    <2> DEFINE d == [b EXCEPT ![0] = b[0] + 38 * c]
    <2>1. 0 \in Places /\ 0 # k
      BY <1>0, <1>10
    <2>2. b[0] = a[0] /\ b[0] \in Int /\ b[0] + 38 * c \in Int
      BY <1>2, <2>1
    <2>3. CarryLimb(a, k) = d
      BY <1>0, <1>10, <2>1, <2>2 DEF CarryLimb
    <2>4. d \in [Places -> Int] /\ Value(d) = Value(b) + ((b[0] + 38 * c) - b[0]) * Unit[0]
      BY <1>2, <2>1, <2>2, ValueChanged, Zenon
    <2>5. (b[0] + 38 * c) - b[0] = 38 * c /\ Unit[0] = 1
      BY <2>2, UnitDefined
    <2>6. Value(d) = Value(b) + (38 * c) * 1
      BY <2>4, <2>5, Zenon
    <2>7. d[0] = b[0] + 38 * c /\ \A j \in Places : j # 0 => d[j] = b[j]
      BY <1>2, <2>1, <2>2
    <2> HIDE DEF b, d
    <2>8. Value(d) = Value(a) - (Unit[LIMBS] - 38) * c
      <3>1. Unit[LIMBS] = RADIX * Unit[k]
        BY <1>0, <1>8, <1>10
      <3>2. Unit[LIMBS] \in Int
        BY <1>0, UnitDefined
      <3>3. (Unit[LIMBS] - 38) * c = e - 38 * c
        BY <1>6, <3>1, <3>2
      <3> QED
        <4>1. Value(d) = (Value(a) - e) + 38 * c
          BY <1>7, <2>6
        <4>2. PICK g \in Int : g = (Unit[LIMBS] - 38) * c
          BY <3>2
        <4>3. g = e - 38 * c
          BY <3>3, <4>2
        <4>4. Value(d) = Value(a) - g
          BY <1>4, <4>1, <4>3
        <4> QED
          BY <4>2, <4>4, Zenon
    <2>9. d[k] \in 0 .. (RADIX - 1)
      BY <1>1, <1>2, <2>1, <2>7, Zenon
    <2>10. \A j \in Places : j # k /\ j # 0 => d[j] = a[j]
      BY <1>2, <2>7, Zenon
    <2>11. ~(k < Top)
      BY <1>0, <1>10
    <2>12. d[0] = a[0] + 38 * c
      BY <2>2, <2>7, Zenon
    <2> QED
      BY <1>10, <2>3, <2>4, <2>8, <2>9, <2>10, <2>11, <2>12, Zenon
  <1> QED
    BY <1>0, <1>9, <1>10

LEMMA CarryDefined ==
  ASSUME NEW o \in [Places -> Int]
  PROVE  \E w \in [0 .. LIMBS -> [Places -> Int]] :
           /\ w[0] = o
           /\ \A n \in 0 .. (LIMBS - 1) : w[n + 1] = CarryLimb(w[n], n)
           /\ Carry(o) = w[LIMBS]
  <1> DEFINE Step(s) == [n \in 0 .. LIMBS |-> IF n = 0 THEN o ELSE CarryLimb(s[n - 1], n - 1)]
             X == [Places -> Int]
             F == [x \in X \X (0 .. (LIMBS - 1)) |-> CarryLimb(x[1], x[2])]
             u == CHOOSE s : s = Step(s)
  <1>0. LIMBS \in Nat /\ LIMBS >= 2 /\ Places = 0 .. (LIMBS - 1)
    BY Sizes
  <1>1. ASSUME NEW x \in X, NEW k \in 0 .. (LIMBS - 1) PROVE CarryLimb(x, k) \in X
    <2>1. x[k] \div RADIX \in Int
      BY <1>0, Sizes
    <2> QED
      BY <1>0, <2>1, LimbCarried
  <1>2. F \in [X \X (0 .. (LIMBS - 1)) -> X]
    <2> HIDE DEF X
    <2> QED
      BY <1>1
  <1>3. \A x \in X, k \in 0 .. (LIMBS - 1) : F[<<x, k>>] = CarryLimb(x, k)
    <2> HIDE DEF X
    <2> QED
      OBVIOUS
  <1>4. o \in X
    OBVIOUS
  <1> HIDE DEF F, X
  <1>5. PICK w \in [0 .. LIMBS -> X] : Follows(w, F, o, LIMBS)
    BY <1>0, <1>2, <1>4, RecursionExists, Zenon
  <1>6. \A k \in 0 .. LIMBS : w[k] = IF k = 0 THEN o ELSE CarryLimb(w[k - 1], k - 1)
    <2>1. w[0] = o
      BY <1>5, Zenon DEF Follows
    <2>2. ASSUME NEW k \in 0 .. LIMBS, k # 0 PROVE w[k] = CarryLimb(w[k - 1], k - 1)
      <3>1. PICK j \in 0 .. (LIMBS - 1) : j + 1 = k /\ j = k - 1
        BY <1>0, <2>2
      <3>2. w[j + 1] = F[<<w[j], j>>]
        BY <1>5, Zenon DEF Follows
      <3>3. w[j] \in X
        BY <1>0, <1>5
      <3>4. w[j + 1] = CarryLimb(w[j], j)
        BY <1>3, <3>2, <3>3, Zenon
      <3> QED
        BY <3>1, <3>4, Zenon
    <2> QED
      BY <2>1, <2>2, Zenon
  <1>7. w = Step(w)
    BY <1>6
  <1>8. u = Step(u)
    BY <1>7, Zenon
  <1>9. Carry(o) = u[LIMBS]
    BY Zenon DEF Carry
  <1> HIDE DEF u
  <1>10. \A k \in 0 .. LIMBS : u[k] = IF k = 0 THEN o ELSE CarryLimb(u[k - 1], k - 1)
    BY <1>8, Zenon
  <1>11. u = [k \in 0 .. LIMBS |-> u[k]]
    BY <1>8, Zenon
  <1> HIDE DEF Step
  <1>12. u[0] = o
    <2>1. 0 \in 0 .. LIMBS
      BY <1>0
    <2> QED
      BY <1>10, <2>1, Zenon
  <1>13. ASSUME NEW k \in 0 .. (LIMBS - 1) PROVE u[k + 1] = CarryLimb(u[k], k)
    <2>1. k + 1 \in 0 .. LIMBS /\ k + 1 # 0 /\ (k + 1) - 1 = k
      BY <1>0
    <2> QED
      BY <1>10, <2>1, Zenon
  <1>14. \A k \in 0 .. LIMBS : u[k] \in X
    <2>1. ASSUME NEW k \in 0 .. (LIMBS - 1), u[k] \in X PROVE u[k + 1] \in X
      BY <1>1, <1>13, <2>1, Zenon
    <2>2. u[0] \in X
      BY <1>4, <1>12, Zenon
    <2> QED
      BY <1>0, <2>1, <2>2, StaysIn
  <1>15. u \in [0 .. LIMBS -> X]
    BY <1>11, <1>14, Zenon
  <1> QED
    BY <1>9, <1>12, <1>13, <1>15, Zenon DEF X

(* A whole carry takes c times all that the limbs can count to out of the  *)
(* number and puts 38 c back.                                              *)
CarriesBy(o, c) ==
  /\ Carry(o) \in [Places -> Int]
  /\ Unit[LIMBS] * c <= Value(o) /\ Value(o) < Unit[LIMBS] * c + Unit[LIMBS]
  /\ Value(Carry(o)) = Value(o) - (Unit[LIMBS] - 38) * c
  /\ \A k \in Places \ {0} : Carry(o)[k] \in 0 .. (RADIX - 1)
  /\ Carry(o)[0] - 38 * c \in 0 .. (RADIX - 1)

LEMMA Carried ==
  ASSUME NEW o \in [Places -> Int]
  PROVE  \E c \in Int : CarriesBy(o, c)
  <1>0. /\ LIMBS \in Nat /\ RADIX \in Nat \ {0} /\ Places = 0 .. (LIMBS - 1)
        /\ Top \in Nat /\ Top >= 1 /\ Top + 1 = LIMBS /\ Places = 0 .. Top
    BY Sizes
  <1>1. PICK w \in [0 .. LIMBS -> [Places -> Int]] :
           /\ w[0] = o
           /\ \A n \in 0 .. (LIMBS - 1) : w[n + 1] = CarryLimb(w[n], n)
           /\ Carry(o) = w[LIMBS]
    BY CarryDefined
  <1>2. ASSUME NEW n \in 0 .. Top
        PROVE  /\ n \in Places /\ n \in 0 .. (LIMBS - 1) /\ n \in 0 .. LIMBS
               /\ w[n] \in [Places -> Int] /\ w[n][n] \in Int /\ w[n][n] \div RADIX \in Int
    <2>1. n \in Places /\ n \in 0 .. (LIMBS - 1) /\ n \in 0 .. LIMBS
      BY <1>0
    <2>2. w[n] \in [Places -> Int]
      BY <1>1, <2>1
    <2>3. w[n][n] \in Int
      BY <2>1, <2>2
    <2>4. w[n][n] \div RADIX \in Int
      BY <1>0, <2>3, Quotient
    <2> QED
      BY <2>1, <2>2, <2>3, <2>4
  <1> DEFINE T == {n \in 0 .. Top : /\ Value(w[n]) = Value(o)
                                    /\ \A k \in 0 .. (n - 1) : w[n][k] \in 0 .. (RADIX - 1)}
  <1>3. 0 \in T
    BY <1>0, <1>1
  <1>4. ASSUME NEW n \in 0 .. (Top - 1), n \in T PROVE n + 1 \in T
    <2>1. n \in 0 .. Top /\ n < Top /\ n + 1 \in 0 .. Top /\ n \in 0 .. (LIMBS - 1)
      BY <1>0
    <2>2. w[n + 1] = CarryLimb(w[n], n)
      BY <1>1, <2>1
    <2>3. PICK c \in Int : c = w[n][n] \div RADIX
      BY <1>2, <2>1
    <2>4. /\ w[n] \in [Places -> Int] /\ n \in Places
      BY <1>2, <2>1
    <2>5. /\ CarryLimb(w[n], n)[n] \in 0 .. (RADIX - 1)
          /\ \A j \in Places : j # n /\ j # (IF n < Top THEN n + 1 ELSE 0) =>
               CarryLimb(w[n], n)[j] = w[n][j]
          /\ n < Top => Value(CarryLimb(w[n], n)) = Value(w[n])
      BY <2>3, <2>4, LimbCarried
    <2>6. Value(w[n + 1]) = Value(o)
      BY <1>4, <2>1, <2>2, <2>5
    <2>7. ASSUME NEW k \in 0 .. ((n + 1) - 1) PROVE w[n + 1][k] \in 0 .. (RADIX - 1)
      <3>1. CASE k = n
        BY <2>2, <2>5, <3>1, Zenon
      <3>2. CASE k # n
        <4>1. k \in 0 .. (n - 1) /\ k \in Places /\ k # n + 1
          BY <1>0, <2>1, <3>2
        <4>2. w[n][k] \in 0 .. (RADIX - 1)
          BY <1>4, <4>1
        <4>3. w[n + 1][k] = w[n][k]
          BY <2>1, <2>2, <2>5, <3>2, <4>1, Zenon
        <4> QED
          BY <4>2, <4>3, Zenon
      <3> QED
        BY <3>1, <3>2
    <2> QED
      BY <2>1, <2>6, <2>7
  <1> HIDE DEF T
  <1>5. \A n \in 0 .. Top : n \in T
    BY <1>0, <1>3, <1>4, InductionTo
  <1>6. /\ Value(w[Top]) = Value(o)
        /\ \A k \in 0 .. (Top - 1) : w[Top][k] \in 0 .. (RADIX - 1)
    <2>1. Top \in T
      BY <1>0, <1>5
    <2> QED
      BY <2>1 DEF T
  <1>7. /\ Top \in Places /\ w[Top] \in [Places -> Int] /\ w[Top][Top] \in Int
    BY <1>0, <1>2
  <1>8. PICK c \in Int : c = w[Top][Top] \div RADIX
    BY <1>0, <1>2
  <1>9. Carry(o) = CarryLimb(w[Top], Top)
    BY <1>0, <1>1
  <1>10. /\ CarryLimb(w[Top], Top) \in [Places -> Int]
         /\ CarryLimb(w[Top], Top)[Top] \in 0 .. (RADIX - 1)
         /\ \A j \in Places : j # Top /\ j # (IF Top < Top THEN Top + 1 ELSE 0) =>
              CarryLimb(w[Top], Top)[j] = w[Top][j]
         /\ Top = Top => /\ Value(CarryLimb(w[Top], Top)) = Value(w[Top]) - (Unit[LIMBS] - 38) * c
                         /\ CarryLimb(w[Top], Top)[0] = w[Top][0] + 38 * c
    BY <1>7, <1>8, LimbCarried
  <1>11. \A k \in Places \ {0} : Carry(o)[k] \in 0 .. (RADIX - 1)
    <2>1. ~(Top < Top)
      BY <1>0
    <2>2. ASSUME NEW k \in Places \ {0} PROVE Carry(o)[k] \in 0 .. (RADIX - 1)
      <3>1. CASE k = Top
        BY <1>9, <1>10, <3>1, Zenon
      <3>2. CASE k # Top
        <4>1. k \in 0 .. (Top - 1) /\ k \in Places /\ k # 0
          BY <1>0, <3>2
        <4>2. Carry(o)[k] = w[Top][k]
          BY <1>9, <1>10, <2>1, <3>2, <4>1, Zenon
        <4> QED
          BY <1>6, <4>1, <4>2, Zenon
      <3> QED
        BY <3>1, <3>2
    <2> QED
      BY <2>2
  <1>12. Carry(o)[0] - 38 * c \in 0 .. (RADIX - 1)
    <2>1. w[Top][0] \in 0 .. (RADIX - 1)
      BY <1>0, <1>6
    <2>2. Carry(o)[0] = w[Top][0] + 38 * c
      BY <1>9, <1>10, Zenon
    <2> QED
      BY <1>0, <2>1, <2>2
  <1>13. Value(Carry(o)) = Value(o) - (Unit[LIMBS] - 38) * c
    BY <1>6, <1>9, <1>10, Zenon
  <1>14. Unit[LIMBS] * c <= Value(o) /\ Value(o) < Unit[LIMBS] * c + Unit[LIMBS]
    <2>1. PICK s : AreParts(s, w[Top]) /\ Value(w[Top]) = s[LIMBS]
      BY <1>7, ValueDefined
    <2>2. s[Top] \in 0 .. (Unit[Top] - 1)
      <3>1. Top \in 0 .. LIMBS /\ Top \in 0 .. Top
        BY <1>0
      <3> QED
        BY <1>6, <1>7, <2>1, <3>1, DigitsBelow
    <2>3. PICK x \in Int : x = w[Top][Top]
      BY <1>7
    <2>4. PICK d \in 0 .. (RADIX - 1) : x = RADIX * c + d
      BY <1>0, <1>8, <2>3, Quotient
    <2>5. PICK u \in Nat \ {0} : u = Unit[Top]
      BY <1>0, UnitDefined
    <2>6. Unit[LIMBS] = RADIX * u
      BY <1>0, <2>5, UnitDefined
    <2>7. s[LIMBS] = s[Top] + x * u
      BY <1>0, <2>1, <2>3, <2>5 DEF AreParts
    <2>8. PICK p \in 0 .. (u - 1) : p = s[Top]
      BY <2>2, <2>5
    <2>9. PICK y \in 0 .. (RADIX * u - 1) : y = p + d * u
      BY <1>0, DigitStep
    <2>10. x * u = (RADIX * u) * c + d * u
      BY <1>0, <2>4
    <2>11. PICK q \in Nat : q = RADIX * u
      BY <1>0
    <2>12. PICK g \in Int : g = q * c
      BY <2>11
    <2>13. PICK h \in Int : h = d * u
      BY <1>0
    <2>14. Value(o) = p + (g + h)
      <3>1. x * u = g + h
        BY <2>10, <2>11, <2>12, <2>13, Zenon
      <3> QED
        BY <1>6, <2>1, <2>7, <2>8, <3>1, Zenon
    <2>15. y = p + h /\ 0 <= y /\ y < q
      BY <2>9, <2>11, <2>13
    <2>16. g <= Value(o) /\ Value(o) < g + q
      BY <2>8, <2>14, <2>15
    <2> QED
      BY <2>6, <2>11, <2>12, <2>16, Zenon
  <1>15. Carry(o) \in [Places -> Int]
    BY <1>9, <1>10, Zenon
  <1> QED
    BY <1>11, <1>12, <1>13, <1>14, <1>15 DEF CarriesBy

-----------------------------------------------------------------------------
(* Packing.                                                                *)

LEMMA QuotientWithin ==
  ASSUME NEW q \in Nat \ {0}, NEW c \in Int, NEW v \in Int,
         q * c <= v, v < q * c + q,
         NEW lo \in Int, NEW hi \in Int, q * lo <= v, v < q * hi
  PROVE  lo <= c /\ c < hi
  <1>1. c < hi
    <2> SUFFICES ASSUME c >= hi PROVE FALSE
      OBVIOUS
    <2>1. q * (c - hi) >= 0
      OBVIOUS
    <2>2. q * (c - hi) = q * c - q * hi
      OBVIOUS
    <2> QED
      BY <2>1, <2>2
  <1>2. lo <= c
    <2> SUFFICES ASSUME c <= lo - 1 PROVE FALSE
      OBVIOUS
    <2>1. q * (lo - 1 - c) >= 0
      OBVIOUS
    <2>2. q * (lo - 1 - c) = q * lo - q - q * c
      OBVIOUS
    <2> QED
      BY <2>1, <2>2
  <1> QED
    BY <1>1, <1>2

LEMMA HalfRadix ==
  \E h \in Nat : RADIX = 2 * h /\ RADIX \div 2 = h
  <1>1. RADIX \in Nat /\ RADIX \in Int /\ 2 \in Nat \ {0}
    BY Sizes
  <1>2. PICK h \in Nat : h = RADIX \div 2
    BY <1>1
  <1>3. RADIX = 2 * (RADIX \div 2) + (RADIX % 2)
    BY <1>1, Quotient
  <1>4. RADIX = 2 * h + 0
    BY <1>2, <1>3, Sizes, Zenon
  <1>5. RADIX = 2 * h
    BY <1>4
  <1> QED
    BY <1>2, <1>5

LEMMA PrimeSize ==
  /\ Unit[LIMBS] \in Nat /\ Unit[LIMBS] >= 65536
  /\ P \in Nat /\ 2 * P + 38 = Unit[LIMBS] /\ P > 1000
  <1>0. LIMBS \in Nat /\ LIMBS >= 2 /\ RADIX \in Nat /\ RADIX >= 256 /\ RADIX % 2 = 0
        /\ Top \in Nat /\ Top >= 1 /\ Top + 1 = LIMBS
    BY Sizes
  <1>1. PICK h \in Nat : RADIX = 2 * h
    BY HalfRadix
  <1>2. PICK u \in Nat \ {0} : u = Unit[Top]
    BY <1>0, UnitDefined
  <1>3. Unit[LIMBS] = RADIX * u
    <2>1. Top \in 0 .. (LIMBS - 1)
      BY <1>0
    <2>2. Unit[Top + 1] = RADIX * Unit[Top]
      BY <2>1, UnitDefined, Zenon
    <2> QED
      BY <1>0, <1>2, <2>2, Zenon
  <1>4. u >= 256
    <2>1. PICK y \in Nat \ {0} : y = Unit[Top - 1]
      BY <1>0, UnitDefined
    <2>2. Top - 1 \in 0 .. (LIMBS - 1) /\ (Top - 1) + 1 = Top
      BY <1>0
    <2>3. Unit[(Top - 1) + 1] = RADIX * Unit[Top - 1]
      BY <2>2, UnitDefined
    <2>4. u = RADIX * y
      BY <1>2, <2>1, <2>2, <2>3, Zenon
    <2>5. RADIX * y >= RADIX
      BY <1>0
    <2> QED
      BY <1>0, <2>4, <2>5
  <1>5. RADIX * u \in Nat /\ RADIX * u >= 65536
    <2>1. (RADIX - 256) * (u - 256) >= 0
      BY <1>0, <1>4
    <2>2. (RADIX - 256) * (u - 256) = RADIX * u - 256 * u - 256 * RADIX + 65536
      BY <1>0
    <2>3. RADIX * u \in Nat
      BY <1>0
    <2> QED
      BY <1>0, <1>4, <2>1, <2>2, <2>3
  <1>6. RADIX * u = 2 * (h * u)
    BY <1>1
  <1>7. PICK g \in Nat : g = h * u
    BY <1>1
  <1>8. Unit[LIMBS] = 2 * g /\ Unit[LIMBS] >= 65536
    BY <1>3, <1>5, <1>6, <1>7
  <1>9. P = g - 19
    BY <1>8 DEF P
  <1> QED
    BY <1>8, <1>9

(* After three carries limbs that are at most twice too large are digits.  *)
LEMMA DigitsValue ==
  ASSUME NEW a \in [Places -> 0 .. (RADIX - 1)]
  PROVE  a \in [Places -> Int] /\ Value(a) \in 0 .. (Unit[LIMBS] - 1)
  <1>0. LIMBS \in Nat /\ RADIX \in Nat /\ Places = 0 .. (LIMBS - 1) /\ LIMBS \in 0 .. LIMBS
    BY Sizes
  <1>1. a \in [Places -> Int]
    BY <1>0
  <1>2. PICK s : AreParts(s, a) /\ Value(a) = s[LIMBS]
    BY <1>1, ValueDefined
  <1>3. \A k \in 0 .. (LIMBS - 1) : a[k] \in 0 .. (RADIX - 1)
    BY <1>0
  <1>4. s[LIMBS] \in 0 .. (Unit[LIMBS] - 1)
    BY <1>0, <1>1, <1>2, <1>3, DigitsBelow
  <1> QED
    BY <1>1, <1>2, <1>4

LEMMA ThreeCarries ==
  ASSUME NEW a \in [Places -> Int],
         \A k \in Places : a[k] <= 4 * RADIX /\ -(4 * RADIX) <= a[k]
  PROVE  /\ Carry(Carry(Carry(a))) \in [Places -> 0 .. (RADIX - 1)]
         /\ \E z \in Int : Value(Carry(Carry(Carry(a)))) = Value(a) + P * z
  <1>0. LIMBS \in Nat /\ RADIX \in Nat /\ RADIX >= 256
    BY Sizes
  <1>q. PICK q \in Nat \ {0} : q = Unit[LIMBS]
    BY PrimeSize
  <1>1. q >= 65536 /\ q - 38 = 2 * P
    BY <1>q, PrimeSize
  <1>2. PICK v \in Int : v = Value(a)
    BY ValueDefined
  <1>3. q * (-5) <= v /\ v < q * 5
    <2>1. PICK m \in Nat : m = 4 * RADIX
      BY <1>0
    <2>2. \A k \in Places : a[k] <= m /\ -m <= a[k]
      BY <2>1, Zenon
    <2>3. (RADIX - 1) * v <= m * (q - 1) /\ -(m * (q - 1)) <= (RADIX - 1) * v
      BY <1>q, <1>2, <2>2, ValueSize, Zenon
    <2>4. PICK f \in Nat \ {0} : f = RADIX - 1 /\ f >= 255
      BY <1>0
    <2>5. m * (q - 1) < f * (q * 5)
      <3>1. m = 4 * f + 4
        BY <2>1, <2>4, <1>0
      <3>2. PICK y \in Int : y = f * q
        BY <1>1, <2>4
      <3>3. m * (q - 1) = 4 * y + 4 * q - m
        BY <3>1, <3>2
      <3>4. y >= 255 * q
        BY <2>4, <3>2
      <3>5. f * (q * 5) = 5 * y
        BY <3>2
      <3> QED
        BY <1>1, <2>1, <3>3, <3>4, <3>5
    <2>6. f * v < f * (q * 5)
      BY <2>3, <2>4, <2>5
    <2>7. -(f * (q * 5)) < f * v
      BY <2>3, <2>4, <2>5
    <2>8. PICK y \in Int : y = q * 5
      BY <1>1
    <2>9. v < y
      <3> SUFFICES ASSUME v >= y PROVE FALSE
        OBVIOUS
      <3>1. f * (v - y) >= 0 /\ f * (v - y) = f * v - f * y
        OBVIOUS
      <3> QED
        BY <2>6, <2>8, <3>1
    <2>10. -y < v
      <3> SUFFICES ASSUME v <= -y PROVE FALSE
        OBVIOUS
      <3>1. f * (-y - v) >= 0 /\ f * (-y - v) = -(f * y) - f * v
        OBVIOUS
      <3> QED
        BY <2>7, <2>8, <3>1
    <2>11. q * (-5) = -y
      BY <2>8
    <2> QED
      BY <2>8, <2>9, <2>10, <2>11
  <1>4. PICK c1 \in Int : CarriesBy(a, c1)
    BY Carried
  <1>5. -5 <= c1 /\ c1 < 5
    <2>1. q * c1 <= v /\ v < q * c1 + q
      BY <1>q, <1>2, <1>4 DEF CarriesBy
    <2> QED
      BY <1>3, <2>1, QuotientWithin
  <1> DEFINE a1 == Carry(a)
             a2 == Carry(a1)
             a3 == Carry(a2)
  <1>6. a1 \in [Places -> Int]
    BY <1>4 DEF CarriesBy
  <1>7. PICK v1 \in Int : v1 = Value(a1)
    BY <1>6, ValueDefined
  <1>8. v1 = v - (q - 38) * c1 /\ -190 <= v1 /\ v1 < q + 152
    <2>1. v1 = v - (q - 38) * c1
      BY <1>q, <1>2, <1>4, <1>7, Zenon DEF CarriesBy
    <2>2. q * c1 <= v /\ v < q * c1 + q
      BY <1>q, <1>2, <1>4 DEF CarriesBy
    <2>3. (q - 38) * c1 = q * c1 - 38 * c1
      BY <1>1
    <2>4. PICK g \in Int : g = q * c1
      BY <1>1
    <2>5. v1 = v - (g - 38 * c1)
      BY <2>1, <2>3, <2>4, Zenon
    <2>6. -190 <= v1 /\ v1 < q + 152
      BY <1>1, <1>5, <2>2, <2>4, <2>5
    <2> QED
      BY <2>1, <2>6
  <1> HIDE DEF a1
  <1>9. PICK c2 \in Int : CarriesBy(a1, c2)
    BY <1>6, Carried
  <1>10. c2 \in {-1, 0, 1}
    <2>1. q * c2 <= v1 /\ v1 < q * c2 + q
      BY <1>q, <1>7, <1>9 DEF CarriesBy
    <2>2. q * (-1) = -q /\ q * 2 = q + q
      BY <1>1
    <2>3. q * (-1) <= v1 /\ v1 < q * 2
      BY <1>1, <1>8, <2>2
    <2>4. -1 <= c2 /\ c2 < 2
      BY <2>1, <2>3, QuotientWithin
    <2> QED
      BY <2>4
  <1>11. a2 \in [Places -> Int]
    BY <1>9 DEF CarriesBy
  <1>12. PICK v2 \in Int : v2 = Value(a2)
    BY <1>11, ValueDefined
  <1>13. v2 = v1 - (q - 38) * c2 /\ 0 <= v2 /\ v2 < q
    <2>1. v2 = v1 - (q - 38) * c2
      BY <1>q, <1>7, <1>9, <1>12, Zenon DEF CarriesBy
    <2>2. q * c2 <= v1 /\ v1 < q * c2 + q
      BY <1>q, <1>7, <1>9 DEF CarriesBy
    <2>3. CASE c2 = -1
      BY <1>1, <1>8, <2>1, <2>2, <2>3
    <2>4. CASE c2 = 0
      BY <1>1, <1>8, <2>1, <2>2, <2>4
    <2>5. CASE c2 = 1
      BY <1>1, <1>8, <2>1, <2>2, <2>5
    <2> QED
      BY <1>10, <2>1, <2>3, <2>4, <2>5
  <1> HIDE DEF a2
  <1>14. PICK c3 \in Int : CarriesBy(a2, c3)
    BY <1>11, Carried
  <1>15. c3 = 0
    <2>1. q * c3 <= v2 /\ v2 < q * c3 + q
      BY <1>q, <1>12, <1>14 DEF CarriesBy
    <2>2. q * 0 = 0 /\ q * 1 = q
      BY <1>1
    <2>3. q * 0 <= v2 /\ v2 < q * 1
      BY <1>13, <2>2
    <2>4. 0 <= c3 /\ c3 < 1
      BY <2>1, <2>3, QuotientWithin
    <2> QED
      BY <2>4
  <1>16. a3 \in [Places -> 0 .. (RADIX - 1)]
    <2>1. a3 \in [Places -> Int] /\ \A k \in Places \ {0} : a3[k] \in 0 .. (RADIX - 1)
      BY <1>14, Zenon DEF CarriesBy
    <2>2. a3[0] - 38 * 0 \in 0 .. (RADIX - 1)
      BY <1>14, <1>15, Zenon DEF CarriesBy
    <2>3. a3[0] \in Int
      BY <2>1, Sizes
    <2> HIDE DEF a3
    <2>4. a3[0] \in 0 .. (RADIX - 1)
      BY <1>0, <2>2, <2>3
    <2>5. \A k \in Places : a3[k] \in 0 .. (RADIX - 1)
      BY <2>1, <2>4, Zenon
    <2> QED
      BY <2>1, <2>5
  <1>17. Value(a3) = v2
    <2>1. Value(a3) = v2 - (q - 38) * 0
      BY <1>q, <1>12, <1>14, <1>15, Zenon DEF CarriesBy
    <2> HIDE DEF a3
    <2>2. v2 - (q - 38) * 0 = v2
      BY <1>1
    <2> QED
      BY <2>1, <2>2, Zenon
  <1>18. PICK z \in Int : z = -(2 * c1 + 2 * c2)
    OBVIOUS
  <1>19. v2 = v + P * z
    <2>1. PICK p \in Nat : p = P
      BY PrimeSize
    <2>2. (q - 38) * c1 = p * (2 * c1) /\ (q - 38) * c2 = p * (2 * c2)
      <3>1. q - 38 = 2 * p
        BY <1>1, <2>1
      <3>2. \A x \in Int : (2 * p) * x = p * (2 * x)
        OBVIOUS
      <3> QED
        BY <3>1, <3>2, Zenon
    <2>3. PICK g \in Int : g = p * (2 * c1)
      OBVIOUS
    <2>4. PICK h \in Int : h = p * (2 * c2)
      OBVIOUS
    <2>5. p * z = -(g + h)
      BY <1>18, <2>3, <2>4
    <2>6. v1 = v - g /\ v2 = v1 - h
      BY <1>8, <1>13, <2>2, <2>3, <2>4, Zenon
    <2>7. v2 = v + p * z
      BY <2>5, <2>6
    <2> QED
      BY <2>1, <2>7, Zenon
  <1>20. Value(a3) = Value(a) + P * z
    BY <1>2, <1>17, <1>19, Zenon
  <1> QED
    BY <1>16, <1>20, Zenon DEF a2, a1

LEMMA PrimeDigits ==
  [k \in Places |-> Prime(k)] \in [Places -> 0 .. (RADIX - 1)]
  <1>0. RADIX \in Nat /\ RADIX >= 256
    BY Sizes
  <1>1. RADIX - 19 \in 0 .. (RADIX - 1) /\ RADIX - 1 \in 0 .. (RADIX - 1)
        /\ RADIX \div 2 - 1 \in 0 .. (RADIX - 1)
    BY <1>0
  <1>2. ASSUME NEW k \in Places PROVE Prime(k) \in 0 .. (RADIX - 1)
    BY <1>1, Zenon DEF Prime
  <1> QED
    BY <1>2

LEMMA PrimeValue ==
  Value([k \in Places |-> Prime(k)]) = P
  <1> DEFINE a == [k \in Places |-> Prime(k)]
  <1>0. LIMBS \in Nat /\ LIMBS >= 2 /\ RADIX \in Nat /\ RADIX >= 256 /\ RADIX % 2 = 0
        /\ Places = 0 .. (LIMBS - 1) /\ Top \in Nat /\ Top >= 1 /\ Top + 1 = LIMBS
    BY Sizes
  <1>1. /\ a \in [Places -> Int]
        /\ \A k \in 0 .. (LIMBS - 1) : a[k] = Prime(k)
    <2>1. a \in [Places -> Int]
      BY <1>0, PrimeDigits
    <2> QED
      BY <1>0, <2>1
  <1> HIDE DEF a
  <1>2. PICK y : AreParts(y, a) /\ Value(a) = y[LIMBS]
    BY <1>1, ValueDefined
  <1>3. /\ Prime(0) = RADIX - 19
        /\ Prime(Top) = RADIX \div 2 - 1
        /\ \A k \in 1 .. (Top - 1) : Prime(k) = RADIX - 1
    BY <1>0 DEF Prime
  <1> DEFINE T == {k \in 0 .. LIMBS : k + 1 <= Top => y[k + 1] = Unit[k + 1] - 19}
  <1>4. 0 \in T
    <2>1. y[0 + 1] = y[0] + a[0] * Unit[0] /\ Unit[0 + 1] = RADIX * Unit[0]
      <3>1. 0 \in 0 .. (LIMBS - 1)
        BY <1>0
      <3> QED
        BY <1>2, <3>1, UnitDefined, Zenon DEF AreParts
    <2>2. y[0] = 0 /\ Unit[0] = 1 /\ a[0] = RADIX - 19
      <3>1. 0 \in 0 .. (LIMBS - 1)
        BY <1>0
      <3>2. a[0] = RADIX - 19
        BY <1>1, <1>3, <3>1, Zenon
      <3> QED
        BY <1>2, <3>2, UnitDefined, Zenon DEF AreParts
    <2>3. y[0 + 1] = 0 + (RADIX - 19) * 1 /\ Unit[0 + 1] = RADIX * 1
      BY <2>1, <2>2, Zenon
    <2>4. y[0 + 1] = Unit[0 + 1] - 19
      BY <1>0, <2>3
    <2> QED
      BY <1>0, <2>4
  <1>5. ASSUME NEW k \in 0 .. (LIMBS - 1), k \in T PROVE k + 1 \in T
    <2> SUFFICES ASSUME (k + 1) + 1 <= Top
                 PROVE  y[(k + 1) + 1] = Unit[(k + 1) + 1] - 19
      BY <1>0
    <2>1. PICK j \in 1 .. (Top - 1) : j = k + 1
      BY <1>0
    <2>2. j \in 0 .. (LIMBS - 1) /\ j \in 0 .. LIMBS
      BY <1>0
    <2>3. y[j + 1] = y[j] + a[j] * Unit[j] /\ Unit[j + 1] = RADIX * Unit[j]
      BY <1>2, <2>2, UnitDefined DEF AreParts
    <2>4. PICK u \in Nat : u = Unit[j]
      BY <2>2, UnitDefined
    <2>5. y[j] = u - 19
      BY <1>0, <1>5, <2>1, <2>4
    <2>6. a[j] = RADIX - 1
      BY <1>1, <1>3, <2>2
    <2>7. y[j + 1] = (u - 19) + (RADIX - 1) * u /\ Unit[j + 1] = RADIX * u
      BY <2>3, <2>4, <2>5, <2>6, Zenon
    <2>8. (u - 19) + (RADIX - 1) * u = RADIX * u - 19
      BY <1>0
    <2> QED
      BY <2>1, <2>7, <2>8, Zenon
  <1> HIDE DEF T
  <1>6. \A k \in 0 .. LIMBS : k \in T
    BY <1>0, <1>4, <1>5, InductionTo
  <1>7. y[Top] = Unit[Top] - 19
    <2>1. PICK k \in 0 .. LIMBS : k + 1 = Top
      BY <1>0
    <2>2. k \in T
      BY <1>6
    <2>3. y[k + 1] = Unit[k + 1] - 19
      BY <1>0, <2>1, <2>2 DEF T
    <2> QED
      BY <2>1, <2>3, Zenon
  <1>8. Top \in 0 .. (LIMBS - 1) /\ Top \in 0 .. LIMBS
    BY <1>0
  <1>9. y[Top + 1] = y[Top] + a[Top] * Unit[Top] /\ Unit[Top + 1] = RADIX * Unit[Top]
    BY <1>2, <1>8, UnitDefined DEF AreParts
  <1>10. PICK u \in Nat : u = Unit[Top]
    BY <1>8, UnitDefined
  <1>11. PICK h \in Nat : RADIX = 2 * h /\ RADIX \div 2 = h
    BY HalfRadix
  <1>12. y[LIMBS] = (u - 19) + (h - 1) * u
    <2>1. a[Top] = h - 1
      BY <1>1, <1>3, <1>8, <1>11, Zenon
    <2> QED
      BY <1>0, <1>7, <1>9, <1>10, <2>1, Zenon
  <1>13. PICK g \in Nat : g = h * u
    BY <1>10
  <1>14. y[LIMBS] = g - 19
    <2>1. (u - 19) + (h - 1) * u = h * u - 19
      BY <1>10
    <2> QED
      BY <1>12, <1>13, <2>1, Zenon
  <1>15. Unit[LIMBS] = 2 * g
    <2>1. Unit[LIMBS] = (2 * h) * u
      BY <1>0, <1>9, <1>10, <1>11, Zenon
    <2>2. (2 * h) * u = 2 * (h * u)
      BY <1>10
    <2> QED
      BY <1>13, <2>1, <2>2, Zenon
  <1>16. 2 * P + 38 = Unit[LIMBS] /\ P \in Nat
    BY PrimeSize
  <1>17. P = g - 19
    BY <1>15, <1>16
  <1> QED
    BY <1>2, <1>14, <1>17, Zenon DEF a

LEMMA BorrowIs ==
  ASSUME NEW x \in -RADIX .. (RADIX - 1)
  PROVE  /\ Borrow(x) \in {0, 1}
         /\ x % RADIX \in 0 .. (RADIX - 1)
         /\ x = (x % RADIX) - RADIX * Borrow(x)
         /\ Borrow(x) = 0 => x % RADIX = x
  <1>0. RADIX \in Nat \ {0}
    BY Sizes
  <1>1. x \in Int /\ x \div RADIX \in Int
    BY <1>0
  <1>2. PICK e \in Int, f \in 0 .. (RADIX - 1) :
          e = x \div RADIX /\ f = x % RADIX /\ x = RADIX * e + f
    BY <1>0, <1>1, Quotient
  <1>3. RADIX * (-1) <= x /\ x < RADIX * 1
    BY <1>0
  <1>4. RADIX * e <= x /\ x < RADIX * e + RADIX
    <2>1. PICK g \in Int : g = RADIX * e
      BY <1>0
    <2> QED
      BY <1>0, <1>2, <2>1
  <1>5. -1 <= e /\ e < 1
    BY <1>0, <1>1, <1>3, <1>4, QuotientWithin
  <1>6. CASE e = 0
    <2>1. Borrow(x) = 0
      BY <1>2, <1>6 DEF Borrow
    <2> QED
      BY <1>0, <1>2, <1>6, <2>1
  <1>7. CASE e = -1
    <2>1. Borrow(x) = 1
      BY <1>2, <1>7 DEF Borrow
    <2> QED
      BY <1>0, <1>2, <1>7, <2>1
  <1> QED
    BY <1>5, <1>6, <1>7

LEMMA BorrowsDefined ==
  ASSUME NEW t \in [Places -> 0 .. (RADIX - 1)]
  PROVE  \E m \in [Places -> -RADIX .. (RADIX - 1)] :
           /\ m[0] = t[0] - Prime(0)
           /\ \A k \in 0 .. (Top - 1) : m[k + 1] = t[k + 1] - Prime(k + 1) - Borrow(m[k])
           /\ Reduced(t) = IF Borrow(m[Top]) = 1 THEN t
                           ELSE [k \in Places |-> IF k = Top THEN m[k] ELSE m[k] % RADIX]
  <1> DEFINE X == -RADIX .. (RADIX - 1)
             Step(s) == [k \in Places |->
                           t[k] - Prime(k) - (IF k = 0 THEN 0 ELSE Borrow(s[k - 1]))]
             F == [x \in X \X (0 .. (Top - 1)) |->
                     t[x[2] + 1] - Prime(x[2] + 1) - Borrow(x[1])]
             u == CHOOSE s : s = Step(s)
             first == t[0] - Prime(0)
  <1>0. /\ RADIX \in Nat /\ RADIX >= 256 /\ Top \in Nat /\ Top >= 1 /\ Places = 0 .. Top
    BY Sizes
  <1>1. \A k \in Places : t[k] \in 0 .. (RADIX - 1) /\ Prime(k) \in 0 .. (RADIX - 1)
    <2>1. \A k \in Places : [j \in Places |-> Prime(j)][k] \in 0 .. (RADIX - 1)
      BY PrimeDigits, Zenon
    <2> QED
      BY <2>1
  <1>2. first \in X /\ first - 0 = first
    <2>1. t[0] \in 0 .. (RADIX - 1) /\ Prime(0) \in 0 .. (RADIX - 1)
      BY <1>0, <1>1
    <2> QED
      BY <1>0, <2>1
  <1>3. ASSUME NEW x \in X, NEW k \in 0 .. (Top - 1)
        PROVE  t[k + 1] - Prime(k + 1) - Borrow(x) \in X
    <2>1. Borrow(x) \in {0, 1}
      BY BorrowIs
    <2>2. t[k + 1] \in 0 .. (RADIX - 1) /\ Prime(k + 1) \in 0 .. (RADIX - 1)
      BY <1>0, <1>1
    <2> QED
      BY <1>0, <2>1, <2>2
  <1> HIDE DEF first, X
  <1>4. F \in [X \X (0 .. (Top - 1)) -> X]
    BY <1>3
  <1>5. \A x \in X, k \in 0 .. (Top - 1) :
          F[<<x, k>>] = t[k + 1] - Prime(k + 1) - Borrow(x)
    OBVIOUS
  <1> HIDE DEF F
  <1>6. PICK w \in [0 .. Top -> X] : Follows(w, F, first, Top)
    BY <1>0, <1>2, <1>4, RecursionExists, Zenon
  <1>7. \A k \in Places :
          w[k] = t[k] - Prime(k) - (IF k = 0 THEN 0 ELSE Borrow(w[k - 1]))
    <2>1. w[0] = t[0] - Prime(0) - 0
      BY <1>2, <1>6, Zenon DEF Follows, first
    <2>2. ASSUME NEW k \in Places, k # 0
          PROVE  w[k] = t[k] - Prime(k) - Borrow(w[k - 1])
      <3>1. PICK j \in 0 .. (Top - 1) : j + 1 = k /\ j = k - 1
        BY <1>0, <2>2
      <3>2. w[j + 1] = F[<<w[j], j>>]
        BY <1>6, Zenon DEF Follows
      <3>3. w[j] \in X
        BY <1>0, <1>6
      <3>4. w[j + 1] = t[j + 1] - Prime(j + 1) - Borrow(w[j])
        BY <1>5, <3>2, <3>3, Zenon
      <3> QED
        BY <3>1, <3>4, Zenon
    <2> QED
      BY <2>1, <2>2, Zenon
  <1>8. w = Step(w)
    BY <1>0, <1>7
  <1>9. u = Step(u)
    BY <1>8, Zenon
  <1>10. Reduced(t) = IF Borrow(u[Top]) = 1 THEN t
                      ELSE [k \in Places |-> IF k = Top THEN u[k] ELSE u[k] % RADIX]
    BY Zenon DEF Reduced
  <1> HIDE DEF u
  <1>11. \A k \in Places :
           u[k] = t[k] - Prime(k) - (IF k = 0 THEN 0 ELSE Borrow(u[k - 1]))
    BY <1>9, Zenon
  <1>12. u = [k \in Places |-> u[k]]
    BY <1>9, Zenon
  <1> HIDE DEF Step
  <1>13. u[0] = first
    <2>1. 0 \in Places
      BY <1>0
    <2>2. u[0] = t[0] - Prime(0) - 0
      BY <1>11, <2>1, Zenon
    <2> QED
      BY <1>2, <2>2, Zenon DEF first
  <1>14. ASSUME NEW k \in 0 .. (Top - 1)
         PROVE  u[k + 1] = t[k + 1] - Prime(k + 1) - Borrow(u[k])
    <2>1. k + 1 \in Places /\ k + 1 # 0 /\ (k + 1) - 1 = k
      BY <1>0
    <2> QED
      BY <1>11, <2>1, Zenon
  <1>15. \A k \in 0 .. Top : u[k] \in X
    <2>1. ASSUME NEW k \in 0 .. (Top - 1), u[k] \in X PROVE u[k + 1] \in X
      BY <1>3, <1>14, <2>1, Zenon
    <2>2. u[0] \in X
      BY <1>2, <1>13, Zenon
    <2> QED
      BY <1>0, <2>1, <2>2, StaysIn
  <1>16. u \in [Places -> X]
    BY <1>0, <1>12, <1>15, Zenon
  <1> QED
    BY <1>10, <1>13, <1>14, <1>16, Zenon DEF X, first

(* A subtraction brings a number of at least the prime down by it.         *)
LEMMA ReducedValue ==
  ASSUME NEW t \in [Places -> 0 .. (RADIX - 1)]
  PROVE  /\ Reduced(t) \in [Places -> 0 .. (RADIX - 1)]
         /\ Value(Reduced(t)) = IF Value(t) < P THEN Value(t) ELSE Value(t) - P
  <1> DEFINE p == [k \in Places |-> Prime(k)]
  <1>0. /\ LIMBS \in Nat /\ RADIX \in Nat /\ RADIX >= 256 /\ Top \in Nat /\ Top >= 1
        /\ Top + 1 = LIMBS /\ Places = 0 .. Top /\ Places = 0 .. (LIMBS - 1)
    BY Sizes
  <1>1. PICK m \in [Places -> -RADIX .. (RADIX - 1)] :
          /\ m[0] = t[0] - Prime(0)
          /\ \A k \in 0 .. (Top - 1) : m[k + 1] = t[k + 1] - Prime(k + 1) - Borrow(m[k])
          /\ Reduced(t) = IF Borrow(m[Top]) = 1 THEN t
                          ELSE [k \in Places |-> IF k = Top THEN m[k] ELSE m[k] % RADIX]
    BY BorrowsDefined
  <1>2. ASSUME NEW k \in Places
        PROVE  /\ Borrow(m[k]) \in {0, 1}
               /\ m[k] % RADIX \in 0 .. (RADIX - 1)
               /\ m[k] = (m[k] % RADIX) - RADIX * Borrow(m[k])
               /\ Borrow(m[k]) = 0 => m[k] % RADIX = m[k]
    <2>1. m[k] \in -RADIX .. (RADIX - 1)
      OBVIOUS
    <2> QED
      BY <2>1, BorrowIs
  <1> DEFINE d == [k \in Places |-> m[k] % RADIX]
  <1>3. d \in [Places -> 0 .. (RADIX - 1)] /\ \A k \in Places : d[k] = m[k] % RADIX
    BY <1>2
  <1>4. p \in [Places -> 0 .. (RADIX - 1)] /\ \A k \in Places : p[k] = Prime(k)
    BY PrimeDigits
  <1>5. Value(p) = P
    BY PrimeValue, Zenon
  <1> HIDE DEF d, p
  <1>6. t \in [Places -> Int] /\ d \in [Places -> Int] /\ p \in [Places -> Int]
        /\ Value(t) \in 0 .. (Unit[LIMBS] - 1) /\ Value(d) \in 0 .. (Unit[LIMBS] - 1)
    BY <1>3, <1>4, DigitsValue
  <1>7. PICK s : AreParts(s, t) /\ Value(t) = s[LIMBS]
    BY <1>6, ValueDefined
  <1>8. PICK z : AreParts(z, d) /\ Value(d) = z[LIMBS]
    BY <1>6, ValueDefined
  <1>9. PICK y : AreParts(y, p) /\ Value(p) = y[LIMBS]
    BY <1>6, ValueDefined
  <1> DEFINE T == {k \in 0 .. Top : s[k + 1] - y[k + 1] = z[k + 1] - Borrow(m[k]) * Unit[k + 1]}
  <1>10. 0 \in T
    <2>1. 0 \in 0 .. (LIMBS - 1) /\ 0 \in Places
      BY <1>0
    <2>2. s[0] = 0 /\ z[0] = 0 /\ y[0] = 0 /\ Unit[0] = 1
      BY <1>7, <1>8, <1>9, UnitDefined, Zenon DEF AreParts
    <2>3. /\ s[0 + 1] = s[0] + t[0] * Unit[0] /\ z[0 + 1] = z[0] + d[0] * Unit[0]
          /\ y[0 + 1] = y[0] + p[0] * Unit[0] /\ Unit[0 + 1] = RADIX * Unit[0]
      BY <1>7, <1>8, <1>9, <2>1, UnitDefined, Zenon DEF AreParts
    <2>4. PICK t0 \in Int : t0 = t[0]
      BY <1>6, <2>1
    <2>5. PICK d0 \in Int : d0 = d[0]
      BY <1>6, <2>1
    <2>6. PICK p0 \in Int : p0 = p[0]
      BY <1>6, <2>1
    <2>7. PICK b \in {0, 1} : b = Borrow(m[0])
      BY <1>2, <2>1
    <2>8. t0 - p0 = d0 - RADIX * b
      BY <1>1, <1>2, <1>3, <1>4, <2>1, <2>4, <2>5, <2>6, <2>7, Zenon
    <2>9. /\ s[0 + 1] = 0 + t0 * 1 /\ z[0 + 1] = 0 + d0 * 1
          /\ y[0 + 1] = 0 + p0 * 1 /\ Unit[0 + 1] = RADIX * 1
      BY <2>2, <2>3, <2>4, <2>5, <2>6, Zenon
    <2>10. s[0 + 1] - y[0 + 1] = z[0 + 1] - b * Unit[0 + 1]
      BY <1>0, <2>8, <2>9
    <2> QED
      BY <1>0, <2>7, <2>10
  <1>11. ASSUME NEW k \in 0 .. (Top - 1), k \in T PROVE k + 1 \in T
    <2>1. PICK j \in 0 .. Top : j = k + 1
      BY <1>0
    <2>2. k \in Places /\ j \in Places /\ j \in 0 .. (LIMBS - 1) /\ j \in 0 .. LIMBS
      BY <1>0
    <2>3. /\ s[j + 1] = s[j] + t[j] * Unit[j] /\ z[j + 1] = z[j] + d[j] * Unit[j]
          /\ y[j + 1] = y[j] + p[j] * Unit[j] /\ Unit[j + 1] = RADIX * Unit[j]
      BY <1>7, <1>8, <1>9, <2>2, UnitDefined, Zenon DEF AreParts
    <2>4. PICK tj \in Int : tj = t[j]
      BY <1>6, <2>2
    <2>5. PICK dj \in Int : dj = d[j]
      BY <1>6, <2>2
    <2>6. PICK pj \in Int : pj = p[j]
      BY <1>6, <2>2
    <2>7. PICK b \in {0, 1} : b = Borrow(m[k])
      BY <1>2, <2>2
    <2>8. PICK c \in {0, 1} : c = Borrow(m[j])
      BY <1>2, <2>2
    <2>9. PICK u \in Int : u = Unit[j]
      BY <2>2, UnitDefined
    <2>10. s[j] \in Int /\ y[j] \in Int /\ z[j] \in Int
      BY <1>7, <1>8, <1>9, <2>2 DEF AreParts
    <2>11. tj - pj - b = dj - RADIX * c
      <3>1. m[j] = t[j] - Prime(j) - Borrow(m[k])
        BY <1>1, <2>1, Zenon
      <3>2. m[j] = d[j] - RADIX * Borrow(m[j])
        BY <1>2, <1>3, <2>2, Zenon
      <3> QED
        BY <1>4, <2>2, <2>4, <2>5, <2>6, <2>7, <2>8, <3>1, <3>2, Zenon
    <2>12. s[j] - y[j] = z[j] - b * u
      <3>1. s[k + 1] - y[k + 1] = z[k + 1] - Borrow(m[k]) * Unit[k + 1]
        BY <1>11
      <3> QED
        BY <2>1, <2>7, <2>9, <3>1, Zenon
    <2>13. (tj - pj - b) * u = (dj - RADIX * c) * u
      BY <2>11, Zenon
    <2>14. tj * u - pj * u - b * u = dj * u - c * (RADIX * u)
      <3>1. (tj - pj - b) * u = tj * u - pj * u - b * u
        <4>1. b \in Int
          OBVIOUS
        <4> HIDE <2>7
        <4> QED
          BY <4>1
      <3>2. (dj - RADIX * c) * u = dj * u - c * (RADIX * u)
        <4>1. c \in Int
          OBVIOUS
        <4> QED
          BY <1>0, <4>1
      <3> QED
        BY <2>13, <3>1, <3>2, Zenon
    <2>15. PICK e1 \in Int : e1 = tj * u
      OBVIOUS
    <2>16. PICK e2 \in Int : e2 = pj * u
      OBVIOUS
    <2>17. PICK e3 \in Int : e3 = dj * u
      OBVIOUS
    <2>18. PICK e4 \in Int : e4 = b * u
      OBVIOUS
    <2>19. PICK e5 \in Int : e5 = c * (RADIX * u)
      BY <1>0
    <2>20. e1 - e2 - e4 = e3 - e5
      BY <2>14, <2>15, <2>16, <2>17, <2>18, <2>19, Zenon
    <2>21. /\ s[j + 1] = s[j] + e1 /\ z[j + 1] = z[j] + e3 /\ y[j + 1] = y[j] + e2
           /\ Borrow(m[j]) * Unit[j + 1] = e5
      BY <2>3, <2>4, <2>5, <2>6, <2>8, <2>9, <2>15, <2>16, <2>17, <2>19, Zenon
    <2>22. s[j] - y[j] = z[j] - e4
      BY <2>12, <2>18, Zenon
    <2>23. s[j + 1] - y[j + 1] = z[j + 1] - e5
      BY <2>10, <2>20, <2>21, <2>22
    <2>24. s[j + 1] - y[j + 1] = z[j + 1] - Borrow(m[j]) * Unit[j + 1]
      BY <2>21, <2>23, Zenon
    <2> QED
      BY <2>1, <2>24
  <1> HIDE DEF T
  <1>12. \A k \in 0 .. Top : k \in T
    BY <1>0, <1>10, <1>11, InductionTo
  <1>13. Value(t) - P = Value(d) - Borrow(m[Top]) * Unit[LIMBS]
    <2>1. Top \in T
      BY <1>0, <1>12
    <2>2. s[Top + 1] - y[Top + 1] = z[Top + 1] - Borrow(m[Top]) * Unit[Top + 1]
      BY <2>1 DEF T
    <2> QED
      BY <1>0, <1>5, <1>7, <1>8, <1>9, <2>2, Zenon
  <1>14. Top \in Places
    BY <1>0
  <1>15. PICK q \in Nat : q = Unit[LIMBS]
    BY PrimeSize
  <1>16. PICK vt \in Int : vt = Value(t)
    BY <1>6
  <1>17. PICK vd \in Int : vd = Value(d) /\ 0 <= vd /\ vd < q
    BY <1>6, <1>15
  <1>18. CASE Borrow(m[Top]) = 1
    <2>1. Reduced(t) = t
      BY <1>1, <1>18, Zenon
    <2>2. vt - P = vd - 1 * q
      BY <1>13, <1>15, <1>16, <1>17, <1>18, Zenon
    <2>3. vt < P
      BY <1>17, <2>2, PrimeSize
    <2> QED
      BY <1>16, <2>1, <2>3, Zenon
  <1>19. CASE Borrow(m[Top]) = 0
    <2>1. Reduced(t) = d
      <3>1. Borrow(m[Top]) # 1
        BY <1>19
      <3>2. Reduced(t) = [k \in Places |-> IF k = Top THEN m[k] ELSE m[k] % RADIX]
        BY <1>1, <3>1, Zenon
      <3>3. m[Top] % RADIX = m[Top]
        BY <1>2, <1>14, <1>19, Zenon
      <3>4. \A k \in Places : (IF k = Top THEN m[k] ELSE m[k] % RADIX) = m[k] % RADIX
        BY <3>3, Zenon
      <3> QED
        BY <3>2, <3>4, Zenon DEF d
    <2>2. vt - P = vd - 0 * q
      BY <1>13, <1>15, <1>16, <1>17, <1>19, Zenon
    <2>3. ~(vt < P) /\ vd = vt - P
      BY <1>15, <1>17, <2>2, PrimeSize
    <2> QED
      BY <1>3, <1>16, <1>17, <2>1, <2>3, Zenon
  <1> QED
    BY <1>2, <1>14, <1>18, <1>19

(* Packed limbs are the digits of the residue.                             *)
LEMMA Packed ==
  ASSUME NEW a \in [Places -> Int],
         \A k \in Places : a[k] <= 4 * RADIX /\ -(4 * RADIX) <= a[k]
  PROVE  /\ Pack(a) \in [Places -> 0 .. (RADIX - 1)]
         /\ Pack(a)[Top] < RADIX \div 2
         /\ Value(Pack(a)) = Residue(a)
  <1> DEFINE t == Carry(Carry(Carry(a)))
             t1 == Reduced(t)
             t2 == Reduced(t1)
  <1>0. /\ LIMBS \in Nat /\ RADIX \in Nat /\ RADIX >= 256 /\ RADIX % 2 = 0 /\ Top \in Nat
        /\ Top + 1 = LIMBS /\ Places = 0 .. (LIMBS - 1)
    BY Sizes
  <1>1. t \in [Places -> 0 .. (RADIX - 1)] /\ \E z \in Int : Value(t) = Value(a) + P * z
    BY ThreeCarries, Zenon
  <1>2. PICK z \in Int : Value(t) = Value(a) + P * z
    BY <1>1, Zenon
  <1> HIDE DEF t
  <1>3. t1 \in [Places -> 0 .. (RADIX - 1)]
        /\ Value(t1) = IF Value(t) < P THEN Value(t) ELSE Value(t) - P
    BY <1>1, ReducedValue
  <1> HIDE DEF t1
  <1>4. t2 \in [Places -> 0 .. (RADIX - 1)]
        /\ Value(t2) = IF Value(t1) < P THEN Value(t1) ELSE Value(t1) - P
    BY <1>3, ReducedValue
  <1> HIDE DEF t2
  <1>5. Pack(a) = t2
    <2>1. Pack(a) = [k \in Places |-> t2[k] % RADIX]
      BY Zenon DEF Pack, t2, t1, t
    <2>2. \A k \in Places : t2[k] % RADIX = t2[k]
      <3>1. \A x \in 0 .. (RADIX - 1) : x % RADIX = x
        BY <1>0
      <3>2. \A k \in Places : t2[k] \in 0 .. (RADIX - 1)
        BY <1>4
      <3> QED
        BY <3>1, <3>2, Zenon
    <2>3. t2 = [k \in Places |-> t2[k]]
      BY <1>4
    <2> QED
      BY <2>1, <2>2, <2>3, Zenon
  <1>6. PICK p \in Nat : p = P /\ p > 1000
    BY PrimeSize
  <1>7. PICK v \in Nat : v = Value(t) /\ v < 2 * p + 38
    BY <1>1, <1>6, DigitsValue, PrimeSize
  <1>8. PICK v2 \in Nat : v2 = Value(t2) /\ v2 < p
    <2>1. CASE v < p
      BY <1>3, <1>4, <1>6, <1>7, <2>1
    <2>2. CASE p <= v /\ v < 2 * p
      <3>1. Value(t1) = v - p
        BY <1>3, <1>6, <1>7, <2>2
      <3> QED
        BY <1>4, <1>6, <1>7, <2>2, <3>1
    <2>3. CASE 2 * p <= v
      <3>1. Value(t1) = v - p
        BY <1>3, <1>6, <1>7, <2>3
      <3>2. Value(t2) = v - p - p
        BY <1>4, <1>6, <1>7, <2>3, <3>1
      <3> QED
        BY <1>6, <1>7, <2>3, <3>2
    <2> QED
      BY <1>6, <1>7, <2>1, <2>2, <2>3
  <1>9. PICK x \in Int : x = Value(a)
    BY ValueDefined
  <1>10. \E e \in Int : v2 = x + p * e
    <2>1. v = x + p * z
      BY <1>2, <1>6, <1>7, <1>9, Zenon
    <2>2. v2 = v \/ v2 = v - p \/ v2 = v - p - p
      BY <1>3, <1>4, <1>6, <1>7, <1>8
    <2>3. CASE v2 = v
      BY <2>1, <2>3
    <2>4. CASE v2 = v - p
      <3>1. v2 = x + p * (z - 1)
        BY <2>1, <2>4
      <3> QED
        BY <3>1
    <2>5. CASE v2 = v - p - p
      <3>1. v2 = x + p * (z - 2)
        BY <2>1, <2>5
      <3> QED
        BY <3>1
    <2> QED
      BY <2>2, <2>3, <2>4, <2>5
  <1>11. x % p = v2
    <2>1. PICK e \in Int : v2 = x + p * e
      BY <1>10
    <2>2. x = p * (-e) + v2
      BY <2>1
    <2>3. PICK c \in Int : c = -e
      OBVIOUS
    <2>4. x = p * c + v2
      BY <2>2, <2>3, Zenon
    <2>5. PICK c1 \in Int, r \in 0 .. (p - 1) : x = p * c1 + r /\ r = x % p
      <3>1. x \div p \in Int /\ x % p \in 0 .. (p - 1) /\ x = p * (x \div p) + (x % p)
        BY <1>6, Quotient
      <3> QED
        BY <3>1
    <2>6. PICK g \in Int : g = p * c
      OBVIOUS
    <2>7. p * c1 <= x /\ x < p * c1 + p
      <3>1. PICK h \in Int : h = p * c1
        OBVIOUS
      <3> QED
        BY <2>5, <3>1
    <2>8. p * c <= x /\ x < p * (c + 1)
      <3>1. p * (c + 1) = g + p
        BY <2>6
      <3> QED
        BY <1>8, <2>4, <2>6, <3>1
    <2>9. c <= c1 /\ c1 < c + 1
      BY <1>6, <2>7, <2>8, QuotientWithin
    <2>10. c1 = c
      BY <2>9
    <2>11. x = g + r /\ x = g + v2
      BY <2>4, <2>5, <2>6, <2>10, Zenon
    <2>12. r = v2
      BY <2>11
    <2> QED
      BY <2>5, <2>12, Zenon
  <1>12. Value(Pack(a)) = Residue(a)
    BY <1>5, <1>6, <1>8, <1>9, <1>11, Zenon DEF Residue
  <1>13. t2[Top] < RADIX \div 2
    <2>1. PICK s : AreParts(s, t2) /\ Value(t2) = s[LIMBS]
      BY <1>0, <1>4, DigitsValue, ValueDefined
    <2>2. Top \in 0 .. (LIMBS - 1) /\ Top \in 0 .. LIMBS /\ Top \in 0 .. Top
      BY <1>0
    <2>3. s[Top] \in 0 .. (Unit[Top] - 1)
      <3>1. t2 \in [Places -> Int] /\ \A k \in 0 .. (Top - 1) : t2[k] \in 0 .. (RADIX - 1)
        BY <1>0, <1>4
      <3> QED
        BY <2>1, <2>2, <3>1, DigitsBelow
    <2>4. s[LIMBS] = s[Top] + t2[Top] * Unit[Top] /\ Unit[LIMBS] = RADIX * Unit[Top]
      BY <1>0, <2>1, <2>2, UnitDefined, Zenon DEF AreParts
    <2>5. PICK u \in Nat \ {0} : u = Unit[Top]
      BY <2>2, UnitDefined
    <2>6. PICK d \in Nat : d = t2[Top]
      BY <1>0, <1>4, <2>2
    <2>7. PICK h \in Nat : RADIX = 2 * h /\ RADIX \div 2 = h
      BY HalfRadix
    <2>8. 0 <= s[Top] /\ s[Top] \in Int
      BY <2>3, <2>5
    <2>9. PICK e \in Int : e = d * u
      BY <2>5
    <2>10. v2 = s[Top] + e
      BY <1>8, <2>1, <2>4, <2>5, <2>6, <2>9, Zenon
    <2>11. PICK g \in Nat : g = h * u
      BY <2>5
    <2>12. 2 * p + 38 = 2 * g
      <3>1. Unit[LIMBS] = (2 * h) * u
        BY <2>4, <2>5, <2>7, Zenon
      <3>2. (2 * h) * u = 2 * (h * u)
        BY <2>5
      <3>3. 2 * p + 38 = Unit[LIMBS]
        BY <1>6, PrimeSize
      <3> QED
        BY <2>11, <3>1, <3>2, <3>3, Zenon
    <2>13. e < g
      BY <1>6, <1>8, <2>8, <2>10, <2>12
    <2>14. d < h
      <3> SUFFICES ASSUME d >= h PROVE FALSE
        BY <2>7
      <3>1. (d - h) * u >= 0
        BY <2>5
      <3>2. (d - h) * u = d * u - h * u
        BY <2>5
      <3> QED
        BY <2>9, <2>11, <2>13, <3>1, <3>2
    <2> QED
      BY <2>6, <2>7, <2>14, Zenon
  <1> QED
    BY <1>4, <1>5, <1>12, <1>13, Zenon

-----------------------------------------------------------------------------
(* Products.                                                               *)

(* Limbs between two operations.                                           *)
Sized(a) == a \in [Places -> -LIMB_MAX .. LIMB_MAX]

LEMMA TotalSize ==
  ASSUME NEW f \in [Places -> Int], NEW m \in Nat,
         \A k \in Places : f[k] <= m /\ -m <= f[k]
  PROVE  Total(f) \in Int /\ Total(f) <= LIMBS * m /\ -(LIMBS * m) <= Total(f)
  <1>0. LIMBS \in Nat /\ Places = 0 .. (LIMBS - 1)
    BY Sizes
  <1>1. PICK s : AreSums(s, f) /\ Total(f) = s[LIMBS]
    BY TotalDefined
  <1> DEFINE T == {k \in 0 .. LIMBS : s[k] <= k * m /\ -(k * m) <= s[k]}
  <1>2. 0 \in T
    BY <1>0, <1>1 DEF AreSums
  <1>3. ASSUME NEW k \in 0 .. (LIMBS - 1), k \in T PROVE k + 1 \in T
    <2>1. k \in 0 .. LIMBS /\ k + 1 \in 0 .. LIMBS /\ k \in Places
      BY <1>0
    <2>2. s[k + 1] = s[k] + f[k] /\ s[k] \in Int /\ f[k] \in Int
      BY <1>1, <2>1 DEF AreSums
    <2>3. f[k] <= m /\ -m <= f[k] /\ s[k] <= k * m /\ -(k * m) <= s[k]
      BY <1>3, <2>1
    <2>4. PICK g \in Nat : g = k * m
      BY <1>0
    <2>5. (k + 1) * m = g + m
      BY <1>0, <2>4
    <2>6. s[k + 1] <= g + m /\ -(g + m) <= s[k + 1]
      BY <2>2, <2>3, <2>4
    <2>7. s[k + 1] <= (k + 1) * m /\ -((k + 1) * m) <= s[k + 1]
      BY <2>5, <2>6, Zenon
    <2> QED
      BY <2>1, <2>7
  <1> HIDE DEF T
  <1>4. \A k \in 0 .. LIMBS : k \in T
    BY <1>0, <1>2, <1>3, InductionTo
  <1>5. LIMBS \in T
    BY <1>0, <1>4
  <1>6. s[LIMBS] \in Int
    BY <1>0, <1>1 DEF AreSums
  <1> QED
    BY <1>1, <1>5, <1>6 DEF T

LEMMA ProductOfSizes ==
  ASSUME NEW m \in Nat, NEW x \in -m .. m, NEW y \in -m .. m
  PROVE  x * y \in Int /\ x * y <= m * m /\ -(m * m) <= x * y
  <1>1. (m - x) * (m + y) >= 0 /\ (m + x) * (m - y) >= 0
    OBVIOUS
  <1>2. (m - x) * (m - y) >= 0 /\ (m + x) * (m + y) >= 0
    OBVIOUS
  <1>3. /\ (m - x) * (m + y) = m * m + m * y - m * x - x * y
        /\ (m + x) * (m - y) = m * m - m * y + m * x - x * y
        /\ (m - x) * (m - y) = m * m - m * y - m * x + x * y
        /\ (m + x) * (m + y) = m * m + m * y + m * x + x * y
    OBVIOUS
  <1> QED
    BY <1>1, <1>2, <1>3

LEMMA ProductSize ==
  ASSUME NEW a, NEW b, Sized(a), Sized(b), NEW n \in Int, NEW m \in Nat,
         m = LIMB_MAX * LIMB_MAX
  PROVE  Product(a, b, n) \in Int /\ Product(a, b, n) <= LIMBS * m
         /\ -(LIMBS * m) <= Product(a, b, n)
  <1> DEFINE f == [k \in Places |-> a[k] * (IF n - k \in Places THEN b[n - k] ELSE 0)]
  <1>1. PICK l \in Nat : l = LIMB_MAX
    BY Sizes DEF LIMB_MAX
  <1>2. ASSUME NEW k \in Places
        PROVE  f[k] \in Int /\ f[k] <= m /\ -m <= f[k]
    <2>1. a[k] \in -l .. l
      BY <1>1 DEF Sized
    <2>2. (IF n - k \in Places THEN b[n - k] ELSE 0) \in -l .. l
      BY <1>1 DEF Sized
    <2>3. PICK x \in -l .. l : x = a[k]
      BY <2>1
    <2>4. PICK y \in -l .. l : y = IF n - k \in Places THEN b[n - k] ELSE 0
      BY <2>2, Zenon
    <2>5. x * y \in Int /\ x * y <= l * l /\ -(l * l) <= x * y
      BY ProductOfSizes
    <2>6. f[k] = x * y
      BY <2>3, <2>4, Zenon
    <2>7. m = l * l
      BY <1>1, Zenon
    <2> QED
      BY <2>5, <2>6, <2>7, Zenon
  <1>3. f \in [Places -> Int]
    <2>1. f = [k \in Places |-> f[k]]
      BY Zenon
    <2> HIDE DEF f
    <2> QED
      BY <1>2, <2>1, Zenon
  <1>4. Product(a, b, n) = Total(f)
    BY Zenon DEF Product
  <1> HIDE DEF f
  <1> QED
    BY <1>2, <1>3, <1>4, TotalSize

LEMMA TimesSize ==
  ASSUME NEW a, NEW b, Sized(a), Sized(b)
  PROVE  /\ Times(a, b) \in [Places -> Int]
         /\ \A k \in Places \ {0} : Times(a, b)[k] \in 0 .. (RADIX - 1)
         /\ Times(a, b)[0] \in -RADIX .. (2 * RADIX - 1)
  <1> DEFINE o == [k \in Places |->
                Product(a, b, k) + (IF k < Top THEN 38 * Product(a, b, k + LIMBS) ELSE 0)]
  <1>0. /\ LIMBS \in Nat /\ LIMBS >= 2 /\ RADIX \in Nat /\ RADIX >= 256
        /\ Places = 0 .. (LIMBS - 1) /\ Top \in Nat
    BY Sizes
  <1>1. PICK m2 \in Nat : m2 = LIMB_MAX * LIMB_MAX
    BY <1>0 DEF LIMB_MAX
  <1>2. PICK lm \in Nat : lm = LIMBS * m2
    BY <1>0
  <1>3. PICK m \in Nat : m = 39 * lm
    OBVIOUS
  <1>4. ASSUME NEW k \in Places PROVE o[k] \in Int /\ o[k] <= m /\ -m <= o[k]
    <2>1. k \in Int /\ k + LIMBS \in Int
      BY <1>0
    <2>2. PICK x \in Int : x = Product(a, b, k) /\ x <= lm /\ -lm <= x
      BY <1>1, <1>2, <2>1, ProductSize
    <2>3. PICK y \in Int : y = Product(a, b, k + LIMBS) /\ y <= lm /\ -lm <= y
      BY <1>1, <1>2, <2>1, ProductSize
    <2>4. o[k] = x + (IF k < Top THEN 38 * y ELSE 0)
      BY <2>2, <2>3, Zenon
    <2> QED
      BY <1>3, <2>2, <2>3, <2>4
  <1>5. o \in [Places -> Int]
    <2>1. o = [k \in Places |-> o[k]]
      BY Zenon
    <2> HIDE DEF o
    <2> QED
      BY <1>4, <2>1, Zenon
  <1>6. Times(a, b) = Carry(Carry(o))
    BY Zenon DEF Times
  <1> HIDE DEF o
  <1>7. PICK q \in Nat \ {0} : q = Unit[LIMBS]
    BY PrimeSize
  <1>8. PICK v \in Int : v = Value(o)
    BY <1>5, ValueDefined
  <1>9. PICK f \in Nat \ {0} : f = RADIX - 1
    BY <1>0
  <1>10. f * v <= m * (q - 1) /\ -(m * (q - 1)) <= f * v
    BY <1>4, <1>5, <1>7, <1>8, <1>9, ValueSize, Zenon
  <1>11. PICK e \in Nat : e = m \div f
    OBVIOUS
  <1>12. PICK cm \in Nat \ {0} : cm = e + 1
    OBVIOUS
  <1>13. CARRY_MAX = cm
    <2>1. CARRY_MAX = (39 * LIMBS * m2) \div f + 1
      BY <1>1, <1>9, Zenon DEF CARRY_MAX
    <2>2. 39 * LIMBS * m2 = m
      <3>1. 39 * LIMBS * m2 = 39 * (LIMBS * m2)
        BY <1>0
      <3> QED
        BY <1>2, <1>3, <3>1, Zenon
    <2> QED
      BY <1>11, <1>12, <2>1, <2>2, Zenon
  <1>14. m <= f * cm
    <2>1. m = f * (m \div f) + (m % f) /\ m % f \in 0 .. (f - 1)
      BY Quotient
    <2>2. f * cm = f * e + f
      BY <1>12
    <2>3. PICK g \in Int : g = f * e
      OBVIOUS
    <2>4. m = g + (m % f)
      BY <1>11, <2>1, <2>3, Zenon
    <2>5. f * cm = g + f
      BY <2>2, <2>3, Zenon
    <2> QED
      BY <2>1, <2>4, <2>5
  <1>15. PICK y \in Nat : y = cm * (q - 1)
    OBVIOUS
  <1>16. m * (q - 1) <= f * y
    <2>1. (f * cm - m) * (q - 1) >= 0
      <3>1. PICK x \in Nat : x = f * cm - m
        BY <1>14
      <3>2. x * (q - 1) >= 0
        OBVIOUS
      <3> QED
        BY <3>1, <3>2, Zenon
    <2>2. (f * cm - m) * (q - 1) = f * (cm * (q - 1)) - m * (q - 1)
      OBVIOUS
    <2>3. f * (cm * (q - 1)) = f * y
      BY <1>15
    <2> QED
      BY <2>1, <2>2, <2>3
  <1>17. v <= y /\ -y <= v
    <2>1. f * v <= f * y /\ -(f * y) <= f * v
      BY <1>10, <1>16
    <2>2. v <= y
      <3> SUFFICES ASSUME v >= y + 1 PROVE FALSE
        OBVIOUS
      <3>1. f * (v - y - 1) >= 0 /\ f * (v - y - 1) = f * v - f * y - f
        OBVIOUS
      <3> QED
        BY <2>1, <3>1
    <2>3. -y <= v
      <3> SUFFICES ASSUME v <= -y - 1 PROVE FALSE
        OBVIOUS
      <3>1. f * (-y - 1 - v) >= 0 /\ f * (-y - 1 - v) = -(f * y) - f - f * v
        OBVIOUS
      <3> QED
        BY <2>1, <3>1
    <2> QED
      BY <2>2, <2>3
  <1>18. q * (-cm) <= v /\ v < q * cm
    <2>1. PICK g \in Nat : g = q * cm
      OBVIOUS
    <2>2. y = g - cm /\ q * (-cm) = -g
      BY <1>15, <2>1
    <2> QED
      BY <1>12, <1>17, <2>1, <2>2
  <1>19. PICK c1 \in Int : CarriesBy(o, c1)
    BY <1>5, Carried
  <1>20. q * c1 <= v /\ v < q * c1 + q
    BY <1>7, <1>8, <1>19 DEF CarriesBy
  <1>21. -cm <= c1 /\ c1 < cm
    BY <1>18, <1>20, QuotientWithin
  <1>22. Carry(o) \in [Places -> Int]
    BY <1>19 DEF CarriesBy
  <1>23. PICK v1 \in Int : v1 = Value(Carry(o))
    BY <1>22, ValueDefined
  <1>24. v1 = v - (q - 38) * c1
    BY <1>7, <1>8, <1>19, <1>23, Zenon DEF CarriesBy
  <1>25. PICK w \in Nat : w = RADIX \div 38 /\ 38 * w <= RADIX
    BY <1>0
  <1>26. PICK x \in Nat : x = w * q
    OBVIOUS
  <1>27. 38 * cm <= x
    BY <1>7, <1>13, <1>25, <1>26, RoomAssumption, Zenon
  <1>28. -x <= v1 /\ v1 < q + x
    <2>1. (q - 38) * c1 = q * c1 - 38 * c1
      OBVIOUS
    <2>2. PICK g \in Int : g = q * c1
      OBVIOUS
    <2>3. v1 = v - (g - 38 * c1)
      BY <1>24, <2>1, <2>2, Zenon
    <2> QED
      BY <1>20, <1>21, <1>27, <2>2, <2>3
  <1>29. PICK c2 \in Int : CarriesBy(Carry(o), c2)
    BY <1>22, Carried
  <1>30. q * c2 <= v1 /\ v1 < q * c2 + q
    BY <1>7, <1>23, <1>29 DEF CarriesBy
  <1>31. -w <= c2 /\ c2 < w + 1
    <2>1. q * (-w) = -x /\ q * (w + 1) = q + x
      BY <1>26
    <2>2. q * (-w) <= v1 /\ v1 < q * (w + 1)
      BY <1>28, <2>1, Zenon
    <2> QED
      BY <1>30, <2>2, QuotientWithin
  <1>32. /\ Times(a, b) \in [Places -> Int]
         /\ \A k \in Places \ {0} : Times(a, b)[k] \in 0 .. (RADIX - 1)
         /\ Times(a, b)[0] - 38 * c2 \in 0 .. (RADIX - 1)
    BY <1>6, <1>29, Zenon DEF CarriesBy
  <1>33. Times(a, b)[0] \in -RADIX .. (2 * RADIX - 1)
    <2>1. PICK z \in Int : z = Times(a, b)[0]
      BY <1>0, <1>32
    <2>2. z - 38 * c2 \in 0 .. (RADIX - 1)
      BY <1>32, <2>1, Zenon
    <2>3. z \in -RADIX .. (2 * RADIX - 1)
      BY <1>0, <1>25, <1>31, <2>2
    <2> QED
      BY <2>1, <2>3, Zenon
  <1> QED
    BY <1>32, <1>33

-----------------------------------------------------------------------------
(* The invariant: the limbs that unpackneg keeps between two operations,   *)
(* and where its list of products goes on.                                 *)
LimbsSized == reg \in [Registers -> [Places -> -LIMB_MAX .. LIMB_MAX]]

FieldInv ==
  /\ LimbsSized
  /\ input \in [Places -> 0 .. (RADIX - 1)]
  /\ pc = "lines" => line \in 1 .. 11
  /\ pc \in {"decode", "curve"} => line = 1
  /\ pc = "curve" => reg["num"] = Square(Unpack(input))
  /\ pc \in {"enter", "square", "times", "leave"} => line = 6

LEMMA TimesSized ==
  ASSUME NEW a, NEW b, Sized(a), Sized(b)
  PROVE  Sized(Times(a, b))
  <1>0. RADIX \in Nat /\ RADIX >= 256 /\ LIMB_MAX = 2 * RADIX
    BY Sizes DEF LIMB_MAX
  <1>1. ASSUME NEW k \in Places PROVE Times(a, b)[k] \in -LIMB_MAX .. LIMB_MAX
    <2>1. CASE k = 0
      <3>1. Times(a, b)[k] \in -RADIX .. (2 * RADIX - 1)
        BY <2>1, TimesSize
      <3> QED
        BY <1>0, <3>1
    <2>2. CASE k # 0
      <3>1. Times(a, b)[k] \in 0 .. (RADIX - 1)
        BY <2>2, TimesSize
      <3> QED
        BY <1>0, <3>1
    <2> QED
      BY <2>1, <2>2
  <1>2. Times(a, b) \in [Places -> Int]
    BY TimesSize
  <1>3. Times(a, b) = [k \in Places |-> Times(a, b)[k]]
    BY <1>2
  <1> QED
    BY <1>1, <1>3, Zenon DEF Sized

LEMMA DigitsSized ==
  ASSUME NEW a \in [Places -> 0 .. (RADIX - 1)]
  PROVE  Sized(a)
  <1>1. RADIX \in Nat /\ RADIX >= 256
    BY Sizes
  <1> QED
    BY <1>1 DEF Sized, LIMB_MAX

LEMMA UnpackSized ==
  ASSUME NEW p \in [Places -> 0 .. (RADIX - 1)]
  PROVE  Unpack(p) \in [Places -> 0 .. (RADIX - 1)] /\ Sized(Unpack(p))
  <1>0. /\ RADIX \in Nat /\ RADIX >= 256 /\ Places = 0 .. (LIMBS - 1) /\ LIMBS \in Nat
        /\ Top = LIMBS - 1 /\ Top \in Places
    <2>1. Top \in Nat /\ Top + 1 = LIMBS /\ Places = 0 .. Top /\ LIMBS \in Nat
      BY Sizes
    <2>2. Top = LIMBS - 1 /\ Top \in 0 .. Top
      BY <2>1
    <2> QED
      BY <2>1, <2>2, Sizes, Zenon
  <1>1. PICK h \in Nat \ {0} : h = RADIX \div 2 /\ h <= RADIX
    BY <1>0
  <1>2. p[Top] % h \in 0 .. (RADIX - 1)
    <2>a. PICK z \in Int : z = p[Top]
      BY <1>0
    <2>1. p[Top] % h \in 0 .. (h - 1)
      BY <2>a, Quotient, Zenon
    <2>2. PICK x \in Int : x = p[Top] % h
      BY <2>1
    <2>3. x \in 0 .. (RADIX - 1)
      BY <1>0, <1>1, <2>1, <2>2
    <2> QED
      BY <2>2, <2>3, Zenon
  <1>3. Unpack(p) \in [Places -> 0 .. (RADIX - 1)]
    BY <1>0, <1>1, <1>2 DEF Unpack
  <1> QED
    BY <1>3, DigitsSized

LEMMA ConstantsSized ==
  Sized(Zero) /\ Sized(D) /\ Sized(I)
  <1>1. RADIX \in Nat /\ RADIX >= 256
    BY Sizes
  <1>2. Zero \in [Places -> 0 .. (RADIX - 1)]
    BY <1>1 DEF Zero
  <1> QED
    BY <1>2, DigitsSized, FieldAssumption

(* One more or less than a product still fits.                             *)
LEMMA OneSized ==
  ASSUME NEW a, NEW b, Sized(a), Sized(b)
  PROVE  Sized(Minus(Times(a, b), One)) /\ Sized(Plus(One, Times(a, b)))
  <1> DEFINE t == Times(a, b)
  <1>0. RADIX \in Nat /\ RADIX >= 256 /\ Places = 0 .. (LIMBS - 1) /\ LIMBS \in Nat
        /\ LIMB_MAX = 2 * RADIX
    BY Sizes DEF LIMB_MAX
  <1>1. ASSUME NEW k \in Places
        PROVE  t[k] - One[k] \in -LIMB_MAX .. LIMB_MAX /\ One[k] + t[k] \in -LIMB_MAX .. LIMB_MAX
    <2>1. CASE k = 0
      <3>1. One[k] = 1
        BY <2>1 DEF One, Zero
      <3>2. t[k] \in -RADIX .. (2 * RADIX - 1)
        BY <2>1, TimesSize
      <3> QED
        BY <1>0, <3>1, <3>2
    <2>2. CASE k # 0
      <3>1. One[k] = 0
        BY <2>2 DEF One, Zero
      <3>2. t[k] \in 0 .. (RADIX - 1)
        BY <2>2, TimesSize
      <3> QED
        BY <1>0, <3>1, <3>2
    <2> QED
      BY <2>1, <2>2
  <1> HIDE DEF t
  <1>2. Sized(Minus(t, One)) /\ Sized(Plus(One, t))
    BY <1>1 DEF Sized, Minus, Plus
  <1> QED
    BY <1>2 DEF t

LEMMA NegatedSized ==
  ASSUME NEW a, Sized(a)
  PROVE  Sized(Minus(Zero, a))
  <1>1. PICK l \in Nat : l = LIMB_MAX
    BY Sizes DEF LIMB_MAX
  <1>2. ASSUME NEW k \in Places PROVE Zero[k] - a[k] \in -l .. l
    <2>1. Zero[k] = 0 /\ a[k] \in -l .. l
      BY <1>1 DEF Zero, Sized
    <2> QED
      BY <2>1
  <1>3. Minus(Zero, a) \in [Places -> -l .. l]
    BY <1>2 DEF Minus
  <1> QED
    BY <1>1, <1>3, Zenon DEF Sized

LEMMA FieldInvInit ==
  Init => FieldInv
  <1> SUFFICES ASSUME Init PROVE FieldInv
    OBVIOUS
  <1>1. input \in [Places -> 0 .. (RADIX - 1)]
    BY FieldAssumption DEF Init
  <1>2. LimbsSized
    BY ConstantsSized DEF Init, LimbsSized, Sized
  <1> QED
    BY <1>1, <1>2 DEF Init, FieldInv

(* What a line names are registers, and no line sets num or den.           *)
LEMMA LineNames ==
  ASSUME NEW l \in 1 .. 11
  PROVE  /\ Lines[l][1] \in Registers \ {"num", "den"}
         /\ Lines[l][2] \in Registers /\ Lines[l][3] \in Registers
  BY DEF Lines, Registers

(* Setting a register to sized limbs.                                      *)
LEMMA SetSized ==
  ASSUME LimbsSized, NEW r, NEW a, Sized(a)
  PROVE  [reg EXCEPT ![r] = a] \in [Registers -> [Places -> -LIMB_MAX .. LIMB_MAX]]
  BY Zenon DEF LimbsSized, Sized

(* Every operation leaves limbs that the next one has room for.            *)
LEMMA FieldInvStep ==
  FieldInv /\ [Next]_vars => FieldInv'
  <1> SUFFICES ASSUME FieldInv, [Next]_vars PROVE FieldInv'
    OBVIOUS
  <1>0. /\ LimbsSized /\ \A r \in Registers : Sized(reg[r])
        /\ input \in [Places -> 0 .. (RADIX - 1)]
    BY DEF FieldInv, LimbsSized, Sized
  <1>a. ASSUME NEW a, Sized(a) PROVE Sized(Square(a))
    BY <1>a, TimesSized DEF Square
  <1>b. \A r \in {"num", "den", "t", "c", "rx"} : r \in Registers
    BY DEF Registers
  <1>1. CASE Decode
    <2>1. Sized(Square(Unpack(input)))
      BY <1>0, <1>a, UnpackSized
    <2>2. reg' = [reg EXCEPT !["num"] = Square(Unpack(input))]
      BY <1>1 DEF Decode
    <2>3. LimbsSized'
      BY <1>0, <2>1, <2>2, SetSized, Zenon DEF LimbsSized
    <2>4. reg'["num"] = Square(Unpack(input))
      BY <1>0, <1>b, <2>2, Zenon DEF LimbsSized
    <2>5. pc = "decode" /\ pc' = "curve" /\ UNCHANGED <<line, input>>
      BY <1>1 DEF Decode
    <2> QED
      BY <1>0, <2>3, <2>4, <2>5 DEF FieldInv
  <1>2. CASE Curve
    <2>1. PICK n, d : /\ n = Minus(reg["num"], One) /\ d = Plus(One, Times(reg["num"], D))
                      /\ reg' = [[reg EXCEPT !["num"] = n] EXCEPT !["den"] = d]
      BY <1>2 DEF Curve
    <2>2. reg["num"] = Times(Unpack(input), Unpack(input)) /\ Sized(Unpack(input))
      BY <1>0, <1>2, UnpackSized DEF Curve, FieldInv, Square
    <2>3. Sized(n)
      BY <2>1, <2>2, OneSized, Zenon
    <2>4. Sized(d)
      BY <1>0, <1>b, <2>1, ConstantsSized, OneSized, Zenon
    <2>5. LimbsSized'
      BY <1>0, <2>1, <2>3, <2>4, Zenon DEF LimbsSized, Sized
    <2>6. pc' = "lines" /\ line = 1 /\ UNCHANGED <<line, input>>
      BY <1>2 DEF Curve, FieldInv
    <2> QED
      BY <1>0, <2>5, <2>6 DEF FieldInv
  <1>3. CASE Multiply
    <2>1. line \in 1 .. 11
      BY <1>3 DEF Multiply, FieldInv
    <2>2. Sized(Times(reg[Lines[line][2]], reg[Lines[line][3]]))
      BY <1>0, <2>1, LineNames, TimesSized
    <2>3. LimbsSized'
      BY <1>0, <1>3, <2>2, SetSized, Zenon DEF Multiply, LimbsSized
    <2>4. /\ pc' = "enter" => line' = 6
          /\ pc' = "lines" => line' \in 1 .. 11
          /\ pc' \in {"enter", "lines", "check"}
      BY <1>3, <2>1 DEF Multiply
    <2> QED
      BY <1>0, <1>3, <2>3, <2>4 DEF Multiply, FieldInv
  <1>4. CASE EnterPower
    <2>1. LimbsSized'
      BY <1>0, <1>b, <1>4, SetSized, Zenon DEF EnterPower, LimbsSized
    <2> QED
      BY <1>0, <1>4, <2>1 DEF EnterPower, FieldInv
  <1>5. CASE PowerSquare
    <2>1. reg' = [reg EXCEPT !["c"] = Square(reg["c"])]
      BY <1>5 DEF PowerSquare
    <2>2. LimbsSized'
      BY <1>0, <1>a, <1>b, <2>1, SetSized, Zenon DEF LimbsSized
    <2>3. pc = "square" /\ pc' \in {"square", "times"} /\ UNCHANGED <<line, input>>
      BY <1>5 DEF PowerSquare
    <2> QED
      BY <1>0, <2>2, <2>3 DEF FieldInv
  <1>6. CASE PowerTimes
    <2>1. reg' = [reg EXCEPT !["c"] = Times(reg["c"], reg["t"])]
      BY <1>6 DEF PowerTimes
    <2>2. Sized(Times(reg["c"], reg["t"]))
      BY <1>0, <1>b, TimesSized
    <2>3. LimbsSized'
      BY <1>0, <2>1, <2>2, SetSized, Zenon DEF LimbsSized
    <2>4. pc = "times" /\ pc' \in {"square", "leave"} /\ UNCHANGED <<line, input>>
      BY <1>6 DEF PowerTimes
    <2> QED
      BY <1>0, <2>3, <2>4 DEF FieldInv
  <1>7. CASE LeavePower
    <2>1. LimbsSized'
      BY <1>0, <1>b, <1>7, SetSized, Zenon DEF LeavePower, LimbsSized
    <2> QED
      BY <1>0, <1>7, <2>1 DEF LeavePower, FieldInv
  <1>8. CASE Accept
    BY <1>0, <1>8 DEF Accept, FieldInv, LimbsSized
  <1>9. CASE Turn
    <2>1. reg' = [reg EXCEPT !["rx"] = Times(reg["rx"], I)]
      BY <1>9 DEF Turn
    <2>2. Sized(Times(reg["rx"], I))
      BY <1>0, <1>b, ConstantsSized, TimesSized
    <2>3. LimbsSized'
      BY <1>0, <2>1, <2>2, SetSized, Zenon DEF LimbsSized
    <2> QED
      BY <1>0, <1>9, <2>3 DEF Turn, FieldInv
  <1>10. CASE Reject
    BY <1>0, <1>10 DEF Reject, FieldInv, LimbsSized
  <1>11. CASE Sign
    <2>1. PICK a : /\ a = IF Parity(reg["rx"]) # SignBit(input) THEN Minus(Zero, reg["rx"])
                                                              ELSE reg["rx"]
                   /\ reg' = [reg EXCEPT !["rx"] = a]
      BY <1>11 DEF Sign
    <2>2. Sized(a)
      BY <1>0, <1>b, <2>1, NegatedSized
    <2>3. LimbsSized'
      BY <1>0, <2>1, <2>2, SetSized, Zenon DEF LimbsSized
    <2> QED
      BY <1>0, <1>11, <2>3 DEF Sign, FieldInv
  <1>12. CASE UNCHANGED vars
    BY <1>0, <1>12 DEF vars, FieldInv, LimbsSized
  <1> QED
    BY <1>1, <1>2, <1>3, <1>4, <1>5, <1>6, <1>7, <1>8, <1>9, <1>10, <1>11, <1>12 DEF Next

(* Sums and differences of two are within what packing reduces.            *)
LEMMA WithinPack ==
  ASSUME NEW a, NEW b, Sized(a), Sized(b)
  PROVE  /\ a \in [Places -> Int] /\ \A k \in Places : a[k] <= 4 * RADIX /\ -(4 * RADIX) <= a[k]
         /\ Plus(a, b) \in [Places -> Int]
         /\ \A k \in Places : Plus(a, b)[k] <= 4 * RADIX /\ -(4 * RADIX) <= Plus(a, b)[k]
         /\ Minus(a, b) \in [Places -> Int]
         /\ \A k \in Places : Minus(a, b)[k] <= 4 * RADIX /\ -(4 * RADIX) <= Minus(a, b)[k]
  <1>0. RADIX \in Nat
    BY Sizes
  <1>1. ASSUME NEW k \in Places
        PROVE  a[k] \in -(2 * RADIX) .. 2 * RADIX /\ b[k] \in -(2 * RADIX) .. 2 * RADIX
    BY DEF Sized, LIMB_MAX
  <1>2. a \in [Places -> Int]
    BY DEF Sized
  <1> QED
    BY <1>0, <1>1, <1>2 DEF Plus, Minus

LEMMA CanonicalFromInv ==
  FieldInv => PackCanonical
  <1> DEFINE rx == reg["rx"]
             num == reg["num"]
             chk == reg["chk"]
  <1>0. FieldInv => Sized(rx) /\ Sized(num) /\ Sized(chk)
    BY DEF FieldInv, LimbsSized, Registers, Sized
  <1>a. PackCanonical <=> \A a \in {num, rx, Minus(Zero, rx), Minus(chk, num), Plus(chk, num)} :
                            Pack(a)[Top] < RADIX \div 2 /\ Value(Pack(a)) = Residue(a)
    BY Zenon DEF PackCanonical
  <1> HIDE DEF rx, num, chk
  <1> SUFFICES ASSUME FieldInv,
                      NEW a \in {num, rx, Minus(Zero, rx), Minus(chk, num), Plus(chk, num)}
               PROVE  Pack(a)[Top] < RADIX \div 2 /\ Value(Pack(a)) = Residue(a)
    BY <1>a
  <1>1. Sized(num) /\ Sized(chk) /\ Sized(rx) /\ Sized(Zero)
    BY <1>0, ConstantsSized
  <1>2. a \in [Places -> Int] /\ \A k \in Places : a[k] <= 4 * RADIX /\ -(4 * RADIX) <= a[k]
    <2>1. CASE a = num
      BY <1>1, <2>1, WithinPack
    <2>2. CASE a = rx
      BY <1>1, <2>2, WithinPack
    <2>3. CASE a = Minus(Zero, rx)
      BY <1>1, <2>3, WithinPack
    <2>4. CASE a = Minus(chk, num)
      BY <1>1, <2>4, WithinPack
    <2>5. CASE a = Plus(chk, num)
      BY <1>1, <2>5, WithinPack
    <2> QED
      BY <2>1, <2>2, <2>3, <2>4, <2>5
  <1> QED
    BY <1>2, Packed

(* No limb of a register ever needs more than one bit above the radix, so  *)
(* neither a sum nor a product of 16 of them leaves 64 bits                *)
(* (sovereign_crypto.c:208-241).                                           *)
THEOREM LimbsStaySized == Spec => []LimbsSized
  <1>1. FieldInv => LimbsSized
    BY DEF FieldInv
  <1> QED
    BY <1>1, FieldInvInit, FieldInvStep, PTL DEF Spec

(* What pack25519 returns for any number that unpackneg makes is the       *)
(* residue, in digits (sovereign_crypto.c:243-269).                        *)
THEOREM PacksCanonically == Spec => []PackCanonical
  <1> QED
    BY CanonicalFromInv, FieldInvInit, FieldInvStep, PTL DEF Spec

-----------------------------------------------------------------------------
(* Numbers that stand for the same residue.                                *)
Same(x, y) == \E z \in Int : x = y + P * z

LEMMA SameIs ==
  ASSUME NEW x \in Int, NEW y \in Int, NEW z \in Int, x = y + P * z
  PROVE  Same(x, y)
  BY DEF Same

LEMMA SameItself ==
  ASSUME NEW x \in Int
  PROVE  Same(x, x)
  <1>1. x = x + P * 0
    BY PrimeSize
  <1> QED
    BY <1>1, SameIs

LEMMA SameBack ==
  ASSUME NEW x \in Int, NEW y \in Int, Same(x, y)
  PROVE  Same(y, x)
  <1>1. PICK z \in Int : x = y + P * z
    BY DEF Same
  <1>2. y = x + P * (-z)
    BY <1>1, PrimeSize
  <1> QED
    BY <1>2, SameIs

LEMMA SameThen ==
  ASSUME NEW x \in Int, NEW y \in Int, NEW w \in Int, Same(x, y), Same(y, w)
  PROVE  Same(x, w)
  <1>1. PICK z \in Int : x = y + P * z
    BY DEF Same
  <1>2. PICK v \in Int : y = w + P * v
    BY DEF Same
  <1>3. x = w + P * (v + z)
    BY <1>1, <1>2, PrimeSize
  <1> QED
    BY <1>3, SameIs

LEMMA SameSum ==
  ASSUME NEW x \in Int, NEW y \in Int, NEW v \in Int, NEW w \in Int, Same(x, y), Same(v, w)
  PROVE  Same(x + v, y + w) /\ Same(x - v, y - w)
  <1>1. PICK z \in Int : x = y + P * z
    BY DEF Same
  <1>2. PICK u \in Int : v = w + P * u
    BY DEF Same
  <1>3. PICK q \in Int : q = P
    BY PrimeSize
  <1>4. q * (z + u) = q * z + q * u /\ q * (z - u) = q * z - q * u
    OBVIOUS
  <1>5. PICK g \in Int, h \in Int : g = q * z /\ h = q * u
    OBVIOUS
  <1>6. x = y + g /\ v = w + h
    BY <1>1, <1>2, <1>3, <1>5, Zenon
  <1>7. x + v = (y + w) + (g + h) /\ x - v = (y - w) + (g - h)
    BY <1>6
  <1>8. x + v = (y + w) + P * (z + u) /\ x - v = (y - w) + P * (z - u)
    BY <1>3, <1>4, <1>5, <1>7, Zenon
  <1> QED
    BY <1>8, SameIs

LEMMA SameTimes ==
  ASSUME NEW x \in Int, NEW y \in Int, NEW w \in Int, Same(x, y)
  PROVE  Same(x * w, y * w) /\ Same(w * x, w * y)
  <1>1. PICK z \in Int : x = y + P * z
    BY DEF Same
  <1>2. PICK q \in Int : q = P
    BY PrimeSize
  <1>3. x * w = y * w + q * (z * w) /\ w * x = w * y + q * (z * w)
    <2>1. x = y + q * z
      BY <1>1, <1>2
    <2>2. (y + q * z) * w = y * w + q * (z * w) /\ w * (y + q * z) = w * y + q * (z * w)
      OBVIOUS
    <2> QED
      BY <2>1, <2>2, Zenon
  <1>4. x * w \in Int /\ y * w \in Int /\ w * x \in Int /\ w * y \in Int /\ z * w \in Int
    OBVIOUS
  <1>5. x * w = y * w + P * (z * w) /\ w * x = w * y + P * (z * w)
    BY <1>2, <1>3, Zenon
  <1> QED
    BY <1>4, <1>5, SameIs

LEMMA SameProduct ==
  ASSUME NEW x \in Int, NEW y \in Int, NEW v \in Int, NEW w \in Int, Same(x, y), Same(v, w)
  PROVE  Same(x * v, y * w)
  <1>1. Same(x * v, y * v) /\ Same(y * v, y * w)
    BY SameTimes
  <1> QED
    BY <1>1, SameThen

(* The remainder is the one number below P.                                *)
LEMMA SameRemainder ==
  ASSUME NEW x \in Int
  PROVE  x % P \in 0 .. (P - 1) /\ Same(x % P, x) /\ Same(x, x % P)
  <1>1. P \in Nat \ {0}
    BY PrimeSize
  <1>2. PICK q \in Int, r \in 0 .. (P - 1) : q = x \div P /\ r = x % P /\ x = P * q + r
    BY <1>1, Quotient
  <1>3. x = r + P * q
    BY <1>1, <1>2
  <1>4. Same(x, r) /\ r \in Int
    BY <1>2, <1>3, SameIs
  <1> QED
    BY <1>2, <1>4, SameBack

LEMMA SameBelow ==
  ASSUME NEW x \in 0 .. (P - 1), NEW y \in 0 .. (P - 1), Same(x, y)
  PROVE  x = y
  <1>1. PICK z \in Int : x = y + P * z
    BY DEF Same
  <1>2. PICK q \in Nat \ {0} : q = P
    BY PrimeSize
  <1>3. x = y + q * z /\ x \in 0 .. (q - 1) /\ y \in 0 .. (q - 1)
    BY <1>1, <1>2
  <1>4. CASE z >= 1
    <2>1. q * (z - 1) >= 0 /\ q * z = q * (z - 1) + q
      BY <1>4
    <2> QED
      BY <1>3, <2>1
  <1>5. CASE z <= -1
    <2>1. q * (-1 - z) >= 0 /\ q * z = -(q * (-1 - z)) - q
      BY <1>5
    <2> QED
      BY <1>3, <2>1
  <1>6. CASE z = 0
    BY <1>3, <1>6
  <1> QED
    BY <1>4, <1>5, <1>6

LEMMA SameRemainders ==
  ASSUME NEW x \in Int, NEW y \in Int, Same(x, y)
  PROVE  x % P = y % P
  <1>1. PICK u \in 0 .. (P - 1) : u = x % P /\ Same(u, x)
    BY SameRemainder
  <1>2. PICK w \in 0 .. (P - 1) : w = y % P /\ Same(w, y)
    BY SameRemainder
  <1>3. Same(u, y) /\ Same(y, w)
    BY <1>1, <1>2, PrimeSize, SameThen, SameBack
  <1>4. u = w
    BY <1>3, PrimeSize, SameThen, SameBelow
  <1> QED
    BY <1>1, <1>2, <1>4

(* TimesMod multiplies in two parts and still returns the residue.         *)
LEMMA TimesModIs ==
  ASSUME NEW x \in Nat, NEW y \in Nat
  PROVE  TimesMod(x, y) \in 0 .. (P - 1) /\ Same(TimesMod(x, y), x * y)
  <1>0. P \in Nat \ {0} /\ PART \in Nat \ {0}
    BY PrimeSize DEF PART
  <1>1. PICK h \in Int, l \in Int : h = y \div PART /\ l = y % PART /\ y = PART * h + l
    BY <1>0, Quotient
  <1>2. PICK u \in 0 .. (P - 1) : u = (x * h) % P /\ Same(u, x * h)
    BY SameRemainder
  <1>3. PICK w \in Int : w = u * PART + x * l
    BY <1>0, <1>2
  <1>4. Same(u * PART, (x * h) * PART)
    <2>1. u \in Int /\ x * h \in Int /\ PART \in Int
      BY <1>0
    <2> QED
      BY <1>2, <2>1, SameTimes, Zenon
  <1>5. Same(u * PART + x * l, (x * h) * PART + x * l)
    <2>1. u * PART \in Int /\ (x * h) * PART \in Int /\ x * l \in Int
      BY <1>0
    <2> QED
      BY <1>4, <2>1, SameSum, SameItself, Zenon
  <1>6. (x * h) * PART + x * l = x * y
    <2>1. x * (PART * h + l) = (x * h) * PART + x * l
      BY <1>0
    <2> QED
      BY <1>1, <2>1, Zenon
  <1>7. Same(w, x * y) /\ x * y \in Int
    <2>1. Same(w, x * y)
      BY <1>3, <1>5, <1>6, Zenon
    <2> QED
      BY <2>1
  <1>8. TimesMod(x, y) = w % P
    BY <1>1, <1>2, <1>3, Zenon DEF TimesMod
  <1>9. PICK v \in 0 .. (P - 1) : v = w % P /\ Same(v, w)
    BY SameRemainder
  <1>10. Same(v, x * y)
    BY <1>0, <1>7, <1>9, SameThen
  <1> QED
    BY <1>8, <1>9, <1>10

-----------------------------------------------------------------------------
(* The number that limbs stand for is linear in the limbs.                 *)
LEMMA ValueLinear ==
  ASSUME NEW a \in [Places -> Int], NEW b \in [Places -> Int], NEW x \in Int,
         NEW d \in [Places -> Int], \A k \in Places : d[k] = a[k] + x * b[k]
  PROVE  Value(d) = Value(a) + x * Value(b)
  <1>0. LIMBS \in Nat /\ Places = 0 .. (LIMBS - 1)
    BY Sizes
  <1>1. PICK s : AreParts(s, a) /\ Value(a) = s[LIMBS]
    BY ValueDefined
  <1>2. PICK t : AreParts(t, b) /\ Value(b) = t[LIMBS]
    BY ValueDefined
  <1>3. PICK z : AreParts(z, d) /\ Value(d) = z[LIMBS]
    BY ValueDefined
  <1>u. \A k \in 0 .. LIMBS : Unit[k] \in Int
    <2>1. Unit \in [0 .. LIMBS -> Nat \ {0}]
      BY UnitDefined
    <2>2. \A k \in 0 .. LIMBS : Unit[k] \in Nat \ {0}
      BY <2>1, Zenon
    <2> QED
      BY <2>2
  <1> DEFINE T == {k \in 0 .. LIMBS : z[k] = s[k] + x * t[k]}
  <1>4. 0 \in T
    BY <1>0, <1>1, <1>2, <1>3 DEF AreParts
  <1>5. ASSUME NEW k \in 0 .. (LIMBS - 1), k \in T PROVE k + 1 \in T
    <2>1. k + 1 \in 0 .. LIMBS /\ k \in 0 .. LIMBS /\ k \in Places
      BY <1>0
    <2>2. /\ z[k + 1] = z[k] + d[k] * Unit[k] /\ s[k + 1] = s[k] + a[k] * Unit[k]
          /\ t[k + 1] = t[k] + b[k] * Unit[k]
      BY <1>1, <1>2, <1>3 DEF AreParts
    <2>3. PICK sk \in Int, tk \in Int, ak \in Int, bk \in Int, u \in Int :
            sk = s[k] /\ tk = t[k] /\ ak = a[k] /\ bk = b[k] /\ u = Unit[k]
      <3>1. s[k] \in Int /\ t[k] \in Int
        BY <1>1, <1>2, <2>1 DEF AreParts
      <3>2. Unit[k] \in Int
        BY <1>u, <2>1
      <3> QED
        BY <2>1, <3>1, <3>2
    <2>4. z[k] = sk + x * tk
      BY <1>5, <2>3
    <2>5. d[k] = ak + x * bk
      BY <2>1, <2>3
    <2>6. z[k + 1] = (sk + x * tk) + (ak + x * bk) * u
      BY <2>2, <2>3, <2>4, <2>5, Zenon
    <2>7. s[k + 1] + x * t[k + 1] = (sk + ak * u) + x * (tk + bk * u)
      BY <2>2, <2>3, Zenon
    <2>8. (sk + x * tk) + (ak + x * bk) * u = (sk + ak * u) + x * (tk + bk * u)
      <3>1. (ak + x * bk) * u = ak * u + x * (bk * u) /\ x * (tk + bk * u) = x * tk + x * (bk * u)
        OBVIOUS
      <3>2. PICK g \in Int, h \in Int, j \in Int : g = ak * u /\ h = x * (bk * u) /\ j = x * tk
        OBVIOUS
      <3>3. (sk + j) + (g + h) = (sk + g) + (j + h)
        OBVIOUS
      <3> QED
        BY <3>1, <3>2, <3>3, Zenon
    <2>9. z[k + 1] = s[k + 1] + x * t[k + 1]
      BY <2>6, <2>7, <2>8, Zenon
    <2> QED
      BY <2>1, <2>9
  <1> HIDE DEF T
  <1>6. \A k \in 0 .. LIMBS : k \in T
    BY <1>0, <1>4, <1>5, InductionTo
  <1>7. LIMBS \in T
    BY <1>0, <1>6
  <1> QED
    BY <1>1, <1>2, <1>3, <1>7 DEF T

LEMMA ValueOfConstants ==
  Value(Zero) = 0 /\ Value(One) = 1 /\ Zero \in [Places -> Int] /\ One \in [Places -> Int]
  <1>0. LIMBS \in Nat /\ 0 \in Places /\ RADIX \in Nat /\ RADIX >= 256
    BY Sizes
  <1>1. Zero \in [Places -> Int] /\ \A k \in Places : Zero[k] = 0
    BY DEF Zero
  <1>2. Value(Zero) = 0
    <2>1. PICK v \in Int : v = Value(Zero)
      BY <1>1, ValueDefined
    <2>2. v = v + 1 * v
      <3>1. \A k \in Places : Zero[k] = Zero[k] + 1 * Zero[k]
        BY <1>1
      <3> QED
        BY <1>1, <2>1, <3>1, ValueLinear
    <2>3. v = 0
      BY <2>2
    <2> QED
      BY <2>1, <2>3, Zenon
  <1>3. One = [Zero EXCEPT ![0] = 1] /\ 1 \in Int
    BY DEF One
  <1>4. One \in [Places -> Int] /\ Value(One) = Value(Zero) + (1 - Zero[0]) * Unit[0]
    BY <1>0, <1>1, <1>3, ValueChanged, Zenon
  <1>5. Zero[0] = 0 /\ Unit[0] = 1
    BY <1>0, <1>1, UnitDefined
  <1> QED
    BY <1>1, <1>2, <1>4, <1>5

LEMMA ValueOfSums ==
  ASSUME NEW a \in [Places -> Int], NEW b \in [Places -> Int]
  PROVE  /\ Value(Plus(a, b)) = Value(a) + Value(b) /\ Plus(a, b) \in [Places -> Int]
         /\ Value(Minus(a, b)) = Value(a) - Value(b) /\ Minus(a, b) \in [Places -> Int]
  <1>1. PICK x \in Int, y \in Int : x = Value(a) /\ y = Value(b)
    BY ValueDefined
  <1>2. Plus(a, b) \in [Places -> Int] /\ \A k \in Places : Plus(a, b)[k] = a[k] + 1 * b[k]
    BY DEF Plus
  <1>3. Minus(a, b) \in [Places -> Int] /\ \A k \in Places : Minus(a, b)[k] = a[k] + (-1) * b[k]
    BY DEF Minus
  <1>4. Value(Plus(a, b)) = x + 1 * y
    BY <1>1, <1>2, ValueLinear
  <1>5. Value(Minus(a, b)) = x + (-1) * y
    BY <1>1, <1>3, ValueLinear
  <1> QED
    BY <1>1, <1>2, <1>3, <1>4, <1>5

-----------------------------------------------------------------------------
(* The limbs moved up by one place, and by n: what leaves the top comes    *)
(* back times 38.                                                          *)
Moved(a) == [k \in Places |-> IF k = 0 THEN 38 * a[Top] ELSE a[k - 1]]

MovedBy(a, n) == [k \in Places |-> IF n <= k THEN a[k - n] ELSE 38 * a[k + LIMBS - n]]

LEMMA ValueMoved ==
  ASSUME NEW a \in [Places -> Int]
  PROVE  /\ Moved(a) \in [Places -> Int]
         /\ Value(Moved(a)) = RADIX * Value(a) - (Unit[LIMBS] - 38) * a[Top]
  <1>0. /\ LIMBS \in Nat /\ Places = 0 .. (LIMBS - 1) /\ Top \in Nat /\ Top >= 1
        /\ Top + 1 = LIMBS /\ RADIX \in Nat
    BY Sizes
  <1>1. Top \in Places /\ 0 \in Places
    BY <1>0
  <1>2. Moved(a) \in [Places -> Int]
    <2>1. ASSUME NEW k \in Places PROVE (IF k = 0 THEN 38 * a[Top] ELSE a[k - 1]) \in Int
      <3>1. CASE k = 0
        BY <1>1, <3>1
      <3>2. CASE k # 0
        <4>1. k - 1 \in Places
          BY <1>0, <3>2
        <4> QED
          BY <3>2, <4>1
      <3> QED
        BY <3>1, <3>2
    <2> QED
      BY <2>1 DEF Moved
  <1>3. PICK s : AreParts(s, a) /\ Value(a) = s[LIMBS]
    BY ValueDefined
  <1>4. PICK z : AreParts(z, Moved(a)) /\ Value(Moved(a)) = z[LIMBS]
    BY <1>2, ValueDefined
  <1>5. PICK x \in Int : x = 38 * a[Top]
    BY <1>1
  <1> DEFINE T == {k \in 0 .. Top : z[k + 1] = x + RADIX * s[k]}
  <1>6. 0 \in T
    <2>1. Moved(a)[0] = x
      BY <1>1, <1>5 DEF Moved
    <2>2. z[0 + 1] = z[0] + Moved(a)[0] * Unit[0] /\ z[0] = 0 /\ s[0] = 0
      BY <1>0, <1>3, <1>4 DEF AreParts
    <2>3. Unit[0] = 1
      BY UnitDefined
    <2>4. z[0 + 1] = 0 + x * 1 /\ s[0] = 0
      BY <2>1, <2>2, <2>3, Zenon
    <2> QED
      BY <1>0, <2>4
  <1>7. ASSUME NEW k \in 0 .. (Top - 1), k \in T PROVE k + 1 \in T
    <2>1. /\ k \in Places /\ k + 1 \in Places /\ k + 1 \in 0 .. (LIMBS - 1) /\ k \in 0 .. (LIMBS - 1)
          /\ k + 1 # 0 /\ k + 1 - 1 = k /\ k + 1 \in 0 .. Top /\ k \in 0 .. LIMBS
      BY <1>0
    <2>2. Moved(a)[k + 1] = a[k]
      <3>1. Moved(a)[k + 1] = IF k + 1 = 0 THEN 38 * a[Top] ELSE a[k + 1 - 1]
        BY <2>1 DEF Moved
      <3> QED
        BY <2>1, <3>1
    <2>3. z[(k + 1) + 1] = z[k + 1] + Moved(a)[k + 1] * Unit[k + 1]
      BY <1>4, <2>1, Zenon DEF AreParts
    <2>4. s[k + 1] = s[k] + a[k] * Unit[k]
      BY <1>3, <2>1, Zenon DEF AreParts
    <2>5. Unit[k + 1] = RADIX * Unit[k]
      BY <2>1, UnitDefined
    <2>6. PICK sk \in Int, ak \in Int, u \in Int : sk = s[k] /\ ak = a[k] /\ u = Unit[k]
      <3>1. s[k] \in Int
        BY <1>3, <2>1, Zenon DEF AreParts
      <3>2. a[k] \in Int
        BY <2>1
      <3>3. Unit[k] \in Int
        <4>1. Unit[k] \in Nat \ {0}
          BY <2>1, UnitDefined, Zenon
        <4> QED
          BY <4>1
      <3> QED
        BY <3>1, <3>2, <3>3
    <2>7. z[k + 1] = x + RADIX * sk
      BY <1>7, <2>6, Zenon
    <2>8. z[(k + 1) + 1] = (x + RADIX * sk) + ak * (RADIX * u)
      BY <2>2, <2>3, <2>5, <2>6, <2>7, Zenon
    <2>9. (x + RADIX * sk) + ak * (RADIX * u) = x + RADIX * (sk + ak * u)
      BY <1>0
    <2>10. z[(k + 1) + 1] = x + RADIX * s[k + 1]
      BY <2>4, <2>6, <2>8, <2>9, Zenon
    <2> QED
      BY <2>1, <2>10
  <1>8. \A k \in 0 .. Top : k \in T
    <2> HIDE DEF T
    <2> QED
      BY <1>0, <1>6, <1>7, InductionTo
  <1>9. z[Top + 1] = x + RADIX * s[Top]
    <2>1. Top \in 0 .. Top
      BY <1>0
    <2> QED
      BY <1>8, <2>1
  <1>10. s[Top + 1] = s[Top] + a[Top] * Unit[Top] /\ Unit[Top + 1] = RADIX * Unit[Top]
    <2>1. Top \in 0 .. (LIMBS - 1)
      BY <1>0
    <2> QED
      BY <1>3, <2>1, UnitDefined, Zenon DEF AreParts
  <1>11. PICK st \in Int, at \in Int, u \in Int : st = s[Top] /\ at = a[Top] /\ u = Unit[Top]
    <2>1. Top \in 0 .. LIMBS
      BY <1>0
    <2>2. s[Top] \in Int
      BY <1>3, <2>1, Zenon DEF AreParts
    <2>3. Unit[Top] \in Nat \ {0}
      BY <2>1, UnitDefined, Zenon
    <2> QED
      BY <1>1, <2>2, <2>3
  <1>12. Value(Moved(a)) = x + RADIX * st /\ Value(a) = st + at * u /\ Unit[LIMBS] = RADIX * u
    BY <1>0, <1>3, <1>4, <1>9, <1>10, <1>11, Zenon
  <1>13. x + RADIX * st = RADIX * (st + at * u) - (RADIX * u - 38) * at
    <2>1. x = 38 * at
      BY <1>5, <1>11
    <2>2. RADIX * (st + at * u) = RADIX * st + RADIX * (at * u)
      BY <1>0
    <2>3. (RADIX * u - 38) * at = RADIX * (at * u) - 38 * at
      BY <1>0
    <2>4. PICK g \in Int, h \in Int : g = RADIX * st /\ h = RADIX * (at * u)
      BY <1>0
    <2>5. x + g = (g + h) - (h - 38 * at)
      BY <2>1
    <2> QED
      BY <2>2, <2>3, <2>4, <2>5, Zenon
  <1> QED
    BY <1>2, <1>11, <1>12, <1>13, Zenon

LEMMA MovedByIs ==
  ASSUME NEW a \in [Places -> Int]
  PROVE  /\ \A n \in Places : MovedBy(a, n) \in [Places -> Int]
         /\ MovedBy(a, 0) = a
         /\ \A n \in 0 .. (Top - 1) : MovedBy(a, n + 1) = Moved(MovedBy(a, n))
  <1>0. /\ LIMBS \in Nat /\ Places = 0 .. (LIMBS - 1) /\ Top \in Nat /\ Top >= 1
        /\ Top + 1 = LIMBS /\ Places = 0 .. Top
    BY Sizes
  <1>1. ASSUME NEW n \in Places, NEW k \in Places
        PROVE  /\ (n <= k => k - n \in Places) /\ (~(n <= k) => k + LIMBS - n \in Places)
               /\ (IF n <= k THEN a[k - n] ELSE 38 * a[k + LIMBS - n]) \in Int
    <2>1. (n <= k => k - n \in Places) /\ (~(n <= k) => k + LIMBS - n \in Places)
      BY <1>0
    <2>2. CASE n <= k
      BY <2>1, <2>2
    <2>3. CASE ~(n <= k)
      BY <2>1, <2>3
    <2> QED
      BY <2>1, <2>2, <2>3
  <1>2. ASSUME NEW n \in Places PROVE MovedBy(a, n) \in [Places -> Int]
    BY <1>1 DEF MovedBy
  <1>3. MovedBy(a, 0) = a
    <2>1. \A k \in Places : (IF 0 <= k THEN a[k - 0] ELSE 38 * a[k + LIMBS - 0]) = a[k]
      BY <1>0
    <2>2. MovedBy(a, 0) = [k \in Places |-> a[k]]
      BY <2>1 DEF MovedBy
    <2> QED
      BY <2>2
  <1>4. ASSUME NEW n \in 0 .. (Top - 1)
        PROVE  MovedBy(a, n + 1) = Moved(MovedBy(a, n))
    <2>0. n \in Places /\ n + 1 \in Places /\ Top \in Places /\ 0 \in Places
      BY <1>0
    <2> DEFINE b == MovedBy(a, n)
    <2>1. \A k \in Places : b[k] = IF n <= k THEN a[k - n] ELSE 38 * a[k + LIMBS - n]
      BY DEF MovedBy
    <2>2. \A k \in Places : MovedBy(a, n + 1)[k] =
                              IF n + 1 <= k THEN a[k - (n + 1)] ELSE 38 * a[k + LIMBS - (n + 1)]
      BY DEF MovedBy
    <2>3. \A k \in Places : Moved(b)[k] = IF k = 0 THEN 38 * b[Top] ELSE b[k - 1]
      BY DEF Moved
    <2> HIDE DEF b
    <2>4. ASSUME NEW k \in Places PROVE MovedBy(a, n + 1)[k] = Moved(b)[k]
      <3>1. CASE k = 0
        <4>1. ~(n + 1 <= k) /\ k + LIMBS - (n + 1) = Top - n /\ n <= Top
          BY <1>0, <3>1
        <4>2. MovedBy(a, n + 1)[k] = 38 * a[Top - n]
          BY <2>2, <4>1
        <4>3. b[Top] = a[Top - n]
          BY <2>0, <2>1, <4>1
        <4> QED
          BY <2>3, <3>1, <4>2, <4>3
      <3>2. CASE k # 0 /\ n + 1 <= k
        <4>1. k - 1 \in Places /\ n <= k - 1 /\ (k - 1) - n = k - (n + 1)
          BY <1>0, <3>2
        <4> QED
          BY <2>1, <2>2, <2>3, <3>2, <4>1
      <3>3. CASE k # 0 /\ ~(n + 1 <= k)
        <4>1. k - 1 \in Places /\ ~(n <= k - 1) /\ (k - 1) + LIMBS - n = k + LIMBS - (n + 1)
          BY <1>0, <3>3
        <4> QED
          BY <2>1, <2>2, <2>3, <3>3, <4>1
      <3> QED
        BY <3>1, <3>2, <3>3
    <2>5. MovedBy(a, n + 1) = [k \in Places |-> MovedBy(a, n + 1)[k]]
          /\ Moved(b) = [k \in Places |-> Moved(b)[k]]
      BY DEF MovedBy, Moved
    <2>6. MovedBy(a, n + 1) = Moved(b)
      BY <2>4, <2>5
    <2> QED
      BY <2>6 DEF b
  <1> QED
    BY <1>2, <1>3, <1>4

LEMMA MovedValue ==
  ASSUME NEW b \in [Places -> Int], NEW n \in Places
  PROVE  Same(Value(MovedBy(b, n)), Unit[n] * Value(b))
  <1>0. /\ LIMBS \in Nat /\ Places = 0 .. (LIMBS - 1) /\ Top \in Nat /\ Top >= 1
        /\ Top + 1 = LIMBS /\ Places = 0 .. Top /\ RADIX \in Nat /\ Top \in Places
    <2>1. Top \in 0 .. Top
      BY Sizes
    <2> QED
      BY <2>1, Sizes, Zenon
  <1>1. PICK v \in Int : v = Value(b)
    BY ValueDefined
  <1> DEFINE T == {k \in 0 .. Top : Same(Value(MovedBy(b, k)), Unit[k] * v)}
  <1>2. 0 \in T
    <2>1. Unit[0] * v = v
      BY UnitDefined
    <2>2. MovedBy(b, 0) = b
      BY MovedByIs
    <2>3. Same(Value(MovedBy(b, 0)), Unit[0] * v)
      BY <1>1, <2>1, <2>2, SameItself, Zenon
    <2> QED
      BY <1>0, <2>3
  <1>3. ASSUME NEW k \in 0 .. (Top - 1), k \in T PROVE k + 1 \in T
    <2>1. k \in Places /\ k + 1 \in 0 .. Top /\ k \in 0 .. (LIMBS - 1) /\ k \in 0 .. LIMBS
      BY <1>0
    <2> DEFINE m == MovedBy(b, k)
    <2>2. m \in [Places -> Int] /\ MovedBy(b, k + 1) = Moved(m)
      BY <2>1, MovedByIs
    <2>3. Same(Value(m), Unit[k] * v)
      BY <1>3
    <2> HIDE DEF m
    <2>4. PICK w \in Int, t \in Int, u \in Int : w = Value(m) /\ t = m[Top] /\ u = Unit[k]
      <3>1. Value(m) \in Int
        BY <2>2, ValueDefined
      <3>2. m[Top] \in Int
        BY <1>0, <2>2
      <3>3. Unit[k] \in Nat \ {0}
        BY <2>1, UnitDefined, Zenon
      <3> QED
        BY <3>1, <3>2, <3>3
    <2>5. Value(Moved(m)) = RADIX * w - (Unit[LIMBS] - 38) * t
      BY <2>2, <2>4, ValueMoved, Zenon
    <2>6. RADIX * w - (Unit[LIMBS] - 38) * t = RADIX * w + P * (-2 * t)
      <3>1. PICK q \in Int : q = P /\ Unit[LIMBS] - 38 = 2 * q
        BY PrimeSize
      <3>2. (2 * q) * t = 2 * (q * t) /\ q * (-2 * t) = -(2 * (q * t))
        OBVIOUS
      <3>3. RADIX * w \in Int
        BY <1>0
      <3>4. RADIX * w - (2 * q) * t = RADIX * w + q * (-2 * t)
        BY <3>2, <3>3
      <3> QED
        BY <3>1, <3>4, Zenon
    <2>7. Same(Value(Moved(m)), RADIX * w)
      <3>1. RADIX * w \in Int /\ -2 * t \in Int
        BY <1>0
      <3>2. RADIX * w + P * (-2 * t) \in Int
        BY <3>1, PrimeSize
      <3> QED
        BY <2>5, <2>6, <3>1, <3>2, SameIs, Zenon
    <2>8. Same(RADIX * w, RADIX * (u * v))
      <3>1. u * v \in Int /\ RADIX \in Int
        BY <1>0
      <3>2. Same(w, u * v)
        BY <2>3, <2>4, Zenon
      <3> QED
        BY <3>1, <3>2, SameTimes, Zenon
    <2>9. Unit[k + 1] * v = RADIX * (u * v)
      <3>1. Unit[k + 1] = RADIX * u
        BY <2>1, <2>4, UnitDefined, Zenon
      <3>2. (RADIX * u) * v = RADIX * (u * v)
        BY <1>0
      <3> QED
        BY <3>1, <3>2, Zenon
    <2>10. Same(Value(Moved(m)), RADIX * (u * v))
      <3>1. RADIX * w \in Int /\ RADIX * (u * v) \in Int
        BY <1>0
      <3>2. Value(Moved(m)) \in Int
        BY <2>2, ValueMoved, ValueDefined
      <3> QED
        BY <2>7, <2>8, <3>1, <3>2, SameThen, Zenon
    <2>11. Same(Value(MovedBy(b, k + 1)), Unit[k + 1] * v)
      BY <2>2, <2>9, <2>10, Zenon
    <2> QED
      BY <2>1, <2>11
  <1> HIDE DEF T
  <1>4. \A k \in 0 .. Top : k \in T
    BY <1>0, <1>2, <1>3, InductionTo
  <1>5. n \in T
    BY <1>0, <1>4
  <1> QED
    BY <1>1, <1>5 DEF T

-----------------------------------------------------------------------------
(* A product limb by limb is the sum of its rows: b moved by m places and  *)
(* multiplied by the limb m of a.                                          *)
Terms(a, b, n) == [k \in Places |-> a[k] * (IF n - k \in Places THEN b[n - k] ELSE 0)]

Sums(f) == CHOOSE s : AreSums(s, f) /\ Total(f) = s[LIMBS]

Rows(a, b, m) ==
  [k \in Places |-> Sums(Terms(a, b, k))[m] + 38 * Sums(Terms(a, b, k + LIMBS))[m]]

LEMMA TermsAre ==
  ASSUME NEW a \in [Places -> Int], NEW b \in [Places -> Int], NEW n \in Int
  PROVE  /\ Terms(a, b, n) \in [Places -> Int]
         /\ AreSums(Sums(Terms(a, b, n)), Terms(a, b, n))
         /\ Product(a, b, n) = Sums(Terms(a, b, n))[LIMBS]
  <1>0. Places = 0 .. (LIMBS - 1) /\ LIMBS \in Nat
    BY Sizes
  <1>1. ASSUME NEW k \in Places
        PROVE  a[k] * (IF n - k \in Places THEN b[n - k] ELSE 0) \in Int
    <2>1. PICK x \in Int : x = IF n - k \in Places THEN b[n - k] ELSE 0
      OBVIOUS
    <2>2. PICK y \in Int : y = a[k]
      OBVIOUS
    <2>3. y * x \in Int
      OBVIOUS
    <2> QED
      BY <2>1, <2>2, <2>3, Zenon
  <1>2. Terms(a, b, n) \in [Places -> Int]
    BY <1>1 DEF Terms
  <1>3. \E s : AreSums(s, Terms(a, b, n)) /\ Total(Terms(a, b, n)) = s[LIMBS]
    BY <1>2, TotalDefined
  <1>4. /\ AreSums(Sums(Terms(a, b, n)), Terms(a, b, n))
        /\ Total(Terms(a, b, n)) = Sums(Terms(a, b, n))[LIMBS]
    BY <1>3, Zenon DEF Sums
  <1>5. Product(a, b, n) = Total(Terms(a, b, n))
    BY Zenon DEF Product, Terms
  <1> QED
    BY <1>2, <1>4, <1>5, Zenon

LEMMA RowAdded ==
  ASSUME NEW a \in [Places -> Int], NEW b \in [Places -> Int], NEW m \in Places, NEW k \in Places
  PROVE  /\ Rows(a, b, m)[k] \in Int
         /\ Rows(a, b, m + 1)[k] = Rows(a, b, m)[k] + a[m] * MovedBy(b, m)[k]
  <1>0. Places = 0 .. (LIMBS - 1) /\ LIMBS \in Nat /\ m \in 0 .. LIMBS /\ m + 1 \in 0 .. LIMBS
        /\ k \in Int /\ k + LIMBS \in Int /\ m \in 0 .. (LIMBS - 1)
    BY Sizes
  <1> DEFINE lo == Terms(a, b, k)
             hi == Terms(a, b, k + LIMBS)
  <1>1. AreSums(Sums(lo), lo) /\ AreSums(Sums(hi), hi) /\ lo \in [Places -> Int] /\ hi \in [Places -> Int]
    BY <1>0, TermsAre
  <1>2. /\ lo[m] = a[m] * (IF k - m \in Places THEN b[k - m] ELSE 0)
        /\ hi[m] = a[m] * (IF (k + LIMBS) - m \in Places THEN b[(k + LIMBS) - m] ELSE 0)
    BY Zenon DEF Terms
  <1>3. /\ Rows(a, b, m)[k] = Sums(lo)[m] + 38 * Sums(hi)[m]
        /\ Rows(a, b, m + 1)[k] = Sums(lo)[m + 1] + 38 * Sums(hi)[m + 1]
    BY Zenon DEF Rows
  <1> HIDE DEF lo, hi
  <1>4. /\ Sums(lo)[m + 1] = Sums(lo)[m] + lo[m]
        /\ Sums(hi)[m + 1] = Sums(hi)[m] + hi[m]
    BY <1>0, <1>1, Zenon DEF AreSums
  <1>5. PICK x \in Int, y \in Int : x = Sums(lo)[m] /\ y = Sums(hi)[m]
    <2>1. Sums(lo)[m] \in Int
      BY <1>0, <1>1, Zenon DEF AreSums
    <2>2. Sums(hi)[m] \in Int
      BY <1>0, <1>1, Zenon DEF AreSums
    <2> QED
      BY <2>1, <2>2
  <1>6. PICK v \in Int : v = a[m]
    OBVIOUS
  <1>7. \E w \in Int : w = MovedBy(b, m)[k] /\ lo[m] + 38 * hi[m] = v * w /\ lo[m] \in Int /\ hi[m] \in Int
    <2>1. CASE m <= k
      <3>1. k - m \in Places /\ (k + LIMBS) - m \notin Places
        BY <1>0, <2>1
      <3>2. PICK w \in Int : w = b[k - m]
        BY <3>1
      <3>3. MovedBy(b, m)[k] = w
        BY <2>1, <3>2, Zenon DEF MovedBy
      <3>4. lo[m] = v * w /\ hi[m] = v * 0
        BY <1>2, <1>6, <3>1, <3>2, Zenon
      <3>5. v * w \in Int /\ v * 0 = 0
        OBVIOUS
      <3>6. PICK g \in Int : g = v * w
        BY <3>5
      <3>7. lo[m] = g /\ hi[m] = 0
        BY <3>4, <3>5, <3>6, Zenon
      <3>8. lo[m] + 38 * hi[m] = g
        BY <3>7
      <3> QED
        BY <3>3, <3>6, <3>7, <3>8
    <2>2. CASE ~(m <= k)
      <3>1. k - m \notin Places /\ (k + LIMBS) - m \in Places
        BY <1>0, <2>2
      <3>2. PICK w \in Int : w = b[(k + LIMBS) - m]
        BY <3>1
      <3>3. MovedBy(b, m)[k] = 38 * w
        <4>1. MovedBy(b, m)[k] = IF m <= k THEN b[k - m] ELSE 38 * b[k + LIMBS - m]
          BY Zenon DEF MovedBy
        <4>2. k + LIMBS - m = (k + LIMBS) - m
          BY <1>0
        <4> QED
          BY <2>2, <3>2, <4>1, <4>2, Zenon
      <3>4. lo[m] = v * 0 /\ hi[m] = v * w
        BY <1>2, <1>6, <3>1, <3>2, Zenon
      <3>5. v * w \in Int /\ v * 0 = 0 /\ v * (38 * w) = 38 * (v * w) /\ 38 * w \in Int
        OBVIOUS
      <3>6. PICK g \in Int : g = v * w
        BY <3>5
      <3>7. lo[m] = 0 /\ hi[m] = g
        BY <3>4, <3>5, <3>6, Zenon
      <3>8. lo[m] + 38 * hi[m] = 38 * g
        BY <3>7
      <3>9. lo[m] + 38 * hi[m] = v * (38 * w)
        BY <3>5, <3>6, <3>8
      <3> QED
        BY <3>3, <3>5, <3>6, <3>7, <3>9
    <2> QED
      BY <2>1, <2>2
  <1>8. PICK w \in Int : w = MovedBy(b, m)[k] /\ lo[m] + 38 * hi[m] = v * w /\ lo[m] \in Int /\ hi[m] \in Int
    BY <1>7
  <1>9. PICK l \in Int, h \in Int, g \in Int : l = lo[m] /\ h = hi[m] /\ g = v * w
    BY <1>8
  <1>10. Rows(a, b, m)[k] = x + 38 * y /\ Rows(a, b, m + 1)[k] = (x + l) + 38 * (y + h)
    BY <1>3, <1>4, <1>5, <1>9
  <1>11. (x + l) + 38 * (y + h) = (x + 38 * y) + g /\ x + 38 * y \in Int
    BY <1>8, <1>9
  <1>12. a[m] * MovedBy(b, m)[k] = g
    BY <1>6, <1>8, <1>9, Zenon
  <1> QED
    BY <1>10, <1>11, <1>12

LEMMA RowsEnds ==
  ASSUME NEW a \in [Places -> Int], NEW b \in [Places -> Int]
  PROVE  /\ Rows(a, b, 0) = Zero
         /\ \A m \in 0 .. LIMBS : Rows(a, b, m) \in [Places -> Int]
         /\ Rows(a, b, LIMBS) =
              [k \in Places |-> Product(a, b, k) + (IF k < Top THEN 38 * Product(a, b, k + LIMBS) ELSE 0)]
  <1>0. /\ Places = 0 .. (LIMBS - 1) /\ LIMBS \in Nat /\ Top \in Nat /\ Top + 1 = LIMBS
        /\ 0 \in 0 .. LIMBS /\ LIMBS \in 0 .. LIMBS
    BY Sizes
  <1>1. ASSUME NEW k \in Places
        PROVE  /\ AreSums(Sums(Terms(a, b, k)), Terms(a, b, k))
               /\ AreSums(Sums(Terms(a, b, k + LIMBS)), Terms(a, b, k + LIMBS))
               /\ Product(a, b, k) = Sums(Terms(a, b, k))[LIMBS]
               /\ Product(a, b, k + LIMBS) = Sums(Terms(a, b, k + LIMBS))[LIMBS]
    <2>1. k \in Int /\ k + LIMBS \in Int
      BY <1>0
    <2> QED
      BY <2>1, TermsAre
  <1>2. ASSUME NEW m \in 0 .. LIMBS, NEW k \in Places
        PROVE  Sums(Terms(a, b, k))[m] \in Int /\ Sums(Terms(a, b, k + LIMBS))[m] \in Int
    BY <1>1, Zenon DEF AreSums
  <1>3. ASSUME NEW m \in 0 .. LIMBS PROVE Rows(a, b, m) \in [Places -> Int]
    <2>1. ASSUME NEW k \in Places
          PROVE  Sums(Terms(a, b, k))[m] + 38 * Sums(Terms(a, b, k + LIMBS))[m] \in Int
      <3>1. PICK x \in Int, y \in Int : x = Sums(Terms(a, b, k))[m] /\ y = Sums(Terms(a, b, k + LIMBS))[m]
        BY <1>2
      <3>2. x + 38 * y \in Int
        OBVIOUS
      <3> QED
        BY <3>1, <3>2
    <2> QED
      BY <2>1 DEF Rows
  <1>4. Rows(a, b, 0) = Zero
    <2>1. ASSUME NEW k \in Places
          PROVE  Sums(Terms(a, b, k))[0] + 38 * Sums(Terms(a, b, k + LIMBS))[0] = 0
      <3>1. Sums(Terms(a, b, k))[0] = 0 /\ Sums(Terms(a, b, k + LIMBS))[0] = 0
        BY <1>1, Zenon DEF AreSums
      <3> QED
        BY <3>1
    <2> QED
      BY <2>1 DEF Rows, Zero
  <1>5. Product(a, b, Top + LIMBS) = 0
    <2> DEFINE f == Terms(a, b, Top + LIMBS)
    <2>1. Top + LIMBS \in Int
      BY <1>0
    <2>2. f \in [Places -> Int]
      BY <2>1, TermsAre
    <2>3. ASSUME NEW k \in Places PROVE f[k] = 0
      <3>1. ~((Top + LIMBS) - k \in Places)
        BY <1>0
      <3>2. f[k] = a[k] * 0
        BY <3>1, Zenon DEF Terms
      <3>3. PICK x \in Int : x = a[k]
        OBVIOUS
      <3> QED
        BY <3>2, <3>3
    <2>4. Product(a, b, Top + LIMBS) = Total(f)
      BY Zenon DEF Product, Terms
    <2> HIDE DEF f
    <2>5. Total(f) \in Int /\ Total(f) <= LIMBS * 0 /\ -(LIMBS * 0) <= Total(f)
      BY <2>2, <2>3, TotalSize
    <2> QED
      BY <1>0, <2>4, <2>5
  <1>6. ASSUME NEW k \in Places
        PROVE  Sums(Terms(a, b, k))[LIMBS] + 38 * Sums(Terms(a, b, k + LIMBS))[LIMBS]
                 = Product(a, b, k) + (IF k < Top THEN 38 * Product(a, b, k + LIMBS) ELSE 0)
    <2>1. PICK x \in Int, y \in Int : x = Product(a, b, k) /\ y = Product(a, b, k + LIMBS)
      BY <1>0, <1>1, <1>2
    <2>2. k < Top \/ (k = Top /\ y = 0)
      BY <1>0, <1>5, <2>1
    <2>3. x + 38 * y = x + (IF k < Top THEN 38 * y ELSE 0)
      BY <1>0, <2>2
    <2> QED
      BY <1>1, <2>1, <2>3, Zenon
  <1> QED
    BY <1>3, <1>4, <1>6 DEF Rows

LEMMA RowsValue ==
  ASSUME NEW a \in [Places -> Int], NEW b \in [Places -> Int]
  PROVE  Same(Value(Rows(a, b, LIMBS)), Value(a) * Value(b))
  <1>0. /\ Places = 0 .. (LIMBS - 1) /\ LIMBS \in Nat /\ LIMBS \in 0 .. LIMBS /\ 0 \in 0 .. LIMBS
    BY Sizes
  <1>1. PICK s : AreParts(s, a) /\ Value(a) = s[LIMBS]
    BY ValueDefined
  <1>2. PICK v \in Int : v = Value(b)
    BY ValueDefined
  <1> DEFINE T == {m \in 0 .. LIMBS : Same(Value(Rows(a, b, m)), s[m] * v)}
  <1>3. 0 \in T
    <2>1. Value(Rows(a, b, 0)) = 0
      BY RowsEnds, ValueOfConstants
    <2>2. s[0] = 0
      BY <1>1 DEF AreParts
    <2>3. s[0] * v = 0
      BY <2>2
    <2>4. Same(0, 0)
      BY SameItself
    <2>5. Same(Value(Rows(a, b, 0)), s[0] * v)
      BY <2>1, <2>3, <2>4, Zenon
    <2> QED
      BY <1>0, <2>5
  <1>4. ASSUME NEW m \in 0 .. (LIMBS - 1), m \in T PROVE m + 1 \in T
    <2>1. m \in Places /\ m + 1 \in 0 .. LIMBS /\ m \in 0 .. LIMBS
      BY <1>0
    <2> DEFINE r == Rows(a, b, m)
               q == Rows(a, b, m + 1)
               c == MovedBy(b, m)
    <2>2. r \in [Places -> Int] /\ q \in [Places -> Int]
      BY <2>1, RowsEnds
    <2>3. c \in [Places -> Int] /\ Same(Value(c), Unit[m] * v)
      BY <1>2, <2>1, MovedByIs, MovedValue
    <2>4. \A k \in Places : q[k] = r[k] + a[m] * c[k]
      BY <2>1, RowAdded
    <2>5. Same(Value(r), s[m] * v)
      BY <1>4
    <2> HIDE DEF r, q, c
    <2>6. PICK sm \in Int, x \in Int, u \in Int : sm = s[m] /\ x = a[m] /\ u = Unit[m]
      <3>1. s[m] \in Int
        BY <1>1, <2>1, Zenon DEF AreParts
      <3>2. a[m] \in Int
        BY <2>1
      <3>3. Unit[m] \in Nat \ {0}
        BY <2>1, UnitDefined, Zenon
      <3> QED
        BY <3>1, <3>2, <3>3
    <2>7. PICK vr \in Int, vc \in Int, vq \in Int : vr = Value(r) /\ vc = Value(c) /\ vq = Value(q)
      BY <2>2, <2>3, ValueDefined
    <2>8. vq = vr + x * vc
      <3>1. \A k \in Places : q[k] = r[k] + x * c[k]
        BY <2>4, <2>6, Zenon
      <3>2. r \in [Places -> Int] /\ c \in [Places -> Int] /\ q \in [Places -> Int] /\ x \in Int
        BY <2>2, <2>3
      <3>3. Value(q) = Value(r) + x * Value(c)
        BY ONLY <3>1, <3>2, ValueLinear
      <3> QED
        BY <2>7, <3>3, Zenon
    <2>9. PICK sv \in Int, uv \in Int : sv = sm * v /\ uv = u * v
      OBVIOUS
    <2>10. Same(vr, sv) /\ Same(vc, uv)
      BY <2>3, <2>5, <2>6, <2>7, <2>9, Zenon
    <2>11. PICK xc \in Int, xu \in Int : xc = x * vc /\ xu = x * uv
      OBVIOUS
    <2>12. Same(xc, xu)
      BY <2>10, <2>11, SameTimes, Zenon
    <2>13. Same(vr + xc, sv + xu)
      BY <2>10, <2>12, SameSum, Zenon
    <2>14. s[m + 1] = sm + x * u
      BY <1>1, <2>6, Zenon DEF AreParts
    <2>15. (sm + x * u) * v = sm * v + x * (u * v)
      OBVIOUS
    <2>16. Same(Value(q), s[m + 1] * v)
      BY <2>7, <2>8, <2>9, <2>11, <2>13, <2>14, <2>15, Zenon
    <2>17. Same(Value(Rows(a, b, m + 1)), s[m + 1] * v)
      BY <2>16 DEF q
    <2> QED
      BY <2>1, <2>17
  <1> HIDE DEF T
  <1>5. \A m \in 0 .. LIMBS : m \in T
    BY <1>0, <1>3, <1>4, InductionTo
  <1>6. LIMBS \in T
    BY <1>0, <1>5
  <1>7. Same(Value(Rows(a, b, LIMBS)), s[LIMBS] * v)
    BY <1>6 DEF T
  <1> QED
    BY <1>1, <1>2, <1>7, Zenon

(* A carry leaves the residue as it is.                                    *)
LEMMA CarrySame ==
  ASSUME NEW a \in [Places -> Int]
  PROVE  Carry(a) \in [Places -> Int] /\ Same(Value(Carry(a)), Value(a))
  <1>1. PICK c \in Int : CarriesBy(a, c)
    BY Carried
  <1>2. Carry(a) \in [Places -> Int] /\ Value(Carry(a)) = Value(a) - (Unit[LIMBS] - 38) * c
    BY <1>1 DEF CarriesBy
  <1>3. PICK w \in Int, v \in Int : w = Value(Carry(a)) /\ v = Value(a)
    BY <1>2, ValueDefined
  <1>4. PICK q \in Int : q = P /\ Unit[LIMBS] - 38 = 2 * q
    BY PrimeSize
  <1>5. v - (2 * q) * c = v + q * (-(2 * c))
    <2>1. (2 * q) * c = 2 * (q * c) /\ q * (-(2 * c)) = -(2 * (q * c))
      OBVIOUS
    <2> QED
      BY <2>1
  <1>6. w = v + P * (-(2 * c))
    BY <1>2, <1>3, <1>4, <1>5, Zenon
  <1>7. -(2 * c) \in Int
    OBVIOUS
  <1>8. Same(w, v)
    BY <1>6, <1>7, SameIs
  <1> QED
    BY <1>2, <1>3, <1>8, Zenon

(* What Times returns stands for the product, modulo the prime.            *)
LEMMA TimesValue ==
  ASSUME NEW a \in [Places -> Int], NEW b \in [Places -> Int]
  PROVE  /\ Times(a, b) \in [Places -> Int]
         /\ Same(Value(Times(a, b)), Value(a) * Value(b))
  <1> DEFINE o == Rows(a, b, LIMBS)
  <1>0. LIMBS \in 0 .. LIMBS
    BY Sizes
  <1>1. o \in [Places -> Int] /\ Same(Value(o), Value(a) * Value(b))
    BY <1>0, RowsEnds, RowsValue, Zenon
  <1>2. Times(a, b) = Carry(Carry(o))
    BY RowsEnds, Zenon DEF Times
  <1> HIDE DEF o
  <1>3. Carry(o) \in [Places -> Int] /\ Same(Value(Carry(o)), Value(o))
    BY <1>1, CarrySame
  <1>4. Carry(Carry(o)) \in [Places -> Int] /\ Same(Value(Carry(Carry(o))), Value(Carry(o)))
    BY <1>3, CarrySame
  <1>5. PICK x \in Int, y \in Int, z \in Int, p \in Int :
          x = Value(Carry(Carry(o))) /\ y = Value(Carry(o)) /\ z = Value(o)
          /\ p = Value(a) * Value(b)
    <2>1. \A x, y \in Int : x * y \in Int
      OBVIOUS
    <2>2. Value(a) * Value(b) \in Int
      BY <2>1, ValueDefined, Zenon
    <2> QED
      BY <1>1, <1>3, <1>4, <2>2, ValueDefined
  <1>6. Same(x, y) /\ Same(y, z) /\ Same(z, p)
    BY <1>1, <1>3, <1>4, <1>5, Zenon
  <1>7. Same(x, p)
    BY <1>6, SameThen, Zenon
  <1> QED
    BY <1>2, <1>4, <1>5, <1>7, Zenon

LEMMA ResidueIs ==
  ASSUME NEW a \in [Places -> Int]
  PROVE  Residue(a) \in 0 .. (P - 1) /\ Same(Residue(a), Value(a))
  <1>1. PICK v \in Int : v = Value(a)
    BY ValueDefined
  <1>2. v % P \in 0 .. (P - 1) /\ Same(v % P, v)
    BY SameRemainder
  <1> QED
    BY <1>1, <1>2, Zenon DEF Residue

LEMMA TimesModSame ==
  ASSUME NEW x \in 0 .. (P - 1), NEW y \in 0 .. (P - 1), NEW u \in Int, NEW v \in Int,
         Same(x, u), Same(y, v)
  PROVE  TimesMod(x, y) \in 0 .. (P - 1) /\ Same(TimesMod(x, y), u * v)
  <1>1. x \in Nat /\ y \in Nat /\ x \in Int /\ y \in Int
    BY PrimeSize
  <1>2. TimesMod(x, y) \in 0 .. (P - 1) /\ Same(TimesMod(x, y), x * y)
    BY <1>1, TimesModIs
  <1>3. Same(x * y, u * v)
    BY <1>1, SameProduct
  <1>4. PICK t \in 0 .. (P - 1), p \in Int, q \in Int : t = TimesMod(x, y) /\ p = x * y /\ q = u * v
    <2>1. x * y \in Int /\ u * v \in Int
      BY <1>1
    <2> QED
      BY <1>2, <2>1
  <1>5. Same(t, q)
    BY <1>2, <1>3, <1>4, PrimeSize, SameThen
  <1> QED
    BY <1>2, <1>4, <1>5, Zenon

(* The radix is even and there is more than one limb, so the prime is odd  *)
(* and the lowest limb has the parity of the number.                       *)
LEMMA PrimeOdd ==
  \E m \in Int : P = 2 * m + 1
  <1>1. PICK h \in Nat : RADIX = 2 * h
    BY HalfRadix
  <1>2. LIMBS \in Nat /\ LIMBS >= 2 /\ LIMBS - 1 \in 0 .. (LIMBS - 1) /\ LIMBS - 2 \in 0 .. (LIMBS - 1)
        /\ (LIMBS - 1) + 1 = LIMBS /\ (LIMBS - 2) + 1 = LIMBS - 1 /\ LIMBS - 2 \in 0 .. LIMBS
    BY Sizes
  <1>3. PICK u \in Nat : u = Unit[LIMBS - 2]
    <2>1. Unit[LIMBS - 2] \in Nat \ {0}
      BY <1>2, UnitDefined, Zenon
    <2> QED
      BY <2>1
  <1>4. Unit[LIMBS - 1] = RADIX * u /\ Unit[LIMBS] = RADIX * Unit[LIMBS - 1]
    BY <1>2, <1>3, UnitDefined, Zenon
  <1>5. Unit[LIMBS] = (2 * h) * ((2 * h) * u)
    BY <1>1, <1>4, Zenon
  <1>6. PICK g \in Int : g = h * (h * u)
    OBVIOUS
  <1>7. (2 * h) * ((2 * h) * u) = 4 * (h * (h * u))
    OBVIOUS
  <1>8. Unit[LIMBS] = 4 * g
    BY <1>5, <1>6, <1>7, Zenon
  <1>9. P = 2 * (g - 10) + 1 /\ g - 10 \in Int
    BY <1>8, PrimeSize
  <1> QED
    BY <1>9

LEMMA ParityOfNumber ==
  ASSUME NEW a \in [Places -> Int]
  PROVE  \E z \in Int : Value(a) = a[0] + 2 * z
  <1>0. /\ LIMBS \in Nat /\ Places = 0 .. (LIMBS - 1) /\ Top \in Nat /\ Top >= 1
        /\ Top + 1 = LIMBS /\ Places = 0 .. Top /\ 0 \in Places /\ 0 \in 0 .. (LIMBS - 1)
        /\ Top \in 0 .. Top
    BY Sizes
  <1>1. PICK s : AreParts(s, a) /\ Value(a) = s[LIMBS]
    BY ValueDefined
  <1>2. PICK h \in Nat : RADIX = 2 * h
    BY HalfRadix
  <1>3. PICK x \in Int : x = a[0]
    BY <1>0
  <1> DEFINE T == {k \in 0 .. Top : \E z \in Int : s[k + 1] = x + 2 * z}
  <1>4. 0 \in T
    <2>1. s[0 + 1] = s[0] + a[0] * Unit[0] /\ s[0] = 0 /\ Unit[0] = 1
      BY <1>0, <1>1, UnitDefined, Zenon DEF AreParts
    <2>2. s[0 + 1] = 0 + x * 1
      BY <1>3, <2>1, Zenon
    <2>3. s[0 + 1] = x + 2 * 0
      BY <2>2
    <2>4. 0 \in 0 .. Top /\ 0 \in Int
      BY <1>0
    <2> QED
      BY <2>3, <2>4, Zenon
  <1>5. ASSUME NEW k \in 0 .. (Top - 1), k \in T PROVE k + 1 \in T
    <2>1. k + 1 \in Places /\ k + 1 \in 0 .. (LIMBS - 1) /\ k \in 0 .. (LIMBS - 1)
          /\ k + 1 \in 0 .. Top /\ k \in 0 .. LIMBS
      BY <1>0
    <2>2. PICK z \in Int : s[k + 1] = x + 2 * z
      BY <1>5
    <2>3. s[(k + 1) + 1] = s[k + 1] + a[k + 1] * Unit[k + 1] /\ Unit[k + 1] = RADIX * Unit[k]
      BY <1>1, <2>1, UnitDefined, Zenon DEF AreParts
    <2>4. PICK u \in Int, y \in Int : u = Unit[k] /\ y = a[k + 1]
      <3>1. Unit[k] \in Nat \ {0}
        BY <2>1, UnitDefined, Zenon
      <3> QED
        BY <2>1, <3>1
    <2>5. s[(k + 1) + 1] = (x + 2 * z) + y * ((2 * h) * u)
      BY <1>2, <2>2, <2>3, <2>4, Zenon
    <2>6. y * ((2 * h) * u) = 2 * (y * (h * u))
      OBVIOUS
    <2>7. PICK g \in Int : g = y * (h * u)
      OBVIOUS
    <2>8. s[(k + 1) + 1] = (x + 2 * z) + 2 * g
      BY <2>5, <2>6, <2>7, Zenon
    <2>9. (x + 2 * z) + 2 * g = x + 2 * (z + g) /\ z + g \in Int
      OBVIOUS
    <2>10. s[(k + 1) + 1] = x + 2 * (z + g) /\ z + g \in Int
      BY <2>8, <2>9
    <2> QED
      BY <2>1, <2>10
  <1> HIDE DEF T
  <1>6. \A k \in 0 .. Top : k \in T
    BY <1>0, <1>4, <1>5, InductionTo
  <1>7. Top \in T
    BY <1>0, <1>6
  <1>8. \E z \in Int : s[Top + 1] = x + 2 * z
    BY <1>7 DEF T
  <1> QED
    BY <1>0, <1>1, <1>3, <1>8

(* What packs to the limbs of zero stands for a multiple of the prime, and *)
(* the parity of the packed limbs is that of the residue.                  *)
LEMMA PackedAre ==
  ASSUME NEW a \in [Places -> Int],
         \A k \in Places : a[k] <= 4 * RADIX /\ -(4 * RADIX) <= a[k]
  PROVE  /\ ~IsNonzero(a) => Same(Value(a), 0)
         /\ Parity(a) = Residue(a) % 2
  <1>0. RADIX \in Nat /\ 0 \in Places
    BY Sizes
  <1>1. Pack(a) \in [Places -> 0 .. (RADIX - 1)] /\ Value(Pack(a)) = Residue(a)
    BY Packed
  <1>2. Pack(a) \in [Places -> Int]
    BY <1>0, <1>1
  <1>3. PICK v \in Int, r \in Int : v = Value(a) /\ r = Residue(a) /\ Same(r, v)
    BY ValueDefined, ResidueIs
  <1>4. ASSUME ~IsNonzero(a) PROVE Same(Value(a), 0)
    <2>1. \A k \in Places : Pack(a)[k] = 0
      BY <1>4 DEF IsNonzero
    <2>2. Pack(a) = Zero
      BY <1>2, <2>1 DEF Zero
    <2>3. r = 0
      BY <1>1, <1>3, <2>2, ValueOfConstants, Zenon
    <2>4. Same(v, r)
      BY <1>3, SameBack
    <2> QED
      BY <1>3, <2>3, <2>4, Zenon
  <1>5. Parity(a) = Residue(a) % 2
    <2>1. PICK z \in Int : Value(Pack(a)) = Pack(a)[0] + 2 * z
      BY <1>2, ParityOfNumber
    <2>2. PICK x \in Int : x = Pack(a)[0]
      BY <1>0, <1>2
    <2>3. r = x + 2 * z
      BY <1>1, <1>3, <2>1, <2>2, Zenon
    <2>4. x % 2 = r % 2
      BY <2>3
    <2> QED
      BY <1>3, <2>2, <2>4, Zenon DEF Parity
  <1> QED
    BY <1>4, <1>5

LEMMA SignBits ==
  ASSUME NEW p \in [Places -> 0 .. (RADIX - 1)]
  PROVE  SignBit(p) \in 0 .. 1
  <1>1. PICK h \in Nat \ {0} : RADIX = 2 * h /\ RADIX \div 2 = h
    BY HalfRadix, Sizes
  <1>2. Top \in Places
    BY Sizes
  <1>3. PICK x \in Int : x = p[Top] /\ x \in 0 .. (2 * h - 1)
    BY <1>1, <1>2
  <1>4. PICK q \in Int, r \in 0 .. (h - 1) : q = x \div h /\ r = x % h /\ x = h * q + r
    BY <1>1, Quotient
  <1>5. 0 <= q /\ q < 2
    <2>1. h * q <= x /\ x < h * q + h
      BY <1>4
    <2>2. h * 0 <= x /\ x < h * 2
      BY <1>3
    <2> QED
      BY <1>1, <2>1, <2>2, QuotientWithin
  <1>6. SignBit(p) = q
    BY <1>1, <1>3, <1>4, Zenon DEF SignBit
  <1> QED
    BY <1>5, <1>6

-----------------------------------------------------------------------------
(* What the steps of unpackneg do to the numbers.                          *)
LEMMA SidesFound ==
  ASSUME NEW u \in [Places -> Int]
  PROVE  /\ Same(Value(Minus(Times(u, u), One)), Value(u) * Value(u) - 1)
         /\ Same(Value(Plus(One, Times(Times(u, u), D))), 1 + (Value(u) * Value(u)) * Value(D))
  <1> DEFINE t == Times(u, u)
             e == Times(t, D)
  <1>1. One \in [Places -> Int] /\ Value(One) = 1
    BY ValueOfConstants
  <1>2. D \in [Places -> Int]
    BY FieldAssumption
  <1>3. t \in [Places -> Int] /\ Same(Value(t), Value(u) * Value(u))
    BY TimesValue
  <1>4. e \in [Places -> Int] /\ Same(Value(e), Value(t) * Value(D))
    BY <1>2, <1>3, TimesValue
  <1> HIDE DEF t, e
  <1>5. PICK y \in Int, d \in Int, vt \in Int, ve \in Int :
          y = Value(u) /\ d = Value(D) /\ vt = Value(t) /\ ve = Value(e)
    BY <1>2, <1>3, <1>4, ValueDefined
  <1>6. PICK yy \in Int, td \in Int, yd \in Int : yy = y * y /\ td = vt * d /\ yd = yy * d
    OBVIOUS
  <1>7. Same(vt, yy) /\ Same(ve, td)
    BY <1>3, <1>4, <1>5, <1>6, Zenon
  <1>8. Same(td, yd)
    BY <1>6, <1>7, SameTimes, Zenon
  <1>9. Same(ve, yd)
    BY <1>7, <1>8, SameThen
  <1>10. Same(1, 1) /\ 1 \in Int
    BY SameItself
  <1>11. Same(vt - 1, yy - 1) /\ Same(1 + ve, 1 + yd)
    BY <1>7, <1>9, <1>10, SameSum
  <1>12. Value(Minus(t, One)) = vt - 1 /\ Value(Plus(One, e)) = 1 + ve
    <2>1. Value(Minus(t, One)) = Value(t) - Value(One) /\ Value(Plus(One, e)) = Value(One) + Value(e)
      BY <1>1, <1>3, <1>4, ValueOfSums
    <2> QED
      BY <1>1, <1>5, <2>1, Zenon
  <1>13. Same(Value(Minus(t, One)), Value(u) * Value(u) - 1)
    BY <1>5, <1>6, <1>11, <1>12, Zenon
  <1>14. Same(Value(Plus(One, e)), 1 + (Value(u) * Value(u)) * Value(D))
    BY <1>5, <1>6, <1>11, <1>12, Zenon
  <1> QED
    BY <1>13, <1>14, Zenon DEF t, e

LEMMA CheckFound ==
  ASSUME NEW c \in [Places -> Int], NEW e \in [Places -> Int], NEW x \in Int,
         Same(Value(c), x * x)
  PROVE  Same(Value(Times(c, e)), (x * x) * Value(e))
  <1>1. Times(c, e) \in [Places -> Int] /\ Same(Value(Times(c, e)), Value(c) * Value(e))
    BY TimesValue
  <1>2. PICK vt \in Int, vc \in Int, ve \in Int, xx \in Int :
          vt = Value(Times(c, e)) /\ vc = Value(c) /\ ve = Value(e) /\ xx = x * x
    BY <1>1, ValueDefined
  <1>3. PICK ce \in Int, xe \in Int : ce = vc * ve /\ xe = xx * ve
    OBVIOUS
  <1>4. Same(vt, ce) /\ Same(vc, xx)
    BY <1>1, <1>2, <1>3, Zenon
  <1>5. Same(ce, xe)
    BY <1>3, <1>4, SameTimes, Zenon
  <1>6. Same(vt, xe)
    BY <1>4, <1>5, SameThen
  <1> QED
    BY <1>2, <1>3, <1>6, Zenon

LEMMA CandidateKept ==
  ASSUME NEW c \in Int, NEW n \in Int, NEW p \in Int, Same(c, p), Same(c - n, 0)
  PROVE  Same(p, 1 * n)
  <1>1. Same(p, c)
    BY SameBack
  <1>2. Same((c - n) + n, 0 + n)
    <2>1. PICK k \in Int : k = c - n
      OBVIOUS
    <2>2. Same(k, 0) /\ Same(n, n)
      BY <2>1, SameItself
    <2>3. Same(k + n, 0 + n)
      BY <2>2, SameSum
    <2> QED
      BY <2>1, <2>3, Zenon
  <1>3. (c - n) + n = c /\ 0 + n = n /\ 1 * n = n
    OBVIOUS
  <1>4. Same(c, n)
    BY <1>2, <1>3, Zenon
  <1>5. Same(p, n)
    BY <1>1, <1>4, SameThen
  <1> QED
    BY <1>3, <1>5, Zenon

LEMMA CandidateTurned ==
  ASSUME NEW c \in Int, NEW n \in Int, NEW x \in Int, NEW e \in Int, NEW i \in Int, NEW z \in Int,
         Same(c, (x * x) * e), Same(c + n, 0), Same(z, x * i)
  PROVE  Same((z * z) * e, (-(i * i)) * n)
  <1>1. PICK xi \in Int, q \in Int, ii \in Int : xi = x * i /\ q = (x * x) * e /\ ii = i * i
    OBVIOUS
  <1>2. PICK zz \in Int, w \in Int : zz = z * z /\ w = xi * xi
    OBVIOUS
  <1>3. PICK ze \in Int, we \in Int : ze = zz * e /\ we = w * e
    OBVIOUS
  <1>4. Same(ze, we)
    <2>1. Same(z, xi)
      BY <1>1, Zenon
    <2>2. Same(zz, w)
      BY <1>2, <2>1, SameProduct, Zenon
    <2> QED
      BY <1>3, <2>2, SameTimes, Zenon
  <1>5. we = ii * q
    <2>1. ((x * i) * (x * i)) * e = (i * i) * ((x * x) * e)
      OBVIOUS
    <2> QED
      BY <1>1, <1>2, <1>3, <2>1, Zenon
  <1>6. Same(q, -n)
    <2>1. PICK k \in Int : k = c + n
      OBVIOUS
    <2>2. Same(k, 0) /\ Same(n, n)
      BY <2>1, SameItself
    <2>3. Same(k - n, 0 - n)
      BY <2>2, SameSum
    <2>4. k - n = c /\ 0 - n = -n
      BY <2>1
    <2>5. Same(c, -n) /\ Same(c, q)
      BY <1>1, <2>3, <2>4, Zenon
    <2> QED
      BY <2>5, SameBack, SameThen
  <1>7. PICK m \in Int, g \in Int, h \in Int : m = -n /\ g = ii * q /\ h = ii * m
    OBVIOUS
  <1>8. Same(g, h)
    BY <1>6, <1>7, SameTimes, Zenon
  <1>9. ii * (-n) = (-ii) * n
    OBVIOUS
  <1>10. Same(ze, h)
    BY <1>4, <1>5, <1>7, <1>8, SameThen, Zenon
  <1> QED
    BY <1>1, <1>2, <1>3, <1>7, <1>9, <1>10, Zenon

LEMMA Negated ==
  ASSUME NEW a \in [Places -> Int]
  PROVE  Minus(Zero, a) \in [Places -> Int] /\ Value(Minus(Zero, a)) = -Value(a)
  <1>1. PICK v \in Int : v = Value(a)
    BY ValueDefined
  <1>2. Minus(Zero, a) \in [Places -> Int] /\ Value(Minus(Zero, a)) = 0 - v
    BY <1>1, ValueOfConstants, ValueOfSums
  <1> QED
    BY <1>1, <1>2

(* The residue of the negative has the other parity, the prime being odd.  *)
LEMMA NegatedParity ==
  ASSUME NEW a \in [Places -> Int], Residue(a) # 0
  PROVE  Residue(Minus(Zero, a)) % 2 = 1 - (Residue(a) % 2)
  <1>1. PICK v \in Int : v = Value(a)
    BY ValueDefined
  <1>2. PICK r \in 1 .. (P - 1) : r = Residue(a) /\ Same(r, v)
    <2>1. Residue(a) \in 0 .. (P - 1) /\ Same(Residue(a), v)
      BY <1>1, ResidueIs
    <2> QED
      BY <2>1, PrimeSize
  <1>3. PICK n \in 0 .. (P - 1) : n = Residue(Minus(Zero, a)) /\ Same(n, -v)
    <2>1. Minus(Zero, a) \in [Places -> Int] /\ Value(Minus(Zero, a)) = -v
      BY <1>1, Negated, Zenon
    <2> QED
      BY <2>1, ResidueIs
  <1>4. P - r \in 0 .. (P - 1) /\ P - r \in Int /\ r \in Int /\ n \in Int
    BY PrimeSize
  <1>5. Same(P - r, -v)
    <2>1. PICK q \in Int : q = P
      BY PrimeSize
    <2>a. q = 0 + q * 1
      OBVIOUS
    <2>b. Same(q, 0)
      <3>1. q = 0 + P * 1 /\ 0 \in Int /\ 1 \in Int
        BY <2>1, <2>a
      <3> QED
        BY <3>1, SameIs, Zenon
    <2>2. Same(P, 0) /\ P \in Int
      <3>1. Same(P, 0)
        BY <2>1, <2>b, Zenon
      <3>2. P \in Int
        BY PrimeSize
      <3> QED
        BY <3>1, <3>2
    <2>3. Same(P - r, 0 - v)
      BY <1>2, <1>4, <2>2, SameSum
    <2>4. 0 - v = -v
      OBVIOUS
    <2> QED
      BY <2>3, <2>4, Zenon
  <1>6. n = P - r
    <2>1. Same(-v, P - r)
      BY <1>4, <1>5, SameBack
    <2>2. Same(n, P - r)
      BY <1>3, <1>4, <2>1, SameThen
    <2> QED
      BY <1>4, <2>2, SameBelow
  <1>7. PICK m \in Int : P = 2 * m + 1
    BY PrimeOdd
  <1>8. n % 2 = 1 - (r % 2)
    BY <1>4, <1>6, <1>7
  <1> QED
    BY <1>2, <1>3, <1>8, Zenon

LEMMA SignFound ==
  ASSUME NEW a, Sized(a), NEW b \in 0 .. 1, NEW z,
         z = IF Parity(a) # b THEN Minus(Zero, a) ELSE a
  PROVE  /\ Value(z) * Value(z) = Value(a) * Value(a)
         /\ Residue(z) # 0 => Residue(z) % 2 = b
  <1>1. a \in [Places -> Int] /\ Parity(a) = Residue(a) % 2
    BY WithinPack, PackedAre
  <1>2. PICK v \in Int, r \in Int : v = Value(a) /\ r = Residue(a) /\ r \in 0 .. (P - 1)
    BY <1>1, ValueDefined, ResidueIs, PrimeSize
  <1>3. CASE Parity(a) = b
    <2>1. z = a
      BY <1>3
    <2> QED
      BY <1>1, <1>3, <2>1, Zenon
  <1>4. CASE Parity(a) # b
    <2>1. z = Minus(Zero, a)
      BY <1>4
    <2>2. Value(z) = -v
      BY <1>1, <1>2, <2>1, Negated, Zenon
    <2>3. (-v) * (-v) = v * v
      OBVIOUS
    <2>4. Value(z) * Value(z) = Value(a) * Value(a)
      BY <1>2, <2>2, <2>3, Zenon
    <2>5. ASSUME Residue(z) # 0 PROVE Residue(z) % 2 = b
      <3>1. CASE r # 0
        <4>1. Residue(z) % 2 = 1 - (r % 2)
          BY <1>1, <1>2, <2>1, <3>1, NegatedParity, Zenon
        <4>2. r % 2 # b /\ r % 2 \in 0 .. 1
          BY <1>1, <1>2, <1>4
        <4> QED
          BY <4>1, <4>2
      <3>2. CASE r = 0
        <4>1. Same(0, v)
          BY <1>1, <1>2, <3>2, ResidueIs, Zenon
        <4>2. PICK k \in Int : 0 = v + P * k
          BY <4>1 DEF Same
        <4>3. -v = 0 + P * k
          BY <4>2, PrimeSize
        <4>4. Same(-v, 0)
          BY <4>3, SameIs
        <4>5. (-v) % P = 0 % P
          BY <4>4, SameRemainders
        <4>6. 0 % P = 0
          BY PrimeSize
        <4>7. Residue(z) = 0
          BY <2>2, <4>5, <4>6, Zenon DEF Residue
        <4> QED
          BY <2>5, <4>7
      <3> QED
        BY <3>1, <3>2
    <2> QED
      BY <2>4, <2>5
  <1> QED
    BY <1>3, <1>4

-----------------------------------------------------------------------------
(* The second invariant of unpackneg: what its registers stand for, in     *)
(* terms of y and of the candidate, from where it is set on.               *)
Sides(g, p) ==
  /\ Same(Value(g["num"]), Value(Unpack(p)) * Value(Unpack(p)) - 1)
  /\ Same(Value(g["den"]), 1 + (Value(Unpack(p)) * Value(Unpack(p))) * Value(D))

Squared(g) == Same(Value(g["chk"]), Value(g["rx"]) * Value(g["rx"]))

Checked(g) == Same(Value(g["chk"]), (Value(g["rx"]) * Value(g["rx"])) * Value(g["den"]))

Solved(g) ==
  \E f \in {1, -(Value(I) * Value(I))} :
    Same((Value(g["rx"]) * Value(g["rx"])) * Value(g["den"]), f * Value(g["num"]))

Signed(g, p) == Residue(g["rx"]) # 0 => Residue(g["rx"]) % 2 = SignBit(p)

CurveInv ==
  /\ pc \notin {"decode", "curve"} => Sides(reg, input)
  /\ pc = "lines" /\ line = 11 => Squared(reg)
  /\ pc = "check" => Checked(reg)
  /\ pc \in {"sign", "accepted"} => Solved(reg)
  /\ pc = "accepted" => Signed(reg, input)

LEMMA SidesKept ==
  ASSUME NEW g, NEW h, NEW p, Sides(g, p), h["num"] = g["num"], h["den"] = g["den"]
  PROVE  Sides(h, p)
  BY Zenon DEF Sides

LEMMA CurveInvInit ==
  Init => CurveInv
  BY DEF Init, CurveInv

LEMMA CurveInvStep ==
  FieldInv /\ CurveInv /\ [Next]_vars => CurveInv'
  <1> SUFFICES ASSUME FieldInv, CurveInv, [Next]_vars PROVE CurveInv'
    OBVIOUS
  <1>r. {"num", "den", "t", "c", "rx", "chk"} \subseteq Registers
    BY DEF Registers
  <1>s. ASSUME NEW r \in {"num", "den", "t", "c", "rx", "chk"}
        PROVE  /\ Sized(reg[r]) /\ reg[r] \in [Places -> Int] /\ Value(reg[r]) \in Int
    <2>1. Sized(reg[r])
      BY <1>r DEF FieldInv, LimbsSized, Sized
    <2>2. reg[r] \in [Places -> Int]
      BY <2>1, WithinPack
    <2> QED
      BY <2>1, <2>2, ValueDefined
  <1>d. DOMAIN reg = Registers
    BY DEF FieldInv, LimbsSized
  <1>u. /\ input \in [Places -> 0 .. (RADIX - 1)] /\ Sized(Unpack(input))
        /\ Unpack(input) \in [Places -> Int]
    <2>1. input \in [Places -> 0 .. (RADIX - 1)]
      BY DEF FieldInv
    <2>2. Sized(Unpack(input))
      BY <2>1, UnpackSized
    <2> QED
      BY <2>1, <2>2, WithinPack
  <1>1. CASE Decode
    BY <1>1 DEF Decode, CurveInv
  <1>2. CASE Curve
    <2>1. pc = "curve" /\ pc' = "lines" /\ line = 1 /\ UNCHANGED <<line, input>>
      BY <1>2 DEF Curve, FieldInv
    <2>2. reg["num"] = Times(Unpack(input), Unpack(input))
      BY <2>1 DEF FieldInv, Square
    <2>3. /\ reg'["num"] = Minus(reg["num"], One)
          /\ reg'["den"] = Plus(One, Times(reg["num"], D))
      <3>1. reg' = [reg EXCEPT !["num"] = Minus(reg["num"], One), !["den"] = Plus(One, Times(reg["num"], D))]
        BY <1>2 DEF Curve
      <3> QED
        BY <1>d, <1>r, <3>1
    <2>4. Sides(reg', input)
      BY <1>u, <2>2, <2>3, SidesFound, Zenon DEF Sides
    <2> QED
      BY <2>1, <2>4 DEF CurveInv
  <1>3. CASE Multiply
    <2>1. line \in 1 .. 11 /\ line' = line + 1 /\ pc = "lines" /\ UNCHANGED input
      BY <1>3 DEF Multiply, FieldInv
    <2> DEFINE r == Lines[line][1]
    <2>2. r \in Registers \ {"num", "den"}
      BY <2>1, LineNames
    <2>3. reg' = [reg EXCEPT ![r] = Times(reg[Lines[line][2]], reg[Lines[line][3]])]
      BY <1>3 DEF Multiply
    <2>4. reg'["num"] = reg["num"] /\ reg'["den"] = reg["den"]
      <3> HIDE DEF r
      <3> QED
        BY <1>d, <2>2, <2>3
    <2>5. Sides(reg', input)
      BY <2>1, <2>4, SidesKept DEF CurveInv
    <2>6. ASSUME line = 10 PROVE Squared(reg') /\ pc' = "lines"
      <3>1. Lines[line] = <<"chk", "rx", "rx">>
        BY <2>6 DEF Lines
      <3>2. reg' = [reg EXCEPT !["chk"] = Times(reg["rx"], reg["rx"])]
        BY <2>3, <3>1
      <3>3. reg'["chk"] = Times(reg["rx"], reg["rx"]) /\ reg'["rx"] = reg["rx"]
        BY <1>d, <1>r, <3>2
      <3>4. Same(Value(Times(reg["rx"], reg["rx"])), Value(reg["rx"]) * Value(reg["rx"]))
        BY <1>s, TimesValue
      <3>5. Squared(reg')
        BY <3>3, <3>4, Zenon DEF Squared
      <3>6. pc' = "lines"
        BY <1>3, <2>6 DEF Multiply
      <3> QED
        BY <3>5, <3>6
    <2>7. ASSUME line = 11 PROVE Checked(reg') /\ pc' = "check"
      <3>1. Lines[line] = <<"chk", "chk", "den">>
        BY <2>7 DEF Lines
      <3>2. reg' = [reg EXCEPT !["chk"] = Times(reg["chk"], reg["den"])]
        BY <2>3, <3>1
      <3>3. /\ reg'["chk"] = Times(reg["chk"], reg["den"])
            /\ reg'["rx"] = reg["rx"] /\ reg'["den"] = reg["den"]
        BY <1>d, <1>r, <3>2
      <3>4. Same(Value(reg["chk"]), Value(reg["rx"]) * Value(reg["rx"]))
        BY <2>1, <2>7 DEF CurveInv, Squared
      <3>5. Same(Value(Times(reg["chk"], reg["den"])),
                 (Value(reg["rx"]) * Value(reg["rx"])) * Value(reg["den"]))
        BY <1>s, <3>4, CheckFound
      <3>6. Checked(reg')
        BY <3>3, <3>5, Zenon DEF Checked
      <3>7. pc' = "check"
        BY <1>3, <2>7 DEF Multiply
      <3> QED
        BY <3>6, <3>7
    <2>8. /\ line' = 11 => line = 10
          /\ line # 11 => pc' \in {"enter", "lines"}
      BY <1>3, <2>1 DEF Multiply
    <2>9. pc' \in {"enter", "lines", "check"} /\ input' = input
      BY <1>3, <2>1 DEF Multiply
    <2>10. pc' = "lines" /\ line' = 11 => Squared(reg')
      BY <2>6, <2>8
    <2>11. pc' = "check" => Checked(reg')
      BY <2>7, <2>8
    <2> QED
      BY <2>5, <2>9, <2>10, <2>11 DEF CurveInv
  <1>p. ASSUME pc \in {"enter", "square", "times", "leave"}, UNCHANGED <<line, input>>,
               NEW r \in {"c", "t"}, NEW v, reg' = [reg EXCEPT ![r] = v],
               pc' \in {"square", "times", "leave", "lines"}
        PROVE  CurveInv'
    <2>1. reg'["num"] = reg["num"] /\ reg'["den"] = reg["den"]
      BY <1>d, <1>p, <1>r
    <2>2. Sides(reg', input)
      BY <1>p, <2>1, SidesKept DEF CurveInv
    <2>3. line' = 6 /\ input' = input
      BY <1>p DEF FieldInv
    <2> QED
      BY <1>p, <2>2, <2>3 DEF CurveInv
  <1>4. CASE EnterPower
    BY <1>4, <1>p DEF EnterPower
  <1>5. CASE PowerSquare
    BY <1>5, <1>p DEF PowerSquare
  <1>6. CASE PowerTimes
    BY <1>6, <1>p DEF PowerTimes
  <1>7. CASE LeavePower
    BY <1>7, <1>p DEF LeavePower
  <1> DEFINE x == Value(reg["rx"])
             n == Value(reg["num"])
             e == Value(reg["den"])
             c == Value(reg["chk"])
  <1>i. x \in Int /\ n \in Int /\ e \in Int /\ c \in Int
    BY <1>s
  <1>q. (x * x) * e \in Int
    <2>1. \A k, m \in Int : (k * k) * m \in Int
      OBVIOUS
    <2> QED
      BY <1>i, <2>1, Zenon
  <1>8. CASE Accept
    <2>1. pc = "check" /\ pc' = "sign" /\ IsRoot /\ UNCHANGED <<line, input, reg>>
      BY <1>8 DEF Accept
    <2>2. Same(c - n, 0)
      <3>1. Value(Minus(reg["chk"], reg["num"])) = c - n
        BY <1>s, ValueOfSums
      <3>2. Same(Value(Minus(reg["chk"], reg["num"])), 0)
        BY <1>s, <2>1, WithinPack, PackedAre DEF IsRoot
      <3> QED
        BY <3>1, <3>2, Zenon
    <2>3. Same(c, (x * x) * e)
      BY <2>1 DEF CurveInv, Checked
    <2>4. Same((x * x) * e, 1 * n)
      <3> HIDE DEF x, n, e, c
      <3> QED
        BY <1>i, <1>q, <2>2, <2>3, CandidateKept, Zenon
    <2>5. Solved(reg)
      BY <2>4, Zenon DEF Solved
    <2>6. Sides(reg, input)
      BY <2>1 DEF CurveInv
    <2> QED
      BY <2>1, <2>5, <2>6 DEF CurveInv
  <1>9. CASE Turn
    <2>1. pc = "check" /\ pc' = "sign" /\ IsRootOfMinus /\ UNCHANGED <<line, input>>
      BY <1>9 DEF Turn
    <2>2. /\ reg'["rx"] = Times(reg["rx"], I) /\ reg'["num"] = reg["num"]
          /\ reg'["den"] = reg["den"]
      <3>1. reg' = [reg EXCEPT !["rx"] = Times(reg["rx"], I)]
        BY <1>9 DEF Turn
      <3> QED
        BY <1>d, <1>r, <3>1
    <2>3. Same(c + n, 0)
      <3>1. Value(Plus(reg["chk"], reg["num"])) = c + n
        BY <1>s, ValueOfSums
      <3>2. Same(Value(Plus(reg["chk"], reg["num"])), 0)
        BY <1>s, <2>1, WithinPack, PackedAre DEF IsRootOfMinus
      <3> QED
        BY <3>1, <3>2, Zenon
    <2>4. Same(c, (x * x) * e)
      BY <2>1 DEF CurveInv, Checked
    <2> DEFINE z == Value(Times(reg["rx"], I))
               i == Value(I)
    <2>5. I \in [Places -> Int] /\ i \in Int
      <3>1. I \in [Places -> Int]
        BY FieldAssumption
      <3> QED
        BY <3>1, ValueDefined
    <2>6. z \in Int /\ Same(z, x * i)
      BY <1>s, <2>5, TimesValue, ValueDefined
    <2>7. Same((z * z) * e, (-(i * i)) * n)
      <3> HIDE DEF x, n, e, c, z, i
      <3> QED
        BY <1>i, <2>3, <2>4, <2>5, <2>6, CandidateTurned
    <2>8. Solved(reg')
      BY <2>2, <2>7, Zenon DEF Solved
    <2>9. Sides(reg', input)
      BY <2>1, <2>2, SidesKept DEF CurveInv
    <2> QED
      BY <2>1, <2>8, <2>9 DEF CurveInv
  <1>10. CASE Reject
    BY <1>10 DEF Reject, CurveInv
  <1>11. CASE Sign
    <2>1. pc = "sign" /\ pc' = "accepted" /\ UNCHANGED <<line, input>>
      BY <1>11 DEF Sign
    <2>2. PICK a : /\ a = IF Parity(reg["rx"]) # SignBit(input) THEN Minus(Zero, reg["rx"])
                                                              ELSE reg["rx"]
                   /\ reg' = [reg EXCEPT !["rx"] = a]
      BY <1>11 DEF Sign
    <2>3. reg'["rx"] = a /\ reg'["num"] = reg["num"] /\ reg'["den"] = reg["den"]
      BY <1>d, <1>r, <2>2
    <2>4. /\ Value(a) * Value(a) = Value(reg["rx"]) * Value(reg["rx"])
          /\ Residue(a) # 0 => Residue(a) % 2 = SignBit(input)
      <3>1. SignBit(input) \in 0 .. 1
        BY <1>u, SignBits
      <3> QED
        BY <1>s, <2>2, <3>1, SignFound
    <2>5. Solved(reg)
      BY <2>1 DEF CurveInv
    <2>6. Solved(reg')
      BY <2>3, <2>4, <2>5, Zenon DEF Solved
    <2>7. Signed(reg', input)
      BY <2>3, <2>4, Zenon DEF Signed
    <2>8. Sides(reg', input)
      BY <2>1, <2>3, SidesKept DEF CurveInv
    <2> QED
      BY <2>1, <2>6, <2>7, <2>8 DEF CurveInv
  <1>12. CASE UNCHANGED vars
    BY <1>12 DEF vars, CurveInv
  <1> QED
    BY <1>1, <1>2, <1>3, <1>4, <1>5, <1>6, <1>7, <1>8, <1>9, <1>10, <1>11, <1>12 DEF Next

(* The residues that TimesMod computes are those of the numbers.           *)
LEMMA PointsFromInv ==
  FieldInv /\ CurveInv => AcceptsPoints
  <1> SUFFICES ASSUME FieldInv, CurveInv, pc = "accepted" PROVE AcceptsPoints
    BY DEF AcceptsPoints
  <1> DEFINE rx == Residue(reg["rx"])
             ry == Residue(Unpack(input))
             rd == Residue(D)
             ri == Residue(I)
             x2 == TimesMod(rx, rx)
             y2 == TimesMod(ry, ry)
             side == (1 + TimesMod(rd, y2)) % P
             other == (y2 - 1) % P
             product == TimesMod(x2, side)
             x == Value(reg["rx"])
             y == Value(Unpack(input))
             d == Value(D)
             i == Value(I)
             n == Value(reg["num"])
             e == Value(reg["den"])
  <1>1. /\ reg["rx"] \in [Places -> Int] /\ reg["num"] \in [Places -> Int]
        /\ reg["den"] \in [Places -> Int] /\ Unpack(input) \in [Places -> Int]
        /\ D \in [Places -> Int] /\ I \in [Places -> Int]
    <2>1. /\ Sized(reg["rx"]) /\ Sized(reg["num"]) /\ Sized(reg["den"])
      BY DEF FieldInv, LimbsSized, Registers, Sized
    <2>2. Sized(Unpack(input)) /\ Sized(D) /\ Sized(I)
      BY UnpackSized, ConstantsSized DEF FieldInv
    <2> QED
      BY <2>1, <2>2, WithinPack
  <1>2. x \in Int /\ y \in Int /\ d \in Int /\ i \in Int /\ n \in Int /\ e \in Int
    BY <1>1, ValueDefined
  <1>3. /\ rx \in 0 .. (P - 1) /\ Same(rx, x) /\ ry \in 0 .. (P - 1) /\ Same(ry, y)
        /\ rd \in 0 .. (P - 1) /\ Same(rd, d) /\ ri \in 0 .. (P - 1) /\ Same(ri, i)
    BY <1>1, ResidueIs
  <1>4. Same(n, y * y - 1) /\ Same(e, 1 + (y * y) * d)
    BY Zenon DEF CurveInv, Sides
  <1>5. \E f \in {1, -(i * i)} : Same((x * x) * e, f * n)
    BY Zenon DEF CurveInv, Solved
  <1>6. rx # 0 => rx % 2 = SignBit(input)
    BY Zenon DEF CurveInv, Signed
  <1>p. P \in Nat \ {0} /\ 1 \in 0 .. (P - 1)
    BY PrimeSize
  <1> HIDE DEF rx, ry, rd, ri, x, y, d, i, n, e
  <1>7. x2 \in 0 .. (P - 1) /\ Same(x2, x * x)
    BY <1>2, <1>3, TimesModSame, Zenon
  <1>8. y2 \in 0 .. (P - 1) /\ Same(y2, y * y)
    BY <1>2, <1>3, TimesModSame, Zenon
  <1>9. PICK xx \in Int, yy \in Int, ii \in Int : xx = x * x /\ yy = y * y /\ ii = i * i
    BY <1>2
  <1>10. PICK s \in 0 .. (P - 1) : s = TimesMod(rd, y2) /\ Same(s, d * yy)
    <2>1. Same(y2, yy)
      BY <1>8, <1>9, Zenon
    <2> QED
      BY <1>2, <1>3, <1>8, <1>9, <2>1, TimesModSame
  <1>11. PICK t \in 0 .. (P - 1) : t = ri /\ Same(t, i)
    BY <1>3
  <1>12. PICK q \in 0 .. (P - 1) : q = TimesMod(ri, ri) /\ Same(q, ii)
    <2>1. TimesMod(ri, ri) \in 0 .. (P - 1) /\ Same(TimesMod(ri, ri), i * i)
      BY <1>2, <1>3, TimesModSame, Zenon
    <2> QED
      BY <1>9, <2>1
  <1>13. side \in 0 .. (P - 1) /\ Same(side, e)
    <2>1. PICK w \in Int, ds \in Int : w = 1 + s /\ ds = d * yy
      BY <1>2, <1>p
    <2>2. side \in 0 .. (P - 1) /\ Same(side, w)
      BY <1>10, <2>1, SameRemainder
    <2>3. Same(s, ds) /\ Same(1, 1) /\ s \in Int /\ 1 \in Int
      BY <1>10, <1>p, <2>1, SameItself
    <2>4. Same(w, 1 + ds)
      BY <2>1, <2>3, SameSum
    <2>5. yy * d = d * yy
      BY <1>2
    <2>6. Same(e, 1 + ds)
      BY <1>4, <1>9, <2>1, <2>5, Zenon
    <2>7. 1 + ds \in Int
      OBVIOUS
    <2>8. Same(1 + ds, e)
      BY <1>2, <2>6, <2>7, SameBack, Zenon
    <2>9. Same(w, e)
      BY <1>2, <2>4, <2>7, <2>8, SameThen, Zenon
    <2>10. PICK z \in Int : z = side
      BY <1>p, <2>2
    <2>11. Same(z, e)
      BY <1>2, <2>2, <2>9, <2>10, SameThen, Zenon
    <2> QED
      BY <2>2, <2>10, <2>11, Zenon
  <1>14. other \in 0 .. (P - 1) /\ Same(other, n)
    <2>1. PICK w \in Int, v \in Int, k \in Int : w = y2 - 1 /\ v = yy - 1 /\ k = y2
      BY <1>8, <1>p
    <2>2. other \in 0 .. (P - 1) /\ Same(other, w)
      BY <2>1, SameRemainder
    <2>3. Same(w, v)
      <3>1. Same(k, yy) /\ Same(1, 1) /\ 1 \in Int
        BY <1>8, <1>9, <2>1, SameItself
      <3>2. Same(k - 1, yy - 1)
        BY <3>1, SameSum
      <3> QED
        BY <2>1, <3>2, Zenon
    <2>4. Same(v, n)
      <3>1. Same(n, v)
        BY <1>4, <1>9, <2>1, Zenon
      <3> QED
        BY <1>2, <3>1, SameBack
    <2>5. Same(w, n)
      BY <1>2, <2>3, <2>4, SameThen
    <2>6. PICK z \in Int : z = other
      BY <1>p, <2>2
    <2>7. Same(z, n)
      BY <1>2, <2>2, <2>5, <2>6, SameThen, Zenon
    <2> QED
      BY <2>2, <2>6, <2>7, Zenon
  <1> HIDE DEF x2, y2, side, other
  <1>15. product \in 0 .. (P - 1) /\ Same(product, xx * e)
    <2>1. Same(x2, xx)
      BY <1>7, <1>9, Zenon
    <2> QED
      BY <1>2, <1>7, <1>13, <2>1, TimesModSame
  <1> HIDE DEF product
  <1>f. ASSUME NEW f \in Int, NEW factor \in 0 .. (P - 1), Same(factor, f), Same(xx * e, f * n)
        PROVE  product = TimesMod(factor, other)
    <2>1. TimesMod(factor, other) \in 0 .. (P - 1) /\ Same(TimesMod(factor, other), f * n)
      BY <1>2, <1>14, <1>f, TimesModSame, Zenon
    <2>2. PICK a \in 0 .. (P - 1), b \in 0 .. (P - 1) : a = product /\ b = TimesMod(factor, other)
      BY <1>15, <2>1
    <2>3. PICK g \in Int, h \in Int : g = xx * e /\ h = f * n
      BY <1>2
    <2>4. Same(a, g) /\ Same(g, h) /\ Same(b, h) /\ a \in Int /\ b \in Int
      BY <1>15, <1>f, <1>p, <2>1, <2>2, <2>3
    <2>5. Same(h, b)
      BY <2>4, SameBack
    <2>6. Same(a, b)
      BY <2>4, <2>5, SameThen
    <2> QED
      BY <2>2, <2>6, SameBelow
  <1>16. \E factor \in {1, Turned} : product = TimesMod(factor, other)
    <2>1. CASE Same(xx * e, 1 * n)
      <3>1. Same(1, 1) /\ 1 \in Int
        BY SameItself
      <3>2. product = TimesMod(1, other)
        BY <1>p, <1>f, <2>1, <3>1, Zenon
      <3> QED
        BY <3>2, Zenon
    <2>2. CASE Same(xx * e, (-ii) * n)
      <3>1. PICK w \in Int : w = P - q
        BY <1>p
      <3>2. Turned \in 0 .. (P - 1) /\ Same(Turned, w)
        <4>1. Turned = w % P
          BY <1>12, <3>1, Zenon DEF Turned, ri
        <4>2. w % P \in 0 .. (P - 1) /\ Same(w % P, w)
          BY SameRemainder
        <4> QED
          BY <4>1, <4>2, Zenon
      <3>3. Same(w, -ii)
        <4>1. PICK p \in Int : p = P
          BY <1>p
        <4>2. p = 0 + p * 1 /\ 0 - ii = -ii
          OBVIOUS
        <4>3. p = 0 + P * 1
          BY <4>1, <4>2
        <4>4. Same(p, 0)
          <5>1. 0 \in Int /\ 1 \in Int
            OBVIOUS
          <5> QED
            BY <4>3, <5>1, SameIs, Zenon
        <4>5. q \in Int /\ Same(q, ii)
          BY <1>12, <1>p
        <4>6. Same(p - q, 0 - ii)
          BY <4>4, <4>5, SameSum
        <4> QED
          BY <3>1, <4>1, <4>2, <4>6, Zenon
      <3>4. PICK z \in 0 .. (P - 1) : z = Turned /\ Same(z, -ii)
        <4>1. PICK z \in 0 .. (P - 1) : z = Turned /\ Same(z, w)
          BY <3>2
        <4>2. z \in Int /\ -ii \in Int
          BY <1>p
        <4>3. Same(z, -ii)
          BY <3>3, <4>1, <4>2, SameThen
        <4> QED
          BY <4>1, <4>3
      <3>5. -ii \in Int
        OBVIOUS
      <3>6. product = TimesMod(z, other)
        BY <1>f, <2>2, <3>4, <3>5
      <3> QED
        BY <3>4, <3>6, Zenon
    <2> QED
      BY <1>5, <1>9, <2>1, <2>2
  <1> QED
    BY <1>6, <1>16, Zenon DEF AcceptsPoints, product, x2, y2, side, other, rx, ry, rd

(* An encoding that unpackneg accepts is given an x of the parity asked    *)
(* for that solves the curve's equation where the candidate was kept, and  *)
(* the equation times -I^2 where it was turned, whatever the tables D and  *)
(* I hold (sovereign_crypto.c:290-329).                                    *)
THEOREM AcceptedSolve == Spec => []AcceptsPoints
  <1>1. Init => FieldInv /\ CurveInv
    BY FieldInvInit, CurveInvInit
  <1>2. FieldInv /\ CurveInv /\ [Next]_vars => (FieldInv /\ CurveInv)'
    BY FieldInvStep, CurveInvStep
  <1> QED
    BY <1>1, <1>2, PointsFromInv, PTL DEF Spec

-----------------------------------------------------------------------------
(* The product of f over 1 .. n, and powers.                               *)
AreProducts(s, f, n) ==
  /\ s \in [0 .. n -> Int]
  /\ s[0] = 1
  /\ \A k \in 0 .. (n - 1) : s[k + 1] = s[k] * f[k + 1]

Products(f, n) == CHOOSE s : AreProducts(s, f, n)

Prod(f, n) == Products(f, n)[n]

Identity == [k \in Nat |-> k]

Constantly(x) == [k \in Nat |-> x]

Power(x, n) == Prod(Constantly(x), n)

LEMMA ProductsExist ==
  ASSUME NEW f \in [Nat -> Int], NEW n \in Nat
  PROVE  AreProducts(Products(f, n), f, n)
  <1> DEFINE F == [x \in Int \X (0 .. (n - 1)) |-> x[1] * f[x[2] + 1]]
  <1>1. F \in [Int \X (0 .. (n - 1)) -> Int]
    <2>1. ASSUME NEW x \in Int, NEW k \in 0 .. (n - 1) PROVE x * f[k + 1] \in Int
      <3>1. f[k + 1] \in Int
        OBVIOUS
      <3>2. \A y, z \in Int : y * z \in Int
        OBVIOUS
      <3> QED
        BY <3>1, <3>2
    <2> QED
      BY <2>1
  <1>2. \A x \in Int, k \in 0 .. (n - 1) : F[<<x, k>>] = x * f[k + 1]
    OBVIOUS
  <1> HIDE DEF F
  <1>3. PICK s \in [0 .. n -> Int] : Follows(s, F, 1, n)
    <2>1. 1 \in Int
      OBVIOUS
    <2> QED
      BY <1>1, <2>1, RecursionExists, Zenon
  <1>4. ASSUME NEW k \in 0 .. (n - 1) PROVE s[k + 1] = s[k] * f[k + 1]
    <2>1. s[k + 1] = F[<<s[k], k>>]
      BY <1>3, Zenon DEF Follows
    <2>2. s[k] \in Int
      OBVIOUS
    <2> QED
      BY <1>2, <2>1, <2>2, Zenon
  <1>5. AreProducts(s, f, n)
    BY <1>3, <1>4, Zenon DEF AreProducts, Follows
  <1> QED
    BY <1>5, Zenon DEF Products

LEMMA ProductIs ==
  ASSUME NEW f \in [Nat -> Int]
  PROVE  /\ Prod(f, 0) = 1
         /\ \A n \in Nat : Prod(f, n) \in Int
         /\ \A n \in Nat : Prod(f, n + 1) = Prod(f, n) * f[n + 1]
  <1>1. Prod(f, 0) = 1
    BY ProductsExist DEF AreProducts, Prod
  <1>2. ASSUME NEW n \in Nat PROVE Prod(f, n) \in Int
    <2>1. Products(f, n) \in [0 .. n -> Int] /\ n \in 0 .. n
      BY ProductsExist DEF AreProducts
    <2> QED
      BY <2>1, Zenon DEF Prod
  <1>3. ASSUME NEW n \in Nat PROVE Prod(f, n + 1) = Prod(f, n) * f[n + 1]
    <2> DEFINE s == Products(f, n)
               t == Products(f, n + 1)
               U == {k \in Nat : s[k] = t[k]}
    <2>1. /\ s[0] = 1 /\ \A k \in 0 .. (n - 1) : s[k + 1] = s[k] * f[k + 1]
          /\ t[0] = 1 /\ \A k \in 0 .. n : t[k + 1] = t[k] * f[k + 1]
      <3>1. n + 1 \in Nat /\ (n + 1) - 1 = n
        OBVIOUS
      <3>2. AreProducts(s, f, n) /\ AreProducts(t, f, n + 1)
        BY <3>1, ProductsExist
      <3> QED
        BY <3>1, <3>2, Zenon DEF AreProducts
    <2> HIDE DEF s, t
    <2>2. 0 \in U
      BY <2>1
    <2>3. ASSUME NEW k \in 0 .. (n - 1), k \in U PROVE k + 1 \in U
      <3>1. k \in 0 .. n /\ k + 1 \in Nat
        OBVIOUS
      <3>2. t[k + 1] = t[k] * f[k + 1] /\ s[k + 1] = s[k] * f[k + 1] /\ s[k] = t[k]
        BY <2>1, <2>3, <3>1, Zenon
      <3> QED
        BY <3>1, <3>2
    <2> HIDE DEF U
    <2>4. n \in U
      <3>1. \A k \in 0 .. n : k \in U
        BY <2>2, <2>3, InductionTo
      <3> QED
        BY <3>1
    <2>5. s[n] = t[n] /\ n \in 0 .. n
      BY <2>4 DEF U
    <2>6. t[n + 1] = s[n] * f[n + 1]
      BY <2>1, <2>5, Zenon
    <2> QED
      BY <2>6, Zenon DEF s, t, Prod
  <1> QED
    BY <1>1, <1>2, <1>3

LEMMA PowerIs ==
  ASSUME NEW x \in Int
  PROVE  /\ Power(x, 0) = 1
         /\ \A n \in Nat : Power(x, n) \in Int
         /\ \A n \in Nat : Power(x, n + 1) = Power(x, n) * x
  <1>1. Constantly(x) \in [Nat -> Int] /\ \A n \in Nat : Constantly(x)[n + 1] = x
    BY DEF Constantly
  <1> QED
    BY <1>1, ProductIs, Zenon DEF Power

LEMMA PowerSum ==
  ASSUME NEW x \in Int, NEW m \in Nat, NEW n \in Nat
  PROVE  Power(x, m + n) = Power(x, m) * Power(x, n)
  <1> DEFINE T == {k \in Nat : Power(x, m + k) = Power(x, m) * Power(x, k)}
  <1>1. 0 \in T
    <2>1. PICK y \in Int : y = Power(x, m)
      BY PowerIs
    <2>2. Power(x, 0) = 1 /\ m + 0 = m
      BY PowerIs
    <2>3. y = y * 1
      OBVIOUS
    <2> QED
      BY <2>1, <2>2, <2>3
  <1>2. ASSUME NEW k \in Nat, k \in T PROVE k + 1 \in T
    <2>1. PICK y \in Int, z \in Int : y = Power(x, m) /\ z = Power(x, k)
      BY PowerIs
    <2>2. m + k \in Nat /\ m + (k + 1) = (m + k) + 1
      OBVIOUS
    <2>3. Power(x, (m + k) + 1) = (y * z) * x
      BY <1>2, <2>1, <2>2, PowerIs, Zenon
    <2>4. Power(x, k + 1) = z * x
      BY <2>1, PowerIs, Zenon
    <2>5. (y * z) * x = y * (z * x)
      OBVIOUS
    <2>6. Power(x, m + (k + 1)) = Power(x, m) * Power(x, k + 1)
      BY <2>1, <2>2, <2>3, <2>4, <2>5, Zenon
    <2> QED
      BY <2>6
  <1> HIDE DEF T
  <1>3. n \in T
    BY <1>1, <1>2, Induction
  <1> QED
    BY <1>3 DEF T

LEMMA PowerOfProduct ==
  ASSUME NEW x \in Int, NEW y \in Int, NEW n \in Nat
  PROVE  Power(x * y, n) = Power(x, n) * Power(y, n)
  <1> DEFINE T == {k \in Nat : Power(x * y, k) = Power(x, k) * Power(y, k)}
  <1>0. PICK p \in Int : p = x * y
    OBVIOUS
  <1>1. 0 \in T
    <2>1. Power(x, 0) = 1 /\ Power(y, 0) = 1 /\ Power(p, 0) = 1
      BY PowerIs
    <2>2. 1 = 1 * 1
      OBVIOUS
    <2> QED
      BY <1>0, <2>1, <2>2
  <1>2. ASSUME NEW k \in Nat, k \in T PROVE k + 1 \in T
    <2>1. PICK u \in Int, v \in Int : u = Power(x, k) /\ v = Power(y, k)
      BY PowerIs
    <2>2. Power(p, k + 1) = Power(p, k) * p
      BY PowerIs
    <2>3. Power(x, k + 1) = u * x /\ Power(y, k + 1) = v * y
      BY <2>1, PowerIs, Zenon
    <2>4. (u * v) * (x * y) = (u * x) * (v * y)
      OBVIOUS
    <2>5. Power(x * y, k + 1) = Power(x, k + 1) * Power(y, k + 1)
      BY <1>0, <1>2, <2>1, <2>2, <2>3, <2>4, Zenon
    <2> QED
      BY <2>5
  <1> HIDE DEF T
  <1>3. n \in T
    BY <1>1, <1>2, Induction
  <1> QED
    BY <1>3 DEF T

LEMMA PowerSame ==
  ASSUME NEW x \in Int, NEW y \in Int, NEW n \in Nat, Same(x, y)
  PROVE  Same(Power(x, n), Power(y, n))
  <1> DEFINE T == {k \in Nat : Same(Power(x, k), Power(y, k))}
  <1>1. 0 \in T
    <2>1. Power(x, 0) = 1 /\ Power(y, 0) = 1 /\ Same(1, 1)
      BY PowerIs, SameItself
    <2> QED
      BY <2>1
  <1>2. ASSUME NEW k \in Nat, k \in T PROVE k + 1 \in T
    <2>1. PICK u \in Int, v \in Int : u = Power(x, k) /\ v = Power(y, k)
      BY PowerIs
    <2>2. Same(u, v)
      BY <1>2, <2>1
    <2>3. Same(u * x, v * y)
      BY <2>2, SameProduct
    <2>4. Same(Power(x, k + 1), Power(y, k + 1))
      BY <2>1, <2>3, PowerIs, Zenon
    <2> QED
      BY <2>4
  <1> HIDE DEF T
  <1>3. n \in T
    BY <1>1, <1>2, Induction
  <1> QED
    BY <1>3 DEF T

(* A factor that is replaced.                                              *)
LEMMA FactorReplaced ==
  ASSUME NEW f \in [Nat -> Int], NEW n \in Nat, NEW j \in 1 .. n, NEW x \in Int,
         NEW g \in [Nat -> Int], g[j] = x, \A i \in Nat \ {j} : g[i] = f[i]
  PROVE  Prod(g, n) * f[j] = Prod(f, n) * x
  <1> DEFINE T == {k \in Nat : IF k < j THEN Prod(g, k) = Prod(f, k)
                                        ELSE Prod(g, k) * f[j] = Prod(f, k) * x}
  <1>1. 0 \in T
    BY ProductIs
  <1>2. ASSUME NEW k \in Nat, k \in T PROVE k + 1 \in T
    <2>1. PICK u \in Int, v \in Int, y \in Int, z \in Int :
            u = Prod(g, k) /\ v = Prod(f, k) /\ y = f[k + 1] /\ z = f[j]
      <3>1. Prod(g, k) \in Int /\ Prod(f, k) \in Int
        BY ProductIs, Zenon
      <3>2. f[k + 1] \in Int /\ f[j] \in Int
        OBVIOUS
      <3> QED
        BY <3>1, <3>2, Zenon
    <2>2. Prod(f, k + 1) = v * y /\ Prod(g, k + 1) = u * g[k + 1]
      BY <2>1, ProductIs, Zenon
    <2>3. CASE k + 1 < j
      <3>1. g[k + 1] = y
        BY <2>1, <2>3
      <3>2. k < j
        BY <2>3
      <3>3. u = v
        BY <1>2, <2>1, <3>2, Zenon
      <3>4. Prod(g, k + 1) = Prod(f, k + 1)
        BY <2>2, <3>1, <3>3, Zenon
      <3> QED
        BY <2>3, <3>4
    <2>4. CASE k + 1 = j
      <3>1. g[k + 1] = x /\ z = y
        BY <2>1, <2>4
      <3>2. k < j /\ ~(k + 1 < j)
        BY <2>4
      <3>3. u = v
        BY <1>2, <2>1, <3>2, Zenon
      <3>4. (v * x) * y = (v * y) * x
        OBVIOUS
      <3>5. Prod(g, k + 1) * f[j] = Prod(f, k + 1) * x
        BY <2>1, <2>2, <3>1, <3>3, <3>4, Zenon
      <3> QED
        BY <3>2, <3>5
    <2>5. CASE k + 1 > j
      <3>1. g[k + 1] = y
        BY <2>1, <2>5
      <3>2. ~(k < j) /\ ~(k + 1 < j)
        BY <2>5
      <3>3. u * z = v * x
        BY <1>2, <2>1, <3>2, Zenon
      <3>4. (u * y) * z = (u * z) * y /\ (v * x) * y = (v * y) * x
        OBVIOUS
      <3>5. (u * y) * z = (v * y) * x
        BY <3>3, <3>4, Zenon
      <3>6. Prod(g, k + 1) * f[j] = Prod(f, k + 1) * x
        BY <2>1, <2>2, <3>1, <3>5, Zenon
      <3> QED
        BY <3>2, <3>6
    <2> QED
      BY <2>3, <2>4, <2>5
  <1> HIDE DEF T
  <1>3. n \in T
    BY <1>1, <1>2, Induction
  <1>4. ~(n < j)
    OBVIOUS
  <1> QED
    BY <1>3, <1>4, Zenon DEF T

(* A function that maps 1 .. n to itself and takes no value twice takes    *)
(* every value, and its product is the factorial.                          *)
Injects(f, n) ==
  /\ f \in [Nat -> Int]
  /\ \A i \in 1 .. n : f[i] \in 1 .. n
  /\ \A i, j \in 1 .. n : f[i] = f[j] => i = j

Permutes(f, n) ==
  /\ \A k \in 1 .. n : \E i \in 1 .. n : f[i] = k
  /\ Prod(f, n) = Prod(Identity, n)

LEMMA Permuted ==
  ASSUME NEW n \in Nat
  PROVE  \A f : Injects(f, n) => Permutes(f, n)
  <1> DEFINE T == {k \in Nat : \A f : Injects(f, k) => Permutes(f, k)}
  <1>i. Identity \in [Nat -> Int] /\ \A k \in Nat : Identity[k] = k
    BY DEF Identity
  <1>1. 0 \in T
    <2>1. ASSUME NEW f, Injects(f, 0) PROVE Permutes(f, 0)
      <3>1. f \in [Nat -> Int]
        BY <2>1 DEF Injects
      <3>2. Prod(f, 0) = Prod(Identity, 0)
        BY <1>i, <3>1, ProductIs, Zenon
      <3>3. 1 .. 0 = {}
        OBVIOUS
      <3> QED
        BY <3>2, <3>3, Zenon DEF Permutes
    <2> QED
      BY <2>1
  <1>2. ASSUME NEW k \in Nat, k \in T PROVE k + 1 \in T
    <2>1. ASSUME NEW f, Injects(f, k + 1) PROVE Permutes(f, k + 1)
      <3> DEFINE last == f[k + 1]
      <3>1. /\ f \in [Nat -> Int] /\ \A i \in 1 .. (k + 1) : f[i] \in 1 .. (k + 1)
            /\ \A i, j \in 1 .. (k + 1) : f[i] = f[j] => i = j
        BY <2>1, Zenon DEF Injects
      <3>2. \A i \in 1 .. k : i \in 1 .. (k + 1)
        OBVIOUS
      <3>3. last \in 1 .. (k + 1) /\ last \in Int
        <4>1. k + 1 \in 1 .. (k + 1)
          OBVIOUS
        <4> QED
          BY <3>1, <4>1
      <3> HIDE DEF last
      <3>4. Prod(f, k + 1) = Prod(f, k) * last
        BY <3>1, ProductIs, Zenon DEF last
      <3>5. Prod(Identity, k + 1) = Prod(Identity, k) * (k + 1)
        <4>1. Identity[k + 1] = k + 1
          BY <1>i
        <4> QED
          BY <1>i, <4>1, ProductIs, Zenon
      <3>6. CASE last = k + 1
        <4>1. ASSUME NEW i \in 1 .. k PROVE f[i] \in 1 .. k
          <5>1. f[i] \in 1 .. (k + 1) /\ i # k + 1 /\ i \in 1 .. (k + 1) /\ k + 1 \in 1 .. (k + 1)
            BY <3>1
          <5>2. f[i] # last
            BY <3>1, <5>1, Zenon DEF last
          <5> QED
            BY <3>6, <5>1, <5>2
        <4>2. Injects(f, k)
          BY <3>1, <3>2, <4>1, Zenon DEF Injects
        <4>3. Permutes(f, k)
          BY <1>2, <4>2
        <4>4. Prod(f, k + 1) = Prod(Identity, k + 1)
          BY <3>4, <3>5, <3>6, <4>3, Zenon DEF Permutes
        <4>5. ASSUME NEW m \in 1 .. (k + 1) PROVE \E i \in 1 .. (k + 1) : f[i] = m
          <5>1. CASE m = k + 1
            BY <3>6, <5>1 DEF last
          <5>2. CASE m # k + 1
            <6>1. m \in 1 .. k
              BY <5>2
            <6>2. PICK i \in 1 .. k : f[i] = m
              BY <4>3, <6>1 DEF Permutes
            <6> QED
              BY <3>2, <6>2
          <5> QED
            BY <5>1, <5>2
        <4> QED
          BY <4>4, <4>5 DEF Permutes
      <3>7. CASE last # k + 1
        <4>0. last \in 1 .. k
          BY <3>3, <3>7
        <4>1. \E j \in 1 .. k : f[j] = k + 1
          <5> SUFFICES ASSUME \A j \in 1 .. k : f[j] # k + 1 PROVE FALSE
            OBVIOUS
          <5>1. ASSUME NEW i \in 1 .. k PROVE f[i] \in 1 .. k
            <6>1. f[i] \in 1 .. (k + 1) /\ f[i] # k + 1
              BY <3>1, <3>2
            <6> QED
              BY <6>1
          <5>2. Injects(f, k)
            BY <3>1, <3>2, <5>1, Zenon DEF Injects
          <5>3. PICK i \in 1 .. k : f[i] = last
            BY <1>2, <4>0, <5>2 DEF Permutes
          <5>4. i \in 1 .. (k + 1) /\ k + 1 \in 1 .. (k + 1) /\ i # k + 1
            OBVIOUS
          <5> QED
            BY <3>1, <5>3, <5>4, Zenon DEF last
        <4>2. PICK j \in 1 .. k : f[j] = k + 1
          BY <4>1
        <4> DEFINE g == [i \in Nat |-> IF i = j THEN last ELSE f[i]]
        <4>3. g \in [Nat -> Int] /\ g[j] = last /\ \A i \in Nat \ {j} : g[i] = f[i]
          BY <3>1, <3>3
        <4> HIDE DEF g
        <4>4. ASSUME NEW i \in 1 .. k PROVE g[i] \in 1 .. k
          <5>1. CASE i = j
            BY <4>0, <4>3, <5>1
          <5>2. CASE i # j
            <6>1. g[i] = f[i] /\ f[i] \in 1 .. (k + 1) /\ j \in 1 .. (k + 1) /\ i \in 1 .. (k + 1)
              BY <3>1, <4>3, <5>2
            <6>2. f[i] # k + 1
              BY <3>1, <4>2, <5>2, <6>1, Zenon
            <6> QED
              BY <6>1, <6>2
          <5> QED
            BY <5>1, <5>2
        <4>5. ASSUME NEW i \in 1 .. k, NEW m \in 1 .. k, g[i] = g[m] PROVE i = m
          <5>1. /\ i \in 1 .. (k + 1) /\ m \in 1 .. (k + 1) /\ k + 1 \in 1 .. (k + 1)
                /\ i \in Nat /\ m \in Nat /\ i # k + 1 /\ m # k + 1
            OBVIOUS
          <5>2. ASSUME NEW h \in 1 .. k, h # j PROVE g[h] # last
            <6>1. g[h] = f[h] /\ h \in 1 .. (k + 1) /\ h # k + 1
              BY <4>3, <5>2
            <6> QED
              BY <3>1, <5>1, <6>1, Zenon DEF last
          <5>3. CASE i = j
            <6>1. g[m] = last
              BY <4>3, <4>5, <5>3, Zenon
            <6> QED
              BY <5>2, <5>3, <6>1, Zenon
          <5>4. CASE m = j
            <6>1. g[i] = last
              BY <4>3, <4>5, <5>4, Zenon
            <6> QED
              BY <5>2, <5>4, <6>1, Zenon
          <5>5. CASE i # j /\ m # j
            <6>1. g[i] = f[i] /\ g[m] = f[m]
              BY <4>3, <5>1, <5>5
            <6> QED
              BY <3>1, <4>5, <5>1, <6>1, Zenon
          <5> QED
            BY <5>3, <5>4, <5>5
        <4>6. Injects(g, k)
          BY <4>3, <4>4, <4>5, Zenon DEF Injects
        <4>7. Permutes(g, k)
          BY <1>2, <4>6
        <4>8. Prod(f, k + 1) = Prod(Identity, k + 1)
          <5>a. Prod(g, k) * f[j] = Prod(f, k) * last
            <6>1. /\ f \in [Nat -> Int] /\ g \in [Nat -> Int] /\ k \in Nat /\ j \in 1 .. k
                  /\ last \in Int /\ g[j] = last /\ \A i \in Nat \ {j} : g[i] = f[i]
              BY <3>1, <3>3, <4>3
            <6> QED
              BY ONLY <6>1, FactorReplaced
          <5>1. Prod(g, k) * (k + 1) = Prod(f, k) * last
            BY <4>2, <5>a, Zenon
          <5>2. Prod(g, k) = Prod(Identity, k)
            BY <4>7 DEF Permutes
          <5> QED
            BY <3>4, <3>5, <5>1, <5>2, Zenon
        <4>9. ASSUME NEW m \in 1 .. (k + 1) PROVE \E i \in 1 .. (k + 1) : f[i] = m
          <5>1. CASE m = k + 1
            BY <3>2, <4>2, <5>1
          <5>2. CASE m # k + 1
            <6>1. m \in 1 .. k
              BY <5>2
            <6>2. PICK i \in 1 .. k : g[i] = m
              BY <4>7, <6>1 DEF Permutes
            <6>3. CASE i = j
              <7>1. f[k + 1] = m /\ k + 1 \in 1 .. (k + 1)
                BY <4>3, <6>2, <6>3 DEF last
              <7> QED
                BY <7>1
            <6>4. CASE i # j
              <7>1. f[i] = m
                BY <4>3, <6>2, <6>4
              <7> QED
                BY <3>2, <7>1
            <6> QED
              BY <6>3, <6>4
          <5> QED
            BY <5>1, <5>2
        <4> QED
          BY <4>8, <4>9 DEF Permutes
      <3> QED
        BY <3>6, <3>7
    <2> QED
      BY <2>1
  <1> HIDE DEF T
  <1>3. n \in T
    BY <1>1, <1>2, Induction
  <1> QED
    BY <1>3 DEF T

-----------------------------------------------------------------------------
(* What the primality of P adds: a product is zero only if a factor is.    *)

(* Every multiple of m that is zero is a multiple of the least one.        *)
LEMMA ZeroTimes ==
  ASSUME NEW x \in Int, NEW y \in Int, Same(x * y, 0)
  PROVE  Same(x, 0) \/ Same(y, 0)
  <1> SUFFICES ASSUME ~Same(x, 0) PROVE Same(y, 0)
    OBVIOUS
  <1> DEFINE M == {m \in Nat : m # 0 /\ Same(m * y, 0)}
  <1>0. P \in Nat /\ P > 1 /\ P \in Int
    BY PrimeSize
  <1>1. PICK q \in Nat : q = P
    BY <1>0
  <1>2. q \in M
    <2>1. q * y = 0 + P * y /\ q * y \in Int
      BY <1>1
    <2>2. Same(q * y, 0)
      BY <2>1, SameIs
    <2> QED
      BY <1>0, <1>1, <2>2
  <1>3. PICK m \in M : \A k \in M : m <= k
    <2>1. M \in SUBSET Nat /\ M # {}
      BY <1>2
    <2> HIDE DEF M
    <2> QED
      BY <2>1, LeastElement
  <1>4. m \in Nat \ {0} /\ Same(m * y, 0) /\ m <= q
    BY <1>2, <1>3
  (* The remainder of a number that y takes to zero is one as well.        *)
  <1>5. ASSUME NEW n \in Int, Same(n * y, 0) PROVE n % m = 0
    <2>1. PICK h \in Int, r \in 0 .. (m - 1) : h = n \div m /\ r = n % m /\ n = m * h + r
      BY <1>4, Quotient
    <2>2. r * y = n * y - h * (m * y)
      <3>1. (m * h + r) * y = h * (m * y) + r * y
        OBVIOUS
      <3>2. PICK a \in Int, b \in Int, c \in Int : a = n * y /\ b = h * (m * y) /\ c = r * y
        BY <1>4
      <3>3. a = b + c
        BY <2>1, <3>1, <3>2, Zenon
      <3>4. c = a - b
        BY <3>2, <3>3
      <3> QED
        BY <3>2, <3>4, Zenon
    <2>3. PICK a \in Int, b \in Int, c \in Int : a = n * y /\ b = m * y /\ c = h * b
      BY <1>4
    <2>4. Same(a, 0) /\ Same(b, 0)
      BY <1>4, <1>5, <2>3
    <2>5. Same(c, h * 0)
      <3>1. 0 \in Int
        OBVIOUS
      <3>2. Same(h * b, h * 0)
        BY <2>4, <3>1, SameTimes, Zenon
      <3> QED
        BY <2>3, <3>2, Zenon
    <2>6. h * 0 = 0
      OBVIOUS
    <2>7. Same(a - c, 0 - 0)
      <3>1. Same(c, 0) /\ 0 \in Int
        BY <2>5, <2>6
      <3> QED
        BY <2>3, <2>4, <3>1, SameSum
    <2>8. 0 - 0 = 0
      OBVIOUS
    <2>9. Same(r * y, 0)
      BY <2>2, <2>3, <2>7, <2>8, Zenon
    <2>10. CASE r # 0
      <3>1. r \in M
        BY <2>9, <2>10, <1>4
      <3>2. m <= r
        BY <1>3, <3>1
      <3> QED
        BY <1>4, <2>1, <3>2
    <2>11. CASE r = 0
      BY <2>1, <2>11
    <2> QED
      BY <2>10, <2>11
  <1>6. q % m = 0
    <2>1. Same(q * y, 0) /\ q \in Int
      BY <1>2
    <2> QED
      BY <1>5, <2>1, Zenon
  <1>7. x % m = 0
    BY <1>5
  <1>8. CASE m = 1
    <2>1. m * y = y
      BY <1>8
    <2> QED
      BY <1>4, <2>1, Zenon
  <1>9. CASE m = q
    <2>1. PICK h \in Int : x = m * h + 0
      <3>1. x = m * (x \div m) + (x % m) /\ x \div m \in Int
        BY <1>4, Quotient
      <3>2. x = m * (x \div m) + 0
        BY <1>7, <3>1, Zenon
      <3> QED
        BY <3>1, <3>2
    <2>2. x = 0 + q * h
      BY <1>9, <2>1
    <2>3. Same(x, 0)
      <3>1. x = 0 + P * h /\ 0 \in Int
        BY <1>1, <2>2
      <3> QED
        BY <3>1, SameIs, Zenon
    <2> QED
      BY <2>3
  <1>10. CASE m # 1 /\ m # q
    <2>1. m \in 2 .. (q - 1)
      BY <1>4, <1>10
    <2>2. q % m # 0
      BY <1>1, <2>1, PrimeAssumption, Zenon DEF IsPrime
    <2> QED
      BY <1>6, <2>2
  <1> QED
    BY <1>8, <1>9, <1>10

LEMMA SameDifference ==
  ASSUME NEW x \in Int, NEW y \in Int
  PROVE  Same(x - y, 0) <=> Same(x, y)
  <1>1. PICK k \in Int : k = x - y
    OBVIOUS
  <1>2. ASSUME Same(k, 0) PROVE Same(x, y)
    <2>1. Same(k + y, 0 + y)
      BY <1>2, SameItself, SameSum
    <2>2. k + y = x /\ 0 + y = y
      BY <1>1
    <2> QED
      BY <2>1, <2>2, Zenon
  <1>3. ASSUME Same(x, y) PROVE Same(k, 0)
    <2>1. Same(x - y, y - y)
      BY <1>3, SameItself, SameSum
    <2>2. y - y = 0
      OBVIOUS
    <2> QED
      BY <1>1, <2>1, <2>2, Zenon
  <1> QED
    BY <1>1, <1>2, <1>3, Zenon

LEMMA Cancelled ==
  ASSUME NEW x \in Int, NEW y \in Int, NEW z \in Int, ~Same(z, 0), Same(x * z, y * z)
  PROVE  Same(x, y)
  <1>1. PICK a \in Int, b \in Int, c \in Int : a = x * z /\ b = y * z /\ c = x - y
    OBVIOUS
  <1>2. Same(a - b, 0)
    <2>1. Same(a, b)
      BY <1>1, Zenon
    <2> QED
      BY <2>1, SameDifference
  <1>3. a - b = c * z
    BY <1>1
  <1>4. Same(c * z, 0)
    BY <1>2, <1>3, Zenon
  <1>5. Same(c, 0)
    BY <1>4, ZeroTimes
  <1> QED
    BY <1>1, <1>5, SameDifference

LEMMA BelowNonzero ==
  ASSUME NEW x \in 1 .. (P - 1)
  PROVE  ~Same(x, 0)
  <1>1. x \in 0 .. (P - 1) /\ 0 \in 0 .. (P - 1) /\ x # 0
    BY PrimeSize
  <1> QED
    BY <1>1, SameBelow

LEMMA FactorialNonzero ==
  \A k \in 0 .. (P - 1) : ~Same(Prod(Identity, k), 0)
  <1> DEFINE T == {k \in Nat : ~Same(Prod(Identity, k), 0)}
  <1>p. P \in Nat /\ P > 1
    BY PrimeSize
  <1>i. Identity \in [Nat -> Int] /\ \A k \in Nat : Identity[k] = k
    BY DEF Identity
  <1>1. 0 \in T
    <2>1. 1 \in 1 .. (P - 1)
      BY <1>p
    <2>2. Prod(Identity, 0) = 1
      BY <1>i, ProductIs
    <2> QED
      BY <2>1, <2>2, BelowNonzero
  <1>2. ASSUME NEW k \in 0 .. ((P - 1) - 1), k \in T PROVE k + 1 \in T
    <2>1. k \in Nat /\ k + 1 \in Nat /\ k + 1 \in 1 .. (P - 1)
      BY <1>p
    <2>2. PICK y \in Int, z \in 1 .. (P - 1) : y = Prod(Identity, k) /\ z = k + 1
      BY <1>i, <2>1, ProductIs
    <2>3. Prod(Identity, k + 1) = y * z
      <3>1. Prod(Identity, k + 1) = Prod(Identity, k) * Identity[k + 1]
        BY <1>i, <2>1, ProductIs
      <3>2. Identity[k + 1] = z
        BY <1>i, <2>1, <2>2
      <3> QED
        BY <2>2, <3>1, <3>2, Zenon
    <2>4. ~Same(y, 0) /\ ~Same(z, 0)
      BY <1>2, <2>2, BelowNonzero
    <2>5. z \in Int
      BY <1>p
    <2>6. ~Same(y * z, 0)
      BY <2>4, <2>5, ZeroTimes
    <2> QED
      BY <2>1, <2>3, <2>6
  <1> HIDE DEF T
  <1>3. P - 1 \in Nat
    BY <1>p
  <1>4. \A k \in 0 .. (P - 1) : k \in T
    BY <1>1, <1>2, <1>3, InductionTo
  <1> QED
    BY <1>4 DEF T

(* Multiplication by x, as a function on the residues.                     *)
Scaled(x) == [i \in Nat |-> (x * i) % P]

LEMMA ScaledIs ==
  ASSUME NEW x \in Int
  PROVE  /\ Scaled(x) \in [Nat -> Int]
         /\ \A i \in Nat : /\ Scaled(x)[i] \in 0 .. (P - 1)
                           /\ Same(Scaled(x)[i], x * i)
  <1>1. ASSUME NEW i \in Nat PROVE (x * i) % P \in 0 .. (P - 1) /\ Same((x * i) % P, x * i)
    <2>1. PICK y \in Int : y = x * i
      OBVIOUS
    <2>2. y % P \in 0 .. (P - 1) /\ Same(y % P, y)
      BY SameRemainder
    <2> QED
      BY <2>1, <2>2, Zenon
  <1>2. \A z \in 0 .. (P - 1) : z \in Int
    BY PrimeSize
  <1> QED
    BY <1>1, <1>2 DEF Scaled

LEMMA ScaledProduct ==
  ASSUME NEW x \in Int, NEW n \in Nat
  PROVE  Same(Prod(Scaled(x), n), Power(x, n) * Prod(Identity, n))
  <1> DEFINE T == {k \in Nat : Same(Prod(Scaled(x), k), Power(x, k) * Prod(Identity, k))}
  <1>i. Identity \in [Nat -> Int] /\ \A k \in Nat : Identity[k] = k
    BY DEF Identity
  <1>s. Scaled(x) \in [Nat -> Int]
    BY ScaledIs
  <1>1. 0 \in T
    <2>1. Prod(Scaled(x), 0) = 1 /\ Power(x, 0) = 1 /\ Prod(Identity, 0) = 1
      BY <1>i, <1>s, ProductIs, PowerIs
    <2>2. 1 * 1 = 1 /\ Same(1, 1)
      BY SameItself
    <2> QED
      BY <2>1, <2>2
  <1>2. ASSUME NEW k \in Nat, k \in T PROVE k + 1 \in T
    <2>1. PICK u \in Int, v \in Int, w \in Int, i \in Nat, z \in Int :
            /\ u = Prod(Scaled(x), k) /\ v = Power(x, k) /\ w = Prod(Identity, k)
            /\ i = k + 1 /\ z = Scaled(x)[i]
      <3>1. /\ Prod(Scaled(x), k) \in Int /\ Power(x, k) \in Int /\ Prod(Identity, k) \in Int
        BY <1>i, <1>s, ProductIs, PowerIs
      <3>2. k + 1 \in Nat /\ Scaled(x)[k + 1] \in Int
        BY <1>s
      <3> QED
        BY <3>1, <3>2, Zenon
    <2>2. Prod(Scaled(x), i) = u * z /\ Power(x, i) = v * x /\ Prod(Identity, i) = w * i
      <3>1. Prod(Scaled(x), i) = u * z
        BY <1>s, <2>1, ProductIs, Zenon
      <3>2. Power(x, i) = v * x
        BY <2>1, PowerIs, Zenon
      <3>3. Identity[i] = i
        BY <1>i
      <3>4. Prod(Identity, i) = w * i
        BY <1>i, <2>1, <3>3, ProductIs, Zenon
      <3> QED
        BY <3>1, <3>2, <3>4
    <2>3. PICK vw \in Int, xi \in Int : vw = v * w /\ xi = x * i
      OBVIOUS
    <2>4. Same(u, vw) /\ Same(z, xi)
      BY <1>2, <2>1, <2>3, ScaledIs, Zenon
    <2>5. Same(u * z, vw * xi)
      BY <2>4, SameProduct
    <2>6. (v * w) * (x * i) = (v * x) * (w * i)
      OBVIOUS
    <2>7. Same(Prod(Scaled(x), i), Power(x, i) * Prod(Identity, i))
      BY <2>2, <2>3, <2>5, <2>6, Zenon
    <2> QED
      BY <2>1, <2>7
  <1> HIDE DEF T
  <1>3. n \in T
    BY <1>1, <1>2, Induction
  <1> QED
    BY <1>3 DEF T

(* Fermat's theorem: multiplication by x permutes the residues but zero,   *)
(* so that their product and its multiple by the power of x are the same.  *)
LEMMA Fermat ==
  ASSUME NEW x \in Int, ~Same(x, 0)
  PROVE  Same(Power(x, P - 1), 1)
  <1>0. P \in Nat /\ P > 1
    BY PrimeSize
  <1>1. PICK n \in Nat : n = P - 1
    BY <1>0
  <1> DEFINE f == Scaled(x)
  <1>2. f \in [Nat -> Int] /\ \A i \in Nat : f[i] \in 0 .. n /\ Same(f[i], x * i)
    BY <1>1, ScaledIs
  <1> HIDE DEF f
  <1>3. ASSUME NEW i \in 1 .. n PROVE f[i] \in 1 .. n
    <2>1. PICK y \in Int, z \in Int : y = x * i /\ z = f[i]
      BY <1>2
    <2>2. z \in 0 .. n /\ Same(z, y)
      BY <1>2, <2>1
    <2>3. z # 0
      <3> SUFFICES ASSUME z = 0 PROVE FALSE
        OBVIOUS
      <3>1. Same(y, 0)
        BY <2>2, SameBack
      <3>2. ~Same(i, 0) /\ i \in Int
        BY <1>1, BelowNonzero
      <3> QED
        BY <2>1, <3>1, <3>2, ZeroTimes
    <2> QED
      BY <2>1, <2>2, <2>3
  <1>4. ASSUME NEW i \in 1 .. n, NEW j \in 1 .. n, f[i] = f[j] PROVE i = j
    <2>1. PICK y \in Int, z \in Int, w \in Int : y = i * x /\ z = j * x /\ w = f[i]
      BY <1>2
    <2>2. Same(w, y) /\ Same(w, z)
      <3>1. x * i = i * x /\ x * j = j * x /\ i \in Nat /\ j \in Nat
        OBVIOUS
      <3> QED
        BY <1>2, <1>4, <2>1, <3>1, Zenon
    <2>3. Same(y, z)
      BY <2>2, SameBack, SameThen
    <2>4. Same(i, j)
      BY <2>1, <2>3, Cancelled
    <2>5. i \in 0 .. (P - 1) /\ j \in 0 .. (P - 1)
      BY <1>1
    <2> QED
      BY <2>4, <2>5, SameBelow
  <1>5. Injects(f, n)
    BY <1>2, <1>3, <1>4, Zenon DEF Injects
  <1>6. Prod(f, n) = Prod(Identity, n)
    BY <1>5, Permuted DEF Permutes
  <1>7. PICK g \in Int, p \in Int : g = Prod(Identity, n) /\ p = Power(x, n)
    <2>1. Identity \in [Nat -> Int]
      BY DEF Identity
    <2> QED
      BY <2>1, ProductIs, PowerIs
  <1>8. Same(g, p * g)
    <2>1. Same(Prod(f, n), Power(x, n) * Prod(Identity, n))
      BY ScaledProduct DEF f
    <2> QED
      BY <1>6, <1>7, <2>1, Zenon
  <1>9. ~Same(g, 0)
    <2>1. n \in 0 .. (P - 1)
      BY <1>1
    <2> QED
      BY <1>7, <2>1, FactorialNonzero, Zenon
  <1>10. Same(p * g, 1 * g)
    <2>1. 1 * g = g /\ p * g \in Int
      OBVIOUS
    <2> QED
      BY <1>8, <2>1, SameBack
  <1>11. Same(p, 1)
    <2>1. 1 \in Int
      OBVIOUS
    <2> QED
      BY <1>9, <1>10, <2>1, Cancelled
  <1> QED
    BY <1>1, <1>7, <1>11, Zenon

-----------------------------------------------------------------------------
(* PowerMod squares and multiplies by halves of the exponent.              *)
LEMMA PowerTwice ==
  ASSUME NEW x \in Int, NEW n \in Nat
  PROVE  /\ Power(x, 2 * n) = Power(x, n) * Power(x, n)
         /\ Power(x, 2 * n + 1) = (Power(x, n) * Power(x, n)) * x
  <1>1. 2 * n = n + n /\ 2 * n \in Nat
    OBVIOUS
  <1>2. Power(x, 2 * n) = Power(x, n) * Power(x, n)
    BY <1>1, PowerSum, Zenon
  <1>3. Power(x, 2 * n + 1) = Power(x, 2 * n) * x
    BY <1>1, PowerIs, Zenon
  <1> QED
    BY <1>2, <1>3, Zenon

IsPower(t, x, e) == t \in 0 .. (P - 1) /\ Same(t, Power(x, e))

HalvingOf(half, x, e) == TimesMod(TimesMod(half, half), IF e % 2 = 1 THEN x ELSE 1)

LEMMA HalvingStep ==
  ASSUME NEW x \in 0 .. (P - 1), NEW e \in Nat, NEW half, IsPower(half, x, e \div 2)
  PROVE  IsPower(HalvingOf(half, x, e), x, e)
  <1>p. P \in Nat /\ P > 1 /\ x \in Int
    BY PrimeSize
  <1>1. PICK m \in Nat, r \in 0 .. 1 : m = e \div 2 /\ r = e % 2 /\ e = 2 * m + r
    OBVIOUS
  <1>2. PICK h \in 0 .. (P - 1) : h = half /\ Same(h, Power(x, m))
    BY <1>1 DEF IsPower
  <1>3. PICK y \in Int : y = Power(x, m)
    BY <1>1, <1>p, PowerIs
  <1>4. TimesMod(h, h) \in 0 .. (P - 1) /\ Same(TimesMod(h, h), y * y)
    BY <1>2, <1>3, TimesModSame
  <1>5. PICK s \in 0 .. (P - 1), yy \in Int : s = TimesMod(h, h) /\ yy = y * y /\ Same(s, yy)
    BY <1>4
  <1>6. CASE r = 1
    <2>1. Same(x, x)
      BY <1>p, SameItself
    <2>2. TimesMod(s, x) \in 0 .. (P - 1) /\ Same(TimesMod(s, x), yy * x)
      BY <1>5, <1>p, <2>1, TimesModSame
    <2>3. Power(x, e) = yy * x
      <3>1. Power(x, 2 * m + 1) = (y * y) * x
        BY <1>3, <1>p, PowerTwice, Zenon
      <3> QED
        BY <1>1, <1>5, <1>6, <3>1, Zenon
    <2>4. HalvingOf(half, x, e) = TimesMod(s, x)
      BY <1>1, <1>2, <1>5, <1>6, Zenon DEF HalvingOf
    <2> QED
      BY <2>2, <2>3, <2>4, Zenon DEF IsPower
  <1>7. CASE r = 0
    <2>1. Same(1, 1) /\ 1 \in 0 .. (P - 1) /\ 1 \in Int
      BY <1>p, SameItself
    <2>2. TimesMod(s, 1) \in 0 .. (P - 1) /\ Same(TimesMod(s, 1), yy * 1)
      BY <1>5, <2>1, TimesModSame
    <2>3. Power(x, e) = yy * 1
      <3>1. Power(x, 2 * m) = y * y
        BY <1>3, <1>p, PowerTwice, Zenon
      <3>2. e = 2 * m /\ yy * 1 = yy
        BY <1>1, <1>7
      <3> QED
        BY <1>5, <3>1, <3>2, Zenon
    <2>4. HalvingOf(half, x, e) = TimesMod(s, 1)
      <3>1. ~(e % 2 = 1)
        BY <1>1, <1>7
      <3> QED
        BY <1>2, <1>5, <3>1, Zenon DEF HalvingOf
    <2> QED
      BY <2>2, <2>3, <2>4, Zenon DEF IsPower
  <1> QED
    BY <1>6, <1>7

LEMMA PowerModIs ==
  ASSUME NEW x \in 0 .. (P - 1), NEW n \in Nat
  PROVE  PowerMod(x, n) \in 0 .. (P - 1) /\ Same(PowerMod(x, n), Power(x, n))
  <1> DEFINE Step(s) == [e \in 0 .. n |-> IF e = 0 THEN 1 ELSE HalvingOf(s[e \div 2], x, e)]
             w == [e \in 0 .. n |-> Power(x, e) % P]
             u == CHOOSE s : s = Step(s)
  <1>p. P \in Nat /\ P > 1 /\ x \in Int
    BY PrimeSize
  <1>h. \A e \in 0 .. n : e # 0 => e \div 2 \in 0 .. n /\ e \div 2 < e /\ e \div 2 \in Nat
    OBVIOUS
  <1>0. IsPower(1, x, 0)
    <2>1. Power(x, 0) = 1 /\ Same(1, 1) /\ 1 \in 0 .. (P - 1)
      BY <1>p, PowerIs, SameItself
    <2> QED
      BY <2>1, Zenon DEF IsPower
  <1>1. \A e \in 0 .. n : IsPower(w[e], x, e)
    <2>1. ASSUME NEW e \in 0 .. n PROVE IsPower(w[e], x, e)
      <3>1. PICK y \in Int : y = Power(x, e)
        BY <1>p, PowerIs
      <3>2. y % P \in 0 .. (P - 1) /\ Same(y % P, y)
        BY SameRemainder
      <3>3. w[e] = y % P
        BY <3>1
      <3> HIDE DEF w
      <3> QED
        BY <3>1, <3>2, <3>3, Zenon DEF IsPower
    <2> QED
      BY <2>1
  <1>2. \A e \in Nat : \A s, t : IsPower(s, x, e) /\ IsPower(t, x, e) => s = t
    <2>1. ASSUME NEW e \in Nat, NEW s \in 0 .. (P - 1), NEW t \in 0 .. (P - 1),
                 Same(s, Power(x, e)), Same(t, Power(x, e))
          PROVE  s = t
      <3>1. PICK y \in Int : y = Power(x, e)
        BY <1>p, PowerIs
      <3>2. Same(s, y) /\ Same(y, t) /\ s \in Int /\ t \in Int
        <4>1. s \in Int /\ t \in Int
          BY <1>p
        <4> QED
          BY <2>1, <3>1, <4>1, SameBack
      <3>3. Same(s, t)
        BY <3>2, SameThen
      <3> QED
        BY <3>3, SameBelow
    <2> QED
      BY <2>1 DEF IsPower
  <1>3. w = Step(w)
    <2>1. ASSUME NEW e \in 0 .. n
          PROVE  w[e] = IF e = 0 THEN 1 ELSE HalvingOf(w[e \div 2], x, e)
      <3>1. CASE e = 0
        BY <1>0, <1>1, <1>2, <3>1
      <3>2. CASE e # 0
        <4> HIDE DEF w
        <4>1. IsPower(w[e \div 2], x, e \div 2) /\ IsPower(w[e], x, e) /\ e \in Nat
          BY <1>1, <1>h, <3>2
        <4>2. IsPower(HalvingOf(w[e \div 2], x, e), x, e)
          BY <4>1, HalvingStep
        <4>3. w[e] = HalvingOf(w[e \div 2], x, e)
          BY <1>2, <4>1, <4>2, Zenon
        <4> QED
          BY <3>2, <4>3, Zenon
      <3> QED
        BY <3>1, <3>2
    <2>2. w = [e \in 0 .. n |-> w[e]]
      OBVIOUS
    <2> HIDE DEF w
    <2> QED
      BY <2>1, <2>2
  <1>4. u = Step(u)
    BY <1>3, Zenon
  <1>5. PowerMod(x, n) = u[n]
    BY Zenon DEF PowerMod, HalvingOf
  <1> HIDE DEF u, w
  <1>6. \A e \in 0 .. n : u[e] = IF e = 0 THEN 1 ELSE HalvingOf(u[e \div 2], x, e)
    BY <1>4, Zenon
  <1> HIDE DEF Step
  <1>7. \A e \in 0 .. n : IsPower(u[e], x, e)
    <2> DEFINE T == {e \in 0 .. n : ~IsPower(u[e], x, e)}
    <2> SUFFICES ASSUME T # {} PROVE FALSE
      OBVIOUS
    <2>1. T \in SUBSET Nat
      OBVIOUS
    <2>2. PICK e \in T : \A k \in T : e <= k
      <3> HIDE DEF T
      <3> QED
        BY <2>1, LeastElement
    <2>3. e \in 0 .. n /\ ~IsPower(u[e], x, e) /\ e \in Nat
      OBVIOUS
    <2>4. e # 0
      BY <1>0, <1>6, <2>3
    <2>5. e \div 2 \in 0 .. n /\ ~(e <= e \div 2)
      BY <1>h, <2>3, <2>4
    <2>6. IsPower(u[e \div 2], x, e \div 2)
      BY <2>2, <2>5
    <2>7. u[e] = HalvingOf(u[e \div 2], x, e)
      BY <1>6, <2>3, <2>4, Zenon
    <2>8. IsPower(u[e], x, e)
      BY <2>3, <2>6, <2>7, HalvingStep
    <2> QED
      BY <2>3, <2>8
  <1>8. IsPower(u[n], x, n)
    <2>1. n \in 0 .. n
      OBVIOUS
    <2> QED
      BY <1>7, <2>1, Zenon
  <1> QED
    BY <1>5, <1>8, Zenon DEF IsPower

-----------------------------------------------------------------------------
(* The prime is five more than eight times the exponent of pow2523.        *)
LEMMA TwoToDefined ==
  /\ TwoTo[0] = 1
  /\ \A k \in 0 .. BITS : TwoTo[k + 1] = 2 * TwoTo[k]
  /\ \A k \in 0 .. (BITS + 1) : TwoTo[k] \in Nat \ {0}
  <1> DEFINE Step(s) == [k \in 0 .. (BITS + 1) |-> IF k = 0 THEN 1 ELSE 2 * s[k - 1]]
             F == [x \in (Nat \ {0}) \X (0 .. BITS) |-> 2 * x[1]]
  <1>0. BITS \in Nat /\ BITS + 1 \in Nat /\ (BITS + 1) - 1 = BITS
    BY FieldAssumption
  <1>1. F \in [(Nat \ {0}) \X (0 .. ((BITS + 1) - 1)) -> Nat \ {0}]
    BY <1>0
  <1>2. \A x \in Nat \ {0}, k \in 0 .. BITS : F[<<x, k>>] = 2 * x
    OBVIOUS
  <1> HIDE DEF F
  <1>3. PICK w \in [0 .. (BITS + 1) -> Nat \ {0}] : Follows(w, F, 1, BITS + 1)
    <2>1. 1 \in Nat \ {0}
      OBVIOUS
    <2> QED
      BY <1>0, <1>1, <2>1, RecursionExists, Zenon
  <1>4. w = Step(w)
    <2>1. w[0] = 1
      BY <1>3 DEF Follows
    <2>2. ASSUME NEW k \in 0 .. (BITS + 1), k # 0 PROVE w[k] = 2 * w[k - 1]
      <3>1. PICK j \in 0 .. BITS : j + 1 = k /\ j = k - 1
        BY <1>0, <2>2
      <3>2. w[j + 1] = F[<<w[j], j>>]
        BY <1>0, <1>3, <3>1, Zenon DEF Follows
      <3>3. w[j] \in Nat \ {0}
        BY <1>0, <1>3
      <3>4. w[j + 1] = 2 * w[j]
        BY <1>2, <3>2, <3>3, Zenon
      <3> QED
        BY <3>1, <3>4, Zenon
    <2> QED
      BY <2>1, <2>2
  <1>5. TwoTo = Step(TwoTo)
    BY <1>4, Zenon DEF TwoTo
  <1>6. \A k \in 0 .. (BITS + 1) : TwoTo[k] = IF k = 0 THEN 1 ELSE 2 * TwoTo[k - 1]
    BY <1>5, Zenon
  <1> HIDE DEF Step
  <1>7. TwoTo[0] = 1
    BY <1>0, <1>6
  <1>8. ASSUME NEW k \in 0 .. BITS PROVE TwoTo[k + 1] = 2 * TwoTo[k]
    <2>1. k + 1 \in 0 .. (BITS + 1) /\ k + 1 # 0 /\ (k + 1) - 1 = k
      BY <1>0
    <2> QED
      BY <1>6, <2>1
  <1>9. \A k \in 0 .. (BITS + 1) : TwoTo[k] \in Nat \ {0}
    <2>1. ASSUME NEW k \in 0 .. ((BITS + 1) - 1), TwoTo[k] \in Nat \ {0}
          PROVE  TwoTo[k + 1] \in Nat \ {0}
      <3>1. TwoTo[k + 1] = 2 * TwoTo[k]
        BY <1>0, <1>8, <2>1
      <3> QED
        BY <2>1, <3>1
    <2>2. TwoTo[0] \in Nat \ {0}
      BY <1>7
    <2> QED
      BY <1>0, <2>1, <2>2, StaysIn
  <1> QED
    BY <1>7, <1>8, <1>9

(* The exponent that the loop of pow2523 ends with, 2^252 - 3.             *)
RootExponent == TwoTo[BITS - 3] - 3

LEMMA PrimeIs ==
  RootExponent \in Nat /\ P = 8 * RootExponent + 5
  <1>0. BITS \in Nat /\ BITS > 5 /\ Unit[LIMBS] = TwoTo[BITS + 1]
    BY FieldAssumption
  <1>1. /\ BITS - 3 \in 0 .. BITS /\ BITS - 2 \in 0 .. BITS /\ BITS - 1 \in 0 .. BITS
        /\ (BITS - 3) + 1 = BITS - 2 /\ (BITS - 2) + 1 = BITS - 1 /\ (BITS - 1) + 1 = BITS
        /\ BITS \in 0 .. BITS /\ BITS - 3 \in 0 .. (BITS + 1)
    BY <1>0
  <1>2. PICK z \in Nat : z = TwoTo[BITS - 3]
    BY <1>1, TwoToDefined
  <1>3. TwoTo[BITS - 2] = 2 * z
    BY <1>1, <1>2, TwoToDefined, Zenon
  <1>4. TwoTo[BITS - 1] = 2 * (2 * z)
    BY <1>1, <1>3, TwoToDefined, Zenon
  <1>5. TwoTo[BITS] = 2 * (2 * (2 * z))
    BY <1>1, <1>4, TwoToDefined, Zenon
  <1>6. TwoTo[BITS + 1] = 2 * (2 * (2 * (2 * z)))
    BY <1>1, <1>5, TwoToDefined, Zenon
  <1>7. PICK p \in Nat : p = P /\ 2 * p + 38 = Unit[LIMBS] /\ p > 1000
    BY PrimeSize
  <1>8. 2 * p + 38 = 16 * z
    <2>1. 2 * (2 * (2 * (2 * z))) = 16 * z
      OBVIOUS
    <2> QED
      BY <1>0, <1>6, <1>7, <2>1, Zenon
  <1>9. z - 3 \in Nat /\ p = 8 * (z - 3) + 5
    BY <1>7, <1>8
  <1> QED
    BY <1>2, <1>7, <1>9, Zenon DEF RootExponent

-----------------------------------------------------------------------------
(* What the lines before pow2523 make of the two sides.                    *)
Radicand(u, v) == ((((v * v) * (v * v)) * (v * v)) * u) * v

(* The candidate, of what pow2523 returns.                                 *)
Candidate(q, u, v) == (((q * u) * v) * v) * v

LEMMA RadicandIs ==
  ASSUME NEW u \in Int, NEW v \in Int
  PROVE  /\ Radicand(u, v) \in Int
         /\ Radicand(u, v) = (u * v) * (((v * v) * v) * ((v * v) * v))
  <1>1. ((((v * v) * (v * v)) * (v * v)) * u) * v
          = (u * v) * (((v * v) * v) * ((v * v) * v))
    <2>1. PICK x \in Int : x = v * v
      OBVIOUS
    <2>2. (((x * x) * x) * u) * v = (u * v) * ((x * v) * (x * v))
      <3>1. (x * v) * (x * v) = (x * x) * (v * v)
        OBVIOUS
      <3>2. (x * v) * (x * v) = (x * x) * x
        BY <2>1, <3>1, Zenon
      <3>3. PICK y \in Int : y = (x * x) * x
        OBVIOUS
      <3>4. (y * u) * v = (u * v) * y
        OBVIOUS
      <3> QED
        BY <3>2, <3>3, <3>4, Zenon
    <2> QED
      BY <2>1, <2>2, Zenon
  <1>2. (u * v) * (((v * v) * v) * ((v * v) * v)) \in Int
    OBVIOUS
  <1> QED
    BY <1>1, <1>2, Zenon DEF Radicand

LEMMA CandidateSquared ==
  ASSUME NEW u \in Int, NEW v \in Int, NEW q \in Int
  PROVE  /\ Candidate(q, u, v) \in Int
         /\ (Candidate(q, u, v) * Candidate(q, u, v)) * v = u * ((q * q) * Radicand(u, v))
  <1>1. PICK x \in Int : x = (v * v) * v
    OBVIOUS
  <1>2. Candidate(q, u, v) = (q * u) * x
    <2>1. (((q * u) * v) * v) * v = (q * u) * ((v * v) * v)
      OBVIOUS
    <2> QED
      BY <1>1, <2>1, Zenon DEF Candidate
  <1>3. Radicand(u, v) = (u * v) * (x * x)
    BY <1>1, RadicandIs, Zenon
  <1>4. (((q * u) * x) * ((q * u) * x)) * v = u * ((q * q) * ((u * v) * (x * x)))
    <2>1. PICK p \in Int, y \in Int : p = q * q /\ y = x * x
      OBVIOUS
    <2>2. ((q * u) * x) * ((q * u) * x) = (q * q) * ((u * u) * (x * x))
      OBVIOUS
    <2>3. (p * ((u * u) * y)) * v = u * (p * ((u * v) * y))
      OBVIOUS
    <2> QED
      BY <2>1, <2>2, <2>3, Zenon
  <1>5. (q * u) * x \in Int
    OBVIOUS
  <1>6. Candidate(q, u, v) \in Int
    BY <1>2, <1>5, Zenon
  <1>7. (Candidate(q, u, v) * Candidate(q, u, v)) * v = u * ((q * q) * Radicand(u, v))
    BY <1>2, <1>3, <1>4, Zenon
  <1> QED
    BY <1>6, <1>7

(* A number whose fourth power is one, and that is neither one nor minus   *)
(* one, has minus one for its square.                                      *)
LEMMA FourthRoot ==
  ASSUME NEW z \in Int, Same((z * z) * (z * z), 1), ~Same(z, 1), ~Same(z, -1)
  PROVE  Same(z * z, -1)
  <1>1. PICK a \in Int, b \in Int, s \in Int : a = z - 1 /\ b = z - (-1) /\ s = z * z
    OBVIOUS
  <1>2. ~Same(a, 0) /\ ~Same(b, 0)
    BY <1>1, SameDifference
  <1>3. PICK c \in Int, d \in Int, f \in Int : c = a * b /\ d = s - (-1) /\ f = s * s
    BY <1>1
  <1>4. ~Same(c, 0)
    BY <1>2, <1>3, ZeroTimes
  <1>5. c * d = f - 1
    <2>1. c = s - 1
      BY <1>1, <1>3
    <2>2. (s - 1) * (s - (-1)) = s * s - 1
      OBVIOUS
    <2> QED
      BY <1>3, <2>1, <2>2, Zenon
  <1>6. Same(f - 1, 0)
    <2>1. Same(f, 1) /\ 1 \in Int
      BY <1>1, <1>3
    <2> QED
      BY <2>1, SameDifference
  <1>7. Same(c * d, 0)
    BY <1>5, <1>6, Zenon
  <1>8. Same(d, 0)
    BY <1>4, <1>7, ZeroTimes
  <1>9. Same(s, -1)
    BY <1>3, <1>8, SameDifference
  <1> QED
    BY <1>1, <1>9, Zenon

(* Euler's criterion for the product of the sides, of a candidate that     *)
(* solves neither the equation nor its negative.                           *)
LEMMA NoRoot ==
  ASSUME NEW u \in Int, NEW v \in Int, NEW x \in Int, NEW c \in Int, ~Same(v, 0),
         Same(x, Candidate(Power(Radicand(u, v), RootExponent), u, v)),
         Same(c, (x * x) * v), ~Same(c - u, 0), ~Same(c + u, 0)
  PROVE  Same(Power(u * v, 4 * RootExponent + 2), -1)
  <1>1. PICK e \in Nat : e = RootExponent /\ P - 1 = 8 * e + 4
    BY PrimeIs
  <1>2. PICK w \in Int : w = Radicand(u, v)
    BY RadicandIs
  <1>3. PICK q \in Int : q = Power(w, e)
    BY PowerIs
  <1>4. PICK z \in Int, r \in Int : z = (q * q) * w /\ r = Candidate(q, u, v)
    <2>1. Candidate(q, u, v) \in Int
      BY CandidateSquared, Zenon
    <2>2. (q * q) * w \in Int
      OBVIOUS
    <2> QED
      BY <2>1, <2>2, Zenon
  <1>5. Same(c, u * z)
    <2>1. Same(x, r)
      BY <1>1, <1>2, <1>3, <1>4, Zenon
    <2>2. PICK xx \in Int, rr \in Int, xv \in Int, rv \in Int :
            xx = x * x /\ rr = r * r /\ xv = xx * v /\ rv = rr * v
      OBVIOUS
    <2>3. Same(xx, rr)
      BY <2>1, <2>2, SameProduct, Zenon
    <2>4. Same(xv, rv)
      BY <2>2, <2>3, SameTimes, Zenon
    <2>5. Same(c, xv)
      BY <2>2, Zenon
    <2>6. Same(c, rv)
      BY <2>4, <2>5, SameThen
    <2>7. rv = u * z
      <3>1. (Candidate(q, u, v) * Candidate(q, u, v)) * v = u * ((q * q) * Radicand(u, v))
        BY CandidateSquared
      <3>2. (r * r) * v = u * ((q * q) * w)
        BY <1>2, <1>4, <3>1, Zenon
      <3> QED
        BY <1>4, <2>2, <3>2, Zenon
    <2> QED
      BY <2>6, <2>7, Zenon
  <1>6. ~Same(c, u) /\ ~Same(c, -u)
    <2>1. c + u = c - (-u) /\ -u \in Int
      OBVIOUS
    <2> QED
      BY <2>1, SameDifference
  <1>7. ~Same(z, 1) /\ ~Same(z, -1)
    <2>1. PICK uz \in Int : uz = u * z
      OBVIOUS
    <2>2. ASSUME NEW f \in Int, Same(z, f) PROVE Same(c, u * f)
      <3>1. PICK uf \in Int : uf = u * f
        OBVIOUS
      <3>2. Same(uz, uf)
        BY <2>1, <2>2, <3>1, SameTimes, Zenon
      <3>3. Same(c, uz)
        BY <1>5, <2>1, Zenon
      <3>4. Same(c, uf)
        BY <3>2, <3>3, SameThen
      <3> QED
        BY <3>1, <3>4, Zenon
    <2>3. u * 1 = u /\ u * (-1) = -u /\ 1 \in Int /\ -1 \in Int
      OBVIOUS
    <2> QED
      BY <1>6, <2>2, <2>3, Zenon
  <1>8. ~Same(u, 0)
    <2> SUFFICES ASSUME Same(u, 0) PROVE FALSE
      OBVIOUS
    <2>1. PICK uz \in Int, oz \in Int : uz = u * z /\ oz = 0 * z
      OBVIOUS
    <2>2. Same(uz, oz) /\ 0 \in Int
      <3>1. 0 \in Int
        OBVIOUS
      <3>2. Same(u * z, 0 * z)
        BY <3>1, SameTimes, Zenon
      <3> QED
        BY <2>1, <3>1, <3>2, Zenon
    <2>3. oz = 0
      BY <2>1
    <2>4. Same(0, u)
      BY <2>2, SameBack
    <2>5. Same(c, uz) /\ Same(uz, 0)
      BY <1>5, <2>1, <2>2, <2>3, Zenon
    <2>6. Same(c, u)
      BY <2>2, <2>4, <2>5, SameThen
    <2> QED
      BY <1>6, <2>6
  <1>9. PICK b \in Int, vv \in Int, uv \in Int, bb \in Int :
          vv = v * v /\ b = vv * v /\ uv = u * v /\ bb = b * b
    OBVIOUS
  <1>10. ~Same(b, 0) /\ ~Same(uv, 0) /\ ~Same(bb, 0)
    BY <1>8, <1>9, ZeroTimes
  <1>11. w = uv * bb
    <2>1. Radicand(u, v) = (u * v) * (((v * v) * v) * ((v * v) * v))
      BY RadicandIs, Zenon
    <2>2. (v * v) * v = b
      BY <1>9, Zenon
    <2>3. Radicand(u, v) = uv * (b * b)
      BY <1>9, <2>1, <2>2, Zenon
    <2> QED
      BY <1>2, <1>9, <2>3, Zenon
  <1>12. ~Same(w, 0)
    BY <1>10, <1>11, ZeroTimes
  <1>13. Same(Power(w, 8 * e + 4), 1) /\ Same(Power(b, 8 * e + 4), 1)
    BY <1>1, <1>10, <1>12, Fermat, Zenon
  <1>14. PICK m \in Nat, n \in Nat : m = 2 * e + 1 /\ n = 2 * m /\ n = 4 * e + 2 /\ 2 * n = 8 * e + 4
    OBVIOUS
  <1>15. Power(w, m) = z
    BY <1>3, <1>4, <1>14, PowerTwice, Zenon
  <1>16. Power(w, n) = z * z
    <2>1. Power(w, 2 * m) = Power(w, m) * Power(w, m)
      BY PowerTwice, Zenon
    <2>2. Power(w, n) = Power(w, m) * Power(w, m)
      BY <1>14, <2>1, Zenon
    <2> QED
      BY <1>15, <2>2, Zenon
  <1>17. Power(w, 2 * n) = (z * z) * (z * z)
    <2>1. Power(w, 2 * n) = Power(w, n) * Power(w, n)
      BY PowerTwice, Zenon
    <2> QED
      BY <1>16, <2>1, Zenon
  <1>18. Same((z * z) * (z * z), 1)
    BY <1>13, <1>14, <1>17, Zenon
  <1>19. Same(z * z, -1)
    BY <1>7, <1>18, FourthRoot
  <1>20. PICK zz \in Int, g \in Int, h \in Int :
           zz = z * z /\ g = Power(uv, n) /\ h = Power(bb, n)
    <2>1. Power(uv, n) \in Int /\ Power(bb, n) \in Int
      BY PowerIs, Zenon
    <2>2. z * z \in Int
      OBVIOUS
    <2> QED
      BY <2>1, <2>2, Zenon
  <1>21. zz = g * h
    <2>1. Power(uv * bb, n) = Power(uv, n) * Power(bb, n)
      BY PowerOfProduct
    <2>2. Power(w, n) = g * h
      BY <1>11, <1>20, <2>1, Zenon
    <2> QED
      BY <1>16, <1>20, <2>2, Zenon
  <1>22. Same(h, 1)
    <2>1. Power(bb, n) = Power(b, n) * Power(b, n)
      <3>1. Power(b * b, n) = Power(b, n) * Power(b, n)
        BY PowerOfProduct
      <3>2. bb = b * b
        BY <1>9
      <3> QED
        BY <3>1, <3>2, Zenon
    <2>2. Power(b, 2 * n) = Power(b, n) * Power(b, n)
      BY PowerTwice, Zenon
    <2> QED
      BY <1>13, <1>14, <1>20, <2>1, <2>2, Zenon
  <1>23. Same(g, -1)
    <2>1. PICK gh \in Int : gh = g * h
      OBVIOUS
    <2>2. Same(gh, g * 1)
      <3>1. 1 \in Int
        OBVIOUS
      <3>2. Same(g * h, g * 1)
        BY <1>22, <3>1, SameTimes, Zenon
      <3> QED
        BY <2>1, <3>2, Zenon
    <2>3. g * 1 = g
      OBVIOUS
    <2>4. Same(gh, g) /\ Same(gh, -1) /\ -1 \in Int
      BY <1>19, <1>20, <1>21, <2>1, <2>2, <2>3
    <2> QED
      BY <2>4, SameBack, SameThen
  <1> QED
    BY <1>1, <1>9, <1>14, <1>20, <1>23, Zenon

-----------------------------------------------------------------------------
(* The third invariant of unpackneg: its lines make u v^7 of the sides,    *)
(* u and v, pow2523 raises that to (P - 5) / 8, and the lines behind it    *)
(* make the candidate.                                                     *)
Made(g, r, x) == Same(Value(g[r]), x)

LineInv(g, l, u, v, q) ==
  /\ l = 2 => Made(g, "den2", v * v)
  /\ l = 3 => Made(g, "den2", v * v) /\ Made(g, "den4", (v * v) * (v * v))
  /\ l = 4 => Made(g, "den6", ((v * v) * (v * v)) * (v * v))
  /\ l = 5 => Made(g, "t", (((v * v) * (v * v)) * (v * v)) * u)
  /\ l = 6 => Made(g, "t", q)
  /\ l = 7 => Made(g, "t", q * u)
  /\ l = 8 => Made(g, "t", (q * u) * v)
  /\ l = 9 => Made(g, "t", ((q * u) * v) * v)
  /\ l \in {10, 11, 12} => Made(g, "rx", Candidate(q, u, v))

LEMMA TimesFound ==
  ASSUME NEW a \in [Places -> Int], NEW b \in [Places -> Int], NEW x \in Int, NEW y \in Int,
         Same(Value(a), x), Same(Value(b), y)
  PROVE  Same(Value(Times(a, b)), x * y)
  <1>1. Times(a, b) \in [Places -> Int] /\ Same(Value(Times(a, b)), Value(a) * Value(b))
    BY TimesValue
  <1>2. PICK vt \in Int, va \in Int, vb \in Int :
          vt = Value(Times(a, b)) /\ va = Value(a) /\ vb = Value(b)
    BY <1>1, ValueDefined
  <1>3. PICK ab \in Int, xy \in Int : ab = va * vb /\ xy = x * y
    OBVIOUS
  <1>4. Same(vt, ab)
    <2>1. Same(vt, va * vb)
      BY <1>1, <1>2, Zenon
    <2> QED
      BY <1>3, <2>1, Zenon
  <1>5. Same(ab, xy)
    <2>1. Same(va, x) /\ Same(vb, y)
      BY <1>2, Zenon
    <2> QED
      BY <1>3, <2>1, SameProduct, Zenon
  <1>6. Same(vt, xy)
    BY <1>4, <1>5, SameThen
  <1> QED
    BY <1>2, <1>3, <1>6, Zenon

(* One line, by the registers it names.                                    *)
Sets(h, g, r, a, b) == h = [g EXCEPT ![r] = Times(g[a], g[b])]

LEMMA LineMade ==
  ASSUME NEW g \in [Registers -> [Places -> Int]], NEW h,
         NEW r \in Registers, NEW a \in Registers, NEW b \in Registers, Sets(h, g, r, a, b),
         NEW x \in Int, NEW y \in Int, Made(g, a, x), Made(g, b, y)
  PROVE  Made(h, r, x * y)
  <1>1. h[r] = Times(g[a], g[b])
    BY DEF Sets
  <1>2. g[a] \in [Places -> Int] /\ g[b] \in [Places -> Int]
    OBVIOUS
  <1>3. Same(Value(Times(g[a], g[b])), x * y)
    BY <1>2, TimesFound, Zenon DEF Made
  <1> QED
    BY <1>1, <1>3, Zenon DEF Made

LEMMA LineKept ==
  ASSUME NEW g \in [Registers -> [Places -> Int]], NEW h,
         NEW r \in Registers, NEW a \in Registers, NEW b \in Registers, Sets(h, g, r, a, b),
         NEW s \in Registers \ {r}, NEW x, Made(g, s, x)
  PROVE  Made(h, s, x)
  <1>1. h[s] = g[s]
    BY DEF Sets
  <1> QED
    BY <1>1, Zenon DEF Made

LEMMA LineStep ==
  ASSUME NEW g \in [Registers -> [Places -> Int]], NEW l \in 1 .. 11, NEW h,
         h = [g EXCEPT ![Lines[l][1]] = Times(g[Lines[l][2]], g[Lines[l][3]])],
         NEW u \in Int, NEW v \in Int, NEW q \in Int,
         Made(g, "num", u), Made(g, "den", v), LineInv(g, l, u, v, q)
  PROVE  /\ l # 5 => LineInv(h, l + 1, u, v, q)
         /\ l = 5 => Made(h, "t", Radicand(u, v))
  <1>r. /\ "num" \in Registers /\ "den" \in Registers /\ "den2" \in Registers
        /\ "den4" \in Registers /\ "den6" \in Registers /\ "t" \in Registers
        /\ "rx" \in Registers /\ "chk" \in Registers
    BY DEF Registers
  <1>p. /\ v * v \in Int /\ (v * v) * (v * v) \in Int /\ ((v * v) * (v * v)) * (v * v) \in Int
        /\ (((v * v) * (v * v)) * (v * v)) * u \in Int
    <2>1. PICK x \in Int : x = v * v
      OBVIOUS
    <2>2. x * x \in Int /\ (x * x) * x \in Int /\ ((x * x) * x) * u \in Int
      OBVIOUS
    <2> QED
      BY <2>1, <2>2, Zenon
  <1>q. q * u \in Int /\ (q * u) * v \in Int /\ ((q * u) * v) * v \in Int
    OBVIOUS
  <1>1. CASE l = 1
    <2>1. Sets(h, g, "den2", "den", "den")
      BY <1>1 DEF Lines, Sets
    <2>2. Made(h, "den2", v * v)
      BY <1>r, <2>1, LineMade
    <2> QED
      BY <1>1, <2>2 DEF LineInv
  <1>2. CASE l = 2
    <2>1. Sets(h, g, "den4", "den2", "den2")
      BY <1>2 DEF Lines, Sets
    <2>2. Made(g, "den2", v * v)
      BY <1>2 DEF LineInv
    <2>3. Made(h, "den4", (v * v) * (v * v))
      BY <1>p, <1>r, <2>1, <2>2, LineMade
    <2>4. Made(h, "den2", v * v)
      BY <1>r, <2>1, <2>2, LineKept
    <2> QED
      BY <1>2, <2>3, <2>4 DEF LineInv
  <1>3. CASE l = 3
    <2>1. Sets(h, g, "den6", "den4", "den2")
      BY <1>3 DEF Lines, Sets
    <2>2. Made(g, "den2", v * v) /\ Made(g, "den4", (v * v) * (v * v))
      BY <1>3 DEF LineInv
    <2>a. PICK x \in Int, y \in Int : x = v * v /\ y = (v * v) * (v * v)
      BY <1>p
    <2>b. Made(h, "den6", y * x)
      <3>1. Made(g, "den2", x) /\ Made(g, "den4", y)
        BY <2>2, <2>a, Zenon
      <3> QED
        BY <1>r, <2>1, <3>1, LineMade
    <2>3. Made(h, "den6", ((v * v) * (v * v)) * (v * v))
      BY <2>a, <2>b, Zenon
    <2> QED
      BY <1>3, <2>3 DEF LineInv
  <1>4. CASE l = 4
    <2>1. Sets(h, g, "t", "den6", "num")
      BY <1>4 DEF Lines, Sets
    <2>2. Made(g, "den6", ((v * v) * (v * v)) * (v * v))
      BY <1>4 DEF LineInv
    <2>a. PICK x \in Int : x = ((v * v) * (v * v)) * (v * v)
      BY <1>p
    <2>b. Made(h, "t", x * u)
      <3>1. Made(g, "den6", x)
        BY <2>2, <2>a, Zenon
      <3> QED
        BY <1>r, <2>1, <3>1, LineMade
    <2>3. Made(h, "t", (((v * v) * (v * v)) * (v * v)) * u)
      BY <2>a, <2>b, Zenon
    <2> QED
      BY <1>4, <2>3 DEF LineInv
  <1>5. CASE l = 5
    <2>1. Sets(h, g, "t", "t", "den")
      BY <1>5 DEF Lines, Sets
    <2>2. Made(g, "t", (((v * v) * (v * v)) * (v * v)) * u)
      BY <1>5 DEF LineInv
    <2>a. PICK x \in Int : x = (((v * v) * (v * v)) * (v * v)) * u
      BY <1>p
    <2>b. Made(h, "t", x * v)
      <3>1. Made(g, "t", x)
        BY <2>2, <2>a, Zenon
      <3> QED
        BY <1>r, <2>1, <3>1, LineMade
    <2>3. Made(h, "t", ((((v * v) * (v * v)) * (v * v)) * u) * v)
      BY <2>a, <2>b, Zenon
    <2> QED
      BY <1>5, <2>3 DEF Radicand
  <1>6. CASE l = 6
    <2>1. Sets(h, g, "t", "t", "num")
      BY <1>6 DEF Lines, Sets
    <2>2. Made(g, "t", q)
      BY <1>6 DEF LineInv
    <2>3. Made(h, "t", q * u)
      BY <1>r, <2>1, <2>2, LineMade
    <2> QED
      BY <1>6, <2>3 DEF LineInv
  <1>7. CASE l = 7
    <2>1. Sets(h, g, "t", "t", "den")
      BY <1>7 DEF Lines, Sets
    <2>2. Made(g, "t", q * u)
      BY <1>7 DEF LineInv
    <2>3. Made(h, "t", (q * u) * v)
      BY <1>q, <1>r, <2>1, <2>2, LineMade
    <2> QED
      BY <1>7, <2>3 DEF LineInv
  <1>8. CASE l = 8
    <2>1. Sets(h, g, "t", "t", "den")
      BY <1>8 DEF Lines, Sets
    <2>2. Made(g, "t", (q * u) * v)
      BY <1>8 DEF LineInv
    <2>3. Made(h, "t", ((q * u) * v) * v)
      BY <1>q, <1>r, <2>1, <2>2, LineMade
    <2> QED
      BY <1>8, <2>3 DEF LineInv
  <1>9. CASE l = 9
    <2>1. Sets(h, g, "rx", "t", "den")
      BY <1>9 DEF Lines, Sets
    <2>2. Made(g, "t", ((q * u) * v) * v)
      BY <1>9 DEF LineInv
    <2>3. Made(h, "rx", Candidate(q, u, v))
      BY <1>q, <1>r, <2>1, <2>2, LineMade DEF Candidate
    <2> QED
      BY <1>9, <2>3 DEF LineInv
  <1>10. CASE l \in {10, 11}
    <2>1. Sets(h, g, "chk", Lines[l][2], Lines[l][3])
      <3>1. Lines[l][1] = "chk"
        BY <1>10 DEF Lines
      <3> QED
        BY <3>1, Zenon DEF Sets
    <2>a. Lines[l][2] \in Registers /\ Lines[l][3] \in Registers /\ "rx" # "chk"
      BY LineNames
    <2>2. Made(g, "rx", Candidate(q, u, v))
      BY <1>10 DEF LineInv
    <2>3. Made(h, "rx", Candidate(q, u, v))
      BY <1>r, <2>1, <2>2, <2>a, LineKept
    <2> QED
      BY <1>10, <2>3 DEF LineInv
  <1> QED
    BY <1>1, <1>2, <1>3, <1>4, <1>5, <1>6, <1>7, <1>8, <1>9, <1>10

(* Limbs that are digits stand for zero only if they are all zero.         *)
LEMMA DigitsPositive ==
  ASSUME NEW a \in [Places -> 0 .. (RADIX - 1)], NEW j \in Places, a[j] # 0
  PROVE  Value(a) # 0
  <1> DEFINE b == [a EXCEPT ![j] = 0]
  <1>0. RADIX \in Nat /\ RADIX >= 256 /\ LIMBS \in Nat /\ Places = 0 .. (LIMBS - 1)
    BY Sizes
  <1>1. b \in [Places -> 0 .. (RADIX - 1)]
    <2>1. 0 \in 0 .. (RADIX - 1)
      BY <1>0
    <2> QED
      BY <2>1
  <1>a. a \in [Places -> Int] /\ b \in [Places -> Int]
    BY <1>1, DigitsValue
  <1> HIDE DEF b
  <1>2. PICK x \in Int, y \in Int : x = Value(a) /\ y = Value(b) /\ y >= 0
    <2>1. Value(b) \in 0 .. (Unit[LIMBS] - 1)
      BY <1>1, DigitsValue, Zenon
    <2>2. Value(a) \in Int
      BY <1>a, ValueDefined, Zenon
    <2>3. Unit[LIMBS] \in Int
      BY <1>0, UnitDefined
    <2> QED
      BY <2>1, <2>2, <2>3
  <1>3. PICK d \in Nat \ {0}, w \in Nat \ {0} : d = a[j] /\ w = Unit[j]
    <2>1. a[j] \in Nat \ {0}
      BY <1>0
    <2>2. Unit[j] \in Nat \ {0}
      BY <1>0, UnitDefined
    <2> QED
      BY <2>1, <2>2
  <1>4. y = x + (0 - d) * w
    <2>1. a \in [Places -> Int] /\ 0 \in Int
      BY DigitsValue
    <2>2. Value(b) = Value(a) + (0 - a[j]) * Unit[j]
      BY <2>1, ValueChanged, Zenon DEF b
    <2> QED
      BY <1>2, <1>3, <2>2, Zenon
  <1>5. (0 - d) * w = -(d * w) /\ d * w > 0
    OBVIOUS
  <1>6. x # 0
    <2>1. PICK e \in Int : e = d * w
      OBVIOUS
    <2>2. y = x - e /\ e > 0
      BY <1>4, <1>5, <2>1
    <2> QED
      BY <1>2, <2>2
  <1> QED
    BY <1>2, <1>6, Zenon

LEMMA NonzeroIs ==
  ASSUME NEW a \in [Places -> Int],
         \A k \in Places : a[k] <= 4 * RADIX /\ -(4 * RADIX) <= a[k],
         IsNonzero(a)
  PROVE  ~Same(Value(a), 0)
  <1>1. Pack(a) \in [Places -> 0 .. (RADIX - 1)] /\ Value(Pack(a)) = Residue(a)
    BY Packed
  <1>2. PICK j \in Places : Pack(a)[j] # 0
    BY DEF IsNonzero
  <1>3. Residue(a) # 0
    BY <1>1, <1>2, DigitsPositive
  <1>4. PICK v \in Int, r \in 0 .. (P - 1) : v = Value(a) /\ r = Residue(a) /\ Same(r, v)
    BY ValueDefined, ResidueIs
  <1>5. 0 \in 0 .. (P - 1) /\ r \in Int /\ 0 \in Int
    BY PrimeSize
  <1>6. ~Same(v, 0)
    <2> SUFFICES ASSUME Same(v, 0) PROVE FALSE
      OBVIOUS
    <2>1. Same(r, 0)
      BY <1>4, <1>5, SameThen
    <2> QED
      BY <1>3, <1>4, <1>5, <2>1, SameBelow
  <1> QED
    BY <1>4, <1>6, Zenon

-----------------------------------------------------------------------------
(* The exponents that the loop of pow2523 goes through.                    *)
SquaredAt(k) == IF k = 0 THEN 2 * (TwoTo[BITS - 5] - 1) ELSE TwoTo[BITS - 4 - k] - 1

Exponent(at, k) ==
  CASE at = "square" -> SquaredAt(k)
    [] at = "times"  -> 2 * SquaredAt(k)
    [] OTHER         -> RootExponent

LEMMA Exponents ==
  /\ \A k \in 0 .. (BITS - 5) : SquaredAt(k) \in Nat
  /\ SquaredAt(BITS - 5) = 1
  /\ SquaredAt(0) = 2 * SquaredAt(1)
  /\ \A k \in 2 .. (BITS - 5) : SquaredAt(k - 1) = 2 * SquaredAt(k) + 1
  /\ RootExponent = 2 * SquaredAt(0) + 1
  <1>0. BITS \in Nat /\ BITS > 5
    BY FieldAssumption
  <1>1. \A j \in 0 .. (BITS - 5) : TwoTo[j] \in Nat \ {0}
    <2>1. \A j \in 0 .. (BITS - 5) : j \in 0 .. (BITS + 1)
      BY <1>0
    <2> QED
      BY <2>1, TwoToDefined
  <1>2. ASSUME NEW k \in 0 .. (BITS - 5) PROVE SquaredAt(k) \in Nat
    <2>1. CASE k = 0
      <3>1. BITS - 5 \in 0 .. (BITS - 5)
        BY <1>0
      <3>2. PICK z \in Nat \ {0} : z = TwoTo[BITS - 5]
        BY <1>1, <3>1
      <3>3. 2 * (z - 1) \in Nat
        OBVIOUS
      <3> QED
        BY <2>1, <3>2, <3>3, Zenon DEF SquaredAt
    <2>2. CASE k # 0
      <3>1. BITS - 4 - k \in 0 .. (BITS - 5)
        BY <1>0, <2>2
      <3>2. PICK z \in Nat \ {0} : z = TwoTo[BITS - 4 - k]
        BY <1>1, <3>1
      <3>3. z - 1 \in Nat
        OBVIOUS
      <3> QED
        BY <2>2, <3>2, <3>3, Zenon DEF SquaredAt
    <2> QED
      BY <2>1, <2>2
  <1>3. SquaredAt(BITS - 5) = 1
    <2>1. BITS - 5 # 0 /\ BITS - 4 - (BITS - 5) = 0 + 1 /\ 0 \in 0 .. BITS
      BY <1>0
    <2>2. TwoTo[0 + 1] = 2 * 1
      BY <2>1, TwoToDefined
    <2>3. TwoTo[BITS - 4 - (BITS - 5)] = 2 * 1
      BY <2>1, <2>2, Zenon
    <2>4. SquaredAt(BITS - 5) = (2 * 1) - 1
      BY <2>1, <2>3, Zenon DEF SquaredAt
    <2> QED
      BY <2>4
  <1>4. SquaredAt(0) = 2 * SquaredAt(1)
    <2>1. BITS - 4 - 1 = BITS - 5
      BY <1>0
    <2>2. 1 # 0
      OBVIOUS
    <2>3. SquaredAt(1) = TwoTo[BITS - 5] - 1
      BY <2>1, <2>2, Zenon DEF SquaredAt
    <2>4. SquaredAt(0) = 2 * (TwoTo[BITS - 5] - 1)
      BY Zenon DEF SquaredAt
    <2> QED
      BY <2>3, <2>4, Zenon
  <1>5. ASSUME NEW k \in 2 .. (BITS - 5) PROVE SquaredAt(k - 1) = 2 * SquaredAt(k) + 1
    <2>1. /\ BITS - 4 - k \in 0 .. BITS /\ BITS - 4 - k \in 0 .. (BITS - 5)
          /\ BITS - 4 - (k - 1) = (BITS - 4 - k) + 1 /\ k # 0 /\ k - 1 # 0
      BY <1>0
    <2>2. PICK z \in Nat \ {0} : z = TwoTo[BITS - 4 - k]
      BY <1>1, <2>1
    <2>3. TwoTo[BITS - 4 - (k - 1)] = 2 * z
      BY <2>1, <2>2, TwoToDefined, Zenon
    <2>4. SquaredAt(k - 1) = 2 * z - 1
      BY <2>1, <2>3, Zenon DEF SquaredAt
    <2>5. SquaredAt(k) = z - 1
      BY <2>1, <2>2, Zenon DEF SquaredAt
    <2>6. 2 * z - 1 = 2 * (z - 1) + 1
      OBVIOUS
    <2> QED
      BY <2>4, <2>5, <2>6, Zenon
  <1>6. RootExponent = 2 * SquaredAt(0) + 1
    <2>1. /\ BITS - 5 \in 0 .. BITS /\ BITS - 4 \in 0 .. BITS /\ BITS - 5 \in 0 .. (BITS - 5)
          /\ (BITS - 5) + 1 = BITS - 4 /\ (BITS - 4) + 1 = BITS - 3
      BY <1>0
    <2>2. PICK z \in Nat \ {0} : z = TwoTo[BITS - 5]
      BY <1>1, <2>1
    <2>3. TwoTo[BITS - 4] = 2 * z
      BY <2>1, <2>2, TwoToDefined, Zenon
    <2>4. TwoTo[BITS - 3] = 2 * (2 * z)
      BY <2>1, <2>3, TwoToDefined, Zenon
    <2>5. SquaredAt(0) = 2 * (z - 1)
      BY <2>2, Zenon DEF SquaredAt
    <2>6. 2 * (2 * z) - 3 = 2 * (2 * (z - 1)) + 1
      OBVIOUS
    <2> QED
      BY <2>4, <2>5, <2>6, Zenon DEF RootExponent
  <1> QED
    BY <1>2, <1>3, <1>4, <1>5, <1>6

LEMMA PowerSquared ==
  ASSUME NEW a \in [Places -> Int], NEW t \in Int, NEW n \in Nat, Same(Value(a), Power(t, n))
  PROVE  Same(Value(Square(a)), Power(t, 2 * n))
  <1>1. PICK y \in Int : y = Power(t, n)
    BY PowerIs
  <1>2. Same(Value(Times(a, a)), y * y)
    BY <1>1, TimesFound
  <1>3. Power(t, 2 * n) = Power(t, n) * Power(t, n)
    BY PowerTwice, Zenon
  <1> QED
    BY <1>1, <1>2, <1>3, Zenon DEF Square

LEMMA PowerMultiplied ==
  ASSUME NEW a \in [Places -> Int], NEW b \in [Places -> Int], NEW n \in Nat,
         Same(Value(a), Power(Value(b), n))
  PROVE  Same(Value(Times(a, b)), Power(Value(b), n + 1))
  <1>1. PICK t \in Int, y \in Int : t = Value(b) /\ y = Power(t, n)
    BY ValueDefined, PowerIs
  <1>2. Same(Value(b), t)
    BY <1>1, SameItself
  <1>3. Same(Value(Times(a, b)), y * t)
    BY <1>1, <1>2, TimesFound
  <1>4. Power(t, n + 1) = y * t
    BY <1>1, PowerIs, Zenon
  <1> QED
    BY <1>1, <1>3, <1>4, Zenon

Root(u, v) == Power(Radicand(u, v), RootExponent)

RootAt(at, l, k, g, u, v) ==
  /\ at = "lines" => LineInv(g, l, u, v, Root(u, v))
  /\ at \in {"enter", "square", "times", "leave"} => Made(g, "t", Radicand(u, v))
  /\ at \in {"square", "times"} => k \in 0 .. (BITS - 5)
  /\ at = "times" => k # 1
  /\ at \in {"square", "times", "leave"} => Made(g, "c", Power(Value(g["t"]), Exponent(at, k)))
  /\ at = "check" => Made(g, "rx", Candidate(Root(u, v), u, v))
  /\ at = "rejected" => Same(Power(u * v, 4 * RootExponent + 2), -1)

RootInv == RootAt(pc, line, turn, reg, Value(reg["num"]), Value(reg["den"]))

LEMMA RootInvInit ==
  Init => RootInv
  BY DEF Init, RootInv, RootAt

(* Reaching the end of pow2523, what it set is the root.                   *)
LEMMA LoopLeft ==
  ASSUME NEW u \in Int, NEW v \in Int, NEW g \in [Registers -> [Places -> Int]], NEW h,
         Made(g, "t", Radicand(u, v)), Made(g, "c", Power(Value(g["t"]), RootExponent)),
         h = [g EXCEPT !["t"] = g["c"]]
  PROVE  Made(h, "t", Root(u, v))
  <1>1. "t" \in Registers /\ "c" \in Registers
    BY DEF Registers
  <1>2. h["t"] = g["c"]
    BY <1>1
  <1>3. PICK t \in Int, c \in Int, r \in Int :
          t = Value(g["t"]) /\ c = Value(g["c"]) /\ r = Radicand(u, v)
    BY <1>1, ValueDefined, RadicandIs
  <1>4. Same(t, r) /\ Same(c, Power(t, RootExponent))
    BY <1>3, Zenon DEF Made
  <1>5. PICK e \in Nat : e = RootExponent
    BY PrimeIs
  <1>6. PICK p \in Int, w \in Int : p = Power(t, e) /\ w = Power(r, e)
    BY PowerIs
  <1>7. Same(p, w)
    BY <1>4, <1>6, PowerSame
  <1>8. Same(c, p)
    BY <1>4, <1>5, <1>6, Zenon
  <1>9. Same(c, w)
    BY <1>7, <1>8, SameThen
  <1> QED
    BY <1>2, <1>3, <1>5, <1>6, <1>9, Zenon DEF Made, Root

(* Squaring and multiplying, the loop goes through its exponents.          *)
LEMMA LoopSquared ==
  ASSUME NEW g \in [Registers -> [Places -> Int]], NEW h, h = [g EXCEPT !["c"] = Square(g["c"])],
         NEW n \in Nat, Made(g, "c", Power(Value(g["t"]), n))
  PROVE  Made(h, "c", Power(Value(h["t"]), 2 * n))
  <1>1. {"t", "c"} \subseteq Registers
    BY DEF Registers
  <1>2. h["t"] = g["t"] /\ h["c"] = Square(g["c"])
    BY <1>1
  <1>3. g["c"] \in [Places -> Int] /\ Value(g["t"]) \in Int
    BY <1>1, ValueDefined
  <1>4. Same(Value(Square(g["c"])), Power(Value(g["t"]), 2 * n))
    BY <1>3, PowerSquared, Zenon DEF Made
  <1> QED
    BY <1>2, <1>4, Zenon DEF Made

LEMMA LoopMultiplied ==
  ASSUME NEW g \in [Registers -> [Places -> Int]],
         NEW h, h = [g EXCEPT !["c"] = Times(g["c"], g["t"])],
         NEW n \in Nat, Made(g, "c", Power(Value(g["t"]), n))
  PROVE  Made(h, "c", Power(Value(h["t"]), n + 1))
  <1>1. {"t", "c"} \subseteq Registers
    BY DEF Registers
  <1>2. h["t"] = g["t"] /\ h["c"] = Times(g["c"], g["t"])
    BY <1>1
  <1>3. g["c"] \in [Places -> Int] /\ g["t"] \in [Places -> Int]
    BY <1>1
  <1>4. Same(Value(Times(g["c"], g["t"])), Power(Value(g["t"]), n + 1))
    BY <1>3, PowerMultiplied, Zenon DEF Made
  <1> QED
    BY <1>2, <1>4, Zenon DEF Made

(* The denominator is the residue that CurveAssumption is about.           *)
LEMMA DenominatorSame ==
  ASSUME NEW a \in [Places -> Int], NEW v \in Int,
         Same(v, 1 + (Value(a) * Value(a)) * Value(D))
  PROVE  /\ Denominator(Residue(a)) \in 0 .. (P - 1) /\ Denominator(Residue(a)) # 0
         /\ Same(Denominator(Residue(a)), v)
  <1> DEFINE ry == Residue(a)
             rd == Residue(D)
             y == Value(a)
             d == Value(D)
             y2 == TimesMod(ry, ry)
  <1>p. P \in Nat \ {0} /\ 1 \in 0 .. (P - 1)
    BY PrimeSize
  <1>1. D \in [Places -> Int]
    BY FieldAssumption
  <1>2. y \in Int /\ d \in Int
    BY <1>1, ValueDefined
  <1>3. ry \in 0 .. (P - 1) /\ Same(ry, y) /\ rd \in 0 .. (P - 1) /\ Same(rd, d)
    BY <1>1, ResidueIs
  <1>4. Same(v, 1 + (y * y) * d)
    OBVIOUS
  <1>5. Denominator(ry) # 0
    BY <1>3, CurveAssumption
  <1>6. Denominator(ry) = (1 + TimesMod(rd, y2)) % P
    BY Zenon DEF Denominator
  <1> HIDE DEF ry, rd, y, d
  <1>7. y2 \in 0 .. (P - 1) /\ Same(y2, y * y)
    BY <1>2, <1>3, TimesModSame, Zenon
  <1>8. PICK yy \in Int : yy = y * y
    BY <1>2
  <1>9. PICK s \in 0 .. (P - 1) : s = TimesMod(rd, y2) /\ Same(s, d * yy)
    <2>1. Same(y2, yy)
      BY <1>7, <1>8, Zenon
    <2> QED
      BY <1>2, <1>3, <1>7, <1>8, <2>1, TimesModSame
  <1>10. PICK w \in Int, ds \in Int : w = 1 + s /\ ds = d * yy
    BY <1>2, <1>p
  <1>11. PICK r \in 0 .. (P - 1) : r = Denominator(ry) /\ Same(r, w)
    <2>1. w % P \in 0 .. (P - 1) /\ Same(w % P, w)
      BY SameRemainder
    <2> QED
      BY <1>6, <1>9, <1>10, <2>1
  <1>12. Same(w, 1 + ds)
    <2>1. Same(s, ds) /\ Same(1, 1) /\ s \in Int /\ 1 \in Int
      BY <1>9, <1>p, <1>10, SameItself
    <2> QED
      BY <1>10, <2>1, SameSum
  <1>13. Same(v, 1 + ds)
    <2>1. yy * d = d * yy
      BY <1>2
    <2> QED
      BY <1>4, <1>8, <1>10, <2>1, Zenon
  <1>14. Same(r, v)
    <2>1. 1 + ds \in Int /\ r \in Int
      BY <1>p
    <2>2. Same(1 + ds, v)
      BY <1>13, <2>1, SameBack, Zenon
    <2>3. Same(r, 1 + ds)
      BY <1>11, <1>12, <2>1, SameThen, Zenon
    <2> QED
      BY <2>1, <2>2, <2>3, SameThen, Zenon
  <1>15. r # 0
    BY <1>5, <1>11, Zenon
  <1> QED
    BY <1>11, <1>14, <1>15 DEF ry

LEMMA DenominatorNonzero ==
  ASSUME NEW a \in [Places -> Int], NEW v \in Int,
         Same(v, 1 + (Value(a) * Value(a)) * Value(D))
  PROVE  ~Same(v, 0)
  <1>1. PICK r \in 0 .. (P - 1) : r = Denominator(Residue(a)) /\ r # 0 /\ Same(r, v)
    BY DenominatorSame
  <1>2. 0 \in 0 .. (P - 1) /\ r \in Int /\ 0 \in Int
    BY PrimeSize
  <1>3. ASSUME Same(v, 0) PROVE FALSE
    <2>1. Same(r, 0)
      BY <1>1, <1>2, <1>3, SameThen
    <2> QED
      BY <1>1, <1>2, <2>1, SameBelow
  <1> QED
    BY <1>3

(* Neither the candidate nor its turned twin checks: there is no root.     *)
LEMMA RejectedHasNone ==
  ASSUME FieldInv, CurveInv, RootInv, Reject
  PROVE  Same(Power(Value(reg["num"]) * Value(reg["den"]), 4 * RootExponent + 2), -1)
  <1> DEFINE x == Value(reg["rx"])
             u == Value(reg["num"])
             v == Value(reg["den"])
             c == Value(reg["chk"])
  <1>1. pc = "check" /\ ~IsRoot /\ ~IsRootOfMinus
    BY DEF Reject
  <1>2. /\ Sized(reg["num"]) /\ Sized(reg["den"]) /\ Sized(reg["chk"]) /\ Sized(reg["rx"])
        /\ Sized(Unpack(input))
    <2>1. Sized(Unpack(input))
      BY UnpackSized DEF FieldInv
    <2> QED
      BY <2>1 DEF FieldInv, LimbsSized, Registers, Sized
  <1>3. /\ reg["num"] \in [Places -> Int] /\ reg["den"] \in [Places -> Int]
        /\ reg["chk"] \in [Places -> Int] /\ reg["rx"] \in [Places -> Int]
        /\ Unpack(input) \in [Places -> Int]
    BY <1>2, WithinPack
  <1>4. x \in Int /\ u \in Int /\ v \in Int /\ c \in Int
    BY <1>3, ValueDefined
  <1>5. Same(x, Candidate(Root(u, v), u, v))
    BY <1>1 DEF RootInv, RootAt, Made
  <1>6. Same(c, (x * x) * v)
    BY <1>1 DEF CurveInv, Checked
  <1>7. ~Same(v, 0)
    <2>1. Same(v, 1 + (Value(Unpack(input)) * Value(Unpack(input))) * Value(D))
      BY <1>1 DEF CurveInv, Sides
    <2> HIDE DEF v
    <2> QED
      BY <1>3, <1>4, <2>1, DenominatorNonzero, Zenon
  <1>8. ~Same(c - u, 0)
    <2>1. Value(Minus(reg["chk"], reg["num"])) = c - u
      BY <1>3, ValueOfSums
    <2>2. ~Same(Value(Minus(reg["chk"], reg["num"])), 0)
      BY <1>1, <1>2, WithinPack, NonzeroIs DEF IsRoot
    <2> QED
      BY <2>1, <2>2, Zenon
  <1>9. ~Same(c + u, 0)
    <2>1. Value(Plus(reg["chk"], reg["num"])) = c + u
      BY <1>3, ValueOfSums
    <2>2. ~Same(Value(Plus(reg["chk"], reg["num"])), 0)
      BY <1>1, <1>2, WithinPack, NonzeroIs DEF IsRootOfMinus
    <2> QED
      BY <2>1, <2>2, Zenon
  <1> HIDE DEF x, u, v, c
  <1>10. Same(Power(u * v, 4 * RootExponent + 2), -1)
    BY <1>4, <1>5, <1>6, <1>7, <1>8, <1>9, NoRoot, Zenon DEF Root
  <1> QED
    BY <1>10 DEF u, v

LEMMA RootInvStep ==
  FieldInv /\ CurveInv /\ RootInv /\ [Next]_vars => RootInv'
  <1> SUFFICES ASSUME FieldInv, CurveInv, RootInv, [Next]_vars PROVE RootInv'
    OBVIOUS
  <1>g. reg \in [Registers -> [Places -> Int]]
    <2>1. \A r \in Registers : Sized(reg[r])
      BY DEF FieldInv, LimbsSized, Sized
    <2>2. \A r \in Registers : reg[r] \in [Places -> Int]
      BY <2>1, WithinPack
    <2> QED
      BY <2>2 DEF FieldInv, LimbsSized
  <1>r. {"num", "den", "t", "c", "rx", "chk"} \subseteq Registers
    BY DEF Registers
  <1>u. PICK u \in Int, v \in Int : u = Value(reg["num"]) /\ v = Value(reg["den"])
    BY <1>g, <1>r, ValueDefined
  <1>i. RootAt(pc, line, turn, reg, u, v)
    BY <1>u, Zenon DEF RootInv
  <1>b. BITS \in Nat /\ BITS > 5
    BY FieldAssumption
  <1>k. ASSUME reg'["num"] = reg["num"], reg'["den"] = reg["den"],
               RootAt(pc', line', turn', reg', u, v)
        PROVE  RootInv'
    BY <1>k, <1>u, Zenon DEF RootInv
  <1>1. CASE Decode
    BY <1>1 DEF Decode, RootInv, RootAt
  <1>2. CASE Curve
    <2>1. pc' = "lines" /\ line' = 1
      BY <1>2 DEF Curve, FieldInv
    <2>2. \A g, n, d, q : LineInv(g, 1, n, d, q)
      BY DEF LineInv
    <2> QED
      BY <2>1, <2>2 DEF RootInv, RootAt
  <1>3. CASE Multiply
    <2>1. line \in 1 .. 11 /\ line' = line + 1 /\ pc = "lines"
      BY <1>3 DEF Multiply, FieldInv
    <2>2. reg' = [reg EXCEPT ![Lines[line][1]] = Times(reg[Lines[line][2]], reg[Lines[line][3]])]
      BY <1>3 DEF Multiply
    <2>3. reg'["num"] = reg["num"] /\ reg'["den"] = reg["den"]
      <3>1. PICK r \in Registers \ {"num", "den"} : r = Lines[line][1]
        BY <2>1, LineNames
      <3> QED
        BY <1>g, <1>r, <2>2, <3>1
    <2>4. PICK q \in Int : q = Root(u, v)
      BY RadicandIs, PowerIs, PrimeIs DEF Root
    <2>5. LineInv(reg, line, u, v, q)
      BY <1>i, <2>1, <2>4 DEF RootAt
    <2>6. Made(reg, "num", u) /\ Made(reg, "den", v)
      BY <1>u, SameItself DEF Made
    <2>7. PICK l \in 1 .. 11 : l = line
      BY <2>1
    <2>h. PICK h : h = reg'
      OBVIOUS
    <2>8. /\ l # 5 => LineInv(h, l + 1, u, v, q)
          /\ l = 5 => Made(h, "t", Radicand(u, v))
      BY <1>g, <2>2, <2>5, <2>6, <2>7, <2>h, LineStep
    <2>9. /\ pc' = "lines" => line # 5
          /\ pc' = "enter" => line = 5
          /\ pc' = "check" => line = 11
          /\ pc' \in {"lines", "enter", "check"}
      BY <1>3, <2>1 DEF Multiply
    <2>10. pc' = "lines" => LineInv(reg', line', u, v, Root(u, v))
      BY <2>1, <2>4, <2>7, <2>8, <2>h, <2>9
    <2>11. pc' = "enter" => Made(reg', "t", Radicand(u, v))
      BY <2>7, <2>8, <2>h, <2>9
    <2>12. pc' = "check" => Made(reg', "rx", Candidate(Root(u, v), u, v))
      <3>1. LineInv(h, 12, u, v, q) => Made(h, "rx", Candidate(q, u, v))
        BY DEF LineInv
      <3> QED
        BY <2>4, <2>7, <2>8, <2>h, <2>9, <3>1
    <2>13. RootAt(pc', line', turn', reg', u, v)
      BY <2>9, <2>10, <2>11, <2>12 DEF RootAt
    <2> QED
      BY <1>k, <2>3, <2>13
  <1>4. CASE EnterPower
    <2>1. /\ pc = "enter" /\ pc' = "square" /\ turn' = BITS - 5
          /\ reg' = [reg EXCEPT !["c"] = reg["t"]]
      BY <1>4 DEF EnterPower
    <2>2. /\ reg'["num"] = reg["num"] /\ reg'["den"] = reg["den"] /\ reg'["t"] = reg["t"]
          /\ reg'["c"] = reg["t"]
      BY <1>g, <1>r, <2>1
    <2>3. turn' \in 0 .. (BITS - 5)
      BY <1>b, <2>1
    <2>4. Made(reg', "t", Radicand(u, v))
      BY <1>i, <2>1, <2>2 DEF RootAt, Made
    <2>5. PICK t \in Int : t = Value(reg["t"])
      BY <1>g, <1>r, ValueDefined
    <2>6. Exponent("square", turn') = 1
      BY <2>1, Exponents DEF Exponent
    <2>7. Power(t, 1) = t
      <3>1. Power(t, 0 + 1) = Power(t, 0) * t /\ Power(t, 0) = 1
        BY PowerIs
      <3>2. 0 + 1 = 1 /\ 1 * t = t
        OBVIOUS
      <3> QED
        BY <3>1, <3>2, Zenon
    <2>8. Same(t, Power(t, 1))
      BY <2>7, SameItself
    <2>9. Made(reg', "c", Power(Value(reg'["t"]), Exponent("square", turn')))
      BY <2>2, <2>5, <2>6, <2>8, Zenon DEF Made
    <2>10. RootAt(pc', line', turn', reg', u, v)
      BY <2>1, <2>3, <2>4, <2>9 DEF RootAt
    <2> QED
      BY <1>k, <2>2, <2>10
  <1>5. CASE PowerSquare
    <2>1. /\ pc = "square" /\ reg' = [reg EXCEPT !["c"] = Square(reg["c"])]
          /\ turn = 1 => pc' = "square" /\ turn' = 0
          /\ turn # 1 => pc' = "times" /\ turn' = turn
      BY <1>5 DEF PowerSquare
    <2>2. PICK k \in 0 .. (BITS - 5) : k = turn
      BY <1>i, <2>1 DEF RootAt
    <2>3. PICK n \in Nat : n = SquaredAt(k)
      BY Exponents
    <2>4. Made(reg, "c", Power(Value(reg["t"]), n))
      <3>1. Made(reg, "c", Power(Value(reg["t"]), Exponent("square", turn)))
        BY <1>i, <2>1 DEF RootAt
      <3>2. Exponent("square", turn) = n
        BY <2>2, <2>3 DEF Exponent
      <3> QED
        BY <3>1, <3>2, Zenon
    <2>5. PICK h : h = reg'
      OBVIOUS
    <2>6. h = [reg EXCEPT !["c"] = Square(reg["c"])]
      BY <2>1, <2>5, Zenon
    <2>7. h["t"] = reg["t"] /\ h["num"] = reg["num"] /\ h["den"] = reg["den"]
      BY <1>g, <1>r, <2>6
    <2>8. Made(h, "c", Power(Value(h["t"]), 2 * n))
      BY <1>g, <2>4, <2>6, LoopSquared, Zenon
    <2>9. Exponent(pc', turn') = 2 * n
      <3>1. CASE turn = 1
        <4>1. Exponent(pc', turn') = SquaredAt(0)
          BY <2>1, <3>1 DEF Exponent
        <4> QED
          BY <2>2, <2>3, <3>1, <4>1, Exponents, Zenon
      <3>2. CASE turn # 1
        BY <2>1, <2>2, <2>3, <3>2 DEF Exponent
      <3> QED
        BY <3>1, <3>2
    <2>10. turn' \in 0 .. (BITS - 5) /\ pc' \in {"square", "times"} /\ (pc' = "times" => turn' # 1)
      BY <1>b, <2>1, <2>2
    <2>11. Made(reg', "c", Power(Value(reg'["t"]), Exponent(pc', turn')))
      BY <2>5, <2>8, <2>9, Zenon
    <2>12. Made(reg', "t", Radicand(u, v))
      BY <1>i, <2>1, <2>5, <2>7 DEF RootAt, Made
    <2>13. RootAt(pc', line', turn', reg', u, v)
      <3>1. CASE pc' = "square"
        BY <2>10, <2>11, <2>12, <3>1 DEF RootAt
      <3>2. CASE pc' = "times"
        BY <2>10, <2>11, <2>12, <3>2 DEF RootAt
      <3> QED
        BY <2>10, <3>1, <3>2
    <2> QED
      BY <1>k, <2>5, <2>7, <2>13
  <1>6. CASE PowerTimes
    <2>1. /\ pc = "times" /\ reg' = [reg EXCEPT !["c"] = Times(reg["c"], reg["t"])]
          /\ turn = 0 => pc' = "leave"
          /\ turn # 0 => pc' = "square" /\ turn' = turn - 1
      BY <1>6 DEF PowerTimes
    <2>2. PICK k \in 0 .. (BITS - 5) : k = turn /\ k # 1
      BY <1>i, <2>1 DEF RootAt
    <2>3. PICK n \in Nat : n = 2 * SquaredAt(k)
      BY Exponents
    <2>4. Made(reg, "c", Power(Value(reg["t"]), n))
      <3>1. Made(reg, "c", Power(Value(reg["t"]), Exponent("times", turn)))
        BY <1>i, <2>1 DEF RootAt
      <3>2. Exponent("times", turn) = n
        BY <2>2, <2>3 DEF Exponent
      <3> QED
        BY <3>1, <3>2, Zenon
    <2>5. PICK h : h = reg'
      OBVIOUS
    <2>6. h = [reg EXCEPT !["c"] = Times(reg["c"], reg["t"])]
      BY <2>1, <2>5, Zenon
    <2>7. h["t"] = reg["t"] /\ h["num"] = reg["num"] /\ h["den"] = reg["den"]
      BY <1>g, <1>r, <2>6
    <2>8. Made(h, "c", Power(Value(h["t"]), n + 1))
      BY <1>g, <2>4, <2>6, LoopMultiplied, Zenon
    <2>9. Exponent(pc', turn') = n + 1
      <3>1. CASE turn = 0
        <4>1. Exponent(pc', turn') = RootExponent
          BY <2>1, <3>1 DEF Exponent
        <4>2. RootExponent = 2 * SquaredAt(0) + 1
          BY Exponents
        <4> QED
          BY <2>2, <2>3, <3>1, <4>1, <4>2, Zenon
      <3>2. CASE turn # 0
        <4>1. k \in 2 .. (BITS - 5)
          BY <1>b, <2>2, <3>2
        <4>2. Exponent(pc', turn') = SquaredAt(k - 1)
          BY <2>1, <2>2, <3>2 DEF Exponent
        <4>3. SquaredAt(k - 1) = 2 * SquaredAt(k) + 1
          BY <4>1, Exponents
        <4> QED
          BY <2>3, <4>2, <4>3, Zenon
      <3> QED
        BY <3>1, <3>2
    <2>10. /\ pc' \in {"square", "leave"}
           /\ pc' = "square" => turn' \in 0 .. (BITS - 5)
      BY <1>b, <2>1, <2>2
    <2>11. Made(reg', "c", Power(Value(reg'["t"]), Exponent(pc', turn')))
      BY <2>5, <2>8, <2>9, Zenon
    <2>12. Made(reg', "t", Radicand(u, v))
      BY <1>i, <2>1, <2>5, <2>7 DEF RootAt, Made
    <2>13. RootAt(pc', line', turn', reg', u, v)
      <3>1. CASE pc' = "square"
        BY <2>10, <2>11, <2>12, <3>1 DEF RootAt
      <3>2. CASE pc' = "leave"
        BY <2>10, <2>11, <2>12, <3>2 DEF RootAt
      <3> QED
        BY <2>10, <3>1, <3>2
    <2> QED
      BY <1>k, <2>5, <2>7, <2>13
  <1>7. CASE LeavePower
    <2>1. /\ pc = "leave" /\ pc' = "lines" /\ line' = 6 /\ reg' = [reg EXCEPT !["t"] = reg["c"]]
      BY <1>7 DEF LeavePower, FieldInv
    <2>2. reg'["num"] = reg["num"] /\ reg'["den"] = reg["den"]
      BY <1>g, <1>r, <2>1
    <2>3. Made(reg, "t", Radicand(u, v)) /\ Made(reg, "c", Power(Value(reg["t"]), RootExponent))
      BY <1>i, <2>1 DEF RootAt, Exponent
    <2>4. PICK h : h = reg'
      OBVIOUS
    <2>5. Made(h, "t", Root(u, v))
      BY <1>g, <2>1, <2>3, <2>4, LoopLeft
    <2>6. LineInv(reg', 6, u, v, Root(u, v))
      BY <2>4, <2>5 DEF LineInv
    <2>7. RootAt(pc', line', turn', reg', u, v)
      BY <2>1, <2>6 DEF RootAt
    <2> QED
      BY <1>k, <2>2, <2>7
  <1>8. CASE Accept
    BY <1>8 DEF Accept, RootInv, RootAt
  <1>9. CASE Turn
    BY <1>9 DEF Turn, RootInv, RootAt
  <1>10. CASE Reject
    <2>1. Same(Power(u * v, 4 * RootExponent + 2), -1)
      BY <1>10, <1>u, RejectedHasNone, Zenon
    <2>2. pc' = "rejected" /\ reg' = reg
      BY <1>10 DEF Reject
    <2>3. RootAt(pc', line', turn', reg', u, v)
      BY <2>1, <2>2 DEF RootAt
    <2> QED
      BY <1>k, <2>2, <2>3
  <1>11. CASE Sign
    BY <1>11 DEF Sign, RootInv, RootAt
  <1>12. CASE UNCHANGED vars
    <2>1. pc' = pc /\ line' = line /\ reg' = reg /\ turn' = turn
      BY <1>12 DEF vars
    <2> QED
      BY <1>i, <1>k, <2>1, Zenon
  <1> QED
    BY <1>1, <1>2, <1>3, <1>4, <1>5, <1>6, <1>7, <1>8, <1>9, <1>10, <1>11, <1>12 DEF Next

(* Euler's criterion, for the residues that TimesMod and PowerMod compute. *)
LEMMA RejectsFromInv ==
  FieldInv /\ CurveInv /\ RootInv => RejectsNonSquares
  <1> SUFFICES ASSUME FieldInv, CurveInv, RootInv, pc = "rejected" PROVE RejectsNonSquares
    BY DEF RejectsNonSquares
  <1> DEFINE ry == Residue(Unpack(input))
             y2 == TimesMod(ry, ry)
             side == Denominator(ry)
             other == (y2 - 1) % P
             y == Value(Unpack(input))
  <1>1. /\ reg["num"] \in [Places -> Int] /\ reg["den"] \in [Places -> Int]
        /\ Unpack(input) \in [Places -> Int]
    <2>1. /\ Sized(reg["num"]) /\ Sized(reg["den"]) /\ Sized(Unpack(input))
      BY UnpackSized DEF FieldInv, LimbsSized, Registers, Sized
    <2> QED
      BY <2>1, WithinPack
  <1>2. y \in Int
    BY <1>1, ValueDefined
  <1>3. PICK u \in Int, v \in Int : u = Value(reg["num"]) /\ v = Value(reg["den"])
    BY <1>1, ValueDefined
  <1>4. Same(u, y * y - 1) /\ Same(v, 1 + (y * y) * Value(D))
    BY <1>3, Zenon DEF CurveInv, Sides
  <1>5. Same(Power(u * v, 4 * RootExponent + 2), -1)
    BY <1>3, Zenon DEF RootInv, RootAt
  <1>6. ry \in 0 .. (P - 1) /\ Same(ry, y)
    BY <1>1, ResidueIs
  <1>7. side \in 0 .. (P - 1) /\ Same(side, v)
    BY <1>1, <1>4, DenominatorSame
  <1>p. P \in Nat \ {0} /\ 1 \in 0 .. (P - 1)
    BY PrimeSize
  <1> HIDE DEF ry, y
  <1>8. y2 \in 0 .. (P - 1) /\ Same(y2, y * y)
    BY <1>2, <1>6, TimesModSame, Zenon
  <1>9. other \in 0 .. (P - 1) /\ Same(other, u)
    <2>1. PICK k \in Int, w \in Int, yy \in Int : k = y2 /\ w = k - 1 /\ yy = y * y
      BY <1>2, <1>8, <1>p
    <2>2. other \in 0 .. (P - 1) /\ Same(other, w)
      BY <2>1, SameRemainder
    <2>3. Same(k, yy) /\ Same(1, 1) /\ 1 \in Int
      BY <1>8, <2>1, SameItself
    <2>4. Same(w, yy - 1)
      BY <2>1, <2>3, SameSum
    <2>5. PICK z \in Int, o \in Int : z = yy - 1 /\ o = other
      BY <1>p, <2>2
    <2>6. Same(u, z)
      BY <1>4, <2>1, <2>5, Zenon
    <2>7. Same(z, u) /\ Same(w, z) /\ Same(o, w)
      BY <2>2, <2>4, <2>5, <2>6, SameBack
    <2>8. Same(o, u)
      <3>1. Same(w, u)
        BY <2>7, SameThen
      <3> QED
        BY <2>7, <3>1, SameThen
    <2> QED
      BY <2>2, <2>5, <2>8, Zenon
  <1>10. PICK e \in Nat : e = RootExponent
    BY PrimeIs
  <1>11. PICK n \in Nat : n = 4 * e + 2 /\ n = (P - 1) \div 2
    <2>1. P = 8 * e + 5
      BY <1>10, PrimeIs
    <2>2. (P - 1) \div 2 = 4 * e + 2
      BY <2>1
    <2> QED
      BY <2>2
  <1>12. PICK a \in 0 .. (P - 1) : a = TimesMod(other, side) /\ Same(a, u * v)
    <2> HIDE DEF other, side
    <2> QED
      BY <1>7, <1>9, TimesModSame
  <1>13. PICK b \in 0 .. (P - 1) : b = PowerMod(a, n) /\ Same(b, Power(a, n))
    <2>1. PowerMod(a, n) \in 0 .. (P - 1) /\ Same(PowerMod(a, n), Power(a, n))
      BY PowerModIs, Zenon
    <2> QED
      BY <2>1
  <1>14. PICK uv \in Int : uv = u * v
    OBVIOUS
  <1>15. a \in Int /\ b \in Int /\ -1 \in Int
    BY <1>p
  <1>16. PICK pa \in Int, pu \in Int : pa = Power(a, n) /\ pu = Power(uv, n)
    <2>1. Power(a, n) \in Int
      BY <1>15, PowerIs, Zenon
    <2>2. Power(uv, n) \in Int
      BY PowerIs, Zenon
    <2> QED
      BY <2>1, <2>2
  <1>17. Same(pa, pu)
    <2>1. Same(a, uv)
      BY <1>12, <1>14, Zenon
    <2> QED
      BY <1>16, <1>15, <2>1, PowerSame
  <1>18. Same(pu, -1)
    BY <1>5, <1>10, <1>11, <1>14, <1>16, Zenon
  <1>19. Same(b, -1)
    <2>1. Same(b, pu)
      BY <1>13, <1>16, <1>15, <1>17, SameThen
    <2> QED
      BY <1>15, <1>18, <2>1, SameThen
  <1>20. b = P - 1
    <2>1. PICK k \in 0 .. (P - 1), m \in Int : k = P - 1 /\ m = -1 /\ k \in Int
      BY <1>p
    <2>2. m = k + P * (-1) /\ -1 \in Int
      BY <1>p, <2>1
    <2>3. Same(m, k)
      BY <2>1, <2>2, SameIs, Zenon
    <2>4. Same(b, k)
      <3>1. Same(b, m)
        BY <1>19, <2>1, Zenon
      <3> QED
        BY <1>15, <2>1, <2>3, <3>1, SameThen
    <2> QED
      BY <2>1, <2>4, SameBelow
  <1>21. PowerMod(TimesMod(other, side), (P - 1) \div 2) = P - 1
    BY <1>11, <1>12, <1>13, <1>20, Zenon
  <1> QED
    BY <1>21, Zenon DEF RejectsNonSquares, Denominator, ry

(* Only an encoding whose y^2 - 1 over d y^2 + 1 has no root is rejected:  *)
(* what pow2523 raises to (P - 5) / 8 and the candidate made of it would   *)
(* else have passed one of the two comparisons, for every number of limbs  *)
(* and every prime of that form (sovereign_crypto.c:313-318).              *)
THEOREM RejectedHaveNoRoot == Spec => []RejectsNonSquares
  <1>1. Init => FieldInv /\ CurveInv /\ RootInv
    BY FieldInvInit, CurveInvInit, RootInvInit
  <1>2. FieldInv /\ CurveInv /\ RootInv /\ [Next]_vars => (FieldInv /\ CurveInv /\ RootInv)'
    BY FieldInvStep, CurveInvStep, RootInvStep
  <1> QED
    BY <1>1, <1>2, RejectsFromInv, PTL DEF Spec

=============================================================================
