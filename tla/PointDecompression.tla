------------------------- MODULE PointDecompression -------------------------
(***************************************************************************)
(* The field arithmetic of libraries-3/sovereign_crypto.c and unpackneg,   *)
(* which finds the x of a compressed point.  The code has 16 limbs of 16   *)
(* bits, kept between operations as whatever the additions and the carries *)
(* leave in them; here their number and size are parameters, the prime is  *)
(* 2^n - 19 for n one less than the bits of all limbs, and 19, 38 and the  *)
(* exponent of the square root are the code's.  Encodings bounds the       *)
(* inputs.                                                                 *)
(***************************************************************************)
EXTENDS Integers

CONSTANTS
  LIMBS,    \* 16
  RADIX,    \* 2^16
  BITS,     \* 255
  D, I,     \* the code's two tables: the constant of the curve, and what a
            \* candidate is turned by; RFC 8032 has a root of -1 for that
  Encodings \* of points: the bytes p[], as limbs

Places == 0 .. (LIMBS - 1)
Top == LIMBS - 1

(* What a limb counts for, and the number after the last.                  *)
Unit[k \in 0 .. LIMBS] == IF k = 0 THEN 1 ELSE RADIX * Unit[k - 1]

(* The powers of two.                                                      *)
TwoTo[k \in 0 .. (BITS + 1)] == IF k = 0 THEN 1 ELSE 2 * TwoTo[k - 1]

(* No limb is larger between two operations, and no carry out of a product *)
(* of such limbs.                                                          *)
LIMB_MAX == 2 * RADIX
CARRY_MAX == (39 * LIMBS * (LIMB_MAX * LIMB_MAX)) \div (RADIX - 1) + 1

ASSUME FieldAssumption ==
  /\ LIMBS \in Nat \ {0, 1} /\ BITS \in Nat /\ BITS > 5
  /\ Unit[LIMBS] = TwoTo[BITS + 1] /\ RADIX \in Nat /\ RADIX % 2 = 0 /\ RADIX >= 256
  /\ Encodings \subseteq [Places -> 0 .. (RADIX - 1)]
  /\ D \in [Places -> 0 .. (RADIX - 1)] /\ I \in [Places -> 0 .. (RADIX - 1)]

(* The top carry of a product, folded in by 38, is carried on as no more   *)
(* than a limb has room for; 38 * 2^27.3 and 1724 * 2^256 in the code.     *)
ASSUME RoomAssumption == 38 * CARRY_MAX <= (RADIX \div 38) * Unit[LIMBS]

VARIABLES
  pc,     \* what unpackneg is at
  line,   \* the next of Lines
  input,  \* what p[] holds: y, and the sign in the top bit
  reg,    \* its field elements, as limbs; c is the one of pow2523
  turn    \* the counter of the loop of pow2523

vars == <<pc, line, input, reg, turn>>

Registers == {"num", "den", "den2", "den4", "den6", "t", "c", "rx", "chk"}

(* The products that unpackneg takes one after the other, the first five   *)
(* before pow2523: what is set, and its two factors.                       *)
Lines ==
  <<<<"den2", "den", "den">>, <<"den4", "den2", "den2">>, <<"den6", "den4", "den2">>,
    <<"t", "den6", "num">>, <<"t", "t", "den">>,
    <<"t", "t", "num">>, <<"t", "t", "den">>, <<"t", "t", "den">>, <<"rx", "t", "den">>,
    <<"chk", "rx", "rx">>, <<"chk", "chk", "den">>>>

(* The sum of f over the limbs, and the number that limbs stand for.       *)
Total(f) ==
  LET sum[n \in 0 .. LIMBS] == IF n = 0 THEN 0 ELSE sum[n - 1] + f[n - 1]
  IN sum[LIMBS]

Value(a) == Total([k \in Places |-> a[k] * Unit[k]])

Zero == [k \in Places |-> 0]
One == [Zero EXCEPT ![0] = 1]

(* mutant: what leaves the top is folded in by 19 *)
CarryNineteen(o, k) ==
  LET c == o[k] \div RADIX
  IN IF k < Top THEN [o EXCEPT ![k] = @ % RADIX, ![k + 1] = @ + c]
     ELSE [o EXCEPT ![k] = @ % RADIX, ![0] = @ + 19 * c]

(* One limb of car25519.                                                   *)
CarryLimb(o, k) ==
  LET c == o[k] \div RADIX
  IN IF k < Top THEN [o EXCEPT ![k] = @ % RADIX, ![k + 1] = @ + c]
     ELSE [o EXCEPT ![k] = @ % RADIX, ![0] = @ + 38 * c]

(* car25519: limb after limb.                                              *)
Carry(o) ==
  LET after[n \in 0 .. LIMBS] == IF n = 0 THEN o ELSE CarryLimb(after[n - 1], n - 1)
  IN after[LIMBS]

Plus(a, b) == [k \in Places |-> a[k] + b[k]]
Minus(a, b) == [k \in Places |-> a[k] - b[k]]

Product(a, b, n) ==
  Total([k \in Places |-> a[k] * (IF n - k \in Places THEN b[n - k] ELSE 0)])

Times(a, b) ==
  Carry(Carry([k \in Places |->
    Product(a, b, k) + (IF k < Top THEN 38 * Product(a, b, k + LIMBS) ELSE 0)]))

Square(a) == Times(a, a)

Unpack(p) == [p EXCEPT ![Top] = @ % (RADIX \div 2)]

SignBit(p) == p[Top] \div (RADIX \div 2)

(* The limbs of the prime that pack subtracts.                             *)
Prime(k) == CASE k = 0 -> RADIX - 19 [] k = Top -> RADIX \div 2 - 1 [] OTHER -> RADIX - 1

Borrow(m) == (m \div RADIX) % 2

(* t less the prime, unless that is negative.                              *)
Reduced(t) ==
  LET m[k \in Places] == t[k] - Prime(k) - (IF k = 0 THEN 0 ELSE Borrow(m[k - 1]))
  IN IF Borrow(m[Top]) = 1 THEN t
     ELSE [k \in Places |-> IF k = Top THEN m[k] ELSE m[k] % RADIX]

(* mutant: the prime is subtracted once *)
PackOnce(n) ==
  LET t == Reduced(Carry(Carry(Carry(n))))
  IN [k \in Places |-> t[k] % RADIX]

Pack(n) ==
  LET t == Reduced(Reduced(Carry(Carry(Carry(n)))))
  IN [k \in Places |-> t[k] % RADIX]

IsNonzero(a) == \E k \in Places : Pack(a)[k] # 0

Init ==
  /\ pc = "decode" /\ line = 1
  /\ input \in Encodings
  /\ reg = [r \in Registers |-> Zero]
  /\ turn = 0

Decode ==
  /\ pc = "decode" /\ pc' = "curve"
  /\ reg' = [reg EXCEPT !["num"] = Square(Unpack(input))]
  /\ UNCHANGED <<line, input, turn>>

(* y^2 - 1 and d y^2 + 1.                                                  *)
Curve ==
  /\ pc = "curve" /\ pc' = "lines"
  /\ reg' = [reg EXCEPT !["num"] = Minus(@, One), !["den"] = Plus(One, Times(reg["num"], D))]
  /\ UNCHANGED <<line, input, turn>>

Multiply ==
  /\ pc = "lines"
  /\ reg' = [reg EXCEPT ![Lines[line][1]] = Times(reg[Lines[line][2]], reg[Lines[line][3]])]
  /\ line' = line + 1
  /\ pc' = CASE line = 5 -> "enter" [] line = 11 -> "check" [] OTHER -> "lines"
  /\ UNCHANGED <<input, turn>>

EnterPower ==
  /\ pc = "enter" /\ pc' = "square"
  /\ reg' = [reg EXCEPT !["c"] = reg["t"]]
  /\ turn' = BITS - 5
  /\ UNCHANGED <<line, input>>

PowerSquareAlways ==   \* mutant: every turn of the loop multiplies
  /\ pc = "square" /\ pc' = "times"
  /\ reg' = [reg EXCEPT !["c"] = Square(@)]
  /\ UNCHANGED <<line, input, turn>>

PowerSquare ==
  /\ pc = "square"
  /\ reg' = [reg EXCEPT !["c"] = Square(@)]
  /\ IF turn = 1 THEN turn' = 0 /\ UNCHANGED pc
                 ELSE pc' = "times" /\ UNCHANGED turn
  /\ UNCHANGED <<line, input>>

PowerTimes ==
  /\ pc = "times"
  /\ reg' = [reg EXCEPT !["c"] = Times(@, reg["t"])]
  /\ IF turn = 0 THEN pc' = "leave" /\ UNCHANGED turn
                 ELSE pc' = "square" /\ turn' = turn - 1
  /\ UNCHANGED <<line, input>>

LeavePower ==
  /\ pc = "leave" /\ pc' = "lines"
  /\ reg' = [reg EXCEPT !["t"] = reg["c"]]
  /\ UNCHANGED <<line, input, turn>>

IsRoot == ~IsNonzero(Minus(reg["chk"], reg["num"]))

IsRootOfMinus == ~IsNonzero(Plus(reg["chk"], reg["num"]))

Accept ==
  /\ pc = "check" /\ IsRoot
  /\ pc' = "sign"
  /\ UNCHANGED <<line, input, reg, turn>>

(* mutant: the candidate is kept *)
TurnForgotten ==
  /\ pc = "check" /\ ~IsRoot /\ IsRootOfMinus
  /\ pc' = "sign"
  /\ UNCHANGED <<line, input, reg, turn>>

Turn ==
  /\ pc = "check" /\ ~IsRoot /\ IsRootOfMinus
  /\ pc' = "sign"
  /\ reg' = [reg EXCEPT !["rx"] = Times(@, I)]
  /\ UNCHANGED <<line, input, turn>>

Reject ==
  /\ pc = "check" /\ ~IsRoot /\ ~IsRootOfMinus
  /\ pc' = "rejected"
  /\ UNCHANGED <<line, input, reg, turn>>

(* mutant: the parity of the limbs as they are *)
ParityOfLimb(a) == a[0] % 2

Parity(a) == Pack(a)[0] % 2

Sign ==
  /\ pc = "sign" /\ pc' = "accepted"
  /\ reg' = [reg EXCEPT !["rx"] = IF Parity(@) # SignBit(input) THEN Minus(Zero, @) ELSE @]
  /\ UNCHANGED <<line, input, turn>>

Next ==
  \/ Decode \/ Curve \/ Multiply
  \/ EnterPower \/ PowerSquare \/ PowerTimes \/ LeavePower
  \/ Accept \/ Turn \/ Reject \/ Sign

Spec == Init /\ [][Next]_vars

-----------------------------------------------------------------------------
(* The same numbers as residues, multiplied in two parts of ten bits, for  *)
(* the products to fit TLC's integers.                                     *)
PART == 1024

P == (Unit[LIMBS] - 38) \div 2

Residue(a) == Value(a) % P

TimesMod(a, b) == (((a * (b \div PART)) % P) * PART + a * (b % PART)) % P

(* The residues are a field, and the denominator d y^2 + 1 is zero for no  *)
(* y: the table D is no square of 2^255 - 19.                              *)
IsPrime(n) == n > 1 /\ \A x \in 2 .. (n - 1) : n % x # 0

ASSUME PrimeAssumption == IsPrime(P)

Denominator(y) == (1 + TimesMod(Residue(D), TimesMod(y, y))) % P

ASSUME CurveAssumption == \A y \in 0 .. (P - 1) : Denominator(y) # 0

PowerMod(a, n) ==
  LET power[e \in 0 .. n] ==
        IF e = 0 THEN 1
        ELSE LET half == power[e \div 2]
             IN TimesMod(TimesMod(half, half), IF e % 2 = 1 THEN a ELSE 1)
  IN power[n]

(* Packed bytes are those of the residue, whatever the limbs hold: three   *)
(* carries and two conditional subtractions reduce the numbers, the sums,  *)
(* the differences and the negative ones that unpackneg makes              *)
(* (sovereign_crypto.c:243-269).                                           *)
PackCanonical ==
  \A a \in {reg["num"], reg["rx"], Minus(Zero, reg["rx"]),
            Minus(reg["chk"], reg["num"]), Plus(reg["chk"], reg["num"])} :
    LET packed == Pack(a)
    IN /\ packed[Top] < RADIX \div 2
       /\ Value(packed) = Residue(a)

(* -I^2: 1 if I is a root of -1.                                           *)
Turned == (P - TimesMod(Residue(I), Residue(I))) % P

(* An accepted encoding is decompressed to an x whose parity is the one    *)
(* asked for, with -x^2 + y^2 = 1 + d x^2 y^2 where the candidate was kept *)
(* and x^2 (1 + d y^2) = -I^2 (y^2 - 1) where it was turned: with a root   *)
(* of -1 for I, a point of the curve (sovereign_crypto.c:290-329).         *)
AcceptsPoints ==
  pc = "accepted" =>
    LET x2 == TimesMod(Residue(reg["rx"]), Residue(reg["rx"]))
        y2 == TimesMod(Residue(Unpack(input)), Residue(Unpack(input)))
        product == TimesMod(x2, (1 + TimesMod(Residue(D), y2)) % P)
    IN /\ \E factor \in {1, Turned} : product = TimesMod(factor, (y2 - 1) % P)
       /\ Residue(reg["rx"]) # 0 => Residue(reg["rx"]) % 2 = SignBit(input)

(* Only a y for which (y^2 - 1) / (d y^2 + 1) has no root is rejected      *)
(* (sovereign_crypto.c:313-318).                                           *)
RejectsNonSquares ==
  pc = "rejected" =>
    LET y2 == TimesMod(Residue(Unpack(input)), Residue(Unpack(input)))
        product == TimesMod((y2 - 1) % P, (1 + TimesMod(Residue(D), y2)) % P)
    IN PowerMod(product, (P - 1) \div 2) = P - 1

=============================================================================
