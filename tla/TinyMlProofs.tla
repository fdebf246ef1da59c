---------------------------- MODULE TinyMlProofs ----------------------------
(***************************************************************************)
(* No sum of tinyml_infer leaves the integers, for every network whose     *)
(* dimensions and widths satisfy WidthAssumption and every input.  The     *)
(* inductive invariant bounds the accumulator by the products added so     *)
(* far, the hidden layer by the bound of a whole row, and the outputs by   *)
(* a quarter of the integers, so that their difference fits too.           *)
(*                                                                         *)
(* With the built weights the network is a threshold.  The partial sums of *)
(* the features are a recursive function; each hidden value is the same    *)
(* 256th of their last, and the outputs are linear in it.                  *)
(***************************************************************************)
EXTENDS TinyBuilt, NaturalsInduction, WellFoundedInduction, TLAPS

(* A product is bounded by the product of its factors' bounds.             *)
LEMMA ProductBound ==
  ASSUME NEW x \in Int, NEW w \in Int, NEW X \in Nat, NEW W \in Nat,
         Within(x, X), Within(w, W)
  PROVE  x * w \in Int /\ Within(x * w, X * W)
<1> DEFINE a == IF x >= 0 THEN x ELSE -x
           b == IF w >= 0 THEN w ELSE -w
<1>1. a \in 0 .. X /\ b \in 0 .. W  BY DEF Within
<1>2. a * b <= X * b  BY <1>1
<1>3. X * b <= X * W  BY <1>1
<1>4. x * w = a * b \/ x * w = -(a * b)
  <2>1. CASE x >= 0 /\ w >= 0  BY <2>1
  <2>2. CASE x >= 0 /\ w < 0  BY <2>2
  <2>3. CASE x < 0 /\ w >= 0  BY <2>3
  <2>4. CASE x < 0 /\ w < 0  BY <2>4
  <2> QED  BY <2>1, <2>2, <2>3, <2>4
<1>5. a * b \in Nat /\ X * b \in Nat /\ X * W \in Nat /\ x * w \in Int  BY <1>1
<1> HIDE DEF a, b
<1> QED  BY <1>2, <1>3, <1>4, <1>5 DEF Within

(* One more term.                                                          *)
LEMMA OneMore ==
  ASSUME NEW n \in Nat, NEW T \in Nat, NEW D \in Nat, n < D
  PROVE  /\ n * T \in Nat /\ D * T \in Nat /\ (n = 0 => n * T = 0)
         /\ (n + 1) * T = n * T + T /\ (n + 1) * T <= D * T
<1>1. n * T \in Nat /\ D * T \in Nat /\ (n + 1) * T = n * T + T  OBVIOUS
<1>2. PICK m \in Nat : D = (n + 1) + m
  <2>1. D - (n + 1) \in Nat /\ D = (n + 1) + (D - (n + 1))  OBVIOUS
  <2> QED  BY <2>1
<1>3. D * T = (n + 1) * T + m * T  BY <1>2
<1>4. m * T \in Nat /\ (n + 1) * T \in Nat  BY <1>2
<1>5. n = 0 => n * T = 0  OBVIOUS
<1> DEFINE p == n * T
           q == (n + 1) * T
           r == D * T
           m1 == m * T
<1>6. p \in Nat /\ r \in Nat /\ q = p + T /\ m1 \in Nat /\ r = q + m1 /\ (n = 0 => p = 0)
  BY <1>1, <1>3, <1>4, <1>5
<1> HIDE DEF p, q, r, m1
<1>7. p \in Nat /\ r \in Nat /\ (n = 0 => p = 0) /\ q = p + T /\ q <= r  BY <1>6
<1> QED  BY <1>7 DEF p, q, r

(* The numbers of the code are numbers; the products among them stay       *)
(* behind their names.                                                     *)
LEMMA Dims ==
  /\ INPUT_DIM \in Nat /\ HIDDEN_DIM \in Nat /\ INPUT_DIM > 0 /\ HIDDEN_DIM > 0
  /\ X_MAX \in Nat /\ X_MAX > 0 /\ W_MAX \in Nat /\ W2_MAX \in Nat
  /\ INT_MAX \in Nat /\ INT_MAX >= 65535
BY DimsAssumption

LEMMA Sizes ==
  /\ BIAS_MAX \in Nat /\ TERM1 \in Nat /\ HIDDEN_MAX \in Nat /\ TERM2 \in Nat
  /\ Terms1(INPUT_DIM) \in Nat /\ Terms2(HIDDEN_DIM) \in Nat
<1>1. X_MAX * W_MAX \in Nat  BY Dims
<1>2. TERM1 \in Nat /\ BIAS_MAX \in Nat  BY <1>1, Dims DEF TERM1, BIAS_MAX, SHIFT
<1>3. Terms1(INPUT_DIM) \in Nat  BY <1>2, Dims DEF Terms1
<1>4. HIDDEN_MAX \in Nat  BY <1>2, <1>3 DEF HIDDEN_MAX, SHIFT
<1>5. HIDDEN_MAX * W2_MAX \in Nat  BY <1>4, Dims
<1>6. TERM2 \in Nat  BY <1>5 DEF TERM2
<1>7. Terms2(HIDDEN_DIM) \in Nat  BY <1>6, Dims DEF Terms2
<1> QED  BY <1>2, <1>3, <1>4, <1>6, <1>7

LEMMA Terms1Grow ==
  ASSUME NEW n \in Nat, n < INPUT_DIM
  PROVE  /\ Terms1(n) \in Nat /\ Terms1(n + 1) \in Nat /\ (n = 0 => Terms1(n) = 0)
         /\ Terms1(n + 1) = Terms1(n) + TERM1 /\ Terms1(n + 1) <= Terms1(INPUT_DIM)
BY OneMore, Sizes, Dims DEF Terms1

LEMMA Terms2Grow ==
  ASSUME NEW n \in Nat, n < HIDDEN_DIM
  PROVE  /\ Terms2(n) \in Nat /\ Terms2(n + 1) \in Nat /\ (n = 0 => Terms2(n) = 0)
         /\ Terms2(n + 1) = Terms2(n) + TERM2 /\ Terms2(n + 1) <= Terms2(HIDDEN_DIM)
BY OneMore, Sizes, Dims DEF Terms2

Quarter == \A k \in Outputs : Within(output[k], INT_MAX \div 4)

IInv == TypeOK /\ AccBounded /\ Within(acc, INT_MAX) /\ Quarter

LEMMA Initially == Init => IInv
<1> SUFFICES ASSUME Init PROVE IInv  OBVIOUS
<1>1. TypeOK
  BY Sizes, Dims DEF Init, TypeOK, Layers, HiddenPlaces, Outputs, Confidences
<1>2. AccBounded  BY Dims DEF Init, AccBounded
<1>3. Within(acc, INT_MAX) /\ Quarter
  BY Dims DEF Init, Quarter, Within, Outputs
<1> QED  BY <1>1, <1>2, <1>3 DEF IInv

(* A sum bounded by a whole row's leaves a hidden value or an output.      *)
LEMMA Shifted ==
  ASSUME NEW n \in Int, NEW bound \in Nat, Within(n, bound)
  PROVE  n \div SHIFT \in Int /\ n \div SHIFT <= bound \div SHIFT
         /\ (bound >= 65535 => Within(n \div SHIFT, bound \div 4))
BY DEF Within, SHIFT

LEMMA Add1Step == ASSUME IInv, Add1 PROVE IInv'
<1>1. TypeOK /\ AccBounded /\ Quarter  BY DEF IInv
<1>0. layer = "first" /\ j < INPUT_DIM  BY DEF Add1
<1>2. i \in HiddenPlaces /\ j \in InputPlaces /\ j \in Nat /\ j < INPUT_DIM /\ acc \in Int
  BY <1>0, <1>1, Dims DEF TypeOK, InputPlaces
<1>3. input[j] \in 0 .. (2 * X_MAX - 1) /\ W1[i][j] \in (-W_MAX) .. W_MAX /\ B1[i] \in (-W_MAX) .. W_MAX
  BY <1>1, <1>2, WeightsAssumption DEF TypeOK
<1> DEFINE factor == Signed(input[j])
           weight == W1[i][j]
           term == factor * weight
           start == SHIFT * B1[i]
<1>4. factor \in Int /\ Within(factor, X_MAX) /\ weight \in Int /\ Within(weight, W_MAX)
  BY <1>3, Sizes, Dims DEF Signed, Within
<1>5. start \in Int /\ Within(start, BIAS_MAX)
  BY <1>3, Dims DEF Within, BIAS_MAX, SHIFT
<1>6. acc' = (IF j = 0 THEN start ELSE acc) + term  BY DEF Add1, Start
<1> HIDE DEF factor, weight, start
<1>7. term \in Int /\ Within(term, TERM1)
  BY <1>4, ProductBound, Sizes, Dims DEF TERM1
<1> HIDE DEF term
<1>8. acc' \in Int  BY <1>2, <1>5, <1>6, <1>7
<1>9. j > 0 => Within(acc, BIAS_MAX + Terms1(j))  BY <1>0, <1>1 DEF AccBounded
<1>10. /\ Terms1(j) \in Nat /\ Terms1(j + 1) \in Nat /\ (j = 0 => Terms1(j) = 0)
       /\ Terms1(j + 1) = Terms1(j) + TERM1 /\ Terms1(j + 1) <= Terms1(INPUT_DIM)
  BY <1>2, Terms1Grow
<1>11. Within(acc', BIAS_MAX + Terms1(j + 1)) /\ Within(acc', BIAS_MAX + Terms1(INPUT_DIM))
  <2> DEFINE p == Terms1(j)
             q == Terms1(j + 1)
             r == Terms1(INPUT_DIM)
             next == acc'
  <2>1. p \in Nat /\ q \in Nat /\ r \in Nat /\ (j = 0 => p = 0) /\ q = p + TERM1 /\ q <= r
    BY <1>10, Sizes
  <2>4. j > 0 => Within(acc, BIAS_MAX + p)  BY <1>9
  <2>5. TERM1 \in Nat /\ BIAS_MAX \in Nat  BY Sizes
  <2>2. next \in Int /\ next = (IF j = 0 THEN start ELSE acc) + term
    BY <1>6, <1>8
  <2> HIDE DEF p, q, r, next
  <2>3. Within(next, BIAS_MAX + q) /\ Within(next, BIAS_MAX + r)
    BY <1>2, <1>5, <1>7, <2>1, <2>2, <2>4, <2>5 DEF Within
  <2> QED  BY <2>3 DEF next, q, r
<1>12. j' = j + 1 /\ layer' = "first" /\ layer = "first"
  BY DEF Add1
<1>13. input' = input /\ i' = i /\ hidden' = hidden /\ output' = output
       /\ classification' = classification /\ confidence' = confidence
  BY DEF Add1
<1>14. TypeOK'  BY <1>1, <1>2, <1>8, <1>12, <1>13 DEF TypeOK, Layers
<1>15. AccBounded'
  <2>1. j' \in Nat /\ j' <= INPUT_DIM  BY <1>2, <1>12, Dims
  <2>2. Within(acc', BIAS_MAX + Terms1(j'))  BY <1>11, <1>12
  <2> QED  BY <1>12, <2>1, <2>2 DEF AccBounded
<1>16. Within(acc', INT_MAX)
  BY <1>8, <1>11, WidthAssumption, Sizes, Dims DEF Within
<1>17. Quarter'  BY <1>1, <1>13 DEF Quarter
<1> QED  BY <1>14, <1>15, <1>16, <1>17 DEF IInv

LEMMA Add2Step == ASSUME IInv, Add2 PROVE IInv'
<1>1. TypeOK /\ AccBounded /\ Quarter  BY DEF IInv
<1>0. layer = "second" /\ j < HIDDEN_DIM  BY DEF Add2
<1>2. i \in Outputs /\ j \in HiddenPlaces /\ j \in Nat /\ j < HIDDEN_DIM /\ acc \in Int
  BY <1>0, <1>1, Dims DEF TypeOK, HiddenPlaces
<1>3. hidden[j] \in 0 .. HIDDEN_MAX /\ W2[i][j] \in (-W2_MAX) .. W2_MAX /\ B2[i] \in (-W_MAX) .. W_MAX
  BY <1>1, <1>2, WeightsAssumption DEF TypeOK
<1> DEFINE factor == hidden[j]
           weight == W2[i][j]
           term == factor * weight
           start == SHIFT * B2[i]
<1>4. factor \in Int /\ Within(factor, HIDDEN_MAX) /\ weight \in Int /\ Within(weight, W2_MAX)
  BY <1>3, Sizes, Dims DEF Signed, Within
<1>5. start \in Int /\ Within(start, BIAS_MAX)
  BY <1>3, Dims DEF Within, BIAS_MAX, SHIFT
<1>6. acc' = (IF j = 0 THEN start ELSE acc) + term  BY DEF Add2, Start
<1> HIDE DEF factor, weight, start
<1>7. term \in Int /\ Within(term, TERM2)
  BY <1>4, ProductBound, Sizes, Dims DEF TERM2
<1> HIDE DEF term
<1>8. acc' \in Int  BY <1>2, <1>5, <1>6, <1>7
<1>9. j > 0 => Within(acc, BIAS_MAX + Terms2(j))  BY <1>0, <1>1 DEF AccBounded
<1>10. /\ Terms2(j) \in Nat /\ Terms2(j + 1) \in Nat /\ (j = 0 => Terms2(j) = 0)
       /\ Terms2(j + 1) = Terms2(j) + TERM2 /\ Terms2(j + 1) <= Terms2(HIDDEN_DIM)
  BY <1>2, Terms2Grow
<1>11. Within(acc', BIAS_MAX + Terms2(j + 1)) /\ Within(acc', BIAS_MAX + Terms2(HIDDEN_DIM))
  <2> DEFINE p == Terms2(j)
             q == Terms2(j + 1)
             r == Terms2(HIDDEN_DIM)
             next == acc'
  <2>1. p \in Nat /\ q \in Nat /\ r \in Nat /\ (j = 0 => p = 0) /\ q = p + TERM2 /\ q <= r
    BY <1>10, Sizes
  <2>4. j > 0 => Within(acc, BIAS_MAX + p)  BY <1>9
  <2>5. TERM2 \in Nat /\ BIAS_MAX \in Nat  BY Sizes
  <2>2. next \in Int /\ next = (IF j = 0 THEN start ELSE acc) + term
    BY <1>6, <1>8
  <2> HIDE DEF p, q, r, next
  <2>3. Within(next, BIAS_MAX + q) /\ Within(next, BIAS_MAX + r)
    BY <1>2, <1>5, <1>7, <2>1, <2>2, <2>4, <2>5 DEF Within
  <2> QED  BY <2>3 DEF next, q, r
<1>12. j' = j + 1 /\ layer' = "second" /\ layer = "second"
  BY DEF Add2
<1>13. input' = input /\ i' = i /\ hidden' = hidden /\ output' = output
       /\ classification' = classification /\ confidence' = confidence
  BY DEF Add2
<1>14. TypeOK'  BY <1>1, <1>2, <1>8, <1>12, <1>13 DEF TypeOK, Layers
<1>15. AccBounded'
  <2>1. j' \in Nat /\ j' <= HIDDEN_DIM  BY <1>2, <1>12, Dims
  <2>2. Within(acc', BIAS_MAX + Terms2(j'))  BY <1>11, <1>12
  <2> QED  BY <1>12, <2>1, <2>2 DEF AccBounded
<1>16. Within(acc', INT_MAX)
  BY <1>8, <1>11, WidthAssumption, Sizes, Dims DEF Within
<1>17. Quarter'  BY <1>1, <1>13 DEF Quarter
<1> QED  BY <1>14, <1>15, <1>16, <1>17 DEF IInv

LEMMA End1Step == ASSUME IInv, End1 PROVE IInv'
<1>1. TypeOK /\ AccBounded /\ Quarter /\ Within(acc, INT_MAX)  BY DEF IInv
<1>2. i \in HiddenPlaces /\ i \in Nat /\ acc \in Int /\ j = INPUT_DIM /\ j > 0
  BY <1>1, Dims DEF TypeOK, End1
<1> DEFINE bound == BIAS_MAX + Terms1(INPUT_DIM)
<1>3. Within(acc, bound)  BY <1>1, <1>2 DEF AccBounded, End1
<1>4. bound \in Nat  BY Sizes
<1>5. HIDDEN_MAX = bound \div SHIFT  BY DEF HIDDEN_MAX
<1> HIDE DEF bound
<1>6. acc \div SHIFT \in Int /\ acc \div SHIFT <= bound \div SHIFT
  BY <1>2, <1>3, <1>4, Shifted
<1>7. relu(acc \div SHIFT) \in 0 .. HIDDEN_MAX
  BY <1>5, <1>6, Sizes DEF relu
<1>8. hidden' \in [HiddenPlaces -> 0 .. HIDDEN_MAX]
  BY <1>1, <1>7 DEF TypeOK, End1
<1>9. i' \in Nat /\ j' = 0 /\ layer' \in Layers
      /\ (layer' = "first" => i' \in HiddenPlaces) /\ (layer' = "second" => i' \in Outputs)
  BY <1>2, Dims DEF End1, Layers, HiddenPlaces, Outputs
<1>10. input' = input /\ acc' = acc /\ output' = output
       /\ classification' = classification /\ confidence' = confidence
  BY DEF End1
<1>11. TypeOK'  BY <1>1, <1>8, <1>9, <1>10 DEF TypeOK
<1>12. AccBounded'  BY <1>9, Dims DEF AccBounded
<1>13. Within(acc', INT_MAX) /\ Quarter'  BY <1>1, <1>10 DEF Quarter
<1> QED  BY <1>11, <1>12, <1>13 DEF IInv

LEMMA End2Step == ASSUME IInv, End2 PROVE IInv'
<1>1. TypeOK /\ Quarter /\ Within(acc, INT_MAX)  BY DEF IInv
<1>2. i \in Outputs /\ acc \in Int  BY <1>1 DEF TypeOK, End2
<1> DEFINE result == acc \div SHIFT
<1>3. result \in Int /\ Within(result, INT_MAX \div 4)
  BY <1>1, <1>2, Dims, Shifted
<1>4. output' = [output EXCEPT ![i] = result]  BY DEF End2
<1> HIDE DEF result
<1>5. output' \in [Outputs -> Int]
  BY <1>1, <1>3, <1>4 DEF TypeOK
<1>6. Quarter'
  <2> SUFFICES ASSUME NEW k \in Outputs PROVE Within(output'[k], INT_MAX \div 4)
    BY DEF Quarter
  <2>1. CASE k = i  BY <1>1, <1>3, <1>4, <2>1 DEF TypeOK
  <2>2. CASE k # i
    <3>1. output'[k] = output[k]  BY <1>1, <1>4, <2>2 DEF TypeOK
    <3> QED  BY <1>1, <3>1 DEF Quarter
  <2> QED  BY <2>1, <2>2
<1>7. i' \in Nat /\ j' = 0 /\ layer' \in {"second", "argmax"} /\ (layer' = "second" => i' \in Outputs)
  BY <1>2 DEF End2, Outputs
<1>8. input' = input /\ acc' = acc /\ hidden' = hidden
      /\ classification' = classification /\ confidence' = confidence
  BY DEF End2
<1>9. TypeOK'  BY <1>1, <1>5, <1>7, <1>8 DEF TypeOK, Layers
<1>10. AccBounded'  BY <1>7, Dims DEF AccBounded
<1> QED  BY <1>1, <1>6, <1>8, <1>9, <1>10 DEF IInv

LEMMA ArgmaxStep == ASSUME IInv, Argmax PROVE IInv'
<1>1. TypeOK /\ Quarter /\ Within(acc, INT_MAX)  BY DEF IInv
<1> DEFINE diff == output[0] - output[1]
           size == IF diff >= 0 THEN diff ELSE -diff
<1>2. output[0] \in Int /\ output[1] \in Int  BY <1>1 DEF TypeOK, Outputs
<1>9. diff \in Int /\ size \in Nat  BY <1>2
<1>3. classification' = (IF diff >= 0 THEN 0 ELSE 1)
      /\ confidence' = (IF size > 65535 THEN 65535 ELSE size)
  BY DEF Argmax
<1> HIDE DEF diff, size
<1>4. classification' \in Outputs /\ confidence' \in Confidences
  BY <1>9, <1>3 DEF Outputs, Confidences
<1>5. layer' = "done" /\ input' = input /\ i' = i /\ j' = j /\ acc' = acc
      /\ hidden' = hidden /\ output' = output
  BY DEF Argmax
<1>6. TypeOK'  BY <1>1, <1>4, <1>5 DEF TypeOK, Layers
<1>7. AccBounded'  BY <1>5 DEF AccBounded
<1>8. Within(acc', INT_MAX) /\ Quarter'  BY <1>1, <1>5 DEF Quarter
<1> QED  BY <1>6, <1>7, <1>8 DEF IInv

LEMMA Unmoved == ASSUME IInv, UNCHANGED vars PROVE IInv'
<1>1. TypeOK /\ AccBounded /\ Within(acc, INT_MAX) /\ Quarter  BY DEF IInv
<1>2. input' = input /\ layer' = layer /\ i' = i /\ j' = j /\ acc' = acc /\ hidden' = hidden
      /\ output' = output /\ classification' = classification /\ confidence' = confidence
  BY DEF vars
<1>3. TypeOK'  BY <1>1, <1>2 DEF TypeOK
<1>4. AccBounded'  BY <1>1, <1>2 DEF AccBounded
<1>5. Within(acc', INT_MAX) /\ Quarter'  BY <1>1, <1>2 DEF Quarter
<1> QED  BY <1>3, <1>4, <1>5 DEF IInv

LEMMA Inductive == Spec => []IInv
<1>1. IInv /\ [Next]_vars => IInv'
  <2> SUFFICES ASSUME IInv, [Next]_vars PROVE IInv'  OBVIOUS
  <2>1. CASE Next  BY <2>1, Add1Step, Add2Step, End1Step, End2Step, ArgmaxStep DEF Next
  <2>2. CASE UNCHANGED vars
    BY <2>2, Unmoved
  <2> QED  BY <2>1, <2>2
<1> QED  BY <1>1, Initially, PTL DEF Spec

(* The layers hold what the loops may index and store, and the confidence  *)
(* is a 16-bit fraction (tinyml_runtime.c:31-62).                          *)
THEOREM TypeCorrect == Spec => []TypeOK
BY Inductive, PTL DEF IInv

(* No row's sum is larger than its bias and the products added             *)
(* (tinyml_runtime.c:38-52).                                               *)
THEOREM SumsBounded == Spec => []AccBounded
BY Inductive, PTL DEF IInv

(* The arithmetic is exact in 32 bits for every input and every network    *)
(* that satisfies WidthAssumption (tinyml_runtime.c:38-62).                *)
THEOREM NeverOverflows == Spec => []NoOverflow
<1>1. IInv => NoOverflow
  <2> SUFFICES ASSUME IInv PROVE NoOverflow  OBVIOUS
  <2>1. Within(output[0], INT_MAX \div 4) /\ Within(output[1], INT_MAX \div 4)
        /\ output[0] \in Int /\ output[1] \in Int
    BY DEF IInv, Quarter, TypeOK, Outputs
  <2>2. Within(output[0] - output[1], INT_MAX)
    BY <2>1, Dims DEF Within
  <2> QED  BY <2>2 DEF IInv, NoOverflow
<1> QED  BY <1>1, Inductive, PTL

-----------------------------------------------------------------------------
(* The built network.  Its partial sums are those of a recursive function, *)
(* which exists by induction over the features.                            *)

LEMMA LessThan ==
  \A x, y \in Nat : <<y, x>> \in OpToRel(<, Nat) <=> y < x
BY DEF OpToRel

LEMMA LeastElement ==
  ASSUME NEW T \in SUBSET Nat, T # {}
  PROVE  \E m \in T : \A k \in T : m <= k
<1>1. PICK m \in T : \A k \in T : ~(<<k, m>> \in OpToRel(<, Nat))
  BY NatLessThanWellFounded, WFMin
<1>2. \A k \in T : ~(k < m)  BY <1>1, LessThan
<1> QED  BY <1>2

LEMMA SetInduction ==
  ASSUME NEW T, 0 \in T, \A k \in Nat : k \in T => k + 1 \in T
  PROVE  Nat \subseteq T
<1> SUFFICES ASSUME Nat \ T # {} PROVE FALSE  OBVIOUS
<1>1. PICK m \in Nat \ T : \A k \in Nat \ T : m <= k  BY LeastElement
<1>2. m # 0 /\ m - 1 \in Nat  BY <1>1
<1>3. m - 1 \in T  BY <1>1, <1>2
<1> QED  BY <1>1, <1>2, <1>3

(* The sums of the first values, up to a number of them.                   *)
AreSums(f, top, v) ==
  /\ f \in [0 .. top -> Int]
  /\ f[0] = 0
  /\ \A n \in 1 .. top : f[n] = f[n - 1] + Feature(v[n - 1])

LEMMA SumsExist ==
  ASSUME NEW v, NEW top \in Nat, \A n \in 0 .. (top - 1) : Feature(v[n]) \in Int
  PROVE  \E f : AreSums(f, top, v)
<1> DEFINE T == {k \in Nat : k <= top => \E f : AreSums(f, k, v)}
<1>1. 0 \in T
  <2>1. AreSums([k \in 0 .. 0 |-> 0], 0, v)  BY DEF AreSums
  <2> QED  BY <2>1
<1>2. ASSUME NEW k \in Nat, k \in T PROVE k + 1 \in T
  <2> SUFFICES ASSUME k + 1 <= top PROVE \E f : AreSums(f, k + 1, v)  OBVIOUS
  <2>1. PICK f : AreSums(f, k, v)  BY <1>2
  <2>2. PICK c \in Int : c = Feature(v[k])
    <3>1. k \in 0 .. (top - 1)  OBVIOUS
    <3> QED  BY <3>1
  <2> DEFINE g == [m \in 0 .. (k + 1) |-> IF m = k + 1 THEN f[k] + c ELSE f[m]]
  <2>3. f[k] \in Int /\ f[k] + c \in Int  BY <2>1 DEF AreSums
  <2>4. g \in [0 .. (k + 1) -> Int]  BY <2>1, <2>3 DEF AreSums
  <2>5. g[0] = 0  BY <2>1 DEF AreSums
  <2>6. ASSUME NEW m \in 1 .. (k + 1) PROVE g[m] = g[m - 1] + Feature(v[m - 1])
    <3>1. CASE m = k + 1
      <4>1. m - 1 = k /\ g[m] = f[k] + c /\ g[m - 1] = f[k]  BY <3>1
      <4> QED  BY <2>2, <4>1
    <3>2. CASE m # k + 1
      <4>1. m \in 1 .. k /\ g[m] = f[m] /\ g[m - 1] = f[m - 1]  BY <3>2
      <4> QED  BY <2>1, <4>1 DEF AreSums
    <3> QED  BY <3>1, <3>2
  <2> HIDE DEF g
  <2>7. AreSums(g, k + 1, v)  BY <2>4, <2>5, <2>6 DEF AreSums
  <2> QED  BY <2>7
<1> HIDE DEF T
<1>3. Nat \subseteq T  BY <1>1, <1>2, SetInduction
<1> QED  BY <1>3 DEF T

(* The recursive definition is what it says.                               *)
LEMMA SumsDefined ==
  ASSUME NEW v, \A n \in 0 .. (INPUT_DIM - 1) : Feature(v[n]) \in Int
  PROVE  AreSums(PartSums(v), INPUT_DIM, v)
<1> DEFINE Step(s) ==
      [n \in 0 .. INPUT_DIM |-> IF n = 0 THEN 0 ELSE s[n - 1] + Feature(v[n - 1])]
    f == PartSums(v)
<1>0. INPUT_DIM \in Nat  BY Dims
<1>1. PICK w : AreSums(w, INPUT_DIM, v)  BY <1>0, SumsExist
<1>2. w = Step(w)  BY <1>0, <1>1 DEF AreSums
<1>3. f = CHOOSE s : s = Step(s)  BY DEF PartSums
<1>4. f = Step(f)  BY <1>2, <1>3, Zenon
<1>5. \A n \in 0 .. INPUT_DIM : f[n] = IF n = 0 THEN 0 ELSE f[n - 1] + Feature(v[n - 1])
  BY <1>4, Zenon
<1>6. f = [n \in 0 .. INPUT_DIM |-> f[n]]  BY <1>4, Zenon
<1> HIDE DEF f, Step
<1>7. f[0] = 0
  <2>1. 0 \in 0 .. INPUT_DIM  BY <1>0
  <2> QED  BY <1>5, <2>1
<1>8. \A n \in 1 .. INPUT_DIM : f[n] = f[n - 1] + Feature(v[n - 1])  BY <1>0, <1>5
<1>9. \A n \in 0 .. INPUT_DIM : f[n] \in Int
  <2> DEFINE T == {k \in Nat : k <= INPUT_DIM => f[k] \in Int}
  <2>1. 0 \in T  BY <1>7
  <2>2. ASSUME NEW k \in Nat, k \in T PROVE k + 1 \in T
    <3> SUFFICES ASSUME k + 1 <= INPUT_DIM PROVE f[k + 1] \in Int  OBVIOUS
    <3>1. k + 1 \in 1 .. INPUT_DIM /\ (k + 1) - 1 = k /\ k \in 0 .. (INPUT_DIM - 1)  BY <1>0
    <3>2. f[k + 1] = f[k] + Feature(v[k])  BY <1>8, <3>1
    <3>3. f[k] \in Int /\ Feature(v[k]) \in Int  BY <1>0, <2>2, <3>1
    <3> QED  BY <3>2, <3>3
  <2> HIDE DEF T
  <2>3. Nat \subseteq T  BY <2>1, <2>2, SetInduction
  <2> QED  BY <1>0, <2>3 DEF T
<1>10. AreSums(f, INPUT_DIM, v)  BY <1>6, <1>7, <1>8, <1>9 DEF AreSums
<1> QED  BY <1>10 DEF f

(* A vector of bytes sums to no more than 64 * 256.                        *)
LEMMA SumsWithin ==
  ASSUME Built, NEW x \in [InputPlaces -> 0 .. (2 * X_MAX - 1)]
  PROVE  /\ AreSums(PartSums(x), INPUT_DIM, x)
         /\ \A n \in 0 .. INPUT_DIM : Within(PartSums(x)[n], 128 * n)
         /\ \A n \in InputPlaces : Feature(x[n]) \in -128 .. 127 /\ Feature(x[n]) = Signed(x[n])
<1> DEFINE f == PartSums(x)
<1>1. ASSUME NEW n \in InputPlaces
      PROVE  Feature(x[n]) \in -128 .. 127 /\ Feature(x[n]) = Signed(x[n])
  <2>1. x[n] \in 0 .. 255 /\ X_MAX = 128  BY DEF Built
  <2> QED  BY <2>1 DEF Feature, Signed
<1>2. ASSUME NEW n \in 0 .. (INPUT_DIM - 1) PROVE Feature(x[n]) \in Int
  <2>1. PICK c \in -128 .. 127 : c = Feature(x[n])  BY <1>1 DEF InputPlaces
  <2> QED  BY <2>1
<1>3. AreSums(f, INPUT_DIM, x)  BY <1>2, SumsDefined, Zenon
<1> HIDE DEF f
<1>4. \A n \in 0 .. INPUT_DIM : Within(f[n], 128 * n)
  <2> DEFINE T == {k \in Nat : k <= INPUT_DIM => Within(f[k], 128 * k)}
  <2>1. 0 \in T  BY <1>3 DEF AreSums, Within
  <2>2. ASSUME NEW k \in Nat, k \in T PROVE k + 1 \in T
    <3> SUFFICES ASSUME k + 1 <= INPUT_DIM PROVE Within(f[k + 1], 128 * (k + 1))  OBVIOUS
    <3>1. /\ k + 1 \in 1 .. INPUT_DIM /\ (k + 1) - 1 = k /\ k \in InputPlaces
          /\ k \in 0 .. INPUT_DIM
      BY Dims DEF InputPlaces
    <3>2. PICK c \in -128 .. 127 : c = Feature(x[k])  BY <1>1, <3>1
    <3>3. f[k + 1] = f[k] + c /\ f[k] \in Int  BY <1>3, <3>1, <3>2 DEF AreSums
    <3>4. Within(f[k], 128 * k)  BY <2>2, Dims
    <3> QED  BY <3>3, <3>4 DEF Within
  <2> HIDE DEF T
  <2>3. Nat \subseteq T  BY <2>1, <2>2, SetInduction
  <2> QED  BY <2>3, Dims DEF T
<1> QED  BY <1>1, <1>3, <1>4 DEF f

(* What every hidden value becomes, and the outputs.                       *)
Activation == relu(FeatureSum \div 256)
FirstOutput == 16 - (Activation + 1) \div 2
SecondOutput == 2 * Activation - 16

(* What the loops have computed, in terms of the sum of the features.      *)
Computes ==
  /\ layer = "first" =>
       /\ j > 0 => acc = PartSums(input)[j]
       /\ \A k \in HiddenPlaces : k < i => hidden[k] = Activation
  /\ layer # "first" => \A k \in HiddenPlaces : hidden[k] = Activation
  /\ layer = "second" /\ i = 0 /\ j > 0 => acc = 4096 - 8 * (Activation * j)
  /\ layer = "second" /\ i = 1 /\ j > 0 => acc = 32 * (Activation * j) - 4096
  /\ (layer = "second" /\ i = 1) \/ layer = "argmax" => output[0] = FirstOutput
  /\ layer = "argmax" => output[1] = SecondOutput
  /\ IsThreshold

LEMMA SumRange ==
  ASSUME Built, TypeOK
  PROVE  /\ FeatureSum \in Int /\ Within(FeatureSum, 64 * 256)
         /\ Activation \in 0 .. 64
         /\ FirstOutput \in Int /\ SecondOutput \in Int
<1>1. input \in [InputPlaces -> 0 .. (2 * X_MAX - 1)]  BY WeightsAssumption DEF TypeOK
<1>2. INPUT_DIM = 128 /\ INPUT_DIM \in 0 .. INPUT_DIM  BY DEF Built
<1>3. FeatureSum \in Int /\ Within(FeatureSum, 128 * INPUT_DIM)
  BY <1>1, <1>2, SumsWithin DEF FeatureSum, AreSums
<1>4. FeatureSum \in Int /\ Within(FeatureSum, 64 * 256)  BY <1>2, <1>3
<1>5. Activation \in 0 .. 64  BY <1>4 DEF Activation, relu, Within
<1>6. FirstOutput \in Int /\ SecondOutput \in Int  BY <1>5 DEF FirstOutput, SecondOutput
<1> QED  BY <1>4, <1>5, <1>6

(* Only the input decides them.                                            *)
LEMMA SumKept ==
  ASSUME input' = input
  PROVE  /\ PartSums(input)' = PartSums(input) /\ FeatureSum' = FeatureSum
         /\ Activation' = Activation /\ FirstOutput' = FirstOutput
         /\ SecondOutput' = SecondOutput
<1>1. PartSums(input)' = PartSums(input)  BY DEF PartSums
<1>2. FeatureSum' = FeatureSum  BY <1>1 DEF FeatureSum
<1>3. Activation' = Activation  BY <1>2 DEF Activation
<1> QED  BY <1>1, <1>2, <1>3 DEF FirstOutput, SecondOutput

LEMMA Starts == Init => Computes
BY Dims DEF Init, Computes, IsThreshold, HiddenPlaces

LEMMA Adds1 == ASSUME Built, IInv, Computes, Add1 PROVE Computes'
<1>1. TypeOK  BY DEF IInv
<1>2. /\ layer = "first" /\ layer' = "first" /\ j' = j + 1 /\ j < INPUT_DIM /\ j \in Nat
      /\ i \in HiddenPlaces /\ i' = i /\ hidden' = hidden /\ input' = input
      /\ acc' = Start(B1[i]) + Signed(input[j]) * W1[i][j]
  BY <1>1 DEF Add1, TypeOK
<1>3. j \in InputPlaces /\ j + 1 \in 1 .. INPUT_DIM /\ (j + 1) - 1 = j
  BY <1>2, Dims DEF InputPlaces
<1>4. W1[i][j] = 1 /\ B1[i] = 0  BY <1>2, <1>3 DEF Built, BuiltW1, BuiltB1
<1>5. input \in [InputPlaces -> 0 .. (2 * X_MAX - 1)]  BY <1>1, WeightsAssumption DEF TypeOK
<1>6. PICK c \in -128 .. 127 : c = Signed(input[j]) /\ c = Feature(input[j])
  BY <1>3, <1>5, SumsWithin
<1>7. AreSums(PartSums(input), INPUT_DIM, input)  BY <1>5, SumsWithin
<1>8. PICK s \in Int : s = PartSums(input)[j] /\ PartSums(input)[j + 1] = s + c
                       /\ (j = 0 => s = 0)
  <2>1. j \in 0 .. INPUT_DIM  BY <1>2, Dims
  <2> QED  BY <1>3, <1>6, <1>7, <2>1 DEF AreSums
<1>9. acc' = s + c
  <2>1. Start(B1[i]) = s  BY <1>2, <1>4, <1>8 DEF Start, SHIFT, Computes
  <2> QED  BY <1>2, <1>4, <1>6, <2>1
<1>10. PartSums(input)' = PartSums(input) /\ Activation' = Activation  BY <1>2, SumKept
<1>11. acc' = PartSums(input)'[j']  BY <1>2, <1>8, <1>9, <1>10
<1>12. \A k \in HiddenPlaces : k < i' => hidden'[k] = Activation'
  BY <1>2, <1>10 DEF Computes
<1> QED  BY <1>2, <1>11, <1>12 DEF Computes, IsThreshold

LEMMA Ends1 == ASSUME Built, IInv, Computes, End1 PROVE Computes'
<1>1. TypeOK  BY DEF IInv
<1>2. /\ layer = "first" /\ j = INPUT_DIM /\ i \in HiddenPlaces /\ input' = input
      /\ hidden' = [hidden EXCEPT ![i] = relu(acc \div SHIFT)]
      /\ j' = 0 /\ i' = (IF i + 1 < HIDDEN_DIM THEN i + 1 ELSE 0)
      /\ layer' = IF i + 1 < HIDDEN_DIM THEN "first" ELSE "second"
  BY <1>1 DEF End1, TypeOK
<1>3. acc = FeatureSum  BY <1>2, Dims DEF Computes, FeatureSum
<1>4. relu(acc \div SHIFT) = Activation  BY <1>3 DEF Activation, SHIFT
<1>5. Activation' = Activation  BY <1>2, SumKept
<1>6. \A k \in HiddenPlaces : k < i \/ k = i => hidden'[k] = Activation'
  BY <1>1, <1>2, <1>4, <1>5 DEF Computes, TypeOK
<1>7. CASE i + 1 < HIDDEN_DIM
  <2>1. layer' = "first" /\ i' = i + 1  BY <1>2, <1>7
  <2>2. \A k \in HiddenPlaces : k < i' => k < i \/ k = i  BY <1>2, <2>1, Dims DEF HiddenPlaces
  <2> QED  BY <1>2, <1>6, <2>1, <2>2 DEF Computes, IsThreshold
<1>8. CASE ~(i + 1 < HIDDEN_DIM)
  <2>1. layer' = "second" /\ i' = 0  BY <1>2, <1>8
  <2>2. \A k \in HiddenPlaces : k < i \/ k = i  BY <1>2, <1>8, Dims DEF HiddenPlaces
  <2>3. \A k \in HiddenPlaces : hidden'[k] = Activation'  BY <1>6, <2>2
  <2> QED  BY <1>2, <2>1, <2>3 DEF Computes, IsThreshold
<1> QED  BY <1>7, <1>8

LEMMA Adds2 == ASSUME Built, IInv, Computes, Add2 PROVE Computes'
<1>1. TypeOK  BY DEF IInv
<1>2. /\ layer = "second" /\ layer' = "second" /\ j' = j + 1 /\ j < HIDDEN_DIM /\ j \in Nat
      /\ i \in Outputs /\ i' = i /\ hidden' = hidden /\ input' = input /\ output' = output
      /\ acc' = Start(B2[i]) + hidden[j] * W2[i][j]
  BY <1>1 DEF Add2, TypeOK
<1>3. j \in HiddenPlaces  BY <1>2, Dims DEF HiddenPlaces
<1>4. W2[i][j] = (IF i = 0 THEN -8 ELSE 32) /\ B2[i] = (IF i = 0 THEN 16 ELSE -16)
  BY <1>2, <1>3 DEF Built, BuiltW2, BuiltB2
<1>5. PICK h \in 0 .. 64 : h = Activation  BY <1>1, SumRange
<1>6. hidden[j] = h  BY <1>2, <1>3, <1>5 DEF Computes
<1>7. PICK p \in Int : p = h * j /\ h * (j + 1) = p + h /\ (j = 0 => p = 0)  BY <1>2, <1>5
<1>8. Activation' = h /\ FirstOutput' = FirstOutput  BY <1>2, <1>5, SumKept
<1>9. CASE i = 0
  <2>1. Start(B2[i]) = 4096 - 8 * p
    <3>1. j > 0 => acc = 4096 - 8 * (Activation * j)  BY <1>2, <1>9 DEF Computes
    <3>2. j > 0 => acc = 4096 - 8 * p
      <4>1. Activation * j = p  BY <1>5, <1>7
      <4> QED  BY <3>1, <4>1
    <3>3. Start(B2[i]) = IF j = 0 THEN 4096 ELSE acc  BY <1>4, <1>9 DEF Start, SHIFT
    <3>4. CASE j = 0
      <4>1. 4096 = 4096 - 8 * p  BY <1>7, <3>4
      <4> QED  BY <3>3, <3>4, <4>1
    <3>5. CASE j > 0
      <4>1. acc = 4096 - 8 * p  BY <3>2, <3>5
      <4>2. Start(B2[i]) = acc  BY <3>3, <3>5
      <4> QED  BY <4>1, <4>2
    <3> QED  BY <1>2, <3>4, <3>5
  <2>2. hidden[j] * W2[i][j] = -8 * h  BY <1>4, <1>5, <1>6, <1>9
  <2>3. acc' = 4096 - 8 * (p + h)  BY <1>2, <1>5, <1>7, <2>1, <2>2
  <2>4. acc' = 4096 - 8 * (Activation' * j')  BY <1>2, <1>7, <1>8, <2>3
  <2> QED  BY <1>2, <1>5, <1>8, <1>9, <2>4 DEF Computes, IsThreshold
<1>10. CASE i = 1
  <2>1. Start(B2[i]) = 32 * p - 4096
    <3>1. j > 0 => acc = 32 * (Activation * j) - 4096  BY <1>2, <1>10 DEF Computes
    <3>2. j > 0 => acc = 32 * p - 4096
      <4>1. Activation * j = p  BY <1>5, <1>7
      <4> QED  BY <3>1, <4>1
    <3>3. Start(B2[i]) = IF j = 0 THEN -4096 ELSE acc  BY <1>4, <1>10 DEF Start, SHIFT
    <3>4. CASE j = 0
      <4>1. -4096 = 32 * p - 4096  BY <1>7, <3>4
      <4> QED  BY <3>3, <3>4, <4>1
    <3>5. CASE j > 0
      <4>1. acc = 32 * p - 4096  BY <3>2, <3>5
      <4>2. Start(B2[i]) = acc  BY <3>3, <3>5
      <4> QED  BY <4>1, <4>2
    <3> QED  BY <1>2, <3>4, <3>5
  <2>2. hidden[j] * W2[i][j] = 32 * h  BY <1>4, <1>5, <1>6, <1>10
  <2>3. acc' = 32 * (p + h) - 4096  BY <1>2, <1>5, <1>7, <2>1, <2>2
  <2>4. acc' = 32 * (Activation' * j') - 4096  BY <1>2, <1>7, <1>8, <2>3
  <2> QED  BY <1>2, <1>5, <1>8, <1>10, <2>4 DEF Computes, IsThreshold
<1> QED  BY <1>2, <1>9, <1>10 DEF Outputs

LEMMA Ends2 == ASSUME Built, IInv, Computes, End2 PROVE Computes'
<1>1. TypeOK  BY DEF IInv
<1>2. /\ layer = "second" /\ j = HIDDEN_DIM /\ i \in Outputs /\ input' = input /\ hidden' = hidden
      /\ output' = [output EXCEPT ![i] = acc \div SHIFT]
      /\ j' = 0 /\ i' = (IF i = 0 THEN 1 ELSE 0)
      /\ layer' = IF i = 0 THEN "second" ELSE "argmax"
      /\ output \in [Outputs -> Int]
  BY <1>1 DEF End2, TypeOK
<1>3. j = 16  BY <1>2 DEF Built
<1>4. PICK h \in 0 .. 64 : h = Activation  BY <1>1, SumRange
<1>5. /\ Activation' = Activation /\ FirstOutput' = FirstOutput /\ SecondOutput' = SecondOutput
      /\ FirstOutput = 16 - (h + 1) \div 2 /\ SecondOutput = 2 * h - 16
  BY <1>2, <1>4, SumKept DEF FirstOutput, SecondOutput
<1>6. \A k \in HiddenPlaces : hidden'[k] = Activation'  BY <1>2, <1>5 DEF Computes
<1>7. CASE i = 0
  <2>1. acc = 4096 - 8 * (h * 16)  BY <1>2, <1>3, <1>4, <1>7 DEF Computes
  <2>2. acc \div SHIFT = 16 - (h + 1) \div 2  BY <2>1 DEF SHIFT
  <2>3. output'[0] = FirstOutput'  BY <1>2, <1>5, <1>7, <2>2 DEF Outputs
  <2>4. layer' = "second" /\ i' = 1  BY <1>2, <1>7
  <2> QED  BY <1>2, <1>6, <2>3, <2>4 DEF Computes, IsThreshold
<1>8. CASE i = 1
  <2>1. acc = 32 * (h * 16) - 4096  BY <1>2, <1>3, <1>4, <1>8 DEF Computes
  <2>2. acc \div SHIFT = 2 * h - 16  BY <2>1 DEF SHIFT
  <2>3. output'[1] = SecondOutput'  BY <1>2, <1>5, <1>8, <2>2 DEF Outputs
  <2>4. output'[0] = output[0]  BY <1>2, <1>8 DEF Outputs
  <2>5. output'[0] = FirstOutput'  BY <1>2, <1>5, <1>8, <2>4 DEF Computes
  <2>6. layer' = "argmax"  BY <1>2, <1>8
  <2> QED  BY <1>2, <1>6, <2>3, <2>5, <2>6 DEF Computes, IsThreshold
<1> QED  BY <1>2, <1>7, <1>8 DEF Outputs

LEMMA Decides == ASSUME Built, IInv, Computes, Argmax PROVE Computes'
<1>1. TypeOK  BY DEF IInv
<1> DEFINE diff == output[0] - output[1]
           size == IF diff >= 0 THEN diff ELSE -diff
<1>2. /\ layer = "argmax" /\ layer' = "done" /\ input' = input /\ hidden' = hidden
      /\ classification' = (IF diff >= 0 THEN 0 ELSE 1)
      /\ confidence' = IF size > 65535 THEN 65535 ELSE size
  BY DEF Argmax
<1>3. PICK s \in Int : s = FeatureSum /\ Within(s, 64 * 256)  BY <1>1, SumRange
<1>4. PICK h \in 0 .. 64 : h = Activation  BY <1>1, SumRange
<1>5. h = IF s < 256 THEN 0 ELSE s \div 256
  BY <1>3, <1>4 DEF Activation, relu
<1>6. output[0] = 16 - (h + 1) \div 2 /\ output[1] = 2 * h - 16
  BY <1>2, <1>4 DEF Computes, FirstOutput, SecondOutput
<1>7. FeatureSum' = s /\ Activation' = Activation  BY <1>2, <1>3, SumKept
<1> DEFINE margin == 32 - 2 * h - (h + 1) \div 2
<1>8. diff = margin /\ margin \in Int  BY <1>6
<1>9. margin >= 0 <=> s < 13 * 256  BY <1>3, <1>4, <1>5
<1>10. size <= 65535 /\ size = (IF margin < 0 THEN -margin ELSE margin)  BY <1>4, <1>8
<1>11. /\ classification' = (IF s >= 13 * 256 THEN 1 ELSE 0)
       /\ confidence' = (IF margin < 0 THEN -margin ELSE margin)
  <2> HIDE DEF diff, margin, size
  <2> QED  BY <1>2, <1>3, <1>8, <1>9, <1>10
<1>12. IsThreshold'  BY <1>5, <1>7, <1>11 DEF IsThreshold
<1>13. \A k \in HiddenPlaces : hidden'[k] = Activation'  BY <1>2, <1>7 DEF Computes
<1> QED  BY <1>2, <1>12, <1>13 DEF Computes

LEMMA Rests == ASSUME Computes, UNCHANGED vars PROVE Computes'
<1>1. input' = input /\ layer' = layer /\ i' = i /\ j' = j /\ acc' = acc /\ hidden' = hidden
      /\ output' = output /\ classification' = classification /\ confidence' = confidence
  BY DEF vars
<1>2. /\ PartSums(input)' = PartSums(input) /\ FeatureSum' = FeatureSum
      /\ Activation' = Activation /\ FirstOutput' = FirstOutput /\ SecondOutput' = SecondOutput
  BY <1>1, SumKept
<1> QED  BY <1>1, <1>2 DEF Computes, IsThreshold

(* With the built weights the network is a threshold on the sum of the     *)
(* features, for every vector of bytes (tinyml_runtime.c:38-62 with        *)
(* weights_w1.inc, weights_w2.inc).                                        *)
THEOREM BuiltIsThreshold == Built => (Spec => []IsThreshold)
<1> SUFFICES ASSUME Built PROVE Spec => []IsThreshold  OBVIOUS
<1>1. IInv /\ Computes /\ [Next]_vars => Computes'
  <2> SUFFICES ASSUME IInv, Computes, [Next]_vars PROVE Computes'  OBVIOUS
  <2>1. CASE Next  BY <2>1, Adds1, Ends1, Adds2, Ends2, Decides DEF Next
  <2>2. CASE UNCHANGED vars  BY <2>2, Rests
  <2> QED  BY <2>1, <2>2
<1>2. Computes => IsThreshold  BY DEF Computes
<1> QED  BY <1>1, <1>2, Starts, Inductive, PTL DEF Spec

=============================================================================
