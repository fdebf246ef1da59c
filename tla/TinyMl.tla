------------------------------- MODULE TinyMl -------------------------------
(***************************************************************************)
(* tinyml_infer (libraries-3/tinyml/tinyml_runtime.c): two dense layers in *)
(* 32-bit integers, one product added at a time, and the larger of the two *)
(* outputs.  The weights are parameters: the theorems hold for any that    *)
(* fit, the run takes those of the .inc files.                             *)
(***************************************************************************)
EXTENDS Integers

CONSTANTS
  INPUT_DIM, HIDDEN_DIM,  \* 128 and 16; there are two outputs
  W1, B1, W2, B2,         \* the weights and biases
  X_MAX,                  \* 2^7, of an int8_t feature
  W_MAX,                  \* 2^15, of an int16_t weight
  W2_MAX,                 \* the largest weight of the second layer
  INT_MAX,                \* 2^31 - 1
  Inputs                  \* the feature vectors to classify

InputPlaces == 0 .. (INPUT_DIM - 1)
HiddenPlaces == 0 .. (HIDDEN_DIM - 1)
Outputs == {0, 1}
Confidences == 0 .. 65535

SHIFT == 256
BIAS_MAX == SHIFT * W_MAX
TERM1 == X_MAX * W_MAX
Terms1(count) == count * TERM1
HIDDEN_MAX == (BIAS_MAX + Terms1(INPUT_DIM)) \div SHIFT
TERM2 == HIDDEN_MAX * W2_MAX
Terms2(count) == count * TERM2

ASSUME DimsAssumption ==
  /\ INPUT_DIM \in Nat \ {0} /\ HIDDEN_DIM \in Nat \ {0}
  /\ X_MAX \in Nat \ {0} /\ W_MAX \in Nat /\ W2_MAX \in Nat
  /\ INT_MAX \in Nat /\ INT_MAX >= 65535

ASSUME WeightsAssumption ==
  /\ W1 \in [HiddenPlaces -> [InputPlaces -> (-W_MAX) .. W_MAX]]
  /\ B1 \in [HiddenPlaces -> (-W_MAX) .. W_MAX]
  /\ W2 \in [Outputs -> [HiddenPlaces -> (-W2_MAX) .. W2_MAX]]
  /\ B2 \in [Outputs -> (-W_MAX) .. W_MAX]
  /\ \A x \in Inputs : x \in [InputPlaces -> 0 .. (2 * X_MAX - 1)]

(* With the code's numbers the second line holds for W2_MAX up to 62.      *)
ASSUME WidthAssumption ==
  /\ BIAS_MAX + Terms1(INPUT_DIM) <= INT_MAX
  /\ BIAS_MAX + Terms2(HIDDEN_DIM) <= INT_MAX

VARIABLES
  input,           \* the 128 bytes
  layer,           \* "first", "second", "argmax", "done"
  i, j,            \* the loops' indices
  acc,             \* the accumulator
  hidden, output,  \* the layers' results
  classification, confidence

vars == <<input, layer, i, j, acc, hidden, output, classification, confidence>>

(* mutant: the byte is taken as it is *)
Unsigned(byte) == byte

(* The byte as an int8_t.                                                  *)
Signed(byte) == IF byte >= X_MAX THEN byte - 2 * X_MAX ELSE byte

(* mutant: no activation *)
relu(x) == IF x > 0 THEN x ELSE 0

Init ==
  /\ input \in Inputs
  /\ layer = "first" /\ i = 0 /\ j = 0
  /\ acc = 0
  /\ hidden = [k \in HiddenPlaces |-> 0] /\ output = [k \in Outputs |-> 0]
  /\ classification = 0 /\ confidence = 0

(* mutant: the bias is added to the sum of the last row *)
(* The accumulator starts with the bias when j is 0.                       *)
Start(bias) == IF j = 0 THEN SHIFT * bias ELSE acc

Add1 ==
  /\ layer = "first" /\ i < HIDDEN_DIM /\ j < INPUT_DIM
  /\ acc' = Start(B1[i]) + Signed(input[j]) * W1[i][j]
  /\ j' = j + 1
  /\ UNCHANGED <<input, layer, i, hidden, output, classification, confidence>>

End1Unshifted ==   \* mutant: the sum is not divided
  /\ layer = "first" /\ i < HIDDEN_DIM /\ j = INPUT_DIM
  /\ hidden' = [hidden EXCEPT ![i] = relu(acc)]
  /\ j' = 0 /\ i' = IF i + 1 < HIDDEN_DIM THEN i + 1 ELSE 0
  /\ layer' = IF i + 1 < HIDDEN_DIM THEN "first" ELSE "second"
  /\ UNCHANGED <<input, acc, output, classification, confidence>>

End1 ==
  /\ layer = "first" /\ i < HIDDEN_DIM /\ j = INPUT_DIM
  /\ hidden' = [hidden EXCEPT ![i] = relu(acc \div SHIFT)]
  /\ j' = 0 /\ i' = IF i + 1 < HIDDEN_DIM THEN i + 1 ELSE 0
  /\ layer' = IF i + 1 < HIDDEN_DIM THEN "first" ELSE "second"
  /\ UNCHANGED <<input, acc, output, classification, confidence>>

Add2 ==
  /\ layer = "second" /\ j < HIDDEN_DIM
  /\ acc' = Start(B2[i]) + hidden[j] * W2[i][j]
  /\ j' = j + 1
  /\ UNCHANGED <<input, layer, i, hidden, output, classification, confidence>>

End2 ==
  /\ layer = "second" /\ j = HIDDEN_DIM
  /\ output' = [output EXCEPT ![i] = acc \div SHIFT]
  /\ j' = 0 /\ i' = IF i = 0 THEN 1 ELSE 0
  /\ layer' = IF i = 0 THEN "second" ELSE "argmax"
  /\ UNCHANGED <<input, acc, hidden, classification, confidence>>

Argmax ==
  LET diff == output[0] - output[1]
      size == IF diff >= 0 THEN diff ELSE -diff
  IN /\ layer = "argmax" /\ layer' = "done"
     /\ classification' = IF diff >= 0 THEN 0 ELSE 1
     /\ confidence' = IF size > 65535 THEN 65535 ELSE size
     /\ UNCHANGED <<input, i, j, acc, hidden, output>>

Next == Add1 \/ End1 \/ Add2 \/ End2 \/ Argmax

Spec == Init /\ [][Next]_vars

-----------------------------------------------------------------------------
Layers == {"first", "second", "argmax", "done"}

TypeOK ==
  /\ input \in Inputs /\ layer \in Layers
  /\ i \in Nat /\ j \in Nat /\ acc \in Int
  /\ layer = "first" => i \in HiddenPlaces
  /\ layer = "second" => i \in Outputs
  /\ hidden \in [HiddenPlaces -> 0 .. HIDDEN_MAX]
  /\ output \in [Outputs -> Int]
  /\ classification \in Outputs /\ confidence \in Confidences

Within(x, bound) == -bound <= x /\ x <= bound

(* A row's sum is bounded by its bias and one term for each product added; *)
(* what the last row left is not added to it (tinyml_runtime.c:39-49).     *)
AccBounded ==
  /\ layer = "first" => j <= INPUT_DIM /\ (j > 0 => Within(acc, BIAS_MAX + Terms1(j)))
  /\ layer = "second" => j <= HIDDEN_DIM /\ (j > 0 => Within(acc, BIAS_MAX + Terms2(j)))

(* No sum leaves the 32-bit integers, neither does the difference of the   *)
(* outputs (tinyml_runtime.c:41, :49, :56-60).                             *)
NoOverflow ==
  /\ Within(acc, INT_MAX)
  /\ Within(output[0] - output[1], INT_MAX)

=============================================================================
