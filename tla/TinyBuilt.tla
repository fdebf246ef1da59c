------------------------------ MODULE TinyBuilt ------------------------------
(***************************************************************************)
(* The network of TinyMl with the weights it is built with                 *)
(* (libraries-3/tinyml/weights_w1.inc, weights_w2.inc): a threshold on the *)
(* sum of the features.                                                    *)
(***************************************************************************)
EXTENDS TinyMl

BuiltW1 == [k \in HiddenPlaces |-> [m \in InputPlaces |-> 1]]
BuiltB1 == [k \in HiddenPlaces |-> 0]
BuiltW2 == [k \in Outputs |-> [m \in HiddenPlaces |-> IF k = 0 THEN -8 ELSE 32]]
BuiltB2 == [k \in Outputs |-> IF k = 0 THEN 16 ELSE -16]

Built ==
  /\ INPUT_DIM = 128 /\ HIDDEN_DIM = 16 /\ X_MAX = 128
  /\ W1 = BuiltW1 /\ B1 = BuiltB1 /\ W2 = BuiltW2 /\ B2 = BuiltB2

(* A byte as the signed number it stands for, and the sums of the first    *)
(* features of a vector of bytes.                                          *)
Feature(byte) == IF byte > 127 THEN byte - 256 ELSE byte

PartSums(x) ==
  LET sum[k \in 0 .. INPUT_DIM] ==
        IF k = 0 THEN 0 ELSE sum[k - 1] + Feature(x[k - 1])
  IN sum

FeatureSum == PartSums(input)[INPUT_DIM]

(* With the built weights the network is a threshold: the features of an   *)
(* anomaly sum to 13 * 256 or more, and the confidence is how far apart    *)
(* the outputs are, falling up to that sum and growing beyond it           *)
(* (tinyml_runtime.c:38-62 with weights_w1.inc, weights_w2.inc).           *)
IsThreshold ==
  layer = "done" =>
    LET sum == FeatureSum
        h == IF sum < 256 THEN 0 ELSE sum \div 256
        margin == 32 - 2 * h - (h + 1) \div 2
    IN /\ classification = (IF sum >= 13 * 256 THEN 1 ELSE 0)
       /\ confidence = (IF margin < 0 THEN -margin ELSE margin)

=============================================================================
