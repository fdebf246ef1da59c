---------------------------- MODULE MCFixedPoint ----------------------------
(***************************************************************************)
(* TLC instance of the fixed-point arithmetic: a behaviour classifies a    *)
(* vector with the built network (TinyBuilt) or is one of the harness's    *)
(* programs (VerifyHarness).                                               *)
(***************************************************************************)
EXTENDS TinyBuilt, VerifyHarness

(* Vectors on both sides of the change of class: 26 features of 127 and    *)
(* one more, equal ones, a text behind zeros, alternating signs.           *)
BuiltInputs ==
  {[k \in InputPlaces |-> IF k < 26 THEN 127 ELSE IF k = 26 THEN x ELSE 0] : x \in 20 .. 30}
  \cup {[k \in InputPlaces |-> x] : x \in {0, 25, 26, 27, 127, 128, 255}}
  \cup {[k \in InputPlaces |-> IF k < 68 THEN x ELSE 0] : x \in {48, 49, 65}}
  \cup {[k \in InputPlaces |-> IF k % 2 = 0 THEN 127 ELSE 128]}

NoVector ==
  /\ input \in Inputs /\ \A k \in InputPlaces : input[k] = 0
  /\ layer = "none" /\ i = 0 /\ j = 0 /\ acc = 0
  /\ hidden = [k \in HiddenPlaces |-> 0] /\ output = [k \in Outputs |-> 0]
  /\ classification = 0 /\ confidence = 0

NoProgram ==
  /\ build = "none" /\ stage = "done"
  /\ a = 0 /\ b = 0 /\ mul_res = 0 /\ add_res = 0 /\ corner = 0
  /\ todo = 0 /\ evaluating = FALSE
  /\ node_count = 0 /\ marked = {} /\ n = 0 /\ iterations = 0
  /\ status = "SUCCESS" /\ flags = {}
  /\ failed = FALSE

EitherInit == (Init /\ NoProgram) \/ (NoVector /\ HarnessInit)

NetworkStep == Next /\ UNCHANGED harnessVars
HarnessStep == HarnessNext /\ UNCHANGED vars

EitherSpec ==
  /\ EitherInit
  /\ [][NetworkStep \/ HarnessStep]_<<vars, harnessVars>>
  /\ WF_<<vars, harnessVars>>(HarnessStep)

=============================================================================
