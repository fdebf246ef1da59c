--------------------------- MODULE VerifyHarness ---------------------------
(***************************************************************************)
(* apps/rootserver/verify/verify_harness.c: the saturating fixed-point     *)
(* operators and the two programs that try them and the loop over a        *)
(* frame's nodes, one for CBMC, which takes every value, and one that runs *)
(* natively over corners, counts and random frames.  An assertion that     *)
(* fails is recorded.  The width is a parameter, 32 bits in the code.      *)
(***************************************************************************)
EXTENDS Integers, Sequences

CONSTANTS
  WIDTH, Q16_SHIFT,  \* 32 and 16
  MAX_NODES,         \* 8
  MAX_COUNT,         \* 16: the counts tried are 0 .. MAX_COUNT
  BYTE_MAX,          \* 255: CBMC's node_count is any byte
  FEATURE_BUF, NODE_BYTES,  \* 128 and 68, the sizes of feature_buf and of a node
  FUZZ               \* bound of the model: random frames tried

ASSUME HarnessAssumption ==
  /\ Q16_SHIFT \in Nat \ {0} /\ WIDTH \in Nat /\ WIDTH > Q16_SHIFT + 1
  /\ MAX_NODES \in Nat /\ MAX_NODES >= 4
  /\ MAX_COUNT \in Nat /\ MAX_COUNT > MAX_NODES /\ FUZZ \in Nat
  /\ BYTE_MAX \in Nat /\ FEATURE_BUF \in Nat /\ NODE_BYTES \in Nat

(* 1 << n                                                                  *)
Shifted[n \in 0 .. WIDTH] == IF n = 0 THEN 1 ELSE 2 * Shifted[n - 1]

Q16_MAX == Shifted[WIDTH - 1] - 1
Q16_MIN == -Shifted[WIDTH - 1]
Int32 == Q16_MIN .. Q16_MAX
Nodes == 0 .. (MAX_NODES - 1)

VARIABLES
  build,                        \* "cbmc" or "native"
  stage,                        \* "q16", "counts", "isolation", "fuzz", "done"
  a, b, mul_res, add_res,       \* verify_q16_saturation_properties
  corner,                       \* native: pairs of corners tried
  todo,                         \* native: frames of the stage still to try
  evaluating,                   \* the loop over the nodes is running
  node_count, marked,           \* the frame: the nodes the inference flags
  n, iterations,
  status, flags,                \* the response
  failed                        \* an assertion has failed

arith == <<a, b, mul_res, add_res, corner>>
frame == <<node_count, marked, n, iterations, status, flags>>
harnessVars == <<build, stage, arith, todo, evaluating, frame, failed>>

(* The cast to int32_t.                                                    *)
Narrow(x) == ((x - Q16_MIN) % Shifted[WIDTH]) + Q16_MIN

(* mutant: a result beyond the range is cast *)
Wrapped(x) == Narrow(x)

Saturated(x) ==
  IF x > Q16_MAX THEN Q16_MAX ELSE IF x < Q16_MIN THEN Q16_MIN ELSE Narrow(x)

q16_mul_sat(x, y) == Saturated((x * y) \div Shifted[Q16_SHIFT])

q16_add_sat(x, y) == Saturated(x + y)

HarnessInit ==
  /\ build \in {"cbmc", "native"} /\ stage = "q16"
  /\ a = 0 /\ b = 0 /\ mul_res = 0 /\ add_res = 0 /\ corner = 0
  /\ todo = 0 /\ evaluating = FALSE
  /\ node_count = 0 /\ marked = {} /\ n = 0 /\ iterations = 0
  /\ status = "SUCCESS" /\ flags = {}
  /\ failed = FALSE

Corners ==
  <<0, 1, -1, Q16_MAX, Q16_MIN, Q16_MAX - 1, Q16_MIN + 1,
    Shifted[Q16_SHIFT], -Shifted[Q16_SHIFT], Shifted[Q16_SHIFT - 1], -Shifted[Q16_SHIFT - 1]>>

Q16Holds(x, y, m, s) ==
  /\ m \in Int32 /\ s \in Int32
  /\ (x > 0 /\ y > 0 /\ m # Q16_MAX) => m >= 0

Try(x, y) ==
  /\ a' = x /\ b' = y
  /\ mul_res' = q16_mul_sat(x, y) /\ add_res' = q16_add_sat(x, y)
  /\ failed' = (failed \/ ~Q16Holds(x, y, mul_res', add_res'))
  /\ UNCHANGED <<build, frame, evaluating>>

(* CBMC's program tries any pair.                                          *)
AnyPair ==
  /\ build = "cbmc" /\ stage = "q16"
  /\ \E x, y \in Int32 : Try(x, y)
  /\ stage' = "fuzz" /\ todo' = 1 /\ UNCHANGED corner

(* The native one tries the pairs of the corners, one after the other.     *)
CornerPair ==
  /\ build = "native" /\ stage = "q16"
  /\ Try(Corners[(corner \div Len(Corners)) + 1], Corners[(corner % Len(Corners)) + 1])
  /\ corner' = corner + 1
  /\ IF corner' < Len(Corners) * Len(Corners)
     THEN UNCHANGED <<stage, todo>>
     ELSE stage' = "counts" /\ todo' = MAX_COUNT + 1

(* mutant: returns before the status is set, with the zero of the memset   *)
StatusUnset(count) == "SUCCESS"

StatusFor(count) == IF count > MAX_NODES THEN "ERR_BOUNDS" ELSE "SUCCESS"

(* What the programs assert of the status, the random frames aside.        *)
StatusHolds(count, code) ==
  /\ build = "cbmc" /\ count > MAX_NODES => code = "ERR_BOUNDS"
  /\ stage = "counts" => code = IF count > MAX_NODES THEN "ERR_BOUNDS" ELSE "SUCCESS"
  /\ stage = "isolation" => code = "SUCCESS"

(* A response is cleared; a count beyond the array is refused, which ends  *)
(* the frame.                                                              *)
Evaluate(count, marks) ==
  /\ todo > 0 /\ ~evaluating
  /\ node_count' = count /\ marked' = marks
  /\ n' = 0 /\ iterations' = 0 /\ flags' = {}
  /\ status' = StatusFor(count)
  /\ evaluating' = (count <= MAX_NODES)
  /\ IF count > MAX_NODES
     THEN todo' = todo - 1 /\ failed' = (failed \/ ~StatusHolds(count, StatusFor(count)))
     ELSE UNCHANGED <<todo, failed>>
  /\ a' = 0 /\ b' = 0 /\ mul_res' = 0 /\ add_res' = 0
  /\ UNCHANGED <<build, stage, corner>>

CountFrame == stage = "counts" /\ Evaluate(MAX_COUNT + 1 - todo, {})

IsolationFrame == stage = "isolation" /\ Evaluate(4, {2})

(* CBMC's one frame has any byte for a count, a random one less than 16.   *)
AnyFrame ==
  /\ stage = "fuzz"
  /\ \E count \in 0 .. (IF build = "cbmc" THEN BYTE_MAX ELSE MAX_COUNT - 1),
       marks \in SUBSET Nodes : Evaluate(count, marks)

More == n < node_count /\ n < MAX_NODES

cpy_len == IF FEATURE_BUF < NODE_BYTES THEN FEATURE_BUF ELSE NODE_BYTES

(* What is asserted of the index and the copy in every turn of the loop.   *)
NodeHolds ==
  /\ n < MAX_NODES /\ n < node_count
  /\ cpy_len <= FEATURE_BUF /\ cpy_len <= NODE_BYTES

Node ==
  /\ evaluating /\ More
  /\ failed' = (failed \/ ~NodeHolds)
  /\ flags' = flags \cup (IF n \in marked THEN {"ANOMALY_DETECTED"} ELSE {})
  /\ iterations' = iterations + 1 /\ n' = n + 1
  /\ UNCHANGED <<build, stage, arith, todo, evaluating, node_count, marked, status>>

(* The flags that are not the inference's to set.                          *)
AuthorityFlags == {"STATUTORY_DUTY", "CORP_DEFENSE_VALID", "CAN_BE_ADMINISTERED"}

(* What the programs assert after the loop; the isolation test also wants  *)
(* its flag and no other, CBMC's program a flag that was seen.             *)
LoopHolds ==
  /\ iterations = node_count /\ iterations <= MAX_NODES
  /\ flags \cap AuthorityFlags = {}
  /\ stage = "isolation" => flags = {"ANOMALY_DETECTED"}
  /\ (build = "cbmc" /\ \E k \in marked : k < iterations) => "ANOMALY_DETECTED" \in flags
  /\ StatusHolds(node_count, status)

EndFrame ==
  /\ evaluating /\ ~More
  /\ failed' = (failed \/ ~LoopHolds)
  /\ evaluating' = FALSE /\ todo' = todo - 1
  /\ UNCHANGED <<build, stage, arith, frame>>

NextStage ==
  /\ stage \in {"counts", "isolation", "fuzz"} /\ todo = 0
  /\ stage' = CASE stage = "counts" -> "isolation" [] stage = "isolation" -> "fuzz" [] OTHER -> "done"
  /\ todo' = CASE stage = "counts" -> 1 [] stage = "isolation" -> FUZZ [] OTHER -> 0
  /\ UNCHANGED <<build, arith, evaluating, frame, failed>>

HarnessNext ==
  AnyPair \/ CornerPair \/ CountFrame \/ IsolationFrame \/ AnyFrame \/ Node \/ EndFrame \/ NextStage

(* A sequential program that nothing stops.                                *)
HarnessSpec == HarnessInit /\ [][HarnessNext]_harnessVars /\ WF_harnessVars(HarnessNext)

-----------------------------------------------------------------------------
(* Both operators are monotone in an argument, the product where the other *)
(* is not negative, so that no result jumps over the range                 *)
(* (verify_harness.c:31-43).                                               *)
Ordered ==
  \A c \in Int32 :
    a <= c => /\ add_res <= q16_add_sat(c, b)
              /\ b >= 0 => mul_res <= q16_mul_sat(c, b)

(* Both programs end with every assertion passed on the results, the       *)
(* index, the copy, the iterations, the flags and the status               *)
(* (verify_harness.c:89-99, 126-168, 185-193, 212-232, 254-274).           *)
Passes == <>(stage = "done" /\ ~failed)

=============================================================================
