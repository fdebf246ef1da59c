-------------------------- MODULE RootTaskProofs --------------------------
(***************************************************************************)
(* Proofs about the programs that are a root task of their own: the        *)
(* harness (VerifyHarness), for every width, shift and number of nodes;    *)
(* the untyped program (UntypedRetype), for every kernel's object sizes    *)
(* and every machine's untypeds; the set-up scripts (RootPrograms), for    *)
(* every width of a message register.                                      *)
(*                                                                         *)
(* The arithmetic of the first two is that of powers of two (1 << n,       *)
(* BIT(n)), which are what a recursive function says they are; that they   *)
(* grow and divide each other carries both arguments.  In the harness the  *)
(* range, the cast and the saturation follow, and an invariant of the loop *)
(* over a frame's nodes gives the assertions.  In the untyped program      *)
(* alignment never costs a byte: every size divides the child's.  Of the   *)
(* scripts the lines are looked at one by one, twice: for the types the    *)
(* steps need only what all lines have in common; for what is in place at  *)
(* each call every line is checked against a ledger of the program, and    *)
(* the invariant is that the objects agree with the ledger of the next     *)
(* call.                                                                   *)
(***************************************************************************)
EXTENDS VerifyHarness, UntypedRetype, RootPrograms, NaturalsInduction, WellFoundedInduction, TLAPS

-----------------------------------------------------------------------------
(* Induction, as a fact about sets.                                        *)

LEMMA LessThan ==
  \A x, y \in Nat : <<y, x>> \in OpToRel(<, Nat) <=> y < x
  BY DEF OpToRel

LEMMA LeastElement ==
  ASSUME NEW T \in SUBSET Nat, T # {}
  PROVE  \E m \in T : \A k \in T : m <= k
  <1>1. PICK m \in T : \A k \in T : ~(<<k, m>> \in OpToRel(<, Nat))
    BY NatLessThanWellFounded, WFMin
  <1>2. \A k \in T : ~(k < m)
    BY <1>1, LessThan
  <1> QED
    BY <1>2

LEMMA SetInduction ==
  ASSUME NEW T, 0 \in T, \A k \in Nat : k \in T => k + 1 \in T
  PROVE  Nat \subseteq T
  <1> SUFFICES ASSUME Nat \ T # {} PROVE FALSE
    OBVIOUS
  <1>1. PICK m \in Nat \ T : \A k \in Nat \ T : m <= k
    BY LeastElement
  <1>2. m # 0 /\ m - 1 \in Nat
    BY <1>1
  <1>3. m - 1 \in T
    BY <1>1, <1>2
  <1> QED
    BY <1>1, <1>2, <1>3

-----------------------------------------------------------------------------
(* The powers of two up to a number of bits.                               *)
ArePowers(f, top) ==
  /\ f \in [0 .. top -> Nat \ {0}]
  /\ f[0] = 1
  /\ \A k \in 1 .. top : f[k] = 2 * f[k - 1]

LEMMA PowersExist ==
  ASSUME NEW top \in Nat
  PROVE  \E f : ArePowers(f, top)
  <1> DEFINE T == {k \in Nat : \E f : ArePowers(f, k)}
  <1>1. 0 \in T
    <2>1. ArePowers([k \in 0 .. 0 |-> 1], 0)
      BY DEF ArePowers
    <2> QED
      BY <2>1
  <1>2. ASSUME NEW k \in Nat, k \in T PROVE k + 1 \in T
    <2>1. PICK f : ArePowers(f, k)
      BY <1>2
    <2> DEFINE g == [m \in 0 .. (k + 1) |-> IF m = k + 1 THEN 2 * f[k] ELSE f[m]]
    <2>2. f[k] \in Nat \ {0} /\ 2 * f[k] \in Nat \ {0}
      BY <2>1 DEF ArePowers
    <2>3. g \in [0 .. (k + 1) -> Nat \ {0}]
      BY <2>1, <2>2 DEF ArePowers
    <2>4. g[0] = 1
      BY <2>1 DEF ArePowers
    <2>5. ASSUME NEW m \in 1 .. (k + 1) PROVE g[m] = 2 * g[m - 1]
      <3>1. CASE m = k + 1
        BY <3>1
      <3>2. CASE m # k + 1
        BY <2>1, <3>2 DEF ArePowers
      <3> QED
        BY <3>1, <3>2
    <2> HIDE DEF g
    <2>6. ArePowers(g, k + 1)
      BY <2>3, <2>4, <2>5 DEF ArePowers
    <2> QED
      BY <2>6
  <1> HIDE DEF T
  <1>3. Nat \subseteq T
    BY <1>1, <1>2, SetInduction
  <1> QED
    BY <1>3 DEF T

(* A recursive definition of them is what it says.                         *)
LEMMA PowersDefined ==
  ASSUME NEW top \in Nat, NEW f,
         f = CHOOSE s : s = [k \in 0 .. top |-> IF k = 0 THEN 1 ELSE 2 * s[k - 1]]
  PROVE  ArePowers(f, top)
  <1> DEFINE Step(s) == [k \in 0 .. top |-> IF k = 0 THEN 1 ELSE 2 * s[k - 1]]
  <1>1. PICK w : ArePowers(w, top)
    BY PowersExist
  <1>2. w = Step(w)
    BY <1>1 DEF ArePowers
  <1>3. f = Step(f)
    BY <1>2, Zenon
  <1>4. \A k \in 0 .. top : f[k] = IF k = 0 THEN 1 ELSE 2 * f[k - 1]
    BY <1>3, Zenon
  <1>5. DOMAIN f = 0 .. top
    BY <1>3, Zenon
  <1> HIDE DEF Step
  <1>6. \A k \in 0 .. top : f[k] = w[k]
    <2> DEFINE T == {k \in Nat : k <= top => f[k] = w[k]}
    <2>1. 0 \in T
      <3>1. f[0] = 1
        BY <1>4, 0 \in 0 .. top
      <3> QED
        BY <1>1, <3>1 DEF ArePowers
    <2>2. ASSUME NEW k \in Nat, k \in T PROVE k + 1 \in T
      <3> SUFFICES ASSUME k + 1 <= top PROVE f[k + 1] = w[k + 1]
        OBVIOUS
      <3>1. f[k] = w[k] /\ k + 1 \in 1 .. top /\ k + 1 \in 0 .. top /\ (k + 1) - 1 = k
        BY <2>2
      <3> QED
        BY <1>1, <1>4, <3>1 DEF ArePowers
    <2> HIDE DEF T
    <2>3. Nat \subseteq T
      BY <2>1, <2>2, SetInduction
    <2> QED
      BY <2>3 DEF T
  <1>7. f = w
    <2>1. f = [k \in 0 .. top |-> f[k]]
      BY <1>3, <1>5, Zenon DEF Step
    <2> QED
      BY <1>1, <1>5, <1>6, <2>1 DEF ArePowers
  <1> QED
    BY <1>1, <1>7

(* They grow.                                                              *)
LEMMA PowersGrow ==
  ASSUME NEW top \in Nat, NEW f, ArePowers(f, top),
         NEW x \in 0 .. top, NEW y \in 0 .. top, x < y
  PROVE  f[x] < f[y]
  <1> DEFINE T == {k \in Nat : x + 1 + k <= top => f[x] < f[x + 1 + k]}
  <1>1. 0 \in T
    <2>1. x + 1 \in 1 .. top /\ (x + 1) - 1 = x /\ x + 1 + 0 = x + 1
      OBVIOUS
    <2>2. f[x + 1] = 2 * f[x] /\ f[x] \in Nat \ {0}
      BY <2>1 DEF ArePowers
    <2> QED
      BY <2>1, <2>2
  <1>2. ASSUME NEW k \in Nat, k \in T PROVE k + 1 \in T
    <2> SUFFICES ASSUME x + 1 + (k + 1) <= top PROVE f[x] < f[x + 1 + (k + 1)]
      OBVIOUS
    <2>1. PICK m \in Nat : m = x + 1 + k
      OBVIOUS
    <2>2. /\ m + 1 \in 1 .. top /\ (m + 1) - 1 = m /\ m \in 0 .. top
          /\ x + 1 + (k + 1) = m + 1
      BY <2>1
    <2>3. f[m + 1] = 2 * f[m] /\ f[m] \in Nat \ {0} /\ f[x] \in Nat
      BY <2>2 DEF ArePowers
    <2>4. f[x] < f[m]
      BY <1>2, <2>1, <2>2
    <2> QED
      BY <2>2, <2>3, <2>4
  <1> HIDE DEF T
  <1>3. Nat \subseteq T
    BY <1>1, <1>2, SetInduction
  <1>4. PICK k \in Nat : k = y - x - 1
    OBVIOUS
  <1>5. x + 1 + k = y /\ x + 1 + k <= top
    BY <1>4
  <1> QED
    BY <1>3, <1>5 DEF T

(* The product of two of them is one, so the smaller divides the larger.   *)
LEMMA PowersMultiply ==
  ASSUME NEW top \in Nat, NEW f, ArePowers(f, top),
         NEW x \in Nat, NEW y \in Nat, x + y <= top
  PROVE  f[x + y] = f[x] * f[y] /\ f[x] \in Nat \ {0} /\ f[y] \in Nat \ {0}
  <1>1. x \in 0 .. top /\ y \in 0 .. top
    OBVIOUS
  <1>2. f[x] \in Nat \ {0} /\ f[y] \in Nat \ {0} /\ f[0] = 1
    BY <1>1 DEF ArePowers
  <1> DEFINE T == {k \in Nat : x + k <= top => f[x + k] = f[x] * f[k]}
  <1>3. 0 \in T
    BY <1>2
  <1>4. ASSUME NEW k \in Nat, k \in T PROVE k + 1 \in T
    <2> SUFFICES ASSUME x + (k + 1) <= top PROVE f[x + (k + 1)] = f[x] * f[k + 1]
      OBVIOUS
    <2>1. PICK m \in Nat : m = x + k
      OBVIOUS
    <2>2. /\ m + 1 \in 1 .. top /\ (m + 1) - 1 = m /\ x + (k + 1) = m + 1
          /\ k + 1 \in 1 .. top /\ (k + 1) - 1 = k /\ k \in 0 .. top
      BY <2>1
    <2>3. f[m] = f[x] * f[k]
      BY <1>4, <2>1, <2>2
    <2>4. f[m + 1] = 2 * f[m] /\ f[k + 1] = 2 * f[k] /\ f[k] \in Nat
      BY <2>2 DEF ArePowers
    <2>5. 2 * (f[x] * f[k]) = f[x] * (2 * f[k])
      BY <1>2, <2>4
    <2> QED
      BY <2>2, <2>3, <2>4, <2>5
  <1> HIDE DEF T
  <1>5. Nat \subseteq T
    BY <1>3, <1>4, SetInduction
  <1> QED
    BY <1>2, <1>5 DEF T

-----------------------------------------------------------------------------
(* The integers of the harness.                                            *)

LEMMA ShiftedPowers == ArePowers(Shifted, WIDTH)
  <1>1. WIDTH \in Nat
    BY HarnessAssumption
  <1>2. Shifted = CHOOSE s : s = [k \in 0 .. WIDTH |-> IF k = 0 THEN 1 ELSE 2 * s[k - 1]]
    BY DEF Shifted
  <1> QED
    BY <1>1, <1>2, PowersDefined, Zenon

(* The range is one power of two on each side of zero, and holds 1 << 16.  *)
LEMMA IntegerRange ==
  /\ Shifted[WIDTH - 1] \in Nat \ {0}
  /\ Shifted[WIDTH] = 2 * Shifted[WIDTH - 1]
  /\ Shifted[Q16_SHIFT] \in Nat \ {0} /\ Shifted[Q16_SHIFT] < Shifted[WIDTH - 1]
  /\ Shifted[Q16_SHIFT - 1] \in Nat \ {0} /\ Shifted[Q16_SHIFT - 1] < Shifted[WIDTH - 1]
  <1>1. /\ WIDTH \in Nat /\ WIDTH - 1 \in 0 .. WIDTH /\ WIDTH \in 1 .. WIDTH
        /\ Q16_SHIFT \in 0 .. WIDTH /\ Q16_SHIFT < WIDTH - 1
        /\ Q16_SHIFT - 1 \in 0 .. WIDTH /\ Q16_SHIFT - 1 < WIDTH - 1
    BY HarnessAssumption
  <1>2. /\ Shifted \in [0 .. WIDTH -> Nat \ {0}]
        /\ \A k \in 1 .. WIDTH : Shifted[k] = 2 * Shifted[k - 1]
    BY ShiftedPowers DEF ArePowers
  <1>3. \A x, y \in 0 .. WIDTH : x < y => Shifted[x] < Shifted[y]
    BY <1>1, ShiftedPowers, PowersGrow
  <1> QED
    BY <1>1, <1>2, <1>3

LEMMA RangeInt == Q16_MAX \in Int /\ Q16_MIN \in Int /\ Int32 \subseteq Int /\ 0 \in Int32
  BY IntegerRange DEF Q16_MAX, Q16_MIN, Int32

(* A number that fits is not changed by the cast.                          *)
LEMMA CastKeeps ==
  ASSUME NEW x \in Int32
  PROVE  Narrow(x) = x
  <1>1. PICK h \in Nat \ {0} : h = Shifted[WIDTH - 1]
    BY IntegerRange
  <1>2. Shifted[WIDTH] = 2 * h /\ Q16_MIN = -h /\ Q16_MAX = h - 1
    BY <1>1, IntegerRange DEF Q16_MIN, Q16_MAX
  <1>3. x \in Int /\ -h <= x /\ x <= h - 1
    BY <1>2 DEF Int32
  <1>4. (x + h) % (2 * h) = x + h
    <2>1. x + h \in Nat /\ x + h < 2 * h /\ 2 * h \in Nat \ {0}
      BY <1>3
    <2> QED
      BY <2>1
  <1>5. x - (-h) = x + h /\ (x + h) + (-h) = x
    BY <1>3
  <1> QED
    BY <1>2, <1>4, <1>5 DEF Narrow

LEMMA SaturatedIs ==
  ASSUME NEW x \in Int
  PROVE  Saturated(x) = IF x > Q16_MAX THEN Q16_MAX ELSE IF x < Q16_MIN THEN Q16_MIN ELSE x
  <1>1. x <= Q16_MAX /\ x >= Q16_MIN => x \in Int32
    BY RangeInt DEF Int32
  <1> QED
    BY <1>1, CastKeeps, RangeInt DEF Saturated

(* Saturation stays in the range, keeps the order and does not change the  *)
(* side of zero a number is on.                                            *)
LEMMA SaturatedOrder ==
  ASSUME NEW x \in Int, NEW y \in Int, x <= y
  PROVE  Saturated(x) \in Int32 /\ Saturated(x) <= Saturated(y)
  <1>1. PICK h \in Nat \ {0} : Q16_MAX = h - 1 /\ Q16_MIN = -h
    BY IntegerRange DEF Q16_MAX, Q16_MIN
  <1>2. /\ Saturated(x) = IF x > h - 1 THEN h - 1 ELSE IF x < -h THEN -h ELSE x
        /\ Saturated(y) = IF y > h - 1 THEN h - 1 ELSE IF y < -h THEN -h ELSE y
    BY <1>1, SaturatedIs
  <1> QED
    BY <1>1, <1>2 DEF Int32

LEMMA SaturatedZero == Saturated(0) = 0
  BY SaturatedIs, RangeInt DEF Int32

(* The shift to the right rounds down, so it keeps the order.              *)
LEMMA QuotientOrder ==
  ASSUME NEW x \in Int, NEW y \in Int, x <= y, NEW d \in Nat \ {0}
  PROVE  x \div d \in Int /\ x \div d <= y \div d
  OBVIOUS

LEMMA ProductOrder ==
  ASSUME NEW x \in Int, NEW y \in Int, x <= y, NEW z \in Nat
  PROVE  x * z <= y * z /\ x * z \in Int /\ y * z \in Int
  OBVIOUS

-----------------------------------------------------------------------------
(* The inductive invariant of the two programs.                            *)

(* The results are those of the operands.                                  *)
Tried ==
  /\ a \in Int32 /\ b \in Int32
  /\ mul_res = q16_mul_sat(a, b) /\ add_res = q16_add_sat(a, b)

(* The pairs of corners and the frames that are left; no stage ends in the *)
(* middle of a frame.                                                      *)
Stages ==
  /\ build \in {"cbmc", "native"}
  /\ stage \in {"q16", "counts", "isolation", "fuzz", "done"}
  /\ todo \in Nat
  /\ stage = "q16" => corner \in 0 .. 120 /\ ~evaluating
  /\ stage = "counts" => todo <= MAX_COUNT + 1
  /\ evaluating => todo > 0

(* The flag is set once a node it is for has been passed, and not before.  *)
FlagSeen ==
  flags = IF \E k \in marked : k < n THEN {"ANOMALY_DETECTED"} ELSE {}

LoopAt ==
  /\ node_count \in Nat /\ marked \subseteq Nodes
  /\ evaluating =>
       /\ node_count <= MAX_NODES
       /\ n \in 0 .. node_count /\ iterations = n
       /\ FlagSeen /\ status = "SUCCESS"
       /\ stage = "isolation" => node_count = 4 /\ marked = {2}

(* What the assertions of both programs say together: none has failed.     *)
NoneFailed == ~failed

HarnessInv == Tried /\ Stages /\ LoopAt /\ NoneFailed

-----------------------------------------------------------------------------
(* The operators.                                                          *)

LEMMA MulIs ==
  ASSUME NEW x \in Int, NEW y \in Int
  PROVE  q16_mul_sat(x, y) \in Int32
  <1>1. (x * y) \div Shifted[Q16_SHIFT] \in Int
    BY IntegerRange
  <1> QED
    BY <1>1, SaturatedOrder DEF q16_mul_sat

LEMMA AddIs ==
  ASSUME NEW x \in Int, NEW y \in Int
  PROVE  q16_add_sat(x, y) \in Int32
  <1>1. x + y \in Int
    OBVIOUS
  <1> QED
    BY <1>1, SaturatedOrder DEF q16_add_sat

LEMMA MulMonotone ==
  ASSUME NEW x \in Int, NEW z \in Int, x <= z, NEW y \in Nat
  PROVE  q16_mul_sat(x, y) <= q16_mul_sat(z, y)
  <1>1. PICK d \in Nat \ {0} : d = Shifted[Q16_SHIFT]
    BY IntegerRange
  <1>2. x * y <= z * y /\ x * y \in Int /\ z * y \in Int
    BY ProductOrder
  <1>3. /\ (x * y) \div d \in Int /\ (z * y) \div d \in Int
        /\ (x * y) \div d <= (z * y) \div d
    BY <1>2, QuotientOrder
  <1>4. Saturated((x * y) \div d) <= Saturated((z * y) \div d)
    BY <1>3, SaturatedOrder
  <1> QED
    BY <1>1, <1>4 DEF q16_mul_sat

LEMMA AddMonotone ==
  ASSUME NEW x \in Int, NEW z \in Int, x <= z, NEW y \in Int
  PROVE  q16_add_sat(x, y) <= q16_add_sat(z, y)
  <1>1. x + y \in Int /\ z + y \in Int /\ x + y <= z + y
    OBVIOUS
  <1> QED
    BY <1>1, SaturatedOrder DEF q16_add_sat

LEMMA ZeroResults == q16_mul_sat(0, 0) = 0 /\ q16_add_sat(0, 0) = 0
  <1>1. (0 * 0) \div Shifted[Q16_SHIFT] = 0
    <2>1. PICK d \in Nat \ {0} : d = Shifted[Q16_SHIFT]
      BY IntegerRange
    <2>2. 0 \div d = 0
      OBVIOUS
    <2> QED
      BY <2>1, <2>2
  <1> QED
    BY <1>1, SaturatedZero DEF q16_mul_sat, q16_add_sat

(* What is asserted of a pair (verify_harness.c:89-99) holds of all.       *)
LEMMA PairHolds ==
  ASSUME NEW x \in Int, NEW y \in Int
  PROVE  Q16Holds(x, y, q16_mul_sat(x, y), q16_add_sat(x, y))
  <1>1. q16_mul_sat(x, y) \in Int32 /\ q16_add_sat(x, y) \in Int32
    BY MulIs, AddIs
  <1>2. ASSUME x > 0, y > 0 PROVE q16_mul_sat(x, y) >= 0
    <2>1. q16_mul_sat(0, y) <= q16_mul_sat(x, y)
      BY <1>2, MulMonotone
    <2>2. q16_mul_sat(0, y) = 0
      <3>1. 0 * y = 0 * 0
        OBVIOUS
      <3> QED
        BY <3>1, ZeroResults DEF q16_mul_sat
    <2> QED
      BY <1>1, <2>1, <2>2, RangeInt
  <1> QED
    BY <1>1, <1>2 DEF Q16Holds

LEMMA CornersFit ==
  /\ Len(Corners) = 11
  /\ \A k \in 1 .. 11 : Corners[k] \in Int32
  <1>1. PICK h \in Nat \ {0} : h = Shifted[WIDTH - 1]
    BY IntegerRange
  <1>2. PICK s \in Nat \ {0}, t \in Nat \ {0} :
          s = Shifted[Q16_SHIFT] /\ t = Shifted[Q16_SHIFT - 1]
    BY IntegerRange
  <1>3. s < h /\ t < h
    BY <1>1, <1>2, IntegerRange
  <1>4. Int32 = (-h) .. (h - 1) /\ Q16_MAX = h - 1 /\ Q16_MIN = -h
    BY <1>1 DEF Int32, Q16_MIN, Q16_MAX
  <1>5. Corners = <<0, 1, -1, h - 1, -h, h - 1 - 1, -h + 1, s, -s, t, -t>>
    BY <1>2, <1>4 DEF Corners
  <1>6. /\ 0 \in Int32 /\ 1 \in Int32 /\ -1 \in Int32 /\ h - 1 \in Int32 /\ -h \in Int32
        /\ h - 1 - 1 \in Int32 /\ -h + 1 \in Int32
        /\ s \in Int32 /\ -s \in Int32 /\ t \in Int32 /\ -t \in Int32
    BY <1>3, <1>4
  <1>7. Corners \in Seq(Int32) /\ Len(Corners) = 11
    BY <1>5, <1>6
  <1> QED
    BY <1>7

-----------------------------------------------------------------------------
(* Initially, and one step.                                                *)

LEMMA InvAtStart == HarnessInit => HarnessInv
  <1> SUFFICES ASSUME HarnessInit PROVE HarnessInv
    OBVIOUS
  <1>1. Tried
    BY ZeroResults, RangeInt DEF HarnessInit, Tried
  <1>2. Stages
    <2>1. ~evaluating
      BY DEF HarnessInit
    <2>2. build \in {"cbmc", "native"} /\ stage = "q16" /\ todo \in Nat /\ corner \in 0 .. 120
      BY DEF HarnessInit
    <2> QED
      BY <2>1, <2>2, Zenon DEF Stages
  <1>3. LoopAt
    BY DEF HarnessInit, LoopAt
  <1> QED
    BY <1>1, <1>2, <1>3 DEF HarnessInit, HarnessInv, NoneFailed

LEMMA TryKeeps ==
  ASSUME NEW x \in Int32, NEW y \in Int32, NoneFailed, Try(x, y)
  PROVE  Tried' /\ NoneFailed'
  <1>1. a' = x /\ b' = y /\ mul_res' = q16_mul_sat(x, y) /\ add_res' = q16_add_sat(x, y)
    BY DEF Try
  <1>2. Q16Holds(x, y, mul_res', add_res')
    BY <1>1, PairHolds, RangeInt
  <1>3. NoneFailed'
    BY <1>2, Zenon DEF Try, NoneFailed
  <1>4. Tried'
    BY <1>1 DEF Tried, q16_mul_sat, q16_add_sat, Saturated, Narrow, Int32, Q16_MAX, Q16_MIN
  <1> QED
    BY <1>3, <1>4

(* The status written is the one asserted: the isolation test, which wants *)
(* success, is one of four nodes.                                          *)
LEMMA StatusAsserted ==
  ASSUME NEW count \in Nat, stage = "isolation" => count = 4
  PROVE  StatusHolds(count, StatusFor(count))
  <1>1. stage = "isolation" => ~(count > MAX_NODES)
    BY HarnessAssumption
  <1> QED
    BY <1>1, Zenon DEF StatusHolds, StatusFor

LEMMA EvaluateKeeps ==
  ASSUME HarnessInv, stage # "q16", NEW count \in Nat, NEW marks \in SUBSET Nodes,
         stage = "isolation" => count = 4 /\ marks = {2},
         Evaluate(count, marks)
  PROVE  HarnessInv'
  <1>0. Stages /\ LoopAt /\ NoneFailed
    BY DEF HarnessInv
  <1>1. /\ todo > 0 /\ node_count' = count /\ marked' = marks
        /\ n' = 0 /\ iterations' = 0 /\ flags' = {}
        /\ evaluating' = (count <= MAX_NODES) /\ status' = StatusFor(count)
        /\ todo' = IF count > MAX_NODES THEN todo - 1 ELSE todo
        /\ a' = 0 /\ b' = 0 /\ mul_res' = 0 /\ add_res' = 0
        /\ build' = build /\ stage' = stage
    BY DEF Evaluate
  <1>2. Tried'
    <2>1. 0 \in Int32 /\ 0 = q16_mul_sat(0, 0) /\ 0 = q16_add_sat(0, 0)
      BY ZeroResults, RangeInt
    <2> QED
      BY <1>1, <2>1 DEF Tried, q16_mul_sat, q16_add_sat, Saturated, Narrow, Int32, Q16_MAX, Q16_MIN
  <1>3. Stages'
    <2>1. MAX_NODES \in Nat /\ MAX_COUNT \in Nat
      BY HarnessAssumption
    <2>2. todo \in Nat /\ (stage = "counts" => todo <= MAX_COUNT + 1)
      BY <1>0 DEF Stages
    <2>3. /\ todo' \in Nat /\ todo' <= todo
          /\ count <= MAX_NODES => todo' > 0
      BY <1>1, <2>1, <2>2
    <2>4. stage = "counts" => todo' <= MAX_COUNT + 1
      BY <2>1, <2>2, <2>3
    <2>5. evaluating' => todo' > 0
      <3> SUFFICES ASSUME evaluating' PROVE todo' > 0
        OBVIOUS
      <3>1. count <= MAX_NODES
        BY <1>1, Zenon
      <3> QED
        BY <2>3, <3>1
    <2>6. /\ build' \in {"cbmc", "native"} /\ stage' # "q16"
          /\ stage' \in {"q16", "counts", "isolation", "fuzz", "done"}
      BY <1>0, <1>1, Zenon DEF Stages
    <2>7. stage' = "counts" => todo' <= MAX_COUNT + 1
      BY <1>1, <2>4
    <2> QED
      BY <2>3, <2>5, <2>6, <2>7, Zenon DEF Stages
  <1>4. LoopAt'
    <2>1. FlagSeen'
      <3>1. ~ \E k \in marked' : k < n'
        BY <1>1 DEF Nodes
      <3> QED
        BY <1>1, <3>1 DEF FlagSeen
    <2>2. n' \in 0 .. node_count' /\ iterations' = n' /\ node_count' \in Nat
      BY <1>1
    <2>3. evaluating' => node_count' <= MAX_NODES /\ status' = "SUCCESS"
      <3> SUFFICES ASSUME evaluating' PROVE node_count' <= MAX_NODES /\ status' = "SUCCESS"
        OBVIOUS
      <3>1. count <= MAX_NODES
        BY <1>1, Zenon
      <3>2. ~(count > MAX_NODES)
        BY <3>1, HarnessAssumption
      <3> QED
        BY <1>1, <3>1, <3>2, Zenon DEF StatusFor
    <2>4. stage' = "isolation" => node_count' = 4 /\ marked' = {2}
      BY <1>1
    <2>5. marked' \subseteq Nodes
      BY <1>1
    <2> QED
      BY <2>1, <2>2, <2>3, <2>4, <2>5, Zenon DEF LoopAt, Nodes
  <1>5. NoneFailed'
    <2>1. StatusHolds(count, StatusFor(count))
      BY StatusAsserted
    <2> QED
      BY <1>0, <2>1, Zenon DEF NoneFailed, Evaluate
  <1> QED
    BY <1>2, <1>3, <1>4, <1>5 DEF HarnessInv

LEMMA NodeKeeps ==
  ASSUME HarnessInv, Node
  PROVE  HarnessInv'
  <1>0. Tried /\ Stages /\ LoopAt /\ NoneFailed
    BY DEF HarnessInv
  <1>1. /\ evaluating /\ n < node_count
        /\ flags' = flags \cup (IF n \in marked THEN {"ANOMALY_DETECTED"} ELSE {})
        /\ iterations' = iterations + 1 /\ n' = n + 1
        /\ UNCHANGED <<build, stage, arith, todo, evaluating, node_count, marked, status>>
    BY DEF Node, More
  <1>2. Tried'
    BY <1>0, <1>1
       DEF Tried, arith, q16_mul_sat, q16_add_sat, Saturated, Narrow, Int32, Q16_MAX, Q16_MIN
  <1>3. Stages'
    BY <1>0, <1>1, Zenon DEF Stages, arith
  <1>4. /\ node_count \in Nat /\ marked \subseteq Nodes /\ node_count <= MAX_NODES
        /\ n \in 0 .. node_count /\ iterations = n /\ FlagSeen /\ status = "SUCCESS"
        /\ stage = "isolation" => node_count = 4 /\ marked = {2}
    BY <1>0, <1>1, Zenon DEF LoopAt
  <1>5. FlagSeen'
    <2>1. \A k \in marked : k \in Int
      BY <1>4, HarnessAssumption DEF Nodes
    <2>2. (\E k \in marked : k < n + 1) <=> (n \in marked \/ \E k \in marked : k < n)
      BY <1>4, <2>1
    <2> QED
      BY <1>1, <1>4, <2>2 DEF FlagSeen
  <1>6. n' \in 0 .. node_count /\ iterations' = n'
    BY <1>1, <1>4
  <1>7. LoopAt'
    BY <1>1, <1>4, <1>5, <1>6, Zenon DEF LoopAt, Nodes
  <1>8. NoneFailed'
    <2>1. n < MAX_NODES /\ n < node_count
      BY <1>1, <1>4, HarnessAssumption
    <2>2. cpy_len <= FEATURE_BUF /\ cpy_len <= NODE_BYTES
      BY HarnessAssumption DEF cpy_len
    <2>3. NodeHolds
      BY <2>1, <2>2 DEF NodeHolds
    <2> QED
      BY <1>0, <2>3, Zenon DEF NoneFailed, Node
  <1> QED
    BY <1>2, <1>3, <1>7, <1>8 DEF HarnessInv

(* Behind the loop every assertion holds.                                  *)
LEMMA EndHolds ==
  ASSUME HarnessInv, evaluating, ~More
  PROVE  LoopHolds
  <1>1. /\ node_count \in Nat /\ marked \subseteq Nodes /\ node_count <= MAX_NODES
        /\ n \in 0 .. node_count /\ iterations = n /\ FlagSeen /\ status = "SUCCESS"
        /\ stage = "isolation" => node_count = 4 /\ marked = {2}
    BY Zenon DEF HarnessInv, LoopAt
  <1>2. n = node_count /\ MAX_NODES \in Nat
    BY <1>1, HarnessAssumption DEF More
  <1>3. flags \cap AuthorityFlags = {}
    BY <1>1 DEF FlagSeen, AuthorityFlags
  <1>4. (\E k \in marked : k < iterations) => flags = {"ANOMALY_DETECTED"}
    BY <1>1 DEF FlagSeen
  <1>5. stage = "isolation" => flags = {"ANOMALY_DETECTED"}
    <2> SUFFICES ASSUME stage = "isolation" PROVE flags = {"ANOMALY_DETECTED"}
      OBVIOUS
    <2>1. 2 \in marked /\ 2 < iterations
      BY <1>1, <1>2
    <2> QED
      BY <1>4, <2>1
  <1>6. StatusHolds(node_count, status)
    <2>1. ~(node_count > MAX_NODES)
      BY <1>1, <1>2
    <2> QED
      BY <1>1, <2>1, Zenon DEF StatusHolds
  <1>7. (build = "cbmc" /\ \E k \in marked : k < iterations) => "ANOMALY_DETECTED" \in flags
    BY <1>4, Zenon
  <1>8. iterations = node_count /\ iterations <= MAX_NODES
    BY <1>1, <1>2
  <1> QED
    BY <1>3, <1>5, <1>6, <1>7, <1>8, Zenon DEF LoopHolds

LEMMA NextHarness == HarnessInv /\ [HarnessNext]_harnessVars => HarnessInv'
  <1> SUFFICES ASSUME HarnessInv, [HarnessNext]_harnessVars PROVE HarnessInv'
    OBVIOUS
  <1>0. Tried /\ Stages /\ LoopAt /\ NoneFailed
    BY DEF HarnessInv
  <1> USE DEF HarnessInv
  <1>1. CASE AnyPair
    <2>1. PICK x \in Int32, y \in Int32 : Try(x, y)
      BY <1>1 DEF AnyPair
    <2>2. Tried' /\ NoneFailed'
      BY <1>0, <2>1, TryKeeps
    <2>3. stage = "q16" /\ stage' = "fuzz" /\ todo' = 1 /\ UNCHANGED <<build, evaluating, frame>>
      BY <1>1, <2>1 DEF AnyPair, Try
    <2>4. ~evaluating
      BY <1>0, <2>3, Zenon DEF Stages
    <2>5. LoopAt'
      BY <1>0, <2>3, <2>4 DEF LoopAt, frame
    <2>6. Stages'
      <3>1. todo' \in Nat
        BY <2>3
      <3> QED
        BY <1>0, <2>3, <2>4, <3>1, Zenon DEF Stages
    <2> QED
      BY <2>2, <2>5, <2>6
  <1>2. CASE CornerPair
    <2>1. stage = "q16" /\ ~evaluating
      BY <1>0, <1>2, Zenon DEF Stages, CornerPair
    <2>2. corner \in 0 .. 120
      BY <1>0, <2>1, Zenon DEF Stages
    <2>3. Len(Corners) = 11
      BY CornersFit
    <2>4. /\ Try(Corners[(corner \div 11) + 1], Corners[(corner % 11) + 1])
          /\ corner' = corner + 1
          /\ IF corner' < 11 * 11 THEN UNCHANGED <<stage, todo>>
             ELSE stage' = "counts" /\ todo' = MAX_COUNT + 1
      BY <1>2, <2>3 DEF CornerPair
    <2>5. (corner \div 11) + 1 \in 1 .. 11 /\ (corner % 11) + 1 \in 1 .. 11
      BY <2>2
    <2>6. PICK x \in Int32, y \in Int32 : Try(x, y)
      BY <2>4, <2>5, CornersFit
    <2>7. Tried' /\ NoneFailed'
      BY <1>0, <2>6, TryKeeps
    <2>8. UNCHANGED <<build, evaluating, frame>>
      BY <2>6 DEF Try
    <2>9. LoopAt'
      BY <1>0, <2>1, <2>8, Zenon DEF LoopAt, frame, Nodes
    <2>10. Stages'
      <3>1. CASE corner' < 11 * 11
        <4>1. corner' \in 0 .. 120
          BY <2>2, <2>4, <3>1
        <4> QED
          BY <1>0, <2>1, <2>4, <2>8, <3>1, <4>1, Zenon DEF Stages
      <3>2. CASE ~(corner' < 11 * 11)
        <4>1. stage' = "counts" /\ todo' = MAX_COUNT + 1
          BY <2>4, <3>2
        <4>2. todo' \in Nat /\ todo' <= MAX_COUNT + 1
          BY <4>1, HarnessAssumption
        <4> QED
          BY <1>0, <2>1, <2>8, <4>1, <4>2, Zenon DEF Stages
      <3> QED
        BY <3>1, <3>2
    <2> QED
      BY <2>7, <2>9, <2>10
  <1>3. CASE CountFrame
    <2>1. stage = "counts" /\ Evaluate(MAX_COUNT + 1 - todo, {})
      BY <1>3 DEF CountFrame
    <2>2. MAX_COUNT + 1 - todo \in Nat
      <3>1. todo \in Nat /\ todo <= MAX_COUNT + 1
        BY <1>0, <2>1 DEF Stages
      <3> QED
        BY <3>1, HarnessAssumption
    <2> QED
      BY <2>1, <2>2, EvaluateKeeps
  <1>4. CASE IsolationFrame
    <2>1. stage = "isolation" /\ Evaluate(4, {2})
      BY <1>4 DEF IsolationFrame
    <2>2. {2} \in SUBSET Nodes
      BY HarnessAssumption DEF Nodes
    <2> QED
      BY <2>1, <2>2, EvaluateKeeps
  <1>5. CASE AnyFrame
    <2>1. stage = "fuzz"
      BY <1>5 DEF AnyFrame
    <2>2. PICK count \in 0 .. (IF build = "cbmc" THEN BYTE_MAX ELSE MAX_COUNT - 1),
               marks \in SUBSET Nodes : Evaluate(count, marks)
      BY <1>5 DEF AnyFrame
    <2>3. count \in Nat
      BY <2>2, HarnessAssumption
    <2> QED
      BY <2>1, <2>2, <2>3, EvaluateKeeps
  <1>6. CASE Node
    BY <1>6, NodeKeeps
  <1>7. CASE EndFrame
    <2>1. /\ evaluating /\ ~More /\ failed' = (failed \/ ~LoopHolds)
          /\ evaluating' = FALSE /\ todo' = todo - 1
          /\ UNCHANGED <<build, stage, arith, frame>>
      BY <1>7 DEF EndFrame
    <2>2. NoneFailed'
      BY <1>0, <2>1, EndHolds, Zenon DEF NoneFailed
    <2>3. Tried'
      BY <1>0, <2>1
         DEF Tried, arith, q16_mul_sat, q16_add_sat, Saturated, Narrow, Int32, Q16_MAX, Q16_MIN
    <2>4. LoopAt'
      BY <1>0, <2>1, Zenon DEF LoopAt, frame, Nodes
    <2>5. Stages'
      <3>1. todo \in Nat /\ todo > 0 /\ (stage = "counts" => todo <= MAX_COUNT + 1)
        BY <1>0, <2>1, Zenon DEF Stages
      <3>2. todo' \in Nat /\ (stage = "counts" => todo' <= MAX_COUNT + 1)
        BY <2>1, <3>1, HarnessAssumption
      <3> QED
        BY <1>0, <2>1, <3>2, Zenon DEF Stages, arith
    <2> QED
      BY <2>2, <2>3, <2>4, <2>5
  <1>8. CASE NextStage
    <2>1. /\ stage \in {"counts", "isolation", "fuzz"} /\ todo = 0
          /\ stage' \in {"isolation", "fuzz", "done"}
          /\ todo' \in {0, 1, FUZZ}
          /\ UNCHANGED <<build, arith, evaluating, frame, failed>>
      BY <1>8 DEF NextStage
    <2>2. ~evaluating
      <3>1. ~(todo > 0)
        BY <2>1
      <3> QED
        BY <1>0, <3>1, Zenon DEF Stages
    <2>3. NoneFailed'
      BY <1>0, <2>1, Zenon DEF NoneFailed
    <2>4. Tried'
      BY <1>0, <2>1
         DEF Tried, arith, q16_mul_sat, q16_add_sat, Saturated, Narrow, Int32, Q16_MAX, Q16_MIN
    <2>5. LoopAt'
      BY <1>0, <2>1, <2>2, Zenon DEF LoopAt, frame, Nodes
    <2>6. Stages'
      <3>1. todo' \in Nat
        BY <2>1, HarnessAssumption
      <3>2. stage' # "q16" /\ stage' # "counts"
        BY <2>1
      <3>3. stage' \in {"q16", "counts", "isolation", "fuzz", "done"}
        BY <2>1
      <3> QED
        BY <1>0, <2>1, <2>2, <3>1, <3>2, <3>3, Zenon DEF Stages
    <2> QED
      BY <2>3, <2>4, <2>5, <2>6
  <1>9. CASE UNCHANGED harnessVars
    <2>1. UNCHANGED <<build, stage, arith, todo, evaluating, frame, failed>>
      BY <1>9 DEF harnessVars
    <2>2. Tried'
      BY <1>0, <2>1
         DEF Tried, arith, q16_mul_sat, q16_add_sat, Saturated, Narrow, Int32, Q16_MAX, Q16_MIN
    <2>3. Stages' /\ LoopAt' /\ NoneFailed'
      BY <1>0, <2>1, Zenon DEF Stages, LoopAt, NoneFailed, frame, arith, Nodes, FlagSeen
    <2> QED
      BY <2>2, <2>3
  <1> QED
    BY <1>1, <1>2, <1>3, <1>4, <1>5, <1>6, <1>7, <1>8, <1>9 DEF HarnessNext

-----------------------------------------------------------------------------

LEMMA HarnessInvariance == HarnessSpec => []HarnessInv
  BY InvAtStart, NextHarness, PTL DEF HarnessSpec

(* Both saturating operators keep the order of their first argument        *)
(* (verify_harness.c:31-43), for every width and every shift.              *)
THEOREM SaturationOrdered == HarnessSpec => []Ordered
  <1>1. HarnessInv => Ordered
    <2> SUFFICES ASSUME HarnessInv, NEW c \in Int32, a <= c
                 PROVE  /\ add_res <= q16_add_sat(c, b)
                        /\ b >= 0 => mul_res <= q16_mul_sat(c, b)
      BY DEF Ordered
    <2>1. a \in Int /\ b \in Int /\ c \in Int
      BY RangeInt DEF HarnessInv, Tried
    <2>2. mul_res = q16_mul_sat(a, b) /\ add_res = q16_add_sat(a, b)
      BY DEF HarnessInv, Tried
    <2>3. q16_add_sat(a, b) <= q16_add_sat(c, b)
      BY <2>1, AddMonotone
    <2>4. b >= 0 => q16_mul_sat(a, b) <= q16_mul_sat(c, b)
      BY <2>1, MulMonotone
    <2> QED
      BY <2>2, <2>3, <2>4
  <1> QED
    BY <1>1, HarnessInvariance, PTL

(* No assertion of either program fails on the results, the index, the     *)
(* copy, the iterations, the flags or the status (verify_harness.c:89-99,  *)
(* 126-168, 185-193, 212-232, 254-274): the safety half of Passes.         *)
THEOREM AssertionsHold == HarnessSpec => []NoneFailed
  <1>1. HarnessInv => NoneFailed
    BY DEF HarnessInv
  <1> QED
    BY <1>1, HarnessInvariance, PTL

-----------------------------------------------------------------------------
(* The untyped program.                                                    *)

LEMMA BitPowers == ArePowers(BIT, WORD_BITS)
  <1>1. WORD_BITS \in Nat
    BY ObjectsAssumption
  <1>2. BIT = CHOOSE s : s = [k \in 0 .. WORD_BITS |-> IF k = 0 THEN 1 ELSE 2 * s[k - 1]]
    BY DEF BIT
  <1> QED
    BY <1>1, <1>2, PowersDefined, Zenon

(* What the loop finds is within a word and holds the three objects.       *)
LEMMA SizeFound ==
  ASSUME NEW p \in Platforms
  PROVE  /\ p.tcb \in Nat /\ p.ep \in Nat /\ p.ntfn \in Nat /\ p.ep <= p.tcb
         /\ SizeBits(p) \in (p.tcb + 1) .. WORD_BITS
         /\ BIT[SizeBits(p)] >= BIT[p.tcb] + BIT[p.ep] + BIT[p.ntfn]
  <1>1. /\ p.tcb \in 0 .. WORD_BITS /\ p.ep \in 0 .. WORD_BITS /\ p.ntfn \in 0 .. WORD_BITS
        /\ WORD_BITS \in Nat /\ p.ep <= p.tcb /\ total_size(p) <= BIT[WORD_BITS]
    BY ObjectsAssumption DEF Platforms
  <1>2. \A k \in 0 .. WORD_BITS : BIT[k] \in Nat \ {0}
    BY BitPowers DEF ArePowers
  <1>3. total_size(p) = BIT[p.tcb] + BIT[p.ep] + BIT[p.ntfn] /\ total_size(p) \in Nat
    BY <1>1, <1>2 DEF total_size
  <1>4. p.tcb < WORD_BITS
    <2> SUFFICES ASSUME p.tcb = WORD_BITS PROVE FALSE
      BY <1>1
    <2>1. /\ BIT[p.tcb] \in Nat \ {0} /\ BIT[p.ep] \in Nat \ {0} /\ BIT[p.ntfn] \in Nat \ {0}
          /\ BIT[p.tcb] + BIT[p.ep] + BIT[p.ntfn] <= BIT[p.tcb]
      BY <1>1, <1>2, <1>3
    <2> QED
      BY <2>1
  <1> DEFINE Enough == {k \in (p.tcb + 1) .. WORD_BITS : BIT[k] >= total_size(p)}
  <1>5. Enough \in SUBSET Nat /\ Enough # {}
    <2>1. WORD_BITS \in Enough
      BY <1>1, <1>2, <1>3, <1>4
    <2> QED
      BY <1>1, <2>1
  <1>6. PICK m \in Enough : \A k \in Enough : m <= k
    BY <1>5, LeastElement
  <1>7. \A k \in (p.tcb + 1) .. (m - 1) : BIT[k] < total_size(p)
    <2> SUFFICES ASSUME NEW k \in (p.tcb + 1) .. (m - 1), ~(BIT[k] < total_size(p)) PROVE FALSE
      OBVIOUS
    <2>1. k \in (p.tcb + 1) .. WORD_BITS /\ k < m /\ BIT[k] \in Nat
      BY <1>1, <1>2, <1>6
    <2>2. k \in Enough
      BY <1>3, <2>1
    <2> QED
      BY <1>1, <1>6, <2>1, <2>2
  <1>8. m \in (p.tcb + 1) .. WORD_BITS /\ BIT[m] >= total_size(p)
    BY <1>6
  <1>9. /\ SizeBits(p) \in (p.tcb + 1) .. WORD_BITS
        /\ BIT[SizeBits(p)] >= total_size(p)
    BY <1>7, <1>8 DEF SizeBits
  <1> QED
    BY <1>1, <1>3, <1>9

(* Rounding up to a multiple of the size does not go past one.             *)
LEMMA AlignedBelow ==
  ASSUME NEW x \in Nat, NEW s \in Nat \ {0}, NEW q \in Nat, x <= s * q
  PROVE  /\ ((x + s - 1) \div s) * s \in Nat
         /\ ((x + s - 1) \div s) * s <= s * q
         /\ x <= ((x + s - 1) \div s) * s
  <1>1. PICK y \in Nat : y = x + s - 1
    OBVIOUS
  <1>2. PICK k \in Nat, r \in 0 .. (s - 1) : k = y \div s /\ y = s * k + r
    <2>1. y \div s \in Nat /\ y % s \in 0 .. (s - 1) /\ y = s * (y \div s) + (y % s)
      OBVIOUS
    <2> QED
      BY <2>1
  <1>3. k <= q
    <2> SUFFICES ASSUME q + 1 <= k PROVE FALSE
      OBVIOUS
    <2>1. (q + 1) * s <= k * s
      BY ProductOrder
    <2>2. (q + 1) * s = s * q + s /\ k * s = s * k /\ s * q \in Nat /\ s * k \in Nat
      OBVIOUS
    <2> QED
      BY <1>1, <1>2, <2>1, <2>2
  <1>4. k * s <= q * s
    BY <1>3, ProductOrder
  <1>5. k * s = s * k /\ q * s = s * q /\ s * k \in Nat /\ s * q \in Nat
    OBVIOUS
  <1>6. x <= s * k
    BY <1>1, <1>2, <1>5
  <1> QED
    BY <1>1, <1>2, <1>4, <1>5, <1>6

(* A retype that is legal gives the capabilities and moves the watermark.  *)
LEMMA RetypeLegal ==
  ASSUME NEW size \in 0 .. WORD_BITS, NEW slot, NEW count, NEW next, NEW start,
         Retype(size, slot, count, next),
         start = (IF used = {0} THEN 0
                  ELSE ((watermark + BIT[size] - 1) \div BIT[size]) * BIT[size]),
         count \in 1 .. FANOUT, slot + count <= SLOTS,
         (slot .. (slot + count - 1)) \cap used = {},
         start + count * BIT[size] <= BIT[SizeBits(bits)]
  PROVE  /\ pc' = next
         /\ used' = used \cup (slot .. (slot + count - 1))
         /\ watermark' = start + count * BIT[size]
         /\ bits' = bits /\ untypeds' = untypeds
  BY Zenon DEF Retype, childBits

(* The inductive invariant: which slots are taken and how far the child is *)
(* used when an object is made.                                            *)
UntypedInv ==
  /\ bits \in Platforms
  /\ pc \in {"child", "tcb", "priority", "ep", "identify", "ntfn", "bind", "revoke",
             "fill", "ended", "aborted"}
  /\ pc \in {"tcb", "fill"} => used = {0}
  /\ pc \in {"priority", "ep"} => used = {0, 1} /\ watermark = BIT[bits.tcb]
  /\ pc \in {"identify", "ntfn"} =>
       used = {0, 1, 2} /\ watermark = BIT[bits.tcb] + BIT[bits.ep]
  /\ pc = "bind" => used = {0, 1, 2, 3}
  /\ pc = "aborted" => ~HasParent
  /\ pc = "ended" => watermark = BIT[SizeBits(bits)]

LEMMA UntypedInit == RetypeInit => UntypedInv
  BY DEF RetypeInit, UntypedInv

(* The sizes, as numbers.                                                  *)
LEMMA SizesAt ==
  ASSUME bits \in Platforms
  PROVE  \E t, e, s, c \in Nat \ {0} :
           /\ t = BIT[bits.tcb] /\ e = BIT[bits.ep] /\ s = BIT[bits.ntfn]
           /\ c = BIT[SizeBits(bits)]
           /\ t + e + s <= c
           /\ \E q \in Nat : t = e * q
           /\ \E q \in Nat : c = s * q
           /\ c = e * BIT[SizeBits(bits) - bits.ep]
  <1>1. /\ bits.tcb \in Nat /\ bits.ep \in Nat /\ bits.ntfn \in Nat /\ bits.ep <= bits.tcb
        /\ SizeBits(bits) \in (bits.tcb + 1) .. WORD_BITS
        /\ BIT[SizeBits(bits)] >= BIT[bits.tcb] + BIT[bits.ep] + BIT[bits.ntfn]
    BY SizeFound
  <1>2. PICK k \in Nat : k = SizeBits(bits)
    BY <1>1
  <1>3. WORD_BITS \in Nat /\ bits.ntfn \in 0 .. WORD_BITS /\ k <= WORD_BITS
        /\ bits.tcb < k
    BY <1>1, <1>2, ObjectsAssumption DEF Platforms
  <1>4. \A x \in 0 .. WORD_BITS : BIT[x] \in Nat \ {0}
    BY BitPowers DEF ArePowers
  <1>5. bits.ntfn <= k
    <2> SUFFICES ASSUME k < bits.ntfn PROVE FALSE
      BY <1>1, <1>2
    <2>1. BIT[k] < BIT[bits.ntfn]
      BY <1>3, BitPowers, PowersGrow
    <2>2. /\ BIT[k] \in Nat /\ BIT[bits.tcb] \in Nat /\ BIT[bits.ep] \in Nat
          /\ BIT[bits.ntfn] \in Nat
      BY <1>1, <1>2, <1>3, <1>4
    <2> QED
      BY <1>1, <1>2, <2>1, <2>2
  <1>6. \A x, y \in Nat : x <= y /\ y <= WORD_BITS =>
          BIT[y] = BIT[x] * BIT[y - x] /\ BIT[x] \in Nat \ {0} /\ BIT[y - x] \in Nat \ {0}
    <2> SUFFICES ASSUME NEW x \in Nat, NEW y \in Nat, x <= y, y <= WORD_BITS
                 PROVE  BIT[y] = BIT[x] * BIT[y - x] /\ BIT[x] \in Nat \ {0} /\ BIT[y - x] \in Nat \ {0}
      OBVIOUS
    <2>1. PICK z \in Nat : z = y - x
      OBVIOUS
    <2>2. x + z = y
      BY <2>1
    <2>3. BIT[x + z] = BIT[x] * BIT[z] /\ BIT[x] \in Nat \ {0} /\ BIT[z] \in Nat \ {0}
      BY <1>3, <2>2, BitPowers, PowersMultiply
    <2> QED
      BY <2>1, <2>2, <2>3
  <1>7. BIT[bits.tcb] = BIT[bits.ep] * BIT[bits.tcb - bits.ep] /\ BIT[bits.tcb - bits.ep] \in Nat
    BY <1>1, <1>3, <1>6
  <1>8. BIT[k] = BIT[bits.ntfn] * BIT[k - bits.ntfn] /\ BIT[k - bits.ntfn] \in Nat
    BY <1>1, <1>3, <1>5, <1>6
  <1>9. BIT[k] = BIT[bits.ep] * BIT[k - bits.ep]
    <2>1. bits.ep <= k
      BY <1>1, <1>3
    <2> QED
      BY <1>1, <1>3, <1>6, <2>1
  <1>10. /\ BIT[bits.tcb] \in Nat \ {0} /\ BIT[bits.ep] \in Nat \ {0}
         /\ BIT[bits.ntfn] \in Nat \ {0} /\ BIT[k] \in Nat \ {0}
    <2>1. bits.tcb <= WORD_BITS /\ bits.ep <= WORD_BITS
      BY <1>1, <1>3
    <2> QED
      BY <1>1, <1>3, <1>4, <2>1
  <1> QED
    BY <1>1, <1>2, <1>7, <1>8, <1>9, <1>10

(* The endpoints that fill the child.                                      *)
LEMMA FillCount ==
  ASSUME bits \in Platforms
  PROVE  /\ BIT[SizeBits(bits) - bits.ep] \in Nat \ {0}
         /\ BIT[SizeBits(bits) - bits.ep] <= FANOUT
         /\ BIT[SizeBits(bits) - bits.ep] < SLOTS
  <1>1. /\ bits.tcb \in Nat /\ bits.ep \in Nat /\ bits.ep <= bits.tcb
        /\ SizeBits(bits) \in (bits.tcb + 1) .. WORD_BITS /\ WORD_BITS \in Nat
    BY SizeFound, ObjectsAssumption
  <1>2. SizeBits(bits) - bits.ep \in 0 .. WORD_BITS
    BY <1>1
  <1>3. BIT[SizeBits(bits) - bits.ep] \in Nat \ {0}
    BY <1>2, BitPowers DEF ArePowers
  <1> QED
    BY <1>3, ObjectsAssumption

LEMMA TcbKeeps ==
  ASSUME UntypedInv, MakeTcb
  PROVE  UntypedInv'
  <1>1. bits \in Platforms /\ pc = "tcb" /\ used = {0}
    BY DEF UntypedInv, MakeTcb
  <1>2. Retype(bits.tcb, 1, 1, "priority")
    BY DEF MakeTcb
  <1>3. PICK t, e, s, c \in Nat \ {0} :
          t = BIT[bits.tcb] /\ c = BIT[SizeBits(bits)] /\ t + e + s <= c
    BY <1>1, SizesAt
  <1>4. /\ bits.tcb \in 0 .. WORD_BITS /\ 1 \in 1 .. FANOUT /\ 1 + 1 <= SLOTS
        /\ (1 .. (1 + 1 - 1)) \cap used = {} /\ used \cup (1 .. (1 + 1 - 1)) = {0, 1}
    <2>1. BIT[SizeBits(bits) - bits.ep] <= FANOUT /\ BIT[SizeBits(bits) - bits.ep] \in Nat \ {0}
      BY <1>1, FillCount
    <2> QED
      BY <1>1, <2>1, ObjectsAssumption DEF Platforms
  <1>5. 0 + 1 * BIT[bits.tcb] <= BIT[SizeBits(bits)] /\ 0 + 1 * BIT[bits.tcb] = BIT[bits.tcb]
    BY <1>3
  <1>6. /\ pc' = "priority" /\ used' = used \cup (1 .. (1 + 1 - 1))
        /\ watermark' = 0 + 1 * BIT[bits.tcb] /\ bits' = bits
    BY <1>1, <1>2, <1>4, <1>5, RetypeLegal
  <1> QED
    BY <1>1, <1>4, <1>5, <1>6 DEF UntypedInv

LEMMA EndpointKeeps ==
  ASSUME UntypedInv, MakeEndpoint
  PROVE  UntypedInv'
  <1>1. bits \in Platforms /\ pc = "ep" /\ used = {0, 1} /\ watermark = BIT[bits.tcb]
    BY DEF UntypedInv, MakeEndpoint
  <1>2. Retype(bits.ep, 2, 1, "identify")
    BY DEF MakeEndpoint
  <1>3. PICK t, e, s, c \in Nat \ {0} :
          /\ t = BIT[bits.tcb] /\ e = BIT[bits.ep] /\ c = BIT[SizeBits(bits)]
          /\ t + e + s <= c /\ \E q \in Nat : t = e * q
    BY <1>1, SizesAt
  <1>4. /\ bits.ep \in 0 .. WORD_BITS /\ 1 \in 1 .. FANOUT /\ 2 + 1 <= SLOTS
        /\ (2 .. (2 + 1 - 1)) \cap used = {} /\ used \cup (2 .. (2 + 1 - 1)) = {0, 1, 2}
    <2>1. BIT[SizeBits(bits) - bits.ep] <= FANOUT /\ BIT[SizeBits(bits) - bits.ep] \in Nat \ {0}
      BY <1>1, FillCount
    <2> QED
      BY <1>1, <2>1, ObjectsAssumption DEF Platforms
  <1>5. ((t + e - 1) \div e) * e = t
    <2>1. PICK q \in Nat : t = e * q
      BY <1>3
    <2>2. ((t + e - 1) \div e) * e <= e * q /\ t <= ((t + e - 1) \div e) * e
          /\ ((t + e - 1) \div e) * e \in Nat
      BY <2>1, AlignedBelow
    <2> QED
      BY <2>1, <2>2
  <1>6. t = IF used = {0} THEN 0
            ELSE ((watermark + BIT[bits.ep] - 1) \div BIT[bits.ep]) * BIT[bits.ep]
    <2>1. used # {0}
      BY <1>1
    <2> QED
      BY <1>1, <1>3, <1>5, <2>1, Zenon
  <1>7. t + 1 * BIT[bits.ep] <= BIT[SizeBits(bits)] /\ t + 1 * BIT[bits.ep] = BIT[bits.tcb] + BIT[bits.ep]
    BY <1>3
  <1>8. /\ pc' = "identify" /\ used' = used \cup (2 .. (2 + 1 - 1))
        /\ watermark' = t + 1 * BIT[bits.ep] /\ bits' = bits
    BY <1>2, <1>4, <1>6, <1>7, RetypeLegal
  <1> QED
    BY <1>1, <1>4, <1>7, <1>8 DEF UntypedInv

LEMMA NotificationKeeps ==
  ASSUME UntypedInv, MakeNotification
  PROVE  UntypedInv'
  <1>1. /\ bits \in Platforms /\ pc = "ntfn" /\ used = {0, 1, 2}
        /\ watermark = BIT[bits.tcb] + BIT[bits.ep]
    BY DEF UntypedInv, MakeNotification
  <1>2. Retype(bits.ntfn, 3, 1, "bind")
    BY DEF MakeNotification
  <1>3. PICK t, e, s, c \in Nat \ {0} :
          /\ t = BIT[bits.tcb] /\ e = BIT[bits.ep] /\ s = BIT[bits.ntfn]
          /\ c = BIT[SizeBits(bits)]
          /\ t + e + s <= c /\ \E q \in Nat : c = s * q
    BY <1>1, SizesAt
  <1>4. /\ bits.ntfn \in 0 .. WORD_BITS /\ 1 \in 1 .. FANOUT /\ 3 + 1 <= SLOTS
        /\ (3 .. (3 + 1 - 1)) \cap used = {} /\ used \cup (3 .. (3 + 1 - 1)) = {0, 1, 2, 3}
    <2>1. BIT[SizeBits(bits) - bits.ep] <= FANOUT /\ BIT[SizeBits(bits) - bits.ep] \in Nat \ {0}
      BY <1>1, FillCount
    <2> QED
      BY <1>1, <2>1, ObjectsAssumption DEF Platforms
  <1>5. PICK x \in Nat : x = t + e
    BY <1>3
  <1>6. PICK start \in Nat : start = ((x + s - 1) \div s) * s /\ start + s <= c
    <2>1. PICK q \in Nat : c = s * q
      BY <1>3
    <2>2. q # 0
      BY <2>1
    <2>3. q - 1 \in Nat /\ s * (q - 1) = s * q - s
      BY <2>2
    <2>4. x <= s * (q - 1)
      BY <1>3, <1>5, <2>1, <2>3
    <2>5. ((x + s - 1) \div s) * s \in Nat /\ ((x + s - 1) \div s) * s <= s * (q - 1)
      BY <2>3, <2>4, AlignedBelow
    <2> QED
      BY <2>1, <2>3, <2>5
  <1>7. start = IF used = {0} THEN 0
                ELSE ((watermark + BIT[bits.ntfn] - 1) \div BIT[bits.ntfn]) * BIT[bits.ntfn]
    <2>1. used # {0} /\ watermark = x
      BY <1>1, <1>3, <1>5
    <2> QED
      BY <1>3, <1>6, <2>1, Zenon
  <1>8. start + 1 * BIT[bits.ntfn] <= BIT[SizeBits(bits)]
    BY <1>3, <1>6
  <1>9. pc' = "bind" /\ used' = used \cup (3 .. (3 + 1 - 1)) /\ bits' = bits
    BY <1>2, <1>4, <1>7, <1>8, RetypeLegal
  <1> QED
    BY <1>1, <1>4, <1>9 DEF UntypedInv

(* A call on an object that was made is not refused.                       *)
LEMMA CallsKeep ==
  ASSUME UntypedInv, SetPriority \/ DebugCapIdentify \/ BindNotification
  PROVE  UntypedInv'
  <1>1. UNCHANGED <<bits, untypeds, used, watermark>>
    BY DEF SetPriority, DebugCapIdentify, BindNotification, Invoke
  <1>2. CASE SetPriority
    <2>1. pc = "priority" /\ {1} \subseteq used
      BY <1>2 DEF SetPriority, UntypedInv
    <2>2. pc' = "ep"
      BY <1>2, <2>1 DEF SetPriority, Invoke
    <2> QED
      BY <1>1, <2>1, <2>2 DEF UntypedInv
  <1>3. CASE DebugCapIdentify
    <2>1. pc = "identify" /\ {2} \subseteq used
      BY <1>3 DEF DebugCapIdentify, UntypedInv
    <2>2. pc' = "ntfn"
      BY <1>3, <2>1 DEF DebugCapIdentify, Invoke
    <2> QED
      BY <1>1, <2>1, <2>2 DEF UntypedInv
  <1>4. CASE BindNotification
    <2>1. pc = "bind" /\ {1, 3} \subseteq used
      BY <1>4 DEF BindNotification, UntypedInv
    <2>2. pc' = "revoke"
      BY <1>4, <2>1 DEF BindNotification, Invoke
    <2> QED
      BY <1>1, <2>1, <2>2 DEF UntypedInv
  <1> QED
    BY <1>2, <1>3, <1>4

LEMMA FillKeeps ==
  ASSUME UntypedInv, FillChild
  PROVE  UntypedInv'
  <1>1. bits \in Platforms /\ pc = "fill" /\ used = {0}
    BY DEF UntypedInv, FillChild
  <1>2. PICK count \in Nat \ {0} :
          /\ count = BIT[SizeBits(bits) - bits.ep]
          /\ count <= FANOUT /\ count < SLOTS
    BY <1>1, FillCount
  <1>3. Retype(bits.ep, 1, count, "ended")
    BY <1>2, Zenon DEF FillChild, childBits
  <1>4. PICK e, c \in Nat \ {0} :
          e = BIT[bits.ep] /\ c = BIT[SizeBits(bits)] /\ c = e * BIT[SizeBits(bits) - bits.ep]
    BY <1>1, SizesAt
  <1>5. /\ bits.ep \in 0 .. WORD_BITS /\ count \in 1 .. FANOUT /\ 1 + count <= SLOTS
        /\ (1 .. (1 + count - 1)) \cap used = {}
    BY <1>1, <1>2, ObjectsAssumption DEF Platforms
  <1>6. 0 + count * BIT[bits.ep] = BIT[SizeBits(bits)] /\ c <= c
    BY <1>2, <1>4
  <1>7. 0 + count * BIT[bits.ep] <= BIT[SizeBits(bits)]
    BY <1>4, <1>6
  <1>8. pc' = "ended" /\ watermark' = 0 + count * BIT[bits.ep] /\ bits' = bits
    BY <1>1, <1>3, <1>5, <1>7, RetypeLegal
  <1> QED
    BY <1>1, <1>6, <1>8 DEF UntypedInv

LEMMA UntypedNext == UntypedInv /\ [RetypeNext]_retypeVars => UntypedInv'
  <1> SUFFICES ASSUME UntypedInv, [RetypeNext]_retypeVars PROVE UntypedInv'
    OBVIOUS
  <1>1. CASE MakeChild
    <2>1. /\ bits' = bits /\ untypeds' = untypeds
          /\ IF HasParent THEN pc' = "tcb" /\ used' = {0} ELSE pc' = "aborted"
      BY <1>1 DEF MakeChild
    <2>2. CASE HasParent
      BY <2>1, <2>2 DEF UntypedInv
    <2>3. CASE ~HasParent
      <3>1. ~HasParent'
        BY <2>1, <2>3 DEF HasParent, Fits, childBits, SizeBits, total_size
      <3> QED
        BY <2>1, <2>3, <3>1 DEF UntypedInv
    <2> QED
      BY <2>2, <2>3
  <1>2. CASE Revoke
    BY <1>2 DEF Revoke, UntypedInv
  <1>3. CASE UNCHANGED retypeVars
    BY <1>3 DEF UntypedInv, retypeVars, HasParent, Fits, childBits, SizeBits, total_size
  <1> QED
    BY <1>1, <1>2, <1>3, TcbKeeps, EndpointKeeps, NotificationKeeps, CallsKeep, FillKeeps
       DEF RetypeNext

(* The untyped program aborts only if no untyped fits, and fills the child *)
(* to its last byte (untyped/src/main.c:45-90), whatever the sizes of the  *)
(* kernel's objects and the untypeds of the machine.                       *)
THEOREM ChildFilled == RetypeSpec => []FilledWhole
  <1>1. UntypedInv => FilledWhole
    BY Zenon DEF UntypedInv, FilledWhole, childBits
  <1> QED
    BY <1>1, UntypedInit, UntypedNext, PTL DEF RetypeSpec

-----------------------------------------------------------------------------
(* The set-up scripts.                                                     *)

(* What typing and the call of libraries-2 need of a script: a call skips  *)
(* a number of calls and maps a level of the paging structures; a message  *)
(* goes through the badged capability, and something follows it.           *)
IsPlain(c) ==
  /\ c.skip \in Nat
  /\ c.op = "mapTable" => c.args.level \in 1 .. 3
  /\ c.op # "send"

IsSend(c) == c.skip \in Nat /\ c.op = "send" /\ c.args.endpoint = "ep_cap_path"

IsScript(s) ==
  /\ \E X : s \in Seq(X)
  /\ Len(s) # 0
  /\ \A j \in DOMAIN s : IsPlain(s[j]) \/ (IsSend(s[j]) /\ j < Len(s))

(* Every other line of the scripts.                                        *)
LEMMA PlainLines ==
  /\ \A x : /\ IsPlain(Begin(x)) /\ IsPlain(Ignored(Begin(x))) /\ IsPlain(Alloc(x))
            /\ IsPlain(Forget(x)) /\ IsPlain(Delete(x)) /\ IsPlain(Access(x))
            /\ IsPlain(Resume(x)) /\ IsPlain(Spawn(x))
            /\ IsPlain(AckIrq(x)) /\ IsPlain(EnableIrq(x))
  /\ \A x, y : /\ IsPlain(Copy(x, y)) /\ IsPlain(MapWithTables(x, y)) /\ IsPlain(SetThread(x, y))
               /\ IsPlain(ConfigureProcess(x, y)) /\ IsPlain(BindIrq(x, y))
               /\ IsPlain(MapTable(1, x, y)) /\ IsPlain(Ignored(MapTable(1, x, y)))
               /\ IsPlain(MapTable(2, x, y)) /\ IsPlain(MapTable(3, x, y))
  /\ \A x, y, z : /\ IsPlain(Mint(x, y, z)) /\ IsPlain(MintInto(x, y, z))
                  /\ IsPlain(MapPage(x, y, z)) /\ IsPlain(Expecting(Move(x, y), z))
                  /\ IsPlain(Skipping(Ignored(MapPage(x, y, z)), 3))
  /\ IsPlain(Suspend) /\ IsPlain(CheckReply)
  BY DEF IsPlain, Call, Begin, Alloc, Mint, Copy, Delete, Move, MapPage, MapWithTables,
     Access, SetThread, Resume, Suspend, ConfigureProcess, MintInto, Forget, Spawn, BindIrq,
     AckIrq, EnableIrq, CheckReply, Ignored, Expecting, Skipping, MapTable

LEMMA PlainScript ==
  ASSUME NEW X, \A c \in X : IsPlain(c), NEW s \in Seq(X), Len(s) # 0
  PROVE  IsScript(s)
  BY DEF IsScript

(* A script written as a tuple of such lines; one lemma for each length.   *)
LEMMA Lines1 ==
  ASSUME NEW c1,
         \A c \in {c1} : IsPlain(c)
  PROVE  IsScript(<<c1>>)
  <1>1. <<c1>> \in Seq({c1})
    OBVIOUS
  <1>2. Len(<<c1>>) # 0
    OBVIOUS
  <1> QED
    BY <1>1, <1>2, PlainScript, Zenon

LEMMA Lines2 ==
  ASSUME NEW c1, NEW c2,
         \A c \in {c1, c2} : IsPlain(c)
  PROVE  IsScript(<<c1, c2>>)
  <1>1. <<c1, c2>> \in Seq({c1, c2})
    OBVIOUS
  <1>2. Len(<<c1, c2>>) # 0
    OBVIOUS
  <1> QED
    BY <1>1, <1>2, PlainScript, Zenon

LEMMA Lines3 ==
  ASSUME NEW c1, NEW c2, NEW c3,
         \A c \in {c1, c2, c3} : IsPlain(c)
  PROVE  IsScript(<<c1, c2, c3>>)
  <1>1. <<c1, c2, c3>> \in Seq({c1, c2, c3})
    OBVIOUS
  <1>2. Len(<<c1, c2, c3>>) # 0
    OBVIOUS
  <1> QED
    BY <1>1, <1>2, PlainScript, Zenon

LEMMA Lines4 ==
  ASSUME NEW c1, NEW c2, NEW c3, NEW c4,
         \A c \in {c1, c2, c3, c4} : IsPlain(c)
  PROVE  IsScript(<<c1, c2, c3, c4>>)
  <1>1. <<c1, c2, c3, c4>> \in Seq({c1, c2, c3, c4})
    OBVIOUS
  <1>2. Len(<<c1, c2, c3, c4>>) # 0
    OBVIOUS
  <1> QED
    BY <1>1, <1>2, PlainScript, Zenon

LEMMA Lines5 ==
  ASSUME NEW c1, NEW c2, NEW c3, NEW c4, NEW c5,
         \A c \in {c1, c2, c3, c4, c5} : IsPlain(c)
  PROVE  IsScript(<<c1, c2, c3, c4, c5>>)
  <1>1. <<c1, c2, c3, c4, c5>> \in Seq({c1, c2, c3, c4, c5})
    OBVIOUS
  <1>2. Len(<<c1, c2, c3, c4, c5>>) # 0
    OBVIOUS
  <1> QED
    BY <1>1, <1>2, PlainScript, Zenon

LEMMA Lines6 ==
  ASSUME NEW c1, NEW c2, NEW c3, NEW c4, NEW c5, NEW c6,
         \A c \in {c1, c2, c3, c4, c5, c6} : IsPlain(c)
  PROVE  IsScript(<<c1, c2, c3, c4, c5, c6>>)
  <1>1. <<c1, c2, c3, c4, c5, c6>> \in Seq({c1, c2, c3, c4, c5, c6})
    OBVIOUS
  <1>2. Len(<<c1, c2, c3, c4, c5, c6>>) # 0
    OBVIOUS
  <1> QED
    BY <1>1, <1>2, PlainScript, Zenon

LEMMA Lines7 ==
  ASSUME NEW c1, NEW c2, NEW c3, NEW c4, NEW c5, NEW c6, NEW c7,
         \A c \in {c1, c2, c3, c4, c5, c6, c7} : IsPlain(c)
  PROVE  IsScript(<<c1, c2, c3, c4, c5, c6, c7>>)
  <1>1. <<c1, c2, c3, c4, c5, c6, c7>> \in Seq({c1, c2, c3, c4, c5, c6, c7})
    OBVIOUS
  <1>2. Len(<<c1, c2, c3, c4, c5, c6, c7>>) # 0
    OBVIOUS
  <1> QED
    BY <1>1, <1>2, PlainScript, Zenon

LEMMA Lines8 ==
  ASSUME NEW c1, NEW c2, NEW c3, NEW c4, NEW c5, NEW c6, NEW c7, NEW c8,
         \A c \in {c1, c2, c3, c4, c5, c6, c7, c8} : IsPlain(c)
  PROVE  IsScript(<<c1, c2, c3, c4, c5, c6, c7, c8>>)
  <1>1. <<c1, c2, c3, c4, c5, c6, c7, c8>> \in Seq({c1, c2, c3, c4, c5, c6, c7, c8})
    OBVIOUS
  <1>2. Len(<<c1, c2, c3, c4, c5, c6, c7, c8>>) # 0
    OBVIOUS
  <1> QED
    BY <1>1, <1>2, PlainScript, Zenon

LEMMA Lines11 ==
  ASSUME NEW c1, NEW c2, NEW c3, NEW c4, NEW c5, NEW c6, NEW c7, NEW c8, NEW c9, NEW c10, NEW c11,
         \A c \in {c1, c2, c3, c4, c5, c6, c7, c8, c9, c10, c11} : IsPlain(c)
  PROVE  IsScript(<<c1, c2, c3, c4, c5, c6, c7, c8, c9, c10, c11>>)
  <1>1. <<c1, c2, c3, c4, c5, c6, c7, c8, c9, c10, c11>>
          \in Seq({c1, c2, c3, c4, c5, c6, c7, c8, c9, c10, c11})
    OBVIOUS
  <1>2. Len(<<c1, c2, c3, c4, c5, c6, c7, c8, c9, c10, c11>>) # 0
    OBVIOUS
  <1> QED
    BY <1>1, <1>2, PlainScript, Zenon

(* A script written as pieces.                                             *)
LEMMA Concatenated ==
  ASSUME NEW s, NEW t, IsScript(s), IsScript(t)
  PROVE  IsScript(s \o t)
  <1> DEFINE u == s \o t
  <1>1. PICK X : s \in Seq(X) /\ t \in Seq(X)
    <2>1. PICK Y, Z : s \in Seq(Y) /\ t \in Seq(Z)
      BY DEF IsScript
    <2>2. s \in Seq(Y \cup Z) /\ t \in Seq(Y \cup Z)
      BY <2>1
    <2> QED
      BY <2>2
  <1>2. /\ u \in Seq(X) /\ Len(u) = Len(s) + Len(t) /\ Len(s) \in Nat /\ Len(t) \in Nat
        /\ DOMAIN u = 1 .. Len(u) /\ DOMAIN s = 1 .. Len(s) /\ DOMAIN t = 1 .. Len(t)
        /\ \A j \in 1 .. Len(s) : u[j] = s[j]
        /\ \A j \in (Len(s) + 1) .. Len(u) : u[j] = t[j - Len(s)]
    BY <1>1
  <1>3. \A j \in DOMAIN u : IsPlain(u[j]) \/ (IsSend(u[j]) /\ j < Len(u))
    <2> SUFFICES ASSUME NEW j \in DOMAIN u
                 PROVE  IsPlain(u[j]) \/ (IsSend(u[j]) /\ j < Len(u))
      OBVIOUS
    <2>1. CASE j <= Len(s)
      BY <1>2, <2>1 DEF IsScript
    <2>2. CASE j > Len(s)
      <3>1. j - Len(s) \in DOMAIN t /\ u[j] = t[j - Len(s)]
        BY <1>2, <2>2
      <3> QED
        BY <1>2, <3>1 DEF IsScript
    <2> QED
      BY <1>2, <2>1, <2>2
  <1>4. Len(u) # 0
    BY <1>2 DEF IsScript
  <1> QED
    BY <1>2, <1>3, <1>4 DEF IsScript

(* The eight programs are such scripts.                                    *)
LEMMA CallLinesAre == IsScript(CallLines)
  <1>1. IsSend(Send("ep_cap_path"))
    BY DEF IsSend, Send, Call
  <1>2. IsPlain(CheckReply)
    BY PlainLines
  <1>3. CallLines \in Seq({Send("ep_cap_path"), CheckReply}) /\ Len(CallLines) = 2
    BY DEF CallLines
  <1>4. \A j \in DOMAIN CallLines : IsPlain(CallLines[j]) \/ (IsSend(CallLines[j]) /\ j < 2)
    BY <1>1, <1>2 DEF CallLines
  <1> QED
    BY <1>3, <1>4 DEF IsScript

LEMMA Libraries1Is == IsScript(Libraries1)
  BY PlainLines, Lines6 DEF Libraries1

LEMMA Libraries2Is == IsScript(Libraries2)
  <1>1. IsScript(<<Begin("allocman"), Alloc("tcb_object")>>)
    BY PlainLines, Lines2
  <1>2. IsScript(BufferLines)
    BY PlainLines, Lines5 DEF BufferLines
  <1>3. IsScript(<<Alloc("ep_object"), Mint("ep_object", "ep_cap_path", EP_BADGE)>>)
    BY PlainLines, Lines2
  <1>4. IsScript(ThreadLines)
    BY PlainLines, Lines4 DEF ThreadLines
  <1> QED
    BY <1>1, <1>2, <1>3, <1>4, CallLinesAre, Concatenated, Zenon DEF Libraries2

LEMMA LibraryLinesAre == IsScript(LibraryLines)
  BY PlainLines, Lines3 DEF LibraryLines

LEMMA SharedLinesAre == IsScript(SharedLines)
  BY PlainLines, Lines3 DEF SharedLines

LEMMA Libraries3Is == IsScript(Libraries3)
  <1>1. IsScript(<<Alloc("ep_object")>>)
    BY PlainLines, Lines1
  <1>2. IsScript(IrqLines)
    BY PlainLines, Lines4 DEF IrqLines
  <1>3. IsScript(UartLines)
    BY PlainLines, Lines2 DEF UartLines
  <1>4. IsScript(ClientLines)
    BY PlainLines, Lines5 DEF ClientLines
  <1> QED
    BY <1>1, <1>2, <1>3, <1>4, LibraryLinesAre, SharedLinesAre, Concatenated, Zenon
       DEF Libraries3

LEMMA BakIs == IsScript(Bak)
  <1>1. IsScript(<<Alloc("ep_object"), Copy("ep_object", "root_call_ep_path"),
                   Alloc("fault_ep_obj")>>)
    BY PlainLines, Lines3
  <1>2. IsScript(ServerLines)
    BY PlainLines, Lines4 DEF ServerLines
  <1> QED
    BY <1>1, <1>2, LibraryLinesAre, SharedLinesAre, Concatenated, Zenon DEF Bak

LEMMA MultiserverIs == IsScript(Multiserver)
  <1>1. IsScript(<<Alloc("ep_object"),
          ConfigureProcess("compute_srv", {"priority"}), MintInto("compute_srv", "ep_object", 0),
          Spawn("compute_srv"),
          ConfigureProcess("client", {"priority"}),
          MintInto("client", "ep_object", CLIENT_BADGE_AUTH), Spawn("client")>>)
    BY PlainLines, Lines7
  <1> QED
    BY <1>1, LibraryLinesAre, Concatenated, Zenon DEF Multiserver

LEMMA Libraries4Is == IsScript(Libraries4)
  BY PlainLines, Lines11 DEF Libraries4

LEMMA CapabilitiesIs == IsScript(Capabilities)
  BY PlainLines, Lines8 DEF Capabilities

LEMMA MappingIs == IsScript(Mapping)
  BY PlainLines, Lines11 DEF Mapping

LEMMA ScriptIs ==
  ASSUME program \in Programs
  PROVE  IsScript(Script)
  BY ProgramsAssumption, Libraries1Is, Libraries2Is, Libraries3Is, BakIs, MultiserverIs,
     Libraries4Is, CapabilitiesIs, MappingIs DEF Script

-----------------------------------------------------------------------------
(* The kernel's tables and interrupt, in whatever else it holds.           *)
KernelTyped(k) ==
  /\ {"tables", "irq"} \subseteq DOMAIN k
  /\ k.tables \in [Spaces -> 0 .. 3]
  /\ k.irq \subseteq {"bound", "acknowledged", "enabled"}

(* The call: while it is open, the root task is at its send, and what it   *)
(* sent is under way with the badge the thread looks for.                  *)
CallAt ==
  /\ message \in [at : {"none", "sent", "received", "replied"}, badge : {0, EP_BADGE},
                  length : {0, 1}, word : 0 .. (WORD - 1)]
  /\ message.at \in {"sent", "received"} =>
       /\ outcome = "runs" /\ current.op = "send"
       /\ message.badge = EP_BADGE /\ message.length = 1 /\ message.word = MSG_DATA

ScriptInv ==
  /\ program \in Programs /\ step \in DOMAIN Script
  /\ outcome \in {"runs", "ended", "aborted"} /\ shortage \in BOOLEAN
  /\ KernelTyped(kernel)
  /\ CallAt

LEMMA CurrentIs ==
  ASSUME ScriptInv
  PROVE  /\ Len(Script) \in Nat /\ step \in Nat /\ DOMAIN Script = 1 .. Len(Script)
         /\ 1 <= step /\ step <= Len(Script)
         /\ IsPlain(current) \/ (IsSend(current) /\ step < Len(Script))
  <1>1. IsScript(Script)
    BY ScriptIs DEF ScriptInv
  <1>2. \A j \in DOMAIN Script : IsPlain(Script[j]) \/ (IsSend(Script[j]) /\ j < Len(Script))
    BY <1>1 DEF IsScript
  <1>3. Len(Script) \in Nat /\ DOMAIN Script = 1 .. Len(Script)
    BY <1>1 DEF IsScript
  <1> QED
    BY <1>2, <1>3 DEF ScriptInv, current

LEMMA ScriptInvInit ==
  ASSUME Init
  PROVE  ScriptInv
  <1>1. step \in DOMAIN Script
    <2>1. IsScript(Script)
      BY ScriptIs DEF Init
    <2> QED
      BY <2>1 DEF IsScript, Init
  <1>2. KernelTyped(kernel)
    <2>1. PICK j \in 0 .. 3 :
            kernel =
              [caps |-> [c \in {"seL4_CapInitThreadTCB"} |-> Capability(c)],
               tables |-> [s \in Spaces |-> IF s = "root" THEN j ELSE 1],
               pages |-> [s \in Spaces |-> [object |-> "none", rights |-> "none"]],
               facts |-> [t \in Threads |-> {}],
               held |-> [t \in Threads |-> {}],
               irq |-> {}]
      <3>1. Levels(program) \subseteq 0 .. 3
        BY DEF Levels
      <3> QED
        BY <3>1, Zenon DEF Init
    <2> QED
      BY <2>1 DEF KernelTyped
  <1>3. CallAt
    BY MessageAssumption DEF Init, CallAt, NoMessage
  <1> QED
    BY <1>1, <1>2, <1>3 DEF Init, ScriptInv

(* A call keeps the invariant, with whatever error it returns, if the      *)
(* objects it would leave are typed.                                       *)
LEMMA ReturnsKeeps ==
  ASSUME ScriptInv, outcome = "runs", current.op # "send",
         NEW error, NEW k, KernelTyped(k), Returns(error, k)
  PROVE  ScriptInv' /\ UNCHANGED message
  <1>1. program' = program /\ message' = message
    BY DEF Returns
  <1>2. Script' = Script
    BY <1>1 DEF Script
  <1>3. step' \in DOMAIN Script
    <2>1. current.skip \in Nat
      BY CurrentIs DEF IsPlain, IsSend
    <2> QED
      BY <2>1, CurrentIs DEF Returns
  <1>4. KernelTyped(kernel)'
    BY DEF Returns, ScriptInv, KernelTyped
  <1>5. outcome' \in {"runs", "ended", "aborted"} /\ shortage' \in BOOLEAN
    BY DEF Returns, ScriptInv
  <1>6. CallAt'
    BY <1>1 DEF ScriptInv, CallAt
  <1> QED
    BY <1>1, <1>2, <1>3, <1>4, <1>5, <1>6 DEF ScriptInv

(* No operation breaks the objects' types.                                 *)
LEMMA ObjectsTyped ==
  ASSUME NEW k, KernelTyped(k), NEW x, NEW y
  PROVE  KernelTyped(Fill(k, x, y)) /\ KernelTyped(Empty(k, x)) /\ KernelTyped(Tell(k, x, y))
  BY DEF KernelTyped, Fill, Empty, Tell

LEMMA OneSet ==
  ASSUME NEW f \in [Spaces -> 0 .. 3], NEW space, NEW j \in 0 .. 3
  PROVE  [f EXCEPT ![space] = j] \in [Spaces -> 0 .. 3]
  OBVIOUS

LEMMA TableTyped ==
  ASSUME NEW space, NEW j \in 0 .. 3, KernelTyped(kernel)
  PROVE  KernelTyped([kernel EXCEPT !.tables[space] = j])
  <1> DEFINE m == [kernel EXCEPT !.tables[space] = j]
  <1>1. DOMAIN m = DOMAIN kernel /\ m.irq = kernel.irq
    BY DEF KernelTyped
  <1>2. m.tables = [kernel.tables EXCEPT ![space] = j]
    BY DEF KernelTyped
  <1>3. [kernel.tables EXCEPT ![space] = j] \in [Spaces -> 0 .. 3]
    BY OneSet, Zenon DEF KernelTyped
  <1> HIDE DEF m
  <1>4. KernelTyped(m)
    BY <1>1, <1>2, <1>3, Zenon DEF KernelTyped
  <1> QED
    BY <1>4 DEF m

LEMMA MappedTyped ==
  ASSUME NEW page, NEW space, NEW rights, KernelTyped(kernel)
  PROVE  KernelTyped(Mapped(page, space, rights))
  <1> DEFINE m == Mapped(page, space, rights)
  <1>1. DOMAIN m = DOMAIN kernel
    BY DEF Mapped
  <1>2. m.irq = kernel.irq
    BY DEF Mapped, KernelTyped
  <1>3. m.tables = [kernel.tables EXCEPT ![space] = 3]
    BY DEF Mapped, KernelTyped
  <1>4. [kernel.tables EXCEPT ![space] = 3] \in [Spaces -> 0 .. 3]
    <2>1. 3 \in 0 .. 3
      OBVIOUS
    <2> QED
      BY <2>1, OneSet, Zenon DEF KernelTyped
  <1> HIDE DEF m
  <1>5. KernelTyped(m)
    BY <1>1, <1>2, <1>3, <1>4, Zenon DEF KernelTyped
  <1> QED
    BY <1>5 DEF m

(* Every call of the root task but the one that is answered.               *)
LEMMA RootTaskKeeps ==
  ASSUME ScriptInv, RootTask, ~SendCall
  PROVE  ScriptInv' /\ UNCHANGED message
  <1>1. KernelTyped(kernel)
    BY DEF ScriptInv
  <1>2. ASSUME outcome = "runs", current.op # "send",
               NEW error, NEW k, KernelTyped(k), Returns(error, k)
        PROVE  ScriptInv' /\ UNCHANGED message
    BY <1>2, ReturnsKeeps
  <1>3. CASE BeginCall
    BY <1>1, <1>2, <1>3, Zenon DEF BeginCall, Now, RunShort
  <1>4. CASE AllocCall
    BY <1>1, <1>2, <1>4, ObjectsTyped DEF AllocCall, Now, RunShort
  <1>5. CASE ForgetCall
    BY <1>1, <1>2, <1>5, ObjectsTyped DEF ForgetCall, Now
  <1>6. CASE MintCall
    BY <1>1, <1>2, <1>6, ObjectsTyped DEF MintCall, Now, RunShort
  <1>7. CASE DeleteCall
    BY <1>1, <1>2, <1>7, ObjectsTyped DEF DeleteCall, Now
  <1>8. CASE MoveCall
    BY <1>1, <1>2, <1>8, ObjectsTyped DEF MoveCall, Now
  <1>9. CASE MapTableCall
    <2>1. args.level \in 1 .. 3
      BY <1>9, CurrentIs DEF MapTableCall, Now, IsPlain, IsSend, args
    <2>2. KernelTyped([kernel EXCEPT !.tables[args.space] = args.level])
      <3>1. args.level \in 0 .. 3
        BY <2>1
      <3> QED
        BY <1>1, <3>1, TableTyped, Zenon
    <2> QED
      BY <1>2, <1>9, <2>2 DEF MapTableCall, Now
  <1>10. CASE MapPageCall
    BY <1>1, <1>2, <1>10, MappedTyped DEF MapPageCall, Now
  <1>11. CASE MapWithTablesCall
    BY <1>1, <1>2, <1>11, MappedTyped DEF MapWithTablesCall, Now, RunShort
  <1>12. CASE AccessCall
    BY <1>1, <1>2, <1>12 DEF AccessCall, Now
  <1>13. CASE SetThreadCall
    BY <1>1, <1>2, <1>13, ObjectsTyped DEF SetThreadCall, Now
  <1>14. CASE ResumeCall
    BY <1>1, <1>2, <1>14, ObjectsTyped DEF ResumeCall, Now
  <1>15. CASE SuspendCall
    BY <1>15 DEF SuspendCall, Now, ScriptInv, CallAt, current, Script
  <1>16. CASE ConfigureProcessCall
    BY <1>1, <1>2, <1>16, ObjectsTyped DEF ConfigureProcessCall, Now, RunShort
  <1>17. CASE MintIntoCall
    <2>1. KernelTyped([kernel EXCEPT !.held[args.process] =
                         @ \cup {<<kernel.caps[args.from].object, args.badge>>}])
      BY <1>1 DEF KernelTyped
    <2> QED
      BY <1>1, <1>2, <1>17, <2>1 DEF MintIntoCall, Now, RunShort
  <1>18. CASE SpawnCall
    BY <1>1, <1>2, <1>18, ObjectsTyped DEF SpawnCall, Now, RunShort
  <1>19. CASE BindIrqCall \/ AckIrqCall \/ EnableIrqCall
    <2>1. /\ KernelTyped([kernel EXCEPT !.irq = {"bound"}])
          /\ KernelTyped([kernel EXCEPT !.irq = @ \cup {"acknowledged"}])
          /\ KernelTyped([kernel EXCEPT !.irq = @ \cup {"enabled"}])
      BY <1>1 DEF KernelTyped
    <2> QED
      BY <1>2, <1>19, <2>1 DEF BindIrqCall, AckIrqCall, EnableIrqCall, Now
  <1>20. CASE CheckReplyCall
    BY <1>1, <1>2, <1>20 DEF CheckReplyCall, Now
  <1> QED
    BY <1>3, <1>4, <1>5, <1>6, <1>7, <1>8, <1>9, <1>10, <1>11, <1>12, <1>13, <1>14, <1>15,
       <1>16, <1>17, <1>18, <1>19, <1>20, Zenon DEF RootTask

(* The call of libraries-2 and its answer are the steps of RemoteCall.     *)
LEMMA SendKeeps ==
  ASSUME ScriptInv, SendCall
  PROVE  ScriptInv' /\ Calls!Ask
  <1>1. IsSend(current)
    BY CurrentIs DEF SendCall, Now, IsPlain
  <1>2. message' = [at |-> "sent", badge |-> EP_BADGE, length |-> 1, word |-> MSG_DATA]
    BY <1>1 DEF SendCall, IsSend, args
  <1>3. CallAt'
    BY <1>2, MessageAssumption DEF CallAt, SendCall, Now, current, Script
  <1>4. ScriptInv'
    BY <1>3 DEF ScriptInv, SendCall, KernelTyped, Script
  <1>5. Calls!Ask
    BY <1>2 DEF Calls!Ask, SendCall
  <1> QED
    BY <1>4, <1>5

LEMMA ReceiveKeeps ==
  ASSUME ScriptInv, ThreadReceives
  PROVE  ScriptInv' /\ message'.at = "received" /\ message'.word = message.word
  <1>1. message' = [message EXCEPT !.at = "received"]
    BY DEF ThreadReceives, ScriptInv, CallAt
  <1>2. message'.at = "received" /\ message'.word = message.word
    BY <1>1 DEF ScriptInv, CallAt
  <1>3. CallAt'
    BY <1>1 DEF ScriptInv, CallAt, ThreadReceives, current, Script
  <1> QED
    BY <1>2, <1>3 DEF ScriptInv, ThreadReceives, KernelTyped, Script

LEMMA ReplyKeeps ==
  ASSUME ScriptInv, ThreadReplies
  PROVE  ScriptInv' /\ Calls!Answer
  <1>1. /\ message.at = "received" /\ message.word = MSG_DATA
        /\ message' = [at |-> "replied", badge |-> 0, length |-> 1, word |-> Complement(MSG_DATA)]
    BY DEF ThreadReplies, ScriptInv, CallAt
  <1>2. Complement(MSG_DATA) \in 0 .. (WORD - 1)
    BY MessageAssumption DEF Complement
  <1>3. step' \in DOMAIN Script
    <2>1. IsSend(current) /\ step < Len(Script)
      BY CurrentIs DEF ThreadReplies, ScriptInv, CallAt, IsPlain
    <2> QED
      BY <2>1, CurrentIs DEF ThreadReplies
  <1>4. CallAt'
    BY <1>1, <1>2 DEF CallAt
  <1>5. ScriptInv'
    BY <1>3, <1>4 DEF ScriptInv, ThreadReplies, KernelTyped, Script
  <1>6. Calls!Answer
    BY <1>1, <1>2, MessageAssumption DEF Calls!Answer
  <1> QED
    BY <1>5, <1>6

LEMMA ScriptInvStep ==
  ASSUME ScriptInv, [Next]_vars
  PROVE  ScriptInv'
  <1>1. CASE RootTask
    BY <1>1, RootTaskKeeps, SendKeeps
  <1>2. CASE Thread2
    BY <1>2, ReceiveKeeps, ReplyKeeps DEF Thread2
  <1>3. CASE UNCHANGED vars
    BY <1>3 DEF vars, ScriptInv, KernelTyped, CallAt, current, Script
  <1> QED
    BY <1>1, <1>2, <1>3 DEF Next

(* Every step of every program is one of its calls, and the numbers the    *)
(* objects and messages hold keep their ranges, for every width of a       *)
(* message register (the ZF_LOGF_IF chains of the programs' main.c).       *)
THEOREM ScriptsTyped == Spec => []TypeOK
  <1>1. Init => ScriptInv
    BY ScriptInvInit
  <1>2. ScriptInv /\ [Next]_vars => ScriptInv'
    BY ScriptInvStep
  <1>3. ScriptInv => TypeOK
    BY DEF ScriptInv, CallAt, KernelTyped, TypeOK
  <1> QED
    BY <1>1, <1>2, <1>3, PTL DEF Spec

(* libraries-2: whatever word the root task sends, it is answered once,    *)
(* with its complement, and nothing else comes between (main.c:82-134 and  *)
(* :388-448), for every width of a message register.                       *)
THEOREM ThreadAnswers == Spec => ImplementsCall
  <1> DEFINE asked == IF message.at \in {"sent", "received"} THEN MSG_DATA ELSE None
             heard == IF message.at = "replied" THEN message.word ELSE None
  <1>1. Init => ScriptInv /\ Calls!Init
    <2> SUFFICES ASSUME Init
                 PROVE  ScriptInv /\ Calls!Init
      OBVIOUS
    <2>1. message.at = "none"
      BY DEF Init, NoMessage
    <2> QED
      BY <2>1, ScriptInvInit DEF Calls!Init
  <1>2. ScriptInv /\ [Next]_vars => ScriptInv'
    BY ScriptInvStep
  <1>3. ScriptInv /\ [Next]_vars => [Calls!Next]_<<asked, heard>>
    <2> SUFFICES ASSUME ScriptInv, [Next]_vars
                 PROVE  Calls!Next \/ UNCHANGED <<asked, heard>>
      OBVIOUS
    <2>1. CASE SendCall
      BY <2>1, SendKeeps DEF Calls!Next
    <2>2. CASE RootTask /\ ~SendCall
      BY <2>2, RootTaskKeeps
    <2>3. CASE ThreadReceives
      BY <2>3, ReceiveKeeps DEF ThreadReceives
    <2>4. CASE ThreadReplies
      BY <2>4, ReplyKeeps DEF Calls!Next
    <2>5. CASE UNCHANGED vars
      BY <2>5 DEF vars
    <2> QED
      BY <2>1, <2>2, <2>3, <2>4, <2>5 DEF Next, Thread2
  <1> QED
    BY <1>1, <1>2, <1>3, PTL DEF Spec, ImplementsCall, Calls!Spec

-----------------------------------------------------------------------------
(* What the calls of a set-up script leave behind.  A ledger says what is  *)
(* known of the objects when a program comes to a call: the slots surely   *)
(* used and those that may be, the levels root's paging structures may     *)
(* have, what threads were told and given, which pages are mapped, what    *)
(* was done to the interrupt, which threads may run and whether the reply  *)
(* is there.  The object a slot refers to, the space a frame is mapped in  *)
(* and the program's one page never change.                                *)
Origin(slot) ==
  IF slot = "frame_path_root" THEN "shared_frame_obj"
  ELSE IF slot \in {"ep_cap_path", "root_call_ep_path"} THEN "ep_object"
  ELSE IF slot \in {"first_free_slot", "last_slot"} THEN "seL4_CapInitThreadTCB"
  ELSE slot

Place(p, slot) ==
  IF slot # "shared_frame_obj" THEN "root"
  ELSE IF p = "bak" THEN "compute_srv" ELSE "client"

Page(p) ==
  IF p = "libraries2" THEN "ipc_frame_object"
  ELSE IF p = "mapping" THEN "frame" ELSE "shared_frame_obj"

LedgerFields == {"slots", "taken", "levels", "told", "held", "mapped", "irq", "running", "heard"}

Agrees(p, k, m, L) ==
  /\ DOMAIN k = {"caps", "tables", "pages", "facts", "held", "irq"}
  /\ DOMAIN k.tables = Spaces /\ DOMAIN k.pages = Spaces
  /\ DOMAIN k.facts = Threads /\ DOMAIN k.held = Threads
  /\ L.slots \subseteq DOMAIN k.caps /\ DOMAIN k.caps \subseteq L.taken
  /\ \A c \in DOMAIN k.caps :
       /\ DOMAIN k.caps[c] = {"object", "space"} /\ k.caps[c].object = Origin(c)
       /\ k.caps[c].space \in {"none", Place(p, c)}
  /\ k.tables["root"] \in L.levels
  /\ \A s \in Spaces : k.pages[s].object \in {"none", Page(p)}
  /\ \A x \in L.mapped : k.pages[x[1]] = [object |-> Page(p), rights |-> x[2]]
  /\ \A x \in L.told : x[2] \in k.facts[x[1]]
  /\ \A x \in L.held : <<"ep_object", x[2]>> \in k.held[x[1]]
  /\ L.irq \subseteq k.irq
  /\ \A t \in Threads : "resumed" \in k.facts[t] => t \in L.running
  /\ "reply" \in L.heard => m.length = 1 /\ m.word = Complement(MSG_DATA)

(* A thread that is started has, by the ledger, what it uses.              *)
Equipped(p, L, t) ==
  /\ {<<t, "configured">>, <<t, "registers">>} \subseteq L.told
  /\ p = "libraries1" => <<t, "priority">> \in L.told
  /\ p = "libraries2" => /\ {<<t, "buffer">>, <<t, "tls">>} \subseteq L.told
                         /\ <<"root", "all">> \in L.mapped
  /\ p = "bak" => <<t, "fault endpoint">> \in L.told
  /\ p \in {"libraries3", "bak"} => {<<"root", "all">>, <<t, "all">>} \subseteq L.mapped
  /\ p = "libraries3" =>
       {<<t, CLIENT_BADGE_AUTH>>, <<t, CLIENT_BADGE_UNAUTH>>} \subseteq L.held
  /\ p = "multiserver" /\ t = "client" => <<t, CLIENT_BADGE_AUTH>> \in L.held
  /\ p = "libraries4" => <<t, EP_BADGE>> \in L.held
  /\ p = "bak" \/ (p = "multiserver" /\ t # "client") => <<t, 0>> \in L.held

-----------------------------------------------------------------------------
(* The effect of a call on a ledger, and what may be forgotten of one.     *)
Getting(L, slot) == [L EXCEPT !.slots = @ \cup {slot}, !.taken = @ \cup {slot}]
Losing(L, slot) == [L EXCEPT !.slots = @ \ {slot}, !.taken = @ \ {slot}]
Telling(L, t, with) == [L EXCEPT !.told = @ \cup {<<t, w>> : w \in with}]
Starting(L, t, with) ==
  [L EXCEPT !.told = @ \cup {<<t, w>> : w \in with}, !.running = @ \cup {t}]
Showing(L, space, rights) ==
  [L EXCEPT !.mapped = {x \in @ : x[1] # space} \cup {<<space, rights>>}, !.levels = @ \cup {3}]

Weaker(M, L) ==
  /\ M.slots \subseteq L.slots /\ L.taken \subseteq M.taken
  /\ L.levels \subseteq M.levels
  /\ M.told \subseteq L.told /\ M.held \subseteq L.held
  /\ M.mapped \subseteq L.mapped /\ M.irq \subseteq L.irq
  /\ L.running \subseteq M.running /\ M.heard \subseteq L.heard

(* A call that is not refused, succeeds and goes on with the next; and one *)
(* that may abort leaves nobody behind that calls.                         *)
Strict(c) == ~c.ignored /\ c.expects = "NoError" /\ c.skip = 0
MayAbort(p, L) == p = "libraries4" \/ L.running \subseteq {"compute_srv"}

SuitsBegin(p, L, c, M, N) ==
  /\ c.op = "begin" /\ c.expects = "NoError" /\ c.skip = 0
  /\ c.ignored \/ MayAbort(p, L)
  /\ Weaker(M, L) /\ Weaker(N, L)
SuitsAlloc(p, L, c, M) ==
  /\ c.op = "alloc" /\ Strict(c) /\ MayAbort(p, L)
  /\ c.args.object \notin L.taken /\ Origin(c.args.object) = c.args.object
  /\ Weaker(M, Getting(L, c.args.object))
SuitsForget(L, c, M) ==
  c.op = "forget" /\ Strict(c) /\ Weaker(M, Losing(L, c.args.object))
SuitsMint(p, L, c, M) ==
  /\ c.op = "mint" /\ Strict(c) /\ MayAbort(p, L)
  /\ c.args.from \in L.slots /\ c.args.to \notin L.taken
  /\ Origin(c.args.to) = Origin(c.args.from)
  /\ Weaker(M, Getting(L, c.args.to))
SuitsDelete(L, c, M) ==
  c.op = "delete" /\ Strict(c) /\ Weaker(M, Losing(L, c.args.slot))
SuitsMove(L, c, N) ==
  /\ c.op = "move" /\ c.expects = "FailedLookup" /\ c.skip = 0
  /\ c.args.from \notin L.taken /\ c.args.to \notin L.taken
  /\ Weaker(N, L)
SuitsMapTable(L, c, M) ==
  /\ c.op = "mapTable" /\ c.expects = "NoError" /\ c.skip = 0
  /\ c.args.space = "root" /\ c.args.table \in L.slots
  /\ \A v \in L.levels : v = c.args.level - 1 \/ (c.ignored /\ v = c.args.level)
  /\ Weaker(M, [L EXCEPT !.levels = {c.args.level}])
SuitsPage(p, L, c) ==
  /\ c.args.frame \in L.slots /\ Origin(c.args.frame) = Page(p)
  /\ c.args.space \in Spaces /\ Place(p, c.args.frame) = c.args.space
  /\ L.running = {} /\ c.expects = "NoError"
SuitsMapPage(p, L, c, M, N) ==
  /\ c.op = "mapPage" /\ SuitsPage(p, L, c) /\ c.args.space = "root"
  /\ IF c.ignored THEN Weaker(N, [L EXCEPT !.levels = @ \ {3}])
     ELSE c.skip = 0 /\ L.levels \subseteq {3}
  /\ Weaker(M, Showing(L, "root", c.args.rights))
SuitsMapWithTables(p, L, c, M) ==
  /\ c.op = "mapWithTables" /\ SuitsPage(p, L, c) /\ Strict(c)
  /\ Weaker(M, Showing(L, c.args.space, "all"))
SuitsAccess(L, c, M) ==
  /\ c.op = "access" /\ Strict(c)
  /\ \E r \in {"all", c.args.kind} : <<"root", r>> \in L.mapped
  /\ Weaker(M, L)
SuitsSetThread(L, c, M) ==
  /\ c.op = "setThread" /\ Strict(c) /\ c.args.tcb \in L.slots
  /\ Origin(c.args.tcb) \in Threads /\ "resumed" \notin c.args.with
  /\ Weaker(M, Telling(L, Origin(c.args.tcb), c.args.with))
SuitsResume(p, L, c, M) ==
  /\ c.op = "resume" /\ Strict(c) /\ c.args.tcb \in L.slots
  /\ Origin(c.args.tcb) \in Threads
  /\ Equipped(p, Starting(L, Origin(c.args.tcb), {}), Origin(c.args.tcb))
  /\ Weaker(M, Starting(L, Origin(c.args.tcb), {}))
SuitsSuspend(c) == c.op = "suspend"
SuitsConfigure(p, L, c, M) ==
  /\ c.op = "configureProcess" /\ Strict(c) /\ MayAbort(p, L)
  /\ c.args.process \in Threads /\ "resumed" \notin c.args.with
  /\ Weaker(M, Telling(L, c.args.process, {"configured"} \cup c.args.with))
SuitsMintInto(p, L, c, M) ==
  /\ c.op = "mintInto" /\ Strict(c) /\ MayAbort(p, L)
  /\ c.args.process \in Threads /\ c.args.from \in L.slots /\ Origin(c.args.from) = "ep_object"
  /\ <<c.args.process, "configured">> \in L.told
  /\ Weaker(M, [L EXCEPT !.held = @ \cup {<<c.args.process, c.args.badge>>}])
SuitsSpawn(p, L, c, M) ==
  /\ c.op = "spawn" /\ Strict(c) /\ MayAbort(p, L)
  /\ c.args.process \in Threads
  /\ Equipped(p, Starting(L, c.args.process, {"registers"}), c.args.process)
  /\ Weaker(M, Starting(L, c.args.process, {"registers"}))
SuitsBind(L, c, M) ==
  /\ c.op = "bindIrq" /\ Strict(c) /\ {c.args.handler, c.args.ntfn} \subseteq L.slots
  /\ Weaker(M, [L EXCEPT !.irq = {"bound"}])
SuitsAck(L, c, M) ==
  /\ c.op = "ackIrq" /\ Strict(c) /\ c.args.handler \in L.slots
  /\ Weaker(M, [L EXCEPT !.irq = @ \cup {"acknowledged"}])
SuitsEnable(L, c, M) ==
  /\ c.op = "enableIrq" /\ Strict(c) /\ c.args.port \in L.slots
  /\ {"bound", "acknowledged"} \subseteq L.irq
  /\ Weaker(M, [L EXCEPT !.irq = @ \cup {"enabled"}])
SuitsSend(L, c, N) ==
  c.op = "send" /\ L.heard = {} /\ Weaker(N, [L EXCEPT !.heard = {"reply"}])
SuitsCheckReply(L, c, M) ==
  c.op = "checkReply" /\ Strict(c) /\ "reply" \in L.heard /\ Weaker(M, L)

(* The call c of program p is made with what L says, M says what holds     *)
(* after it succeeded, N what holds after an error it passed over.         *)
Suits(p, L, c, M, N) ==
  \/ SuitsBegin(p, L, c, M, N) \/ SuitsAlloc(p, L, c, M) \/ SuitsForget(L, c, M)
  \/ SuitsMint(p, L, c, M) \/ SuitsDelete(L, c, M) \/ SuitsMove(L, c, N)
  \/ SuitsMapTable(L, c, M) \/ SuitsMapPage(p, L, c, M, N) \/ SuitsMapWithTables(p, L, c, M)
  \/ SuitsAccess(L, c, M) \/ SuitsSetThread(L, c, M) \/ SuitsResume(p, L, c, M)
  \/ SuitsSuspend(c) \/ SuitsConfigure(p, L, c, M) \/ SuitsMintInto(p, L, c, M)
  \/ SuitsSpawn(p, L, c, M) \/ SuitsBind(L, c, M) \/ SuitsAck(L, c, M) \/ SuitsEnable(L, c, M)
  \/ SuitsSend(L, c, N) \/ SuitsCheckReply(L, c, M)

-----------------------------------------------------------------------------
(* The ledger of each program at its call j: what its call i made is there *)
(* from the next call on, or from one call to another.                     *)
Since(i, j, S) == IF i < j THEN S ELSE {}
During(i, l, j, S) == IF i < j /\ j <= l THEN S ELSE {}

Initial == {"seL4_CapInitThreadTCB"}

Plain(slots, told, held, running) ==
  [slots |-> slots, taken |-> slots, levels |-> 0 .. 3, told |-> told, held |-> held,
   mapped |-> {}, irq |-> {}, running |-> running, heard |-> {}]

Known1(j) ==
  Plain(Initial \cup Since(2, j, {"tcb_object"}),
        Since(3, j, {<<"tcb_object", "configured">>})
        \cup Since(4, j, {<<"tcb_object", "priority">>})
        \cup Since(5, j, {<<"tcb_object", "registers">>}),
        {}, Since(6, j, {"tcb_object"}))

Known2(j) ==
  [slots |-> Initial \cup Since(2, j, {"tcb_object"}) \cup Since(3, j, {"ipc_frame_object"})
             \cup During(5, 7, j, {"pt_object"})
             \cup Since(8, j, {"ep_object"}) \cup Since(9, j, {"ep_cap_path"}),
   taken |-> Initial \cup Since(2, j, {"tcb_object"}) \cup Since(3, j, {"ipc_frame_object"})
             \cup Since(5, j, {"pt_object"})
             \cup Since(8, j, {"ep_object"}) \cup Since(9, j, {"ep_cap_path"}),
   levels |-> IF j \in {5, 6} THEN {2} ELSE IF j = 7 THEN {3} ELSE {2, 3},
   told |-> Since(10, j, {<<"tcb_object", "configured">>, <<"tcb_object", "buffer">>})
            \cup Since(11, j, {<<"tcb_object", "registers">>})
            \cup Since(12, j, {<<"tcb_object", "tls">>}),
   held |-> {},
   mapped |-> Since(7, j, {<<"root", "all">>}),
   irq |-> {},
   running |-> Since(13, j, {"tcb_object"}),
   heard |-> Since(14, j, {"reply"})]

Known3(j) ==
  [slots |-> Initial \cup Since(4, j, {"ep_object"}) \cup Since(5, j, {"irq_ntfn"})
             \cup Since(6, j, {"com2_irq_path"}) \cup Since(9, j, {"shared_frame_obj"})
             \cup Since(10, j, {"frame_path_root"}) \cup Since(12, j, {"com2_ioport_path"}),
   taken |-> Initial \cup Since(4, j, {"ep_object"}) \cup Since(5, j, {"irq_ntfn"})
             \cup Since(6, j, {"com2_irq_path"}) \cup Since(9, j, {"shared_frame_obj"})
             \cup Since(10, j, {"frame_path_root"}) \cup Since(12, j, {"com2_ioport_path"}),
   levels |-> 0 .. 3,
   told |-> Since(14, j, {<<"client", "configured">>, <<"client", "priority">>})
            \cup Since(18, j, {<<"client", "registers">>}),
   held |-> Since(15, j, {<<"client", CLIENT_BADGE_AUTH>>})
            \cup Since(16, j, {<<"client", CLIENT_BADGE_UNAUTH>>}),
   mapped |-> Since(11, j, {<<"root", "all">>}) \cup Since(17, j, {<<"client", "all">>}),
   irq |-> Since(7, j, {"bound"}) \cup Since(8, j, {"acknowledged"})
           \cup Since(13, j, {"enabled"}),
   running |-> Since(18, j, {"client"}),
   heard |-> {}]

KnownBak(j) ==
  [slots |-> Initial \cup Since(4, j, {"ep_object"}) \cup Since(5, j, {"root_call_ep_path"})
             \cup Since(6, j, {"fault_ep_obj"}) \cup Since(7, j, {"shared_frame_obj"})
             \cup Since(8, j, {"frame_path_root"}),
   taken |-> Initial \cup Since(4, j, {"ep_object"}) \cup Since(5, j, {"root_call_ep_path"})
             \cup Since(6, j, {"fault_ep_obj"}) \cup Since(7, j, {"shared_frame_obj"})
             \cup Since(8, j, {"frame_path_root"}),
   levels |-> 0 .. 3,
   told |-> Since(10, j, {<<"compute_srv", "configured">>, <<"compute_srv", "fault endpoint">>,
                          <<"compute_srv", "priority">>})
            \cup Since(13, j, {<<"compute_srv", "registers">>}),
   held |-> Since(11, j, {<<"compute_srv", 0>>}),
   mapped |-> Since(9, j, {<<"root", "all">>}) \cup Since(12, j, {<<"compute_srv", "all">>}),
   irq |-> {},
   running |-> Since(13, j, {"compute_srv"}),
   heard |-> {}]

KnownMultiserver(j) ==
  Plain(Initial \cup Since(4, j, {"ep_object"}),
        Since(5, j, {<<"compute_srv", "configured">>, <<"compute_srv", "priority">>})
        \cup Since(7, j, {<<"compute_srv", "registers">>})
        \cup Since(8, j, {<<"client", "configured">>, <<"client", "priority">>})
        \cup Since(10, j, {<<"client", "registers">>}),
        Since(6, j, {<<"compute_srv", 0>>}) \cup Since(9, j, {<<"client", CLIENT_BADGE_AUTH>>}),
        Since(7, j, {"compute_srv"}) \cup Since(10, j, {"client"}))

Known4(j) ==
  Plain(Initial \cup Since(5, j, {"ep_object"})
          \cup During(8, 9, j, {"ntfn_object"}) \cup Since(10, j, {"ntfn_object"}),
        Since(4, j, {<<"client", "configured">>, <<"client", "priority">>})
        \cup Since(7, j, {<<"client", "registers">>}),
        Since(6, j, {<<"client", EP_BADGE>>}),
        Since(7, j, {"client"}))

KnownCapabilities(j) ==
  Plain(Initial \cup During(1, 4, j, {"first_free_slot"}) \cup During(2, 5, j, {"last_slot"}),
        {}, {}, {})

KnownMapping(j) ==
  [slots |-> Initial \cup Since(1, j, {"frame"}) \cup Since(2, j, {"pdpt"})
             \cup Since(3, j, {"pd"}) \cup Since(4, j, {"pt"}),
   taken |-> Initial \cup Since(1, j, {"frame"}) \cup Since(2, j, {"pdpt"})
             \cup Since(3, j, {"pd"}) \cup Since(4, j, {"pt"}),
   levels |-> IF j <= 5 THEN {0, 1} ELSE IF j = 6 THEN {1} ELSE IF j = 7 THEN {2} ELSE {3},
   told |-> {}, held |-> {},
   mapped |-> During(8, 10, j, {<<"root", "read">>}) \cup Since(10, j, {<<"root", "all">>}),
   irq |-> {}, running |-> {}, heard |-> {}]

Known(p, j) ==
  [libraries1 |-> Known1(j), libraries2 |-> Known2(j), libraries3 |-> Known3(j),
   bak |-> KnownBak(j), multiserver |-> KnownMultiserver(j), libraries4 |-> Known4(j),
   capabilities |-> KnownCapabilities(j), mapping |-> KnownMapping(j)][p]

(* The call c suits the ledgers of p's calls as its j-th; and the calls of *)
(* a part of the program do, one by one, the first being its call h + 1.   *)
Line(p, j, c) == Suits(p, Known(p, j), c, Known(p, j + 1 + c.skip), Known(p, j + 1))

Follows(p, s, h) == \A j \in 1 .. Len(s) : Line(p, h + j, s[j])

LEMMA KnownAre ==
  \A j : /\ Known("libraries1", j) = Known1(j) /\ Known("libraries2", j) = Known2(j)
         /\ Known("libraries3", j) = Known3(j) /\ Known("bak", j) = KnownBak(j)
         /\ Known("multiserver", j) = KnownMultiserver(j) /\ Known("libraries4", j) = Known4(j)
         /\ Known("capabilities", j) = KnownCapabilities(j)
         /\ Known("mapping", j) = KnownMapping(j)
  BY DEF Known


-----------------------------------------------------------------------------
(* The objects after a call agree with the ledger the call leaves.         *)
LEMMA WeakerAgrees ==
  ASSUME NEW p, NEW k, NEW m, NEW L, NEW M, Agrees(p, k, m, L), Weaker(M, L)
  PROVE  Agrees(p, k, m, M)
  BY DEF Agrees, Weaker

LEMMA FillAgrees ==
  ASSUME NEW p, NEW k, NEW m, NEW L, Agrees(p, k, m, L), DOMAIN L = LedgerFields,
         NEW slot, NEW cap, DOMAIN cap = {"object", "space"}, cap.object = Origin(slot),
         cap.space = "none"
  PROVE  Agrees(p, Fill(k, slot, cap), m, Getting(L, slot))
  BY DEF Agrees, Fill, Getting, LedgerFields

LEMMA EmptyAgrees ==
  ASSUME NEW p, NEW k, NEW m, NEW L, Agrees(p, k, m, L), DOMAIN L = LedgerFields, NEW slot
  PROVE  Agrees(p, Empty(k, slot), m, Losing(L, slot))
  BY DEF Agrees, Empty, Losing, LedgerFields

LEMMA TellAgrees ==
  ASSUME NEW p, NEW k, NEW m, NEW L, Agrees(p, k, m, L), DOMAIN L = LedgerFields,
         NEW t \in Threads, NEW with, "resumed" \notin with
  PROVE  Agrees(p, Tell(k, t, with), m, Telling(L, t, with))
  BY DEF Agrees, Tell, Telling, LedgerFields

LEMMA StartAgrees ==
  ASSUME NEW p, NEW k, NEW m, NEW L, Agrees(p, k, m, L), DOMAIN L = LedgerFields,
         NEW t \in Threads, NEW with
  PROVE  Agrees(p, Tell(k, t, with \cup {"resumed"}), m, Starting(L, t, with))
  BY DEF Agrees, Tell, Starting, LedgerFields

LEMMA TableAgrees ==
  ASSUME NEW p, NEW k, NEW m, NEW L, Agrees(p, k, m, L), DOMAIN L = LedgerFields, NEW v
  PROVE  Agrees(p, [k EXCEPT !.tables["root"] = v], m, [L EXCEPT !.levels = {v}])
  BY DEF Agrees, LedgerFields, Spaces

LEMMA ShowAgrees ==
  ASSUME NEW p, NEW k, NEW m, NEW L, Agrees(p, k, m, L), DOMAIN L = LedgerFields,
         NEW slot \in L.slots, Origin(slot) = Page(p), NEW rights
  PROVE  LET s == Place(p, slot)
         IN Agrees(p, [k EXCEPT !.pages[s] = [object |-> k.caps[slot].object, rights |-> rights],
                                !.caps[slot].space = s, !.tables[s] = 3],
                   m, Showing(L, s, rights))
  <1> DEFINE s == Place(p, slot)
             K == [k EXCEPT !.pages[s] = [object |-> k.caps[slot].object, rights |-> rights],
                            !.caps[slot].space = s, !.tables[s] = 3]
             M == Showing(L, s, rights)
  <1>1. s \in Spaces
    BY DEF Place, Spaces
  <1>2. k.caps[slot].object = Page(p) /\ slot \in DOMAIN k.caps
    BY DEF Agrees
  <1>3. /\ DOMAIN K = DOMAIN k /\ K.facts = k.facts /\ K.held = k.held /\ K.irq = k.irq
        /\ K.pages = [k.pages EXCEPT ![s] = [object |-> Page(p), rights |-> rights]]
        /\ K.tables = [k.tables EXCEPT ![s] = 3]
        /\ K.caps = [k.caps EXCEPT ![slot].space = s]
    BY <1>2 DEF Agrees
  <1>4. /\ M.slots = L.slots /\ M.taken = L.taken /\ M.levels = L.levels \cup {3}
        /\ M.mapped = {x \in L.mapped : x[1] # s} \cup {<<s, rights>>}
        /\ M.told = L.told /\ M.held = L.held /\ M.irq = L.irq
        /\ M.running = L.running /\ M.heard = L.heard
    BY DEF Showing, LedgerFields
  <1> HIDE DEF s, K, M
  <1>5. \A c \in DOMAIN K.caps :
          /\ DOMAIN K.caps[c] = {"object", "space"} /\ K.caps[c].object = Origin(c)
          /\ K.caps[c].space \in {"none", Place(p, c)}
    BY <1>3 DEF Agrees, s
  <1>6. \A x \in M.mapped : K.pages[x[1]] = [object |-> Page(p), rights |-> x[2]]
    BY <1>1, <1>3, <1>4 DEF Agrees
  <1>7. \A r \in Spaces : K.pages[r].object \in {"none", Page(p)}
    BY <1>1, <1>3 DEF Agrees
  <1>8. K.tables["root"] \in M.levels /\ DOMAIN K.tables = Spaces /\ DOMAIN K.pages = Spaces
    BY <1>1, <1>3, <1>4 DEF Agrees, Spaces
  <1>9. Agrees(p, K, m, M)
    BY <1>3, <1>4, <1>5, <1>6, <1>7, <1>8 DEF Agrees
  <1> QED
    BY <1>9 DEF s, K, M

LEMMA GiveAgrees ==
  ASSUME NEW p, NEW k, NEW m, NEW L, Agrees(p, k, m, L), DOMAIN L = LedgerFields,
         NEW t \in Threads, NEW badge
  PROVE  Agrees(p, [k EXCEPT !.held[t] = @ \cup {<<"ep_object", badge>>}], m,
                [L EXCEPT !.held = @ \cup {<<t, badge>>}])
  BY DEF Agrees, LedgerFields

LEMMA IrqAgrees ==
  ASSUME NEW p, NEW k, NEW m, NEW L, Agrees(p, k, m, L), DOMAIN L = LedgerFields, NEW what
  PROVE  /\ Agrees(p, [k EXCEPT !.irq = {what}], m, [L EXCEPT !.irq = {what}])
         /\ Agrees(p, [k EXCEPT !.irq = @ \cup {what}], m, [L EXCEPT !.irq = @ \cup {what}])
  BY DEF Agrees, LedgerFields

(* What a thread lacks of what it uses, in objects k; it is nothing when   *)
(* the objects have all that the program's threads need.                   *)
Needed(p) ==
  {"configured", "registers"}
  \cup (IF p = "libraries1" THEN {"priority"} ELSE {})
  \cup (IF p = "libraries2" THEN {"buffer", "tls"} ELSE {})
  \cup (IF p = "bak" THEN {"fault endpoint"} ELSE {})

Badges(p, t) ==
  CASE p = "libraries3" -> {CLIENT_BADGE_AUTH, CLIENT_BADGE_UNAUTH}
    [] p = "multiserver" /\ t = "client" -> {CLIENT_BADGE_AUTH}
    [] p = "libraries4" -> {EP_BADGE}
    [] p = "bak" \/ (p = "multiserver" /\ t # "client") -> {0}
    [] OTHER -> {}

Lacking(p, k, t) ==
  (Needed(p) \ k.facts[t])
  \cup {"endpoint" : w \in {w \in Badges(p, t) : <<"ep_object", w>> \notin k.held[t]}}
  \cup (IF p \in {"libraries3", "bak"} /\ k.pages[t] # k.pages["root"]
        THEN {"shared page"} ELSE {})
  \cup (IF p = "libraries2" /\ k.pages["root"].rights # "all" THEN {"page"} ELSE {})

LEMMA LackingIs == \A t : Missing(t) = Lacking(program, kernel, t)
  BY DEF Missing, Lacking, Needed, Badges

Furnished(p, k, t) ==
  /\ Needed(p) \subseteq k.facts[t]
  /\ \A w \in Badges(p, t) : <<"ep_object", w>> \in k.held[t]
  /\ p \in {"libraries3", "bak"} => k.pages[t] = k.pages["root"]
  /\ p = "libraries2" => k.pages["root"].rights = "all"

LEMMA LacksNothing ==
  ASSUME NEW p, NEW k, NEW t
  PROVE  Furnished(p, k, t) <=> Lacking(p, k, t) = {}
  <1> DEFINE A == Needed(p) \ k.facts[t]
             B == {w \in Badges(p, t) : <<"ep_object", w>> \notin k.held[t]}
             C == {"endpoint" : w \in B}
             D == IF p \in {"libraries3", "bak"} /\ k.pages[t] # k.pages["root"]
                  THEN {"shared page"} ELSE {}
             E == IF p = "libraries2" /\ k.pages["root"].rights # "all" THEN {"page"} ELSE {}
  <1>1. A = {} <=> Needed(p) \subseteq k.facts[t]
    OBVIOUS
  <1>2. C = {} <=> \A w \in Badges(p, t) : <<"ep_object", w>> \in k.held[t]
    <2>1. C = {} <=> B = {}
      <3> HIDE DEF B
      <3> QED
        OBVIOUS
    <2> QED
      BY <2>1
  <1>3. D = {} <=> (p \in {"libraries3", "bak"} => k.pages[t] = k.pages["root"])
    OBVIOUS
  <1>4. E = {} <=> (p = "libraries2" => k.pages["root"].rights = "all")
    OBVIOUS
  <1>5. Lacking(p, k, t) = A \cup C \cup D \cup E
    BY DEF Lacking
  <1> HIDE DEF A, B, C, D, E
  <1>6. Lacking(p, k, t) = {} <=> A = {} /\ C = {} /\ D = {} /\ E = {}
    BY <1>5
  <1> QED
    BY <1>1, <1>2, <1>3, <1>4, <1>6 DEF Furnished

(* What the ledger says a thread has it has, and it keeps it.              *)
LEMMA EquippedIsFurnished ==
  ASSUME NEW p, NEW k, NEW m, NEW L, Agrees(p, k, m, L), NEW t, Equipped(p, L, t)
  PROVE  Furnished(p, k, t)
  <1>1. Needed(p) \subseteq k.facts[t]
    BY DEF Needed, Equipped, Agrees
  <1>2. \A w \in Badges(p, t) : <<"ep_object", w>> \in k.held[t]
    <2>1. ASSUME NEW w, <<t, w>> \in L.held
          PROVE  <<"ep_object", w>> \in k.held[t]
      <3>1. <<"ep_object", <<t, w>>[2]>> \in k.held[<<t, w>>[1]]
        BY <2>1, Zenon DEF Agrees
      <3> QED
        BY <3>1
    <2>2. \A w \in Badges(p, t) : <<t, w>> \in L.held
      BY DEF Badges, Equipped
    <2> QED
      BY <2>1, <2>2
  <1>3. /\ p \in {"libraries3", "bak"} => k.pages[t] = k.pages["root"]
        /\ p = "libraries2" => k.pages["root"].rights = "all"
    <2>1. ASSUME NEW s, <<s, "all">> \in L.mapped
          PROVE  k.pages[s] = [object |-> Page(p), rights |-> "all"]
      <3>1. k.pages[<<s, "all">>[1]] = [object |-> Page(p), rights |-> <<s, "all">>[2]]
        BY <2>1, Zenon DEF Agrees
      <3> QED
        BY <3>1
    <2>2. /\ p \in {"libraries3", "bak"} => {<<"root", "all">>, <<t, "all">>} \subseteq L.mapped
          /\ p = "libraries2" => <<"root", "all">> \in L.mapped
      BY Zenon DEF Equipped
    <2> QED
      BY <2>1, <2>2
  <1> QED
    BY <1>1, <1>2, <1>3 DEF Furnished

LEMMA StaysFurnished ==
  ASSUME NEW p, NEW k, NEW l, NEW t, Furnished(p, k, t),
         k.facts[t] \subseteq l.facts[t], k.held[t] \subseteq l.held[t], l.pages = k.pages
  PROVE  Furnished(p, l, t)
  BY DEF Furnished

-----------------------------------------------------------------------------
(* Each program, call by call: the call suits the ledger before it and the *)
(* ledgers after it.                                                       *)
LEMMA Libraries1Calls ==
  /\ Line("libraries1", 1, Begin("allocman"))
  /\ Line("libraries1", 2, Alloc("tcb_object"))
  /\ Line("libraries1", 3, SetThread("tcb_object", {"configured"}))
  /\ Line("libraries1", 4, SetThread("tcb_object", {"priority"}))
  /\ Line("libraries1", 5, SetThread("tcb_object", {"registers"}))
  /\ Line("libraries1", 6, Resume("tcb_object"))
  <1> USE KnownAre DEF Line, Call, Weaker, Strict, MayAbort, Known1, Since, During,
                       Initial, Plain, Origin, Threads, Spaces
  <1>1. Line("libraries1", 1, Begin("allocman"))
    BY DEF Suits, SuitsBegin, Begin
  <1>2. Line("libraries1", 2, Alloc("tcb_object"))
    BY DEF Suits, SuitsAlloc, Alloc, Getting
  <1>3. Line("libraries1", 3, SetThread("tcb_object", {"configured"}))
    BY DEF Suits, SuitsSetThread, SetThread, Telling
  <1>4. Line("libraries1", 4, SetThread("tcb_object", {"priority"}))
    BY DEF Suits, SuitsSetThread, SetThread, Telling
  <1>5. Line("libraries1", 5, SetThread("tcb_object", {"registers"}))
    BY DEF Suits, SuitsSetThread, SetThread, Telling
  <1>6. Line("libraries1", 6, Resume("tcb_object"))
    BY DEF Suits, SuitsResume, Resume, Starting, Equipped
  <1> QED
    BY <1>1, <1>2, <1>3, <1>4, <1>5, <1>6, Zenon

LEMMA Libraries2Calls ==
  /\ Line("libraries2", 1, Begin("allocman"))
  /\ Line("libraries2", 2, Alloc("tcb_object"))
  /\ Line("libraries2", 3, Alloc("ipc_frame_object"))
  /\ Line("libraries2", 4, Skipping(Ignored(MapPage("ipc_frame_object", "root", "all")), 3))
  /\ Line("libraries2", 5, Alloc("pt_object"))
  /\ Line("libraries2", 6, MapTable(3, "pt_object", "root"))
  /\ Line("libraries2", 7, MapPage("ipc_frame_object", "root", "all"))
  /\ Line("libraries2", 8, Alloc("ep_object"))
  /\ Line("libraries2", 9, Mint("ep_object", "ep_cap_path", EP_BADGE))
  /\ Line("libraries2", 10, SetThread("tcb_object", {"configured", "buffer"}))
  /\ Line("libraries2", 11, SetThread("tcb_object", {"registers"}))
  /\ Line("libraries2", 12, SetThread("tcb_object", {"tls"}))
  /\ Line("libraries2", 13, Resume("tcb_object"))
  /\ Line("libraries2", 14, Send("ep_cap_path"))
  /\ Line("libraries2", 15, CheckReply)
  <1> USE KnownAre DEF Line, Call, Weaker, Strict, MayAbort, Known2, Since, During,
                       Initial, Plain, Origin, Threads, Spaces
  <1>1. Line("libraries2", 1, Begin("allocman"))
    BY DEF Suits, SuitsBegin, Begin
  <1>2. Line("libraries2", 2, Alloc("tcb_object"))
    BY DEF Suits, SuitsAlloc, Alloc, Getting
  <1>3. Line("libraries2", 3, Alloc("ipc_frame_object"))
    BY DEF Suits, SuitsAlloc, Alloc, Getting
  <1>4. Line("libraries2", 4, Skipping(Ignored(MapPage("ipc_frame_object", "root", "all")), 3))
    BY DEF Suits, SuitsMapPage, MapPage, Skipping, Ignored, Showing, SuitsPage, Page, Place
  <1>5. Line("libraries2", 5, Alloc("pt_object"))
    BY DEF Suits, SuitsAlloc, Alloc, Getting
  <1>6. Line("libraries2", 6, MapTable(3, "pt_object", "root"))
    BY DEF Suits, SuitsMapTable, MapTable
  <1>7. Line("libraries2", 7, MapPage("ipc_frame_object", "root", "all"))
    BY DEF Suits, SuitsMapPage, MapPage, Showing, SuitsPage, Page, Place
  <1>8. Line("libraries2", 8, Alloc("ep_object"))
    BY DEF Suits, SuitsAlloc, Alloc, Getting
  <1>9. Line("libraries2", 9, Mint("ep_object", "ep_cap_path", EP_BADGE))
    BY DEF Suits, SuitsMint, Mint, Getting
  <1>10. Line("libraries2", 10, SetThread("tcb_object", {"configured", "buffer"}))
    BY DEF Suits, SuitsSetThread, SetThread, Telling
  <1>11. Line("libraries2", 11, SetThread("tcb_object", {"registers"}))
    BY DEF Suits, SuitsSetThread, SetThread, Telling
  <1>12. Line("libraries2", 12, SetThread("tcb_object", {"tls"}))
    BY DEF Suits, SuitsSetThread, SetThread, Telling
  <1>13. Line("libraries2", 13, Resume("tcb_object"))
    BY DEF Suits, SuitsResume, Resume, Starting, Equipped
  <1>14. Line("libraries2", 14, Send("ep_cap_path"))
    BY DEF Suits, SuitsSend, Send
  <1>15. Line("libraries2", 15, CheckReply)
    BY DEF Suits, SuitsCheckReply, CheckReply
  <1> QED
    BY <1>1, <1>2, <1>3, <1>4, <1>5, <1>6, <1>7, <1>8, <1>9, <1>10, <1>11, <1>12, <1>13, <1>14,
       <1>15, Zenon

LEMMA Libraries3Calls ==
  /\ Line("libraries3", 1, Begin("allocman"))
  /\ Line("libraries3", 2, Begin("vspace"))
  /\ Line("libraries3", 3, Begin("pool"))
  /\ Line("libraries3", 4, Alloc("ep_object"))
  /\ Line("libraries3", 5, Alloc("irq_ntfn"))
  /\ Line("libraries3", 6, Alloc("com2_irq_path"))
  /\ Line("libraries3", 7, BindIrq("com2_irq_path", "irq_ntfn"))
  /\ Line("libraries3", 8, AckIrq("com2_irq_path"))
  /\ Line("libraries3", 9, Alloc("shared_frame_obj"))
  /\ Line("libraries3", 10, Copy("shared_frame_obj", "frame_path_root"))
  /\ Line("libraries3", 11, MapWithTables("frame_path_root", "root"))
  /\ Line("libraries3", 12, Alloc("com2_ioport_path"))
  /\ Line("libraries3", 13, EnableIrq("com2_ioport_path"))
  /\ Line("libraries3", 14, ConfigureProcess("client", {"priority"}))
  /\ Line("libraries3", 15, MintInto("client", "ep_object", CLIENT_BADGE_AUTH))
  /\ Line("libraries3", 16, MintInto("client", "ep_object", CLIENT_BADGE_UNAUTH))
  /\ Line("libraries3", 17, MapWithTables("shared_frame_obj", "client"))
  /\ Line("libraries3", 18, Spawn("client"))
  <1> USE KnownAre DEF Line, Call, Weaker, Strict, MayAbort, Known3, Since, During,
                       Initial, Plain, Origin, Threads, Spaces
  <1>1. Line("libraries3", 1, Begin("allocman"))
    BY DEF Suits, SuitsBegin, Begin
  <1>2. Line("libraries3", 2, Begin("vspace"))
    BY DEF Suits, SuitsBegin, Begin
  <1>3. Line("libraries3", 3, Begin("pool"))
    BY DEF Suits, SuitsBegin, Begin
  <1>4. Line("libraries3", 4, Alloc("ep_object"))
    BY DEF Suits, SuitsAlloc, Alloc, Getting
  <1>5. Line("libraries3", 5, Alloc("irq_ntfn"))
    BY DEF Suits, SuitsAlloc, Alloc, Getting
  <1>6. Line("libraries3", 6, Alloc("com2_irq_path"))
    BY DEF Suits, SuitsAlloc, Alloc, Getting
  <1>7. Line("libraries3", 7, BindIrq("com2_irq_path", "irq_ntfn"))
    BY DEF Suits, SuitsBind, BindIrq
  <1>8. Line("libraries3", 8, AckIrq("com2_irq_path"))
    BY DEF Suits, SuitsAck, AckIrq
  <1>9. Line("libraries3", 9, Alloc("shared_frame_obj"))
    BY DEF Suits, SuitsAlloc, Alloc, Getting
  <1>10. Line("libraries3", 10, Copy("shared_frame_obj", "frame_path_root"))
    BY DEF Suits, SuitsMint, Copy, Mint, Getting
  <1>11. Line("libraries3", 11, MapWithTables("frame_path_root", "root"))
    BY DEF Suits, SuitsMapWithTables, MapWithTables, Showing, SuitsPage, Page, Place
  <1>12. Line("libraries3", 12, Alloc("com2_ioport_path"))
    BY DEF Suits, SuitsAlloc, Alloc, Getting
  <1>13. Line("libraries3", 13, EnableIrq("com2_ioport_path"))
    BY DEF Suits, SuitsEnable, EnableIrq
  <1>14. Line("libraries3", 14, ConfigureProcess("client", {"priority"}))
    BY DEF Suits, SuitsConfigure, ConfigureProcess, Telling
  <1>15. Line("libraries3", 15, MintInto("client", "ep_object", CLIENT_BADGE_AUTH))
    BY DEF Suits, SuitsMintInto, MintInto
  <1>16. Line("libraries3", 16, MintInto("client", "ep_object", CLIENT_BADGE_UNAUTH))
    BY DEF Suits, SuitsMintInto, MintInto
  <1>17. Line("libraries3", 17, MapWithTables("shared_frame_obj", "client"))
    BY DEF Suits, SuitsMapWithTables, MapWithTables, Showing, SuitsPage, Page, Place
  <1>18. Line("libraries3", 18, Spawn("client"))
    BY DEF Suits, SuitsSpawn, Spawn, Starting, Equipped
  <1> QED
    BY <1>1, <1>2, <1>3, <1>4, <1>5, <1>6, <1>7, <1>8, <1>9, <1>10, <1>11, <1>12, <1>13, <1>14,
       <1>15, <1>16, <1>17, <1>18, Zenon

(* The call of bak does what the ledger says of it: first that the ledger  *)
(* of the next call follows from this one's, then what the call needs.     *)
LEMMA BakLine ==
  ASSUME NEW j \in Nat, NEW c, c.skip = 0,
         Suits("bak", KnownBak(j), c, KnownBak(j + 1), KnownBak(j + 1))
  PROVE  Line("bak", j, c)
  <1>1. j + 1 + c.skip = j + 1
    OBVIOUS
  <1>2. \A i : Known("bak", i) = KnownBak(i)
    BY KnownAre
  <1> QED
    BY <1>1, <1>2 DEF Line

LEMMA BeginSuits ==
  ASSUME NEW p, NEW L, NEW M, NEW part, MayAbort(p, L), Weaker(M, L)
  PROVE  Suits(p, L, Begin(part), M, M)
  BY DEF Suits, SuitsBegin, Begin, Call

LEMMA BakCalls ==
  /\ Line("bak", 1, Begin("allocman"))
  /\ Line("bak", 2, Begin("vspace"))
  /\ Line("bak", 3, Begin("pool"))
  /\ Line("bak", 4, Alloc("ep_object"))
  /\ Line("bak", 5, Copy("ep_object", "root_call_ep_path"))
  /\ Line("bak", 6, Alloc("fault_ep_obj"))
  /\ Line("bak", 7, Alloc("shared_frame_obj"))
  /\ Line("bak", 8, Copy("shared_frame_obj", "frame_path_root"))
  /\ Line("bak", 9, MapWithTables("frame_path_root", "root"))
  /\ Line("bak", 10, ConfigureProcess("compute_srv", {"fault endpoint", "priority"}))
  /\ Line("bak", 11, MintInto("compute_srv", "ep_object", 0))
  /\ Line("bak", 12, MapWithTables("shared_frame_obj", "compute_srv"))
  /\ Line("bak", 13, Spawn("compute_srv"))
  <1>1. Line("bak", 1, Begin("allocman"))
    <2>1. Weaker(KnownBak(2), KnownBak(1))
      BY DEF KnownBak, Since, Initial, Weaker
    <2>2. KnownBak(1).running = {}
      BY DEF KnownBak, Since, Initial
    <2>3. Suits("bak", KnownBak(1), Begin("allocman"),
                KnownBak(2), KnownBak(2))
      BY <2>1, <2>2, BeginSuits DEF MayAbort
    <2>4. Begin("allocman").skip = 0
      BY DEF Begin, Call
    <2> QED
      BY <2>3, <2>4, BakLine
  <1>2. Line("bak", 2, Begin("vspace"))
    <2>1. Weaker(KnownBak(3), KnownBak(2))
      BY DEF KnownBak, Since, Initial, Weaker
    <2>2. KnownBak(2).running = {}
      BY DEF KnownBak, Since, Initial
    <2>3. Suits("bak", KnownBak(2), Begin("vspace"),
                KnownBak(3), KnownBak(3))
      BY <2>1, <2>2, BeginSuits DEF MayAbort
    <2>4. Begin("vspace").skip = 0
      BY DEF Begin, Call
    <2> QED
      BY <2>3, <2>4, BakLine
  <1>3. Line("bak", 3, Begin("pool"))
    <2>1. Weaker(KnownBak(4), KnownBak(3))
      BY DEF KnownBak, Since, Initial, Weaker
    <2>2. KnownBak(3).running = {}
      BY DEF KnownBak, Since, Initial
    <2>3. Suits("bak", KnownBak(3), Begin("pool"),
                KnownBak(4), KnownBak(4))
      BY <2>1, <2>2, BeginSuits DEF MayAbort
    <2>4. Begin("pool").skip = 0
      BY DEF Begin, Call
    <2> QED
      BY <2>3, <2>4, BakLine
  <1>4. Line("bak", 4, Alloc("ep_object"))
    <2>1. Weaker(KnownBak(5), Getting(KnownBak(4), "ep_object"))
      BY DEF KnownBak, Since, Initial, Weaker, Getting
    <2>2. KnownBak(4).running = {} /\ "ep_object" \notin KnownBak(4).taken
      BY DEF KnownBak, Since, Initial
    <2>3. Suits("bak", KnownBak(4), Alloc("ep_object"),
                KnownBak(5), KnownBak(5))
      BY <2>1, <2>2 DEF Alloc, Call, Strict, MayAbort, Origin, Suits, SuitsAlloc
    <2>4. Alloc("ep_object").skip = 0
      BY DEF Alloc, Call
    <2> QED
      BY <2>3, <2>4, BakLine
  <1>5. Line("bak", 5, Copy("ep_object", "root_call_ep_path"))
    <2>1. Weaker(KnownBak(6), Getting(KnownBak(5), "root_call_ep_path"))
      BY DEF KnownBak, Since, Initial, Weaker, Getting
    <2>2. /\ KnownBak(5).running = {}
          /\ "ep_object" \in KnownBak(5).slots
          /\ "root_call_ep_path" \notin KnownBak(5).taken
      BY DEF KnownBak, Since, Initial
    <2>3. Suits("bak", KnownBak(5), Copy("ep_object", "root_call_ep_path"),
                KnownBak(6), KnownBak(6))
      BY <2>1, <2>2 DEF Copy, Mint, Call, Strict, MayAbort, Origin, Suits, SuitsMint
    <2>4. Copy("ep_object", "root_call_ep_path").skip = 0
      BY DEF Copy, Mint, Call
    <2> QED
      BY <2>3, <2>4, BakLine
  <1>6. Line("bak", 6, Alloc("fault_ep_obj"))
    <2>1. Weaker(KnownBak(7), Getting(KnownBak(6), "fault_ep_obj"))
      BY DEF KnownBak, Since, Initial, Weaker, Getting
    <2>2. KnownBak(6).running = {} /\ "fault_ep_obj" \notin KnownBak(6).taken
      BY DEF KnownBak, Since, Initial
    <2>3. Suits("bak", KnownBak(6), Alloc("fault_ep_obj"),
                KnownBak(7), KnownBak(7))
      BY <2>1, <2>2 DEF Alloc, Call, Strict, MayAbort, Origin, Suits, SuitsAlloc
    <2>4. Alloc("fault_ep_obj").skip = 0
      BY DEF Alloc, Call
    <2> QED
      BY <2>3, <2>4, BakLine
  <1>7. Line("bak", 7, Alloc("shared_frame_obj"))
    <2>1. Weaker(KnownBak(8), Getting(KnownBak(7), "shared_frame_obj"))
      BY DEF KnownBak, Since, Initial, Weaker, Getting
    <2>2. KnownBak(7).running = {} /\ "shared_frame_obj" \notin KnownBak(7).taken
      BY DEF KnownBak, Since, Initial
    <2>3. Suits("bak", KnownBak(7), Alloc("shared_frame_obj"),
                KnownBak(8), KnownBak(8))
      BY <2>1, <2>2 DEF Alloc, Call, Strict, MayAbort, Origin, Suits, SuitsAlloc
    <2>4. Alloc("shared_frame_obj").skip = 0
      BY DEF Alloc, Call
    <2> QED
      BY <2>3, <2>4, BakLine
  <1>8. Line("bak", 8, Copy("shared_frame_obj", "frame_path_root"))
    <2>1. Weaker(KnownBak(9), Getting(KnownBak(8), "frame_path_root"))
      BY DEF KnownBak, Since, Initial, Weaker, Getting
    <2>2. /\ KnownBak(8).running = {}
          /\ "shared_frame_obj" \in KnownBak(8).slots
          /\ "frame_path_root" \notin KnownBak(8).taken
      BY DEF KnownBak, Since, Initial
    <2>3. Suits("bak", KnownBak(8), Copy("shared_frame_obj", "frame_path_root"),
                KnownBak(9), KnownBak(9))
      BY <2>1, <2>2 DEF Copy, Mint, Call, Strict, MayAbort, Origin, Suits, SuitsMint
    <2>4. Copy("shared_frame_obj", "frame_path_root").skip = 0
      BY DEF Copy, Mint, Call
    <2> QED
      BY <2>3, <2>4, BakLine
  <1>9. Line("bak", 9, MapWithTables("frame_path_root", "root"))
    <2>1. Weaker(KnownBak(10), Showing(KnownBak(9), "root", "all"))
      BY DEF KnownBak, Since, Initial, Weaker, Showing
    <2>2. KnownBak(9).running = {} /\ "frame_path_root" \in KnownBak(9).slots
      BY DEF KnownBak, Since, Initial
    <2>3. Suits("bak", KnownBak(9), MapWithTables("frame_path_root", "root"),
                KnownBak(10), KnownBak(10))
      BY <2>1, <2>2 DEF MapWithTables, Call, Strict, Spaces, Suits, SuitsMapWithTables, SuitsPage,
         Page, Place, Origin
    <2>4. MapWithTables("frame_path_root", "root").skip = 0
      BY DEF MapWithTables, Call
    <2> QED
      BY <2>3, <2>4, BakLine
  <1>10. Line("bak", 10, ConfigureProcess("compute_srv", {"fault endpoint", "priority"}))
    <2>1. Weaker(KnownBak(11), Telling(KnownBak(10), "compute_srv",
                   {"configured"} \cup {"fault endpoint", "priority"}))
      BY DEF KnownBak, Since, Initial, Weaker, Telling
    <2>2. KnownBak(10).running = {}
      BY DEF KnownBak, Since, Initial
    <2>3. Suits("bak", KnownBak(10),
                ConfigureProcess("compute_srv", {"fault endpoint", "priority"}),
                KnownBak(11), KnownBak(11))
      BY <2>1, <2>2 DEF ConfigureProcess, Call, Strict, MayAbort, Threads, Suits, SuitsConfigure
    <2>4. ConfigureProcess("compute_srv", {"fault endpoint", "priority"}).skip = 0
      BY DEF ConfigureProcess, Call
    <2>5. 10 \in Nat /\ 10 + 1 = 11
      OBVIOUS
    <2> QED
      BY <2>3, <2>4, <2>5, BakLine, Zenon
  <1>11. Line("bak", 11, MintInto("compute_srv", "ep_object", 0))
    <2>1. Weaker(KnownBak(12), [KnownBak(11) EXCEPT !.held = @ \cup {<<"compute_srv", 0>>}])
      BY DEF KnownBak, Since, Initial, Weaker
    <2>2. /\ KnownBak(11).running = {}
          /\ <<"compute_srv", "configured">> \in KnownBak(11).told
          /\ "ep_object" \in KnownBak(11).slots
      BY DEF KnownBak, Since, Initial
    <2>3. Suits("bak", KnownBak(11), MintInto("compute_srv", "ep_object", 0),
                KnownBak(12), KnownBak(12))
      BY <2>1, <2>2 DEF MintInto, Call, Strict, MayAbort, Threads, Origin, Suits, SuitsMintInto
    <2>4. MintInto("compute_srv", "ep_object", 0).skip = 0
      BY DEF MintInto, Call
    <2> QED
      BY <2>3, <2>4, BakLine
  <1>12. Line("bak", 12, MapWithTables("shared_frame_obj", "compute_srv"))
    <2>1. Weaker(KnownBak(13), Showing(KnownBak(12), "compute_srv", "all"))
      BY DEF KnownBak, Since, Initial, Weaker, Showing
    <2>2. KnownBak(12).running = {} /\ "shared_frame_obj" \in KnownBak(12).slots
      BY DEF KnownBak, Since, Initial
    <2>3. Suits("bak", KnownBak(12), MapWithTables("shared_frame_obj", "compute_srv"),
                KnownBak(13), KnownBak(13))
      BY <2>1, <2>2 DEF MapWithTables, Call, Strict, Spaces, Suits, SuitsMapWithTables, SuitsPage,
         Page, Place, Origin
    <2>4. MapWithTables("shared_frame_obj", "compute_srv").skip = 0
      BY DEF MapWithTables, Call
    <2> QED
      BY <2>3, <2>4, BakLine
  <1>13. Line("bak", 13, Spawn("compute_srv"))
    <2>1. Weaker(KnownBak(14), Starting(KnownBak(13), "compute_srv", {"registers"}))
      BY DEF KnownBak, Since, Initial, Weaker, Starting
    <2>2. KnownBak(13).running = {}
      BY DEF KnownBak, Since, Initial
    <2>0. Equipped("bak", Starting(KnownBak(13), "compute_srv", {"registers"}), "compute_srv")
      BY DEF KnownBak, Since, Initial, Starting, Equipped
    <2>3. Suits("bak", KnownBak(13), Spawn("compute_srv"),
                KnownBak(14), KnownBak(14))
      BY <2>1, <2>2, <2>0 DEF Spawn, Call, Strict, MayAbort, Threads, Suits, SuitsSpawn
    <2>4. Spawn("compute_srv").skip = 0
      BY DEF Spawn, Call
    <2> QED
      BY <2>3, <2>4, BakLine
  <1> QED
    BY <1>1, <1>2, <1>3, <1>4, <1>5, <1>6, <1>7, <1>8, <1>9,
       <1>10, <1>11, <1>12, <1>13, Zenon

LEMMA MultiserverCalls ==
  /\ Line("multiserver", 1, Begin("allocman"))
  /\ Line("multiserver", 2, Begin("vspace"))
  /\ Line("multiserver", 3, Begin("pool"))
  /\ Line("multiserver", 4, Alloc("ep_object"))
  /\ Line("multiserver", 5, ConfigureProcess("compute_srv", {"priority"}))
  /\ Line("multiserver", 6, MintInto("compute_srv", "ep_object", 0))
  /\ Line("multiserver", 7, Spawn("compute_srv"))
  /\ Line("multiserver", 8, ConfigureProcess("client", {"priority"}))
  /\ Line("multiserver", 9, MintInto("client", "ep_object", CLIENT_BADGE_AUTH))
  /\ Line("multiserver", 10, Spawn("client"))
  <1> USE KnownAre DEF Line, Call, Weaker, Strict, MayAbort, KnownMultiserver, Since, During,
                       Initial, Plain, Origin, Threads, Spaces
  <1>1. Line("multiserver", 1, Begin("allocman"))
    BY DEF Suits, SuitsBegin, Begin
  <1>2. Line("multiserver", 2, Begin("vspace"))
    BY DEF Suits, SuitsBegin, Begin
  <1>3. Line("multiserver", 3, Begin("pool"))
    BY DEF Suits, SuitsBegin, Begin
  <1>4. Line("multiserver", 4, Alloc("ep_object"))
    BY DEF Suits, SuitsAlloc, Alloc, Getting
  <1>5. Line("multiserver", 5, ConfigureProcess("compute_srv", {"priority"}))
    BY DEF Suits, SuitsConfigure, ConfigureProcess, Telling
  <1>6. Line("multiserver", 6, MintInto("compute_srv", "ep_object", 0))
    BY DEF Suits, SuitsMintInto, MintInto
  <1>7. Line("multiserver", 7, Spawn("compute_srv"))
    BY DEF Suits, SuitsSpawn, Spawn, Starting, Equipped
  <1>8. Line("multiserver", 8, ConfigureProcess("client", {"priority"}))
    BY DEF Suits, SuitsConfigure, ConfigureProcess, Telling
  <1>9. Line("multiserver", 9, MintInto("client", "ep_object", CLIENT_BADGE_AUTH))
    BY DEF Suits, SuitsMintInto, MintInto
  <1>10. Line("multiserver", 10, Spawn("client"))
    BY DEF Suits, SuitsSpawn, Spawn, Starting, Equipped
  <1> QED
    BY <1>1, <1>2, <1>3, <1>4, <1>5, <1>6, <1>7, <1>8, <1>9, <1>10, Zenon

LEMMA Libraries4Calls ==
  /\ Line("libraries4", 1, Begin("allocman"))
  /\ Line("libraries4", 2, Ignored(Begin("vspace")))
  /\ Line("libraries4", 3, Begin("pool"))
  /\ Line("libraries4", 4, ConfigureProcess("client", {"priority"}))
  /\ Line("libraries4", 5, Alloc("ep_object"))
  /\ Line("libraries4", 6, MintInto("client", "ep_object", EP_BADGE))
  /\ Line("libraries4", 7, Spawn("client"))
  /\ Line("libraries4", 8, Alloc("ntfn_object"))
  /\ Line("libraries4", 9, Forget("ntfn_object"))
  /\ Line("libraries4", 10, Alloc("ntfn_object"))
  /\ Line("libraries4", 11, Begin("timer"))
  <1> USE KnownAre DEF Line, Call, Weaker, Strict, MayAbort, Known4, Since, During,
                       Initial, Plain, Origin, Threads, Spaces
  <1>1. Line("libraries4", 1, Begin("allocman"))
    BY DEF Suits, SuitsBegin, Begin
  <1>2. Line("libraries4", 2, Ignored(Begin("vspace")))
    BY DEF Suits, SuitsBegin, Begin, Ignored
  <1>3. Line("libraries4", 3, Begin("pool"))
    BY DEF Suits, SuitsBegin, Begin
  <1>4. Line("libraries4", 4, ConfigureProcess("client", {"priority"}))
    BY DEF Suits, SuitsConfigure, ConfigureProcess, Telling
  <1>5. Line("libraries4", 5, Alloc("ep_object"))
    BY DEF Suits, SuitsAlloc, Alloc, Getting
  <1>6. Line("libraries4", 6, MintInto("client", "ep_object", EP_BADGE))
    BY DEF Suits, SuitsMintInto, MintInto
  <1>7. Line("libraries4", 7, Spawn("client"))
    BY DEF Suits, SuitsSpawn, Spawn, Starting, Equipped
  <1>8. Line("libraries4", 8, Alloc("ntfn_object"))
    BY DEF Suits, SuitsAlloc, Alloc, Getting
  <1>9. Line("libraries4", 9, Forget("ntfn_object"))
    BY DEF Suits, SuitsForget, Forget, Losing
  <1>10. Line("libraries4", 10, Alloc("ntfn_object"))
    BY DEF Suits, SuitsAlloc, Alloc, Getting
  <1>11. Line("libraries4", 11, Begin("timer"))
    BY DEF Suits, SuitsBegin, Begin
  <1> QED
    BY <1>1, <1>2, <1>3, <1>4, <1>5, <1>6, <1>7, <1>8, <1>9, <1>10, <1>11, Zenon

LEMMA CapabilitiesCalls ==
  /\ Line("capabilities", 1, Copy("seL4_CapInitThreadTCB", "first_free_slot"))
  /\ Line("capabilities", 2, Copy("seL4_CapInitThreadTCB", "last_slot"))
  /\ Line("capabilities", 3, SetThread("last_slot", {"priority"}))
  /\ Line("capabilities", 4, Delete("first_free_slot"))
  /\ Line("capabilities", 5, Delete("last_slot"))
  /\ Line("capabilities", 6, Expecting(Move("first_free_slot", "first_free_slot"), "FailedLookup"))
  /\ Line("capabilities", 7, Expecting(Move("last_slot", "last_slot"), "FailedLookup"))
  /\ Line("capabilities", 8, Suspend)
  <1> USE KnownAre DEF Line, Call, Weaker, Strict, MayAbort, KnownCapabilities, Since, During,
                       Initial, Plain, Origin, Threads, Spaces
  <1>1. Line("capabilities", 1, Copy("seL4_CapInitThreadTCB", "first_free_slot"))
    BY DEF Suits, SuitsMint, Copy, Mint, Getting
  <1>2. Line("capabilities", 2, Copy("seL4_CapInitThreadTCB", "last_slot"))
    BY DEF Suits, SuitsMint, Copy, Mint, Getting
  <1>3. Line("capabilities", 3, SetThread("last_slot", {"priority"}))
    BY DEF Suits, SuitsSetThread, SetThread, Telling
  <1>4. Line("capabilities", 4, Delete("first_free_slot"))
    BY DEF Suits, SuitsDelete, Delete, Losing
  <1>5. Line("capabilities", 5, Delete("last_slot"))
    BY DEF Suits, SuitsDelete, Delete, Losing
  <1>6. Line("capabilities", 6,
             Expecting(Move("first_free_slot", "first_free_slot"), "FailedLookup"))
    BY DEF Suits, SuitsMove, Move, Expecting
  <1>7. Line("capabilities", 7, Expecting(Move("last_slot", "last_slot"), "FailedLookup"))
    BY DEF Suits, SuitsMove, Move, Expecting
  <1>8. Line("capabilities", 8, Suspend)
    BY DEF Suits, SuitsSuspend, Suspend
  <1> QED
    BY <1>1, <1>2, <1>3, <1>4, <1>5, <1>6, <1>7, <1>8, Zenon

LEMMA MappingCalls ==
  /\ Line("mapping", 1, Alloc("frame"))
  /\ Line("mapping", 2, Alloc("pdpt"))
  /\ Line("mapping", 3, Alloc("pd"))
  /\ Line("mapping", 4, Alloc("pt"))
  /\ Line("mapping", 5, Ignored(MapTable(1, "pdpt", "root")))
  /\ Line("mapping", 6, MapTable(2, "pd", "root"))
  /\ Line("mapping", 7, MapTable(3, "pt", "root"))
  /\ Line("mapping", 8, MapPage("frame", "root", "read"))
  /\ Line("mapping", 9, Access("read"))
  /\ Line("mapping", 10, MapPage("frame", "root", "all"))
  /\ Line("mapping", 11, Access("all"))
  <1> USE KnownAre DEF Line, Call, Weaker, Strict, MayAbort, KnownMapping, Since, During,
                       Initial, Plain, Origin, Threads, Spaces
  <1>1. Line("mapping", 1, Alloc("frame"))
    BY DEF Suits, SuitsAlloc, Alloc, Getting
  <1>2. Line("mapping", 2, Alloc("pdpt"))
    BY DEF Suits, SuitsAlloc, Alloc, Getting
  <1>3. Line("mapping", 3, Alloc("pd"))
    BY DEF Suits, SuitsAlloc, Alloc, Getting
  <1>4. Line("mapping", 4, Alloc("pt"))
    BY DEF Suits, SuitsAlloc, Alloc, Getting
  <1>5. Line("mapping", 5, Ignored(MapTable(1, "pdpt", "root")))
    BY DEF Suits, SuitsMapTable, MapTable, Ignored
  <1>6. Line("mapping", 6, MapTable(2, "pd", "root"))
    BY DEF Suits, SuitsMapTable, MapTable
  <1>7. Line("mapping", 7, MapTable(3, "pt", "root"))
    BY DEF Suits, SuitsMapTable, MapTable
  <1>8. Line("mapping", 8, MapPage("frame", "root", "read"))
    BY DEF Suits, SuitsMapPage, MapPage, Showing, SuitsPage, Page, Place
  <1>9. Line("mapping", 9, Access("read"))
    BY DEF Suits, SuitsAccess, Access
  <1>10. Line("mapping", 10, MapPage("frame", "root", "all"))
    BY DEF Suits, SuitsMapPage, MapPage, Showing, SuitsPage, Page, Place
  <1>11. Line("mapping", 11, Access("all"))
    BY DEF Suits, SuitsAccess, Access
  <1> QED
    BY <1>1, <1>2, <1>3, <1>4, <1>5, <1>6, <1>7, <1>8, <1>9, <1>10, <1>11, Zenon

(* A part of a program, of the calls after its first h and up to its i-th, *)
(* and two parts in a row.                                                 *)
Part(p, s, h, i) == IsScript(s) /\ i = h + Len(s) /\ Follows(p, s, h)

LEMMA PartsJoin ==
  ASSUME NEW p, NEW s, NEW t, NEW h \in Nat, NEW i, NEW l, Part(p, s, h, i), Part(p, t, i, l)
  PROVE  Part(p, s \o t, h, l)
  <1> DEFINE u == s \o t
  <1>1. PICK X : s \in Seq(X) /\ t \in Seq(X)
    <2>1. PICK Y, Z : s \in Seq(Y) /\ t \in Seq(Z)
      BY DEF Part, IsScript
    <2>2. s \in Seq(Y \cup Z) /\ t \in Seq(Y \cup Z)
      BY <2>1
    <2> QED
      BY <2>2
  <1>2. /\ Len(u) = Len(s) + Len(t) /\ Len(s) \in Nat /\ Len(t) \in Nat
        /\ \A j \in 1 .. Len(s) : u[j] = s[j]
        /\ \A j \in (Len(s) + 1) .. Len(u) : u[j] = t[j - Len(s)]
    BY <1>1
  <1>3. ASSUME NEW j \in 1 .. Len(u)
        PROVE  Line(p, h + j, u[j])
    <2>1. CASE j <= Len(s)
      BY <1>2, <2>1 DEF Part, Follows
    <2>2. CASE j > Len(s)
      <3>1. /\ j - Len(s) \in 1 .. Len(t) /\ u[j] = t[j - Len(s)]
            /\ i = h + Len(s) /\ i + (j - Len(s)) = h + j
        BY <1>2, <2>2 DEF Part
      <3> QED
        BY <3>1 DEF Part, Follows
    <2> QED
      BY <1>2, <2>1, <2>2
  <1>4. IsScript(u)
    BY Concatenated DEF Part
  <1> QED
    BY <1>2, <1>3, <1>4 DEF Part, Follows

(* The eight programs as the parts their scripts are written as.           *)
LEMMA Libraries1Follows == Follows("libraries1", Libraries1, 0)
  <1>1. Len(Libraries1) = 6
    BY DEF Libraries1
  <1>2. ASSUME NEW j \in 1 .. 6
        PROVE  Line("libraries1", j, Libraries1[j])
    <2>1. j = 1 \/ j = 2 \/ j = 3 \/ j = 4 \/ j = 5 \/ j = 6
      OBVIOUS
    <2> QED
      BY <2>1, Libraries1Calls DEF Libraries1
  <1> QED
    BY <1>1, <1>2 DEF Follows

LEMMA Libraries2Follows == Follows("libraries2", Libraries2, 0)
  <1> DEFINE first == <<Begin("allocman"), Alloc("tcb_object")>>
             endpoint == <<Alloc("ep_object"), Mint("ep_object", "ep_cap_path", EP_BADGE)>>
  <1>1. Part("libraries2", first, 0, 2)
    <2>1. IsScript(first)
      BY PlainLines, Lines2
    <2> QED
      BY <2>1, Libraries2Calls DEF Part, Follows
  <1>2. Part("libraries2", BufferLines, 2, 7)
    <2>1. IsScript(BufferLines)
      BY PlainLines, Lines5 DEF BufferLines
    <2> QED
      BY <2>1, Libraries2Calls DEF Part, Follows, BufferLines
  <1>3. Part("libraries2", endpoint, 7, 9)
    <2>1. IsScript(endpoint)
      BY PlainLines, Lines2
    <2> QED
      BY <2>1, Libraries2Calls DEF Part, Follows
  <1>4. Part("libraries2", ThreadLines, 9, 13)
    <2>1. IsScript(ThreadLines)
      BY PlainLines, Lines4 DEF ThreadLines
    <2> QED
      BY <2>1, Libraries2Calls DEF Part, Follows, ThreadLines
  <1>5. Part("libraries2", CallLines, 13, 15)
    <2>1. IsScript(CallLines)
      BY CallLinesAre
    <2> QED
      BY <2>1, Libraries2Calls DEF Part, Follows, CallLines
  <1>6. Part("libraries2", first \o BufferLines, 0, 7)
    BY <1>1, <1>2, PartsJoin, 0 \in Nat, Zenon
  <1>7. Part("libraries2", first \o BufferLines \o endpoint, 0, 9)
    BY <1>6, <1>3, PartsJoin, 0 \in Nat, Zenon
  <1>8. Part("libraries2", first \o BufferLines \o endpoint \o ThreadLines, 0, 13)
    BY <1>7, <1>4, PartsJoin, 0 \in Nat, Zenon
  <1>9. Part("libraries2", Libraries2, 0, 15)
    BY <1>8, <1>5, PartsJoin, 0 \in Nat, Zenon DEF Libraries2
  <1> QED
    BY <1>9 DEF Part

LEMMA Libraries3Follows == Follows("libraries3", Libraries3, 0)
  <1> DEFINE endpoint == <<Alloc("ep_object")>>
  <1>1. Part("libraries3", LibraryLines, 0, 3)
    <2>1. IsScript(LibraryLines)
      BY LibraryLinesAre
    <2> QED
      BY <2>1, Libraries3Calls DEF Part, Follows, LibraryLines
  <1>2. Part("libraries3", endpoint, 3, 4)
    <2>1. IsScript(endpoint)
      BY PlainLines, Lines1
    <2> QED
      BY <2>1, Libraries3Calls DEF Part, Follows
  <1>3. Part("libraries3", IrqLines, 4, 8)
    <2>1. IsScript(IrqLines)
      BY PlainLines, Lines4 DEF IrqLines
    <2> QED
      BY <2>1, Libraries3Calls DEF Part, Follows, IrqLines
  <1>4. Part("libraries3", SharedLines, 8, 11)
    <2>1. IsScript(SharedLines)
      BY SharedLinesAre
    <2> QED
      BY <2>1, Libraries3Calls DEF Part, Follows, SharedLines
  <1>5. Part("libraries3", UartLines, 11, 13)
    <2>1. IsScript(UartLines)
      BY PlainLines, Lines2 DEF UartLines
    <2> QED
      BY <2>1, Libraries3Calls DEF Part, Follows, UartLines
  <1>6. Part("libraries3", ClientLines, 13, 18)
    <2>1. IsScript(ClientLines)
      BY PlainLines, Lines5 DEF ClientLines
    <2> QED
      BY <2>1, Libraries3Calls DEF Part, Follows, ClientLines
  <1>7. Part("libraries3", LibraryLines \o endpoint, 0, 4)
    BY <1>1, <1>2, PartsJoin, 0 \in Nat, Zenon
  <1>8. Part("libraries3", LibraryLines \o endpoint \o IrqLines, 0, 8)
    BY <1>7, <1>3, PartsJoin, 0 \in Nat, Zenon
  <1>9. Part("libraries3", LibraryLines \o endpoint \o IrqLines \o SharedLines, 0, 11)
    BY <1>8, <1>4, PartsJoin, 0 \in Nat, Zenon
  <1>10. Part("libraries3", LibraryLines \o endpoint \o IrqLines \o SharedLines \o UartLines, 0, 13)
    BY <1>9, <1>5, PartsJoin, 0 \in Nat, Zenon
  <1>11. Part("libraries3", Libraries3, 0, 18)
    BY <1>10, <1>6, PartsJoin, 0 \in Nat, Zenon DEF Libraries3
  <1> QED
    BY <1>11 DEF Part

LEMMA BakFollows == Follows("bak", Bak, 0)
  <1> DEFINE configure == ConfigureProcess("compute_srv", {"fault endpoint", "priority"})
             calls == <<Alloc("ep_object"), Copy("ep_object", "root_call_ep_path"),
                        Alloc("fault_ep_obj")>>
  <1>1. /\ Line("bak", 1, Begin("allocman")) /\ Line("bak", 2, Begin("vspace"))
        /\ Line("bak", 3, Begin("pool")) /\ Line("bak", 4, Alloc("ep_object"))
        /\ Line("bak", 5, Copy("ep_object", "root_call_ep_path"))
        /\ Line("bak", 6, Alloc("fault_ep_obj")) /\ Line("bak", 7, Alloc("shared_frame_obj"))
        /\ Line("bak", 8, Copy("shared_frame_obj", "frame_path_root"))
        /\ Line("bak", 9, MapWithTables("frame_path_root", "root"))
        /\ Line("bak", 10, configure)
        /\ Line("bak", 11, MintInto("compute_srv", "ep_object", 0))
        /\ Line("bak", 12, MapWithTables("shared_frame_obj", "compute_srv"))
        /\ Line("bak", 13, Spawn("compute_srv"))
    BY BakCalls, Zenon
  <1>2. ServerLines = <<configure, MintInto("compute_srv", "ep_object", 0),
                        MapWithTables("shared_frame_obj", "compute_srv"), Spawn("compute_srv")>>
    BY Zenon DEF ServerLines
  <1>3. IsPlain(configure)
    BY PlainLines, Zenon
  <1> HIDE DEF configure
  <1>4. Part("bak", LibraryLines, 0, 3)
    BY <1>1, LibraryLinesAre DEF Part, Follows, LibraryLines
  <1>5. Part("bak", calls, 3, 6)
    <2>1. IsScript(calls)
      BY PlainLines, Lines3
    <2> QED
      BY <1>1, <2>1 DEF Part, Follows
  <1>6. Part("bak", SharedLines, 6, 9)
    BY <1>1, SharedLinesAre DEF Part, Follows, SharedLines
  <1>7. Part("bak", ServerLines, 9, 13)
    <2>1. IsScript(ServerLines)
      BY <1>2, <1>3, PlainLines, Lines4
    <2> QED
      BY <1>1, <1>2, <2>1 DEF Part, Follows
  <1>8. Part("bak", LibraryLines \o calls, 0, 6)
    BY <1>4, <1>5, PartsJoin, 0 \in Nat, Zenon
  <1>9. Part("bak", (LibraryLines \o calls) \o SharedLines, 0, 9)
    BY <1>6, <1>8, PartsJoin, 0 \in Nat, Zenon
  <1>10. Part("bak", Bak, 0, 13)
    BY <1>7, <1>9, PartsJoin, 0 \in Nat, Zenon DEF Bak
  <1> QED
    BY <1>10 DEF Part

LEMMA MultiserverFollows == Follows("multiserver", Multiserver, 0)
  <1>1. Part("multiserver", LibraryLines, 0, 3)
    <2>1. IsScript(LibraryLines)
      BY LibraryLinesAre
    <2> QED
      BY <2>1, MultiserverCalls DEF Part, Follows, LibraryLines
  <1>2. Part("multiserver", <<Alloc("ep_object"),
          ConfigureProcess("compute_srv", {"priority"}), MintInto("compute_srv", "ep_object", 0),
          Spawn("compute_srv"),
          ConfigureProcess("client", {"priority"}),
          MintInto("client", "ep_object", CLIENT_BADGE_AUTH), Spawn("client")>>, 3, 10)
    <2>1. IsScript(<<Alloc("ep_object"),
          ConfigureProcess("compute_srv", {"priority"}), MintInto("compute_srv", "ep_object", 0),
          Spawn("compute_srv"),
          ConfigureProcess("client", {"priority"}),
          MintInto("client", "ep_object", CLIENT_BADGE_AUTH), Spawn("client")>>)
      BY PlainLines, Lines7
    <2> QED
      BY <2>1, MultiserverCalls DEF Part, Follows
  <1>3. Part("multiserver", Multiserver, 0, 10)
    BY <1>1, <1>2, PartsJoin, 0 \in Nat, Zenon DEF Multiserver
  <1> QED
    BY <1>3 DEF Part

LEMMA Libraries4Follows == Follows("libraries4", Libraries4, 0)
  <1>1. Len(Libraries4) = 11
    BY DEF Libraries4
  <1>2. ASSUME NEW j \in 1 .. 11
        PROVE  Line("libraries4", j, Libraries4[j])
    <2>1. j = 1 \/ j = 2 \/ j = 3 \/ j = 4 \/ j = 5 \/ j = 6
          \/ j = 7 \/ j = 8 \/ j = 9 \/ j = 10 \/ j = 11
      OBVIOUS
    <2> QED
      BY <2>1, Libraries4Calls DEF Libraries4
  <1> QED
    BY <1>1, <1>2 DEF Follows

LEMMA CapabilitiesFollows == Follows("capabilities", Capabilities, 0)
  <1>1. Len(Capabilities) = 8
    BY DEF Capabilities
  <1>2. ASSUME NEW j \in 1 .. 8
        PROVE  Line("capabilities", j, Capabilities[j])
    <2>1. j = 1 \/ j = 2 \/ j = 3 \/ j = 4 \/ j = 5 \/ j = 6 \/ j = 7 \/ j = 8
      OBVIOUS
    <2> QED
      BY <2>1, CapabilitiesCalls DEF Capabilities
  <1> QED
    BY <1>1, <1>2 DEF Follows

LEMMA MappingFollows == Follows("mapping", Mapping, 0)
  <1>1. Len(Mapping) = 11
    BY DEF Mapping
  <1>2. ASSUME NEW j \in 1 .. 11
        PROVE  Line("mapping", j, Mapping[j])
    <2>1. j = 1 \/ j = 2 \/ j = 3 \/ j = 4 \/ j = 5 \/ j = 6
          \/ j = 7 \/ j = 8 \/ j = 9 \/ j = 10 \/ j = 11
      OBVIOUS
    <2> QED
      BY <2>1, MappingCalls DEF Mapping
  <1> QED
    BY <1>1, <1>2 DEF Follows

LEMMA ScriptFollows ==
  ASSUME program \in Programs
  PROVE  Follows(program, Script, 0)
  BY ProgramsAssumption, Libraries1Follows, Libraries2Follows, Libraries3Follows, BakFollows,
     MultiserverFollows, Libraries4Follows, CapabilitiesFollows, MappingFollows DEF Script


-----------------------------------------------------------------------------
(* The invariant: what is started has what it uses, a program that runs    *)
(* finds what the ledger of its next call says, and one that aborted did   *)
(* so for lack of memory, with nobody left that calls.                     *)
Prepared(p, k) ==
  /\ \A t \in Threads : "resumed" \in k.facts[t] => Furnished(p, k, t)
  /\ "enabled" \in k.irq => {"bound", "acknowledged"} \subseteq k.irq

SetUpInv ==
  /\ Prepared(program, kernel)
  /\ outcome = "runs" => Agrees(program, kernel, message, Known(program, step))
  /\ AbortsSafely

LEMMA ReadyIs ==
  ASSUME Prepared(program, kernel)
  PROVE  ReadyWhenStarted
  BY LackingIs, LacksNothing DEF Prepared, ReadyWhenStarted

(* A call suits its ledgers in the one way its operation allows.           *)
LEMMA SuitsOnly ==
  ASSUME NEW p, NEW L, NEW c, NEW M, NEW N, Suits(p, L, c, M, N)
  PROVE  /\ c.op = "begin" => SuitsBegin(p, L, c, M, N)
         /\ c.op = "alloc" => SuitsAlloc(p, L, c, M)
         /\ c.op = "forget" => SuitsForget(L, c, M)
         /\ c.op = "mint" => SuitsMint(p, L, c, M)
         /\ c.op = "delete" => SuitsDelete(L, c, M)
         /\ c.op = "move" => SuitsMove(L, c, N)
         /\ c.op = "mapTable" => SuitsMapTable(L, c, M)
         /\ c.op = "mapPage" => SuitsMapPage(p, L, c, M, N)
         /\ c.op = "mapWithTables" => SuitsMapWithTables(p, L, c, M)
         /\ c.op = "access" => SuitsAccess(L, c, M)
         /\ c.op = "setThread" => SuitsSetThread(L, c, M)
         /\ c.op = "resume" => SuitsResume(p, L, c, M)
         /\ c.op = "configureProcess" => SuitsConfigure(p, L, c, M)
         /\ c.op = "mintInto" => SuitsMintInto(p, L, c, M)
         /\ c.op = "spawn" => SuitsSpawn(p, L, c, M)
         /\ c.op = "bindIrq" => SuitsBind(L, c, M)
         /\ c.op = "ackIrq" => SuitsAck(L, c, M)
         /\ c.op = "enableIrq" => SuitsEnable(L, c, M)
         /\ c.op = "send" => SuitsSend(L, c, N)
         /\ c.op = "checkReply" => SuitsCheckReply(L, c, M)
  BY DEF Suits, SuitsBegin, SuitsAlloc, SuitsForget, SuitsMint, SuitsDelete, SuitsMove,
     SuitsMapTable, SuitsMapPage, SuitsMapWithTables, SuitsAccess, SuitsSetThread,
     SuitsResume, SuitsSuspend, SuitsConfigure, SuitsMintInto, SuitsSpawn, SuitsBind,
     SuitsAck, SuitsEnable, SuitsSend, SuitsCheckReply

LEMMA LedgersAre ==
  \A j : /\ DOMAIN Known1(j) = LedgerFields /\ DOMAIN Known2(j) = LedgerFields
         /\ DOMAIN Known3(j) = LedgerFields /\ DOMAIN KnownBak(j) = LedgerFields
         /\ DOMAIN KnownMultiserver(j) = LedgerFields /\ DOMAIN Known4(j) = LedgerFields
         /\ DOMAIN KnownCapabilities(j) = LedgerFields /\ DOMAIN KnownMapping(j) = LedgerFields
  BY DEF Known1, Known2, Known3, KnownBak, KnownMultiserver, Known4,
     KnownCapabilities, KnownMapping, Plain, LedgerFields

LEMMA KnownIsLedger ==
  ASSUME program \in Programs, NEW j
  PROVE  DOMAIN Known(program, j) = LedgerFields
  BY ProgramsAssumption, KnownAre, LedgersAre

(* The three ways a call returns: it succeeds; its error is passed over;   *)
(* or memory gave out and the program aborts.                              *)
LEMMA Succeeds ==
  ASSUME ScriptInv, SetUpInv, outcome = "runs", NEW k, Returns("NoError", k),
         current.ignored \/ current.expects = "NoError", current.skip \in Nat,
         Prepared(program, k), NEW L, Agrees(program, k, message, L),
         Weaker(Known(program, step + 1 + current.skip), L)
  PROVE  SetUpInv'
  <1>1. Agrees(program, k, message, Known(program, step + 1 + current.skip))
    BY WeakerAgrees
  <1>2. /\ program' = program /\ message' = message /\ kernel' = k
        /\ outcome' = "runs" => step' = step + 1 + current.skip
        /\ outcome' # "aborted"
    BY CurrentIs DEF Returns
  <1> QED
    BY <1>1, <1>2 DEF SetUpInv, AbortsSafely

LEMMA Overlooked ==
  ASSUME ScriptInv, SetUpInv, outcome = "runs", NEW error, NEW k, Returns(error, k),
         error # "NoError", current.ignored \/ current.expects = error,
         NEW L, Agrees(program, kernel, message, L), Weaker(Known(program, step + 1), L)
  PROVE  SetUpInv'
  <1>1. Agrees(program, kernel, message, Known(program, step + 1))
    BY WeakerAgrees
  <1>2. /\ program' = program /\ message' = message /\ kernel' = kernel
        /\ outcome' = "runs" => step' = step + 1
        /\ outcome' # "aborted"
    BY CurrentIs DEF Returns
  <1> QED
    BY <1>1, <1>2 DEF SetUpInv, AbortsSafely

LEMMA Aborts ==
  ASSUME ScriptInv, SetUpInv, outcome = "runs", RunShort,
         ~current.ignored, current.expects = "NoError",
         MayAbort(program, Known(program, step))
  PROVE  SetUpInv'
  <1>1. /\ program' = program /\ kernel' = kernel /\ outcome' = "aborted" /\ shortage' = TRUE
    BY DEF Returns, RunShort
  <1>2. Agrees(program, kernel, message, Known(program, step))
    BY DEF SetUpInv
  <1>3. program # "libraries4" =>
          \A t \in Threads \ {"compute_srv"} : "resumed" \notin kernel.facts[t]
    BY <1>2 DEF Agrees, MayAbort
  <1> QED
    BY <1>1, <1>3 DEF SetUpInv, AbortsSafely

(* The first error of a sequence.                                          *)
LEMMA NoHit ==
  ASSUME NEW errors, \A v \in DOMAIN errors : ~errors[v][1]
  PROVE  FirstOf(errors) = "NoError"
  BY DEF FirstOf

LEMMA OneRefusal ==
  ASSUME NEW x, ~x, NEW e
  PROVE  FirstOf(<< <<x, e>> >>) = "NoError"
  BY NoHit

LEMMA TwoRefusals ==
  ASSUME NEW x, ~x, NEW e, NEW y, ~y, NEW f
  PROVE  FirstOf(<< <<x, e>>, <<y, f>> >>) = "NoError"
  BY NoHit

LEMMA ThreeRefusals ==
  ASSUME NEW x, ~x, NEW e, NEW y, ~y, NEW f, NEW z, ~z, NEW g
  PROVE  FirstOf(<< <<x, e>>, <<y, f>>, <<z, g>> >>) = "NoError"
  BY NoHit

LEMMA FirstHit ==
  ASSUME NEW errors, DOMAIN errors \subseteq Nat, NEW v \in DOMAIN errors, errors[v][1],
         \A w \in DOMAIN errors : errors[w][1] => v <= w
  PROVE  FirstOf(errors) = errors[v][2]
  <1> DEFINE hits == {w \in DOMAIN errors : errors[w][1]}
             first == CHOOSE w \in hits : \A x \in hits : w <= x
  <1>1. v \in hits /\ \A w \in hits : v <= w
    OBVIOUS
  <1>2. first \in hits /\ \A w \in hits : first <= w
    <2> HIDE DEF hits
    <2> QED
      BY <1>1
  <1>3. first = v
    <2> HIDE DEF first
    <2> QED
      BY <1>1, <1>2
  <1> QED
    BY <1>1, <1>3, Zenon DEF FirstOf

LEMMA FirstOfTwo ==
  ASSUME NEW e, NEW f
  PROVE  FirstOf(<< <<TRUE, e>>, <<TRUE, f>> >>) = e
  <1> DEFINE errors == << <<TRUE, e>>, <<TRUE, f>> >>
  <1>1. DOMAIN errors = {1, 2} /\ errors[1][1] = TRUE /\ errors[1][2] = e
    OBVIOUS
  <1> HIDE DEF errors
  <1>2. errors[1][1]
    BY <1>1, Zenon
  <1>3. FirstOf(errors) = errors[1][2]
    BY <1>1, <1>2, FirstHit
  <1> QED
    BY <1>1, <1>3 DEF errors

LEMMA SecondOfTwo ==
  ASSUME NEW e, NEW f
  PROVE  FirstOf(<< <<FALSE, e>>, <<TRUE, f>> >>) = f
  <1> DEFINE errors == << <<FALSE, e>>, <<TRUE, f>> >>
  <1>1. /\ DOMAIN errors = {1, 2} /\ errors[1][1] = FALSE /\ errors[2][1] = TRUE
        /\ errors[2][2] = f
    OBVIOUS
  <1> HIDE DEF errors
  <1>2. errors[2][1] /\ ~errors[1][1]
    BY <1>1, Zenon
  <1>3. \A w \in DOMAIN errors : errors[w][1] => 2 <= w
    <2>1. \A w \in DOMAIN errors : errors[w][1] => w = 2
      BY <1>1, <1>2, Zenon
    <2> QED
      BY <2>1
  <1>4. FirstOf(errors) = errors[2][2]
    BY <1>1, <1>2, <1>3, FirstHit
  <1> QED
    BY <1>1, <1>4 DEF errors

LEMMA ThirdOfThree ==
  ASSUME NEW e, NEW f, NEW g
  PROVE  FirstOf(<< <<FALSE, e>>, <<FALSE, f>>, <<TRUE, g>> >>) = g
  <1> DEFINE errors == << <<FALSE, e>>, <<FALSE, f>>, <<TRUE, g>> >>
  <1>1. /\ DOMAIN errors = {1, 2, 3} /\ errors[1][1] = FALSE /\ errors[2][1] = FALSE
        /\ errors[3][1] = TRUE /\ errors[3][2] = g
    OBVIOUS
  <1> HIDE DEF errors
  <1>2. errors[3][1] /\ ~errors[2][1] /\ ~errors[1][1]
    BY <1>1, Zenon
  <1>3. \A w \in DOMAIN errors : errors[w][1] => 3 <= w
    <2>1. \A w \in DOMAIN errors : errors[w][1] => w = 3
      BY <1>1, <1>2, Zenon
    <2> QED
      BY <2>1
  <1>4. FirstOf(errors) = errors[3][2]
    BY <1>1, <1>2, <1>3, FirstHit
  <1> QED
    BY <1>1, <1>4 DEF errors


(* What is known of the call a running program has come to, and what it    *)
(* takes for threads that were started to stay furnished.                  *)
LEMMA Here ==
  ASSUME ScriptInv, SetUpInv, outcome = "runs"
  PROVE  /\ Suits(program, Known(program, step), current,
                  Known(program, step + 1 + current.skip), Known(program, step + 1))
         /\ Agrees(program, kernel, message, Known(program, step))
         /\ DOMAIN Known(program, step) = LedgerFields
         /\ Prepared(program, kernel) /\ current.skip \in Nat
  <1>1. program \in Programs
    BY DEF ScriptInv
  <1>2. Follows(program, Script, 0)
    BY <1>1, ScriptFollows
  <1>3. step \in 1 .. Len(Script) /\ current = Script[step]
    BY CurrentIs DEF current
  <1>4. current.skip \in Nat
    BY CurrentIs DEF IsPlain, IsSend
  <1>5. 0 + step = step
    BY <1>3, CurrentIs
  <1>6. Line(program, step, current)
    BY <1>2, <1>3, <1>5 DEF Follows
  <1> QED
    BY <1>1, <1>4, <1>6, KnownIsLedger DEF Line, SetUpInv

LEMMA PreparedSame ==
  ASSUME NEW p, NEW k, NEW l, Prepared(p, k),
         l.facts = k.facts, l.held = k.held, l.pages = k.pages, l.irq = k.irq
  PROVE  Prepared(p, l)
  BY DEF Prepared, Furnished

LEMMA PreparedMore ==
  ASSUME NEW p, NEW k, NEW l, Prepared(p, k),
         \A t \in Threads : /\ k.facts[t] \subseteq l.facts[t] /\ k.held[t] \subseteq l.held[t]
                            /\ "resumed" \in l.facts[t] =>
                                "resumed" \in k.facts[t] \/ Furnished(p, l, t),
         l.pages = k.pages, l.irq = k.irq
  PROVE  Prepared(p, l)
  <1>1. ASSUME NEW t \in Threads, "resumed" \in l.facts[t]
        PROVE  Furnished(p, l, t)
    <2>1. CASE "resumed" \in k.facts[t]
      <3>1. Furnished(p, k, t)
        BY <2>1, Zenon DEF Prepared
      <3>2. k.facts[t] \subseteq l.facts[t] /\ k.held[t] \subseteq l.held[t]
        BY Zenon
      <3> QED
        BY <3>1, <3>2, StaysFurnished
    <2> QED
      BY <1>1, <2>1, Zenon
  <1> QED
    BY <1>1, Zenon DEF Prepared

(* Every call keeps the invariant: the ledger rules out its errors, but    *)
(* for the ones the program expects or passes over.                        *)
LEMMA BeginPrepares ==
  ASSUME ScriptInv, SetUpInv, BeginCall
  PROVE  SetUpInv'
  <1> DEFINE L == Known(program, step)
             M == Known(program, step + 1 + current.skip)
             N == Known(program, step + 1)
  <1>1. outcome = "runs" /\ current.op = "begin"
    BY DEF BeginCall, Now
  <1>2. SuitsBegin(program, L, current, M, N) /\ current.skip \in Nat
    BY <1>1, Here, SuitsOnly, Zenon
  <1>3. CASE Returns("NoError", kernel)
    BY <1>1, <1>2, <1>3, Here, Succeeds DEF SuitsBegin
  <1>4. CASE RunShort /\ current.ignored
    BY <1>1, <1>2, <1>4, Here, Overlooked DEF SuitsBegin, RunShort
  <1>5. CASE RunShort /\ ~current.ignored
    BY <1>1, <1>2, <1>5, Here, Aborts DEF SuitsBegin
  <1> QED
    BY <1>3, <1>4, <1>5 DEF BeginCall

LEMMA AllocPrepares ==
  ASSUME ScriptInv, SetUpInv, AllocCall
  PROVE  SetUpInv'
  <1> DEFINE L == Known(program, step)
             M == Known(program, step + 1 + current.skip)
             k == Fill(kernel, args.object, Capability(args.object))
  <1>1. outcome = "runs" /\ current.op = "alloc"
    BY DEF AllocCall, Now
  <1>2. SuitsAlloc(program, L, current, M) /\ current.skip \in Nat
    BY <1>1, Here, SuitsOnly, Zenon
  <1>3. CASE RunShort
    BY <1>1, <1>2, <1>3, Aborts DEF SuitsAlloc, Strict
  <1>4. CASE ~RunShort
    <2>1. ~Used(args.object)
      BY <1>1, <1>2, Here DEF SuitsAlloc, Agrees, Used, args
    <2>2. Returns("NoError", k)
      BY <1>4, <2>1, OneRefusal DEF AllocCall
    <2>3. Agrees(program, k, message, Getting(L, args.object))
      BY <1>1, <1>2, Here, FillAgrees DEF SuitsAlloc, Capability, args
    <2>4. Prepared(program, k)
      <3>1. /\ k.facts = kernel.facts /\ k.held = kernel.held
            /\ k.pages = kernel.pages /\ k.irq = kernel.irq
        BY <1>1, Here DEF Fill, Agrees
      <3> QED
        BY <1>1, <3>1, Here, PreparedSame
    <2> QED
      BY <1>1, <1>2, <2>2, <2>3, <2>4, Succeeds DEF SuitsAlloc, Strict, args
  <1> QED
    BY <1>3, <1>4

LEMMA ForgetPrepares ==
  ASSUME ScriptInv, SetUpInv, ForgetCall \/ DeleteCall
  PROVE  SetUpInv'
  <1> DEFINE L == Known(program, step)
             M == Known(program, step + 1 + current.skip)
  <1>1. PICK slot : /\ outcome = "runs" /\ Strict(current) /\ Weaker(M, Losing(L, slot))
                    /\ Returns("NoError", Empty(kernel, slot)) /\ current.skip \in Nat
    <2>1. CASE ForgetCall
      <3>1. outcome = "runs" /\ current.op = "forget"
        BY <2>1 DEF ForgetCall, Now
      <3>2. SuitsForget(L, current, M) /\ current.skip \in Nat
        BY <3>1, Here, SuitsOnly, Zenon
      <3> QED
        BY <2>1, <3>1, <3>2 DEF ForgetCall, SuitsForget, args
    <2>2. CASE DeleteCall
      <3>1. outcome = "runs" /\ current.op = "delete"
        BY <2>2 DEF DeleteCall, Now
      <3>2. SuitsDelete(L, current, M) /\ current.skip \in Nat
        BY <3>1, Here, SuitsOnly, Zenon
      <3> QED
        BY <2>2, <3>1, <3>2 DEF DeleteCall, SuitsDelete, args
    <2> QED
      BY <2>1, <2>2
  <1> DEFINE k == Empty(kernel, slot)
  <1>2. Agrees(program, k, message, Losing(L, slot))
    BY <1>1, Here, EmptyAgrees
  <1>3. Prepared(program, k)
    <2>1. /\ k.facts = kernel.facts /\ k.held = kernel.held
          /\ k.pages = kernel.pages /\ k.irq = kernel.irq
      BY <1>1, Here DEF Empty, Agrees
    <2> QED
      BY <1>1, <2>1, Here, PreparedSame
  <1> QED
    BY <1>1, <1>2, <1>3, Succeeds DEF Strict

LEMMA MintPrepares ==
  ASSUME ScriptInv, SetUpInv, MintCall
  PROVE  SetUpInv'
  <1> DEFINE L == Known(program, step)
             M == Known(program, step + 1 + current.skip)
             cap == [kernel.caps[args.from] EXCEPT !.space = "none"]
             k == Fill(kernel, args.to, cap)
  <1>1. outcome = "runs" /\ current.op = "mint"
    BY DEF MintCall, Now
  <1>2. SuitsMint(program, L, current, M) /\ current.skip \in Nat
    BY <1>1, Here, SuitsOnly, Zenon
  <1>3. CASE RunShort
    BY <1>1, <1>2, <1>3, Aborts DEF SuitsMint, Strict
  <1>4. CASE ~RunShort
    <2>1. ~Used(args.to) /\ Used(args.from)
      BY <1>1, <1>2, Here DEF SuitsMint, Agrees, Used, args
    <2>2. Returns("NoError", k)
      BY <1>4, <2>1, TwoRefusals DEF MintCall, SlotErrors
    <2>3. DOMAIN cap = {"object", "space"} /\ cap.object = Origin(args.to) /\ cap.space = "none"
      BY <1>1, <1>2, <2>1, Here DEF SuitsMint, Agrees, Used, args
    <2>4. Agrees(program, k, message, Getting(L, args.to))
      <3> HIDE DEF cap
      <3> QED
        BY <1>1, <2>3, Here, FillAgrees
    <2>5. Prepared(program, k)
      <3>1. /\ k.facts = kernel.facts /\ k.held = kernel.held
            /\ k.pages = kernel.pages /\ k.irq = kernel.irq
        BY <1>1, Here DEF Fill, Agrees
      <3> QED
        BY <1>1, <3>1, Here, PreparedSame
    <2> QED
      BY <1>1, <1>2, <2>2, <2>4, <2>5, Succeeds DEF SuitsMint, Strict, args
  <1> QED
    BY <1>3, <1>4

LEMMA MovePrepares ==
  ASSUME ScriptInv, SetUpInv, MoveCall
  PROVE  SetUpInv'
  <1> DEFINE L == Known(program, step)
             N == Known(program, step + 1)
  <1>1. outcome = "runs" /\ current.op = "move"
    BY DEF MoveCall, Now
  <1>2. SuitsMove(L, current, N) /\ current.skip \in Nat
    BY <1>1, Here, SuitsOnly, Zenon
  <1>3. ~Used(args.to) /\ ~Used(args.from)
    BY <1>1, <1>2, Here DEF SuitsMove, Agrees, Used, args
  <1>4. SlotErrors(args.from, args.to) = "FailedLookup"
    <2>1. Used(args.to) = FALSE /\ (~Used(args.from)) = TRUE
      BY <1>3
    <2> QED
      BY <2>1, SecondOfTwo, Zenon DEF SlotErrors
  <1> QED
    BY <1>1, <1>2, <1>4, Here, Overlooked DEF SuitsMove, MoveCall


LEMMA MapTablePrepares ==
  ASSUME ScriptInv, SetUpInv, MapTableCall
  PROVE  SetUpInv'
  <1> DEFINE L == Known(program, step)
             M == Known(program, step + 1 + current.skip)
             there == kernel.tables[args.space]
             after == [L EXCEPT !.levels = {args.level}]
             k == [kernel EXCEPT !.tables[args.space] = args.level]
  <1>1. outcome = "runs" /\ current.op = "mapTable"
    BY DEF MapTableCall, Now
  <1>2. SuitsMapTable(L, current, M) /\ current.skip \in Nat
    BY <1>1, Here, SuitsOnly, Zenon
  <1>3. /\ args.space = "root" /\ args.level \in 1 .. 3
        /\ there = args.level - 1 \/ (current.ignored /\ there = args.level)
    BY <1>1, <1>2, Here, CurrentIs DEF SuitsMapTable, Agrees, IsPlain, IsSend, args
  <1>4. Used(args.table)
    BY <1>1, <1>2, Here DEF SuitsMapTable, Agrees, Used, args
  <1> DEFINE error == FirstOf(<< <<~Used(args.table), "InvalidCapability">>,
                                <<there < args.level - 1, "FailedLookup">>,
                                <<there >= args.level, "DeleteFirst">> >>)
  <1>5. Returns(error, k)
    BY DEF MapTableCall
  <1>6. CASE there = args.level - 1
    <2>1. ~(there < args.level - 1) /\ ~(there >= args.level)
      BY <1>3, <1>6
    <2>2. error = "NoError"
      BY <1>4, <2>1, ThreeRefusals
    <2>3. Agrees(program, k, message, after)
      BY <1>1, <1>3, Here, TableAgrees
    <2>4. Prepared(program, k)
      <3>1. /\ k.facts = kernel.facts /\ k.held = kernel.held
            /\ k.pages = kernel.pages /\ k.irq = kernel.irq
        BY <1>1, Here DEF Agrees
      <3> QED
        BY <1>1, <3>1, Here, PreparedSame
    <2>5. Returns("NoError", k)
      BY <1>5, <2>2
    <2>6. Weaker(M, after) /\ current.expects = "NoError"
      BY <1>2 DEF SuitsMapTable, args
    <2> HIDE DEF k, after, L
    <2> QED
      BY <1>1, <1>2, <2>3, <2>4, <2>5, <2>6, Succeeds
  <1>7. CASE current.ignored /\ there = args.level
    <2>1. (there < args.level - 1) = FALSE /\ (there >= args.level) = TRUE
      BY <1>3, <1>7
    <2>2. error = "DeleteFirst"
      <3>1. (~Used(args.table)) = FALSE
        BY <1>4
      <3> QED
        BY <2>1, <3>1, ThirdOfThree, Zenon
    <2>3. Agrees(program, kernel, message, after)
      BY <1>1, <1>3, <1>7, Here DEF Agrees, LedgerFields
    <2>4. Weaker(Known(program, step + 1), after)
      BY <1>2, CurrentIs DEF SuitsMapTable, args
    <2>5. Returns("DeleteFirst", k)
      BY <1>5, <2>2
    <2> HIDE DEF k, after, L
    <2> QED
      BY <1>1, <1>7, <2>3, <2>4, <2>5, Overlooked
  <1> QED
    BY <1>3, <1>6, <1>7

(* No frame capability is mapped elsewhere, no other page stands at the    *)
(* address, and the page that is mapped is the program's.                  *)
LEMMA PageFree ==
  ASSUME NEW L, Agrees(program, kernel, message, L), SuitsPage(program, L, current)
  PROVE  PageErrors(args.frame, args.space) = "NoError"
  <1>1. /\ Used(args.frame)
        /\ kernel.caps[args.frame].space \in {"none", args.space}
        /\ kernel.pages[args.space].object \in {"none", kernel.caps[args.frame].object}
    BY DEF Agrees, SuitsPage, Used, args
  <1> QED
    BY <1>1, ThreeRefusals DEF PageErrors

LEMMA PageShown ==
  ASSUME NEW L, Agrees(program, kernel, message, L), SuitsPage(program, L, current),
         DOMAIN L = LedgerFields, Prepared(program, kernel), NEW rights
  PROVE  /\ Agrees(program, Mapped(args.frame, args.space, rights), message,
                   Showing(L, args.space, rights))
         /\ Prepared(program, Mapped(args.frame, args.space, rights))
  <1>1. /\ args.frame \in L.slots /\ Origin(args.frame) = Page(program)
        /\ args.space = Place(program, args.frame) /\ L.running = {}
    BY DEF SuitsPage, args
  <1> DEFINE k == Mapped(args.frame, args.space, rights)
  <1>2. Agrees(program, k, message, Showing(L, args.space, rights))
    BY <1>1, ShowAgrees DEF Mapped
  <1>3. k.facts = kernel.facts /\ k.irq = kernel.irq
    BY DEF Agrees, Mapped
  <1>4. Prepared(program, k)
    BY <1>1, <1>3 DEF Agrees, Prepared
  <1> QED
    BY <1>2, <1>4

LEMMA MapPagePrepares ==
  ASSUME ScriptInv, SetUpInv, MapPageCall
  PROVE  SetUpInv'
  <1> DEFINE L == Known(program, step)
             M == Known(program, step + 1 + current.skip)
             N == Known(program, step + 1)
             k == Mapped(args.frame, args.space, args.rights)
             after == Showing(L, args.space, args.rights)
             without == [L EXCEPT !.levels = @ \ {3}]
             error == FirstOf(<< <<kernel.tables[args.space] < 3, "FailedLookup">>,
                                 <<TRUE, PageErrors(args.frame, args.space)>> >>)
  <1>1. outcome = "runs" /\ current.op = "mapPage" /\ Returns(error, k)
    BY DEF MapPageCall, Now
  <1>2. SuitsMapPage(program, L, current, M, N) /\ current.skip \in Nat
    BY <1>1, Here, SuitsOnly, Zenon
  <1>3. SuitsPage(program, L, current) /\ args.space = "root" /\ current.expects = "NoError"
    BY <1>2 DEF SuitsMapPage, SuitsPage, args
  <1>4. kernel.tables["root"] \in 0 .. 3 /\ kernel.tables["root"] \in L.levels
    BY <1>1, Here DEF ScriptInv, KernelTyped, Agrees, Spaces
  <1>5. CASE kernel.tables["root"] = 3
    <2>1. (kernel.tables[args.space] < 3) = FALSE
      BY <1>3, <1>5
    <2>2. PageErrors(args.frame, args.space) = "NoError"
      BY <1>1, <1>3, Here, PageFree
    <2>3. error = "NoError"
      BY <2>1, <2>2, SecondOfTwo, Zenon
    <2>4. Agrees(program, k, message, after) /\ Prepared(program, k)
      BY <1>1, <1>3, Here, PageShown
    <2>5. Weaker(M, after)
      BY <1>2, <1>3 DEF SuitsMapPage, args
    <2>6. Returns("NoError", k)
      BY <1>1, <2>3
    <2> HIDE DEF k, after, L
    <2> QED
      BY <1>1, <1>2, <1>3, <2>4, <2>5, <2>6, Succeeds
  <1>6. CASE kernel.tables["root"] < 3
    <2>1. (kernel.tables[args.space] < 3) = TRUE
      BY <1>3, <1>6
    <2>2. error = "FailedLookup"
      BY <2>1, FirstOfTwo, Zenon
    <2>3. current.ignored /\ Weaker(N, without)
      BY <1>2, <1>4, <1>6 DEF SuitsMapPage
    <2>4. Agrees(program, kernel, message, without)
      BY <1>1, <1>4, <1>6, Here DEF Agrees, LedgerFields
    <2>5. Returns("FailedLookup", k)
      BY <1>1, <2>2
    <2> HIDE DEF k, without, L
    <2> QED
      BY <1>1, <2>3, <2>4, <2>5, Overlooked
  <1> QED
    BY <1>4, <1>5, <1>6

LEMMA MapWithTablesPrepares ==
  ASSUME ScriptInv, SetUpInv, MapWithTablesCall
  PROVE  SetUpInv'
  <1> DEFINE L == Known(program, step)
             M == Known(program, step + 1 + current.skip)
             k == Mapped(args.frame, args.space, "all")
             after == Showing(L, args.space, "all")
  <1>1. outcome = "runs" /\ current.op = "mapWithTables"
    BY DEF MapWithTablesCall, Now
  <1>2. SuitsMapWithTables(program, L, current, M) /\ current.skip \in Nat
    BY <1>1, Here, SuitsOnly, Zenon
  <1>3. SuitsPage(program, L, current) /\ Strict(current) /\ Weaker(M, after)
    BY <1>2 DEF SuitsMapWithTables, args
  <1>4. CASE RunShort
    <2>1. MayAbort(program, L)
      BY <1>3 DEF SuitsPage, MayAbort
    <2> QED
      BY <1>1, <1>3, <1>4, <2>1, Aborts DEF Strict
  <1>5. CASE ~RunShort
    <2>1. PageErrors(args.frame, args.space) = "NoError"
      BY <1>1, <1>3, Here, PageFree
    <2>2. Returns("NoError", k)
      BY <1>5, <2>1 DEF MapWithTablesCall
    <2>3. Agrees(program, k, message, after) /\ Prepared(program, k)
      BY <1>1, <1>3, Here, PageShown
    <2> HIDE DEF k, after, L
    <2> QED
      BY <1>1, <1>2, <1>3, <2>2, <2>3, Succeeds DEF Strict
  <1> QED
    BY <1>4, <1>5

LEMMA AccessPrepares ==
  ASSUME ScriptInv, SetUpInv, AccessCall
  PROVE  SetUpInv'
  <1> DEFINE L == Known(program, step)
             M == Known(program, step + 1 + current.skip)
  <1>1. outcome = "runs" /\ current.op = "access"
    BY DEF AccessCall, Now
  <1>2. SuitsAccess(L, current, M) /\ current.skip \in Nat
    BY <1>1, Here, SuitsOnly, Zenon
  <1>3. PICK r \in {"all", args.kind} : <<"root", r>> \in L.mapped
    BY <1>2 DEF SuitsAccess, args
  <1>4. kernel.pages["root"].rights \in {"all", args.kind}
    <2>1. kernel.pages[<<"root", r>>[1]] = [object |-> Page(program), rights |-> <<"root", r>>[2]]
      BY <1>1, <1>3, Here, Zenon DEF Agrees
    <2> QED
      BY <2>1
  <1>5. Returns("NoError", kernel)
    BY <1>4, OneRefusal DEF AccessCall
  <1> QED
    BY <1>1, <1>2, <1>5, Here, Succeeds DEF SuitsAccess, Strict


LEMMA ToldPrepares ==
  ASSUME NEW L, Agrees(program, kernel, message, L), DOMAIN L = LedgerFields,
         Prepared(program, kernel), NEW t \in Threads, NEW with, "resumed" \notin with
  PROVE  /\ Agrees(program, Tell(kernel, t, with), message, Telling(L, t, with))
         /\ Prepared(program, Tell(kernel, t, with))
  <1> DEFINE k == Tell(kernel, t, with)
  <1>1. /\ k.held = kernel.held /\ k.pages = kernel.pages /\ k.irq = kernel.irq
        /\ \A s \in Threads : kernel.facts[s] \subseteq k.facts[s]
        /\ \A s \in Threads : "resumed" \in k.facts[s] => "resumed" \in kernel.facts[s]
    BY DEF Agrees, Tell
  <1> HIDE DEF k
  <1>2. Prepared(program, k)
    BY <1>1, PreparedMore
  <1> QED
    BY <1>2, TellAgrees DEF k

LEMMA StartPrepares ==
  ASSUME NEW L, Agrees(program, kernel, message, L), DOMAIN L = LedgerFields,
         Prepared(program, kernel), NEW t \in Threads, NEW with,
         Equipped(program, Starting(L, t, with), t)
  PROVE  /\ Agrees(program, Tell(kernel, t, with \cup {"resumed"}), message,
                   Starting(L, t, with))
         /\ Prepared(program, Tell(kernel, t, with \cup {"resumed"}))
  <1> DEFINE k == Tell(kernel, t, with \cup {"resumed"})
  <1>1. Agrees(program, k, message, Starting(L, t, with))
    BY StartAgrees
  <1>2. Furnished(program, k, t)
    BY <1>1, EquippedIsFurnished
  <1>3. /\ k.held = kernel.held /\ k.pages = kernel.pages /\ k.irq = kernel.irq
        /\ \A s \in Threads : kernel.facts[s] \subseteq k.facts[s]
        /\ \A s \in Threads : s # t => k.facts[s] = kernel.facts[s]
    BY DEF Agrees, Tell
  <1> HIDE DEF k
  <1>4. Prepared(program, k)
    <2>1. \A s \in Threads :
            "resumed" \in k.facts[s] => "resumed" \in kernel.facts[s] \/ Furnished(program, k, s)
      BY <1>2, <1>3
    <2> QED
      BY <1>3, <2>1, PreparedMore
  <1> QED
    BY <1>1, <1>4 DEF k

LEMMA SetThreadPrepares ==
  ASSUME ScriptInv, SetUpInv, SetThreadCall
  PROVE  SetUpInv'
  <1> DEFINE L == Known(program, step)
             M == Known(program, step + 1 + current.skip)
             t == Origin(args.tcb)
             k == Tell(kernel, kernel.caps[args.tcb].object, args.with)
  <1>1. outcome = "runs" /\ current.op = "setThread"
    BY DEF SetThreadCall, Now
  <1>2. SuitsSetThread(L, current, M) /\ current.skip \in Nat
    BY <1>1, Here, SuitsOnly, Zenon
  <1>3. /\ Used(args.tcb) /\ kernel.caps[args.tcb].object = t
        /\ t \in Threads /\ "resumed" \notin args.with
    BY <1>1, <1>2, Here DEF SuitsSetThread, Agrees, Used, args
  <1>4. Returns("NoError", k)
    BY <1>3, OneRefusal DEF SetThreadCall
  <1>5. Agrees(program, k, message, Telling(L, t, args.with)) /\ Prepared(program, k)
    BY <1>1, <1>3, Here, ToldPrepares
  <1> QED
    BY <1>1, <1>2, <1>4, <1>5, Succeeds DEF SuitsSetThread, Strict, args

LEMMA ResumePrepares ==
  ASSUME ScriptInv, SetUpInv, ResumeCall
  PROVE  SetUpInv'
  <1> DEFINE L == Known(program, step)
             M == Known(program, step + 1 + current.skip)
             t == Origin(args.tcb)
             k == Tell(kernel, kernel.caps[args.tcb].object, {"resumed"})
             after == Starting(L, t, {})
  <1>1. outcome = "runs" /\ current.op = "resume"
    BY DEF ResumeCall, Now
  <1>2. SuitsResume(program, L, current, M) /\ current.skip \in Nat
    BY <1>1, Here, SuitsOnly, Zenon
  <1>3. /\ Used(args.tcb) /\ kernel.caps[args.tcb].object = t
        /\ t \in Threads /\ Equipped(program, after, t) /\ Weaker(M, after)
    BY <1>1, <1>2, Here DEF SuitsResume, Agrees, Used, args
  <1>4. Returns("NoError", k)
    BY <1>3, OneRefusal DEF ResumeCall
  <1>5. {} \cup {"resumed"} = {"resumed"}
    OBVIOUS
  <1>6. Agrees(program, k, message, after) /\ Prepared(program, k)
    BY <1>1, <1>3, <1>5, Here, StartPrepares
  <1> QED
    BY <1>1, <1>2, <1>3, <1>4, <1>6, Succeeds DEF SuitsResume, Strict

LEMMA ConfigurePrepares ==
  ASSUME ScriptInv, SetUpInv, ConfigureProcessCall
  PROVE  SetUpInv'
  <1> DEFINE L == Known(program, step)
             M == Known(program, step + 1 + current.skip)
             with == {"configured"} \cup args.with
             k == Tell(kernel, args.process, with)
  <1>1. outcome = "runs" /\ current.op = "configureProcess"
    BY DEF ConfigureProcessCall, Now
  <1>2. SuitsConfigure(program, L, current, M) /\ current.skip \in Nat
    BY <1>1, Here, SuitsOnly, Zenon
  <1>3. CASE RunShort
    BY <1>1, <1>2, <1>3, Aborts DEF SuitsConfigure, Strict
  <1>4. CASE ~RunShort
    <2>1. Returns("NoError", k)
      BY <1>4 DEF ConfigureProcessCall
    <2>2. args.process \in Threads /\ "resumed" \notin with
      BY <1>2 DEF SuitsConfigure, args
    <2>3. Agrees(program, k, message, Telling(L, args.process, with)) /\ Prepared(program, k)
      <3> HIDE DEF with
      <3> QED
        BY <1>1, <2>2, Here, ToldPrepares
    <2> QED
      BY <1>1, <1>2, <2>1, <2>3, Succeeds DEF SuitsConfigure, Strict, args
  <1> QED
    BY <1>3, <1>4

LEMMA MintIntoPrepares ==
  ASSUME ScriptInv, SetUpInv, MintIntoCall
  PROVE  SetUpInv'
  <1> DEFINE L == Known(program, step)
             M == Known(program, step + 1 + current.skip)
             t == args.process
             k == [kernel EXCEPT !.held[t] = @ \cup {<<"ep_object", args.badge>>}]
             after == [L EXCEPT !.held = @ \cup {<<t, args.badge>>}]
  <1>1. outcome = "runs" /\ current.op = "mintInto"
    BY DEF MintIntoCall, Now
  <1>2. SuitsMintInto(program, L, current, M) /\ current.skip \in Nat
    BY <1>1, Here, SuitsOnly, Zenon
  <1>3. CASE RunShort
    BY <1>1, <1>2, <1>3, Aborts DEF SuitsMintInto, Strict
  <1>4. CASE ~RunShort
    <2>1. Used(args.from) /\ kernel.caps[args.from].object = "ep_object" /\ t \in Threads
      BY <1>1, <1>2, Here DEF SuitsMintInto, Agrees, Used, args
    <2>2. "configured" \in kernel.facts[t]
      <3>1. <<t, "configured">> \in L.told
        BY <1>2 DEF SuitsMintInto, args
      <3>2. <<t, "configured">>[2] \in kernel.facts[<<t, "configured">>[1]]
        BY <1>1, <3>1, Here, Zenon DEF Agrees
      <3> QED
        BY <3>2
    <2>3. Returns("NoError", k)
      BY <1>4, <2>1, <2>2, TwoRefusals DEF MintIntoCall
    <2>4. Agrees(program, k, message, after)
      BY <1>1, <2>1, Here, GiveAgrees
    <2>5. /\ k.facts = kernel.facts /\ k.pages = kernel.pages /\ k.irq = kernel.irq
          /\ \A s \in Threads : kernel.held[s] \subseteq k.held[s]
      BY <1>1, Here DEF Agrees
    <2>6. Prepared(program, k)
      <3> HIDE DEF k
      <3> QED
        BY <1>1, <2>5, Here, PreparedMore
    <2>7. Weaker(M, after)
      BY <1>2 DEF SuitsMintInto, args
    <2> HIDE DEF k, after, L
    <2> QED
      BY <1>1, <1>2, <2>3, <2>4, <2>6, <2>7, Succeeds DEF SuitsMintInto, Strict
  <1> QED
    BY <1>3, <1>4

LEMMA SpawnPrepares ==
  ASSUME ScriptInv, SetUpInv, SpawnCall
  PROVE  SetUpInv'
  <1> DEFINE L == Known(program, step)
             M == Known(program, step + 1 + current.skip)
             t == args.process
             k == Tell(kernel, t, {"registers", "resumed"})
             after == Starting(L, t, {"registers"})
  <1>1. outcome = "runs" /\ current.op = "spawn"
    BY DEF SpawnCall, Now
  <1>2. SuitsSpawn(program, L, current, M) /\ current.skip \in Nat
    BY <1>1, Here, SuitsOnly, Zenon
  <1>3. CASE RunShort
    BY <1>1, <1>2, <1>3, Aborts DEF SuitsSpawn, Strict
  <1>4. CASE ~RunShort
    <2>1. Returns("NoError", k)
      BY <1>4 DEF SpawnCall
    <2>2. t \in Threads /\ Equipped(program, after, t) /\ Weaker(M, after)
      BY <1>2 DEF SuitsSpawn, args
    <2>3. {"registers"} \cup {"resumed"} = {"registers", "resumed"}
      OBVIOUS
    <2>4. Agrees(program, k, message, after) /\ Prepared(program, k)
      BY <1>1, <2>2, <2>3, Here, StartPrepares
    <2> QED
      BY <1>1, <1>2, <2>1, <2>2, <2>4, Succeeds DEF SuitsSpawn, Strict
  <1> QED
    BY <1>3, <1>4

LEMMA IrqPrepares ==
  ASSUME ScriptInv, SetUpInv, BindIrqCall \/ AckIrqCall \/ EnableIrqCall
  PROVE  SetUpInv'
  <1> DEFINE L == Known(program, step)
             M == Known(program, step + 1 + current.skip)
  <1>1. CASE BindIrqCall
    <2> DEFINE k == [kernel EXCEPT !.irq = {"bound"}]
               after == [L EXCEPT !.irq = {"bound"}]
    <2>1. outcome = "runs" /\ current.op = "bindIrq"
      BY <1>1 DEF BindIrqCall, Now
    <2>2. SuitsBind(L, current, M) /\ current.skip \in Nat
      BY <2>1, Here, SuitsOnly, Zenon
    <2>3. Used(args.handler) /\ Used(args.ntfn)
      BY <2>1, <2>2, Here DEF SuitsBind, Agrees, Used, args
    <2>4. Returns("NoError", k)
      <3>1. ~(~Used(args.handler) \/ ~Used(args.ntfn))
        BY <2>3
      <3> QED
        BY <1>1, <3>1, OneRefusal DEF BindIrqCall
    <2>5. Agrees(program, k, message, after)
      BY <2>1, Here, IrqAgrees
    <2>6. Prepared(program, k)
      BY <2>1, Here DEF Prepared, Furnished, Agrees
    <2> QED
      BY <2>1, <2>2, <2>4, <2>5, <2>6, Succeeds DEF SuitsBind, Strict
  <1>2. CASE AckIrqCall
    <2> DEFINE k == [kernel EXCEPT !.irq = @ \cup {"acknowledged"}]
               after == [L EXCEPT !.irq = @ \cup {"acknowledged"}]
    <2>1. outcome = "runs" /\ current.op = "ackIrq"
      BY <1>2 DEF AckIrqCall, Now
    <2>2. SuitsAck(L, current, M) /\ current.skip \in Nat
      BY <2>1, Here, SuitsOnly, Zenon
    <2>3. Used(args.handler)
      BY <2>1, <2>2, Here DEF SuitsAck, Agrees, Used, args
    <2>4. Returns("NoError", k)
      BY <1>2, <2>3, OneRefusal DEF AckIrqCall
    <2>5. Agrees(program, k, message, after)
      BY <2>1, Here, IrqAgrees
    <2>6. Prepared(program, k)
      BY <2>1, Here DEF Prepared, Furnished, Agrees
    <2> QED
      BY <2>1, <2>2, <2>4, <2>5, <2>6, Succeeds DEF SuitsAck, Strict
  <1>3. CASE EnableIrqCall
    <2> DEFINE k == [kernel EXCEPT !.irq = @ \cup {"enabled"}]
               after == [L EXCEPT !.irq = @ \cup {"enabled"}]
    <2>1. outcome = "runs" /\ current.op = "enableIrq"
      BY <1>3 DEF EnableIrqCall, Now
    <2>2. SuitsEnable(L, current, M) /\ current.skip \in Nat
      BY <2>1, Here, SuitsOnly, Zenon
    <2>3. Used(args.port) /\ {"bound", "acknowledged"} \subseteq kernel.irq
      BY <2>1, <2>2, Here DEF SuitsEnable, Agrees, Used, args
    <2>4. Returns("NoError", k)
      BY <1>3, <2>3, OneRefusal DEF EnableIrqCall
    <2>5. Agrees(program, k, message, after)
      BY <2>1, Here, IrqAgrees
    <2>6. Prepared(program, k)
      BY <2>1, <2>3, Here DEF Prepared, Furnished, Agrees
    <2> QED
      BY <2>1, <2>2, <2>4, <2>5, <2>6, Succeeds DEF SuitsEnable, Strict
  <1> QED
    BY <1>1, <1>2, <1>3

LEMMA CheckReplyPrepares ==
  ASSUME ScriptInv, SetUpInv, CheckReplyCall
  PROVE  SetUpInv'
  <1> DEFINE L == Known(program, step)
             M == Known(program, step + 1 + current.skip)
  <1>1. outcome = "runs" /\ current.op = "checkReply"
    BY DEF CheckReplyCall, Now
  <1>2. SuitsCheckReply(L, current, M) /\ current.skip \in Nat
    BY <1>1, Here, SuitsOnly, Zenon
  <1>3. message.length = 1 /\ message.word = Complement(MSG_DATA)
    BY <1>1, <1>2, Here DEF SuitsCheckReply, Agrees
  <1>4. Returns("NoError", kernel)
    BY <1>3, TwoRefusals DEF CheckReplyCall
  <1> QED
    BY <1>1, <1>2, <1>4, Here, Succeeds DEF SuitsCheckReply, Strict

(* The call of libraries-2: nothing is known of a reply until it is there. *)
LEMMA MessagePrepares ==
  ASSUME ScriptInv, SetUpInv, SendCall \/ Thread2
  PROVE  SetUpInv'
  <1> DEFINE L == Known(program, step)
             N == Known(program, step + 1)
  <1>1. outcome = "runs" /\ current.op = "send"
    BY DEF SendCall, Now, Thread2, ThreadReceives, ThreadReplies, ScriptInv, CallAt
  <1>2. SuitsSend(L, current, N)
    BY <1>1, Here, SuitsOnly, Zenon
  <1>3. CASE SendCall \/ ThreadReceives
    <2>1. UNCHANGED <<program, step, outcome, shortage, kernel>>
      BY <1>3 DEF SendCall, ThreadReceives
    <2>2. Agrees(program, kernel, message', L)
      BY <1>1, <1>2, Here DEF SuitsSend, Agrees
    <2> QED
      BY <2>1, <2>2 DEF SetUpInv, AbortsSafely
  <1>4. CASE ThreadReplies
    <2>1. /\ UNCHANGED <<program, outcome, shortage, kernel>> /\ step' = step + 1
          /\ message'.length = 1 /\ message'.word = Complement(MSG_DATA)
      BY <1>4 DEF ThreadReplies, ScriptInv, CallAt
    <2> DEFINE after == [L EXCEPT !.heard = {"reply"}]
    <2>2. Agrees(program, kernel, message', after)
      BY <1>1, <2>1, Here DEF Agrees, LedgerFields
    <2>3. Agrees(program, kernel, message', N)
      <3>1. Weaker(N, after)
        BY <1>2 DEF SuitsSend
      <3> HIDE DEF after, N
      <3> QED
        BY <2>2, <3>1, WeakerAgrees
    <2> QED
      BY <2>1, <2>3 DEF SetUpInv, AbortsSafely
  <1> QED
    BY <1>3, <1>4 DEF Thread2

LEMMA SetUpStep ==
  ASSUME ScriptInv, SetUpInv, [Next]_vars
  PROVE  SetUpInv'
  <1>1. CASE SuspendCall
    BY <1>1 DEF SuspendCall, SetUpInv, AbortsSafely
  <1>2. CASE UNCHANGED vars
    BY <1>2 DEF vars, SetUpInv, AbortsSafely
  <1> QED
    BY <1>1, <1>2, BeginPrepares, AllocPrepares, ForgetPrepares, MintPrepares, MovePrepares,
       MapTablePrepares, MapPagePrepares, MapWithTablesPrepares, AccessPrepares,
       SetThreadPrepares, ResumePrepares, ConfigurePrepares, MintIntoPrepares,
       SpawnPrepares, IrqPrepares, CheckReplyPrepares, MessagePrepares, Zenon
       DEF Next, RootTask

LEMMA SetUpInit ==
  ASSUME Init
  PROVE  SetUpInv
  <1>1. /\ program \in Programs /\ step = 1 /\ outcome = "runs" /\ message = NoMessage
    BY DEF Init
  <1>2. PICK v \in Levels(program) :
          kernel =
            [caps |-> [c \in {"seL4_CapInitThreadTCB"} |-> Capability(c)],
             tables |-> [s \in Spaces |-> IF s = "root" THEN v ELSE 1],
             pages |-> [s \in Spaces |-> [object |-> "none", rights |-> "none"]],
             facts |-> [t \in Threads |-> {}],
             held |-> [t \in Threads |-> {}],
             irq |-> {}]
    BY Zenon DEF Init
  <1> DEFINE L == Known(program, 1)
             Fresh(l) ==
               /\ l.slots = Initial /\ l.taken = Initial /\ l.told = {} /\ l.held = {}
               /\ l.mapped = {} /\ l.irq = {} /\ l.running = {} /\ l.heard = {}
  <1>3. Fresh(L) /\ Levels(program) \subseteq L.levels
    <2>1. /\ Fresh(Known1(1)) /\ Fresh(Known2(1)) /\ Fresh(Known3(1)) /\ Fresh(KnownBak(1))
          /\ Fresh(KnownMultiserver(1)) /\ Fresh(Known4(1)) /\ Fresh(KnownCapabilities(1))
          /\ Fresh(KnownMapping(1))
      <3>1. Fresh(Known1(1))
        BY DEF Known1, Plain, Since, During
      <3>2. Fresh(Known2(1))
        BY DEF Known2, Plain, Since, During
      <3>3. Fresh(Known3(1))
        BY DEF Known3, Plain, Since, During
      <3>4. Fresh(KnownBak(1))
        BY DEF KnownBak, Plain, Since, During
      <3>5. Fresh(KnownMultiserver(1))
        BY DEF KnownMultiserver, Plain, Since, During
      <3>6. Fresh(Known4(1))
        BY DEF Known4, Plain, Since, During
      <3>7. Fresh(KnownCapabilities(1))
        BY DEF KnownCapabilities, Plain, Since, During
      <3>8. Fresh(KnownMapping(1))
        BY DEF KnownMapping, Plain, Since, During
      <3> QED
        BY <3>1, <3>2, <3>3, <3>4, <3>5, <3>6, <3>7, <3>8
    <2>2. /\ Known1(1).levels = 0 .. 3 /\ Known2(1).levels = {2, 3}
          /\ Known3(1).levels = 0 .. 3 /\ KnownBak(1).levels = 0 .. 3
          /\ KnownMultiserver(1).levels = 0 .. 3 /\ Known4(1).levels = 0 .. 3
          /\ KnownCapabilities(1).levels = 0 .. 3 /\ KnownMapping(1).levels = {0, 1}
      BY DEF Known1, Known2, Known3, KnownBak, KnownMultiserver, Known4,
             KnownCapabilities, KnownMapping, Plain
    <2>3. program = "mapping" => Levels(program) = {0, 1}
      BY DEF Levels
    <2>4. program = "libraries2" => Levels(program) = {2, 3}
      BY DEF Levels
    <2>5. Levels(program) \subseteq 0 .. 3
      BY DEF Levels
    <2> HIDE DEF Fresh
    <2> QED
      BY <1>1, <2>1, <2>2, <2>3, <2>4, <2>5, ProgramsAssumption, KnownAre
  <1>4. Agrees(program, kernel, message, L)
    <2> HIDE DEF L
    <2> QED
      BY <1>2, <1>3 DEF Agrees, Capability, Origin, Initial, Spaces
  <1>5. Prepared(program, kernel)
    BY <1>2 DEF Prepared
  <1> QED
    BY <1>1, <1>4, <1>5 DEF SetUpInv, AbortsSafely


-----------------------------------------------------------------------------
(* Both invariants together, for the two theorems below.                   *)
LEMMA LedgerInvariant == Spec => [](ScriptInv /\ SetUpInv)
  <1>1. Init => ScriptInv /\ SetUpInv
    BY ScriptInvInit, SetUpInit
  <1>2. ScriptInv /\ SetUpInv /\ [Next]_vars => (ScriptInv /\ SetUpInv)'
    BY ScriptInvStep, SetUpStep
  <1> QED
    BY <1>1, <1>2, PTL DEF Spec

(* No call that one of the eight programs makes is refused unless it       *)
(* expects that, whichever paging structures it found at its address:      *)
(* the ZF_LOGF_IF and assert of libraries-1, -2, -3, -4, bak, multiserver, *)
(* capabilities and mapping stop a program for want of memory only, and    *)
(* then no process is left that calls it, but for the client libraries-4   *)
(* spawns before its timer is set up (libraries-4/main.c:138-158).         *)
THEOREM AbortsOnlyWhenShort == Spec => []AbortsSafely
  <1>1. SetUpInv => AbortsSafely
    BY DEF SetUpInv
  <1> QED
    BY <1>1, LedgerInvariant, PTL

(* A thread is resumed, and a process spawned, when everything it uses is  *)
(* there, and the device is enabled when its interrupt was bound and then  *)
(* acknowledged (libraries-2/main.c:378, libraries-3/main.c:159-222,       *)
(* bak/main.c:125).                                                        *)
THEOREM StartedIsReady == Spec => []ReadyWhenStarted
  <1>1. SetUpInv => ReadyWhenStarted
    BY ReadyIs DEF SetUpInv
  <1> QED
    BY <1>1, LedgerInvariant, PTL

=============================================================================
