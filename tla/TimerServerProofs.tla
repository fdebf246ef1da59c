------------------------- MODULE TimerServerProofs -------------------------
(***************************************************************************)
(* Proofs about TimerServer, for every number of ticks in a second and     *)
(* every set of requests.                                                  *)
(***************************************************************************)
EXTENDS TimerServer, Integers, TLAPS

(* What the root task's place says of the client, the timer and the count. *)
ClientHeld ==
  /\ spc = "spawn" <=> cpc = "none"
  /\ spc \in {"arm", "wait", "handle", "stop", "reply"} => cpc = "blocked"
  /\ Awake <=> spc = "again"
  /\ cpc \in {"blocked", "woken", "gone"} => msg \in Sleeps

TimerAt ==
  /\ timer = "on" => spc \in {"wait", "handle", "stop"}
  /\ spc \in {"stop", "reply", "again"} => count = Target(msg) /\ count > 0

Inv == TypeOK /\ ClientHeld /\ TimerAt /\ CountedOnce /\ MaskedIsOwed

-----------------------------------------------------------------------------
LEMMA Sizes == MaxTicks \in Nat /\ MaxTicks > 0 /\ Sleeps \subseteq Nat
BY SleepsAssumption

Numbers ==
  /\ slept \in Int /\ count \in Int /\ ntfn \in Int /\ pending \in Int
  /\ 0 <= slept /\ 0 <= count /\ 0 <= ntfn /\ 0 <= pending /\ ntfn <= 1
  /\ slept <= MaxTicks /\ MaxTicks \in Int

LEMMA Typed == TypeOK => Numbers
BY Sizes DEF TypeOK, Numbers

LEMMA MoreIsMore ==
  ASSUME NEW n \in 0 .. MaxTicks
  PROVE  /\ More(n) \in 0 .. MaxTicks
         /\ More(n) > 0
         /\ n < MaxTicks => More(n) = n + 1
         /\ More(n) < MaxTicks => More(n) = n + 1
BY Sizes DEF More

(* The served tick moves from the one being handled to the counted ones.   *)
LEMMA ServedTick ==
  ASSUME NEW m \in Int, NEW c \in Int, NEW c2 \in Int, NEW n \in Int, NEW p \in Int,
         NEW s \in Int, 0 <= n, 0 <= p,
         c < m => c2 = c + 1,
         s < m => c + 1 + n + p <= s
  PROVE  s < m => c2 + 0 + p + 0 <= s
OBVIOUS

(* A tick adds one at most to those signalled and latched.                 *)
LEMMA NewTick ==
  ASSUME NEW m \in Int, NEW c \in Int, NEW h \in Int, NEW n \in Int, NEW p \in Int,
         NEW n2 \in Int, NEW p2 \in Int, NEW s \in Int, NEW s2 \in Int,
         n2 + p2 <= n + p + 1,
         s2 < m => s < m /\ s2 = s + 1,
         s < m => c + h + n + p <= s
  PROVE  s2 < m => c + h + n2 + p2 <= s2
OBVIOUS

LEMMA InitInv == Init => Inv
BY Sizes
DEF Init, Inv, TypeOK, ClientHeld, TimerAt, CountedOnce, MaskedIsOwed, Awake

LEMMA ClientKeeps == Inv /\ ClientStep => Inv'
<1> SUFFICES ASSUME Inv, ClientStep PROVE Inv'
    OBVIOUS
<1> USE Sizes DEF Inv, TypeOK, ClientHeld, TimerAt, CountedOnce,
        MaskedIsOwed, Awake
<1>1. CASE ClientCall
      BY <1>1 DEF ClientCall
<1>2. CASE ClientExit
      BY <1>2 DEF ClientExit
<1> QED BY <1>1, <1>2 DEF ClientStep

LEMMA HandleKeeps == Inv /\ HandleIrq => Inv'
<1> SUFFICES ASSUME Inv, HandleIrq PROVE Inv'
    OBVIOUS
<1> USE DEF Inv, HandleIrq, Ack
<1>1. /\ count' \in 0 .. MaxTicks
      /\ count' > 0
      /\ count < MaxTicks => count' = count + 1
      BY MoreIsMore DEF TypeOK
<1>2. TypeOK'
      BY <1>1, Sizes DEF TypeOK
<1>3. ClientHeld'
      BY DEF ClientHeld, Awake
<1>4. TimerAt'
      BY <1>1 DEF TimerAt, LoopEnds, ClientHeld, Awake
<1>5. CountedOnce'
  <2>1. spc = "handle" /\ spc' # "handle"
        OBVIOUS
  <2>2. slept < MaxTicks => count + 1 + ntfn + pending <= slept
        BY <2>1 DEF CountedOnce
  <2>4. ntfn' = pending /\ pending' = 0 /\ slept' = slept
        OBVIOUS
  <2>3. slept' < MaxTicks => count' + 0 + ntfn' + pending' <= slept'
    <3>1. Numbers
          BY Typed
    <3>2. count' \in Int
          BY <1>1, Sizes
    <3>3. slept < MaxTicks => count' + 0 + pending + 0 <= slept
          BY <1>1, <2>2, <3>1, <3>2, ServedTick DEF Numbers
    <3> QED BY <3>3, <2>4
  <2> QED BY <2>1, <2>3 DEF CountedOnce
<1>6. MaskedIsOwed'
      BY DEF MaskedIsOwed
<1> QED BY <1>2, <1>3, <1>4, <1>5, <1>6

LEMMA RootKeeps == Inv /\ RootStep => Inv'
<1> SUFFICES ASSUME Inv, RootStep PROVE Inv'
    OBVIOUS
<1>1. CASE HandleIrq
      BY <1>1, HandleKeeps
<1> USE Sizes DEF Inv, TypeOK, ClientHeld, TimerAt, CountedOnce,
        MaskedIsOwed, Awake
<1>2. CASE SpawnClient
      BY <1>2 DEF SpawnClient
<1>3. CASE InitTimer
      BY <1>3 DEF InitTimer
<1>4. CASE Receive
      BY <1>4 DEF Receive
<1>5. CASE SetTimeout
      BY <1>5 DEF SetTimeout
<1>6. CASE AssertFails
      BY <1>6 DEF AssertFails
<1>7. CASE Wait
      BY <1>7 DEF Wait
<1>8. CASE DestroyTimer
      BY <1>8 DEF DestroyTimer
<1>9. CASE ReplyRecv
      BY <1>9 DEF ReplyRecv
<1> QED BY <1>1, <1>2, <1>3, <1>4, <1>5, <1>6, <1>7, <1>8, <1>9 DEF RootStep

LEMMA TickKeeps == Inv /\ Tick => Inv'
<1> SUFFICES ASSUME Inv, Tick PROVE Inv'
    OBVIOUS
<1> USE DEF Inv, Tick
<1>1. /\ slept' \in 0 .. MaxTicks
      /\ slept' < MaxTicks => slept < MaxTicks /\ slept' = slept + 1
      BY MoreIsMore, Sizes DEF TypeOK, More
<1>2. TypeOK'
      BY <1>1, Sizes DEF TypeOK
<1>3. ClientHeld' /\ TimerAt'
      BY DEF ClientHeld, TimerAt, Awake
<1>4. CountedOnce'
  <2> DEFINE h == IF spc = "handle" THEN 1 ELSE 0
  <2>1. h \in 0 .. 1 /\ h' = h
        OBVIOUS
  <2>2. slept < MaxTicks => count + h + ntfn + pending <= slept
        BY DEF CountedOnce
  <2>3. /\ ntfn' + pending' <= ntfn + pending + 1
        /\ ntfn' \in Int /\ pending' \in Int
    <3>1. Numbers /\ masked \in 0 .. 1
          BY Typed DEF TypeOK
    <3> QED BY <3>1 DEF Numbers
  <2>5. Numbers /\ count' = count
        BY Typed
  <2> HIDE DEF h, Inv, Tick
  <2>4. slept' < MaxTicks => count' + h' + ntfn' + pending' <= slept'
    <3>1. slept' \in Int /\ h \in Int
          BY <1>1, <2>1, Sizes
    <3>2. slept' < MaxTicks => count + h + ntfn' + pending' <= slept'
          BY <1>1, <2>2, <2>3, <2>5, <3>1, NewTick DEF Numbers
    <3> QED BY <2>1, <2>5, <3>2
  <2> QED BY <2>4 DEF CountedOnce, h
<1>5. MaskedIsOwed'
      BY DEF MaskedIsOwed
<1> QED BY <1>2, <1>3, <1>4, <1>5

LEMMA Inductive == Spec => []Inv
<1>1. Inv /\ UNCHANGED vars => Inv'
      BY DEF vars, Inv, TypeOK, ClientHeld, TimerAt, CountedOnce, MaskedIsOwed, Awake
<1>2. Inv /\ [Next]_vars => Inv'
      BY <1>1, ClientKeeps, RootKeeps, TickKeeps DEF Next
<1> QED BY InitInv, <1>2, PTL DEF Spec

LEMMA InvGivesNotEarly == Inv => NotEarly
<1> SUFFICES ASSUME Inv, Awake PROVE msg > 0 /\ slept >= Target(msg)
    BY DEF NotEarly
<1>1. /\ count = Target(msg) /\ count > 0
      /\ msg \in Sleeps /\ msg \in Nat /\ TICKS \in Nat
      /\ slept \in 0 .. MaxTicks /\ count \in 0 .. MaxTicks
      /\ spc # "handle" /\ TypeOK /\ MaxTicks \in Nat
      BY SleepsAssumption, Sizes DEF Inv, TypeOK, ClientHeld, TimerAt, Awake
<1>2. msg > 0
  <2>1. msg = 0 => Target(msg) = 0
        BY <1>1 DEF Target
  <2> QED BY <1>1, <2>1
<1>4. Numbers
      BY <1>1, Typed
<1>3. slept >= count
  <2>1. CASE slept < MaxTicks
        BY <2>1, <1>1, <1>4 DEF Numbers, Inv, CountedOnce
  <2>2. CASE slept = MaxTicks
        BY <2>2, <1>1
  <2> QED BY <1>1, <2>1, <2>2, Sizes
<1> QED BY <1>1, <1>2, <1>3

-----------------------------------------------------------------------------
(* The variables keep their types.                                         *)
THEOREM TypeCorrect == Spec => []TypeOK
BY Inductive, PTL DEF Inv

(* No tick is counted twice (main.c:209-215).                              *)
THEOREM TicksCountedOnce == Spec => []CountedOnce
BY Inductive, PTL DEF Inv

(* The timer's interrupt is never left masked (main.c:212-213).            *)
THEOREM NotLockedOut == Spec => []MaskedIsOwed
BY Inductive, PTL DEF Inv

(* The client is not woken before TICKS ticks for every second it asked    *)
(* for have passed, and not at all if it asked for none (main.c:215-219).  *)
THEOREM NeverEarly == Spec => []NotEarly
<1>1. Inv => NotEarly
      BY InvGivesNotEarly
<1> QED BY Inductive, <1>1, PTL

=============================================================================
