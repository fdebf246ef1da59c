-------------------------- MODULE QuorumCheckProofs --------------------------
(***************************************************************************)
(* Proofs about QuorumCheck, for every committee, threshold and frame.     *)
(*                                                                         *)
(* The argument is about two indices.  Behind the counter "bit" lie        *)
(* ClaimedBelow(bit), the committee bits the frame claims there; the       *)
(* inductive invariant says that witness_idx is their number, and that     *)
(* each of them has been matched with its own witness.  As these bits are  *)
(* part of the bitmap, and the bitmap has quorum_count bits, there is      *)
(* always a witness left for the next one.                                 *)
(***************************************************************************)
EXTENDS QuorumCheck, FiniteSetTheorems, TLAPS

-----------------------------------------------------------------------------
(* The claimed bits of a frame are finitely many, and the slot of a bit is *)
(* a natural number.                                                       *)
LEMMA BitmapFinite ==
  ASSUME NEW f, IsFrame(f)
  PROVE  /\ IsFiniteSet(f.signer_bitmap)
         /\ Cardinality(f.signer_bitmap) \in Nat
         /\ f.signer_bitmap \subseteq Int
  <1>1. f.signer_bitmap \subseteq 0 .. (BITMAP_BITS - 1)
    BY DEF IsFrame, BitmapBits
  <1>2. IsFiniteSet(0 .. (BITMAP_BITS - 1))
    BY FS_Interval, SizesAssumption
  <1>3. IsFiniteSet(f.signer_bitmap)
    BY <1>1, <1>2, FS_Subset
  <1> QED
    BY <1>1, <1>3, FS_CardinalityType

(* A set of claimed bits is no larger than the bitmap it is taken from.    *)
LEMMA BelowFinite ==
  ASSUME IsFrame(frame), NEW b \in Int
  PROVE  /\ IsFiniteSet(ClaimedBelow(b))
         /\ Cardinality(ClaimedBelow(b)) \in Nat
         /\ Cardinality(ClaimedBelow(b)) <= Cardinality(frame.signer_bitmap)
         /\ b \notin ClaimedBelow(b)
  <1>1. ClaimedBelow(b) \subseteq frame.signer_bitmap
    BY DEF ClaimedBelow, CommitteeBits
  <1>2. IsFiniteSet(frame.signer_bitmap)
    BY BitmapFinite
  <1>3. b \notin ClaimedBelow(b)
    BY DEF ClaimedBelow
  <1> QED
    BY <1>1, <1>2, <1>3, FS_Subset, FS_CardinalityType

(* Passing a bit adds it to the bits behind the counter when the frame     *)
(* claims it, and changes nothing when it does not.                        *)
LEMMA BelowNext ==
  ASSUME IsFrame(frame), NEW b \in Committee
  PROVE  /\ b \notin frame.signer_bitmap => ClaimedBelow(b + 1) = ClaimedBelow(b)
         /\ b \in frame.signer_bitmap =>
              /\ ClaimedBelow(b + 1) = ClaimedBelow(b) \cup {b}
              /\ Cardinality(ClaimedBelow(b + 1)) = Cardinality(ClaimedBelow(b)) + 1
  <1>0. b \in Int /\ \A c \in frame.signer_bitmap : c \in Int
    BY BitmapFinite, SizesAssumption DEF Committee
  <1>1. ASSUME b \notin frame.signer_bitmap
        PROVE  ClaimedBelow(b + 1) = ClaimedBelow(b)
    BY <1>0, <1>1, SizesAssumption DEF ClaimedBelow, CommitteeBits, Committee
  <1>2. ASSUME b \in frame.signer_bitmap
        PROVE  /\ ClaimedBelow(b + 1) = ClaimedBelow(b) \cup {b}
               /\ Cardinality(ClaimedBelow(b + 1)) = Cardinality(ClaimedBelow(b)) + 1
    <2>1. ClaimedBelow(b + 1) = ClaimedBelow(b) \cup {b}
      BY <1>0, <1>2, SizesAssumption DEF ClaimedBelow, CommitteeBits, Committee
    <2>2. IsFiniteSet(ClaimedBelow(b)) /\ b \notin ClaimedBelow(b)
      BY <1>0, BelowFinite
    <2> QED
      BY <2>1, <2>2, FS_AddElement
  <1> QED
    BY <1>1, <1>2

-----------------------------------------------------------------------------
(* What is known at each place of the function.                            *)
Place ==
  /\ pc = "counts" => bit = 0 /\ ret = 0
  /\ pc = "loop"   => CountsAcceptable(frame) /\ ret = 0
  /\ pc = "done"   =>
       /\ ret = -1 <=> ~CountsAcceptable(frame)
       /\ ret = 0  => bit = MAX_QUORUM_SIGNERS
       /\ ret \in {-3, -2} =>
            /\ bit \in CommitteeBits(frame)
            /\ ~WitnessIsFor(frame.witnesses[witness_idx], bit)

IInv == TypeOK /\ Progress /\ Place

(* In the loop, a claimed bit finds a witness: what the body of the if     *)
(* reports is 0 when the witness is the bit's, and -2 or -3 otherwise.     *)
LEMMA WitnessLeft ==
  ASSUME IInv, InLoop, bit \in frame.signer_bitmap
  PROVE  /\ bit \in CommitteeBits(frame)
         /\ witness_idx < frame.quorum_count
         /\ witness_idx \in 0 .. (MAX_QUORUM_SIGNERS - 1)
         /\ BodyCheck(frame, bit, witness_idx) \in {-3, -2, 0}
         /\ BodyCheck(frame, bit, witness_idx) = 0 <=>
              WitnessIsFor(frame.witnesses[witness_idx], bit)
  <1>1. IsFrame(frame) /\ CountsAcceptable(frame) /\ bit \in Committee /\ bit \in Int
    BY SizesAssumption DEF IInv, TypeOK, Place, InLoop, Committee
  <1>2. Cardinality(ClaimedBelow(bit + 1)) = witness_idx + 1
    BY <1>1, BelowNext DEF IInv, Progress
  <1>3. bit + 1 \in Int
    BY <1>1
  <1>4. Cardinality(ClaimedBelow(bit + 1)) <= Cardinality(frame.signer_bitmap)
    BY <1>1, <1>3, BelowFinite
  <1>5. Cardinality(frame.signer_bitmap) = frame.quorum_count
    BY <1>1 DEF CountsAcceptable
  <1>6. /\ frame.quorum_count \in Int
        /\ frame.quorum_count <= MAX_QUORUM_SIGNERS
    BY <1>1, SizesAssumption DEF CountsAcceptable
  <1>7. witness_idx \in Nat
    BY SizesAssumption DEF IInv, TypeOK
  <1>8. witness_idx < frame.quorum_count /\ witness_idx < MAX_QUORUM_SIGNERS
    BY <1>2, <1>4, <1>5, <1>6, <1>7, SizesAssumption
  <1>9. ~(witness_idx >= frame.quorum_count)
    BY <1>6, <1>7, <1>8
  <1> QED
    BY <1>1, <1>7, <1>8, <1>9, SizesAssumption
    DEF BodyCheck, WitnessIsFor, CommitteeBits

-----------------------------------------------------------------------------
LEMMA InitInv == Init => IInv
  <1> SUFFICES ASSUME Init PROVE IInv
    OBVIOUS
  <1>1. IsFrame(frame)
    BY FramesAssumption DEF Init
  <1>2. ClaimedBelow(0) = {}
    BY SizesAssumption DEF ClaimedBelow, CommitteeBits, Committee
  <1>3. TypeOK
    BY <1>1, SizesAssumption DEF Init, TypeOK
  <1>4. Progress
    BY <1>2, FS_EmptySet DEF Init, Progress
  <1>5. Place
    BY DEF Init, Place
  <1> QED
    BY <1>3, <1>4, <1>5 DEF IInv

LEMMA NextInv == IInv /\ [Next]_vars => IInv'
  <1> SUFFICES ASSUME IInv, [Next]_vars PROVE IInv'
    OBVIOUS
  <1>0. IsFrame(frame) /\ TypeOK /\ Progress /\ Place
    BY DEF IInv, TypeOK
  <1>1. CASE RejectCounts
    <2>1. TypeOK'
      BY <1>0, <1>1 DEF RejectCounts, Return, TypeOK
    <2>2. Progress'
      BY <1>0, <1>1 DEF RejectCounts, Return, Progress, ClaimedBelow
    <2>3. Place'
      BY <1>0, <1>1 DEF RejectCounts, Return, Place
    <2> QED
      BY <2>1, <2>2, <2>3 DEF IInv
  <1>2. CASE EnterLoop
    <2>1. TypeOK'
      BY <1>0, <1>2 DEF EnterLoop, TypeOK
    <2>2. Progress'
      BY <1>0, <1>2 DEF EnterLoop, Progress, ClaimedBelow
    <2>3. Place'
      BY <1>0, <1>2 DEF EnterLoop, Place
    <2> QED
      BY <2>1, <2>2, <2>3 DEF IInv
  <1>3. CASE SkipBit
    <2>1. TypeOK'
      BY <1>0, <1>3, SizesAssumption DEF SkipBit, InLoop, TypeOK
    <2>2. bit \in Committee
      BY <1>0, <1>3, SizesAssumption DEF SkipBit, InLoop, TypeOK, Committee
    <2>3. ClaimedBelow(bit + 1) = ClaimedBelow(bit)
      BY <1>0, <1>3, <2>2, BelowNext DEF SkipBit
    <2>4. ClaimedBelow(bit)' = ClaimedBelow(bit)
      BY <1>3, <2>3 DEF SkipBit, ClaimedBelow
    <2>5. Progress'
      BY <1>0, <1>3, <2>4 DEF SkipBit, Progress
    <2>6. Place'
      BY <1>0, <1>3 DEF SkipBit, InLoop, Place
    <2> QED
      BY <2>1, <2>5, <2>6 DEF IInv
  <1>4. CASE RejectWitness
    <2>1. /\ bit \in CommitteeBits(frame)
          /\ BodyCheck(frame, bit, witness_idx) \in {-3, -2}
          /\ ~WitnessIsFor(frame.witnesses[witness_idx], bit)
      BY <1>4, WitnessLeft DEF RejectWitness
    <2>2. CountsAcceptable(frame)
      BY <1>0, <1>4 DEF RejectWitness, InLoop, Place
    <2>3. TypeOK'
      BY <1>0, <1>4, <2>1 DEF RejectWitness, Return, TypeOK
    <2>4. Progress'
      BY <1>0, <1>4 DEF RejectWitness, Return, Progress, ClaimedBelow
    <2>5. Place'
      BY <1>0, <1>4, <2>1, <2>2 DEF RejectWitness, Return, Place
    <2> QED
      BY <2>3, <2>4, <2>5 DEF IInv
  <1>5. CASE AcceptWitness
    <2>1. /\ bit \in Committee
          /\ witness_idx \in 0 .. (MAX_QUORUM_SIGNERS - 1)
          /\ WitnessIsFor(frame.witnesses[witness_idx], bit)
      BY <1>5, WitnessLeft DEF AcceptWitness, CommitteeBits
    <2>2. TypeOK'
      BY <1>0, <1>5, <2>1, SizesAssumption DEF AcceptWitness, InLoop, TypeOK
    <2>3. /\ ClaimedBelow(bit + 1) = ClaimedBelow(bit) \cup {bit}
          /\ Cardinality(ClaimedBelow(bit + 1)) = Cardinality(ClaimedBelow(bit)) + 1
      BY <1>0, <1>5, <2>1, BelowNext DEF AcceptWitness
    <2>4. ClaimedBelow(bit)' = ClaimedBelow(bit + 1)
      BY <1>5 DEF AcceptWitness, ClaimedBelow
    <2>5. SlotOf(frame, bit) = witness_idx
      BY <1>0 DEF Progress, SlotOf, ClaimedBelow
    <2>6. \A b \in ClaimedBelow(bit + 1) :
            WitnessIsFor(frame.witnesses[SlotOf(frame, b)], b)
      BY <1>0, <2>1, <2>3, <2>5 DEF Progress
    <2>7. Progress'
      BY <1>0, <1>5, <2>3, <2>4, <2>6 DEF AcceptWitness, Progress
    <2>8. Place'
      BY <1>0, <1>5 DEF AcceptWitness, InLoop, Place
    <2> QED
      BY <2>2, <2>7, <2>8 DEF IInv
  <1>6. CASE AcceptFrame
    <2>1. TypeOK'
      BY <1>0, <1>6 DEF AcceptFrame, Return, TypeOK
    <2>2. Progress'
      BY <1>0, <1>6 DEF AcceptFrame, Return, Progress, ClaimedBelow
    <2>3. Place'
      BY <1>0, <1>6 DEF AcceptFrame, Return, Place
    <2> QED
      BY <2>1, <2>2, <2>3 DEF IInv
  <1>7. CASE UNCHANGED vars
    BY <1>0, <1>7 DEF vars, IInv, TypeOK, Progress, Place, ClaimedBelow
  <1> QED
    BY <1>1, <1>2, <1>3, <1>4, <1>5, <1>6, <1>7 DEF Next

-----------------------------------------------------------------------------
(* The whole committee lies behind the counter when the loop has ended.    *)
LEMMA BelowAll == ClaimedBelow(MAX_QUORUM_SIGNERS) = CommitteeBits(frame)
  BY SizesAssumption DEF ClaimedBelow, CommitteeBits, Committee

LEMMA IInvMinusOne == IInv => MinusOneMeansCounts
  BY DEF IInv, Place, MinusOneMeansCounts

LEMMA IInvVerdict == IInv => VerdictCorrect
  <1> SUFFICES ASSUME IInv, pc = "done" PROVE ret = 0 <=> QuorumAccepts(frame)
    BY IInvMinusOne DEF VerdictCorrect
  <1>0. TypeOK /\ Progress /\ Place
    BY DEF IInv
  <1>1. ASSUME ret = 0 PROVE QuorumAccepts(frame)
    <2>1. bit = MAX_QUORUM_SIGNERS /\ CountsAcceptable(frame)
      BY <1>0, <1>1 DEF Place
    <2>2. \A b \in CommitteeBits(frame) :
            WitnessIsFor(frame.witnesses[SlotOf(frame, b)], b)
      BY <1>0, <2>1, BelowAll DEF Progress
    <2> QED
      BY <2>1, <2>2 DEF QuorumAccepts
  <1>2. ASSUME QuorumAccepts(frame), ret # 0 PROVE FALSE
    <2>1. ret \in {-3, -2}
      BY <1>0, <1>2 DEF TypeOK, Place, QuorumAccepts
    <2>2. /\ bit \in CommitteeBits(frame)
          /\ ~WitnessIsFor(frame.witnesses[witness_idx], bit)
      BY <1>0, <2>1 DEF Place
    <2>3. witness_idx = SlotOf(frame, bit)
      BY <1>0 DEF Progress, SlotOf, ClaimedBelow
    <2> QED
      BY <1>2, <2>2, <2>3 DEF QuorumAccepts
  <1> QED
    BY <1>1, <1>2

(* The slots of two claimed bits are different, in the order of the bits,  *)
(* and there are fewer before each than bits claimed.                      *)
LEMMA SlotsDiffer ==
  ASSUME IsFrame(frame), NEW b \in CommitteeBits(frame)
  PROVE  /\ b \in Committee /\ b \in Int
         /\ SlotOf(frame, b) \in Nat
         /\ SlotOf(frame, b) < Cardinality(frame.signer_bitmap)
         /\ \A c \in CommitteeBits(frame) : b < c => SlotOf(frame, b) < SlotOf(frame, c)
  <1>1. b \in Committee /\ b \in Int /\ b + 1 \in Int /\ b \in frame.signer_bitmap
    BY SizesAssumption DEF CommitteeBits, Committee
  <1>2. /\ SlotOf(frame, b) \in Nat
        /\ Cardinality(ClaimedBelow(b + 1)) = SlotOf(frame, b) + 1
    BY <1>1, BelowFinite, BelowNext DEF SlotOf, ClaimedBelow
  <1>3. Cardinality(ClaimedBelow(b + 1)) <= Cardinality(frame.signer_bitmap)
    BY <1>1, BelowFinite
  <1>4. Cardinality(frame.signer_bitmap) \in Nat
    BY BitmapFinite
  <1>5. ASSUME NEW c \in CommitteeBits(frame), b < c
        PROVE  SlotOf(frame, b) < SlotOf(frame, c)
    <2>1. c \in Int
      BY SizesAssumption DEF CommitteeBits, Committee
    <2>2. ClaimedBelow(b + 1) \subseteq ClaimedBelow(c)
      <3>1. \A d \in CommitteeBits(frame) : d \in Int
        BY SizesAssumption DEF CommitteeBits, Committee
      <3>2. ASSUME NEW d \in CommitteeBits(frame), d < b + 1
            PROVE  d < c
        <4>1. b \in Int /\ c \in Int /\ d \in Int /\ b < c /\ d < b + 1
          BY <1>1, <1>5, <2>1, <3>1, <3>2
        <4> QED
          BY <4>1
      <3> QED
        BY <3>2 DEF ClaimedBelow
    <2>3. IsFiniteSet(ClaimedBelow(c)) /\ Cardinality(ClaimedBelow(c)) \in Nat
      BY <2>1, BelowFinite
    <2>4. Cardinality(ClaimedBelow(b + 1)) <= Cardinality(ClaimedBelow(c))
      BY <2>2, <2>3, FS_Subset
    <2>5. SlotOf(frame, c) = Cardinality(ClaimedBelow(c))
      BY DEF SlotOf, ClaimedBelow
    <2> QED
      BY <1>2, <2>3, <2>4, <2>5
  <1> QED
    BY <1>1, <1>2, <1>3, <1>4, <1>5

LEMMA IInvQuorum == IInv => CommitteeQuorum
  <1> SUFFICES ASSUME IInv, pc = "done", ret = 0
               PROVE  /\ \E place \in [CommitteeBits(frame) -> 0 .. (frame.quorum_count - 1)] :
                           /\ \A b \in CommitteeBits(frame) :
                                WitnessIsFor(frame.witnesses[place[b]], b)
                           /\ \A b, c \in CommitteeBits(frame) : b # c => place[b] # place[c]
                      /\ frame.signer_bitmap \subseteq Committee =>
                           /\ Cardinality(CommitteeBits(frame)) >= QUORUM_THRESHOLD
                           /\ witness_idx = frame.quorum_count
    BY DEF CommitteeQuorum
  <1>0. IsFrame(frame) /\ TypeOK /\ Progress /\ Place
    BY DEF IInv, TypeOK
  <1>1. /\ bit = MAX_QUORUM_SIGNERS
        /\ Cardinality(frame.signer_bitmap) >= QUORUM_THRESHOLD
        /\ Cardinality(frame.signer_bitmap) = frame.quorum_count
    BY <1>0 DEF Place, CountsAcceptable
  <1>2. /\ witness_idx = Cardinality(CommitteeBits(frame))
        /\ \A b \in CommitteeBits(frame) : WitnessIsFor(frame.witnesses[SlotOf(frame, b)], b)
    BY <1>0, <1>1, BelowAll DEF Progress
  <1> DEFINE place == [b \in CommitteeBits(frame) |-> SlotOf(frame, b)]
  <1>3. place \in [CommitteeBits(frame) -> 0 .. (frame.quorum_count - 1)]
    <2>1. ASSUME NEW b \in CommitteeBits(frame)
          PROVE  SlotOf(frame, b) \in 0 .. (frame.quorum_count - 1)
      <3>1. /\ SlotOf(frame, b) \in Nat /\ frame.quorum_count \in Nat
            /\ SlotOf(frame, b) < frame.quorum_count
        BY <1>0, <1>1, SlotsDiffer, BitmapFinite
      <3> QED
        BY <3>1
    <2> QED
      BY <2>1
  <1>4. \A b \in CommitteeBits(frame) : WitnessIsFor(frame.witnesses[place[b]], b)
    BY <1>2
  <1>5. ASSUME NEW b \in CommitteeBits(frame), NEW c \in CommitteeBits(frame), b # c
        PROVE  place[b] # place[c]
    <2>1. /\ b \in Int /\ c \in Int /\ SlotOf(frame, b) \in Nat /\ SlotOf(frame, c) \in Nat
          /\ b < c => SlotOf(frame, b) < SlotOf(frame, c)
          /\ c < b => SlotOf(frame, c) < SlotOf(frame, b)
      BY <1>0, SlotsDiffer
    <2>2. SlotOf(frame, b) # SlotOf(frame, c)
      BY <1>5, <2>1
    <2> QED
      BY <2>2
  <1>6. ASSUME frame.signer_bitmap \subseteq Committee
        PROVE  CommitteeBits(frame) = frame.signer_bitmap
    BY <1>6 DEF CommitteeBits
  <1> HIDE DEF place
  <1> QED
    BY <1>1, <1>2, <1>3, <1>4, <1>5, <1>6

-----------------------------------------------------------------------------
(* The inductive invariant holds of every execution of                     *)
(* verify_quorum_committee.                                                *)
THEOREM Invariance == Spec => []IInv
  BY InitInv, NextInv, PTL DEF Spec

(* The variables keep their types: neither index of the loop leaves the    *)
(* committee or the witness list (main.c:92-111).                          *)
THEOREM TypeCorrect == Spec => []TypeOK
  <1>1. IInv => TypeOK
    BY DEF IInv
  <1> QED
    BY <1>1, Invariance, PTL

(* The witness list is consumed in step with the claimed bits.             *)
THEOREM InStep == Spec => []Progress
  <1>1. IInv => Progress
    BY DEF IInv
  <1> QED
    BY <1>1, Invariance, PTL

(* A result of -1 is about the counts; the loop never runs out of          *)
(* witnesses (main.c:95-97 is never taken).                                *)
THEOREM LoopNeverRunsOut == Spec => []MinusOneMeansCounts
  BY IInvMinusOne, Invariance, PTL

(* The function computes the predicate QuorumAccepts, which the models of  *)
(* its caller use in its place.                                            *)
THEOREM ComputesQuorumAccepts == Spec => []VerdictCorrect
  BY IInvVerdict, Invariance, PTL

(* A frame is accepted only with a witness for each member it claims: with *)
(* the member's key, passed by sovereign_ed25519_verify, and not shared.   *)
(* Members are at least QUORUM_THRESHOLD if the bitmap names nobody else   *)
(* (main.c:82-113).                                                        *)
THEOREM AcceptanceIsAQuorum == Spec => []CommitteeQuorum
  BY IInvQuorum, Invariance, PTL

=============================================================================
