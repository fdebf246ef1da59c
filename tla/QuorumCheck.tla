----------------------------- MODULE QuorumCheck -----------------------------
(***************************************************************************)
(* verify_quorum_committee (libraries-3/main.c), one step per test and per *)
(* round of its loop.  The frame is an input: any member of Frames.        *)
(*                                                                         *)
(* The function walks the committee bits of signer_bitmap and a list of    *)
(* witnesses side by side, with one index for each.  The list holds a      *)
(* witness per claimed bit and no gaps, so the two indices drift apart;    *)
(* what the function accepts depends on how they are kept in step.         *)
(***************************************************************************)
EXTENDS SovereignContract

CONSTANT Frames   \* the frames the function may be called with

ASSUME FramesAssumption == \A f \in Frames : IsFrame(f)

VARIABLES
  pc,           \* where the function is: "counts", "loop", "done"
  frame,        \* its argument
  bit,          \* the loop's counter
  witness_idx,  \* the next witness to look at
  ret           \* the value returned, once pc = "done"

vars == <<pc, frame, bit, witness_idx, ret>>

Init ==
  /\ pc = "counts"
  /\ frame \in Frames
  /\ bit = 0
  /\ witness_idx = 0
  /\ ret = 0

-----------------------------------------------------------------------------
Return(r) ==
  /\ pc' = "done"
  /\ ret' = r
  /\ UNCHANGED <<frame, bit, witness_idx>>

(* The tests before the loop: quorum_count in range, and equal to the      *)
(* number of bits set in the bitmap, which is in range as well.            *)
RejectCounts ==
  /\ pc = "counts"
  /\ ~CountsAcceptable(frame)
  /\ Return(-1)

EnterLoop ==
  /\ pc = "counts"
  /\ CountsAcceptable(frame)
  /\ pc' = "loop"
  /\ UNCHANGED <<frame, bit, witness_idx, ret>>

(* What the body of the if finds out about one claimed bit: 0 when the     *)
(* witness at witness_idx is there, has the bit's key and verifies.        *)
BodyCheckWithoutKey(f, b, idx) ==   \* mutant: the key comparison left out
  IF idx >= f.quorum_count THEN -1
  ELSE IF sovereign_ed25519_verify(f.witnesses[idx]) # 0 THEN -3
  ELSE 0

BodyCheckAnyKey(f, b, idx) ==   \* mutant: any member's key will do
  IF idx >= f.quorum_count THEN -1
  ELSE IF f.witnesses[idx].signer_pubkey \notin {SOVR_ROOT_PUBKEYS[c] : c \in Committee}
       THEN -2
  ELSE IF sovereign_ed25519_verify(f.witnesses[idx]) # 0 THEN -3
  ELSE 0

BodyCheck(f, b, idx) ==
  IF idx >= f.quorum_count THEN -1
  ELSE IF f.witnesses[idx].signer_pubkey # SOVR_ROOT_PUBKEYS[b] THEN -2
  ELSE IF sovereign_ed25519_verify(f.witnesses[idx]) # 0 THEN -3
  ELSE 0

InLoop == pc = "loop" /\ bit < MAX_QUORUM_SIGNERS

SkipBit ==
  /\ InLoop
  /\ bit \notin frame.signer_bitmap
  /\ bit' = bit + 1
  /\ UNCHANGED <<pc, frame, witness_idx, ret>>

RejectWitness ==
  /\ InLoop
  /\ bit \in frame.signer_bitmap
  /\ BodyCheck(frame, bit, witness_idx) # 0
  /\ Return(BodyCheck(frame, bit, witness_idx))

AcceptWitnessNoStep ==   \* mutant: the loop counter is not advanced
  /\ InLoop
  /\ bit \in frame.signer_bitmap
  /\ BodyCheck(frame, bit, witness_idx) = 0
  /\ UNCHANGED vars

AcceptWitness ==
  /\ InLoop
  /\ bit \in frame.signer_bitmap
  /\ BodyCheck(frame, bit, witness_idx) = 0
  /\ bit' = bit + 1
  /\ witness_idx' = witness_idx + 1
  /\ UNCHANGED <<pc, frame, ret>>

AcceptFrame ==
  /\ pc = "loop"
  /\ bit = MAX_QUORUM_SIGNERS
  /\ Return(0)

Next == \/ RejectCounts
        \/ EnterLoop
        \/ SkipBit
        \/ RejectWitness
        \/ AcceptWitness
        \/ AcceptFrame

(* The function is sequential code that nothing can stop: it runs on.      *)
Spec == Init /\ [][Next]_vars /\ WF_vars(Next)

-----------------------------------------------------------------------------
(* The variables have their types; the two indices stay within the        *)
(* committee and the witness list (main.c:92-111).                        *)
TypeOK ==
  /\ pc \in {"counts", "loop", "done"}
  /\ IsFrame(frame)
  /\ bit \in 0 .. MAX_QUORUM_SIGNERS
  /\ witness_idx \in 0 .. MAX_QUORUM_SIGNERS
  /\ ret \in {-3, -2, -1, 0}

(* The bits before b that the frame claims and the committee has.          *)
ClaimedBelow(b) == {c \in CommitteeBits(frame) : c < b}

(* How far the witness list has been consumed, at every step: as many      *)
(* witnesses as there are claimed committee bits behind the counter        *)
(* (witness_idx++ at main.c:109 against bit++ at main.c:93), and each of   *)
(* those is the witness of its bit.                                        *)
Progress ==
  /\ witness_idx = Cardinality(ClaimedBelow(bit))
  /\ \A b \in ClaimedBelow(bit) :
        WitnessIsFor(frame.witnesses[SlotOf(frame, b)], b)

(* While the loop runs the witness list cannot run out: the counts         *)
(* accepted before it leave a witness for every committee bit, so the      *)
(* test at main.c:95-97 never returns and a result of -1 always means the  *)
(* counts (main.c:84-90), as the REJECT message takes it to.               *)
MinusOneMeansCounts ==
  pc = "done" => (ret = -1 <=> ~CountsAcceptable(frame))

(* The returned value is 0 for exactly the frames the contract describes:  *)
(* acceptable counts, and for each claimed committee bit, at its own place *)
(* in the witness list, a witness with the key of that bit (main.c:82-113);*)
(* it is -1 for exactly the counts that are not acceptable.                *)
VerdictCorrect ==
  /\ pc = "done" => (ret = 0 <=> QuorumAccepts(frame))
  /\ MinusOneMeansCounts

(* What a quorum is for (main.c:82-113).  An accepted frame has for every  *)
(* member it claims a witness of that member's own: with its key, passed   *)
(* by sovereign_ed25519_verify, and shared with no other member, whichever *)
(* keys the members have.  When the bitmap names members only, they are at *)
(* least QUORUM_THRESHOLD, and all the witnesses counted were looked at.   *)
CommitteeQuorum ==
  pc = "done" /\ ret = 0 =>
    /\ \E place \in [CommitteeBits(frame) -> 0 .. (frame.quorum_count - 1)] :
         /\ \A b \in CommitteeBits(frame) : WitnessIsFor(frame.witnesses[place[b]], b)
         /\ \A b, c \in CommitteeBits(frame) : b # c => place[b] # place[c]
    /\ frame.signer_bitmap \subseteq Committee =>
         /\ Cardinality(CommitteeBits(frame)) >= QUORUM_THRESHOLD
         /\ witness_idx = frame.quorum_count

(* The function returns.                                                   *)
Returns == <>(pc = "done")

-----------------------------------------------------------------------------
(* What two comments of the code say, and the code does not do.            *)

(* "Insufficient quorum committee" (main.c:265) is what the caller reports *)
(* of a frame that fails; a frame that passes has had at least             *)
(* QUORUM_THRESHOLD witnesses of the committee checked.                    *)
ThresholdOfWitnesses ==
  pc = "done" /\ ret = 0 => witness_idx >= QUORUM_THRESHOLD

(* "Invariant 2: Cryptographic Ed25519 detached signature verification     *)
(* over bytes 0..319" (main.c:104): the witnesses of a frame that passes   *)
(* carry signatures that satisfy the equation.                             *)
SignaturesVerified ==
  pc = "done" /\ ret = 0 =>
    \A b \in CommitteeBits(frame) : frame.witnesses[SlotOf(frame, b)].authentic

=============================================================================
