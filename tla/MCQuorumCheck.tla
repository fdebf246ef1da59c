---------------------------- MODULE MCQuorumCheck ----------------------------
(***************************************************************************)
(* TLC instance of QuorumCheck: the committee of the code (four members,   *)
(* three needed), bitmaps over five bits, every count around the limits,   *)
(* and in each witness slot a good witness of any member, a witness with   *)
(* another key or one whose signature is not canonical.                    *)
(***************************************************************************)
EXTENDS QuorumCheck

MCKeys          == 0 .. 4
MCRootKeys      == [b \in 0 .. 3 |-> b]
MCDecodableKeys == 0 .. 3
MCClaimants     == {"c"}
MCDocketTexts   == {"order"}

WitnessKinds ==
       [signer_pubkey : MCKeys, canonical : {TRUE}, authentic : {TRUE}]
  \cup {[signer_pubkey |-> 2, canonical |-> FALSE, authentic |-> FALSE]}

(* Frames that differ in what the function reads.                          *)
FramesOver(bitmaps, counts, lists) ==
  [magic : {SOVR_MAGIC}, sequence_id : {1},
   statutory_duty : {0}, corporate_defense_valid : {0},
   can_be_administered_away : {0},
   node_count : {0}, claimant : MCClaimants, dockets : MCDocketTexts,
   nodes : [NodeSlots -> {[title_type |-> 0, anomalous |-> FALSE]}],
   computed_root_hash : {ZeroHash},
   signer_bitmap : bitmaps, quorum_count : counts, witnesses : lists]

(* Every list of witnesses, for bitmaps that reach the loop and bitmaps    *)
(* that do not, with counts that go with them and counts that do not.      *)
MCFrames ==
  FramesOver({{0, 1, 2}, {0, 1, 3}, {1, 2, 3}, {0, 1, 2, 3}, {0, 2, 4},
              {1, 3, 4, 5}, {2, 3}, 0 .. 4}, 2 .. 5,
             [WitnessSlots -> WitnessKinds])

(* Every bitmap of the byte, with witnesses in the committee's order.      *)
MCWideFrames ==
  FramesOver(SUBSET (0 .. 7), 3 .. 4,
    {[s \in WitnessSlots |->
        [signer_pubkey |-> s, canonical |-> TRUE, authentic |-> TRUE]]})

(* Witnesses that carry the key of their member; the signature may or may  *)
(* not be one that key made.                                               *)
MCSignedFrames ==
  FramesOver({{0, 1, 2}, {0, 1, 2, 3}}, 3 .. 4,
    {[s \in WitnessSlots |->
        [signer_pubkey |-> s, canonical |-> TRUE, authentic |-> a[s]]] :
       a \in [WitnessSlots -> BOOLEAN]})

=============================================================================
