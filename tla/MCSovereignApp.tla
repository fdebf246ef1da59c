--------------------------- MODULE MCSovereignApp ---------------------------
(***************************************************************************)
(* TLC instances of SovereignApp: two-node frames, a committee of two, and *)
(* frames chosen so that each test of the loop fails for one of them, the  *)
(* certificates differ in digest, verdict and anomaly, and one has the     *)
(* content of the program's third test.  The registers that the messages   *)
(* leave unfilled hold zero or the largest word, or one of the status codes *)
(* app.c asks for.                                                         *)
(***************************************************************************)
EXTENDS SovereignApp

MCClaimants     == {"carroll", "zero"}
MCDocketTexts   == {"order", "empty"}
MCEmptyDocket   == {"empty"}
MCKeys          == {"k0", "k1", "k2"}
MCRootKeys      == [b \in 0 .. 1 |-> IF b = 0 THEN "k0" ELSE "k1"]
MCDecodableKeys == {"k0", "k1"}

Untitled  == [title_type |-> 0, anomalous |-> FALSE]
Sovereign == [title_type |-> 1, anomalous |-> FALSE]
Patent    == [title_type |-> 2, anomalous |-> TRUE]

GoodWitnesses ==
  [s \in WitnessSlots |-> [signer_pubkey |-> MCRootKeys[s], canonical |-> TRUE,
                           authentic |-> TRUE]]

MCBlankPage ==
  [magic |-> "other", sequence_id |-> 0,
   statutory_duty |-> 0, corporate_defense_valid |-> 0,
   can_be_administered_away |-> 0,
   node_count |-> 0, claimant |-> "zero", dockets |-> "empty",
   nodes |-> [i \in NodeSlots |-> Untitled],
   computed_root_hash |-> ZeroHash, signer_bitmap |-> {}, quorum_count |-> 2,
   witnesses |-> GoodWitnesses]

MCAuthenticPage ==
  [MCBlankPage EXCEPT !.magic = SOVR_MAGIC, !.claimant = "carroll",
                      !.dockets = "order", !.node_count = MAX_NODES,
                      !.nodes = [i \in NodeSlots |-> Sovereign]]

(* The output fields arrive with any content, here the digest of another   *)
(* page.                                                                   *)
FrameOf(seq, count, docket, first, second) ==
  [MCAuthenticPage EXCEPT
     !.sequence_id = seq, !.node_count = count, !.dockets = docket,
     !.nodes = [i \in NodeSlots |-> IF i = 0 THEN first ELSE second],
     !.statutory_duty = 1, !.corporate_defense_valid = 1,
     !.signer_bitmap = {0, 1}, !.computed_root_hash = DigestOf(MCBlankPage)]

(* With more nodes in the page than there are, an evaluation may leave any *)
(* digest there: too many to run, left to the proofs.                      *)
MCPages == {MCBlankPage, MCAuthenticPage, FrameOf(1, 1, "order", Sovereign, Patent)}

MCFrames ==
  { FrameOf(1, 2, "order", Sovereign, Sovereign),
    FrameOf(SEQ_MAX, 1, "order", Patent, Sovereign),  \* title beyond node_count
    FrameOf(0, 1, "order", Sovereign, Patent),        \* never fresh
    FrameOf(1, MAX_NODES + 1, "empty", Sovereign, Patent),
    [FrameOf(2, 1, "order", Sovereign, Patent) EXCEPT !.quorum_count = 1],
    [FrameOf(2, MAX_NODES + 1, "order", Sovereign, Patent) EXCEPT !.magic = "other"] }

(* One content, sent twice.                                                *)
MCRepeatedFrames == {FrameOf(s, 1, "order", Sovereign, Patent) : s \in 1 .. 2}

Built   == [t \in Threads |-> IF t = "root" THEN 255 ELSE 200]
Lowered == [t \in Threads |-> IF t = "root" THEN 100 ELSE 200]
=============================================================================
