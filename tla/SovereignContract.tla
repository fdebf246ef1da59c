------------------------- MODULE SovereignContract -------------------------
(***************************************************************************)
(* The binary contract of the Sovereign audit appliance                    *)
(* (libraries-3/sovereign_contract.h) and the pure part of its evaluator:  *)
(* the fields of an ingress frame, what evaluate_and_hash_frame computes   *)
(* from them, what the response to a frame carries, and the condition      *)
(* under which verify_quorum_committee returns 0.                          *)
(*                                                                         *)
(* A frame is the C struct at field granularity.  Byte strings are members *)
(* of small sets; a SHA-256 digest is represented by what was hashed, so   *)
(* that two digests are equal exactly when their inputs are.               *)
(***************************************************************************)
EXTENDS Integers, FiniteSets

CONSTANTS
  MAX_NODES,          \* length of the nodes array (8 in the code)
  MAX_QUORUM_SIGNERS, \* witness slots and committee size (4)
  QUORUM_THRESHOLD,   \* witnesses a frame must claim (3)
  BITMAP_BITS,        \* width of signer_bitmap, a uint8_t (8)
  SEQ_MAX,            \* largest sequence_id, 2^64 - 1 in the code
  COUNT_MAX,          \* largest node_count, 2^32 - 1 in the code
  Claimants,          \* the contents claimant[64] may have
  DocketTexts,        \* the contents dockets[4][32] may have
  EmptyDocket,        \* the ones whose first docket is the empty string
  Keys,               \* the values signer_pubkey may have
  SOVR_ROOT_PUBKEYS,  \* the committee's keys, by bit number
  DecodableKeys,      \* the keys unpackneg decompresses to a curve point
  ZeroHash            \* 32 zero bytes, the digest of a rejecting response

ASSUME SizesAssumption ==
  /\ MAX_NODES \in Nat \ {0}
  /\ QUORUM_THRESHOLD \in Nat \ {0}
  /\ MAX_QUORUM_SIGNERS \in Nat
  /\ QUORUM_THRESHOLD <= MAX_QUORUM_SIGNERS
  /\ BITMAP_BITS \in Nat
  /\ MAX_QUORUM_SIGNERS <= BITMAP_BITS
  /\ SEQ_MAX \in Nat
  /\ COUNT_MAX \in Nat

ASSUME KeysAssumption ==
  /\ SOVR_ROOT_PUBKEYS \in [0 .. (MAX_QUORUM_SIGNERS - 1) -> Keys]
  /\ DecodableKeys \subseteq Keys

-----------------------------------------------------------------------------
(* Status codes, title types and response flags, as the header names them. *)

SOVR_STATUS_SUCCESS       == 0
SOVR_STATUS_ERR_MAGIC     == 57345   \* 0xE001
SOVR_STATUS_REJECT_REPLAY == 57346   \* 0xE002
SOVR_STATUS_ERR_BOUNDS    == 57347   \* 0xE003
SOVR_STATUS_ERR_QUORUM    == 57348   \* 0xE004
SOVR_STATUS_ERR_UNAUTH    == 57349   \* 0xE005

Statuses == {SOVR_STATUS_SUCCESS, SOVR_STATUS_ERR_MAGIC,
             SOVR_STATUS_REJECT_REPLAY, SOVR_STATUS_ERR_BOUNDS,
             SOVR_STATUS_ERR_QUORUM}

TITLE_ABORIGINAL_SOVEREIGN == 1
TitleTypes == 0 .. 3

Flags == {"STATUTORY_DUTY", "CORP_DEFENSE_VALID", "CAN_BE_ADMINISTERED",
          "ANOMALY_DETECTED", "QUORUM_VERIFIED"}

SOVR_MAGIC == "SOVR"
Magics     == {SOVR_MAGIC, "other"}

-----------------------------------------------------------------------------
(* The structs.  "anomalous" stands for the 64 bytes of a node being ones  *)
(* that tinyml_infer puts in class 1; "canonical" for the three top bits   *)
(* of the signature being clear; "authentic" for the signature satisfying  *)
(* the Ed25519 equation for its key over bytes 0..319 of the frame.        *)

Node    == [title_type : TitleTypes, anomalous : BOOLEAN]
Witness == [signer_pubkey : Keys, canonical : BOOLEAN, authentic : BOOLEAN]

Byte         == 0 .. 255
NodeSlots    == 0 .. (MAX_NODES - 1)
WitnessSlots == 0 .. (MAX_QUORUM_SIGNERS - 1)
Committee    == 0 .. (MAX_QUORUM_SIGNERS - 1)
BitmapBits   == 0 .. (BITMAP_BITS - 1)

Digest == [claimant : Claimants, dockets : DocketTexts,
           nodes : UNION {[0 .. (k - 1) -> Node] : k \in 0 .. MAX_NODES}]

RootHashes == Digest \cup {ZeroHash}

IsFrame(f) ==
  f \in [magic                    : Magics,
         sequence_id              : 0 .. SEQ_MAX,
         statutory_duty           : Byte,
         corporate_defense_valid  : Byte,
         can_be_administered_away : Byte,
         node_count               : 0 .. COUNT_MAX,
         claimant                 : Claimants,
         dockets                  : DocketTexts,
         nodes                    : [NodeSlots -> Node],
         computed_root_hash       : RootHashes,
         signer_bitmap            : SUBSET BitmapBits,
         quorum_count             : Byte,
         witnesses                : [WitnessSlots -> Witness]]

Response == [status_code : Statuses, flags : SUBSET Flags,
             root_hash : RootHashes]

-----------------------------------------------------------------------------
(* evaluate_and_hash_frame.  sha256 is fed the claimant, the dockets and   *)
(* node_count nodes; the digest is defined when that many nodes exist.     *)

HashedNodes(f) == [i \in 0 .. (f.node_count - 1) |-> f.nodes[i]]

DigestOf(f) == [claimant |-> f.claimant, dockets |-> f.dockets,
                nodes |-> HashedNodes(f)]

(* The digests the evaluation may leave in the frame: with more nodes than *)
(* the array has, sha256 reads on past its end, and any digest may result. *)
DigestOutcomes(f) == IF f.node_count <= MAX_NODES THEN {DigestOf(f)} ELSE Digest

(* The verdict: a sovereign title among the nodes the scan reaches, and a  *)
(* first docket that is not empty.                                         *)
has_orig_title(f) ==
  \E i \in NodeSlots : /\ i < f.node_count
                       /\ f.nodes[i].title_type = TITLE_ABORIGINAL_SOVEREIGN

has_judicial_orders(f) == f.dockets \notin EmptyDocket

DutyArises(f) == has_orig_title(f) /\ has_judicial_orders(f)

WithHash(f, h) == [f EXCEPT !.computed_root_hash = h]

(* The three bytes the verdict goes to: statutory_duty is 1 and the     *)
(* other two 0, or the other way about.                                    *)
Duty(f)   == IF DutyArises(f) THEN 1 ELSE 0
NoDuty(f) == IF DutyArises(f) THEN 0 ELSE 1

WithVerdict(f) ==
  [f EXCEPT !.statutory_duty           = Duty(f),
            !.corporate_defense_valid  = NoDuty(f),
            !.can_be_administered_away = NoDuty(f)]

(* The flags main adds to the response from the fields the evaluator set.  *)
VerdictFlags(f) ==
       (IF f.statutory_duty # 0           THEN {"STATUTORY_DUTY"}      ELSE {})
  \cup (IF f.corporate_defense_valid # 0  THEN {"CORP_DEFENSE_VALID"}  ELSE {})
  \cup (IF f.can_be_administered_away # 0 THEN {"CAN_BE_ADMINISTERED"} ELSE {})

-----------------------------------------------------------------------------
(* verify_quorum_committee as a condition on the frame.                    *)

CommitteeBits(f) == f.signer_bitmap \cap Committee

(* sovereign_ed25519_verify, as written: the range of the top byte and the *)
(* decompression of the key decide; the hash it computes is not used.      *)
sovereign_ed25519_verify(w) ==
  IF ~w.canonical THEN -1
  ELSE IF w.signer_pubkey \notin DecodableKeys THEN -2
  ELSE 0

WitnessIsFor(w, bit) ==
  /\ w.signer_pubkey = SOVR_ROOT_PUBKEYS[bit]
  /\ sovereign_ed25519_verify(w) = 0

(* The slot of the witness list that belongs to a bit of the bitmap: the   *)
(* number of committee bits claimed below it.                              *)
SlotOf(f, bit) == Cardinality({c \in CommitteeBits(f) : c < bit})

CountsWithoutEquality(f) ==   \* mutant: "valid_signers != quorum_count" left out
  /\ f.quorum_count \in QUORUM_THRESHOLD .. MAX_QUORUM_SIGNERS
  /\ Cardinality(f.signer_bitmap) >= QUORUM_THRESHOLD

CountsAcceptable(f) ==
  /\ f.quorum_count \in QUORUM_THRESHOLD .. MAX_QUORUM_SIGNERS
  /\ Cardinality(f.signer_bitmap) >= QUORUM_THRESHOLD
  /\ Cardinality(f.signer_bitmap) = f.quorum_count

QuorumAccepts(f) ==
  /\ CountsAcceptable(f)
  /\ \A bit \in CommitteeBits(f) : WitnessIsFor(f.witnesses[SlotOf(f, bit)], bit)

=============================================================================
