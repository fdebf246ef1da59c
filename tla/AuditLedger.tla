----------------------------- MODULE AuditLedger -----------------------------
(***************************************************************************)
(* What the appliance promises on the serial line, without saying how: a   *)
(* ledger of frames and the response to each.  A response depends on the   *)
(* frame and on the certificates given before, and on nothing else; there  *)
(* is no shared page, no client and no intermediate state.                 *)
(*                                                                         *)
(* AuditMonitor, the model of the event loop, implements this.             *)
(***************************************************************************)
EXTENDS SovereignContract, Sequences

CONSTANT Frames   \* the frames the line may bring

VARIABLE ledger   \* the frames answered so far, each with its response

(* The entries of l that are certificates.                                 *)
Certified(l) == {i \in DOMAIN l : l[i].resp.status_code = SOVR_STATUS_SUCCESS}

(* A frame is a replay when a certificate was given for its sequence       *)
(* number or a later one; number 0 is never fresh.                         *)
Replay(f, l) ==
  \/ f.sequence_id = 0
  \/ \E i \in Certified(l) : f.sequence_id <= l[i].frame.sequence_id

Rejection(status) ==
  [status_code |-> status, flags |-> {}, root_hash |-> ZeroHash]

Anomalous(f) == \E i \in NodeSlots : i < f.node_count /\ f.nodes[i].anomalous

CertificateFlags(f) ==
       {"QUORUM_VERIFIED"}
  \cup (IF DutyArises(f) THEN {"STATUTORY_DUTY"}
                         ELSE {"CORP_DEFENSE_VALID", "CAN_BE_ADMINISTERED"})
  \cup (IF Anomalous(f) THEN {"ANOMALY_DETECTED"} ELSE {})

Certificate(f) ==
  [status_code |-> SOVR_STATUS_SUCCESS, flags |-> CertificateFlags(f),
   root_hash |-> DigestOf(f)]

(* The tests a frame has to pass, in the order in which they are reported. *)
AnswerTo(f, l) ==
  IF f.magic # SOVR_MAGIC         THEN Rejection(SOVR_STATUS_ERR_MAGIC)
  ELSE IF Replay(f, l)            THEN Rejection(SOVR_STATUS_REJECT_REPLAY)
  ELSE IF f.node_count > MAX_NODES THEN Rejection(SOVR_STATUS_ERR_BOUNDS)
  ELSE IF ~QuorumAccepts(f)       THEN Rejection(SOVR_STATUS_ERR_QUORUM)
  ELSE Certificate(f)

Init == ledger = <<>>

Answer(f) == ledger' = Append(ledger, [frame |-> f, resp |-> AnswerTo(f, ledger)])

Next == \E f \in Frames : Answer(f)

Spec == Init /\ [][Next]_ledger

=============================================================================
