------------------------- MODULE SovereignAppProofs -------------------------
(***************************************************************************)
(* Proofs about the event loop and the appliance, for every set of frames, *)
(* pages and codes: about AuditMonitor first, whose client does what it    *)
(* likes, and then about SovereignApp, whose client is a program.          *)
(*                                                                         *)
(* The argument about AuditMonitor has two halves.  ClientHeld says that   *)
(* once the root task has begun a round the client cannot run before it is *)
(* over: it is below the root task, or it is blocked or gone - for if it   *)
(* is above, the root task began only because it was.  Hence what the root *)
(* task left in the page is what it finds there, and Stage can say, place  *)
(* by place, how much of the certificate for rx is in page and response.   *)
(*                                                                         *)
(* The program of app.c takes only steps that AuditMonitor allows a client,*)
(* so everything proved of the event loop holds of the appliance with this *)
(* client.  What is new is what the program finds in the page after its    *)
(* third call.  A client that has taken a step is above the root task, so  *)
(* the root task runs only while the call is open.  Meanwhile the page is  *)
(* the program's own, or a frame of the line that is being evaluated, or   *)
(* one that has been certified: ThirdPage.                                 *)
(***************************************************************************)
EXTENDS SovereignApp, SequenceTheorems, TLAPS

(* Appending to a sequence: the old entries stay, one is added.            *)
LEMMA AppendEntry ==
  ASSUME NEW S, NEW s \in Seq(S), NEW e \in S
  PROVE  /\ Append(s, e) \in Seq(S)
         /\ DOMAIN s = 1 .. Len(s)
         /\ Len(s) \in Nat
         /\ DOMAIN Append(s, e) = 1 .. (Len(s) + 1)
         /\ \A i \in DOMAIN s : Append(s, e)[i] = s[i]
         /\ Append(s, e)[Len(s) + 1] = e
  OBVIOUS

(* Storing a digest, or the verdict, changes the output fields only.       *)
LEMMA StoreHash ==
  ASSUME NEW f, IsFrame(f), NEW h \in RootHashes
  PROVE  /\ IsFrame(WithHash(f, h))
         /\ WithHash(f, h).computed_root_hash = h
         /\ WithHash(f, h).magic = f.magic
         /\ WithHash(f, h).node_count = f.node_count
         /\ WithHash(f, h).claimant = f.claimant
         /\ WithHash(f, h).dockets = f.dockets
         /\ WithHash(f, h).nodes = f.nodes
  BY DEF IsFrame, WithHash

LEMMA StoreVerdict ==
  ASSUME NEW f, IsFrame(f)
  PROVE  /\ IsFrame(WithVerdict(f))
         /\ VerdictFlags(WithVerdict(f)) =
              IF DutyArises(f) THEN {"STATUTORY_DUTY"}
                               ELSE {"CORP_DEFENSE_VALID", "CAN_BE_ADMINISTERED"}
         /\ WithVerdict(f).computed_root_hash = f.computed_root_hash
         /\ WithVerdict(f).node_count = f.node_count
         /\ WithVerdict(f).claimant = f.claimant
         /\ WithVerdict(f).dockets = f.dockets
         /\ WithVerdict(f).nodes = f.nodes
  <1>1. Duty(f) \in Byte /\ NoDuty(f) \in Byte
    BY DEF Duty, NoDuty, Byte
  <1> DEFINE g == WithVerdict(f)
  <1>2. g = [f EXCEPT !.statutory_duty           = Duty(f),
                      !.corporate_defense_valid  = NoDuty(f),
                      !.can_be_administered_away = NoDuty(f)]
    BY DEF WithVerdict
  <1> HIDE DEF g
  <1>3. /\ IsFrame(g)
        /\ g.statutory_duty = Duty(f)
        /\ g.corporate_defense_valid = NoDuty(f)
        /\ g.can_be_administered_away = NoDuty(f)
        /\ g.computed_root_hash = f.computed_root_hash
        /\ g.node_count = f.node_count
        /\ g.claimant = f.claimant
        /\ g.dockets = f.dockets
        /\ g.nodes = f.nodes
    BY <1>1, <1>2 DEF IsFrame
  <1>4. VerdictFlags(g) =
          IF DutyArises(f) THEN {"STATUTORY_DUTY"}
                           ELSE {"CORP_DEFENSE_VALID", "CAN_BE_ADMINISTERED"}
    BY <1>3 DEF VerdictFlags, Duty, NoDuty
  <1> QED
    BY <1>3, <1>4 DEF g

(* The digest of a frame within bounds is a digest.                        *)
LEMMA DigestType ==
  ASSUME NEW f, IsFrame(f), f.node_count <= MAX_NODES
  PROVE  DigestOf(f) \in Digest
  <1>1. /\ f.node_count \in 0 .. MAX_NODES
        /\ f.claimant \in Claimants
        /\ f.dockets \in DocketTexts
        /\ f.nodes \in [0 .. (MAX_NODES - 1) -> Node]
    BY SizesAssumption DEF IsFrame, NodeSlots
  <1>2. HashedNodes(f) \in [0 .. (f.node_count - 1) -> Node]
    BY <1>1, SizesAssumption DEF HashedNodes
  <1>3. HashedNodes(f) \in UNION {[0 .. (k - 1) -> Node] : k \in 0 .. MAX_NODES}
    BY <1>1, <1>2
  <1> QED
    BY <1>1, <1>3 DEF DigestOf, Digest

LEMMA OutcomeType ==
  ASSUME NEW f, IsFrame(f), NEW h \in DigestOutcomes(f)
  PROVE  h \in RootHashes
  BY DigestType DEF DigestOutcomes, RootHashes

(* What evaluation computes depends on the fields PageHolds compares.      *)
LEMMA SameEvaluation ==
  ASSUME NEW f, PageHolds(f)
  PROVE  /\ DigestOf(page) = DigestOf(f)
         /\ DutyArises(page) = DutyArises(f)
  BY DEF PageHolds, DigestOf, HashedNodes, DutyArises, has_orig_title,
         has_judicial_orders

-----------------------------------------------------------------------------
(* The answer of the ledger in the terms of this module.                   *)

Rejected(status) ==
  [status_code |-> status, flags |-> {}, root_hash |-> ZeroHash]

AnomalousBelow(f, k) ==
  \E i \in NodeSlots : i < k /\ i < f.node_count /\ f.nodes[i].anomalous

AnomalyFlag(f, k) == IF AnomalousBelow(f, k) THEN {"ANOMALY_DETECTED"} ELSE {}

DutyFlags(f) ==
  IF DutyArises(f) THEN {"STATUTORY_DUTY"}
                   ELSE {"CORP_DEFENSE_VALID", "CAN_BE_ADMINISTERED"}

CertificateOf(f) ==
  [status_code |-> SOVR_STATUS_SUCCESS,
   flags       |-> {"QUORUM_VERIFIED"} \cup DutyFlags(f) \cup AnomalyFlag(f, MAX_NODES),
   root_hash   |-> DigestOf(f)]

LEMMA LedgerQuorum ==
  ASSUME NEW f
  PROVE  Ledger!QuorumAccepts(f) <=> QuorumAccepts(f)
  <1>0. ASSUME NEW S PROVE Ledger!Cardinality(S) = Cardinality(S)
    BY DEF Ledger!Cardinality, Cardinality
  <1>1. Ledger!CountsAcceptable(f) <=> CountsAcceptable(f)
    BY <1>0 DEF Ledger!CountsAcceptable, CountsAcceptable
  <1>2. Ledger!CommitteeBits(f) = CommitteeBits(f)
    BY DEF Ledger!CommitteeBits, CommitteeBits, Ledger!Committee, Committee
  <1>3. ASSUME NEW b PROVE Ledger!SlotOf(f, b) = SlotOf(f, b)
    BY <1>0, <1>2 DEF Ledger!SlotOf, SlotOf
  <1>4. ASSUME NEW w, NEW b PROVE Ledger!WitnessIsFor(w, b) <=> WitnessIsFor(w, b)
    BY DEF Ledger!WitnessIsFor, WitnessIsFor,
           Ledger!sovereign_ed25519_verify, sovereign_ed25519_verify
  <1> QED
    BY <1>1, <1>2, <1>3, <1>4 DEF Ledger!QuorumAccepts, QuorumAccepts

LEMMA LedgerCertificate ==
  ASSUME NEW f
  PROVE  Ledger!Certificate(f) = CertificateOf(f)
  <1>1. Ledger!DigestOf(f) = DigestOf(f)
    BY DEF Ledger!DigestOf, DigestOf, Ledger!HashedNodes, HashedNodes
  <1>2. Ledger!DutyArises(f) <=> DutyArises(f)
    BY DEF Ledger!DutyArises, DutyArises, Ledger!has_orig_title, has_orig_title,
           Ledger!has_judicial_orders, has_judicial_orders,
           Ledger!NodeSlots, NodeSlots,
           Ledger!TITLE_ABORIGINAL_SOVEREIGN, TITLE_ABORIGINAL_SOVEREIGN
  <1>3. Ledger!Anomalous(f) <=> AnomalousBelow(f, MAX_NODES)
    BY SizesAssumption
    DEF Ledger!Anomalous, AnomalousBelow, Ledger!NodeSlots, NodeSlots
  <1>4. Ledger!CertificateFlags(f) =
          {"QUORUM_VERIFIED"} \cup DutyFlags(f) \cup AnomalyFlag(f, MAX_NODES)
    BY <1>2, <1>3 DEF Ledger!CertificateFlags, DutyFlags, AnomalyFlag
  <1> QED
    BY <1>1, <1>4
    DEF Ledger!Certificate, CertificateOf, Ledger!SOVR_STATUS_SUCCESS,
        SOVR_STATUS_SUCCESS

LEMMA LedgerAnswer ==
  ASSUME NEW f, NEW l
  PROVE  Ledger!AnswerTo(f, l) =
           IF f.magic # SOVR_MAGIC          THEN Rejected(SOVR_STATUS_ERR_MAGIC)
           ELSE IF Ledger!Replay(f, l)      THEN Rejected(SOVR_STATUS_REJECT_REPLAY)
           ELSE IF f.node_count > MAX_NODES THEN Rejected(SOVR_STATUS_ERR_BOUNDS)
           ELSE IF ~QuorumAccepts(f)        THEN Rejected(SOVR_STATUS_ERR_QUORUM)
           ELSE CertificateOf(f)
  BY LedgerQuorum, LedgerCertificate
  DEF Ledger!AnswerTo, Ledger!Rejection, Rejected,
      Ledger!SOVR_MAGIC, SOVR_MAGIC,
      Ledger!SOVR_STATUS_ERR_MAGIC, SOVR_STATUS_ERR_MAGIC,
      Ledger!SOVR_STATUS_REJECT_REPLAY, SOVR_STATUS_REJECT_REPLAY,
      Ledger!SOVR_STATUS_ERR_BOUNDS, SOVR_STATUS_ERR_BOUNDS,
      Ledger!SOVR_STATUS_ERR_QUORUM, SOVR_STATUS_ERR_QUORUM

(* An answer that certifies was given to a frame that passes every test.   *)
LEMMA CertifiedAnswer ==
  ASSUME NEW f, NEW l,
         Ledger!AnswerTo(f, l).status_code = SOVR_STATUS_SUCCESS
  PROVE  /\ ~Ledger!Replay(f, l)
         /\ QuorumAccepts(f)
         /\ Ledger!AnswerTo(f, l) = CertificateOf(f)
  BY LedgerAnswer
  DEF Rejected, SOVR_STATUS_SUCCESS, SOVR_STATUS_ERR_MAGIC,
      SOVR_STATUS_REJECT_REPLAY, SOVR_STATUS_ERR_BOUNDS, SOVR_STATUS_ERR_QUORUM

(* A replay, with the certificates counted as this module counts them.     *)
LEMMA LedgerReplay ==
  ASSUME NEW f
  PROVE  Ledger!Replay(f, log) <=>
           \/ f.sequence_id = 0
           \/ \E i \in DOMAIN log :
                 CertifiedAt(i) /\ f.sequence_id <= log[i].frame.sequence_id
  BY DEF Ledger!Replay, Ledger!Certified, CertifiedAt,
         Ledger!SOVR_STATUS_SUCCESS, SOVR_STATUS_SUCCESS

-----------------------------------------------------------------------------
(* The inductive invariant.                                                *)

(* The client does not run in the middle of a round of the root task.      *)
ClientHeld ==
  pc # "com2" => client # "running" \/ Prio["client"] < Prio["root"]

(* rx has passed the tests and is being evaluated.                         *)
Accepted ==
  /\ rx.magic = SOVR_MAGIC
  /\ rx.node_count <= MAX_NODES
  /\ QuorumAccepts(rx)
  /\ ~Ledger!Replay(rx, log)
  /\ last = rx.sequence_id

(* How much of the answer to rx there is, by place.                        *)
Stage ==
  /\ pc = "validate"         => resp = ZeroResponse
  /\ Evaluating              => Accepted /\ PageHolds(rx)
  /\ pc \in {"hash", "decide"}  => resp.flags = {}
  /\ pc \in {"decide", "sweep"} => page.computed_root_hash = DigestOf(rx)
  /\ pc = "sweep" => /\ VerdictFlags(page) = DutyFlags(rx)
                     /\ resp.flags = AnomalyFlag(rx, n)
  /\ pc = "respond" => /\ resp = Ledger!AnswerTo(rx, log)
                       /\ resp.status_code = SOVR_STATUS_SUCCESS =>
                            last = rx.sequence_id

(* last is the number of the latest certificate, given or in the making.   *)
LastIsLatest ==
  /\ \A i \in DOMAIN log : CertifiedAt(i) => log[i].frame.sequence_id <= last
  /\ \/ last = 0
     \/ Evaluating
     \/ pc = "respond" /\ resp.status_code = SOVR_STATUS_SUCCESS
     \/ \E i \in DOMAIN log : CertifiedAt(i) /\ log[i].frame.sequence_id = last

IInv ==
  TypeOK /\ ClientHeld /\ Stage /\ LastIsLatest /\ CertificateAttests /\ CertifiedInOrder

-----------------------------------------------------------------------------
(* Types.                                                                  *)

LEMMA ResponseType ==
  /\ ZeroResponse \in Response
  /\ \A r \in Response, s \in Statuses : [r EXCEPT !.status_code = s] \in Response
  /\ \A r \in Response, F \in SUBSET Flags : [r EXCEPT !.flags = F] \in Response
  /\ \A F \in SUBSET Flags, h \in RootHashes :
       [status_code |-> SOVR_STATUS_SUCCESS, flags |-> F, root_hash |-> h] \in Response
  BY DEF ZeroResponse, Response, Statuses, RootHashes

LEMMA WordTypes ==
  /\ 0 \in Words
  /\ SOVR_STATUS_ERR_UNAUTH \in Words
  /\ SOVR_STATUS_ERR_MAGIC \in Words
  /\ SOVR_STATUS_SUCCESS \in Words
  /\ \A a \in StaleWords : WORD_SPAN - 1 - a \in Words
  /\ \A a, b \in StaleWords : (a + b) % WORD_SPAN \in Words
  <1>1. WORD_SPAN \in Nat /\ WORD_SPAN > 57349
    BY WordsAssumption DEF SOVR_STATUS_ERR_UNAUTH
  <1>2. \A a \in StaleWords : a \in Int /\ 0 <= a /\ a < WORD_SPAN
    BY <1>1, WordsAssumption DEF Words
  <1>3. \A a \in StaleWords : WORD_SPAN - 1 - a \in Words
    BY <1>1, <1>2 DEF Words
  <1>4. ASSUME NEW a \in StaleWords, NEW b \in StaleWords
        PROVE  (a + b) % WORD_SPAN \in Words
    <2>1. a + b \in Int
      BY <1>2
    <2>2. (a + b) % WORD_SPAN \in 0 .. (WORD_SPAN - 1)
      BY <1>1, <2>1
    <2> QED
      BY <2>2 DEF Words
  <1> QED
    BY <1>1, <1>3, <1>4
    DEF Words, SOVR_STATUS_ERR_UNAUTH, SOVR_STATUS_ERR_MAGIC, SOVR_STATUS_SUCCESS

LEMMA VerdictFlagsType == \A f : VerdictFlags(f) \subseteq Flags
  BY DEF VerdictFlags, Flags

LEMMA InitType == Init => TypeOK
  <1> SUFFICES ASSUME Init PROVE TypeOK
    OBVIOUS
  <1>1. rx \in Frames /\ IsFrame(page)
    BY PagesAssumption DEF Init
  <1>2. last \in 0 .. SEQ_MAX /\ n \in 0 .. MAX_NODES
    BY SizesAssumption DEF Init
  <1>3. resp \in Response
    BY ResponseType DEF Init
  <1>4. reply \in Words
    BY WordTypes DEF Init
  <1>5. log \in Seq(Entry)
    BY DEF Init
  <1> QED
    BY <1>1, <1>2, <1>3, <1>4, <1>5 DEF Init, TypeOK, Places

LEMMA NextType == TypeOK /\ [Next]_vars => TypeOK'
  <1> SUFFICES ASSUME TypeOK, [Next]_vars PROVE TypeOK'
    OBVIOUS
  <1> USE DEF TypeOK, clientVars, rootVars
  <1>1. ASSUME NEW f \in Frames, ReceiveFrame(f) PROVE TypeOK'
    BY <1>1, ResponseType DEF ReceiveFrame, Places
  <1>2. ASSUME NEW s \in Statuses, Reject(s) PROVE TypeOK'
    <2>1. resp' \in Response
      BY <1>2, ResponseType DEF Reject
    <2> QED
      BY <1>2, <2>1 DEF Reject, Places
  <1>3. CASE RejectMagic \/ RejectReplay \/ RejectBounds \/ RejectQuorum
    BY <1>2, <1>3 DEF RejectMagic, RejectReplay, RejectBounds, RejectQuorum, Statuses
  <1>4. CASE Accept
    <2>1. IsFrame(rx)
      BY FramesAssumption
    <2>2. rx.sequence_id \in 0 .. SEQ_MAX
      BY <2>1 DEF IsFrame
    <2> QED
      BY <1>4, <2>1, <2>2 DEF Accept, Places
  <1>5. CASE HashFrame
    <2>1. IsFrame(page')
      BY <1>5, OutcomeType, StoreHash DEF HashFrame
    <2> QED
      BY <1>5, <2>1 DEF HashFrame, Places
  <1>6. CASE DecideVerdict
    <2>1. IsFrame(page')
      BY <1>6, StoreVerdict DEF DecideVerdict
    <2> QED
      BY <1>6, <2>1, SizesAssumption DEF DecideVerdict, Places
  <1>7. CASE SweepNode
    <2>1. n' \in 0 .. MAX_NODES
      BY <1>7, SizesAssumption DEF SweepNode, MoreNodes
    <2>2. resp.flags \in SUBSET Flags
      BY DEF Response
    <2>3. resp.flags \cup {"ANOMALY_DETECTED"} \in SUBSET Flags
      BY <2>2 DEF Flags
    <2>4. resp' \in Response
      BY <1>7, <2>2, <2>3, ResponseType DEF SweepNode
    <2> QED
      BY <1>7, <2>1, <2>4 DEF SweepNode
  <1>8. CASE BuildCertificate
    <2>1. page.computed_root_hash \in RootHashes
      BY DEF IsFrame
    <2>2. resp.flags \cup VerdictFlags(page) \cup {"QUORUM_VERIFIED"} \in SUBSET Flags
      BY VerdictFlagsType DEF Response, Flags
    <2>3. resp' \in Response
      BY <1>8, <2>1, <2>2, ResponseType DEF BuildCertificate
    <2> QED
      BY <1>8, <2>3 DEF BuildCertificate, Places
  <1>9. CASE WriteResponse
    <2>1. [frame |-> rx, resp |-> resp] \in Entry
      BY DEF Entry
    <2>2. log' \in Seq(Entry)
      BY <1>9, <2>1 DEF WriteResponse
    <2> QED
      BY <1>9, <2>2 DEF WriteResponse, Places
  <1>10. CASE LineEmpty \/ NoMessage
    BY <1>10 DEF LineEmpty, NoMessage, Places
  <1>11. ASSUME NEW w \in Words, Reply(w), IsFrame(page') PROVE TypeOK'
    BY <1>11 DEF Reply, Places
  <1>12. CASE ServeAdd \/ ServeNot \/ ServeUnknown \/ EvaluateUnauthorized \/ EvaluateBadMagic
    <2>1. msg.op \in Words
      BY WordsAssumption
    <2> QED
      BY <1>11, <1>12, <2>1, WordTypes
      DEF ServeAdd, ServeNot, ServeUnknown, EvaluateUnauthorized, EvaluateBadMagic
  <1>13. CASE ServeBulk
    BY <1>11, <1>13, WordTypes, PagesAssumption DEF ServeBulk
  <1>14. CASE EvaluatePage
    <2>1. IsFrame(page')
      BY <1>14, OutcomeType, StoreHash, StoreVerdict DEF EvaluatePage
    <2> QED
      BY <1>11, <1>14, <2>1, WordTypes DEF EvaluatePage
  <1>15. ASSUME NEW p \in Pages, ClientStore(p) PROVE TypeOK'
    BY <1>15, PagesAssumption DEF ClientStore
  <1>16. ASSUME NEW op \in Opcodes, NEW badge \in Badges, ClientCall(op, badge)
         PROVE  TypeOK'
    BY <1>16 DEF ClientCall
  <1>17. CASE ClientExit
    BY <1>17 DEF ClientExit
  <1>18. CASE UNCHANGED vars
    BY <1>18 DEF vars
  <1> QED
    BY <1>1, <1>3, <1>4, <1>5, <1>6, <1>7, <1>8, <1>9, <1>10, <1>12, <1>13, <1>14,
       <1>15, <1>16, <1>17, <1>18
    DEF Next, RootStep, ClientStep

-----------------------------------------------------------------------------
(* The scheduler keeps the client out of a round.                          *)

(* A root task that may run is alone or above the client.                  *)
LEMMA RootRunsAlone ==
  CanRun("root") => client # "running" \/ Prio["client"] < Prio["root"]
  <1>1. Prio["client"] \in Nat /\ Prio["root"] \in Nat
    BY PriorityAssumption DEF Threads
  <1> QED
    BY <1>1, PriorityAssumption DEF CanRun, Runnable, Threads

(* A client that may run is above the root task, which is between rounds.  *)
LEMMA ClientRunsBetweenRounds ==
  ClientHeld /\ CanRun("client") => pc = "com2"
  <1>1. Prio["client"] \in Nat /\ Prio["root"] \in Nat
    BY PriorityAssumption DEF Threads
  <1> QED
    BY <1>1 DEF CanRun, Runnable, Threads, ClientHeld

LEMMA NextClientHeld == ClientHeld /\ [Next]_vars => ClientHeld'
  <1> SUFFICES ASSUME ClientHeld, [Next]_vars PROVE ClientHeld'
    OBVIOUS
  <1> USE DEF clientVars, rootVars
  <1>1. CASE RootStep
    <2>1. client # "running" \/ Prio["client"] < Prio["root"]
      BY <1>1, RootRunsAlone DEF RootStep
    <2>2. client' = client \/ pc' = "com2"
      BY <1>1
      DEF RootStep, ReceiveFrame, RejectMagic, RejectReplay, RejectBounds,
          RejectQuorum, Reject, Accept, HashFrame, DecideVerdict, SweepNode,
          BuildCertificate, WriteResponse, LineEmpty, ServeAdd, ServeNot,
          ServeBulk, EvaluateUnauthorized, EvaluateBadMagic, EvaluatePage,
          ServeUnknown, Reply, NoMessage
    <2> QED
      BY <2>1, <2>2 DEF ClientHeld
  <1>2. CASE ClientStep
    <2>1. pc = "com2"
      BY <1>2, ClientRunsBetweenRounds DEF ClientStep
    <2>2. pc' = pc
      BY <1>2 DEF ClientStep, ClientStore, ClientCall, ClientExit
    <2> QED
      BY <2>1, <2>2 DEF ClientHeld
  <1>3. CASE UNCHANGED vars
    BY <1>3 DEF vars, ClientHeld
  <1> QED
    BY <1>1, <1>2, <1>3 DEF Next

-----------------------------------------------------------------------------
(* The steps that leave a round at rest: the root task turns to the        *)
(* endpoint and back, or the client runs.  They neither start nor end the  *)
(* treatment of a frame.                                                   *)
LEMMA Resting ==
  ASSUME TypeOK, ClientHeld,
         \/ LineEmpty \/ NoMessage \/ ServeAdd \/ ServeNot \/ ServeBulk
         \/ ServeUnknown \/ EvaluateUnauthorized \/ EvaluateBadMagic \/ EvaluatePage
         \/ ClientStep
  PROVE  /\ pc \in {"com2", "ipc"}
         /\ pc' \in {"com2", "ipc"}
         /\ UNCHANGED <<rx, last, resp, log>>
  <1> USE DEF clientVars, rootVars
  <1>1. CASE ClientStep
    <2>1. pc = "com2"
      BY <1>1, ClientRunsBetweenRounds DEF ClientStep
    <2> QED
      BY <1>1, <2>1 DEF ClientStep, ClientStore, ClientCall, ClientExit
  <1>2. CASE ~ClientStep
    BY <1>2
    DEF LineEmpty, NoMessage, ServeAdd, ServeNot, ServeBulk, ServeUnknown,
        EvaluateUnauthorized, EvaluateBadMagic, EvaluatePage, Serve, Reply
  <1> QED
    BY <1>1, <1>2

(* A frame that passes the sequence test is no replay, and one that fails  *)
(* it is: last stands for the certificates given.                          *)
LEMMA FreshIsNoReplay ==
  ASSUME TypeOK, LastIsLatest, pc = "validate"
  PROVE  Fresh <=> ~Ledger!Replay(rx, log)
  <1>1. rx.sequence_id \in Nat /\ last \in Nat
    BY FramesAssumption, SizesAssumption DEF TypeOK, IsFrame
  <1>2. \A i \in DOMAIN log : log[i].frame.sequence_id \in Nat
    <2>1. \A i \in DOMAIN log : log[i] \in Entry
      BY DEF TypeOK
    <2>2. \A i \in DOMAIN log : IsFrame(log[i].frame)
      BY <2>1, FramesAssumption DEF Entry
    <2> QED
      BY <2>2, SizesAssumption DEF IsFrame
  <1>3. \A i \in DOMAIN log : CertifiedAt(i) => log[i].frame.sequence_id <= last
    BY DEF LastIsLatest
  <1>4. last = 0 \/ \E i \in DOMAIN log : CertifiedAt(i) /\ log[i].frame.sequence_id = last
    BY DEF LastIsLatest, Evaluating
  <1>5. ASSUME Fresh PROVE ~Ledger!Replay(rx, log)
    BY <1>1, <1>2, <1>3, <1>5, LedgerReplay DEF Fresh
  <1>6. ASSUME ~Fresh PROVE Ledger!Replay(rx, log)
    <2>1. rx.sequence_id <= last
      BY <1>1, <1>6 DEF Fresh
    <2> QED
      BY <1>1, <1>4, <2>1, LedgerReplay
  <1> QED
    BY <1>5, <1>6

(* The rejections write the answer of the ledger into the response.        *)
LEMMA RejectionAnswers ==
  ASSUME TypeOK, Stage, LastIsLatest,
         RejectMagic \/ RejectReplay \/ RejectBounds \/ RejectQuorum
  PROVE  /\ resp' = Ledger!AnswerTo(rx, log)
         /\ resp'.status_code # SOVR_STATUS_SUCCESS
         /\ pc = "validate" /\ pc' = "respond"
         /\ UNCHANGED <<rx, last, log, page>>
  <1>1. pc = "validate" /\ resp = ZeroResponse
    BY DEF RejectMagic, RejectReplay, RejectBounds, RejectQuorum, Reject, Stage
  <1>2. Fresh <=> ~Ledger!Replay(rx, log)
    BY <1>1, FreshIsNoReplay
  <1>3. rx.node_count \in Nat
    BY FramesAssumption, SizesAssumption DEF TypeOK, IsFrame
  <1>4. \A s \in Statuses : Reject(s) => resp' = Rejected(s)
    BY <1>1 DEF Reject, ZeroResponse, Rejected
  <1>5. resp' = Ledger!AnswerTo(rx, log)
    BY <1>2, <1>3, <1>4, LedgerAnswer, SizesAssumption
    DEF RejectMagic, RejectReplay, RejectBounds, RejectQuorum, MagicOK, InBounds,
        Statuses
  <1>6. resp'.status_code # SOVR_STATUS_SUCCESS
    BY <1>4
    DEF RejectMagic, RejectReplay, RejectBounds, RejectQuorum, Rejected, Statuses,
        SOVR_STATUS_SUCCESS, SOVR_STATUS_ERR_MAGIC, SOVR_STATUS_REJECT_REPLAY,
        SOVR_STATUS_ERR_BOUNDS, SOVR_STATUS_ERR_QUORUM
  <1> QED
    BY <1>1, <1>5, <1>6
    DEF RejectMagic, RejectReplay, RejectBounds, RejectQuorum, Reject

-----------------------------------------------------------------------------
(* The stages of an evaluation.                                            *)

LEMMA AcceptStage ==
  ASSUME TypeOK, Stage, LastIsLatest, Accept
  PROVE  /\ Accepted' /\ PageHolds(rx)' /\ pc' = "hash" /\ resp'.flags = {}
         /\ pc = "validate" /\ UNCHANGED <<rx, log>>
  <1>1. pc = "validate" /\ resp = ZeroResponse
    BY DEF Accept, Stage
  <1>2. ~Ledger!Replay(rx, log)
    BY <1>1, FreshIsNoReplay DEF Accept
  <1>3. UNCHANGED <<rx, log, resp>> /\ last' = rx.sequence_id /\ page' = rx /\ pc' = "hash"
    BY DEF Accept
  <1>4. (Ledger!Replay(rx, log))' <=> Ledger!Replay(rx, log)
    BY <1>3 DEF Ledger!Replay, Ledger!Certified
  <1>5. Accepted'
    BY <1>2, <1>3, <1>4 DEF Accepted, Accept, MagicOK, InBounds
  <1>6. PageHolds(rx)'
    BY <1>3 DEF PageHolds
  <1> QED
    BY <1>1, <1>3, <1>5, <1>6 DEF ZeroResponse

(* Steps of the evaluation that keep rx, last, the log and the inputs in   *)
(* the page keep what was established when rx was accepted.                *)
LEMMA AcceptedStays ==
  ASSUME Accepted, PageHolds(rx), UNCHANGED <<rx, last, log>>,
         page'.node_count = page.node_count, page'.claimant = page.claimant,
         page'.dockets = page.dockets, page'.nodes = page.nodes
  PROVE  Accepted' /\ PageHolds(rx)'
  <1>1. (Ledger!Replay(rx, log))' <=> Ledger!Replay(rx, log)
    BY DEF Ledger!Replay, Ledger!Certified
  <1> QED
    BY <1>1 DEF Accepted, PageHolds

LEMMA HashStage ==
  ASSUME TypeOK, Stage, HashFrame
  PROVE  Stage'
  <1>1. /\ pc = "hash" /\ pc' = "decide" /\ UNCHANGED <<rx, last, resp, log>>
        /\ IsFrame(page)
    BY DEF HashFrame, TypeOK
  <1>2. Accepted /\ PageHolds(rx) /\ resp.flags = {}
    BY <1>1 DEF Stage, Evaluating
  <1>3. page.node_count <= MAX_NODES
    BY <1>2 DEF Accepted, PageHolds
  <1>4. DigestOf(page) = DigestOf(rx) /\ DigestOf(page) \in RootHashes
    BY <1>1, <1>2, <1>3, SameEvaluation, DigestType DEF RootHashes
  <1>5. page' = WithHash(page, DigestOf(rx))
    BY <1>3, <1>4 DEF HashFrame, DigestOutcomes
  <1>6. page'.computed_root_hash = DigestOf(rx)
    BY <1>1, <1>4, <1>5, StoreHash
  <1>7. Accepted' /\ PageHolds(rx)'
    BY <1>1, <1>2, <1>4, <1>5, AcceptedStays, StoreHash
  <1>8. DigestOf(rx)' = DigestOf(rx)
    BY <1>1 DEF DigestOf, HashedNodes
  <1> QED
    BY <1>1, <1>2, <1>6, <1>7, <1>8 DEF Stage, Evaluating

LEMMA DecideStage ==
  ASSUME TypeOK, Stage, DecideVerdict
  PROVE  Stage'
  <1>1. /\ pc = "decide" /\ pc' = "sweep" /\ UNCHANGED <<rx, last, resp, log>>
        /\ n' = 0 /\ page' = WithVerdict(page) /\ IsFrame(page)
    BY DEF DecideVerdict, TypeOK
  <1>2. /\ Accepted /\ PageHolds(rx) /\ resp.flags = {}
        /\ page.computed_root_hash = DigestOf(rx)
    BY <1>1 DEF Stage, Evaluating
  <1>3. /\ VerdictFlags(page') = DutyFlags(rx)
        /\ page'.computed_root_hash = DigestOf(rx)
    BY <1>1, <1>2, SameEvaluation, StoreVerdict DEF DutyFlags
  <1>4. Accepted' /\ PageHolds(rx)'
    BY <1>1, <1>2, AcceptedStays, StoreVerdict
  <1>5. AnomalyFlag(rx, 0) = {}
    BY SizesAssumption DEF AnomalyFlag, AnomalousBelow, NodeSlots
  <1>6. /\ DigestOf(rx)' = DigestOf(rx) /\ DutyFlags(rx)' = DutyFlags(rx)
        /\ AnomalyFlag(rx, n)' = AnomalyFlag(rx, 0)
        /\ VerdictFlags(page)' = VerdictFlags(page')
    BY <1>1
  <1> QED
    BY <1>1, <1>2, <1>3, <1>4, <1>5, <1>6 DEF Stage, Evaluating

LEMMA SweepStage ==
  ASSUME TypeOK, Stage, SweepNode
  PROVE  Stage'
  <1>1. /\ pc = "sweep" /\ pc' = "sweep" /\ UNCHANGED <<rx, last, page, log>>
        /\ n' = n + 1 /\ n \in Nat /\ n < page.node_count /\ n < MAX_NODES
    BY SizesAssumption DEF SweepNode, MoreNodes, TypeOK
  <1>2. /\ Accepted /\ PageHolds(rx) /\ VerdictFlags(page) = DutyFlags(rx)
        /\ page.computed_root_hash = DigestOf(rx)
        /\ resp.flags = AnomalyFlag(rx, n)
    BY <1>1 DEF Stage, Evaluating
  <1>3. n \in NodeSlots /\ n < rx.node_count /\ page.nodes = rx.nodes
    BY <1>1, <1>2, SizesAssumption DEF NodeSlots, PageHolds
  <1>4. AnomalousBelow(rx, n + 1) <=> AnomalousBelow(rx, n) \/ rx.nodes[n].anomalous
    BY <1>1, <1>3, SizesAssumption DEF AnomalousBelow, NodeSlots
  <1>5. resp'.flags = IF page.nodes[n].anomalous
                      THEN resp.flags \cup {"ANOMALY_DETECTED"} ELSE resp.flags
    BY DEF SweepNode, TypeOK, Response
  <1>6. resp'.flags = AnomalyFlag(rx, n + 1)
    BY <1>2, <1>3, <1>4, <1>5 DEF AnomalyFlag
  <1>7. Accepted' /\ PageHolds(rx)'
    BY <1>1, <1>2, AcceptedStays
  <1>8. /\ DigestOf(rx)' = DigestOf(rx) /\ DutyFlags(rx)' = DutyFlags(rx)
        /\ AnomalyFlag(rx, n)' = AnomalyFlag(rx, n + 1)
        /\ VerdictFlags(page)' = VerdictFlags(page)
    BY <1>1
  <1> QED
    BY <1>1, <1>2, <1>6, <1>7, <1>8 DEF Stage, Evaluating

LEMMA BuildStage ==
  ASSUME TypeOK, Stage, BuildCertificate
  PROVE  /\ pc = "sweep" /\ pc' = "respond" /\ UNCHANGED <<rx, last, log>>
         /\ resp' = Ledger!AnswerTo(rx, log)
         /\ resp'.status_code = SOVR_STATUS_SUCCESS
         /\ last = rx.sequence_id
  <1>1. /\ pc = "sweep" /\ pc' = "respond" /\ UNCHANGED <<rx, last, log>>
        /\ n \in 0 .. MAX_NODES
        /\ ~(n < page.node_count /\ n < MAX_NODES)
    BY DEF BuildCertificate, MoreNodes, TypeOK
  <1>2. /\ Accepted /\ PageHolds(rx) /\ VerdictFlags(page) = DutyFlags(rx)
        /\ page.computed_root_hash = DigestOf(rx)
        /\ resp.flags = AnomalyFlag(rx, n)
    BY <1>1 DEF Stage, Evaluating
  <1>3. rx.node_count \in Nat /\ page.node_count = rx.node_count
    BY <1>2, FramesAssumption, SizesAssumption DEF TypeOK, IsFrame, PageHolds
  <1>4. AnomalousBelow(rx, n) <=> AnomalousBelow(rx, MAX_NODES)
    BY <1>1, <1>3, SizesAssumption DEF AnomalousBelow, NodeSlots
  <1>5. resp' = [status_code |-> SOVR_STATUS_SUCCESS,
                 flags |-> AnomalyFlag(rx, n) \cup DutyFlags(rx) \cup {"QUORUM_VERIFIED"},
                 root_hash |-> DigestOf(rx)]
    BY <1>2 DEF BuildCertificate
  <1>6. AnomalyFlag(rx, n) \cup DutyFlags(rx) \cup {"QUORUM_VERIFIED"} =
          {"QUORUM_VERIFIED"} \cup DutyFlags(rx) \cup AnomalyFlag(rx, MAX_NODES)
    BY <1>4 DEF AnomalyFlag
  <1>7. resp' = CertificateOf(rx) /\ resp'.status_code = SOVR_STATUS_SUCCESS
    BY <1>5, <1>6 DEF CertificateOf
  <1>8. ~(rx.node_count > MAX_NODES)
    BY <1>2, <1>3, SizesAssumption DEF Accepted
  <1>9. Ledger!AnswerTo(rx, log) = CertificateOf(rx)
    BY <1>2, <1>8, LedgerAnswer DEF Accepted
  <1> QED
    BY <1>1, <1>2, <1>7, <1>9 DEF Accepted

-----------------------------------------------------------------------------
(* Every step keeps the stages.                                            *)
LEMMA NextStage ==
  TypeOK /\ ClientHeld /\ Stage /\ LastIsLatest /\ [Next]_vars => Stage'
  <1> SUFFICES ASSUME TypeOK, ClientHeld, Stage, LastIsLatest, [Next]_vars
               PROVE  Stage'
    OBVIOUS
  <1>1. ASSUME NEW f \in Frames, ReceiveFrame(f) PROVE Stage'
    BY <1>1 DEF ReceiveFrame, Stage, Evaluating
  <1>2. CASE RejectMagic \/ RejectReplay \/ RejectBounds \/ RejectQuorum
    <2>1. /\ resp' = Ledger!AnswerTo(rx, log)
          /\ resp'.status_code # SOVR_STATUS_SUCCESS
          /\ pc' = "respond" /\ UNCHANGED <<rx, log>>
      BY <1>2, RejectionAnswers
    <2> QED
      BY <2>1 DEF Stage, Evaluating
  <1>3. CASE Accept
    BY <1>3, AcceptStage DEF Stage, Evaluating
  <1>4. CASE HashFrame
    BY <1>4, HashStage
  <1>5. CASE DecideVerdict
    BY <1>5, DecideStage
  <1>6. CASE SweepNode
    BY <1>6, SweepStage
  <1>7. CASE BuildCertificate
    BY <1>7, BuildStage DEF Stage, Evaluating
  <1>8. CASE WriteResponse
    BY <1>8 DEF WriteResponse, Stage, Evaluating
  <1>9. CASE \/ LineEmpty \/ NoMessage \/ ServeAdd \/ ServeNot \/ ServeBulk
             \/ ServeUnknown \/ EvaluateUnauthorized \/ EvaluateBadMagic
             \/ EvaluatePage \/ ClientStep
    <2>1. pc' \in {"com2", "ipc"}
      BY <1>9, Resting
    <2> QED
      BY <2>1 DEF Stage, Evaluating
  <1>10. CASE UNCHANGED vars
    <2>1. UNCHANGED <<pc, rx, last, n, resp, log, page>>
      BY <1>10 DEF vars, rootVars
    <2>2. Accepted' <=> Accepted
      BY <2>1 DEF Accepted, Ledger!Replay, Ledger!Certified
    <2>3. PageHolds(rx)' <=> PageHolds(rx)
      BY <2>1 DEF PageHolds
    <2> QED
      BY <2>1, <2>2, <2>3 DEF Stage, Evaluating
  <1> QED
    BY <1>1, <1>2, <1>3, <1>4, <1>5, <1>6, <1>7, <1>8, <1>9, <1>10
    DEF Next, RootStep

(* A response enters the log as one more entry, with the answer of the     *)
(* ledger.                                                                 *)
LEMMA WriteStep ==
  ASSUME TypeOK, Stage, WriteResponse
  PROVE  /\ pc = "respond" /\ pc' = "com2" /\ UNCHANGED last
         /\ log' = Append(log, [frame |-> rx, resp |-> Ledger!AnswerTo(rx, log)])
         /\ DOMAIN log = 1 .. Len(log) /\ Len(log) \in Nat
         /\ DOMAIN log' = 1 .. (Len(log) + 1)
         /\ \A i \in DOMAIN log : log'[i] = log[i]
         /\ log'[Len(log) + 1].frame = rx
         /\ log'[Len(log) + 1].resp = resp
         /\ resp = Ledger!AnswerTo(rx, log)
         /\ resp.status_code = SOVR_STATUS_SUCCESS => last = rx.sequence_id
  <1>1. /\ pc = "respond" /\ pc' = "com2" /\ UNCHANGED last
        /\ log' = Append(log, [frame |-> rx, resp |-> resp])
    BY DEF WriteResponse
  <1>2. [frame |-> rx, resp |-> resp] \in Entry /\ log \in Seq(Entry)
    BY DEF TypeOK, Entry
  <1>3. /\ resp = Ledger!AnswerTo(rx, log)
        /\ resp.status_code = SOVR_STATUS_SUCCESS => last = rx.sequence_id
    BY <1>1 DEF Stage
  <1>4. /\ DOMAIN log = 1 .. Len(log) /\ Len(log) \in Nat
        /\ DOMAIN log' = 1 .. (Len(log) + 1)
        /\ \A i \in DOMAIN log : log'[i] = log[i]
        /\ log'[Len(log) + 1] = [frame |-> rx, resp |-> resp]
    BY <1>1, <1>2, AppendEntry
  <1> QED
    BY <1>1, <1>3, <1>4

(* What a step does to the log, if it is not the writing of a response.    *)
LEMMA LogStays ==
  ASSUME TypeOK, ClientHeld, Stage, LastIsLatest, [Next]_vars, ~WriteResponse
  PROVE  UNCHANGED log
  BY Resting, RejectionAnswers, AcceptStage, BuildStage
  DEF Next, RootStep, ReceiveFrame, HashFrame, DecideVerdict, SweepNode, vars, rootVars

LEMMA NextLatest ==
  TypeOK /\ ClientHeld /\ Stage /\ LastIsLatest /\ [Next]_vars => LastIsLatest'
  <1> SUFFICES ASSUME TypeOK, ClientHeld, Stage, LastIsLatest, [Next]_vars
               PROVE  LastIsLatest'
    OBVIOUS
  <1>0. last \in Nat /\ rx.sequence_id \in Nat
    BY FramesAssumption, SizesAssumption DEF TypeOK, IsFrame
  <1>1. ASSUME UNCHANGED log
        PROVE  \A i \in DOMAIN log : CertifiedAt(i)' <=> CertifiedAt(i)
    BY <1>1 DEF CertifiedAt
  <1>2. CASE UNCHANGED <<last, log>> /\ pc \in {"com2", "ipc", "validate"}
             /\ pc' \notin {"hash", "decide", "sweep"}
    BY <1>1, <1>2 DEF LastIsLatest, Evaluating
  <1>3. ASSUME NEW f \in Frames, ReceiveFrame(f) PROVE LastIsLatest'
    BY <1>2, <1>3 DEF ReceiveFrame
  <1>4. CASE RejectMagic \/ RejectReplay \/ RejectBounds \/ RejectQuorum
    BY <1>2, <1>4, RejectionAnswers
  <1>5. CASE \/ LineEmpty \/ NoMessage \/ ServeAdd \/ ServeNot \/ ServeBulk
             \/ ServeUnknown \/ EvaluateUnauthorized \/ EvaluateBadMagic
             \/ EvaluatePage \/ ClientStep
    BY <1>2, <1>5, Resting
  <1>6. CASE Accept
    <2>1. /\ UNCHANGED log /\ last' = rx.sequence_id /\ rx.sequence_id > last
          /\ pc' = "hash"
      BY <1>6 DEF Accept, Fresh
    <2>2. \A i \in DOMAIN log : CertifiedAt(i) => log[i].frame.sequence_id <= last
      BY DEF LastIsLatest
    <2>3. \A i \in DOMAIN log : log[i].frame.sequence_id \in Nat
      <3>1. \A i \in DOMAIN log : log[i] \in Entry
        BY DEF TypeOK
      <3>2. \A i \in DOMAIN log : IsFrame(log[i].frame)
        BY <3>1, FramesAssumption DEF Entry
      <3> QED
        BY <3>2, SizesAssumption DEF IsFrame
    <2>4. \A i \in DOMAIN log' : CertifiedAt(i)' => log'[i].frame.sequence_id <= last'
      BY <1>0, <1>1, <2>1, <2>2, <2>3
    <2> QED
      BY <2>1, <2>4 DEF LastIsLatest, Evaluating
  <1>7. CASE HashFrame \/ DecideVerdict \/ SweepNode
    <2>1. UNCHANGED <<last, log>> /\ pc' \in {"hash", "decide", "sweep"}
      BY <1>7 DEF HashFrame, DecideVerdict, SweepNode
    <2> QED
      BY <1>1, <2>1 DEF LastIsLatest, Evaluating
  <1>8. CASE BuildCertificate
    <2>1. /\ UNCHANGED <<last, log>> /\ pc' = "respond"
          /\ resp'.status_code = SOVR_STATUS_SUCCESS
      BY <1>8, BuildStage
    <2> QED
      BY <1>1, <2>1 DEF LastIsLatest, Evaluating
  <1>9. CASE WriteResponse
    <2>0. PICK k : k = Len(log) + 1
      OBVIOUS
    <2>1. /\ pc = "respond" /\ pc' = "com2" /\ UNCHANGED last
          /\ DOMAIN log = 1 .. Len(log) /\ Len(log) \in Nat
          /\ DOMAIN log' = 1 .. k
          /\ \A i \in DOMAIN log : log'[i] = log[i]
          /\ log'[k].frame = rx /\ log'[k].resp = resp
          /\ resp.status_code = SOVR_STATUS_SUCCESS => last = rx.sequence_id
      BY <1>9, <2>0, WriteStep
    <2>2. \A i \in DOMAIN log : CertifiedAt(i)' <=> CertifiedAt(i)
      BY <2>1 DEF CertifiedAt
    <2>3. CertifiedAt(k)' <=> resp.status_code = SOVR_STATUS_SUCCESS
      BY <2>1 DEF CertifiedAt
    <2>4. \A i \in DOMAIN log' : i \in DOMAIN log \/ i = k
      BY <2>0, <2>1
    <2>5. k \in DOMAIN log' /\ DOMAIN log \subseteq DOMAIN log'
      BY <2>0, <2>1
    <2>6. \A i \in DOMAIN log' : CertifiedAt(i)' => log'[i].frame.sequence_id <= last'
      <3> SUFFICES ASSUME NEW i \in DOMAIN log', CertifiedAt(i)'
                   PROVE  log'[i].frame.sequence_id <= last'
        OBVIOUS
      <3>1. CASE i = k
        BY <1>0, <2>1, <2>3, <3>1
      <3>2. CASE i \in DOMAIN log
        BY <2>1, <2>2, <3>2 DEF LastIsLatest
      <3> QED
        BY <2>4, <3>1, <3>2
    <2>7. \/ last' = 0
          \/ \E i \in DOMAIN log' : CertifiedAt(i)' /\ log'[i].frame.sequence_id = last'
      <3>1. CASE resp.status_code = SOVR_STATUS_SUCCESS
        BY <2>1, <2>3, <2>5, <3>1
      <3>2. CASE last = 0
        BY <2>1, <3>2
      <3>3. CASE \E i \in DOMAIN log : CertifiedAt(i) /\ log[i].frame.sequence_id = last
        BY <2>1, <2>2, <2>5, <3>3
      <3> QED
        BY <2>1, <3>1, <3>2, <3>3 DEF LastIsLatest, Evaluating
    <2> QED
      BY <2>6, <2>7 DEF LastIsLatest
  <1>10. CASE UNCHANGED vars
    <2>1. UNCHANGED <<pc, last, log, resp>>
      BY <1>10 DEF vars, rootVars
    <2> QED
      BY <1>1, <2>1 DEF LastIsLatest, Evaluating
  <1> QED
    BY <1>3, <1>4, <1>5, <1>6, <1>7, <1>8, <1>9, <1>10 DEF Next, RootStep

-----------------------------------------------------------------------------
(* The log: what a certificate says, and the order of certificates.        *)

(* The certificate of a frame attests it.                                  *)
LEMMA CertificateSays ==
  ASSUME NEW f
  PROVE  /\ CertificateOf(f).root_hash = DigestOf(f)
         /\ "STATUTORY_DUTY" \in CertificateOf(f).flags <=> DutyArises(f)
         /\ "STATUTORY_DUTY" \in CertificateOf(f).flags <=>
              "CAN_BE_ADMINISTERED" \notin CertificateOf(f).flags
  BY DEF CertificateOf, DutyFlags, AnomalyFlag

LEMMA NextAttests ==
  ASSUME TypeOK, Stage, WriteResponse, CertificateAttests
  PROVE  CertificateAttests'
  <1>0. PICK k : k = Len(log) + 1
    OBVIOUS
  <1>1. /\ DOMAIN log = 1 .. Len(log) /\ Len(log) \in Nat
        /\ DOMAIN log' = 1 .. k
        /\ \A i \in DOMAIN log : log'[i] = log[i]
        /\ log'[k].frame = rx
        /\ log'[k].resp = Ledger!AnswerTo(rx, log)
    BY <1>0, WriteStep
  <1>2. SUFFICES ASSUME NEW i \in DOMAIN log',
                        log'[i].resp.status_code = SOVR_STATUS_SUCCESS
                 PROVE  /\ QuorumAccepts(log'[i].frame)
                        /\ log'[i].resp.root_hash = DigestOf(log'[i].frame)
                        /\ "STATUTORY_DUTY" \in log'[i].resp.flags <=>
                             DutyArises(log'[i].frame)
                        /\ "STATUTORY_DUTY" \in log'[i].resp.flags <=>
                             "CAN_BE_ADMINISTERED" \notin log'[i].resp.flags
    BY DEF CertificateAttests, CertifiedAt
  <1>3. CASE i = k
    <2>1. Ledger!AnswerTo(rx, log).status_code = SOVR_STATUS_SUCCESS
      BY <1>1, <1>2, <1>3
    <2>2. QuorumAccepts(rx) /\ Ledger!AnswerTo(rx, log) = CertificateOf(rx)
      BY <2>1, CertifiedAnswer
    <2> QED
      BY <1>1, <1>3, <2>2, CertificateSays
  <1>4. CASE i \in DOMAIN log
    BY <1>1, <1>2, <1>4 DEF CertificateAttests, CertifiedAt
  <1> QED
    BY <1>0, <1>1, <1>3, <1>4

LEMMA NextInOrder ==
  ASSUME TypeOK, Stage, WriteResponse, CertifiedInOrder
  PROVE  CertifiedInOrder'
  <1>0. PICK k : k = Len(log) + 1
    OBVIOUS
  <1>1. /\ DOMAIN log = 1 .. Len(log) /\ Len(log) \in Nat
        /\ DOMAIN log' = 1 .. k
        /\ \A i \in DOMAIN log : log'[i] = log[i]
        /\ log'[k].frame = rx
        /\ log'[k].resp = Ledger!AnswerTo(rx, log)
    BY <1>0, WriteStep
  <1>2. \A i \in DOMAIN log' : i \in DOMAIN log \/ i = k
    BY <1>0, <1>1
  <1>3. \A i \in DOMAIN log : CertifiedAt(i)' <=> CertifiedAt(i)
    BY <1>1 DEF CertifiedAt
  <1>4. rx.sequence_id \in Nat /\ \A i \in DOMAIN log : log[i].frame.sequence_id \in Nat
    <2>1. \A i \in DOMAIN log : log[i] \in Entry
      BY DEF TypeOK
    <2>2. IsFrame(rx) /\ \A i \in DOMAIN log : IsFrame(log[i].frame)
      BY <2>1, FramesAssumption DEF TypeOK, Entry
    <2> QED
      BY <2>2, SizesAssumption DEF IsFrame
  <1>5. ASSUME CertifiedAt(k)'
        PROVE  /\ rx.sequence_id > 0
               /\ \A i \in DOMAIN log : CertifiedAt(i) =>
                     log[i].frame.sequence_id < rx.sequence_id
    <2>1. Ledger!AnswerTo(rx, log).status_code = SOVR_STATUS_SUCCESS
      BY <1>1, <1>5 DEF CertifiedAt
    <2>2. ~Ledger!Replay(rx, log)
      BY <2>1, CertifiedAnswer
    <2> QED
      BY <1>4, <2>2, LedgerReplay
  <1>6. \A i \in DOMAIN log' : CertifiedAt(i)' => log'[i].frame.sequence_id > 0
    <2> SUFFICES ASSUME NEW i \in DOMAIN log', CertifiedAt(i)'
                 PROVE  log'[i].frame.sequence_id > 0
      OBVIOUS
    <2>1. CASE i = k
      BY <1>1, <1>5, <2>1
    <2>2. CASE i \in DOMAIN log
      BY <1>1, <1>3, <2>2 DEF CertifiedInOrder
    <2> QED
      BY <1>2, <2>1, <2>2
  <1>7. \A i, j \in DOMAIN log' :
          i < j /\ CertifiedAt(i)' /\ CertifiedAt(j)' =>
            log'[i].frame.sequence_id < log'[j].frame.sequence_id
    <2> SUFFICES ASSUME NEW i \in DOMAIN log', NEW j \in DOMAIN log', i < j,
                        CertifiedAt(i)', CertifiedAt(j)'
                 PROVE  log'[i].frame.sequence_id < log'[j].frame.sequence_id
      OBVIOUS
    <2>1. i \in DOMAIN log
      BY <1>0, <1>1
    <2>2. CASE j = k
      BY <1>1, <1>3, <1>5, <2>1, <2>2
    <2>3. CASE j \in DOMAIN log
      BY <1>1, <1>3, <2>1, <2>3 DEF CertifiedInOrder
    <2> QED
      BY <1>2, <2>2, <2>3
  <1> QED
    BY <1>6, <1>7 DEF CertifiedInOrder

-----------------------------------------------------------------------------
LEMMA InitInv == Init => IInv
  <1> SUFFICES ASSUME Init PROVE IInv
    OBVIOUS
  <1>1. TypeOK
    BY InitType
  <1>2. pc = "com2" /\ last = 0 /\ log = <<>>
    BY DEF Init
  <1>3. DOMAIN log = {}
    BY <1>2
  <1>4. ClientHeld /\ Stage
    BY <1>2 DEF ClientHeld, Stage, Evaluating
  <1>5. LastIsLatest /\ CertificateAttests /\ CertifiedInOrder
    BY <1>2, <1>3 DEF LastIsLatest, CertificateAttests, CertifiedInOrder
  <1> QED
    BY <1>1, <1>4, <1>5 DEF IInv

LEMMA NextInv == IInv /\ [Next]_vars => IInv'
  <1> SUFFICES ASSUME IInv, [Next]_vars PROVE IInv'
    OBVIOUS
  <1>0. /\ TypeOK /\ ClientHeld /\ Stage /\ LastIsLatest
        /\ CertificateAttests /\ CertifiedInOrder
    BY DEF IInv
  <1>1. TypeOK' /\ ClientHeld' /\ Stage' /\ LastIsLatest'
    BY <1>0, NextType, NextClientHeld, NextStage, NextLatest
  <1>2. CertificateAttests' /\ CertifiedInOrder'
    <2>1. CASE WriteResponse
      BY <1>0, <2>1, NextAttests, NextInOrder
    <2>2. CASE ~WriteResponse
      <3>1. log' = log
        BY <1>0, <2>2, LogStays
      <3> QED
        BY <1>0, <3>1 DEF CertificateAttests, CertifiedInOrder, CertifiedAt
    <2> QED
      BY <2>1, <2>2
  <1> QED
    BY <1>1, <1>2 DEF IInv

(* The inductive invariant holds in every state of the event loop.         *)
THEOREM Invariance == Spec => []IInv
  BY InitInv, NextInv, PTL DEF Spec

(* The variables keep their types, whatever the frames and the client do.  *)
THEOREM TypeCorrect == Spec => []TypeOK
  <1>1. IInv => TypeOK
    BY DEF IInv
  <1> QED
    BY <1>1, Invariance, PTL

(* Under priorities that differ, either way about, no store of the client  *)
(* falls between the copy of a frame to the page and its response.         *)
THEOREM NoInterference == Spec => []PageUndisturbed
  <1>1. IInv => PageUndisturbed
    BY DEF IInv, Stage, PageUndisturbed
  <1> QED
    BY <1>1, Invariance, PTL

(* sha256 never runs past the array of nodes for a frame of the line,      *)
(* whatever count the client left in the page (main.c:51-52, 261-273).     *)
(* Evaluations that a client asks for (main.c:339) have no such bound.     *)
THEOREM SerialHashBounded == Spec => []SerialHashInBounds
  <1>1. IInv => SerialHashInBounds
    BY DEF IInv, Stage, Evaluating, Accepted, PageHolds, SerialHashInBounds
  <1> QED
    BY <1>1, Invariance, PTL

(* A certificate carries the digest and the verdict of the frame it        *)
(* answers, whose committee was accepted.                                  *)
THEOREM CertificatesAttest == Spec => []CertificateAttests
  <1>1. IInv => CertificateAttests
    BY DEF IInv
  <1> QED
    BY <1>1, Invariance, PTL

(* Certificates are given in strictly increasing order of sequence number. *)
THEOREM CertificatesInOrder == Spec => []CertifiedInOrder
  <1>1. IInv => CertifiedInOrder
    BY DEF IInv
  <1> QED
    BY <1>1, Invariance, PTL

-----------------------------------------------------------------------------
(* Refinement: a response written is an answer of the ledger, and no other *)
(* step changes the log.                                                   *)
LEMMA RefinesNext == IInv /\ [Next]_vars => [Ledger!Next]_log
  <1> SUFFICES ASSUME IInv, [Next]_vars PROVE [Ledger!Next]_log
    OBVIOUS
  <1>0. TypeOK /\ ClientHeld /\ Stage /\ LastIsLatest
    BY DEF IInv
  <1>1. CASE WriteResponse
    <2>1. log' = Append(log, [frame |-> rx, resp |-> Ledger!AnswerTo(rx, log)])
      BY <1>0, <1>1, WriteStep
    <2>2. rx \in Frames
      BY <1>0 DEF TypeOK
    <2> QED
      BY <2>1, <2>2 DEF Ledger!Next, Ledger!Answer
  <1>2. CASE ~WriteResponse
    BY <1>0, <1>2, LogStays
  <1> QED
    BY <1>1, <1>2

(* The event loop implements the ledger: what goes out on the line is a    *)
(* function of the frames that came in on it.                              *)
THEOREM Refinement == Spec => ImplementsLedger
  <1>1. Init => Ledger!Init
    BY DEF Init, Ledger!Init
  <1> QED
    BY <1>1, RefinesNext, Invariance, PTL DEF Spec, ImplementsLedger, Ledger!Spec

-----------------------------------------------------------------------------
(* The inductive invariant of the program.                                 *)

(* The program runs up to its calls and its comparison, is there until the *)
(* third call returns, and has run only if it is above the root task.      *)
ProgramOrder ==
  /\ step \in Steps
  /\ step \notin {"call1", "other"} => Prio["root"] < Prio["client"]
  /\ step \in {"call3", "compare"} => client = "running"
  /\ step = "check3" => client \in {"running", "calling"}

(* The message of the third call, while it is open.                        *)
ThirdCall ==
  step = "check3" /\ client = "calling" =>
    msg.op = OP_SOVR_EVALUATE /\ msg.badge = CLIENT_BADGE_AUTH

(* The page of the program, with its hash once the call has returned.      *)
OwnPage ==
  /\ PageHolds(AuthenticPage)
  /\ page.magic = AuthenticPage.magic
  /\ page.computed_root_hash =
       IF client = "running" /\ ThirdEvaluates THEN DigestOf(AuthenticPage) ELSE ZeroHash

(* The certificate of the frame in the page is on its way to the line.     *)
CertificateReady ==
  /\ pc = "respond" /\ resp.status_code = SOVR_STATUS_SUCCESS
  /\ PageHolds(rx) /\ page.computed_root_hash = DigestOf(rx)

ThirdPage ==
  /\ step = "call3" => page = AuthenticPage
  /\ step \in {"check3", "compare"} =>
       /\ page.node_count <= MAX_NODES
       /\ OwnPage \/ Evaluating \/ CertificateReady \/ LineFrame

AppInv == IInv /\ ProgramOrder /\ ThirdCall /\ ThirdPage

-----------------------------------------------------------------------------
(* Every step of the appliance is one of the event loop or of a client.    *)
LEMMA StepIsNext == [AppNext]_appVars => [Next]_vars
  <1> SUFFICES ASSUME [AppNext]_appVars PROVE [Next]_vars
    OBVIOUS
  <1>1. CASE MonitorStep
    BY <1>1 DEF MonitorStep, Next
  <1>2. CASE OtherStep
    BY <1>2 DEF OtherStep, Next
  <1>3. CASE AppStep
    <2>1. CanRun("client")
      BY <1>3 DEF AppStep
    <2>2. CASE CallUnauthorized \/ CallCorrupt \/ CallAuthentic
      BY <2>1, <2>2, AppAssumption
      DEF CallUnauthorized, CallCorrupt, CallAuthentic, Call, ClientStep, Next
    <2>3. CASE StoreCorrupt \/ StoreAuthentic
      BY <2>1, <2>3, AppAssumption
      DEF StoreCorrupt, StoreAuthentic, ClientStep, Next
    <2>4. CASE AssertFails \/ DigestMatches \/ DigestDiffers
      BY <2>1, <2>4 DEF AssertFails, DigestMatches, DigestDiffers, ClientStep, Next
    <2>5. CASE AssertHolds
      BY <2>5 DEF AssertHolds
    <2> QED
      BY <1>3, <2>2, <2>3, <2>4, <2>5 DEF AppStep
  <1>4. CASE UNCHANGED appVars
    BY <1>4 DEF appVars
  <1> QED
    BY <1>1, <1>2, <1>3, <1>4 DEF AppNext

(* What is proved of every client therefore holds of app.c.                *)
LEMMA RunsAsClient == AppSpec => Init /\ [][Next]_vars
  <1>1. AppInit => Init
    BY DEF AppInit
  <1> QED
    BY <1>1, StepIsNext, PTL DEF AppSpec

(* The invariant of the event loop holds of the appliance.                 *)
LEMMA MonitorInvariant == AppSpec => []IInv
  BY RunsAsClient, InitInv, NextInv, PTL

(* With app.c for a client, or any other program: what the line sees is an *)
(* AuditLedger, no store of the program disturbs an evaluation, and the    *)
(* certificates attest their frames, in order.                             *)
THEOREM ApplianceSafe ==
  AppSpec => /\ [](PageUndisturbed /\ SerialHashInBounds)
             /\ [](CertificateAttests /\ CertifiedInOrder)
             /\ ImplementsLedger
  <1>1. IInv => PageUndisturbed /\ SerialHashInBounds
    BY DEF IInv, Stage, Evaluating, Accepted, PageHolds, PageUndisturbed,
           SerialHashInBounds
  <1>2. IInv => CertificateAttests /\ CertifiedInOrder
    BY DEF IInv
  <1>3. AppSpec => ImplementsLedger
    <2>1. Init => Ledger!Init
      BY DEF Init, Ledger!Init
    <2> QED
      BY <2>1, RunsAsClient, MonitorInvariant, RefinesNext, PTL
      DEF ImplementsLedger, Ledger!Spec
  <1> QED
    BY <1>1, <1>2, <1>3, MonitorInvariant, PTL

-----------------------------------------------------------------------------
(* What a step of the program needs, and what one of the root task needs.  *)

LEMMA PrioritiesComparable == Prio["client"] \in Nat /\ Prio["root"] \in Nat
  BY PriorityAssumption DEF Threads

(* A program that takes a step is above the root task, which waits for it  *)
(* between two rounds.                                                     *)
LEMMA ClientAbove ==
  ASSUME CanRun("client")
  PROVE  Prio["root"] < Prio["client"]
  BY PrioritiesComparable, PriorityAssumption DEF CanRun, Runnable, Threads

(* Past its first call the program is above the root task, which runs only *)
(* when the program does not.                                              *)
LEMMA RootRunsForCall ==
  ASSUME ProgramOrder, CanRun("root"), step \notin {"call1", "other"}
  PROVE  client # "running" /\ step \notin {"call3", "compare"}
  BY PrioritiesComparable, RootRunsAlone DEF ProgramOrder

(* The digest is of fields that storing it, and the verdict, leaves alone. *)
LEMMA DigestStays ==
  ASSUME NEW f, NEW g, g.node_count = f.node_count, g.claimant = f.claimant,
         g.dockets = f.dockets, g.nodes = f.nodes
  PROVE  DigestOf(g) = DigestOf(f)
  BY DEF DigestOf, HashedNodes

(* A page in bounds, evaluated: the content stays, the hash is its digest. *)
LEMMA PageEvaluated ==
  ASSUME NEW f, IsFrame(f), f.node_count <= MAX_NODES, NEW h \in DigestOutcomes(f)
  PROVE  /\ WithVerdict(WithHash(f, h)).node_count = f.node_count
         /\ WithVerdict(WithHash(f, h)).claimant = f.claimant
         /\ WithVerdict(WithHash(f, h)).dockets = f.dockets
         /\ WithVerdict(WithHash(f, h)).nodes = f.nodes
         /\ WithVerdict(WithHash(f, h)).magic = f.magic
         /\ WithVerdict(WithHash(f, h)).computed_root_hash = DigestOf(f)
  <1>1. h = DigestOf(f)
    BY DEF DigestOutcomes
  <1> DEFINE g == WithHash(f, h)
  <1>2. /\ IsFrame(g) /\ g.computed_root_hash = h /\ g.magic = f.magic
        /\ g.node_count = f.node_count /\ g.claimant = f.claimant
        /\ g.dockets = f.dockets /\ g.nodes = f.nodes
    BY OutcomeType, StoreHash
  <1> HIDE DEF g
  <1>3. WithVerdict(g).magic = g.magic
    BY <1>2 DEF IsFrame, WithVerdict
  <1> QED
    BY <1>1, <1>2, <1>3, StoreVerdict DEF g

(* A step that leaves page, log and client alone leaves ThirdPage alone.   *)
LEMMA PageStays ==
  ASSUME ThirdPage, UNCHANGED <<pc, rx, resp, last, log, client, page>>,
         step \in {"check3", "compare"}, step' # "call3"
  PROVE  ThirdPage'
  BY DEF ThirdPage, OwnPage, CertificateReady, LineFrame, PageHolds, CertifiedAt,
         Evaluating, ThirdEvaluates, Dispatch

(* An evaluation for the third call: its own page gets its hash, that of   *)
(* the line the one it has.                                                *)
LEMMA EvaluateThird ==
  ASSUME TypeOK, ThirdCall, step = "check3", EvaluatePage, page.node_count <= MAX_NODES,
         OwnPage \/ LineFrame
  PROVE  /\ page'.node_count <= MAX_NODES
         /\ OwnPage' \/ LineFrame'
  <1>1. /\ client = "calling" /\ Dispatch(msg.op) = "evaluate"
        /\ msg.badge = ROLE_FIDUCIARY_PR /\ page.magic = SOVR_MAGIC
        /\ client' = "running" /\ UNCHANGED <<last, log>>
    BY DEF EvaluatePage, Serve, Reply
  <1>2. PICK h \in DigestOutcomes(page) : page' = WithVerdict(WithHash(page, h))
    BY DEF EvaluatePage
  <1>3. /\ page'.node_count = page.node_count /\ page'.claimant = page.claimant
        /\ page'.dockets = page.dockets /\ page'.nodes = page.nodes
        /\ page'.magic = page.magic /\ page'.computed_root_hash = DigestOf(page)
    <2>1. IsFrame(page)
      BY DEF TypeOK
    <2> QED
      BY <1>2, <2>1, PageEvaluated
  <1>4. CASE OwnPage
    <2>1. ThirdEvaluates
      BY <1>1, <1>4 DEF ThirdEvaluates, ThirdCall, OwnPage
    <2>2. DigestOf(page) = DigestOf(AuthenticPage)
      BY <1>4, SameEvaluation DEF OwnPage
    <2>3. PageHolds(AuthenticPage)'
      BY <1>3, <1>4 DEF OwnPage, PageHolds
    <2> QED
      BY <1>1, <1>3, <1>4, <2>1, <2>2, <2>3 DEF OwnPage, ThirdEvaluates, Dispatch
  <1>5. CASE LineFrame
    <2>1. PICK i \in DOMAIN log :
            /\ CertifiedAt(i) /\ log[i].frame.sequence_id = last
            /\ PageHolds(log[i].frame)
      BY <1>5 DEF LineFrame
    <2>2. DigestOf(page) = DigestOf(log[i].frame)
      BY <2>1, SameEvaluation
    <2> QED
      BY <1>1, <1>3, <2>1, <2>2 DEF LineFrame, CertifiedAt, PageHolds
  <1> QED
    BY <1>3, <1>4, <1>5

(* The root task leaves the page of the third call as it is, or puts a     *)
(* frame there that it goes on to certify, as no bulk operation is asked.  *)
LEMMA RootKeepsThird ==
  ASSUME TypeOK, Stage, RootStep, ThirdCall, step = "check3", UNCHANGED step,
         client = "calling", page.node_count <= MAX_NODES,
         OwnPage \/ Evaluating \/ CertificateReady \/ LineFrame
  PROVE  /\ page'.node_count <= MAX_NODES
         /\ OwnPage' \/ Evaluating' \/ CertificateReady' \/ LineFrame'
  <1> USE DEF rootVars, clientVars
  <1>0. IsFrame(page) /\ IsFrame(rx) /\ log \in Seq(Entry)
    BY FramesAssumption DEF TypeOK
  <1>1. CASE Accept
    BY <1>1 DEF Accept, InBounds, Evaluating
  <1>2. CASE HashFrame
    <2>1. page'.node_count = page.node_count /\ pc' = "decide"
      BY <1>0, <1>2, OutcomeType, StoreHash DEF HashFrame
    <2> QED
      BY <2>1 DEF Evaluating
  <1>3. CASE DecideVerdict
    <2>1. page'.node_count = page.node_count /\ pc' = "sweep"
      BY <1>0, <1>3, StoreVerdict DEF DecideVerdict
    <2> QED
      BY <2>1 DEF Evaluating
  <1>4. CASE SweepNode
    BY <1>4 DEF SweepNode, Evaluating
  <1>5. CASE BuildCertificate
    <2>1. PageHolds(rx) /\ page.computed_root_hash = DigestOf(rx)
      BY <1>5 DEF BuildCertificate, Stage, Evaluating
    <2>2. /\ pc' = "respond" /\ resp'.status_code = SOVR_STATUS_SUCCESS
          /\ UNCHANGED <<page, rx>>
      BY <1>5 DEF BuildCertificate
    <2> QED
      BY <2>1, <2>2 DEF CertificateReady, PageHolds
  <1>6. CASE WriteResponse
    <2>1. /\ pc = "respond" /\ log' = Append(log, [frame |-> rx, resp |-> resp])
          /\ UNCHANGED <<page, last, client>>
      BY <1>6 DEF WriteResponse
    <2>2. [frame |-> rx, resp |-> resp] \in Entry
      BY DEF TypeOK, Entry
    <2>3. /\ \A i \in DOMAIN log : i \in DOMAIN log' /\ log'[i] = log[i]
          /\ Len(log) + 1 \in DOMAIN log'
          /\ log'[Len(log) + 1] = [frame |-> rx, resp |-> resp]
      BY <1>0, <2>1, <2>2, AppendEntry
    <2>4. CASE OwnPage
      BY <2>1, <2>4 DEF OwnPage, PageHolds, ThirdEvaluates, Dispatch
    <2>5. CASE CertificateReady
      <3>1. last = rx.sequence_id
        BY <2>1, <2>5 DEF Stage, CertificateReady
      <3> QED
        BY <2>1, <2>3, <2>5, <3>1 DEF CertificateReady, LineFrame, CertifiedAt, PageHolds
    <2>6. CASE LineFrame
      <3>1. PICK i \in DOMAIN log :
              /\ CertifiedAt(i) /\ log[i].frame.sequence_id = last
              /\ PageHolds(log[i].frame)
              /\ page.computed_root_hash = DigestOf(log[i].frame)
        BY <2>6 DEF LineFrame
      <3> QED
        BY <2>1, <2>3, <3>1 DEF LineFrame, CertifiedAt, PageHolds
    <2>7. ~Evaluating
      BY <2>1 DEF Evaluating
    <2> QED
      BY <2>1, <2>4, <2>5, <2>6, <2>7
  <1>7. CASE EvaluatePage
    <2>1. ~Evaluating /\ ~CertificateReady
      BY <1>7 DEF EvaluatePage, Serve, Evaluating, CertificateReady
    <2> QED
      BY <1>7, <2>1, EvaluateThird
  <1>8. CASE ServeBulk
    <2>1. msg.op = OP_SOVR_EVALUATE /\ Dispatch(msg.op) = "bulk"
      BY <1>8 DEF ServeBulk, Serve, ThirdCall
    <2> QED
      BY <2>1, AppAssumption DEF Dispatch
  <1>9. CASE ServeAdd \/ ServeNot \/ EvaluateUnauthorized \/ EvaluateBadMagic \/ ServeUnknown
    <2>1. /\ pc = "ipc" /\ UNCHANGED <<page, log, last>> /\ client' = "running"
      BY <1>9
      DEF ServeAdd, ServeNot, EvaluateUnauthorized, EvaluateBadMagic, ServeUnknown,
          Serve, Reply
    <2>2. ~Evaluating /\ ~CertificateReady
      BY <2>1 DEF Evaluating, CertificateReady
    <2>3. CASE LineFrame
      BY <2>1, <2>3 DEF LineFrame, CertifiedAt, PageHolds
    <2>4. CASE OwnPage
      <3>1. ~ThirdEvaluates
        BY <1>9, <2>4
        DEF ServeAdd, ServeNot, EvaluateUnauthorized, EvaluateBadMagic, ServeUnknown,
            Serve, ThirdEvaluates, ThirdCall, OwnPage
      <3> QED
        BY <2>1, <2>4, <3>1 DEF OwnPage, PageHolds, ThirdEvaluates, Dispatch
    <2> QED
      BY <2>1, <2>2, <2>3, <2>4
  <1>10. CASE /\ UNCHANGED <<page, log, last, client>> /\ ~Evaluating /\ pc # "respond"
    <2>1. ~CertificateReady
      BY <1>10 DEF CertificateReady
    <2> QED
      BY <1>10, <2>1 DEF OwnPage, LineFrame, PageHolds, CertifiedAt, ThirdEvaluates, Dispatch
  <1>11. CASE NoMessage
    BY <1>11 DEF NoMessage
  <1> QED
    BY <1>1, <1>2, <1>3, <1>4, <1>5, <1>6, <1>7, <1>8, <1>9, <1>10, <1>11
    DEF RootStep, ReceiveFrame, RejectMagic, RejectReplay, RejectBounds,
        RejectQuorum, Reject, LineEmpty, Evaluating
-----------------------------------------------------------------------------
(* The invariant is kept.                                                  *)

LEMMA AppInitInv == AppInit => AppInv
  <1> SUFFICES ASSUME AppInit PROVE AppInv
    OBVIOUS
  <1>1. IInv
    BY InitInv DEF AppInit
  <1>2. step \in {"call1", "other"}
    BY DEF AppInit
  <1> QED
    BY <1>1, <1>2 DEF AppInv, ProgramOrder, Steps, ThirdCall, ThirdPage

LEMMA RootKeepsProgram ==
  ASSUME TypeOK, Stage, ProgramOrder, ThirdCall, ThirdPage, MonitorStep
  PROVE  ProgramOrder' /\ ThirdCall' /\ ThirdPage'
  <1>1. RootStep /\ UNCHANGED step /\ CanRun("root")
    BY DEF MonitorStep, progVars, RootStep
  <1>2. UNCHANGED msg /\ client' \in {client, "running"}
    BY <1>1
    DEF RootStep, ReceiveFrame, RejectMagic, RejectReplay, RejectBounds,
        RejectQuorum, Reject, Accept, HashFrame, DecideVerdict, SweepNode,
        BuildCertificate, WriteResponse, LineEmpty, ServeAdd, ServeNot, ServeBulk,
        EvaluateUnauthorized, EvaluateBadMagic, EvaluatePage, ServeUnknown,
        Reply, NoMessage, clientVars
  <1>3. ProgramOrder'
    BY <1>1, <1>2 DEF ProgramOrder
  <1>4. ThirdCall'
    BY <1>1, <1>2 DEF ThirdCall
  <1>5. ThirdPage'
    <2>1. CASE step \notin {"call3", "check3", "compare"}
      BY <1>1, <2>1 DEF ThirdPage
    <2>2. CASE step \in {"call3", "compare"}
      BY <1>1, <2>2, RootRunsForCall
    <2>3. CASE step = "check3"
      <3>1. client = "calling"
        BY <1>1, <2>3, RootRunsForCall DEF ProgramOrder
      <3>2. /\ page'.node_count <= MAX_NODES
            /\ OwnPage' \/ Evaluating' \/ CertificateReady' \/ LineFrame'
        BY <1>1, <2>3, <3>1, RootKeepsThird DEF ThirdPage
      <3> QED
        BY <1>1, <2>3, <3>2 DEF ThirdPage
    <2> QED
      BY <2>1, <2>2, <2>3
  <1> QED
    BY <1>3, <1>4, <1>5

LEMMA ProgramKeepsProgram ==
  ASSUME TypeOK, ClientHeld, ProgramOrder, ThirdCall, ThirdPage, AppStep
  PROVE  ProgramOrder' /\ ThirdCall' /\ ThirdPage'
  <1> USE DEF ProgramOrder, ThirdCall, ThirdPage, Goto, Steps, rootVars
  <1>0. CanRun("client") /\ client = "running" /\ Prio["root"] < Prio["client"]
    BY ClientAbove DEF AppStep, CanRun, Runnable
  <1>1. CASE CallUnauthorized \/ CallCorrupt
    BY <1>0, <1>1 DEF CallUnauthorized, CallCorrupt, Call, ClientCall
  <1>2. CASE CallAuthentic
    <2>1. page' = AuthenticPage /\ pc' = pc
      BY <1>2 DEF CallAuthentic, Call, ClientCall
    <2>2. client' = "calling" /\ msg'.op = OP_SOVR_EVALUATE /\ msg'.badge = CLIENT_BADGE_AUTH
      BY <1>2 DEF CallAuthentic, Call, ClientCall
    <2>3. page'.node_count <= MAX_NODES /\ OwnPage'
      BY <2>1, <2>2, AppAssumption DEF OwnPage, PageHolds
    <2> QED
      BY <1>0, <1>2, <2>2, <2>3 DEF CallAuthentic, Call, ClientCall
  <1>3. CASE StoreCorrupt \/ StoreAuthentic
    BY <1>0, <1>3 DEF StoreCorrupt, StoreAuthentic, ClientStore, clientVars
  <1>4. CASE AssertHolds
    <2>1. UNCHANGED <<pc, rx, resp, last, log, client, msg, page>>
      BY <1>4 DEF AssertHolds, vars, clientVars
    <2>2. CASE step = "check3"
      <3>1. step' = "compare"
        BY <1>4, <2>2 DEF AssertHolds, AfterCheck
      <3>2. ThirdPage'
        BY <2>1, <2>2, <3>1, PageStays
      <3> QED
        BY <1>0, <2>1, <2>2, <3>1, <3>2
    <2>3. CASE step \in {"check1", "check2"}
      <3>1. step' \in {"store2", "store3"}
        BY <1>4, <2>3 DEF AssertHolds, AfterCheck
      <3> QED
        BY <1>0, <3>1
    <2> QED
      BY <1>4, <2>2, <2>3 DEF AssertHolds
  <1>5. CASE AssertFails \/ DigestMatches \/ DigestDiffers
    BY <1>0, <1>5 DEF AssertFails, DigestMatches, DigestDiffers, ClientExit
  <1> QED
    BY <1>1, <1>2, <1>3, <1>4, <1>5 DEF AppStep

LEMMA AppNextInv == AppInv /\ [AppNext]_appVars => AppInv'
  <1> SUFFICES ASSUME AppInv, [AppNext]_appVars PROVE AppInv'
    OBVIOUS
  <1>0. /\ IInv /\ TypeOK /\ ClientHeld
        /\ Stage /\ ProgramOrder /\ ThirdCall /\ ThirdPage
    BY DEF AppInv, IInv
  <1>1. IInv'
    BY <1>0, StepIsNext, NextInv
  <1>2. CASE MonitorStep
    BY <1>0, <1>1, <1>2, RootKeepsProgram DEF AppInv
  <1>3. CASE AppStep
    BY <1>0, <1>1, <1>3, ProgramKeepsProgram DEF AppInv
  <1>4. CASE OtherStep
    <2>1. step' = "other"
      BY <1>4 DEF OtherStep, progVars
    <2> QED
      BY <1>1, <2>1 DEF AppInv, ProgramOrder, Steps, ThirdCall, ThirdPage
  <1>5. CASE UNCHANGED appVars
    <2>1. UNCHANGED <<step, client, msg, page, pc, rx, resp, last, log>>
      BY <1>5 DEF appVars, vars, progVars, rootVars, clientVars
    <2>2. CASE step \in {"check3", "compare"}
      <3>1. ThirdPage'
        BY <1>0, <2>1, <2>2, PageStays
      <3> QED
        BY <1>0, <1>1, <2>1, <3>1 DEF AppInv, ProgramOrder, ThirdCall
    <2>3. CASE step \notin {"check3", "compare"}
      BY <1>0, <1>1, <2>1, <2>3 DEF AppInv, ProgramOrder, ThirdCall, ThirdPage
    <2> QED
      BY <2>2, <2>3
  <1> QED
    BY <1>2, <1>3, <1>4, <1>5 DEF AppNext

(* The invariant of event loop and program holds in every state.           *)
THEOREM AppInvariance == AppSpec => []AppInv
  BY AppInitInv, AppNextInv, PTL DEF AppSpec

(* What app.c compares with the digest it expects belongs to its own       *)
(* frame, or to the latest frame of the line that was certified in the     *)
(* same page meanwhile (app.c:61-108, main.c:271-273, 339).                *)
THEOREM ComparesOwnOrCertified == AppSpec => []OvertakenByLineOnly
  <1>1. AppInv => OvertakenByLineOnly
    <2> SUFFICES ASSUME AppInv, step = "compare" PROVE OwnFrame \/ LineFrame
      BY DEF OvertakenByLineOnly
    <2>1. client = "running" /\ Prio["root"] < Prio["client"]
      BY DEF AppInv, ProgramOrder
    <2>2. pc = "com2"
      BY <2>1, PrioritiesComparable DEF AppInv, IInv, ClientHeld
    <2>3. ~Evaluating /\ ~CertificateReady
      BY <2>2 DEF Evaluating, CertificateReady
    <2> QED
      BY <2>1, <2>3 DEF AppInv, ThirdPage, OwnPage, OwnFrame
  <1> QED
    BY <1>1, AppInvariance, PTL

=============================================================================
