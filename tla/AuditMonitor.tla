---------------------------- MODULE AuditMonitor ----------------------------
(***************************************************************************)
(* The event loop of the root task (libraries-3/main.c:233-353), one frame *)
(* at a time, together with a client that shares the page the root task    *)
(* evaluates frames in.                                                    *)
(*                                                                         *)
(* The root task never blocks.  A round drains the serial line - each      *)
(* frame is tested, copied to the shared page, evaluated there, and        *)
(* answered from there - and then looks for one message on the endpoint.   *)
(* The client may write the page whenever it runs.  Nothing in the loop    *)
(* keeps it out while a frame is being evaluated: what does is the         *)
(* kernel's scheduler, which runs a thread only when no thread of higher   *)
(* priority can run.                                                       *)
(***************************************************************************)
EXTENDS SovereignContract, Sequences

CONSTANTS
  Frames,           \* the frames the line may bring
  Pages,            \* what the client, or a bulk operation, may leave in the page
  BlankPage,        \* the page as the kernel hands it out
  OP_ADD, OP_NOT, OP_BULK_PROCESS, OP_SOVR_EVALUATE,
  Opcodes,          \* the values a client may send as an operation
  Badges,           \* the badges of the capabilities minted for it
  ROLE_FIDUCIARY_PR,
  StaleWords,       \* what message registers 1 and 2 may hold
  WORD_SPAN,        \* 2^64, the number of values of a seL4_Word
  Prio,             \* the priorities of the two threads
  MaxFrames         \* bound: the frames that arrive in a behaviour

Threads == {"root", "client"}
Words   == 0 .. (WORD_SPAN - 1)

ASSUME FramesAssumption == \A f \in Frames : IsFrame(f)
ASSUME PagesAssumption  == BlankPage \in Pages /\ \A p \in Pages : IsFrame(p)
ASSUME WordsAssumption  ==
  /\ WORD_SPAN \in Nat
  /\ SOVR_STATUS_ERR_UNAUTH < WORD_SPAN
  /\ Opcodes \subseteq Words
  /\ StaleWords \subseteq Words

(* The two threads have different priorities: 255 and 200 as built.        *)
ASSUME PriorityAssumption ==
  /\ Prio \in [Threads -> Nat]
  /\ Prio["root"] # Prio["client"]

VARIABLES
  pc,      \* where the root task is
  rx,      \* rx_buffer, once it holds a whole frame
  last,    \* g_last_sequence_id
  page,    \* the shared page
  n,       \* the counter of the TinyML sweep
  resp,    \* the response under construction
  log,     \* the frames answered, each with the response written to the line
  client,  \* "running", "calling" (blocked in seL4_Call) or "exited"
  msg,     \* the message of the call
  reply    \* the word the last reply put in the client's MR0

rootVars   == <<pc, rx, last, n, resp, log>>
clientVars == <<client, msg, reply>>
vars       == <<rootVars, page, clientVars>>

Places == {"com2", "validate", "hash", "decide", "sweep", "respond", "ipc"}

(* sovereign_response_frame_t resp = {0}, its magic aside.                 *)
ZeroResponse ==
  [status_code |-> SOVR_STATUS_SUCCESS, flags |-> {}, root_hash |-> ZeroHash]

Init ==
  /\ pc = "com2"
  /\ rx \in Frames          \* the stack's contents
  /\ last = 0
  /\ page = BlankPage
  /\ n = 0
  /\ resp = ZeroResponse
  /\ log = <<>>
  /\ client = "running"
  /\ msg \in [op : Opcodes, badge : Badges]
  /\ reply = 0

-----------------------------------------------------------------------------
(* The scheduler: a thread runs only if no runnable thread is above it.    *)
(* The root task polls and yields, so it is always runnable.               *)

Runnable(t) == t = "root" \/ client = "running"

CanRunAnyTime(t) == Runnable(t)   \* mutant: threads interleave freely

CanRun(t) ==
  /\ Runnable(t)
  /\ \A u \in Threads : Runnable(u) => Prio[u] <= Prio[t]

-----------------------------------------------------------------------------
(* 1. Serial ingestion.  A frame is complete: the response starts out as   *)
(* zeroes.                                                                 *)

ReceiveFrame(f) ==
  /\ pc = "com2"
  /\ Len(log) < MaxFrames
  /\ rx' = f
  /\ resp' = ZeroResponse
  /\ pc' = "validate"
  /\ UNCHANGED <<last, n, log, page, clientVars>>

(* The tests, each reached when those above it pass.                       *)
MagicOK == rx.magic = SOVR_MAGIC

FreshLax == rx.sequence_id >= last   \* mutant: "<" for "<=" in the test

Fresh == rx.sequence_id > last

InBoundsLax == rx.node_count <= MAX_NODES + 1   \* mutant: off by one

InBounds == rx.node_count <= MAX_NODES

RejectConsuming(status) ==   \* mutant: g_last_sequence_id advanced for every frame
  /\ pc = "validate"
  /\ resp' = [resp EXCEPT !.status_code = status]
  /\ last' = rx.sequence_id
  /\ pc' = "respond"
  /\ UNCHANGED <<rx, n, log, page, clientVars>>

Reject(status) ==
  /\ pc = "validate"
  /\ resp' = [resp EXCEPT !.status_code = status]
  /\ pc' = "respond"
  /\ UNCHANGED <<rx, last, n, log, page, clientVars>>

RejectMagic  == ~MagicOK /\ Reject(SOVR_STATUS_ERR_MAGIC)

RejectReplay == MagicOK /\ ~Fresh /\ Reject(SOVR_STATUS_REJECT_REPLAY)

RejectBounds == MagicOK /\ Fresh /\ ~InBounds /\ Reject(SOVR_STATUS_ERR_BOUNDS)

RejectQuorum ==
  MagicOK /\ Fresh /\ InBounds /\ ~QuorumAccepts(rx) /\ Reject(SOVR_STATUS_ERR_QUORUM)

AcceptForgetful ==   \* mutant: g_last_sequence_id is not advanced
  /\ pc = "validate"
  /\ MagicOK /\ Fresh /\ InBounds /\ QuorumAccepts(rx)
  /\ page' = rx
  /\ pc' = "hash"
  /\ UNCHANGED <<rx, last, n, resp, log, clientVars>>

AcceptUncopied ==   \* mutant: the memcpy to the shared page left out
  /\ pc = "validate"
  /\ MagicOK /\ Fresh /\ InBounds /\ QuorumAccepts(rx)
  /\ last' = rx.sequence_id
  /\ pc' = "hash"
  /\ UNCHANGED <<rx, n, resp, log, page, clientVars>>

AcceptUnhashed ==   \* mutant: the two updates of the hash left out
  /\ pc = "validate"
  /\ MagicOK /\ Fresh /\ InBounds /\ QuorumAccepts(rx)
  /\ page' = rx
  /\ last' = rx.sequence_id
  /\ pc' = "decide"
  /\ UNCHANGED <<rx, n, resp, log, clientVars>>

Accept ==
  /\ pc = "validate"
  /\ MagicOK /\ Fresh /\ InBounds /\ QuorumAccepts(rx)
  /\ page' = rx
  /\ last' = rx.sequence_id
  /\ pc' = "hash"
  /\ UNCHANGED <<rx, n, resp, log, clientVars>>

(* evaluate_and_hash_frame, its two halves.                                *)
HashFrame ==
  /\ pc = "hash"
  /\ \E h \in DigestOutcomes(page) : page' = WithHash(page, h)
  /\ pc' = "decide"
  /\ UNCHANGED <<rx, last, n, resp, log, clientVars>>

DecideVerdict ==
  /\ pc = "decide"
  /\ page' = WithVerdict(page)
  /\ n' = 0
  /\ pc' = "sweep"
  /\ UNCHANGED <<rx, last, resp, log, clientVars>>

(* The TinyML sweep, one node a step.                                      *)
MoreNodes == n < page.node_count /\ n < MAX_NODES

SweepNodeStuck ==   \* mutant: n++ left out
  /\ pc = "sweep"
  /\ MoreNodes
  /\ resp' = [resp EXCEPT !.flags =
                 IF page.nodes[n].anomalous THEN @ \cup {"ANOMALY_DETECTED"} ELSE @]
  /\ UNCHANGED <<pc, rx, last, n, log, page, clientVars>>

SweepNode ==
  /\ pc = "sweep"
  /\ MoreNodes
  /\ resp' = [resp EXCEPT !.flags =
                 IF page.nodes[n].anomalous THEN @ \cup {"ANOMALY_DETECTED"} ELSE @]
  /\ n' = n + 1
  /\ UNCHANGED <<pc, rx, last, log, page, clientVars>>

BuildCertificateFromWire ==   \* mutant: the hash field as it was received
  /\ pc = "sweep"
  /\ ~MoreNodes
  /\ resp' = [status_code |-> SOVR_STATUS_SUCCESS,
              flags       |-> resp.flags \cup VerdictFlags(page) \cup {"QUORUM_VERIFIED"},
              root_hash   |-> rx.computed_root_hash]
  /\ pc' = "respond"
  /\ UNCHANGED <<rx, last, n, log, page, clientVars>>

BuildCertificate ==
  /\ pc = "sweep"
  /\ ~MoreNodes
  /\ resp' = [status_code |-> SOVR_STATUS_SUCCESS,
              flags       |-> resp.flags \cup VerdictFlags(page) \cup {"QUORUM_VERIFIED"},
              root_hash   |-> page.computed_root_hash]
  /\ pc' = "respond"
  /\ UNCHANGED <<rx, last, n, log, page, clientVars>>

(* uart_com2_write_exact, and back to the test for more data.              *)
WriteResponse ==
  /\ pc = "respond"
  /\ log' = Append(log, [frame |-> rx, resp |-> resp])
  /\ pc' = "com2"
  /\ UNCHANGED <<rx, last, n, resp, page, clientVars>>

LineEmpty ==
  /\ pc = "com2"
  /\ pc' = "ipc"
  /\ UNCHANGED <<rx, last, n, resp, log, page, clientVars>>

-----------------------------------------------------------------------------
(* 2. One message of the client.  The chain of tests takes the first       *)
(* operation that matches: as built OP_ADD and OP_SOVR_EVALUATE are both 1.*)

Dispatch(op) ==
  CASE op = OP_ADD -> "add"
    [] op = OP_NOT /\ op # OP_ADD -> "not"
    [] op = OP_BULK_PROCESS /\ op \notin {OP_ADD, OP_NOT} -> "bulk"
    [] op = OP_SOVR_EVALUATE /\ op \notin {OP_ADD, OP_NOT, OP_BULK_PROCESS} -> "evaluate"
    [] OTHER -> "unknown"

Serve(branch) == pc = "ipc" /\ client = "calling" /\ Dispatch(msg.op) = branch

ReplyLost(word) ==   \* mutant: seL4_Reply left out
  /\ pc' = "com2"
  /\ reply' = word
  /\ UNCHANGED <<rx, last, n, resp, log, client, msg>>

Reply(word) ==
  /\ pc' = "com2"
  /\ reply' = word
  /\ client' = "running"
  /\ UNCHANGED <<rx, last, n, resp, log, msg>>

(* A message shorter than the operation expects leaves the registers it    *)
(* does not fill as they were.                                             *)
ServeAdd ==
  /\ Serve("add")
  /\ \E a, b \in StaleWords : Reply((a + b) % WORD_SPAN)
  /\ UNCHANGED page

ServeNot ==
  /\ Serve("not")
  /\ \E a \in StaleWords : Reply(WORD_SPAN - 1 - a)
  /\ UNCHANGED page

(* The reversal of the first words of the page, whatever they are.         *)
ServeBulk ==
  /\ Serve("bulk")
  /\ Reply(0)
  /\ page' \in Pages \cup {page}

EvaluateUnauthorized ==
  /\ Serve("evaluate")
  /\ msg.badge # ROLE_FIDUCIARY_PR
  /\ Reply(SOVR_STATUS_ERR_UNAUTH)
  /\ UNCHANGED page

EvaluateBadMagic ==
  /\ Serve("evaluate")
  /\ msg.badge = ROLE_FIDUCIARY_PR
  /\ page.magic # SOVR_MAGIC
  /\ Reply(SOVR_STATUS_ERR_MAGIC)
  /\ UNCHANGED page

EvaluateUnhashed ==   \* mutant: the evaluation left out
  /\ Serve("evaluate")
  /\ msg.badge = ROLE_FIDUCIARY_PR
  /\ page.magic = SOVR_MAGIC
  /\ Reply(SOVR_STATUS_SUCCESS)
  /\ UNCHANGED page

EvaluatePage ==
  /\ Serve("evaluate")
  /\ msg.badge = ROLE_FIDUCIARY_PR
  /\ page.magic = SOVR_MAGIC
  /\ \E h \in DigestOutcomes(page) : page' = WithVerdict(WithHash(page, h))
  /\ Reply(SOVR_STATUS_SUCCESS)

(* An empty reply: the client's MR0 still holds what it sent.              *)
ServeUnknown ==
  /\ Serve("unknown")
  /\ Reply(msg.op)
  /\ UNCHANGED page

(* NBRecv finds nobody; seL4_Yield gives way to no thread of a lower       *)
(* priority.                                                               *)
NoMessage ==
  /\ pc = "ipc"
  /\ client # "calling"
  /\ pc' = "com2"
  /\ UNCHANGED <<rx, last, n, resp, log, page, clientVars>>

RootStep ==
  /\ CanRun("root")
  /\ \/ \E f \in Frames : ReceiveFrame(f)
     \/ RejectMagic
     \/ RejectReplay
     \/ RejectBounds
     \/ RejectQuorum
     \/ Accept
     \/ HashFrame
     \/ DecideVerdict
     \/ SweepNode
     \/ BuildCertificate
     \/ WriteResponse
     \/ LineEmpty
     \/ ServeAdd
     \/ ServeNot
     \/ ServeBulk
     \/ EvaluateUnauthorized
     \/ EvaluateBadMagic
     \/ EvaluatePage
     \/ ServeUnknown
     \/ NoMessage

-----------------------------------------------------------------------------
(* The client: it may write the page, call the root task, and exit.        *)

ClientStore(p) ==
  /\ client = "running"
  /\ page' = p
  /\ UNCHANGED <<rootVars, clientVars>>

ClientCall(op, badge) ==
  /\ client = "running"
  /\ client' = "calling"
  /\ msg' = [op |-> op, badge |-> badge]
  /\ UNCHANGED <<rootVars, page, reply>>

ClientExit ==
  /\ client = "running"
  /\ client' = "exited"
  /\ UNCHANGED <<rootVars, page, msg, reply>>

ClientStep ==
  /\ CanRun("client")
  /\ \/ \E p \in Pages : ClientStore(p)
     \/ \E op \in Opcodes, badge \in Badges : ClientCall(op, badge)
     \/ ClientExit

Next == RootStep \/ ClientStep

(* The kernel runs a thread that can run and stays so.                     *)
Fairness == WF_vars(RootStep) /\ WF_vars(ClientStep)

Spec == Init /\ [][Next]_vars /\ Fairness

-----------------------------------------------------------------------------
Entry == [frame : Frames, resp : Response]

(* The variables have their types; the words exchanged fit a register.     *)
TypeOK ==
  /\ pc \in Places
  /\ rx \in Frames
  /\ last \in 0 .. SEQ_MAX
  /\ IsFrame(page)
  /\ n \in 0 .. MAX_NODES
  /\ resp \in Response
  /\ log \in Seq(Entry)
  /\ client \in {"running", "calling", "exited"}
  /\ msg \in [op : Opcodes, badge : Badges]
  /\ reply \in Words

(* The page agrees with frame f in all that evaluation reads.              *)
PageHolds(f) ==
  /\ page.node_count = f.node_count
  /\ page.claimant = f.claimant
  /\ page.dockets = f.dockets
  /\ page.nodes = f.nodes

Evaluating == pc \in {"hash", "decide", "sweep"}

(* From the copy of a frame to the shared page until its response is built *)
(* (main.c:271-293) the page holds that frame: the client, which has the   *)
(* page mapped and may write it, does not get to.                          *)
PageUndisturbed == Evaluating => PageHolds(rx)

(* The hash runs over node_count nodes with no bound of its own            *)
(* (main.c:51-52).  Where the event loop starts it for a frame of the line *)
(* (main.c:273) node_count is in bounds, whatever count a client left in   *)
(* the page before.  An evaluation that a client asks for (main.c:339)     *)
(* starts it on the page as it is, in bounds or not: EvaluatePage.         *)
SerialHashInBounds == pc = "hash" => page.node_count <= MAX_NODES

CertifiedAt(i) == log[i].resp.status_code = SOVR_STATUS_SUCCESS

(* A certificate speaks of the frame it answers: of its nodes, claimant    *)
(* and dockets is the hash, of its titles and dockets are the flags, and   *)
(* its committee was accepted (main.c:271-293).                            *)
CertificateAttests ==
  \A i \in DOMAIN log : CertifiedAt(i) =>
    /\ QuorumAccepts(log[i].frame)
    /\ log[i].resp.root_hash = DigestOf(log[i].frame)
    /\ "STATUTORY_DUTY" \in log[i].resp.flags <=> DutyArises(log[i].frame)
    /\ "STATUTORY_DUTY" \in log[i].resp.flags <=>
         "CAN_BE_ADMINISTERED" \notin log[i].resp.flags

(* Certificates are given in the order of their sequence numbers, one for  *)
(* each at most, and never for number 0 (main.c:255, 272).                 *)
CertifiedInOrder ==
  /\ \A i \in DOMAIN log : CertifiedAt(i) => log[i].frame.sequence_id > 0
  /\ \A i, j \in DOMAIN log :
       i < j /\ CertifiedAt(i) /\ CertifiedAt(j) =>
         log[i].frame.sequence_id < log[j].frame.sequence_id

(* What the line sees is an AuditLedger: the stages, the shared page and   *)
(* the client leave no trace in the responses.                             *)
Ledger == INSTANCE AuditLedger WITH ledger <- log

ImplementsLedger == Ledger!Spec

(* A frame that was received is answered (main.c:246-299).                 *)
FrameAnswered == pc = "validate" ~> pc = "com2"

(* A client that calls gets its reply, if the line falls quiet again and   *)
(* again: the root task turns to the endpoint only then (main.c:242, 306). *)
CallAnswered ==
  []<>(pc = "ipc") => (client = "calling" ~> client = "running")

(* "forall frame, node_count > 8 => Status = 0xE003"                       *)
(* (Whitepaper_Invariant_Report.md:16).                                    *)
BoundsAlwaysReported ==
  \A i \in DOMAIN log : log[i].frame.node_count > MAX_NODES =>
    log[i].resp.status_code = SOVR_STATUS_ERR_BOUNDS

(* "every entry n satisfies H_n = SHA-256(H_(n-1) || Frame_n || Seq_n)"    *)
(* (Whitepaper_Invariant_Report.md:18-19): no two certificates have the    *)
(* same hash, their sequence numbers being different.                      *)
HashesChained ==
  \A i, j \in DOMAIN log :
    i # j /\ CertifiedAt(i) /\ CertifiedAt(j) =>
      log[i].resp.root_hash # log[j].resp.root_hash

=============================================================================
