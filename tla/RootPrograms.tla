---------------------------- MODULE RootPrograms ----------------------------
(***************************************************************************)
(* The set-up programs run on the objects of the kernel.  A call is        *)
(* refused when the kernel or the library would refuse it: a slot is empty *)
(* or taken, a level of the paging structures is missing or present, a     *)
(* frame capability is mapped elsewhere.  Where memory or slots are        *)
(* allocated it may fail at any time.                                      *)
(***************************************************************************)
EXTENDS RootScripts, Integers

CONSTANTS
  Programs,    \* the scripts to run, by name
  WORD,        \* 2^64: number of values of a message register
  MSG_DATA,    \* what the root task of libraries-2 sends
  None         \* no message, no answer

ASSUME ProgramsAssumption ==
  Programs \subseteq {"libraries1", "libraries2", "libraries3", "bak", "multiserver",
                      "libraries4", "capabilities", "mapping"}

ASSUME MessageAssumption == WORD \in Nat /\ MSG_DATA \in 0 .. (WORD - 1) /\ None \notin Nat

VARIABLES
  program,     \* the program that is run
  step,        \* the index of its next call
  outcome,     \* "runs", "ended", "aborted"
  shortage,    \* history: whether something could not be allocated
  kernel,      \* the objects, see Init
  message      \* of the call between root task and thread of libraries-2

vars == <<program, step, outcome, shortage, kernel, message>>

Spaces == {"root", "client", "compute_srv"}
Threads == {"tcb_object", "seL4_CapInitThreadTCB", "client", "compute_srv"}

Script ==
  [libraries1 |-> Libraries1, libraries2 |-> Libraries2, libraries3 |-> Libraries3, bak |-> Bak,
   multiserver |-> Multiserver, libraries4 |-> Libraries4, capabilities |-> Capabilities,
   mapping |-> Mapping][program]

(* The paging structures that may stand at a program's address: none or    *)
(* the PDPT at 0xA000000000, all but the table or all at 0x7000000, the    *)
(* PDPT of the image or more at 0x50000000.                                *)
Levels(p) ==
  CASE p = "mapping" -> {0, 1}
    [] p = "libraries2" -> {2, 3}
    [] OTHER -> {1, 2, 3}

NoMessage == [at |-> "none", badge |-> 0, length |-> 0, word |-> 0]

Capability(object) == [object |-> object, space |-> "none"]

Init ==
  /\ program \in Programs
  /\ step = 1 /\ outcome = "runs" /\ shortage = FALSE
  /\ \E n \in Levels(program) :
       kernel =
         [caps |-> [c \in {"seL4_CapInitThreadTCB"} |-> Capability(c)],  \* by slot
          tables |-> [s \in Spaces |-> IF s = "root" THEN n ELSE 1],  \* levels present
          pages |-> [s \in Spaces |-> [object |-> "none", rights |-> "none"]],
          facts |-> [t \in Threads |-> {}],   \* what has been set in a thread
          held |-> [t \in Threads |-> {}],    \* capabilities a process was given
          irq |-> {}]                         \* what has been done to IRQ 3
  /\ message = NoMessage

-----------------------------------------------------------------------------
current == Script[step]
args == current.args

Now(op) == outcome = "runs" /\ current.op = op

(* The call returns error; with NoError the objects become those of k.     *)
Returns(error, k) ==
  LET passed == current.ignored \/ error = current.expects
      next == step + 1 + (IF error = "NoError" THEN current.skip ELSE 0)
      ended == next > Len(Script)
  IN /\ kernel' = IF error = "NoError" THEN k ELSE kernel
     /\ step' = IF passed /\ ~ended THEN next ELSE step
     /\ outcome' = IF ~passed THEN "aborted" ELSE IF ended THEN "ended" ELSE "runs"
     /\ shortage' = (shortage \/ error = "NotEnoughMemory")
     /\ UNCHANGED <<program, message>>

RunShort == Returns("NotEnoughMemory", kernel)

(* The first error whose condition holds, of a sequence of pairs.          *)
FirstOf(errors) ==
  LET hits == {n \in DOMAIN errors : errors[n][1]}
  IN IF hits = {} THEN "NoError"
     ELSE errors[CHOOSE n \in hits : \A m \in hits : n <= m][2]

Used(slot) == slot \in DOMAIN kernel.caps

Fill(k, slot, capability) ==
  [k EXCEPT !.caps = [c \in DOMAIN @ \cup {slot} |-> IF c = slot THEN capability ELSE @[c]]]
Empty(k, slot) == [k EXCEPT !.caps = [c \in DOMAIN @ \ {slot} |-> @[c]]]
Tell(k, thread, with) == [k EXCEPT !.facts[thread] = @ \cup with]

(* Parts of the libraries, objects, the handler of an interrupt, a range   *)
(* of ports: what comes from the allocator or from the boot information.   *)
BeginCall == Now("begin") /\ (Returns("NoError", kernel) \/ RunShort)

AllocCall ==
  /\ Now("alloc")
  /\ \/ Returns(FirstOf(<< <<Used(args.object), "DeleteFirst">> >>),
                Fill(kernel, args.object, Capability(args.object)))
     \/ RunShort

(* A variable that is assigned again loses the object it held.             *)
ForgetCall == Now("forget") /\ Returns("NoError", Empty(kernel, args.object))

SlotErrors(from, to) ==
  FirstOf(<< <<Used(to), "DeleteFirst">>, <<~Used(from), "FailedLookup">> >>)

(* A slot is allocated, or known to be free, and a copy is put there: it   *)
(* refers to the object and is mapped nowhere.                             *)
MintCall ==
  /\ Now("mint")
  /\ \/ Returns(SlotErrors(args.from, args.to),
                Fill(kernel, args.to, [kernel.caps[args.from] EXCEPT !.space = "none"]))
     \/ RunShort

DeleteCall == Now("delete") /\ Returns("NoError", Empty(kernel, args.slot))

MoveCall ==
  /\ Now("move")
  /\ Returns(SlotErrors(args.from, args.to),
             Fill(Empty(kernel, args.from), args.to, kernel.caps[args.from]))

MapTableCall ==
  LET there == kernel.tables[args.space]
  IN /\ Now("mapTable")
     /\ Returns(FirstOf(<< <<~Used(args.table), "InvalidCapability">>,
                           <<there < args.level - 1, "FailedLookup">>,
                           <<there >= args.level, "DeleteFirst">> >>),
                [kernel EXCEPT !.tables[args.space] = args.level])

(* A frame's capability is mapped in one space, an address holds one page; *)
(* mapping again changes the rights.                                       *)
PageErrors(frame, space) ==
  FirstOf(<< <<~Used(frame), "InvalidCapability">>,
             <<Used(frame) /\ kernel.caps[frame].space \notin {"none", space},
               "InvalidCapability">>,
             <<Used(frame) /\ kernel.pages[space].object
                 \notin {"none", kernel.caps[frame].object}, "DeleteFirst">> >>)

Mapped(frame, space, rights) ==
  [kernel EXCEPT
     !.pages[space] = [object |-> kernel.caps[frame].object, rights |-> rights],
     !.caps[frame].space = space,
     !.tables[space] = 3]

MapPageCall ==
  /\ Now("mapPage")
  /\ Returns(FirstOf(<< <<kernel.tables[args.space] < 3, "FailedLookup">>,
                        <<TRUE, PageErrors(args.frame, args.space)>> >>),
             Mapped(args.frame, args.space, args.rights))

(* sel4utils_map_page allocates and maps the structures that are missing.  *)
MapWithTablesCall ==
  /\ Now("mapWithTables")
  /\ \/ Returns(PageErrors(args.frame, args.space),
                Mapped(args.frame, args.space, "all"))
     \/ kernel.tables[args.space] < 3 /\ RunShort

(* A load needs a page, a store one that may be written; else a fault.     *)
AccessCall ==
  /\ Now("access")
  /\ Returns(FirstOf(<< <<kernel.pages["root"].rights \notin {"all", args.kind}, "Fault">> >>),
             kernel)

SetThreadCall ==
  /\ Now("setThread")
  /\ Returns(FirstOf(<< <<~Used(args.tcb), "InvalidCapability">> >>),
             Tell(kernel, kernel.caps[args.tcb].object, args.with))

ResumeCall ==
  /\ Now("resume")
  /\ Returns(FirstOf(<< <<~Used(args.tcb), "InvalidCapability">> >>),
             Tell(kernel, kernel.caps[args.tcb].object, {"resumed"}))

(* The root task stops itself: what follows is not reached.                *)
SuspendCall ==
  /\ Now("suspend")
  /\ outcome' = "ended"
  /\ UNCHANGED <<program, step, shortage, kernel, message>>

ConfigureProcessCall ==
  /\ Now("configureProcess")
  /\ \/ Returns("NoError", Tell(kernel, args.process, {"configured"} \cup args.with))
     \/ RunShort

MintIntoCall ==
  /\ Now("mintInto")
  /\ \/ Returns(FirstOf(<< <<~Used(args.from), "FailedLookup">>,
                           <<"configured" \notin kernel.facts[args.process],
                             "InvalidCapability">> >>),
                [kernel EXCEPT !.held[args.process] =
                   @ \cup {<<kernel.caps[args.from].object, args.badge>>}])
     \/ RunShort

(* The process's stack and registers are set and its thread is resumed.    *)
SpawnCall ==
  /\ Now("spawn")
  /\ \/ Returns("NoError", Tell(kernel, args.process, {"registers", "resumed"}))
     \/ RunShort

(* An interrupt that arrives before a notification is bound masks the line *)
(* and tells nobody: only an acknowledgement after that is of use.         *)
BindIrqCall ==
  /\ Now("bindIrq")
  /\ Returns(FirstOf(<< <<~Used(args.handler) \/ ~Used(args.ntfn), "FailedLookup">> >>),
             [kernel EXCEPT !.irq = {"bound"}])

AckIrqCall ==
  /\ Now("ackIrq")
  /\ Returns(FirstOf(<< <<~Used(args.handler), "FailedLookup">> >>),
             [kernel EXCEPT !.irq = @ \cup {"acknowledged"}])

(* uart_com2_init: the device may interrupt from now on.                   *)
EnableIrqCall ==
  /\ Now("enableIrq")
  /\ Returns(FirstOf(<< <<~Used(args.port), "InvalidCapability">> >>),
             [kernel EXCEPT !.irq = @ \cup {"enabled"}])

-----------------------------------------------------------------------------
(* What a thread uses when it runs: the IPC buffer and the TLS of the one  *)
(* that receives, the capabilities and pages of the processes.             *)
Missing(t) ==
  LET needed ==
        {"configured", "registers"}
        \cup (IF program = "libraries1" THEN {"priority"} ELSE {})
        \cup (IF program = "libraries2" THEN {"buffer", "tls"} ELSE {})
        \cup (IF program = "bak" THEN {"fault endpoint"} ELSE {})
      badges ==
        CASE program = "libraries3" -> {CLIENT_BADGE_AUTH, CLIENT_BADGE_UNAUTH}
          [] program = "multiserver" /\ t = "client" -> {CLIENT_BADGE_AUTH}
          [] program = "libraries4" -> {EP_BADGE}
          [] program = "bak" \/ (program = "multiserver" /\ t # "client") -> {0}
          [] OTHER -> {}
      shares == program \in {"libraries3", "bak"}
  IN (needed \ kernel.facts[t])
     \cup {"endpoint" : b \in {b \in badges : <<"ep_object", b>> \notin kernel.held[t]}}
     \cup (IF shares /\ kernel.pages[t] # kernel.pages["root"] THEN {"shared page"} ELSE {})
     \cup (IF program = "libraries2" /\ kernel.pages["root"].rights # "all" THEN {"page"} ELSE {})

Runs(t) == "resumed" \in kernel.facts[t] /\ Missing(t) = {}

(* mutant: the complement of a signed number of more bits *)
ComplementSigned(word) == -1 - word

Complement(word) == WORD - 1 - word

(* The root task of libraries-2 calls its thread and is blocked until the  *)
(* reply; the thread, at priority 0, runs meanwhile.                       *)
SendCall ==
  /\ Now("send") /\ message.at = "none"
  /\ message' = [at |-> "sent", badge |-> IF args.endpoint = "ep_cap_path" THEN EP_BADGE ELSE 0,
                 length |-> 1, word |-> MSG_DATA]
  /\ UNCHANGED <<program, step, outcome, shortage, kernel>>

ThreadReceives ==
  /\ message.at = "sent" /\ Runs("tcb_object")
  /\ message' = [message EXCEPT
       !.at = IF message.badge = EP_BADGE /\ message.length = 1 THEN "received" ELSE "dropped"]
  /\ UNCHANGED <<program, step, outcome, shortage, kernel>>

(* mutant: the word is sent back as it came *)
ThreadEchoes ==
  /\ message.at = "received"
  /\ message' = [at |-> "replied", badge |-> 0, length |-> 1, word |-> message.word]
  /\ step' = step + 1
  /\ UNCHANGED <<program, outcome, shortage, kernel>>

ThreadReplies ==
  /\ message.at = "received"
  /\ message' = [at |-> "replied", badge |-> 0, length |-> 1, word |-> Complement(message.word)]
  /\ step' = step + 1
  /\ UNCHANGED <<program, outcome, shortage, kernel>>

CheckReplyCall ==
  /\ Now("checkReply")
  /\ Returns(FirstOf(<< <<message.length # 1, "LengthMismatch">>,
                        <<message.word # Complement(MSG_DATA), "ContentMismatch">> >>), kernel)

RootTask ==
  \/ BeginCall \/ AllocCall \/ ForgetCall \/ MintCall \/ DeleteCall \/ MoveCall
  \/ MapTableCall \/ MapPageCall \/ MapWithTablesCall \/ AccessCall
  \/ SetThreadCall \/ ResumeCall \/ SuspendCall
  \/ ConfigureProcessCall \/ MintIntoCall \/ SpawnCall
  \/ BindIrqCall \/ AckIrqCall \/ EnableIrqCall \/ SendCall \/ CheckReplyCall

Thread2 == ThreadReceives \/ ThreadReplies

Next == RootTask \/ Thread2

Spec == Init /\ [][Next]_vars /\ WF_vars(RootTask) /\ WF_vars(Thread2)

-----------------------------------------------------------------------------
TypeOK ==
  /\ program \in Programs /\ step \in DOMAIN Script
  /\ outcome \in {"runs", "ended", "aborted"} /\ shortage \in BOOLEAN
  /\ kernel.tables \in [Spaces -> 0 .. 3]
  /\ kernel.irq \subseteq {"bound", "acknowledged", "enabled"}
  /\ message.word \in 0 .. (WORD - 1)

(* No call of the eight programs is refused in the order they make them,   *)
(* except those whose refusal they expect: a program aborts only when      *)
(* something could not be allocated (the ZF_LOGF_IF and assert of          *)
(* libraries-1, -2, -3, -4, bak, multiserver, capabilities and mapping).   *)
(* Then it leaves no process behind that calls it, but for libraries-4,    *)
(* which spawns its client before its timer is set up (main.c:138-158).    *)
AbortsSafely ==
  outcome = "aborted" =>
    /\ shortage
    /\ program # "libraries4" =>
         \A t \in Threads \ {"compute_srv"} : "resumed" \notin kernel.facts[t]

(* A thread or process that is resumed has everything it uses, whatever    *)
(* the order of its first step and the creator's next, and the device is   *)
(* enabled when its interrupt has somewhere to go and was acknowledged     *)
(* after that was so (libraries-2/main.c:378, libraries-3/main.c:159-222,  *)
(* bak/main.c:125).                                                        *)
ReadyWhenStarted ==
  /\ \A t \in Threads : "resumed" \in kernel.facts[t] => Missing(t) = {}
  /\ "enabled" \in kernel.irq => {"bound", "acknowledged"} \subseteq kernel.irq

Calls == INSTANCE RemoteCall WITH
  Requests <- {MSG_DATA},
  IsAnswer <- LAMBDA request, answer : answer = Complement(request),
  asked <- IF message.at \in {"sent", "received"} THEN MSG_DATA ELSE None,
  heard <- IF message.at = "replied" THEN message.word ELSE None

(* libraries-2: the thread answers the call with the complement of what it *)
(* was sent (main.c:82-134 and :388-448).                                  *)
ImplementsCall == Calls!Spec

(* With enough memory every program comes to its end, libraries-2 with the *)
(* reply it expects.                                                       *)
Ends == <>(outcome = "ended" \/ shortage)

=============================================================================
