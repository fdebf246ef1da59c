----------------------------- MODULE RootScripts ----------------------------
(***************************************************************************)
(* The programs that set up threads, processes and mappings before they    *)
(* serve or call, each as the sequence of its calls.  A call names what it *)
(* uses by the variable of the source that holds it, or by the kernel's    *)
(* name for a capability of the initial thread.  A call that fails aborts  *)
(* the program (ZF_LOGF_IF, assert) unless it says otherwise: `ignored'    *)
(* goes on, `expects' is the error the program asks for, and after a       *)
(* success `skip' calls are passed over (an if on the error).              *)
(***************************************************************************)
EXTENDS Naturals, Sequences

Call(op, args) ==
  [op |-> op, args |-> args, ignored |-> FALSE, expects |-> "NoError", skip |-> 0]

Ignored(call) == [call EXCEPT !.ignored = TRUE]
Expecting(call, error) == [call EXCEPT !.expects = error]
Skipping(call, n) == [call EXCEPT !.skip = n]

(* The library parts a program begins with.                                *)
Begin(part) == Call("begin", [part |-> part])

Alloc(object) == Call("alloc", [object |-> object])
Mint(from, to, badge) == Call("mint", [from |-> from, to |-> to, badge |-> badge])
Copy(from, to) == Mint(from, to, 0)
Delete(slot) == Call("delete", [slot |-> slot])
Move(from, to) == Call("move", [from |-> from, to |-> to])

(* The paging structure of a level: 1 for the PDPT, 2 for the directory, 3 *)
(* for the table; the page itself; and the page with what it lacks.        *)
MapTable(level, table, space) ==
  Call("mapTable", [level |-> level, table |-> table, space |-> space])
MapPage(frame, space, rights) ==
  Call("mapPage", [frame |-> frame, space |-> space, rights |-> rights])
MapWithTables(frame, space) == Call("mapWithTables", [frame |-> frame, space |-> space])
Access(kind) == Call("access", [kind |-> kind])

SetThread(tcb, with) == Call("setThread", [tcb |-> tcb, with |-> with])
Resume(tcb) == Call("resume", [tcb |-> tcb])
Suspend == Call("suspend", <<>>)

ConfigureProcess(process, with) ==
  Call("configureProcess", [process |-> process, with |-> with])
MintInto(process, from, badge) ==
  Call("mintInto", [process |-> process, from |-> from, badge |-> badge])
Forget(object) == Call("forget", [object |-> object])
Spawn(process) == Call("spawn", [process |-> process])

BindIrq(handler, ntfn) == Call("bindIrq", [handler |-> handler, ntfn |-> ntfn])
AckIrq(handler) == Call("ackIrq", [handler |-> handler])
EnableIrq(port) == Call("enableIrq", [port |-> port])

Send(endpoint) == Call("send", [endpoint |-> endpoint])
CheckReply == Call("checkReply", <<>>)

-----------------------------------------------------------------------------
EP_BADGE == 97
CLIENT_BADGE_AUTH == 49153
CLIENT_BADGE_UNAUTH == 2

(* libraries-1: a thread that only yields, as its creator does.            *)
Libraries1 ==
  <<Begin("allocman"), Alloc("tcb_object"), SetThread("tcb_object", {"configured"}),
    SetThread("tcb_object", {"priority"}), SetThread("tcb_object", {"registers"}),
    Resume("tcb_object")>>

(* mutant: the page is not mapped again *)
BufferLinesOnce ==
  <<Alloc("ipc_frame_object"),
    Skipping(Ignored(MapPage("ipc_frame_object", "root", "all")), 2),
    Alloc("pt_object"), MapTable(3, "pt_object", "root")>>

(* libraries-2: the IPC buffer's page is mapped at once, or after a page   *)
(* table is.                                                               *)
BufferLines ==
  <<Alloc("ipc_frame_object"),
    Skipping(Ignored(MapPage("ipc_frame_object", "root", "all")), 3),
    Alloc("pt_object"), MapTable(3, "pt_object", "root"),
    MapPage("ipc_frame_object", "root", "all")>>

ThreadLines ==
  <<SetThread("tcb_object", {"configured", "buffer"}), SetThread("tcb_object", {"registers"}),
    SetThread("tcb_object", {"tls"}), Resume("tcb_object")>>

(* mutant: the call goes through the capability without a badge *)
CallLinesUnbadged == <<Send("ep_object"), CheckReply>>

CallLines == <<Send("ep_cap_path"), CheckReply>>

Libraries2 ==
  <<Begin("allocman"), Alloc("tcb_object")>> \o BufferLines
  \o <<Alloc("ep_object"), Mint("ep_object", "ep_cap_path", EP_BADGE)>>
  \o ThreadLines \o CallLines

(* The programs that spawn processes.                                      *)
LibraryLines == <<Begin("allocman"), Begin("vspace"), Begin("pool")>>

(* mutant: the interrupt is acknowledged before a notification is bound *)
IrqLinesAckFirst ==
  <<Alloc("irq_ntfn"), Alloc("com2_irq_path"), AckIrq("com2_irq_path"),
    BindIrq("com2_irq_path", "irq_ntfn")>>

IrqLines ==
  <<Alloc("irq_ntfn"), Alloc("com2_irq_path"), BindIrq("com2_irq_path", "irq_ntfn"),
    AckIrq("com2_irq_path")>>

(* mutant: the frame itself is mapped *)
SharedLinesUncopied ==
  <<Alloc("shared_frame_obj"), Copy("shared_frame_obj", "frame_path_root"),
    MapWithTables("shared_frame_obj", "root")>>

(* A frame capability is mapped in one place: the root task maps a copy.   *)
SharedLines ==
  <<Alloc("shared_frame_obj"), Copy("shared_frame_obj", "frame_path_root"),
    MapWithTables("frame_path_root", "root")>>

UartLines == <<Alloc("com2_ioport_path"), EnableIrq("com2_ioport_path")>>

(* mutant: the client runs before the page is there *)
ClientLinesEarly ==
  <<ConfigureProcess("client", {"priority"}), MintInto("client", "ep_object", CLIENT_BADGE_AUTH),
    MintInto("client", "ep_object", CLIENT_BADGE_UNAUTH), Spawn("client"),
    MapWithTables("shared_frame_obj", "client")>>

ClientLines ==
  <<ConfigureProcess("client", {"priority"}), MintInto("client", "ep_object", CLIENT_BADGE_AUTH),
    MintInto("client", "ep_object", CLIENT_BADGE_UNAUTH),
    MapWithTables("shared_frame_obj", "client"), Spawn("client")>>

Libraries3 ==
  LibraryLines \o <<Alloc("ep_object")>> \o IrqLines \o SharedLines \o UartLines \o ClientLines

(* The root task that calls a compute server.                              *)
ServerLines ==
  <<ConfigureProcess("compute_srv", {"fault endpoint", "priority"}),
    MintInto("compute_srv", "ep_object", 0),
    MapWithTables("shared_frame_obj", "compute_srv"), Spawn("compute_srv")>>

Bak ==
  LibraryLines \o <<Alloc("ep_object"), Copy("ep_object", "root_call_ep_path"),
                    Alloc("fault_ep_obj")>> \o SharedLines \o ServerLines

Multiserver ==
  LibraryLines \o <<Alloc("ep_object"),
    ConfigureProcess("compute_srv", {"priority"}), MintInto("compute_srv", "ep_object", 0),
    Spawn("compute_srv"),
    ConfigureProcess("client", {"priority"}), MintInto("client", "ep_object", CLIENT_BADGE_AUTH),
    Spawn("client")>>

(* The error of the vspace's bootstrap is not looked at, and the object of *)
(* the first notification is forgotten for the second.                     *)
Libraries4 ==
  <<Begin("allocman"), Ignored(Begin("vspace")), Begin("pool"),
    ConfigureProcess("client", {"priority"}), Alloc("ep_object"),
    MintInto("client", "ep_object", EP_BADGE), Spawn("client"),
    Alloc("ntfn_object"), Forget("ntfn_object"), Alloc("ntfn_object"),
    Begin("timer")>>

(* mutant: a copy is left *)
CapabilitiesOneDelete ==
  <<Copy("seL4_CapInitThreadTCB", "first_free_slot"), Copy("seL4_CapInitThreadTCB", "last_slot"),
    SetThread("last_slot", {"priority"}), Delete("first_free_slot"),
    Expecting(Move("first_free_slot", "first_free_slot"), "FailedLookup"),
    Expecting(Move("last_slot", "last_slot"), "FailedLookup"), Suspend>>

Capabilities ==
  <<Copy("seL4_CapInitThreadTCB", "first_free_slot"), Copy("seL4_CapInitThreadTCB", "last_slot"),
    SetThread("last_slot", {"priority"}), Delete("first_free_slot"), Delete("last_slot"),
    Expecting(Move("first_free_slot", "first_free_slot"), "FailedLookup"),
    Expecting(Move("last_slot", "last_slot"), "FailedLookup"), Suspend>>

(* mutant: the table before the directory *)
MappingTableFirst ==
  <<Alloc("frame"), Alloc("pdpt"), Alloc("pd"), Alloc("pt"),
    Ignored(MapTable(1, "pdpt", "root")), MapTable(3, "pt", "root"), MapTable(2, "pd", "root"),
    MapPage("frame", "root", "read"), Access("read"), MapPage("frame", "root", "all"),
    Access("all")>>

Mapping ==
  <<Alloc("frame"), Alloc("pdpt"), Alloc("pd"), Alloc("pt"),
    Ignored(MapTable(1, "pdpt", "root")), MapTable(2, "pd", "root"), MapTable(3, "pt", "root"),
    MapPage("frame", "root", "read"), Access("read"), MapPage("frame", "root", "all"),
    Access("all")>>

=============================================================================
