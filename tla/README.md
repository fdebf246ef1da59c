# TLA+ models of the Sovereign audit appliance and its seL4 workspace

The repository is a workspace of seL4 programs.  Its centre is `libraries-3`:
a root task that receives 1152-byte audit frames on a serial line, checks each
against a committee of signers and a sequence number, evaluates it in a page it
shares with a client process, and writes a 40-byte certificate or rejection
back.  Around it are the smaller programs the workspace grew from (servers and
clients over an endpoint, a timer server, thread boot, untyped memory,
capabilities, paging), and a verification harness.

These modules state what the programs promise, check it with TLC on small
instances and, but for liveness, prove it with TLAPS for every instance.

## 1. The system

| Component | State it keeps | Operations | What makes it correct | Module |
|---|---|---|---|---|
| `verify_quorum_committee` (`libraries-3/main.c:82-113`) | loop counter, witness index | one call per frame | accepts exactly the frames in which each claimed member has a verifying witness in its slot | `QuorumCheck` |
| frame evaluator (`main.c:46-76`) | the shared page | digest, verdict | the hash and the verdict are those of the frame being answered | `SovereignContract`, `AuditMonitor` |
| root task event loop (`main.c:227-353`) | receive buffer, last sequence number, response | receive, test, evaluate, sweep, answer; one client message | responses depend on the frame and the earlier certificates alone; everyone is answered | `AuditMonitor`, `AuditLedger` |
| client (`libraries-3/app.c`) | its place in the script | three calls, two page writes, assertions | it ends; what it compares is its own frame's hash or that of a whole certified frame | `SovereignApp` |
| COM2 UART driver (`uart_com2.h`, `main.c:230-302`) | FIFO, transmitter, interrupt, `rx_index` | has data, read, busy-wait write, acknowledge | no byte lost, frames stay aligned, each answered | `UartCom2`, `FrameStream` |
| appliance set-up (`main.c:115-223`) | endpoint, notification, interrupt, page, port, client | some forty calls on the kernel and its libraries | no call is refused; nothing runs or interrupts before what it uses is there | `RootScripts`, `RootPrograms` |
| SHA-256, SHA-512 (`sha256.h`, `sovereign_crypto.c:90-158`) | block buffer, byte count | init, update, final | any cut of the message gives the blocks of the padded message | `HashStream`, `BlockStream`, `HashSizes` |
| field arithmetic, point decompression (`sovereign_crypto.c:187-329`) | field elements of 16 limbs | add, multiply, carry, pack, square root | what it accepts solves the curve's equation with the sign asked for; what it rejects has no solution | `PointDecompression` |
| TinyML runtime (`tinyml_runtime.c`, three copies) | an accumulator, two layers | infer | no sum overflows; the class is a threshold on the features | `TinyMl`, `TinyBuilt` |
| compute servers (`libraries-3/srv.c`, `client.c`, `bak/`, `apps/multiserver`) | shared page, message registers | add, not, reverse | a reply is the result of its request; the callers' checks pass | `ComputeServer`, `RemoteCall` |
| timer server (`libraries-4`) | tick count, notification, interrupt mask | sleep request, tick, reply | the sleeper is woken, not early | `TimerServer` |
| thread and process boot (`libraries-1`, `libraries-2`) | TCB, registers, IPC buffer, TLS | configure, write, resume, one call | nothing runs half-configured | `RootScripts`, `RootPrograms`, `RemoteCall` |
| slots (`capabilities`), paging (`mapping`) | CNode, page tables | copy, delete, move; map, remap | each call meets the state it needs | `RootScripts`, `RootPrograms` |
| untyped (`untyped`) | watermark, slots | retype, revoke, fill | the child is as large as needed and filled to the last byte | `UntypedRetype` |
| verification harness (`apps/rootserver/verify`) | the frame it tries | Q16.16 add and multiply, evaluation of a frame | saturation is monotone; its assertions hold | `VerifyHarness` |

`PROJECT.json` lists the two components left out (hello world; build files and
patch scripts) with the reason.

**Interactions.**  The serial line and the root task exchange frames and
responses.  The client reaches the root task with `seL4_Call` on a badged
endpoint; the root task polls that endpoint (`seL4_NBRecv`) when the line is
quiet, and replies.  Before that `main` builds the objects both use.  Both have one physical page mapped writable
(`main.c:184`, `:215`), in which frames from the line *and* frames of the
client are evaluated.  No lock guards it.  The kernel's scheduler decides who
runs.  The compute servers share a page with their caller in the same way, but
block in `seL4_Recv`, so that the caller's call is what keeps the two apart.  The
timer server's interrupt reaches it through a notification that merges signals.

**Behaviours that are hard to test.**  The client writing the page while a
frame is evaluated in it; the committee loop's two indices; which rejection may
change which state; the draining of the line in front of the endpoint; a
root task that never blocks above a client; two operation codes with one
value; at byte level, a writer that waits while the receive FIFO fills; ticks
that merge behind a masked interrupt; a thread that is resumed one call too
early, or a call refused because of one made long before; messages cut at
block boundaries; and carries that matter for one input in millions.
`PROJECT.json` lists each at its line under "hazards".

## 2. Modules

`SovereignContract` - the frame, response and status codes
(`sovereign_contract.h`) and the pure part of the code: the digest, the
verdict, the flags, what one witness has to satisfy, and the condition
`QuorumAccepts` under which the committee check returns 0.  It holds no state.

`QuorumCheck` - `verify_quorum_committee` step by step.

| Action | Code |
|---|---|
| `RejectCounts`, `EnterLoop` | `main.c:84-90`, the tests of `quorum_count` and of the bit count |
| `SkipBit` | a bit that is not set, `:93-94` |
| `RejectWitness`, `AcceptWitness` | the body of the `if`, `:95-109`; `BodyCheck` is its return value |
| `AcceptFrame` | `:112` |

`AuditLedger` - the abstract specification: a sequence of frames, each with a
response that is a function of the frame and of the certificates before it.
It knows no page, no client and no intermediate state.

`AuditMonitor` - the event loop and a client that writes the page, calls with
any operation and either badge, and exits, whenever the scheduler lets it.

| Variable | Code |
|---|---|
| `pc` | position in `main`'s loop |
| `rx`, `last`, `page`, `n`, `resp` | `rx_buffer`, `g_last_sequence_id`, `*audit_frame`, the sweep's `n`, `resp` |
| `client`, `msg`, `reply` | whether the client is blocked in `seL4_Call`, its message, its MR0 after the reply |
| `log` | history: each frame with the response written for it |

| Action | Code |
|---|---|
| `ReceiveFrame` | the byte that completes a frame, `main.c:242-250` |
| `RejectMagic`, `RejectReplay`, `RejectBounds`, `RejectQuorum` | `:252-269` |
| `Accept`, `HashFrame`, `DecideVerdict` | `:271-272`, `:46-56`, `:58-75` |
| `SweepNode`, `BuildCertificate`, `WriteResponse` | `:276-286`, `:288-293`, `:298` |
| `LineEmpty`, `NoMessage` | `:242` false; `:308` false and the yield |
| `ServeAdd` ... `ServeUnknown`, `EvaluatePage` ... | the dispatch and the reply, `:310-347` |
| `ClientStore`, `ClientCall`, `ClientExit` | what a process with these capabilities can do |

The steps of one frame are separate actions exactly where another thread could
come between two accesses to the shared page; what touches only the root task's
own memory is joined to its neighbour.  `CanRun` is the kernel's scheduler: a
thread runs only if no runnable thread has a higher priority.

`SovereignApp` - extends `AuditMonitor` with a program as the client: the script
of `app.c`, compiled with its assertions or without them, or any other program,
since `main.c:201-205` loads whatever stands under the name.  `step` is the
place in the script.  Each step of the program is written as one of the steps
`AuditMonitor` allows its client, so that what is proved there holds here.

`FrameStream` - the abstract specification of the serial line: frame after
frame, whole, in order, each once.  This is what `ReceiveFrame` of `AuditMonitor`
takes for granted.

`UartCom2` - the line byte by byte, with the 16550A below the driver and the
sender at the other end.

| Variable | Code |
|---|---|
| `pc`, `rx_buffer`, `rx_index` | position in the loop; the variables of `main.c:230-231` |
| `tx_left` | what `uart_com2_write_exact` still has to write |
| `delivered` | history: the buffers found complete at `:246` |
| `fifo`, `lost`, `sending` | the device's receive FIFO, the bytes it dropped, its holding and shift register |
| `ntfn`, `masked` | the notification of IRQ 3; whether the kernel keeps the IRQ masked until it is acknowledged |
| `host`, `answered`, `part` | the sender's next byte; the responses it has heard, whole and in part |

| Action | Code |
|---|---|
| `Poll`, `Look` | `main.c:238`, `:240` |
| `ReadByte` | one turn of the drain loop, `:242-250`; with the last byte of a frame the response exists, `AuditMonitor` says which |
| `WriteByte`, `Written` | `uart_com2.h:78-89`; the return to the drain loop |
| `Drained`, `Ack`, `ServeClient` | `:242` false; `:301`; the rest of the round |
| `ByteArrives`, `HostHears` | external: the device takes a byte off the line, or puts one on it |

`RemoteCall` - the abstract specification of a call over an endpoint: to each
request one reply before the next request, and it answers that request.

`ComputeServer` - the three servers and the four scripts that call them.

| Variable | Code |
|---|---|
| `dep`, `prio` | which server, which script, in which order of priorities (history); the caller's priority, which `bak/main.c:131` lowers |
| `cpc`, `step`, `passed` | the caller's place, its call, whether its checks held |
| `spc`, `i`, `resp` | the server's place, its loop counter, the message registers it fills |
| `buf` | the page both have mapped |
| `asked`, `heard` | history: the open request, the reply |

A turn of the reversing loop (`Swap`) is an action of its own: it is where
another thread could read the page.  `Fault` is an access behind the page, which
kills the server.  `ReplyRecv` lets the caller go on and the server wait in one
step, as the system call does.

`TimerServer` - `libraries-4`: the client's request, the timer and its interrupt
(`Tick`), the notification, `Wait` and `HandleIrq` as the loop of `main.c:209-219`,
then the timer's end and the reply.  `AssertFails` is any of the aborting calls
between the spawn of the client and the loop.  `count` is the code's, `slept` is
history: the ticks since the timer was set.

`BlockStream` - the abstract specification of a hash function's front end: the
blocks of the padded message of FIPS 180-4, in order, each once.
`HashSizes` - what both share: the sizes of a word and of a block, and the bytes
of a number.
`HashStream` - the buffers and counters of the code; a transform is the block it
is given, so the compression functions and their constants are not modelled.
One update is one action, split into the two paths it can take (`UpdatePartial`,
`UpdateWhole`).  A byte of the message is known by its place.

`PointDecompression` - `unpackneg` statement by statement, on field elements kept
as the code keeps them: limbs that may be negative or too large until a carry.
The field elements are in `reg`, by their names; `Lines` lists the products that
follow one another, of which `Multiply` takes one a step (`line`), and a turn
of the loop of `pow2523` is `PowerSquare` with or without `PowerTimes` (`turn`).
`input` is the encoding, the sign in its top bit.  Number and size of the limbs,
the prime and the two tables are parameters; 19, 38 and the shape of the exponent
are the code's.

`RootScripts` - the programs that set up threads, processes and mappings, each
as the sequence of its calls.  A call names the variables of the source it uses.
`RootPrograms` - runs a script on the objects of the kernel.

| Variable | Code |
|---|---|
| `program`, `step`, `outcome` | the program, its next call, whether it runs, has ended or has aborted (`ZF_LOGF_IF`, `assert`) |
| `shortage` | history: an allocation has failed |
| `kernel` | the capability in each slot and where it is mapped (`caps`), the paging structures and the page of each address space (`tables`, `pages`), what was set in each thread and given to each process (`facts`, `held`), the interrupt (`irq`) |
| `message` | the call between the two threads of `libraries-2` |

Each kind of call is an action (`AllocCall`, `MintCall`, `MapPageCall`, ...)
whose result is the error the kernel or the library gives: a slot is empty or
taken, a level of the paging structures is missing or there, a frame capability
is mapped elsewhere.  Allocations may fail at any time.

`UntypedRetype` - `untyped/src/main.c` with the kernel's rule for untyped memory:
objects are aligned to their size at a watermark, which goes back to zero when
the last child is gone.

`TinyMl` - `tinyml_infer` one product at a time, for any dimensions and weights.
`TinyBuilt` - the weights of the `.inc` files, and what the network is with them.

`VerifyHarness` - the fixed-point operators and the two programs of the harness,
the one for CBMC, which takes every value, and the native one, which takes
corners, counts and random frames.  An assertion that fails is recorded.

`QuorumCheckProofs`, `SovereignAppProofs` (event loop and client),
`UartCom2Proofs`, `ComputeServerProofs`, `TimerServerProofs`, `CryptoProofs`
(hash streams and field arithmetic), `TinyMlProofs`, `RootTaskProofs` (harness,
untyped program and scripts) - the theorems.
`MCQuorumCheck`, `MCSovereignApp`, `MCComputeServer`, `MCCrypto`, `MCRootPrograms`,
`MCFixedPoint`, `MCCommitteeKeys` - the instances for TLC; the last one has the
real prime, the two tables of the source and the keys of the committee.  `MCCrypto`,
`MCRootPrograms` and `MCFixedPoint` hold two machines each that have nothing to do
with each other, hashing and decompression, the scripts and the untyped program,
the network and the harness: a behaviour starts one of them and leaves the other
alone.

**Which module uses which.**  `SovereignContract` is extended by `QuorumCheck` and
`AuditMonitor`; `AuditMonitor` uses `QuorumAccepts` for the call that `QuorumCheck`
goes through step by step, and `VerdictCorrect` says the two are the same.
`AuditLedger` is what `AuditMonitor` implements, `FrameStream` what `UartCom2`
implements and `AuditMonitor` starts from, `BlockStream` what `HashStream`
implements, `RemoteCall` what `ComputeServer` and `libraries-2` in `RootPrograms`
implement.  `RootPrograms` says that the state in which the loops of the other
modules begin is reached.

**The device and the sender are external.**  A byte that finds the 16550A's FIFO
full is dropped, whatever is in the FIFO staying.  The interrupt is raised when
the first byte enters an empty FIFO (the trigger level the driver sets is one
byte) and the kernel masks it until `seL4_IRQHandler_Ack`; a byte that entered
meanwhile may or may not raise it again, depending on how the interrupt
controller keeps an edge, and `Ack` allows both.  `KeepsUp` is the one assumption
about speed: between two reads of a drain less than a FIFO of bytes comes in (a
byte takes 87 microseconds at 115200 baud), so a drop needs the root task to
be busy with a complete frame.  The sender may be up to `ahead` bytes into a
frame before it has heard the response to the one before.

**Abstraction of data.**  A byte string is a member of a small set.  A digest
is the record of what was hashed, so that two digests are equal exactly when
their inputs are (SHA-256 as an injection).  When `node_count` exceeds the array,
the digest is any digest (`DigestOutcomes`): the code would read past the
array.  A witness has a key and two bits: whether the top three bits of the
signature are clear, which is what the code looks at, and whether the signature
was made by that key, which it does not.  A node has a title and the class
`tinyml_infer` gives it.  Message registers a message does not fill hold any
word of `StaleWords`.

**Named definitions marked "mutant".**  Beside some definitions stands a second
one with a slip a programmer could make: a test left out, an increment
forgotten, a field read from the wrong buffer.  They are not part of the
specification.  Putting one in the place of the definition beside it must make
TLC report the property `PROJECT.json` pairs it with; this is how each property
is known to say something about the code.

## 3. Runs

| Run | Instance | Shows |
|---|---|---|
| `quorum` (`MCQuorumCheck.cfg`) | the code's committee of 4 and threshold of 3; bitmaps with bits inside and outside the committee; counts 2 to 5; in each slot a witness of any member, of a stranger, or with a non-canonical signature | `VerdictCorrect`: the loop returns 0 iff `QuorumAccepts` and -1 iff the counts are at fault, so the index test in the loop never fails; `CommitteeQuorum`: acceptance means a passing witness of its own for each member claimed, and with a bitmap of members a quorum of them; `Returns` |
| `appliance` (`Appliance.cfg`) | the event loop below its client, all operation codes distinct; the client is `app.c` with or without assertions, or any program; up to 2 frames | `ImplementsLedger`, with its consequences `CertificateAttests` and `CertifiedInOrder`; `PageUndisturbed`, `SerialHashInBounds`; everyone is answered: `FrameAnswered`, `CallAnswered`; of the client `OvertakenByLineOnly`: it compares its own frame's hash, or meets a frame certified in between, whole; `AppTerminates` |
| `uart_line` (`UartLine.cfg`) | frames of 5 bytes, responses of 6, a FIFO of 3; a sender 3 bytes ahead and one 4 bytes ahead; 4 frames | `NoOverrun`, `ImplementsStream` for the first sender; for the second `ShiftedByLoss`: a byte stands as many places too early as bytes were dropped before it, for good; `InterruptRearmed`; `FramesAnswered` |
| `servers_scripted` (`ServersScripted.cfg`) | each script with its servers, the server above, beside or below its caller; further calls with any code and with lengths around 0, the page and the word | `ImplementsCall`: replies are right although page and registers are shared; `ScriptsPass`; `Completes` |
| `timer_sleep` (`TimerSleep.cfg`) | requests for 0, 1 and 2 seconds of 3 ticks, merged ticks, a set-up that may fail | `NotEarly`, `CountedOnce`, `MaskedIsOwed`, `Woken` |
| `crypto` (`Crypto.cfg`) | messages of up to 1060 bytes in pieces of 0, 1, 15, 33 and 100, blocks of 16 and 32; decompression of 974 ordinates with both signs in a field of 524269 | `ImplementsStream`; `AcceptsPoints`: an accepted x has the sign asked for and solves the equation of the curve, with the factor -`I`^2 on one side where the candidate was turned; `RejectsNonSquares`: what is rejected has no x; `PackCanonical`: packed bytes are those of the residue, whatever the limbs hold |
| `root_programs` (`RootPrograms.cfg`) | eight scripts, each allocation may fail; three kernels' object sizes, up to 3 untypeds | `AbortsSafely`: a program aborts only when an allocation has failed, and then nothing it set up half is running; `ReadyWhenStarted`, `ImplementsCall`, `Ends`; `FilledWhole`: the untyped program's retypes and the calls on what they made are not refused, and no byte is left |
| `fixed_point` (`FixedPoint.cfg`) | the network with the weights of the `.inc` files, on vectors on both sides of the change of class and the extremes; the harness with integers of 6 bits, 3 of them behind the point, 5 nodes, counts to 7 (any byte is 0 to 9), node and buffer of the code's 68 and 128 bytes | `IsThreshold`: what is computed is a threshold on the sum of the features; `NoOverflow` in an integer only just wide enough; `Ordered`: both saturating operators are monotone; `Passes`: both programs end with every assertion passed, on results, index, copy, iterations, flags and status |

Four more runs find a statement of the repository violated:

| Run | Statement | What the code does |
|---|---|---|
| `quorum_threshold` | "Insufficient quorum committee" is what the check rejects (`main.c:265`) | `main.c:87` counts all eight bits of the bitmap, `:93` checks four: bits outside the committee count towards the threshold with no witness |
| `app_assertions` | the assertions of `app.c` | `OP_ADD` and `OP_SOVR_EVALUATE` are both 1: the call is answered with a sum; and the statuses asserted differ from those of the contract |
| `app_starved` | the client runs and its tests pass (`app.c:110`) | under the built priorities the root task polls forever above it |
| `committee_keys` (`CommitteeKeys.cfg`) | "Verified RFC 8032 Point Decompression" (`sovereign_crypto.c:183`), as `OnCurve`: an accepted x is on the curve | the table `I` (`:194-197`) is no root of -1, its words 4 to 15 are not those of the root; where the candidate has to be turned, as for the second of the committee's four keys, it is accepted with an x off the curve.  The table `D` (`:189-192`) is not the curve's -121665/121666 either, so the four keys are judged by another curve; all four are accepted |

Four configurations are kept that state something else the code does not do; TLC
finds each violated.  They are not among the runs:

| Configuration | Statement | What the code does |
|---|---|---|
| `QuorumSignatures.cfg` (`MCQuorumCheck`) | "detached signature verification over bytes 0..319" (`main.c:104`) | `sovereign_ed25519_verify` returns 0 without using the hash it computed (`sovereign_crypto.c:344-353`) |
| `MonitorBounds.cfg` (`MCSovereignApp`) | node_count > 8 implies status 0xE003 (`Whitepaper_Invariant_Report.md:16`) | the magic and sequence tests come first and report another status |
| `MonitorChained.cfg` (`MCSovereignApp`) | H_n = SHA-256(H_(n-1), Frame_n, Seq_n) (`Whitepaper_Invariant_Report.md:18-19`) | the hash covers claimant, dockets and nodes only |
| `ServersStarved.cfg` (`MCComputeServer`) | the client's script ends | in `apps/multiserver` the root task yields for ever at 255, above its server and client |

One more departure shows in `PointDecompression` and has no configuration: an
ordinate of the prime or above is reduced and accepted, as is the zero abscissa
with either sign, where RFC 8032 (section 5.1.3) rejects both.

**Bounds and why they suffice.**  `MAX_NODES = 2` is enough for a title inside
and one beyond `node_count`, for an anomalous and a plain node, and for a
`node_count` of `MAX_NODES + 1`.  In `appliance` a committee of two with a bitmap
of three bits lets the check accept and reject; the full committee is the
subject of `quorum`.  Sequence numbers 0 to 2 with 2 as the largest give
never-fresh, repeated and last numbers.  `MCFrames` has a frame that fails each
test, one that fails two, and certifiable ones that differ in digest, verdict and
class.  `MaxFrames` bounds the frames of a behaviour: the response to a frame
depends on earlier ones through `last` alone, so two frames in every order
exercise it.  The priorities are those `bak/main.c:131` would give, with
operation codes that differ, because only then the client runs and every branch
of the dispatch is taken; under the priorities as built a client takes no step
while the root task polls, so the behaviours are those of a client that exited
before the first frame, and the theorems of section 4 hold for both.
`WORD_SPAN = 2^16` stands for 2^64: sums wrap in the same way.

On the serial line the relations of the sizes count, not the sizes: a frame is
longer than the FIFO (1152 and 16; 5 and 3), a response longer than FIFO and
transmitter take together (40; 6), so a sender can fill the FIFO while one is
written.  Four frames give a first, a middle and a last one, drops in one
response and a frame put together from two.

In `servers_scripted` the page has 16 elements; the lengths tried are 0, 1, 2, an
odd one, the page, one more, and the largest word.  `TimerSleep` has ticks left
over after the longest request.  In `Crypto.cfg` a word of the length has two
digits of base 32 where the code has eight bytes of 256: a block is eight times
the length as in the code, every offset in a block is reached, the padding takes
one block and two, and the count carries into its second word (at 1024 bytes).
The untyped program has sizes of up to 2^16 bytes (`WORD_BITS`), the size of the
child for the largest TCB being 2^12.
The field has the code's form, a prime 2^n - 19 in limbs that hold n + 1 bits,
a `D` that is no square, and an `I` that is no root of -1, as the code's is none; of
the ordinates some are kept, some turned and some rejected.  Limbs need 8 bits to leave the carries
room, and no field of three or more such limbs has a prime of this form whose
numbers stay within TLC's integers; for those there is the theorem.  The ordinates
are taken from both ends and at regular distances, the non-canonical ones
included, each with both signs.  `MCCommitteeKeys` takes the real prime and tables
and the four keys; its limbs have 8 bits where the code's have 16, and 32 of them
make the same numbers.  `TinyBuilt` has the code's dimensions and
weights; its `INT_MAX` is the least that `WidthAssumption` admits for weights of
their size.  `VerifyHarness` takes every pair of 6-bit integers; five nodes and
seven counts give counts below, at and above the array.  A byte, which CBMC's
program takes for its count, goes to 9 (`BYTE_MAX`): every count above the array
takes one branch.

The pages a client may write in `Appliance.cfg` have counts within the array.  An
evaluation a client asks for on a count beyond it, whose digest is then any,
is left to the theorems, whose `Pages` are any.

**Fairness.**  The only assumption about threads is that the kernel runs a thread
that can run.  In `SovereignApp`: weak fairness of the root task's step and of
the client's.  The root task never blocks, so its step is always possible; the
client's is possible only when its priority allows, so under the built priorities
fairness gives it nothing, which is what `app_starved` shows.  Nothing is assumed
of the line: frames may come or not.  `CallAnswered` and `AppTerminates` are
therefore stated under the condition that the root task reaches the endpoint
again and again (`[]<>(pc = "ipc")`), as it does whenever the line falls quiet;
the code gives no more, since it drains the line before it looks at the endpoint.
`FrameAnswered` needs no condition.  In `UartCom2` the root task is scheduled and
the device transmits what it holds (`RootStep`, `HostHears`); the sender may stop
at any byte.  In `ComputeServer` and `RootPrograms` each thread is scheduled when
its priority and state let it run.  In `TimerServer` the two threads, which have
one priority, are scheduled, and a timer that is on keeps ticking.
`VerifyHarness` is one sequential program.  `QuorumCheck` is a function that is run to its
end.  Deadlock is checked in `appliance` and `uart_line`; the other
programs end, or wait for a message that nobody sends any more.

## 4. Proofs

**Assumptions**, each about the constants and evaluated by TLC on the runs:

| Assumption | Says | Why the code has it |
|---|---|---|
| `SizesAssumption`, `KeysAssumption` (`SovereignContract`) | the threshold fits the committee and the committee the bitmap; its keys are keys | 3, 4, 8; the table of `sovereign_identities.h` |
| `FramesAssumption`, `PagesAssumption`, `WordsAssumption` | frames, pages and words are that | the types |
| `PriorityAssumption` | **the two threads have different priorities** | 255 and 200 (`main.c:203`) |
| `AppAssumption` | the client's badges, pages and operation are among those of the system; its page is cleared before it is filled, has a legal count, and evaluation and bulk reversal have two codes | `app.c:59-89`, the codes 1 and 3 |
| `SizesAssumption` (`UartCom2`) | the FIFO is shorter than a frame | 16 and 1152 |
| `SpansAssumption`, `DeploymentsAssumption`, `NoneAssumption` | a page has elements, the word holds the operation codes; a deployment is a server, a script and priorities; no reply is the mark for none | the types |
| `ScriptsAssumption` | a script expects of each line what the operation is | the assertions of the four clients, read against the three servers; a script that expects something else must fail |
| `SleepsAssumption` | ticks are counted to the end of the longest request | bound of the model |
| `HashSizesAssumption` | a word counts whole blocks, and no piece is so long that its bit length leaves a word | 2^64; a piece below 2^61 bytes |
| `FieldAssumption` (`PointDecompression`) | at least two limbs of an even radix of 256 or more, which hold one bit more than the prime, of six bits or more; `D`, `I` and the encodings are digits | 16 limbs of 16 bits, 2^255 - 19; the two tables; 32 bytes |
| `RoomAssumption` (`PointDecompression`) | what the largest product carries out of the top comes back, times 38, as a number whose own carry a limb has room for | 38 * 2^27.3 against 1724 * 2^256 |
| `PrimeAssumption` (`PointDecompression`) | P is a prime; used by `RejectedHaveNoRoot` alone | 2^255 - 19 is one |
| `CurveAssumption` (`PointDecompression`) | d y^2 + 1 is zero for no y; used by `RejectedHaveNoRoot` alone | the table `D` (`sovereign_crypto.c:189-192`), wrong as it is for the curve, is a non-residue of 2^255 - 19, and -1 is a square |
| `DimsAssumption`, `WeightsAssumption`, `WidthAssumption` | weights and features have their widths, a row with its bias fits the integers | see *Network* |
| `HarnessAssumption` | the integers are at least two bits wider than the fraction, so that the corners (2 and -2) are numbers; the array has room for the four nodes of the native program | 32 and 16; 8 |
| `ProgramsAssumption`, `MessageAssumption` (`RootPrograms`) | the programs are among the eight; what is sent fits a message register | the set-up programs; `MSG_DATA` |
| `ObjectsAssumption` | a TCB is no smaller than an endpoint, a size fits a word, slots and fan-out limit suffice for the endpoints that fill the child | the object sizes of every seL4 platform; 256; the boot information |

`PriorityAssumption` carries the interference result: with
equal priorities the kernel may preempt the root task between two accesses to
the page, and `PageUndisturbed` fails (put `CanRunAnyTime` for `CanRun` and TLC
shows how).

**Induction over data.**  The library's induction theorems take an operator as a
parameter, which the provers cannot instantiate.  `Induction` (`SetInduction`)
states it of a set instead: one that holds 0 and every successor of its members
holds all naturals; it follows from the well-foundedness of `<` (`WFMin`).  A
recursive function is reached through it in two steps, that a function with these
values exists and that the definition therefore has them (`SumsExist` and
`SumsDefined`, `WeightsExist` and `Weights`, `PowersExist` and `PowersDefined`);
for those over the limbs of a field element the first is one lemma, `RecursionExists`.
Powers are such functions too, since the provers know nothing of `^`.

*Committee check* (`QuorumCheckProofs`).  The inductive invariant is `TypeOK`,
`Progress` - `witness_idx` is the number of claimed committee bits behind the
counter, and each of those has its witness in its slot - and `Place`, what is
known before, in and after the loop.  `VerdictCorrect` alone is not inductive:
it says nothing until the function returns.  The lemma that carries the loop is
`WitnessLeft`: a claimed bit the loop comes to is not among the bits behind it,
so these are fewer than the bits of the bitmap, whose number the counts test
equates with `quorum_count`; there is always a witness left.  For
`CommitteeQuorum` the slots of two members differ (`SlotsDiffer`: fewer bits are
claimed below the smaller).  From the invariant follow `TypeOK`, `Progress`, `MinusOneMeansCounts`, `VerdictCorrect` and
`CommitteeQuorum`.

*Event loop* (`SovereignAppProofs`). The inductive invariant has three parts
beside the properties. `ClientHeld`: outside `com2` the client is not running,
or it is below the root task - for if it is above, the root task began its
round only because the client was blocked or gone, and nothing unblocks it
before the reply. `Stage`: place by place, how much of the answer to `rx` is in
the page and in the response. `LastIsLatest`: `last` is the number of the
latest certificate, given or in the making. The refinement needs all three:
`WriteResponse` appends what the ledger's `AnswerTo` gives, because `Stage`
says so of `resp` and `LastIsLatest` makes the code's comparison with one
number the ledger's test of all certificates; every other step leaves the
ledger as it is.

*Client* (`SovereignAppProofs`).  Every step of the appliance with its client is a
step of `AuditMonitor` or leaves its variables alone, by the way it is written
(the lemma `RunsAsClient`), so every theorem above holds of the two together
(`ApplianceSafe`).  `OvertakenByLineOnly` is about the two at once and needs what `app.c` has done so far as part of the
invariant (`AppInv`): which call is open at which step (`ProgramOrder`,
`ThirdCall`) and what the page is from the client's last store to its comparison
(`ThirdPage`): its third page, without its digest until the call is served and
with it from then on (`OwnPage`), or, since the root task takes the frames of the
line before it looks at the open call, one of these: the one under evaluation, of
which `Stage` speaks, the one whose certificate is being written
(`CertificateReady`) or the last one certified (`LineFrame`).  A frame that is
rejected leaves the page alone (`PageStays`), and one that is accepted is copied as
a whole, which is why the two are never mixed; the call may be served on a frame
of the line, whose digest it computes once more (`EvaluateThird`).  The client
compares only when the root task is at a place where no frame is half-way.

*Serial line* (`UartCom2Proofs`).  The bytes under way are one run: `rx_buffer` up
to `rx_index`, the FIFO, the sender's next byte.  `InOrder` says that this run
is a piece of the stream that starts with the frame under assembly; `Owed` that at
most one response is owed, its bytes heard, in the transmitter or unwritten;
`HostHeld` where the sender may be.  With `TypeOK` and `lost = {}` they are
inductive if `ahead <= RX_FIFO` (`Windowed`); since a sender stays the same,
`Windowed => IInv` (`WindowedInv`) is an invariant of all senders together, from
which `NoOverrun` and the refinement follow.  `NoOverrun` alone is not: that a byte fits the FIFO needs to know
that the run begins, while a response is written, with the frame after the one
owed (`RoomForByte`), and that a second frame cannot be complete before the
first response is heard (in `ReadKeeps`).  `TypeOK` and `InterruptRearmed` hold
for every sender, with or without the window.  `ShiftedByLoss` is for those
without: the invariant (`Shifted`) numbers the bytes by their place on the line,
and says of each cell of `rx_buffer`, of the FIFO and of the frames delivered that
its byte stands as many places too early as bytes before it were dropped.

*Compute servers* (`ComputeServerProofs`).  The invariant says whose turn it is
(`CallOpen`: a request is open exactly while its caller waits, and the server has
it), what the server has made of it so far (`Worked`: after `i` turns the first and
the last `i` elements are exchanged and the rest are the request's,
`PartReversed`), and what the caller heard (`Heard`).  `AllTurns` and `NoTurn` say
that half as many turns as elements reverse the page, and `TotalSwapped` that an
exchange keeps its sum, which the caller compares.  `LineMatches` says that
a reply with the request's result is what the script tests for.  From
it follow `TypeOK`, `ScriptsPass`, and that every step is one of
`RemoteCall` or leaves its variables alone.

*Hash buffers* (`CryptoProofs`).  `Counted` says that the one or two words hold
the number of bytes taken modulo their span, `Held` that the buffer holds the
bytes of the block begun up to the index; behind it stands what earlier
pieces left, of which nothing is said.  The lemmas on division (`Division` to
`DigitKept`) turn these into places of the message: a word counts whole blocks, so
the wrapped count gives the same index (`BlockSize`), the carry is that of
the wrapped sum (`WrappedSum`, `TakeCounts`), and the bytes of the two words are
those of eight times the length (`LengthBytes`).  `PartialFeeds`, `WholeFeeds`
and `FinalCloses` say that each operation gives the transform the blocks that
`BlockStream` names.

*Field arithmetic* (`CryptoProofs`).  `Value` is the number that limbs stand for.
One limb's carry leaves it as it is, the last one's takes twice the prime from it
as often as it carries (`LimbCarried`, `ValueChanged`), so a whole carry takes
what does not fit the limbs and puts 38 of each back (`Carried`).  From this alone
follow both halves.  `TimesSize`: the sums of a product of limbs of at most
`LIMB_MAX` are bounded, the first carry leaves a number that exceeds the limbs by
what `RoomAssumption` allows, the second leaves digits but for limb 0, which is at
most twice too large.  So `LimbsSized`, the bound of all nine registers, is
inductive with the places of `line` and `pc` (`FieldInv`, `LimbsStaySized`): no sum of a product is beyond
39 * 16 * 2^34, far below 2^63.  `Packed`: limbs of up to twice that bound stand for
less than five times what the limbs hold, one carry leaves less than 190 too much or
too little, the second brings the number into range, the third leaves digits
(`ThreeCarries`); the borrows of the subtraction are those of the difference with
the prime (`ReducedValue`), and a number below 2p + 38 is below p after two of them.
`PackCanonical` names all that `unpackneg` packs and a few sums more.

*Point decompression* (`CryptoProofs`).  `AcceptsPoints` says of residues what the
code does with limbs.  Limbs moved up by one place, the top one coming back times
38, stand for RADIX times the number (`ValueMoved`), and `Value` is linear, so the
rows of a product add up to the product of the numbers (`RowsValue`) and `Times`
multiplies residues, for every number of limbs (`TimesValue`); `TimesModSame` says
the same of the product in two parts that TLC can evaluate.  Packed limbs are
the residue's (`PackCanonical`), so that a test for zero is one for the residue
(`PackedAre`) and the parity tested is the residue's (`ParityOfNumber`); the prime
is odd (`PrimeOdd`), hence the negative of a residue that is not zero has the other
parity.  `CurveInv` keeps from place to place what the registers have in common:
`Sides`, the two sides of the equation in `num` and `den`; `Squared`, that `chk` is
the square of `rx`; `Checked`, that it is then times `den`; `Solved` what the
test that accepts has shown; `Signed` the parity.  Nothing is used of how the
candidate was found, so the proof holds whatever the loop of `pow2523` computes, and
for any `D` and `I`: that a turned candidate is off by -`I`^2 is in the statement.

`RejectsNonSquares` is about what the proof above leaves open, how the candidate
was found. `Prod` is a product over 1..n (a `CHOOSE` of the sequence of its
partial products), `Power` one of equal factors. The proof has four parts.  (1)
`Fermat`: multiplication by x permutes the residues 1..P-1, since what two of
them have in common could be cancelled (`ZeroTimes`: the least number that P
divides the multiple of divides P, and `PrimeAssumption` leaves 1), a
permutation keeps the product (`Permuted`, by taking the place of the largest
out), and the product of 1..P-1 is no multiple of P (`FactorialNonzero`). (2)
`PowerModIs`: the halving of the exponent in `PowerMod`, with which the property
is stated so that TLC can evaluate it, computes `Power`. (3) P = 8e + 5 with the
e that the loop of `pow2523` raises to (`PrimeIs`). Of the two sides u and v it
is given w = u v^7, which is uv times the square of v^3 (`RadicandIs`). With z =
w^(2e+1) the candidate x has x^2 v = z u (`CandidateSquared`), so the two failed
comparisons say that z is neither 1 nor -1 and that u is not zero; z^4 = w^(P-1)
is 1, hence z^2 is -1 (`FourthRoot`); and z^2 is (uv)^((P-1)/2) times a power of
v that is 1, which is Euler's criterion for uv (`NoRoot`). (4) The invariant
`RootInv`: the products before the loop make u v^7 (`LineInv`, `LineStep`), c is
t to the power `Exponent` at each place of the loop, a power of two less one
that is doubled, and made odd but at turn 1 (`Exponents`, `LoopSquared`,
`LoopMultiplied`), and the products behind it make the candidate. That v is not
zero is `CurveAssumption`: with v = 0 the criterion would say 0 where the
property says P - 1. `RootInv` is not inductive by itself: it needs the places
of `FieldInv` and, at the comparisons, `Sides` and `Checked` of `CurveInv`.

*Timer server* (`TimerServerProofs`).  `CountedOnce` - counted ticks, the one in
hand, the one signalled and the one latched together are no more than have
passed - and `MaskedIsOwed` are inductive with `ClientHeld` and `TimerAt`, what
the root task's place says of the client, the timer and the count.  `NotEarly` is
not: it speaks of the moment after the reply; it follows because at the loop's
end the count equals the request and `CountedOnce` puts it below the time.

*Network* (`TinyMlProofs`).  `AccBounded` bounds a partial sum by its bias and
one term for each product added; `ProductBound` and `OneMore` carry it through a
loop.  The hidden values are bounded by what a whole row of the first layer can
give, shifted; the outputs by a quarter of `INT_MAX` (`Quarter`), so that their
difference and its double stay inside.  `WidthAssumption` asks that a row with
its bias fits: with the code's dimensions it holds for any 16-bit weights in the
first layer and weights up to 62 in the second; the built ones are below it.
`BuiltIsThreshold` is about the network as it is built (`Built`: the dimensions and
the four weight files) and any vector of bytes: the accumulator of the first layer
is the partial sum of the features, the hidden values are all the same 256th of
the whole sum (`Activation`, at most 64 by `SumsWithin`), the sums of the second
layer are linear in it, and so the two outputs cross at a sum of 13 * 256
(`Computes`).

*Harness* (`RootTaskProofs`).  Saturation is monotone because the sum or product
is compared at full width and only then narrowed, where the cast keeps it
(`CastKeeps`, `SaturatedOrder`); with the shift, division and, for non-negative
factors, multiplication monotone (`ProductOrder`) this gives `Ordered`.
`HarnessInv` adds that the pairs tried are integers of the width (`Tried`) and what
the loop over a frame's nodes has established at each node (`LoopAt`); no assertion
fails (`AssertionsHold`), which is the safety half of `Passes`.

*Untyped program* (`RootTaskProofs`).  `FilledWhole` holds because all sizes are
powers of two and divide the child's: the watermark after each object
is below the sum of the sizes rounded up to the next object (`AlignedBelow`), the
loop of the code found a child that holds that (`SizeFound`), and after the revoke
the endpoints that fill it are its size divided by theirs (`FillCount`,
`RetypeLegal`).  `UntypedInv` says which slots are taken and how far the watermark
is at each call.

*Scripts* (`RootTaskProofs`).  The eight programs are looked at line by line twice.
For the types, a line skips a number of calls and maps a level that exists, a message
is sent through the badged capability and something follows it (`IsScript`, kept by
concatenation).  What the steps need then is common to all lines, so `ScriptInv`
is proved action by action: the call keeps its place, the objects their types, and
while the call of libraries-2 is open (`CallAt`) the root task stays at its send
and the word it sent is under way.  From it follow `TypeOK` and that each step is
one of `RemoteCall` or leaves its variables alone.

For `AbortsSafely` and `ReadyWhenStarted` that is not enough: whether a call is
refused depends on all calls before it.  A *ledger* says what is known when a
program comes to a call: the slots that are surely used and those that may be, the
levels the paging structures may have, what each thread was told and given, the
pages, the interrupt, the threads that may run, the reply.  `Known(p, j)` is the
ledger of call `j` of program `p`, and `Suits` says of a call what it needs of the
ledger before it and what the ledgers after it may say, one after a success and one
after an error that is passed over (libraries-2 maps its IPC buffer's page once or,
if the table is missing, again; `mapping` maps a PDPT that may be there).  The
argument has two halves:

- every line suits its ledgers (`Libraries1Calls` ... `MappingCalls`), and the
  parts a script is written as are put together by `PartsJoin`;
- a call that suits its ledger is not refused except as its line expects, and
  leaves objects that agree with the next ledger: one lemma per action
  (`AllocPrepares`, `MintPrepares`, `MapPagePrepares`, ...).

The invariant is `SetUpInv`: the objects agree with the ledger of the next call,
whoever was resumed has what it uses and keeps it (`Prepared`), and an aborted
program ran short of memory where its ledger lets it (`MayAbort`).  That last
conjunct is where libraries-4 differs: its client runs before its timer begins.
`ReadyWhenStarted` depends on two orders only the ledger sees, that the page is
mapped before the process is spawned and that the interrupt is acknowledged after
it was bound.

Type correctness is a theorem of `QuorumCheck`, `AuditMonitor`, `UartCom2`,
`TimerServer`, `TinyMl` and `ComputeServer` (`TypeCorrect`) and of `RootPrograms`
(`ScriptsTyped`).  Three more theorems have no run of their own: `InStep`, that the two
indices of the committee loop keep step, `SumsBounded` and `LimbsStaySized`.

**Only model-checked.**

- Liveness (`Returns`, `FrameAnswered`, `CallAnswered`, `AppTerminates`,
  `FramesAnswered`, `Completes`, `Woken`, `Ends`, and that the harness ends, the
  other half of `Passes`): the prover has no rule for fairness and `ENABLED`.

## 5. What the models leave out

In `AuditMonitor` the serial line delivers whole frames; `UartCom2` says when
that is so. Parity and framing errors, the divisor and the line control
register are left out. The result of polling the interrupt notification is
unused (`main.c:238`), so it has no state in `AuditMonitor`. `OP_BULK_PROCESS`
leaves some page of `Pages`, or the page as it was; that its length is not
compared with the size of the page is noted among the hazards. The IPC path
evaluates whatever `node_count` the page holds (`main.c:339`); the model allows
any digest there, and under the built operation codes the branch is not
reached. A failed `seL4_NBRecv` is taken to return no badge and a message of
length 0, as the loop assumes (`main.c:308`). Printing is left out.

The compression functions of SHA-256 and SHA-512 with their constants are not
modelled, nor the scalar multiplication, which the repository does not have. A
single piece of 2^61 bytes, whose bit length would come out wrong
(`sovereign_crypto.c:111`), is outside the sizes. `sovereign_crypto_verify_32` is
called by nobody. A negative bias shifted to the left is the multiplication
compilers make of it, and tests for null pointers are left out.

`libraries-3/client.c` and `bak/client.c` have no program in the tree that boots
them with a server, so they run in every order of priorities. In `libraries-4`
the counter is an `int`; requests beyond its range are left out. The harness tries its own
copies of frame and evaluation, so what it shows is about these.

Some hazards are modelled without a property that would catch them, since the
code does nothing about them: an evaluation asked for on a count beyond the array
(`libraries-3/main.c:339`), a line that never falls quiet in front of the endpoint
(`:242`; `CallAnswered` and `AppTerminates` assume that it does), a bulk length
beyond the page (`srv.c:35`; `Completes` is about lengths within), a request for 0
seconds (`libraries-4/main.c:216`; `Woken` is about longer ones), and a set-up of
`libraries-4` that fails behind its waiting client (`:138`; `AbortsSafely` exempts
it).  `PROJECT.json` says so at each.

Hello world prints a line. The patch scripts and build files have no state at
run time. The capabilities the kernel or the libraries hand out, and the errors
they give, are external: `RootPrograms` has them as the programs rely on them.

## 6. Plan

Every component that has state at run time is modelled.  What would add most:

1. `PageUndisturbed` for a multiprocessor kernel, where priorities do not keep
   root task and client apart: what the code would need to promise.
2. The scripts as one: which calls may change places without a ledger failing.
