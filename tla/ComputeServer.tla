--------------------------- MODULE ComputeServer ---------------------------
(***************************************************************************)
(* The compute servers and their callers.  Three servers exist:            *)
(* libraries-3/srv.c ("srv"), libraries-3/bak/srv.c ("bak") and            *)
(* apps/multiserver/src/srv.c ("multi", without a buffer).  A caller runs  *)
(* a script of calls: libraries-3/client.c, bak/client.c, bak/main.c and   *)
(* multiserver's client.c are scripts.                                     *)
(*                                                                         *)
(* The buffer is one page mapped by caller and server.  Nothing locks it:  *)
(* the caller is blocked in its call while the server works.               *)
(***************************************************************************)
EXTENDS Integers, Sequences

CONSTANTS
  PAGE,         \* elements in the shared page
  WORD_SPAN,    \* 2^64: machine words wrap
  SUM_SPAN,     \* 2^32: the checksum wraps
  Deployments,  \* server, script and priorities that run together
  None

OP_ADD == 1
OP_NOT == 2
OP_BULK_PROCESS == 3

Words   == 0 .. (WORD_SPAN - 1)
Servers == {"srv", "bak", "multi"}
Pages   == [0 .. (PAGE - 1) -> Int]

(* The checksum, of a smaller type, is widened to the word replied.        *)
ASSUME SpansAssumption ==
  /\ PAGE \in Nat \ {0}
  /\ WORD_SPAN \in Nat /\ OP_BULK_PROCESS < WORD_SPAN
  /\ SUM_SPAN \in Nat \ {0} /\ SUM_SPAN <= WORD_SPAN

(* One line of a script: the call, how much of the page its caller fills   *)
(* before it, and what it checks of the reply and of the page's first      *)
(* elements.                                                               *)
Lines == [op : Words, a : Words, b : Words, fill : 0 .. PAGE,
          res : SUBSET Words, first : Seq(Int)]

ASSUME DeploymentsAssumption ==
  Deployments \subseteq
    [server : Servers, script : Seq(Lines), prio : Nat, srv : Nat,
     lowers : BOOLEAN, spins : BOOLEAN, top : Nat]

Replies == [len : {0, 1}, mr : Words, buf : Pages]

ASSUME NoneAssumption == None \notin Replies

VARIABLES
  dep,     \* the deployment of this behaviour
  prio,    \* the caller's priority
  cpc,     \* where the caller is
  step,    \* the call of its script it is at
  passed,  \* whether every check of the script held so far
  spc,     \* where the server is
  i,       \* its loop counter
  resp,    \* the reply it has put together
  buf,     \* the shared page
  asked,   \* history: the request the caller is blocked with
  heard    \* what the caller has after the reply

callerVars == <<dep, prio, cpc, step, passed>>
vars == <<callerVars, spc, i, resp, buf, asked, heard>>

NoReply == [len |-> 0, mr |-> 0]

(* The server has been spawned; a page starts as zeroes.                   *)
Init ==
  /\ dep \in Deployments
  /\ prio = dep.prio
  /\ cpc = IF dep.lowers THEN "lower" ELSE "next"
  /\ step = 1
  /\ passed = TRUE
  /\ spc = "start"
  /\ i = 0
  /\ resp = NoReply
  /\ buf = [n \in 0 .. (PAGE - 1) |-> 0]
  /\ asked = None
  /\ heard = None

-----------------------------------------------------------------------------
(* The kernel runs a thread if no runnable thread has a higher priority.   *)
(* dep.top is the priority of a root task that yields forever, or 0.       *)

CallerRunnable == cpc \in {"lower", "next", "check"} \/ (cpc = "done" /\ dep.spins)

ServerRunnable ==
  \/ spc \in {"start", "serve", "bulk", "reply"}
  \/ spc = "recv" /\ asked # None

CallerRuns ==
  /\ prio >= dep.top
  /\ ServerRunnable => prio >= dep.srv

ServerRuns ==
  /\ dep.srv >= dep.top
  /\ CallerRunnable => dep.srv >= prio

-----------------------------------------------------------------------------
(* The caller.                                                             *)

AddLine(a, b, res) ==
  [op |-> OP_ADD, a |-> a, b |-> b, fill |-> 0, res |-> res, first |-> <<>>]

NotLine(a) ==
  [op |-> OP_NOT, a |-> a, b |-> 0, fill |-> 0, res |-> Words, first |-> <<>>]

BulkLine(n, res, first) ==
  [op |-> OP_BULK_PROCESS, a |-> n, b |-> 0, fill |-> n, res |-> res, first |-> first]

Backwards(n) == [k \in 1 .. n |-> (n + 1 - k) * 10]

(* libraries-3/client.c, bak/main.c, bak/client.c, multiserver/src/client.c *)
ClientScript == <<AddLine(40, 2, {42}), BulkLine(8, Words, Backwards(8))>>
RootScript == <<AddLine(40, 2, {42}), NotLine(255), BulkLine(8, Words, Backwards(8))>>
BakScript == <<AddLine(105, 215, {320}), NotLine(682), BulkLine(16, {1360}, <<160>>)>>
MultiScript == <<AddLine(105, 215, {320}), NotLine(682)>>

Line == dep.script[step]

(* bak/main.c: below the server before the first call.                     *)
LowerPriority ==
  /\ CallerRuns /\ cpc = "lower"
  /\ prio' = 100
  /\ cpc' = "next"
  /\ UNCHANGED <<dep, step, passed, spc, i, resp, buf, asked, heard>>

Filled(page, n) == [x \in DOMAIN page |-> IF x < n THEN (x + 1) * 10 ELSE page[x]]

RequestOf(server, line, page) ==
  [server |-> server, op |-> line.op, a |-> line.a, b |-> line.b, buf |-> page]

(* Fills the buffer where the script says so, and blocks in seL4_Call.     *)
Call ==
  /\ CallerRuns /\ cpc = "next"
  /\ step <= Len(dep.script)
  /\ buf' = Filled(buf, Line.fill)
  /\ asked' = RequestOf(dep.server, Line, buf')
  /\ heard' = None
  /\ cpc' = "blocked"
  /\ UNCHANGED <<dep, prio, step, passed, spc, i, resp>>

Matches(line, reply) ==
  /\ reply.mr \in line.res
  /\ \A n \in 1 .. Len(line.first) : reply.buf[n - 1] = line.first[n]

Check ==
  /\ CallerRuns /\ cpc = "check"
  /\ passed' = (passed /\ Matches(Line, heard))
  /\ step' = step + 1
  /\ cpc' = "next"
  /\ UNCHANGED <<dep, prio, spc, i, resp, buf, asked, heard>>

Finish ==
  /\ CallerRuns /\ cpc = "next"
  /\ step > Len(dep.script)
  /\ cpc' = "done"
  /\ UNCHANGED <<dep, prio, step, passed, spc, i, resp, buf, asked, heard>>

-----------------------------------------------------------------------------
(* The server.  The message registers hold the request while it works.     *)

Start ==
  /\ ServerRuns /\ spc = "start"
  /\ spc' = "recv"
  /\ UNCHANGED <<callerVars, i, resp, buf, asked, heard>>

Receive ==
  /\ ServerRuns /\ spc = "recv"
  /\ asked # None
  /\ spc' = "serve"
  /\ UNCHANGED <<callerVars, i, resp, buf, asked, heard>>

Respond(len, mr) ==
  /\ resp' = [len |-> len, mr |-> mr]
  /\ spc' = "reply"
  /\ UNCHANGED <<callerVars, i, buf, asked, heard>>

Sum(a, b) == (a + b) % WORD_SPAN

Complement(a) == WORD_SPAN - 1 - a

ServeAdd ==
  /\ ServerRuns /\ spc = "serve" /\ asked.op = OP_ADD
  /\ Respond(1, Sum(asked.a, asked.b))

(* mutant: the negative *)
ServeNotNegative ==
  /\ ServerRuns /\ spc = "serve" /\ asked.op = OP_NOT
  /\ Respond(1, WORD_SPAN - asked.a)

ServeNot ==
  /\ ServerRuns /\ spc = "serve" /\ asked.op = OP_NOT
  /\ Respond(1, Complement(asked.a))

HasBulk == dep.server # "multi"

(* mutant: replies before the loop has run *)
StartBulkEarlyReply ==
  /\ ServerRuns /\ spc = "serve" /\ asked.op = OP_BULK_PROCESS /\ HasBulk
  /\ Respond(1, 0)

StartBulk ==
  /\ ServerRuns /\ spc = "serve" /\ asked.op = OP_BULK_PROCESS /\ HasBulk
  /\ i' = 0
  /\ spc' = "bulk"
  /\ UNCHANGED <<callerVars, resp, buf, asked, heard>>

(* srv.c replies with an empty message, the other two with a zero.         *)
ServeUnknown ==
  /\ ServerRuns /\ spc = "serve"
  /\ asked.op \notin {OP_ADD, OP_NOT} \cup (IF HasBulk THEN {OP_BULK_PROCESS} ELSE {})
  /\ Respond(IF dep.server = "srv" THEN 0 ELSE 1, 0)

(* mutant: one element too far *)
LastOffByOne == asked.a - i

Last == asked.a - 1 - i

(* mutant: no tmp, the second store copies what the first has written *)
SwappedWithoutTmp(page, x, y) == [page EXCEPT ![x] = page[y]]

Swapped(page, x, y) == [page EXCEPT ![x] = page[y], ![y] = page[x]]

Swap ==
  /\ ServerRuns /\ spc = "bulk"
  /\ i < asked.a \div 2 /\ Last < PAGE
  /\ buf' = Swapped(buf, i, Last)
  /\ i' = i + 1
  /\ UNCHANGED <<callerVars, spc, resp, asked, heard>>

(* An element beyond the page: the server faults and nobody resumes it.    *)
Fault ==
  /\ ServerRuns /\ spc = "bulk"
  /\ i < asked.a \div 2 /\ Last >= PAGE
  /\ spc' = "faulted"
  /\ UNCHANGED <<callerVars, i, resp, buf, asked, heard>>

(* The loop that adds up the elements; the sum wraps in the end as it      *)
(* would wrap on the way.                                                  *)
Total(page) ==
  LET sum[n \in 0 .. PAGE] == IF n = 0 THEN 0 ELSE sum[n - 1] + page[n - 1]
  IN  sum

Checksum(page, n) == Total(page)[n] % SUM_SPAN

EndBulk ==
  /\ ServerRuns /\ spc = "bulk"
  /\ i >= asked.a \div 2
  /\ Respond(1, IF dep.server = "bak" THEN Checksum(buf, asked.a) ELSE 0)

(* mutant: the server blocks without having replied *)
ReplyRecvNoReply ==
  /\ ServerRuns /\ spc = "reply"
  /\ spc' = "recv"
  /\ UNCHANGED <<callerVars, i, resp, buf, asked, heard>>

(* seL4_ReplyRecv: the caller wakes, the server waits.                     *)
ReplyRecv ==
  /\ ServerRuns /\ spc = "reply"
  /\ spc' = "recv"
  /\ heard' = [len |-> resp.len, mr |-> resp.mr, buf |-> buf]
  /\ asked' = None
  /\ cpc' = "check"
  /\ UNCHANGED <<dep, prio, step, passed, i, resp, buf>>

-----------------------------------------------------------------------------
CallerStep == LowerPriority \/ Call \/ Check \/ Finish

ServerStep ==
  \/ Start \/ Receive \/ ServeAdd \/ ServeNot \/ StartBulk \/ ServeUnknown
  \/ Swap \/ Fault \/ EndBulk \/ ReplyRecv

Next == CallerStep \/ ServerStep

(* The kernel schedules what can run.                                      *)
Fairness == WF_vars(CallerStep) /\ WF_vars(ServerStep)

Spec == Init /\ [][Next]_vars /\ Fairness

-----------------------------------------------------------------------------
TypeOK ==
  /\ dep \in Deployments
  /\ cpc \in {"lower", "next", "blocked", "check", "done"}
  /\ step \in 1 .. (Len(dep.script) + 1)
  /\ spc \in {"start", "recv", "serve", "bulk", "reply", "faulted"}
  /\ i \in 0 .. PAGE
  /\ resp \in [len : {0, 1}, mr : Words]
  /\ passed \in BOOLEAN

(* What each server computes, without its loops.                           *)
Reversed(page, n) == [x \in DOMAIN page |-> IF x < n THEN page[n - 1 - x] ELSE page[x]]

IsBulk(q) == q.op = OP_BULK_PROCESS /\ q.server # "multi"

Result(q) ==
  CASE q.op = OP_ADD -> Sum(q.a, q.b)
    [] q.op = OP_NOT -> Complement(q.a)
    [] IsBulk(q) /\ q.server = "bak" -> Checksum(q.buf, q.a)
    [] OTHER -> 0

PageAfter(q) == IF IsBulk(q) THEN Reversed(q.buf, q.a) ELSE q.buf

IsResult(q, r) ==
  /\ r.mr = Result(q)
  /\ r.buf = PageAfter(q)
  /\ r.len = IF q.server = "srv" /\ q.op \notin 1 .. 3 THEN 0 ELSE 1

Requests == [server : Servers, op : Words, a : Words, b : Words, buf : Pages]

RPC == INSTANCE RemoteCall WITH IsAnswer <- IsResult

(* Every reply is the result of the request of the caller that hears it,   *)
(* computed on the buffer as it was at the call, reversed in place and     *)
(* whole (srv.c:20-47, bak/srv.c:29-63).                                   *)
ImplementsCall == RPC!Spec

(* The scripts expect what the servers compute: each line, asked on a page *)
(* of zeroes that its caller has filled, and of no more than that.  A call *)
(* that leaves the page is never answered.                                 *)
Answered(q) == IsBulk(q) => q.a <= PAGE

ExpectsResult(server, line) ==
  LET q == RequestOf(server, line, Filled([n \in 0 .. (PAGE - 1) |-> 0], line.fill))
  IN  /\ Len(line.first) <= line.fill
      /\ IsBulk(q) /\ Answered(q) => line.a <= line.fill
      /\ Answered(q) => Matches(line, [mr |-> Result(q), buf |-> PageAfter(q)])

ASSUME ScriptsAssumption ==
  \A d \in Deployments : \A n \in DOMAIN d.script :
    ExpectsResult(d.server, d.script[n])

(* Every check the callers make of what they get back holds                *)
(* (client.c:32 and :52, bak/client.c:62, bak/main.c:142 and :167).        *)
ScriptsPass == passed

(* A caller that asks for no more elements than the page has gets through  *)
(* its script, whichever of the two has the higher priority: it is blocked *)
(* while the server has to run (srv.c:46).                                 *)
InPage(line) == line.op = OP_BULK_PROCESS => line.a <= PAGE

Completes ==
  (\A n \in 1 .. Len(dep.script) : InPage(dep.script[n])) => <>(cpc = "done")

=============================================================================
