-------------------------- MODULE MCComputeServer --------------------------
(***************************************************************************)
(* TLC instances of ComputeServer: the scripts of the repository's callers *)
(* against the servers they talk to, and calls with any operation and the  *)
(* lengths at the edges of the page.                                       *)
(***************************************************************************)
EXTENDS ComputeServer

Deployed(server, script, own, srv, lowers, spins, top) ==
  [server |-> server, script |-> script, prio |-> own, srv |-> srv,
   lowers |-> lowers, spins |-> spins, top |-> top]

(* The server above, beside and below its caller.                          *)
Orders == {<<1, 2>>, <<1, 1>>, <<2, 1>>}

Scripted ==
  {Deployed("srv", ClientScript, o[1], o[2], FALSE, TRUE, 0) : o \in Orders}
  \cup {Deployed(s, RootScript, 255, 200, TRUE, TRUE, 0) : s \in {"srv", "bak"}}
  \cup {Deployed("bak", BakScript, o[1], o[2], FALSE, FALSE, 0) : o \in Orders}
  \cup {Deployed("multi", MultiScript, 253, 254, FALSE, FALSE, 0)}

ProbeLine(op, a, b) ==
  [op |-> op, a |-> a, b |-> b, fill |-> PAGE, res |-> Words, first |-> <<>>]

Probes ==
  {Deployed(s, <<ProbeLine(op, a, b), AddLine(40, 2, {42})>>, o[1], o[2], FALSE, FALSE, 0) :
     s \in {"srv", "bak", "multi"}, op \in 0 .. 3, b \in {1}, o \in Orders,
     a \in {0, 1, 2, 7, PAGE, PAGE + 1, WORD_SPAN - 1}}

MCDeployments == Scripted \cup Probes

(* As apps/multiserver/src/main.c builds it: the root task yields at 255.  *)
MCMultiserver == {Deployed("multi", MultiScript, 253, 254, FALSE, FALSE, 255)}

=============================================================================
