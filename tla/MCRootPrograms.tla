--------------------------- MODULE MCRootPrograms ---------------------------
(***************************************************************************)
(* TLC instance of the root tasks that set up a system and end: the eight  *)
(* scripts of RootPrograms or the untyped program of UntypedRetype, each   *)
(* on a machine of its own.                                                *)
(***************************************************************************)
EXTENDS RootPrograms, UntypedRetype

NoUntyped ==
  /\ bits = [tcb |-> 0, ep |-> 0, ntfn |-> 0] /\ untypeds = <<>>
  /\ pc = "none" /\ used = {} /\ watermark = 0

NoScript ==
  /\ program = "mapping" /\ step = 1 /\ outcome = "ended" /\ shortage = FALSE
  /\ kernel = [facts |-> [t \in Threads |-> {}], irq |-> {},
               tables |-> [s \in Spaces |-> 0]]
  /\ message = NoMessage

BothInit == (Init /\ NoUntyped) \/ (NoScript /\ RetypeInit)

ScriptStep  == Next /\ UNCHANGED retypeVars
UntypedStep == RetypeNext /\ UNCHANGED vars

RootTaskRuns == RootTask /\ UNCHANGED retypeVars
Thread2Runs  == Thread2 /\ UNCHANGED retypeVars

BothSpec ==
  /\ BothInit
  /\ [][ScriptStep \/ UntypedStep]_<<vars, retypeVars>>
  /\ WF_<<vars, retypeVars>>(RootTaskRuns)
  /\ WF_<<vars, retypeVars>>(Thread2Runs)

=============================================================================
