---------------------------- MODULE TimerServer ----------------------------
(***************************************************************************)
(* libraries-4: the root task serves one request to sleep.  A periodic     *)
(* timer interrupts it; the interrupt signals a notification and stays     *)
(* masked until the root task has handled it.  Ticks that come meanwhile   *)
(* merge, so the count of ticks can fall behind the time but not run ahead *)
(* of it.  Root task and client have one priority: either may run.         *)
(***************************************************************************)
EXTENDS Naturals

CONSTANTS
  TICKS,     \* ticks in a second, 1000
  Sleeps,    \* seconds a client asks for; client.c asks for 2
  MaxTicks   \* bound: the ticks and the count stop growing here

ASSUME SleepsAssumption ==
  /\ TICKS \in Nat /\ MaxTicks \in Nat \ {0} /\ Sleeps \subseteq Nat
  /\ \A s \in Sleeps : TICKS * s <= MaxTicks

VARIABLES
  spc,      \* where the root task is
  cpc,      \* where the client is
  msg,      \* seconds requested
  timer,    \* "off", "on" or "destroyed"
  slept,    \* ticks since the timer was set
  ntfn,     \* 1 if the notification is signalled
  masked,   \* 1 if the interrupt waits to be acknowledged
  pending,  \* 1 if a tick is latched behind the mask
  count     \* the loop's counter

vars == <<spc, cpc, msg, timer, slept, ntfn, masked, pending, count>>

Init ==
  /\ spc = "spawn"
  /\ cpc = "none"
  /\ msg = 0
  /\ timer = "off"
  /\ slept = 0
  /\ ntfn = 0 /\ masked = 0 /\ pending = 0
  /\ count = 0

(* mutant: counts past the bound *)
More(n) == IF n < MaxTicks THEN n + 1 ELSE n

-----------------------------------------------------------------------------
(* The client calls with one register and exits on the reply.              *)

ClientCall ==
  /\ cpc = "ready"
  /\ msg' \in Sleeps
  /\ cpc' = "blocked"
  /\ UNCHANGED <<spc, timer, slept, ntfn, masked, pending, count>>

ClientExit ==
  /\ cpc = "woken"
  /\ cpc' = "gone"
  /\ UNCHANGED <<spc, msg, timer, slept, ntfn, masked, pending, count>>

-----------------------------------------------------------------------------
(* The root task.                                                          *)

SpawnClient ==
  /\ spc = "spawn"
  /\ cpc' = "ready"
  /\ spc' = "init"
  /\ UNCHANGED <<msg, timer, slept, ntfn, masked, pending, count>>

InitTimer ==
  /\ spc = "init"
  /\ spc' = "recv"
  /\ UNCHANGED <<cpc, msg, timer, slept, ntfn, masked, pending, count>>

Receive ==
  /\ spc = "recv" /\ cpc = "blocked"
  /\ spc' = "arm"
  /\ UNCHANGED <<cpc, msg, timer, slept, ntfn, masked, pending, count>>

SetTimeout ==
  /\ spc = "arm"
  /\ timer' = "on"
  /\ spc' = "wait"
  /\ UNCHANGED <<cpc, msg, slept, ntfn, masked, pending, count>>

(* An error of the timer or of its set-up: the client has been spawned.    *)
AssertFails ==
  /\ spc \in {"init", "arm"}
  /\ spc' = "aborted"
  /\ UNCHANGED <<cpc, msg, timer, slept, ntfn, masked, pending, count>>

Wait ==
  /\ spc = "wait" /\ ntfn = 1
  /\ ntfn' = 0
  /\ spc' = "handle"
  /\ UNCHANGED <<cpc, msg, timer, slept, masked, pending, count>>

(* mutant: the interrupt is not acknowledged *)
AckLost ==
  UNCHANGED <<ntfn, masked, pending>>

(* mutant: the tick that is served is left pending *)
AckKeepsPending ==
  /\ ntfn' = pending
  /\ masked' = pending
  /\ UNCHANGED pending

(* The acknowledgement lets a latched tick through.                        *)
Ack ==
  /\ ntfn' = pending
  /\ masked' = pending
  /\ pending' = 0

Target(s) == TICKS * s

(* mutant: seconds taken for ticks *)
LoopEndsSooner(n) == n = msg

LoopEnds(n) == n = Target(msg)

HandleIrq ==
  /\ spc = "handle"
  /\ Ack
  /\ count' = More(count)
  /\ spc' = IF LoopEnds(count') THEN "stop" ELSE "wait"
  /\ UNCHANGED <<cpc, msg, timer, slept>>

DestroyTimer ==
  /\ spc = "stop"
  /\ timer' = "destroyed"
  /\ spc' = "reply"
  /\ UNCHANGED <<cpc, msg, slept, ntfn, masked, pending, count>>

(* The reply, and a wait for a next message.                               *)
ReplyRecv ==
  /\ spc = "reply"
  /\ cpc' = "woken"
  /\ spc' = "again"
  /\ UNCHANGED <<msg, timer, slept, ntfn, masked, pending, count>>

-----------------------------------------------------------------------------
(* The timer: a tick signals, or finds the interrupt masked and may merge. *)

Tick ==
  /\ timer = "on"
  /\ slept' = More(slept)
  /\ \/ /\ masked = 0
        /\ ntfn' = 1 /\ masked' = 1 /\ UNCHANGED pending
     \/ /\ masked = 1
        /\ pending' \in {pending, 1} /\ UNCHANGED <<ntfn, masked>>
  /\ UNCHANGED <<spc, cpc, msg, timer, count>>

RootStep ==
  \/ SpawnClient \/ InitTimer \/ Receive \/ SetTimeout \/ AssertFails
  \/ Wait \/ HandleIrq \/ DestroyTimer \/ ReplyRecv

ClientStep == ClientCall \/ ClientExit

Next == RootStep \/ ClientStep \/ Tick

(* Both threads are scheduled, and the timer that is on keeps ticking.     *)
Fairness == WF_vars(RootStep) /\ WF_vars(ClientStep) /\ WF_vars(Tick)

Spec == Init /\ [][Next]_vars /\ Fairness

-----------------------------------------------------------------------------
TypeOK ==
  /\ spc \in {"spawn", "init", "recv", "arm", "wait", "handle", "stop", "reply",
              "again", "aborted"}
  /\ cpc \in {"none", "ready", "blocked", "woken", "gone"}
  /\ msg \in Nat
  /\ timer \in {"off", "on", "destroyed"}
  /\ slept \in 0 .. MaxTicks
  /\ count \in 0 .. MaxTicks
  /\ ntfn \in 0 .. 1 /\ masked \in 0 .. 1 /\ pending \in 0 .. 1

(* Whoever sleeps is not woken before its seconds have passed, and who     *)
(* asks for none is not woken at all (main.c:215-219).                     *)
Awake == cpc \in {"woken", "gone"}

NotEarly == Awake => msg > 0 /\ slept >= Target(msg)

(* No tick is counted twice: the counted ones, the one being handled, the  *)
(* one signalled and the one latched are different ticks (main.c:209-215). *)
CountedOnce ==
  slept < MaxTicks =>
    count + (IF spc = "handle" THEN 1 ELSE 0) + ntfn + pending <= slept

(* The interrupt is masked only while the root task has its notification   *)
(* to take or is handling it: no tick is locked out (main.c:212-213).      *)
MaskedIsOwed == masked = 1 => ntfn = 1 \/ spc = "handle"

(* Whoever asks for at least a second is woken, unless the timer fails.    *)
Woken == (cpc = "blocked" /\ msg > 0) ~> (Awake \/ spc = "aborted")

=============================================================================
