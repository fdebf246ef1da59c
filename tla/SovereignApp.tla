---------------------------- MODULE SovereignApp ----------------------------
(***************************************************************************)
(* The client of the appliance (libraries-3/app.c) run against the event   *)
(* loop of AuditMonitor: three calls of OP_SOVR_EVALUATE, each after the   *)
(* page has been prepared for it, and assertions on what comes back.       *)
(* The root task loads the client from its file system by name (main.c:    *)
(* 201-205) and knows nothing of the program: "other" stands for any.      *)
(*                                                                         *)
(* "step" is where app.c is.  A failed assertion aborts the process, as a  *)
(* returning main ends it: either way the client exits.  A program         *)
(* compiled with NDEBUG has no assertions and goes on whatever it is told. *)
(***************************************************************************)
EXTENDS AuditMonitor

CONSTANTS
  CLIENT_BADGE_AUTH,    \* the badge of ep_auth
  CLIENT_BADGE_UNAUTH,  \* the badge of ep_unauth
  CorruptPage,          \* the zeroed page with magic 0xDEADBEEF
  AuthenticPage         \* the page of the third test

ASSUME AppAssumption ==
  /\ {CLIENT_BADGE_AUTH, CLIENT_BADGE_UNAUTH} \subseteq Badges
  /\ {CorruptPage, AuthenticPage} \subseteq Pages
  /\ OP_SOVR_EVALUATE \in Opcodes
  /\ OP_SOVR_EVALUATE # OP_BULK_PROCESS            \* 1 and 3
  /\ AuthenticPage.computed_root_hash = ZeroHash   \* memset
  /\ AuthenticPage.node_count <= MAX_NODES         \* 3 and 8

VARIABLES
  step,
  asserts   \* whether the program has its assertions

progVars == <<step, asserts>>
appVars  == <<vars, progVars>>

Steps == {"call1", "check1", "store2", "call2", "check2", "store3", "call3",
          "check3", "compare", "passed", "aborted", "other"}

AppInit ==
  /\ Init
  /\ step \in {"call1", "other"}
  /\ asserts \in BOOLEAN

-----------------------------------------------------------------------------
Goto(here, next) == step = here /\ step' = next /\ UNCHANGED asserts

(* seL4_SetMR(0, OP_SOVR_EVALUATE) and seL4_Call.                          *)
Call(here, badge, next) == ClientCall(OP_SOVR_EVALUATE, badge) /\ Goto(here, next)

CallUnauthorized == Call("call1", CLIENT_BADGE_UNAUTH, "check1")
CallCorrupt      == Call("call2", CLIENT_BADGE_AUTH, "check2")
CallAuthentic    == Call("call3", CLIENT_BADGE_AUTH, "check3")

(* memset of the page, then its fields.                                    *)
StoreCorrupt   == ClientStore(CorruptPage) /\ Goto("store2", "call2")
StoreAuthentic == ClientStore(AuthenticPage) /\ Goto("store3", "call3")

(* assert(status == expected), in the order of the program.                *)
ExpectedAt(here) ==
  CASE here = "check1" -> SOVR_STATUS_ERR_MAGIC
    [] here = "check2" -> SOVR_STATUS_REJECT_REPLAY
    [] here = "check3" -> SOVR_STATUS_SUCCESS

NextCheckStuck(here) ==   \* mutant: the second test starts over
  CASE here = "check1" -> "store2"
    [] here = "check2" -> "store2"
    [] here = "check3" -> "compare"

AfterCheck(here) ==
  CASE here = "check1" -> "store2"
    [] here = "check2" -> "store3"
    [] here = "check3" -> "compare"

AssertHolds ==
  /\ client = "running"
  /\ step \in {"check1", "check2", "check3"}
  /\ asserts => reply = ExpectedAt(step)
  /\ step' = AfterCheck(step)
  /\ UNCHANGED <<vars, asserts>>

AssertFails ==
  /\ step \in {"check1", "check2", "check3"}
  /\ asserts /\ reply # ExpectedAt(step)
  /\ step' = "aborted"
  /\ ClientExit
  /\ UNCHANGED asserts

(* memcmp of the hash in the page with the digest of the page's contents.  *)
DigestMatches ==
  /\ asserts => page.computed_root_hash = DigestOf(AuthenticPage)
  /\ Goto("compare", "passed")
  /\ ClientExit

DigestDiffers ==
  /\ asserts /\ page.computed_root_hash # DigestOf(AuthenticPage)
  /\ Goto("compare", "aborted")
  /\ ClientExit

AppStep ==
  /\ CanRun("client")
  /\ \/ CallUnauthorized
     \/ AssertHolds
     \/ AssertFails
     \/ StoreCorrupt
     \/ CallCorrupt
     \/ StoreAuthentic
     \/ CallAuthentic
     \/ DigestMatches
     \/ DigestDiffers

OtherStep == step = "other" /\ ClientStep /\ UNCHANGED progVars

MonitorStep == RootStep /\ UNCHANGED progVars

AppNext == MonitorStep \/ AppStep \/ OtherStep

AppSpec == /\ AppInit
           /\ [][AppNext]_appVars
           /\ WF_appVars(MonitorStep)
           /\ WF_appVars(AppStep)
           /\ WF_appVars(OtherStep)

-----------------------------------------------------------------------------
(* Whether the third call reaches evaluate_and_hash_frame.                 *)
ThirdEvaluates ==
  /\ Dispatch(OP_SOVR_EVALUATE) = "evaluate"
  /\ CLIENT_BADGE_AUTH = ROLE_FIDUCIARY_PR
  /\ AuthenticPage.magic = SOVR_MAGIC

(* The page is that of the third test, evaluated if it was to be.          *)
OwnFrame ==
  /\ PageHolds(AuthenticPage)
  /\ page.computed_root_hash = IF ThirdEvaluates THEN DigestOf(AuthenticPage) ELSE ZeroHash

(* The page is the frame of the latest certificate, evaluated.             *)
LineFrame ==
  \E i \in DOMAIN log :
    /\ CertifiedAt(i) /\ log[i].frame.sequence_id = last
    /\ PageHolds(log[i].frame)
    /\ page.computed_root_hash = DigestOf(log[i].frame)

(* What the third test compares is the program's own frame with its hash,  *)
(* ready when the call returns, unless the line brought a frame that was   *)
(* certified in the same page meanwhile: then it is the latest of those,   *)
(* whole, and never a mixture (app.c:61-108, main.c:271-273, 339).         *)
OvertakenByLineOnly == step = "compare" => OwnFrame \/ LineFrame

(* The program of app.c ends, if the line falls quiet again and again      *)
(* (app.c:112, main.c:242).                                                *)
AppTerminates ==
  step # "other" /\ []<>(pc = "ipc") => <>(client = "exited")

(* The assertions of the program hold (app.c:45, 56, 95, 108).             *)
AppAssertionsHold == step # "aborted"

=============================================================================
