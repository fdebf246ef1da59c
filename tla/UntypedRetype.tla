---------------------------- MODULE UntypedRetype ---------------------------
(***************************************************************************)
(* untyped/src/main.c: a child untyped is made just large enough for a     *)
(* TCB, an endpoint and a notification, used for them, revoked, and filled *)
(* with endpoints.  The kernel carves objects from an untyped at a         *)
(* watermark, aligned to their size, and starts again when it has no       *)
(* children; it retypes at most FANOUT objects at a time.  Slots are       *)
(* counted from info->empty.start.                                         *)
(***************************************************************************)
EXTENDS Naturals

CONSTANTS
  TcbBits, EpBits, NtfnBits,  \* sizes of the objects, of the platforms' kernels
  WORD_BITS,                  \* 64, the largest size
  FANOUT,                     \* 256, CONFIG_RETYPE_FAN_OUT_LIMIT
  SLOTS,                      \* slots from empty.start to empty.end
  MaxUntypeds, Spread         \* bounds: untypeds of the boot information, their sizes

BIT[n \in 0 .. WORD_BITS] == IF n = 0 THEN 1 ELSE 2 * BIT[n - 1]

Platforms == [tcb : TcbBits, ep : EpBits, ntfn : NtfnBits]

total_size(b) == BIT[b.tcb] + BIT[b.ep] + BIT[b.ntfn]

(* mutant: room for the largest object only *)
SizeOfLargest(b) == b.tcb

(* Doubled from twice the size of a TCB until the three fit.               *)
SizeBits(b) ==
  CHOOSE n \in (b.tcb + 1) .. WORD_BITS :
    /\ BIT[n] >= total_size(b)
    /\ \A m \in (b.tcb + 1) .. (n - 1) : BIT[m] < total_size(b)

(* A TCB is no smaller than an endpoint, a size fits a word, the slots are *)
(* enough, and the endpoints that fill the untyped are no more than the    *)
(* kernel makes at a time.                                                 *)
ASSUME ObjectsAssumption ==
  /\ WORD_BITS \in Nat /\ FANOUT \in Nat /\ SLOTS \in Nat /\ SLOTS >= 4
  /\ TcbBits \cup EpBits \cup NtfnBits \subseteq 0 .. WORD_BITS
  /\ \A b \in Platforms :
       /\ b.ep <= b.tcb /\ total_size(b) <= BIT[WORD_BITS]
       /\ BIT[SizeBits(b) - b.ep] <= FANOUT /\ BIT[SizeBits(b) - b.ep] < SLOTS

VARIABLES
  bits,       \* sizes of the kernel: [tcb, ep, ntfn]
  untypeds,   \* info->untypedList
  pc,         \* the object made next or the call made next; "ended", "aborted"
  used,       \* slots that hold a capability
  watermark   \* bytes of the child untyped in use

retypeVars == <<bits, untypeds, pc, used, watermark>>

childBits == SizeBits(bits)

RetypeInit ==
  /\ bits \in Platforms
  /\ untypeds \in UNION {[1 .. n -> [isDevice : BOOLEAN,
                                     sizeBits : {bits.tcb + k : k \in Spread}]] :
                           n \in 0 .. MaxUntypeds}
  /\ pc = "child" /\ used = {} /\ watermark = 0

Fits(n) == ~untypeds[n].isDevice /\ untypeds[n].sizeBits >= childBits

HasParent == \E n \in DOMAIN untypeds : Fits(n)

(* The first untyped that fits; without one the retype of slot 0 fails.    *)
MakeChild ==
  /\ pc = "child"
  /\ pc' = IF HasParent THEN "tcb" ELSE "aborted"
  /\ used' = IF HasParent THEN {0} ELSE used
  /\ UNCHANGED <<bits, untypeds, watermark>>

(* The kernel's retype of the child into n objects, from the slot on.      *)
Retype(size, slot, n, next) ==
  LET start == IF used = {0} THEN 0 ELSE ((watermark + BIT[size] - 1) \div BIT[size]) * BIT[size]
      slots == slot .. (slot + n - 1)
      legal == /\ n \in 1 .. FANOUT /\ slot + n <= SLOTS /\ slots \cap used = {}
               /\ start + n * BIT[size] <= BIT[childBits]
  IN /\ pc' = IF legal THEN next ELSE "aborted"
     /\ used' = IF legal THEN used \cup slots ELSE used
     /\ watermark' = IF legal THEN start + n * BIT[size] ELSE watermark
     /\ UNCHANGED <<bits, untypeds>>

(* A call on the objects in these slots, refused if one of them is empty.  *)
Invoke(slots, next) ==
  /\ pc' = IF slots \subseteq used THEN next ELSE "aborted"
  /\ UNCHANGED <<bits, untypeds, used, watermark>>

MakeTcb == pc = "tcb" /\ Retype(bits.tcb, 1, 1, "priority")

SetPriority == pc = "priority" /\ Invoke({1}, "ep")

MakeEndpoint == pc = "ep" /\ Retype(bits.ep, 2, 1, "identify")

DebugCapIdentify == pc = "identify" /\ Invoke({2}, "ntfn")

MakeNotification == pc = "ntfn" /\ Retype(bits.ntfn, 3, 1, "bind")

BindNotification == pc = "bind" /\ Invoke({1, 3}, "revoke")

(* mutant: only the capabilities are forgotten that were made last *)
RevokeLast ==
  /\ pc = "revoke" /\ pc' = "fill"
  /\ used' = used \ {3}
  /\ UNCHANGED <<bits, untypeds, watermark>>

(* What was made from the child is deleted; its own capability stays.      *)
Revoke ==
  /\ pc = "revoke" /\ pc' = "fill"
  /\ used' = {0}
  /\ UNCHANGED <<bits, untypeds, watermark>>

(* mutant: the number of TCBs *)
FillChildFew == pc = "fill" /\ Retype(bits.ep, 1, BIT[childBits - bits.tcb], "ended")

FillChild == pc = "fill" /\ Retype(bits.ep, 1, BIT[childBits - bits.ep], "ended")

RetypeNext ==
  \/ MakeChild \/ MakeTcb \/ SetPriority \/ MakeEndpoint \/ DebugCapIdentify
  \/ MakeNotification \/ BindNotification \/ Revoke \/ FillChild

RetypeSpec == RetypeInit /\ [][RetypeNext]_retypeVars

-----------------------------------------------------------------------------
(* The child holds the three objects with their alignment, the slots are   *)
(* free when they are filled, filled when their objects are used, and the  *)
(* 2^(bits - endpoint bits) endpoints at its end are within what the       *)
(* kernel retypes at once: the program aborts only if the machine has no   *)
(* untyped that fits, and leaves no byte of the child                      *)
(* (untyped/src/main.c:45-90).                                             *)
FilledWhole ==
  /\ pc = "aborted" => ~HasParent
  /\ pc = "ended" => watermark = BIT[childBits]

=============================================================================
