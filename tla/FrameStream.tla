---------------------------- MODULE FrameStream ----------------------------
(***************************************************************************)
(* What the event loop takes for granted of the serial line: the frames it *)
(* finds in its buffer are the frames that were sent, whole, in order and  *)
(* each once.  A byte is known by its frame's number and its place there.  *)
(*                                                                         *)
(* UartCom2, the model of the driver and its device, implements this for a *)
(* sender that does not run too far ahead.                                 *)
(***************************************************************************)
EXTENDS Naturals, Sequences

CONSTANT FRAME_SIZE   \* sizeof(sovereign_audit_frame_t)

VARIABLE frames       \* the frames received so far

Whole(k) == [i \in 0 .. (FRAME_SIZE - 1) |-> [frame |-> k, at |-> i]]

Init == frames = <<>>

Next == frames' = Append(frames, Whole(Len(frames)))

Spec == Init /\ [][Next]_frames

=============================================================================
