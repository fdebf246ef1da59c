----------------------------- MODULE RemoteCall -----------------------------
(***************************************************************************)
(* What a call over an endpoint promises its caller: between the request   *)
(* and the next one there is one reply, and it answers that request.  The  *)
(* compute servers and the thread of libraries-2 implement this.           *)
(***************************************************************************)
CONSTANTS
  Requests,       \* what a caller asks
  IsAnswer(_, _), \* whether the second is a reply to the first
  None            \* no request open, no reply yet

VARIABLES
  asked,          \* the open request
  heard           \* the reply to the last one

Init == asked = None /\ heard = None

Ask ==
  /\ asked = None
  /\ asked' \in Requests
  /\ heard' = None

Answer ==
  /\ asked # None /\ heard' # None
  /\ IsAnswer(asked, heard')
  /\ asked' = None

Next == Ask \/ Answer

Spec == Init /\ [][Next]_<<asked, heard>>

=============================================================================
