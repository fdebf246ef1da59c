------------------------------ MODULE UartCom2 ------------------------------
(***************************************************************************)
(* The COM2 driver (libraries-3/uart_com2.h) and the byte level of the     *)
(* root task's loop (main.c:230-302), with the device below them and the   *)
(* sender at the other end of the line.                                    *)
(*                                                                         *)
(* The device is a 16550A.  What it receives goes to a FIFO; a byte that   *)
(* finds the FIFO full is dropped.  What it transmits passes a holding     *)
(* register and a shift register, one byte each as the driver uses it.     *)
(* While a response is written, byte after byte with a busy wait, nobody   *)
(* empties the receive FIFO: whether a frame survives depends on how far   *)
(* the sender runs ahead of the responses.                                 *)
(***************************************************************************)
EXTENDS Integers, Sequences, FiniteSets

CONSTANTS
  FRAME_SIZE,  \* sizeof(sovereign_audit_frame_t), 1152
  RESP_SIZE,   \* sizeof(sovereign_response_frame_t), 40
  RX_FIFO,     \* depth of the receive FIFO, 16
  Aheads,      \* how far senders run ahead, see the variable
  Garbage,     \* what an uninitialised byte of rx_buffer holds
  MaxFrames    \* bound: the frames sent in a behaviour

ASSUME SizesAssumption ==
  /\ FRAME_SIZE \in Nat /\ RESP_SIZE \in Nat \ {0}
  /\ RX_FIFO \in Nat \ {0} /\ MaxFrames \in Nat
  /\ RX_FIFO < FRAME_SIZE /\ Aheads \subseteq 0 .. (FRAME_SIZE - 1)

VARIABLES
  pc,         \* where the root task is
  rx_buffer,  \* the frame under assembly
  rx_index,   \* how much of it there is
  tx_left,    \* bytes of the response not written yet
  delivered,  \* the frames completed so far
  fifo,       \* the device's receive FIFO
  lost,       \* the bytes it dropped
  sending,    \* bytes in the device's transmitter
  ntfn,       \* whether the notification is signalled
  masked,     \* whether IRQ 3 waits for its acknowledgement
  host,       \* the next byte the sender sends
  answered,   \* the responses the sender has heard
  part,       \* the bytes it has of the one after
  ahead       \* bytes of a frame it sends before it heard the last response

rootVars == <<pc, rx_buffer, rx_index, tx_left, delivered>>
irqVars  == <<ntfn, masked>>
hostVars == <<host, answered, part, ahead>>
vars     == <<rootVars, fifo, lost, sending, irqVars, hostVars>>

Slots == 0 .. (FRAME_SIZE - 1)
Bytes == [frame : Nat, at : Slots]
Cells == Bytes \cup {Garbage}

(* FIFOs cleared, interrupt enabled and acknowledged once.                 *)
Init ==
  /\ pc = "poll"
  /\ rx_buffer = [i \in Slots |-> Garbage]
  /\ rx_index = 0
  /\ tx_left = 0
  /\ delivered = <<>>
  /\ fifo = <<>>
  /\ lost = {}
  /\ sending = 0
  /\ ntfn = FALSE
  /\ masked = FALSE
  /\ host = [frame |-> 0, at |-> 0]
  /\ answered = 0
  /\ part = 0
  /\ ahead \in Aheads

-----------------------------------------------------------------------------
(* The root task.  Between a look at the line status and the access it     *)
(* allows the device can only come closer to allowing it: the two are one  *)
(* step.                                                                   *)

uart_com2_has_data == fifo # <<>>

THRE == sending < 2   \* the holding register is empty

Poll ==
  /\ pc = "poll"
  /\ ntfn' = FALSE
  /\ pc' = "look"
  /\ UNCHANGED <<rx_buffer, rx_index, tx_left, delivered, fifo, lost, sending,
                 masked, hostVars>>

Look ==
  /\ pc = "look"
  /\ pc' = IF uart_com2_has_data THEN "drain" ELSE "serve"
  /\ UNCHANGED <<rx_buffer, rx_index, tx_left, delivered, fifo, lost, sending,
                 irqVars, hostVars>>

ReadByteEarly ==   \* mutant: a frame is complete one byte too soon
  /\ pc = "drain"
  /\ uart_com2_has_data
  /\ fifo' = Tail(fifo)
  /\ rx_buffer' = [rx_buffer EXCEPT ![rx_index] = Head(fifo)]
  /\ IF rx_index + 2 = FRAME_SIZE
       THEN /\ rx_index' = 0
            /\ delivered' = Append(delivered, rx_buffer')
            /\ tx_left' = RESP_SIZE
            /\ pc' = "respond"
       ELSE /\ rx_index' = rx_index + 1
            /\ UNCHANGED <<pc, tx_left, delivered>>
  /\ UNCHANGED <<lost, sending, irqVars, hostVars>>

(* One byte; with the last one of a frame, the frame is evaluated and its  *)
(* response is there to be written.                                        *)
ReadByte ==
  /\ pc = "drain"
  /\ uart_com2_has_data
  /\ fifo' = Tail(fifo)
  /\ rx_buffer' = [rx_buffer EXCEPT ![rx_index] = Head(fifo)]
  /\ IF rx_index + 1 = FRAME_SIZE
       THEN /\ rx_index' = 0
            /\ delivered' = Append(delivered, rx_buffer')
            /\ tx_left' = RESP_SIZE
            /\ pc' = "respond"
       ELSE /\ rx_index' = rx_index + 1
            /\ UNCHANGED <<pc, tx_left, delivered>>
  /\ UNCHANGED <<lost, sending, irqVars, hostVars>>

WriteByteTwice ==   \* mutant: the loop steps by two
  /\ pc = "respond"
  /\ tx_left > 0
  /\ THRE
  /\ sending' = sending + 1
  /\ tx_left' = IF tx_left > 1 THEN tx_left - 2 ELSE 0
  /\ UNCHANGED <<pc, rx_buffer, rx_index, delivered, fifo, lost, irqVars, hostVars>>

WriteByte ==
  /\ pc = "respond"
  /\ tx_left > 0
  /\ THRE
  /\ sending' = sending + 1
  /\ tx_left' = tx_left - 1
  /\ UNCHANGED <<pc, rx_buffer, rx_index, delivered, fifo, lost, irqVars, hostVars>>

Written ==
  /\ pc = "respond"
  /\ tx_left = 0
  /\ pc' = "drain"
  /\ UNCHANGED <<rx_buffer, rx_index, tx_left, delivered, fifo, lost, sending,
                 irqVars, hostVars>>

DrainedForgets ==   \* mutant: rx_index local to one drain of the line
  /\ pc = "drain"
  /\ ~uart_com2_has_data
  /\ rx_index' = 0
  /\ pc' = "ack"
  /\ UNCHANGED <<rx_buffer, tx_left, delivered, fifo, lost, sending, irqVars,
                 hostVars>>

DrainedUnacked ==   \* mutant: the acknowledgement left out
  /\ pc = "drain"
  /\ ~uart_com2_has_data
  /\ pc' = "serve"
  /\ UNCHANGED <<rx_buffer, rx_index, tx_left, delivered, fifo, lost, sending,
                 irqVars, hostVars>>

Drained ==
  /\ pc = "drain"
  /\ ~uart_com2_has_data
  /\ pc' = "ack"
  /\ UNCHANGED <<rx_buffer, rx_index, tx_left, delivered, fifo, lost, sending,
                 irqVars, hostVars>>

(* A byte that came since the last look may or may not interrupt again,    *)
(* depending on whether the controller kept its edge.                      *)
Ack ==
  /\ pc = "ack"
  /\ \/ masked' = FALSE /\ UNCHANGED ntfn
     \/ masked' = TRUE /\ ntfn' = TRUE /\ uart_com2_has_data
  /\ pc' = "serve"
  /\ UNCHANGED <<rx_buffer, rx_index, tx_left, delivered, fifo, lost, sending,
                 hostVars>>

(* The endpoint and the yield.                                             *)
ServeClient ==
  /\ pc = "serve"
  /\ pc' = "poll"
  /\ UNCHANGED <<rx_buffer, rx_index, tx_left, delivered, fifo, lost, sending,
                 irqVars, hostVars>>

RootStep ==
  \/ Poll
  \/ Look
  \/ ReadByte
  \/ WriteByte
  \/ Written
  \/ Drained
  \/ Ack
  \/ ServeClient

-----------------------------------------------------------------------------
(* The other end of the line, and the device.                              *)

Following(b) ==
  IF b.at + 1 = FRAME_SIZE THEN [frame |-> b.frame + 1, at |-> 0]
                           ELSE [b EXCEPT !.at = @ + 1]

(* The sender lets some bytes of a frame overlap the response before.      *)
HostMaySend ==
  /\ host.frame < MaxFrames
  /\ host.frame <= answered \/ (host.frame = answered + 1 /\ host.at < ahead)

(* Evaluating and answering a frame takes the time of many bytes; between  *)
(* two reads of a drain less than RX_FIFO bytes come in.                   *)
Busy    == pc = "respond" /\ tx_left > 0
KeepsUp == Len(fifo) < RX_FIFO \/ Busy

ByteArrives ==
  /\ HostMaySend
  /\ KeepsUp
  /\ host' = Following(host)
  /\ IF Len(fifo) < RX_FIFO
       THEN fifo' = Append(fifo, host) /\ UNCHANGED lost
       ELSE lost' = lost \cup {host} /\ UNCHANGED fifo
  /\ IF fifo = <<>> /\ ~masked
       THEN ntfn' = TRUE /\ masked' = TRUE
       ELSE UNCHANGED irqVars
  /\ UNCHANGED <<rootVars, sending, answered, part, ahead>>

HostHears ==
  /\ sending > 0
  /\ sending' = sending - 1
  /\ IF part + 1 = RESP_SIZE
       THEN answered' = answered + 1 /\ part' = 0
       ELSE part' = part + 1 /\ UNCHANGED answered
  /\ UNCHANGED <<rootVars, fifo, lost, irqVars, host, ahead>>

Next == RootStep \/ ByteArrives \/ HostHears

(* The root task is scheduled, and the device transmits what it is given.  *)
Spec == Init /\ [][Next]_vars /\ WF_vars(RootStep) /\ WF_vars(HostHears)

-----------------------------------------------------------------------------
(* The variables have their types.                                         *)
TypeOK ==
  /\ pc \in {"poll", "look", "drain", "respond", "ack", "serve"}
  /\ rx_buffer \in [Slots -> Cells]
  /\ rx_index \in Slots
  /\ tx_left \in 0 .. RESP_SIZE
  /\ delivered \in Seq([Slots -> Cells])
  /\ fifo \in Seq(Bytes)
  /\ Len(fifo) <= RX_FIFO
  /\ lost \subseteq Bytes
  /\ sending \in 0 .. 2
  /\ ntfn \in BOOLEAN
  /\ masked \in BOOLEAN
  /\ host \in Bytes
  /\ answered \in Nat
  /\ part \in 0 .. (RESP_SIZE - 1)
  /\ ahead \in Aheads

(* A sender that stays within the depth of the FIFO.                       *)
Windowed == ahead <= RX_FIFO

(* No byte is dropped while a response is written (uart_com2.h:79), for a  *)
(* sender that runs ahead by the depth of the FIFO at most.                *)
NoOverrun == Windowed => lost = {}

(* The frames in rx_buffer are then the frames sent (main.c:243-247).      *)
Promised == IF Windowed THEN delivered ELSE <<>>

Stream == INSTANCE FrameStream WITH frames <- Promised

ImplementsStream == Stream!Spec

(* IRQ 3 is never left masked: when it waits for an acknowledgement the    *)
(* root task is on its way to give one (main.c:240, 301).                  *)
InterruptRearmed == masked => fifo # <<>> \/ pc \in {"drain", "respond", "ack"}

(* A frame that such a sender has sent to its end is answered to the end.  *)
FramesAnswered ==
  \A k \in 1 .. MaxFrames : (Windowed /\ host.frame >= k) ~> answered >= k

Pos(b) == b.frame * FRAME_SIZE + b.at

(* A dropped byte shifts all that follows: there is no resynchronisation   *)
(* on the magic number (main.c:244-247), so a byte stands as many places   *)
(* before its own as bytes were dropped ahead of it.                       *)
ShiftedByLoss ==
  \A i \in DOMAIN delivered, j \in Slots :
    LET b == delivered[i][j]
    IN  (i - 1) * FRAME_SIZE + j
          = Pos(b) - Cardinality({c \in lost : Pos(c) < Pos(b)})

=============================================================================
